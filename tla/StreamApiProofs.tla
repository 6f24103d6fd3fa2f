---------------------------- MODULE StreamApiProofs ----------------------------
(***************************************************************************)
(* What the stream and rule handlers keep, for any number of streams,      *)
(* requests and rules.  The invariants say what a request knows of its     *)
(* stream at each of its places, in spite of all the others.               *)
(***************************************************************************)
EXTENDS StreamApi, TLAPS

\* What a request is at each place.
OpsKnown ==
  \A c \in Client :
    /\ pc[c] \in {"copy", "store"} => op[c] \in RuleOp
    /\ pc[c] = "index" => op[c] = "addRule"
    /\ pc[c] \in {"unregister", "erase"} => op[c] = "delete"
    /\ pc[c] \in {"lookup", "apply", "save"} => version[c] \in Version

\* Nothing knows an identifier before add_stream draws it.
FreshUnknown ==
  \A s \in fresh :
    /\ s \notin registry \cup handle \cup restarting
    /\ row[s] = NoRow /\ ~Pending(s)
    /\ \A c \in Client : pc[c] # "idle" => subject[c] # s

\* A stream that is being created is out of the reach of every deletion.
CreationProtected ==
  \A c, d \in Client : pc[c] = "start" =>
    /\ subject[c] \in registry \ (handle \cup restarting)
    /\ pc[d] = "unregister" => subject[d] # subject[c]
    /\ pc[d] = "start" /\ subject[d] = subject[c] => d = c

\* A registered stream has a configuration.
ConfigKnown == \A s \in registry : config[s] \in Version

LEMMA SomeStreamType == SomeStream \in Stream
BY ApiAssumption DEF SomeStream

LEMMA DefaultRulesType == DefaultRules \in Seq(Rule)
BY ApiAssumption DEF DefaultRules

LEMMA RemoveAtType ==
  ASSUME NEW list \in Seq(Rule), NEW i \in DOMAIN list
  PROVE  /\ RemoveAt(list, i) \in Seq(Rule)
         /\ Len(RemoveAt(list, i)) = Len(list) - 1
         /\ \A j \in 1..(Len(list) - 1) :
              RemoveAt(list, i)[j] = list[IF j < i THEN j ELSE j + 1]
<1>. DEFINE n == Len(list)
<1>0. n \in Nat /\ i \in 1..n /\ \A j \in 1..n : list[j] \in Rule
  OBVIOUS
<1>1. /\ SubSeq(list, 1, i-1) \in Seq(Rule) /\ Len(SubSeq(list, 1, i-1)) = i - 1
      /\ \A j \in 1..(i-1) : SubSeq(list, 1, i-1)[j] = list[j]
  BY <1>0
<1>2. /\ SubSeq(list, i+1, n) \in Seq(Rule) /\ Len(SubSeq(list, i+1, n)) = n - i
      /\ \A j \in 1..(n-i) : SubSeq(list, i+1, n)[j] = list[i + j]
  BY <1>0
<1>. HIDE DEF n
<1>3. RemoveAt(list, i) = SubSeq(list, 1, i-1) \o SubSeq(list, i+1, n)
  BY DEF RemoveAt, n
<1>4. /\ RemoveAt(list, i) \in Seq(Rule) /\ Len(RemoveAt(list, i)) = n - 1
      /\ \A j \in 1..(n - 1) :
           RemoveAt(list, i)[j] = IF j <= i - 1 THEN SubSeq(list, 1, i-1)[j]
                                  ELSE SubSeq(list, i+1, n)[j - (i - 1)]
  <2>. DEFINE a == SubSeq(list, 1, i-1)  b == SubSeq(list, i+1, n)
  <2>. HIDE DEF a, b
  <2>1. /\ a \o b \in Seq(Rule) /\ Len(a \o b) = Len(a) + Len(b)
        /\ \A j \in 1..(Len(a) + Len(b)) :
             (a \o b)[j] = IF j <= Len(a) THEN a[j] ELSE b[j - Len(a)]
    BY <1>1, <1>2, SMTT(30) DEF a, b
  <2>2. Len(a) = i - 1 /\ Len(b) = n - i /\ Len(a) + Len(b) = n - 1
    BY <1>0, <1>1, <1>2 DEF a, b
  <2>. QED  BY <1>3, <2>1, <2>2 DEF a, b
<1>5. ASSUME NEW j \in 1..(n - 1), j < i PROVE RemoveAt(list, i)[j] = list[j]
  BY <1>0, <1>1, <1>4, <1>5
<1>6. ASSUME NEW j \in 1..(n - 1), ~(j < i) PROVE RemoveAt(list, i)[j] = list[j + 1]
  <2>1. RemoveAt(list, i)[j] = SubSeq(list, i+1, n)[j - (i - 1)]
    BY <1>0, <1>4, <1>6
  <2>2. j - (i - 1) \in 1..(n - i) /\ i + (j - (i - 1)) = j + 1
    BY <1>0, <1>6
  <2>. QED  BY <1>2, <2>1, <2>2
<1>. QED  BY <1>4, <1>5, <1>6 DEF n

LEMMA ChangesType ==
  ASSUME NEW list \in Seq(Rule), NEW o \in RuleOp, NEW new \in Changes(o, list)
  PROVE  new \in Seq(Rule)
<1>1. CASE o = "addRule"
  BY <1>1 DEF Changes
<1>2. CASE o = "setRule"
  BY <1>2 DEF Changes
<1>3. CASE o = "dropRule"
  BY <1>3, RemoveAtType DEF Changes
<1>. QED  BY <1>1, <1>2, <1>3 DEF RuleOp

LEMMA RulesOfType == TypeOK => \A s \in Stream : RulesOf(s) \in Seq(Rule)
BY DEF TypeOK, RulesOf
-----------------------------------------------------------------------------
Place == {"idle", "start", "read", "lookup", "apply", "save", "answer",
          "unregister", "erase", "copy", "store", "index"}

CallsTyped ==
  /\ pc \in [Client -> Place]
  /\ op \in [Client -> {"none", "create", "update", "delete"} \cup RuleOp]
  /\ subject \in [Client -> Stream]
  /\ version \in [Client -> Version \cup {NoRow}]
  /\ draft \in [Client -> Seq(Rule)]

LEMMA GotoType ==
  ASSUME TypeOK, NEW c \in Client, NEW at \in Place, Goto(c, at) PROVE CallsTyped'
BY DEF TypeOK, CallsTyped, Place, Goto

LEMMA RequestType ==
  ASSUME TypeOK, NEW c \in Client, NEW at \in Place, NEW s \in Stream,
         NEW o \in {"none", "create", "update", "delete"} \cup RuleOp,
         NEW v \in Version \cup {NoRow}, Request(c, o, s, v, at)
  PROVE  CallsTyped'
BY DEF TypeOK, CallsTyped, Place, Request

LEMMA ReturnType == ASSUME TypeOK, NEW c \in Client, Return(c) PROVE CallsTyped'
BY RequestType, SomeStreamType DEF Return, Place

LEMMA SpawnType ==
  ASSUME TypeOK, NEW s \in Stream, NEW v \in Version \cup {NoRow}, SpawnWrite(s, v)
  PROVE  writes' \subseteq Write /\ raced' \subseteq Stream
BY DEF TypeOK, SpawnWrite, Write

LEMMA InitType == Init => TypeOK
BY SomeStreamType, DefaultRulesType, ApiAssumption DEF Init, TypeOK, NoRow, Version

LEMMA NextType == ASSUME TypeOK, OpsKnown, [Next]_vars PROVE TypeOK'
<1>. USE DEF TypeOK, streamVars, tableVars, callVars, NoRow, Version
<1>1. ASSUME NEW c \in Client, NEW s \in Stream, CreateStream(c, s) PROVE TypeOK'
  BY <1>1, ApiAssumption, SomeStreamType, DefaultRulesType DEF CreateStream, Request
<1>2. ASSUME NEW c \in Client, NEW s \in Stream, UpdateStream(c, s) PROVE TypeOK'
  BY <1>2, ApiAssumption, SomeStreamType, DefaultRulesType DEF UpdateStream, Request, Exists
<1>3. ASSUME NEW c \in Client, NEW s \in Stream, DeleteStream(c, s) PROVE TypeOK'
  BY <1>3, ApiAssumption, SomeStreamType, DefaultRulesType DEF DeleteStream, Request, Removable
<1>4. ASSUME NEW c \in Client, NEW s \in Stream, NEW o \in RuleOp, AskRules(c, s, o) PROVE TypeOK'
  BY <1>4, ApiAssumption, SomeStreamType, DefaultRulesType DEF AskRules, Request, Exists
<1>5. ASSUME NEW c \in Client, StartNew(c) PROVE TypeOK'
  BY <1>5, ApiAssumption, SomeStreamType, DefaultRulesType DEF StartNew, Goto
<1>6. ASSUME NEW c \in Client, ReadNew(c) PROVE TypeOK'
  <2>1. CallsTyped'
    BY <1>6, GotoType, RequestType DEF ReadNew, Place
  <2>. QED  BY <1>6, <2>1 DEF ReadNew, CallsTyped, Place
<1>7. ASSUME NEW c \in Client, Save(c) PROVE TypeOK'
  <2>1. CallsTyped'
    BY <1>7, GotoType DEF Save, Place
  <2>2. writes' \subseteq Write /\ raced' \subseteq Stream
    BY <1>7, SpawnType DEF Save
  <2>. QED  BY <1>7, <2>1, <2>2 DEF Save, CallsTyped, Place
<1>8. ASSUME NEW c \in Client, Answer(c) PROVE TypeOK'
  BY <1>8, ApiAssumption, SomeStreamType, DefaultRulesType DEF Answer, Return, Request, Unwrap
<1>9. ASSUME NEW c \in Client, LookUp(c) PROVE TypeOK'
  <2>1. CallsTyped'
    BY <1>9, GotoType, ReturnType DEF LookUp, Place
  <2>. QED  BY <1>9, <2>1 DEF LookUp, Unwrap, CallsTyped, Place
<1>10. ASSUME NEW c \in Client, Apply(c) PROVE TypeOK'
  BY <1>10, ApiAssumption, SomeStreamType, DefaultRulesType DEF Apply, Goto
<1>11. ASSUME NEW c \in Client, Unregister(c) PROVE TypeOK'
  BY <1>11, ApiAssumption, SomeStreamType, DefaultRulesType DEF Unregister, Goto, Deregister
<1>12. ASSUME NEW c \in Client, Erase(c) PROVE TypeOK'
  <2>1. CallsTyped'
    BY <1>12, ReturnType DEF Erase
  <2>2. writes' \subseteq Write /\ raced' \subseteq Stream
    BY <1>12, SpawnType DEF Erase
  <2>. QED  BY <1>12, <2>1, <2>2 DEF Erase, CallsTyped, Place
<1>13. ASSUME NEW c \in Client, CopyRules(c) PROVE TypeOK'
  <2>1. CASE Return(c)
    <3>1. CallsTyped'
      BY <2>1, ReturnType
    <3>. QED  BY <1>13, <3>1 DEF CopyRules, CallsTyped, Place
  <2>2. ASSUME pc[c] = "copy", NEW list \in Changes(op[c], RulesOf(subject[c])),
               draft' = [draft EXCEPT ![c] = list]
        PROVE  draft' \in [Client -> Seq(Rule)]
    <3>1. op[c] \in RuleOp /\ RulesOf(subject[c]) \in Seq(Rule)
      BY <2>2, RulesOfType DEF OpsKnown
    <3>. QED  BY <2>2, <3>1, ChangesType
  <2>. QED  BY <1>13, <2>1, <2>2 DEF CopyRules
<1>14. ASSUME NEW c \in Client, StoreRules(c) PROVE TypeOK'
  <2>1. CallsTyped'
    BY <1>14, GotoType, ReturnType DEF StoreRules, Place
  <2>2. rules' \in [Stream -> Seq(Rule)]
    BY <1>14 DEF StoreRules, SetRules
  <2>. QED  BY <1>14, <2>1, <2>2 DEF StoreRules, CallsTyped, Place
<1>15. ASSUME NEW c \in Client, IndexRule(c) PROVE TypeOK'
  BY <1>15, ApiAssumption, SomeStreamType, DefaultRulesType DEF IndexRule, Return, Request
<1>16. ASSUME NEW s \in Stream, Reconnect(s) PROVE TypeOK'
  BY <1>16, ApiAssumption, SomeStreamType, DefaultRulesType DEF Reconnect
<1>17. ASSUME NEW s \in Stream, Reinsert(s) PROVE TypeOK'
  BY <1>17, ApiAssumption, SomeStreamType, DefaultRulesType DEF Reinsert
<1>18. ASSUME NEW w \in writes, RunWrite(w) PROVE TypeOK'
  <2>1. w.stream \in Stream /\ w.config \in Version \cup {NoRow}
    BY DEF Write
  <2>. QED  BY <1>18, <2>1 DEF RunWrite, Execute
<1>19. CASE Restart
  BY <1>19, ApiAssumption, SomeStreamType, DefaultRulesType DEF Restart
<1>20. CASE UNCHANGED vars
  BY <1>20, ApiAssumption, SomeStreamType, DefaultRulesType DEF vars, streamVars, tableVars, callVars
<1>. QED  BY <1>1, <1>2, <1>3, <1>4, <1>5, <1>6, <1>7, <1>8, <1>9, <1>10, <1>11, <1>12, <1>13, <1>14, <1>15, <1>16, <1>17, <1>18, <1>19, <1>20 DEF Next, RequestStep

LEMMA NextOps == ASSUME TypeOK, OpsKnown, ConfigKnown, [Next]_vars PROVE OpsKnown'
<1>. USE DEF TypeOK, streamVars, tableVars, callVars, NoRow, Version, OpsKnown, RuleOp
<1>1. ASSUME NEW c \in Client, NEW s \in Stream, CreateStream(c, s) PROVE OpsKnown'
  BY <1>1, ApiAssumption DEF CreateStream, Request
<1>2. ASSUME NEW c \in Client, NEW s \in Stream, UpdateStream(c, s) PROVE OpsKnown'
  BY <1>2, ApiAssumption DEF UpdateStream, Request, Exists
<1>3. ASSUME NEW c \in Client, NEW s \in Stream, DeleteStream(c, s) PROVE OpsKnown'
  BY <1>3, ApiAssumption DEF DeleteStream, Request, Removable
<1>4. ASSUME NEW c \in Client, NEW s \in Stream, NEW o \in RuleOp, AskRules(c, s, o) PROVE OpsKnown'
  BY <1>4, ApiAssumption DEF AskRules, Request, Exists
<1>5. ASSUME NEW c \in Client, StartNew(c) PROVE OpsKnown'
  BY <1>5, ApiAssumption DEF StartNew, Goto
<1>6. ASSUME NEW c \in Client, ReadNew(c) PROVE OpsKnown'
  <2>1. config[subject[c]] \in Version \/ subject[c] \notin registry
    BY DEF ConfigKnown
  <2>. QED  BY <1>6, <2>1 DEF ReadNew, Goto, Request
<1>7. ASSUME NEW c \in Client, Save(c) PROVE OpsKnown'
  BY <1>7, ApiAssumption DEF Save, Goto, SpawnWrite
<1>8. ASSUME NEW c \in Client, Answer(c) PROVE OpsKnown'
  BY <1>8, ApiAssumption DEF Answer, Return, Request, Unwrap
<1>9. ASSUME NEW c \in Client, LookUp(c) PROVE OpsKnown'
  BY <1>9, ApiAssumption DEF LookUp, Goto, Return, Request, Unwrap
<1>10. ASSUME NEW c \in Client, Apply(c) PROVE OpsKnown'
  BY <1>10, ApiAssumption DEF Apply, Goto
<1>11. ASSUME NEW c \in Client, Unregister(c) PROVE OpsKnown'
  BY <1>11, ApiAssumption DEF Unregister, Goto, Deregister
<1>12. ASSUME NEW c \in Client, Erase(c) PROVE OpsKnown'
  BY <1>12, ApiAssumption DEF Erase, Return, Request, SpawnWrite
<1>13. ASSUME NEW c \in Client, CopyRules(c) PROVE OpsKnown'
  BY <1>13, ApiAssumption DEF CopyRules, Return, Request
<1>14. ASSUME NEW c \in Client, StoreRules(c) PROVE OpsKnown'
  BY <1>14, ApiAssumption DEF StoreRules, Goto, Return, Request, SetRules
<1>15. ASSUME NEW c \in Client, IndexRule(c) PROVE OpsKnown'
  BY <1>15, ApiAssumption DEF IndexRule, Return, Request
<1>16. ASSUME NEW s \in Stream, Reconnect(s) PROVE OpsKnown'
  BY <1>16, ApiAssumption DEF Reconnect
<1>17. ASSUME NEW s \in Stream, Reinsert(s) PROVE OpsKnown'
  BY <1>17, ApiAssumption DEF Reinsert
<1>18. ASSUME NEW w \in writes, RunWrite(w) PROVE OpsKnown'
  BY <1>18, ApiAssumption DEF RunWrite, Execute
<1>19. CASE Restart
  BY <1>19, ApiAssumption DEF Restart
<1>20. CASE UNCHANGED vars
  BY <1>20, ApiAssumption DEF vars, streamVars, tableVars, callVars
<1>. QED  BY <1>1, <1>2, <1>3, <1>4, <1>5, <1>6, <1>7, <1>8, <1>9, <1>10, <1>11, <1>12, <1>13, <1>14, <1>15, <1>16, <1>17, <1>18, <1>19, <1>20 DEF Next, RequestStep

LEMMA NextConfig == ASSUME TypeOK, OpsKnown, ConfigKnown, [Next]_vars PROVE ConfigKnown'
<1>. USE DEF TypeOK, streamVars, tableVars, callVars, NoRow, Version, OpsKnown, ConfigKnown
<1>1. ASSUME NEW c \in Client, NEW s \in Stream, CreateStream(c, s) PROVE ConfigKnown'
  BY <1>1, ApiAssumption DEF CreateStream, Request
<1>2. ASSUME NEW c \in Client, NEW s \in Stream, UpdateStream(c, s) PROVE ConfigKnown'
  BY <1>2, ApiAssumption DEF UpdateStream, Request, Exists
<1>3. ASSUME NEW c \in Client, NEW s \in Stream, DeleteStream(c, s) PROVE ConfigKnown'
  BY <1>3, ApiAssumption DEF DeleteStream, Request, Removable
<1>4. ASSUME NEW c \in Client, NEW s \in Stream, NEW o \in RuleOp, AskRules(c, s, o) PROVE ConfigKnown'
  BY <1>4, ApiAssumption DEF AskRules, Request, Exists
<1>5. ASSUME NEW c \in Client, StartNew(c) PROVE ConfigKnown'
  BY <1>5, ApiAssumption DEF StartNew, Goto
<1>6. ASSUME NEW c \in Client, ReadNew(c) PROVE ConfigKnown'
  BY <1>6, ApiAssumption DEF ReadNew, Goto, Request
<1>7. ASSUME NEW c \in Client, Save(c) PROVE ConfigKnown'
  BY <1>7, ApiAssumption DEF Save, Goto, SpawnWrite
<1>8. ASSUME NEW c \in Client, Answer(c) PROVE ConfigKnown'
  BY <1>8, ApiAssumption DEF Answer, Return, Request, Unwrap
<1>9. ASSUME NEW c \in Client, LookUp(c) PROVE ConfigKnown'
  BY <1>9, ApiAssumption DEF LookUp, Goto, Return, Request, Unwrap
<1>10. ASSUME NEW c \in Client, Apply(c) PROVE ConfigKnown'
  BY <1>10, ApiAssumption DEF Apply, Goto
<1>11. ASSUME NEW c \in Client, Unregister(c) PROVE ConfigKnown'
  BY <1>11, ApiAssumption DEF Unregister, Goto, Deregister
<1>12. ASSUME NEW c \in Client, Erase(c) PROVE ConfigKnown'
  BY <1>12, ApiAssumption DEF Erase, Return, Request, SpawnWrite
<1>13. ASSUME NEW c \in Client, CopyRules(c) PROVE ConfigKnown'
  BY <1>13, ApiAssumption DEF CopyRules, Return, Request
<1>14. ASSUME NEW c \in Client, StoreRules(c) PROVE ConfigKnown'
  BY <1>14, ApiAssumption DEF StoreRules, Goto, Return, Request, SetRules
<1>15. ASSUME NEW c \in Client, IndexRule(c) PROVE ConfigKnown'
  BY <1>15, ApiAssumption DEF IndexRule, Return, Request
<1>16. ASSUME NEW s \in Stream, Reconnect(s) PROVE ConfigKnown'
  BY <1>16, ApiAssumption DEF Reconnect
<1>17. ASSUME NEW s \in Stream, Reinsert(s) PROVE ConfigKnown'
  BY <1>17, ApiAssumption DEF Reinsert
<1>18. ASSUME NEW w \in writes, RunWrite(w) PROVE ConfigKnown'
  BY <1>18, ApiAssumption DEF RunWrite, Execute
<1>19. CASE Restart
  BY <1>19, ApiAssumption DEF Restart
<1>20. CASE UNCHANGED vars
  BY <1>20, ApiAssumption DEF vars, streamVars, tableVars, callVars
<1>. QED  BY <1>1, <1>2, <1>3, <1>4, <1>5, <1>6, <1>7, <1>8, <1>9, <1>10, <1>11, <1>12, <1>13, <1>14, <1>15, <1>16, <1>17, <1>18, <1>19, <1>20 DEF Next, RequestStep

LEMMA NextFresh == ASSUME TypeOK, FreshUnknown, [Next]_vars PROVE FreshUnknown'
<1>. USE DEF TypeOK, streamVars, tableVars, callVars, NoRow, Version, FreshUnknown, Pending
<1>1. ASSUME NEW c \in Client, NEW s \in Stream, CreateStream(c, s) PROVE FreshUnknown'
  BY <1>1, ApiAssumption DEF CreateStream, Request
<1>2. ASSUME NEW c \in Client, NEW s \in Stream, UpdateStream(c, s) PROVE FreshUnknown'
  BY <1>2, ApiAssumption DEF UpdateStream, Request, Exists
<1>3. ASSUME NEW c \in Client, NEW s \in Stream, DeleteStream(c, s) PROVE FreshUnknown'
  BY <1>3, ApiAssumption DEF DeleteStream, Request, Removable
<1>4. ASSUME NEW c \in Client, NEW s \in Stream, NEW o \in RuleOp, AskRules(c, s, o) PROVE FreshUnknown'
  BY <1>4, ApiAssumption DEF AskRules, Request, Exists
<1>5. ASSUME NEW c \in Client, StartNew(c) PROVE FreshUnknown'
  BY <1>5, ApiAssumption DEF StartNew, Goto
<1>6. ASSUME NEW c \in Client, ReadNew(c) PROVE FreshUnknown'
  BY <1>6, ApiAssumption DEF ReadNew, Goto, Request
<1>7. ASSUME NEW c \in Client, Save(c) PROVE FreshUnknown'
  BY <1>7, ApiAssumption DEF Save, Goto, SpawnWrite
<1>8. ASSUME NEW c \in Client, Answer(c) PROVE FreshUnknown'
  BY <1>8, ApiAssumption DEF Answer, Return, Request, Unwrap
<1>9. ASSUME NEW c \in Client, LookUp(c) PROVE FreshUnknown'
  BY <1>9, ApiAssumption DEF LookUp, Goto, Return, Request, Unwrap
<1>10. ASSUME NEW c \in Client, Apply(c) PROVE FreshUnknown'
  BY <1>10, ApiAssumption DEF Apply, Goto
<1>11. ASSUME NEW c \in Client, Unregister(c) PROVE FreshUnknown'
  BY <1>11, ApiAssumption DEF Unregister, Goto, Deregister
<1>12. ASSUME NEW c \in Client, Erase(c) PROVE FreshUnknown'
  BY <1>12, ApiAssumption DEF Erase, Return, Request, SpawnWrite
<1>13. ASSUME NEW c \in Client, CopyRules(c) PROVE FreshUnknown'
  BY <1>13, ApiAssumption DEF CopyRules, Return, Request
<1>14. ASSUME NEW c \in Client, StoreRules(c) PROVE FreshUnknown'
  <2>1. pc' = [pc EXCEPT ![c] = pc'[c]] /\ (pc'[c] # "idle" => subject' = subject)
        /\ \A d \in Client \ {c} : pc'[d] = pc[d] /\ subject'[d] = subject[d]
    BY <1>14 DEF StoreRules, Goto, Return, Request
  <2>. QED  BY <1>14, <2>1, ZenonT(60) DEF StoreRules
<1>15. ASSUME NEW c \in Client, IndexRule(c) PROVE FreshUnknown'
  BY <1>15, ApiAssumption DEF IndexRule, Return, Request
<1>16. ASSUME NEW s \in Stream, Reconnect(s) PROVE FreshUnknown'
  BY <1>16, ApiAssumption DEF Reconnect
<1>17. ASSUME NEW s \in Stream, Reinsert(s) PROVE FreshUnknown'
  BY <1>17, ApiAssumption DEF Reinsert
<1>18. ASSUME NEW w \in writes, RunWrite(w) PROVE FreshUnknown'
  BY <1>18, ApiAssumption DEF RunWrite, Execute
<1>19. CASE Restart
  BY <1>19, ApiAssumption DEF Restart
<1>20. CASE UNCHANGED vars
  BY <1>20, ApiAssumption DEF vars, streamVars, tableVars, callVars
<1>. QED  BY <1>1, <1>2, <1>3, <1>4, <1>5, <1>6, <1>7, <1>8, <1>9, <1>10, <1>11, <1>12, <1>13, <1>14, <1>15, <1>16, <1>17, <1>18, <1>19, <1>20 DEF Next, RequestStep

LEMMA NextCreation == ASSUME TypeOK, OpsKnown, FreshUnknown, CreationProtected, [Next]_vars PROVE CreationProtected'
<1>. USE DEF TypeOK, streamVars, tableVars, callVars, NoRow, Version, CreationProtected, FreshUnknown
<1>1. ASSUME NEW c \in Client, NEW s \in Stream, CreateStream(c, s) PROVE CreationProtected'
  BY <1>1 DEF CreateStream, Request
<1>2. ASSUME NEW c \in Client, NEW s \in Stream, UpdateStream(c, s) PROVE CreationProtected'
  BY <1>2 DEF UpdateStream, Request, Exists
<1>3. ASSUME NEW c \in Client, NEW s \in Stream, DeleteStream(c, s) PROVE CreationProtected'
  BY <1>3 DEF DeleteStream, Request, Removable
<1>4. ASSUME NEW c \in Client, NEW s \in Stream, NEW o \in RuleOp, AskRules(c, s, o) PROVE CreationProtected'
  BY <1>4 DEF AskRules, Request, Exists
<1>5. ASSUME NEW c \in Client, StartNew(c) PROVE CreationProtected'
  BY <1>5 DEF StartNew, Goto
<1>6. ASSUME NEW c \in Client, ReadNew(c) PROVE CreationProtected'
  BY <1>6 DEF ReadNew, Goto, Request
<1>7. ASSUME NEW c \in Client, Save(c) PROVE CreationProtected'
  BY <1>7 DEF Save, Goto, SpawnWrite
<1>8. ASSUME NEW c \in Client, Answer(c) PROVE CreationProtected'
  BY <1>8 DEF Answer, Return, Request, Unwrap
<1>9. ASSUME NEW c \in Client, LookUp(c) PROVE CreationProtected'
  BY <1>9 DEF LookUp, Goto, Return, Request, Unwrap
<1>10. ASSUME NEW c \in Client, Apply(c) PROVE CreationProtected'
  BY <1>10 DEF Apply, Goto
<1>11. ASSUME NEW c \in Client, Unregister(c) PROVE CreationProtected'
  BY <1>11 DEF Unregister, Goto, Deregister
<1>12. ASSUME NEW c \in Client, Erase(c) PROVE CreationProtected'
  BY <1>12 DEF Erase, Return, Request, SpawnWrite
<1>13. ASSUME NEW c \in Client, CopyRules(c) PROVE CreationProtected'
  <2>1. \A d \in Client : pc'[d] \in {"start", "unregister"} => pc'[d] = pc[d] /\ subject'[d] = subject[d]
    BY <1>13 DEF CopyRules, Return, Request
  <2>. QED  BY <1>13, <2>1 DEF CopyRules
<1>14. ASSUME NEW c \in Client, StoreRules(c) PROVE CreationProtected'
  BY <1>14 DEF StoreRules, Goto, Return, Request, SetRules
<1>15. ASSUME NEW c \in Client, IndexRule(c) PROVE CreationProtected'
  BY <1>15 DEF IndexRule, Return, Request
<1>16. ASSUME NEW s \in Stream, Reconnect(s) PROVE CreationProtected'
  BY <1>16 DEF Reconnect
<1>17. ASSUME NEW s \in Stream, Reinsert(s) PROVE CreationProtected'
  BY <1>17 DEF Reinsert
<1>18. ASSUME NEW w \in writes, RunWrite(w) PROVE CreationProtected'
  BY <1>18 DEF RunWrite, Execute
<1>19. CASE Restart
  BY <1>19 DEF Restart
<1>20. CASE UNCHANGED vars
  BY <1>20 DEF vars, streamVars, tableVars, callVars
<1>. QED  BY <1>1, <1>2, <1>3, <1>4, <1>5, <1>6, <1>7, <1>8, <1>9, <1>10, <1>11, <1>12, <1>13, <1>14, <1>15, <1>16, <1>17, <1>18, <1>19, <1>20 DEF Next, RequestStep

LEMMA NextRemovable == ASSUME TypeOK, RegisteredStreamRemovable, [Next]_vars PROVE RegisteredStreamRemovable'
<1>. USE DEF TypeOK, streamVars, tableVars, callVars, NoRow, Version, RegisteredStreamRemovable, BeingCreated, BeingDeleted, Running
<1>1. ASSUME NEW c \in Client, NEW s \in Stream, CreateStream(c, s) PROVE RegisteredStreamRemovable'
  BY <1>1 DEF CreateStream, Request
<1>2. ASSUME NEW c \in Client, NEW s \in Stream, UpdateStream(c, s) PROVE RegisteredStreamRemovable'
  BY <1>2 DEF UpdateStream, Request, Exists
<1>3. ASSUME NEW c \in Client, NEW s \in Stream, DeleteStream(c, s) PROVE RegisteredStreamRemovable'
  BY <1>3 DEF DeleteStream, Request, Removable
<1>4. ASSUME NEW c \in Client, NEW s \in Stream, NEW o \in RuleOp, AskRules(c, s, o) PROVE RegisteredStreamRemovable'
  BY <1>4 DEF AskRules, Request, Exists
<1>5. ASSUME NEW c \in Client, StartNew(c) PROVE RegisteredStreamRemovable'
  BY <1>5 DEF StartNew, Goto
<1>6. ASSUME NEW c \in Client, ReadNew(c) PROVE RegisteredStreamRemovable'
  BY <1>6, ZenonT(60) DEF ReadNew, Goto, Request
<1>7. ASSUME NEW c \in Client, Save(c) PROVE RegisteredStreamRemovable'
  BY <1>7 DEF Save, Goto, SpawnWrite
<1>8. ASSUME NEW c \in Client, Answer(c) PROVE RegisteredStreamRemovable'
  BY <1>8 DEF Answer, Return, Request, Unwrap
<1>9. ASSUME NEW c \in Client, LookUp(c) PROVE RegisteredStreamRemovable'
  BY <1>9, ZenonT(60) DEF LookUp, Goto, Return, Request, Unwrap
<1>10. ASSUME NEW c \in Client, Apply(c) PROVE RegisteredStreamRemovable'
  BY <1>10 DEF Apply, Goto
<1>11. ASSUME NEW c \in Client, Unregister(c) PROVE RegisteredStreamRemovable'
  BY <1>11 DEF Unregister, Goto, Deregister
<1>12. ASSUME NEW c \in Client, Erase(c) PROVE RegisteredStreamRemovable'
  BY <1>12 DEF Erase, Return, Request, SpawnWrite
<1>13. ASSUME NEW c \in Client, CopyRules(c) PROVE RegisteredStreamRemovable'
  BY <1>13, ZenonT(60) DEF CopyRules, Return, Request
<1>14. ASSUME NEW c \in Client, StoreRules(c) PROVE RegisteredStreamRemovable'
  BY <1>14, ZenonT(60) DEF StoreRules, Goto, Return, Request, SetRules
<1>15. ASSUME NEW c \in Client, IndexRule(c) PROVE RegisteredStreamRemovable'
  BY <1>15 DEF IndexRule, Return, Request
<1>16. ASSUME NEW s \in Stream, Reconnect(s) PROVE RegisteredStreamRemovable'
  BY <1>16 DEF Reconnect
<1>17. ASSUME NEW s \in Stream, Reinsert(s) PROVE RegisteredStreamRemovable'
  BY <1>17 DEF Reinsert
<1>18. ASSUME NEW w \in writes, RunWrite(w) PROVE RegisteredStreamRemovable'
  BY <1>18 DEF RunWrite, Execute
<1>19. CASE Restart
  BY <1>19 DEF Restart
<1>20. CASE UNCHANGED vars
  BY <1>20 DEF vars, streamVars, tableVars, callVars
<1>. QED  BY <1>1, <1>2, <1>3, <1>4, <1>5, <1>6, <1>7, <1>8, <1>9, <1>10, <1>11, <1>12, <1>13, <1>14, <1>15, <1>16, <1>17, <1>18, <1>19, <1>20 DEF Next, RequestStep
-----------------------------------------------------------------------------
(***************************************************************************)
(* The table                                                               *)
(***************************************************************************)
Desired(s) == IF s \in registry THEN config[s] ELSE NoRow

AboutToWrite(s) ==
  \E c \in Client : /\ subject[c] = s
                    /\ \/ pc[c] \in {"save", "erase"}
                       \/ pc[c] \in {"start", "read"} /\ s \in registry

\* Writes of a stream that do not overlap leave its row as the registry has it.
RowOrderedAt(s) ==
  /\ \A v, w \in writes : v.stream = s /\ w.stream = s => v = w
  /\ \/ AboutToWrite(s)
     \/ ~Pending(s) /\ row[s] = Desired(s)
     \/ \E w \in writes : w.stream = s /\ w.config = Desired(s)

RowOrdered == \A s \in Stream \ raced : RowOrderedAt(s)

\* A stream whose delete is about to be spawned is out of the registry for good.
ErasedGone == \A c \in Client : pc[c] = "erase" => subject[c] \notin registry

LEMMA NextErased == ASSUME TypeOK, FreshUnknown, ErasedGone, [Next]_vars PROVE ErasedGone'
<1>. USE DEF TypeOK, streamVars, tableVars, callVars, NoRow, Version, ErasedGone, FreshUnknown
<1>1. ASSUME NEW c \in Client, NEW s \in Stream, CreateStream(c, s) PROVE ErasedGone'
  BY <1>1 DEF CreateStream, Request
<1>2. ASSUME NEW c \in Client, NEW s \in Stream, UpdateStream(c, s) PROVE ErasedGone'
  BY <1>2 DEF UpdateStream, Request, Exists
<1>3. ASSUME NEW c \in Client, NEW s \in Stream, DeleteStream(c, s) PROVE ErasedGone'
  BY <1>3 DEF DeleteStream, Request, Removable
<1>4. ASSUME NEW c \in Client, NEW s \in Stream, NEW o \in RuleOp, AskRules(c, s, o) PROVE ErasedGone'
  BY <1>4 DEF AskRules, Request, Exists
<1>5. ASSUME NEW c \in Client, StartNew(c) PROVE ErasedGone'
  BY <1>5 DEF StartNew, Goto
<1>6. ASSUME NEW c \in Client, ReadNew(c) PROVE ErasedGone'
  BY <1>6 DEF ReadNew, Goto, Request
<1>7. ASSUME NEW c \in Client, Save(c) PROVE ErasedGone'
  BY <1>7 DEF Save, Goto, SpawnWrite
<1>8. ASSUME NEW c \in Client, Answer(c) PROVE ErasedGone'
  BY <1>8 DEF Answer, Return, Request, Unwrap
<1>9. ASSUME NEW c \in Client, LookUp(c) PROVE ErasedGone'
  BY <1>9 DEF LookUp, Goto, Return, Request, Unwrap
<1>10. ASSUME NEW c \in Client, Apply(c) PROVE ErasedGone'
  BY <1>10 DEF Apply, Goto
<1>11. ASSUME NEW c \in Client, Unregister(c) PROVE ErasedGone'
  BY <1>11 DEF Unregister, Goto, Deregister
<1>12. ASSUME NEW c \in Client, Erase(c) PROVE ErasedGone'
  BY <1>12 DEF Erase, Return, Request, SpawnWrite
<1>13. ASSUME NEW c \in Client, CopyRules(c) PROVE ErasedGone'
  BY <1>13 DEF CopyRules, Return, Request
<1>14. ASSUME NEW c \in Client, StoreRules(c) PROVE ErasedGone'
  BY <1>14 DEF StoreRules, Goto, Return, Request, SetRules
<1>15. ASSUME NEW c \in Client, IndexRule(c) PROVE ErasedGone'
  BY <1>15 DEF IndexRule, Return, Request
<1>16. ASSUME NEW s \in Stream, Reconnect(s) PROVE ErasedGone'
  BY <1>16 DEF Reconnect
<1>17. ASSUME NEW s \in Stream, Reinsert(s) PROVE ErasedGone'
  BY <1>17 DEF Reinsert
<1>18. ASSUME NEW w \in writes, RunWrite(w) PROVE ErasedGone'
  BY <1>18 DEF RunWrite, Execute
<1>19. CASE Restart
  BY <1>19 DEF Restart
<1>20. CASE UNCHANGED vars
  BY <1>20 DEF vars, streamVars, tableVars, callVars
<1>. QED  BY <1>1, <1>2, <1>3, <1>4, <1>5, <1>6, <1>7, <1>8, <1>9, <1>10, <1>11, <1>12, <1>13, <1>14, <1>15, <1>16, <1>17, <1>18, <1>19, <1>20 DEF Next, RequestStep

LEMMA RowKept ==
  ASSUME NEW s \in Stream, RowOrderedAt(s),
         registry' \cap {s} = registry \cap {s}, config'[s] = config[s], row'[s] = row[s],
         \A w : w.stream = s => (w \in writes' <=> w \in writes),
         AboutToWrite(s) => AboutToWrite(s)'
  PROVE  RowOrderedAt(s)'
<1>1. Desired(s)' = Desired(s) /\ (Pending(s)' <=> Pending(s))
  BY DEF Desired, Pending
<1>. QED  BY <1>1 DEF RowOrderedAt

\* A step of a request that does not touch what the table depends on, and after which
\* it still owes the writes it owed.
LEMMA OwedKept ==
  ASSUME TypeOK, RowOrdered, UNCHANGED <<registry, config, row, writes, raced>>,
         \A d \in Client :
           /\ pc[d] \in {"save", "erase"} => pc'[d] = pc[d] /\ subject'[d] = subject[d]
           /\ pc[d] \in {"start", "read"} /\ subject[d] \in registry =>
                pc'[d] \in {"start", "read", "save"} /\ subject'[d] = subject[d]
  PROVE  RowOrdered'
<1>. SUFFICES ASSUME NEW s \in Stream \ raced PROVE RowOrderedAt(s)'
  BY DEF RowOrdered
<1>1. AboutToWrite(s) => AboutToWrite(s)'
  BY DEF AboutToWrite
<1>. QED  BY <1>1, RowKept DEF RowOrdered

LEMMA NextRow == ASSUME TypeOK, OpsKnown, FreshUnknown, ErasedGone, RowOrdered, [Next]_vars PROVE RowOrdered'
<1>. USE DEF TypeOK, streamVars, tableVars, callVars, NoRow
<1>1. ASSUME NEW c \in Client, NEW s \in Stream, CreateStream(c, s) PROVE RowOrdered'
  <2>. SUFFICES ASSUME NEW t \in Stream, t \notin raced' PROVE RowOrderedAt(t)'
    BY DEF RowOrdered
  <2>1. CASE t = s
    <3>1. AboutToWrite(t)'
      BY <1>1, <2>1 DEF AboutToWrite, CreateStream, Request
    <3>2. ~Pending(s)
      BY <1>1 DEF CreateStream, FreshUnknown
    <3>. QED  BY <1>1, <2>1, <3>1, <3>2 DEF RowOrderedAt, Pending, CreateStream
  <2>2. CASE t # s
    <3>1. AboutToWrite(t) => AboutToWrite(t)'
      BY <1>1, <2>2 DEF AboutToWrite, CreateStream, Request
    <3>2. t \notin raced /\ \A w : w.stream = t => (w \in writes' <=> w \in writes)
      BY <1>1, <2>2 DEF CreateStream, Request
    <3>. QED  BY <1>1, <2>2, <3>1, <3>2, RowKept DEF RowOrdered, CreateStream, Request
  <2>. QED  BY <2>1, <2>2
<1>2. ASSUME NEW c \in Client, NEW s \in Stream, UpdateStream(c, s) PROVE RowOrdered'
  BY <1>2, OwedKept DEF UpdateStream, Request
<1>3. ASSUME NEW c \in Client, NEW s \in Stream, DeleteStream(c, s) PROVE RowOrdered'
  BY <1>3, OwedKept DEF DeleteStream, Request
<1>4. ASSUME NEW c \in Client, NEW s \in Stream, NEW o \in RuleOp, AskRules(c, s, o) PROVE RowOrdered'
  BY <1>4, OwedKept DEF AskRules, Request
<1>5. ASSUME NEW c \in Client, StartNew(c) PROVE RowOrdered'
  BY <1>5, OwedKept DEF StartNew, Goto
<1>6. ASSUME NEW c \in Client, ReadNew(c) PROVE RowOrdered'
  BY <1>6, OwedKept DEF ReadNew, Goto, Request
<1>7. ASSUME NEW c \in Client, Save(c) PROVE RowOrdered'
  <2>. SUFFICES ASSUME NEW t \in Stream, t \notin raced' PROVE RowOrderedAt(t)'
    BY DEF RowOrdered
  <2>1. CASE t = subject[c]
    <3>1. ~Pending(t) /\ t \in registry /\ config[t] = version[c]
      BY <1>7, <2>1 DEF Save, SpawnWrite, OpsKnown, Version
    <3>2. Desired(t)' = version[c]
      BY <1>7, <3>1 DEF Desired, Save
    <3>3. writes' = writes \cup {[stream |-> t, config |-> version[c]]}
      BY <1>7, <2>1 DEF Save, SpawnWrite
    <3>4. PICK w \in writes' : w = [stream |-> t, config |-> version[c]]
      BY <3>3
    <3>5. \A v \in writes' : v.stream = t => v = w
      BY <3>1, <3>3, <3>4 DEF Pending
    <3>6. w.stream = t /\ w.config = Desired(t)'
      BY <3>2, <3>4
    <3>. QED  BY <3>5, <3>6 DEF RowOrderedAt
  <2>2. CASE t # subject[c]
    <3>1. AboutToWrite(t) => AboutToWrite(t)'
      BY <1>7, <2>2 DEF AboutToWrite, Save, SpawnWrite, Goto
    <3>2. t \notin raced /\ \A w : w.stream = t => (w \in writes' <=> w \in writes)
      BY <1>7, <2>2 DEF Save, SpawnWrite, Goto
    <3>. QED  BY <1>7, <2>2, <3>1, <3>2, RowKept DEF RowOrdered, Save, SpawnWrite, Goto
  <2>. QED  BY <2>1, <2>2
<1>8. ASSUME NEW c \in Client, Answer(c) PROVE RowOrdered'
  BY <1>8, OwedKept DEF Answer, Return, Request
<1>9. ASSUME NEW c \in Client, LookUp(c) PROVE RowOrdered'
  BY <1>9, OwedKept DEF LookUp, Goto, Return, Request
<1>10. ASSUME NEW c \in Client, Apply(c) PROVE RowOrdered'
  <2>. SUFFICES ASSUME NEW t \in Stream, t \notin raced' PROVE RowOrderedAt(t)'
    BY DEF RowOrdered
  <2>1. CASE t = subject[c]
    <3>1. AboutToWrite(t)'
      BY <1>10, <2>1 DEF AboutToWrite, Apply, Goto
    <3>. QED  BY <1>10, <3>1 DEF RowOrderedAt, RowOrdered, Apply
  <2>2. CASE t # subject[c]
    <3>1. AboutToWrite(t) => AboutToWrite(t)'
      BY <1>10, <2>2 DEF AboutToWrite, Apply, Goto
    <3>2. t \notin raced /\ \A w : w.stream = t => (w \in writes' <=> w \in writes)
      BY <1>10, <2>2 DEF Apply, Goto
    <3>. QED  BY <1>10, <2>2, <3>1, <3>2, RowKept DEF RowOrdered, Apply, Goto
  <2>. QED  BY <2>1, <2>2
<1>11. ASSUME NEW c \in Client, Unregister(c) PROVE RowOrdered'
  <2>. SUFFICES ASSUME NEW t \in Stream, t \notin raced' PROVE RowOrderedAt(t)'
    BY DEF RowOrdered
  <2>1. CASE t = subject[c]
    <3>1. AboutToWrite(t)'
      BY <1>11, <2>1 DEF AboutToWrite, Unregister, Goto
    <3>. QED  BY <1>11, <3>1 DEF RowOrderedAt, RowOrdered, Unregister
  <2>2. CASE t # subject[c]
    <3>1. AboutToWrite(t) => AboutToWrite(t)'
      BY <1>11, <2>2 DEF AboutToWrite, Unregister, Goto, Deregister
    <3>2. t \notin raced /\ \A w : w.stream = t => (w \in writes' <=> w \in writes)
      BY <1>11, <2>2 DEF Unregister, Goto, Deregister
    <3>. QED  BY <1>11, <2>2, <3>1, <3>2, RowKept DEF RowOrdered, Unregister, Goto, Deregister
  <2>. QED  BY <2>1, <2>2
<1>12. ASSUME NEW c \in Client, Erase(c) PROVE RowOrdered'
  <2>. SUFFICES ASSUME NEW t \in Stream, t \notin raced' PROVE RowOrderedAt(t)'
    BY DEF RowOrdered
  <2>1. CASE t = subject[c]
    <3>1. ~Pending(t) /\ t \notin registry
      BY <1>12, <2>1 DEF Erase, SpawnWrite, ErasedGone
    <3>2. Desired(t)' = NoRow
      BY <1>12, <3>1 DEF Desired, Erase
    <3>3. writes' = writes \cup {[stream |-> t, config |-> NoRow]}
      BY <1>12, <2>1 DEF Erase, SpawnWrite
    <3>4. PICK w \in writes' : w = [stream |-> t, config |-> NoRow]
      BY <3>3
    <3>5. \A v \in writes' : v.stream = t => v = w
      BY <3>1, <3>3, <3>4 DEF Pending
    <3>6. w.stream = t /\ w.config = Desired(t)'
      BY <3>2, <3>4
    <3>. QED  BY <3>5, <3>6 DEF RowOrderedAt
  <2>2. CASE t # subject[c]
    <3>1. AboutToWrite(t) => AboutToWrite(t)'
      BY <1>12, <2>2 DEF AboutToWrite, Erase, SpawnWrite, Return, Request
    <3>2. t \notin raced /\ \A w : w.stream = t => (w \in writes' <=> w \in writes)
      BY <1>12, <2>2 DEF Erase, SpawnWrite, Return, Request
    <3>. QED  BY <1>12, <2>2, <3>1, <3>2, RowKept DEF RowOrdered, Erase, SpawnWrite, Return, Request
  <2>. QED  BY <2>1, <2>2
<1>13. ASSUME NEW c \in Client, CopyRules(c) PROVE RowOrdered'
  BY <1>13, OwedKept DEF CopyRules, Return, Request
<1>14. ASSUME NEW c \in Client, StoreRules(c) PROVE RowOrdered'
  BY <1>14, OwedKept DEF StoreRules, Goto, Return, Request
<1>15. ASSUME NEW c \in Client, IndexRule(c) PROVE RowOrdered'
  BY <1>15, OwedKept DEF IndexRule, Return, Request
<1>16. ASSUME NEW s \in Stream, Reconnect(s) PROVE RowOrdered'
  BY <1>16, OwedKept DEF Reconnect
<1>17. ASSUME NEW s \in Stream, Reinsert(s) PROVE RowOrdered'
  BY <1>17, OwedKept DEF Reinsert
<1>18. ASSUME NEW w \in writes, RunWrite(w) PROVE RowOrdered'
  <2>. SUFFICES ASSUME NEW t \in Stream, t \notin raced' PROVE RowOrderedAt(t)'
    BY DEF RowOrdered
  <2>0. w \in Write /\ w.stream \in Stream /\ writes' = writes \ {w}
    BY <1>18 DEF RunWrite, Write
  <2>1. CASE t = w.stream
    <3>1. t \notin raced /\ row'[t] = w.config
      BY <1>18, <2>0, <2>1 DEF RunWrite, Execute
    <3>2. \A v \in writes : v.stream = t => v = w
      BY <2>1, <3>1 DEF RowOrdered, RowOrderedAt
    <3>3. Desired(t)' = Desired(t) /\ (AboutToWrite(t)' <=> AboutToWrite(t)) /\ ~Pending(t)'
      BY <1>18, <2>0, <3>2 DEF RunWrite, Desired, AboutToWrite, Pending
    <3>4. AboutToWrite(t) \/ w.config = Desired(t)
      BY <2>1, <3>1, <3>2 DEF RowOrdered, RowOrderedAt, Pending
    <3>. QED  BY <2>0, <3>1, <3>3, <3>4 DEF RowOrderedAt, Pending
  <2>2. CASE t # w.stream
    <3>1. AboutToWrite(t)' <=> AboutToWrite(t)
      BY <1>18 DEF AboutToWrite, RunWrite
    <3>2. t \notin raced /\ row'[t] = row[t]
      BY <1>18, <2>0, <2>2 DEF RunWrite, Execute
    <3>3. \A v : v.stream = t => (v \in writes' <=> v \in writes)
      BY <2>0, <2>2
    <3>. QED  BY <1>18, <3>1, <3>2, <3>3, RowKept DEF RowOrdered, RunWrite
  <2>. QED  BY <2>1, <2>2
<1>19. CASE Restart
  <2>. SUFFICES ASSUME NEW t \in Stream, t \notin raced' PROVE RowOrderedAt(t)'
    BY DEF RowOrdered
  <2>1. row[t] = (IF t \in registry' THEN config'[t] ELSE NoRow) /\ row' = row /\ writes' = {}
    BY <1>19 DEF Restart
  <2>. QED  BY <2>1 DEF RowOrderedAt, Pending, Desired
<1>20. CASE UNCHANGED vars
  BY <1>20, OwedKept DEF vars
<1>. QED  BY <1>1, <1>2, <1>3, <1>4, <1>5, <1>6, <1>7, <1>8, <1>9, <1>10, <1>11, <1>12, <1>13, <1>14, <1>15, <1>16, <1>17, <1>18, <1>19, <1>20 DEF Next, RequestStep
-----------------------------------------------------------------------------
(***************************************************************************)
(* Overlapping requests                                                    *)
(***************************************************************************)
\* The stream of a request goes away only under its eyes.
GoneIsDisturbed ==
  \A c \in Client :
    pc[c] \notin {"idle", "unregister", "erase"} /\ subject[c] \notin registry
      => subject[c] \in disturbed

\* What a request knows of the rules, as long as it is alone with the stream.
KnowsRules(c) ==
  /\ \A d \in Client :
       /\ pc[d] \in {"copy", "store", "index"} /\ subject[d] = subject[c] => d = c
       /\ pc[d] \in {"unregister", "erase"} => subject[d] # subject[c]
  /\ subject[c] \in registry
  /\ pc[c] = "store" => OneChange(rules[subject[c]], draft[c])
  /\ pc[c] = "index" => rules[subject[c]] = draft[c]

RuleCalls ==
  \A c \in Client :
    pc[c] \in {"copy", "store", "index"} /\ subject[c] \notin contended => KnowsRules(c)

AddedRule ==
  \A c \in Client : op[c] = "addRule" /\ pc[c] \in {"store", "index"} => draft[c] # <<>>

LEMMA ChangesOne ==
  ASSUME NEW list \in Seq(Rule), NEW o \in RuleOp, NEW new \in Changes(o, list)
  PROVE  OneChange(list, new) /\ (o = "addRule" => new # <<>>)
<1>1. CASE o = "addRule"
  <2>1. PICK r \in Rule : ~Duplicate(list, r) /\ new = Append(list, r)
    BY <1>1 DEF Changes
  <2>2. new # <<>>
    BY <2>1
  <2>. QED  BY <2>1, <2>2 DEF OneChange, Duplicate
<1>2. CASE o = "setRule"
  <2>1. PICK i \in DOMAIN list, r \in Rule : new = [list EXCEPT ![i] = r]
    BY <1>2 DEF Changes
  <2>2. Len(new) = Len(list) /\ \A j \in DOMAIN list \ {i} : new[j] = list[j]
    BY <2>1
  <2>. QED  BY <1>2, <2>2 DEF OneChange
<1>3. CASE o = "dropRule"
  <2>1. PICK i \in DOMAIN list : new = RemoveAt(list, i)
    BY <1>3 DEF Changes
  <2>2. /\ new \in Seq(Rule) /\ Len(new) = Len(list) - 1
        /\ \A j \in 1..(Len(list) - 1) : new[j] = list[IF j < i THEN j ELSE j + 1]
    BY <2>1, RemoveAtType
  <2>3. DOMAIN new = 1..(Len(list) - 1)
    BY <2>2
  <2>. QED  BY <1>3, <2>2, <2>3, SMTT(30) DEF OneChange
<1>. QED  BY <1>1, <1>2, <1>3 DEF RuleOp

LEMMA NextGone == ASSUME TypeOK, OpsKnown, GoneIsDisturbed, [Next]_vars PROVE GoneIsDisturbed'
<1>. USE DEF TypeOK, streamVars, tableVars, callVars, NoRow, Version, GoneIsDisturbed
<1>1. ASSUME NEW c \in Client, NEW s \in Stream, CreateStream(c, s) PROVE GoneIsDisturbed'
  BY <1>1 DEF CreateStream, Request
<1>2. ASSUME NEW c \in Client, NEW s \in Stream, UpdateStream(c, s) PROVE GoneIsDisturbed'
  BY <1>2 DEF UpdateStream, Request, Exists
<1>3. ASSUME NEW c \in Client, NEW s \in Stream, DeleteStream(c, s) PROVE GoneIsDisturbed'
  BY <1>3 DEF DeleteStream, Request, Removable
<1>4. ASSUME NEW c \in Client, NEW s \in Stream, NEW o \in RuleOp, AskRules(c, s, o) PROVE GoneIsDisturbed'
  BY <1>4 DEF AskRules, Request, Exists
<1>5. ASSUME NEW c \in Client, StartNew(c) PROVE GoneIsDisturbed'
  BY <1>5 DEF StartNew, Goto
<1>6. ASSUME NEW c \in Client, ReadNew(c) PROVE GoneIsDisturbed'
  BY <1>6 DEF ReadNew, Goto, Request
<1>7. ASSUME NEW c \in Client, Save(c) PROVE GoneIsDisturbed'
  BY <1>7 DEF Save, Goto, SpawnWrite
<1>8. ASSUME NEW c \in Client, Answer(c) PROVE GoneIsDisturbed'
  BY <1>8 DEF Answer, Return, Request, Unwrap
<1>9. ASSUME NEW c \in Client, LookUp(c) PROVE GoneIsDisturbed'
  BY <1>9 DEF LookUp, Goto, Return, Request, Unwrap
<1>10. ASSUME NEW c \in Client, Apply(c) PROVE GoneIsDisturbed'
  BY <1>10 DEF Apply, Goto
<1>11. ASSUME NEW c \in Client, Unregister(c) PROVE GoneIsDisturbed'
  BY <1>11 DEF Unregister, Goto, Deregister
<1>12. ASSUME NEW c \in Client, Erase(c) PROVE GoneIsDisturbed'
  BY <1>12 DEF Erase, Return, Request, SpawnWrite
<1>13. ASSUME NEW c \in Client, CopyRules(c) PROVE GoneIsDisturbed'
  BY <1>13 DEF CopyRules, Return, Request
<1>14. ASSUME NEW c \in Client, StoreRules(c) PROVE GoneIsDisturbed'
  BY <1>14 DEF StoreRules, Goto, Return, Request, SetRules
<1>15. ASSUME NEW c \in Client, IndexRule(c) PROVE GoneIsDisturbed'
  BY <1>15 DEF IndexRule, Return, Request
<1>16. ASSUME NEW s \in Stream, Reconnect(s) PROVE GoneIsDisturbed'
  BY <1>16 DEF Reconnect
<1>17. ASSUME NEW s \in Stream, Reinsert(s) PROVE GoneIsDisturbed'
  BY <1>17 DEF Reinsert
<1>18. ASSUME NEW w \in writes, RunWrite(w) PROVE GoneIsDisturbed'
  BY <1>18 DEF RunWrite, Execute
<1>19. CASE Restart
  BY <1>19 DEF Restart
<1>20. CASE UNCHANGED vars
  BY <1>20 DEF vars, streamVars, tableVars, callVars
<1>. QED  BY <1>1, <1>2, <1>3, <1>4, <1>5, <1>6, <1>7, <1>8, <1>9, <1>10, <1>11, <1>12, <1>13, <1>14, <1>15, <1>16, <1>17, <1>18, <1>19, <1>20 DEF Next, RequestStep

LEMMA NextAdded == ASSUME TypeOK, OpsKnown, AddedRule, [Next]_vars PROVE AddedRule'
<1>. USE DEF TypeOK, streamVars, tableVars, callVars, NoRow, Version, AddedRule
<1>1. ASSUME NEW c \in Client, NEW s \in Stream, CreateStream(c, s) PROVE AddedRule'
  BY <1>1 DEF CreateStream, Request
<1>2. ASSUME NEW c \in Client, NEW s \in Stream, UpdateStream(c, s) PROVE AddedRule'
  BY <1>2 DEF UpdateStream, Request, Exists
<1>3. ASSUME NEW c \in Client, NEW s \in Stream, DeleteStream(c, s) PROVE AddedRule'
  BY <1>3 DEF DeleteStream, Request, Removable
<1>4. ASSUME NEW c \in Client, NEW s \in Stream, NEW o \in RuleOp, AskRules(c, s, o) PROVE AddedRule'
  BY <1>4 DEF AskRules, Request, Exists
<1>5. ASSUME NEW c \in Client, StartNew(c) PROVE AddedRule'
  BY <1>5 DEF StartNew, Goto
<1>6. ASSUME NEW c \in Client, ReadNew(c) PROVE AddedRule'
  BY <1>6 DEF ReadNew, Goto, Request
<1>7. ASSUME NEW c \in Client, Save(c) PROVE AddedRule'
  BY <1>7 DEF Save, Goto, SpawnWrite
<1>8. ASSUME NEW c \in Client, Answer(c) PROVE AddedRule'
  BY <1>8 DEF Answer, Return, Request, Unwrap
<1>9. ASSUME NEW c \in Client, LookUp(c) PROVE AddedRule'
  BY <1>9 DEF LookUp, Goto, Return, Request, Unwrap
<1>10. ASSUME NEW c \in Client, Apply(c) PROVE AddedRule'
  BY <1>10 DEF Apply, Goto
<1>11. ASSUME NEW c \in Client, Unregister(c) PROVE AddedRule'
  BY <1>11 DEF Unregister, Goto, Deregister
<1>12. ASSUME NEW c \in Client, Erase(c) PROVE AddedRule'
  BY <1>12 DEF Erase, Return, Request, SpawnWrite
<1>13. ASSUME NEW c \in Client, CopyRules(c) PROVE AddedRule'
  <2>1. CASE Return(c)
    BY <1>13, <2>1 DEF CopyRules, Return, Request
  <2>2. ASSUME pc[c] = "copy", NEW list \in Changes(op[c], RulesOf(subject[c])),
               draft' = [draft EXCEPT ![c] = list]
        PROVE  op[c] = "addRule" => list # <<>>
    <3>1. op[c] \in RuleOp /\ RulesOf(subject[c]) \in Seq(Rule)
      BY <2>2, RulesOfType DEF OpsKnown
    <3>. QED  BY <2>2, <3>1, ChangesOne
  <2>. QED  BY <1>13, <2>1, <2>2 DEF CopyRules
<1>14. ASSUME NEW c \in Client, StoreRules(c) PROVE AddedRule'
  BY <1>14 DEF StoreRules, Goto, Return, Request, SetRules
<1>15. ASSUME NEW c \in Client, IndexRule(c) PROVE AddedRule'
  BY <1>15 DEF IndexRule, Return, Request
<1>16. ASSUME NEW s \in Stream, Reconnect(s) PROVE AddedRule'
  BY <1>16 DEF Reconnect
<1>17. ASSUME NEW s \in Stream, Reinsert(s) PROVE AddedRule'
  BY <1>17 DEF Reinsert
<1>18. ASSUME NEW w \in writes, RunWrite(w) PROVE AddedRule'
  BY <1>18 DEF RunWrite, Execute
<1>19. CASE Restart
  BY <1>19 DEF Restart
<1>20. CASE UNCHANGED vars
  BY <1>20 DEF vars, streamVars, tableVars, callVars
<1>. QED  BY <1>1, <1>2, <1>3, <1>4, <1>5, <1>6, <1>7, <1>8, <1>9, <1>10, <1>11, <1>12, <1>13, <1>14, <1>15, <1>16, <1>17, <1>18, <1>19, <1>20 DEF Next, RequestStep

\* A request that leaves the rules alone and is at no place of a rule or delete handler.
LEMMA RuleCallsKept ==
  ASSUME TypeOK, RuleCalls, NEW c \in Client, UNCHANGED <<rules, registry, contended>>,
         pc'[c] \notin {"copy", "store", "index", "unregister", "erase"},
         \A d \in Client \ {c} : pc'[d] = pc[d] /\ subject'[d] = subject[d] /\ draft'[d] = draft[d]
  PROVE  RuleCalls'
<1>. SUFFICES ASSUME NEW d \in Client, pc'[d] \in {"copy", "store", "index"}, subject'[d] \notin contended'
              PROVE  KnowsRules(d)'
  BY DEF RuleCalls
<1>1. d # c /\ pc'[d] = pc[d] /\ subject'[d] = subject[d] /\ draft'[d] = draft[d]
  OBVIOUS
<1>2. KnowsRules(d)
  BY <1>1 DEF RuleCalls
<1>3. subject[d] \in registry
  BY <1>2 DEF KnowsRules
<1>. QED  BY <1>1, <1>2, <1>3 DEF KnowsRules

LEMMA NextRuleCalls == ASSUME TypeOK, OpsKnown, FreshUnknown, RuleCalls, [Next]_vars PROVE RuleCalls'
<1>. USE DEF TypeOK, streamVars, tableVars, callVars, NoRow, Version, RuleCalls, KnowsRules, OpsKnown, RuleOp, FreshUnknown
<1>1. ASSUME NEW c \in Client, NEW s \in Stream, CreateStream(c, s) PROVE RuleCalls'
  BY <1>1 DEF CreateStream, Request
<1>2. ASSUME NEW c \in Client, NEW s \in Stream, UpdateStream(c, s) PROVE RuleCalls'
  BY <1>2 DEF UpdateStream, Request, Exists
<1>3. ASSUME NEW c \in Client, NEW s \in Stream, DeleteStream(c, s) PROVE RuleCalls'
  BY <1>3 DEF DeleteStream, Request, Removable, Others
<1>4. ASSUME NEW c \in Client, NEW s \in Stream, NEW o \in RuleOp, AskRules(c, s, o) PROVE RuleCalls'
  BY <1>4 DEF AskRules, Request, Exists, Others
<1>5. ASSUME NEW c \in Client, StartNew(c) PROVE RuleCalls'
  BY <1>5 DEF StartNew, Goto
<1>6. ASSUME NEW c \in Client, ReadNew(c) PROVE RuleCalls'
  <2>1. /\ pc'[c] \notin {"copy", "store", "index", "unregister", "erase"}
        /\ \A d \in Client \ {c} : pc'[d] = pc[d] /\ subject'[d] = subject[d] /\ draft'[d] = draft[d]
    BY <1>6 DEF ReadNew, Goto, Request
  <2>2. UNCHANGED <<rules, registry, contended>>
    BY <1>6 DEF ReadNew
  <2>. QED  BY <2>1, <2>2, RuleCallsKept
<1>7. ASSUME NEW c \in Client, Save(c) PROVE RuleCalls'
  BY <1>7 DEF Save, Goto, SpawnWrite
<1>8. ASSUME NEW c \in Client, Answer(c) PROVE RuleCalls'
  BY <1>8 DEF Answer, Return, Request, Unwrap
<1>9. ASSUME NEW c \in Client, LookUp(c) PROVE RuleCalls'
  <2>1. /\ pc'[c] \notin {"copy", "store", "index", "unregister", "erase"}
        /\ \A d \in Client \ {c} : pc'[d] = pc[d] /\ subject'[d] = subject[d] /\ draft'[d] = draft[d]
    BY <1>9 DEF LookUp, Goto, Return, Request
  <2>2. UNCHANGED <<rules, registry, contended>>
    BY <1>9 DEF LookUp
  <2>. QED  BY <2>1, <2>2, RuleCallsKept
<1>10. ASSUME NEW c \in Client, Apply(c) PROVE RuleCalls'
  BY <1>10 DEF Apply, Goto
<1>11. ASSUME NEW c \in Client, Unregister(c) PROVE RuleCalls'
  BY <1>11 DEF Unregister, Goto, Deregister
<1>12. ASSUME NEW c \in Client, Erase(c) PROVE RuleCalls'
  BY <1>12 DEF Erase, Return, Request, SpawnWrite
<1>13. ASSUME NEW c \in Client, CopyRules(c) PROVE RuleCalls'
  <2>1. CASE Return(c)
    BY <1>13, <2>1 DEF CopyRules, Return, Request
  <2>2. ASSUME pc[c] = "copy", subject[c] \in registry,
               NEW list \in Changes(op[c], RulesOf(subject[c])),
               draft' = [draft EXCEPT ![c] = list]
        PROVE  OneChange(rules[subject[c]], list)
    <3>1. op[c] \in RuleOp /\ rules[subject[c]] \in Seq(Rule) /\ RulesOf(subject[c]) = rules[subject[c]]
      BY <2>2 DEF OpsKnown, RulesOf
    <3>. QED  BY <2>2, <3>1, ChangesOne
  <2>. QED  BY <1>13, <2>1, <2>2 DEF CopyRules
<1>14. ASSUME NEW c \in Client, StoreRules(c) PROVE RuleCalls'
  <2>1. /\ pc'[c] \in {"index", "idle"} /\ (pc'[c] = "index" => subject' = subject /\ draft' = draft)
        /\ \A d \in Client \ {c} : pc'[d] = pc[d] /\ subject'[d] = subject[d] /\ draft'[d] = draft[d]
    BY <1>14 DEF StoreRules, Goto, Return, Request
  <2>2. /\ pc[c] = "store" /\ UNCHANGED <<registry, contended>>
        /\ \A s \in Stream \ {subject[c]} : rules'[s] = rules[s]
        /\ subject[c] \in registry => rules'[subject[c]] = draft[c]
    BY <1>14 DEF StoreRules, SetRules
  <2>3. ASSUME NEW d \in Client \ {c}, pc[d] \in {"copy", "store", "index"}, subject[d] \notin contended
        PROVE  subject[d] # subject[c]
    BY <2>2, <2>3
  <2>. SUFFICES ASSUME NEW d \in Client, pc'[d] \in {"copy", "store", "index"}, subject'[d] \notin contended'
                PROVE  KnowsRules(d)'
    BY DEF RuleCalls
  <2>4. CASE d = c
    <3>1. pc'[c] = "index" /\ subject'[c] = subject[c] /\ draft'[c] = draft[c]
      BY <2>1, <2>4
    <3>2. KnowsRules(c)
      BY <2>2, <2>4, <3>1 DEF RuleCalls
    <3>. QED  BY <2>1, <2>2, <2>4, <3>1, <3>2 DEF KnowsRules
  <2>5. CASE d # c
    <3>1. pc'[d] = pc[d] /\ subject'[d] = subject[d] /\ draft'[d] = draft[d]
      BY <2>1, <2>5
    <3>2. KnowsRules(d) /\ subject[d] # subject[c]
      BY <2>2, <2>3, <2>5, <3>1 DEF RuleCalls
    <3>3. ASSUME NEW e \in Client, pc'[e] \in {"copy", "store", "index", "unregister", "erase"}
          PROVE  subject'[e] = subject[e] /\ (pc'[e] = pc[e] \/ (e = c /\ pc'[e] = "index"))
      <4>1. CASE e = c
        BY <2>1, <3>3, <4>1
      <4>2. CASE e # c
        <5>1. e \in Client \ {c}
          BY <4>2
        <5>. QED  BY <2>1, <5>1
      <4>. QED  BY <4>1, <4>2
    <3>. QED  BY <2>2, <2>5, <3>1, <3>2, <3>3 DEF KnowsRules
  <2>. QED  BY <2>4, <2>5
<1>15. ASSUME NEW c \in Client, IndexRule(c) PROVE RuleCalls'
  BY <1>15 DEF IndexRule, Return, Request
<1>16. ASSUME NEW s \in Stream, Reconnect(s) PROVE RuleCalls'
  BY <1>16 DEF Reconnect
<1>17. ASSUME NEW s \in Stream, Reinsert(s) PROVE RuleCalls'
  BY <1>17 DEF Reinsert
<1>18. ASSUME NEW w \in writes, RunWrite(w) PROVE RuleCalls'
  BY <1>18 DEF RunWrite, Execute
<1>19. CASE Restart
  BY <1>19 DEF Restart
<1>20. CASE UNCHANGED vars
  BY <1>20 DEF vars, streamVars, tableVars, callVars
<1>. QED  BY <1>1, <1>2, <1>3, <1>4, <1>5, <1>6, <1>7, <1>8, <1>9, <1>10, <1>11, <1>12, <1>13, <1>14, <1>15, <1>16, <1>17, <1>18, <1>19, <1>20 DEF Next, RequestStep

LEMMA NextPanic == ASSUME TypeOK, OpsKnown, GoneIsDisturbed, RuleCalls, AddedRule, PanicNeedsOverlap, [Next]_vars PROVE PanicNeedsOverlap'
<1>. USE DEF TypeOK, streamVars, tableVars, callVars, NoRow, Version, PanicNeedsOverlap, OpsKnown, GoneIsDisturbed, RuleCalls, KnowsRules, AddedRule, RulesOf
<1>1. ASSUME NEW c \in Client, NEW s \in Stream, CreateStream(c, s) PROVE PanicNeedsOverlap'
  BY <1>1 DEF CreateStream, Request
<1>2. ASSUME NEW c \in Client, NEW s \in Stream, UpdateStream(c, s) PROVE PanicNeedsOverlap'
  BY <1>2 DEF UpdateStream, Request, Exists
<1>3. ASSUME NEW c \in Client, NEW s \in Stream, DeleteStream(c, s) PROVE PanicNeedsOverlap'
  BY <1>3 DEF DeleteStream, Request, Removable
<1>4. ASSUME NEW c \in Client, NEW s \in Stream, NEW o \in RuleOp, AskRules(c, s, o) PROVE PanicNeedsOverlap'
  BY <1>4 DEF AskRules, Request, Exists
<1>5. ASSUME NEW c \in Client, StartNew(c) PROVE PanicNeedsOverlap'
  BY <1>5 DEF StartNew, Goto
<1>6. ASSUME NEW c \in Client, ReadNew(c) PROVE PanicNeedsOverlap'
  BY <1>6 DEF ReadNew, Goto, Request
<1>7. ASSUME NEW c \in Client, Save(c) PROVE PanicNeedsOverlap'
  BY <1>7 DEF Save, Goto, SpawnWrite
<1>8. ASSUME NEW c \in Client, Answer(c) PROVE PanicNeedsOverlap'
  BY <1>8, ZenonT(60) DEF Answer, Return, Request, Unwrap
<1>9. ASSUME NEW c \in Client, LookUp(c) PROVE PanicNeedsOverlap'
  BY <1>9, ZenonT(60) DEF LookUp, Unwrap
<1>10. ASSUME NEW c \in Client, Apply(c) PROVE PanicNeedsOverlap'
  BY <1>10 DEF Apply, Goto
<1>11. ASSUME NEW c \in Client, Unregister(c) PROVE PanicNeedsOverlap'
  BY <1>11 DEF Unregister, Goto, Deregister
<1>12. ASSUME NEW c \in Client, Erase(c) PROVE PanicNeedsOverlap'
  BY <1>12 DEF Erase, Return, Request, SpawnWrite
<1>13. ASSUME NEW c \in Client, CopyRules(c) PROVE PanicNeedsOverlap'
  BY <1>13 DEF CopyRules, Return, Request
<1>14. ASSUME NEW c \in Client, StoreRules(c) PROVE PanicNeedsOverlap'
  BY <1>14 DEF StoreRules, Goto, Return, Request, SetRules
<1>15. ASSUME NEW c \in Client, IndexRule(c) PROVE PanicNeedsOverlap'
  BY <1>15 DEF IndexRule, Return, Request
<1>16. ASSUME NEW s \in Stream, Reconnect(s) PROVE PanicNeedsOverlap'
  BY <1>16 DEF Reconnect
<1>17. ASSUME NEW s \in Stream, Reinsert(s) PROVE PanicNeedsOverlap'
  BY <1>17 DEF Reinsert
<1>18. ASSUME NEW w \in writes, RunWrite(w) PROVE PanicNeedsOverlap'
  BY <1>18 DEF RunWrite, Execute
<1>19. CASE Restart
  BY <1>19 DEF Restart
<1>20. CASE UNCHANGED vars
  BY <1>20 DEF vars, streamVars, tableVars, callVars
<1>. QED  BY <1>1, <1>2, <1>3, <1>4, <1>5, <1>6, <1>7, <1>8, <1>9, <1>10, <1>11, <1>12, <1>13, <1>14, <1>15, <1>16, <1>17, <1>18, <1>19, <1>20 DEF Next, RequestStep
-----------------------------------------------------------------------------
IInv ==
  /\ TypeOK /\ OpsKnown /\ ConfigKnown /\ FreshUnknown /\ CreationProtected
  /\ RegisteredStreamRemovable /\ ErasedGone /\ RowOrdered
  /\ GoneIsDisturbed /\ AddedRule /\ RuleCalls /\ PanicNeedsOverlap

LEMMA InitInv == Init => IInv
<1>. SUFFICES ASSUME Init PROVE IInv
  OBVIOUS
<1>1. TypeOK
  BY InitType
<1>2. OpsKnown /\ CreationProtected /\ ErasedGone /\ GoneIsDisturbed /\ AddedRule /\ RuleCalls
  BY DEF Init, OpsKnown, CreationProtected, ErasedGone, GoneIsDisturbed, AddedRule, RuleCalls
<1>3. ConfigKnown /\ RegisteredStreamRemovable /\ PanicNeedsOverlap
  BY DEF Init, ConfigKnown, RegisteredStreamRemovable, PanicNeedsOverlap
<1>4. FreshUnknown /\ RowOrdered
  BY DEF Init, FreshUnknown, RowOrdered, RowOrderedAt, Pending, Desired
<1>. QED  BY <1>1, <1>2, <1>3, <1>4 DEF IInv

LEMMA NextInv == IInv /\ [Next]_vars => IInv'
<1>. SUFFICES ASSUME IInv, [Next]_vars PROVE IInv'
  OBVIOUS
<1>. USE DEF IInv
<1>1. TypeOK' /\ OpsKnown' /\ ConfigKnown' /\ FreshUnknown' /\ CreationProtected'
  BY NextType, NextOps, NextConfig, NextFresh, NextCreation
<1>2. RegisteredStreamRemovable' /\ ErasedGone' /\ RowOrdered'
  BY NextRemovable, NextErased, NextRow
<1>3. GoneIsDisturbed' /\ AddedRule' /\ RuleCalls' /\ PanicNeedsOverlap'
  BY NextGone, NextAdded, NextRuleCalls, NextPanic
<1>. QED  BY <1>1, <1>2, <1>3

LEMMA Inductive == Spec => []IInv
BY InitInv, NextInv, PTL DEF Spec

\* Type correctness, for any streams, requests and rules.
THEOREM ApiTypeCorrect == Spec => []TypeOK
<1>1. IInv => TypeOK
  BY DEF IInv
<1>. QED  BY <1>1, Inductive, PTL

\* A registered stream can be deleted at any time, but while it is being created or deleted.
THEOREM AlwaysRemovable == Spec => []RegisteredStreamRemovable
<1>1. IInv => RegisteredStreamRemovable
  BY DEF IInv
<1>. QED  BY <1>1, Inductive, PTL

\* No request takes away the stream that add_stream has just registered.
THEOREM AddedStreamExists == Spec => []StreamExistsAfterAdd
<1>1. IInv => StreamExistsAfterAdd
  BY DEF IInv, CreationProtected, StreamExistsAfterAdd
<1>. QED  BY <1>1, Inductive, PTL

\* Unless writes of one stream overlap or fail, the table agrees with the registry when
\* none is under way.
THEOREM TableAgrees == Spec => []SettledRowMatches
<1>1. IInv => SettledRowMatches
  <2>. SUFFICES ASSUME IInv, NEW s \in Stream \ raced, ~Pending(s),
                       ~\E c \in Client : Running(c, s, {"start", "read", "save", "erase"})
                PROVE  row[s] = Desired(s)
    BY DEF SettledRowMatches, Desired
  <2>1. ~AboutToWrite(s)
    BY DEF AboutToWrite, Running
  <2>. QED  BY <2>1 DEF IInv, RowOrdered, RowOrderedAt, Pending
<1>. QED  BY <1>1, Inductive, PTL

\* A handler panics, or answers the index 0 - 1, only if another request on its stream
\* overlapped with it.
THEOREM PanicsOnlyOnOverlap == Spec => []PanicNeedsOverlap
<1>1. IInv => PanicNeedsOverlap
  BY DEF IInv
<1>. QED  BY <1>1, Inductive, PTL

\* The index create_rule answers is that of the rule it has created.
THEOREM IndexNamesCreatedRule == Spec => []CreatedRuleIndexed
<1>1. IInv => CreatedRuleIndexed
  BY DEF IInv, RuleCalls, KnowsRules, CreatedRuleIndexed, RulesOf
<1>. QED  BY <1>1, Inductive, PTL

\* The rules of a stream change by one rule at a time, unless requests overlap.
LEMMA StepChangesOne ==
  ASSUME IInv, [Next]_vars, NEW s \in registry \cap registry', s \notin contended,
         rules'[s] # rules[s]
  PROVE  \/ OneChange(rules[s], rules'[s])
         \/ rules'[s] = DefaultRules /\ \A c \in Client : pc'[c] = "idle"
<1>. USE DEF IInv, TypeOK
<1>1. ASSUME NEW c \in Client, StoreRules(c) PROVE OneChange(rules[s], rules'[s])
  <2>1. pc[c] = "store" /\ subject[c] = s /\ rules'[s] = draft[c]
    BY <1>1 DEF StoreRules, SetRules
  <2>. QED  BY <2>1 DEF RuleCalls, KnowsRules
<1>2. ASSUME NEW c \in Client, NEW t \in Stream, CreateStream(c, t) PROVE FALSE
  BY <1>2 DEF CreateStream, FreshUnknown
<1>3. CASE Restart
  BY <1>3 DEF Restart
<1>4. ASSUME NEW c \in Client, RequestStep(c), ~StoreRules(c),
             \A t \in Stream : ~CreateStream(c, t)
      PROVE  rules' = rules
  BY <1>4 DEF RequestStep, UpdateStream, DeleteStream, AskRules, StartNew, ReadNew, Save, Answer,
    LookUp, Apply, Unregister, Erase, CopyRules, IndexRule
<1>5. ASSUME NEW t \in Stream, Reconnect(t) \/ Reinsert(t) PROVE rules' = rules
  BY <1>5 DEF Reconnect, Reinsert
<1>6. ASSUME NEW w \in writes, RunWrite(w) PROVE rules' = rules
  BY <1>6 DEF RunWrite
<1>7. UNCHANGED vars => rules' = rules
  BY DEF vars
<1>. QED  BY <1>1, <1>2, <1>3, <1>4, <1>5, <1>6, <1>7 DEF Next

THEOREM RulesChangeSingly == Spec => RulesChangeOneByOne
<1>1. IInv /\ [Next]_vars => [\A s \in registry \cap registry' :
        \/ s \in contended \/ rules'[s] = rules[s]
        \/ OneChange(rules[s], rules'[s])
        \/ rules'[s] = DefaultRules /\ \A c \in Client : pc'[c] = "idle"]_vars
  BY StepChangesOne
<1>. QED  BY <1>1, Inductive, PTL DEF Spec, RulesChangeOneByOne
=============================================================================

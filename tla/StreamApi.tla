------------------------------- MODULE StreamApi -------------------------------
(***************************************************************************)
(* The stream and rule handlers of a standalone process: concurrent        *)
(* requests over the stream registry, the map of pipeline handles and the  *)
(* streams table.  No lock is held from one call of a handler to the next: *)
(* a handler that asks whether the stream exists, looks it up, changes a   *)
(* copy and stores it is as many steps, and others run in between.         *)
(*                                                                         *)
(* The table is written by spawned tasks, which run in any order, may fail *)
(* unnoticed and die with the process.  A restart reads the table back.    *)
(* Of the pipelines only the handle in the map is here, with the one that  *)
(* a reconnection task may put there after the stream was deleted; the     *)
(* rest is in StreamLifecycle.  Runs of tasks are in TaskEngine.           *)
(* Answers that change nothing (404, 409, 400 before the first change) end *)
(* a request where they are given, and reads are left out.                 *)
(***************************************************************************)
EXTENDS Integers, Sequences, SequencesExt

CONSTANTS
  Stream,       \* stream identifiers; add_stream draws a fresh one
  Client,       \* requests in progress at once
  Rule,         \* rules a client may send
  SceneRule,    \* those of kind SceneChange
  DefaultRule,  \* the Interval rule of a stream that was just registered
  MaxRules,     \* bound of the model: create_rule finds fewer rules
  MaxConfig     \* bound of the model: configurations ever sent

ASSUME ApiAssumption ==
  /\ Stream # {} /\ SceneRule \subseteq Rule /\ DefaultRule \in Rule \ SceneRule
  /\ MaxRules \in Nat /\ MaxConfig \in Nat

VARIABLES
  fresh,      \* identifiers never given out
  registry,   \* streams in the registry
  config,     \* their configuration, numbered in the order the clients sent them
  rules,      \* their rules
  handle,     \* streams with a handle in the pipelines map
  restarting, \* streams whose reconnection task is past its look at the registry
  row,        \* the configuration in the stream's row, NoRow if there is none
  writes,     \* spawned upserts and deletes (config NoRow) that have not run yet
  sent,       \* number of configurations sent
  pc, op, subject, version, draft,  \* requests: place, operation, stream, configuration, rules to store
  raced,      \* history: streams whose row may have been written out of order, or not at all
  contended,  \* history: streams on which two changes of the rules, or one and a delete, overlapped
  disturbed,  \* history: streams removed while another request on them was in progress
  broken      \* history: streams on which a handler panicked, or computed the index 0 - 1

tableVars == <<row, writes, raced>>
streamVars == <<fresh, registry, config, handle, restarting, sent>>
callVars == <<pc, op, subject, version, draft>>
vars == <<fresh, registry, config, rules, handle, restarting, row, writes, sent, pc, op, subject,
          version, draft, raced, contended, disturbed, broken>>
-----------------------------------------------------------------------------
NoRow   == 0
Version == 1..MaxConfig
Write   == [stream : Stream, config : Version \cup {NoRow}]
RuleOp  == {"addRule", "setRule", "dropRule"}

DefaultRules == <<DefaultRule>>
SomeStream   == CHOOSE s \in Stream : TRUE

TypeOK ==
  /\ fresh \subseteq Stream /\ registry \subseteq Stream
  /\ handle \subseteq Stream /\ restarting \subseteq Stream
  /\ config \in [Stream -> Version \cup {NoRow}]
  /\ rules \in [Stream -> Seq(Rule)]
  /\ row \in [Stream -> Version \cup {NoRow}]
  /\ writes \subseteq Write
  /\ sent \in 0..MaxConfig
  /\ pc \in [Client -> {"idle", "start", "read", "lookup", "apply", "save", "answer",
                        "unregister", "erase", "copy", "store", "index"}]
  /\ op \in [Client -> {"none", "create", "update", "delete"} \cup RuleOp]
  /\ subject \in [Client -> Stream]
  /\ version \in [Client -> Version \cup {NoRow}]
  /\ draft \in [Client -> Seq(Rule)]
  /\ raced \subseteq Stream /\ contended \subseteq Stream
  /\ disturbed \subseteq Stream /\ broken \subseteq Stream

Init ==
  /\ fresh = Stream /\ registry = {} /\ handle = {} /\ restarting = {}
  /\ config = [s \in Stream |-> NoRow]
  /\ rules = [s \in Stream |-> DefaultRules]
  /\ row = [s \in Stream |-> NoRow] /\ writes = {}
  /\ sent = 0
  /\ pc = [c \in Client |-> "idle"] /\ op = [c \in Client |-> "none"]
  /\ subject = [c \in Client |-> SomeStream]
  /\ version = [c \in Client |-> NoRow] /\ draft = [c \in Client |-> <<>>]
  /\ raced = {} /\ contended = {} /\ disturbed = {} /\ broken = {}
-----------------------------------------------------------------------------
Goto(c, at) == pc' = [pc EXCEPT ![c] = at] /\ UNCHANGED <<op, subject, version, draft>>

Request(c, o, s, v, at) ==
  /\ pc' = [pc EXCEPT ![c] = at]
  /\ op' = [op EXCEPT ![c] = o]
  /\ subject' = [subject EXCEPT ![c] = s]
  /\ version' = [version EXCEPT ![c] = v]
  /\ draft' = [draft EXCEPT ![c] = <<>>]

Return(c) == Request(c, "none", SomeStream, NoRow, "idle")

\* A request on s other than c's is in progress with one of these operations.
Others(c, s, ops) == \E d \in Client \ {c} : pc[d] # "idle" /\ subject[d] = s /\ op[d] \in ops

Pending(s) == \E w \in writes : w.stream = s

\* registry.exists
AnyStream(s) == TRUE
Exists(s) == s \in registry

\* A handler unwraps a lookup: without the stream it panics.
Unwrap(s) == broken' = IF s \in registry THEN broken ELSE broken \cup {s}

\* A write is spawned; two equal writes are one, as only the last to run matters.
\* History: it may run before one that is still pending, and an upsert may be of a
\* stream that is gone or of a configuration that was replaced meanwhile.
SpawnWrite(s, v) ==
  /\ writes' = writes \cup {[stream |-> s, config |-> v]}
  /\ raced' = IF Pending(s) \/ (v # NoRow /\ (s \notin registry \/ config[s] # v))
              THEN raced \cup {s} ELSE raced
-----------------------------------------------------------------------------
(***************************************************************************)
(* create_stream, once its probe has succeeded                             *)
(***************************************************************************)
\* add_stream: the registry first...
CreateStream(c, s) ==
  /\ pc[c] = "idle" /\ s \in fresh /\ sent < MaxConfig
  /\ sent' = sent + 1
  /\ fresh' = fresh \ {s}
  /\ registry' = registry \cup {s}
  /\ config' = [config EXCEPT ![s] = sent']
  /\ rules' = [rules EXCEPT ![s] = DefaultRules]
  /\ Request(c, "create", s, NoRow, "start")
  /\ UNCHANGED <<handle, restarting, tableVars, contended, disturbed, broken>>

\* ...then the pipeline, whose handle enters the map...
StartNew(c) ==
  /\ pc[c] = "start"
  /\ handle' = handle \cup {subject[c]}
  /\ Goto(c, "read")
  /\ UNCHANGED <<fresh, registry, config, restarting, rules, sent, tableVars, contended,
                 disturbed, broken>>

\* ...and, if the registry still has the stream, an upsert of the configuration found there.
ReadNew(c) ==
  /\ pc[c] = "read"
  /\ IF subject[c] \in registry
     THEN Request(c, op[c], subject[c], config[subject[c]], "save")
     ELSE Goto(c, "answer")
  /\ UNCHANGED <<streamVars, rules, tableVars, contended, disturbed, broken>>

\* The upsert of add_stream and of update_stream_config.
Save(c) ==
  /\ pc[c] = "save"
  /\ SpawnWrite(subject[c], version[c])
  /\ Goto(c, "answer")
  /\ UNCHANGED <<streamVars, rules, row, contended, disturbed, broken>>

\* The answer of create_stream and update_stream is made from another lookup.
Answer(c) ==
  /\ pc[c] = "answer"
  /\ Unwrap(subject[c])
  /\ Return(c)
  /\ UNCHANGED <<streamVars, rules, tableVars, contended, disturbed>>
-----------------------------------------------------------------------------
(***************************************************************************)
(* update_stream                                                           *)
(***************************************************************************)
UpdateStream(c, s) ==
  /\ pc[c] = "idle" /\ sent < MaxConfig /\ Exists(s)
  /\ sent' = sent + 1
  /\ Request(c, "update", s, sent', "lookup")
  /\ UNCHANGED <<fresh, registry, config, handle, restarting, rules, tableVars, contended,
                 disturbed, broken>>

\* The old configuration tells whether the new one is probed; a probe that fails ends
\* the request, and one that does not is awaited before the next step.
LookUp(c) ==
  /\ pc[c] = "lookup"
  /\ Unwrap(subject[c])
  /\ \/ subject[c] \in registry /\ Goto(c, "apply")
     \/ Return(c)
  /\ UNCHANGED <<streamVars, rules, tableVars, contended, disturbed>>

\* update_config ignores a stream that is gone; the upsert follows all the same.
Apply(c) ==
  /\ pc[c] = "apply"
  /\ config' = IF subject[c] \in registry
               THEN [config EXCEPT ![subject[c]] = version[c]] ELSE config
  /\ Goto(c, "save")
  /\ UNCHANGED <<fresh, registry, handle, restarting, sent, rules, tableVars, contended,
                 disturbed, broken>>
-----------------------------------------------------------------------------
(***************************************************************************)
(* delete_stream                                                           *)
(***************************************************************************)
RemovableIfRegistered(s) == s \in registry
Removable(s) == s \in handle

\* remove_stream takes the handle out of the map; without one it does nothing.
DeleteStream(c, s) ==
  /\ pc[c] = "idle" /\ Removable(s)
  /\ handle' = handle \ {s}
  /\ contended' = IF Others(c, s, RuleOp) THEN contended \cup {s} ELSE contended
  /\ Request(c, "delete", s, NoRow, "unregister")
  /\ UNCHANGED <<fresh, registry, config, restarting, sent, rules, tableVars, disturbed, broken>>

KeepRegistered(s) == UNCHANGED registry
Deregister(s) == registry' = registry \ {s}

Unregister(c) ==
  /\ pc[c] = "unregister"
  /\ Deregister(subject[c])
  /\ disturbed' = IF \E d \in Client \ {c} : pc[d] # "idle" /\ subject[d] = subject[c]
                  THEN disturbed \cup {subject[c]} ELSE disturbed
  /\ Goto(c, "erase")
  /\ UNCHANGED <<fresh, config, handle, restarting, sent, rules, tableVars, contended, broken>>

Erase(c) ==
  /\ pc[c] = "erase"
  /\ SpawnWrite(subject[c], NoRow)
  /\ Return(c)
  /\ UNCHANGED <<streamVars, rules, row, contended, disturbed, broken>>

\* A reconnection task finds the stream registered, and may put its new handle in the map
\* when the stream has been deleted: it can then be deleted once more.
Reconnect(s) ==
  /\ s \in registry \cap handle
  /\ restarting' = restarting \cup {s}
  /\ UNCHANGED <<fresh, registry, config, handle, sent, rules, tableVars, callVars, contended,
                 disturbed, broken>>

Reinsert(s) ==
  /\ s \in restarting
  /\ handle' = handle \cup {s}
  /\ restarting' = restarting \ {s}
  /\ UNCHANGED <<fresh, registry, config, sent, rules, tableVars, callVars, contended,
                 disturbed, broken>>
-----------------------------------------------------------------------------
(***************************************************************************)
(* create_rule, update_rule and delete_rule                                *)
(***************************************************************************)
AskRules(c, s, o) ==
  /\ pc[c] = "idle" /\ o \in RuleOp /\ Exists(s)
  /\ contended' = IF Others(c, s, RuleOp \cup {"delete"}) THEN contended \cup {s} ELSE contended
  /\ Request(c, o, s, NoRow, "copy")
  /\ UNCHANGED <<streamVars, rules, tableVars, disturbed, broken>>

\* is_duplicate_rule, over a stream's rules
NeverDuplicate(list, r) == FALSE
Duplicate(list, r) == r \in SceneRule /\ \E i \in DOMAIN list : list[i] \in SceneRule

\* The lists an operation may make of a list: a new rule at the end, another rule in a
\* place, a rule less.
Changes(o, list) ==
  CASE o = "addRule"  -> {Append(list, r) : r \in {q \in Rule : ~Duplicate(list, q)}}
    [] o = "setRule"  -> {[list EXCEPT ![i] = r] : i \in DOMAIN list, r \in Rule}
    [] o = "dropRule" -> {RemoveAt(list, i) : i \in DOMAIN list}

\* get_rules: a clone; of a stream that is gone, the empty list.
RulesOf(s) == IF s \in registry THEN rules[s] ELSE <<>>

\* 409 for a duplicate, 404 for an index out of range
Refused(o, list) == o = "addRule" => \E r \in Rule : Duplicate(list, r)

CopyRules(c) ==
  /\ pc[c] = "copy"
  /\ \/ \E list \in Changes(op[c], RulesOf(subject[c])) :
          /\ Len(list) <= MaxRules
          /\ draft' = [draft EXCEPT ![c] = list]
          /\ pc' = [pc EXCEPT ![c] = "store"]
          /\ UNCHANGED <<op, subject, version>>
     \/ Refused(op[c], RulesOf(subject[c])) /\ Return(c)
  /\ UNCHANGED <<streamVars, rules, tableVars, contended, disturbed, broken>>

ForgetRules(s, list) == UNCHANGED rules
SetRules(s, list) == rules' = [rules EXCEPT ![s] = list]

\* update_rules replaces the list; of a stream that is gone nobody notices.
StoreRules(c) ==
  /\ pc[c] = "store"
  /\ IF subject[c] \in registry THEN SetRules(subject[c], draft[c]) ELSE UNCHANGED rules
  /\ IF op[c] = "addRule" THEN Goto(c, "index") ELSE Return(c)
  /\ UNCHANGED <<streamVars, tableVars, contended, disturbed, broken>>

\* create_rule answers the index of the last rule of another clone: len() - 1.
IndexRule(c) ==
  /\ pc[c] = "index"
  /\ broken' = IF RulesOf(subject[c]) = <<>> THEN broken \cup {subject[c]} ELSE broken
  /\ Return(c)
  /\ UNCHANGED <<streamVars, rules, tableVars, contended, disturbed>>
-----------------------------------------------------------------------------
(***************************************************************************)
(* The table and the process                                               *)
(***************************************************************************)
InsertOnly(w) == row' = [row EXCEPT ![w.stream] = IF w.config = NoRow \/ @ = NoRow THEN w.config ELSE @]
Execute(w) == row' = [row EXCEPT ![w.stream] = w.config]

\* A spawned task runs its statement, an upsert or a delete; nobody sees an error.
RunWrite(w) ==
  /\ w \in writes
  /\ \/ Execute(w) /\ UNCHANGED raced
     \/ raced' = raced \cup {w.stream} /\ UNCHANGED row
  /\ writes' = writes \ {w}
  /\ UNCHANGED <<streamVars, rules, callVars, contended, disturbed, broken>>

\* The process ends, with the tasks it has spawned and the requests in progress, and a
\* new one registers every row and starts it, or none if the query fails.  The rules are
\* in no table.
Restart ==
  /\ \E loaded \in {{s \in Stream : row[s] # NoRow}, {}} :
       /\ registry' = loaded
       /\ raced' = {s \in Stream \ loaded : row[s] # NoRow}
  /\ handle' = registry' /\ restarting' = {}
  /\ config' = row
  /\ rules' = [s \in Stream |-> DefaultRules]
  /\ writes' = {}
  /\ pc' = [c \in Client |-> "idle"] /\ op' = [c \in Client |-> "none"]
  /\ subject' = [c \in Client |-> SomeStream]
  /\ version' = [c \in Client |-> NoRow] /\ draft' = [c \in Client |-> <<>>]
  /\ contended' = {} /\ disturbed' = {} /\ broken' = {}
  /\ UNCHANGED <<fresh, row, sent>>

RequestStep(c) ==
  \/ \E s \in Stream :
       \/ CreateStream(c, s) \/ UpdateStream(c, s) \/ DeleteStream(c, s)
       \/ \E o \in RuleOp : AskRules(c, s, o)
  \/ StartNew(c) \/ ReadNew(c) \/ Save(c) \/ Answer(c) \/ LookUp(c) \/ Apply(c)
  \/ Unregister(c) \/ Erase(c) \/ CopyRules(c) \/ StoreRules(c) \/ IndexRule(c)

Next ==
  \/ \E c \in Client : RequestStep(c)
  \/ \E s \in Stream : Reconnect(s) \/ Reinsert(s)
  \/ \E w \in writes : RunWrite(w)
  \/ Restart

Spec == Init /\ [][Next]_vars
-----------------------------------------------------------------------------
Running(c, s, places) == pc[c] \in places /\ subject[c] = s
BeingCreated(s)       == \E c \in Client : Running(c, s, {"start"})
BeingDeleted(s)       == \E c \in Client : Running(c, s, {"unregister"})

\* remove_stream goes by the handle and answers "not found" without one: a registered
\* stream can nevertheless be deleted at any time, but for the moments in which it is
\* being created or deleted, because every stream a process registers gets a handle and
\* loses it only to its own deletion.
RegisteredStreamRemovable ==
  \A s \in registry : s \in handle \/ BeingCreated(s) \/ BeingDeleted(s)

\* add_stream expects the stream it has just registered: although the identifier is
\* visible to every other request by then, none can take the stream away.
StreamExistsAfterAdd ==
  \A c \in Client : pc[c] = "start" => subject[c] \in registry

\* The table agrees with the registry whenever no write is under way or about to be
\* spawned: it has the configuration of every registered stream, and no other row.
\* What may break that for good is recorded in raced: writes of one stream that overlapped
\* or failed.
SettledRowMatches ==
  \A s \in Stream \ raced :
    \/ Pending(s)
    \/ \E c \in Client : Running(c, s, {"start", "read", "save", "erase"})
    \/ row[s] = IF s \in registry THEN config[s] ELSE NoRow

\* A handler panics, or answers the index 0 - 1, only if another request on the same
\* stream overlapped with it: never because of what a client sent.
PanicNeedsOverlap == broken \subseteq disturbed \cup contended

\* The list differs from the old one in a rule added, replaced or removed, and has no
\* second SceneChange rule if one was added.
OneChange(old, new) ==
  \/ \E r \in Rule : /\ new = Append(old, r)
                     /\ r \in SceneRule => \A i \in DOMAIN old : old[i] \notin SceneRule
  \/ Len(new) = Len(old) /\ \E i \in DOMAIN old : \A j \in DOMAIN old \ {i} : new[j] = old[j]
  \/ /\ Len(new) = Len(old) - 1
     /\ \E i \in DOMAIN old : \A j \in DOMAIN new : new[j] = old[IF j < i THEN j ELSE j + 1]

\* Copy, change and store amount to one change of the list as it is when it is stored,
\* unless two requests on the stream overlap, in which case the first one is lost.  The
\* only other change is the restart's, to the default.
RulesChangeOneByOne ==
  [][\A s \in registry \cap registry' :
       \/ s \in contended \/ rules'[s] = rules[s]
       \/ OneChange(rules[s], rules'[s])
       \/ rules'[s] = DefaultRules /\ \A c \in Client : pc'[c] = "idle"]_vars

\* create_rule names the rule it has created: the last of the list it reads again is
\* the one it has added, unless another request on the stream overlapped.
CreatedRuleIndexed ==
  \A c \in Client :
    pc[c] = "index" /\ subject[c] \notin contended => RulesOf(subject[c]) = draft[c]
=============================================================================

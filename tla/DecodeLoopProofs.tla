--------------------------- MODULE DecodeLoopProofs ---------------------------
(***************************************************************************)
(* Frames leave in display order, each once, and are compared with their   *)
(* neighbour, and the drain keeps the only rule's intervals, for any       *)
(* pictures, rules and presentation times.                                 *)
(***************************************************************************)
EXTENDS DecodeLoop, TLAPS

LEMMA Longer ==
  ASSUME NEW S, NEW s \in Seq(S), NEW e \in S
  PROVE  /\ Append(s, e) \in Seq(S)
         /\ Len(s) \in Nat /\ DOMAIN s = 1..Len(s) /\ DOMAIN Append(s, e) = 1..(Len(s) + 1)
         /\ \A i \in 1..Len(s) : s[i] \in S /\ Append(s, e)[i] = s[i]
         /\ Append(s, e)[Len(s) + 1] = e
OBVIOUS

LEMMA SeqGrows == ASSUME NEW S, NEW s \in Seq(S), NEW e PROVE s \in Seq(S \cup {e})
OBVIOUS

\* What the steps do with the frames: one comes in, one leaves, or neither.
Arrival ==
  /\ phase \in {"loop", "flush"} /\ phase' = phase /\ shown' = shown
  /\ UNCHANGED <<used, comparing, prev>>
  /\ \E p \in Pts, pic \in Picture, cut \in BOOLEAN : Admit(p, pic, cut)
Departure ==
  /\ phase \in {"loop", "drain"} /\ (phase = "loop" => Enough(buffer))
  /\ phase' \in {phase, "over"} /\ UNCHANGED <<arrived, used, comparing>>
  /\ \E f \in buffer, rs \in {rules, engine}, mem \in [Position -> Pts \cup {None}], encodes \in BOOLEAN :
       IsFirst(f, buffer) /\ Leave(f, rs, mem, encodes)
NoFrame ==
  /\ UNCHANGED <<buffer, shown, comparing, prev>> /\ used \subseteq used'
  /\ arrived' \in {arrived, Append(arrived, None)}
  /\ phase' # phase => phase' \in {"drain", "over"} \/ phase = "loop"

LEMMA Steps == ASSUME TypeOK, [Next]_vars PROVE Arrival \/ Departure \/ NoFrame
<1>1. ASSUME NEW p \in Pts, NEW pic \in Picture, NEW cut \in BOOLEAN, Receive(p, pic, cut) PROVE Arrival
  BY <1>1 DEF Receive, Waiting, Arrival, ruleVars, compareVars
<1>2. ASSUME NEW p \in Pts, NEW pic \in Picture, Flush(p, pic) PROVE Arrival
  BY <1>2 DEF Flush, Arrival, ruleVars, compareVars
<1>3. ASSUME NEW f \in buffer, Emit(f) PROVE Departure
  <2>1. rules \in RuleLists /\ Fresh \in [Position -> Pts \cup {None}]
    BY DEF TypeOK, Fresh
  <2>2. PICK encodes \in BOOLEAN : Leave(f, rules, Fresh, encodes) /\ phase' \in {"loop", "over"}
    BY <1>3 DEF Emit
  <2>. QED  BY <1>3, <2>1, <2>2 DEF Emit, Departure, ruleVars
<1>4. ASSUME NEW f \in buffer, Drain(f) PROVE Departure
  BY <1>4 DEF Drain, Departure, TypeOK, ruleVars
<1>5. Skip \/ EndInput \/ EndFlush \/ End \/ (\E rs \in RuleLists : SetRules(rs)) \/ UNCHANGED vars => NoFrame
  BY DEF Skip, EndInput, EndFlush, End, SetRules, vars, NoFrame, ruleVars, compareVars
<1>. QED  BY <1>1, <1>2, <1>3, <1>4, <1>5 DEF Next

LEMMA InitType == Init => TypeOK
<1>1. ASSUME NEW rs, NEW kind PROVE Has(rs, kind) \in BOOLEAN
  BY DEF Has
<1>2. <<>> \in Seq(Pts \cup {None}) /\ <<>> \in Seq(Judged) /\ Fresh \in [Position -> Pts \cup {None}]
  BY DEF Fresh
<1>. QED  BY <1>1, <1>2 DEF Init, TypeOK

LEMMA AdmitType ==
  ASSUME TypeOK, NEW p \in Pts, NEW pic \in Picture, NEW cut \in BOOLEAN, Admit(p, pic, cut)
  PROVE  /\ arrived' \in Seq(Pts \cup {None}) /\ buffer' \subseteq Frame
         /\ (\A f, g \in buffer : f.pts = g.pts => f = g)'
<1>1. Len(arrived) + 1 \in Nat /\ arrived' \in Seq(Pts \cup {None})
  BY Longer DEF TypeOK, Admit
<1>2. [id |-> Len(arrived) + 1, pts |-> p, picture |-> pic, cut |-> cut] \in Frame
  BY <1>1 DEF Frame
<1>. QED  BY <1>1, <1>2 DEF TypeOK, Admit, Insert

LEMMA LeaveType ==
  ASSUME TypeOK, NEW f \in buffer, NEW rs \in RuleLists, NEW encodes \in BOOLEAN,
         NEW mem \in [Position -> Pts \cup {None}], Leave(f, rs, mem, encodes)
  PROVE  /\ buffer' \subseteq Frame /\ (\A g, h \in buffer : g.pts = h.pts => g = h)'
         /\ last' \in [Position -> Pts \cup {None}]
         /\ prev' \in Picture \cup {NoPicture} /\ shown' \in Seq(Judged)
<1>1. f \in Frame /\ f.pts \in Pts /\ f.picture \in Picture
  BY DEF TypeOK, Frame
<1>2. last' \in [Position -> Pts \cup {None}]
  BY <1>1 DEF Leave, Note
<1>3. Static(f) \in {"none", "no", "yes"} /\ prev' \in Picture \cup {NoPicture}
  BY <1>1 DEF Static, Leave, Remember, TypeOK
<1>4. (Evaluate(rs, mem, f) /\ encodes) \in BOOLEAN /\ (phase = "drain") \in BOOLEAN
  OBVIOUS
<1>5. [frame |-> f, static |-> Static(f), out |-> Evaluate(rs, mem, f) /\ encodes,
       drained |-> phase = "drain"] \in Judged
  BY <1>1, <1>3, <1>4 DEF Judged
<1>. QED  BY <1>2, <1>3, <1>5, Longer DEF Leave, TypeOK

LEMMA NextType == ASSUME TypeOK, [Next]_vars PROVE TypeOK'
<1>1. CASE Skip
  BY <1>1, Longer DEF Skip, TypeOK, ruleVars, engineVars, compareVars, Judged
<1>2. ASSUME NEW p \in Pts, NEW pic \in Picture, NEW cut \in BOOLEAN, Receive(p, pic, cut) PROVE TypeOK'
  BY <1>2, AdmitType DEF Receive, TypeOK, ruleVars, engineVars, compareVars
<1>3. ASSUME NEW p \in Pts, NEW pic \in Picture, Flush(p, pic) PROVE TypeOK'
  BY <1>3, AdmitType DEF Flush, TypeOK, ruleVars, engineVars, compareVars
<1>4. ASSUME NEW f \in buffer, Emit(f) PROVE TypeOK'
  <2>1. rules \in RuleLists /\ Fresh \in [Position -> Pts \cup {None}]
    BY DEF TypeOK, Fresh
  <2>2. PICK encodes \in BOOLEAN : Leave(f, rules, Fresh, encodes) /\ phase' \in {"loop", "over"}
    BY <1>4 DEF Emit
  <2>3. scdet' \in BOOLEAN
    BY <1>4 DEF Emit, Has
  <2>. QED  BY <1>4, <2>1, <2>2, <2>3, LeaveType DEF Emit, TypeOK, ruleVars
<1>5. ASSUME NEW f \in buffer, Drain(f) PROVE TypeOK'
  <2>1. PICK encodes \in BOOLEAN : Leave(f, engine, last, encodes)
    BY <1>5 DEF Drain
  <2>. QED  BY <1>5, <2>1, LeaveType DEF Drain, TypeOK, ruleVars
<1>6. ASSUME NEW rs \in RuleLists, SetRules(rs) PROVE TypeOK'
  BY <1>6 DEF SetRules, TypeOK, engineVars, compareVars
<1>7. CASE EndInput \/ EndFlush \/ End
  BY <1>7 DEF EndInput, EndFlush, End, TypeOK, ruleVars, engineVars, compareVars
<1>8. CASE UNCHANGED vars
  BY <1>8 DEF vars, TypeOK
<1>. QED  BY <1>1, <1>2, <1>3, <1>4, <1>5, <1>6, <1>7, <1>8 DEF Next

\* The thread's frames, its buffer and what it remembers of rules and pictures stay well formed.
THEOREM DecodeTypeCorrect == Spec => []TypeOK
BY InitType, NextType, PTL DEF Spec
-----------------------------------------------------------------------------
\* The frames of the buffer and those shown are frames that arrived.
Accounted ==
  /\ \A f \in buffer : f.id \in DOMAIN arrived /\ arrived[f.id] = f.pts
  /\ \A i \in DOMAIN shown :
       shown[i].frame.id \in DOMAIN arrived /\ arrived[shown[i].frame.id] = shown[i].frame.pts

\* What is shown is no later than what waits; and while frames arrive, two that arrived are
\* later still, so that no earlier one may follow.
Ahead ==
  /\ \A i \in DOMAIN shown : \A f \in buffer : shown[i].frame.pts <= f.pts
  /\ phase \in {"loop", "flush"} => \A i \in DOMAIN shown :
       \E m, n \in DOMAIN arrived :
         m # n /\ arrived[m] > shown[i].frame.pts /\ arrived[n] > shown[i].frame.pts

Order == Accounted /\ Ahead /\ DisplayOrder /\ EveryFrameOnce

LEMMA InitOrder == Init => Order
BY DEF Init, Order, Accounted, Ahead, DisplayOrder, EveryFrameOnce

\* The number types that the steps below need.
LEMMA Numbers ==
  ASSUME TypeOK
  PROVE  /\ DOMAIN arrived = 1..Len(arrived) /\ Len(arrived) \in Nat
         /\ \A n \in DOMAIN arrived : arrived[n] \in Int
         /\ \A f \in buffer : f.pts \in Pts /\ f.pts \in Int
         /\ DOMAIN shown = 1..Len(shown) /\ Len(shown) \in Nat
         /\ \A i \in DOMAIN shown : shown[i] \in Judged /\ shown[i].frame.pts \in Int
<1>1. Pts \subseteq Int /\ None \in Int
  BY DecodeAssumption DEF Pts, None
<1>2. \A n \in DOMAIN arrived : arrived[n] \in Pts \cup {None}
  BY DEF TypeOK
<1>3. \A f \in Frame : f.pts \in Pts
  BY DEF Frame
<1>4. \A i \in DOMAIN shown : shown[i] \in Judged
  BY DEF TypeOK
<1>5. \A j \in Judged : j.frame \in Frame
  BY DEF Judged
<1>6. \A i \in DOMAIN shown : shown[i].frame.pts \in Int
  BY <1>1, <1>3, <1>4, <1>5
<1>7. \A f \in buffer : f.pts \in Pts /\ f.pts \in Int
  BY <1>1, <1>3 DEF TypeOK
<1>8. /\ DOMAIN arrived = 1..Len(arrived) /\ Len(arrived) \in Nat
      /\ DOMAIN shown = 1..Len(shown) /\ Len(shown) \in Nat
  BY DEF TypeOK
<1>. QED  BY <1>1, <1>2, <1>4, <1>6, <1>7, <1>8

LEMMA ArrivalOrder == ASSUME TypeOK, Order, Arrival PROVE Order'
<1>1. PICK p \in Pts, pic \in Picture, cut \in BOOLEAN : Admit(p, pic, cut)
  BY DEF Arrival
<1>. DEFINE n == Len(arrived) + 1
            g == [id |-> n, pts |-> p, picture |-> pic, cut |-> cut]
<1>2. /\ DOMAIN arrived = 1..Len(arrived) /\ Len(arrived) \in Nat /\ DOMAIN arrived' = 1..n
      /\ arrived'[n] = p /\ \A m \in DOMAIN arrived : arrived'[m] = arrived[m]
      /\ n \notin DOMAIN arrived /\ DOMAIN arrived \subseteq DOMAIN arrived' /\ n \in DOMAIN arrived'
  BY <1>1, Longer DEF Admit, TypeOK
<1>3. buffer' = {f \in buffer : f.pts # p} \cup {g} /\ g.pts = p /\ g.id = n
  BY <1>1 DEF Admit, Insert
<1>4. shown' = shown /\ phase' = phase /\ phase \in {"loop", "flush"}
  BY DEF Arrival
<1>5. p \in Int /\ p # None
  BY DecodeAssumption DEF Pts, None
<1>6. \A i \in DOMAIN shown : shown[i].frame.pts <= p
  <2>1. SUFFICES ASSUME NEW i \in DOMAIN shown, ~(shown[i].frame.pts <= p) PROVE FALSE
    OBVIOUS
  <2>2. PICK m, k \in DOMAIN arrived :
          m # k /\ arrived[m] > shown[i].frame.pts /\ arrived[k] > shown[i].frame.pts
    BY <1>4 DEF Order, Ahead
  <2>. DEFINE l == shown[i].frame.id
  <2>3. l \in DOMAIN arrived /\ arrived[l] = shown[i].frame.pts
    BY DEF Order, Accounted
  <2>4. shown[i].frame.pts \in Int /\ arrived[m] \in Int /\ arrived[k] \in Int
    BY Numbers
  <2>5. arrived[m] > p /\ arrived[k] > p /\ arrived[l] > p /\ l # m /\ l # k
    BY <1>5, <2>1, <2>2, <2>3, <2>4
  <2>. QED  BY <1>1, <2>2, <2>3, <2>5 DEF Admit, InTurn, AtMostTwo
<1>7. Accounted'
  BY <1>2, <1>3, <1>4 DEF Order, Accounted
<1>8. Ahead'
  <2>1. \A i \in DOMAIN shown' : \A f \in buffer' : shown'[i].frame.pts <= f.pts
    BY <1>3, <1>4, <1>6 DEF Order, Ahead
  <2>2. ASSUME NEW i \in DOMAIN shown'
        PROVE  \E m, k \in DOMAIN arrived' :
                 m # k /\ arrived'[m] > shown'[i].frame.pts /\ arrived'[k] > shown'[i].frame.pts
    BY <1>2, <1>4 DEF Order, Ahead
  <2>. QED  BY <2>1, <2>2 DEF Ahead
<1>9. DisplayOrder'
  BY <1>4 DEF Order, DisplayOrder
<1>10. EveryFrameOnce'
  <2>1. \A f \in buffer' : \A i \in DOMAIN shown' : shown'[i].frame.id # f.id
    BY <1>2, <1>3, <1>4 DEF Order, Accounted, EveryFrameOnce, Shown
  <2>2. ASSUME NEW m \in DOMAIN arrived', arrived'[m] # None
        PROVE  \/ \E i \in DOMAIN shown' : shown'[i].frame.id = m
               \/ \E f \in buffer' : f.id = m
               \/ \E k \in DOMAIN arrived' : k > m /\ arrived'[k] = arrived'[m]
    <3>1. CASE m = n
      BY <3>1, <1>3
    <3>2. CASE m # n
      <4>1. m \in DOMAIN arrived /\ arrived[m] # None /\ n > m
        BY <1>2, <2>2, <3>2
      <4>2. CASE \E f \in buffer : f.id = m
        <5>1. PICK f \in buffer : f.id = m
          BY <4>2
        <5>2. CASE f.pts = p
          BY <1>2, <4>1, <5>1, <5>2 DEF Order, Accounted
        <5>3. CASE f.pts # p
          BY <1>3, <5>1, <5>3
        <5>. QED  BY <5>2, <5>3
      <4>3. CASE Shown(m)
        BY <1>4, <4>3 DEF Shown
      <4>4. CASE \E k \in DOMAIN arrived : k > m /\ arrived[k] = arrived[m]
        BY <1>2, <4>1, <4>4
      <4>. QED  BY <4>1, <4>2, <4>3, <4>4 DEF Order, EveryFrameOnce, Buffered
    <3>. QED  BY <3>1, <3>2
  <2>3. \A i, j \in DOMAIN shown' : shown'[i].frame.id = shown'[j].frame.id => i = j
    BY <1>4 DEF Order, EveryFrameOnce
  <2>. QED  BY <2>1, <2>2, <2>3 DEF EveryFrameOnce, Shown, Buffered
<1>. QED  BY <1>7, <1>8, <1>9, <1>10 DEF Order

LEMMA DepartureOrder == ASSUME TypeOK, TypeOK', Order, Departure PROVE Order'
<1>1. PICK f \in buffer, rs \in {rules, engine}, mem \in [Position -> Pts \cup {None}], encodes \in BOOLEAN :
        IsFirst(f, buffer) /\ Leave(f, rs, mem, encodes)
  BY DEF Departure
<1>. DEFINE n == Len(shown) + 1
<1>2. /\ buffer' = buffer \ {f} /\ arrived' = arrived /\ phase' \in {phase, "over"}
      /\ phase \in {"loop", "drain"} /\ (phase = "loop" => Enough(buffer))
  BY <1>1 DEF Leave, Departure
<1>3. /\ DOMAIN shown = 1..Len(shown) /\ Len(shown) \in Nat /\ DOMAIN shown' = 1..n
      /\ shown'[n].frame = f /\ \A i \in DOMAIN shown : shown'[i] = shown[i]
  <2>. DEFINE e == [frame |-> f, static |-> Static(f), out |-> Evaluate(rs, mem, f) /\ encodes,
                    drained |-> phase = "drain"]
  <2>1. shown' = Append(shown, e) /\ e.frame = f
    BY <1>1 DEF Leave
  <2>2. shown \in Seq(Judged \cup {e})
    BY SeqGrows DEF TypeOK
  <2>. HIDE DEF e
  <2>. QED  BY <2>1, <2>2, Longer
<1>4. \A h \in buffer : f.pts <= h.pts
  BY <1>1 DEF IsFirst
<1>5. \A i \in DOMAIN shown' : shown'[i].frame.pts <= f.pts
  BY <1>3, Numbers DEF Order, Ahead
<1>6. Accounted'
  BY <1>2, <1>3 DEF Order, Accounted
<1>7. Ahead'
  <2>1. \A i \in DOMAIN shown' : \A h \in buffer' : shown'[i].frame.pts <= h.pts
    BY <1>2, <1>3, <1>4 DEF Order, Ahead
  <2>2. ASSUME phase' \in {"loop", "flush"}, NEW i \in DOMAIN shown'
        PROVE  \E m, k \in DOMAIN arrived' :
                 m # k /\ arrived'[m] > shown'[i].frame.pts /\ arrived'[k] > shown'[i].frame.pts
    <3>1. phase = "loop" /\ phase' = "loop"
      BY <1>2, <2>2
    <3>2. PICK g, h, l \in buffer : g # h /\ h # l /\ g # l
      BY <1>2, <3>1 DEF Enough, AtMostTwo
    <3>3. PICK a, b \in buffer : a # b /\ a # f /\ b # f
      BY <3>2
    <3>4. a.pts > f.pts /\ b.pts > f.pts /\ a.pts # b.pts
      BY <1>4, <3>3, Numbers DEF TypeOK
    <3>5. /\ a.id \in DOMAIN arrived /\ arrived[a.id] = a.pts
          /\ b.id \in DOMAIN arrived /\ arrived[b.id] = b.pts
      BY DEF Order, Accounted
    <3>6. a.pts > shown'[i].frame.pts /\ b.pts > shown'[i].frame.pts
      <4>1. a.pts \in Int /\ b.pts \in Int /\ f.pts \in Int /\ shown'[i].frame.pts \in Int
        BY <1>3, Numbers
      <4>. QED  BY <1>5, <3>4, <4>1
    <3>. QED  BY <1>2, <3>4, <3>5, <3>6
  <2>. QED  BY <2>1, <2>2 DEF Ahead
<1>8. DisplayOrder'
  <2>1. SUFFICES ASSUME NEW i \in DOMAIN shown', NEW j \in 1..i
                 PROVE  shown'[j].frame.pts <= shown'[i].frame.pts
    BY DEF DisplayOrder
  <2>2. CASE i = n
    BY <1>3, <1>5, <2>2
  <2>3. CASE i # n
    <3>1. i \in DOMAIN shown /\ j \in DOMAIN shown
      BY <1>3, <2>3
    <3>. QED  BY <1>3, <3>1 DEF Order, DisplayOrder
  <2>. QED  BY <2>2, <2>3
<1>9. EveryFrameOnce'
  <2>1. \A h \in buffer' : h.id # f.id
    BY <1>2 DEF Order, Accounted, TypeOK
  <2>2. \A h \in buffer' : \A i \in DOMAIN shown' : shown'[i].frame.id # h.id
    BY <1>2, <1>3, <2>1 DEF Order, EveryFrameOnce, Shown
  <2>3. \A i \in DOMAIN shown : shown[i].frame.id # f.id
    BY DEF Order, EveryFrameOnce, Shown
  <2>4. \A i, j \in DOMAIN shown' : shown'[i].frame.id = shown'[j].frame.id => i = j
    BY <1>3, <2>3 DEF Order, EveryFrameOnce
  <2>5. ASSUME NEW m \in DOMAIN arrived', arrived'[m] # None
        PROVE  \/ \E i \in DOMAIN shown' : shown'[i].frame.id = m
               \/ \E h \in buffer' : h.id = m
               \/ \E k \in DOMAIN arrived' : k > m /\ arrived'[k] = arrived'[m]
    <3>1. CASE \E h \in buffer : h.id = m
      <4>1. PICK h \in buffer : h.id = m
        BY <3>1
      <4>. QED  BY <1>2, <1>3, <4>1
    <3>2. CASE Shown(m)
      BY <1>3, <3>2 DEF Shown
    <3>. QED  BY <1>2, <2>5, <3>1, <3>2 DEF Order, EveryFrameOnce, Buffered
  <2>. QED  BY <2>2, <2>4, <2>5 DEF EveryFrameOnce, Shown, Buffered
<1>. QED  BY <1>6, <1>7, <1>8, <1>9 DEF Order

LEMMA NoFrameOrder == ASSUME TypeOK, TypeOK', Order, NoFrame PROVE Order'
<1>1. /\ DOMAIN arrived \subseteq DOMAIN arrived' /\ \A n \in DOMAIN arrived : arrived'[n] = arrived[n]
      /\ \A n \in DOMAIN arrived' : n \in DOMAIN arrived \/ arrived'[n] = None
  <2>1. CASE arrived' = arrived
    BY <2>1
  <2>2. CASE arrived' = Append(arrived, None)
    BY <2>2, Longer DEF TypeOK
  <2>. QED  BY <2>1, <2>2 DEF NoFrame
<1>2. UNCHANGED <<buffer, shown>> /\ (phase' \in {"loop", "flush"} => phase \in {"loop", "flush"})
  BY DEF NoFrame
<1>3. Accounted'
  BY <1>1, <1>2 DEF Order, Accounted
<1>4. Ahead'
  BY <1>1, <1>2 DEF Order, Ahead
<1>5. DisplayOrder'
  BY <1>2 DEF Order, DisplayOrder
<1>6. EveryFrameOnce'
  <2>1. \A m \in DOMAIN arrived' : arrived'[m] # None => m \in DOMAIN arrived /\ arrived[m] = arrived'[m]
    BY <1>1
  <2>. QED  BY <1>1, <1>2, <2>1 DEF Order, EveryFrameOnce, Shown, Buffered
<1>. QED  BY <1>3, <1>4, <1>5, <1>6 DEF Order

LEMMA NextOrder == ASSUME TypeOK, Order, [Next]_vars PROVE Order'
BY Steps, NextType, ArrivalOrder, DepartureOrder, NoFrameOrder

\* Frames leave the buffer in the order of their presentation times.
THEOREM FramesLeaveInOrder == Spec => []DisplayOrder
<1>1. TypeOK /\ Order => DisplayOrder
  BY DEF Order
<1>. QED  BY <1>1, InitType, NextType, InitOrder, NextOrder, PTL DEF Spec

\* No admitted frame is judged twice, and none disappears but one that another of its
\* presentation time replaced.
THEOREM NoFrameTwiceOrLost == Spec => []EveryFrameOnce
<1>1. TypeOK /\ Order => EveryFrameOnce
  BY DEF Order
<1>. QED  BY <1>1, InitType, NextType, InitOrder, NextOrder, PTL DEF Spec
-----------------------------------------------------------------------------
\* The comparator keeps the picture of the frame shown last, and it exists if the rules of
\* the start ask for it.
Kept ==
  /\ comparing => prev = IF shown = <<>> THEN NoPicture ELSE shown[Len(shown)].frame.picture
  /\ rules \in used /\ engine \in used
  /\ (\A rs \in used : OnlyStatic(rs)) => comparing

Comparison == Kept /\ ComparedWithNeighbour /\ StaticFramesDropped

LEMMA InitComparison == Init => Comparison
BY DEF Init, Comparison, Kept, ComparedWithNeighbour, StaticFramesDropped, OnlyStatic

\* Only the rules in force and those used before judge a frame.
LEMMA RulesUsed == ASSUME TypeOK, Kept, [Next]_vars PROVE rules' \in used' /\ engine' \in used'
BY DEF Kept, Next, vars, Skip, Receive, Flush, Emit, Drain, SetRules, EndInput, EndFlush, End, ruleVars, engineVars

\* A list of static-frame rules lets no static frame pass.
LEMMA StaticStops ==
  ASSUME NEW rs, OnlyStatic(rs), NEW mem, NEW f, Static(f) = "yes" PROVE ~Evaluate(rs, mem, f)
<1>1. ASSUME NEW i \in DOMAIN rs PROVE ~Passes(rs, mem, f, i)
  <2>1. PICK j \in DOMAIN rs[i] : rs[i][j].kind = "static" /\ ~rs[i][j].force
    BY DEF OnlyStatic
  <2>2. ~AcceptsAt(rs, mem, f, i, j)
    BY <2>1 DEF AcceptsAt, Accepts
  <2>. QED  BY <2>2 DEF Passes
<1>. QED  BY <1>1 DEF Evaluate

LEMMA DepartureComparison == ASSUME TypeOK, TypeOK', Comparison, Departure, rules' \in used', engine' \in used'
                            PROVE  Comparison'
<1>1. PICK f \in buffer, rs \in {rules, engine}, mem \in [Position -> Pts \cup {None}], encodes \in BOOLEAN :
        IsFirst(f, buffer) /\ Leave(f, rs, mem, encodes)
  BY DEF Departure
<1>. DEFINE n == Len(shown) + 1
            e == [frame |-> f, static |-> Static(f), out |-> Evaluate(rs, mem, f) /\ encodes,
                  drained |-> phase = "drain"]
<1>2. /\ e.frame = f /\ e.static = Static(f) /\ (e.out => Evaluate(rs, mem, f))
      /\ shown' = Append(shown, e) /\ prev' = Remember(f)
  BY <1>1 DEF Leave
<1>3. UNCHANGED <<used, comparing>> /\ rs \in used /\ f.picture \in Picture
  BY <1>1 DEF Departure, Comparison, Kept, TypeOK, Frame
<1>4. shown \in Seq(Judged \cup {e})
  BY SeqGrows DEF TypeOK
<1>. HIDE DEF e
<1>5. /\ DOMAIN shown = 1..Len(shown) /\ Len(shown) \in Nat /\ DOMAIN shown' = 1..n
      /\ shown'[n] = e /\ \A i \in DOMAIN shown : shown'[i] = shown[i]
  BY <1>2, <1>4, Longer
<1>6. Len(shown') = n /\ shown' # <<>>
  BY <1>2, <1>4
<1>7. comparing /\ n > 1 => prev = shown'[n - 1].frame.picture
  <2>1. n > 1 => shown # <<>> /\ Len(shown) \in DOMAIN shown
    BY <1>5
  <2>. QED  BY <1>5, <2>1 DEF Comparison, Kept
<1>8. comparing /\ n = 1 => prev = NoPicture
  BY <1>4, <1>5 DEF Comparison, Kept
<1>9. Kept'
  <2>1. comparing' => prev' = shown'[Len(shown')].frame.picture
    BY <1>2, <1>3, <1>5, <1>6 DEF Remember
  <2>. QED  BY <1>3, <1>6, <2>1 DEF Comparison, Kept
<1>10. ComparedWithNeighbour'
  <2>1. SUFFICES ASSUME NEW i \in DOMAIN shown', shown'[i].static = "yes"
                 PROVE  i > 1 /\ shown'[i - 1].frame.picture = shown'[i].frame.picture
    BY DEF ComparedWithNeighbour
  <2>2. CASE i = n
    <3>1. comparing /\ f.picture = prev
      BY <1>2, <1>5, <2>1, <2>2 DEF Static
    <3>2. n > 1
      BY <1>3, <1>5, <1>8, <3>1, DecodeAssumption
    <3>. QED  BY <1>2, <1>5, <1>7, <2>2, <3>1, <3>2
  <2>3. CASE i # n
    <3>1. i \in DOMAIN shown /\ (i > 1 => i - 1 \in DOMAIN shown)
      BY <1>5, <2>3
    <3>2. i > 1 /\ shown[i - 1].frame.picture = shown[i].frame.picture
      BY <1>5, <2>1, <3>1 DEF Comparison, ComparedWithNeighbour
    <3>. QED  BY <1>5, <3>1, <3>2
  <2>. QED  BY <2>2, <2>3
<1>11. StaticFramesDropped'
  <2>1. SUFFICES ASSUME \A s \in used : OnlyStatic(s), NEW i \in DOMAIN shown',
                        i > 1, shown'[i - 1].frame.picture = shown'[i].frame.picture
                 PROVE  ~shown'[i].out
    BY <1>3 DEF StaticFramesDropped
  <2>2. CASE i = n
    <3>1. comparing
      BY <2>1 DEF Comparison, Kept
    <3>2. Static(f) = "yes"
      BY <1>2, <1>5, <1>7, <2>1, <2>2, <3>1 DEF Static
    <3>. QED  BY <1>2, <1>3, <1>5, <2>1, <2>2, <3>2, StaticStops
  <2>3. CASE i # n
    <3>1. i \in DOMAIN shown /\ i - 1 \in DOMAIN shown
      BY <1>5, <2>1, <2>3
    <3>. QED  BY <1>5, <2>1, <3>1 DEF Comparison, StaticFramesDropped
  <2>. QED  BY <2>2, <2>3
<1>. QED  BY <1>9, <1>10, <1>11 DEF Comparison

LEMMA NextComparison == ASSUME TypeOK, Comparison, [Next]_vars PROVE Comparison'
<1>1. rules' \in used' /\ engine' \in used'
  BY RulesUsed DEF Comparison
<1>2. CASE Departure
  BY <1>1, <1>2, NextType, DepartureComparison
<1>3. CASE Arrival \/ NoFrame
  <2>1. UNCHANGED <<shown, comparing, prev>> /\ used \subseteq used'
    BY <1>3 DEF Arrival, NoFrame
  <2>. QED  BY <1>1, <2>1 DEF Comparison, Kept, ComparedWithNeighbour, StaticFramesDropped
<1>. QED  BY <1>2, <1>3, Steps

\* A frame that counts as static shows what the frame shown just before it showed.
THEOREM ComparedInDisplayOrder == Spec => []ComparedWithNeighbour
<1>1. Comparison => ComparedWithNeighbour
  BY DEF Comparison
<1>. QED  BY <1>1, InitType, NextType, InitComparison, NextComparison, PTL DEF Spec

\* While all the rules there were are static-frame rules, no repeated picture is extracted.
THEOREM RepeatedFramesDropped == Spec => []StaticFramesDropped
<1>1. Comparison => StaticFramesDropped
  BY DEF Comparison
<1>. QED  BY <1>1, InitType, NextType, InitComparison, NextComparison, PTL DEF Spec

-----------------------------------------------------------------------------
\* The frames of the drain come last, and an interval leaf of the only rule remembers a time
\* no earlier than that of any frame the drain has extracted.
Remembered ==
  /\ \A i \in DOMAIN shown : shown[i].drained => phase \in {"drain", "over"}
  /\ Len(engine) = 1 =>
       \A i \in DOMAIN shown : shown[i].drained /\ shown[i].out =>
         \A k \in DOMAIN engine[1] : engine[1][k].kind = "interval" =>
           last[<<1, k>>] # None /\ last[<<1, k>>] >= shown[i].frame.pts

Interval == Remembered /\ IntervalKeptInDrain

LEMMA InitInterval == Init => Interval
BY DEF Init, Interval, Remembered, IntervalKeptInDrain

\* What a frame that leaves does to what was shown.
LEMMA LeaveShown ==
  ASSUME TypeOK, NEW f \in buffer, NEW rs, NEW mem, NEW encodes \in BOOLEAN, Leave(f, rs, mem, encodes)
  PROVE  LET n == Len(shown) + 1 IN
         /\ DOMAIN shown = 1..Len(shown) /\ Len(shown) \in Nat /\ DOMAIN shown' = 1..n
         /\ shown'[n].frame = f /\ (shown'[n].drained => phase = "drain")
         /\ shown'[n].out => Evaluate(rs, mem, f)
         /\ \A i \in DOMAIN shown : shown'[i] = shown[i]
<1>. DEFINE e == [frame |-> f, static |-> Static(f), out |-> Evaluate(rs, mem, f) /\ encodes,
                  drained |-> phase = "drain"]
<1>1. /\ shown' = Append(shown, e) /\ e.frame = f /\ (e.drained => phase = "drain")
      /\ e.out => Evaluate(rs, mem, f)
  BY DEF Leave
<1>2. shown \in Seq(Judged \cup {e}) /\ e \in Judged \cup {e}
  BY SeqGrows DEF TypeOK
<1>. HIDE DEF e
<1>. QED  BY <1>1, <1>2, Longer

LEMMA EmitInterval == ASSUME TypeOK, Interval, NEW f \in buffer, Emit(f) PROVE Interval'
<1>1. PICK encodes \in BOOLEAN : Leave(f, rules, Fresh, encodes)
  BY DEF Emit
<1>2. phase = "loop" /\ \A i \in DOMAIN shown : ~shown[i].drained
  BY DEF Emit, Interval, Remembered
<1>3. \A i \in DOMAIN shown' : ~shown'[i].drained
  BY <1>1, <1>2, LeaveShown
<1>. QED  BY <1>3 DEF Interval, Remembered, IntervalKeptInDrain

LEMMA ElementOf == ASSUME NEW S, NEW s \in Seq(S), NEW i \in DOMAIN s PROVE s[i] \in S
OBVIOUS

\* The only rule has extracted a frame: all its leaves were asked and have accepted it.
LEMMA AllAsked ==
  ASSUME TypeOK, Len(engine) = 1, NEW f \in buffer, Evaluate(engine, last, f),
         NEW k \in DOMAIN engine[1], engine[1][k].kind = "interval"
  PROVE  /\ Note(engine, last, f)[<<1, k>>] = f.pts
         /\ last[<<1, k>>] = None \/ f.pts - last[<<1, k>>] >= engine[1][k].gap
<1>1. /\ engine \in Seq(Seq(Leaf)) /\ Len(engine) <= MaxRules /\ MaxRules \in Nat
      /\ \A i \in DOMAIN engine : Len(engine[i]) <= MaxRules
  BY DecodeAssumption DEF TypeOK
<1>2. DOMAIN engine = {1} /\ engine[1] \in Seq(Leaf)
  <2>1. DOMAIN engine = 1..Len(engine)
    BY <1>1
  <2>2. 1 \in DOMAIN engine /\ DOMAIN engine = {1}
    BY <2>1
  <2>. QED  BY <1>1, <2>2, ElementOf
<1>3. Passes(engine, last, f, 1)
  BY <1>2 DEF Evaluate
<1>4. DOMAIN engine[1] = 1..Len(engine[1]) /\ Len(engine[1]) \in Nat
  BY <1>2
<1>5. 1 \in 1..MaxRules /\ k \in 1..MaxRules
  BY <1>1, <1>2, <1>4
<1>6. <<1, k>> \in Position
  BY <1>5 DEF Position
<1>7. Asked(engine, last, f, 1, k)
  <2>1. \A j \in 1..(k - 1) : j \in DOMAIN engine[1]
    BY <1>4
  <2>. QED  BY <1>2, <1>3, <2>1 DEF Asked, Passes
<1>8. AcceptsAt(engine, last, f, 1, k)
  BY <1>3 DEF Passes
<1>9. Note(engine, last, f)[<<1, k>>] = f.pts
  BY <1>6, <1>7, <1>8 DEF Note
<1>10. last[<<1, k>>] = None \/ f.pts - last[<<1, k>>] >= engine[1][k].gap
  BY <1>8 DEF AcceptsAt, Accepts
<1>. QED  BY <1>9, <1>10

LEMMA DrainInterval == ASSUME TypeOK, Order, Interval, NEW f \in buffer, Drain(f) PROVE Interval'
<1>1. PICK encodes \in BOOLEAN : Leave(f, engine, last, encodes)
  BY DEF Drain
<1>. DEFINE n == Len(shown) + 1
<1>2. /\ DOMAIN shown = 1..Len(shown) /\ Len(shown) \in Nat /\ DOMAIN shown' = 1..n
      /\ shown'[n].frame = f /\ (shown'[n].out => Evaluate(engine, last, f))
      /\ \A i \in DOMAIN shown : shown'[i] = shown[i]
  BY <1>1, LeaveShown
<1>3. phase' = "drain" /\ engine' = engine /\ last' = Note(engine, last, f)
  BY <1>1 DEF Drain, Leave
<1>4. \A i \in DOMAIN shown : shown[i].frame.pts <= f.pts /\ shown[i].frame.pts \in Int
  BY Numbers DEF Order, Ahead
<1>5. f.pts \in Int /\ f.pts # None
  BY Numbers, DecodeAssumption DEF Pts, None
<1>6. Remembered'
  <2>1. SUFFICES ASSUME Len(engine) = 1, NEW i \in DOMAIN shown', shown'[i].drained, shown'[i].out,
                        NEW k \in DOMAIN engine[1], engine[1][k].kind = "interval"
                 PROVE  last'[<<1, k>>] # None /\ last'[<<1, k>>] >= shown'[i].frame.pts
    BY <1>3 DEF Remembered
  <2>2. CASE i = n
    BY <1>2, <1>3, <1>5, <2>1, <2>2, AllAsked
  <2>3. CASE i # n
    <3>1. i \in DOMAIN shown /\ shown'[i] = shown[i]
      BY <1>2, <2>3
    <3>2. last[<<1, k>>] # None /\ last[<<1, k>>] >= shown[i].frame.pts
      BY <2>1, <3>1 DEF Interval, Remembered
    <3>3. last'[<<1, k>>] \in {f.pts, last[<<1, k>>]}
      <4>1. /\ engine \in Seq(Seq(Leaf)) /\ Len(engine) <= MaxRules /\ MaxRules \in Nat
            /\ \A m \in DOMAIN engine : Len(engine[m]) <= MaxRules
        BY DecodeAssumption DEF TypeOK
      <4>2. 1 \in 1..MaxRules /\ k \in 1..MaxRules
        BY <2>1, <4>1
      <4>3. <<1, k>> \in Position
        BY <4>2 DEF Position
      <4>. QED  BY <1>3, <4>3 DEF Note
    <3>. QED  BY <1>4, <1>5, <3>1, <3>2, <3>3
  <2>. QED  BY <2>2, <2>3
<1>7. IntervalKeptInDrain'
  <2>1. SUFFICES ASSUME Len(engine) = 1, NEW i \in DOMAIN shown', NEW j \in DOMAIN shown', i < j,
                        shown'[i].drained, shown'[i].out, shown'[j].out,
                        NEW k \in DOMAIN engine[1], engine[1][k].kind = "interval"
                 PROVE  shown'[j].frame.pts - shown'[i].frame.pts >= engine[1][k].gap
    BY <1>3 DEF IntervalKeptInDrain
  <2>2. i \in DOMAIN shown /\ shown'[i] = shown[i]
    BY <1>2, <2>1
  <2>3. CASE j = n
    <3>1. last[<<1, k>>] # None /\ last[<<1, k>>] >= shown[i].frame.pts
      BY <2>1, <2>2 DEF Interval, Remembered
    <3>2. f.pts - last[<<1, k>>] >= engine[1][k].gap
      BY <1>2, <2>1, <2>3, <3>1, AllAsked
    <3>3. last[<<1, k>>] \in Int /\ engine[1][k].gap \in Int
      <4>1. /\ engine \in Seq(Seq(Leaf)) /\ Len(engine) <= MaxRules /\ MaxRules \in Nat
            /\ \A m \in DOMAIN engine : Len(engine[m]) <= MaxRules
        BY DecodeAssumption DEF TypeOK
      <4>2. 1 \in 1..MaxRules /\ k \in 1..MaxRules
        BY <2>1, <4>1
      <4>3. <<1, k>> \in Position
        BY <4>2 DEF Position
      <4>4. last[<<1, k>>] \in Pts \cup {None} /\ Pts \subseteq Int /\ None \in Int
        BY <4>3, DecodeAssumption DEF TypeOK, Pts, None
      <4>5. engine[1] \in Seq(Leaf)
        <5>1. 1 \in DOMAIN engine
          BY <2>1, <4>1
        <5>. QED  BY <4>1, <5>1, ElementOf
      <4>6. engine[1][k] \in Leaf
        BY <2>1, <4>5
      <4>7. engine[1][k].gap \in Nat
        BY <4>6 DEF Leaf
      <4>8. last[<<1, k>>] \in Int
        BY <4>4
      <4>. QED  BY <4>7, <4>8
    <3>. QED  BY <1>2, <1>4, <1>5, <2>2, <2>3, <3>1, <3>2, <3>3
  <2>4. CASE j # n
    <3>1. j \in DOMAIN shown /\ shown'[j] = shown[j]
      BY <1>2, <2>4
    <3>. QED  BY <2>1, <2>2, <3>1 DEF Interval, IntervalKeptInDrain
  <2>. QED  BY <2>3, <2>4
<1>. QED  BY <1>6, <1>7 DEF Interval

LEMMA NextInterval == ASSUME TypeOK, Order, Interval, [Next]_vars PROVE Interval'
<1>1. CASE \E f \in buffer : Emit(f) \/ Drain(f)
  BY <1>1, EmitInterval, DrainInterval
<1>2. CASE ~\E f \in buffer : Emit(f) \/ Drain(f)
  <2>1. /\ UNCHANGED <<engine, last, shown>>
        /\ phase \in {"drain", "over"} => phase' \in {"drain", "over"}
    BY <1>2 DEF Next, vars, Skip, Receive, Flush, SetRules, EndInput, EndFlush, End, engineVars
  <2>. QED  BY <2>1 DEF Interval, Remembered, IntervalKeptInDrain
<1>. QED  BY <1>1, <1>2

\* Among the frames left at the end the only rule's interval is kept.
THEOREM DrainKeepsInterval == Spec => []IntervalKeptInDrain
<1>1. Interval => IntervalKeptInDrain
  BY DEF Interval
<1>. QED  BY <1>1, InitType, NextType, InitOrder, NextOrder, InitInterval, NextInterval, PTL DEF Spec
=============================================================================

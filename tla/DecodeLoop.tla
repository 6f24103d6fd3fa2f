------------------------------ MODULE DecodeLoop ------------------------------
(***************************************************************************)
(* The frame loop of a decode thread: frames come from the decoder in its  *)
(* order, wait in a small buffer until they can leave in the order of      *)
(* their presentation times, and are compared and judged by the rules when *)
(* they leave.  The API replaces the rules at any time.                    *)
(*                                                                         *)
(* A rule is a sequence of leaves that must all accept, asked in order: a  *)
(* composite "all", or one leaf.  The list of rules is a composite "any".  *)
(* What is sent is in FrameDelivery; here a frame is marked as extracted.  *)
(***************************************************************************)
EXTENDS Integers, Sequences

CONSTANTS
  Picture,     \* what frames show; the comparator calls equal pictures static
  NoPicture,   \* prev_y = None
  RuleLists,   \* the lists of rules the API writes
  MaxRules,    \* bound of the model: rules in a list, and leaves in a rule
  MaxPts,      \* bound of the model: presentation times
  MaxFrame     \* bound of the model: frames the decoder returns

Pts  == 0..MaxPts
None == -1
Leaf == [kind : {"interval", "scene", "static"}, gap : Nat, force : BOOLEAN]
Position == (1..MaxRules) \X (1..MaxRules)

ASSUME DecodeAssumption ==
  /\ NoPicture \notin Picture
  /\ MaxRules \in Nat /\ MaxPts \in Nat /\ MaxFrame \in Nat
  /\ RuleLists # {}
  /\ \A rs \in RuleLists :
       /\ rs \in Seq(Seq(Leaf)) /\ Len(rs) <= MaxRules
       /\ \A i \in DOMAIN rs : Len(rs[i]) <= MaxRules

VARIABLES
  phase,      \* of the thread: "loop", "flush", "drain", "over"
  seen,       \* first_keyframe_seen
  arrived,    \* the presentation times the decoder has returned, None for a frame that was skipped
  buffer,     \* pts_queue
  rules,      \* the shared rules
  used,       \* lists that have been the shared rules since the thread started
  engine,     \* the rules the engine was built from
  last,       \* last_extracted_pts of its interval evaluators
  scdet,      \* the scene filter exists
  comparing,  \* the comparator exists
  prev,       \* prev_y
  shown       \* the frames that left the buffer, in their order, with the verdict

ruleVars == <<rules, used>>
engineVars == <<engine, last, scdet>>
compareVars == <<comparing, prev>>
vars == <<phase, seen, arrived, buffer, rules, used, engine, last, scdet, comparing, prev, shown>>
-----------------------------------------------------------------------------
\* DecodedFrame; cut is that it has a scene score, and one above the threshold.
Frame == [id : Nat, pts : Pts, picture : Picture, cut : BOOLEAN]
Judged == [frame : Frame, static : {"none", "no", "yes"}, out : BOOLEAN, drained : BOOLEAN]

TypeOK ==
  /\ phase \in {"loop", "flush", "drain", "over"}
  /\ seen \in BOOLEAN
  /\ arrived \in Seq(Pts \cup {None})
  /\ buffer \subseteq Frame
  /\ \A f, g \in buffer : f.pts = g.pts => f = g
  /\ rules \in RuleLists /\ used \subseteq RuleLists /\ engine \in RuleLists
  /\ last \in [Position -> Pts \cup {None}]
  /\ scdet \in BOOLEAN /\ comparing \in BOOLEAN
  /\ prev \in Picture \cup {NoPicture}
  /\ shown \in Seq(Judged)

Has(rs, kind) == \E i \in DOMAIN rs : \E j \in DOMAIN rs[i] : rs[i][j].kind = kind

Fresh == [q \in Position |-> None]

Init ==
  /\ phase = "loop" /\ seen = FALSE
  /\ arrived = <<>> /\ buffer = {} /\ shown = <<>>
  /\ rules \in RuleLists /\ used = {rules}
  /\ engine = rules /\ last = Fresh
  /\ scdet \in {FALSE, Has(rules, "scene")}
  /\ comparing = Has(rules, "static") /\ prev = NoPicture
-----------------------------------------------------------------------------
(***************************************************************************)
(* Frames come in                                                          *)
(***************************************************************************)
AtMostTwo(S) == \A a, b, c \in S : a = b \/ b = c \/ a = c

\* The decoder returns a frame at most two places after its turn.  (FFmpeg's decoders
\* return frames in display order; the buffer is there for those that do not.)
InTurn(p) == AtMostTwo({n \in DOMAIN arrived : arrived[n] > p})

\* BTreeMap::insert replaces a frame of the same presentation time.
KeepsFirst(b, f) == IF \E g \in b : g.pts = f.pts THEN b ELSE b \cup {f}
Insert(b, f) == {g \in b : g.pts # f.pts} \cup {f}

Admit(p, pic, cut) ==
  /\ InTurn(p)
  /\ arrived' = Append(arrived, p)
  /\ buffer' = Insert(buffer, [id |-> Len(arrived) + 1, pts |-> p, picture |-> pic, cut |-> cut])

\* pts_queue.len() > 2
AnyTwo(b) == \E f, g \in b : f # g
Enough(b) == ~AtMostTwo(b)

Waiting == phase = "loop" /\ ~Enough(buffer) /\ Len(arrived) < MaxFrame

\* Before the first keyframe frames are dropped.
Skip ==
  /\ Waiting /\ ~seen
  /\ arrived' = Append(arrived, None)
  /\ UNCHANGED <<phase, seen, buffer, ruleVars, engineVars, compareVars, shown>>

\* A keyframe, or a frame after one.  The filter scores it, or fails.
Receive(p, pic, cut) ==
  /\ Waiting
  /\ cut => scdet
  /\ Admit(p, pic, cut)
  /\ seen' = TRUE
  /\ UNCHANGED <<phase, ruleVars, engineVars, compareVars, shown>>

\* The input ends, or the token is found cancelled.
EndInput ==
  /\ phase = "loop" /\ ~Enough(buffer)
  /\ phase' = "flush"
  /\ UNCHANGED <<seen, arrived, buffer, ruleVars, engineVars, compareVars, shown>>

\* Frames the decoder had kept back: neither gated nor scored.
Flush(p, pic) ==
  /\ phase = "flush" /\ Len(arrived) < MaxFrame
  /\ Admit(p, pic, FALSE)
  /\ UNCHANGED <<phase, seen, ruleVars, engineVars, compareVars, shown>>

EndFlush ==
  /\ phase = "flush"
  /\ phase' = "drain"
  /\ UNCHANGED <<seen, arrived, buffer, ruleVars, engineVars, compareVars, shown>>
-----------------------------------------------------------------------------
(***************************************************************************)
(* Frames leave                                                            *)
(***************************************************************************)
\* pop_first
IsFirst(f, b) == f \in b /\ \A g \in b : f.pts <= g.pts

\* is_static compares a frame with the one before it and keeps it for the next.
Static(f) ==
  IF ~comparing THEN "none" ELSE IF f.picture = prev THEN "yes" ELSE "no"
KeepsMoving(f) == IF comparing /\ prev = NoPicture THEN f.picture ELSE prev
Remember(f) == IF comparing THEN f.picture ELSE prev

Accepts(leaf, lastPts, f) ==
  \/ leaf.kind = "interval" /\ (lastPts = None \/ f.pts - lastPts >= leaf.gap)
  \/ leaf.kind = "scene" /\ f.cut
  \/ leaf.kind = "static" /\ (Static(f) # "yes" \/ leaf.force)

\* RuleEngine::evaluate: the first rule whose leaves accept decides, and the first leaf
\* that does not ends its rule; the evaluators after them are not asked.
AcceptsAt(rs, mem, f, i, j) == Accepts(rs[i][j], mem[<<i, j>>], f)
Passes(rs, mem, f, i) == \A j \in DOMAIN rs[i] : AcceptsAt(rs, mem, f, i, j)
Evaluate(rs, mem, f) == \E i \in DOMAIN rs : Passes(rs, mem, f, i)

Asked(rs, mem, f, i, j) ==
  /\ i \in DOMAIN rs /\ j \in DOMAIN rs[i]
  /\ \A k \in 1..(i - 1) : ~Passes(rs, mem, f, k)
  /\ \A k \in 1..(j - 1) : AcceptsAt(rs, mem, f, i, k)
Forgets(rs, mem, f) == mem
Note(rs, mem, f) ==
  [q \in Position |->
    IF Asked(rs, mem, f, q[1], q[2]) /\ rs[q[1]][q[2]].kind = "interval"
       /\ AcceptsAt(rs, mem, f, q[1], q[2])
    THEN f.pts ELSE mem[q]]

\* A frame leaves, is compared and judged, and is extracted unless its encoding fails.
Leave(f, rs, mem, encodes) ==
  /\ buffer' = buffer \ {f}
  /\ prev' = Remember(f)
  /\ last' = Note(rs, mem, f)
  /\ shown' = Append(shown, [frame |-> f, static |-> Static(f),
                             out |-> Evaluate(rs, mem, f) /\ encodes, drained |-> phase = "drain"])

\* In the loop the engine is built again for each frame, which makes its interval
\* evaluators forget.  A failed send ends the thread.
Emit(f) ==
  /\ phase = "loop" /\ Enough(buffer) /\ IsFirst(f, buffer)
  /\ engine' = rules
  /\ scdet' \in {Has(rules, "scene"), scdet /\ Has(rules, "scene")}
  /\ \E encodes \in BOOLEAN :
       /\ Leave(f, rules, Fresh, encodes)
       /\ phase' \in {"loop"} \cup (IF encodes /\ Evaluate(rules, Fresh, f) THEN {"over"} ELSE {})
  /\ UNCHANGED <<seen, arrived, ruleVars, comparing>>

\* After the loop the last engine judges what is left.  Failed sends are ignored.
Drain(f) ==
  /\ phase = "drain" /\ IsFirst(f, buffer)
  /\ \E encodes \in BOOLEAN : Leave(f, engine, last, encodes)
  /\ UNCHANGED <<phase, seen, arrived, ruleVars, engine, scdet, comparing>>

End ==
  /\ phase = "drain" /\ buffer = {}
  /\ phase' = "over"
  /\ UNCHANGED <<seen, arrived, buffer, ruleVars, engineVars, compareVars, shown>>

\* update_rules writes a whole list.
SetRules(rs) ==
  /\ phase # "over" /\ rs # rules
  /\ rules' = rs /\ used' = used \cup {rs}
  /\ UNCHANGED <<phase, seen, arrived, buffer, engineVars, compareVars, shown>>
-----------------------------------------------------------------------------
Next ==
  \/ Skip
  \/ \E p \in Pts, pic \in Picture, cut \in BOOLEAN : Receive(p, pic, cut)
  \/ \E p \in Pts, pic \in Picture : Flush(p, pic)
  \/ \E f \in buffer : Emit(f) \/ Drain(f)
  \/ \E rs \in RuleLists : SetRules(rs)
  \/ EndInput \/ EndFlush \/ End

Spec == Init /\ [][Next]_vars
-----------------------------------------------------------------------------
(***************************************************************************)
(* Correctness                                                             *)
(***************************************************************************)
Shown(n) == \E i \in DOMAIN shown : shown[i].frame.id = n
Buffered(n) == \E f \in buffer : f.id = n

\* Frames leave in the order of their presentation times, whatever order within the
\* buffer's depth they came in, across the flush and the drain.
DisplayOrder ==
  \A i \in DOMAIN shown : \A j \in 1..i : shown[j].frame.pts <= shown[i].frame.pts

\* No admitted frame is judged twice, and none disappears in the buffer but one whose
\* presentation time a later frame had as well.
EveryFrameOnce ==
  /\ \A i, j \in DOMAIN shown : shown[i].frame.id = shown[j].frame.id => i = j
  /\ \A n \in DOMAIN arrived : arrived[n] # None =>
       Shown(n) \/ Buffered(n) \/ \E m \in DOMAIN arrived : m > n /\ arrived[m] = arrived[n]
  /\ \A f \in buffer : ~Shown(f.id)

\* The comparator sees the frames in display order: each is compared with the one shown
\* just before it.
ComparedWithNeighbour ==
  \A i \in DOMAIN shown :
    shown[i].static = "yes" =>
      i > 1 /\ shown[i - 1].frame.picture = shown[i].frame.picture

\* While the only rules are static-frame rules, a frame that shows what the frame before it
\* showed is not extracted, even if the API replaces them by others of the kind.
OnlyStatic(rs) ==
  Has(rs, "static") /\ \A i \in DOMAIN rs : \E j \in DOMAIN rs[i] :
    rs[i][j].kind = "static" /\ ~rs[i][j].force
StaticFramesDropped ==
  (\A rs \in used : OnlyStatic(rs)) =>
    \A i \in DOMAIN shown :
      i > 1 /\ shown[i - 1].frame.picture = shown[i].frame.picture => ~shown[i].out

\* The frames that are left at the end share one engine, so that what its interval evaluators
\* remember does count among them: no two are extracted within a gap that the only rule asks.
IntervalKeptInDrain ==
  \A i, j \in DOMAIN shown :
    i < j /\ shown[i].drained /\ shown[i].out /\ shown[j].out /\ Len(engine) = 1
      => \A k \in DOMAIN engine[1] : engine[1][k].kind = "interval"
           => shown[j].frame.pts - shown[i].frame.pts >= engine[1][k].gap

\* What test_interval_respects_gap (src/pipeline/rule.rs) asserts of the interval rule: once
\* it has extracted a frame it lets no other pass before the interval is over.
IntervalKept ==
  \A rs \in used :
    used = {rs} /\ Len(rs) = 1 /\ Len(rs[1]) = 1 /\ rs[1][1].kind = "interval" =>
      \A i, j \in DOMAIN shown :
        i < j /\ shown[i].out /\ shown[j].out
          => shown[j].frame.pts - shown[i].frame.pts >= rs[1][1].gap
=============================================================================

---------------------------- MODULE RetentionProofs ----------------------------
(***************************************************************************)
(* The retention cleaner, for any bucket and any size of a page: it        *)
(* deletes nothing young, and it never leaves the first page.              *)
(***************************************************************************)
EXTENDS Retention, TLAPS

IInv == TypeOK /\ FirstPageOnly

LEMMA InitInv == Init => IInv
BY DEF Init, IInv, TypeOK, FirstPageOnly

LEMMA NextInv == IInv /\ [Next]_vars => IInv'
<1>. SUFFICES ASSUME IInv, [Next]_vars PROVE IInv'
  OBVIOUS
<1>. USE DEF IInv, TypeOK, FirstPageOnly
<1>1. ASSUME NEW k \in Key, Put(k) PROVE IInv'
  BY <1>1 DEF Put
<1>2. ASSUME NEW k \in Key, Age(k) PROVE IInv'
  BY <1>2 DEF Age
<1>3. CASE Tick
  BY <1>3 DEF Tick
<1>4. CASE ListPage
  BY <1>4 DEF ListPage
<1>5. CASE Abort
  BY <1>5 DEF Abort
<1>6. ASSUME NEW done \in SUBSET due, DeletePage(done) PROVE IInv'
  BY <1>6 DEF DeletePage, NextToken
<1>7. CASE UNCHANGED vars
  BY <1>7 DEF vars
<1>. QED  BY <1>1, <1>2, <1>3, <1>4, <1>5, <1>6, <1>7 DEF Next

LEMMA Inductive == Spec => []IInv
BY InitInv, NextInv, PTL DEF Spec

\* Type correctness.
THEOREM RetentionTypeCorrect == Spec => []TypeOK
<1>1. IInv => TypeOK
  BY DEF IInv
<1>. QED  BY <1>1, Inductive, PTL

\* Whatever requests fail and however long a pass takes, it deletes only objects that
\* are older than the retention.
THEOREM NothingYoungDeleted == Spec => OnlyExpiredDeleted
<1>1. IInv /\ [Next]_vars => [present \ present' \subseteq past]_vars
  <2>. SUFFICES ASSUME IInv, Next PROVE present \ present' \subseteq past
    OBVIOUS
  <2>1. ASSUME NEW done \in SUBSET due, DeletePage(done) PROVE present \ present' \subseteq past
    BY <2>1 DEF DeletePage, IInv, TypeOK
  <2>. QED  BY <2>1 DEF Next, Put, Age, Tick, ListPage, Abort
<1>. QED  BY <1>1, Inductive, PTL DEF Spec, OnlyExpiredDeleted

\* The cause of the retention finding: whatever the size of the bucket, no pass asks for
\* a second page.
THEOREM NoSecondPage == Spec => []FirstPageOnly
<1>1. IInv => FirstPageOnly
  BY DEF IInv
<1>. QED  BY <1>1, Inductive, PTL
=============================================================================

------------------------------- MODULE Retention -------------------------------
(***************************************************************************)
(* The retention cleaner: every hour a pass lists the bucket, page by      *)
(* page, and deletes what is older than the retention.  The bucket's keys  *)
(* are positions in the order of the listing; a position is free again     *)
(* when its object is deleted, and what is put there next is another       *)
(* object of the same stream.  The object store is external: a page holds  *)
(* the first PageSize keys after the token, and an answer repeats the      *)
(* token of the request.                                                   *)
(***************************************************************************)
EXTENDS Naturals, FiniteSets

CONSTANTS
  Key,       \* positions in the listing, positive numbers
  PageSize   \* keys in a page, 1000 by default

VARIABLES
  present,   \* positions with an object
  past,      \* those whose object is older than the retention
  pass,      \* the pass: "waiting" for the tick, "listing" a page or "deleting"
  cutoff,    \* objects older than the cutoff, which a pass computes once
  token,     \* continuation token of the next request, the last key of a page
  due        \* keys of the page that are older than the cutoff

vars == <<present, past, pass, cutoff, token, due>>
-----------------------------------------------------------------------------
NoToken == 0

TypeOK ==
  /\ present \subseteq Key /\ past \subseteq present
  /\ pass \in {"waiting", "listing", "deleting"}
  /\ cutoff \subseteq past /\ due \subseteq cutoff
  /\ token \in Key \cup {NoToken}

Init ==
  /\ present = {} /\ past = {}
  /\ pass = "waiting" /\ cutoff = {} /\ token = NoToken /\ due = {}

\* An upload stores an object; nobody else deletes one.
Put(k) ==
  /\ k \in Key \ present
  /\ present' = present \cup {k}
  /\ UNCHANGED <<past, pass, cutoff, token, due>>

\* Time passes for the object.
Age(k) ==
  /\ k \in present \ past
  /\ past' = past \cup {k}
  /\ UNCHANGED <<present, pass, cutoff, token, due>>

Tick ==
  /\ pass = "waiting"
  /\ pass' = "listing" /\ cutoff' = past /\ token' = NoToken
  /\ UNCHANGED <<present, past, due>>

\* A request fails: the pass is over.
Abort ==
  /\ pass # "waiting"
  /\ pass' = "waiting" /\ cutoff' = {} /\ due' = {}
  /\ UNCHANGED <<present, past, token>>

Page ==
  {k \in present : k > token /\ Cardinality({j \in present : token < j /\ j < k}) < PageSize}

ListPage ==
  /\ pass = "listing"
  /\ due' = Page \cap cutoff
  /\ pass' = "deleting"
  /\ UNCHANGED <<present, past, cutoff, token>>

\* What the loop takes for the token of the next page is the one the answer repeats.
NextToken == token

\* One request for the keys of the page; a key that is answered with an error stays.
DeletePage(done) ==
  /\ pass = "deleting" /\ done \subseteq due
  /\ present' = present \ done /\ past' = past \ done
  /\ due' = {}
  /\ IF NextToken = NoToken
     THEN pass' = "waiting" /\ cutoff' = {} /\ UNCHANGED token
     ELSE pass' = "listing" /\ cutoff' = cutoff \ done /\ token' = NextToken

Next ==
  \/ \E k \in Key : Put(k) \/ Age(k)
  \/ Tick \/ ListPage \/ Abort
  \/ \E done \in SUBSET due : DeletePage(done)

Spec == Init /\ [][Next]_vars

\* Objects grow old, the interval ticks, and neither the listing nor the deletion of an
\* object fails for ever.
FairSpec ==
  /\ Spec
  /\ WF_vars(Tick) /\ SF_vars(ListPage) /\ WF_vars(\E done \in SUBSET due : DeletePage(done))
  /\ \A k \in Key :
       /\ WF_vars(Age(k))
       /\ SF_vars(\E done \in SUBSET due : k \in done /\ DeletePage(done))
-----------------------------------------------------------------------------
\* An object older than the retention is deleted in the end.
ExpiredObjectsDeleted == \A k \in Key : k \in past ~> k \notin past

\* No object is deleted before it is older than the retention, however long a pass takes.
OnlyExpiredDeleted == [][present \ present' \subseteq past]_vars

\* Every request is for the first page: a pass sees the first PageSize objects and no other.
FirstPageOnly == token = NoToken
=============================================================================

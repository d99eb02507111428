----------------------------- MODULE RWLockSpec -----------------------------
(***************************************************************************)
(* What a reader/writer lock around a replicated counter promises: at most *)
(* one worker owns the lock exclusively, nobody shares it meanwhile, and   *)
(* the protected value advances by one, once, under each exclusive owner.  *)
(* RWLock.tla, the lock built from one-sided RDMA verbs, implements it.    *)
(***************************************************************************)
EXTENDS Naturals

CONSTANTS Workers,  \* the workers of all compute nodes
          NoOwner   \* not a worker: the owner of a lock nobody owns

VARIABLES owner,    \* the exclusive owner, or NoOwner
          sharers,  \* the workers holding the lock shared
          dirty,    \* has the exclusive owner updated the value yet?
          value     \* the protected value, as of the latest update

vars == <<owner, sharers, dirty, value>>

Init == /\ owner = NoOwner
        /\ sharers = {}
        /\ dirty = FALSE
        /\ value = 0

AcquireExclusive(w) ==
    /\ owner = NoOwner
    /\ sharers = {}
    /\ owner' = w
    /\ UNCHANGED <<sharers, dirty, value>>

Update(w) ==
    /\ owner = w
    /\ ~dirty
    /\ dirty' = TRUE
    /\ value' = value + 1
    /\ UNCHANGED <<owner, sharers>>

\* Nobody lets go of the lock without having made its update.
ReleaseExclusive(w) ==
    /\ owner = w
    /\ dirty
    /\ owner' = NoOwner
    /\ dirty' = FALSE
    /\ UNCHANGED <<sharers, value>>

AcquireShared(w) ==
    /\ owner = NoOwner
    /\ w \notin sharers
    /\ sharers' = sharers \union {w}
    /\ UNCHANGED <<owner, dirty, value>>

ReleaseShared(w) ==
    /\ w \in sharers
    /\ sharers' = sharers \ {w}
    /\ UNCHANGED <<owner, dirty, value>>

Next == \E w \in Workers :
    \/ AcquireExclusive(w) \/ Update(w) \/ ReleaseExclusive(w)
    \/ AcquireShared(w)    \/ ReleaseShared(w)

Spec == Init /\ [][Next]_vars
=============================================================================

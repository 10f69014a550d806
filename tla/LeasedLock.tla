----------------------------- MODULE LeasedLock -----------------------------
(***************************************************************************)
(* What services/distributed_lock.py promises, with etcd abstracted away:  *)
(* a name is free or has one owner, it changes hands only by becoming free *)
(* first, and whatever happens to the owner the name becomes free again,   *)
(* because the lock is leased for a time and not given for ever.           *)
(*                                                                         *)
(* DistributedLock implements this specification; DeploymentPipeline is    *)
(* built on its actions.                                                   *)
(***************************************************************************)

CONSTANTS
  Names,    \* what is locked: an application, or a periodic job
  Owners,   \* what a name can be granted to
  NoOwner   \* the owner of a free name; it is not in Owners

VARIABLE owner

Init == owner = [n \in Names |-> NoOwner]

\* apply_lock succeeds: only a free name is granted.
Grant(n, o) ==
  /\ owner[n] = NoOwner
  /\ owner' = [owner EXCEPT ![n] = o]

\* release: the owner gives the name back; for anybody else it is a no-op.
Release(n, o) ==
  owner' = IF owner[n] = o THEN [owner EXCEPT ![n] = NoOwner] ELSE owner

\* The leases of some names run out, whatever their owners are doing.
Expire(expired) ==
  owner' = [n \in Names |-> IF n \in expired THEN NoOwner ELSE owner[n]]

Next ==
  \/ \E n \in Names, o \in Owners : Grant(n, o) \/ Release(n, o)
  \/ \E expired \in SUBSET Names : Expire(expired)

Spec == Init /\ [][Next]_owner
=============================================================================

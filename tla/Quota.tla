------------------------------- MODULE Quota -------------------------------
(***************************************************************************)
(* quota.Tracker (internal/quota/quota.go), the part that counts TURN      *)
(* allocations.  Every method holds the tracker's mutex from its first to  *)
(* its last line, so each call is one step.  A key that is missing from    *)
(* the users or ips map reads as the zero record the methods would create. *)
(*                                                                         *)
(* `held` and `mismatched` are not fields of the tracker: they are what its*)
(* callers own, the allocations they were allowed and have not released,   *)
(* and whether one of them has ever released what was not its own.         *)
(***************************************************************************)
EXTENDS Integers, FiniteSets

CONSTANTS
    Users,          \* user ids
    Addresses,      \* client IP addresses
    Slots,          \* bound: allocations that exist at one time
    MaxPerUser,     \* Limits.MaxAllocationsPerUser
    MaxPerIP        \* Limits.MaxAllocationsPerIP

ASSUME QuotaAssumption ==
    /\ MaxPerUser \in Nat
    /\ MaxPerIP \in Nat

VARIABLES
    users,          \* users[u].allocations
    ips,            \* ips[i].allocations
    held,
    mismatched

vars == <<users, ips, held, mismatched>>

Allocation == [slot : Slots, user : Users, ip : Addresses]

HeldBy(u) == {a \in held : a.user = u}

HeldFrom(i) == {a \in held : a.ip = i}

Init ==
    /\ users = [u \in Users |-> 0]
    /\ ips = [i \in Addresses |-> 0]
    /\ held = {}
    /\ mismatched = FALSE

\* Mutant: the per-IP limit is off by one.
UnderLimitsOffByOne(u, i) == users[u] < MaxPerUser /\ ips[i] <= MaxPerIP

\* The two tests of AllowAllocation.
UnderLimits(u, i) == users[u] < MaxPerUser /\ ips[i] < MaxPerIP

\* AllowAllocation returned true.  (A refusal only counts a metric.)
AllowAllocation(a) ==
    /\ \A b \in held : b.slot # a.slot
    /\ UnderLimits(a.user, a.ip)
    /\ users' = [users EXCEPT ![a.user] = @ + 1]
    /\ ips' = [ips EXCEPT ![a.ip] = @ + 1]
    /\ held' = held \cup {a}
    /\ UNCHANGED mismatched

\* Mutant: no test for zero.
DecrementPastZero(n) == n - 1

\* A counter that is already zero stays zero.
Decrement(n) == IF n > 0 THEN n - 1 ELSE n

\* Mutant: the address is forgotten.
CountersAfterReleaseUserOnly(u, i) ==
    /\ users' = [users EXCEPT ![u] = Decrement(@)]
    /\ UNCHANGED ips

\* The two decrements of ReleaseAllocation.
CountersAfterRelease(u, i) ==
    /\ users' = [users EXCEPT ![u] = Decrement(@)]
    /\ ips' = [ips EXCEPT ![i] = Decrement(@)]

\* The holder releases.
ReleaseAllocation(a) ==
    /\ a \in held
    /\ CountersAfterRelease(a.user, a.ip)
    /\ held' = held \ {a}
    /\ UNCHANGED mismatched

\* Somebody releases twice, or what was refused: the tracker cannot tell.
ReleaseNotHeld(u, i) ==
    /\ CountersAfterRelease(u, i)
    /\ mismatched' = TRUE
    /\ UNCHANGED held

Next ==
    \/ \E a \in Allocation : AllowAllocation(a) \/ ReleaseAllocation(a)
    \/ \E u \in Users, i \in Addresses : ReleaseNotHeld(u, i)

Spec == Init /\ [][Next]_vars

-----------------------------------------------------------------------------
(* Properties.                                                             *)

\* Type correctness; no sequence of releases makes a counter negative.
TypeOK ==
    /\ users \in [Users -> Nat]
    /\ ips \in [Addresses -> Nat]
    /\ held \subseteq Allocation
    /\ mismatched \in BOOLEAN

\* One name per allocation that is held.
DistinctSlots == \A a, b \in held : a.slot = b.slot => a = b

\* A release that nobody was entitled to makes the tracker forget, never
\* remember: a counter is at most what is really held, so no share of a user
\* or an address is ever lost to mismatched releases.
NoLostShare ==
    /\ \A u \in Users : users[u] <= Cardinality(HeldBy(u))
    /\ \A i \in Addresses : ips[i] <= Cardinality(HeldFrom(i))

\* While callers release exactly what they hold, the two counters, kept apart
\* and updated one after the other, agree with what is held.
Exact ==
    ~mismatched =>
        /\ \A u \in Users : users[u] = Cardinality(HeldBy(u))
        /\ \A i \in Addresses : ips[i] = Cardinality(HeldFrom(i))

\* The tracker implements the pool: as long as callers release what they hold,
\* every call that changes anything grants within both limits or gives back.
\* (This is Pool!Spec up to the first mismatched release.)
Pool == INSTANCE AllocationPool

ImplementsPool ==
    /\ Pool!Init
    /\ [][~mismatched => [Pool!Next]_held]_vars
=============================================================================

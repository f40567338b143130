--------------------------- MODULE AllocationPool ---------------------------
(***************************************************************************)
(* What the allocation quota promises its caller: TURN allocations are     *)
(* handed out and given back, and no user and no address ever holds more   *)
(* than its share.  There are no counters here, only what is really held.  *)
(***************************************************************************)
EXTENDS Integers, FiniteSets

CONSTANTS
    Users,          \* user ids
    Addresses,      \* client IP addresses
    Slots,          \* names that tell one allocation from another
    MaxPerUser,     \* Limits.MaxAllocationsPerUser
    MaxPerIP        \* Limits.MaxAllocationsPerIP

Allocation == [slot : Slots, user : Users, ip : Addresses]

VARIABLE held       \* the allocations that have been granted and not released

HeldBy(u) == {a \in held : a.user = u}

HeldFrom(i) == {a \in held : a.ip = i}

Init == held = {}

Grant ==
    \E a \in Allocation :
        /\ \A b \in held : b.slot # a.slot
        /\ Cardinality(HeldBy(a.user)) < MaxPerUser
        /\ Cardinality(HeldFrom(a.ip)) < MaxPerIP
        /\ held' = held \cup {a}

Return == \E a \in held : held' = held \ {a}

Next == Grant \/ Return

Spec == Init /\ [][Next]_held
=============================================================================

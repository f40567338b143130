---------------------------- MODULE QuotaProofs ----------------------------
(***************************************************************************)
(* Proofs about Quota, for any users, addresses, limits and number of      *)
(* allocations.                                                            *)
(***************************************************************************)
EXTENDS Quota, FiniteSetTheorems, TLAPS

\* What is held is finite and well named: the ground on which it is counted.
HeldInv == IsFiniteSet(held) /\ DistinctSlots /\ TypeOK

\* Granting a makes its user's share, and its address's, one larger and leaves
\* every other share alone.
LEMMA CountGrant ==
    ASSUME HeldInv, NEW a \in Allocation, \A b \in held : b.slot # a.slot,
           held' = held \cup {a}
    PROVE  /\ IsFiniteSet(held') /\ DistinctSlots'
           /\ \A u : Cardinality(HeldBy(u)') =
                        IF u = a.user THEN Cardinality(HeldBy(u)) + 1 ELSE Cardinality(HeldBy(u))
           /\ \A i : Cardinality(HeldFrom(i)') =
                        IF i = a.ip THEN Cardinality(HeldFrom(i)) + 1 ELSE Cardinality(HeldFrom(i))
  <1>1. a \notin held
    OBVIOUS
  <1>2. IsFiniteSet(held')
    BY FS_AddElement DEF HeldInv
  <1>3. DistinctSlots'
    BY DEF HeldInv, DistinctSlots
  <1>4. ASSUME NEW u
        PROVE  Cardinality(HeldBy(u)') =
                  IF u = a.user THEN Cardinality(HeldBy(u)) + 1 ELSE Cardinality(HeldBy(u))
    <2>1. IsFiniteSet(HeldBy(u)) /\ a \notin HeldBy(u)
      BY <1>1, FS_Subset DEF HeldInv, HeldBy
    <2>2. HeldBy(u)' = IF u = a.user THEN HeldBy(u) \cup {a} ELSE HeldBy(u)
      BY DEF HeldBy
    <2>3. QED
      BY <2>1, <2>2, FS_AddElement
  <1>5. ASSUME NEW i
        PROVE  Cardinality(HeldFrom(i)') =
                  IF i = a.ip THEN Cardinality(HeldFrom(i)) + 1 ELSE Cardinality(HeldFrom(i))
    <2>1. IsFiniteSet(HeldFrom(i)) /\ a \notin HeldFrom(i)
      BY <1>1, FS_Subset DEF HeldInv, HeldFrom
    <2>2. HeldFrom(i)' = IF i = a.ip THEN HeldFrom(i) \cup {a} ELSE HeldFrom(i)
      BY DEF HeldFrom
    <2>3. QED
      BY <2>1, <2>2, FS_AddElement
  <1>6. QED
    BY <1>2, <1>3, <1>4, <1>5

\* Releasing what is held makes the two shares one smaller.
LEMMA CountRelease ==
    ASSUME HeldInv, NEW a \in held, held' = held \ {a}
    PROVE  /\ IsFiniteSet(held') /\ DistinctSlots'
           /\ \A u : Cardinality(HeldBy(u)') =
                        IF u = a.user THEN Cardinality(HeldBy(u)) - 1 ELSE Cardinality(HeldBy(u))
           /\ \A i : Cardinality(HeldFrom(i)') =
                        IF i = a.ip THEN Cardinality(HeldFrom(i)) - 1 ELSE Cardinality(HeldFrom(i))
           /\ Cardinality(HeldBy(a.user)) > 0
           /\ Cardinality(HeldFrom(a.ip)) > 0
  <1>1. IsFiniteSet(held')
    BY FS_RemoveElement DEF HeldInv
  <1>2. DistinctSlots'
    BY DEF HeldInv, DistinctSlots
  <1>3. ASSUME NEW u
        PROVE  /\ Cardinality(HeldBy(u)') =
                    IF u = a.user THEN Cardinality(HeldBy(u)) - 1 ELSE Cardinality(HeldBy(u))
               /\ u = a.user => Cardinality(HeldBy(u)) > 0
    <2>1. IsFiniteSet(HeldBy(u)) /\ (u = a.user <=> a \in HeldBy(u))
      BY FS_Subset DEF HeldInv, HeldBy
    <2>2. HeldBy(u)' = IF u = a.user THEN HeldBy(u) \ {a} ELSE HeldBy(u)
      BY DEF HeldBy
    <2>3. u = a.user => HeldBy(u) # {}
      BY <2>1
    <2>4. Cardinality(HeldBy(u)) \in Nat /\ (u = a.user => Cardinality(HeldBy(u)) # 0)
      BY <2>1, <2>3, FS_EmptySet, FS_CardinalityType
    <2>5. u = a.user => Cardinality(HeldBy(u) \ {a}) = Cardinality(HeldBy(u)) - 1
      BY <2>1, FS_RemoveElement
    <2>6. QED
      BY <2>2, <2>4, <2>5
  <1>4. ASSUME NEW i
        PROVE  /\ Cardinality(HeldFrom(i)') =
                    IF i = a.ip THEN Cardinality(HeldFrom(i)) - 1 ELSE Cardinality(HeldFrom(i))
               /\ i = a.ip => Cardinality(HeldFrom(i)) > 0
    <2>1. IsFiniteSet(HeldFrom(i)) /\ (i = a.ip <=> a \in HeldFrom(i))
      BY FS_Subset DEF HeldInv, HeldFrom
    <2>2. HeldFrom(i)' = IF i = a.ip THEN HeldFrom(i) \ {a} ELSE HeldFrom(i)
      BY DEF HeldFrom
    <2>3. i = a.ip => HeldFrom(i) # {}
      BY <2>1
    <2>4. Cardinality(HeldFrom(i)) \in Nat /\ (i = a.ip => Cardinality(HeldFrom(i)) # 0)
      BY <2>1, <2>3, FS_EmptySet, FS_CardinalityType
    <2>5. i = a.ip => Cardinality(HeldFrom(i) \ {a}) = Cardinality(HeldFrom(i)) - 1
      BY <2>1, FS_RemoveElement
    <2>6. QED
      BY <2>2, <2>4, <2>5
  <1>5. QED
    BY <1>1, <1>2, <1>3, <1>4

\* Shares are numbers.
LEMMA ShareType ==
    ASSUME HeldInv
    PROVE  /\ \A u : Cardinality(HeldBy(u)) \in Nat
           /\ \A i : Cardinality(HeldFrom(i)) \in Nat
  <1>1. /\ \A u : IsFiniteSet(HeldBy(u))
        /\ \A i : IsFiniteSet(HeldFrom(i))
    BY FS_Subset DEF HeldInv, HeldBy, HeldFrom
  <1>2. QED
    BY <1>1, FS_CardinalityType

\* Every call keeps the types, and the counters at most what is held.
LEMMA ShareStep ==
    ASSUME HeldInv, NoLostShare, Exact, [Next]_vars
    PROVE  HeldInv' /\ NoLostShare' /\ Exact'
  <1>1. ASSUME NEW a \in Allocation, AllowAllocation(a)
        PROVE  HeldInv' /\ NoLostShare' /\ Exact'
    <2>1. /\ \A b \in held : b.slot # a.slot
          /\ held' = held \cup {a} /\ mismatched' = mismatched
          /\ users' = [users EXCEPT ![a.user] = users[a.user] + 1]
          /\ ips' = [ips EXCEPT ![a.ip] = ips[a.ip] + 1]
      BY <1>1 DEF AllowAllocation
    <2>2. a.user \in Users /\ a.ip \in Addresses
      BY DEF Allocation
    <2>3. HeldInv'
      <3>1. IsFiniteSet(held') /\ DistinctSlots'
        BY <2>1, CountGrant
      <3>2. TypeOK'
        BY <2>1, <2>2 DEF HeldInv, TypeOK
      <3>3. QED
        BY <3>1, <3>2 DEF HeldInv
    <2>4. NoLostShare' /\ Exact'
      BY <2>1, <2>2, CountGrant, ShareType DEF NoLostShare, Exact, HeldInv, TypeOK
    <2>5. QED
      BY <2>3, <2>4
  <1>2. ASSUME NEW a \in Allocation, ReleaseAllocation(a)
        PROVE  HeldInv' /\ NoLostShare' /\ Exact'
    <2>1. /\ a \in held
          /\ held' = held \ {a} /\ mismatched' = mismatched
          /\ users' = [users EXCEPT ![a.user] = Decrement(users[a.user])]
          /\ ips' = [ips EXCEPT ![a.ip] = Decrement(ips[a.ip])]
      BY <1>2 DEF ReleaseAllocation, CountersAfterRelease
    <2>2. a.user \in Users /\ a.ip \in Addresses
      BY DEF Allocation
    <2>3. HeldInv'
      <3>1. IsFiniteSet(held') /\ DistinctSlots'
        BY <2>1, CountRelease
      <3>2. mismatched' \in BOOLEAN
        BY <2>1, Zenon DEF HeldInv, TypeOK
      <3>3. /\ users' \in [Users -> Nat] /\ ips' \in [Addresses -> Nat]
            /\ held' \subseteq Allocation
        BY <2>1, <2>2 DEF HeldInv, TypeOK, Decrement
      <3>4. QED
        BY <3>1, <3>2, <3>3 DEF HeldInv, TypeOK
    <2>4. NoLostShare' /\ Exact'
      BY <2>1, <2>2, CountRelease, ShareType DEF NoLostShare, Exact, HeldInv, TypeOK, Decrement
    <2>5. QED
      BY <2>3, <2>4
  <1>3. ASSUME NEW u \in Users, NEW i \in Addresses, ReleaseNotHeld(u, i)
        PROVE  HeldInv' /\ NoLostShare' /\ Exact'
    <2>1. /\ mismatched' = TRUE /\ held' = held
          /\ users' = [users EXCEPT ![u] = Decrement(users[u])]
          /\ ips' = [ips EXCEPT ![i] = Decrement(ips[i])]
      BY <1>3 DEF ReleaseNotHeld, CountersAfterRelease
    <2>2. HeldInv'
      BY <2>1 DEF HeldInv, TypeOK, DistinctSlots, Decrement
    <2>3. NoLostShare'
      <3>1. /\ \A v \in Users : users'[v] \in Nat /\ users'[v] <= users[v]
            /\ \A j \in Addresses : ips'[j] \in Nat /\ ips'[j] <= ips[j]
        BY <2>1 DEF HeldInv, TypeOK, Decrement
      <3>2. /\ \A v : HeldBy(v)' = HeldBy(v)
            /\ \A j : HeldFrom(j)' = HeldFrom(j)
        BY <2>1 DEF HeldBy, HeldFrom
      <3>3. QED
        BY <3>1, <3>2, ShareType DEF NoLostShare, HeldInv, TypeOK
    <2>4. QED
      BY <2>1, <2>2, <2>3 DEF Exact
  <1>4. CASE UNCHANGED vars
    BY <1>4 DEF vars, HeldInv, TypeOK, DistinctSlots, NoLostShare, Exact, HeldBy, HeldFrom
  <1>5. QED
    BY <1>1, <1>2, <1>3, <1>4 DEF Next

\* At first nothing is held and nothing is counted.
LEMMA ShareInit == Init => HeldInv /\ NoLostShare /\ Exact
  <1> SUFFICES ASSUME Init PROVE HeldInv /\ NoLostShare /\ Exact
    OBVIOUS
  <1>1. IsFiniteSet({}) /\ Cardinality({}) = 0
    BY FS_EmptySet
  <1>2. held = {} /\ users = [u \in Users |-> 0] /\ ips = [i \in Addresses |-> 0]
    BY DEF Init
  <1>3. mismatched \in BOOLEAN
    BY Zenon DEF Init
  <1>4. \A x : HeldBy(x) = {} /\ HeldFrom(x) = {}
    BY <1>2 DEF HeldBy, HeldFrom
  <1>5. /\ \A u \in Users : users[u] = 0 /\ Cardinality(HeldBy(u)) = 0
        /\ \A i \in Addresses : ips[i] = 0 /\ Cardinality(HeldFrom(i)) = 0
    BY <1>1, <1>2, <1>4
  <1>6. NoLostShare /\ Exact
    BY <1>5 DEF NoLostShare, Exact
  <1>7. IsFiniteSet(held) /\ DistinctSlots
    BY <1>1, <1>2 DEF DistinctSlots
  <1>8. users \in [Users -> Nat] /\ ips \in [Addresses -> Nat] /\ held \subseteq Allocation
    BY <1>2
  <1>9. QED
    BY <1>3, <1>6, <1>7, <1>8 DEF HeldInv, TypeOK

\* For every number of users, addresses and calls: counters stay natural
\* numbers and never exceed what is held; they equal it until somebody releases
\* what it does not hold.
THEOREM CountersCount == Spec => [](TypeOK /\ NoLostShare /\ Exact)
  <1>1. HeldInv /\ NoLostShare /\ Exact /\ [Next]_vars => (HeldInv /\ NoLostShare /\ Exact)'
    BY ShareStep
  <1>2. HeldInv => TypeOK
    BY DEF HeldInv
  <1>3. QED
    BY <1>1, <1>2, ShareInit, PTL DEF Spec

\* The pool's module counts with the same operator as this one.
LEMMA PoolCardinality == \A S : Pool!Cardinality(S) = Cardinality(S)
  BY DEF Pool!Cardinality, Pool!IsFiniteSet, Cardinality, IsFiniteSet

\* The tracker implements the pool until a caller releases what it does not
\* hold: every step grants an allocation within both limits, gives one back, or
\* changes nothing held.
THEOREM TrackerImplementsPool == Spec => ImplementsPool
  <1>1. Init => Pool!Init
    BY DEF Init, Pool!Init
  <1>2. HeldInv /\ Exact /\ [Next]_vars => [~mismatched => [Pool!Next]_held]_vars
    <2> SUFFICES ASSUME HeldInv, Exact, [Next]_vars, ~mismatched
                 PROVE  [Pool!Next]_held
      OBVIOUS
    <2>1. ASSUME NEW a \in Allocation, AllowAllocation(a)
          PROVE  Pool!Grant
      <3>1. a.user \in Users /\ a.ip \in Addresses
        BY DEF Allocation
      <3>2. /\ \A b \in held : b.slot # a.slot
            /\ users[a.user] < MaxPerUser /\ ips[a.ip] < MaxPerIP
            /\ held' = held \cup {a}
        BY <2>1 DEF AllowAllocation, UnderLimits
      <3>3. /\ Cardinality(HeldBy(a.user)) < MaxPerUser
            /\ Cardinality(HeldFrom(a.ip)) < MaxPerIP
        BY <3>1, <3>2 DEF Exact
      <3>4. /\ Pool!HeldBy(a.user) = HeldBy(a.user)
            /\ Pool!HeldFrom(a.ip) = HeldFrom(a.ip)
            /\ Pool!Allocation = Allocation
        BY DEF Pool!Allocation, Pool!HeldBy, Pool!HeldFrom, Allocation, HeldBy, HeldFrom
      <3>5. /\ a \in Pool!Allocation
            /\ \A b \in held : b.slot # a.slot
            /\ Pool!Cardinality(Pool!HeldBy(a.user)) < MaxPerUser
            /\ Pool!Cardinality(Pool!HeldFrom(a.ip)) < MaxPerIP
            /\ held' = held \cup {a}
        BY <3>2, <3>3, <3>4, PoolCardinality, Zenon
      <3>6. QED
        BY <3>5, Zenon DEF Pool!Grant
    <2>2. ASSUME NEW a \in Allocation, ReleaseAllocation(a)
          PROVE  Pool!Return
      BY <2>2 DEF ReleaseAllocation, Pool!Return
    <2>3. ASSUME NEW u \in Users, NEW i \in Addresses, ReleaseNotHeld(u, i)
          PROVE  held' = held
      BY <2>3 DEF ReleaseNotHeld
    <2>4. CASE UNCHANGED vars
      BY <2>4 DEF vars
    <2>5. QED
      BY <2>1, <2>2, <2>3, <2>4 DEF Next, Pool!Next
  <1>3. HeldInv /\ NoLostShare /\ Exact /\ [Next]_vars => (HeldInv /\ NoLostShare /\ Exact)'
    BY ShareStep
  <1>4. QED
    BY <1>1, <1>2, <1>3, ShareInit, PTL DEF Spec, ImplementsPool
=============================================================================

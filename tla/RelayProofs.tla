---------------------------- MODULE RelayProofs ----------------------------
(***************************************************************************)
(* Proofs about Relay, for any number of forwarders, sessions, datagrams   *)
(* and calls, any timeout and any set of datagrams the peer may send.      *)
(***************************************************************************)
EXTENDS Relay, SequenceTheorems, FiniteSetTheorems, TLAPS

\* Two of the variables are flags; they are kept apart from the other types.
Flags == cancelled \in BOOLEAN /\ gcTick \in BOOLEAN

Types ==
    /\ listener \in {"none", "open", "closed"}
    /\ conn \in {"none", "open", "lost", "closed"}
    /\ run \in Connecting \cup Looping \cup {"returned"}
    /\ data \in Incoming \cup {Nil}
    /\ heap \in Seq(Session)
    /\ current \in 0 .. Len(heap)
    /\ sessions \in [IDs -> 0 .. Len(heap)]
    /\ packetsDropped \in Nat /\ received \in Nat /\ forwards \in Nat
    /\ fwd \in [Forwarders ->
                  [pc : {"idle", "get", "record", "failed"}, id : IDs \cup {Nil},
                   length : Nat, session : 0 .. Len(heap)]]

Inv == Types /\ TunnelInv /\ HandlerInv /\ ForwardInv /\ AgeInv

\* Every step leaves the two flags Boolean.
LEMMA FlagsStep == Flags /\ [Next]_vars => Flags'
  <1> USE DEF Flags, tunnel, registry, ProxySide, RunSide
  <1>1. ASSUME Flags, Next PROVE Flags'
    <2>1. CASE Dial \/ Listen \/ Accept
      BY <1>1, <2>1, Zenon DEF Dial, Listen, Accept
    <2>2. CASE SelectDone \/ SelectGC \/ SelectDefault \/ Receive \/ ReceiveFails
      BY <1>1, <2>2, Zenon DEF SelectDone, SelectGC, SelectDefault, Receive, ReceiveFails
    <2>3. CASE Decode \/ GetIn \/ Create \/ RecordIn
      BY <1>1, <2>3, Zenon DEF Decode, GetIn, Create, RecordIn
    <2>4. ASSUME NEW f \in Forwarders, NEW id \in IDs, NEW n \in Lengths, ForwardPacket(f, id, n)
          PROVE  Flags'
      BY <1>1, <2>4, Zenon DEF ForwardPacket
    <2>5. ASSUME NEW f \in Forwarders, GetOut(f) \/ RecordOut(f)
          PROVE  Flags'
      BY <1>1, <2>5, Zenon DEF GetOut, RecordOut
    <2>6. CASE Cancel \/ ConnectionLost \/ GCTickerFires \/ Tick
      BY <1>1, <2>6, Zenon DEF Cancel, ConnectionLost, GCTickerFires, Tick
    <2>7. QED
      BY <1>1, <2>1, <2>2, <2>3, <2>4, <2>5, <2>6, Zenon DEF Next, Loop
  <1>2. ASSUME Flags, UNCHANGED vars PROVE Flags'
    BY <1>2, Zenon DEF vars
  <1>3. QED
    BY <1>1, <1>2

\* A touched session is a session, and its LastActive is at most Slip old.
LEMMA TouchResult ==
    ASSUME NEW s \in Session, NEW t \in Touch(s)
    PROVE  /\ t \in Session
           /\ t.idle <= t.quiet + Slip
           /\ [t EXCEPT !.packetsIn = t.packetsIn + 1] \in Session
           /\ [t EXCEPT !.packetsIn = t.packetsIn + 1].idle <=
                 [t EXCEPT !.packetsIn = t.packetsIn + 1].quiet + Slip
  <1>1. PICK age \in 0 .. Slip : t = Aged(s, age, 0)
    BY DEF Touch
  <1>2. age \in 0 .. MaxAge /\ 0 \in 0 .. MaxAge
    BY RelayAssumption DEF MaxAge
  <1>3. QED
    BY <1>1, <1>2, RelayAssumption DEF Session, Aged

\* Replacing one session by another keeps the heap a heap.
LEMMA HeapUpdate ==
    ASSUME heap \in Seq(Session), AgeInv, NEW o \in 1 .. Len(heap), NEW t \in Session,
           t.idle <= t.quiet + Slip, heap' = [heap EXCEPT ![o] = t]
    PROVE  heap' \in Seq(Session) /\ Len(heap') = Len(heap) /\ AgeInv'
  <1>1. heap' \in Seq(Session) /\ Len(heap') = Len(heap)
    OBVIOUS
  <1>2. ASSUME NEW p \in DOMAIN heap' PROVE heap'[p].idle <= heap'[p].quiet + Slip
    BY <1>2 DEF AgeInv
  <1>3. QED
    BY <1>1, <1>2 DEF AgeInv

\* So does growing older.
LEMMA HeapOlder ==
    ASSUME heap \in Seq(Session), AgeInv,
           heap' = [o \in DOMAIN heap |->
                      Aged(heap[o], Older(heap[o].idle), Older(heap[o].quiet))]
    PROVE  heap' \in Seq(Session) /\ Len(heap') = Len(heap) /\ AgeInv'
  <1>1. MaxAge \in Nat /\ Slip \in Nat
    BY RelayAssumption DEF MaxAge
  <1>2. ASSUME NEW o \in DOMAIN heap
        PROVE  /\ heap'[o] \in Session
               /\ heap'[o].idle <= heap'[o].quiet + Slip
    <2>1. heap[o] \in Session /\ heap[o].idle <= heap[o].quiet + Slip
      BY <1>2 DEF AgeInv
    <2>2. heap'[o] = Aged(heap[o], Older(heap[o].idle), Older(heap[o].quiet))
      BY <1>2
    <2> DEFINE i == heap[o].idle
               q == heap[o].quiet
    <2>3. i \in 0 .. MaxAge /\ q \in 0 .. MaxAge /\ i <= q + Slip
      BY <2>1 DEF Session
    <2> HIDE DEF i, q
    <2>4. Older(i) \in 0 .. MaxAge /\ Older(q) \in 0 .. MaxAge /\ Older(i) <= Older(q) + Slip
      BY <1>1, <2>3 DEF Older
    <2>5. QED
      BY <2>1, <2>2, <2>4 DEF Session, Aged, i, q
  <1>3. DOMAIN heap' = 1 .. Len(heap)
    OBVIOUS
  <1>4. heap' \in Seq(Session) /\ Len(heap') = Len(heap)
    BY <1>2, <1>3
  <1>5. QED
    BY <1>2, <1>3, <1>4 DEF AgeInv

\* Connecting: nothing of the proxy exists yet.
LEMMA ConnectStep ==
    ASSUME Inv, Dial \/ Listen \/ Accept
    PROVE  Inv'
  <1> USE DEF Inv, ProxySide, registry
  <1>1. /\ UNCHANGED <<data, current, heap, sessions, packetsDropped, received, forwards, fwd>>
        /\ run' \in {"select", "accept", "returned"}
    BY DEF Dial, Listen, Accept
  <1>2. /\ listener' \in {"none", "open", "closed"}
        /\ conn' \in {"none", "open", "lost", "closed"}
    BY DEF Dial, Listen, Accept, Types
  <1>3. Types'
    BY <1>1, <1>2 DEF Types, Connecting, Looping
  <1>4. TunnelInv'
    BY DEF Dial, Listen, Accept, TunnelInv, Looping
  <1>5. HandlerInv' /\ ForwardInv' /\ AgeInv'
    BY <1>1 DEF HandlerInv, RecordsRegistered, ForwardInv, AgeInv
  <1>6. QED
    BY <1>3, <1>4, <1>5

\* The select: only GC touches the registry, and it only removes.
LEMMA SelectStep ==
    ASSUME Inv, SelectDone \/ SelectGC \/ SelectDefault \/ Receive \/ ReceiveFails
    PROVE  Inv'
  <1> USE DEF Inv, ProxySide, registry, tunnel
  <1>1. /\ UNCHANGED <<current, heap, packetsDropped, forwards, fwd, listener>>
        /\ run' \in {"select", "receive", "handle", "returned"}
        /\ run' = "handle" => data' \in Incoming
        /\ data' \in Incoming \cup {Nil}
        /\ received' \in Nat
        /\ conn' \in {"none", "open", "lost", "closed"}
    BY DEF SelectDone, SelectGC, SelectDefault, Receive, ReceiveFails, Types
  <1>2. sessions' = sessions \/ sessions' = Collected
    BY DEF SelectDone, SelectGC, SelectDefault, Receive, ReceiveFails
  <1>3. sessions' \in [IDs -> 0 .. Len(heap)]
    BY <1>2 DEF Types, Collected
  <1>4. Types'
    BY <1>1, <1>3 DEF Types, Connecting, Looping
  <1>5. TunnelInv'
    BY DEF SelectDone, SelectGC, SelectDefault, Receive, ReceiveFails, TunnelInv, Looping
  <1>6. HandlerInv' /\ ForwardInv' /\ AgeInv'
    BY <1>1 DEF HandlerInv, RecordsRegistered, ForwardInv, AgeInv
  <1>7. QED
    BY <1>4, <1>5, <1>6

\* handleDatagram, from the decoder to the record.
LEMMA HandleStep ==
    ASSUME Inv, Decode \/ GetIn \/ Create \/ RecordIn
    PROVE  Inv'
  <1> USE DEF Inv, registry, tunnel
  <1>1. CASE Decode
    <2>1. /\ UNCHANGED <<listener, conn, current, heap, sessions, received, forwards, fwd>>
          /\ run = "handle" /\ run' \in {"select", "get"}
          /\ run' = "get" => data' = data
          /\ data' \in {data, Nil}
          /\ packetsDropped' \in Nat
      BY <1>1 DEF Decode, Drops, Types
    <2>2. Types'
      BY <2>1 DEF Types, Connecting, Looping
    <2>3. TunnelInv' /\ HandlerInv' /\ ForwardInv' /\ AgeInv'
      BY <2>1 DEF TunnelInv, Looping, HandlerInv, RecordsRegistered, ForwardInv, AgeInv
    <2>4. QED
      BY <2>2, <2>3
  <1>2. CASE GetIn
    <2>1. data \in Incoming /\ data.id \in IDs
      BY <1>2, RelayAssumption DEF GetIn, HandlerInv, Datagram
    <2>2. /\ UNCHANGED <<listener, conn, data, heap, sessions, packetsDropped, received, forwards, fwd>>
          /\ run = "get" /\ run' \in {"create", "record"}
          /\ run' = "record" => sessions[data.id] # 0
          /\ current' = sessions[data.id]
      BY <1>2 DEF GetIn
    <2>3. Types'
      BY <2>1, <2>2 DEF Types, Connecting, Looping
    <2>4. TunnelInv' /\ HandlerInv' /\ ForwardInv' /\ AgeInv'
      BY <2>1, <2>2 DEF TunnelInv, Looping, HandlerInv, RecordsRegistered, ForwardInv, AgeInv
    <2>5. QED
      BY <2>3, <2>4
  <1>3. CASE Create
    <2>1. data \in Incoming /\ data.id \in IDs
      BY <1>3, RelayAssumption DEF Create, HandlerInv, Datagram
    <2> DEFINE s == [id |-> data.id, idle |-> 0, quiet |-> 0, packetsIn |-> 0]
    <2>2. s \in Session /\ s.idle <= s.quiet + Slip
      BY <2>1, RelayAssumption DEF Session, MaxAge
    <2>3. /\ UNCHANGED <<listener, conn, data, packetsDropped, received, forwards, fwd>>
          /\ run = "create" /\ run' = "record"
          /\ heap' = Append(heap, s)
          /\ sessions' = [sessions EXCEPT ![data.id] = Len(heap) + 1]
          /\ current' = Len(heap) + 1
      BY <1>3 DEF Create
    <2> HIDE DEF s
    <2>4. heap \in Seq(Session)
      BY DEF Types
    <2>5. /\ heap' \in Seq(Session) /\ Len(heap') = Len(heap) + 1
          /\ \A o \in 1 .. Len(heap') : heap'[o] = IF o <= Len(heap) THEN heap[o] ELSE s
      BY <2>2, <2>3, <2>4
    <2>6. /\ sessions' \in [IDs -> 0 .. Len(heap')]
          /\ current' \in 0 .. Len(heap')
      BY <2>1, <2>3, <2>4, <2>5 DEF Types
    <2>7. fwd' \in [Forwarders ->
                  [pc : {"idle", "get", "record", "failed"}, id : IDs \cup {Nil},
                   length : Nat, session : 0 .. Len(heap')]]
      BY <2>3, <2>4, <2>5 DEF Types
    <2>8. Types'
      BY <2>3, <2>5, <2>6, <2>7 DEF Types, Connecting, Looping
    <2>9. AgeInv'
      BY <2>2, <2>4, <2>5 DEF AgeInv
    <2>10. TunnelInv' /\ HandlerInv' /\ ForwardInv'
      BY <2>1, <2>3, <2>4 DEF TunnelInv, Looping, HandlerInv, RecordsRegistered, ForwardInv, Types
    <2>11. QED
      BY <2>8, <2>9, <2>10
  <1>4. CASE RecordIn
    <2>1. current \in 1 .. Len(heap) /\ heap \in Seq(Session) /\ heap[current] \in Session
      BY <1>4 DEF RecordIn, HandlerInv, RecordsRegistered, Types
    <2>2. PICK t \in Touch(heap[current]) :
              heap' = [heap EXCEPT ![current] = [t EXCEPT !.packetsIn = t.packetsIn + 1]]
      BY <1>4 DEF RecordIn
    <2>3. heap' \in Seq(Session) /\ Len(heap') = Len(heap) /\ AgeInv'
      BY <2>1, <2>2, TouchResult, HeapUpdate
    <2>4. /\ UNCHANGED <<listener, conn, sessions, packetsDropped, received, forwards, fwd>>
          /\ run = "record" /\ run' = "select" /\ data' = Nil /\ current' = 0
      BY <1>4 DEF RecordIn
    <2>5. Types'
      BY <2>1, <2>3, <2>4 DEF Types, Connecting, Looping
    <2>6. TunnelInv' /\ HandlerInv' /\ ForwardInv'
      BY <2>4 DEF TunnelInv, Looping, HandlerInv, RecordsRegistered, ForwardInv
    <2>7. QED
      BY <2>3, <2>5, <2>6
  <1>5. QED
    BY <1>1, <1>2, <1>3, <1>4

\* ForwardPacket only reads the registry, and touches the session it found,
\* though that may no longer be registered.
LEMMA ForwardStep ==
    ASSUME Inv, NEW f \in Forwarders,
           (\E id \in IDs, n \in Lengths : ForwardPacket(f, id, n)) \/ GetOut(f) \/ RecordOut(f)
    PROVE  Inv'
  <1> USE DEF Inv, RunSide, tunnel
  <1> DEFINE Locals == [pc : {"idle", "get", "record", "failed"}, id : IDs \cup {Nil},
                        length : Nat, session : 0 .. Len(heap)]
  <1>1. UNCHANGED <<listener, conn, run, data, current, sessions, packetsDropped, received>>
    BY DEF ForwardPacket, GetOut, RecordOut
  <1>2. /\ heap \in Seq(Session) /\ Len(heap) \in Nat
        /\ fwd \in [Forwarders -> Locals]
        /\ forwards \in Nat
    BY DEF Types
  <1>3. Idle \in Locals
    BY <1>2 DEF Idle
  <1>4. ASSUME heap' \in Seq(Session), Len(heap') = Len(heap), AgeInv', forwards' \in Nat,
               fwd' \in [Forwarders -> Locals], ForwardInv'
        PROVE  Inv'
    <2>1. Types'
      BY <1>1, <1>4 DEF Types
    <2>2. TunnelInv' /\ HandlerInv'
      BY <1>1 DEF TunnelInv, HandlerInv, RecordsRegistered
    <2>3. QED
      BY <1>4, <2>1, <2>2
  <1>5. ASSUME NEW id \in IDs, NEW n \in Lengths, ForwardPacket(f, id, n)
        PROVE  Inv'
    <2> DEFINE sent == ~TooLarge(n) /\ conn = "open" /\ EnableDatagrams
               new == [pc |-> IF sent THEN "get" ELSE "failed",
                       id |-> id, length |-> n, session |-> 0]
    <2>1. /\ heap' = heap /\ forwards' = forwards + 1
          /\ fwd' = [fwd EXCEPT ![f] = new]
      BY <1>5 DEF ForwardPacket
    <2>2. n \in Nat
      BY RelayAssumption
    <2>3. /\ new \in Locals
          /\ new.pc # "record" /\ new.id \in IDs
          /\ new.pc = "get" => ~TooLarge(new.length)
      BY <1>2, <2>2
    <2> HIDE DEF new, Locals
    <2>4. fwd' \in [Forwarders -> Locals]
      BY <1>2, <2>1, <2>3
    <2>5. ForwardInv'
      BY <1>2, <2>1, <2>3 DEF ForwardInv, TooLarge
    <2>6. AgeInv'
      BY <2>1 DEF AgeInv
    <2>7. QED
      BY <1>2, <1>4, <2>1, <2>4, <2>5, <2>6
  <1>6. CASE GetOut(f)
    <2> DEFINE o == sessions[fwd[f].id]
               new == IF o = 0 THEN Idle
                      ELSE [pc |-> "record", id |-> fwd[f].id,
                            length |-> fwd[f].length, session |-> o]
    <2>1. /\ heap' = heap /\ forwards' = forwards
          /\ fwd' = [fwd EXCEPT ![f] = new]
          /\ fwd[f].pc = "get"
      BY <1>6 DEF GetOut
    <2>2. /\ fwd[f] \in Locals
          /\ fwd[f].id \in IDs /\ ~TooLarge(fwd[f].length)
          /\ o \in 0 .. Len(heap)
      BY <1>2, <2>1 DEF ForwardInv, Types
    <2>3. /\ new \in Locals
          /\ new.pc \in {"get", "record"} =>
                new.id \in IDs /\ ~TooLarge(new.length) /\ new.session # 0
      BY <1>3, <2>2 DEF Idle
    <2> HIDE DEF new, Locals, o
    <2>4. fwd' \in [Forwarders -> Locals]
      BY <1>2, <2>1, <2>3
    <2>5. ForwardInv'
      BY <1>2, <2>1, <2>3 DEF ForwardInv, TooLarge
    <2>6. AgeInv'
      BY <2>1 DEF AgeInv
    <2>7. QED
      BY <1>2, <1>4, <2>1, <2>4, <2>5, <2>6
  <1>7. CASE RecordOut(f)
    <2>1. fwd[f].session \in 1 .. Len(heap) /\ heap[fwd[f].session] \in Session
      BY <1>2, <1>7 DEF RecordOut, ForwardInv
    <2>2. PICK t \in Touch(heap[fwd[f].session]) :
              heap' = [heap EXCEPT ![fwd[f].session] = t]
      BY <1>7 DEF RecordOut
    <2>3. heap' \in Seq(Session) /\ Len(heap') = Len(heap) /\ AgeInv'
      BY <1>2, <2>1, <2>2, TouchResult, HeapUpdate
    <2>4. forwards' = forwards /\ fwd' = [fwd EXCEPT ![f] = Idle]
      BY <1>7 DEF RecordOut
    <2>5. fwd' \in [Forwarders -> Locals]
      BY <1>2, <1>3, <2>4
    <2>6. ForwardInv'
      BY <1>2, <2>4 DEF ForwardInv, TooLarge, Idle
    <2>7. QED
      BY <1>2, <1>4, <2>3, <2>4, <2>5, <2>6
  <1>8. QED
    BY <1>5, <1>6, <1>7

\* The world around the proxy.
LEMMA WorldStep ==
    ASSUME Inv, Cancel \/ ConnectionLost \/ GCTickerFires \/ Tick
    PROVE  Inv'
  <1> USE DEF Inv, RunSide, ProxySide, registry, tunnel
  <1>1. /\ UNCHANGED <<listener, run, data, current, sessions, packetsDropped, received, forwards, fwd>>
        /\ conn' \in {conn, "lost"}
    BY DEF Cancel, ConnectionLost, GCTickerFires, Tick
  <1>2. heap' \in Seq(Session) /\ Len(heap') = Len(heap) /\ AgeInv'
    <2>1. CASE Tick
      BY <2>1, HeapOlder DEF Tick, Types
    <2>2. CASE heap' = heap
      BY <2>2 DEF AgeInv, Types
    <2>3. QED
      BY <2>1, <2>2 DEF Cancel, ConnectionLost, GCTickerFires
  <1>3. Types'
    BY <1>1, <1>2 DEF Types
  <1>4. TunnelInv' /\ HandlerInv' /\ ForwardInv'
    BY <1>1 DEF TunnelInv, HandlerInv, RecordsRegistered, ForwardInv
  <1>5. QED
    BY <1>2, <1>3, <1>4

\* The invariant is inductive.
LEMMA InvStep == Inv /\ [Next]_vars => Inv'
  <1>1. ASSUME Inv, UNCHANGED vars PROVE Inv'
    BY <1>1 DEF vars, tunnel, registry, Inv, Types, TunnelInv, HandlerInv,
                RecordsRegistered, ForwardInv, AgeInv
  <1>2. ASSUME Inv, Next PROVE Inv'
    BY <1>2, ConnectStep, SelectStep, HandleStep, ForwardStep, WorldStep DEF Next, Loop
  <1>3. QED
    BY <1>1, <1>2

\* The invariant holds at first.
LEMMA InvInit == Init => Inv /\ Flags
  <1> SUFFICES ASSUME Init PROVE Inv /\ Flags
    OBVIOUS
  <1> USE DEF Init
  <1>1. Flags
    BY Zenon DEF Flags
  <1>2. heap = << >> /\ heap \in Seq(Session) /\ Len(heap) = 0
    OBVIOUS
  <1>3. fwd = [f \in Forwarders |-> Idle]
    OBVIOUS
  <1>4. Types
    BY <1>2, <1>3 DEF Types, Connecting, Idle
  <1>5. TunnelInv /\ HandlerInv /\ ForwardInv /\ AgeInv
    BY <1>2, <1>3 DEF TunnelInv, HandlerInv, RecordsRegistered, ForwardInv, AgeInv, Idle
  <1>6. QED
    BY <1>1, <1>4, <1>5 DEF Inv

\* Type correctness, pointers included: whoever holds a session holds one that
\* was made.
THEOREM TypeCorrect == Spec => []TypeOK
  <1>1. Inv /\ Flags => TypeOK
    BY Zenon DEF Inv, Flags, Types, TypeOK
  <1>2. QED
    BY <1>1, InvInit, InvStep, FlagsStep, PTL DEF Spec

\* An incoming packet is always recorded in the session that is registered for
\* its id, because GC and Create run in the goroutine that records.
THEOREM InboundRegistered == Spec => []RecordsRegistered
  <1>1. Inv => RecordsRegistered
    BY DEF Inv, HandlerInv
  <1>2. QED
    BY <1>1, InvInit, InvStep, PTL DEF Spec

\* serve-relay leaves no listener and no connection open.
THEOREM TunnelClosed == Spec => []NoOpenTunnel
  <1>1. Inv => NoOpenTunnel
    BY DEF Inv, TunnelInv, NoOpenTunnel, Looping
  <1>2. QED
    BY <1>1, InvInit, InvStep, PTL DEF Spec

\* Whatever the payload, what is sent decodes to what was given.
THEOREM FramesRoundTrip == Spec => []RoundTrip
  <1>1. Inv => RoundTrip
    <2> SUFFICES ASSUME Inv, NEW f \in Forwarders, fwd[f].pc \in {"get", "record"}
                 PROVE  LET d == Encode(fwd[f].id, fwd[f].length)
                        IN  ~Malformed(d) /\ d.payloadLen = fwd[f].length
      BY DEF RoundTrip
    <2> DEFINE n == fwd[f].length
    <2>1. n \in Nat /\ n < LengthRange /\ LengthRange \in Nat /\ HeaderSize \in Nat
      BY RelayAssumption DEF Inv, Types, ForwardInv, TooLarge
    <2> HIDE DEF n
    <2>2. n % LengthRange = n
      BY <2>1
    <2>3. QED
      BY <2>1, <2>2 DEF Encode, Malformed, n
  <1>2. QED
    BY <1>1, InvInit, InvStep, PTL DEF Spec

\* GC removes a session only when no packet went through it within the timeout,
\* for every timeout and every lag of the stored clock.
THEOREM CollectsIdleOnly == Spec => GCSpares
  <1>1. Inv /\ [Next]_vars =>
          [\A id \in IDs : sessions[id] # 0 /\ sessions'[id] = 0
             => heap[sessions[id]].quiet > Timeout - Slip]_vars
    <2> SUFFICES ASSUME Inv, Next, NEW id \in IDs, sessions[id] # 0, sessions'[id] = 0
                 PROVE  heap[sessions[id]].quiet > Timeout - Slip
      OBVIOUS
    <2>1. /\ heap \in Seq(Session) /\ Len(heap) \in Nat
          /\ sessions \in [IDs -> 0 .. Len(heap)]
          /\ sessions[id] \in 1 .. Len(heap)
          /\ heap[sessions[id]] \in Session
      BY DEF Inv, Types
    <2>2. CASE SelectGC
      <3>1. IsExpired(heap[sessions[id]])
        BY <2>1, <2>2 DEF SelectGC, Collected
      <3>2. heap[sessions[id]].idle <= heap[sessions[id]].quiet + Slip
        BY <2>1 DEF Inv, AgeInv
      <3>3. heap[sessions[id]].idle \in Int /\ heap[sessions[id]].quiet \in Int
        BY <2>1 DEF Session
      <3>4. QED
        BY <3>1, <3>2, <3>3, RelayAssumption DEF IsExpired
    <2>3. CASE Create
      BY <2>1, <2>3 DEF Create
    <2>4. CASE sessions' = sessions
      BY <2>4
    <2>5. QED
      BY <2>2, <2>3, <2>4 DEF Next, Loop, Dial, Listen, Accept, SelectDone, SelectDefault,
         Receive, ReceiveFails, Decode, GetIn, RecordIn, ForwardPacket, GetOut, RecordOut,
         Cancel, ConnectionLost, GCTickerFires, Tick, RunSide, ProxySide, registry
  <1>2. QED
    BY <1>1, InvInit, InvStep, PTL DEF Spec, GCSpares

-----------------------------------------------------------------------------
(* Every datagram is accounted for once.                                   *)

Handling == run \in {"handle", "get", "create", "record"}

\* The sum over sessions is the size of a set, which a step leaves alone or
\* extends by one element.
CountInv == IsFiniteSet(Counted) /\ InOnce

\* What it means to be a counted packet.
LEMMA InCounted ==
    \A p : p \in Counted <=> \E o \in DOMAIN heap : \E i \in 1 .. heap[o].packetsIn : p = <<o, i>>
  BY DEF Counted

\* Sessions that count the same, and new ones that have counted nothing, leave
\* the counted packets as they are.
LEMMA CountedSame ==
    ASSUME DOMAIN heap \subseteq DOMAIN heap',
           \A o \in DOMAIN heap : heap'[o].packetsIn = heap[o].packetsIn,
           \A o \in DOMAIN heap' : o \notin DOMAIN heap => heap'[o].packetsIn = 0
    PROVE  Counted' = Counted
  <1>1. \A p : p \in Counted' <=>
                 \E o \in DOMAIN heap' : \E i \in 1 .. heap'[o].packetsIn : p = <<o, i>>
    BY DEF Counted
  <1>2. \A i : i \notin 1 .. 0
    OBVIOUS
  <1>3. \A p : p \in Counted' <=> p \in Counted
    BY <1>1, <1>2, InCounted
  <1>4. QED
    BY <1>3

\* Touching a session does not count a packet; a packet that is counted adds
\* one.
LEMMA TouchCounts ==
    ASSUME NEW s \in Session, NEW t \in Touch(s)
    PROVE  /\ t.packetsIn = s.packetsIn /\ s.packetsIn \in Nat
           /\ [t EXCEPT !.packetsIn = t.packetsIn + 1].packetsIn = s.packetsIn + 1
  <1>1. PICK age \in 0 .. Slip : t = Aged(s, age, 0)
    BY DEF Touch
  <1>2. QED
    BY <1>1 DEF Aged, Session

\* RecordPacketIn adds one packet to those counted.
LEMMA CountedOneMore ==
    ASSUME heap \in Seq(Session), NEW c \in DOMAIN heap, DOMAIN heap' = DOMAIN heap,
           heap'[c].packetsIn = heap[c].packetsIn + 1,
           \A o \in DOMAIN heap : o # c => heap'[o].packetsIn = heap[o].packetsIn,
           IsFiniteSet(Counted)
    PROVE  /\ IsFiniteSet(Counted')
           /\ Cardinality(Counted') = Cardinality(Counted) + 1
  <1> DEFINE n == heap[c].packetsIn
             new == <<c, n + 1>>
  <1>1. n \in Nat
    <2>1. heap[c] \in Session
      OBVIOUS
    <2>2. QED
      BY <2>1 DEF Session
  <1>2. \A i : i \in 1 .. (n + 1) <=> i \in 1 .. n \/ i = n + 1
    BY <1>1
  <1>3. \A p : p \in Counted' <=>
                 \E o \in DOMAIN heap' : \E i \in 1 .. heap'[o].packetsIn : p = <<o, i>>
    BY DEF Counted
  <1>4. \A p : p \in Counted' <=> p \in Counted \/ p = new
    <2> SUFFICES ASSUME NEW p
                 PROVE  p \in Counted' <=> p \in Counted \/ p = new
      OBVIOUS
    <2>1. ASSUME p \in Counted' PROVE p \in Counted \/ p = new
      <3>1. PICK o \in DOMAIN heap : \E i \in 1 .. heap'[o].packetsIn : p = <<o, i>>
        BY <2>1, <1>3
      <3>0. PICK i \in 1 .. heap'[o].packetsIn : p = <<o, i>>
        BY <3>1
      <3>2. CASE o = c
        BY <3>0, <3>2, <1>2, InCounted
      <3>3. CASE o # c
        BY <3>0, <3>3, InCounted
      <3>4. QED
        BY <3>2, <3>3
    <2>2. ASSUME p \in Counted PROVE p \in Counted'
      <3>0. PICK o \in DOMAIN heap : \E i \in 1 .. heap[o].packetsIn : p = <<o, i>>
        BY <2>2, InCounted
      <3>1. PICK i \in 1 .. heap[o].packetsIn : p = <<o, i>>
        BY <3>0
      <3>2. i \in 1 .. heap'[o].packetsIn
        BY <3>1, <1>2
      <3>3. QED
        BY <3>1, <3>2, <1>3
    <2>3. ASSUME p = new PROVE p \in Counted'
      <3>1. n + 1 \in 1 .. heap'[c].packetsIn
        BY <1>1
      <3>2. QED
        BY <2>3, <3>1, <1>3
    <2>4. QED
      BY <2>1, <2>2, <2>3
  <1>5. new \notin Counted
    <2> SUFFICES ASSUME new \in Counted PROVE FALSE
      OBVIOUS
    <2>0. PICK o \in DOMAIN heap : \E i \in 1 .. heap[o].packetsIn : new = <<o, i>>
      BY InCounted
    <2>1. PICK i \in 1 .. heap[o].packetsIn : new = <<o, i>>
      BY <2>0
    <2>2. o = c /\ i = n + 1
      BY <2>1
    <2>3. QED
      BY <2>1, <2>2, <1>1
  <1>6. Counted' = Counted \cup {new}
    BY <1>4
  <1> HIDE DEF new
  <1>7. QED
    BY <1>5, <1>6, FS_AddElement

\* Every step keeps CountInv.
LEMMA CountStep == Inv /\ CountInv /\ [Next]_vars => CountInv'
  <1> SUFFICES ASSUME Inv, CountInv, [Next]_vars
               PROVE  CountInv'
    OBVIOUS
  <1>0. /\ heap \in Seq(Session) /\ DOMAIN heap = 1 .. Len(heap) /\ Len(heap) \in Nat
        /\ received \in Nat /\ packetsDropped \in Nat
        /\ IsFiniteSet(Counted) /\ Cardinality(Counted) \in Nat
        /\ received = packetsDropped + Cardinality(Counted) + (IF Handling THEN 1 ELSE 0)
    BY FS_CardinalityType DEF Inv, Types, CountInv, InOnce, Handling
  \* A step that counts nothing balances the rest.
  <1>1. ASSUME Counted' = Counted,
               received' = packetsDropped' + Cardinality(Counted)
                             + (IF Handling' THEN 1 ELSE 0)
        PROVE  CountInv'
    BY <1>0, <1>1 DEF CountInv, InOnce, Handling
  <1>2. ASSUME heap' = heap PROVE Counted' = Counted
    BY <1>2 DEF Counted
  <1>3. CASE Dial \/ Listen \/ Accept
    BY <1>0, <1>1, <1>2, <1>3 DEF Dial, Listen, Accept, ProxySide, registry, Handling
  <1>4. CASE SelectDone \/ SelectGC \/ SelectDefault \/ ReceiveFails
    BY <1>0, <1>1, <1>2, <1>4
       DEF SelectDone, SelectGC, SelectDefault, ReceiveFails, ProxySide, registry, Handling
  <1>5. CASE Receive
    BY <1>0, <1>1, <1>2, <1>5 DEF Receive, registry, Handling
  <1>6. CASE Decode
    BY <1>0, <1>1, <1>2, <1>6 DEF Decode, Drops, registry, Handling
  <1>7. CASE GetIn
    BY <1>0, <1>1, <1>2, <1>7 DEF GetIn, registry, Handling
  <1>8. CASE Create
    <2> DEFINE s == [id |-> data.id, idle |-> 0, quiet |-> 0, packetsIn |-> 0]
    <2>1. s \in Session /\ s.packetsIn = 0
      BY <1>8, RelayAssumption DEF Inv, HandlerInv, Create, Datagram, Session, MaxAge
    <2>2. heap' = Append(heap, s)
      BY <1>8 DEF Create
    <2> HIDE DEF s
    <2>3. /\ DOMAIN heap' = 1 .. (Len(heap) + 1)
          /\ \A o \in 1 .. Len(heap) : heap'[o] = heap[o]
          /\ heap'[Len(heap) + 1] = s
      BY <2>1, <2>2, <1>0, AppendProperties
    <2>4. \A o \in DOMAIN heap' : o \notin DOMAIN heap => o = Len(heap) + 1
      BY <2>3, <1>0
    <2>5. Counted' = Counted
      BY <2>1, <2>3, <2>4, <1>0, CountedSame
    <2>6. QED
      BY <2>5, <1>0, <1>1, <1>8 DEF Create, Handling
  <1>9. CASE RecordIn
    <2>1. current \in DOMAIN heap /\ heap[current] \in Session
      BY <1>9, <1>0 DEF RecordIn, Inv, HandlerInv, RecordsRegistered, Types
    <2>2. PICK t \in Touch(heap[current]) :
              heap' = [heap EXCEPT ![current] = [t EXCEPT !.packetsIn = t.packetsIn + 1]]
      BY <1>9 DEF RecordIn
    <2> DEFINE u == [t EXCEPT !.packetsIn = t.packetsIn + 1]
    <2>3. u.packetsIn = heap[current].packetsIn + 1
      BY <2>1, TouchCounts
    <2>4. heap' = [heap EXCEPT ![current] = u]
      BY <2>2
    <2> HIDE DEF u
    <2>5. /\ DOMAIN heap' = DOMAIN heap /\ heap'[current] = u
          /\ \A o \in DOMAIN heap : o # current => heap'[o] = heap[o]
      BY <2>1, <2>4, <1>0
    <2>6. IsFiniteSet(Counted') /\ Cardinality(Counted') = Cardinality(Counted) + 1
      BY <2>1, <2>3, <2>5, <1>0, CountedOneMore
    <2>7. received' = received /\ packetsDropped' = packetsDropped /\ Handling /\ ~Handling'
      BY <1>9 DEF RecordIn, Handling
    <2>8. QED
      BY <2>6, <2>7, <1>0 DEF CountInv, InOnce, Handling
  <1>10. ASSUME NEW f \in Forwarders,
                (\E id \in IDs, n \in Lengths : ForwardPacket(f, id, n)) \/ GetOut(f)
         PROVE  CountInv'
    BY <1>0, <1>1, <1>2, <1>10 DEF ForwardPacket, GetOut, RunSide, Handling
  <1>11. ASSUME NEW f \in Forwarders, RecordOut(f)
         PROVE  CountInv'
    <2>1. fwd[f].session \in DOMAIN heap /\ heap[fwd[f].session] \in Session
      BY <1>11, <1>0 DEF RecordOut, Inv, ForwardInv, Types
    <2>2. PICK t \in Touch(heap[fwd[f].session]) :
              heap' = [heap EXCEPT ![fwd[f].session] = t]
      BY <1>11 DEF RecordOut
    <2>3. t.packetsIn = heap[fwd[f].session].packetsIn
      BY <2>1, TouchCounts
    <2>4. /\ DOMAIN heap' = DOMAIN heap
          /\ \A o \in DOMAIN heap : heap'[o].packetsIn = heap[o].packetsIn
      BY <2>1, <2>2, <2>3, <1>0
    <2>5. Counted' = Counted
      BY <2>4, CountedSame
    <2>6. QED
      BY <2>5, <1>0, <1>1, <1>11 DEF RecordOut, RunSide, Handling
  <1>12. CASE Cancel \/ ConnectionLost \/ GCTickerFires
    BY <1>0, <1>1, <1>2, <1>12
       DEF Cancel, ConnectionLost, GCTickerFires, ProxySide, registry, Handling
  <1>13. CASE Tick
    <2>1. /\ DOMAIN heap' = DOMAIN heap
          /\ \A o \in DOMAIN heap : heap'[o].packetsIn = heap[o].packetsIn
      BY <1>13 DEF Tick, Aged
    <2>2. Counted' = Counted
      BY <2>1, CountedSame
    <2>3. QED
      BY <2>2, <1>0, <1>1, <1>13 DEF Tick, RunSide, Handling
  <1>14. CASE UNCHANGED vars
    BY <1>0, <1>1, <1>2, <1>14 DEF vars, registry, Handling
  <1>15. QED
    BY <1>3, <1>4, <1>5, <1>6, <1>7, <1>8, <1>9, <1>10, <1>11, <1>12, <1>13, <1>14
       DEF Next, Loop

\* Every datagram that arrives is dropped, counted by exactly one session or
\* still being handled, however many sessions, datagrams and forwarders.
THEOREM AccountedOnce == Spec => []InOnce
  <1>1. Init => CountInv
    <2> SUFFICES ASSUME Init PROVE CountInv
      OBVIOUS
    <2>1. DOMAIN heap = {} /\ ~Handling /\ received = 0 /\ packetsDropped = 0
      BY DEF Init, Handling
    <2>2. Counted = {}
      BY <2>1 DEF Counted
    <2>3. QED
      BY <2>1, <2>2, FS_EmptySet DEF CountInv, InOnce, Handling
  <1>2. CountInv => InOnce
    BY DEF CountInv
  <1>3. QED
    BY <1>1, <1>2, CountStep, InvInit, InvStep, PTL DEF Spec

-----------------------------------------------------------------------------
(* The documented transport, with datagrams enabled.                       *)

\* No call is made before there is a proxy, and a connection never opens again
\* once the tunnel has connected: a failure stays one of a closed connection or
\* of a payload that is too large.
CarriesInv ==
    /\ Carries
    /\ run \in Connecting => \A f \in Forwarders : fwd[f].pc = "idle"

\* Every step keeps CarriesInv.
LEMMA CarriesStep ==
    ASSUME EnableDatagrams
    PROVE  Inv /\ CarriesInv /\ [Next]_vars => CarriesInv'
  <1> SUFFICES ASSUME Inv, CarriesInv, [Next]_vars
               PROVE  CarriesInv'
    OBVIOUS
  <1>1. fwd \in [Forwarders -> [pc : {"idle", "get", "record", "failed"}, id : IDs \cup {Nil},
                               length : Nat, session : 0 .. Len(heap)]]
    BY DEF Inv, Types
  <1>2. CASE Dial \/ Listen \/ Accept
    BY <1>2 DEF Dial, Listen, Accept, ProxySide, CarriesInv, Carries, Connecting, TooLarge
  <1>3. CASE SelectDone \/ Loop
    <2>1. fwd' = fwd /\ run' \notin Connecting /\ (conn' = "open" => conn = "open")
      BY <1>3 DEF SelectDone, Loop, SelectGC, SelectDefault, Receive, ReceiveFails, Decode,
         GetIn, Create, RecordIn, ProxySide, tunnel, Connecting
    <2>2. QED
      BY <2>1 DEF CarriesInv, Carries, TooLarge
  <1>4. ASSUME NEW f \in Forwarders, NEW id \in IDs, NEW n \in Lengths, ForwardPacket(f, id, n)
        PROVE  CarriesInv'
    <2> DEFINE sent == ~TooLarge(n) /\ conn = "open" /\ EnableDatagrams
               new == [pc |-> IF sent THEN "get" ELSE "failed",
                       id |-> id, length |-> n, session |-> 0]
    <2>1. /\ fwd' = [fwd EXCEPT ![f] = new]
          /\ run' = run /\ run \notin Connecting /\ conn' = conn
      BY <1>4 DEF ForwardPacket, RunSide, tunnel
    <2>2. new.length = n /\ (new.pc = "failed" => TooLarge(n) \/ conn # "open")
      OBVIOUS
    <2> HIDE DEF new
    <2>3. QED
      BY <1>1, <2>1, <2>2 DEF CarriesInv, Carries, TooLarge
  <1>5. ASSUME NEW f \in Forwarders, GetOut(f) \/ RecordOut(f)
        PROVE  CarriesInv'
    <2>1. run' = run /\ conn' = conn /\ fwd[f].pc # "idle"
      BY <1>5 DEF GetOut, RecordOut, RunSide, tunnel
    <2>2. PICK new : fwd' = [fwd EXCEPT ![f] = new] /\ new.pc # "failed"
      BY <1>5 DEF GetOut, RecordOut, Idle
    <2>3. QED
      BY <1>1, <2>1, <2>2 DEF CarriesInv, Carries, TooLarge
  <1>6. CASE Cancel \/ ConnectionLost \/ GCTickerFires \/ Tick \/ UNCHANGED vars
    <2>1. fwd' = fwd /\ run' = run /\ (conn' = "open" => conn = "open")
      BY <1>6 DEF Cancel, ConnectionLost, GCTickerFires, Tick, ProxySide, RunSide, tunnel, vars
    <2>2. QED
      BY <2>1 DEF CarriesInv, Carries, TooLarge
  <1>7. QED
    BY <1>2, <1>3, <1>4, <1>5, <1>6 DEF Next

\* Were quic.Config.EnableDatagrams set on both ends, every payload within the
\* limit would go over an open connection: the missing setting is all that
\* stands between ForwardPacket and what is documented of it.
THEOREM CarriesWithDatagrams ==
    ASSUME EnableDatagrams
    PROVE  Spec => []Carries
  <1>1. Init => CarriesInv
    BY DEF Init, CarriesInv, Carries, Idle
  <1>2. CarriesInv => Carries
    BY DEF CarriesInv
  <1>3. Inv /\ CarriesInv /\ [Next]_vars => CarriesInv'
    BY CarriesStep
  <1>4. QED
    BY <1>1, <1>2, <1>3, InvInit, InvStep, PTL DEF Spec
=============================================================================

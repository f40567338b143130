------------------------------- MODULE Relay -------------------------------
(***************************************************************************)
(* One end of a relay pair: serve-relay (cmd/turnfly/main.go), the tunnel  *)
(* (internal/relay/tunnel.go), the proxy (proxy.go), its registry of       *)
(* sessions (session.go) and the frames (frame.go).                        *)
(*                                                                         *)
(* Two kinds of goroutines share the registry: the one in Proxy.Run, which *)
(* receives datagrams, creates sessions and collects them, and the callers *)
(* of ForwardPacket.  The registry's lock covers Get, Create and GC, not   *)
(* the sessions they hand out, so each locked section is a step and so is  *)
(* each unlocked update of a session.  Manager.Close and Delete are not    *)
(* reachable through a Proxy.                                              *)
(*                                                                         *)
(* Time is the age of what it is compared with: a session's `idle` is how  *)
(* long ago its LastActive is, and stops growing when nothing can tell.    *)
(***************************************************************************)
EXTENDS Integers, Sequences, FiniteSets

CONSTANTS
    Forwarders,         \* the goroutines that call ForwardPacket
    IDs,                \* session ids
    Nil,                \* no session id, no datagram
    Lengths,            \* lengths of the payloads given to ForwardPacket
    Incoming,           \* datagrams the peer may send
    EnableDatagrams,    \* quic.Config.EnableDatagrams, on both ends
    HeaderSize,         \* FrameHeaderSize
    MaxPayloadSize,
    LengthRange,        \* 2^16, the range of the header's payload length
    Timeout,            \* SessionTimeout, in ticks; zero for one that is not
                        \* positive
    Slip,               \* bound: ticks between reading the clock and storing it
    MaxDatagrams,       \* bound: datagrams received in a behaviour
    MaxForwards         \* bound: calls of ForwardPacket in a behaviour

\* A datagram, as far as DecodeFrame looks: its length, whether it begins with
\* FrameMagic, and the id and the payload length its header holds.
Datagram == [size : Nat, magic : BOOLEAN, id : IDs, payloadLen : Nat]

ASSUME RelayAssumption ==
    /\ Nil \notin IDs /\ Nil \notin Incoming
    /\ Lengths \subseteq Nat
    /\ Incoming \subseteq Datagram
    /\ EnableDatagrams \in BOOLEAN
    /\ HeaderSize \in Nat \ {0}
    /\ MaxPayloadSize \in Nat
    /\ LengthRange \in Nat /\ LengthRange > MaxPayloadSize
    /\ Timeout \in Nat /\ Slip \in Nat
    /\ MaxDatagrams \in Nat /\ MaxForwards \in Nat

VARIABLES
    listener,       \* the QUIC listener of Tunnel.listen
    conn,           \* Tunnel.conn
    cancelled,      \* the caller has cancelled the context
    run,            \* where serve-relay's goroutine is
    gcTick,         \* gcTicker.C holds a tick
    data,           \* the datagram that handleDatagram has been given
    current,        \* its session s, an index of heap
    heap,           \* every Session ever made
    sessions,       \* Manager.sessions: an index of heap, or 0
    packetsDropped, \* Proxy.packetsDropped
    received,       \* datagrams ReceiveDatagram has returned
    forwards,       \* calls of ForwardPacket
    fwd             \* per forwarder: where its call is, and its locals

tunnel == <<listener, conn>>
registry == <<heap, sessions>>
vars == <<tunnel, cancelled, run, gcTick, data, current, registry,
          packetsDropped, received, forwards, fwd>>

MaxAge == Timeout + Slip + 1

\* `quiet` is not a field: how long ago a packet was last recorded.
Session == [id : IDs, idle : 0 .. MaxAge, quiet : 0 .. MaxAge, packetsIn : Nat]

\* A session with other times.
Aged(s, idle, quiet) ==
    [id |-> s.id, idle |-> idle, quiet |-> quiet, packetsIn |-> s.packetsIn]

Connecting == {"start", "accept"}

Looping == {"select", "receive", "handle", "get", "create", "record"}

-----------------------------------------------------------------------------
(* Frames.                                                                 *)

\* Mutant: no limit on the payload.
TooLargeNever(n) == FALSE

TooLarge(n) == n > MaxPayloadSize

\* Encode; the length is cut to sixteen bits.
Encode(id, n) ==
    [size |-> HeaderSize + n, magic |-> TRUE, id |-> id, payloadLen |-> n % LengthRange]

\* The three tests of DecodeFrame.
Malformed(d) ==
    \/ d.size < HeaderSize
    \/ ~d.magic
    \/ d.payloadLen > d.size - HeaderSize

-----------------------------------------------------------------------------
\* No call of ForwardPacket in progress.
Idle == [pc |-> "idle", id |-> Nil, length |-> 0, session |-> 0]

Init ==
    /\ listener = "none" /\ conn = "none"
    /\ cancelled = FALSE
    /\ run = "start"
    /\ gcTick = FALSE
    /\ data = Nil
    /\ current = 0
    /\ heap = << >>
    /\ sessions = [id \in IDs |-> 0]
    /\ packetsDropped = 0 /\ received = 0 /\ forwards = 0
    /\ fwd = [f \in Forwarders |-> Idle]

-----------------------------------------------------------------------------
(* Tunnel.Connect: dial, or listen for the one peer.                       *)

ProxySide == <<gcTick, data, current, registry, packetsDropped, received, forwards, fwd>>

Dial ==
    /\ run = "start"
    /\ \/ conn' = "open" /\ run' = "select"
       \/ run' = "returned" /\ UNCHANGED conn
    /\ UNCHANGED <<listener, cancelled, ProxySide>>

Listen ==
    /\ run = "start"
    /\ \/ listener' = "open" /\ run' = "accept"
       \/ run' = "returned" /\ UNCHANGED listener
    /\ UNCHANGED <<conn, cancelled, ProxySide>>

\* Mutant: the listener is only closed when a peer has come.
AcceptLeaks ==
    /\ run = "accept"
    /\ \/ conn' = "open" /\ run' = "select" /\ listener' = "closed"
       \/ run' = "returned" /\ UNCHANGED <<conn, listener>>
    /\ UNCHANGED <<cancelled, ProxySide>>

\* One connection, or an error, cancellation among them.
Accept ==
    /\ run = "accept"
    /\ listener' = "closed"
    /\ \/ conn' = "open" /\ run' = "select"
       \/ run' = "returned" /\ UNCHANGED conn
    /\ UNCHANGED <<cancelled, ProxySide>>

-----------------------------------------------------------------------------
(* Proxy.Run.                                                              *)

\* Mutant: the case that ends the loop only leaves the select.
SelectDoneBreaks ==
    /\ run = "select"
    /\ cancelled
    /\ run' = "receive"
    /\ UNCHANGED <<tunnel, cancelled, ProxySide>>

\* <-ctx.Done(): return p.tunnel.Close().
SelectDone ==
    /\ run = "select"
    /\ cancelled
    /\ run' = "returned"
    /\ conn' = "closed"
    /\ UNCHANGED <<listener, cancelled, ProxySide>>

\* Mutant: sessions are made without a timeout.
ExpiredNever(s) == FALSE

\* Without a timeout a session is kept for ever.
IsExpired(s) == Timeout > 0 /\ s.idle > Timeout

\* Manager.GC, under the write lock.
Collected ==
    [id \in IDs |-> IF sessions[id] # 0 /\ IsExpired(heap[sessions[id]])
                    THEN 0 ELSE sessions[id]]

\* Mutant: GC in a goroutine of its own.
SelectGCAnytime ==
    /\ run \in Looping
    /\ gcTick
    /\ gcTick' = FALSE
    /\ sessions' = Collected
    /\ UNCHANGED <<tunnel, cancelled, run, data, current, heap, packetsDropped,
                   received, forwards, fwd>>

\* <-gcTicker.C.
SelectGC ==
    /\ run = "select"
    /\ gcTick
    /\ gcTick' = FALSE
    /\ sessions' = Collected
    /\ UNCHANGED <<tunnel, cancelled, run, data, current, heap, packetsDropped,
                   received, forwards, fwd>>

\* default: taken only when no other case is ready.
SelectDefault ==
    /\ run = "select"
    /\ ~cancelled /\ ~gcTick
    /\ run' = "receive"
    /\ UNCHANGED <<tunnel, cancelled, ProxySide>>

\* ReceiveDatagram returns a datagram, perhaps one that was queued before the
\* connection was lost.
Receive ==
    /\ run = "receive"
    /\ conn \in {"open", "lost"} /\ EnableDatagrams
    /\ received < MaxDatagrams
    /\ data' \in Incoming
    /\ received' = received + 1
    /\ run' = "handle"
    /\ UNCHANGED <<tunnel, cancelled, gcTick, current, registry, packetsDropped,
                   forwards, fwd>>

\* 100 ms are over, the context is cancelled, the connection is gone, or it
\* carries no datagrams: whatever it is, the loop goes on.
ReceiveFails ==
    /\ run = "receive"
    /\ run' = "select"
    /\ UNCHANGED <<tunnel, cancelled, ProxySide>>

-----------------------------------------------------------------------------
(* handleDatagram.                                                         *)

\* Mutant: the frame is malformed and Run does not count it.
DropsUncounted == UNCHANGED packetsDropped

\* Run's `if err := p.handleDatagram(data)`.
Drops == packetsDropped' = packetsDropped + 1

Decode ==
    /\ run = "handle"
    /\ IF Malformed(data)
       THEN run' = "select" /\ data' = Nil /\ Drops
       ELSE run' = "get" /\ UNCHANGED <<data, packetsDropped>>
    /\ UNCHANGED <<tunnel, cancelled, gcTick, current, registry, received,
                   forwards, fwd>>

\* sessions.Get.
GetIn ==
    /\ run = "get"
    /\ current' = sessions[data.id]
    /\ run' = IF sessions[data.id] = 0 THEN "create" ELSE "record"
    /\ UNCHANGED <<tunnel, cancelled, gcTick, data, registry, packetsDropped,
                   received, forwards, fwd>>

\* sessions.Create.
Create ==
    /\ run = "create"
    /\ heap' = Append(heap, [id |-> data.id, idle |-> 0, quiet |-> 0, packetsIn |-> 0])
    /\ sessions' = [sessions EXCEPT ![data.id] = Len(heap) + 1]
    /\ current' = Len(heap) + 1
    /\ run' = "record"
    /\ UNCHANGED <<tunnel, cancelled, gcTick, data, packetsDropped, received,
                   forwards, fwd>>

\* Mutant: packets are counted and LastActive is left alone.
TouchForgotten(s) == {Aged(s, s.idle, 0)}

\* Touch: the clock is read, and stored up to Slip later.  LastActive is
\* written without a lock; two writers leave the value of either.
Touch(s) == {Aged(s, age, 0) : age \in 0 .. Slip}

\* s.RecordPacketIn, and the RTT sample.
RecordIn ==
    /\ run = "record"
    /\ \E s \in Touch(heap[current]) :
          heap' = [heap EXCEPT ![current] = [s EXCEPT !.packetsIn = @ + 1]]
    /\ run' = "select" /\ data' = Nil /\ current' = 0
    /\ UNCHANGED <<tunnel, cancelled, gcTick, sessions, packetsDropped, received,
                   forwards, fwd>>

-----------------------------------------------------------------------------
(* ForwardPacket.                                                          *)

RunSide == <<tunnel, cancelled, run, gcTick, data, current, sessions,
             packetsDropped, received>>

\* Encode and SendDatagram.  There is a proxy only once the tunnel is connected.
ForwardPacket(f, id, n) ==
    /\ run \notin Connecting /\ conn # "none"
    /\ fwd[f].pc \in {"idle", "failed"}
    /\ forwards < MaxForwards
    /\ forwards' = forwards + 1
    /\ LET sent == ~TooLarge(n) /\ conn = "open" /\ EnableDatagrams IN
       fwd' = [fwd EXCEPT ![f] =
                 [pc |-> IF sent THEN "get" ELSE "failed",
                  id |-> id, length |-> n, session |-> 0]]
    /\ UNCHANGED <<RunSide, heap>>

\* The session's stats, if there is one.
GetOut(f) ==
    /\ fwd[f].pc = "get"
    /\ LET o == sessions[fwd[f].id] IN
       fwd' = [fwd EXCEPT ![f] = IF o = 0 THEN Idle
                                 ELSE [pc |-> "record", id |-> fwd[f].id,
                                       length |-> fwd[f].length, session |-> o]]
    /\ UNCHANGED <<RunSide, heap, forwards>>

\* s.RecordPacketOut.
RecordOut(f) ==
    /\ fwd[f].pc = "record"
    /\ \E s \in Touch(heap[fwd[f].session]) :
          heap' = [heap EXCEPT ![fwd[f].session] = s]
    /\ fwd' = [fwd EXCEPT ![f] = Idle]
    /\ UNCHANGED <<RunSide, forwards>>

-----------------------------------------------------------------------------
(* What happens around the proxy.                                          *)

Cancel ==
    /\ ~cancelled
    /\ cancelled' = TRUE
    /\ UNCHANGED <<tunnel, run, ProxySide>>

\* The peer closes the connection, or QUIC's idle timeout does.
ConnectionLost ==
    /\ conn = "open"
    /\ conn' = "lost"
    /\ UNCHANGED <<listener, cancelled, run, ProxySide>>

\* The ticker drops ticks while one is waiting.
GCTickerFires ==
    /\ run \in Looping
    /\ ~gcTick
    /\ gcTick' = TRUE
    /\ UNCHANGED <<tunnel, cancelled, run, data, current, registry,
                   packetsDropped, received, forwards, fwd>>

Older(age) == IF age < MaxAge THEN age + 1 ELSE age

Tick ==
    /\ heap' = [o \in DOMAIN heap |->
                  Aged(heap[o], Older(heap[o].idle), Older(heap[o].quiet))]
    /\ UNCHANGED <<RunSide, forwards, fwd>>

-----------------------------------------------------------------------------
Loop ==
    \/ SelectGC \/ SelectDefault \/ Receive \/ ReceiveFails
    \/ Decode \/ GetIn \/ Create \/ RecordIn

Next ==
    \/ Dial \/ Listen \/ Accept
    \/ SelectDone \/ Loop
    \/ \E f \in Forwarders :
          \/ \E id \in IDs, n \in Lengths : ForwardPacket(f, id, n)
          \/ GetOut(f) \/ RecordOut(f)
    \/ Cancel \/ ConnectionLost \/ GCTickerFires \/ Tick

Spec == Init /\ [][Next]_vars

\* A goroutine that can run does; select is fair between the cases that are
\* ready, so a cancellation that stays ready is taken in the end; the clock
\* moves and the ticker fires.  A peer need not come or send.
FairSpec ==
    /\ Spec
    /\ WF_vars(Loop) /\ SF_vars(SelectDone)
    /\ WF_vars(GCTickerFires) /\ WF_vars(Tick)

-----------------------------------------------------------------------------
(* Properties.                                                             *)

\* Type correctness; a pointer is nil or points to a session that was made.
TypeOK ==
    /\ listener \in {"none", "open", "closed"}
    /\ conn \in {"none", "open", "lost", "closed"}
    /\ cancelled \in BOOLEAN
    /\ run \in Connecting \cup Looping \cup {"returned"}
    /\ gcTick \in BOOLEAN
    /\ data \in Incoming \cup {Nil}
    /\ heap \in Seq(Session)
    /\ current \in 0 .. Len(heap)
    /\ sessions \in [IDs -> 0 .. Len(heap)]
    /\ packetsDropped \in Nat /\ received \in Nat /\ forwards \in Nat
    /\ fwd \in [Forwarders ->
                  [pc : {"idle", "get", "record", "failed"}, id : IDs \cup {Nil},
                   length : Nat, session : 0 .. Len(heap)]]

\* The packets that sessions have counted, one element for each.
Counted == UNION {{o} \X (1 .. heap[o].packetsIn) : o \in DOMAIN heap}

\* Every datagram that was received is accounted for once: dropped, counted by
\* one session (which GC may have forgotten since), or still in the hands of
\* handleDatagram.
InOnce ==
    received =
        packetsDropped
        + Cardinality(Counted)
        + (IF run \in {"handle", "get", "create", "record"} THEN 1 ELSE 0)

\* handleDatagram records a packet in the session that is registered for the
\* frame's id, though it looked it up, or created it, under a lock it has since
\* released.
RecordsRegistered == run = "record" => current # 0 /\ current = sessions[data.id]

\* GC forgets no session through which a packet went within the timeout, up to
\* the time between reading the clock and storing it.
GCSpares ==
    [][\A id \in IDs :
          sessions[id] # 0 /\ sessions'[id] = 0
            => heap[sessions[id]].quiet > Timeout - Slip]_vars

\* What ForwardPacket sends, the peer's DecodeFrame takes, with the length it
\* was given: no payload is cut or rejected because of its length field.
RoundTrip ==
    \A f \in Forwarders : fwd[f].pc \in {"get", "record"} =>
        LET d == Encode(fwd[f].id, fwd[f].length)
        IN  ~Malformed(d) /\ d.payloadLen = fwd[f].length

\* serve-relay returns with neither a listener nor a connection open.
NoOpenTunnel == run = "returned" => listener # "open" /\ conn # "open"

\* Run ends after its context is cancelled, whether the tunnel is alive, busy
\* or gone, and however often the ticker fires.
Stops == (cancelled /\ run \in Looping) ~> (run = "returned")

\* With a positive timeout, a session that is no longer used is forgotten in the
\* end.
Forgotten == \A id \in IDs : sessions[id] # 0 ~> (sessions[id] = 0 \/ cancelled)

\* The documented transport: a payload within the limit goes over an open
\* connection.
Carries ==
    \A f \in Forwarders :
        fwd[f].pc = "failed" => conn # "open" \/ TooLarge(fwd[f].length)

-----------------------------------------------------------------------------
(* The strengthenings that make the properties inductive.                  *)

\* A connection is open only while Run loops, a listener while it accepts.
TunnelInv ==
    /\ conn = "open" => run \in Looping
    /\ listener = "open" => run = "accept"

\* What handleDatagram holds: only this goroutine adds to the registry or
\* takes from it, so what it looked up stays registered until it is back in
\* the loop.
HandlerInv ==
    /\ run \in {"handle", "get", "create", "record"} => data \in Incoming
    /\ RecordsRegistered

\* What a call of ForwardPacket holds after its send.
ForwardInv ==
    \A f \in Forwarders :
        /\ fwd[f].pc \in {"get", "record"} => fwd[f].id \in IDs /\ ~TooLarge(fwd[f].length)
        /\ fwd[f].pc = "record" => fwd[f].session # 0

\* LastActive lags behind the last packet by no more than Slip.
AgeInv == \A o \in DOMAIN heap : heap[o].idle <= heap[o].quiet + Slip
=============================================================================

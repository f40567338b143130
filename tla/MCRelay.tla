------------------------------ MODULE MCRelay ------------------------------
(* Small instances of Relay for TLC.                                       *)
EXTENDS Relay

MCDatagram(size, magic, id, payloadLen) ==
    [size |-> size, magic |-> magic, id |-> id, payloadLen |-> payloadLen]

\* With a header of two: frames as Encode makes them, one with trailing bytes,
\* one that is shorter than its header says, one without magic, and one
\* without a header.
MCIncoming ==
    {Encode(id, 1) : id \in IDs} \cup
    LET id == CHOOSE i \in IDs : TRUE IN
    {MCDatagram(4, TRUE, id, 0), MCDatagram(2, TRUE, id, 1),
     MCDatagram(3, FALSE, id, 1), MCDatagram(1, TRUE, id, 0)}
=============================================================================

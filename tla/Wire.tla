-------------------------------- MODULE Wire --------------------------------
(***************************************************************************)
(* One direction of a TCP connection at the level of bytes: commands are   *)
(* serialized, prefixed with their length and written one behind the       *)
(* other; the receiver has nothing but the bytes to find out which command *)
(* comes next, where it ends and where its parts begin.                    *)
(***************************************************************************)
EXTENDS Integers, Sequences, SequencesExt

CONSTANTS
    Base,        \* values of a byte (256)
    Width,       \* bytes of a u32 (4)
    ByteBits,    \* bits of an array that a byte holds (8)
    CommitLen,   \* bytes of a compressed commitment (32)
    Senders,     \* ids of the servers that compute
    BitSizes,    \* sizes of the arrays that are exchanged
    Values,      \* byte values that the arrays and commitments are made of
    MaxCmds      \* bound on the commands sent

\* What the byte behind i others of a number counts for.
Weight[i \in 0..Width] == IF i = 0 THEN 1 ELSE Base * Weight[i - 1]

ASSUME WireAssumption ==
    /\ Base \in Nat /\ Base >= 4   \* four command types
    /\ Width \in Nat \ {0} /\ ByteBits \in Nat \ {0} /\ CommitLen \in Nat
    /\ BitSizes \subseteq 1..Weight[Width] - 1
    /\ Values \subseteq 0..Base - 1 /\ Senders \subseteq 0..Base - 1

Byte == 0..Base - 1
DivCeil(n) == (n + ByteBits - 1) \div ByteBits

\* What the servers send: an array of n bits is sent with all its bytes
\* (get_inner_memref), padding included.
Data(n) == [1..DivCeil(n) -> Values]

Beaver(n) == [type : {"BeaverExchange"}, sender : Senders, size : {n}, a : Data(n), b : Data(n)]
Dabit(n) == [type : {"DabitExchange"}, sender : Senders, size : {n}, a : Data(n)]

Cmds ==
    (UNION {Beaver(n) \cup Dabit(n) : n \in BitSizes})
        \cup [type : {"Handshake"}, sender : Byte]
        \cup [type : {"AggCommit"}, sender : Senders, commit : [1..CommitLen -> Values]]

----------------------------------------------------------------------------
(* Encoding.                                                               *)

\* to_le_bytes and from_le_bytes.
LeBytes(n) == [i \in 1..Width |-> (n \div Weight[i - 1]) % Base]
FromLeBytes(bytes) == SumFunction([i \in 1..Width |-> bytes[i] * Weight[i - 1]])

Serialize(cmd) ==
    CASE cmd.type = "BeaverExchange" ->
            <<0, cmd.sender>> \o LeBytes(cmd.size) \o cmd.a \o cmd.b
      [] cmd.type = "Handshake" -> <<1, cmd.sender>>
      [] cmd.type = "DabitExchange" -> <<2, cmd.sender>> \o LeBytes(cmd.size) \o cmd.a
      [] cmd.type = "AggCommit" -> <<3, cmd.sender>> \o cmd.commit

\* Mutant: the arrays are taken to have only their full bytes.
ArraySizeFloor(data) == FromLeBytes(SubSeq(data, 3, 2 + Width)) \div ByteBits

\* Bytes of an array, from the size in bits that the command carries.
ArraySize(data) == DivCeil(FromLeBytes(SubSeq(data, 3, 2 + Width)))

\* The i-th array behind the header.
ArrayAt(data, i) ==
    LET st == 2 + Width + (i - 1) * ArraySize(data)
    IN  SubSeq(data, st + 1, st + ArraySize(data))

Deserialize(data) ==
    LET sender == data[2]
        size == FromLeBytes(SubSeq(data, 3, 2 + Width))
    IN  CASE data[1] = 0 -> [type |-> "BeaverExchange", sender |-> sender, size |-> size,
                             a |-> ArrayAt(data, 1), b |-> ArrayAt(data, 2)]
          [] data[1] = 1 -> [type |-> "Handshake", sender |-> sender]
          [] data[1] = 2 -> [type |-> "DabitExchange", sender |-> sender, size |-> size,
                             a |-> ArrayAt(data, 1)]
          [] data[1] = 3 -> [type |-> "AggCommit", sender |-> sender,
                             commit |-> SubSeq(data, 3, 2 + CommitLen)]

----------------------------------------------------------------------------
VARIABLES
    sent,    \* the commands sent
    stream,  \* the bytes in the stream
    got,     \* the commands received
    state    \* "open", "cut" (the peer is gone) or "none" (receive returned None)

vars == <<sent, stream, got, state>>

Init == sent = << >> /\ stream = << >> /\ got = << >> /\ state = "open"

\* A command behind its length: write_u32_le and write_all.
Frame(cmd) == LeBytes(Len(Serialize(cmd))) \o Serialize(cmd)

Send(cmd) ==
    /\ state = "open"
    /\ Len(sent) < MaxCmds
    /\ sent' = Append(sent, cmd)
    /\ stream' = stream \o Frame(cmd)
    /\ UNCHANGED <<got, state>>

\* The peer dies; the stream ends after any of its bytes.
Cut ==
    /\ state = "open"
    /\ state' = "cut"
    /\ \E keep \in 0..Len(stream) : stream' = SubSeq(stream, 1, keep)
    /\ UNCHANGED <<sent, got>>

\* The length of the command that comes next, if its prefix is complete.
CmdLen == FromLeBytes(SubSeq(stream, 1, Width))

Arrived == Len(stream) >= Width /\ Len(stream) >= Width + CmdLen

Receive ==
    /\ state # "none"
    /\ Arrived
    /\ got' = Append(got, Deserialize(SubSeq(stream, Width + 1, Width + CmdLen)))
    /\ stream' = SubSeq(stream, Width + CmdLen + 1, Len(stream))
    /\ UNCHANGED <<sent, state>>

\* read_u32_le or read_exact fails at the end of the stream.
ReceiveNone ==
    /\ state = "cut"
    /\ ~Arrived
    /\ state' = "none"
    /\ UNCHANGED <<sent, stream, got>>

Next == (\E cmd \in Cmds : Send(cmd)) \/ Cut \/ Receive \/ ReceiveNone

Spec == Init /\ [][Next]_vars
----------------------------------------------------------------------------
\* The frames of the commands that were sent and not received.
Frames == [i \in 1..Len(sent) - Len(got) |-> Frame(sent[Len(got) + i])]

\* The receiver gets the commands that were sent, field by field, in order,
\* without gaps and without a part of one that was cut, and as long as the
\* peer lives nothing else is in the stream.
Delivered ==
    /\ IsPrefix(got, sent)
    /\ state = "open" => stream = FlattenSeq(Frames)

\* The length of a command fits its prefix.
CommandsFit == \A cmd \in Cmds : Len(Serialize(cmd)) < Weight[Width]

\* The inductive invariant behind Delivered: the stream is the beginning of
\* what is on its way, all of it until the peer is gone.
WireInv ==
    /\ sent \in Seq(Cmds) /\ got \in Seq(Cmds) /\ stream \in Seq(Byte)
    /\ Len(got) <= Len(sent) /\ \A i \in 1..Len(got) : got[i] = sent[i]
    /\ IsPrefix(stream, FlattenSeq(Frames))
    /\ state = "open" => stream = FlattenSeq(Frames)
=============================================================================

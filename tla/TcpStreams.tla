----------------------------- MODULE TcpStreams -----------------------------
(***************************************************************************)
(* The rounds of MpcRounds over TCP streams instead of links of whole      *)
(* messages.  A command travels as a length prefix and so many bytes.  The *)
(* buffers between two servers hold Cap units; write_all waits for room,   *)
(* and a server reads nothing before its whole broadcast is written.  The  *)
(* reader takes a length from the stream, then exactly that much.  A peer  *)
(* that dies cuts its streams anywhere.  A unit stands for the four bytes  *)
(* of a prefix or for four bytes of payload.                               *)
(*                                                                         *)
(* The NetStat counters of the connections are kept too.  They have        *)
(* counted the handshake (TcpFactory) before the first round.              *)
(***************************************************************************)
EXTENDS Integers, Sequences, FiniteSets, FiniteSetsExt, Functions

CONSTANTS
    Parties,      \* ids of the servers
    QueryFrames,  \* payload of each round's command, in units, over one query
    Queries,      \* queries of the session
    Greeting,     \* units of a handshake and its prefix
    Cap,          \* units that the buffers of one direction hold
    Word,         \* the counters of NetStat wrap at this value (2^32)
    MaxCrashes    \* bound on the number of servers that die

LastRound == Queries * Len(QueryFrames)
Rounds == 1..LastRound

\* The length of the command of round r.
CmdLen(r) == QueryFrames[((r - 1) % Len(QueryFrames)) + 1]

ASSUME StreamsAssumption ==
    /\ Parties \subseteq Nat /\ IsFiniteSet(Parties)
    /\ 0 \in Parties /\ Parties # {0}
    /\ QueryFrames \in Seq(Nat \ {0}) /\ QueryFrames # << >>
    /\ Queries \in Nat \ {0} /\ Cap \in Nat \ {0}
    /\ Word \in Nat \ {0} /\ MaxCrashes \in Nat
    /\ Greeting \in 0..Word - 1

\* A prefix and the command fit the buffers of a link.
FramesFit == \A r \in Rounds : CmdLen(r) + 1 <= Cap

Peers(p) == Parties \ {p}
Links == {l \in Parties \X Parties : l[1] # l[2]}
Out(p) == {l \in Links : l[1] = p}
In(p) == {l \in Links : l[2] = p}

\* What read_u32_le returns for this unit, and which unit it is: number "pos"
\* of the frame of round "rnd", 0 for the prefix.  No action reads rnd or pos.
Unit == [val : Nat, rnd : Rounds, pos : Nat]

\* What payload looks like when it is taken for a length.
PayloadVal == 1

AtPrefix == -1   \* a receive that waits in read_u32_le
None == -2       \* a receive that has returned None

VARIABLES
    rnd,      \* the round each server is in
    pc,       \* "take", "send" (in broadcast) or "recv" (in receive_all)
    status,   \* "up", "done", "aborted" or "crashed"
    wr,       \* wr[<<p, q>>]: units of its frame that p has still to write to q
    rd,       \* rd[<<q, p>>]: units that p has still to read from q, or the above
    buf,      \* buf[<<q, p>>]: what p has read of the payload
    link,     \* link[<<p, q>>]: the units in the buffers from p to q
    stat,     \* stat[<<p, q>>]: p's NetStat of its connection to q
    report,   \* [Parties -> what get_then_reset_netstat returned last]
    crashes   \* servers that died so far

vars == <<rnd, pc, status, wr, rd, buf, link, stat, report, crashes>>

Up(p) == status[p] = "up"

NoStat == [sent |-> 0, received |-> 0]

\* What the handshake leaves in the NetStat of a connection: the server with
\* the higher id connects and sends it, the other receives it.
Handshaken(l) ==
    IF l[1] > l[2] THEN [sent |-> Greeting, received |-> 0]
    ELSE [sent |-> 0, received |-> Greeting]

\* The connections are made: their streams are read up to here.
Init ==
    /\ rnd = [p \in Parties |-> 1]
    /\ pc = [p \in Parties |-> "take"]
    /\ status = [p \in Parties |-> "up"]
    /\ wr = [l \in Links |-> 0]
    /\ rd = [l \in Links |-> AtPrefix]
    /\ buf = [l \in Links |-> << >>]
    /\ link = [l \in Links |-> << >>]
    /\ stat = [l \in Links |-> Handshaken(l)]
    /\ report = [p \in Parties |-> NoStat]
    /\ crashes = 0

----------------------------------------------------------------------------
(* broadcast: the sends to all peers are joined.                           *)

\* The command is serialized and counted on every connection.
StartSend(p) ==
    LET n == CmdLen(rnd[p]) IN
    /\ Up(p)
    /\ pc[p] = "take"
    /\ pc' = [pc EXCEPT ![p] = "send"]
    /\ wr' = [l \in Links |-> IF l \in Out(p) THEN n + 1 ELSE wr[l]]
    /\ stat' = [l \in Links |->
                   IF l \in Out(p) THEN [stat[l] EXCEPT !.sent = (@ + n + 1) % Word]
                   ELSE stat[l]]
    /\ UNCHANGED <<rnd, status, rd, buf, link, report, crashes>>

\* The unit that p writes next to q: write_u32_le, then write_all.
NextUnit(l) ==
    LET n == CmdLen(rnd[l[1]])
        pos == n + 1 - wr[l]
    IN  [val |-> IF pos = 0 THEN n ELSE PayloadVal, rnd |-> rnd[l[1]], pos |-> pos]

\* The last of the joined sends has returned.
AllWritten(p, rest) == \A l \in Out(p) : rest[l] = 0

Sent(p, rest) ==
    /\ wr' = rest
    /\ pc' = IF AllWritten(p, rest) THEN [pc EXCEPT ![p] = "recv"] ELSE pc
    /\ UNCHANGED <<rnd, status, rd, buf, stat, report, crashes>>

\* Mutant: writes go on after the end of the command.
WriteOn(p, q) ==
    LET l == <<p, q>> IN
    /\ Up(p) /\ pc[p] = "send"
    /\ Up(q)
    /\ Len(link[l]) < Cap
    /\ link' = [link EXCEPT ![l] = Append(@, NextUnit(l))]
    /\ Sent(p, [wr EXCEPT ![l] = @ - 1])

\* One unit of the prefix and the command, when the buffers have room.
Write(p, q) ==
    LET l == <<p, q>> IN
    /\ Up(p) /\ pc[p] = "send"
    /\ wr[l] > 0
    /\ Up(q)
    /\ Len(link[l]) < Cap
    /\ link' = [link EXCEPT ![l] = Append(@, NextUnit(l))]
    /\ Sent(p, [wr EXCEPT ![l] = @ - 1])

\* The peer has left: both writes return an error, which is ignored.
WriteFails(p, q) ==
    LET l == <<p, q>> IN
    /\ Up(p) /\ pc[p] = "send"
    /\ wr[l] > 0
    /\ ~Up(q)
    /\ UNCHANGED link
    /\ Sent(p, [wr EXCEPT ![l] = 0])

----------------------------------------------------------------------------
(* receive_all: the receives from all peers are joined.                    *)

Reading(p, q) == Up(p) /\ pc[p] = "recv" /\ rd[<<q, p>>] # 0 /\ rd[<<q, p>>] # None

\* ReadPrefix with the number of units to be read, which its mutants vary.
ReadPrefixOf(p, q, n) ==
    LET l == <<q, p>> IN
    /\ Reading(p, q) /\ rd[l] = AtPrefix
    /\ link[l] # << >>
    /\ rd' = [rd EXCEPT ![l] = n]
    /\ link' = [link EXCEPT ![l] = Tail(@)]
    /\ stat' = [stat EXCEPT ![<<p, q>>].received = (@ + Head(link[l]).val + 1) % Word]
    /\ UNCHANGED <<rnd, pc, status, wr, buf, report, crashes>>

\* Mutant: the prefix is taken to count itself.
ReadPrefixShort(p, q) == ReadPrefixOf(p, q, Head(link[<<q, p>>]).val - 1)

\* read_u32_le; the whole frame is counted here.
ReadPrefix(p, q) ==
    LET l == <<q, p>> IN
    /\ Reading(p, q) /\ rd[l] = AtPrefix
    /\ link[l] # << >>
    /\ rd' = [rd EXCEPT ![l] = Head(link[l]).val]
    /\ link' = [link EXCEPT ![l] = Tail(@)]
    /\ stat' = [stat EXCEPT ![<<p, q>>].received = (@ + Head(link[l]).val + 1) % Word]
    /\ UNCHANGED <<rnd, pc, status, wr, buf, report, crashes>>

\* read_exact; with its last unit the command is filed by handle_cmd.
ReadPayload(p, q) ==
    LET l == <<q, p>> IN
    /\ Reading(p, q) /\ rd[l] > 0
    /\ link[l] # << >>
    /\ rd' = [rd EXCEPT ![l] = @ - 1]
    /\ buf' = [buf EXCEPT ![l] = Append(@, Head(link[l]))]
    /\ link' = [link EXCEPT ![l] = Tail(@)]
    /\ UNCHANGED <<rnd, pc, status, wr, stat, report, crashes>>

\* Mutant: an error of read_exact is ignored, as errors of write_all are.
ReadCutAccepted(p, q) ==
    LET l == <<q, p>> IN
    /\ Reading(p, q)
    /\ link[l] = << >>
    /\ ~Up(q)
    /\ rd' = [rd EXCEPT ![l] = IF @ = AtPrefix THEN None ELSE 0]
    /\ UNCHANGED <<rnd, pc, status, wr, buf, link, stat, report, crashes>>

\* Mutant: a receive whose stream has ended tries again.
ReadCutRetried(p, q) ==
    /\ Reading(p, q)
    /\ link[<<q, p>>] = << >>
    /\ ~Up(q)
    /\ UNCHANGED vars

\* The stream has ended before or within a frame: receive returns None.
ReadCut(p, q) ==
    LET l == <<q, p>> IN
    /\ Reading(p, q)
    /\ link[l] = << >>
    /\ ~Up(q)
    /\ rd' = [rd EXCEPT ![l] = None]
    /\ UNCHANGED <<rnd, pc, status, wr, buf, link, stat, report, crashes>>

----------------------------------------------------------------------------
(* The end of a round.                                                     *)

Returned(p) ==
    /\ Up(p) /\ pc[p] = "recv"
    /\ \A l \in In(p) : rd[l] \in {0, None}

\* Mutant: a command of the server itself is expected too.
CompleteWithOwn(p) == Cardinality({l \in In(p) : rd[l] = 0}) = Cardinality(Parties)

\* One command of every peer has been filed.
Complete(p) == \A l \in In(p) : rd[l] = 0

EndsQuery(r) == r % Len(QueryFrames) = 0

\* NetStat::add over the connections of p.
Summed(p) ==
    [sent |-> SumFunction([l \in Out(p) |-> stat[l].sent]) % Word,
     received |-> SumFunction([l \in Out(p) |-> stat[l].received]) % Word]

\* Mutant: a report resets the bytes sent only.
ResetStatSent(p) ==
    [l \in Links |-> IF l \in Out(p) THEN [stat[l] EXCEPT !.sent = 0] ELSE stat[l]]

\* reset_stat on every connection of p.
ResetStat(p) == [l \in Links |-> IF l \in Out(p) THEN NoStat ELSE stat[l]]

\* receive_all has returned and the count is right: the round is computed, and
\* after the last round of a query get_then_reset_netstat is called.
Finish(p) ==
    /\ Returned(p)
    /\ Complete(p)
    /\ rnd' = [rnd EXCEPT ![p] = @ + 1]
    /\ pc' = [pc EXCEPT ![p] = "take"]
    /\ status' = IF rnd[p] = LastRound THEN [status EXCEPT ![p] = "done"] ELSE status
    /\ rd' = [l \in Links |-> IF l \in In(p) THEN AtPrefix ELSE rd[l]]
    /\ buf' = [l \in Links |-> IF l \in In(p) THEN << >> ELSE buf[l]]
    /\ IF EndsQuery(rnd[p])
       THEN report' = [report EXCEPT ![p] = Summed(p)] /\ stat' = ResetStat(p)
       ELSE UNCHANGED <<report, stat>>
    /\ UNCHANGED <<wr, link, crashes>>

\* A server that leaves drops its sockets: what is on its way to it is gone,
\* and each stream to a peer in "lossy" may be cut anywhere.
Leave(p, how, lossy) ==
    /\ status' = [status EXCEPT ![p] = how]
    /\ \E keep \in [lossy -> 0..Cap] :
          link' = [l \in Links |->
                      IF l[2] = p THEN << >>
                      ELSE IF l[1] = p /\ l[2] \in lossy /\ keep[l[2]] < Len(link[l])
                           THEN SubSeq(link[l], 1, keep[l[2]])
                           ELSE link[l]]
    /\ UNCHANGED <<rnd, pc, wr, rd, buf, stat, report>>

\* Closing a socket with unread data resets the connection.
Unread(p) == {q \in Peers(p) : link[<<q, p>>] # << >>}

\* The assertion on the number of commands fails.
Panic(p) ==
    /\ Returned(p)
    /\ ~Complete(p)
    /\ Leave(p, "aborted", Unread(p))
    /\ UNCHANGED crashes

Crash(p) ==
    /\ Up(p)
    /\ crashes < MaxCrashes
    /\ crashes' = crashes + 1
    /\ Leave(p, "crashed", Peers(p))

Over ==
    /\ \A p \in Parties : ~Up(p)
    /\ UNCHANGED vars

Step(p) ==
    \/ StartSend(p) \/ Finish(p) \/ Panic(p)
    \/ \E q \in Peers(p) :
          \/ Write(p, q) \/ WriteFails(p, q)
          \/ ReadPrefix(p, q) \/ ReadPayload(p, q) \/ ReadCut(p, q)

Next ==
    \/ \E p \in Parties : Step(p) \/ Crash(p)
    \/ Over

\* Each server is one task; the joined sends and receives of it are polled
\* when their sockets are ready.
Fairness == \A p \in Parties : WF_vars(Step(p))

Spec == Init /\ [][Next]_vars /\ Fairness
----------------------------------------------------------------------------
(* Properties.                                                             *)

\* The types of the variables that carry frames; ReportExact is about the
\* counters.
FrameTypes ==
    /\ rnd \in [Parties -> 1..LastRound + 1]
    /\ pc \in [Parties -> {"take", "send", "recv"}]
    /\ status \in [Parties -> {"up", "done", "aborted", "crashed"}]
    /\ wr \in [Links -> Nat]
    /\ rd \in [Links -> Nat \cup {AtPrefix, None}]
    /\ buf \in [Links -> Seq(Unit)]
    /\ link \in [Links -> Seq(Unit)]

\* The payload of the frame of round r.
Payload(r) == [i \in 1..CmdLen(r) |-> [val |-> PayloadVal, rnd |-> r, pos |-> i]]

\* A receive never takes payload for a length and never mixes two frames,
\* although the stream has no marks: what it has read is the beginning of the
\* payload of the reader's own round, and what it files is all of it.
FramesIntact ==
    \A l \in Links :
        /\ Up(l[2]) =>
              /\ Len(buf[l]) <= CmdLen(rnd[l[2]])
              /\ buf[l] = SubSeq(Payload(rnd[l[2]]), 1, Len(buf[l]))
              /\ rd[l] = 0 => buf[l] = Payload(rnd[l[2]])
        /\ rd[l] = AtPrefix /\ link[l] # << >> => Head(link[l]).pos = 0

\* The frames of the first k rounds of a query.
FirstFrames(k) ==
    SumFunctionOnSet([i \in 1..Len(QueryFrames) |-> QueryFrames[i] + 1], 1..k)

\* The frames of a query, to or from all peers.
QueryBytes == FirstFrames(Len(QueryFrames)) * (Cardinality(Parties) - 1)

\* No report holds more: a query and the handshakes of all peers.
ReportBytes == QueryBytes + Greeting * (Cardinality(Parties) - 1)

QueryReport == [sent |-> QueryBytes, received |-> QueryBytes]

\* The first report also holds the handshakes: those that p has sent to the
\* servers with lower ids and those it has received from the others.
FirstReport(p) ==
    [sent |-> QueryBytes + Greeting * Cardinality({q \in Parties : q < p}),
     received |-> QueryBytes + Greeting * Cardinality({q \in Parties : q > p})]

\* What get_then_reset_netstat returns after a query is exactly the frames of
\* that query in both directions, and the first time the handshakes, although
\* peers may already have sent frames of the next query, and although one of
\* them may have died since.
ReportExact ==
    \A p \in Parties : rnd[p] > Len(QueryFrames) =>
        report[p] = IF rnd[p] <= 2 * Len(QueryFrames) THEN FirstReport(p) ELSE QueryReport

\* Streams of bytes behave as the links of whole messages in MpcRounds: a
\* message is on its link from its last unit being written to its last unit
\* being read, and a frame that was cut was never sent.
AsMessage(p, r) == [kind |-> "beaver", sender |-> p, rnd |-> r, upto |-> 0]

Last(u) == u.pos = CmdLen(u.rnd)

\* The first frame that ends neither with unit u nor before it.
NextFrame(u) == IF Last(u) THEN u.rnd + 1 ELSE u.rnd

\* The frames that end in the buffers, which hold those of consecutive rounds.
Messages(p, units) ==
    IF units = << >> THEN << >>
    ELSE [i \in 1..NextFrame(units[Len(units)]) - units[1].rnd |->
             AsMessage(p, units[1].rnd + i - 1)]

\* The peers to which the current broadcast is written.
Reached == [p \in Parties |->
    IF pc[p] = "send" THEN {q \in Peers(p) : wr[<<p, q>>] = 0} ELSE {}]

\* The peers from which the current receive_all has an answer, and what it has
\* filed.
Answered == [p \in Parties |-> {q \in Peers(p) : rd[<<q, p>>] \in {0, None}}]
Filed(p) == {AsMessage(q, rnd[p]) : q \in {q \in Peers(p) : rd[<<q, p>>] = 0}}

InTransit == [l \in Links |-> Messages(l[1], link[l])]

\* Rounds of one kind that take nothing and sign nothing.
RoundKinds == {"beaver", "dabit", "commit"}
Broadcasts == [r \in Rounds |-> [kind |-> "beaver", need |-> 0]]
Nothing == [k \in RoundKinds |-> 0]
NoTokens == [r \in {} |-> {}]

Storages == [p \in Parties |-> [k \in RoundKinds |->
    IF k = "beaver" THEN Filed(p) ELSE {}]]
Counters == [p \in Parties |-> Nothing]

Abstract == INSTANCE MpcRounds WITH
    Schedule <- Broadcasts,
    Avail <- Nothing,
    ChanCap <- 2,
    sent <- Reached,
    heard <- Answered,
    store <- Storages,
    used <- Counters,
    chan <- InTransit,
    token <- NoTokens

RefinesRounds == Abstract!Spec

\* With buffers that hold the largest frame nobody blocks for ever in
\* write_all, although everyone writes before anyone reads: a slowest server
\* finds nothing on its links but its own current frames.
EveryoneFinishes == FramesFit => <>(\A p \in Parties : status[p] = "done" \/ crashes > 0)

\* Whoever dies, with streams cut anywhere, nobody is left in a read or a
\* write for ever.
EveryoneStops == FramesFit => <>(\A p \in Parties : ~Up(p))
----------------------------------------------------------------------------
(* The inductive invariant behind FramesIntact.  A place in the endless    *)
(* stream from one server to another is a round and a position in its      *)
(* frame.  The writer's and the reader's next places, neither of which is  *)
(* kept anywhere, enclose what is in the buffers.                          *)

\* The place after position i of the frame of round r.
After(r, i) == IF i < CmdLen(r) THEN <<r, i + 1>> ELSE <<r + 1, 0>>

At(u) == <<u.rnd, u.pos>>

\* The next place when so many units of the frame of round r are left.
Left(r, n) == IF n = 0 THEN <<r + 1, 0>> ELSE <<r, CmdLen(r) + 1 - n>>

WriteNext(l) ==
    IF pc[l[1]] = "take" THEN <<rnd[l[1]], 0>> ELSE Left(rnd[l[1]], wr[l])

ReadNext(l) ==
    IF rd[l] = AtPrefix THEN <<rnd[l[2]], 0>> ELSE Left(rnd[l[2]], rd[l])

\* A unit as a server writes it.
Genuine(u) ==
    /\ u.pos \in 0..CmdLen(u.rnd)
    /\ u.val = IF u.pos = 0 THEN CmdLen(u.rnd) ELSE PayloadVal

\* A server in a round has not returned, and receives only when its own frames
\* are written.
WriterOf(l) ==
    /\ Up(l[1]) => rnd[l[1]] \in Rounds
    /\ pc[l[1]] = "recv" => wr[l] = 0
    /\ pc[l[1]] = "send" => wr[l] <= CmdLen(rnd[l[1]]) + 1

\* Where the reader of l is, and what it has read of the payload.
ReaderOf(l) ==
    /\ rd[l] = AtPrefix => buf[l] = << >>
    /\ rd[l] \in Nat => Len(buf[l]) + rd[l] = CmdLen(rnd[l[2]])
    /\ Len(buf[l]) <= CmdLen(rnd[l[2]])
    /\ \A i \in 1..Len(buf[l]) :
           buf[l][i] = [val |-> PayloadVal, rnd |-> rnd[l[2]], pos |-> i]

\* The units in the buffers follow each other without a gap, from the reader's
\* place to the writer's while both are there.
BufferOf(l) ==
    /\ \A i \in 1..Len(link[l]) :
          /\ Genuine(link[l][i])
          /\ i > 1 => At(link[l][i]) = After(link[l][i - 1].rnd, link[l][i - 1].pos)
    /\ link[l] # << >> => rd[l] # None /\ At(link[l][1]) = ReadNext(l)
    /\ rd[l] = None => ~Up(l[1])
    /\ Up(l[1]) /\ Up(l[2]) =>
          WriteNext(l) =
              IF link[l] = << >> THEN ReadNext(l)
              ELSE After(link[l][Len(link[l])].rnd, link[l][Len(link[l])].pos)

\* Between the two ends of a connection there are exactly the units from where
\* the reader is to where the writer is, each as it was written, although both
\* work in pieces of any size and a death cuts the stream anywhere.
FramesInv ==
    /\ FrameTypes
    /\ \A l \in Links : WriterOf(l) /\ ReaderOf(l) /\ BufferOf(l)

\* What a connection has counted in one direction of the frames of the current
\* query, before and after that of round r.
CountedBefore(r) == FirstFrames((r - 1) % Len(QueryFrames))
CountedWith(r) == CountedBefore(r) + CmdLen(r) + 1

\* What is left of the handshake in p's NetStat of its connection to q.
Greeted(p, q) ==
    IF rnd[p] <= Len(QueryFrames) THEN Handshaken(<<p, q>>) ELSE NoStat

CountersOf(p, q) ==
    /\ stat[<<p, q>>].sent = Greeted(p, q).sent +
          (IF pc[p] = "take" THEN CountedBefore(rnd[p]) ELSE CountedWith(rnd[p]))
    /\ rd[<<q, p>>] # None =>
          stat[<<p, q>>].received = Greeted(p, q).received +
              (IF rd[<<q, p>>] = AtPrefix THEN CountedBefore(rnd[p]) ELSE CountedWith(rnd[p]))

\* The counters of a connection are those of its server's own place in its own
\* query, in both directions, and in the first query also the handshake,
\* wherever the peer is: a frame that has arrived and has not been read is not
\* counted.
CountersInv ==
    /\ stat \in [Links -> [sent : Nat, received : Nat]]
    /\ report \in [Parties -> [sent : Nat, received : Nat]]
    /\ \A p \in Parties : \A q \in Peers(p) : CountersOf(p, q)

\* Nothing is on its way to a server that has left, and what is on its way from
\* a server is of no later round than its own.
QuietOf(l) ==
    /\ ~Up(l[2]) => link[l] = << >>
    /\ \A i \in 1..Len(link[l]) : link[l][i].rnd <= rnd[l[1]]

QuietInv == \A l \in Links : QuietOf(l)
=============================================================================

-------------------------- MODULE TcpStreamsProofs --------------------------
(***************************************************************************)
(* Proofs about TcpStreams for every set of servers, every sequence of     *)
(* command lengths, buffers of every size, and any deaths, with streams    *)
(* cut anywhere.                                                           *)
(***************************************************************************)
EXTENDS TcpStreams, Sums

----------------------------------------------------------------------------
(* The constants.                                                          *)

LEMMA LastRoundType == LastRound \in Nat /\ LastRound > 0
<1>1. Queries \in Nat \ {0} /\ Len(QueryFrames) \in Nat \ {0}
    BY StreamsAssumption
<1>2. \A a, b \in Nat \ {0} : a * b \in Nat /\ a * b > 0
    OBVIOUS
<1> QED
    BY <1>1, <1>2 DEF LastRound

LEMMA CmdLenType ==
    ASSUME NEW r \in Nat \ {0}
    PROVE  CmdLen(r) \in Nat \ {0}
<1>1. QueryFrames \in Seq(Nat \ {0}) /\ Len(QueryFrames) \in Nat \ {0}
    BY StreamsAssumption
<1>2. (r - 1) % Len(QueryFrames) \in 0..Len(QueryFrames) - 1
    BY <1>1
<1>3. ((r - 1) % Len(QueryFrames)) + 1 \in 1..Len(QueryFrames)
    BY <1>1, <1>2
<1> QED
    BY <1>1, <1>3 DEF CmdLen

LEMMA LinkEnds ==
    ASSUME NEW l \in Links
    PROVE  /\ l[1] \in Parties /\ l[2] \in Parties /\ l[1] # l[2]
           /\ l = <<l[1], l[2]>>
           /\ \A p \in Parties : l \in Out(p) <=> l[1] = p
           /\ \A p \in Parties : l \in In(p) <=> l[2] = p
BY DEF Links, Out, In

LEMMA FrameFacts ==
    ASSUME FrameTypes, NEW l \in Links
    PROVE  /\ rnd[l[1]] \in Nat \ {0} /\ rnd[l[2]] \in Nat \ {0}
           /\ CmdLen(rnd[l[1]]) \in Nat \ {0} /\ CmdLen(rnd[l[2]]) \in Nat \ {0}
           /\ wr[l] \in Nat
           /\ rd[l] \in Nat \/ rd[l] = AtPrefix \/ rd[l] = None
           /\ buf[l] \in Seq(Unit) /\ link[l] \in Seq(Unit)
           /\ Len(buf[l]) \in Nat /\ Len(link[l]) \in Nat
           /\ \A i \in 1..Len(link[l]) :
                 /\ link[l][i] \in Unit
                 /\ link[l][i].rnd \in Nat \ {0}
                 /\ CmdLen(link[l][i].rnd) \in Nat \ {0}
                 /\ link[l][i].pos \in Nat
<1>1. /\ rnd[l[1]] \in Nat \ {0} /\ rnd[l[2]] \in Nat \ {0}
      /\ wr[l] \in Nat
      /\ rd[l] \in Nat \/ rd[l] = AtPrefix \/ rd[l] = None
      /\ buf[l] \in Seq(Unit) /\ link[l] \in Seq(Unit)
    BY LinkEnds, LastRoundType DEF FrameTypes
<1>2. ASSUME NEW i \in 1..Len(link[l])
      PROVE  /\ link[l][i] \in Unit
             /\ link[l][i].rnd \in Nat \ {0}
             /\ CmdLen(link[l][i].rnd) \in Nat \ {0}
             /\ link[l][i].pos \in Nat
    <2>1. link[l][i] \in Unit
        BY <1>1
    <2>2. link[l][i].rnd \in Nat \ {0} /\ link[l][i].pos \in Nat
        BY <2>1, LastRoundType DEF Unit, Rounds
    <2> QED
        BY <2>1, <2>2, CmdLenType
<1>3. CmdLen(rnd[l[1]]) \in Nat \ {0} /\ CmdLen(rnd[l[2]]) \in Nat \ {0}
    BY ONLY <1>1, CmdLenType
<1> QED
    BY ONLY <1>1, <1>2, <1>3

----------------------------------------------------------------------------
(* The steps.                                                              *)

LEMMA NextCases ==
    ASSUME Next
    PROVE  \/ \E p \in Parties : StartSend(p) \/ Finish(p) \/ Panic(p) \/ Crash(p)
           \/ \E p \in Parties : \E q \in Peers(p) :
                 \/ Write(p, q) \/ WriteFails(p, q)
                 \/ ReadPrefix(p, q) \/ ReadPayload(p, q) \/ ReadCut(p, q)
           \/ UNCHANGED vars
BY DEF Next, Step, Over

LEMMA PeerLinks ==
    ASSUME NEW p \in Parties, NEW q \in Peers(p)
    PROVE  q \in Parties /\ <<p, q>> \in Links /\ <<q, p>> \in Links
BY DEF Peers, Links

\* What a server that leaves does to the links.
LEMMA LeaveLinks ==
    ASSUME FrameTypes, NEW p \in Parties, NEW how, NEW lossy, Leave(p, how, lossy)
    PROVE  /\ link' \in [Links -> Seq(Unit)]
           /\ \A l \in Links :
                 /\ l[2] = p => link'[l] = << >>
                 /\ l[1] # p /\ l[2] # p => link'[l] = link[l]
                 /\ Len(link'[l]) <= Len(link[l])
                 /\ \A i \in 1..Len(link'[l]) : link'[l][i] = link[l][i]
<1>1. PICK keep \in [lossy -> 0..Cap] :
          link' = [l \in Links |->
                      IF l[2] = p THEN << >>
                      ELSE IF l[1] = p /\ l[2] \in lossy /\ keep[l[2]] < Len(link[l])
                           THEN SubSeq(link[l], 1, keep[l[2]])
                           ELSE link[l]]
    BY DEF Leave
<1>2. ASSUME NEW l \in Links
      PROVE  /\ link'[l] \in Seq(Unit)
             /\ l[2] = p => link'[l] = << >>
             /\ l[1] # p /\ l[2] # p => link'[l] = link[l]
             /\ Len(link'[l]) <= Len(link[l])
             /\ \A i \in 1..Len(link'[l]) : link'[l][i] = link[l][i]
    <2>1. link[l] \in Seq(Unit) /\ Len(link[l]) \in Nat
        BY DEF FrameTypes
    <2>2. CASE l[2] = p
        <3>1. link'[l] = << >>
            BY <1>1, <2>2
        <3> QED
            BY <2>1, <2>2, <3>1
    <2>3. CASE l[2] # p /\ l[1] = p /\ l[2] \in lossy /\ keep[l[2]] < Len(link[l])
        <3>1. link'[l] = SubSeq(link[l], 1, keep[l[2]])
            BY <1>1, <2>3
        <3>2. keep[l[2]] \in Nat
            BY <2>3, StreamsAssumption
        <3> QED
            BY <2>1, <2>3, <3>1, <3>2
    <2>4. CASE l[2] # p /\ ~(l[1] = p /\ l[2] \in lossy /\ keep[l[2]] < Len(link[l]))
        <3>1. link'[l] = link[l]
            BY <1>1, <2>4
        <3> QED
            BY <2>1, <2>4, <3>1
    <2> QED
        BY <2>2, <2>3, <2>4
<1> QED
    BY <1>1, <1>2

\* Panic and Crash.
LEMMA LeavingShape ==
    ASSUME FrameTypes, NEW p \in Parties, Panic(p) \/ Crash(p)
    PROVE  /\ \E how \in {"aborted", "crashed"} : status' = [status EXCEPT ![p] = how]
           /\ UNCHANGED <<rnd, pc, wr, rd, buf, stat, report>>
           /\ link' \in [Links -> Seq(Unit)]
           /\ \A l \in Links :
                 /\ l[2] = p => link'[l] = << >>
                 /\ l[1] # p /\ l[2] # p => link'[l] = link[l]
                 /\ Len(link'[l]) <= Len(link[l])
                 /\ \A i \in 1..Len(link'[l]) : link'[l][i] = link[l][i]
<1>1. PICK how \in {"aborted", "crashed"}, lossy \in SUBSET Parties : Leave(p, how, lossy)
    BY DEF Panic, Crash, Unread, Peers
<1>2. /\ link' \in [Links -> Seq(Unit)]
      /\ \A l \in Links :
            /\ l[2] = p => link'[l] = << >>
            /\ l[1] # p /\ l[2] # p => link'[l] = link[l]
            /\ Len(link'[l]) <= Len(link[l])
            /\ \A i \in 1..Len(link'[l]) : link'[l][i] = link[l][i]
    BY <1>1, LeaveLinks
<1>3. UNCHANGED <<rnd, pc, wr, rd, buf, stat, report>> /\ status' = [status EXCEPT ![p] = how]
    BY <1>1 DEF Leave
<1> QED
    BY <1>2, <1>3

LEMMA StepTypes ==
    ASSUME FramesInv, [Next]_vars
    PROVE  FrameTypes'
<1>1. FrameTypes
    BY DEF FramesInv
<1>2. CASE UNCHANGED vars
    BY <1>1, <1>2 DEF vars, FrameTypes
<1>3. ASSUME NEW p \in Parties, StartSend(p) PROVE FrameTypes'
    <2>1. CmdLen(rnd[p]) \in Nat
        BY <1>1, LastRoundType, CmdLenType DEF FrameTypes
    <2>2. wr' \in [Links -> Nat]
        BY <1>1, <1>3, <2>1 DEF StartSend, FrameTypes
    <2>3. pc' \in [Parties -> {"take", "send", "recv"}]
        BY <1>1, <1>3 DEF StartSend, FrameTypes
    <2> QED
        BY <1>1, <1>3, <2>2, <2>3 DEF StartSend, FrameTypes
<1>4. ASSUME NEW p \in Parties, NEW q \in Peers(p), Write(p, q) PROVE FrameTypes'
    <2> DEFINE l == <<p, q>>
    <2>1. l \in Links /\ l[1] = p /\ l[2] = q
        BY PeerLinks
    <2>2. WriterOf(l)
        BY <2>1 DEF FramesInv
    <2>3. /\ Up(p) /\ pc[p] = "send" /\ wr[l] > 0
          /\ link' = [link EXCEPT ![l] = Append(@, NextUnit(l))]
          /\ Sent(p, [wr EXCEPT ![l] = @ - 1])
        BY <1>4 DEF Write
    <2>4. rnd[p] \in Rounds /\ CmdLen(rnd[p]) \in Nat \ {0} /\ wr[l] \in Nat
          /\ wr[l] <= CmdLen(rnd[p]) + 1
        BY <1>1, <2>1, <2>2, <2>3, FrameFacts DEF WriterOf
    <2>5. NextUnit(l) \in Unit
        BY <2>1, <2>3, <2>4 DEF NextUnit, Unit, PayloadVal
    <2>6. link' \in [Links -> Seq(Unit)]
        BY <1>1, <2>1, <2>3, <2>5 DEF FrameTypes
    <2>7. wr' \in [Links -> Nat]
        BY <1>1, <2>1, <2>3, <2>4 DEF FrameTypes, Sent
    <2>8. pc' \in [Parties -> {"take", "send", "recv"}] /\ UNCHANGED <<rnd, status, rd, buf>>
        BY <1>1, <2>3 DEF FrameTypes, Sent
    <2> QED
        BY <1>1, <2>6, <2>7, <2>8 DEF FrameTypes
<1>5. ASSUME NEW p \in Parties, NEW q \in Peers(p), WriteFails(p, q) PROVE FrameTypes'
    <2>1. /\ wr' = [wr EXCEPT ![<<p, q>>] = 0] /\ UNCHANGED <<rnd, status, rd, buf, link>>
          /\ pc' = pc \/ pc' = [pc EXCEPT ![p] = "recv"]
        BY <1>5 DEF WriteFails, Sent
    <2> QED
        BY <1>1, <2>1 DEF FrameTypes
<1>6. ASSUME NEW p \in Parties, NEW q \in Peers(p), ReadPrefix(p, q) PROVE FrameTypes'
    <2> DEFINE l == <<q, p>>
    <2>1. l \in Links
        BY PeerLinks
    <2>2. /\ link[l] # << >> /\ rd' = [rd EXCEPT ![l] = Head(link[l]).val]
          /\ link' = [link EXCEPT ![l] = Tail(@)] /\ UNCHANGED <<rnd, pc, status, wr, buf>>
        BY <1>6 DEF ReadPrefix
    <2>3. link[l] \in Seq(Unit)
        BY <1>1, <2>1 DEF FrameTypes
    <2> HIDE DEF l
    <2>4. Head(link[l]) \in Unit /\ Tail(link[l]) \in Seq(Unit)
        BY <2>2, <2>3
    <2>5. Head(link[l]).val \in Nat
        BY <2>4 DEF Unit
    <2>6. link' \in [Links -> Seq(Unit)]
        BY <1>1, <2>1, <2>2, <2>4 DEF FrameTypes
    <2> QED
        BY <1>1, <2>1, <2>2, <2>5, <2>6 DEF FrameTypes
<1>7. ASSUME NEW p \in Parties, NEW q \in Peers(p), ReadPayload(p, q) PROVE FrameTypes'
    <2> DEFINE l == <<q, p>>
    <2>1. l \in Links
        BY PeerLinks
    <2>2. /\ link[l] # << >> /\ rd[l] > 0 /\ rd' = [rd EXCEPT ![l] = @ - 1]
          /\ buf' = [buf EXCEPT ![l] = Append(@, Head(link[l]))]
          /\ link' = [link EXCEPT ![l] = Tail(@)] /\ UNCHANGED <<rnd, pc, status, wr>>
        BY <1>7 DEF ReadPayload
    <2>3. link[l] \in Seq(Unit) /\ buf[l] \in Seq(Unit) /\ rd[l] \in Nat \cup {AtPrefix, None}
        BY <1>1, <2>1 DEF FrameTypes
    <2>4. Head(link[l]) \in Unit /\ Tail(link[l]) \in Seq(Unit) /\ rd[l] - 1 \in Nat
        BY <2>2, <2>3 DEF AtPrefix, None
    <2> HIDE DEF l
    <2>5. Append(buf[l], Head(link[l])) \in Seq(Unit)
        BY <2>3, <2>4
    <2> QED
        BY <1>1, <2>1, <2>2, <2>4, <2>5 DEF FrameTypes
<1>8. ASSUME NEW p \in Parties, NEW q \in Peers(p), ReadCut(p, q) PROVE FrameTypes'
    BY <1>1, <1>8 DEF ReadCut, FrameTypes
<1>9. ASSUME NEW p \in Parties, Finish(p) PROVE FrameTypes'
    <2>1. /\ Up(p) /\ rnd' = [rnd EXCEPT ![p] = @ + 1] /\ pc' = [pc EXCEPT ![p] = "take"]
          /\ status' = [status EXCEPT ![p] = "done"] \/ status' = status
          /\ rd' = [l \in Links |-> IF l \in In(p) THEN AtPrefix ELSE rd[l]]
          /\ buf' = [l \in Links |-> IF l \in In(p) THEN << >> ELSE buf[l]]
          /\ UNCHANGED <<wr, link>>
        BY <1>9 DEF Finish, Returned
    <2>2. PICK q \in Peers(p) : TRUE
        BY StreamsAssumption DEF Peers
    <2>3. rnd[p] \in Rounds
        <3>1. <<p, q>> \in Links
            BY PeerLinks
        <3>2. WriterOf(<<p, q>>)
            BY <3>1 DEF FramesInv
        <3> QED
            BY <2>1, <3>2 DEF WriterOf
    <2>4. rnd[p] + 1 \in 1..LastRound + 1
        BY <2>3, LastRoundType DEF Rounds
    <2>5. rnd' \in [Parties -> 1..LastRound + 1]
        BY <1>1, <2>1, <2>4 DEF FrameTypes
    <2>6. buf' \in [Links -> Seq(Unit)]
        BY <1>1, <2>1 DEF FrameTypes
    <2>7. rd' \in [Links -> Nat \cup {AtPrefix, None}]
        BY <1>1, <2>1 DEF FrameTypes
    <2> QED
        BY <1>1, <2>1, <2>5, <2>6, <2>7 DEF FrameTypes
<1>10. ASSUME NEW p \in Parties, Panic(p) \/ Crash(p) PROVE FrameTypes'
    <2>1. PICK how \in {"aborted", "crashed"} : status' = [status EXCEPT ![p] = how]
        BY <1>1, <1>10, LeavingShape
    <2>2. UNCHANGED <<rnd, pc, wr, rd, buf>> /\ link' \in [Links -> Seq(Unit)]
        BY <1>1, <1>10, LeavingShape
    <2> QED
        BY <1>1, <2>1, <2>2 DEF FrameTypes
<1> QED
    BY <1>2, <1>3, <1>4, <1>5, <1>6, <1>7, <1>8, <1>9, <1>10, NextCases

\* Every step keeps the writer's part of the invariant.
LEMMA StepWriter ==
    ASSUME FramesInv, [Next]_vars, NEW l \in Links
    PROVE  WriterOf(l)'
<1>1. FrameTypes /\ WriterOf(l) /\ l[1] \in Parties
    BY LinkEnds DEF FramesInv
<1>2. /\ rnd[l[1]] \in Nat \ {0} /\ CmdLen(rnd[l[1]]) \in Nat \ {0} /\ wr[l] \in Nat
      /\ l \in Out(l[1])
    BY <1>1, FrameFacts, LinkEnds
<1>3. /\ rnd \in [Parties -> 1..LastRound + 1]
      /\ pc \in [Parties -> {"take", "send", "recv"}]
      /\ status \in [Parties -> {"up", "done", "aborted", "crashed"}]
      /\ wr \in [Links -> Nat]
    BY <1>1 DEF FrameTypes
<1>4. CASE UNCHANGED vars
    BY <1>1, <1>4 DEF vars, WriterOf, Up
<1>5. ASSUME NEW p \in Parties, StartSend(p) PROVE WriterOf(l)'
    <2>1. /\ Up(p) /\ pc[p] = "take" /\ pc' = [pc EXCEPT ![p] = "send"]
          /\ wr' = [k \in Links |-> IF k \in Out(p) THEN CmdLen(rnd[p]) + 1 ELSE wr[k]]
          /\ UNCHANGED <<rnd, status>>
        BY <1>5 DEF StartSend
    <2>2. CASE l[1] = p
        BY <1>1, <1>2, <1>3, <2>1, <2>2 DEF WriterOf, Up
    <2>3. CASE l[1] # p
        <3>1. wr'[l] = wr[l] /\ pc'[l[1]] = pc[l[1]]
            BY <1>1, <1>3, <2>1, <2>3, LinkEnds
        <3> QED
            BY <1>1, <2>1, <3>1 DEF WriterOf, Up
    <2> QED
        BY <2>2, <2>3
<1>6. ASSUME NEW p \in Parties, NEW q \in Peers(p), NEW n \in Nat, n <= wr[<<p, q>>],
             pc[p] = "send", Sent(p, [wr EXCEPT ![<<p, q>>] = n])
      PROVE  WriterOf(l)'
    <2>1. <<p, q>> \in Links
        BY PeerLinks
    <2>2. /\ wr' = [wr EXCEPT ![<<p, q>>] = n] /\ UNCHANGED <<rnd, status>>
          /\ pc' = IF AllWritten(p, wr') THEN [pc EXCEPT ![p] = "recv"] ELSE pc
        BY <1>6 DEF Sent
    <2>3. CASE l[1] = p
        <3>1. wr'[l] \in Nat /\ wr'[l] <= wr[l]
            BY <1>2, <1>3, <1>6, <2>2
        <3>2. CASE AllWritten(p, wr')
            BY <1>1, <1>2, <1>3, <2>2, <2>3, <3>2 DEF AllWritten, WriterOf, Up
        <3>3. CASE ~AllWritten(p, wr')
            BY <1>1, <1>2, <1>6, <2>2, <2>3, <3>1, <3>3 DEF WriterOf, Up
        <3> QED
            BY <3>2, <3>3
    <2>4. CASE l[1] # p
        <3>1. l # <<p, q>>
            BY <2>4
        <3>2. wr'[l] = wr[l] /\ pc'[l[1]] = pc[l[1]]
            BY <1>1, <1>3, <2>2, <2>4, <3>1
        <3> QED
            BY <1>1, <2>2, <3>2 DEF WriterOf, Up
    <2> QED
        BY <2>3, <2>4
<1>7. ASSUME NEW p \in Parties, NEW q \in Peers(p), Write(p, q) \/ WriteFails(p, q)
      PROVE  WriterOf(l)'
    <2>1. <<p, q>> \in Links /\ wr[<<p, q>>] \in Nat
        BY <1>3, PeerLinks
    <2>2. CASE Write(p, q)
        BY <1>6, <2>1, <2>2 DEF Write
    <2>3. CASE WriteFails(p, q)
        BY <1>6, <2>1, <2>3 DEF WriteFails
    <2> QED
        BY <1>7, <2>2, <2>3
<1>8. ASSUME NEW p \in Parties, NEW q \in Peers(p),
             ReadPrefix(p, q) \/ ReadPayload(p, q) \/ ReadCut(p, q)
      PROVE  WriterOf(l)'
    <2>1. UNCHANGED <<rnd, pc, status, wr>>
        BY <1>8 DEF ReadPrefix, ReadPayload, ReadCut
    <2> QED
        BY <1>1, <2>1 DEF WriterOf, Up
<1>9. ASSUME NEW p \in Parties, Finish(p) PROVE WriterOf(l)'
    <2>1. /\ Up(p) /\ rnd' = [rnd EXCEPT ![p] = @ + 1] /\ pc' = [pc EXCEPT ![p] = "take"]
          /\ status' = IF rnd[p] = LastRound THEN [status EXCEPT ![p] = "done"] ELSE status
          /\ UNCHANGED wr
        BY <1>9 DEF Finish, Returned
    <2>2. CASE l[1] = p
        <3>1. rnd[p] \in 1..LastRound
            BY <1>1, <2>1, <2>2 DEF WriterOf, Rounds
        <3>2. Up(p)' => rnd'[p] \in Rounds
            BY <1>3, <2>1, <3>1, LastRoundType DEF Up, Rounds
        <3>3. pc'[p] = "take"
            BY <1>3, <2>1
        <3> QED
            BY <2>2, <3>2, <3>3 DEF WriterOf
    <2>3. CASE l[1] # p
        <3>1. /\ rnd'[l[1]] = rnd[l[1]] /\ pc'[l[1]] = pc[l[1]]
              /\ status'[l[1]] = status[l[1]]
            BY <1>1, <1>3, <2>1, <2>3
        <3> QED
            BY <1>1, <2>1, <3>1 DEF WriterOf, Up
    <2> QED
        BY <2>2, <2>3
<1>10. ASSUME NEW p \in Parties, Panic(p) \/ Crash(p) PROVE WriterOf(l)'
    <2>1. PICK how \in {"aborted", "crashed"} : status' = [status EXCEPT ![p] = how]
        BY <1>1, <1>10, LeavingShape
    <2>2. UNCHANGED <<rnd, pc, wr>>
        BY <1>1, <1>10, LeavingShape
    <2>3. Up(l[1])' => Up(l[1])
        BY <1>1, <1>3, <2>1 DEF Up
    <2> QED
        BY <1>1, <2>2, <2>3 DEF WriterOf
<1> QED
    BY <1>4, <1>5, <1>7, <1>8, <1>9, <1>10, NextCases

\* The first unit in the buffers is the one that the reader needs.
LEMMA HeadOfLink ==
    ASSUME FramesInv, NEW l \in Links, link[l] # << >>
    PROVE  /\ Len(link[l]) \in Nat \ {0} /\ Head(link[l]) = link[l][1]
           /\ Head(link[l]) \in Unit /\ Genuine(Head(link[l]))
           /\ rd[l] = AtPrefix =>
                 /\ Head(link[l]).pos = 0 /\ Head(link[l]).rnd = rnd[l[2]]
                 /\ Head(link[l]).val = CmdLen(rnd[l[2]])
           /\ rd[l] > 0 =>
                 /\ rd[l] \in Nat
                 /\ Head(link[l]) = [val |-> PayloadVal, rnd |-> rnd[l[2]],
                                     pos |-> CmdLen(rnd[l[2]]) + 1 - rd[l]]
<1>1. FrameTypes /\ BufferOf(l) /\ ReaderOf(l)
    BY DEF FramesInv
<1>2. /\ link[l] \in Seq(Unit) /\ rnd[l[2]] \in Nat \ {0}
      /\ CmdLen(rnd[l[2]]) \in Nat \ {0}
      /\ rd[l] \in Nat \/ rd[l] = AtPrefix \/ rd[l] = None
    BY <1>1, FrameFacts
<1>3. Len(link[l]) \in Nat \ {0} /\ Head(link[l]) = link[l][1] /\ Head(link[l]) \in Unit
    BY <1>2
<1> DEFINE u == Head(link[l])
<1>4. Genuine(u) /\ <<u.rnd, u.pos>> = ReadNext(l)
    <2>1. 1 \in 1..Len(link[l])
        BY <1>3
    <2>2. Genuine(link[l][1]) /\ At(link[l][1]) = ReadNext(l)
        BY <1>1, <2>1 DEF BufferOf
    <2> QED
        BY <1>3, <2>2 DEF At
<1> HIDE DEF u
<1>5. CASE rd[l] = AtPrefix
    <2>1. <<u.rnd, u.pos>> = <<rnd[l[2]], 0>>
        BY <1>4, <1>5 DEF ReadNext
    <2>2. u.rnd = rnd[l[2]] /\ u.pos = 0
        BY <2>1
    <2>3. u.val = CmdLen(rnd[l[2]])
        BY <1>4, <2>2 DEF Genuine
    <2>4. ~(rd[l] > 0)
        BY <1>5 DEF AtPrefix
    <2> QED
        BY <1>3, <1>4, <2>2, <2>3, <2>4 DEF u
<1>6. CASE rd[l] > 0
    <2>1. rd[l] \in Nat \ {0} /\ rd[l] # AtPrefix
        BY <1>2, <1>6 DEF AtPrefix, None
    <2>2. <<u.rnd, u.pos>> = <<rnd[l[2]], CmdLen(rnd[l[2]]) + 1 - rd[l]>>
        BY <1>4, <2>1 DEF ReadNext, Left
    <2>3. u.rnd = rnd[l[2]] /\ u.pos = CmdLen(rnd[l[2]]) + 1 - rd[l]
        BY <2>2
    <2>4. rd[l] <= CmdLen(rnd[l[2]])
        BY <1>1, <1>2, <2>1, FrameFacts DEF ReaderOf
    <2>5. u.pos # 0
        BY <1>2, <2>1, <2>3, <2>4
    <2>6. u.val = PayloadVal
        BY <1>4, <2>5 DEF Genuine
    <2>7. u \in [val : Nat, rnd : Rounds, pos : Nat]
        BY <1>3 DEF u, Unit
    <2>8. u = [val |-> u.val, rnd |-> u.rnd, pos |-> u.pos]
        BY <2>7
    <2> QED
        BY <1>3, <1>4, <2>1, <2>3, <2>6, <2>8 DEF u
<1>7. CASE rd[l] # AtPrefix /\ ~(rd[l] > 0)
    BY <1>3, <1>4, <1>7 DEF u
<1> QED
    BY <1>5, <1>6, <1>7

\* Every step keeps the reader's part.
LEMMA StepReader ==
    ASSUME FramesInv, [Next]_vars, NEW l \in Links
    PROVE  ReaderOf(l)'
<1>1. FrameTypes /\ ReaderOf(l) /\ l[2] \in Parties
    BY LinkEnds DEF FramesInv
<1>2. /\ rnd[l[2]] \in Nat \ {0} /\ CmdLen(rnd[l[2]]) \in Nat \ {0}
      /\ rd[l] \in Nat \/ rd[l] = AtPrefix \/ rd[l] = None
      /\ buf[l] \in Seq(Unit) /\ Len(buf[l]) \in Nat
    BY <1>1, FrameFacts
<1>3. /\ rnd \in [Parties -> 1..LastRound + 1]
      /\ rd \in [Links -> Nat \cup {AtPrefix, None}]
      /\ buf \in [Links -> Seq(Unit)]
    BY <1>1 DEF FrameTypes
<1>4. ASSUME rnd'[l[2]] = rnd[l[2]], rd'[l] = rd[l], buf'[l] = buf[l] PROVE ReaderOf(l)'
    BY <1>1, <1>4 DEF ReaderOf, CmdLen
<1>5. CASE UNCHANGED vars
    BY <1>4, <1>5 DEF vars
<1>6. ASSUME NEW p \in Parties, StartSend(p) PROVE ReaderOf(l)'
    BY <1>4, <1>6 DEF StartSend
<1>7. ASSUME NEW p \in Parties, NEW q \in Peers(p), Write(p, q) \/ WriteFails(p, q)
      PROVE  ReaderOf(l)'
    BY <1>4, <1>7 DEF Write, WriteFails, Sent
<1>8. ASSUME NEW p \in Parties, NEW q \in Peers(p), ReadPrefix(p, q) PROVE ReaderOf(l)'
    <2>1. /\ link[<<q, p>>] # << >> /\ rd[<<q, p>>] = AtPrefix
          /\ rd' = [rd EXCEPT ![<<q, p>>] = Head(link[<<q, p>>]).val]
          /\ UNCHANGED <<rnd, buf>>
        BY <1>8 DEF ReadPrefix
    <2>2. CASE l = <<q, p>>
        <3>1. link[l] # << >> /\ rd[l] = AtPrefix /\ rd'[l] = Head(link[l]).val
            BY <1>3, <2>1, <2>2
        <3>2. rd'[l] = CmdLen(rnd[l[2]])
            BY <3>1, HeadOfLink
        <3>3. buf[l] = << >>
            BY <1>1, <3>1 DEF ReaderOf
        <3>4. rd'[l] # AtPrefix
            BY <1>2, <3>2 DEF AtPrefix
        <3> QED
            BY <1>2, <2>1, <3>2, <3>3, <3>4 DEF ReaderOf, CmdLen
    <2>3. CASE l # <<q, p>>
        BY <1>3, <1>4, <2>1, <2>3
    <2> QED
        BY <2>2, <2>3
<1>9. ASSUME NEW p \in Parties, NEW q \in Peers(p), ReadPayload(p, q) PROVE ReaderOf(l)'
    <2>1. /\ link[<<q, p>>] # << >> /\ rd[<<q, p>>] > 0
          /\ rd' = [rd EXCEPT ![<<q, p>>] = @ - 1]
          /\ buf' = [buf EXCEPT ![<<q, p>>] = Append(@, Head(link[<<q, p>>]))]
          /\ UNCHANGED rnd
        BY <1>9 DEF ReadPayload
    <2>2. CASE l = <<q, p>>
        <3>1. /\ link[l] # << >> /\ rd[l] > 0 /\ rd'[l] = rd[l] - 1
              /\ buf'[l] = Append(buf[l], Head(link[l]))
            BY <1>3, <2>1, <2>2
        <3>2. /\ rd[l] \in Nat /\ Head(link[l]) \in Unit
              /\ Head(link[l]) = [val |-> PayloadVal, rnd |-> rnd[l[2]],
                                  pos |-> CmdLen(rnd[l[2]]) + 1 - rd[l]]
            BY <3>1, HeadOfLink
        <3>3. Len(buf[l]) + rd[l] = CmdLen(rnd[l[2]])
            BY <1>1, <3>2 DEF ReaderOf
        <3>4. CmdLen(rnd[l[2]]) + 1 - rd[l] = Len(buf[l]) + 1
            BY <1>2, <3>2, <3>3
        <3>5. Len(buf'[l]) = Len(buf[l]) + 1
            BY <1>2, <3>1, <3>2
        <3>6. ASSUME NEW i \in 1..Len(buf'[l])
              PROVE  buf'[l][i] = [val |-> PayloadVal, rnd |-> rnd[l[2]], pos |-> i]
            <4>1. CASE i <= Len(buf[l])
                <5>1. i \in 1..Len(buf[l]) /\ buf'[l][i] = buf[l][i]
                    BY <1>2, <3>1, <3>2, <3>5, <4>1
                <5> QED
                    BY <1>1, <5>1 DEF ReaderOf
            <4>2. CASE i = Len(buf[l]) + 1
                <5>1. buf'[l][i] = Head(link[l])
                    BY <1>2, <3>1, <3>2, <4>2
                <5> QED
                    BY <3>2, <3>4, <4>2, <5>1
            <4> QED
                BY <1>2, <3>5, <4>1, <4>2
        <3>7. rd'[l] \in Nat /\ rd'[l] # AtPrefix
            BY <3>1, <3>2 DEF AtPrefix
        <3>8. Len(buf'[l]) + rd'[l] = CmdLen(rnd[l[2]]) /\ Len(buf'[l]) <= CmdLen(rnd[l[2]])
            <4>1. Len(buf[l]) \in Nat /\ rd[l] \in Nat /\ rd[l] > 0
                BY <1>2, <3>1, <3>2
            <4> QED
                BY ONLY <3>1, <3>3, <3>5, <4>1
        <3> QED
            BY <2>1, <3>6, <3>7, <3>8 DEF ReaderOf, CmdLen
    <2>3. CASE l # <<q, p>>
        BY <1>3, <1>4, <2>1, <2>3
    <2> QED
        BY <2>2, <2>3
<1>10. ASSUME NEW p \in Parties, NEW q \in Peers(p), ReadCut(p, q) PROVE ReaderOf(l)'
    <2>1. rd' = [rd EXCEPT ![<<q, p>>] = None] /\ UNCHANGED <<rnd, buf>>
        BY <1>10 DEF ReadCut
    <2>2. CASE l = <<q, p>>
        <3>1. rd'[l] = None /\ None # AtPrefix /\ None \notin Nat
            BY <1>3, <2>1, <2>2 DEF None, AtPrefix
        <3> QED
            BY <1>1, <2>1, <3>1 DEF ReaderOf, CmdLen
    <2>3. CASE l # <<q, p>>
        BY <1>3, <1>4, <2>1, <2>3
    <2> QED
        BY <2>2, <2>3
<1>11. ASSUME NEW p \in Parties, Finish(p) PROVE ReaderOf(l)'
    <2>1. /\ rnd' = [rnd EXCEPT ![p] = @ + 1]
          /\ rd' = [k \in Links |-> IF k \in In(p) THEN AtPrefix ELSE rd[k]]
          /\ buf' = [k \in Links |-> IF k \in In(p) THEN << >> ELSE buf[k]]
        BY <1>11 DEF Finish
    <2>2. CASE l[2] = p
        <3>1. rd'[l] = AtPrefix /\ buf'[l] = << >> /\ AtPrefix \notin Nat
            BY <2>1, <2>2, LinkEnds DEF AtPrefix
        <3>2. rnd'[l[2]] \in Nat \ {0}
            BY <1>1, <1>2, <1>3, <2>1, <2>2
        <3>3. CmdLen(rnd'[l[2]]) \in Nat
            BY <3>2, CmdLenType
        <3> QED
            BY <3>1, <3>3 DEF ReaderOf, CmdLen
    <2>3. CASE l[2] # p
        BY <1>1, <1>3, <1>4, <2>1, <2>3, LinkEnds
    <2> QED
        BY <2>2, <2>3
<1>12. ASSUME NEW p \in Parties, Panic(p) \/ Crash(p) PROVE ReaderOf(l)'
    <2>1. UNCHANGED <<rnd, rd, buf>>
        BY <1>1, <1>12, LeavingShape
    <2> QED
        BY <1>4, <2>1
<1> QED
    BY <1>5, <1>6, <1>7, <1>8, <1>9, <1>10, <1>11, <1>12, NextCases

----------------------------------------------------------------------------
(* The buffers.                                                            *)

LEMMA EmptyLen == Len(<< >>) = 0
OBVIOUS

\* A link keeps its part of the invariant when both its ends keep their places.
LEMMA BufferStays ==
    ASSUME FramesInv, NEW l \in Links,
           link'[l] = link[l], rd'[l] = None => rd[l] = None,
           Up(l[1])' => Up(l[1]), Up(l[2])' => Up(l[2]),
           ReadNext(l)' = ReadNext(l),
           Up(l[1])' /\ Up(l[2])' => WriteNext(l)' = WriteNext(l)
    PROVE  BufferOf(l)'
<1>1. BufferOf(l)
    BY DEF FramesInv
<1>2. \A i \in 1..Len(link'[l]) :
            /\ Genuine(link[l][i])'
            /\ i > 1 => At(link[l][i])' = After(link[l][i - 1].rnd, link[l][i - 1].pos)'
    BY <1>1 DEF BufferOf, Genuine, At, After, CmdLen
<1>3. link'[l] # << >> => rd'[l] # None /\ At(link[l][1])' = ReadNext(l)'
    BY <1>1 DEF BufferOf, At
<1>4. rd'[l] = None => ~Up(l[1])'
    BY <1>1 DEF BufferOf
<1>5. Up(l[1])' /\ Up(l[2])' =>
          WriteNext(l)' =
              IF link'[l] = << >> THEN ReadNext(l)'
              ELSE After(link[l][Len(link[l])].rnd, link[l][Len(link[l])].pos)'
    BY <1>1 DEF BufferOf, After, CmdLen
<1> QED
    BY <1>2, <1>3, <1>4, <1>5 DEF BufferOf

\* The reader takes the first unit and moves to the place behind it.
LEMMA BufferAdvances ==
    ASSUME FramesInv, FrameTypes', NEW l \in Links,
           link[l] # << >>, link'[l] = Tail(link[l]), rd[l] # None, rd'[l] \in Nat,
           Up(l[1])' => Up(l[1]), Up(l[2])' => Up(l[2]),
           ReadNext(l)' = After(Head(link[l]).rnd, Head(link[l]).pos),
           WriteNext(l)' = WriteNext(l)
    PROVE  BufferOf(l)'
<1>1. BufferOf(l) /\ FrameTypes
    BY DEF FramesInv
<1>2. link[l] \in Seq(Unit) /\ Len(link[l]) \in Nat \ {0} /\ Head(link[l]) = link[l][1]
    BY <1>1, FrameFacts, HeadOfLink
<1> DEFINE old == link[l]
           new == link'[l]
<1>3. /\ new \in Seq(Unit) /\ Len(new) = Len(old) - 1
      /\ \A i \in 1..Len(new) : new[i] = old[i + 1]
    BY <1>2
<1>4. ASSUME NEW i \in 1..Len(new)
      PROVE  /\ Genuine(new[i])
             /\ At(new[i]) = After(old[i].rnd, old[i].pos)
             /\ i > 1 => old[i] = new[i - 1]
    <2>1. i + 1 \in 1..Len(old) /\ i + 1 > 1 /\ (i + 1) - 1 = i /\ new[i] = old[i + 1]
        BY <1>2, <1>3
    <2>2. Genuine(old[i + 1]) /\ At(old[i + 1]) = After(old[i].rnd, old[i].pos)
        BY <1>1, <2>1 DEF BufferOf
    <2>3. i > 1 => i - 1 \in 1..Len(new) /\ (i - 1) + 1 = i
        BY <1>2, <1>3
    <2> QED
        BY <1>3, <2>1, <2>2, <2>3
<1>5. None \notin Nat
    BY DEF None
<1>6. new # << >> =>
          /\ 1 \in 1..Len(new) /\ Len(new) \in 1..Len(new)
          /\ new[Len(new)] = old[Len(old)]
    BY <1>2, <1>3
<1>7. new = << >> => Len(old) = 1
    <2> HIDE DEF new
    <2>1. new = << >> => Len(new) = 0
        BY EmptyLen
    <2>2. Len(new) = Len(old) - 1 /\ Len(old) \in Nat
        BY <1>2, <1>3
    <2> HIDE DEF old
    <2> QED
        BY <2>1, <2>2
<1>8. Up(l[1])' /\ Up(l[2])' =>
          WriteNext(l) = After(old[Len(old)].rnd, old[Len(old)].pos)
    BY <1>1 DEF BufferOf
<1> HIDE DEF old, new
<1>9. \A i \in 1..Len(new) :
          /\ Genuine(new[i])
          /\ i > 1 => At(new[i]) = After(new[i - 1].rnd, new[i - 1].pos)
    BY <1>4
<1>10. new # << >> => At(new[1]) = ReadNext(l)'
    BY <1>2, <1>4, <1>6 DEF old
<1>11. Up(l[1])' /\ Up(l[2])' =>
          WriteNext(l)' = IF new = << >> THEN ReadNext(l)'
                          ELSE After(new[Len(new)].rnd, new[Len(new)].pos)
    BY <1>2, <1>6, <1>7, <1>8 DEF old
<1>12. \A i \in 1..Len(link'[l]) :
          /\ Genuine(link[l][i])'
          /\ i > 1 => At(link[l][i])' = After(link[l][i - 1].rnd, link[l][i - 1].pos)'
    BY <1>9 DEF new, Genuine, At, After, CmdLen
<1>13. link'[l] # << >> => rd'[l] # None /\ At(link[l][1])' = ReadNext(l)'
    BY <1>5, <1>10 DEF new, At
<1>14. Up(l[1])' /\ Up(l[2])' =>
          WriteNext(l)' =
              IF link'[l] = << >> THEN ReadNext(l)'
              ELSE After(link[l][Len(link[l])].rnd, link[l][Len(link[l])].pos)'
    BY <1>11 DEF new, After, CmdLen
<1> QED
    BY <1>5, <1>12, <1>13, <1>14 DEF BufferOf

\* The writer adds the unit at its place and moves to the place behind it.
LEMMA BufferGrows ==
    ASSUME FramesInv, NEW l \in Links, NEW u \in Unit,
           link'[l] = Append(link[l], u), rd'[l] = rd[l],
           Up(l[1]), Up(l[2]), Genuine(u), At(u) = WriteNext(l),
           ReadNext(l)' = ReadNext(l), WriteNext(l)' = After(u.rnd, u.pos)
    PROVE  BufferOf(l)'
<1>1. BufferOf(l) /\ FrameTypes
    BY DEF FramesInv
<1>2. link[l] \in Seq(Unit) /\ Len(link[l]) \in Nat
    BY <1>1, FrameFacts
<1> DEFINE old == link[l]
           new == link'[l]
<1>3. /\ new \in Seq(Unit) /\ Len(new) = Len(old) + 1 /\ new[Len(new)] = u
      /\ \A i \in 1..Len(old) : new[i] = old[i]
    BY <1>2
<1>4. new # << >> /\ 1 \in 1..Len(new)
    <2>1. Len(new) = Len(old) + 1 /\ Len(old) \in Nat
        BY <1>2, <1>3
    <2> HIDE DEF old, new
    <2>2. Len(new) # 0 /\ 1 \in 1..Len(new)
        BY <2>1
    <2> QED
        BY <2>2, EmptyLen
<1>5. rd[l] # None
    BY <1>1 DEF BufferOf
<1>6. WriteNext(l) = IF old = << >> THEN ReadNext(l)
                     ELSE After(old[Len(old)].rnd, old[Len(old)].pos)
    BY <1>1 DEF BufferOf
<1>7. \A i \in 1..Len(old) :
          /\ Genuine(old[i])
          /\ i > 1 => At(old[i]) = After(old[i - 1].rnd, old[i - 1].pos)
    BY <1>1 DEF BufferOf
<1>8. old # << >> => 1 \in 1..Len(old) /\ At(old[1]) = ReadNext(l)
    BY <1>1, <1>2 DEF BufferOf
<1>9. old = << >> => Len(old) = 0
    OBVIOUS
<1> HIDE DEF old, new
<1>10. ASSUME NEW i \in 1..Len(new)
       PROVE  /\ Genuine(new[i])
              /\ i > 1 => At(new[i]) = After(new[i - 1].rnd, new[i - 1].pos)
    <2>1. CASE i \in 1..Len(old)
        <3>1. i > 1 => i - 1 \in 1..Len(old)
            BY <1>2, <2>1 DEF old
        <3> QED
            BY <1>3, <1>7, <2>1, <3>1
    <2>2. CASE i = Len(old) + 1
        <3>1. new[i] = u
            BY <1>3, <2>2
        <3>2. i > 1 => old # << >> /\ i - 1 = Len(old) /\ Len(old) \in 1..Len(old)
            BY <1>2, <1>9, <2>2 DEF old
        <3>3. i > 1 => new[i - 1] = old[Len(old)]
            BY <1>3, <3>2
        <3> QED
            BY <1>6, <3>1, <3>2, <3>3
    <2> QED
        BY <1>2, <1>3, <2>1, <2>2 DEF old
<1>11. At(new[1]) = ReadNext(l)
    <2>1. CASE old = << >>
        BY <1>3, <1>6, <1>9, <2>1
    <2>2. CASE old # << >>
        BY <1>3, <1>8, <2>2
    <2> QED
        BY <2>1, <2>2
<1>12. \A i \in 1..Len(link'[l]) :
          /\ Genuine(link[l][i])'
          /\ i > 1 => At(link[l][i])' = After(link[l][i - 1].rnd, link[l][i - 1].pos)'
    BY <1>10 DEF new, Genuine, At, After, CmdLen
<1>13. rd'[l] # None /\ At(link[l][1])' = ReadNext(l)'
    BY <1>5, <1>11 DEF new, At
<1>14. WriteNext(l)' = After(link[l][Len(link[l])].rnd, link[l][Len(link[l])].pos)'
    BY <1>3 DEF new, After, CmdLen
<1>15. link'[l] # << >>
    BY <1>4 DEF new
<1> QED
    BY <1>12, <1>13, <1>14, <1>15 DEF BufferOf

\* A link one end of which has left keeps a beginning of what was on it.
LEMMA BufferCut ==
    ASSUME FramesInv, FrameTypes', NEW l \in Links,
           Len(link'[l]) <= Len(link[l]),
           \A i \in 1..Len(link'[l]) : link'[l][i] = link[l][i],
           rd'[l] = rd[l], ReadNext(l)' = ReadNext(l),
           Up(l[1])' => Up(l[1]), ~Up(l[1])' \/ ~Up(l[2])'
    PROVE  BufferOf(l)'
<1>1. BufferOf(l) /\ FrameTypes
    BY DEF FramesInv
<1>2. /\ link[l] \in Seq(Unit) /\ Len(link[l]) \in Nat
      /\ link'[l] \in Seq(Unit) /\ Len(link'[l]) \in Nat
    BY <1>1 DEF FrameTypes
<1>3. ASSUME NEW i \in 1..Len(link'[l])
      PROVE  /\ Genuine(link[l][i])'
             /\ i > 1 => At(link[l][i])' = After(link[l][i - 1].rnd, link[l][i - 1].pos)'
    <2>1. i \in 1..Len(link[l]) /\ (i > 1 => i - 1 \in 1..Len(link'[l]))
        BY <1>2
    <2>2. /\ Genuine(link[l][i])
          /\ i > 1 => At(link[l][i]) = After(link[l][i - 1].rnd, link[l][i - 1].pos)
        BY <1>1, <2>1 DEF BufferOf
    <2>3. link'[l][i] = link[l][i] /\ (i > 1 => link'[l][i - 1] = link[l][i - 1])
        BY <2>1
    <2> QED
        BY <2>2, <2>3 DEF Genuine, At, After, CmdLen
<1>4. ASSUME link'[l] # << >>
      PROVE  rd'[l] # None /\ At(link[l][1])' = ReadNext(l)'
    <2>1. 1 \in 1..Len(link'[l]) /\ 1 \in 1..Len(link[l])
        BY <1>2, <1>4
    <2>2. link[l] # << >> /\ link'[l][1] = link[l][1]
        BY <1>2, <2>1
    <2> QED
        BY <1>1, <2>2 DEF BufferOf, At
<1>5. rd'[l] = None => ~Up(l[1])'
    BY <1>1 DEF BufferOf
<1> QED
    BY <1>3, <1>4, <1>5 DEF BufferOf

\* Every step keeps the buffers' part.
LEMMA StepBuffer ==
    ASSUME FramesInv, [Next]_vars, FrameTypes', NEW l \in Links
    PROVE  BufferOf(l)'
<1>1. /\ FrameTypes /\ WriterOf(l) /\ ReaderOf(l) /\ BufferOf(l)
      /\ l[1] \in Parties /\ l[2] \in Parties /\ l[1] # l[2]
    BY LinkEnds DEF FramesInv
<1>2. /\ rnd[l[1]] \in Nat \ {0} /\ CmdLen(rnd[l[1]]) \in Nat \ {0} /\ wr[l] \in Nat
      /\ rnd[l[2]] \in Nat \ {0} /\ CmdLen(rnd[l[2]]) \in Nat \ {0}
      /\ rd[l] \in Nat \/ rd[l] = AtPrefix \/ rd[l] = None
    BY <1>1, FrameFacts
<1>3. /\ rnd \in [Parties -> 1..LastRound + 1]
      /\ pc \in [Parties -> {"take", "send", "recv"}]
      /\ status \in [Parties -> {"up", "done", "aborted", "crashed"}]
      /\ wr \in [Links -> Nat]
      /\ rd \in [Links -> Nat \cup {AtPrefix, None}]
      /\ link \in [Links -> Seq(Unit)]
    BY <1>1 DEF FrameTypes
\* The ends of the link and what is on it are as before.
<1>4. ASSUME link'[l] = link[l], rd'[l] = rd[l], wr'[l] = wr[l],
             rnd'[l[1]] = rnd[l[1]], rnd'[l[2]] = rnd[l[2]],
             (pc'[l[1]] = "take") = (pc[l[1]] = "take"),
             status'[l[1]] = status[l[1]], status'[l[2]] = status[l[2]]
      PROVE  BufferOf(l)'
    <2>1. ReadNext(l)' = ReadNext(l)
        BY <1>4 DEF ReadNext, Left, CmdLen
    <2>2. WriteNext(l)' = WriteNext(l)
        BY <1>4 DEF WriteNext, Left, CmdLen
    <2> QED
        BY <1>4, <2>1, <2>2, BufferStays DEF Up
<1>5. CASE UNCHANGED vars
    BY <1>4, <1>5 DEF vars
<1>6. ASSUME NEW p \in Parties, StartSend(p) PROVE BufferOf(l)'
    <2>1. /\ pc[p] = "take" /\ pc' = [pc EXCEPT ![p] = "send"]
          /\ wr' = [k \in Links |-> IF k \in Out(p) THEN CmdLen(rnd[p]) + 1 ELSE wr[k]]
          /\ UNCHANGED <<rnd, status, rd, link>>
        BY <1>6 DEF StartSend
    <2>2. CASE l[1] = p
        <3>1. WriteNext(l) = <<rnd[p], 0>>
            BY <2>1, <2>2 DEF WriteNext
        <3>2. pc'[l[1]] = "send" /\ wr'[l] = CmdLen(rnd[p]) + 1 /\ wr'[l] # 0
            BY <1>2, <1>3, <2>1, <2>2, LinkEnds
        <3>3. CmdLen(rnd[p]) + 1 - wr'[l] = 0
            BY <1>2, <2>2, <3>2
        <3>4. WriteNext(l)' = <<rnd[p], CmdLen(rnd[p]) + 1 - wr'[l]>>
            BY <2>1, <2>2, <3>2 DEF WriteNext, Left, CmdLen
        <3>5. ReadNext(l)' = ReadNext(l)
            BY <2>1 DEF ReadNext, Left, CmdLen
        <3> QED
            BY <2>1, <3>1, <3>3, <3>4, <3>5, BufferStays DEF Up
    <2>3. CASE l[1] # p
        <3>1. pc'[l[1]] = pc[l[1]] /\ wr'[l] = wr[l]
            BY <1>1, <1>3, <2>1, <2>3, LinkEnds
        <3> QED
            BY <1>4, <2>1, <3>1
    <2> QED
        BY <2>2, <2>3
<1>7. ASSUME NEW p \in Parties, NEW q \in Peers(p), NEW n, pc[p] = "send",
             Sent(p, [wr EXCEPT ![<<p, q>>] = n])
      PROVE  /\ UNCHANGED <<rnd, status, rd>>
             /\ wr' = [wr EXCEPT ![<<p, q>>] = n]
             /\ (pc'[l[1]] = "take") = (pc[l[1]] = "take")
             /\ pc'[p] # "take"
    BY <1>1, <1>3, <1>7 DEF Sent
<1>8. ASSUME NEW p \in Parties, NEW q \in Peers(p), Write(p, q) PROVE BufferOf(l)'
    <2>1. /\ Up(p) /\ Up(q) /\ pc[p] = "send" /\ wr[<<p, q>>] > 0
          /\ link' = [link EXCEPT ![<<p, q>>] = Append(@, NextUnit(<<p, q>>))]
          /\ Sent(p, [wr EXCEPT ![<<p, q>>] = wr[<<p, q>>] - 1])
        BY <1>8 DEF Write
    <2>2. /\ UNCHANGED <<rnd, status, rd>>
          /\ wr' = [wr EXCEPT ![<<p, q>>] = wr[<<p, q>>] - 1]
          /\ (pc'[l[1]] = "take") = (pc[l[1]] = "take")
          /\ pc'[p] # "take"
        BY <1>7, <2>1
    <2>3. CASE l # <<p, q>>
        BY <1>3, <1>4, <2>1, <2>2, <2>3
    <2>4. CASE l = <<p, q>>
        <3> DEFINE u == NextUnit(l)
                   n == CmdLen(rnd[p])
        <3>1. l[1] = p /\ l[2] = q
            BY <2>4
        <3>2. /\ wr[l] > 0 /\ wr'[l] = wr[l] - 1
              /\ link'[l] = Append(link[l], u)
            BY <1>3, <2>1, <2>2, <2>4
        <3>3. n \in Nat \ {0} /\ wr[l] \in 1..n + 1 /\ rnd[p] \in Rounds /\ rnd[p] \in Nat
            BY <1>1, <1>2, <2>1, <3>1, <3>2 DEF WriterOf
        <3>4. u = [val |-> IF n + 1 - wr[l] = 0 THEN n ELSE PayloadVal,
                   rnd |-> rnd[p], pos |-> n + 1 - wr[l]]
            BY <3>1 DEF NextUnit
        <3> HIDE DEF u
        <3>5. u.rnd = rnd[p] /\ u.pos = n + 1 - wr[l] /\ u.val = IF u.pos = 0 THEN n ELSE PayloadVal
            BY <3>4
        <3>6. n + 1 - wr[l] \in 0..n
            BY <3>3
        <3>7. u \in Unit
            BY <3>3, <3>4, <3>6 DEF Unit, PayloadVal
        <3>8. Genuine(u)
            BY <3>5, <3>6 DEF Genuine
        <3>9. At(u) = WriteNext(l)
            <4>1. WriteNext(l) = <<rnd[p], n + 1 - wr[l]>>
                BY <2>1, <3>1, <3>3 DEF WriteNext, Left
            <4> QED
                BY <3>5, <4>1 DEF At
        <3>10. ReadNext(l)' = ReadNext(l)
            BY <2>2 DEF ReadNext, Left, CmdLen
        <3>11. WriteNext(l)' = After(u.rnd, u.pos)
            <4>1. WriteNext(l)' = Left(rnd[p], wr[l] - 1)
                <5>1. /\ pc'[l[1]] # "take" /\ rnd'[l[1]] = rnd[p]
                      /\ wr'[l] = wr[l] - 1
                    BY <2>2, <3>1, <3>2
                <5>2. CmdLen(rnd[l[1]])' = CmdLen(rnd[p])
                    BY <5>1 DEF CmdLen
                <5>3. WriteNext(l)' = Left(rnd[l[1]], wr[l])'
                    BY <5>1 DEF WriteNext
                <5> QED
                    BY <5>1, <5>2, <5>3 DEF Left
            <4>2. CASE wr[l] = 1
                <5>1. ~(u.pos < n) /\ wr[l] - 1 = 0
                    BY <3>3, <3>5, <4>2
                <5> QED
                    BY <3>5, <4>1, <5>1 DEF Left, After
            <4>3. CASE wr[l] # 1
                <5>1. u.pos < n /\ wr[l] - 1 # 0 /\ u.pos + 1 = n + 1 - (wr[l] - 1)
                    BY <3>3, <3>5, <4>3
                <5> QED
                    BY <3>5, <4>1, <5>1 DEF Left, After
            <4> QED
                BY <4>2, <4>3
        <3> QED
            BY <2>1, <2>2, <3>1, <3>2, <3>7, <3>8, <3>9, <3>10, <3>11, BufferGrows
    <2> QED
        BY <2>3, <2>4
<1>9. ASSUME NEW p \in Parties, NEW q \in Peers(p), WriteFails(p, q) PROVE BufferOf(l)'
    <2>1. /\ ~Up(q) /\ pc[p] = "send" /\ UNCHANGED link
          /\ Sent(p, [wr EXCEPT ![<<p, q>>] = 0])
        BY <1>9 DEF WriteFails
    <2>2. /\ UNCHANGED <<rnd, status, rd>>
          /\ wr' = [wr EXCEPT ![<<p, q>>] = 0]
          /\ (pc'[l[1]] = "take") = (pc[l[1]] = "take")
        BY <1>7, <2>1
    <2>3. CASE l # <<p, q>>
        BY <1>3, <1>4, <2>1, <2>2, <2>3
    <2>4. CASE l = <<p, q>>
        <3>1. ~Up(l[2])'
            BY <2>1, <2>2, <2>4 DEF Up
        <3>2. ReadNext(l)' = ReadNext(l)
            BY <2>2 DEF ReadNext, Left, CmdLen
        <3>3. /\ link'[l] = link[l] /\ rd'[l] = rd[l]
              /\ Up(l[1])' => Up(l[1])
              /\ Up(l[2])' => Up(l[2])
            BY <2>1, <2>2 DEF Up
        <3> QED
            BY <3>1, <3>2, <3>3, BufferStays
    <2> QED
        BY <2>3, <2>4
<1>10. ASSUME NEW p \in Parties, NEW q \in Peers(p), ReadPrefix(p, q) PROVE BufferOf(l)'
    <2>1. /\ link[<<q, p>>] # << >> /\ rd[<<q, p>>] = AtPrefix
          /\ rd' = [rd EXCEPT ![<<q, p>>] = Head(link[<<q, p>>]).val]
          /\ link' = [link EXCEPT ![<<q, p>>] = Tail(@)]
          /\ UNCHANGED <<rnd, pc, status, wr>>
        BY <1>10 DEF ReadPrefix
    <2>2. CASE l # <<q, p>>
        BY <1>3, <1>4, <2>1, <2>2
    <2>3. CASE l = <<q, p>>
        <3>1. /\ link[l] # << >> /\ rd[l] = AtPrefix /\ rd'[l] = Head(link[l]).val
              /\ link'[l] = Tail(link[l])
            BY <1>3, <2>1, <2>3
        <3>2. /\ Head(link[l]).rnd = rnd[l[2]] /\ Head(link[l]).pos = 0
              /\ rd'[l] = CmdLen(rnd[l[2]])
            BY <3>1, HeadOfLink
        <3>3. ReadNext(l)' = Left(rnd[l[2]], CmdLen(rnd[l[2]]))
            <4>1. rnd'[l[2]] = rnd[l[2]] /\ rd'[l] # AtPrefix
                BY <1>2, <2>1, <3>2 DEF AtPrefix
            <4>2. CmdLen(rnd[l[2]])' = CmdLen(rnd[l[2]])
                BY <4>1 DEF CmdLen
            <4>3. ReadNext(l)' = Left(rnd[l[2]], rd[l])'
                BY <4>1 DEF ReadNext
            <4> QED
                BY <3>2, <4>1, <4>2, <4>3 DEF Left
        <3>4. Left(rnd[l[2]], CmdLen(rnd[l[2]])) = After(rnd[l[2]], 0)
            <4>1. /\ CmdLen(rnd[l[2]]) # 0 /\ 0 < CmdLen(rnd[l[2]])
                  /\ CmdLen(rnd[l[2]]) + 1 - CmdLen(rnd[l[2]]) = 0 + 1
                BY <1>2
            <4> QED
                BY <4>1 DEF Left, After
        <3>5. WriteNext(l)' = WriteNext(l)
            BY <2>1 DEF WriteNext, Left, CmdLen
        <3>6. rd[l] # None /\ rd'[l] \in Nat
            BY <1>2, <3>1, <3>2 DEF AtPrefix, None
        <3>7. /\ Up(l[1])' => Up(l[1])
              /\ Up(l[2])' => Up(l[2])
            BY <2>1 DEF Up
        <3> QED
            BY <3>1, <3>2, <3>3, <3>4, <3>5, <3>6, <3>7, BufferAdvances
    <2> QED
        BY <2>2, <2>3
<1>11. ASSUME NEW p \in Parties, NEW q \in Peers(p), ReadPayload(p, q) PROVE BufferOf(l)'
    <2>1. /\ link[<<q, p>>] # << >> /\ rd[<<q, p>>] > 0
          /\ rd' = [rd EXCEPT ![<<q, p>>] = @ - 1]
          /\ link' = [link EXCEPT ![<<q, p>>] = Tail(@)]
          /\ UNCHANGED <<rnd, pc, status, wr>>
        BY <1>11 DEF ReadPayload
    <2>2. CASE l # <<q, p>>
        BY <1>3, <1>4, <2>1, <2>2
    <2>3. CASE l = <<q, p>>
        <3> DEFINE n == CmdLen(rnd[l[2]])
        <3>1. /\ link[l] # << >> /\ rd[l] > 0 /\ rd'[l] = rd[l] - 1
              /\ link'[l] = Tail(link[l])
            BY <1>3, <2>1, <2>3
        <3>2. /\ rd[l] \in Nat \ {0}
              /\ Head(link[l]) = [val |-> PayloadVal, rnd |-> rnd[l[2]],
                                  pos |-> n + 1 - rd[l]]
            BY <3>1, HeadOfLink
        <3>3. Head(link[l]).rnd = rnd[l[2]] /\ Head(link[l]).pos = n + 1 - rd[l]
            BY <3>2
        <3>4. rd'[l] \in Nat /\ rd'[l] # AtPrefix /\ rd[l] # None /\ n \in Nat
            BY <1>2, <3>1, <3>2 DEF AtPrefix, None
        <3>5. ReadNext(l)' = Left(rnd[l[2]], rd[l] - 1)
            BY <2>1, <3>1, <3>4 DEF ReadNext, Left, CmdLen
        <3>6. Left(rnd[l[2]], rd[l] - 1) = After(rnd[l[2]], n + 1 - rd[l])
            <4>1. CASE rd[l] = 1
                <5>1. rd[l] - 1 = 0 /\ ~(n + 1 - rd[l] < n)
                    BY <3>4, <4>1
                <5> QED
                    BY <5>1 DEF Left, After
            <4>2. CASE rd[l] # 1
                <5>1. /\ rd[l] - 1 # 0 /\ n + 1 - rd[l] < n
                      /\ n + 1 - (rd[l] - 1) = (n + 1 - rd[l]) + 1
                    BY <3>2, <3>4, <4>2
                <5> QED
                    BY <5>1 DEF Left, After
            <4> QED
                BY <4>1, <4>2
        <3>7. WriteNext(l)' = WriteNext(l)
            BY <2>1 DEF WriteNext, Left, CmdLen
        <3>8. /\ Up(l[1])' => Up(l[1])
              /\ Up(l[2])' => Up(l[2])
            BY <2>1 DEF Up
        <3> QED
            BY <3>1, <3>3, <3>4, <3>5, <3>6, <3>7, <3>8, BufferAdvances
    <2> QED
        BY <2>2, <2>3
<1>12. ASSUME NEW p \in Parties, NEW q \in Peers(p), ReadCut(p, q) PROVE BufferOf(l)'
    <2>1. /\ link[<<q, p>>] = << >> /\ ~Up(q) /\ rd' = [rd EXCEPT ![<<q, p>>] = None]
          /\ UNCHANGED <<rnd, pc, status, wr, link>>
        BY <1>12 DEF ReadCut
    <2>2. CASE l # <<q, p>>
        BY <1>3, <1>4, <2>1, <2>2
    <2>3. CASE l = <<q, p>>
        <3>1. link'[l] = << >> /\ ~Up(l[1])'
            BY <2>1, <2>3 DEF Up
        <3>2. Len(link'[l]) = 0
            BY <3>1, EmptyLen
        <3> QED
            BY <3>1, <3>2 DEF BufferOf
    <2> QED
        BY <2>2, <2>3
<1>13. ASSUME NEW p \in Parties, Finish(p) PROVE BufferOf(l)'
    <2>1. /\ Up(p) /\ pc[p] = "recv" /\ \A k \in In(p) : rd[k] = 0
          /\ rnd' = [rnd EXCEPT ![p] = @ + 1] /\ pc' = [pc EXCEPT ![p] = "take"]
          /\ status' = [status EXCEPT ![p] = "done"] \/ status' = status
          /\ rd' = [k \in Links |-> IF k \in In(p) THEN AtPrefix ELSE rd[k]]
          /\ UNCHANGED <<wr, link>>
        BY <1>13 DEF Finish, Returned, Complete
    <2>2. /\ Up(l[1])' => Up(l[1])
          /\ Up(l[2])' => Up(l[2])
        BY <1>1, <1>3, <2>1 DEF Up
    <2>3. CASE l[1] = p
        <3>1. /\ rd'[l] = rd[l] /\ rnd'[l[2]] = rnd[l[2]] /\ rnd'[p] = rnd[p] + 1
              /\ pc'[p] = "take"
            BY <1>1, <1>3, <2>1, <2>3, LinkEnds
        <3>2. ReadNext(l)' = ReadNext(l)
            BY <3>1 DEF ReadNext, Left, CmdLen
        <3>3. wr[l] = 0
            BY <1>1, <2>1, <2>3 DEF WriterOf
        <3>4. WriteNext(l) = <<rnd[p] + 1, 0>>
            BY <2>1, <2>3, <3>3 DEF WriteNext, Left
        <3>5. WriteNext(l)' = <<rnd[p] + 1, 0>>
            BY <2>3, <3>1 DEF WriteNext
        <3> QED
            BY <2>1, <2>2, <3>1, <3>2, <3>4, <3>5, BufferStays
    <2>4. CASE l[2] = p
        <3>1. /\ rd[l] = 0 /\ rd'[l] = AtPrefix /\ rnd'[l[2]] = rnd[l[2]] + 1
              /\ rnd'[l[1]] = rnd[l[1]] /\ pc'[l[1]] = pc[l[1]]
            BY <1>1, <1>3, <2>1, <2>4, LinkEnds
        <3>2. ReadNext(l) = <<rnd[l[2]] + 1, 0>>
            BY <3>1 DEF ReadNext, Left, AtPrefix
        <3>3. ReadNext(l)' = <<rnd[l[2]] + 1, 0>>
            BY <3>1 DEF ReadNext
        <3>4. WriteNext(l)' = WriteNext(l)
            BY <2>1, <3>1 DEF WriteNext, Left, CmdLen
        <3>5. rd'[l] # None
            BY <3>1 DEF AtPrefix, None
        <3> QED
            BY <2>1, <2>2, <3>2, <3>3, <3>4, <3>5, BufferStays
    <2>5. CASE l[1] # p /\ l[2] # p
        <3>1. /\ rd'[l] = rd[l] /\ rnd'[l[2]] = rnd[l[2]] /\ rnd'[l[1]] = rnd[l[1]]
              /\ pc'[l[1]] = pc[l[1]]
              /\ status'[l[1]] = status[l[1]] /\ status'[l[2]] = status[l[2]]
            BY <1>1, <1>3, <2>1, <2>5, LinkEnds
        <3> QED
            BY <1>4, <2>1, <3>1
    <2> QED
        BY <2>3, <2>4, <2>5
<1>14. ASSUME NEW p \in Parties, Panic(p) \/ Crash(p) PROVE BufferOf(l)'
    <2>1. PICK how \in {"aborted", "crashed"} : status' = [status EXCEPT ![p] = how]
        BY <1>1, <1>14, LeavingShape
    <2>2. /\ UNCHANGED <<rnd, pc, wr, rd, buf>>
          /\ l[2] = p => link'[l] = << >>
          /\ l[1] # p /\ l[2] # p => link'[l] = link[l]
          /\ Len(link'[l]) <= Len(link[l])
          /\ \A i \in 1..Len(link'[l]) : link'[l][i] = link[l][i]
        BY <1>1, <1>14, LeavingShape
    <2>3. CASE l[1] = p \/ l[2] = p
        <3>1. ~Up(l[1])' \/ ~Up(l[2])'
            BY <1>3, <2>1, <2>3 DEF Up
        <3>2. Up(l[1])' => Up(l[1])
            BY <1>1, <1>3, <2>1 DEF Up
        <3>3. ReadNext(l)' = ReadNext(l)
            BY <2>2 DEF ReadNext, Left, CmdLen
        <3> QED
            BY <2>2, <3>1, <3>2, <3>3, BufferCut
    <2>4. CASE l[1] # p /\ l[2] # p
        BY <1>1, <1>3, <1>4, <2>1, <2>2, <2>4
    <2> QED
        BY <2>3, <2>4
<1> QED
    BY <1>5, <1>6, <1>8, <1>9, <1>10, <1>11, <1>12, <1>13, <1>14, NextCases

----------------------------------------------------------------------------
(* The theorems.                                                           *)

LEMMA InitFrames == Init => FramesInv
<1> SUFFICES ASSUME Init PROVE FramesInv
    OBVIOUS
<1>1. 1 \in 1..LastRound + 1 /\ 1 \in Rounds /\ CmdLen(1) \in Nat
    BY LastRoundType, CmdLenType DEF Rounds
<1>2. FrameTypes
    BY <1>1 DEF Init, FrameTypes
<1>3. ASSUME NEW l \in Links PROVE WriterOf(l) /\ ReaderOf(l) /\ BufferOf(l)
    <2>1. l[1] \in Parties /\ l[2] \in Parties
        BY LinkEnds
    <2>2. /\ rnd[l[1]] = 1 /\ rnd[l[2]] = 1 /\ pc[l[1]] = "take" /\ rd[l] = AtPrefix
          /\ buf[l] = << >> /\ link[l] = << >>
        BY <2>1 DEF Init
    <2>3. AtPrefix \notin Nat /\ AtPrefix # None
        BY DEF AtPrefix, None
    <2>4. WriterOf(l)
        BY <1>1, <2>2 DEF WriterOf
    <2>5. ReaderOf(l)
        BY <1>1, <2>2, <2>3, EmptyLen DEF ReaderOf
    <2>6. WriteNext(l) = ReadNext(l)
        BY <2>2 DEF WriteNext, ReadNext
    <2>7. BufferOf(l)
        BY <2>2, <2>3, <2>6, EmptyLen DEF BufferOf
    <2> QED
        BY <2>4, <2>5, <2>7
<1> QED
    BY <1>2, <1>3 DEF FramesInv

\* For every number of servers, every command lengths and buffers of every
\* size: between broadcast and receive_all of any two servers the stream holds
\* exactly the units from the reader's place to the writer's, whatever dies and
\* wherever its streams are cut.
THEOREM FramesInvariance == Spec => []FramesInv
<1>1. FramesInv /\ [Next]_vars => FramesInv'
    <2> SUFFICES ASSUME FramesInv, [Next]_vars PROVE FramesInv'
        OBVIOUS
    <2>1. FrameTypes'
        BY StepTypes
    <2>2. \A l \in Links : WriterOf(l)' /\ ReaderOf(l)' /\ BufferOf(l)'
        BY <2>1, StepWriter, StepReader, StepBuffer
    <2> QED
        BY <2>1, <2>2 DEF FramesInv
<1> QED
    BY <1>1, InitFrames, PTL DEF Spec

\* A receive of TcpConnection never takes payload for a length and files
\* nothing but the whole command of its own round.
THEOREM FramesStayIntact == Spec => []FramesIntact
<1>1. FramesInv => FramesIntact
    <2> SUFFICES ASSUME FramesInv, NEW l \in Links
                 PROVE  /\ Len(buf[l]) <= CmdLen(rnd[l[2]])
                        /\ buf[l] = SubSeq(Payload(rnd[l[2]]), 1, Len(buf[l]))
                        /\ rd[l] = 0 => buf[l] = Payload(rnd[l[2]])
                        /\ rd[l] = AtPrefix /\ link[l] # << >> => Head(link[l]).pos = 0
        BY DEF FramesIntact
    <2>1. FrameTypes /\ ReaderOf(l)
        BY DEF FramesInv
    <2> DEFINE r == rnd[l[2]]
               n == CmdLen(r)
               b == buf[l]
               unit(i) == [val |-> PayloadVal, rnd |-> r, pos |-> i]
    <2>2. r \in Nat \ {0} /\ n \in Nat \ {0} /\ b \in Seq(Unit) /\ Len(b) \in Nat
        BY <2>1, FrameFacts
    <2>3. Len(b) <= n /\ \A i \in 1..Len(b) : b[i] = unit(i)
        BY <2>1 DEF ReaderOf
    <2>4. rd[l] = 0 => Len(b) = n
        BY <2>1, <2>2 DEF ReaderOf
    <2> HIDE DEF r, n, b
    <2>5. b = [i \in 1..Len(b) |-> unit(i)]
        <3>1. b = [i \in 1..Len(b) |-> b[i]]
            BY <2>2
        <3> QED
            BY <2>3, <3>1
    <2>6. Payload(r) = [i \in 1..n |-> unit(i)]
        BY DEF Payload, n
    <2>7. SubSeq(Payload(r), 1, Len(b)) = [i \in 1..Len(b) |-> unit(i)]
        <3>1. SubSeq(Payload(r), 1, Len(b)) =
                  [i \in 1..(1 + Len(b) - 1) |-> Payload(r)[i + 1 - 1]]
            OBVIOUS
        <3>2. /\ 1 + Len(b) - 1 = Len(b)
              /\ \A i \in 1..Len(b) : i + 1 - 1 = i /\ i \in 1..n
            BY <2>2, <2>3
        <3> QED
            BY <2>6, <3>1, <3>2
    <2>8. rd[l] = AtPrefix /\ link[l] # << >> => Head(link[l]).pos = 0
        BY HeadOfLink
    <2> QED
        BY <2>3, <2>4, <2>5, <2>6, <2>7, <2>8 DEF r, n, b
<1> QED
    BY <1>1, FramesInvariance, PTL
----------------------------------------------------------------------------
(* The counters.                                                           *)

\* The frames of the first rounds of a query, one more at a time.
LEMMA FirstFramesSum ==
    /\ FirstFrames(0) = 0
    /\ \A k \in 0..Len(QueryFrames) :
          FirstFrames(k) \in Nat /\ FirstFrames(k) <= FirstFrames(Len(QueryFrames))
    /\ \A k \in 0..Len(QueryFrames) - 1 :
          FirstFrames(k + 1) = FirstFrames(k) + QueryFrames[k + 1] + 1
<1> DEFINE F == Len(QueryFrames)
           f == [i \in 1..F |-> QueryFrames[i] + 1]
<1>1. F \in Nat \ {0} /\ \A i \in 1..F : f[i] \in Nat /\ f[i] = QueryFrames[i] + 1
    BY StreamsAssumption
<1>2. \A k : FirstFrames(k) = SumOn(f, 1..k)
    BY DEF FirstFrames, SumOn
<1>3. \A k \in 0..F : IsFiniteSet(1..k) /\ 1..k \in SUBSET (1..F)
    BY <1>1, FS_Interval
<1> HIDE DEF f, F
<1>4. FirstFrames(0) = 0
    <2>1. 1..0 = {}
        OBVIOUS
    <2> QED
        BY <1>2, <2>1, SumEmpty
<1>5. ASSUME NEW k \in 0..F
      PROVE  FirstFrames(k) \in Nat /\ FirstFrames(k) <= FirstFrames(F)
    <2>1. IsFiniteSet(1..k) /\ IsFiniteSet(1..F) /\ 1..k \in SUBSET (1..F)
        BY <1>1, <1>3, FS_Interval
    <2>2. SumOn(f, 1..k) \in Nat
        BY <1>1, <2>1, SumNat
    <2>3. SumOn(f, 1..k) <= SumOn(f, 1..F)
        BY <1>1, <2>1, SumMono
    <2> QED
        BY <1>2, <2>2, <2>3
<1>6. ASSUME NEW k \in 0..F - 1
      PROVE  FirstFrames(k + 1) = FirstFrames(k) + QueryFrames[k + 1] + 1
    <2>1. /\ k + 1 \in 0..F /\ k \in 0..F /\ k + 1 \in 1..k + 1 /\ k + 1 \in 1..F
          /\ (1..k + 1) \ {k + 1} = 1..k
        BY <1>1
    <2>2. IsFiniteSet(1..k + 1) /\ \A x \in 1..k + 1 : f[x] \in Int
        BY <1>1, <1>3, <2>1
    <2>3. SumOn(f, 1..k + 1) = f[k + 1] + SumOn(f, (1..k + 1) \ {k + 1})
        BY <2>1, <2>2, SumRemove
    <2>4. f[k + 1] \in Nat /\ f[k + 1] = QueryFrames[k + 1] + 1 /\ QueryFrames[k + 1] \in Nat
        BY <1>1, <2>1, StreamsAssumption DEF F
    <2>5. SumOn(f, 1..k) \in Nat
        BY <1>2, <1>5, <2>1
    <2>6. FirstFrames(k + 1) = SumOn(f, 1..k + 1) /\ FirstFrames(k) = SumOn(f, 1..k)
        BY <1>2
    <2>7. FirstFrames(k + 1) = f[k + 1] + FirstFrames(k)
        BY <2>1, <2>3, <2>6
    <2> QED
        BY <2>4, <2>5, <2>6, <2>7
<1> QED
    BY <1>4, <1>5, <1>6 DEF F

\* How far a round is in its query, and where the next one is.
LEMMA PlaceInQuery ==
    ASSUME NEW r \in Nat \ {0}
    PROVE  LET F == Len(QueryFrames)
               k == (r - 1) % F
           IN  /\ k \in 0..F - 1
               /\ EndsQuery(r) => k = F - 1 /\ r % F = 0
               /\ ~EndsQuery(r) => r % F = k + 1 /\ k + 1 \in 0..F - 1
<1> DEFINE F == Len(QueryFrames)
           k == (r - 1) % F
           d == (r - 1) \div F
           a == r - 1
<1>0. F \in Nat /\ F > 0
    BY StreamsAssumption
<1>1. a \in Int /\ r = a + 1
    OBVIOUS
<1>2. k \in 0..F - 1 /\ d \in Int /\ a = F * d + k
    BY <1>0, <1>1, ModDef
<1> HIDE DEF k, d, a, F
<1>3. CASE k = F - 1
    <2>1. r = F * (d + 1) + 0 /\ d + 1 \in Int /\ 0 \in 0..F - 1
        <3>1. F * (d + 1) = F * d + F
            BY <1>0, <1>2
        <3>2. F * d \in Int
            BY <1>0, <1>2
        <3> QED
            BY <1>0, <1>1, <1>2, <1>3, <3>1, <3>2
    <2> DEFINE e == d + 1
               z == 0
    <2>2. r % F = z
        <3>1. e \in Int /\ z \in 0..F - 1 /\ r = F * e + z
            BY <2>1
        <3> HIDE DEF e, z
        <3> QED
            BY <1>0, <3>1, ModUnique
    <2>3. EndsQuery(r)
        BY <2>2 DEF EndsQuery, F
    <2> QED
        BY <1>2, <1>3, <2>2, <2>3 DEF k, F
<1>4. CASE k # F - 1
    <2>1. r = F * d + (k + 1) /\ k + 1 \in 0..F - 1
        <3>1. F * d \in Int
            BY <1>0, <1>2
        <3> QED
            BY <1>0, <1>1, <1>2, <1>4, <3>1
    <2>2. r % F = k + 1
        BY <1>0, <1>2, <2>1, ModUnique
    <2>3. ~EndsQuery(r)
        BY <1>2, <2>2 DEF EndsQuery, F
    <2> QED
        BY <1>2, <2>1, <2>2, <2>3 DEF k, F
<1> QED
    BY <1>3, <1>4

\* A frame is counted, a round ends, a query ends.
LEMMA CountedSteps ==
    ASSUME NEW r \in Nat \ {0}
    PROVE  /\ CountedBefore(r) \in Nat /\ CountedWith(r) \in Nat
           /\ CountedWith(r) <= FirstFrames(Len(QueryFrames))
           /\ CountedWith(r) = CountedBefore(r) + CmdLen(r) + 1
           /\ EndsQuery(r) =>
                 /\ CountedWith(r) = FirstFrames(Len(QueryFrames))
                 /\ CountedBefore(r + 1) = 0
           /\ ~EndsQuery(r) => CountedBefore(r + 1) = CountedWith(r)
<1> DEFINE F == Len(QueryFrames)
           k == (r - 1) % F
<1>1. /\ k \in 0..F - 1
      /\ EndsQuery(r) => k = F - 1 /\ r % F = 0
      /\ ~EndsQuery(r) => r % F = k + 1 /\ k + 1 \in 0..F - 1
    BY PlaceInQuery
<1>2. F \in Nat \ {0} /\ CmdLen(r) = QueryFrames[k + 1] /\ CmdLen(r) \in Nat \ {0}
    BY StreamsAssumption, CmdLenType DEF CmdLen
<1>3. CountedBefore(r) = FirstFrames(k)
    BY DEF CountedBefore
<1>4. CountedBefore(r + 1) = FirstFrames(r % F)
    <2>1. (r + 1) - 1 = r
        OBVIOUS
    <2> QED
        BY <2>1 DEF CountedBefore
<1> HIDE DEF k, F
<1>5. /\ FirstFrames(k) \in Nat
      /\ FirstFrames(k + 1) \in Nat /\ FirstFrames(k + 1) <= FirstFrames(F)
      /\ FirstFrames(k + 1) = FirstFrames(k) + QueryFrames[k + 1] + 1
      /\ FirstFrames(0) = 0
    <2>1. k \in 0..F /\ k + 1 \in 0..F
        BY <1>1, <1>2
    <2> QED
        BY <1>1, <2>1, FirstFramesSum DEF F
<1>6. CountedWith(r) = FirstFrames(k + 1)
    BY <1>2, <1>3, <1>5 DEF CountedWith
<1>7. EndsQuery(r) => CountedWith(r) = FirstFrames(F) /\ CountedBefore(r + 1) = 0
    <2> SUFFICES ASSUME EndsQuery(r)
                 PROVE  CountedWith(r) = FirstFrames(F) /\ CountedBefore(r + 1) = 0
        OBVIOUS
    <2>1. k + 1 = F /\ r % F = 0
        BY <1>1, <1>2
    <2> QED
        BY <1>4, <1>5, <1>6, <2>1
<1>8. ~EndsQuery(r) => CountedBefore(r + 1) = CountedWith(r)
    <2> SUFFICES ASSUME ~EndsQuery(r) PROVE CountedBefore(r + 1) = CountedWith(r)
        OBVIOUS
    <2>1. r % F = k + 1
        BY <1>1
    <2> QED
        BY <1>4, <1>6, <2>1
<1>9. CountedWith(r) = CountedBefore(r) + CmdLen(r) + 1
    BY DEF CountedWith
<1> QED
    BY <1>3, <1>5, <1>6, <1>7, <1>8, <1>9 DEF F

\* A query ends in the last round of the first one or not before that of the
\* second.
LEMMA QueryEnds ==
    ASSUME NEW r \in Nat \ {0}
    PROVE  LET F == Len(QueryFrames)
           IN  /\ EndsQuery(r) => r = F \/ r >= 2 * F
               /\ ~EndsQuery(r) => r # F /\ r # 2 * F
<1> DEFINE F == Len(QueryFrames)
           d == r \div F
<1>1. F \in Nat /\ F > 0 /\ r \in Int /\ r > 0
    BY StreamsAssumption
<1>2. d \in Int /\ r = F * d + (r % F)
    BY <1>1, ModDef
<1> HIDE DEF d, F
<1>3. ASSUME EndsQuery(r) PROVE r = F \/ r >= 2 * F
    <2>1. r = F * d
        <3>1. r % F = 0
            BY <1>3 DEF EndsQuery, F
        <3>2. F * d \in Int
            BY <1>1, <1>2
        <3> QED
            BY <1>2, <3>1, <3>2
    <2>2. \A k \in Int : k <= 0 => F * k <= 0
        BY <1>1
    <2>3. d > 0
        BY <1>1, <1>2, <2>1, <2>2
    <2>4. CASE d = 1
        BY <1>1, <2>1, <2>4
    <2>5. CASE d # 1
        <3>1. d - 2 \in Nat /\ d = (d - 2) + 2
            BY <1>2, <2>3, <2>5
        <3>2. \A k \in Nat : F * k \in Nat /\ F * (k + 2) = F * k + 2 * F
            BY <1>1
        <3>3. F * d = F * (d - 2) + 2 * F /\ F * (d - 2) \in Nat
            BY <3>1, <3>2
        <3> QED
            BY <1>1, <2>1, <3>3
    <2> QED
        BY <2>4, <2>5
<1>4. ASSUME ~EndsQuery(r) PROVE r # F /\ r # 2 * F
    <2>1. F % F = 0
        BY <1>1
    <2>2. (2 * F) % F = 0
        <3> DEFINE a == 2 * F
                   z == 0
                   k == 2
        <3>1. a \in Int /\ z \in 0..F - 1 /\ k \in Int /\ a = F * k + z
            BY <1>1
        <3> HIDE DEF a, z, k
        <3>2. a % F = z
            BY <1>1, <3>1, ModUnique
        <3> QED
            BY <3>2 DEF a, z
    <2>3. r % F # 0
        BY <1>4 DEF EndsQuery, F
    <2> QED
        BY <2>1, <2>2, <2>3
<1> QED
    BY <1>3, <1>4 DEF F

\* A server has one connection to each of its peers.
LEMMA OutTo ==
    ASSUME NEW p \in Parties, NEW T \in SUBSET Peers(p)
    PROVE  /\ IsFiniteSet(T) /\ IsFiniteSet({l \in Out(p) : l[2] \in T})
           /\ Cardinality({l \in Out(p) : l[2] \in T}) = Cardinality(T)
<1> DEFINE L == {l \in Out(p) : l[2] \in T}
           g == [q \in T |-> <<p, q>>]
<1>1. IsFiniteSet(T)
    BY StreamsAssumption, FS_Subset DEF Peers
<1>2. g \in Bijection(T, L)
    <2>1. g \in [T -> L]
        BY PeerLinks DEF Out
    <2>2. \A a, b \in T : g[a] = g[b] => a = b
        OBVIOUS
    <2>3. \A l \in L : \E q \in T : g[q] = l
        <3> SUFFICES ASSUME NEW l \in L PROVE \E q \in T : g[q] = l
            OBVIOUS
        <3>1. l \in Links /\ l[1] = p /\ l[2] \in T
            BY DEF Out
        <3>2. l = <<p, l[2]>>
            BY <3>1, LinkEnds
        <3> QED
            BY <3>1, <3>2
    <2> HIDE DEF g, L
    <2> QED
        BY <2>1, <2>2, <2>3 DEF Bijection, Injection, Surjection, IsInjective
<1>3. ExistsBijection(T, L)
    BY <1>2 DEF ExistsBijection
<1> HIDE DEF L
<1>4. IsFiniteSet(L) /\ Cardinality(L) = Cardinality(T)
    BY <1>1, <1>3, FS_Bijection
<1> QED
    BY <1>1, <1>4 DEF L

LEMMA OutCount ==
    ASSUME NEW p \in Parties
    PROVE  /\ IsFiniteSet(Out(p)) /\ Cardinality(Out(p)) = Cardinality(Parties) - 1
           /\ IsFiniteSet(Peers(p)) /\ Cardinality(Peers(p)) = Cardinality(Parties) - 1
           /\ Cardinality(Parties) - 1 \in Nat \ {0}
<1>1. IsFiniteSet(Parties) /\ p \in Parties
    BY StreamsAssumption
<1>2. IsFiniteSet(Peers(p)) /\ Cardinality(Peers(p)) = Cardinality(Parties) - 1
    BY <1>1, FS_RemoveElement DEF Peers
<1>3. {l \in Out(p) : l[2] \in Peers(p)} = Out(p)
    BY LinkEnds DEF Out, Peers
<1>4. Peers(p) # {}
    BY StreamsAssumption DEF Peers
<1>5. Cardinality(Peers(p)) \in Nat /\ Cardinality(Peers(p)) # 0
    BY <1>2, <1>4, FS_CardinalityType, FS_EmptySet
<1>6. IsFiniteSet(Out(p)) /\ Cardinality(Out(p)) = Cardinality(Peers(p))
    <2>1. Peers(p) \in SUBSET Peers(p)
        OBVIOUS
    <2> QED
        BY <1>3, <2>1, OutTo
<1> QED
    BY <1>2, <1>5, <1>6

\* What the handshake has left is at most the handshake.
LEMMA GreetedType ==
    ASSUME NEW p \in Parties, NEW q \in Peers(p)
    PROVE  /\ Greeting \in Nat /\ Greeting < Word
           /\ Greeted(p, q) \in [sent : 0..Greeting, received : 0..Greeting]
BY StreamsAssumption DEF Greeted, Handshaken, NoStat

\* The connections of p have counted B each, and those to the peers in T also G.
LEMMA SumOut ==
    ASSUME NEW p \in Parties, NEW T \in SUBSET Peers(p), NEW B \in Nat, NEW G \in Nat,
           NEW f, \A q \in Peers(p) : f[<<p, q>>] = B + (IF q \in T THEN G ELSE 0)
    PROVE  SumOn(f, Out(p)) = B * (Cardinality(Parties) - 1) + G * Cardinality(T)
<1> DEFINE L == {l \in Out(p) : l[2] \in T}
           b == [l \in Out(p) |-> B]
           g == [l \in Out(p) |-> IF l \in L THEN G ELSE 0]
<1>1. IsFiniteSet(Out(p)) /\ Cardinality(Out(p)) = Cardinality(Parties) - 1
    BY OutCount
<1>2. Cardinality(L) = Cardinality(T)
    BY OutTo
<1>3. \A l \in Out(p) : b[l] \in Int /\ g[l] \in Int /\ f[l] = b[l] + g[l]
    <2> SUFFICES ASSUME NEW l \in Out(p)
                 PROVE  b[l] \in Int /\ g[l] \in Int /\ f[l] = b[l] + g[l]
        OBVIOUS
    <2>1. l[2] \in Peers(p) /\ l = <<p, l[2]>>
        BY LinkEnds DEF Out, Peers
    <2>2. f[l] = B + (IF l[2] \in T THEN G ELSE 0)
        BY <2>1
    <2> QED
        BY <2>2
<1>4. SumOn(f, Out(p)) = SumOn(b, Out(p)) + SumOn(g, Out(p))
    <2> HIDE DEF b, g
    <2> QED
        BY <1>1, <1>3, SumPlus
<1>5. SumOn(b, Out(p)) = B * Cardinality(Out(p))
    <2>1. \A l \in Out(p) : b[l] = B
        OBVIOUS
    <2> HIDE DEF b
    <2> QED
        BY <1>1, <2>1, SumConstant
<1>6. SumOn(g, Out(p)) = G * Cardinality(Out(p) \cap L)
    <2>1. \A l \in Out(p) \cap L : g[l] = G
        OBVIOUS
    <2>2. \A l \in Out(p) \ L : g[l] = 0
        OBVIOUS
    <2>3. IsFiniteSet(Out(p)) /\ G \in Int
        BY <1>1
    <2> HIDE DEF g, L
    <2> QED
        BY ONLY <2>1, <2>2, <2>3, SumWhere
<1>7. SumOn(b, Out(p)) = B * (Cardinality(Parties) - 1)
    BY ONLY <1>1, <1>5
<1>8. SumOn(g, Out(p)) = G * Cardinality(T)
    <2>1. Out(p) \cap L = L
        OBVIOUS
    <2> HIDE DEF L, g
    <2> QED
        BY ONLY <1>2, <1>6, <2>1
<1> HIDE DEF L, b, g
<1> QED
    BY ONLY <1>4, <1>7, <1>8

\* No report wraps.
LEMMA ReportFits ==
    ASSUME ReportBytes < Word, NEW p \in Parties, NEW T \in SUBSET Peers(p),
           NEW G \in 0..Greeting
    PROVE  /\ QueryBytes \in Nat /\ QueryBytes + G * Cardinality(T) \in Nat
           /\ (QueryBytes + G * Cardinality(T)) % Word = QueryBytes + G * Cardinality(T)
<1> DEFINE B == FirstFrames(Len(QueryFrames))
           N == Cardinality(Parties) - 1
           n == Cardinality(T)
<1>1. B \in Nat /\ N \in Nat /\ Word \in Nat \ {0} /\ Greeting \in Nat
    BY FirstFramesSum, StreamsAssumption, OutCount
<1>2. n \in Nat /\ n <= N
    BY OutCount, FS_Subset, FS_CardinalityType
<1>3. B * N + Greeting * N < Word /\ QueryBytes = B * N
    BY DEF ReportBytes, QueryBytes
<1> HIDE DEF B, N, n
<1>4. B * N \in Nat /\ G * n \in Nat
    <2>1. \A x, y \in Nat : x * y \in Nat
        OBVIOUS
    <2> QED
        BY <1>1, <1>2, <2>1
<1>5. G * n <= Greeting * N
    <2>1. \A x, y, z \in Nat : x <= y => x * z <= y * z /\ z * x <= z * y
        <3> SUFFICES ASSUME NEW x \in Nat, NEW y \in Nat, NEW z \in Nat, x <= y
                     PROVE  x * z <= y * z /\ z * x <= z * y
            OBVIOUS
        <3>1. PICK d \in Nat : y = x + d
            <4>1. y - x \in Nat /\ y = x + (y - x)
                OBVIOUS
            <4> QED
                BY <4>1
        <3>2. (x + d) * z = x * z + d * z /\ z * (x + d) = z * x + z * d
            OBVIOUS
        <3>3. d * z \in Nat /\ z * d \in Nat /\ x * z \in Nat /\ z * x \in Nat
            OBVIOUS
        <3> QED
            BY <3>1, <3>2, <3>3
    <2>2. G * n <= Greeting * n /\ Greeting * n <= Greeting * N
        BY <1>1, <1>2, <2>1
    <2>3. Greeting * n \in Nat /\ Greeting * N \in Nat
        BY <1>1, <1>2
    <2> QED
        BY <1>4, <2>2, <2>3
<1> DEFINE x == B * N + G * n
<1>6. x \in Nat /\ x < Word
    <2>1. Greeting * N \in Nat
        BY <1>1
    <2> QED
        BY <1>1, <1>3, <1>4, <1>5, <2>1
<1> HIDE DEF x
<1>7. x % Word = x
    BY <1>1, <1>6
<1> QED
    BY <1>3, <1>4, <1>6, <1>7 DEF x, n

\* What get_then_reset_netstat returns when every connection of p has counted
\* a whole query in both directions, beside what is left of the handshake.
LEMMA SummedReport ==
    ASSUME ReportBytes < Word, NEW p \in Parties, rnd[p] \in Nat,
           \A q \in Peers(p) :
              /\ stat[<<p, q>>].sent = Greeted(p, q).sent + FirstFrames(Len(QueryFrames))
              /\ stat[<<p, q>>].received =
                     Greeted(p, q).received + FirstFrames(Len(QueryFrames))
    PROVE  /\ Summed(p) = IF rnd[p] <= Len(QueryFrames) THEN FirstReport(p) ELSE QueryReport
           /\ Summed(p) \in [sent : Nat, received : Nat]
<1> DEFINE B == FirstFrames(Len(QueryFrames))
           N == Cardinality(Parties) - 1
           Lower == {q \in Parties : q < p}
           Higher == {q \in Parties : q > p}
           G == IF rnd[p] <= Len(QueryFrames) THEN Greeting ELSE 0
           s == [l \in Out(p) |-> stat[l].sent]
           t == [l \in Out(p) |-> stat[l].received]
<1>1. B \in Nat /\ N \in Nat /\ G \in 0..Greeting /\ G \in Nat
    BY FirstFramesSum, StreamsAssumption, OutCount
<1>2. Lower \in SUBSET Peers(p) /\ Higher \in SUBSET Peers(p)
    BY StreamsAssumption DEF Peers
<1>3. ASSUME NEW q \in Peers(p)
      PROVE  /\ s[<<p, q>>] = B + (IF q \in Lower THEN G ELSE 0)
             /\ t[<<p, q>>] = B + (IF q \in Higher THEN G ELSE 0)
    <2>1. <<p, q>> \in Out(p) /\ q \in Parties /\ q # p /\ q \in Nat /\ p \in Nat
        BY PeerLinks, StreamsAssumption DEF Out, Peers
    <2>2. /\ Greeted(p, q).sent = IF q < p THEN G ELSE 0
          /\ Greeted(p, q).received = IF q > p THEN G ELSE 0
        BY <2>1 DEF Greeted, Handshaken, NoStat
    <2>3. s[<<p, q>>] = Greeted(p, q).sent + B /\ t[<<p, q>>] = Greeted(p, q).received + B
        BY <2>1
    <2> HIDE DEF B, G
    <2> QED
        BY <1>1, <2>1, <2>2, <2>3
<1>4. SumFunction(s) = SumOn(s, Out(p)) /\ SumFunction(t) = SumOn(t, Out(p))
    BY DEF SumFunction, SumOn
<1>5. Summed(p) = [sent |-> SumFunction(s) % Word, received |-> SumFunction(t) % Word]
    BY DEF Summed
<1>6. QueryBytes = B * N
    BY DEF QueryBytes
<1> HIDE DEF B, N, s, t, G, Lower, Higher
<1>7. /\ SumOn(s, Out(p)) = QueryBytes + G * Cardinality(Lower)
      /\ SumOn(t, Out(p)) = QueryBytes + G * Cardinality(Higher)
    <2>1. B * N = B * (Cardinality(Parties) - 1)
        BY DEF N
    <2>2. SumOn(s, Out(p)) = B * (Cardinality(Parties) - 1) + G * Cardinality(Lower)
        BY <1>1, <1>2, <1>3, SumOut
    <2>3. SumOn(t, Out(p)) = B * (Cardinality(Parties) - 1) + G * Cardinality(Higher)
        BY <1>1, <1>2, <1>3, SumOut
    <2> QED
        BY ONLY <1>6, <2>1, <2>2, <2>3
<1>8. /\ QueryBytes \in Nat
      /\ QueryBytes + G * Cardinality(Lower) \in Nat
      /\ QueryBytes + G * Cardinality(Higher) \in Nat
      /\ (QueryBytes + G * Cardinality(Lower)) % Word = QueryBytes + G * Cardinality(Lower)
      /\ (QueryBytes + G * Cardinality(Higher)) % Word = QueryBytes + G * Cardinality(Higher)
    BY <1>1, <1>2, ReportFits
<1>9. Summed(p) = [sent |-> QueryBytes + G * Cardinality(Lower),
                   received |-> QueryBytes + G * Cardinality(Higher)]
    BY <1>4, <1>5, <1>7, <1>8
<1>10. CASE rnd[p] <= Len(QueryFrames)
    <2>1. G = Greeting
        BY <1>10 DEF G
    <2> QED
        BY <1>8, <1>9, <1>10, <2>1 DEF FirstReport, Lower, Higher
<1>11. CASE ~(rnd[p] <= Len(QueryFrames))
    <2>1. G = 0
        BY <1>11 DEF G
    <2>2. Cardinality(Lower) \in Nat /\ Cardinality(Higher) \in Nat
        BY <1>2, OutTo, FS_CardinalityType
    <2>3. \A c \in Nat : 0 * c = 0
        OBVIOUS
    <2>4. G * Cardinality(Lower) = 0 /\ G * Cardinality(Higher) = 0
        BY <2>1, <2>2, <2>3
    <2> QED
        BY <1>8, <1>9, <1>11, <2>4 DEF QueryReport
<1> QED
    BY <1>10, <1>11

\* No counter of a connection wraps within a query.
LEMMA NoWrap ==
    ASSUME ReportBytes < Word, NEW r \in Nat \ {0}, NEW g \in 0..Greeting
    PROVE  (g + CountedBefore(r) + CmdLen(r) + 1) % Word = g + CountedWith(r)
<1> DEFINE B == FirstFrames(Len(QueryFrames))
           c == CountedWith(r)
           N == Cardinality(Parties) - 1
           x == g + c
<1>1. c \in Nat /\ c <= B /\ c = CountedBefore(r) + CmdLen(r) + 1
      /\ CountedBefore(r) \in Nat /\ CmdLen(r) \in Nat
    BY CountedSteps, CmdLenType
<1>2. N \in Nat \ {0} /\ B \in Nat /\ Word \in Nat /\ Greeting \in Nat
    BY OutCount, FirstFramesSum, StreamsAssumption
<1>3. B * N + Greeting * N < Word
    BY DEF ReportBytes, QueryBytes
<1>4. x = g + CountedBefore(r) + CmdLen(r) + 1
    BY <1>1
<1> HIDE DEF B, c, N
<1>5. x < Word
    <2>1. \A b \in Nat : b * N \in Nat /\ b * N >= b
        <3> SUFFICES ASSUME NEW b \in Nat PROVE b * N \in Nat /\ b * N >= b
            OBVIOUS
        <3>1. PICK m \in Nat : N = m + 1
            <4>1. N - 1 \in Nat /\ N = (N - 1) + 1
                BY <1>2
            <4> QED
                BY <4>1
        <3>2. b * (m + 1) = b * m + b /\ b * m \in Nat
            OBVIOUS
        <3> QED
            BY <3>1, <3>2
    <2>2. B * N \in Nat /\ B * N >= B /\ Greeting * N \in Nat /\ Greeting * N >= Greeting
        BY <1>2, <2>1
    <2> QED
        BY <1>1, <1>2, <1>3, <2>2
<1>6. x \in Nat
    BY <1>1, <1>2
<1> HIDE DEF x
<1>7. x % Word = x
    BY <1>2, <1>5, <1>6
<1> QED
    BY <1>4, <1>7 DEF x, c

\* What the counters of a connection need to know of the state.
LEMMA CounterFacts ==
    ASSUME FramesInv, CountersInv, NEW p \in Parties, NEW q \in Peers(p)
    PROVE  /\ rnd[p] \in Nat \ {0} /\ CmdLen(rnd[p]) \in Nat \ {0}
           /\ pc[p] \in {"take", "send", "recv"}
           /\ rd[<<q, p>>] \in Nat \cup {AtPrefix, None}
           /\ stat[<<p, q>>] \in [sent : Nat, received : Nat]
           /\ CountersOf(p, q)
           /\ CountedBefore(rnd[p]) \in Nat /\ CountedWith(rnd[p]) \in Nat
<1>1. <<p, q>> \in Links /\ <<q, p>> \in Links
    BY PeerLinks
<1>2. rnd[p] \in Nat \ {0}
    BY LastRoundType DEF FramesInv, FrameTypes
<1>3. pc[p] \in {"take", "send", "recv"} /\ rd[<<q, p>>] \in Nat \cup {AtPrefix, None}
    BY <1>1 DEF FramesInv, FrameTypes
<1>4. stat[<<p, q>>] \in [sent : Nat, received : Nat] /\ CountersOf(p, q)
    BY <1>1 DEF CountersInv
<1> QED
    BY <1>2, <1>3, <1>4, CmdLenType, CountedSteps

\* A step after which a server is in the same place as before, as far as its
\* counters go.
LEMMA CountersStay ==
    ASSUME NEW p \in Parties, NEW q \in Peers(p), CountersOf(p, q),
           stat'[<<p, q>>] = stat[<<p, q>>], rnd'[p] = rnd[p],
           pc'[p] = "take" <=> pc[p] = "take",
           \/ rd'[<<q, p>>] = None
           \/ rd'[<<q, p>>] = rd[<<q, p>>]
           \/ /\ rd[<<q, p>>] # None
              /\ rd'[<<q, p>>] # None
              /\ rd'[<<q, p>>] = AtPrefix <=> rd[<<q, p>>] = AtPrefix
    PROVE  CountersOf(p, q)'
BY DEF CountersOf, Greeted

\* The command is counted when it is serialized.
LEMMA StartSendCounters ==
    ASSUME FramesInv, CountersInv, ReportBytes < Word, NEW s \in Parties, StartSend(s)
    PROVE  CountersInv' /\ UNCHANGED <<rnd, report>>
<1> DEFINE n == CmdLen(rnd[s])
<1>1. /\ pc[s] = "take" /\ pc' = [pc EXCEPT ![s] = "send"]
      /\ stat' = [l \in Links |->
                     IF l \in Out(s) THEN [stat[l] EXCEPT !.sent = (@ + n + 1) % Word]
                     ELSE stat[l]]
      /\ UNCHANGED <<rnd, rd, report>>
    BY DEF StartSend
<1>2. pc \in [Parties -> {"take", "send", "recv"}]
    BY DEF FramesInv, FrameTypes
<1>3. stat \in [Links -> [sent : Nat, received : Nat]] /\ n \in Nat /\ Word \in Nat \ {0}
    <2>1. rnd[s] \in Nat \ {0}
        BY LastRoundType DEF FramesInv, FrameTypes
    <2>2. n \in Nat
        BY <2>1, CmdLenType
    <2> QED
        BY <2>2, StreamsAssumption DEF CountersInv
<1>4. ASSUME NEW p \in Parties, NEW q \in Peers(p) PROVE CountersOf(p, q)'
    <2>1. /\ <<p, q>> \in Links /\ CountersOf(p, q) /\ rnd[p] \in Nat \ {0}
          /\ stat[<<p, q>>] \in [sent : Nat, received : Nat]
          /\ Greeted(p, q).sent \in 0..Greeting
        BY PeerLinks, CounterFacts, GreetedType
    <2>2. CASE p = s
        <3>1. <<p, q>> \in Out(s)
            BY <2>1, <2>2 DEF Out
        <3>2. stat'[<<p, q>>] = [stat[<<p, q>>] EXCEPT !.sent = (@ + n + 1) % Word]
            BY <1>1, <2>1, <3>1
        <3>3. /\ stat'[<<p, q>>].sent = (stat[<<p, q>>].sent + n + 1) % Word
              /\ stat'[<<p, q>>].received = stat[<<p, q>>].received
            BY <2>1, <3>2
        <3>4. stat[<<p, q>>].sent = Greeted(p, q).sent + CountedBefore(rnd[p])
            BY <1>1, <2>1, <2>2 DEF CountersOf
        <3>5. stat'[<<p, q>>].sent = Greeted(p, q).sent + CountedWith(rnd[p])
            BY <2>1, <2>2, <3>3, <3>4, NoWrap
        <3>7. Greeted(p, q)' = Greeted(p, q)
            BY <1>1 DEF Greeted
        <3>6. pc'[p] = "send" /\ rnd'[p] = rnd[p] /\ rd'[<<q, p>>] = rd[<<q, p>>]
            BY <1>1, <1>2, <2>2
        <3> QED
            BY <2>1, <3>3, <3>5, <3>6, <3>7 DEF CountersOf
    <2>3. CASE p # s
        <3>1. <<p, q>> \notin Out(s)
            BY <2>3 DEF Out
        <3>2. stat'[<<p, q>>] = stat[<<p, q>>]
            BY <1>1, <2>1, <3>1
        <3>3. pc'[p] = pc[p] /\ rnd'[p] = rnd[p] /\ rd'[<<q, p>>] = rd[<<q, p>>]
            BY <1>1, <1>2, <2>3
        <3> QED
            BY <2>1, <3>2, <3>3, CountersStay
    <2> QED
        BY <2>2, <2>3
<1>5. stat' \in [Links -> [sent : Nat, received : Nat]]
    <2>1. \A a \in Nat : (a + n + 1) % Word \in Nat
        <3> SUFFICES ASSUME NEW a \in Nat PROVE (a + n + 1) % Word \in Nat
            OBVIOUS
        <3> DEFINE x == a + n + 1
        <3>1. x \in Nat
            BY <1>3
        <3> HIDE DEF x
        <3>2. x % Word \in Nat
            BY <1>3, <3>1
        <3> QED
            BY <3>2 DEF x
    <2> HIDE DEF n
    <2>2. ASSUME NEW l \in Links
          PROVE  [stat[l] EXCEPT !.sent = (@ + n + 1) % Word] \in [sent : Nat, received : Nat]
        <3>1. stat[l] \in [sent : Nat, received : Nat]
            BY <1>3
        <3>2. (stat[l].sent + n + 1) % Word \in Nat
            BY <2>1, <3>1
        <3> QED
            BY <3>1, <3>2
    <2> QED
        BY <1>1, <1>3, <2>2
<1> QED
    BY <1>1, <1>4, <1>5 DEF CountersInv

\* The received frame is counted when its prefix is read.
LEMMA ReadPrefixCounters ==
    ASSUME FramesInv, CountersInv, ReportBytes < Word,
           NEW s \in Parties, NEW t \in Peers(s), ReadPrefix(s, t)
    PROVE  CountersInv' /\ UNCHANGED <<rnd, report>>
<1> DEFINE l == <<t, s>>
           v == Head(link[l]).val
           m == <<s, t>>
<1>0. l \in Links /\ m \in Links /\ l[2] = s
    BY PeerLinks
<1>1. /\ rd[l] = AtPrefix /\ link[l] # << >>
      /\ rd' = [rd EXCEPT ![l] = v]
      /\ stat' = [stat EXCEPT ![m].received = (@ + v + 1) % Word]
      /\ UNCHANGED <<rnd, pc, report>>
    BY DEF ReadPrefix
<1>2. v = CmdLen(rnd[s])
    <2> HIDE DEF l
    <2> QED
        BY <1>0, <1>1, HeadOfLink
<1> HIDE DEF v
<1>3. /\ stat \in [Links -> [sent : Nat, received : Nat]]
      /\ rd \in [Links -> Nat \cup {AtPrefix, None}]
      /\ v \in Nat /\ Word \in Nat \ {0}
    <2>1. rnd[s] \in Nat \ {0}
        BY LastRoundType DEF FramesInv, FrameTypes
    <2>2. v \in Nat
        BY <1>2, <2>1, CmdLenType
    <2> QED
        BY <2>2, StreamsAssumption DEF CountersInv, FramesInv, FrameTypes
<1>4. AtPrefix # None /\ v # None /\ v # AtPrefix
    BY <1>3 DEF AtPrefix, None
<1>5. /\ stat'[m].sent = stat[m].sent
      /\ stat'[m].received = (stat[m].received + v + 1) % Word
      /\ \A k \in Links : k # m => stat'[k] = stat[k]
      /\ rd'[l] = v /\ \A k \in Links : k # l => rd'[k] = rd[k]
    <2> HIDE DEF l, m
    <2> QED
        BY <1>0, <1>1, <1>3
<1>6. ASSUME NEW p \in Parties, NEW q \in Peers(p) PROVE CountersOf(p, q)'
    <2>1. /\ <<p, q>> \in Links /\ <<q, p>> \in Links
          /\ CountersOf(p, q) /\ rnd[p] \in Nat \ {0}
          /\ Greeted(p, q).received \in 0..Greeting
        BY PeerLinks, CounterFacts, GreetedType
    <2>2. CASE p = s /\ q = t
        <3>1. stat[m].received = Greeted(p, q).received + CountedBefore(rnd[s])
            BY <1>1, <1>4, <2>1, <2>2 DEF CountersOf
        <3>2. stat'[m].received = Greeted(p, q).received + CountedWith(rnd[s])
            BY <1>2, <1>5, <2>1, <2>2, <3>1, NoWrap
        <3>3. Greeted(p, q)' = Greeted(p, q)
            BY <1>1 DEF Greeted
        <3> QED
            BY <1>1, <1>4, <1>5, <2>1, <2>2, <3>2, <3>3 DEF CountersOf
    <2>3. CASE ~(p = s /\ q = t)
        <3>1. <<p, q>> # m /\ <<q, p>> # l
            BY <2>3
        <3>2. stat'[<<p, q>>] = stat[<<p, q>>] /\ rd'[<<q, p>>] = rd[<<q, p>>]
            BY <1>5, <2>1, <3>1
        <3>3. pc' = pc /\ rnd' = rnd
            BY <1>1
        <3> QED
            BY <2>1, <3>2, <3>3, CountersStay
    <2> QED
        BY <2>2, <2>3
<1>7. stat' \in [Links -> [sent : Nat, received : Nat]]
    <2>1. stat[m] \in [sent : Nat, received : Nat]
        BY <1>0, <1>3
    <2> DEFINE x == stat[m].received + v + 1
    <2>2. x \in Nat
        BY <1>3, <2>1
    <2> HIDE DEF x
    <2>3. x % Word \in Nat
        BY <1>3, <2>2
    <2>4. [stat[m] EXCEPT !.received = x % Word] \in [sent : Nat, received : Nat]
        BY <2>1, <2>3
    <2>5. stat' = [stat EXCEPT ![m] = [stat[m] EXCEPT !.received = x % Word]]
        BY <1>1, <1>3, <1>0 DEF x
    <2> HIDE DEF m
    <2> QED
        BY <1>0, <1>3, <2>4, <2>5
<1> QED
    BY <1>1, <1>6, <1>7 DEF CountersInv

\* When receive_all has all commands, both counters of every connection hold
\* the round; after the last one of a query they are summed and reset.
LEMMA FinishCounters ==
    ASSUME FramesInv, CountersInv, ReportExact, ReportBytes < Word,
           NEW s \in Parties, Finish(s)
    PROVE  CountersInv' /\ ReportExact'
<1> DEFINE F == Len(QueryFrames)
           r == rnd[s]
<1>1. /\ pc[s] = "recv" /\ \A l \in In(s) : rd[l] = 0
      /\ rnd' = [rnd EXCEPT ![s] = @ + 1] /\ pc' = [pc EXCEPT ![s] = "take"]
      /\ rd' = [l \in Links |-> IF l \in In(s) THEN AtPrefix ELSE rd[l]]
    BY DEF Finish, Returned, Complete
<1>2. /\ rnd \in [Parties -> Nat \ {0}] /\ pc \in [Parties -> {"take", "send", "recv"}]
      /\ r \in Nat \ {0} /\ F \in Nat \ {0}
    BY LastRoundType, StreamsAssumption DEF FramesInv, FrameTypes
<1>3. /\ stat \in [Links -> [sent : Nat, received : Nat]]
      /\ report \in [Parties -> [sent : Nat, received : Nat]]
    BY DEF CountersInv
<1>4. EndsQuery(r) => report' = [report EXCEPT ![s] = Summed(s)] /\ stat' = ResetStat(s)
    BY DEF Finish
<1>5. ~EndsQuery(r) => UNCHANGED <<report, stat>>
    BY DEF Finish
<1>6. rnd'[s] = r + 1 /\ \A p \in Parties : p # s => rnd'[p] = rnd[p] /\ pc'[p] = pc[p]
    BY <1>1, <1>2
<1>7. ASSUME NEW q \in Peers(s)
      PROVE  /\ stat[<<s, q>>].sent = Greeted(s, q).sent + CountedWith(r)
             /\ stat[<<s, q>>].received = Greeted(s, q).received + CountedWith(r)
    <2>1. <<q, s>> \in In(s) /\ CountersOf(s, q)
        BY PeerLinks, CounterFacts DEF In
    <2>2. rd[<<q, s>>] = 0 /\ 0 # None /\ 0 # AtPrefix
        BY <1>1, <2>1 DEF None, AtPrefix
    <2> QED
        BY <1>1, <2>1, <2>2 DEF CountersOf
<1>8. ASSUME NEW p \in Parties, NEW q \in Peers(p) PROVE CountersOf(p, q)'
    <2>1. <<p, q>> \in Links /\ <<q, p>> \in Links /\ CountersOf(p, q)
        BY PeerLinks, CounterFacts
    <2>2. CASE p = s
        <3>1. pc'[p] = "take" /\ rnd'[p] = r + 1 /\ rd'[<<q, p>>] = AtPrefix
            BY <1>1, <1>2, <1>6, <2>1, <2>2 DEF In
        <3>2. /\ stat'[<<p, q>>].sent = Greeted(p, q)'.sent + CountedBefore(r + 1)
              /\ stat'[<<p, q>>].received = Greeted(p, q)'.received + CountedBefore(r + 1)
            <4>1. CASE EndsQuery(r)
                <5>1. <<p, q>> \in Out(s)
                    BY <2>1, <2>2 DEF Out
                <5>2. stat'[<<p, q>>] = NoStat
                    BY <1>4, <2>1, <4>1, <5>1 DEF ResetStat
                <5>3. CountedBefore(r + 1) = 0
                    BY <1>2, <4>1, CountedSteps
                <5>4. r + 1 > F
                    BY <1>2, <4>1, QueryEnds
                <5>5. Greeted(p, q)' = NoStat
                    BY <1>2, <3>1, <5>4 DEF Greeted
                <5> QED
                    BY <5>2, <5>3, <5>5 DEF NoStat
            <4>2. CASE ~EndsQuery(r)
                <5>1. stat' = stat
                    BY <1>5, <4>2
                <5>2. CountedBefore(r + 1) = CountedWith(r)
                    BY <1>2, <4>2, CountedSteps
                <5>3. r + 1 <= F <=> r <= F
                    BY <1>2, <4>2, QueryEnds
                <5>4. Greeted(p, q)' = Greeted(p, q)
                    BY <1>2, <2>2, <3>1, <5>3 DEF Greeted
                <5> QED
                    BY <1>7, <2>2, <5>1, <5>2, <5>4
            <4> QED
                BY <4>1, <4>2
        <3> QED
            BY <3>1, <3>2 DEF CountersOf
    <2>3. CASE p # s
        <3>1. <<p, q>> \notin Out(s) /\ <<q, p>> \notin In(s)
            BY <2>3 DEF Out, In
        <3>2. stat'[<<p, q>>] = stat[<<p, q>>]
            BY <1>4, <1>5, <2>1, <3>1 DEF ResetStat
        <3>3. rd'[<<q, p>>] = rd[<<q, p>>] /\ rnd'[p] = rnd[p] /\ pc'[p] = pc[p]
            BY <1>1, <1>6, <2>1, <2>3, <3>1
        <3> QED
            BY <2>1, <3>2, <3>3, CountersStay
    <2> QED
        BY <2>2, <2>3
<1>9. EndsQuery(r) =>
          /\ Summed(s) = IF r <= F THEN FirstReport(s) ELSE QueryReport
          /\ Summed(s) \in [sent : Nat, received : Nat]
    <2> SUFFICES ASSUME EndsQuery(r)
                 PROVE  /\ Summed(s) = IF r <= F THEN FirstReport(s) ELSE QueryReport
                        /\ Summed(s) \in [sent : Nat, received : Nat]
        OBVIOUS
    <2>1. CountedWith(r) = FirstFrames(F)
        BY <1>2, CountedSteps
    <2> QED
        BY <1>2, <1>7, <2>1, SummedReport
<1>11. /\ stat' \in [Links -> [sent : Nat, received : Nat]]
       /\ report' \in [Parties -> [sent : Nat, received : Nat]]
    <2>1. CASE EndsQuery(r)
        <3>1. NoStat \in [sent : Nat, received : Nat]
            BY DEF NoStat
        <3>2. stat' \in [Links -> [sent : Nat, received : Nat]]
            BY <1>3, <1>4, <2>1, <3>1 DEF ResetStat
        <3>3. Summed(s) \in [sent : Nat, received : Nat]
            BY <1>9, <2>1
        <3> QED
            BY <1>3, <1>4, <2>1, <3>2, <3>3
    <2>2. CASE ~EndsQuery(r)
        BY <1>3, <1>5, <2>2
    <2> QED
        BY <2>1, <2>2
<1>12. ASSUME NEW p \in Parties, rnd'[p] > F
       PROVE  report'[p] = IF rnd'[p] <= 2 * F THEN FirstReport(p) ELSE QueryReport
    <2>1. CASE p # s
        <3>1. rnd[p] > F /\ rnd'[p] = rnd[p]
            BY <1>6, <1>12, <2>1
        <3>2. report'[p] = report[p]
            BY <1>3, <1>4, <1>5, <2>1
        <3> QED
            BY <3>1, <3>2 DEF ReportExact
    <2>2. CASE p = s /\ EndsQuery(r)
        <3>1. report'[p] = IF r <= F THEN FirstReport(p) ELSE QueryReport
            BY <1>3, <1>4, <1>9, <2>2
        <3>2. r = F \/ r >= 2 * F
            BY <1>2, <2>2, QueryEnds
        <3>3. r <= F <=> r + 1 <= 2 * F
            BY <1>2, <3>2
        <3> QED
            BY <1>6, <2>2, <3>1, <3>3
    <2>3. CASE p = s /\ ~EndsQuery(r)
        <3>1. r # F /\ r # 2 * F
            BY <1>2, <2>3, QueryEnds
        <3>2. r > F /\ (r <= 2 * F <=> r + 1 <= 2 * F)
            BY <1>2, <1>6, <1>12, <2>3, <3>1
        <3>3. report' = report
            BY <1>5, <2>3
        <3>4. report[s] = IF r <= 2 * F THEN FirstReport(s) ELSE QueryReport
            BY <3>2 DEF ReportExact
        <3> QED
            BY <1>6, <2>3, <3>2, <3>3, <3>4
    <2> QED
        BY <2>1, <2>2, <2>3
<1>13. ReportExact'
    BY <1>12 DEF ReportExact, FirstReport, QueryReport
<1> QED
    BY <1>8, <1>11, <1>13 DEF CountersInv

\* The other steps leave the counters alone, and every server where it is as
\* far as they go; a receive that returns None will never be reported.
LEMMA OtherCounters ==
    ASSUME FramesInv, CountersInv,
           \/ \E p \in Parties : Panic(p) \/ Crash(p)
           \/ \E p \in Parties : \E q \in Peers(p) :
                 \/ Write(p, q)
                 \/ WriteFails(p, q)
                 \/ ReadPayload(p, q)
                 \/ ReadCut(p, q)
           \/ UNCHANGED vars
    PROVE  CountersInv' /\ UNCHANGED <<rnd, report>>
<1>1. /\ pc \in [Parties -> {"take", "send", "recv"}]
      /\ rd \in [Links -> Nat \cup {AtPrefix, None}]
    BY DEF FramesInv, FrameTypes
<1> DEFINE Quiet ==
        /\ UNCHANGED <<rnd, stat, report>>
        /\ \A p \in Parties : pc'[p] = "take" <=> pc[p] = "take"
        /\ \A l \in Links :
              \/ rd'[l] = None
              \/ rd'[l] = rd[l]
              \/ /\ rd[l] # None
                 /\ rd'[l] # None
                 /\ rd'[l] = AtPrefix <=> rd[l] = AtPrefix
<1>2. ASSUME NEW p \in Parties, Panic(p) \/ Crash(p) PROVE Quiet
    <2>1. UNCHANGED <<rnd, pc, rd, stat, report>>
        BY <1>2, LeavingShape DEF FramesInv
    <2> QED
        BY <2>1
<1>3. ASSUME NEW p \in Parties, NEW q \in Peers(p), Write(p, q) \/ WriteFails(p, q)
      PROVE  Quiet
    <2>1. /\ UNCHANGED <<rnd, rd, stat, report>> /\ pc[p] = "send"
          /\ pc' = pc \/ pc' = [pc EXCEPT ![p] = "recv"]
        BY <1>3 DEF Write, WriteFails, Sent
    <2>2. \A o \in Parties : pc'[o] = "take" <=> pc[o] = "take"
        BY <1>1, <2>1
    <2> QED
        BY <2>1, <2>2
<1>4. ASSUME NEW p \in Parties, NEW q \in Peers(p), ReadPayload(p, q) PROVE Quiet
    <2> DEFINE k == <<q, p>>
    <2>1. /\ UNCHANGED <<rnd, pc, stat, report>> /\ rd[k] > 0
          /\ rd' = [rd EXCEPT ![k] = @ - 1] /\ k \in Links
        BY <1>4, PeerLinks DEF ReadPayload
    <2> HIDE DEF k
    <2>2. /\ rd[k] # None /\ rd[k] # AtPrefix
          /\ rd'[k] # None /\ rd'[k] # AtPrefix
        BY <1>1, <2>1 DEF None, AtPrefix
    <2>3. \A l \in Links : l # k => rd'[l] = rd[l]
        BY <1>1, <2>1
    <2> QED
        BY <2>1, <2>2, <2>3
<1>5. ASSUME NEW p \in Parties, NEW q \in Peers(p), ReadCut(p, q) PROVE Quiet
    <2>1. UNCHANGED <<rnd, pc, stat, report>> /\ rd' = [rd EXCEPT ![<<q, p>>] = None]
        BY <1>5 DEF ReadCut
    <2> QED
        BY <1>1, <2>1
<1>6. ASSUME UNCHANGED vars PROVE Quiet
    BY <1>6 DEF vars
<1>7. Quiet
    <2> HIDE DEF Quiet
    <2> QED
        BY <1>2, <1>3, <1>4, <1>5, <1>6
<1>8. ASSUME NEW p \in Parties, NEW q \in Peers(p) PROVE CountersOf(p, q)'
    <2>1. CountersOf(p, q) /\ <<q, p>> \in Links
        BY CounterFacts, PeerLinks
    <2> QED
        BY <1>7, <2>1, CountersStay
<1> QED
    BY <1>7, <1>8 DEF CountersInv

\* The counters of every connection are those of its server's place in its
\* query, beside the handshake in the first, if every report fits the u32
\* counters of NetStat.
LEMMA CountersInvariance ==
    ReportBytes < Word => (Spec => [](CountersInv /\ ReportExact))
<1> SUFFICES ASSUME ReportBytes < Word PROVE Spec => [](CountersInv /\ ReportExact)
    OBVIOUS
<1> DEFINE I == CountersInv /\ ReportExact
<1>1. Init => I
    <2> SUFFICES ASSUME Init PROVE CountersInv /\ ReportExact
        OBVIOUS
    <2>1. 1 \in Nat \ {0} /\ Len(QueryFrames) \in Nat \ {0}
        BY StreamsAssumption
    <2>2. CountedBefore(1) = 0
        <3>1. (1 - 1) % Len(QueryFrames) = 0
            BY <2>1
        <3> QED
            BY <3>1, FirstFramesSum DEF CountedBefore
    <2>3. \A p \in Parties : \A q \in Peers(p) : CountersOf(p, q)
        <3> SUFFICES ASSUME NEW p \in Parties, NEW q \in Peers(p) PROVE CountersOf(p, q)
            OBVIOUS
        <3>1. <<p, q>> \in Links /\ <<q, p>> \in Links
            BY PeerLinks
        <3>2. /\ rnd[p] = 1 /\ pc[p] = "take" /\ rd[<<q, p>>] = AtPrefix
              /\ stat[<<p, q>>] = Handshaken(<<p, q>>)
            BY <3>1 DEF Init
        <3>3. Greeted(p, q) = Handshaken(<<p, q>>)
            BY <2>1, <3>2 DEF Greeted
        <3>4. Greeted(p, q).sent \in Nat /\ Greeted(p, q).received \in Nat
            BY GreetedType
        <3> QED
            BY <2>2, <3>2, <3>3, <3>4 DEF CountersOf
    <2>4. /\ NoStat \in [sent : Nat, received : Nat]
          /\ \A l \in Links : Handshaken(l) \in [sent : Nat, received : Nat]
        BY StreamsAssumption DEF NoStat, Handshaken
    <2>5. CountersInv
        BY <2>3, <2>4 DEF CountersInv, Init
    <2>6. ReportExact
        BY <2>1 DEF ReportExact, Init
    <2> QED
        BY <2>5, <2>6
<1>2. FramesInv /\ I /\ [Next]_vars => I'
    <2> SUFFICES ASSUME FramesInv, CountersInv, ReportExact, [Next]_vars
                 PROVE  CountersInv' /\ ReportExact'
        OBVIOUS
    <2>1. UNCHANGED <<rnd, report>> => ReportExact'
        BY DEF ReportExact
    <2>2. CASE \E p \in Parties : StartSend(p)
        BY <2>1, <2>2, StartSendCounters
    <2>3. CASE \E p \in Parties : \E q \in Peers(p) : ReadPrefix(p, q)
        BY <2>1, <2>3, ReadPrefixCounters
    <2>4. CASE \E p \in Parties : Finish(p)
        BY <2>4, FinishCounters
    <2>5. CASE \/ \E p \in Parties : Panic(p) \/ Crash(p)
               \/ \E p \in Parties : \E q \in Peers(p) :
                     \/ Write(p, q)
                     \/ WriteFails(p, q)
                     \/ ReadPayload(p, q)
                     \/ ReadCut(p, q)
               \/ UNCHANGED vars
        BY <2>1, <2>5, OtherCounters
    <2> QED
        BY <2>2, <2>3, <2>4, <2>5, NextCases
<1> QED
    BY <1>1, <1>2, FramesInvariance, PTL DEF Spec

\* For every number of servers, every schedule of commands whose bytes per
\* query, with the handshakes, the counters can hold, buffers of every size and
\* any deaths: what get_then_reset_netstat returns after a query is exactly that
\* query's frames in both directions, and after the first query also the
\* handshakes, sent to the servers with lower ids and received from the others.
THEOREM ReportsExact == ReportBytes < Word => (Spec => []ReportExact)
<1> SUFFICES ASSUME ReportBytes < Word PROVE Spec => []ReportExact
    OBVIOUS
<1> QED
    BY CountersInvariance, PTL
----------------------------------------------------------------------------
(* The streams implement the links of MpcRounds.  First the messages of a  *)
(* sequence of units without gaps.                                         *)

\* The messages of p in n rounds from f on.
Run(p, f, n) == [i \in 1..n |-> AsMessage(p, f + i - 1)]

Sends(p) == {AsMessage(p, r) : r \in Nat}

LEMMA RunFacts ==
    ASSUME NEW p, NEW f \in Nat, NEW n \in Nat
    PROVE  /\ Run(p, f, n) \in Seq(Sends(p))
           /\ Len(Run(p, f, n)) = n
           /\ \A i \in 1..n : Run(p, f, n)[i] = AsMessage(p, f + i - 1)
           /\ (Run(p, f, n) = << >>) <=> (n = 0)
<1> DEFINE S == Sends(p)
           s == Run(p, f, n)
<1>1. \A i \in 1..n : AsMessage(p, f + i - 1) \in S
    BY DEF Sends
<1>2. \A i \in 1..n : s[i] = AsMessage(p, f + i - 1)
    BY DEF Run
<1>3. DOMAIN s = 1..n
    BY DEF Run
<1> HIDE DEF S
<1>4. s \in [1..n -> S]
    BY <1>1 DEF Run
<1>5. s \in Seq(S)
    BY <1>4
<1> HIDE DEF s
<1>6. Len(s) = n
    BY <1>3, <1>5
<1>7. (s = << >>) <=> (n = 0)
    BY <1>5, <1>6
<1> QED
    BY <1>2, <1>5, <1>6, <1>7 DEF S, s

LEMMA RunTail ==
    ASSUME NEW p, NEW f \in Nat, NEW n \in Nat \ {0}
    PROVE  /\ Head(Run(p, f, n)) = AsMessage(p, f)
           /\ Tail(Run(p, f, n)) = Run(p, f + 1, n - 1)
<1> DEFINE S == Sends(p)
           s == Run(p, f, n)
           t == Run(p, f + 1, n - 1)
<1>1. /\ s \in Seq(S) /\ Len(s) = n /\ s # << >>
      /\ \A i \in 1..n : s[i] = AsMessage(p, f + i - 1)
    BY RunFacts
<1>2. n - 1 \in Nat /\ f + 1 \in Nat
    OBVIOUS
<1>3. /\ t \in Seq(S) /\ Len(t) = n - 1
      /\ \A i \in 1..n - 1 : t[i] = AsMessage(p, f + 1 + i - 1)
    BY <1>2, RunFacts
<1> HIDE DEF s, t, S
<1>4. /\ Tail(s) \in Seq(S) /\ Len(Tail(s)) = n - 1
      /\ \A i \in 1..n - 1 : Tail(s)[i] = s[i + 1]
    BY <1>1, HeadTailProperties
<1>5. ASSUME NEW i \in 1..n - 1
      PROVE  Tail(s)[i] = t[i]
    <2>1. i + 1 \in 1..n /\ f + (i + 1) - 1 = f + 1 + i - 1
        OBVIOUS
    <2>2. s[i + 1] = AsMessage(p, f + (i + 1) - 1)
        BY <1>1, <2>1
    <2> QED
        BY <1>3, <1>4, <2>1, <2>2
<1>6. Tail(s) = t
    BY <1>3, <1>4, <1>5, SeqEqual
<1>7. Head(s) = s[1] /\ 1 \in 1..n /\ f + 1 - 1 = f
    BY <1>1
<1> QED
    BY <1>1, <1>6, <1>7 DEF s, t

LEMMA RunAppend ==
    ASSUME NEW p, NEW f \in Nat, NEW n \in Nat
    PROVE  Append(Run(p, f, n), AsMessage(p, f + n)) = Run(p, f, n + 1)
<1> DEFINE S == Sends(p)
           s == Run(p, f, n)
           t == Run(p, f, n + 1)
           m == AsMessage(p, f + n)
           a == Append(s, m)
<1>1. /\ s \in Seq(S) /\ Len(s) = n
      /\ \A i \in 1..n : s[i] = AsMessage(p, f + i - 1)
    BY RunFacts
<1>2. n + 1 \in Nat
    OBVIOUS
<1>3. /\ t \in Seq(S) /\ Len(t) = n + 1
      /\ \A i \in 1..n + 1 : t[i] = AsMessage(p, f + i - 1)
    BY <1>2, RunFacts
<1>4. m \in S
    BY DEF Sends
<1> HIDE DEF s, t, S, m
<1>5. /\ a \in Seq(S) /\ Len(a) = n + 1 /\ a[n + 1] = m
      /\ \A i \in 1..n : a[i] = s[i]
    BY <1>1, <1>4, AppendProperties
<1> HIDE DEF a
<1>6. ASSUME NEW i \in 1..n + 1
      PROVE  a[i] = t[i]
    <2>1. CASE i = n + 1
        <3>1. f + i - 1 = f + n
            BY <2>1
        <3> QED
            BY <1>3, <1>5, <2>1, <3>1 DEF m
    <2>2. CASE i # n + 1
        <3>1. i \in 1..n
            BY <2>2
        <3> QED
            BY <1>1, <1>3, <1>5, <3>1
    <2> QED
        BY <2>1, <2>2
<1>7. a = t
    BY <1>3, <1>5, <1>6, SeqEqual
<1> QED
    BY <1>7 DEF a, s, m, t

LEMMA RunCut ==
    ASSUME NEW p, NEW f \in Nat, NEW n \in Nat, NEW k \in 0..n
    PROVE  SubSeq(Run(p, f, n), 1, k) = Run(p, f, k)
<1> DEFINE S == Sends(p)
           s == Run(p, f, n)
           t == Run(p, f, k)
           c == SubSeq(s, 1, k)
<1>1. /\ s \in Seq(S) /\ Len(s) = n
      /\ \A i \in 1..n : s[i] = AsMessage(p, f + i - 1)
    BY RunFacts
<1>2. /\ t \in Seq(S) /\ Len(t) = k
      /\ \A i \in 1..k : t[i] = AsMessage(p, f + i - 1)
    BY RunFacts
<1> HIDE DEF s, t, S
<1>3. \A i \in 1..k : i \in 1..n
    OBVIOUS
<1>4. \A i \in 1..k : s[i] \in S
    BY <1>1, <1>3
<1>5. /\ c \in Seq(S) /\ Len(c) = IF 1 <= k THEN k - 1 + 1 ELSE 0
      /\ \A i \in 1..k - 1 + 1 : c[i] = s[1 + i - 1]
    BY <1>4, SubSeqProperties
<1> HIDE DEF c
<1>6. Len(c) = k
    BY <1>5
<1>7. ASSUME NEW i \in 1..k
      PROVE  c[i] = t[i]
    <2>1. i \in 1..k - 1 + 1 /\ 1 + i - 1 = i
        OBVIOUS
    <2> QED
        BY <1>1, <1>2, <1>3, <1>5, <2>1
<1>8. c = t
    BY <1>2, <1>5, <1>6, <1>7, SeqEqual
<1> QED
    BY <1>8 DEF c, s, t

\* Units as a server writes them, one after the other.
Gapless(units) ==
    /\ units \in Seq(Unit)
    /\ \A i \in 1..Len(units) :
          /\ Genuine(units[i])
          /\ i > 1 => At(units[i]) = After(units[i - 1].rnd, units[i - 1].pos)

LEMMA UnitFacts ==
    ASSUME NEW u \in Unit, Genuine(u)
    PROVE  /\ u.rnd \in Nat \ {0} /\ u.rnd <= LastRound /\ u.pos \in Nat
           /\ NextFrame(u) = After(u.rnd, u.pos)[1]
           /\ NextFrame(u) = (IF Last(u) THEN u.rnd + 1 ELSE u.rnd)
           /\ NextFrame(u) \in Nat \ {0}
           /\ u.rnd <= NextFrame(u) /\ NextFrame(u) <= u.rnd + 1
<1>1. u.rnd \in Nat \ {0} /\ u.rnd <= LastRound /\ u.pos \in Nat
    BY LastRoundType DEF Unit, Rounds
<1>2. CmdLen(u.rnd) \in Nat
    BY <1>1, CmdLenType
<1>3. Last(u) <=> ~(u.pos < CmdLen(u.rnd))
    BY <1>1, <1>2 DEF Last, Genuine
<1>4. NextFrame(u) = After(u.rnd, u.pos)[1]
    BY <1>3 DEF NextFrame, After
<1> QED
    BY <1>1, <1>4 DEF NextFrame

LEMMA GaplessUnit ==
    ASSUME NEW units, Gapless(units), NEW i \in 1..Len(units)
    PROVE  /\ units[i] \in Unit /\ Genuine(units[i])
           /\ units[i].rnd \in Nat \ {0} /\ units[i].rnd <= LastRound
           /\ NextFrame(units[i]) \in Nat \ {0}
           /\ units[i].rnd <= NextFrame(units[i])
           /\ NextFrame(units[i]) <= units[i].rnd + 1
           /\ i > 1 => i - 1 \in 1..Len(units) /\ units[i].rnd = NextFrame(units[i - 1])
<1>1. units \in Seq(Unit) /\ Len(units) \in Nat
    BY DEF Gapless
<1>2. \A j \in 1..Len(units) : units[j] \in Unit /\ Genuine(units[j])
    BY <1>1 DEF Gapless
<1>3. ASSUME i > 1
      PROVE  i - 1 \in 1..Len(units) /\ units[i].rnd = NextFrame(units[i - 1])
    <2>1. i - 1 \in 1..Len(units)
        BY <1>1, <1>3
    <2>2. NextFrame(units[i - 1]) = After(units[i - 1].rnd, units[i - 1].pos)[1]
        BY <1>2, <2>1, UnitFacts
    <2>3. At(units[i]) = After(units[i - 1].rnd, units[i - 1].pos)
        BY <1>3 DEF Gapless
    <2>4. At(units[i])[1] = units[i].rnd
        BY DEF At
    <2> QED
        BY <2>1, <2>2, <2>3, <2>4
<1> QED
    BY <1>2, <1>3, UnitFacts

\* Rounds do not go back along a link.
LEMMA GaplessOrder ==
    ASSUME NEW units, Gapless(units), NEW i \in 1..Len(units), NEW j \in i..Len(units)
    PROVE  units[i].rnd <= units[j].rnd
<1> DEFINE T == {k \in i..Len(units) : ~(units[i].rnd <= units[k].rnd)}
<1> SUFFICES ASSUME T # {} PROVE FALSE
    OBVIOUS
<1>1. units \in Seq(Unit) /\ Len(units) \in Nat
    BY DEF Gapless
<1>2. T \in SUBSET Nat
    BY <1>1
<1>3. PICK k \in T : \A x \in T : k <= x
    BY <1>2, SmallestNumber
<1>4. k \in i..Len(units) /\ k \in 1..Len(units) /\ ~(units[i].rnd <= units[k].rnd)
    BY <1>1, <1>3
<1>5. units[i].rnd \in Nat /\ units[k].rnd \in Nat
    BY <1>4, GaplessUnit
<1>6. k # i
    BY <1>4, <1>5
<1>7. k > 1 /\ k - 1 \in i..Len(units) /\ k - 1 \in 1..Len(units) /\ k - 1 < k
    BY <1>1, <1>4, <1>6
<1>8. k - 1 \notin T
    BY <1>3, <1>4, <1>7
<1>9. units[i].rnd <= units[k - 1].rnd
    BY <1>7, <1>8
<1>10. /\ units[k].rnd = NextFrame(units[k - 1])
       /\ units[k - 1].rnd <= NextFrame(units[k - 1]) /\ units[k - 1].rnd \in Nat
    BY <1>4, <1>7, GaplessUnit
<1> QED
    BY <1>4, <1>5, <1>9, <1>10

\* The messages of such units: from the round of the first to the last frame
\* that ends.
LEMMA GaplessMessages ==
    ASSUME NEW p, NEW units, Gapless(units), units # << >>
    PROVE  /\ Len(units) \in Nat \ {0} /\ 1 \in 1..Len(units)
           /\ Len(units) \in 1..Len(units)
           /\ units[1].rnd \in Nat \ {0} /\ units[1].rnd <= LastRound
           /\ NextFrame(units[Len(units)]) \in Nat
           /\ units[1].rnd <= units[Len(units)].rnd
           /\ units[1].rnd <= NextFrame(units[Len(units)])
           /\ Messages(p, units) =
                 Run(p, units[1].rnd, NextFrame(units[Len(units)]) - units[1].rnd)
<1>1. Len(units) \in Nat \ {0} /\ 1 \in 1..Len(units) /\ Len(units) \in 1..Len(units)
    <2>1. units \in Seq(Unit)
        BY DEF Gapless
    <2>2. Len(units) \in Nat \ {0}
        BY <2>1
    <2> QED
        BY <2>2
<1>2. /\ units[1].rnd \in Nat \ {0} /\ units[1].rnd <= LastRound
      /\ units[Len(units)].rnd \in Nat
      /\ NextFrame(units[Len(units)]) \in Nat
      /\ units[Len(units)].rnd <= NextFrame(units[Len(units)])
    BY <1>1, GaplessUnit
<1>3. units[1].rnd <= units[Len(units)].rnd
    BY <1>1, GaplessOrder
<1>4. units[1].rnd <= NextFrame(units[Len(units)])
    BY <1>2, <1>3
<1> QED
    BY <1>1, <1>2, <1>3, <1>4 DEF Messages, Run

LEMMA NoMessages ==
    ASSUME NEW p
    PROVE  Messages(p, << >>) = << >>
BY DEF Messages

LEMMA MessagesSeq ==
    ASSUME NEW p, NEW units, Gapless(units)
    PROVE  Messages(p, units) \in Seq(Sends(p))
<1>1. CASE units = << >>
    <2>1. << >> \in Seq(Sends(p))
        OBVIOUS
    <2>2. Messages(p, units) = << >>
        BY <1>1, NoMessages, Zenon
    <2> QED
        BY <2>1, <2>2, Zenon
<1>2. CASE units # << >>
    <2> DEFINE f == units[1].rnd
               t == NextFrame(units[Len(units)])
    <2>1. f \in Nat /\ t \in Nat /\ f <= t /\ Messages(p, units) = Run(p, f, t - f)
        BY <1>2, GaplessMessages
    <2> HIDE DEF f, t
    <2>2. t - f \in Nat
        BY <2>1
    <2> QED
        BY <2>1, <2>2, RunFacts
<1> QED
    BY <1>1, <1>2

LEMMA MessagesLen ==
    ASSUME NEW p, NEW units, Gapless(units)
    PROVE  /\ Len(Messages(p, units)) \in Nat
           /\ units = << >> => Len(Messages(p, units)) = 0
           /\ units # << >> =>
                 Len(Messages(p, units)) = NextFrame(units[Len(units)]) - units[1].rnd
<1>1. CASE units = << >>
    BY <1>1, NoMessages, EmptyLen
<1>2. CASE units # << >>
    <2> DEFINE f == units[1].rnd
               t == NextFrame(units[Len(units)])
    <2>1. f \in Nat /\ t \in Nat /\ f <= t /\ Messages(p, units) = Run(p, f, t - f)
        BY <1>2, GaplessMessages
    <2> HIDE DEF f, t
    <2>2. t - f \in Nat
        BY <2>1
    <2>3. Len(Run(p, f, t - f)) = t - f
        BY <2>1, <2>2, RunFacts
    <2>4. Len(Messages(p, units)) = t - f
        BY <2>1, <2>3
    <2> QED
        BY <1>2, <2>2, <2>4 DEF f, t
<1> QED
    BY <1>1, <1>2

\* Reading a unit takes a message off the link if the unit ends a frame.
LEMMA MessagesTail ==
    ASSUME NEW p, NEW units, Gapless(units), units # << >>
    PROVE  /\ ~Last(units[1]) => Messages(p, Tail(units)) = Messages(p, units)
           /\ Last(units[1]) =>
                 /\ Messages(p, units) # << >>
                 /\ Head(Messages(p, units)) = AsMessage(p, units[1].rnd)
                 /\ Messages(p, Tail(units)) = Tail(Messages(p, units))
<1>0. Len(units) \in Nat \ {0}
    BY GaplessMessages
<1> DEFINE f == units[1].rnd
           t == NextFrame(units[Len(units)])
           n == t - f
           rest == Tail(units)
<1>1. /\ Len(units) \in Nat \ {0} /\ 1 \in 1..Len(units) /\ units \in Seq(Unit)
      /\ f \in Nat \ {0} /\ t \in Nat /\ f <= t
      /\ Messages(p, units) = Run(p, f, n)
    BY GaplessMessages DEF Gapless
<1>2. NextFrame(units[1]) = IF Last(units[1]) THEN f + 1 ELSE f
    BY DEF NextFrame
<1>3. /\ rest \in Seq(Unit) /\ Len(rest) = Len(units) - 1
      /\ \A i \in 1..Len(rest) : rest[i] = units[i + 1]
    BY <1>1, HeadTailProperties
<1>4. CASE Len(units) = 1
    <2>1. rest = << >>
        <3>1. Len(rest) = 0
            BY <1>3, <1>4
        <3> HIDE DEF rest
        <3> QED
            BY <1>3, <3>1, EmptySeq
    <2>2. Messages(p, rest) = << >>
        BY <2>1, NoMessages
    <2>3. t = NextFrame(units[1])
        BY <1>4
    <2> HIDE DEF rest, t, f
    <2>4. CASE Last(units[1])
        <3>1. n = 1
            BY <1>1, <1>2, <2>3, <2>4
        <3>2. /\ Run(p, f, 1) # << >>
              /\ Head(Run(p, f, 1)) = AsMessage(p, f)
              /\ Tail(Run(p, f, 1)) = Run(p, f + 1, 1 - 1)
            <4>1. f \in Nat /\ 1 \in Nat /\ 1 \in Nat \ {0}
                BY <1>1
            <4>2. Run(p, f, 1) # << >>
                BY <4>1, RunFacts
            <4> QED
                BY <4>1, <4>2, RunTail
        <3>3. f + 1 \in Nat /\ 1 - 1 = 0
            BY <1>1
        <3>4. Run(p, f + 1, 0) = << >>
            BY <3>3, RunFacts
        <3> HIDE DEF n
        <3> QED
            BY <1>1, <2>2, <2>4, <3>1, <3>2, <3>3, <3>4 DEF rest, f
    <2>5. CASE ~Last(units[1])
        <3>1. n = 0
            BY <1>1, <1>2, <2>3, <2>5
        <3>2. Run(p, f, 0) = << >>
            BY <1>1, RunFacts
        <3> HIDE DEF n
        <3> QED
            BY <1>1, <2>2, <2>5, <3>1, <3>2 DEF rest
    <2> QED
        BY <2>4, <2>5
<1>5. CASE Len(units) # 1
    <2>0. Len(units) \in Nat /\ Len(units) >= 2
        <3>1. \A k \in Nat \ {0} : k # 1 => k \in Nat /\ k >= 2
            OBVIOUS
        <3> QED
            BY <1>0, <1>5, <3>1, Zenon
    <2>1. 2 \in 1..Len(units) /\ 2 > 1 /\ 2 - 1 = 1
        BY <2>0
    <2>2. units[2].rnd = NextFrame(units[1]) /\ units[2].rnd \in Nat
        BY <2>1, GaplessUnit
    <2>3. Len(rest) \in 1..Len(rest) /\ 1 \in 1..Len(rest) /\ Len(rest) + 1 = Len(units)
        BY <1>1, <1>3, <1>5
    <2>4. rest[1] = units[2] /\ rest[Len(rest)] = units[Len(units)] /\ rest # << >>
        <3>1. 1 + 1 = 2
            OBVIOUS
        <3>2. rest[1] = units[1 + 1] /\ rest[Len(rest)] = units[Len(rest) + 1]
            BY <1>3, <2>3
        <3>3. Len(rest) # 0
            BY <1>3, <2>0
        <3> HIDE DEF rest
        <3> QED
            BY <2>3, <3>1, <3>2, <3>3, EmptyLen
    <2>5. Messages(p, rest) = Run(p, units[2].rnd, t - units[2].rnd)
        BY <2>4 DEF Messages, Run
    <2>6. units[2].rnd <= t
        <3>1. Len(units) \in 2..Len(units) /\ Len(units) \in 1..Len(units)
            BY <1>1, <2>1
        <3>2. units[2].rnd <= units[Len(units)].rnd
            BY <2>1, <3>1, GaplessOrder
        <3>3. units[Len(units)].rnd <= t /\ units[Len(units)].rnd \in Nat
            BY <3>1, GaplessUnit
        <3> QED
            BY <1>1, <2>2, <3>2, <3>3
    <2> HIDE DEF rest, t, f
    <2>7. CASE Last(units[1])
        <3>1. n \in Nat \ {0} /\ units[2].rnd = f + 1 /\ t - (f + 1) = n - 1
            BY <1>1, <1>2, <2>2, <2>6, <2>7
        <3> HIDE DEF n
        <3>2. /\ Run(p, f, n) # << >>
              /\ Head(Run(p, f, n)) = AsMessage(p, f)
              /\ Tail(Run(p, f, n)) = Run(p, f + 1, n - 1)
            <4>1. f \in Nat /\ n \in Nat /\ n \in Nat \ {0} /\ n # 0
                BY <1>1, <3>1
            <4>2. Run(p, f, n) # << >>
                BY <4>1, RunFacts
            <4> QED
                BY <4>1, <4>2, RunTail
        <3> QED
            BY <1>1, <2>5, <2>7, <3>1, <3>2 DEF rest, f
    <2>8. CASE ~Last(units[1])
        <3>1. units[2].rnd = f
            BY <1>2, <2>2, <2>8
        <3> QED
            BY <1>1, <2>5, <2>8, <3>1 DEF rest
    <2> QED
        BY <2>7, <2>8
<1> QED
    BY <1>4, <1>5

\* Writing a unit puts a message on the link if the unit ends a frame.
LEMMA MessagesAppend ==
    ASSUME NEW p, NEW units, Gapless(units), NEW u \in Unit, Genuine(u),
           units # << >> => At(u) = After(units[Len(units)].rnd, units[Len(units)].pos)
    PROVE  Messages(p, Append(units, u)) =
              IF Last(u) THEN Append(Messages(p, units), AsMessage(p, u.rnd))
              ELSE Messages(p, units)
<1> DEFINE more == Append(units, u)
           r == u.rnd
<1>1. units \in Seq(Unit) /\ Len(units) \in Nat
    BY DEF Gapless
<1>2. /\ Len(more) = Len(units) + 1 /\ more # << >> /\ more[Len(more)] = u
      /\ \A i \in 1..Len(units) : more[i] = units[i]
    BY <1>1, AppendProperties
<1>3. r \in Nat \ {0} /\ NextFrame(u) = IF Last(u) THEN r + 1 ELSE r
    BY UnitFacts
<1>4. Messages(p, more) = Run(p, more[1].rnd, NextFrame(u) - more[1].rnd)
    BY <1>2 DEF Messages, Run
<1>5. CASE units = << >>
    <2>1. more[1] = u
        BY <1>2, <1>5, EmptyLen
    <2>2. Messages(p, units) = << >>
        BY <1>5, NoMessages
    <2>3. Messages(p, more) = Run(p, r, NextFrame(u) - r)
        BY <1>4, <2>1
    <2>4. Run(p, r, 0) = << >>
        BY <1>3, RunFacts
    <2> HIDE DEF more, r
    <2>5. CASE Last(u)
        <3>1. NextFrame(u) - r = 1 /\ r + 0 = r /\ 0 + 1 = 1
            BY <1>3, <2>5
        <3>2. Append(Run(p, r, 0), AsMessage(p, r + 0)) = Run(p, r, 0 + 1)
            BY <1>3, RunAppend
        <3> QED
            BY <2>2, <2>3, <2>4, <2>5, <3>1, <3>2 DEF more, r
    <2>6. CASE ~Last(u)
        <3>1. NextFrame(u) - r = 0
            BY <1>3, <2>6
        <3> QED
            BY <2>2, <2>3, <2>4, <2>6, <3>1 DEF more
    <2> QED
        BY <2>5, <2>6
<1>6. CASE units # << >>
    <2> DEFINE f == units[1].rnd
               t == NextFrame(units[Len(units)])
               n == t - f
    <2>1. /\ 1 \in 1..Len(units) /\ Len(units) \in 1..Len(units)
          /\ f \in Nat \ {0} /\ t \in Nat /\ f <= t
          /\ Messages(p, units) = Run(p, f, n)
        BY <1>6, GaplessMessages
    <2>2. more[1] = units[1]
        BY <1>2, <2>1
    <2>3. r = t
        <3>1. t = After(units[Len(units)].rnd, units[Len(units)].pos)[1]
            BY <2>1, GaplessUnit, UnitFacts
        <3>2. At(u)[1] = r
            BY DEF At
        <3> QED
            BY <1>6, <3>1, <3>2
    <2>4. Messages(p, more) = Run(p, f, NextFrame(u) - f)
        BY <1>4, <2>2
    <2> HIDE DEF more, r, f, t
    <2>5. n \in Nat
        BY <2>1
    <2>6. CASE Last(u)
        <3>1. NextFrame(u) - f = n + 1 /\ f + n = r
            BY <1>3, <2>1, <2>3, <2>6
        <3> HIDE DEF n
        <3>2. Append(Run(p, f, n), AsMessage(p, f + n)) = Run(p, f, n + 1)
            BY <2>1, <2>5, RunAppend
        <3> QED
            BY <2>1, <2>4, <2>6, <3>1, <3>2 DEF more, r
    <2>7. CASE ~Last(u)
        <3>1. NextFrame(u) - f = n
            BY <1>3, <2>3, <2>7
        <3> QED
            BY <2>1, <2>4, <2>7, <3>1 DEF more
    <2> QED
        BY <2>6, <2>7
<1> QED
    BY <1>5, <1>6

\* Cutting the units anywhere cuts the messages somewhere.
LEMMA MessagesCut ==
    ASSUME NEW p, NEW units, Gapless(units), NEW k \in 0..Len(units)
    PROVE  \E m \in 0..Len(Messages(p, units)) :
              Messages(p, SubSeq(units, 1, k)) = SubSeq(Messages(p, units), 1, m)
<1> DEFINE cut == SubSeq(units, 1, k)
           all == Messages(p, units)
<1>1. units \in Seq(Unit) /\ Len(units) \in Nat /\ Len(all) \in Nat
    BY MessagesLen DEF Gapless
<1>2. CASE k = 0
    <2>1. cut = << >> /\ SubSeq(all, 1, 0) = << >>
        BY <1>2, SubSeqEmpty
    <2>2. Messages(p, cut) = << >>
        BY <2>1, NoMessages
    <2>3. 0 \in 0..Len(all)
        BY <1>1
    <2> QED
        BY <2>1, <2>2, <2>3
<1>3. CASE k # 0
    <2>1. k \in 1..Len(units) /\ units # << >>
        BY <1>1, <1>3, EmptyLen
    <2> DEFINE f == units[1].rnd
               t == NextFrame(units[Len(units)])
               c == NextFrame(units[k])
    <2>2. /\ Len(units) \in 1..Len(units) /\ 1 \in 1..Len(units)
          /\ f \in Nat /\ t \in Nat /\ f <= t /\ all = Run(p, f, t - f)
        BY <2>1, GaplessMessages
    <2>3. c \in Nat /\ units[k].rnd <= c /\ units[k].rnd \in Nat
        BY <2>1, GaplessUnit
    <2>4. f <= c
        <3>1. k \in 1..Len(units) /\ f <= units[k].rnd
            BY <2>1, <2>2, GaplessOrder
        <3> QED
            BY <2>2, <2>3, <3>1
    <2>5. c <= t
        <3>1. CASE k = Len(units)
            BY <2>2, <3>1
        <3>2. CASE k # Len(units)
            <4>1. k + 1 \in 1..Len(units) /\ k + 1 > 1 /\ (k + 1) - 1 = k
                  /\ Len(units) \in k + 1..Len(units)
                BY <1>1, <2>1, <3>2
            <4>2. units[k + 1].rnd = c /\ units[k + 1].rnd <= units[Len(units)].rnd
                BY <4>1, GaplessUnit, GaplessOrder
            <4>3. units[Len(units)].rnd <= t /\ units[Len(units)].rnd \in Nat
                BY <2>2, GaplessUnit
            <4> QED
                BY <2>2, <2>3, <4>2, <4>3
        <3> QED
            BY <3>1, <3>2
    <2>6. /\ Len(cut) = k /\ cut # << >>
          /\ cut[1] = units[1] /\ cut[Len(cut)] = units[k]
        <3>1. \A i \in 1..k : units[i] \in Unit
            BY <1>1, <2>1
        <3>2. /\ Len(cut) = IF 1 <= k THEN k - 1 + 1 ELSE 0
              /\ \A i \in 1..k - 1 + 1 : cut[i] = units[1 + i - 1]
            BY <3>1, SubSeqProperties
        <3>3. /\ k \in 1..k - 1 + 1 /\ 1 \in 1..k - 1 + 1 /\ 1 <= k
              /\ k - 1 + 1 = k /\ 1 + k - 1 = k /\ 1 + 1 - 1 = 1
            BY <2>1
        <3> HIDE DEF cut
        <3>4. Len(cut) = k /\ cut[1] = units[1] /\ cut[k] = units[k]
            BY <3>2, <3>3
        <3> QED
            BY <1>3, <3>4, EmptyLen
    <2>7. Messages(p, cut) = Run(p, f, c - f)
        BY <2>6 DEF Messages, Run
    <2> HIDE DEF f, t, c, cut, all
    <2>8. c - f \in 0..t - f /\ t - f \in Nat
        BY <2>2, <2>3, <2>4, <2>5
    <2>9. SubSeq(Run(p, f, t - f), 1, c - f) = Run(p, f, c - f)
        BY <2>2, <2>8, RunCut
    <2>10. Len(all) = t - f
        BY <2>2, <2>8, RunFacts
    <2>11. c - f \in 0..Len(all) /\ Messages(p, cut) = SubSeq(all, 1, c - f)
        BY <2>2, <2>7, <2>8, <2>9, <2>10
    <2> QED
        BY <2>11 DEF cut, all
<1> QED
    BY <1>2, <1>3
----------------------------------------------------------------------------
(* How far apart the two ends of a link can be.                            *)

LEMMA LinkGapless ==
    ASSUME FramesInv, NEW l \in Links
    PROVE  Gapless(link[l])
<1>1. FrameTypes /\ BufferOf(l)
    BY DEF FramesInv
<1>2. link[l] \in Seq(Unit)
    BY <1>1, FrameFacts
<1> QED
    BY <1>1, <1>2 DEF BufferOf, Gapless

LEMMA UpInRound ==
    ASSUME FramesInv, NEW p \in Parties, Up(p)
    PROVE  rnd[p] \in Rounds /\ rnd[p] \in Nat \ {0}
<1>1. PICK q \in Peers(p) : TRUE
    BY StreamsAssumption DEF Peers
<1>2. <<p, q>> \in Links
    BY PeerLinks
<1>3. WriterOf(<<p, q>>)
    BY <1>2 DEF FramesInv
<1>4. rnd[p] \in Rounds
    BY <1>3 DEF WriterOf
<1> QED
    BY <1>4, LastRoundType DEF Rounds

LEMMA Places ==
    ASSUME FramesInv, NEW l \in Links
    PROVE  /\ WriteNext(l)[1] \in Nat /\ ReadNext(l)[1] \in Nat
           /\ WriteNext(l)[1] <= rnd[l[1]] + 1
           /\ rnd[l[2]] <= ReadNext(l)[1]
<1>1. rnd[l[1]] \in Nat /\ rnd[l[2]] \in Nat
    BY FrameFacts DEF FramesInv
<1>2. WriteNext(l)[1] \in {rnd[l[1]], rnd[l[1]] + 1}
    BY DEF WriteNext, Left
<1>3. ReadNext(l)[1] \in {rnd[l[2]], rnd[l[2]] + 1}
    BY DEF ReadNext, Left
<1> QED
    BY <1>1, <1>2, <1>3

\* The first unit on a link is of the round in which the reader's place is.
LEMMA FirstRound ==
    ASSUME FramesInv, NEW l \in Links, link[l] # << >>
    PROVE  link[l][1].rnd = ReadNext(l)[1]
<1>1. At(link[l][1]) = ReadNext(l)
    BY DEF FramesInv, BufferOf
<1>2. At(link[l][1])[1] = link[l][1].rnd
    BY DEF At
<1> QED
    BY <1>1, <1>2

\* A link holds no more messages than its writer is ahead of its reader.
LEMMA Ahead ==
    ASSUME FramesInv, NEW l \in Links, Up(l[1]), Up(l[2])
    PROVE  /\ rnd[l[2]] <= WriteNext(l)[1]
           /\ Len(Messages(l[1], link[l])) <= WriteNext(l)[1] - rnd[l[2]]
<1> DEFINE w == WriteNext(l)[1]
           r == ReadNext(l)[1]
           u == link[l]
           n == Len(Messages(l[1], link[l]))
<1>1. w \in Nat /\ r \in Nat /\ rnd[l[2]] <= r /\ rnd[l[2]] \in Nat
    BY Places, FrameFacts DEF FramesInv
<1>2. Gapless(u)
    BY LinkGapless
<1>3. BufferOf(l)
    BY DEF FramesInv
<1>4. CASE u = << >>
    <2>1. w = r
        BY <1>3, <1>4 DEF BufferOf
    <2>2. n = 0
        BY <1>2, <1>4, MessagesLen
    <2> HIDE DEF w, r, n
    <2>3. rnd[l[2]] <= w /\ n <= w - rnd[l[2]]
        BY <1>1, <2>1, <2>2
    <2> QED
        BY <2>3 DEF w, n
<1>5. CASE u # << >>
    <2>1. WriteNext(l) = After(u[Len(u)].rnd, u[Len(u)].pos)
        BY <1>3, <1>5 DEF BufferOf
    <2>2. Len(u) \in 1..Len(u) /\ u[1].rnd <= NextFrame(u[Len(u)])
        BY <1>2, <1>5, GaplessMessages
    <2>3. NextFrame(u[Len(u)]) = After(u[Len(u)].rnd, u[Len(u)].pos)[1]
        BY <1>2, <2>2, GaplessUnit, UnitFacts
    <2>4. u[1].rnd = r
        BY <1>5, FirstRound
    <2>5. n = NextFrame(u[Len(u)]) - u[1].rnd
        BY <1>2, <1>5, MessagesLen
    <2>6. n = w - r /\ r <= w
        BY <2>1, <2>2, <2>3, <2>4, <2>5
    <2> HIDE DEF w, r, n
    <2>7. rnd[l[2]] <= w /\ n <= w - rnd[l[2]]
        BY <1>1, <2>6
    <2> QED
        BY <2>7 DEF w, n
<1> QED
    BY <1>4, <1>5

\* Nobody is more than a round ahead of a peer, so at most two messages are on
\* a link, and at most one while another is being written.
LEMMA TransitBound ==
    ASSUME FramesInv, QuietInv, NEW l \in Links, Up(l[1])
    PROVE  /\ Len(Messages(l[1], link[l])) \in Nat
           /\ Len(Messages(l[1], link[l])) <= 2
           /\ pc[l[1]] = "send" /\ wr[l] > 0 /\ Up(l[2]) =>
                 Len(Messages(l[1], link[l])) < 2
<1> DEFINE n == Len(Messages(l[1], link[l]))
           p == l[1]
           q == l[2]
           back == <<l[2], l[1]>>
<1>1. n \in Nat
    BY LinkGapless, MessagesLen
<1>2. CASE ~Up(q)
    <2>1. link[l] = << >>
        BY <1>2 DEF QuietInv, QuietOf
    <2>2. n = 0
        BY <2>1, LinkGapless, MessagesLen
    <2> QED
        BY <1>2, <2>2
<1>3. CASE Up(q)
    <2>1. p \in Parties /\ q \in Parties /\ p # q
        BY LinkEnds
    <2>2. back \in Links /\ back[1] = q /\ back[2] = p
        BY <2>1 DEF Links
    <2>3. rnd[p] \in Nat /\ rnd[q] \in Nat
        BY FrameFacts DEF FramesInv
    <2>4. rnd[p] <= rnd[q] + 1
        <3>1. rnd[p] <= WriteNext(back)[1]
            BY <1>3, <2>2, Ahead
        <3>2. WriteNext(back)[1] <= rnd[q] + 1 /\ WriteNext(back)[1] \in Nat
            BY <2>2, Places
        <3> QED
            BY <2>3, <3>1, <3>2
    <2>5. n <= WriteNext(l)[1] - rnd[q]
        BY <1>3, Ahead
    <2>6. WriteNext(l)[1] <= rnd[p] + 1 /\ WriteNext(l)[1] \in Nat
        BY Places
    <2>7. pc[p] = "send" /\ wr[l] > 0 => WriteNext(l)[1] = rnd[p]
        <3> SUFFICES ASSUME pc[p] = "send", wr[l] > 0 PROVE WriteNext(l)[1] = rnd[p]
            OBVIOUS
        <3>1. pc[p] # "take" /\ wr[l] # 0
            OBVIOUS
        <3> QED
            BY <3>1 DEF WriteNext, Left
    <2> HIDE DEF n, p, q, back
    <2>8. n <= 2
        BY <1>1, <2>3, <2>4, <2>5, <2>6
    <2>9. pc[p] = "send" /\ wr[l] > 0 => n < 2
        BY <1>1, <2>3, <2>4, <2>5, <2>7
    <2> QED
        BY <1>1, <2>8, <2>9 DEF n, p
<1> QED
    BY <1>1, <1>2, <1>3

----------------------------------------------------------------------------
(* Nothing is sent to those who have left, nor ahead of its sender.        *)

LEMMA QuietKept ==
    ASSUME FramesInv, QuietInv, NEW l \in Links, link'[l] \in Seq(Unit),
           Len(link'[l]) <= Len(link[l]),
           \A i \in 1..Len(link'[l]) : \E j \in 1..Len(link[l]) : link'[l][i] = link[l][j],
           rnd'[l[1]] \in Nat, rnd[l[1]] <= rnd'[l[1]],
           ~Up(l[2])' => ~Up(l[2]) \/ link'[l] = << >>
    PROVE  QuietOf(l)'
<1>1. QuietOf(l) /\ FrameTypes
    BY DEF QuietInv, FramesInv
<1>2. rnd[l[1]] \in Nat /\ Len(link[l]) \in Nat
    BY <1>1, FrameFacts
<1>3. ~Up(l[2])' => link'[l] = << >>
    <2> SUFFICES ASSUME ~Up(l[2]) PROVE link'[l] = << >>
        OBVIOUS
    <2>1. Len(link[l]) = 0
        BY <1>1, EmptyLen DEF QuietOf
    <2>2. Len(link'[l]) = 0
        BY <2>1
    <2> QED
        BY <2>2, EmptySeq
<1>4. ASSUME NEW i \in 1..Len(link'[l])
      PROVE  link'[l][i].rnd <= rnd'[l[1]]
    <2>1. PICK j \in 1..Len(link[l]) : link'[l][i] = link[l][j]
        OBVIOUS
    <2>2. link[l][j].rnd <= rnd[l[1]] /\ link[l][j].rnd \in Nat
        BY <1>1, <2>1, FrameFacts DEF QuietOf
    <2> QED
        BY <1>2, <2>1, <2>2
<1> QED
    BY <1>3, <1>4 DEF QuietOf

LEMMA StepQuiet ==
    ASSUME FramesInv, FramesInv', QuietInv, [Next]_vars
    PROVE  QuietInv'
<1> SUFFICES ASSUME NEW l \in Links PROVE QuietOf(l)'
    BY DEF QuietInv
<1>0. FrameTypes /\ FrameTypes' /\ QuietOf(l)
    BY DEF FramesInv, QuietInv
<1>1. /\ link[l] \in Seq(Unit) /\ Len(link[l]) \in Nat /\ link'[l] \in Seq(Unit)
      /\ rnd[l[1]] \in Nat /\ rnd'[l[1]] \in Nat
      /\ l[1] \in Parties /\ l[2] \in Parties
    <2>1. l[1] \in Parties /\ l[2] \in Parties
        BY LinkEnds
    <2> QED
        BY <1>0, <2>1, LastRoundType DEF FrameTypes
\* The link is as before.
<1>2. ASSUME link'[l] = link[l], rnd[l[1]] <= rnd'[l[1]],
             ~Up(l[2])' => ~Up(l[2]) \/ link'[l] = << >>
      PROVE  QuietOf(l)'
    BY <1>1, <1>2, QuietKept
<1>3. ASSUME link'[l] = link[l], UNCHANGED <<rnd, status>>
      PROVE  QuietOf(l)'
    BY <1>1, <1>2, <1>3 DEF Up
<1>4. CASE UNCHANGED vars
    BY <1>3, <1>4 DEF vars
<1>5. ASSUME NEW p \in Parties, StartSend(p) PROVE QuietOf(l)'
    BY <1>3, <1>5 DEF StartSend
<1>6. ASSUME NEW p \in Parties, NEW q \in Peers(p), WriteFails(p, q) \/ ReadCut(p, q)
      PROVE  QuietOf(l)'
    BY <1>3, <1>6 DEF WriteFails, ReadCut, Sent
<1>7. ASSUME NEW p \in Parties, NEW q \in Peers(p), Write(p, q) PROVE QuietOf(l)'
    <2>1. /\ Up(q) /\ UNCHANGED <<rnd, status>>
          /\ link' = [link EXCEPT ![<<p, q>>] = Append(@, NextUnit(<<p, q>>))]
        BY <1>7 DEF Write, Sent
    <2>2. CASE l # <<p, q>>
        BY <1>0, <1>3, <2>1, <2>2 DEF FrameTypes
    <2>3. CASE l = <<p, q>>
        <3> DEFINE u == NextUnit(l)
        <3>1. l[1] = p /\ l[2] = q /\ link'[l] = Append(link[l], u)
            BY <1>0, <2>1, <2>3 DEF FrameTypes
        <3>2. u.rnd = rnd[l[1]]
            BY DEF NextUnit
        <3> HIDE DEF u
        <3>3. ASSUME NEW i \in 1..Len(link'[l])
              PROVE  link'[l][i].rnd <= rnd'[l[1]]
            <4>1. Len(link'[l]) = Len(link[l]) + 1 /\ link'[l][Len(link[l]) + 1] = u
                  /\ \A j \in 1..Len(link[l]) : link'[l][j] = link[l][j]
                BY <1>1, <3>1
            <4>2. CASE i \in 1..Len(link[l])
                BY <1>0, <2>1, <4>1, <4>2 DEF QuietOf
            <4>3. CASE i = Len(link[l]) + 1
                BY <1>1, <2>1, <3>2, <4>1, <4>3
            <4> QED
                BY <1>1, <4>1, <4>2, <4>3
        <3>4. Up(l[2])'
            BY <2>1, <3>1 DEF Up
        <3> QED
            BY <3>3, <3>4 DEF QuietOf
    <2> QED
        BY <2>2, <2>3
<1>8. ASSUME NEW p \in Parties, NEW q \in Peers(p), ReadPrefix(p, q) \/ ReadPayload(p, q)
      PROVE  QuietOf(l)'
    <2>1. /\ UNCHANGED <<rnd, status>> /\ link[<<q, p>>] # << >>
          /\ link' = [link EXCEPT ![<<q, p>>] = Tail(@)]
        BY <1>8 DEF ReadPrefix, ReadPayload
    <2>2. CASE l # <<q, p>>
        BY <1>0, <1>3, <2>1, <2>2 DEF FrameTypes
    <2>3. CASE l = <<q, p>>
        <3>1. link'[l] = Tail(link[l]) /\ link[l] # << >>
            BY <1>0, <2>1, <2>3 DEF FrameTypes
        <3>2. /\ Len(link'[l]) = Len(link[l]) - 1
              /\ \A i \in 1..Len(link'[l]) : link'[l][i] = link[l][i + 1]
            BY <1>1, <3>1, HeadTailProperties
        <3>3. \A i \in 1..Len(link'[l]) : i + 1 \in 1..Len(link[l])
            BY <1>1, <3>2
        <3>4. \A i \in 1..Len(link'[l]) : \E j \in 1..Len(link[l]) : link'[l][i] = link[l][j]
            BY <3>2, <3>3
        <3>5. Len(link'[l]) <= Len(link[l])
            BY <1>1, <3>2
        <3>6. rnd[l[1]] <= rnd'[l[1]] /\ (~Up(l[2])' => ~Up(l[2]))
            BY <1>1, <2>1 DEF Up
        <3> QED
            BY <1>1, <3>4, <3>5, <3>6, QuietKept
    <2> QED
        BY <2>2, <2>3
<1>9. ASSUME NEW p \in Parties, Finish(p) PROVE QuietOf(l)'
    <2>1. /\ UNCHANGED link /\ rnd' = [rnd EXCEPT ![p] = @ + 1]
          /\ status' = IF rnd[p] = LastRound THEN [status EXCEPT ![p] = "done"] ELSE status
          /\ Complete(p)
        BY <1>9 DEF Finish
    <2>2. rnd[l[1]] <= rnd'[l[1]]
        BY <1>0, <1>1, <2>1 DEF FrameTypes
    <2>3. CASE l[2] = p /\ rnd[p] = LastRound
        <3>1. l \in In(p)
            BY <2>3, LinkEnds
        <3>2. rd[l] = 0 /\ rd[l] # AtPrefix
            BY <2>1, <3>1 DEF Complete, AtPrefix
        <3>3. ReadNext(l)[1] = LastRound + 1
            BY <2>3, <3>2 DEF ReadNext, Left
        <3>4. link[l] = << >>
            <4> SUFFICES ASSUME link[l] # << >> PROVE FALSE
                OBVIOUS
            <4>1. link[l][1].rnd = LastRound + 1
                BY <3>3, FirstRound
            <4>2. link[l][1].rnd <= LastRound
                BY LinkGapless, GaplessMessages
            <4> QED
                BY <4>1, <4>2, LastRoundType
        <3> QED
            BY <1>2, <2>1, <2>2, <3>4
    <2>4. CASE ~(l[2] = p /\ rnd[p] = LastRound)
        <3>1. status'[l[2]] = status[l[2]]
            BY <1>0, <1>1, <2>1, <2>4 DEF FrameTypes
        <3> QED
            BY <1>2, <2>1, <2>2, <3>1 DEF Up
    <2> QED
        BY <2>3, <2>4
<1>10. ASSUME NEW p \in Parties, Panic(p) \/ Crash(p) PROVE QuietOf(l)'
    <2>1. PICK how : status' = [status EXCEPT ![p] = how]
        BY <1>0, <1>10, LeavingShape
    <2>2. /\ UNCHANGED rnd
          /\ l[2] = p => link'[l] = << >>
          /\ Len(link'[l]) <= Len(link[l])
          /\ \A i \in 1..Len(link'[l]) : link'[l][i] = link[l][i]
        BY <1>0, <1>10, LeavingShape
    <2>3. Len(link'[l]) \in Nat
        BY <1>1
    <2>4. \A i \in 1..Len(link'[l]) : i \in 1..Len(link[l])
        BY <1>1, <2>2, <2>3
    <2>5. \A i \in 1..Len(link'[l]) : \E j \in 1..Len(link[l]) : link'[l][i] = link[l][j]
        BY <2>2, <2>4
    <2>6. rnd[l[1]] <= rnd'[l[1]]
        BY <1>1, <2>2
    <2>7. ~Up(l[2])' => ~Up(l[2]) \/ link'[l] = << >>
        BY <1>0, <1>1, <2>1, <2>2 DEF Up, FrameTypes
    <2> QED
        BY <1>1, <2>2, <2>5, <2>6, <2>7, QuietKept
<1> QED
    BY <1>4, <1>5, <1>6, <1>7, <1>8, <1>9, <1>10, NextCases

LEMMA QuietInvariance == Spec => []QuietInv
<1>1. Init => QuietInv
    <2> SUFFICES ASSUME Init, NEW l \in Links PROVE QuietOf(l)
        BY DEF QuietInv
    <2>1. link[l] = << >>
        BY DEF Init
    <2> QED
        BY <2>1, EmptyLen DEF QuietOf
<1>2. FramesInv /\ FramesInv' /\ QuietInv /\ [Next]_vars => QuietInv'
    BY StepQuiet
<1> QED
    BY <1>1, <1>2, FramesInvariance, PTL DEF Spec
----------------------------------------------------------------------------
(* The steps of the streams as steps of MpcRounds.                         *)

LEMMA BroadcastFacts ==
    /\ Len(Broadcasts) = LastRound
    /\ Abstract!Rounds = Rounds
    /\ \A r \in Rounds : Abstract!Kind(r) = "beaver" /\ Abstract!Need(r) = 0
    /\ Abstract!Kinds = RoundKinds
    /\ Abstract!CommitRounds = {}
    /\ Abstract!Links = Links
    /\ \A p : Abstract!Peers(p) = Peers(p)
    /\ \A p : Abstract!Up(p) <=> Up(p)
<1>1. Len(Broadcasts) = LastRound
    <2>1. Broadcasts \in [1..LastRound -> {[kind |-> "beaver", need |-> 0]}]
        BY DEF Broadcasts, Rounds
    <2>2. Broadcasts \in Seq({[kind |-> "beaver", need |-> 0]}) /\ DOMAIN Broadcasts = 1..LastRound
        BY <2>1, LastRoundType
    <2> QED
        BY <2>2, LastRoundType
<1>2. Abstract!Rounds = Rounds
    BY <1>1 DEF Abstract!Rounds, Rounds
<1>3. \A r \in Rounds : Abstract!Kind(r) = "beaver" /\ Abstract!Need(r) = 0
    BY DEF Abstract!Kind, Abstract!Need, Broadcasts
<1>4. Abstract!Kinds = RoundKinds
    BY DEF Abstract!Kinds, RoundKinds
<1>5. Abstract!CommitRounds = {}
    BY <1>2, <1>3 DEF Abstract!CommitRounds
<1>6. Abstract!Links = Links
    BY DEF Abstract!Links, Links
<1>7. \A p : Abstract!Peers(p) = Peers(p)
    BY DEF Abstract!Peers, Peers
<1>8. \A p : Abstract!Up(p) <=> Up(p)
    BY DEF Abstract!Up, Up
<1> QED
    BY <1>1, <1>2, <1>3, <1>4, <1>5, <1>6, <1>7, <1>8

\* No round takes anything.
LEMMA NothingTaken ==
    ASSUME NEW p \in Parties
    PROVE  /\ Counters[p]["beaver"] = 0 /\ Nothing["beaver"] = 0
           /\ Counters = [Counters EXCEPT ![p]["beaver"] = 0]
<1>1. "beaver" \in RoundKinds
    BY DEF RoundKinds
<1>2. Counters[p] = Nothing /\ Nothing["beaver"] = 0
    BY <1>1 DEF Counters, Nothing
<1>3. [Nothing EXCEPT !["beaver"] = 0] = Nothing
    BY <1>2 DEF Nothing
<1>4. [Counters EXCEPT ![p] = Nothing] = Counters
    BY <1>2 DEF Counters
<1>5. [Counters EXCEPT ![p]["beaver"] = 0] = [Counters EXCEPT ![p] = Nothing]
    BY <1>2, <1>3
<1> QED
    BY <1>2, <1>4, <1>5

LEMMA OwnMessageIs ==
    ASSUME NEW p \in Parties, rnd[p] \in Rounds
    PROVE  Abstract!OwnMessage(p) = AsMessage(p, rnd[p])
BY BroadcastFacts, NothingTaken DEF Abstract!OwnMessage, AsMessage

LEMMA TransitNext == InTransit' = [l \in Links |-> Messages(l[1], link'[l])]
BY DEF InTransit, Messages, NextFrame, Last, CmdLen, AsMessage

LEMMA StoragesNext ==
    Storages' = [p \in Parties |-> [k \in RoundKinds |->
        IF k = "beaver"
        THEN {AsMessage(q, rnd'[p]) : q \in {q \in Peers(p) : rd'[<<q, p>>] = 0}}
        ELSE {}]]
BY DEF Storages, Filed, RoundKinds, Peers, AsMessage

LEMMA MappedSame ==
    /\ Counters' = Counters /\ NoTokens' = NoTokens
    /\ link' = link => InTransit' = InTransit
    /\ pc' = pc /\ wr' = wr => Reached' = Reached
    /\ rd' = rd => Answered' = Answered
    /\ rd' = rd /\ rnd' = rnd => Storages' = Storages
<1>1. Counters' = Counters /\ NoTokens' = NoTokens
    BY DEF Counters, Nothing, RoundKinds, NoTokens
<1>2. link' = link => InTransit' = InTransit
    BY TransitNext DEF InTransit
<1>3. pc' = pc /\ wr' = wr => Reached' = Reached
    BY DEF Reached, Peers
<1>4. rd' = rd => Answered' = Answered
    BY DEF Answered, Peers, None
<1>5. rd' = rd /\ rnd' = rnd => Storages' = Storages
    BY StoragesNext DEF Storages, Filed
<1> QED
    BY <1>1, <1>2, <1>3, <1>4, <1>5

LEMMA StartSendTakes ==
    ASSUME FramesInv, NEW p \in Parties, StartSend(p)
    PROVE  Abstract!Take(p)
<1>1. /\ Up(p) /\ pc[p] = "take" /\ pc' = [pc EXCEPT ![p] = "send"]
      /\ wr' = [l \in Links |-> IF l \in Out(p) THEN CmdLen(rnd[p]) + 1 ELSE wr[l]]
      /\ UNCHANGED <<rnd, status, rd, link, crashes>>
    BY DEF StartSend
<1>2. FrameTypes
    BY DEF FramesInv
<1>3. rnd[p] \in Rounds /\ CmdLen(rnd[p]) \in Nat
    BY <1>1, UpInRound, CmdLenType
<1>4. Reached' = Reached
    <2>1. ASSUME NEW a \in Parties, NEW q \in Peers(a)
          PROVE  /\ a # p => pc'[a] = pc[a] /\ wr'[<<a, q>>] = wr[<<a, q>>]
                 /\ a = p => pc'[a] = "send" /\ wr'[<<a, q>>] # 0
        <3>1. <<a, q>> \in Links /\ (<<a, q>> \in Out(p) <=> a = p)
            BY PeerLinks DEF Out
        <3>2. pc \in [Parties -> {"take", "send", "recv"}]
            BY <1>2 DEF FrameTypes
        <3> QED
            BY <1>1, <1>3, <3>1, <3>2
    <2>2. ASSUME NEW a \in Parties
          PROVE  (IF pc'[a] = "send" THEN {q \in Peers(a) : wr'[<<a, q>>] = 0} ELSE {})
                   = (IF pc[a] = "send" THEN {q \in Peers(a) : wr[<<a, q>>] = 0} ELSE {})
        <3>1. CASE a = p
            <4>1. {q \in Peers(a) : wr'[<<a, q>>] = 0} = {}
                BY <2>1, <3>1
            <4> QED
                BY <1>1, <3>1, <4>1
        <3>2. CASE a # p
            <4>1. {q \in Peers(a) : wr'[<<a, q>>] = 0} = {q \in Peers(a) : wr[<<a, q>>] = 0}
                BY <2>1, <3>2
            <4>2. pc'[a] = pc[a]
                BY <1>1, <1>2, <3>2 DEF FrameTypes
            <4> QED
                BY <4>1, <4>2
        <3> QED
            BY <3>1, <3>2
    <2> QED
        BY <2>2 DEF Reached, Peers
<1>5. /\ Answered' = Answered /\ Storages' = Storages /\ InTransit' = InTransit
      /\ NoTokens' = NoTokens /\ Counters' = Counters
    BY <1>1, MappedSame
<1>6. /\ Abstract!Kind(rnd[p]) = "beaver" /\ Abstract!Need(rnd[p]) = 0 /\ Abstract!Up(p)
    BY <1>1, <1>3, BroadcastFacts
<1>7. Counters[p]["beaver"] + 0 <= Nothing["beaver"]
    BY NothingTaken
<1>8. Counters' = [Counters EXCEPT ![p]["beaver"] = Counters[p]["beaver"] + 0]
    <2>1. Counters[p]["beaver"] + 0 = 0
        BY NothingTaken
    <2> QED
        BY <1>5, <2>1, NothingTaken
<1> QED
    BY <1>1, <1>4, <1>5, <1>6, <1>7, <1>8 DEF Abstract!Take

\* One of the joined sends returns.
LEMMA SendReturns ==
    ASSUME FramesInv, NEW p \in Parties, NEW q \in Peers(p), Up(p), pc[p] = "send",
           wr[<<p, q>>] # 0, Sent(p, [wr EXCEPT ![<<p, q>>] = 0])
    PROVE  /\ q \in Peers(p) \ Reached[p]
           /\ IF Reached[p] \cup {q} = Peers(p)
              THEN /\ Reached' = [Reached EXCEPT ![p] = {}]
                   /\ pc' = [pc EXCEPT ![p] = "recv"]
              ELSE /\ Reached' = [Reached EXCEPT ![p] = Reached[p] \cup {q}]
                   /\ UNCHANGED pc
           /\ UNCHANGED <<rnd, status, crashes>>
           /\ Answered' = Answered /\ Storages' = Storages
<1> DEFINE rest == [wr EXCEPT ![<<p, q>>] = 0]
           all == AllWritten(p, rest)
<1>1. /\ wr' = rest /\ pc' = (IF all THEN [pc EXCEPT ![p] = "recv"] ELSE pc)
      /\ UNCHANGED <<rnd, status, rd, crashes>>
    BY DEF Sent
<1>2. wr \in [Links -> Nat] /\ pc \in [Parties -> {"take", "send", "recv"}]
    BY DEF FramesInv, FrameTypes
<1>3. Reached[p] = {a \in Peers(p) : wr[<<p, a>>] = 0}
    BY DEF Reached
<1>4. \A a \in Parties : \A b \in Peers(a) :
          rest[<<a, b>>] = IF a = p /\ b = q THEN 0 ELSE wr[<<a, b>>]
    <2> SUFFICES ASSUME NEW a \in Parties, NEW b \in Peers(a)
                 PROVE  rest[<<a, b>>] = IF a = p /\ b = q THEN 0 ELSE wr[<<a, b>>]
        OBVIOUS
    <2>1. <<a, b>> \in Links /\ (<<a, b>> = <<p, q>> <=> (a = p /\ b = q))
        BY PeerLinks
    <2> QED
        BY <1>2, <2>1
<1>5. {a \in Peers(p) : rest[<<p, a>>] = 0} = Reached[p] \cup {q}
    BY <1>3, <1>4
<1>6. all <=> Reached[p] \cup {q} = Peers(p)
    <2>1. all <=> \A a \in Peers(p) : rest[<<p, a>>] = 0
        <3>1. ASSUME NEW a \in Peers(p) PROVE <<p, a>> \in Out(p)
            BY PeerLinks DEF Out
        <3>2. ASSUME NEW l \in Out(p) PROVE l[2] \in Peers(p) /\ l = <<p, l[2]>>
            BY LinkEnds DEF Out, Peers
        <3> QED
            BY <3>1, <3>2 DEF AllWritten
    <2> HIDE DEF all, rest
    <2> QED
        BY <1>5, <2>1
<1>7. Reached' = [a \in Parties |->
                    IF a = p THEN (IF all THEN {} ELSE Reached[p] \cup {q}) ELSE Reached[a]]
    <2>1. Reached' = [a \in Parties |->
              IF pc'[a] = "send" THEN {b \in Peers(a) : wr'[<<a, b>>] = 0} ELSE {}]
        BY DEF Reached, Peers
    <2>2. ASSUME NEW a \in Parties
          PROVE  (IF pc'[a] = "send" THEN {b \in Peers(a) : wr'[<<a, b>>] = 0} ELSE {})
                   = IF a = p THEN (IF all THEN {} ELSE Reached[p] \cup {q}) ELSE Reached[a]
        <3>1. CASE a = p
            <4>1. pc'[a] = IF all THEN "recv" ELSE "send"
                BY <1>1, <1>2, <3>1
            <4> HIDE DEF all
            <4>2. {b \in Peers(a) : wr'[<<a, b>>] = 0} = Reached[p] \cup {q}
                BY <1>1, <1>5, <3>1
            <4> QED
                BY <3>1, <4>1, <4>2
        <3>2. CASE a # p
            <4>1. pc'[a] = pc[a]
                BY <1>1, <1>2, <3>2
            <4>2. {b \in Peers(a) : wr'[<<a, b>>] = 0} = {b \in Peers(a) : wr[<<a, b>>] = 0}
                BY <1>1, <1>4, <3>2
            <4>3. Reached[a] =
                      IF pc[a] = "send" THEN {b \in Peers(a) : wr[<<a, b>>] = 0} ELSE {}
                BY DEF Reached
            <4> QED
                BY <3>2, <4>1, <4>2, <4>3
        <3> QED
            BY <3>1, <3>2
    <2> HIDE DEF all
    <2> QED
        BY <2>1, <2>2
<1>8. q \in Peers(p) \ Reached[p]
    BY <1>3
<1>9. DOMAIN Reached = Parties
    BY DEF Reached
<1>10. Reached = [a \in Parties |-> Reached[a]]
    BY DEF Reached
<1>11. Answered' = Answered /\ Storages' = Storages
    BY <1>1, MappedSame
<1> HIDE DEF all
<1>12. CASE Reached[p] \cup {q} = Peers(p)
    <2>1. Reached' = [a \in Parties |-> IF a = p THEN {} ELSE Reached[a]]
        BY <1>6, <1>7, <1>12
    <2>2. Reached' = [Reached EXCEPT ![p] = {}]
        BY <1>10, <2>1
    <2> QED
        BY <1>1, <1>6, <1>8, <1>11, <1>12, <2>2
<1>13. CASE Reached[p] \cup {q} # Peers(p)
    <2>1. Reached' = [a \in Parties |-> IF a = p THEN Reached[p] \cup {q} ELSE Reached[a]]
        BY <1>6, <1>7, <1>13
    <2>2. Reached' = [Reached EXCEPT ![p] = Reached[p] \cup {q}]
        BY <1>10, <2>1
    <2> QED
        BY <1>1, <1>6, <1>8, <1>11, <1>13, <2>2
<1> QED
    BY <1>12, <1>13

LEMMA WriteFailsSends ==
    ASSUME FramesInv, NEW p \in Parties, NEW q \in Peers(p), WriteFails(p, q)
    PROVE  Abstract!Send(p, q)
<1>1. /\ Up(p) /\ pc[p] = "send" /\ wr[<<p, q>>] # 0 /\ ~Up(q) /\ UNCHANGED link
      /\ Sent(p, [wr EXCEPT ![<<p, q>>] = 0])
    BY DEF WriteFails
<1>2. /\ q \in Peers(p) \ Reached[p]
      /\ IF Reached[p] \cup {q} = Peers(p)
         THEN /\ Reached' = [Reached EXCEPT ![p] = {}]
              /\ pc' = [pc EXCEPT ![p] = "recv"]
         ELSE /\ Reached' = [Reached EXCEPT ![p] = Reached[p] \cup {q}]
              /\ UNCHANGED pc
      /\ UNCHANGED <<rnd, status, crashes>>
      /\ Answered' = Answered /\ Storages' = Storages
    BY <1>1, SendReturns
<1>3. InTransit' = InTransit /\ NoTokens' = NoTokens /\ Counters' = Counters
    BY <1>1, MappedSame
<1>4. Abstract!Up(p) /\ ~Abstract!Up(q) /\ Abstract!Peers(p) = Peers(p)
    BY <1>1, BroadcastFacts
<1> QED
    BY <1>1, <1>2, <1>3, <1>4 DEF Abstract!Send

\* What a step does to the messages of one link.
LEMMA TransitChanges ==
    ASSUME NEW l \in Links, NEW m, Messages(l[1], link'[l]) = m,
           \A k \in Links : k # l => link'[k] = link[k]
    PROVE  InTransit' = [InTransit EXCEPT ![l] = m]
<1>1. InTransit = [k \in Links |-> Messages(k[1], link[k])]
    BY DEF InTransit
<1>2. \A k \in Links : Messages(k[1], link'[k]) = IF k = l THEN m ELSE Messages(k[1], link[k])
    OBVIOUS
<1> QED
    BY <1>1, <1>2, TransitNext

\* The unit that is written next is the one at the writer's place.
LEMMA NextUnitIs ==
    ASSUME FramesInv, NEW l \in Links, Up(l[1]), pc[l[1]] = "send", wr[l] > 0
    PROVE  /\ NextUnit(l) \in Unit /\ Genuine(NextUnit(l))
           /\ NextUnit(l).rnd = rnd[l[1]]
           /\ Last(NextUnit(l)) <=> wr[l] = 1
           /\ At(NextUnit(l)) = WriteNext(l)
<1> DEFINE u == NextUnit(l)
           r == rnd[l[1]]
           n == CmdLen(r)
<1>1. WriterOf(l) /\ FrameTypes /\ l[1] \in Parties
    BY LinkEnds DEF FramesInv
<1>2. n \in Nat \ {0} /\ wr[l] \in Nat
    BY <1>1, FrameFacts
<1>3. wr[l] \in 1..n + 1
    BY <1>1, <1>2 DEF WriterOf
<1>4. r \in Rounds
    BY <1>1, UpInRound
<1>5. u = [val |-> IF n + 1 - wr[l] = 0 THEN n ELSE PayloadVal,
           rnd |-> r, pos |-> n + 1 - wr[l]]
    BY DEF NextUnit
<1> HIDE DEF u, n, r
<1>6. u.rnd = r /\ u.pos = n + 1 - wr[l] /\ u.val = IF u.pos = 0 THEN n ELSE PayloadVal
    BY <1>5
<1>7. n + 1 - wr[l] \in 0..n /\ (n + 1 - wr[l] = n <=> wr[l] = 1)
    BY <1>2, <1>3
<1>8. u \in Unit
    BY <1>2, <1>4, <1>5, <1>7 DEF Unit, PayloadVal
<1>9. Genuine(u)
    BY <1>6, <1>7 DEF Genuine, n
<1>10. Last(u) <=> wr[l] = 1
    BY <1>6, <1>7 DEF Last, n
<1>11. WriteNext(l) = <<r, n + 1 - wr[l]>>
    <2>1. wr[l] # 0 /\ pc[l[1]] # "take"
        BY <1>3
    <2> QED
        BY <2>1 DEF WriteNext, Left, r, n
<1>12. At(u) = WriteNext(l)
    BY <1>6, <1>11 DEF At
<1> QED
    BY <1>6, <1>8, <1>9, <1>10, <1>12 DEF u, r

\* A write that completes the frame sends the message; no other write is seen.
LEMMA WriteSends ==
    ASSUME FramesInv, QuietInv, NEW p \in Parties, NEW q \in Peers(p), Write(p, q)
    PROVE  Abstract!Send(p, q) \/ UNCHANGED Abstract!vars
<1> DEFINE l == <<p, q>>
           u == NextUnit(l)
           ms == Messages(p, link[l])
<1>1. /\ Up(p) /\ pc[p] = "send" /\ wr[l] > 0 /\ Up(q)
      /\ link' = [link EXCEPT ![l] = Append(@, u)]
      /\ Sent(p, [wr EXCEPT ![l] = @ - 1])
    BY DEF Write
<1>2. l \in Links /\ l[1] = p /\ l[2] = q
    BY PeerLinks
<1>3. FrameTypes /\ BufferOf(l) /\ Gapless(link[l])
    BY <1>2, LinkGapless DEF FramesInv
<1>4. /\ u \in Unit /\ Genuine(u) /\ u.rnd = rnd[p]
      /\ Last(u) <=> wr[l] = 1
      /\ At(u) = WriteNext(l)
    BY <1>1, <1>2, NextUnitIs
<1>5. link[l] # << >> => At(u) = After(link[l][Len(link[l])].rnd, link[l][Len(link[l])].pos)
    BY <1>1, <1>2, <1>3, <1>4 DEF BufferOf
<1>6. link \in [Links -> Seq(Unit)] /\ wr \in [Links -> Nat]
    BY <1>3 DEF FrameTypes
<1>7. link'[l] = Append(link[l], u) /\ \A k \in Links : k # l => link'[k] = link[k]
    BY <1>1, <1>2, <1>6
<1>8. InTransit[l] = ms
    BY <1>2 DEF InTransit
<1>9. NoTokens' = NoTokens /\ Counters' = Counters
    BY MappedSame
<1> HIDE DEF l, u, ms
<1>10. Messages(p, link'[l]) = IF Last(u) THEN Append(ms, AsMessage(p, u.rnd)) ELSE ms
    BY <1>3, <1>4, <1>5, <1>7, MessagesAppend DEF ms
<1>11. CASE wr[l] = 1
    <2>1. Sent(p, [wr EXCEPT ![l] = 0]) /\ wr[l] # 0
        BY <1>1, <1>11
    <2>2. /\ q \in Peers(p) \ Reached[p]
          /\ IF Reached[p] \cup {q} = Peers(p)
             THEN /\ Reached' = [Reached EXCEPT ![p] = {}]
                  /\ pc' = [pc EXCEPT ![p] = "recv"]
             ELSE /\ Reached' = [Reached EXCEPT ![p] = Reached[p] \cup {q}]
                  /\ UNCHANGED pc
          /\ UNCHANGED <<rnd, status, crashes>>
          /\ Answered' = Answered /\ Storages' = Storages
        BY <1>1, <2>1, SendReturns DEF l
    <2>3. Len(InTransit[l]) < 2
        BY <1>1, <1>2, <1>8, TransitBound DEF ms
    <2>4. Abstract!OwnMessage(p) = AsMessage(p, rnd[p])
        BY <1>1, UpInRound, OwnMessageIs
    <2>5. InTransit' = [InTransit EXCEPT ![l] = Append(InTransit[l], Abstract!OwnMessage(p))]
        <3>1. Messages(l[1], link'[l]) = Append(InTransit[l], Abstract!OwnMessage(p))
            BY <1>2, <1>4, <1>8, <1>10, <1>11, <2>4
        <3> QED
            BY <1>2, <1>7, <3>1, TransitChanges
    <2>6. Abstract!Up(p) /\ Abstract!Up(q) /\ Abstract!Peers(p) = Peers(p)
        BY <1>1, BroadcastFacts
    <2> QED
        BY <1>1, <1>9, <2>2, <2>3, <2>5, <2>6 DEF Abstract!Send, l
<1>12. CASE wr[l] # 1
    <2> DEFINE rest == [wr EXCEPT ![l] = wr[l] - 1]
    <2>1. rest[l] # 0 /\ l \in Out(p)
        BY <1>1, <1>2, <1>6, <1>12 DEF Out
    <2>2. /\ ~AllWritten(p, rest) /\ wr' = rest /\ UNCHANGED <<rnd, status, rd, crashes>>
        BY <1>1, <2>1 DEF Sent, AllWritten
    <2>3. pc' = pc
        BY <1>1, <2>2 DEF Sent
    <2>4. \A a \in Parties : \A b \in Peers(a) : wr'[<<a, b>>] = 0 <=> wr[<<a, b>>] = 0
        <3> SUFFICES ASSUME NEW a \in Parties, NEW b \in Peers(a)
                     PROVE  wr'[<<a, b>>] = 0 <=> wr[<<a, b>>] = 0
            OBVIOUS
        <3>1. <<a, b>> \in Links
            BY PeerLinks
        <3>2. CASE <<a, b>> = l
            BY <1>1, <2>1, <2>2, <3>2
        <3>3. CASE <<a, b>> # l
            BY <1>6, <2>2, <3>1, <3>3
        <3> QED
            BY <3>2, <3>3
    <2>5. Reached' = Reached
        <3>1. \A a \in Parties :
                  {b \in Peers(a) : wr'[<<a, b>>] = 0} = {b \in Peers(a) : wr[<<a, b>>] = 0}
            BY <2>4
        <3>2. Reached' = [a \in Parties |->
                  IF pc'[a] = "send" THEN {b \in Peers(a) : wr'[<<a, b>>] = 0} ELSE {}]
            BY DEF Reached, Peers
        <3> QED
            BY <2>3, <3>1, <3>2 DEF Reached
    <2>6. InTransit' = InTransit
        <3>1. Messages(l[1], link'[l]) = InTransit[l]
            BY <1>2, <1>4, <1>8, <1>10, <1>12
        <3>2. InTransit' = [InTransit EXCEPT ![l] = InTransit[l]]
            BY <1>2, <1>7, <3>1, TransitChanges
        <3> QED
            BY <3>2 DEF InTransit
    <2>7. Answered' = Answered /\ Storages' = Storages
        BY <2>2, MappedSame
    <2> QED
        BY <1>9, <2>2, <2>3, <2>5, <2>6, <2>7 DEF Abstract!vars
<1> QED
    BY <1>11, <1>12

\* A link whose first unit is read.
LEMMA TransitRead ==
    ASSUME FramesInv, NEW l \in Links, link[l] # << >>,
           link' = [link EXCEPT ![l] = Tail(link[l])]
    PROVE  /\ ~Last(link[l][1]) => InTransit' = InTransit
           /\ Last(link[l][1]) =>
                 /\ InTransit[l] # << >>
                 /\ Head(InTransit[l]) = AsMessage(l[1], link[l][1].rnd)
                 /\ InTransit' = [InTransit EXCEPT ![l] = Tail(InTransit[l])]
<1>1. Gapless(link[l])
    BY LinkGapless
<1>2. InTransit[l] = Messages(l[1], link[l])
    BY DEF InTransit
<1>3. link \in [Links -> Seq(Unit)]
    BY DEF FramesInv, FrameTypes
<1>4. link'[l] = Tail(link[l]) /\ \A k \in Links : k # l => link'[k] = link[k]
    BY <1>3
<1>5. InTransit' = [InTransit EXCEPT ![l] = Messages(l[1], link'[l])]
    BY <1>4, TransitChanges
<1>6. CASE Last(link[l][1])
    <2>1. /\ InTransit[l] # << >>
          /\ Head(InTransit[l]) = AsMessage(l[1], link[l][1].rnd)
        BY <1>1, <1>2, <1>6, MessagesTail
    <2>2. Messages(l[1], Tail(link[l])) = Tail(InTransit[l])
        BY <1>1, <1>2, <1>6, MessagesTail
    <2>3. InTransit' = [InTransit EXCEPT ![l] = Tail(InTransit[l])]
        BY <1>4, <1>5, <2>2
    <2> QED
        BY <1>6, <2>1, <2>3
<1>7. CASE ~Last(link[l][1])
    <2>1. Messages(l[1], link'[l]) = InTransit[l]
        BY <1>1, <1>2, <1>4, <1>7, MessagesTail
    <2>2. [InTransit EXCEPT ![l] = InTransit[l]] = InTransit
        BY DEF InTransit
    <2> QED
        BY <1>5, <1>7, <2>1, <2>2
<1> QED
    BY <1>6, <1>7

\* How the state of one receive shows in the rounds.
LEMMA AnswerChanges ==
    ASSUME FramesInv, NEW p \in Parties, NEW q \in Peers(p), NEW v,
           rd' = [rd EXCEPT ![<<q, p>>] = v], rd[<<q, p>>] \notin {0, None}, rnd' = rnd
    PROVE  /\ q \in Peers(p) \ Answered[p]
           /\ v \notin {0, None} => Answered' = Answered
           /\ v \in {0, None} => Answered' = [Answered EXCEPT ![p] = Answered[p] \cup {q}]
           /\ v # 0 => Storages' = Storages
           /\ v = 0 => Storages' = [Storages EXCEPT ![p]["beaver"] =
                                       Storages[p]["beaver"] \cup {AsMessage(q, rnd[p])}]
<1>1. rd \in [Links -> Nat \cup {AtPrefix, None}]
    BY DEF FramesInv, FrameTypes
<1>2. \A a \in Parties : \A b \in Peers(a) :
          rd'[<<b, a>>] = IF a = p /\ b = q THEN v ELSE rd[<<b, a>>]
    <2> SUFFICES ASSUME NEW a \in Parties, NEW b \in Peers(a)
                 PROVE  rd'[<<b, a>>] = IF a = p /\ b = q THEN v ELSE rd[<<b, a>>]
        OBVIOUS
    <2>1. <<b, a>> \in Links /\ (<<b, a>> = <<q, p>> <=> (a = p /\ b = q))
        BY PeerLinks
    <2> QED
        BY <1>1, <2>1
<1>3. Answered = [a \in Parties |-> {b \in Peers(a) : rd[<<b, a>>] \in {0, None}}]
    BY DEF Answered
<1>4. Answered' = [a \in Parties |-> {b \in Peers(a) : rd'[<<b, a>>] \in {0, None}}]
    BY DEF Answered, Peers, None
<1>5. q \in Peers(p) \ Answered[p]
    BY <1>3
<1>6. ASSUME v \notin {0, None} PROVE Answered' = Answered
    <2>1. \A a \in Parties : {b \in Peers(a) : rd'[<<b, a>>] \in {0, None}}
                               = {b \in Peers(a) : rd[<<b, a>>] \in {0, None}}
        BY <1>2, <1>6
    <2> QED
        BY <1>3, <1>4, <2>1
<1>7. ASSUME v \in {0, None}
      PROVE  Answered' = [Answered EXCEPT ![p] = Answered[p] \cup {q}]
    <2>1. ASSUME NEW a \in Parties
          PROVE  {b \in Peers(a) : rd'[<<b, a>>] \in {0, None}}
                   = IF a = p THEN Answered[p] \cup {q} ELSE Answered[a]
        <3>1. Answered[a] = {b \in Peers(a) : rd[<<b, a>>] \in {0, None}}
            BY <1>3
        <3>2. CASE a = p
            BY <1>2, <1>7, <3>1, <3>2
        <3>3. CASE a # p
            BY <1>2, <3>1, <3>3
        <3> QED
            BY <3>2, <3>3
    <2>2. Answered = [a \in Parties |-> Answered[a]]
        BY <1>3
    <2>3. Answered' = [a \in Parties |-> IF a = p THEN Answered[p] \cup {q} ELSE Answered[a]]
        BY <1>4, <2>1
    <2> QED
        BY <2>2, <2>3
<1> DEFINE old(a) == {AsMessage(b, rnd[a]) : b \in {b \in Peers(a) : rd[<<b, a>>] = 0}}
           new(a) == {AsMessage(b, rnd[a]) : b \in {b \in Peers(a) : rd'[<<b, a>>] = 0}}
<1>8. Storages = [a \in Parties |-> [k \in RoundKinds |->
                     IF k = "beaver" THEN old(a) ELSE {}]]
    BY DEF Storages, Filed
<1>9. Storages' = [a \in Parties |-> [k \in RoundKinds |->
                     IF k = "beaver" THEN new(a) ELSE {}]]
    BY StoragesNext
<1>10. ASSUME v # 0 PROVE Storages' = Storages
    <2>1. \A a \in Parties : {b \in Peers(a) : rd'[<<b, a>>] = 0}
                               = {b \in Peers(a) : rd[<<b, a>>] = 0}
        BY <1>2, <1>10
    <2>2. \A a \in Parties : new(a) = old(a)
        BY <2>1
    <2> HIDE DEF old, new
    <2> QED
        BY <1>8, <1>9, <2>2
<1>11. ASSUME v = 0
       PROVE  Storages' = [Storages EXCEPT ![p]["beaver"] =
                              Storages[p]["beaver"] \cup {AsMessage(q, rnd[p])}]
    <2>1. \A a \in Parties : a # p =>
              {b \in Peers(a) : rd'[<<b, a>>] = 0} = {b \in Peers(a) : rd[<<b, a>>] = 0}
        BY <1>2
    <2>2. {b \in Peers(p) : rd'[<<b, p>>] = 0} = {b \in Peers(p) : rd[<<b, p>>] = 0} \cup {q}
        BY <1>2, <1>11
    <2>3. \A a \in Parties : a # p => new(a) = old(a)
        BY <2>1
    <2>4. new(p) = old(p) \cup {AsMessage(q, rnd[p])}
        BY <2>2, Zenon
    <2>5. "beaver" \in RoundKinds
        BY DEF RoundKinds
    <2> HIDE DEF old, new
    <2>6. /\ Storages[p]["beaver"] = old(p)
          /\ Storages[p] = [k \in RoundKinds |-> IF k = "beaver" THEN old(p) ELSE {}]
          /\ \A a \in Parties : Storages[a] = [k \in RoundKinds |->
                                    IF k = "beaver" THEN old(a) ELSE {}]
        BY <1>8, <2>5
    <2>7. [k \in RoundKinds |-> IF k = "beaver" THEN new(p) ELSE {}]
            = [Storages[p] EXCEPT !["beaver"] = new(p)]
        BY <2>6
    <2>8. Storages' = [a \in Parties |->
              IF a = p THEN [Storages[p] EXCEPT !["beaver"] = new(p)] ELSE Storages[a]]
        <3>1. ASSUME NEW a \in Parties
              PROVE  [k \in RoundKinds |-> IF k = "beaver" THEN new(a) ELSE {}]
                       = IF a = p THEN [Storages[p] EXCEPT !["beaver"] = new(p)]
                         ELSE Storages[a]
            <4>1. CASE a = p
                BY <2>7, <4>1
            <4>2. CASE a # p
                <5>1. new(a) = old(a)
                    BY <2>3, <4>2
                <5>2. Storages[a] = [k \in RoundKinds |-> IF k = "beaver" THEN old(a) ELSE {}]
                    BY <2>6
                <5> QED
                    BY <4>2, <5>1, <5>2
            <4> QED
                BY <4>1, <4>2
        <3> QED
            BY <1>9, <3>1
    <2>9. Storages' = [Storages EXCEPT ![p] = [Storages[p] EXCEPT !["beaver"] = new(p)]]
        BY <1>8, <2>8
    <2> QED
        BY <2>4, <2>6, <2>9
<1> QED
    BY <1>5, <1>6, <1>7, <1>10, <1>11

\* A prefix is no end of a frame: reading it is not seen.
LEMMA ReadPrefixStutters ==
    ASSUME FramesInv, NEW p \in Parties, NEW q \in Peers(p), ReadPrefix(p, q)
    PROVE  UNCHANGED Abstract!vars
<1> DEFINE l == <<q, p>>
           u == link[l][1]
<1>1. /\ rd[l] = AtPrefix /\ link[l] # << >>
      /\ rd' = [rd EXCEPT ![l] = Head(link[l]).val]
      /\ link' = [link EXCEPT ![l] = Tail(link[l])]
      /\ UNCHANGED <<rnd, pc, status, wr, crashes>>
    BY DEF ReadPrefix
<1>2. l \in Links /\ l[1] = q /\ l[2] = p
    BY PeerLinks
<1>3. /\ Head(link[l]) = u /\ u.pos = 0 /\ u.rnd = rnd[p] /\ u.val = CmdLen(rnd[p])
    BY <1>1, <1>2, HeadOfLink
<1>4. CmdLen(rnd[p]) \in Nat \ {0}
    BY <1>2, FrameFacts DEF FramesInv
<1>5. ~Last(u)
    BY <1>3, <1>4 DEF Last
<1>6. InTransit' = InTransit
    BY <1>1, <1>2, <1>5, TransitRead
<1>7. u.val \notin {0, None} /\ rd[l] \notin {0, None} /\ rd' = [rd EXCEPT ![l] = u.val]
    <2>1. CmdLen(rnd[p]) \notin {0, None}
        BY <1>4 DEF None
    <2>2. AtPrefix \notin {0, None}
        BY DEF AtPrefix, None
    <2> HIDE DEF u
    <2>3. u.val \notin {0, None}
        BY <1>3, <2>1
    <2>4. rd[l] \notin {0, None}
        BY <1>1, <2>2
    <2>5. Head(link[l]).val = u.val
        BY <1>3
    <2> QED
        BY <1>1, <2>3, <2>4, <2>5
<1>8. Answered' = Answered /\ Storages' = Storages
    BY <1>1, <1>7, AnswerChanges
<1>9. Reached' = Reached /\ NoTokens' = NoTokens /\ Counters' = Counters
    BY <1>1, MappedSame
<1> QED
    BY <1>1, <1>6, <1>8, <1>9 DEF Abstract!vars

\* The last unit of a frame is the message.
LEMMA ReadPayloadReceives ==
    ASSUME FramesInv, NEW p \in Parties, NEW q \in Peers(p), ReadPayload(p, q)
    PROVE  Abstract!Receive(p, q) \/ UNCHANGED Abstract!vars
<1> DEFINE l == <<q, p>>
           u == link[l][1]
           n == CmdLen(rnd[p])
<1>1. /\ Up(p) /\ pc[p] = "recv" /\ rd[l] > 0 /\ rd[l] # None /\ link[l] # << >>
      /\ rd' = [rd EXCEPT ![l] = rd[l] - 1]
      /\ link' = [link EXCEPT ![l] = Tail(link[l])]
      /\ UNCHANGED <<rnd, pc, status, wr, crashes>>
    BY DEF ReadPayload, Reading
<1>2. l \in Links /\ l[1] = q /\ l[2] = p
    BY PeerLinks
<1>3. /\ Head(link[l]) = u /\ rd[l] \in Nat
      /\ u = [val |-> PayloadVal, rnd |-> rnd[p], pos |-> n + 1 - rd[l]]
    BY <1>1, <1>2, HeadOfLink
<1>4. n \in Nat \ {0}
    BY <1>2, FrameFacts DEF FramesInv
<1> HIDE DEF u
<1>5. u.rnd = rnd[p] /\ u.pos = n + 1 - rd[l]
    BY <1>3
<1> HIDE DEF n
<1>6. Last(u) <=> rd[l] = 1
    <2>1. CmdLen(u.rnd) = n
        BY <1>5 DEF n
    <2>2. n + 1 - rd[l] = n <=> rd[l] = 1
        BY <1>3, <1>4
    <2> QED
        BY <1>5, <2>1, <2>2 DEF Last
<1>7. rd[l] \notin {0, None}
    BY <1>1, <1>3
<1>8. Reached' = Reached /\ NoTokens' = NoTokens /\ Counters' = Counters
    BY <1>1, MappedSame
<1>9. CASE rd[l] = 1
    <2>1. rd' = [rd EXCEPT ![l] = 0]
        BY <1>1, <1>9
    <2>2. /\ q \in Peers(p) \ Answered[p]
          /\ Answered' = [Answered EXCEPT ![p] = Answered[p] \cup {q}]
          /\ Storages' = [Storages EXCEPT ![p]["beaver"] =
                             Storages[p]["beaver"] \cup {AsMessage(q, rnd[p])}]
        BY <1>1, <1>7, <2>1, AnswerChanges
    <2>3. /\ InTransit[l] # << >>
          /\ Head(InTransit[l]) = AsMessage(q, rnd[p])
          /\ InTransit' = [InTransit EXCEPT ![l] = Tail(InTransit[l])]
        BY <1>1, <1>2, <1>5, <1>6, <1>9, TransitRead DEF u
    <2>4. AsMessage(q, rnd[p]).kind = "beaver"
        BY DEF AsMessage
    <2>5. Abstract!Up(p) /\ Abstract!Peers(p) = Peers(p)
        BY <1>1, BroadcastFacts
    <2> QED
        BY <1>1, <1>8, <2>2, <2>3, <2>4, <2>5 DEF Abstract!Receive
<1>10. CASE rd[l] # 1
    <2>1. rd[l] - 1 \notin {0, None}
        BY <1>1, <1>3, <1>10 DEF None
    <2>2. Answered' = Answered /\ Storages' = Storages
        BY <1>1, <1>7, <2>1, AnswerChanges
    <2>3. InTransit' = InTransit
        BY <1>1, <1>2, <1>6, <1>10, TransitRead DEF u
    <2> QED
        BY <1>1, <1>8, <2>2, <2>3 DEF Abstract!vars
<1> QED
    BY <1>9, <1>10

\* A stream that ends, within a frame or not, is a message that never comes.
LEMMA ReadCutReturnsNone ==
    ASSUME FramesInv, NEW p \in Parties, NEW q \in Peers(p), ReadCut(p, q)
    PROVE  Abstract!ReceiveNone(p, q)
<1> DEFINE l == <<q, p>>
<1>1. /\ Up(p) /\ pc[p] = "recv" /\ rd[l] # 0 /\ rd[l] # None /\ link[l] = << >> /\ ~Up(q)
      /\ rd' = [rd EXCEPT ![l] = None]
      /\ UNCHANGED <<rnd, pc, status, wr, link, crashes>>
    BY DEF ReadCut, Reading
<1>2. l \in Links
    BY PeerLinks
<1>3. InTransit[l] = << >>
    BY <1>1, <1>2, NoMessages DEF InTransit
<1>4. None # 0 /\ None \in {0, None} /\ rd[l] \notin {0, None}
    BY <1>1 DEF None
<1>5. /\ q \in Peers(p) \ Answered[p] /\ Storages' = Storages
      /\ Answered' = [Answered EXCEPT ![p] = Answered[p] \cup {q}]
    BY <1>1, <1>4, AnswerChanges
<1>6. /\ Reached' = Reached /\ NoTokens' = NoTokens /\ Counters' = Counters
      /\ InTransit' = InTransit
    BY <1>1, MappedSame
<1>7. Abstract!Up(p) /\ ~Abstract!Up(q) /\ Abstract!Peers(p) = Peers(p)
    BY <1>1, BroadcastFacts
<1> QED
    BY <1>1, <1>3, <1>5, <1>6, <1>7 DEF Abstract!ReceiveNone

\* All receives have returned; as many messages are filed as peers have
\* answered with a whole command.
LEMMA RoundComplete ==
    ASSUME FramesInv, NEW p \in Parties, Returned(p)
    PROVE  /\ Answered[p] = Peers(p)
           /\ rnd[p] \in Rounds
           /\ Abstract!Enough(p) <=> Complete(p)
<1> DEFINE S == {q \in Peers(p) : rd[<<q, p>>] = 0}
           T == {AsMessage(q, rnd[p]) : q \in S}
           f == [q \in S |-> AsMessage(q, rnd[p])]
<1>1. Up(p) /\ pc[p] = "recv" /\ \A l \in In(p) : rd[l] \in {0, None}
    BY DEF Returned
<1>2. \A q \in Peers(p) : <<q, p>> \in In(p)
    BY PeerLinks DEF In
<1>3. Answered[p] = Peers(p)
    BY <1>1, <1>2 DEF Answered
<1>4. rnd[p] \in Rounds
    BY <1>1, UpInRound
<1>5. Complete(p) <=> S = Peers(p)
    <2>1. \A l \in In(p) : l[1] \in Peers(p) /\ l = <<l[1], p>>
        BY LinkEnds DEF In, Peers
    <2>2. Complete(p) <=> \A q \in Peers(p) : rd[<<q, p>>] = 0
        BY <1>2, <2>1 DEF Complete
    <2> QED
        BY <2>2
<1>6. IsFiniteSet(Peers(p)) /\ IsFiniteSet(S) /\ S \subseteq Peers(p)
    <2>1. IsFiniteSet(Peers(p))
        BY StreamsAssumption, FS_RemoveElement DEF Peers
    <2>2. S \in SUBSET Peers(p)
        OBVIOUS
    <2> QED
        BY <2>1, <2>2, FS_Subset
<1>7. Cardinality(T) = Cardinality(S)
    <2>1. f \in [S -> T]
        OBVIOUS
    <2>2. \A a, b \in S : f[a] = f[b] => a = b
        BY DEF AsMessage
    <2>3. \A t \in T : \E a \in S : f[a] = t
        OBVIOUS
    <2> HIDE DEF f, S, T
    <2>4. f \in Bijection(S, T)
        BY <2>1, <2>2, <2>3 DEF Bijection, Injection, Surjection, IsInjective
    <2>5. ExistsBijection(S, T)
        BY <2>4 DEF ExistsBijection
    <2> QED
        BY <1>6, <2>5, FS_Bijection
<1>8. Storages[p]["beaver"] = T
    BY DEF Storages, Filed, RoundKinds
<1>9. Abstract!Enough(p) <=> Cardinality(S) = Cardinality(Peers(p))
    <2>1. Abstract!Kind(rnd[p]) = "beaver" /\ Abstract!Peers(p) = Peers(p)
        BY <1>4, BroadcastFacts
    <2> HIDE DEF S, T
    <2>2. Abstract!Enough(p) <=>
             Cardinality(Storages[p]["beaver"]) = Cardinality(Peers(p))
        <3>1. \A X : Abstract!Cardinality(X) = Cardinality(X)
            BY DEF Abstract!Cardinality, Cardinality
        <3> QED
            BY <2>1, <3>1, Zenon DEF Abstract!Enough
    <2> QED
        BY <1>7, <1>8, <2>2, Zenon
<1> HIDE DEF S, T, f
<1>10. Cardinality(S) = Cardinality(Peers(p)) <=> S = Peers(p)
    BY <1>6, FS_Subset
<1> QED
    BY <1>3, <1>4, <1>5, <1>9, <1>10

LEMMA FinishCombines ==
    ASSUME FramesInv, NEW p \in Parties, Finish(p)
    PROVE  Abstract!Combine(p)
<1>1. /\ Returned(p) /\ Complete(p)
      /\ rnd' = [rnd EXCEPT ![p] = rnd[p] + 1]
      /\ pc' = [pc EXCEPT ![p] = "take"]
      /\ status' = IF rnd[p] = LastRound THEN [status EXCEPT ![p] = "done"] ELSE status
      /\ rd' = [l \in Links |-> IF l \in In(p) THEN AtPrefix ELSE rd[l]]
      /\ UNCHANGED <<wr, link, crashes>>
    BY DEF Finish
<1>2. Up(p) /\ pc[p] = "recv"
    BY <1>1 DEF Returned
<1>3. Answered[p] = Peers(p) /\ rnd[p] \in Rounds /\ Abstract!Enough(p)
    BY <1>1, RoundComplete
<1>4. /\ rnd \in [Parties -> 1..LastRound + 1]
      /\ pc \in [Parties -> {"take", "send", "recv"}]
    BY DEF FramesInv, FrameTypes
<1>5. AtPrefix \notin {0, None}
    BY DEF AtPrefix, None
<1>6. \A a \in Parties : \A b \in Peers(a) :
          rd'[<<b, a>>] = IF a = p THEN AtPrefix ELSE rd[<<b, a>>]
    <2> SUFFICES ASSUME NEW a \in Parties, NEW b \in Peers(a)
                 PROVE  rd'[<<b, a>>] = IF a = p THEN AtPrefix ELSE rd[<<b, a>>]
        OBVIOUS
    <2>1. <<b, a>> \in Links /\ (<<b, a>> \in In(p) <=> a = p)
        BY PeerLinks DEF In
    <2> QED
        BY <1>1, <2>1
<1>7. Answered' = [Answered EXCEPT ![p] = {}]
    <2>1. Answered' = [a \in Parties |-> {b \in Peers(a) : rd'[<<b, a>>] \in {0, None}}]
        BY DEF Answered, Peers, None
    <2>2. ASSUME NEW a \in Parties
          PROVE  {b \in Peers(a) : rd'[<<b, a>>] \in {0, None}}
                   = IF a = p THEN {} ELSE Answered[a]
        <3>1. Answered[a] = {b \in Peers(a) : rd[<<b, a>>] \in {0, None}}
            BY DEF Answered
        <3>2. CASE a = p
            BY <1>5, <1>6, <3>2
        <3>3. CASE a # p
            BY <1>6, <3>1, <3>3
        <3> QED
            BY <3>2, <3>3
    <2>3. Answered' = [a \in Parties |-> IF a = p THEN {} ELSE Answered[a]]
        BY <2>1, <2>2
    <2>4. Answered = [a \in Parties |-> Answered[a]]
        BY DEF Answered
    <2> QED
        BY <2>3, <2>4
<1>8. Storages' = [Storages EXCEPT ![p]["beaver"] = {}]
    <2> DEFINE old(a) == {AsMessage(b, rnd[a]) : b \in {b \in Peers(a) : rd[<<b, a>>] = 0}}
               new(a) == {AsMessage(b, rnd'[a]) : b \in {b \in Peers(a) : rd'[<<b, a>>] = 0}}
    <2>1. Storages = [a \in Parties |-> [k \in RoundKinds |->
                         IF k = "beaver" THEN old(a) ELSE {}]]
        BY DEF Storages, Filed
    <2>2. Storages' = [a \in Parties |-> [k \in RoundKinds |->
                         IF k = "beaver" THEN new(a) ELSE {}]]
        BY StoragesNext
    <2>3. new(p) = {}
        <3>1. {b \in Peers(p) : rd'[<<b, p>>] = 0} = {}
            BY <1>5, <1>6
        <3> QED
            BY <3>1
    <2>4. ASSUME NEW a \in Parties, a # p PROVE new(a) = old(a)
        <3>1. {b \in Peers(a) : rd'[<<b, a>>] = 0} = {b \in Peers(a) : rd[<<b, a>>] = 0}
            BY <1>6, <2>4
        <3>2. rnd'[a] = rnd[a]
            BY <1>1, <1>4, <2>4
        <3> QED
            BY <3>1, <3>2
    <2>5. "beaver" \in RoundKinds
        BY DEF RoundKinds
    <2> HIDE DEF old, new
    <2>6. \A a \in Parties : Storages[a] = [k \in RoundKinds |->
                                 IF k = "beaver" THEN old(a) ELSE {}]
        BY <2>1
    <2>7. [k \in RoundKinds |-> IF k = "beaver" THEN {} ELSE {}]
            = [Storages[p] EXCEPT !["beaver"] = {}]
        BY <2>6
    <2>8. ASSUME NEW a \in Parties
          PROVE  [k \in RoundKinds |-> IF k = "beaver" THEN new(a) ELSE {}]
                   = IF a = p THEN [Storages[p] EXCEPT !["beaver"] = {}] ELSE Storages[a]
        <3>1. CASE a = p
            BY <2>3, <2>7, <3>1
        <3>2. CASE a # p
            <4>1. new(a) = old(a)
                BY <2>4, <3>2
            <4>2. Storages[a] = [k \in RoundKinds |-> IF k = "beaver" THEN old(a) ELSE {}]
                BY <2>6
            <4> QED
                BY <3>2, <4>1, <4>2
        <3> QED
            BY <3>1, <3>2
    <2>9. Storages' = [a \in Parties |->
              IF a = p THEN [Storages[p] EXCEPT !["beaver"] = {}] ELSE Storages[a]]
        BY <2>2, <2>8
    <2> QED
        BY <2>1, <2>9
<1>9. Reached' = Reached
    <2>1. Reached' = [a \in Parties |->
              IF pc'[a] = "send" THEN {b \in Peers(a) : wr'[<<a, b>>] = 0} ELSE {}]
        BY DEF Reached, Peers
    <2>2. \A a \in Parties : pc'[a] = "send" <=> pc[a] = "send"
        BY <1>1, <1>2, <1>4
    <2> QED
        BY <1>1, <2>1, <2>2 DEF Reached
<1>10. InTransit' = InTransit /\ NoTokens' = NoTokens /\ Counters' = Counters
    BY <1>1, MappedSame
<1>11. /\ Abstract!Kind(rnd[p]) = "beaver" /\ Abstract!Up(p)
       /\ Abstract!Peers(p) = Peers(p) /\ Abstract!Rounds = Rounds
    BY <1>2, <1>3, BroadcastFacts
<1>12. status' = IF rnd[p] + 1 \in Abstract!Rounds THEN status ELSE [status EXCEPT ![p] = "done"]
    <2>1. rnd[p] + 1 \in Rounds <=> rnd[p] # LastRound
        BY <1>3, LastRoundType DEF Rounds
    <2> QED
        BY <1>1, <1>11, <2>1
<1> QED
    BY <1>1, <1>2, <1>3, <1>7, <1>8, <1>9, <1>10, <1>11, <1>12 DEF Abstract!Combine
----------------------------------------------------------------------------
(* Servers that leave.                                                     *)

\* What a server that leaves does to the messages of a link from it.
LEMMA LeaveCut ==
    ASSUME FramesInv, NEW p \in Parties, NEW how, NEW lossy, Leave(p, how, lossy),
           NEW l \in Links, l[1] = p
    PROVE  \E m \in 0..Len(InTransit[l]) :
              Messages(p, link'[l]) = SubSeq(InTransit[l], 1, m)
<1>1. Gapless(link[l]) /\ link[l] \in Seq(Unit)
    BY LinkGapless DEF Gapless
<1>2. InTransit[l] = Messages(p, link[l])
    BY DEF InTransit
<1>3. PICK k \in 0..Len(link[l]) : link'[l] = SubSeq(link[l], 1, k)
    <2>1. PICK keep \in [lossy -> 0..Cap] :
              link' = [x \in Links |->
                          IF x[2] = p THEN << >>
                          ELSE IF x[1] = p /\ x[2] \in lossy /\ keep[x[2]] < Len(link[x])
                               THEN SubSeq(link[x], 1, keep[x[2]])
                               ELSE link[x]]
        BY DEF Leave
    <2>2. l[2] # p
        BY LinkEnds
    <2>3. Len(link[l]) \in Nat /\ SubSeq(link[l], 1, Len(link[l])) = link[l]
        BY <1>1, SubSeqFull
    <2>4. CASE l[2] \in lossy /\ keep[l[2]] < Len(link[l])
        <3>1. link'[l] = SubSeq(link[l], 1, keep[l[2]])
            BY <2>1, <2>2, <2>4
        <3>2. keep[l[2]] \in 0..Cap
            BY <2>4
        <3>3. keep[l[2]] \in 0..Len(link[l])
            BY <2>3, <2>4, <3>2, StreamsAssumption
        <3> QED
            BY <3>1, <3>3
    <2>5. CASE ~(l[2] \in lossy /\ keep[l[2]] < Len(link[l]))
        <3>1. link'[l] = link[l]
            BY <2>1, <2>2, <2>5
        <3>2. Len(link[l]) \in 0..Len(link[l])
            BY <2>3
        <3> QED
            BY <2>3, <3>1, <3>2
    <2> QED
        BY <2>4, <2>5
<1> QED
    BY <1>1, <1>2, <1>3, MessagesCut

LEMMA CrashCrashes ==
    ASSUME FramesInv, QuietInv, NEW p \in Parties, Crash(p)
    PROVE  Abstract!Crash(p)
<1>1. /\ Up(p) /\ crashes < MaxCrashes /\ crashes' = crashes + 1
      /\ Leave(p, "crashed", Peers(p))
    BY DEF Crash
<1>2. /\ status' = [status EXCEPT ![p] = "crashed"]
      /\ UNCHANGED <<rnd, pc, wr, rd>>
    BY <1>1 DEF Leave
<1>3. /\ Reached' = Reached /\ Answered' = Answered /\ Storages' = Storages
      /\ Counters' = Counters /\ NoTokens' = NoTokens
    BY <1>2, MappedSame
<1>4. \A l \in Links :
          /\ l[2] = p => link'[l] = << >>
          /\ l[1] # p /\ l[2] # p => link'[l] = link[l]
    BY <1>1, LeaveLinks DEF FramesInv
<1> DEFINE Cut(q, m) == /\ m \in 0..Len(InTransit[<<p, q>>])
                        /\ Messages(p, link'[<<p, q>>]) = SubSeq(InTransit[<<p, q>>], 1, m)
           keep == [q \in Parties |-> IF q \in Peers(p) THEN CHOOSE m : Cut(q, m) ELSE 0]
<1>5. ASSUME NEW q \in Peers(p)
      PROVE  Cut(q, keep[q]) /\ Len(InTransit[<<p, q>>]) \in 0..2
    <2>1. q \in Parties /\ <<p, q>> \in Links /\ <<p, q>>[1] = p
        BY PeerLinks
    <2>2. \E m : Cut(q, m)
        BY <1>1, <2>1, LeaveCut
    <2>3. keep[q] = CHOOSE m : Cut(q, m)
        BY <2>1
    <2> HIDE DEF Cut, keep
    <2> DEFINE m0 == CHOOSE m : Cut(q, m)
    <2>4. Cut(q, keep[q])
        <3>1. Cut(q, m0)
            BY <2>2, Zenon
        <3>2. keep[q] = m0
            BY <2>3
        <3> HIDE DEF m0
        <3> QED
            BY <3>1, <3>2
    <2>5. InTransit[<<p, q>>] = Messages(p, link[<<p, q>>])
        BY <2>1 DEF InTransit
    <2>6. Len(InTransit[<<p, q>>]) \in 0..2
        <3> DEFINE n == Len(InTransit[<<p, q>>])
        <3>1. n \in Nat /\ n <= 2
            <4> DEFINE l == <<p, q>>
            <4>1. l \in Links /\ l[1] = p /\ Up(l[1]) /\ InTransit[l] = Messages(l[1], link[l])
                BY <1>1, <2>1, <2>5
            <4> HIDE DEF l
            <4>2. Len(InTransit[l]) \in Nat /\ Len(InTransit[l]) <= 2
                BY <4>1, TransitBound
            <4> QED
                BY <4>2 DEF l
        <3> HIDE DEF n
        <3>2. n \in 0..2
            BY <3>1
        <3> QED
            BY <3>2 DEF n
    <2> QED
        BY <2>4, <2>6
<1>6. keep \in [Parties -> 0..2]
    <2>1. ASSUME NEW q \in Parties PROVE keep[q] \in 0..2
        <3>1. CASE q \in Peers(p)
            <4> DEFINE k == keep[q]
                       n == Len(InTransit[<<p, q>>])
            <4>1. k \in 0..n /\ n \in 0..2
                BY <1>5, <3>1
            <4> HIDE DEF k, n
            <4>2. k \in 0..2
                BY <4>1
            <4> QED
                BY <4>2 DEF k
        <3>2. CASE q \notin Peers(p)
            BY <3>2
        <3> QED
            BY <3>1, <3>2
    <2> QED
        BY <2>1
<1> HIDE DEF keep
<1>7. ASSUME NEW l \in Links
      PROVE  Messages(l[1], link'[l]) =
                IF l[2] = p THEN << >>
                ELSE IF l[1] = p /\ l[2] \in Peers(p) /\ keep[l[2]] < Len(InTransit[l])
                     THEN SubSeq(InTransit[l], 1, keep[l[2]])
                     ELSE InTransit[l]
    <2>1. InTransit[l] = Messages(l[1], link[l])
        BY DEF InTransit
    <2>2. CASE l[2] = p
        BY <1>4, <2>2, NoMessages
    <2>3. CASE l[2] # p /\ l[1] # p
        BY <1>4, <2>1, <2>3
    <2>4. CASE l[2] # p /\ l[1] = p
        <3> DEFINE q == l[2]
                   k == keep[q]
                   n == Len(InTransit[l])
        <3>1. q \in Peers(p) /\ l = <<p, q>>
            BY <2>4, LinkEnds DEF Peers
        <3>2. /\ k \in 0..n /\ n \in 0..2
              /\ Messages(p, link'[l]) = SubSeq(InTransit[l], 1, k)
            BY <1>5, <3>1
        <3>3. SubSeq(InTransit[l], 1, n) = InTransit[l]
            <4>1. InTransit[l] \in Seq(Sends(p))
                BY <2>1, <2>4, LinkGapless, MessagesSeq
            <4> QED
                BY <4>1, SubSeqFull
        <3> HIDE DEF k, n
        <3>4. ~(k < n) => k = n
            BY <3>2
        <3> QED
            BY <2>4, <3>1, <3>2, <3>3, <3>4 DEF k, n
    <2> QED
        BY <2>2, <2>3, <2>4
<1>8. Abstract!Drop(p, Peers(p), keep)
    <2>1. InTransit' = [l \in Links |->
              IF l[2] = p THEN << >>
              ELSE IF l[1] = p /\ l[2] \in Peers(p) /\ keep[l[2]] < Len(InTransit[l])
                   THEN SubSeq(InTransit[l], 1, keep[l[2]])
                   ELSE InTransit[l]]
        BY <1>7, TransitNext
    <2> QED
        BY <2>1, BroadcastFacts DEF Abstract!Drop
<1>9. Abstract!Fail(p, "crashed", Abstract!Peers(p))
    BY <1>2, <1>6, <1>8, BroadcastFacts DEF Abstract!Fail
<1>10. Abstract!Up(p)
    BY <1>1, BroadcastFacts
<1> QED
    BY <1>1, <1>2, <1>3, <1>9, <1>10 DEF Abstract!Crash

\* Where a server that panics leaves something unread, the peer that sent it
\* has read all that the server had sent: nothing is lost by the reset.
LEMMA UnreadMeansRead ==
    ASSUME FramesInv, QuietInv, NEW p \in Parties, NEW q \in Peers(p), Returned(p),
           link[<<q, p>>] # << >>
    PROVE  link[<<p, q>>] = << >>
<1> DEFINE in == <<q, p>>
           out == <<p, q>>
<1>1. /\ in \in Links /\ in[1] = q /\ in[2] = p
      /\ out \in Links /\ out[1] = p /\ out[2] = q
    BY PeerLinks
<1>2. Up(p) /\ pc[p] = "recv" /\ rd[in] \in {0, None}
    <2>1. in \in In(p)
        BY <1>1 DEF In
    <2> QED
        BY <2>1 DEF Returned
<1>3. rd[in] = 0
    BY <1>1, <1>2 DEF FramesInv, BufferOf
<1>4. rnd[p] \in Nat /\ rnd[q] \in Nat
    BY <1>1, FrameFacts DEF FramesInv
<1>5. rnd[p] + 1 <= rnd[q]
    <2>1. ReadNext(in)[1] = rnd[p] + 1
        <3>1. 0 # AtPrefix
            BY DEF AtPrefix
        <3> QED
            BY <1>1, <1>3, <3>1 DEF ReadNext, Left
    <2>2. link[in][1].rnd = rnd[p] + 1
        BY <1>1, <2>1, FirstRound
    <2>3. 1 \in 1..Len(link[in])
        BY <1>1, LinkGapless, GaplessMessages
    <2>4. link[in][1].rnd <= rnd[q]
        BY <1>1, <2>3 DEF QuietInv, QuietOf
    <2> QED
        BY <2>2, <2>4
<1>6. CASE ~Up(q)
    BY <1>1, <1>6 DEF QuietInv, QuietOf
<1>7. CASE Up(q)
    <2> SUFFICES ASSUME link[out] # << >> PROVE FALSE
        OBVIOUS
    <2> DEFINE first == link[out][1]
               last == link[out][Len(link[out])]
    <2>1. /\ BufferOf(out) /\ WriterOf(out) /\ Gapless(link[out])
        BY <1>1, LinkGapless DEF FramesInv
    <2>2. wr[out] = 0 /\ pc[p] # "take"
        BY <1>1, <1>2, <2>1 DEF WriterOf
    <2>3. WriteNext(out) = <<rnd[p] + 1, 0>>
        BY <1>1, <2>2 DEF WriteNext, Left
    <2>4. After(last.rnd, last.pos) = <<rnd[p] + 1, 0>>
        BY <1>1, <1>2, <1>7, <2>1, <2>3 DEF BufferOf
    <2>5. first.rnd \in Nat /\ first.rnd <= last.rnd /\ Len(link[out]) \in 1..Len(link[out])
        BY <2>1, GaplessMessages
    <2>6. last \in Unit /\ last.rnd \in Nat /\ last.pos \in Nat
        <3>1. last \in Unit /\ Genuine(last)
            BY <2>1, <2>5, GaplessUnit
        <3> QED
            BY <3>1, UnitFacts
    <2>7. first.rnd = ReadNext(out)[1] /\ rnd[q] <= ReadNext(out)[1]
        BY <1>1, FirstRound, Places
    <2> HIDE DEF first, last
    <2>8. rnd[p] + 1 <= last.rnd
        BY <1>4, <1>5, <2>5, <2>6, <2>7
    <2>9. CASE last.pos < CmdLen(last.rnd)
        <3>1. <<last.rnd, last.pos + 1>> = <<rnd[p] + 1, 0>>
            BY <2>4, <2>9 DEF After
        <3>2. last.pos + 1 = 0
            BY <3>1
        <3> QED
            BY <2>6, <3>2
    <2>10. CASE ~(last.pos < CmdLen(last.rnd))
        <3>1. <<last.rnd + 1, 0>> = <<rnd[p] + 1, 0>>
            BY <2>4, <2>10 DEF After
        <3>2. last.rnd + 1 = rnd[p] + 1
            BY <3>1
        <3> QED
            BY <1>4, <2>6, <2>8, <3>2
    <2> QED
        BY <2>9, <2>10
<1> QED
    BY <1>6, <1>7

LEMMA PanicPanics ==
    ASSUME FramesInv, QuietInv, NEW p \in Parties, Panic(p)
    PROVE  Abstract!CombinePanic(p)
<1>1. /\ Returned(p) /\ ~Complete(p) /\ UNCHANGED crashes
      /\ Leave(p, "aborted", Unread(p))
    BY DEF Panic
<1>2. Up(p) /\ pc[p] = "recv"
    BY <1>1 DEF Returned
<1>3. Answered[p] = Peers(p) /\ ~Abstract!Enough(p)
    BY <1>1, RoundComplete
<1>4. /\ status' = [status EXCEPT ![p] = "aborted"]
      /\ UNCHANGED <<rnd, pc, wr, rd>>
    BY <1>1 DEF Leave
<1>5. /\ Reached' = Reached /\ Answered' = Answered /\ Storages' = Storages
      /\ Counters' = Counters /\ NoTokens' = NoTokens
    BY <1>4, MappedSame
<1>6. ASSUME NEW l \in Links
      PROVE  link'[l] = IF l[2] = p THEN << >> ELSE link[l]
    <2>1. PICK keep \in [Unread(p) -> 0..Cap] :
              link' = [x \in Links |->
                          IF x[2] = p THEN << >>
                          ELSE IF x[1] = p /\ x[2] \in Unread(p) /\ keep[x[2]] < Len(link[x])
                               THEN SubSeq(link[x], 1, keep[x[2]])
                               ELSE link[x]]
        BY <1>1 DEF Leave
    <2>2. ASSUME l[1] = p, l[2] \in Unread(p) PROVE ~(keep[l[2]] < Len(link[l]))
        <3>1. l[2] \in Peers(p) /\ link[<<l[2], p>>] # << >> /\ l = <<p, l[2]>>
            BY <2>2, LinkEnds DEF Unread
        <3>2. link[<<p, l[2]>>] = << >>
            BY <1>1, <3>1, UnreadMeansRead
        <3>3. Len(link[l]) = 0
            BY <3>1, <3>2, EmptyLen
        <3>4. keep[l[2]] \in 0..Cap
            BY <2>2
        <3> QED
            BY <3>3, <3>4, StreamsAssumption
    <2> QED
        BY <2>1, <2>2
<1> DEFINE keep == [q \in Parties |-> 0]
           lossy == Abstract!Unread(p)
<1>7. ASSUME NEW l \in Links
      PROVE  Messages(l[1], link'[l]) =
                IF l[2] = p THEN << >>
                ELSE IF l[1] = p /\ l[2] \in lossy /\ keep[l[2]] < Len(InTransit[l])
                     THEN SubSeq(InTransit[l], 1, keep[l[2]])
                     ELSE InTransit[l]
    <2>1. InTransit[l] = Messages(l[1], link[l])
        BY DEF InTransit
    <2>2. CASE l[2] = p
        BY <1>6, <2>2, NoMessages
    <2>3. CASE l[2] # p
        <3>1. Messages(l[1], link'[l]) = InTransit[l]
            BY <1>6, <2>1, <2>3
        <3>2. ASSUME l[1] = p, l[2] \in lossy PROVE ~(keep[l[2]] < Len(InTransit[l]))
            <4> DEFINE q == l[2]
            <4>1. q \in Peers(p) /\ InTransit[<<q, p>>] # << >>
                BY <3>2, BroadcastFacts DEF Abstract!Unread
            <4>2. <<q, p>> \in Links /\ l = <<p, q>> /\ q \in Parties
                BY <3>2, <4>1, LinkEnds, PeerLinks
            <4>3. link[<<q, p>>] # << >>
                BY <4>1, <4>2, NoMessages DEF InTransit
            <4>4. link[l] = << >>
                BY <1>1, <4>1, <4>2, <4>3, UnreadMeansRead
            <4>5. Len(InTransit[l]) = 0
                BY <2>1, <4>4, NoMessages, EmptyLen
            <4> QED
                BY <4>2, <4>5
        <3> HIDE DEF keep, lossy
        <3> QED
            BY <2>3, <3>1, <3>2
    <2> QED
        BY <2>2, <2>3
<1>8. keep \in [Parties -> 0..2]
    OBVIOUS
<1> HIDE DEF keep
<1>9. Abstract!Drop(p, lossy, keep)
    <2> HIDE DEF lossy
    <2>1. InTransit' = [l \in Links |->
              IF l[2] = p THEN << >>
              ELSE IF l[1] = p /\ l[2] \in lossy /\ keep[l[2]] < Len(InTransit[l])
                   THEN SubSeq(InTransit[l], 1, keep[l[2]])
                   ELSE InTransit[l]]
        BY <1>7, TransitNext
    <2> QED
        BY <2>1, BroadcastFacts DEF Abstract!Drop
<1>10. Abstract!Fail(p, "aborted", Abstract!Unread(p))
    BY <1>4, <1>8, <1>9 DEF Abstract!Fail
<1>11. Abstract!Up(p) /\ Abstract!Peers(p) = Peers(p)
    BY <1>2, BroadcastFacts
<1> QED
    BY <1>1, <1>2, <1>3, <1>4, <1>5, <1>10, <1>11 DEF Abstract!CombinePanic

----------------------------------------------------------------------------

LEMMA InitIsRounds == Init => Abstract!Init
<1> SUFFICES ASSUME Init PROVE Abstract!Init
    OBVIOUS
<1>1. status = [p \in Parties |-> IF Abstract!Rounds = {} THEN "done" ELSE "up"]
    <2>1. Rounds # {}
        BY LastRoundType DEF Rounds
    <2> QED
        BY <2>1, BroadcastFacts DEF Init
<1>2. Reached = [p \in Parties |-> {}]
    BY DEF Init, Reached
<1>3. \A p \in Parties : \A q \in Peers(p) : rd[<<q, p>>] \notin {0, None}
    <2>1. AtPrefix \notin {0, None}
        BY DEF AtPrefix, None
    <2>2. ASSUME NEW p \in Parties, NEW q \in Peers(p) PROVE rd[<<q, p>>] = AtPrefix
        BY PeerLinks DEF Init
    <2> QED
        BY <2>1, <2>2
<1>4. Answered = [p \in Parties |-> {}]
    BY <1>3 DEF Answered
<1>5. Storages = [p \in Parties |-> [k \in Abstract!Kinds |-> {}]]
    <2>1. \A p \in Parties : {q \in Peers(p) : rd[<<q, p>>] = 0} = {}
        BY <1>3
    <2>2. \A p \in Parties : Filed(p) = {}
        BY <2>1 DEF Filed
    <2> QED
        BY <2>2, BroadcastFacts DEF Storages
<1>6. Counters = [p \in Parties |-> [k \in Abstract!Kinds |-> 0]]
    BY BroadcastFacts DEF Counters, Nothing
<1>7. InTransit = [l \in Abstract!Links |-> << >>]
    BY BroadcastFacts, NoMessages DEF Init, InTransit
<1>8. NoTokens = [r \in Abstract!CommitRounds |-> {}]
    BY BroadcastFacts DEF NoTokens
<1> QED
    BY <1>1, <1>2, <1>4, <1>5, <1>6, <1>7, <1>8 DEF Init, Abstract!Init

LEMMA StepIsRounds ==
    ASSUME FramesInv, QuietInv, [Next]_vars
    PROVE  [Abstract!Next]_(Abstract!vars)
<1>1. ASSUME NEW p \in Parties, StartSend(p) \/ Finish(p) \/ Panic(p)
      PROVE  Abstract!Step(p)
    BY <1>1, StartSendTakes, FinishCombines, PanicPanics DEF Abstract!Step
<1>2. ASSUME NEW p \in Parties, NEW q \in Peers(p),
             \/ Write(p, q) \/ WriteFails(p, q)
             \/ ReadPrefix(p, q) \/ ReadPayload(p, q) \/ ReadCut(p, q)
      PROVE  Abstract!Step(p) \/ UNCHANGED Abstract!vars
    <2>1. q \in Parties
        BY PeerLinks
    <2>2. \/ Abstract!Send(p, q) \/ Abstract!Receive(p, q) \/ Abstract!ReceiveNone(p, q)
          \/ UNCHANGED Abstract!vars
        BY <1>2, WriteSends, WriteFailsSends, ReadPrefixStutters, ReadPayloadReceives,
           ReadCutReturnsNone
    <2> QED
        BY <2>1, <2>2 DEF Abstract!Step
<1>3. ASSUME NEW p \in Parties, Crash(p) PROVE Abstract!Crash(p)
    BY <1>3, CrashCrashes
<1>4. ASSUME UNCHANGED vars PROVE UNCHANGED Abstract!vars
    <2>1. UNCHANGED <<rnd, pc, status, wr, rd, link, crashes>>
        BY <1>4 DEF vars
    <2> QED
        BY <2>1, MappedSame DEF Abstract!vars
<1>5. CASE Next
    BY <1>1, <1>2, <1>3, <1>4, <1>5, NextCases DEF Abstract!Next
<1> QED
    BY <1>4, <1>5

\* TcpConnection implements the links of whole messages on which the rounds
\* are checked, for any number of servers, frames and buffers of any length and
\* streams that a death cuts anywhere.
THEOREM StreamsAreLinks == Spec => RefinesRounds
<1>1. FramesInv /\ QuietInv /\ [Next]_vars => [Abstract!Next]_(Abstract!vars)
    BY StepIsRounds
<1> QED
    BY <1>1, InitIsRounds, FramesInvariance, QuietInvariance, PTL
       DEF Spec, RefinesRounds, Abstract!Spec
=============================================================================

-------------------------- MODULE MpcRoundsProofs --------------------------
(***************************************************************************)
(* Proofs about MpcRounds for every set of servers, every schedule, every  *)
(* amount of dealt randomness, every link capacity and any deaths.         *)
(***************************************************************************)
EXTENDS MpcRounds, FiniteSetTheorems, TLAPS

----------------------------------------------------------------------------
(* The constants.                                                          *)

\* What the assumptions say of one round.
LEMMA RoundType ==
    ASSUME NEW r \in Rounds
    PROVE  Kind(r) \in Kinds /\ Need(r) \in Nat
<1>1. Schedule[r] \in Round
    BY ScheduleAssumption DEF Rounds
<1> QED
    BY <1>1 DEF Round, Kind, Need

LEMMA LenType == Len(Schedule) \in Nat
BY ScheduleAssumption

----------------------------------------------------------------------------
(* Types.                                                                  *)

LEMMA InitType == Init => TypeOK
<1> SUFFICES ASSUME Init PROVE TypeOK
    OBVIOUS
<1> QED
    BY LenType, BoundsAssumption DEF Init, TypeOK, Links, Rounds

LEMMA OwnMessageType ==
    ASSUME TypeOK, NEW p \in Parties, rnd[p] \in Rounds
    PROVE  OwnMessage(p) \in Message
BY RoundType DEF TypeOK, OwnMessage, Message

\* Leaving keeps the links typed: each loses a suffix.
LEMMA DropType ==
    ASSUME TypeOK, NEW p \in Parties, NEW how, NEW lossy, Fail(p, how, lossy)
    PROVE  chan' \in [Links -> Seq(Message)]
<1>1. PICK keep \in [Parties -> 0..ChanCap] : Drop(p, lossy, keep)
    BY DEF Fail
<1>2. ASSUME NEW l \in Links
      PROVE  chan'[l] \in Seq(Message)
    <2>1. chan[l] \in Seq(Message) /\ l[2] \in Parties
        BY DEF TypeOK, Links
    <2>2. keep[l[2]] \in Nat
        BY <2>1, BoundsAssumption
    <2>3. keep[l[2]] < Len(chan[l]) =>
              SubSeq(chan[l], 1, keep[l[2]]) \in Seq(Message)
        BY <2>1, <2>2
    <2> QED
        BY <1>1, <2>1, <2>3 DEF Drop
<1> QED
    BY <1>1, <1>2 DEF Drop

LEMMA UpRound ==
    ASSUME PhaseInv, NEW p \in Parties, Up(p)
    PROVE  rnd[p] \in Rounds
BY DEF PhaseInv, PhaseOf, Up

LEMMA FailType ==
    ASSUME TypeOK, NEW p \in Parties, NEW lossy,
           NEW how \in {"exhausted", "aborted", "crashed"},
           Fail(p, how, lossy), UNCHANGED <<rnd, pc, sent, heard, store, used, token>>,
           crashes' \in 0..MaxCrashes
    PROVE  TypeOK'
<1>1. chan' \in [Links -> Seq(Message)]
    BY DropType
<1>2. status' \in [Parties -> {"up", "done", "exhausted", "aborted", "crashed"}]
    BY DEF TypeOK, Fail
<1> QED
    BY <1>1, <1>2 DEF TypeOK

\* Every step preserves the types.
LEMMA StepType ==
    ASSUME TypeOK, PhaseInv, Next
    PROVE  TypeOK'
<1> USE LenType, BoundsAssumption
<1>1. ASSUME NEW p \in Parties, Take(p)
      PROVE  TypeOK'
    <2>1. Kind(rnd[p]) \in Kinds /\ Need(rnd[p]) \in Nat
        BY <1>1, UpRound, RoundType DEF Take
    <2>2. used' \in [Parties -> [Kinds -> Nat]]
        BY <1>1, <2>1 DEF TypeOK, Take
    <2> QED
        BY <1>1, <2>2 DEF TypeOK, Take
<1>2. ASSUME NEW p \in Parties, TakePanic(p)
      PROVE  TypeOK'
    BY <1>2, FailType DEF TakePanic, TypeOK
<1>3. ASSUME NEW p \in Parties, NEW q \in Parties, Send(p, q)
      PROVE  TypeOK'
    <2>1. OwnMessage(p) \in Message
        BY <1>3, UpRound, OwnMessageType DEF Send
    <2>2. <<p, q>> \in Links
        BY <1>3 DEF Send, Peers, Links
    <2>3. chan' \in [Links -> Seq(Message)]
        <3>1. Append(chan[<<p, q>>], OwnMessage(p)) \in Seq(Message)
            BY <2>1, <2>2 DEF TypeOK
        <3>2. \/ chan' = [chan EXCEPT ![<<p, q>>] = Append(@, OwnMessage(p))]
              \/ chan' = chan
            BY <1>3 DEF Send
        <3> QED
            BY <2>2, <3>1, <3>2 DEF TypeOK
    <2>4. sent' \in [Parties -> SUBSET Parties]
        <3>1. \/ sent' = [sent EXCEPT ![p] = {}]
              \/ sent' = [sent EXCEPT ![p] = @ \cup {q}]
            BY <1>3 DEF Send
        <3>2. sent \in [Parties -> SUBSET Parties]
            BY DEF TypeOK
        <3>3. sent[p] \cup {q} \in SUBSET Parties
            BY <3>2
        <3> QED
            BY <3>1, <3>2, <3>3
    <2>5. pc' \in [Parties -> {"take", "send", "recv"}]
        <3>1. pc' = [pc EXCEPT ![p] = "recv"] \/ pc' = pc
            BY <1>3 DEF Send
        <3> QED
            BY <3>1 DEF TypeOK
    <2>6. UNCHANGED <<rnd, status, heard, store, used, token, crashes>>
        BY <1>3 DEF Send
    <2> QED
        BY <2>3, <2>4, <2>5, <2>6 DEF TypeOK
<1>4. ASSUME NEW p \in Parties, NEW q \in Parties, Receive(p, q)
      PROVE  TypeOK'
    <2>1. <<q, p>> \in Links
        BY <1>4 DEF Receive, Peers, Links
    <2>2. chan[<<q, p>>] \in Seq(Message) /\ chan[<<q, p>>] # << >>
        BY <1>4, <2>1 DEF Receive, TypeOK
    <2>3. Head(chan[<<q, p>>]) \in Message /\ Tail(chan[<<q, p>>]) \in Seq(Message)
        BY <2>2
    <2>4. Head(chan[<<q, p>>]).kind \in Kinds
        BY <2>3 DEF Message
    <2>5. store' \in [Parties -> [Kinds -> SUBSET Message]]
        <3> DEFINE m == Head(chan[<<q, p>>])
        <3>1. store' = [store EXCEPT ![p][m.kind] = @ \cup {m}]
            BY <1>4 DEF Receive
        <3>2. m \in Message /\ m.kind \in Kinds
            BY <2>3, <2>4
        <3> HIDE DEF m
        <3> QED
            BY <3>1, <3>2 DEF TypeOK
    <2>6. chan' \in [Links -> Seq(Message)]
        BY <1>4, <2>1, <2>3 DEF Receive, TypeOK
    <2> QED
        BY <1>4, <2>5, <2>6 DEF TypeOK, Receive
<1>5. ASSUME NEW p \in Parties, NEW q \in Parties, ReceiveNone(p, q)
      PROVE  TypeOK'
    BY <1>5 DEF TypeOK, ReceiveNone
<1>6. ASSUME NEW p \in Parties, Combine(p)
      PROVE  TypeOK'
    <2>1. rnd[p] \in Rounds /\ Kind(rnd[p]) \in Kinds
        BY <1>6, UpRound, RoundType DEF Combine
    <2>2. OwnMessage(p) \in Message
        BY <2>1, OwnMessageType
    <2>3. token' \in [CommitRounds -> SUBSET Message]
        <3>1. "commit" \in Kinds
            BY DEF Kinds
        <3>2. store[p]["commit"] \in SUBSET Message
            BY <3>1 DEF TypeOK
        <3> QED
            BY <1>6, <2>2, <3>2 DEF Combine, TypeOK
    <2>4. store' \in [Parties -> [Kinds -> SUBSET Message]]
        BY <1>6, <2>1 DEF Combine, TypeOK
    <2>5. rnd' \in [Parties -> 1..Len(Schedule) + 1]
        BY <1>6, <2>1 DEF Combine, TypeOK, Rounds
    <2> QED
        BY <1>6, <2>3, <2>4, <2>5 DEF TypeOK, Combine
<1>7. ASSUME NEW p \in Parties, CombinePanic(p)
      PROVE  TypeOK'
    BY <1>7, FailType DEF CombinePanic, TypeOK
<1>8. ASSUME NEW p \in Parties, Crash(p)
      PROVE  TypeOK'
    <2>1. crashes' \in 0..MaxCrashes
        BY <1>8 DEF Crash, TypeOK
    <2> QED
        BY <1>8, <2>1, FailType DEF Crash
<1>9. CASE Over
    BY <1>9 DEF Over, vars, TypeOK
<1> QED
    BY <1>1, <1>2, <1>3, <1>4, <1>5, <1>6, <1>7, <1>8, <1>9 DEF Next, Step

----------------------------------------------------------------------------
(* Counting.  The code only compares how many messages it holds with how   *)
(* many peers it has; because the storages hold at most one message of     *)
(* each peer, the comparison says that every peer is heard.                *)

Senders(p) == {m.sender : m \in store[p][Kind(rnd[p])]}

LEMMA PeersFinite ==
    ASSUME NEW p \in Parties
    PROVE  /\ IsFiniteSet(Peers(p))
           /\ Cardinality(Peers(p)) = Cardinality(Parties) - 1
BY PartiesAssumption, FS_RemoveElement DEF Peers

LEMMA EnoughSenders ==
    ASSUME TypeOK, PhaseInv, StoreInv, NEW p \in Parties, rnd[p] \in Rounds
    PROVE  /\ Enough(p) <=> Senders(p) = Peers(p)
           /\ IsFiniteSet(store[p][Kind(rnd[p])])
<1> DEFINE S == store[p][Kind(rnd[p])]
           f == [m \in S |-> m.sender]
<1>1. Kind(rnd[p]) \in Kinds
    BY RoundType
<1>2. S \subseteq Message
    BY <1>1 DEF TypeOK
<1>3. ASSUME NEW m \in S
      PROVE  /\ m.sender \in Peers(p)
             /\ m = [kind |-> Kind(rnd[p]), sender |-> m.sender, rnd |-> rnd[p],
                     upto |-> used[p][Kind(rnd[p])]]
    <2>1. m \in Message
        BY <1>2
    <2>2. m = [kind |-> m.kind, sender |-> m.sender, rnd |-> m.rnd, upto |-> m.upto]
        BY <2>1 DEF Message
    <2>3. /\ m.kind = Kind(rnd[p])
          /\ m.rnd = rnd[p]
          /\ m.upto = used[p][Kind(rnd[p])]
          /\ m.sender \in heard[p]
        BY <1>1 DEF StoreInv, Filed
    <2> QED
        BY <2>2, <2>3 DEF PhaseInv, PhaseOf
<1>4. f \in Injection(S, Peers(p))
    <2>1. f \in [S -> Peers(p)]
        BY <1>3
    <2>2. ASSUME NEW a \in S, NEW b \in S, f[a] = f[b]
          PROVE  a = b
        BY <1>3, <2>2
    <2> QED
        BY <2>1, <2>2 DEF Injection, IsInjective
<1>5. /\ IsFiniteSet(S)
      /\ Cardinality(S) = Cardinality(Peers(p)) <=> f \in Surjection(S, Peers(p))
    BY <1>4, PeersFinite, FS_Injection
<1>6. f \in Surjection(S, Peers(p)) <=> {m.sender : m \in S} = Peers(p)
    BY <1>3 DEF Surjection
<1> QED
    BY <1>5, <1>6 DEF Enough, Senders

----------------------------------------------------------------------------
(* What each action does to the three counters.                            *)

LEMMA CounterTypes ==
    ASSUME TypeOK, NEW p \in Parties, NEW q \in Parties
    PROVE  /\ rnd[p] \in Nat
           /\ Entered(p) \in Nat
           /\ SentTo(p, q) \in Nat
           /\ ReadFrom(p, q) \in Nat
           /\ Entered(p) \in {rnd[p], rnd[p] - 1}
           /\ SentTo(p, q) \in {rnd[p], rnd[p] - 1}
           /\ ReadFrom(p, q) \in {rnd[p], rnd[p] - 1}
BY LenType DEF TypeOK, Entered, SentTo, ReadFrom

LEMMA SentToEntered ==
    ASSUME TypeOK, PhaseInv, NEW p \in Parties, NEW q \in Parties
    PROVE  SentTo(p, q) <= Entered(p)
<1>1. rnd[p] \in Nat
    BY CounterTypes
<1>2. pc[p] = "take" => sent[p] = {}
    BY DEF PhaseInv, PhaseOf
<1> QED
    BY <1>1, <1>2 DEF Entered, SentTo

LEMMA TakeCounters ==
    ASSUME TypeOK, PhaseInv, NEW p \in Parties, Take(p),
           NEW a \in Parties, NEW b \in Parties
    PROVE  /\ Entered(a)' = IF a = p THEN Entered(a) + 1 ELSE Entered(a)
           /\ Entered(p)' = rnd[p]
           /\ SentTo(a, b)' = SentTo(a, b)
           /\ ReadFrom(a, b)' = ReadFrom(a, b)
BY LenType DEF TypeOK, PhaseInv, PhaseOf, Take, Entered, SentTo, ReadFrom

LEMMA SendCounters ==
    ASSUME TypeOK, PhaseInv, NEW p \in Parties, NEW q \in Parties, Send(p, q),
           NEW a \in Parties, NEW b \in Parties, a # b
    PROVE  /\ Entered(a)' = Entered(a)
           /\ SentTo(a, b)' = IF a = p /\ b = q THEN rnd[p] ELSE SentTo(a, b)
           /\ ReadFrom(a, b)' = ReadFrom(a, b)
<1>1. /\ pc[p] = "send"
      /\ q \notin sent[p]
      /\ UNCHANGED <<rnd, heard>>
    BY DEF Send
<1>2. CASE sent[p] \cup {q} = Peers(p)
    <2>1. /\ sent' = [sent EXCEPT ![p] = {}]
          /\ pc' = [pc EXCEPT ![p] = "recv"]
        BY <1>2 DEF Send
    <2>2. a = p => b = q \/ b \in sent[p]
        BY <1>2 DEF Peers
    <2> QED
        BY <1>1, <2>1, <2>2 DEF TypeOK, Entered, SentTo, ReadFrom
<1>3. CASE sent[p] \cup {q} # Peers(p)
    <2>1. /\ sent' = [sent EXCEPT ![p] = @ \cup {q}]
          /\ pc' = pc
        BY <1>3 DEF Send
    <2> QED
        BY <1>1, <2>1 DEF TypeOK, Entered, SentTo, ReadFrom
<1> QED
    BY <1>2, <1>3

LEMMA HearCounters ==
    ASSUME TypeOK, PhaseInv, NEW p \in Parties, NEW q \in Parties,
           Receive(p, q) \/ ReceiveNone(p, q),
           NEW a \in Parties, NEW b \in Parties
    PROVE  /\ Entered(a)' = Entered(a)
           /\ SentTo(a, b)' = SentTo(a, b)
           /\ ReadFrom(a, b)' = IF a = p /\ b = q THEN ReadFrom(a, b) + 1
                                ELSE ReadFrom(a, b)
           /\ ReadFrom(p, q) + 1 = rnd[p]
<1>1. /\ UNCHANGED <<rnd, pc, sent>>
      /\ heard' = [heard EXCEPT ![p] = @ \cup {q}]
      /\ q \notin heard[p]
    BY DEF Receive, ReceiveNone
<1> QED
    BY <1>1, LenType DEF TypeOK, Entered, SentTo, ReadFrom

LEMMA CombineCounters ==
    ASSUME TypeOK, PhaseInv, NEW p \in Parties, Combine(p),
           NEW a \in Parties, NEW b \in Parties, a # b
    PROVE  /\ Entered(a)' = Entered(a)
           /\ SentTo(a, b)' = SentTo(a, b)
           /\ ReadFrom(a, b)' = ReadFrom(a, b)
           /\ rnd' = [rnd EXCEPT ![p] = @ + 1]
<1>1. /\ pc[p] = "recv"
      /\ heard[p] = Peers(p)
      /\ rnd' = [rnd EXCEPT ![p] = rnd[p] + 1]
      /\ pc' = [pc EXCEPT ![p] = "take"]
      /\ heard' = [heard EXCEPT ![p] = {}]
      /\ sent' = sent
    BY DEF Combine
<1>2. sent[p] = {}
    BY <1>1 DEF PhaseInv, PhaseOf
<1> QED
    BY <1>1, <1>2, LenType DEF TypeOK, Peers, Entered, SentTo, ReadFrom

\* A server that leaves changes no counter.
LEMMA FailCounters ==
    ASSUME UNCHANGED <<rnd, pc, sent, heard>>, NEW a, NEW b
    PROVE  /\ Entered(a)' = Entered(a)
           /\ SentTo(a, b)' = SentTo(a, b)
           /\ ReadFrom(a, b)' = ReadFrom(a, b)
BY DEF Entered, SentTo, ReadFrom

\* Two servers are at most one round apart, in every sense.
LEMMA Skew ==
    ASSUME TypeOK, PhaseInv, SkewInv, NEW p \in Parties, NEW q \in Parties
    PROVE  /\ rnd[p] <= rnd[q] + 1
           /\ rnd[p] <= Entered(q) + 1
           /\ Entered(p) <= Entered(q) + 1
<1>1. CASE p = q
    BY <1>1, CounterTypes
<1>2. CASE p # q
    <2>1. <<q, p>> \in Links
        BY <1>2 DEF Links
    <2>2. SentTo(q, p) >= rnd[p] - 1
        BY <2>1 DEF SkewInv
    <2> QED
        BY <2>2, CounterTypes, SentToEntered
<1> QED
    BY <1>1, <1>2

----------------------------------------------------------------------------
(* The steps in which a server leaves before its time.                     *)

Failing(p) == TakePanic(p) \/ CombinePanic(p) \/ Crash(p)

LEMMA NextCases ==
    Next <=> \/ \E p \in Parties : Take(p)
             \/ \E p, q \in Parties : Send(p, q)
             \/ \E p, q \in Parties : Receive(p, q)
             \/ \E p, q \in Parties : ReceiveNone(p, q)
             \/ \E p \in Parties : Combine(p)
             \/ \E p \in Parties : Failing(p)
             \/ Over
BY DEF Next, Step, Failing

LEMMA FailingShape ==
    ASSUME TypeOK, NEW p \in Parties, Failing(p)
    PROVE  /\ Up(p)
           /\ UNCHANGED <<rnd, pc, sent, heard, store, used, token>>
           /\ \E how \in {"exhausted", "aborted", "crashed"} :
                  status' = [status EXCEPT ![p] = how]
           /\ \A l \in Links :
                  /\ l[2] = p => chan'[l] = << >>
                  /\ Len(chan'[l]) <= Len(chan[l])
                  /\ \A i \in 1..Len(chan'[l]) : chan'[l][i] = chan[l][i]
<1>1. PICK how \in {"exhausted", "aborted", "crashed"}, lossy \in SUBSET Parties :
          Fail(p, how, lossy)
    BY DEF Failing, TakePanic, CombinePanic, Crash, Unread, Peers
<1>2. /\ Up(p)
      /\ UNCHANGED <<rnd, pc, sent, heard, store, used, token>>
    BY DEF Failing, TakePanic, CombinePanic, Crash
<1>3. PICK keep \in [Parties -> 0..ChanCap] : Drop(p, lossy, keep)
    BY <1>1 DEF Fail
<1>4. ASSUME NEW l \in Links
      PROVE  /\ l[2] = p => chan'[l] = << >>
             /\ Len(chan'[l]) <= Len(chan[l])
             /\ \A i \in 1..Len(chan'[l]) : chan'[l][i] = chan[l][i]
    <2>1. chan[l] \in Seq(Message) /\ l[2] \in Parties
        BY DEF TypeOK, Links
    <2>2. keep[l[2]] \in Nat
        BY <2>1, BoundsAssumption
    <2>3. CASE l[2] = p
        <3>1. chan'[l] = << >>
            BY <1>3, <2>3 DEF Drop
        <3> QED
            BY <3>1, <2>1
    <2>4. CASE /\ l[2] # p
               /\ l[1] = p /\ l[2] \in lossy /\ keep[l[2]] < Len(chan[l])
        <3>1. chan'[l] = SubSeq(chan[l], 1, keep[l[2]])
            BY <1>3, <2>4 DEF Drop
        <3> QED
            BY <2>1, <2>2, <2>4, <3>1
    <2>5. CASE /\ l[2] # p
               /\ ~(l[1] = p /\ l[2] \in lossy /\ keep[l[2]] < Len(chan[l]))
        <3>1. chan'[l] = chan[l]
            BY <1>3, <2>5 DEF Drop
        <3> QED
            BY <2>1, <2>5, <3>1
    <2> QED
        BY <2>3, <2>4, <2>5
<1>5. status' = [status EXCEPT ![p] = how]
    BY <1>1 DEF Fail
<1> QED
    BY <1>2, <1>4, <1>5

----------------------------------------------------------------------------
(* Each part of the invariant is preserved.                                *)

LEMMA StepPhase ==
    ASSUME TypeOK, PhaseInv, Next
    PROVE  PhaseInv'
<1> SUFFICES ASSUME NEW a \in Parties
             PROVE  PhaseOf(a)'
    BY DEF PhaseInv
<1>0. PhaseOf(a)
    BY DEF PhaseInv
<1>1. ASSUME NEW p \in Parties, Take(p)
      PROVE  PhaseOf(a)'
    <2>1. rnd[p] \in Rounds
        BY <1>1, UpRound DEF Take
    <2> QED
        BY <1>0, <1>1, <2>1 DEF Take, TypeOK, PhaseOf, Peers, Rounds
<1>2. ASSUME NEW p \in Parties, NEW q \in Parties, Send(p, q)
      PROVE  PhaseOf(a)'
    <2>1. rnd[p] \in Rounds
        BY <1>2, UpRound DEF Send
    <2>2. /\ UNCHANGED <<rnd, status, heard>>
          /\ pc[p] = "send"
          /\ q \in Peers(p)
        BY <1>2 DEF Send
    <2>3. CASE sent[p] \cup {q} = Peers(p)
        <3>1. /\ sent' = [sent EXCEPT ![p] = {}]
              /\ pc' = [pc EXCEPT ![p] = "recv"]
            BY <1>2, <2>3 DEF Send
        <3> QED
            BY <1>0, <2>1, <2>2, <3>1 DEF TypeOK, PhaseOf, Peers, Rounds
    <2>4. CASE sent[p] \cup {q} # Peers(p)
        <3>1. /\ sent' = [sent EXCEPT ![p] = @ \cup {q}]
              /\ pc' = pc
            BY <1>2, <2>4 DEF Send
        <3> QED
            BY <1>0, <2>1, <2>2, <3>1 DEF TypeOK, PhaseOf, Peers, Rounds
    <2> QED
        BY <2>3, <2>4
<1>3. ASSUME NEW p \in Parties, NEW q \in Parties,
             Receive(p, q) \/ ReceiveNone(p, q)
      PROVE  PhaseOf(a)'
    <2>1. /\ UNCHANGED <<rnd, pc, status, sent>>
          /\ heard' = [heard EXCEPT ![p] = @ \cup {q}]
          /\ pc[p] = "recv"
          /\ q \in Peers(p)
        BY <1>3 DEF Receive, ReceiveNone
    <2> QED
        BY <1>0, <2>1 DEF TypeOK, PhaseOf, Peers, Rounds
<1>4. ASSUME NEW p \in Parties, Combine(p)
      PROVE  PhaseOf(a)'
    <2>1. rnd[p] \in Rounds /\ status[p] = "up"
        BY <1>4, UpRound DEF Combine, Up
    <2>2. /\ rnd' = [rnd EXCEPT ![p] = rnd[p] + 1]
          /\ pc' = [pc EXCEPT ![p] = "take"]
          /\ heard' = [heard EXCEPT ![p] = {}]
          /\ sent' = sent
          /\ pc[p] = "recv"
          /\ status' = IF rnd[p] + 1 \in Rounds THEN status
                       ELSE [status EXCEPT ![p] = "done"]
        BY <1>4 DEF Combine
    <2> QED
        BY <1>0, <2>1, <2>2 DEF TypeOK, PhaseOf, Peers, Rounds
<1>5. ASSUME NEW p \in Parties, Failing(p)
      PROVE  PhaseOf(a)'
    <2>1. rnd[p] \in Rounds
        BY <1>5, UpRound, FailingShape
    <2> QED
        <3>1. UNCHANGED <<rnd, pc, sent, heard>>
            BY <1>5, FailingShape
        <3>2. PICK how \in {"exhausted", "aborted", "crashed"} :
                  status' = [status EXCEPT ![p] = how]
            BY <1>5, FailingShape
        <3>3. status[a]' = "done" <=> rnd[a] \notin Rounds
            BY <1>0, <2>1, <3>2 DEF TypeOK, PhaseOf
        <3> QED
            BY <1>0, <3>1, <3>3 DEF PhaseOf, Peers, Rounds
<1>6. CASE Over
    BY <1>0, <1>6 DEF Over, vars, PhaseOf, Peers, Rounds
<1> QED
    BY NextCases, <1>1, <1>2, <1>3, <1>4, <1>5, <1>6

\* Only Combine moves a server on, and it has then heard everyone.
LEMMA HeardEveryone ==
    ASSUME TypeOK, PhaseInv, StoreInv, NEW p \in Parties, Combine(p),
           NEW q \in Peers(p)
    PROVE  SentTo(q, p) >= rnd[p]
<1>1. rnd[p] \in Rounds /\ Enough(p)
    BY UpRound DEF Combine
<1>2. q \in Senders(p)
    BY <1>1, EnoughSenders
<1>3. PICK m \in store[p][Kind(rnd[p])] : m.sender = q
    BY <1>2 DEF Senders
<1> QED
    BY <1>1, <1>3, RoundType DEF StoreInv, Filed

LEMMA StepSkew ==
    ASSUME TypeOK, PhaseInv, SkewInv, StoreInv, Next
    PROVE  SkewInv'
<1> SUFFICES ASSUME NEW l \in Links
             PROVE  SentTo(l[1], l[2])' >= rnd[l[2]]' - 1
    BY DEF SkewInv, Links
<1> DEFINE a == l[1]
           b == l[2]
<1>0. /\ a \in Parties /\ b \in Parties /\ a # b
      /\ SentTo(a, b) >= rnd[b] - 1
      /\ rnd[a] \in Nat /\ rnd[b] \in Nat /\ SentTo(a, b) \in Nat
      /\ SentTo(a, b) <= rnd[a]
    <2>1. a \in Parties /\ b \in Parties /\ a # b
        BY DEF Links
    <2> QED
        BY <2>1, CounterTypes DEF SkewInv
<1> HIDE DEF a, b
<1>1. ASSUME NEW p \in Parties, Take(p)
      PROVE  SentTo(a, b)' >= rnd[b]' - 1
    BY <1>0, <1>1, TakeCounters DEF Take
<1>2. ASSUME NEW p \in Parties, NEW q \in Parties, Send(p, q)
      PROVE  SentTo(a, b)' >= rnd[b]' - 1
    <2>1. rnd' = rnd
        BY <1>2 DEF Send
    <2> QED
        BY <1>0, <1>2, <2>1, SendCounters
<1>3. ASSUME NEW p \in Parties, NEW q \in Parties,
             Receive(p, q) \/ ReceiveNone(p, q)
      PROVE  SentTo(a, b)' >= rnd[b]' - 1
    <2>1. rnd' = rnd
        BY <1>3 DEF Receive, ReceiveNone
    <2> QED
        BY <1>0, <1>3, <2>1, HearCounters
<1>4. ASSUME NEW p \in Parties, Combine(p)
      PROVE  SentTo(a, b)' >= rnd[b]' - 1
    <2>1. /\ SentTo(a, b)' = SentTo(a, b)
          /\ rnd' = [rnd EXCEPT ![p] = @ + 1]
        BY <1>0, <1>4, CombineCounters
    <2>2. CASE b = p
        <3>1. SentTo(a, b) >= rnd[b]
            BY <1>0, <1>4, <2>2, HeardEveryone DEF Peers
        <3> QED
            BY <1>0, <2>1, <2>2, <3>1 DEF TypeOK
    <2>3. CASE b # p
        BY <1>0, <2>1, <2>3 DEF TypeOK
    <2> QED
        BY <2>2, <2>3
<1>5. ASSUME NEW p \in Parties, Failing(p)
      PROVE  SentTo(a, b)' >= rnd[b]' - 1
    BY <1>0, <1>5, FailingShape, FailCounters
<1>6. CASE Over
    <2>1. UNCHANGED <<rnd, pc, sent, heard>>
        BY <1>6 DEF Over, vars
    <2> QED
        BY <1>0, <2>1, FailCounters DEF a, b
<1> QED
    BY NextCases, <1>1, <1>2, <1>3, <1>4, <1>5, <1>6 DEF a, b

\* What Take adds to the counters.
LEMMA TakeUsed ==
    ASSUME TypeOK, PhaseInv, NEW p \in Parties, Take(p),
           NEW a \in Parties, NEW k \in Kinds
    PROVE  /\ used[a]'[k] = IF a = p THEN used[a][k] + Takes(rnd[p], k)
                            ELSE used[a][k]
           /\ used[a][k] \in Nat
           /\ Takes(rnd[p], k) \in Nat
<1>1. Kind(rnd[p]) \in Kinds /\ Need(rnd[p]) \in Nat
    BY UpRound, RoundType DEF Take
<1>2. used' = [used EXCEPT ![p][Kind(rnd[p])] = @ + Need(rnd[p])]
    BY DEF Take
<1>3. used \in [Parties -> [Kinds -> Nat]]
    BY DEF TypeOK
<1> QED
    BY <1>1, <1>2, <1>3 DEF Takes

LEMMA UsedUnchanged ==
    ASSUME NEW a, NEW b, NEW k, UsedAgree(a, b, k), used' = used,
           Entered(a)' = Entered(a), Entered(b)' = Entered(b)
    PROVE  UsedAgree(a, b, k)'
BY DEF UsedAgree, Takes, Kind, Need

LEMMA StepUsed ==
    ASSUME TypeOK, PhaseInv, SkewInv, UsedInv, Next
    PROVE  UsedInv'
<1> SUFFICES ASSUME NEW a \in Parties, NEW b \in Parties, NEW k \in Kinds
             PROVE  UsedAgree(a, b, k)'
    BY DEF UsedInv
<1>0. UsedAgree(a, b, k) /\ UsedAgree(b, a, k)
    BY DEF UsedInv
<1>1. ASSUME NEW p \in Parties, Take(p)
      PROVE  UsedAgree(a, b, k)'
    <2>1. /\ Entered(a)' = IF a = p THEN Entered(a) + 1 ELSE Entered(a)
          /\ Entered(b)' = IF b = p THEN Entered(b) + 1 ELSE Entered(b)
          /\ Entered(p)' = rnd[p]
        BY <1>1, TakeCounters
    <2>2. /\ used[a]'[k] = IF a = p THEN used[a][k] + Takes(rnd[p], k)
                           ELSE used[a][k]
          /\ used[b]'[k] = IF b = p THEN used[b][k] + Takes(rnd[p], k)
                           ELSE used[b][k]
          /\ used[a][k] \in Nat /\ used[b][k] \in Nat
          /\ Takes(rnd[p], k) \in Nat
        BY <1>1, TakeUsed
    <2>3. /\ Entered(a) \in Nat /\ Entered(b) \in Nat
          /\ Entered(a) <= Entered(b) + 1
          /\ Entered(b) <= Entered(a) + 1
        BY CounterTypes, Skew
    <2>4. CASE a = p /\ b = p
        BY <2>1, <2>2, <2>3, <2>4 DEF UsedAgree
    <2>5. CASE a = p /\ b # p
        <3>1. Entered(a)' = Entered(b)' => used[a]'[k] = used[b]'[k]
            BY <1>0, <2>1, <2>2, <2>3, <2>5 DEF UsedAgree
        <3>2. Entered(a)' = Entered(b)' + 1 =>
                  used[a]'[k] = used[b]'[k] + Takes(rnd[p], k)
            BY <1>0, <2>1, <2>2, <2>3, <2>5 DEF UsedAgree
        <3> QED
            BY <2>1, <2>5, <3>1, <3>2 DEF UsedAgree, Takes, Kind, Need
    <2>6. CASE a # p /\ b = p
        <3>1. Entered(a)' = Entered(b)' => used[a]'[k] = used[b]'[k]
            <4>1. SUFFICES ASSUME Entered(a)' = Entered(b)'
                           PROVE  used[a]'[k] = used[b]'[k]
                OBVIOUS
            <4>2. Entered(a) = Entered(b) + 1 /\ Entered(a) = rnd[p]
                BY <2>1, <2>3, <2>6, <4>1
            <4> QED
                BY <1>0, <2>2, <2>6, <4>2 DEF UsedAgree
        <3>2. Entered(a)' # Entered(b)' + 1
            BY <2>1, <2>3, <2>6
        <3> QED
            BY <3>1, <3>2 DEF UsedAgree
    <2>7. CASE a # p /\ b # p
        <3>1. /\ Entered(a)' = Entered(a) /\ Entered(b)' = Entered(b)
              /\ used[a]'[k] = used[a][k] /\ used[b]'[k] = used[b][k]
            BY <2>1, <2>2, <2>7
        <3> QED
            BY <1>0, <3>1 DEF UsedAgree, Takes, Kind, Need
    <2> QED
        BY <2>4, <2>5, <2>6, <2>7
<1>2. ASSUME NEW p \in Parties, NEW q \in Parties, Send(p, q)
      PROVE  UsedAgree(a, b, k)'
    <2>1. \A c \in Parties : Entered(c)' = Entered(c)
        <3>1. SUFFICES ASSUME NEW c \in Parties PROVE Entered(c)' = Entered(c)
            OBVIOUS
        <3>2. PICK d \in Parties : d # c
            BY PartiesAssumption
        <3> QED
            BY <1>2, <3>2, SendCounters
    <2>2. used' = used
        BY <1>2 DEF Send
    <2> QED
        BY <1>0, <2>1, <2>2, UsedUnchanged
<1>3. ASSUME NEW p \in Parties, NEW q \in Parties,
             Receive(p, q) \/ ReceiveNone(p, q)
      PROVE  UsedAgree(a, b, k)'
    <2>1. used' = used
        BY <1>3 DEF Receive, ReceiveNone
    <2> QED
        BY <1>0, <1>3, <2>1, HearCounters, UsedUnchanged
<1>4. ASSUME NEW p \in Parties, Combine(p)
      PROVE  UsedAgree(a, b, k)'
    <2>1. \A c \in Parties : Entered(c)' = Entered(c)
        <3>1. SUFFICES ASSUME NEW c \in Parties PROVE Entered(c)' = Entered(c)
            OBVIOUS
        <3>2. PICK d \in Parties : d # c
            BY PartiesAssumption
        <3> QED
            BY <1>4, <3>2, CombineCounters
    <2>2. used' = used
        BY <1>4 DEF Combine
    <2> QED
        BY <1>0, <2>1, <2>2, UsedUnchanged
<1>5. ASSUME NEW p \in Parties, Failing(p)
      PROVE  UsedAgree(a, b, k)'
    <2>1. UNCHANGED <<rnd, pc, sent, heard, used>>
        BY <1>5, FailingShape
    <2> QED
        BY <1>0, <2>1, FailCounters, UsedUnchanged
<1>6. CASE Over
    <2>1. UNCHANGED <<rnd, pc, sent, heard, used>>
        BY <1>6 DEF Over, vars
    <2> QED
        BY <1>0, <2>1, FailCounters, UsedUnchanged
<1> QED
    BY NextCases, <1>1, <1>2, <1>3, <1>4, <1>5, <1>6

\* A message that stays where it is remains as described.
LEMMA InFlightStays ==
    ASSUME NEW l, NEW i, InFlight(l, i), chan[l]'[i] = chan[l][i],
           ReadFrom(l[2], l[1])' = ReadFrom(l[2], l[1]),
           SentTo(l[1], l[2]) \in Nat, SentTo(l[1], l[2])' \in Nat,
           chan[l][i].rnd \in Nat,
           SentTo(l[1], l[2]) <= SentTo(l[1], l[2])',
           Entered(l[1])' = Entered(l[1]), used[l[1]]' = used[l[1]]
    PROVE  InFlight(l, i)'
<1> DEFINE m == chan[l][i]
<1>1. m' = m
    OBVIOUS
<1>2. SentBy(l[1], m)'
    BY <1>1 DEF InFlight, SentBy, Takes, Kind, Need
<1> QED
    BY <1>1, <1>2 DEF InFlight

LEMMA MessageOn ==
    ASSUME TypeOK, NEW l \in Links, NEW i \in 1..Len(chan[l])
    PROVE  /\ chan[l][i] \in Message
           /\ chan[l][i].rnd \in Rounds
           /\ chan[l][i].rnd \in Nat
           /\ chan[l][i].kind \in Kinds
<1>1. chan[l] \in Seq(Message)
    BY DEF TypeOK
<1>2. chan[l][i] \in Message
    BY <1>1
<1> QED
    BY <1>2, LenType DEF Message, Rounds

LEMMA TakeLink ==
    ASSUME TypeOK, PhaseInv, LinkInv, NEW p \in Parties, Take(p), NEW l \in Links
    PROVE  LinkOf(l)'
<1>1. l[1] \in Parties /\ l[2] \in Parties
    BY DEF Links
<1>2. LinkOf(l) /\ UNCHANGED <<chan, status>>
    BY DEF LinkInv, Take
<1>3. /\ SentTo(l[1], l[2])' = SentTo(l[1], l[2])
      /\ ReadFrom(l[2], l[1])' = ReadFrom(l[2], l[1])
    BY <1>1, TakeCounters
<1>4. ASSUME NEW i \in 1..Len(chan[l])
      PROVE  InFlight(l, i)'
    <2> DEFINE m == chan[l][i]
    <2>1. InFlight(l, i)
        BY <1>2 DEF LinkOf
    <2>2. m.rnd \in Nat /\ m.kind \in Kinds
        BY MessageOn
    <2>3. CASE l[1] = p
        <3>1. /\ m.rnd <= Entered(p)
              /\ Entered(p) \in Nat
              /\ Entered(p)' = Entered(p) + 1
              /\ Entered(p)' = rnd[p]
            BY <1>1, <2>1, <2>2, <2>3, SentToEntered, CounterTypes, TakeCounters
               DEF InFlight
        <3>2. used[p]'[m.kind] = used[p][m.kind] + Takes(rnd[p], m.kind)
            BY <2>2, TakeUsed
        <3>3. m' = m
            BY <1>2
        <3> HIDE DEF m
        <3>4. m.sender = p /\ m.kind = Kind(m.rnd)
              /\ (m.rnd = Entered(p) => m.upto = used[p][m.kind])
            BY <2>1, <2>3 DEF InFlight, SentBy, m
        <3>5. SentBy(p, m)'
            BY <2>2, <3>1, <3>2, <3>3, <3>4 DEF SentBy, Takes, Kind, Need
        <3> QED
            BY <1>2, <1>3, <2>1, <2>3, <3>5 DEF InFlight, m
    <2>4. CASE l[1] # p
        <3>1. Entered(l[1])' = Entered(l[1])
            BY <1>1, <2>4, TakeCounters
        <3>2. used[l[1]]' = used[l[1]]
            BY <1>1, <2>4 DEF Take, TypeOK
        <3>3. /\ SentTo(l[1], l[2]) \in Nat /\ SentTo(l[1], l[2])' \in Nat
              /\ SentTo(l[1], l[2]) <= SentTo(l[1], l[2])'
            <4>1. SentTo(l[1], l[2]) \in Nat
                BY <1>1, CounterTypes
            <4> QED
                BY <1>3, <4>1
        <3> QED
            BY <1>2, <1>3, <2>1, <2>2, <3>1, <3>2, <3>3, InFlightStays
    <2> QED
        BY <2>3, <2>4
<1> QED
    BY <1>2, <1>3, <1>4 DEF LinkOf, Up, Intact

\* The links that a step leaves alone, when it changes no counter of theirs
\* except that more may have been sent.
LEMMA QuietLink ==
    ASSUME TypeOK, NEW l \in Links, LinkOf(l),
           \A i \in 1..Len(chan[l]') : chan[l]'[i] = chan[l][i],
           Len(chan[l]') \in Nat, Len(chan[l]') <= Len(chan[l]),
           ReadFrom(l[2], l[1])' = ReadFrom(l[2], l[1]),
           SentTo(l[1], l[2])' = SentTo(l[1], l[2]),
           Entered(l[1])' = Entered(l[1]), used[l[1]]' = used[l[1]]
    PROVE  \A i \in 1..Len(chan[l]') : InFlight(l, i)'
<1> SUFFICES ASSUME NEW i \in 1..Len(chan[l]')
             PROVE  InFlight(l, i)'
    OBVIOUS
<1>1. l[1] \in Parties /\ l[2] \in Parties /\ chan[l] \in Seq(Message)
    BY DEF Links, TypeOK
<1>2. i \in 1..Len(chan[l])
    BY <1>1
<1>3. InFlight(l, i) /\ chan[l][i].rnd \in Nat
    BY <1>2, MessageOn DEF LinkOf
<1>4. SentTo(l[1], l[2]) \in Nat
    BY <1>1, CounterTypes
<1> QED
    BY <1>3, <1>4, InFlightStays

LEMMA SendLink ==
    ASSUME TypeOK, TypeOK', PhaseInv, LinkInv, NEW p \in Parties, NEW q \in Parties,
           Send(p, q), NEW l \in Links
    PROVE  LinkOf(l)'
<1>1. /\ l[1] \in Parties /\ l[2] \in Parties /\ l[1] # l[2] /\ l = <<l[1], l[2]>>
      /\ <<p, q>> \in Links
    BY DEF Links, Send, Peers
<1>2. /\ LinkOf(l)
      /\ UNCHANGED <<status, used, rnd>>
      /\ chan[l] \in Seq(Message)
    BY DEF LinkInv, Send, TypeOK
<1>3. /\ SentTo(l[1], l[2])' = IF l = <<p, q>> THEN rnd[p] ELSE SentTo(l[1], l[2])
      /\ ReadFrom(l[2], l[1])' = ReadFrom(l[2], l[1])
      /\ Entered(l[1])' = Entered(l[1])
    BY <1>1, SendCounters
<1>4. /\ SentTo(l[1], l[2]) \in Nat /\ ReadFrom(l[2], l[1]) \in Nat /\ rnd[p] \in Nat
    BY <1>1, CounterTypes
<1>5. CASE l # <<p, q>>
    <2>1. chan[l]' = chan[l]
        BY <1>1, <1>5 DEF Send, TypeOK
    <2>2. \A i \in 1..Len(chan[l]') : InFlight(l, i)'
        BY <1>2, <1>3, <1>5, <2>1, QuietLink
    <2> QED
        BY <1>2, <1>3, <1>5, <2>1, <2>2 DEF LinkOf, Up, Intact
<1>6. CASE l = <<p, q>>
    <2>0. l[1] = p /\ l[2] = q
        BY <1>6
    <2>1. SentTo(p, q) = rnd[p] - 1 /\ Up(p) /\ pc[p] = "send"
        BY DEF Send, SentTo
    <2>2. SentTo(p, q)' = rnd[p] /\ SentTo(p, q) \in Nat
        BY <1>3, <1>4, <1>6, <2>0
    <2>3. CASE ~Up(q)
        <3>1. chan[l]' = chan[l] /\ chan[l] = << >>
            BY <1>2, <1>6, <2>0, <2>3 DEF Send, LinkOf
        <3> QED
            BY <1>2, <2>0, <2>3, <3>1 DEF LinkOf, Up, Intact
    <2>4. CASE Up(q)
        <3>1. chan[l]' = Append(chan[l], OwnMessage(p))
            BY <1>1, <1>6, <2>4 DEF Send, TypeOK
        <3>2. Len(chan[l]) = SentTo(p, q) - ReadFrom(q, p)
            BY <1>2, <2>0, <2>1, <2>4 DEF LinkOf, Up, Intact
        <3>3. Len(chan[l]') = SentTo(p, q)' - ReadFrom(q, p)'
            <4>1. Len(chan[l]') = Len(chan[l]) + 1
                BY <1>2, <3>1
            <4>2. ReadFrom(q, p)' = ReadFrom(q, p) /\ ReadFrom(q, p) \in Nat
                BY <1>3, <1>4, <2>0
            <4> QED
                BY <1>4, <2>1, <2>2, <3>2, <4>1, <4>2
        <3>4. ASSUME NEW i \in 1..Len(chan[l]')
              PROVE  InFlight(l, i)'
            <4>1. CASE i \in 1..Len(chan[l])
                <5>1. chan[l]'[i] = chan[l][i]
                    BY <1>2, <3>1, <4>1
                <5>2. InFlight(l, i) /\ chan[l][i].rnd \in Nat
                    BY <1>2, <4>1, MessageOn DEF LinkOf
                <5> QED
                    BY <1>2, <1>3, <1>4, <2>0, <2>1, <2>2, <5>1, <5>2, InFlightStays
            <4>2. CASE i = Len(chan[l]) + 1
                <5>1. chan[l]'[i] = OwnMessage(p)
                    BY <1>2, <3>1, <4>2
                <5>2. ReadFrom(q, p)' + i = rnd[p]
                    BY <1>2, <1>3, <1>4, <2>0, <2>1, <3>2, <4>2
                <5>3. Entered(p)' = rnd[p]
                    BY <1>3, <2>0, <2>1 DEF Entered
                <5>4. SentBy(p, OwnMessage(p))'
                    BY <1>2, <1>4, <5>3 DEF SentBy, OwnMessage, Kind
                <5>5. OwnMessage(p)' = OwnMessage(p) /\ OwnMessage(p).rnd = rnd[p]
                    BY <1>2 DEF OwnMessage, Kind
                <5> QED
                    BY <1>4, <2>0, <2>2, <5>1, <5>2, <5>4, <5>5 DEF InFlight
            <4> QED
                BY <1>2, <3>1, <4>1, <4>2
        <3> QED
            BY <1>2, <2>0, <2>4, <3>3, <3>4 DEF LinkOf, Up, Intact
    <2> QED
        BY <2>3, <2>4
<1> QED
    BY <1>5, <1>6

LEMMA ReceiveLink ==
    ASSUME TypeOK, PhaseInv, LinkInv, NEW p \in Parties, NEW q \in Parties,
           Receive(p, q), NEW l \in Links
    PROVE  LinkOf(l)'
<1>1. /\ l[1] \in Parties /\ l[2] \in Parties /\ l = <<l[1], l[2]>>
      /\ <<q, p>> \in Links
    BY DEF Links, Receive, Peers
<1>2. /\ LinkOf(l)
      /\ UNCHANGED <<status, used, rnd>>
      /\ chan[l] \in Seq(Message)
    BY DEF LinkInv, Receive, TypeOK
<1>3. /\ SentTo(l[1], l[2])' = SentTo(l[1], l[2])
      /\ ReadFrom(l[2], l[1])' = IF l = <<q, p>> THEN ReadFrom(l[2], l[1]) + 1
                                 ELSE ReadFrom(l[2], l[1])
      /\ Entered(l[1])' = Entered(l[1])
    BY <1>1, HearCounters
<1>4. SentTo(l[1], l[2]) \in Nat /\ ReadFrom(l[2], l[1]) \in Nat
    BY <1>1, CounterTypes
<1>5. CASE l # <<q, p>>
    <2>1. chan[l]' = chan[l]
        BY <1>1, <1>5 DEF Receive, TypeOK
    <2>2. \A i \in 1..Len(chan[l]') : InFlight(l, i)'
        BY <1>2, <1>3, <1>5, <2>1, QuietLink
    <2> QED
        BY <1>2, <1>3, <1>5, <2>1, <2>2 DEF LinkOf, Up, Intact
<1>6. CASE l = <<q, p>>
    <2>1. chan[l] # << >> /\ chan[l]' = Tail(chan[l]) /\ Up(p) /\ l[2] = p
        BY <1>1, <1>6 DEF Receive, TypeOK
    <2>2. Len(chan[l]') = Len(chan[l]) - 1
        BY <1>2, <2>1
    <2>3. ASSUME NEW i \in 1..Len(chan[l]')
          PROVE  InFlight(l, i)'
        <3>1. i + 1 \in 1..Len(chan[l]) /\ chan[l]'[i] = chan[l][i + 1]
            BY <1>2, <2>1, <2>2
        <3>2. InFlight(l, i + 1) /\ chan[l][i + 1].rnd \in Nat
            BY <1>2, <3>1, MessageOn DEF LinkOf
        <3> DEFINE m == chan[l][i + 1]
        <3>3. SentBy(l[1], m) /\ m.rnd = ReadFrom(l[2], l[1]) + (i + 1)
              /\ m.rnd <= SentTo(l[1], l[2])
            BY <3>2 DEF InFlight
        <3>4. chan[l]'[i] = m
            BY <3>1
        <3> HIDE DEF m
        <3>5. SentBy(l[1], chan[l][i])'
            BY <1>2, <1>3, <3>3, <3>4 DEF SentBy, Takes, Kind, Need
        <3>6. m.rnd = ReadFrom(l[2], l[1])' + i
            BY <1>3, <1>4, <1>6, <3>3
        <3> QED
            BY <1>3, <3>3, <3>4, <3>5, <3>6 DEF InFlight
    <2>4. Intact(l[1])' =>
              Len(chan[l]') = SentTo(l[1], l[2])' - ReadFrom(l[2], l[1])'
        <3>1. Intact(l[1]) => Len(chan[l]) = SentTo(l[1], l[2]) - ReadFrom(l[2], l[1])
            BY <1>2, <2>1 DEF LinkOf
        <3> QED
            BY <1>2, <1>3, <1>4, <1>6, <2>2, <3>1 DEF Intact
    <2> QED
        BY <1>2, <2>1, <2>3, <2>4 DEF LinkOf, Up
<1> QED
    BY <1>5, <1>6

LEMMA ReceiveNoneLink ==
    ASSUME TypeOK, PhaseInv, LinkInv, NEW p \in Parties, NEW q \in Parties,
           ReceiveNone(p, q), NEW l \in Links
    PROVE  LinkOf(l)'
<1>1. l[1] \in Parties /\ l[2] \in Parties /\ l = <<l[1], l[2]>>
    BY DEF Links
<1>2. /\ LinkOf(l)
      /\ UNCHANGED <<status, used, rnd, chan>>
      /\ chan[l] \in Seq(Message)
    BY DEF LinkInv, ReceiveNone, TypeOK
<1>3. /\ SentTo(l[1], l[2])' = SentTo(l[1], l[2])
      /\ ReadFrom(l[2], l[1])' = IF l = <<q, p>> THEN ReadFrom(l[2], l[1]) + 1
                                 ELSE ReadFrom(l[2], l[1])
      /\ Entered(l[1])' = Entered(l[1])
    BY <1>1, HearCounters
<1>5. CASE l # <<q, p>>
    <2>2. \A i \in 1..Len(chan[l]') : InFlight(l, i)'
        BY <1>2, <1>3, <1>5, QuietLink
    <2> QED
        BY <1>2, <1>3, <1>5, <2>2 DEF LinkOf, Up, Intact
<1>6. CASE l = <<q, p>>
    <2>1. /\ chan[l] = << >> /\ chan[l]' = << >>
          /\ ~Up(q) /\ Up(p) /\ pc[p] = "recv" /\ l[1] = q /\ l[2] = p
        BY <1>2, <1>6 DEF ReceiveNone
    <2>2. ~Intact(q)
        <3>1. SUFFICES ASSUME status[q] = "done" PROVE FALSE
            BY <2>1 DEF Intact, Up
        <3>2. rnd[q] \notin Rounds
            BY <3>1 DEF PhaseInv, PhaseOf
        <3>3. rnd[q] = Len(Schedule) + 1 /\ rnd[q] - 1 <= SentTo(q, p)
            <4>1. rnd[q] \in 1..Len(Schedule) + 1
                BY DEF TypeOK
            <4>2. SentTo(q, p) \in {rnd[q], rnd[q] - 1}
                BY CounterTypes
            <4> QED
                BY <3>2, <4>1, <4>2, LenType DEF Rounds
        <3>4. ReadFrom(p, q) + 1 = rnd[p] /\ rnd[p] \in Rounds
            BY <2>1, HearCounters, UpRound
        <3>5. 0 = SentTo(q, p) - ReadFrom(p, q)
            BY <1>2, <2>1, <3>1 DEF LinkOf, Intact
        <3> QED
            BY <3>3, <3>4, <3>5, LenType, CounterTypes DEF Rounds
    <2> QED
        BY <1>2, <2>1, <2>2 DEF LinkOf, Up, Intact
<1> QED
    BY <1>5, <1>6

LEMMA CombineLink ==
    ASSUME TypeOK, PhaseInv, LinkInv, NEW p \in Parties, Combine(p), NEW l \in Links
    PROVE  LinkOf(l)'
<1>1. l[1] \in Parties /\ l[2] \in Parties /\ l[1] # l[2]
    BY DEF Links
<1>2. /\ LinkOf(l)
      /\ UNCHANGED <<used, chan>>
      /\ chan[l] \in Seq(Message)
      /\ status' = IF rnd[p] + 1 \in Rounds THEN status
                   ELSE [status EXCEPT ![p] = "done"]
      /\ Up(p) /\ heard[p] = Peers(p)
    BY DEF LinkInv, Combine, TypeOK
<1>3. /\ SentTo(l[1], l[2])' = SentTo(l[1], l[2])
      /\ ReadFrom(l[2], l[1])' = ReadFrom(l[2], l[1])
      /\ Entered(l[1])' = Entered(l[1])
    BY <1>1, CombineCounters
<1>4. \A i \in 1..Len(chan[l]') : InFlight(l, i)'
    BY <1>2, <1>3, QuietLink
<1>5. Up(l[2])' => Up(l[2])
    BY <1>1, <1>2 DEF Up, TypeOK
<1>6. Intact(l[1])' => Intact(l[1])
    BY <1>1, <1>2 DEF Up, Intact, TypeOK
<1>7. ~Up(l[2])' => chan[l]' = << >>
    <2>1. SUFFICES ASSUME ~Up(l[2])', Up(l[2]), chan[l] # << >> PROVE FALSE
        BY <1>2 DEF LinkOf
    <2>2. l[2] = p /\ rnd[p] + 1 \notin Rounds
        BY <1>1, <1>2, <2>1 DEF Up, TypeOK
    <2>3. ReadFrom(p, l[1]) = rnd[p]
        BY <1>1, <1>2, <2>2 DEF Peers, ReadFrom
    <2>4. 1 \in 1..Len(chan[l])
        BY <1>2, <2>1
    <2>5. chan[l][1].rnd = rnd[p] + 1
        BY <1>2, <2>2, <2>3, <2>4 DEF LinkOf, InFlight
    <2> QED
        BY <2>2, <2>4, <2>5, MessageOn
<1> QED
    BY <1>2, <1>3, <1>4, <1>5, <1>6, <1>7 DEF LinkOf

LEMMA FailingLink ==
    ASSUME TypeOK, TypeOK', PhaseInv, LinkInv, NEW p \in Parties, Failing(p),
           NEW l \in Links
    PROVE  LinkOf(l)'
<1>1. l[1] \in Parties /\ l[2] \in Parties /\ l[1] # l[2]
    BY DEF Links
<1>2. /\ UNCHANGED <<rnd, pc, sent, heard, store, used, token>>
      /\ l[2] = p => chan'[l] = << >>
      /\ Len(chan'[l]) <= Len(chan[l])
      /\ \A i \in 1..Len(chan'[l]) : chan'[l][i] = chan[l][i]
    BY FailingShape
<1>3. PICK how \in {"exhausted", "aborted", "crashed"} :
          status' = [status EXCEPT ![p] = how]
    BY FailingShape
<1>4. LinkOf(l) /\ chan[l] \in Seq(Message) /\ chan[l]' \in Seq(Message)
    BY DEF LinkInv, TypeOK
<1>5. /\ SentTo(l[1], l[2])' = SentTo(l[1], l[2])
      /\ ReadFrom(l[2], l[1])' = ReadFrom(l[2], l[1])
      /\ Entered(l[1])' = Entered(l[1])
    BY <1>2, FailCounters
<1>6. \A i \in 1..Len(chan[l]') : InFlight(l, i)'
    BY <1>2, <1>4, <1>5, QuietLink
<1>7. ~Up(l[2])' => chan[l]' = << >>
    <2>1. CASE l[2] = p
        BY <1>2, <2>1
    <2>2. CASE l[2] # p /\ ~Up(l[2])'
        <3>1. ~Up(l[2])
            BY <1>1, <1>3, <2>2 DEF Up, TypeOK
        <3>2. Len(chan[l]) = 0
            BY <1>4, <3>1 DEF LinkOf
        <3> QED
            BY <1>2, <1>4, <3>2
    <2> QED
        BY <2>1, <2>2
<1>8. Intact(l[1])' /\ Up(l[2])' => l[1] # p /\ l[2] # p /\ Intact(l[1]) /\ Up(l[2])
    BY <1>1, <1>3 DEF Up, Intact, TypeOK
<1>9. l[1] # p /\ l[2] # p => chan[l]' = chan[l]
    BY DEF Failing, TakePanic, CombinePanic, Crash, Fail, Drop
<1> QED
    BY <1>4, <1>5, <1>6, <1>7, <1>8, <1>9 DEF LinkOf

LEMMA StepLink ==
    ASSUME TypeOK, TypeOK', PhaseInv, LinkInv, Next
    PROVE  LinkInv'
<1> SUFFICES ASSUME NEW l \in Links PROVE LinkOf(l)'
    BY DEF LinkInv
<1>1. CASE Over
    <2>1. UNCHANGED <<rnd, pc, sent, heard, used, status, chan>>
        BY <1>1 DEF Over, vars
    <2>2. LinkOf(l)
        BY DEF LinkInv
    <2> QED
        BY <2>1, <2>2 DEF LinkOf, Up, Intact, InFlight, SentBy, SentTo, ReadFrom,
                          Entered, Takes, Kind, Need
<1> QED
    BY <1>1, NextCases, TakeLink, SendLink, ReceiveLink, ReceiveNoneLink,
       CombineLink, FailingLink

LEMMA FiledStays ==
    ASSUME NEW a, NEW k, NEW m, Filed(a, k, m),
           rnd[a]' = rnd[a], used[a]' = used[a], heard[a] \subseteq heard[a]',
           rnd[a] \in Nat, SentTo(m.sender, a) \in Nat,
           SentTo(m.sender, a)' = SentTo(m.sender, a) \/ SentTo(m.sender, a)' >= rnd[a]
    PROVE  Filed(a, k, m)'
BY DEF Filed, Kind

\* A message received is of the receiver's round and matches its slice: by
\* SkewInv its sender has at most taken the next slice, so the link and the
\* counters pin the message down.
LEMMA ReceivedFiled ==
    ASSUME TypeOK, PhaseInv, SkewInv, UsedInv, LinkInv,
           NEW p \in Parties, NEW q \in Parties, Receive(p, q),
           NEW m, m = Head(chan[<<q, p>>])
    PROVE  m \in Message /\ Filed(p, m.kind, m)'
<1> DEFINE l == <<q, p>>
<1>1. /\ l \in Links /\ q # p /\ l[1] = q /\ l[2] = p
      /\ chan[l] # << >> /\ pc[p] = "recv" /\ Up(p)
      /\ UNCHANGED <<rnd, used>>
      /\ heard' = [heard EXCEPT ![p] = @ \cup {q}]
    BY DEF Receive, Peers, Links
<1>2. chan[l] \in Seq(Message)
    BY <1>1 DEF TypeOK
<1>3. 1 \in 1..Len(chan[l]) /\ m = chan[l][1]
    BY <1>1, <1>2
<1>4. /\ m \in Message /\ m.rnd \in Nat /\ m.kind \in Kinds
      /\ m.rnd = ReadFrom(p, q) + 1
      /\ m.rnd <= SentTo(q, p)
      /\ SentBy(q, m)
    BY <1>1, <1>3, MessageOn DEF LinkInv, LinkOf, InFlight
<1>5. m.rnd = rnd[p] /\ Entered(p) = rnd[p]
    BY <1>1, <1>4, HearCounters DEF Entered
<1>6. Entered(q) = m.rnd \/ Entered(q) = m.rnd + 1
    BY <1>4, <1>5, SentToEntered, Skew, CounterTypes
<1>7. UsedAgree(p, q, m.kind) /\ UsedAgree(q, p, m.kind)
    BY <1>4 DEF UsedInv
<1>8. used[p][m.kind] \in Nat /\ used[q][m.kind] \in Nat /\ m.upto \in Nat
    BY <1>4 DEF TypeOK, Message
<1>9. m.upto = used[p][m.kind]
    <2>1. CASE Entered(q) = m.rnd
        BY <1>4, <1>5, <1>7, <2>1 DEF SentBy, UsedAgree
    <2>2. CASE Entered(q) = m.rnd + 1
        <3>1. used[q][m.kind] = m.upto + Takes(Entered(q), m.kind)
            BY <1>4, <2>2 DEF SentBy
        <3>2. used[q][m.kind] = used[p][m.kind] + Takes(Entered(q), m.kind)
            BY <1>5, <1>7, <2>2 DEF UsedAgree
        <3>3. Takes(Entered(q), m.kind) \in Nat
            <4>1. rnd[q] \in 1..Len(Schedule) + 1
                BY DEF TypeOK
            <4>2. pc[q] # "take" => rnd[q] \in Rounds
                BY DEF PhaseInv, PhaseOf
            <4>3. m.rnd \in Rounds
                BY <1>4 DEF Message
            <4>4. Entered(q) \in Rounds
                BY <2>2, <4>1, <4>2, <4>3, LenType DEF Entered, Rounds
            <4> QED
                BY <4>4, RoundType DEF Takes
        <3> QED
            BY <1>8, <3>1, <3>2, <3>3
    <2> QED
        BY <1>6, <2>1, <2>2
<1>10. m.kind = Kind(rnd[p]) /\ m.sender = q
    BY <1>4, <1>5 DEF SentBy
<1>11. SentTo(q, p)' >= rnd[p]
    <2>1. SentTo(q, p)' = SentTo(q, p)
        BY HearCounters
    <2> QED
        BY <2>1, <1>4, <1>5
<1>12. q \in heard[p]'
    BY <1>1 DEF TypeOK
<1>13. Filed(p, m.kind, m)'
    BY <1>1, <1>5, <1>9, <1>10, <1>11, <1>12 DEF Filed, Kind
<1> QED
    BY <1>4, <1>13

LEMMA StepStore ==
    ASSUME TypeOK, PhaseInv, SkewInv, UsedInv, LinkInv, StoreInv, Next
    PROVE  StoreInv'
<1> SUFFICES ASSUME NEW a \in Parties, NEW k \in Kinds, NEW m \in store[a]'[k]
             PROVE  Filed(a, k, m)'
    BY DEF StoreInv
<1>0. ASSUME m \in store[a][k]
      PROVE  /\ Filed(a, k, m)
             /\ m.sender \in Parties /\ m.sender # a /\ m.sender \in heard[a]
             /\ rnd[a] \in Nat /\ SentTo(m.sender, a) \in Nat
    <2>1. Filed(a, k, m)
        BY <1>0 DEF StoreInv
    <2>2. m.sender \in heard[a] /\ heard[a] \subseteq Peers(a)
        BY <2>1 DEF Filed, PhaseInv, PhaseOf
    <2> QED
        BY <2>1, <2>2, CounterTypes DEF Peers
<1>1. ASSUME NEW p \in Parties, Take(p)
      PROVE  Filed(a, k, m)'
    <2>1. store' = store /\ UNCHANGED <<rnd, heard>> /\ pc[p] = "take"
        BY <1>1 DEF Take
    <2>2. a # p
        BY <1>0, <2>1 DEF PhaseInv, PhaseOf
    <2>3. used[a]' = used[a]
        BY <1>1, <2>2 DEF Take, TypeOK
    <2>4. SentTo(m.sender, a)' = SentTo(m.sender, a)
        BY <1>0, <1>1, <2>1, TakeCounters
    <2> QED
        BY <1>0, <2>1, <2>3, <2>4, FiledStays
<1>2. ASSUME NEW p \in Parties, NEW q \in Parties, Send(p, q)
      PROVE  Filed(a, k, m)'
    <2>1. UNCHANGED <<store, rnd, heard, used>>
        BY <1>2 DEF Send
    <2>2. /\ SentTo(m.sender, a)' = IF m.sender = p /\ a = q THEN rnd[p]
                                    ELSE SentTo(m.sender, a)
          /\ m.sender = p /\ a = q => SentTo(m.sender, a) <= rnd[p]
        BY <1>0, <1>2, <2>1, SendCounters, CounterTypes
    <2>3. SentTo(m.sender, a) >= rnd[a]
        BY <1>0, <2>1 DEF Filed
    <2>4. rnd[p] \in Nat
        BY CounterTypes
    <2>5. SentTo(m.sender, a)' = SentTo(m.sender, a) \/ SentTo(m.sender, a)' >= rnd[a]
        BY <1>0, <2>1, <2>2, <2>3, <2>4
    <2> QED
        BY <1>0, <2>1, <2>5, FiledStays
<1>3. ASSUME NEW p \in Parties, NEW q \in Parties, Receive(p, q)
      PROVE  Filed(a, k, m)'
    <2>0. PICK n : n = Head(chan[<<q, p>>])
        OBVIOUS
    <2>1. /\ UNCHANGED <<rnd, used>>
          /\ heard' = [heard EXCEPT ![p] = @ \cup {q}]
          /\ store' = [store EXCEPT ![p][n.kind] = @ \cup {n}]
        BY <1>3, <2>0 DEF Receive
    <2>2. n \in Message /\ Filed(p, n.kind, n)'
        BY <1>3, <2>0, ReceivedFiled
    <2>3. n.kind \in Kinds
        BY <2>2 DEF Message
    <2>4. m \in store[a][k] \/ (a = p /\ k = n.kind /\ m = n)
        BY <2>1, <2>3 DEF TypeOK
    <2>5. CASE a = p /\ k = n.kind /\ m = n
        BY <2>2, <2>5
    <2>6. CASE m \in store[a][k]
        <3>1. heard[a] \subseteq heard[a]'
            BY <2>1 DEF TypeOK
        <3>2. SentTo(m.sender, a)' = SentTo(m.sender, a)
            BY <1>0, <1>3, <2>6, HearCounters
        <3> QED
            BY <1>0, <2>1, <2>6, <3>1, <3>2, FiledStays
    <2> QED
        BY <2>4, <2>5, <2>6
<1>4. ASSUME NEW p \in Parties, NEW q \in Parties, ReceiveNone(p, q)
      PROVE  Filed(a, k, m)'
    <2>1. /\ UNCHANGED <<rnd, used, store>>
          /\ heard' = [heard EXCEPT ![p] = @ \cup {q}]
        BY <1>4 DEF ReceiveNone
    <2>2. heard[a] \subseteq heard[a]'
        BY <2>1 DEF TypeOK
    <2>3. SentTo(m.sender, a)' = SentTo(m.sender, a)
        BY <1>0, <1>4, <2>1, HearCounters
    <2> QED
        BY <1>0, <2>1, <2>2, <2>3, FiledStays
<1>5. ASSUME NEW p \in Parties, Combine(p)
      PROVE  Filed(a, k, m)'
    <2>1. /\ store' = [store EXCEPT ![p][Kind(rnd[p])] = {}]
          /\ rnd' = [rnd EXCEPT ![p] = rnd[p] + 1]
          /\ heard' = [heard EXCEPT ![p] = {}]
          /\ used' = used
        BY <1>5 DEF Combine
    <2>2. Kind(rnd[p]) \in Kinds
        BY <1>5, UpRound, RoundType DEF Combine
    <2>3. m \in store[a][k] /\ ~(a = p /\ k = Kind(rnd[p]))
        BY <2>1, <2>2 DEF TypeOK
    <2>4. a # p
        BY <1>0, <2>3 DEF Filed
    <2>5. rnd[a]' = rnd[a] /\ heard[a]' = heard[a]
        BY <2>1, <2>4 DEF TypeOK
    <2>6. SentTo(m.sender, a)' = SentTo(m.sender, a)
        BY <1>0, <1>5, <2>3, CombineCounters
    <2> QED
        BY <1>0, <2>1, <2>3, <2>5, <2>6, FiledStays
<1>6. ASSUME NEW p \in Parties, Failing(p)
      PROVE  Filed(a, k, m)'
    <2>1. UNCHANGED <<rnd, pc, sent, heard, store, used>>
        BY <1>6, FailingShape
    <2> QED
        BY <1>0, <2>1, FailCounters, FiledStays
<1>7. CASE Over
    <2>1. UNCHANGED <<rnd, pc, sent, heard, store, used>>
        BY <1>7 DEF Over, vars
    <2> QED
        BY <1>0, <2>1, FailCounters, FiledStays
<1> QED
    BY NextCases, <1>1, <1>2, <1>3, <1>4, <1>5, <1>6, <1>7

----------------------------------------------------------------------------
(* The invariant.                                                          *)

LEMMA InitInv == Init => RoundsInv
<1> SUFFICES ASSUME Init PROVE RoundsInv
    OBVIOUS
<1>1. TypeOK
    BY InitType
<1>2. PhaseInv
    BY LenType DEF Init, PhaseInv, PhaseOf, Rounds
<1>3. \A p, q \in Parties : Entered(p) = 0 /\ SentTo(p, q) = 0
    BY DEF Init, Entered, SentTo
<1>4. SkewInv
    BY <1>3 DEF Init, SkewInv, Links
<1>5. UsedInv
    BY <1>3 DEF Init, UsedInv, UsedAgree
<1>6. LinkInv
    <2> SUFFICES ASSUME NEW l \in Links PROVE LinkOf(l)
        BY DEF LinkInv
    <2>1. l[1] \in Parties /\ l[2] \in Parties /\ chan[l] = << >>
        BY DEF Init, Links
    <2>2. SentTo(l[1], l[2]) = 0 /\ ReadFrom(l[2], l[1]) = 0
        BY <1>3, <2>1 DEF Init, ReadFrom
    <2> QED
        BY <2>1, <2>2 DEF LinkOf
<1>7. StoreInv
    BY DEF Init, StoreInv
<1> QED
    BY <1>1, <1>2, <1>4, <1>5, <1>6, <1>7 DEF RoundsInv

LEMMA StepInv == RoundsInv /\ [Next]_vars => RoundsInv'
<1> SUFFICES ASSUME RoundsInv, [Next]_vars PROVE RoundsInv'
    OBVIOUS
<1> USE DEF RoundsInv
<1>1. CASE Next
    <2>1. TypeOK'
        BY <1>1, StepType
    <2> QED
        BY <1>1, <2>1, StepPhase, StepSkew, StepUsed, StepLink, StepStore
<1>2. CASE UNCHANGED vars
    BY <1>2 DEF vars, TypeOK, PhaseInv, PhaseOf, SkewInv, UsedInv, UsedAgree,
                LinkInv, LinkOf, InFlight, SentBy, StoreInv, Filed, Up, Intact,
                Entered, SentTo, ReadFrom, Takes, Kind, Need, Rounds, Peers
<1> QED
    BY <1>1, <1>2

\* The invariant holds in every reachable state of every instance.
THEOREM Invariance == Spec => []RoundsInv
BY InitInv, StepInv, PTL DEF Spec

----------------------------------------------------------------------------
(* What the inductive invariant gives: the properties of MpcRounds, and the *)
(* implementation of Lockstep.                                             *)

\* The variables keep their types.
THEOREM TypeCorrect == Spec => []TypeOK
<1>1. RoundsInv => TypeOK
    BY DEF RoundsInv
<1> QED
    BY <1>1, Invariance, PTL

\* What a receive function hands out was made in the receiver's round, with
\* the slice of correlated randomness the receiver has just taken.
THEOREM SharesAlwaysMatch == Spec => []SharesMatch
<1>1. RoundsInv => SharesMatch
    BY DEF RoundsInv, StoreInv, Filed, SharesMatch
<1> QED
    BY <1>1, Invariance, PTL

\* No link ever holds more than two messages.
THEOREM LinksBounded == Spec => []LinkBound
<1>1. ASSUME RoundsInv
      PROVE  LinkBound
    <2> SUFFICES ASSUME NEW l \in Links, Len(chan[l]) > 2
                 PROVE  FALSE
        BY <1>1 DEF RoundsInv, TypeOK, LinkBound
    <2> DEFINE p == l[1]
               q == l[2]
    <2>1. TypeOK /\ PhaseInv /\ SkewInv /\ LinkOf(l)
        BY <1>1 DEF RoundsInv, LinkInv
    <2>2. p \in Parties /\ q \in Parties /\ chan[l] \in Seq(Message)
        BY <2>1 DEF Links, TypeOK
    <2>3. 3 \in 1..Len(chan[l])
        BY <2>2
    <2>4. ReadFrom(q, p) + 3 <= SentTo(p, q)
        BY <2>1, <2>3 DEF LinkOf, InFlight
    <2>5. rnd[p] <= rnd[q] + 1
        BY <2>1, <2>2, Skew
    <2>6. rnd[p] \in Nat /\ rnd[q] \in Nat
        BY <2>1, <2>2, CounterTypes
    <2>7. SentTo(p, q) <= rnd[p] /\ ReadFrom(q, p) >= rnd[q] - 1
        BY <2>6 DEF SentTo, ReadFrom
    <2>8. SentTo(p, q) \in Nat /\ ReadFrom(q, p) \in Nat
        BY <2>1, <2>2, CounterTypes
    <2> QED
        BY <2>4, <2>5, <2>6, <2>7, <2>8
<1>2. RoundsInv => LinkBound
    BY <1>1
<1> QED
    BY <1>2, Invariance, PTL

\* A server returns from its last query with nothing unread, and no peer
\* still has to send to it.
THEOREM ExitsAreClean == Spec => []CleanExit
<1>1. ASSUME RoundsInv
      PROVE  CleanExit
    <2> SUFFICES ASSUME NEW p \in Parties, status[p] = "done", NEW q \in Peers(p)
                 PROVE  /\ chan[<<q, p>>] = << >>
                        /\ \/ rnd[q] > Len(Schedule)
                           \/ /\ rnd[q] = Len(Schedule)
                              /\ pc[q] = "recv" \/ (pc[q] = "send" /\ p \in sent[q])
        BY DEF CleanExit
    <2>1. TypeOK /\ PhaseInv /\ SkewInv /\ LinkInv
        BY <1>1 DEF RoundsInv
    <2>2. q \in Parties /\ <<q, p>> \in Links /\ <<q, p>>[1] = q /\ <<q, p>>[2] = p
        BY DEF Peers, Links
    <2>3. chan[<<q, p>>] = << >>
        BY <2>1, <2>2 DEF LinkInv, LinkOf, Up
    <2>4. rnd[p] = Len(Schedule) + 1
        BY <2>1, LenType DEF TypeOK, PhaseInv, PhaseOf, Rounds
    <2>5. SentTo(q, p) >= rnd[p] - 1
        BY <2>1, <2>2 DEF SkewInv
    <2>6. rnd[q] \in 1..Len(Schedule) + 1 /\ pc[q] \in {"take", "send", "recv"}
        BY <2>1, <2>2 DEF TypeOK
    <2>7. /\ pc[q] # "send" => sent[q] = {}
          /\ rnd[q] \notin Rounds => pc[q] = "take"
        BY <2>1, <2>2 DEF PhaseInv, PhaseOf
    <2> QED
        BY <2>3, <2>4, <2>5, <2>6, <2>7, LenType DEF SentTo, Rounds
<1>2. RoundsInv => CleanExit
    BY <1>1
<1> QED
    BY <1>2, Invariance, PTL

----------------------------------------------------------------------------
(* Tokens.  TokenComplete is inductive relative to RoundsInv: a token is   *)
(* written once, from a storage whose senders EnoughSenders identifies.    *)

\* The storage server 0 aggregates, with its own commitment, holds one
\* commitment of every server.
LEMMA AggregateComplete ==
    ASSUME RoundsInv, Combine(0), Kind(rnd[0]) = "commit",
           NEW T, T = store[0]["commit"] \cup {OwnMessage(0)}
    PROVE  /\ {m.sender : m \in T} = Parties
           /\ Cardinality(T) = Cardinality(Parties)
           /\ \A m \in T : m.rnd = rnd[0] /\ m.kind = "commit"
<1> DEFINE S == store[0]["commit"]
           own == OwnMessage(0)
<1>1. 0 \in Parties /\ IsFiniteSet(Parties)
    BY PartiesAssumption
<1>2. TypeOK /\ PhaseInv /\ StoreInv
    BY DEF RoundsInv
<1>3. rnd[0] \in Rounds /\ Enough(0)
    BY <1>1, <1>2, UpRound DEF Combine
<1>4. /\ Senders(0) = Peers(0)
      /\ IsFiniteSet(S)
      /\ Cardinality(S) = Cardinality(Peers(0))
    BY <1>1, <1>2, <1>3, EnoughSenders DEF Enough
<1>5. "commit" \in Kinds
    BY DEF Kinds
<1>6. \A m \in S : m.rnd = rnd[0] /\ m.kind = "commit"
    BY <1>1, <1>2, <1>5 DEF StoreInv, Filed
<1>7. {m.sender : m \in S} = Peers(0)
    BY <1>4 DEF Senders
<1>8. own.sender = 0 /\ own.rnd = rnd[0] /\ own.kind = "commit"
    BY DEF OwnMessage
<1>9. own \notin S
    BY <1>7, <1>8 DEF Peers
<1> HIDE DEF own, S
<1>10. T = S \cup {own}
    BY DEF own, S
<1>11. {m.sender : m \in T} = Parties
    BY <1>1, <1>7, <1>8, <1>10 DEF Peers
<1>12. Cardinality(T) = Cardinality(S) + 1
    BY <1>4, <1>9, <1>10, FS_AddElement
<1>13. Cardinality(Peers(0)) = Cardinality(Parties) - 1 /\ Cardinality(Parties) \in Nat
    BY <1>1, PeersFinite, FS_CardinalityType
<1> QED
    BY <1>4, <1>6, <1>8, <1>10, <1>11, <1>12, <1>13

\* A step leaves the tokens as they are, or signs one.
LEMMA TokenStep ==
    ASSUME RoundsInv, Next
    PROVE  \/ token' = token
           \/ /\ Combine(0) /\ Kind(rnd[0]) = "commit"
              /\ token' = [token EXCEPT ![rnd[0]] =
                              store[0]["commit"] \cup {OwnMessage(0)}]
<1>1. ASSUME NEW p \in Parties, Failing(p) PROVE token' = token
    BY <1>1, FailingShape DEF RoundsInv
<1>2. ASSUME NEW p \in Parties, Combine(p), ~(p = 0 /\ Kind(rnd[p]) = "commit")
      PROVE  token' = token
    BY <1>2 DEF Combine
<1>3. ASSUME Combine(0), Kind(rnd[0]) = "commit"
      PROVE  token' = [token EXCEPT ![rnd[0]] =
                          store[0]["commit"] \cup {OwnMessage(0)}]
    BY <1>3 DEF Combine
<1> QED
    BY NextCases, <1>1, <1>2, <1>3
       DEF Take, Send, Receive, ReceiveNone, Over, vars

\* Every token signed aggregates exactly one commitment of every server, all
\* made for the query it signs, however servers die.
THEOREM TokensComplete == Spec => []TokenComplete
<1>1. Init => TokenComplete
    BY DEF Init, TokenComplete
<1>2. ASSUME RoundsInv, TokenComplete, [Next]_vars
      PROVE  TokenComplete'
    <2>1. CASE UNCHANGED vars
        BY <1>2, <2>1 DEF vars, TokenComplete, CommitRounds, Kind
    <2>2. CASE Next
        <3>1. CASE token' = token
            BY <1>2, <3>1 DEF TokenComplete
        <3>2. ASSUME Combine(0), Kind(rnd[0]) = "commit",
                     token' = [token EXCEPT ![rnd[0]] =
                                  store[0]["commit"] \cup {OwnMessage(0)}]
              PROVE  TokenComplete'
            <4>1. PICK T : T = store[0]["commit"] \cup {OwnMessage(0)}
                OBVIOUS
            <4>2. /\ {m.sender : m \in T} = Parties
                  /\ Cardinality(T) = Cardinality(Parties)
                  /\ \A m \in T : m.rnd = rnd[0] /\ m.kind = "commit"
                BY <1>2, <3>2, <4>1, AggregateComplete
            <4>3. token' = [token EXCEPT ![rnd[0]] = T]
                BY <3>2, <4>1
            <4>4. token \in [CommitRounds -> SUBSET Message]
                BY <1>2 DEF RoundsInv, TypeOK
            <4> SUFFICES ASSUME NEW r \in CommitRounds, token'[r] # {}
                         PROVE  /\ {m.sender : m \in token'[r]} = Parties
                                /\ Cardinality(token'[r]) = Cardinality(Parties)
                                /\ \A m \in token'[r] : m.rnd = r /\ m.kind = "commit"
                BY DEF TokenComplete
            <4>5. CASE r = rnd[0]
                <5>1. token'[r] = T
                    BY <4>3, <4>4, <4>5
                <5> QED
                    BY <4>2, <4>5, <5>1
            <4>6. CASE r # rnd[0]
                <5>1. token'[r] = token[r]
                    BY <4>3, <4>4, <4>6
                <5> QED
                    BY <1>2, <5>1 DEF TokenComplete
            <4> QED
                BY <4>5, <4>6
        <3> QED
            BY <1>2, <2>2, <3>1, <3>2, TokenStep
    <2> QED
        BY <1>2, <2>1, <2>2
<1>3. RoundsInv /\ TokenComplete /\ [Next]_vars => TokenComplete'
    BY <1>2
<1> QED
    BY <1>1, <1>3, Invariance, PTL DEF Spec

----------------------------------------------------------------------------
(* The rounds implement Lockstep.                                          *)

\* The initial states map to the initial state of Lockstep.
LEMMA InitRefines == Init => Abstract!LockstepInit
<1> SUFFICES ASSUME Init PROVE Abstract!LockstepInit
    OBVIOUS
<1>1. [p \in Parties |-> IF pc[p] = "take" THEN rnd[p] - 1 ELSE rnd[p]]
          = [p \in Parties |-> 0]
    BY DEF Init
<1>2. [p \in Parties |-> rnd[p] - 1] = [p \in Parties |-> 0]
    BY DEF Init
<1>3. {p \in Parties : ~Up(p)} = {p \in Parties : Len(Schedule) = 0}
    <2>1. Rounds = {} <=> Len(Schedule) = 0
        BY LenType DEF Rounds
    <2> QED
        BY <2>1 DEF Init, Up
<1> QED
    BY <1>1, <1>2, <1>3 DEF Abstract!LockstepInit

\* Every step of the rounds is a step of Lockstep or leaves it unchanged.
LEMMA StepRefines ==
    ASSUME RoundsInv, RoundsInv', [Next]_vars
    PROVE  [Abstract!LockstepNext]_(Abstract!lvars)
<1> DEFINE ent == [p \in Parties |-> IF pc[p] = "take" THEN rnd[p] - 1 ELSE rnd[p]]
           fin == [p \in Parties |-> rnd[p] - 1]
           gon == {p \in Parties : ~Up(p)}
<1>0. TypeOK /\ TypeOK' /\ PhaseInv /\ SkewInv /\ StoreInv
    BY DEF RoundsInv
<1>1. ASSUME NEW p \in Parties, Take(p)
      PROVE  Abstract!Enter(p)
    <2>1. /\ Up(p) /\ pc[p] = "take" /\ UNCHANGED <<rnd, status>>
          /\ pc' = [pc EXCEPT ![p] = "send"]
        BY <1>1 DEF Take
    <2>2. rnd[p] \in Rounds /\ rnd[p] \in Nat
        BY <1>0, <2>1, UpRound, CounterTypes
    <2>3. p \notin gon /\ ent[p] = fin[p] /\ ent[p] < Len(Schedule)
        BY <2>1, <2>2, LenType DEF Rounds
    <2>4. ent' = [ent EXCEPT ![p] = @ + 1]
        <3>1. ASSUME NEW a \in Parties
              PROVE  ent'[a] = IF a = p THEN ent[p] + 1 ELSE ent[a]
            BY <1>0, <2>1, <2>2 DEF TypeOK
        <3> QED
            BY <3>1
    <2>5. fin' = fin /\ gon' = gon
        BY <2>1 DEF Up
    <2> QED
        BY <2>3, <2>4, <2>5 DEF Abstract!Enter
<1>2. ASSUME NEW p \in Parties, Combine(p)
      PROVE  Abstract!Finish(p)
    <2>1. /\ Up(p) /\ pc[p] = "recv"
          /\ rnd' = [rnd EXCEPT ![p] = rnd[p] + 1]
          /\ pc' = [pc EXCEPT ![p] = "take"]
          /\ status' = IF rnd[p] + 1 \in Rounds THEN status
                       ELSE [status EXCEPT ![p] = "done"]
        BY <1>2 DEF Combine
    <2>2. rnd[p] \in Rounds /\ rnd[p] \in Nat
        BY <1>0, <2>1, UpRound, CounterTypes
    <2>3. p \notin gon /\ ent[p] = fin[p] + 1 /\ ent[p] = rnd[p]
        BY <2>1, <2>2
    <2>4. ASSUME NEW q \in Parties
          PROVE  ent[q] >= ent[p]
        <3>1. CASE q = p
            BY <2>2, <2>3, <3>1
        <3>2. CASE q # p
            <4>1. q \in Peers(p)
                BY <3>2 DEF Peers
            <4>2. SentTo(q, p) >= rnd[p]
                BY <1>0, <1>2, <4>1, HeardEveryone
            <4>3. SentTo(q, p) <= Entered(q)
                BY <1>0, SentToEntered
            <4>4. SentTo(q, p) \in Nat /\ Entered(q) \in Nat
                BY <1>0, CounterTypes
            <4>5. ent[q] = Entered(q)
                BY DEF Entered
            <4> QED
                BY <2>2, <2>3, <4>2, <4>3, <4>4, <4>5
        <3> QED
            BY <3>1, <3>2
    <2>5. fin' = [fin EXCEPT ![p] = @ + 1]
        <3>1. ASSUME NEW a \in Parties
              PROVE  fin'[a] = IF a = p THEN fin[p] + 1 ELSE fin[a]
            BY <1>0, <2>1, <2>2 DEF TypeOK
        <3> QED
            BY <3>1
    <2>6. ent' = ent
        <3>1. ASSUME NEW a \in Parties
              PROVE  ent'[a] = ent[a]
            BY <1>0, <2>1, <2>2 DEF TypeOK
        <3> QED
            BY <3>1
    <2>7. gon' = IF ent[p] = Len(Schedule) THEN gon \cup {p} ELSE gon
        <3>1. rnd[p] + 1 \in Rounds <=> rnd[p] # Len(Schedule)
            BY <2>2, LenType DEF Rounds
        <3> QED
            BY <1>0, <2>1, <2>3, <3>1 DEF Up, TypeOK
    <2> QED
        BY <2>3, <2>4, <2>5, <2>6, <2>7 DEF Abstract!Finish
<1>3. ASSUME NEW p \in Parties, Failing(p)
      PROVE  Abstract!Leave(p)
    <2>1. Up(p) /\ UNCHANGED <<rnd, pc>>
        BY <1>0, <1>3, FailingShape
    <2>2. PICK how \in {"exhausted", "aborted", "crashed"} :
              status' = [status EXCEPT ![p] = how]
        BY <1>0, <1>3, FailingShape
    <2>3. gon' = gon \cup {p} /\ p \notin gon
        BY <1>0, <2>1, <2>2 DEF Up, TypeOK
    <2>4. ent' = ent /\ fin' = fin
        BY <2>1
    <2> QED
        BY <2>3, <2>4 DEF Abstract!Leave
<1>4. ASSUME NEW p \in Parties, NEW q \in Parties, Send(p, q)
      PROVE  UNCHANGED <<ent, fin, gon>>
    <2>1. /\ pc[p] = "send" /\ UNCHANGED <<rnd, status>>
          /\ pc' = pc \/ pc' = [pc EXCEPT ![p] = "recv"]
        BY <1>4 DEF Send
    <2>2. ent' = ent
        <3>1. ASSUME NEW a \in Parties
              PROVE  ent'[a] = ent[a]
            BY <1>0, <2>1 DEF TypeOK
        <3> QED
            BY <3>1
    <2> QED
        BY <2>1, <2>2 DEF Up
<1>5. ASSUME UNCHANGED <<rnd, pc, status>>
      PROVE  UNCHANGED <<ent, fin, gon>>
    BY <1>5 DEF Up
<1>6. ASSUME NEW p \in Parties, NEW q \in Parties, Receive(p, q) \/ ReceiveNone(p, q)
      PROVE  UNCHANGED <<rnd, pc, status>>
    BY <1>6 DEF Receive, ReceiveNone
<1>7. ASSUME Over \/ UNCHANGED vars
      PROVE  UNCHANGED <<rnd, pc, status>>
    BY <1>7 DEF Over, vars
<1>8. UNCHANGED <<ent, fin, gon>> => UNCHANGED Abstract!lvars
    BY DEF Abstract!lvars
<1> QED
    BY NextCases, <1>1, <1>2, <1>3, <1>4, <1>5, <1>6, <1>7, <1>8
       DEF Abstract!LockstepNext

\* The message rounds implement Lockstep: whatever is delayed, lost with a
\* dead server or out of step, a server finishes a round only after every
\* server has entered it.
THEOREM Refinement == Spec => RefinesLockstep
<1>1. RoundsInv /\ RoundsInv' /\ [Next]_vars => [Abstract!LockstepNext]_(Abstract!lvars)
    BY StepRefines
<1> QED
    BY <1>1, InitRefines, Invariance, PTL DEF Spec, RefinesLockstep, Abstract!LockstepSpec

----------------------------------------------------------------------------
(* Running out of randomness.                                              *)

LEMMA KindUsed ==
    ASSUME TypeOK, NEW p \in Parties, NEW k \in Kinds
    PROVE  used[p][k] \in Nat /\ Avail[k] \in Nat
BY BoundsAssumption DEF TypeOK

\* Nobody gets into a round that a server has too little randomness for: the
\* counters agree, so nobody has enough for it.
LEMMA NobodyEnters ==
    ASSUME RoundsInv, DealtInv, NEW p \in Parties, NEW q \in Parties, Short(p)
    PROVE  Entered(q) < rnd[p] /\ Entered(p) = rnd[p] - 1
<1>1. TypeOK /\ PhaseInv /\ SkewInv /\ UsedInv
    BY DEF RoundsInv
<1>2. Entered(p) = rnd[p] - 1 /\ rnd[p] \in Nat /\ Entered(q) \in Nat
    BY <1>1, CounterTypes DEF Short, Entered
<1>3. Entered(q) <= rnd[p]
    BY <1>1, <1>2, Skew
<1>4. ASSUME Entered(q) = rnd[p] PROVE FALSE
    <2> DEFINE k == Kind(rnd[p])
    <2>1. k \in Kinds /\ Need(rnd[p]) \in Nat
        BY RoundType DEF Short
    <2>2. used[q][k] = used[p][k] + Takes(rnd[p], k)
        BY <1>1, <1>2, <1>4, <2>1 DEF UsedInv, UsedAgree
    <2>3. Takes(rnd[p], k) = Need(rnd[p])
        BY DEF Takes
    <2>4. used[p][k] \in Nat /\ used[q][k] \in Nat /\ Avail[k] \in Nat
        BY <1>1, <2>1, KindUsed
    <2>5. used[q][k] <= Avail[k] /\ used[p][k] + Need(rnd[p]) > Avail[k]
        BY <2>1 DEF DealtInv, Short
    <2> QED
        BY <2>1, <2>2, <2>3, <2>4, <2>5
<1> QED
    BY <1>2, <1>3, <1>4

LEMMA StepDealt ==
    ASSUME RoundsInv, DealtInv, Next
    PROVE  DealtInv'
<1> SUFFICES ASSUME NEW a \in Parties
             PROVE  /\ \A k \in Kinds : used'[a][k] <= Avail[k]
                    /\ status'[a] = "exhausted" => Short(a)'
    BY DEF DealtInv
<1>1. TypeOK /\ PhaseInv
    BY DEF RoundsInv
<1>2. /\ \A k \in Kinds : used[a][k] <= Avail[k]
      /\ status[a] = "exhausted" => Short(a)
    BY DEF DealtInv
<1>3. ASSUME UNCHANGED used, rnd'[a] = rnd[a], pc'[a] = pc[a], status'[a] = status[a]
      PROVE  /\ \A k \in Kinds : used'[a][k] <= Avail[k]
             /\ status'[a] = "exhausted" => Short(a)'
    BY <1>2, <1>3 DEF Short, Rounds, Kind, Need
<1>4. ASSUME UNCHANGED used, status'[a] # "exhausted"
      PROVE  /\ \A k \in Kinds : used'[a][k] <= Avail[k]
             /\ status'[a] = "exhausted" => Short(a)'
    BY <1>2, <1>4
<1> DEFINE Goal == /\ \A k \in Kinds : used'[a][k] <= Avail[k]
                   /\ status'[a] = "exhausted" => Short(a)'
<1> HIDE DEF Goal
<1>5. ASSUME NEW p \in Parties, Take(p) PROVE Goal
    <2>1. CASE a = p
        <3>1. rnd[p] \in Rounds /\ status'[p] = "up"
            BY <1>1, <1>5, UpRound DEF Take, Up
        <3>2. Kind(rnd[p]) \in Kinds
            BY <3>1, RoundType
        <3>3. \A k \in Kinds : used'[p][k] = IF k = Kind(rnd[p]) THEN used[p][k] + Need(rnd[p])
                                             ELSE used[p][k]
            BY <1>1, <1>5, <3>2 DEF Take, TypeOK
        <3>4. used[p][Kind(rnd[p])] + Need(rnd[p]) <= Avail[Kind(rnd[p])]
            BY <1>5 DEF Take
        <3> QED
            BY <1>2, <2>1, <3>1, <3>3, <3>4 DEF Goal
    <2>2. CASE a # p
        <3>1. used'[a] = used[a] /\ pc'[a] = pc[a] /\ UNCHANGED <<rnd, status>>
            BY <1>1, <1>5, <2>2 DEF Take, TypeOK
        <3> QED
            BY <1>2, <3>1 DEF Goal, Short, Rounds, Kind, Need
    <2> QED
        BY <2>1, <2>2
<1>6. ASSUME NEW p \in Parties, NEW q \in Parties, Send(p, q) PROVE Goal
    <2>1. UNCHANGED <<used, rnd, status>> /\ Up(p)
        BY <1>6 DEF Send
    <2>2. a # p => pc'[a] = pc[a]
        BY <1>1, <1>6 DEF Send, TypeOK
    <2> QED
        BY <1>3, <1>4, <2>1, <2>2 DEF Goal, Up
<1>7. ASSUME NEW p \in Parties, NEW q \in Parties, Receive(p, q) \/ ReceiveNone(p, q)
      PROVE  Goal
    BY <1>3, <1>7 DEF Receive, ReceiveNone, Goal
<1>8. ASSUME NEW p \in Parties, Combine(p) PROVE Goal
    <2>1. UNCHANGED used /\ Up(p)
        BY <1>8 DEF Combine
    <2>2. CASE a # p
        <3>1. rnd'[a] = rnd[a] /\ pc'[a] = pc[a] /\ status'[a] = status[a]
            BY <1>1, <1>8, <2>2 DEF Combine, TypeOK
        <3> QED
            BY <1>3, <2>1, <3>1 DEF Goal
    <2>3. CASE a = p
        <3>1. status'[a] # "exhausted"
            BY <1>1, <1>8, <2>1, <2>3 DEF Combine, TypeOK, Up
        <3> QED
            BY <1>4, <2>1, <3>1 DEF Goal
    <2> QED
        BY <2>2, <2>3
<1>9. ASSUME NEW p \in Parties, Failing(p) PROVE Goal
    <2>1. UNCHANGED <<used, rnd, pc>> /\ Up(p)
        BY <1>1, <1>9, FailingShape
    <2>2. CASE a # p
        <3>1. status'[a] = status[a]
            BY <1>1, <1>9, <2>2, FailingShape DEF TypeOK
        <3> QED
            BY <1>3, <2>1, <3>1 DEF Goal
    <2>3. CASE a = p /\ TakePanic(p)
        <3>1. Short(p)
            BY <1>1, <2>3, UpRound DEF TakePanic, Short
        <3> QED
            BY <1>2, <2>1, <2>3, <3>1 DEF Goal, Short, Rounds, Kind, Need
    <2>4. CASE a = p /\ (CombinePanic(p) \/ Crash(p))
        <3>1. status'[a] # "exhausted"
            BY <1>1, <2>4 DEF CombinePanic, Crash, Fail, TypeOK
        <3> QED
            BY <1>4, <2>1, <3>1 DEF Goal
    <2> QED
        BY <1>9, <2>2, <2>3, <2>4 DEF Failing
<1>10. ASSUME Over PROVE Goal
    BY <1>3, <1>10 DEF Over, vars, Goal
<1>11. Goal
    BY NextCases, <1>5, <1>6, <1>7, <1>8, <1>9, <1>10
<1> QED
    BY <1>11 DEF Goal

----------------------------------------------------------------------------
(* Without deaths nothing is lost.                                         *)

\* A receive never finds a peer gone before its message has come.
LEMMA NoneNeedsDeath ==
    ASSUME RoundsInv, DealtInv, CompleteInv, NEW p \in Parties, NEW q \in Parties,
           ReceiveNone(p, q)
    PROVE  FALSE
<1>1. TypeOK /\ PhaseInv
    BY DEF RoundsInv
<1>2. <<q, p>> \in Links /\ q \in Peers(p) /\ q \notin heard[p] /\ Up(p) /\ ~Up(q)
      /\ pc[p] = "recv" /\ chan[<<q, p>>] = << >>
    BY DEF ReceiveNone, Peers, Links
<1>3. SentTo(q, p) = ReadFrom(p, q)
    <2>1. Len(chan[<<q, p>>]) = SentTo(q, p) - ReadFrom(p, q)
        BY <1>2 DEF CompleteInv
    <2> QED
        BY <1>1, <1>2, <2>1, CounterTypes
<1>4. ReadFrom(p, q) = rnd[p] - 1 /\ Entered(p) = rnd[p] /\ rnd[p] \in Nat /\ rnd[q] \in Nat
    BY <1>1, <1>2, CounterTypes DEF ReadFrom, Entered
<1>5. rnd[p] \in Rounds
    BY <1>1, <1>2, UpRound
<1>6. CASE status[q] = "done"
    <2>1. rnd[q] \notin Rounds /\ pc[q] = "take" /\ sent[q] = {}
        BY <1>1, <1>6 DEF PhaseInv, PhaseOf
    <2>2. rnd[q] = Len(Schedule) + 1
        BY <1>1, <2>1, LenType DEF TypeOK, Rounds
    <2>3. SentTo(q, p) = Len(Schedule)
        BY <2>1, <2>2, LenType DEF SentTo
    <2> QED
        BY <1>3, <1>4, <1>5, <2>3, LenType DEF Rounds
<1>7. CASE status[q] = "exhausted"
    <2>1. Short(q) /\ pc[q] = "take"
        BY <1>7 DEF DealtInv, Short
    <2>2. sent[q] = {}
        BY <1>1, <2>1 DEF PhaseInv, PhaseOf
    <2>3. SentTo(q, p) = rnd[q] - 1
        BY <2>1, <2>2 DEF SentTo
    <2>4. Entered(p) < rnd[q]
        BY <2>1, NobodyEnters
    <2> QED
        BY <1>3, <1>4, <2>3, <2>4
<1> QED
    BY <1>2, <1>6, <1>7 DEF CompleteInv, Up

\* The count of messages is right once every receive has returned.
LEMMA CountIsRight ==
    ASSUME RoundsInv, CompleteInv, NEW p \in Parties, CombinePanic(p)
    PROVE  FALSE
<1>1. TypeOK /\ PhaseInv /\ StoreInv
    BY DEF RoundsInv
<1>2. Up(p) /\ heard[p] = Peers(p) /\ ~Enough(p) /\ rnd[p] \in Rounds
    BY <1>1, UpRound DEF CombinePanic
<1>3. Peers(p) \subseteq Senders(p)
    BY <1>2 DEF CompleteInv, Senders
<1>4. Senders(p) \subseteq Peers(p)
    BY <1>1, <1>2, RoundType DEF StoreInv, Filed, Senders
<1>5. Senders(p) = Peers(p)
    BY <1>3, <1>4
<1> QED
    BY <1>1, <1>2, <1>5, EnoughSenders

\* A server that runs out has read everything that was sent to it.
LEMMA NothingUnread ==
    ASSUME RoundsInv, DealtInv, CompleteInv, NEW p \in Parties, TakePanic(p)
    PROVE  Unread(p) = {}
<1>1. TypeOK /\ PhaseInv /\ Up(p) /\ pc[p] = "take"
    BY DEF RoundsInv, TakePanic
<1>2. Short(p)
    BY <1>1, UpRound DEF TakePanic, Short
<1>3. ASSUME NEW q \in Peers(p) PROVE chan[<<q, p>>] = << >>
    <2>1. <<q, p>> \in Links /\ q \in Parties
        BY DEF Peers, Links
    <2>2. Len(chan[<<q, p>>]) = SentTo(q, p) - ReadFrom(p, q)
        BY <1>1, <2>1 DEF CompleteInv
    <2>3. SentTo(q, p) <= Entered(q) /\ Entered(q) < rnd[p]
        BY <1>1, <1>2, <2>1, SentToEntered, NobodyEnters
    <2>4. ReadFrom(p, q) = rnd[p] - 1
        BY <1>1 DEF PhaseInv, PhaseOf, ReadFrom
    <2>5. chan[<<q, p>>] \in Seq(Message)
        BY <1>1, <2>1 DEF TypeOK
    <2>6. SentTo(q, p) \in Nat /\ Entered(q) \in Nat /\ rnd[p] \in Nat
        BY <1>1, <2>1, CounterTypes
    <2>7. Len(chan[<<q, p>>]) = 0
        BY <2>2, <2>3, <2>4, <2>5, <2>6
    <2> QED
        BY <2>5, <2>7
<1> QED
    BY <1>3 DEF Unread

LEMMA StepComplete ==
    ASSUME RoundsInv, DealtInv, CompleteInv, Next, crashes = 0, crashes' = 0
    PROVE  CompleteInv'
<1>1. TypeOK /\ PhaseInv /\ SkewInv /\ UsedInv /\ LinkInv /\ StoreInv
    BY DEF RoundsInv
<1> DEFINE LinkFull(l) == Up(l[2]) =>
               Len(chan[l]) = SentTo(l[1], l[2]) - ReadFrom(l[2], l[1])
           HeardIn(p) == Up(p) => \A q \in heard[p] :
               \E m \in store[p][Kind(rnd[p])] : m.sender = q
           Fine(p) == status[p] \in {"up", "done", "exhausted"}
<1>2. /\ \A p \in Parties : Fine(p) /\ HeardIn(p)
      /\ \A l \in Links : LinkFull(l)
    BY DEF CompleteInv
<1>3. ASSUME \A p \in Parties : Fine(p)' /\ HeardIn(p)', \A l \in Links : LinkFull(l)'
      PROVE  CompleteInv'
    BY <1>3 DEF CompleteInv
<1>4. ASSUME NEW l \in Links
      PROVE  /\ l[1] \in Parties /\ l[2] \in Parties /\ l[1] # l[2] /\ l = <<l[1], l[2]>>
             /\ chan[l] \in Seq(Message) /\ Len(chan[l]) \in Nat
             /\ SentTo(l[1], l[2]) \in Nat /\ ReadFrom(l[2], l[1]) \in Nat
    <2>1. l[1] \in Parties /\ l[2] \in Parties /\ l[1] # l[2] /\ l = <<l[1], l[2]>>
        BY DEF Links
    <2> QED
        BY <1>1, <2>1, CounterTypes DEF TypeOK
<1>5. ASSUME NEW p \in Parties, Take(p) PROVE CompleteInv'
    <2>1. UNCHANGED <<rnd, status, heard, store, chan>>
        BY <1>5 DEF Take
    <2>2. ASSUME NEW l \in Links PROVE LinkFull(l)'
        <3>1. /\ SentTo(l[1], l[2])' = SentTo(l[1], l[2])
              /\ ReadFrom(l[2], l[1])' = ReadFrom(l[2], l[1])
            BY <1>1, <1>4, <1>5, TakeCounters
        <3> QED
            BY <1>2, <2>1, <3>1 DEF Up
    <2> QED
        BY <1>2, <1>3, <2>1, <2>2 DEF Up, Kind
<1>6. ASSUME NEW p \in Parties, NEW q \in Parties, Send(p, q) PROVE CompleteInv'
    <2>1. UNCHANGED <<rnd, status, heard, store>>
        BY <1>6 DEF Send
    <2>2. ASSUME NEW l \in Links PROVE LinkFull(l)'
        <3>1. /\ SentTo(l[1], l[2])' = IF l = <<p, q>> THEN rnd[p] ELSE SentTo(l[1], l[2])
              /\ ReadFrom(l[2], l[1])' = ReadFrom(l[2], l[1])
            BY <1>1, <1>4, <1>6, SendCounters
        <3>2. CASE l # <<p, q>>
            <4>1. chan'[l] = chan[l]
                BY <1>1, <1>6, <3>2 DEF Send, TypeOK
            <4> QED
                BY <1>2, <2>1, <3>1, <3>2, <4>1 DEF Up
        <3>3. CASE l = <<p, q>> /\ Up(q)
            <4>1. chan'[l] = Append(chan[l], OwnMessage(p))
                BY <1>1, <1>6, <3>3 DEF Send, TypeOK
            <4>2. Len(chan'[l]) = Len(chan[l]) + 1
                BY <1>4, <4>1
            <4>3. SentTo(p, q) = rnd[p] - 1 /\ rnd[p] \in Nat
                BY <1>1, <1>6, CounterTypes DEF Send, SentTo
            <4>4. Len(chan[l]) = SentTo(p, q) - ReadFrom(q, p)
                BY <1>2, <3>3
            <4> QED
                BY <1>4, <3>1, <3>3, <4>2, <4>3, <4>4
        <3>4. CASE l = <<p, q>> /\ ~Up(q)
            BY <2>1, <3>4 DEF Up
        <3> QED
            BY <3>2, <3>3, <3>4
    <2> QED
        BY <1>2, <1>3, <2>1, <2>2 DEF Up, Kind
<1>7. ASSUME NEW p \in Parties, NEW q \in Parties, Receive(p, q) PROVE CompleteInv'
    <2> DEFINE m == Head(chan[<<q, p>>])
    <2>1. /\ UNCHANGED <<rnd, status>> /\ Up(p) /\ <<q, p>> \in Links
          /\ chan[<<q, p>>] # << >>
          /\ store' = [store EXCEPT ![p][m.kind] = @ \cup {m}]
          /\ heard' = [heard EXCEPT ![p] = @ \cup {q}]
        BY <1>7 DEF Receive, Peers, Links
    <2>2. ASSUME NEW l \in Links PROVE LinkFull(l)'
        <3>1. /\ SentTo(l[1], l[2])' = SentTo(l[1], l[2])
              /\ ReadFrom(l[2], l[1])' = IF l = <<q, p>> THEN ReadFrom(l[2], l[1]) + 1
                                         ELSE ReadFrom(l[2], l[1])
            BY <1>1, <1>4, <1>7, HearCounters
        <3>2. CASE l # <<q, p>>
            <4>1. chan'[l] = chan[l]
                BY <1>1, <1>7, <3>2 DEF Receive, TypeOK
            <4> QED
                BY <1>2, <2>1, <3>1, <3>2, <4>1 DEF Up
        <3>3. CASE l = <<q, p>>
            <4>1. chan'[l] = Tail(chan[l])
                BY <1>1, <1>7, <3>3 DEF Receive, TypeOK
            <4>2. Len(chan'[l]) = Len(chan[l]) - 1
                BY <1>4, <2>1, <3>3, <4>1
            <4>3. Len(chan[l]) = SentTo(q, p) - ReadFrom(p, q)
                BY <1>2, <2>1, <3>3
            <4> QED
                BY <1>4, <3>1, <3>3, <4>2, <4>3
        <3> QED
            BY <3>2, <3>3
    <2>3. ASSUME NEW a \in Parties PROVE HeardIn(a)'
        <3>1. CASE a # p
            <4>1. store'[a] = store[a] /\ heard'[a] = heard[a]
                BY <1>1, <2>1, <3>1 DEF TypeOK
            <4> QED
                BY <1>2, <2>1, <4>1 DEF Up, Kind
        <3>2. CASE a = p
            <4> DEFINE k == Kind(rnd[p])
            <4>1. m.kind = k /\ m.sender = q
                <5>1. 1 \in 1..Len(chan[<<q, p>>]) /\ m = chan[<<q, p>>][1]
                    BY <1>4, <2>1
                <5>2. InFlight(<<q, p>>, 1)
                    BY <1>1, <2>1, <5>1 DEF LinkInv, LinkOf
                <5>3. m.rnd = rnd[p]
                    BY <1>1, <1>7, <5>1, <5>2, HearCounters DEF InFlight
                <5> QED
                    BY <5>1, <5>2, <5>3 DEF InFlight, SentBy
            <4>2. k \in Kinds
                BY <1>1, <2>1, UpRound, RoundType
            <4> HIDE DEF m
            <4>3. store'[p][k] = store[p][k] \cup {m}
                BY <1>1, <2>1, <4>1, <4>2 DEF TypeOK
            <4>4. heard'[p] = heard[p] \cup {q}
                BY <1>1, <2>1 DEF TypeOK
            <4>5. Kind(rnd[p])' = k
                BY <2>1 DEF Kind
            <4>6. \A b \in heard[p] : \E n \in store[p][k] : n.sender = b
                BY <1>2, <2>1
            <4> QED
                BY <3>2, <4>1, <4>3, <4>4, <4>5, <4>6
        <3> QED
            BY <3>1, <3>2
    <2> QED
        BY <1>2, <1>3, <2>1, <2>2, <2>3
<1>8. ASSUME NEW p \in Parties, Combine(p) PROVE CompleteInv'
    <2>1. /\ Up(p) /\ UNCHANGED chan
          /\ status' = [status EXCEPT ![p] = "done"] \/ UNCHANGED status
        BY <1>8 DEF Combine
    <2>2. ASSUME NEW l \in Links PROVE LinkFull(l)'
        <3>1. /\ SentTo(l[1], l[2])' = SentTo(l[1], l[2])
              /\ ReadFrom(l[2], l[1])' = ReadFrom(l[2], l[1])
            BY <1>1, <1>4, <1>8, CombineCounters
        <3>2. Up(l[2])' => Up(l[2])
            BY <1>1, <1>4, <2>1 DEF Up, TypeOK
        <3> QED
            BY <1>2, <2>1, <3>1, <3>2
    <2>3. ASSUME NEW a \in Parties PROVE HeardIn(a)' /\ Fine(a)'
        <3>1. Fine(a)'
            BY <1>1, <1>2, <2>1 DEF TypeOK
        <3>2. CASE a # p
            <4>1. /\ store'[a] = store[a] /\ heard'[a] = heard[a] /\ rnd'[a] = rnd[a]
                  /\ status'[a] = status[a]
                BY <1>1, <1>8, <3>2 DEF Combine, TypeOK
            <4> QED
                BY <1>2, <3>1, <4>1 DEF Up, Kind
        <3>3. CASE a = p
            <4>1. heard'[a] = {}
                BY <1>1, <1>8, <3>3 DEF Combine, TypeOK
            <4> QED
                BY <3>1, <4>1
        <3> QED
            BY <3>2, <3>3
    <2> QED
        BY <1>3, <2>2, <2>3
<1>9. ASSUME NEW p \in Parties, TakePanic(p) PROVE CompleteInv'
    <2>1. Failing(p) /\ Fail(p, "exhausted", {})
        BY <1>9, NothingUnread DEF Failing, TakePanic
    <2>2. /\ UNCHANGED <<rnd, pc, sent, heard, store>>
          /\ status' = [status EXCEPT ![p] = "exhausted"]
        BY <1>1, <2>1, FailingShape DEF Fail
    <2>3. ASSUME NEW l \in Links PROVE LinkFull(l)'
        <3>1. /\ SentTo(l[1], l[2])' = SentTo(l[1], l[2])
              /\ ReadFrom(l[2], l[1])' = ReadFrom(l[2], l[1])
            BY <2>2, FailCounters
        <3>2. CASE l[2] = p
            BY <1>1, <1>4, <2>2, <3>2 DEF Up, TypeOK
        <3>3. CASE l[2] # p
            <4>1. chan'[l] = chan[l]
                BY <2>1, <3>3 DEF Fail, Drop
            <4>2. Up(l[2])' <=> Up(l[2])
                BY <1>1, <1>4, <2>2, <3>3 DEF Up, TypeOK
            <4> QED
                BY <1>2, <3>1, <4>1, <4>2
        <3> QED
            BY <3>2, <3>3
    <2>4. ASSUME NEW a \in Parties PROVE HeardIn(a)' /\ Fine(a)'
        BY <1>1, <1>2, <2>2 DEF Up, TypeOK, Kind
    <2> QED
        BY <1>3, <2>3, <2>4
<1>10. ASSUME NEW p \in Parties, Crash(p) PROVE FALSE
    BY <1>10 DEF Crash
<1>11. CASE Over
    BY <1>11 DEF Over, vars, CompleteInv, Up, SentTo, ReadFrom, Kind
<1> QED
    BY NextCases, <1>5, <1>6, <1>7, <1>8, <1>9, <1>10, <1>11, NoneNeedsDeath,
       CountIsRight DEF Failing

LEMMA StepSigned ==
    ASSUME RoundsInv, SignedInv, Next
    PROVE  SignedInv'
<1>1. TypeOK /\ 0 \in Parties /\ rnd[0] \in Nat
    BY PartiesAssumption, CounterTypes DEF RoundsInv
<1> SUFFICES ASSUME NEW r \in CommitRounds, r < rnd'[0] PROVE token'[r] # {}
    BY DEF SignedInv, CommitRounds, Kind
<1>2. r \in Nat /\ Kind(r) = "commit"
    BY LenType DEF CommitRounds, Rounds
<1>3. ASSUME NEW t, token[r] # {}, token' = token \/ token' = [token EXCEPT ![rnd[0]] = t],
             t # {}
      PROVE  token'[r] # {}
    BY <1>1, <1>3 DEF TypeOK
<1>4. token' = token \/ \E t : t # {} /\ token' = [token EXCEPT ![rnd[0]] = t]
    BY TokenStep
<1>5. CASE r < rnd[0]
    BY <1>3, <1>4, <1>5 DEF SignedInv
<1>6. CASE ~(r < rnd[0])
    <2>1. rnd'[0] # rnd[0]
        BY <1>6
    <2>2. Combine(0)
        <3>1. ASSUME NEW p \in Parties, Combine(p), p # 0 PROVE FALSE
            BY <1>1, <2>1, <3>1 DEF Combine, TypeOK
        <3>2. ASSUME NEW p \in Parties, Failing(p) PROVE FALSE
            BY <1>1, <2>1, <3>2, FailingShape
        <3> QED
            BY <2>1, <3>1, <3>2, NextCases DEF Take, Send, Receive, ReceiveNone, Over, vars
    <2>3. rnd'[0] = rnd[0] + 1
        BY <1>1, <2>2 DEF Combine, TypeOK
    <2>4. r = rnd[0]
        BY <1>1, <1>2, <1>6, <2>3
    <2> QED
        BY <1>1, <1>2, <2>2, <2>4 DEF Combine, TypeOK
<1> QED
    BY <1>5, <1>6

LEMMA StepDeathless ==
    RoundsInv /\ DeathlessInv /\ [Next]_vars => DeathlessInv'
<1> SUFFICES ASSUME RoundsInv, DeathlessInv, [Next]_vars PROVE DeathlessInv'
    OBVIOUS
<1>1. CASE Next
    <2>1. crashes' = 0 => crashes = 0
        <3>1. crashes \in Nat
            BY BoundsAssumption DEF RoundsInv, TypeOK
        <3>2. UNCHANGED crashes \/ crashes' = crashes + 1
            BY <1>1 DEF Next, Step, Take, TakePanic, Send, Receive, ReceiveNone,
                        Combine, CombinePanic, Crash, Over, vars
        <3> QED
            BY <3>1, <3>2
    <2> QED
        BY <1>1, <2>1, StepDealt, StepComplete, StepSigned DEF DeathlessInv
<1>2. CASE UNCHANGED vars
    BY <1>2 DEF vars, DeathlessInv, DealtInv, Short, CompleteInv, SignedInv, Up,
                SentTo, ReadFrom, Kind, Need, Rounds, CommitRounds
<1> QED
    BY <1>1, <1>2

LEMMA InitDeathless == Init => DeathlessInv
<1> SUFFICES ASSUME Init PROVE DeathlessInv
    OBVIOUS
<1>1. DealtInv
    BY BoundsAssumption DEF Init, DealtInv
<1>2. CompleteInv
    BY DEF Init, CompleteInv, SentTo, ReadFrom, Links
<1>3. SignedInv
    BY PartiesAssumption, LenType DEF Init, SignedInv, CommitRounds, Rounds
<1> QED
    BY <1>1, <1>2, <1>3 DEF DeathlessInv

----------------------------------------------------------------------------
(* The theorems.                                                           *)

\* The invariant of sessions without deaths: nobody overdraws its randomness,
\* nothing is missing on any link or in any storage, every query that is over
\* has its token.
THEOREM Deathless == Spec => []DeathlessInv
BY InitDeathless, StepDeathless, Invariance, PTL DEF Spec

\* Whatever was dealt, servers that run out of correlated randomness do so in
\* the same round and with the same counters, nobody has gone on without them
\* or aborts because of them, and every query that was over has its token.
THEOREM RunOutTogether == Spec => []ExhaustedTogether
<1>1. ASSUME RoundsInv, DeathlessInv PROVE ExhaustedTogether
    <2> SUFFICES ASSUME NEW p \in Parties, NEW q \in Parties,
                        status[p] = "exhausted", crashes = 0
                 PROVE  /\ status[q] \in {"up", "exhausted"}
                        /\ rnd[q] <= rnd[p]
                        /\ rnd[q] = rnd[p] => used[q] = used[p]
                        /\ \A r \in CommitRounds : r < rnd[0] => token[r] # {}
        BY DEF ExhaustedTogether
    <2>1. TypeOK /\ PhaseInv /\ UsedInv /\ DealtInv /\ CompleteInv /\ SignedInv
        BY <1>1 DEF RoundsInv, DeathlessInv
    <2>2. Short(p)
        BY <2>1 DEF DealtInv
    <2>3. Entered(q) < rnd[p] /\ Entered(p) = rnd[p] - 1
        BY <1>1, <2>1, <2>2, NobodyEnters
    <2>4. rnd[p] \in Nat /\ rnd[q] \in Nat /\ Entered(q) \in {rnd[q], rnd[q] - 1}
        BY <2>1, CounterTypes
    <2>5. rnd[q] <= rnd[p]
        BY <2>3, <2>4
    <2>6. status[q] # "done"
        <3>1. rnd[q] \in 1..Len(Schedule)
            BY <2>1, <2>2, <2>4, <2>5, LenType DEF Short, Rounds, TypeOK
        <3> QED
            BY <2>1, <3>1 DEF PhaseInv, PhaseOf, Rounds
    <2>7. rnd[q] = rnd[p] => used[q] = used[p]
        <3>1. ASSUME rnd[q] = rnd[p] PROVE \A k \in Kinds : used[q][k] = used[p][k]
            BY <2>1, <2>3, <2>4, <3>1 DEF UsedInv, UsedAgree
        <3> QED
            BY <2>1, <3>1 DEF TypeOK
    <2> QED
        BY <2>1, <2>5, <2>6, <2>7 DEF CompleteInv, SignedInv
<1>2. RoundsInv /\ DeathlessInv => ExhaustedTogether
    BY <1>1
<1> QED
    BY <1>2, Invariance, Deathless, PTL

\* p has taken exactly what the rounds up to its last one take.
AsCovered(T) == \A p \in Parties : \A k \in Kinds : used[p][k] = T[Entered(p)][k]

LEMMA StepCovered ==
    ASSUME NEW T, Covered(T), RoundsInv, AsCovered(T), [Next]_vars
    PROVE  AsCovered(T)'
<1> SUFFICES ASSUME NEW a \in Parties, NEW j \in Kinds
             PROVE  used'[a][j] = T[Entered(a)'][j]
    BY DEF AsCovered
<1>1. TypeOK /\ PhaseInv
    BY DEF RoundsInv
<1>2. used[a][j] = T[Entered(a)][j]
    BY DEF AsCovered
<1>3. ASSUME UNCHANGED used, Entered(a)' = Entered(a) PROVE used'[a][j] = T[Entered(a)'][j]
    BY <1>2, <1>3
<1>4. ASSUME NEW p \in Parties, Take(p) PROVE used'[a][j] = T[Entered(a)'][j]
    <2>1. rnd[p] \in Rounds /\ pc[p] = "take"
        BY <1>1, <1>4, UpRound DEF Take
    <2>2. Kind(rnd[p]) \in Kinds /\ Need(rnd[p]) \in Nat
        BY <2>1, RoundType
    <2>3. CASE a # p
        <3>1. used'[a] = used[a] /\ Entered(a)' = Entered(a)
            BY <1>1, <1>4, <2>3, TakeCounters DEF Take, TypeOK
        <3> QED
            BY <1>2, <3>1
    <2>4. CASE a = p
        <3>1. Entered(p)' = rnd[p] /\ Entered(p) = rnd[p] - 1
            BY <1>1, <1>4, <2>1, TakeCounters DEF Entered
        <3>2. T[rnd[p]][j] = T[rnd[p] - 1][j] + Takes(rnd[p], j)
            BY <2>1 DEF Covered
        <3>3. used'[p][j] = used[p][j] + Takes(rnd[p], j)
            <4>1. used[p][j] \in Nat
                BY <1>1 DEF TypeOK
            <4> QED
                BY <1>1, <1>4, <2>2, <4>1 DEF Take, TypeOK, Takes
        <3> QED
            BY <1>2, <2>4, <3>1, <3>2, <3>3
    <2> QED
        BY <2>3, <2>4
<1>5. ASSUME NEW p \in Parties, NEW q \in Parties, Send(p, q)
      PROVE  used'[a][j] = T[Entered(a)'][j]
    <2>1. PICK b \in Parties : b # a
        BY <1>5 DEF Send, Peers
    <2> QED
        BY <1>1, <1>3, <1>5, <2>1, SendCounters DEF Send
<1>6. ASSUME NEW p \in Parties, NEW q \in Parties, Receive(p, q) \/ ReceiveNone(p, q)
      PROVE  used'[a][j] = T[Entered(a)'][j]
    BY <1>1, <1>3, <1>6, HearCounters DEF Receive, ReceiveNone
<1>7. ASSUME NEW p \in Parties, Combine(p) PROVE used'[a][j] = T[Entered(a)'][j]
    <2>1. PICK b \in Parties : b # a
        BY PartiesAssumption
    <2> QED
        BY <1>1, <1>3, <1>7, <2>1, CombineCounters DEF Combine
<1>8. ASSUME NEW p \in Parties, Failing(p) PROVE used'[a][j] = T[Entered(a)'][j]
    BY <1>1, <1>3, <1>8, FailingShape DEF Entered
<1>9. ASSUME UNCHANGED vars PROVE used'[a][j] = T[Entered(a)'][j]
    BY <1>3, <1>9 DEF vars, Entered
<1> QED
    BY NextCases, <1>4, <1>5, <1>6, <1>7, <1>8, <1>9 DEF Over

\* If the dealt randomness covers the schedule, no assertion of take or of the
\* three receive functions fails unless a server died.
THEOREM PanicsNeedDeaths == Provided => (Spec => []PanicOnlyAfterCrash)
<1> SUFFICES ASSUME Provided PROVE Spec => []PanicOnlyAfterCrash
    OBVIOUS
<1>1. PICK T : Covered(T)
    BY DEF Provided
<1>2. Init => AsCovered(T)
    BY <1>1, LenType DEF Init, AsCovered, Covered, Entered
<1>3. RoundsInv /\ AsCovered(T) /\ [Next]_vars => AsCovered(T)'
    BY <1>1, StepCovered
<1>4. ASSUME RoundsInv, DeathlessInv, AsCovered(T), crashes = 0, NEW p \in Parties
      PROVE  status[p] \in {"up", "done"}
    <2>1. TypeOK /\ DealtInv /\ CompleteInv
        BY <1>4 DEF RoundsInv, DeathlessInv
    <2>2. ASSUME Short(p) PROVE FALSE
        <3> DEFINE k == Kind(rnd[p])
        <3>1. rnd[p] \in Rounds /\ Entered(p) = rnd[p] - 1 /\ k \in Kinds
            BY <2>2, RoundType DEF Short, Entered
        <3>2. Takes(rnd[p], k) = Need(rnd[p])
            BY DEF Takes
        <3>3. T[rnd[p]][k] = T[rnd[p] - 1][k] + Takes(rnd[p], k) /\ T[rnd[p]][k] <= Avail[k]
            BY <1>1, <3>1 DEF Covered
        <3>4. used[p][k] = T[rnd[p] - 1][k]
            BY <1>4, <3>1 DEF AsCovered
        <3>5. used[p][k] + Need(rnd[p]) \in Nat /\ Avail[k] \in Nat
            BY <2>1, <3>1, KindUsed, RoundType
        <3> QED
            BY <2>2, <3>2, <3>3, <3>4, <3>5 DEF Short
    <2> QED
        BY <1>4, <2>1, <2>2 DEF DealtInv, CompleteInv
<1>5. RoundsInv /\ DeathlessInv /\ AsCovered(T) => PanicOnlyAfterCrash
    BY <1>4 DEF PanicOnlyAfterCrash
<1> QED
    BY <1>2, <1>3, <1>5, Invariance, Deathless, PTL DEF Spec
=============================================================================

----------------------------- MODULE MpcRounds -----------------------------
(***************************************************************************)
(* The servers of PRC answer every query by a fixed series of interactive  *)
(* rounds: some rounds that exchange blinded AND inputs (Layer::interact), *)
(* one that exchanges blinded bits (ConvLayer::interact) and one that      *)
(* exchanges commitments (MpcProvider::aggregate_commitments).  A round is *)
(*     take correlated randomness; broadcast to every peer;                *)
(*     receive one message from every peer; check the count; combine.      *)
(* A message carries a kind and a payload, but neither a query nor a round *)
(* number, and the correlated randomness is addressed by a local counter:  *)
(* the parties must agree on both by counting alone.                       *)
(*                                                                         *)
(* This module has one process per server, over FIFO links of bounded      *)
(* capacity, with servers that may die at any point.  What a share holds   *)
(* is abstracted to what identifies it: the round in which it was made     *)
(* ("rnd") and the end of the slice of correlated randomness that blinds   *)
(* it ("upto").  No action reads these two fields.                         *)
(***************************************************************************)
EXTENDS Integers, Sequences, FiniteSets

CONSTANTS
    Parties,     \* ids of the servers; 0 adds the constants, aggregates and signs
    Schedule,    \* the rounds of the whole session, the same at every server
    Avail,       \* correlated randomness dealt to each server, per kind of round
    ChanCap,     \* messages a link holds before a send blocks
    MaxCrashes   \* bound on the number of servers that die

Kinds == {"beaver", "dabit", "commit"}

\* A round: what it exchanges and how much correlated randomness it takes.
Round == [kind : Kinds, need : Nat]

Rounds == 1..Len(Schedule)
Kind(r) == Schedule[r].kind
Need(r) == Schedule[r].need

ASSUME PartiesAssumption ==
    /\ Parties \subseteq Nat
    /\ IsFiniteSet(Parties)
    /\ 0 \in Parties
    /\ Parties # {0}

\* A commitment round takes no correlated randomness.
ASSUME ScheduleAssumption ==
    /\ Schedule \in Seq(Round)
    /\ \A r \in Rounds : Kind(r) = "commit" => Need(r) = 0

ASSUME BoundsAssumption ==
    /\ Avail \in [Kinds -> Nat]
    /\ ChanCap \in Nat \ {0}
    /\ MaxCrashes \in Nat

Peers(p) == Parties \ {p}
CommitRounds == {r \in Rounds : Kind(r) = "commit"}

Message == [kind : Kinds, sender : Parties, rnd : Rounds, upto : Nat]

VARIABLES
    rnd,      \* the round each server is in (Len(Schedule) + 1: it has returned)
    pc,       \* where it is in the round: "take", "send" or "recv"
    status,   \* "up", "done", "exhausted", "aborted" or "crashed"
    sent,     \* peers the current broadcast has reached
    heard,    \* peers the current receive_all has an answer from
    store,    \* the handler's storages: messages received and not yet drained
    used,     \* the providers' "used" counters
    chan,     \* chan[<<p, q>>]: sent by p, not yet received by q
    token,    \* commitments aggregated in the token server 0 signed in a round
    crashes   \* servers that died so far

vars == <<rnd, pc, status, sent, heard, store, used, chan, token, crashes>>

Links == {l \in Parties \X Parties : l[1] # l[2]}

Up(p) == status[p] = "up"

\* The message server p broadcasts in its current round.
OwnMessage(p) ==
    [kind |-> Kind(rnd[p]), sender |-> p, rnd |-> rnd[p],
     upto |-> used[p][Kind(rnd[p])]]

Init ==
    /\ rnd = [p \in Parties |-> 1]
    /\ pc = [p \in Parties |-> "take"]
    /\ status = [p \in Parties |-> IF Rounds = {} THEN "done" ELSE "up"]
    /\ sent = [p \in Parties |-> {}]
    /\ heard = [p \in Parties |-> {}]
    /\ store = [p \in Parties |-> [k \in Kinds |-> {}]]
    /\ used = [p \in Parties |-> [k \in Kinds |-> 0]]
    /\ chan = [l \in Links |-> << >>]
    /\ token = [r \in CommitRounds |-> {}]
    /\ crashes = 0

----------------------------------------------------------------------------
(* Leaving.  A server that leaves before its last round is over drops both *)
(* ends of its links.  What was on its way to it is gone, and on the links *)
(* to the peers in "lossy" a suffix of what it had sent may be lost too.   *)

Drop(p, lossy, keep) ==
    chan' = [l \in Links |->
                IF l[2] = p THEN << >>
                ELSE IF l[1] = p /\ l[2] \in lossy /\ keep[l[2]] < Len(chan[l])
                     THEN SubSeq(chan[l], 1, keep[l[2]])
                     ELSE chan[l]]

Fail(p, how, lossy) ==
    /\ status' = [status EXCEPT ![p] = how]
    /\ \E keep \in [Parties -> 0..ChanCap] : Drop(p, lossy, keep)

\* A process that panics closes its sockets.  Only where something is still
\* unread does closing reset the connection.
Unread(p) == {q \in Peers(p) : chan[<<q, p>>] # << >>}

----------------------------------------------------------------------------
(* One round of one server.                                                *)

\* Mutant: take counts down from an empty provider.
TakeDown(p) ==
    /\ Up(p)
    /\ pc[p] = "take"
    /\ used' = [used EXCEPT ![p][Kind(rnd[p])] = @ - Need(rnd[p])]
    /\ pc' = [pc EXCEPT ![p] = "send"]
    /\ UNCHANGED <<rnd, status, sent, heard, store, chan, token, crashes>>

\* Mutant: server 0, which adds the public constants, keeps its counter.
TakeUneven(p) ==
    LET k == Kind(rnd[p]) IN
    /\ Up(p)
    /\ pc[p] = "take"
    /\ used[p][k] + Need(rnd[p]) <= Avail[k]
    /\ used' = IF p = 0 THEN used ELSE [used EXCEPT ![p][k] = @ + Need(rnd[p])]
    /\ pc' = [pc EXCEPT ![p] = "send"]
    /\ UNCHANGED <<rnd, status, sent, heard, store, chan, token, crashes>>

\* BeaverProvider::take and DaBitProvider::take, then the local computation
\* up to the broadcast.
Take(p) ==
    LET k == Kind(rnd[p]) IN
    /\ Up(p)
    /\ pc[p] = "take"
    /\ used[p][k] + Need(rnd[p]) <= Avail[k]
    /\ used' = [used EXCEPT ![p][k] = @ + Need(rnd[p])]
    /\ pc' = [pc EXCEPT ![p] = "send"]
    /\ UNCHANGED <<rnd, status, sent, heard, store, chan, token, crashes>>

\* The assertion of take fails: the server panics.
TakePanic(p) ==
    /\ Up(p)
    /\ pc[p] = "take"
    /\ used[p][Kind(rnd[p])] + Need(rnd[p]) > Avail[Kind(rnd[p])]
    /\ Fail(p, "exhausted", Unread(p))
    /\ UNCHANGED <<rnd, pc, sent, heard, store, used, token, crashes>>

\* Mutant: a send that finds the link full gives up.
SendTry(p, q) ==
    /\ Up(p)
    /\ pc[p] = "send"
    /\ q \in Peers(p) \ sent[p]
    /\ chan' = IF Up(q) /\ Len(chan[<<p, q>>]) < ChanCap
               THEN [chan EXCEPT ![<<p, q>>] = Append(@, OwnMessage(p))]
               ELSE chan
    /\ IF sent[p] \cup {q} = Peers(p)
       THEN /\ sent' = [sent EXCEPT ![p] = {}]
            /\ pc' = [pc EXCEPT ![p] = "recv"]
       ELSE /\ sent' = [sent EXCEPT ![p] = @ \cup {q}]
            /\ UNCHANGED pc
    /\ UNCHANGED <<rnd, status, heard, store, used, token, crashes>>

\* One of the sends that broadcast joins.  A send to a server that has left
\* fails, and the failure is ignored.
Send(p, q) ==
    /\ Up(p)
    /\ pc[p] = "send"
    /\ q \in Peers(p) \ sent[p]
    /\ \/ /\ Up(q)
          /\ Len(chan[<<p, q>>]) < ChanCap
          /\ chan' = [chan EXCEPT ![<<p, q>>] = Append(@, OwnMessage(p))]
       \/ /\ ~Up(q)
          /\ UNCHANGED chan
    /\ IF sent[p] \cup {q} = Peers(p)
       THEN /\ sent' = [sent EXCEPT ![p] = {}]
            /\ pc' = [pc EXCEPT ![p] = "recv"]
       ELSE /\ sent' = [sent EXCEPT ![p] = @ \cup {q}]
            /\ UNCHANGED pc
    /\ UNCHANGED <<rnd, status, heard, store, used, token, crashes>>

\* One of the receives that receive_all joins, when a message is there:
\* handle_cmd files it under its own kind.  It asserts first that the sender is
\* another server: q is, and its id in the one byte of the message differs as
\* well with up to 256 servers (TcpFactory has the assertion and the byte).
Receive(p, q) ==
    LET m == Head(chan[<<q, p>>]) IN
    /\ Up(p)
    /\ pc[p] = "recv"
    /\ q \in Peers(p) \ heard[p]
    /\ chan[<<q, p>>] # << >>
    /\ store' = [store EXCEPT ![p][m.kind] = @ \cup {m}]
    /\ chan' = [chan EXCEPT ![<<q, p>>] = Tail(@)]
    /\ heard' = [heard EXCEPT ![p] = @ \cup {q}]
    /\ UNCHANGED <<rnd, pc, status, sent, used, token, crashes>>

\* Mutant: a receive that returns None is tried again.
ReceiveRetry(p, q) ==
    /\ Up(p)
    /\ pc[p] = "recv"
    /\ q \in Peers(p) \ heard[p]
    /\ chan[<<q, p>>] = << >>
    /\ ~Up(q)
    /\ UNCHANGED vars

\* The same receive when the peer has left and nothing of its is left to
\* read: receive returns None and receive_all goes on without it.
ReceiveNone(p, q) ==
    /\ Up(p)
    /\ pc[p] = "recv"
    /\ q \in Peers(p) \ heard[p]
    /\ chan[<<q, p>>] = << >>
    /\ ~Up(q)
    /\ heard' = [heard EXCEPT ![p] = @ \cup {q}]
    /\ UNCHANGED <<rnd, pc, status, sent, store, used, chan, token, crashes>>

\* Mutant: the assertion only bounds the number of messages.
EnoughAtMost(p) ==
    Cardinality(store[p][Kind(rnd[p])]) <= Cardinality(Peers(p))

\* All receives have returned and the storage of this kind of round holds as
\* many messages as there are peers.
Enough(p) ==
    Cardinality(store[p][Kind(rnd[p])]) = Cardinality(Peers(p))

\* Combine with the guard and the changes that its mutants vary.
CombineWith(p, guard, drained) ==
    LET r == rnd[p] IN
    /\ Up(p)
    /\ pc[p] = "recv"
    /\ guard
    /\ store' = [store EXCEPT ![p][Kind(r)] = @ \ drained]
    /\ heard' = [heard EXCEPT ![p] = {}]
    /\ rnd' = [rnd EXCEPT ![p] = r + 1]
    /\ pc' = [pc EXCEPT ![p] = "take"]
    /\ status' = IF r + 1 \in Rounds THEN status
                 ELSE [status EXCEPT ![p] = "done"]
    /\ token' = IF p = 0 /\ Kind(r) = "commit"
                THEN [token EXCEPT ![r] = store[p]["commit"] \cup {OwnMessage(p)}]
                ELSE token
    /\ UNCHANGED <<sent, used, chan, crashes>>

\* Mutant: the storage is read without being drained.
CombineUndrained(p) == CombineWith(p, heard[p] = Peers(p) /\ Enough(p), {})

\* Mutant: the result is used as soon as one peer has answered.
CombineEarly(p) == CombineWith(p, heard[p] # {}, Message)

\* receive_*_shares / receive_agg_commits return, the storage is drained and
\* the round is computed; in a commitment round server 0 signs the aggregate.
Combine(p) ==
    LET r == rnd[p] IN
    /\ Up(p)
    /\ pc[p] = "recv"
    /\ heard[p] = Peers(p)
    /\ Enough(p)
    /\ store' = [store EXCEPT ![p][Kind(r)] = {}]
    /\ heard' = [heard EXCEPT ![p] = {}]
    /\ rnd' = [rnd EXCEPT ![p] = r + 1]
    /\ pc' = [pc EXCEPT ![p] = "take"]
    /\ status' = IF r + 1 \in Rounds THEN status
                 ELSE [status EXCEPT ![p] = "done"]
    /\ token' = IF p = 0 /\ Kind(r) = "commit"
                THEN [token EXCEPT ![r] = store[p]["commit"] \cup {OwnMessage(p)}]
                ELSE token
    /\ UNCHANGED <<sent, used, chan, crashes>>

\* The assertion on the number of messages fails: the server panics.
CombinePanic(p) ==
    /\ Up(p)
    /\ pc[p] = "recv"
    /\ heard[p] = Peers(p)
    /\ ~Enough(p)
    /\ Fail(p, "aborted", Unread(p))
    /\ UNCHANGED <<rnd, pc, sent, heard, store, used, token, crashes>>

\* A server dies, or is cut off, at any point of a round.
Crash(p) ==
    /\ Up(p)
    /\ crashes < MaxCrashes
    /\ crashes' = crashes + 1
    /\ Fail(p, "crashed", Peers(p))
    /\ UNCHANGED <<rnd, pc, sent, heard, store, used, token>>

\* Every server has returned or died: the session is over.
Over ==
    /\ \A p \in Parties : ~Up(p)
    /\ UNCHANGED vars

Step(p) ==
    \/ Take(p) \/ TakePanic(p)
    \/ \E q \in Parties : Send(p, q) \/ Receive(p, q) \/ ReceiveNone(p, q)
    \/ Combine(p) \/ CombinePanic(p)

Next ==
    \/ \E p \in Parties : Step(p) \/ Crash(p)
    \/ Over

Spec == Init /\ [][Next]_vars

\* Each server is one task of a runtime that never starves a ready task.
Fairness == \A p \in Parties : WF_vars(Step(p))

FairSpec == Spec /\ Fairness
----------------------------------------------------------------------------
(* Properties.                                                             *)

\* The types of the variables.  At most 2 messages are ever on a link (see
\* LinkBound), so the type says nothing about its length.
TypeOK ==
    /\ rnd \in [Parties -> 1..Len(Schedule) + 1]
    /\ pc \in [Parties -> {"take", "send", "recv"}]
    /\ status \in [Parties -> {"up", "done", "exhausted", "aborted", "crashed"}]
    /\ sent \in [Parties -> SUBSET Parties]
    /\ heard \in [Parties -> SUBSET Parties]
    /\ store \in [Parties -> [Kinds -> SUBSET Message]]
    /\ used \in [Parties -> [Kinds -> Nat]]
    /\ chan \in [Links -> Seq(Message)]
    /\ token \in [CommitRounds -> SUBSET Message]
    /\ crashes \in 0..MaxCrashes

\* receive_beaver_shares, receive_dabit_shares and receive_agg_commits hand
\* out whatever was filed under their kind.  Every message filed at a server
\* was made in the round that server is in, and blinded with the same slice
\* of correlated randomness, although neither is on the wire: the wrong share
\* would be combined without any error.
SharesMatch ==
    \A p \in Parties : \A k \in Kinds : \A m \in store[p][k] :
        /\ m.rnd = rnd[p]
        /\ m.kind = Kind(rnd[p])
        /\ m.upto = used[p][m.kind]

\* A server is never more than one message ahead of what a peer has read, so
\* a link holds at most two messages: the mpsc::channel(100) of the in-memory
\* links never blocks a sender, and one message of slack is all TCP needs.
LinkBound == \A l \in Links : Len(chan[l]) <= 2

\* The assertions in take and in the three receive functions fail only after
\* some server died: in a run without deaths the dealt randomness suffices
\* for the queries it was dealt for, and every server hears every peer.
PanicOnlyAfterCrash ==
    crashes = 0 => \A p \in Parties : status[p] \in {"up", "done"}

\* Servers that were dealt too little randomness run out of it together: in
\* the same round, with the same counters, having signed every query whose
\* rounds were complete, and without misreading a shorter exchange.
ExhaustedTogether ==
    \A p, q \in Parties : status[p] = "exhausted" /\ crashes = 0 =>
        /\ status[q] \in {"up", "exhausted"}
        /\ rnd[q] <= rnd[p]
        /\ rnd[q] = rnd[p] => used[q] = used[p]
        /\ \A r \in CommitRounds : r < rnd[0] => token[r] # {}

\* A token signed by server 0 aggregates exactly one commitment of every
\* server, all of them made for the query being signed, whatever servers die
\* while commitments are broadcast.
TokenComplete ==
    \A r \in CommitRounds : token[r] # {} =>
        /\ {m.sender : m \in token[r]} = Parties
        /\ Cardinality(token[r]) = Cardinality(Parties)
        /\ \A m \in token[r] : m.rnd = r /\ m.kind = "commit"

\* A server that returns from its last query leaves nothing unread and no
\* peer still has to send to it.  (Closing a TCP socket with unread data
\* resets the connection, which could destroy the last messages it sent.)
CleanExit ==
    \A p \in Parties : status[p] = "done" =>
        \A q \in Peers(p) :
            /\ chan[<<q, p>>] = << >>
            /\ Up(q) => \/ rnd[q] > Len(Schedule)
                        \/ /\ rnd[q] = Len(Schedule)
                           /\ pc[q] = "recv" \/ (pc[q] = "send" /\ p \in sent[q])

\* The rounds implement the abstract lockstep: a server finishes a round only
\* after every server, dead ones included, has entered it.
Abstract == INSTANCE Lockstep WITH
    LastRound <- Len(Schedule),
    entered <- [p \in Parties |-> IF pc[p] = "take" THEN rnd[p] - 1 ELSE rnd[p]],
    finished <- [p \in Parties |-> rnd[p] - 1],
    gone <- {p \in Parties : ~Up(p)}

RefinesLockstep == Abstract!LockstepSpec

\* Nobody waits for ever: every server returns or dies, whatever the others
\* do.  Broadcasts precede receives at every server, so nobody receives from
\* a peer that waits for it, and a receive from a dead peer returns.
EveryoneStops == <>(\A p \in Parties : ~Up(p))

\* If nobody dies, server 0 signs a token for every query.
EveryQuerySigned ==
    <>[](crashes > 0 \/ \A r \in CommitRounds : token[r] # {})
----------------------------------------------------------------------------
(* The inductive invariant behind the safety properties.  Every link is    *)
(* described by two counters that the code does not keep: the last round   *)
(* its sender has sent and the last round its receiver has read.           *)

\* The last round whose correlated randomness p has taken.
Entered(p) == IF pc[p] = "take" THEN rnd[p] - 1 ELSE rnd[p]

\* The last round whose message p has sent to q.
SentTo(p, q) ==
    IF pc[p] = "recv" \/ q \in sent[p] THEN rnd[p] ELSE rnd[p] - 1

\* The last round for which q is done with reading from p.
ReadFrom(q, p) == IF p \in heard[q] THEN rnd[q] ELSE rnd[q] - 1

\* What round r takes of kind k.
Takes(r, k) == IF Kind(r) = k THEN Need(r) ELSE 0

\* Where a server is agrees with what it has sent and heard.
PhaseOf(p) ==
    /\ pc[p] # "recv" => heard[p] = {}
    /\ pc[p] # "send" => sent[p] = {}
    /\ heard[p] \subseteq Peers(p)
    /\ sent[p] \subseteq Peers(p)
    /\ status[p] = "done" <=> rnd[p] \notin Rounds
    /\ rnd[p] \notin Rounds => pc[p] = "take"

PhaseInv == \A p \in Parties : PhaseOf(p)

\* Nobody moves past a round before every peer has sent it its message.
SkewInv == \A l \in Links : SentTo(l[1], l[2]) >= rnd[l[2]] - 1

\* The counters of two servers differ by what the round between them takes.
UsedAgree(p, q, k) ==
    /\ Entered(p) = Entered(q) => used[p][k] = used[q][k]
    /\ Entered(p) = Entered(q) + 1 =>
           used[p][k] = used[q][k] + Takes(Entered(p), k)

UsedInv == \A p, q \in Parties : \A k \in Kinds : UsedAgree(p, q, k)

\* m is the message p sent in round m.rnd, which is its last or the one before.
SentBy(p, m) ==
    /\ m.sender = p
    /\ m.kind = Kind(m.rnd)
    /\ m.rnd = Entered(p) => m.upto = used[p][m.kind]
    /\ m.rnd + 1 = Entered(p) =>
           used[p][m.kind] = m.upto + Takes(m.rnd + 1, m.kind)

\* The i-th message on a link: consecutive rounds, from the first the receiver
\* has not read on.
InFlight(l, i) ==
    /\ chan[l][i].rnd = ReadFrom(l[2], l[1]) + i
    /\ chan[l][i].rnd <= SentTo(l[1], l[2])
    /\ SentBy(l[1], chan[l][i])

\* p is up, or has returned from its last query.
Intact(p) == status[p] \in {"up", "done"}

\* Links hold such messages; nothing goes to a server that has left, and
\* nothing sent by an intact server is missing.
LinkOf(l) ==
    /\ ~Up(l[2]) => chan[l] = << >>
    /\ Intact(l[1]) /\ Up(l[2]) =>
           Len(chan[l]) = SentTo(l[1], l[2]) - ReadFrom(l[2], l[1])
    /\ \A i \in 1..Len(chan[l]) : InFlight(l, i)

LinkInv == \A l \in Links : LinkOf(l)

\* A stored message belongs to the round being received and to a peer heard.
Filed(p, k, m) ==
    /\ k = Kind(rnd[p])
    /\ m.kind = k
    /\ m.rnd = rnd[p]
    /\ m.upto = used[p][k]
    /\ m.sender \in heard[p]
    /\ SentTo(m.sender, p) >= rnd[p]

StoreInv ==
    \A p \in Parties : \A k \in Kinds : \A m \in store[p][k] : Filed(p, k, m)

RoundsInv ==
    /\ TypeOK
    /\ PhaseInv
    /\ SkewInv
    /\ UsedInv
    /\ LinkInv
    /\ StoreInv
----------------------------------------------------------------------------
(* The invariant behind the properties of sessions without deaths.  A      *)
(* server that runs out of randomness leaves early too, but everyone runs  *)
(* out in the same round, so that it takes no message with it.             *)

\* What p has to take next is more than it has left.
Short(p) ==
    /\ rnd[p] \in Rounds
    /\ pc[p] = "take"
    /\ used[p][Kind(rnd[p])] + Need(rnd[p]) > Avail[Kind(rnd[p])]

\* Nobody overdraws, and only that makes a server "exhausted".
DealtInv ==
    \A p \in Parties :
        /\ \A k \in Kinds : used[p][k] <= Avail[k]
        /\ status[p] = "exhausted" => Short(p)

\* Nothing is missing on any link or in any storage.
CompleteInv ==
    /\ \A p \in Parties : status[p] \in {"up", "done", "exhausted"}
    /\ \A l \in Links : Up(l[2]) =>
           Len(chan[l]) = SentTo(l[1], l[2]) - ReadFrom(l[2], l[1])
    /\ \A p \in Parties : Up(p) => \A q \in heard[p] :
           \E m \in store[p][Kind(rnd[p])] : m.sender = q

\* Server 0 has signed every query that it is past.
SignedInv == \A r \in CommitRounds : r < rnd[0] => token[r] # {}

\* Running out of correlated randomness hurts nobody: a server stops for it
\* only where everyone stops, and as long as nobody died no message is missing
\* anywhere and every query that is over has its token.
DeathlessInv ==
    /\ DealtInv
    /\ crashes = 0 => CompleteInv
    /\ SignedInv

\* T[r][k] is what rounds 1 to r take of kind k, and as much was dealt.
Covered(T) ==
    /\ T \in [0..Len(Schedule) -> [Kinds -> Nat]]
    /\ \A k \in Kinds : T[0][k] = 0
    /\ \A r \in Rounds : \A k \in Kinds :
           T[r][k] = T[r - 1][k] + Takes(r, k) /\ T[r][k] <= Avail[k]

\* The dealt randomness suffices for the whole schedule.
Provided == \E T : Covered(T)
=============================================================================

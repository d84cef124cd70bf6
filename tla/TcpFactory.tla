----------------------------- MODULE TcpFactory -----------------------------
(***************************************************************************)
(* How the servers connect (PRCServer::new and TcpConnectionFactory) and   *)
(* start their first round.  Each server binds its port and spawns an      *)
(* accept loop, then connects to every server with a lower id, one after   *)
(* the other, announcing itself with a handshake, then polls until it has  *)
(* a connection to every peer.  The accept loop runs beside this and       *)
(* handles one handshake at a time.  A server that is ready sends its      *)
(* first shares on the connections, which its peers may not have accepted  *)
(* yet.                                                                    *)
(***************************************************************************)
EXTENDS Integers, Sequences, FiniteSets

CONSTANTS
    NumServers,   \* party_num
    IdRange,      \* number of ids a handshake can carry: 256, one byte
    InOrder,      \* whether servers are started in the order of their ids
    MaxCrashes,   \* bound on the number of servers that die
    MaxErrors     \* bound on the number of accept loops that an error ends

ASSUME FactoryAssumption ==
    /\ NumServers \in Nat \ {0, 1} /\ IdRange \in Nat \ {0}
    /\ InOrder \in BOOLEAN /\ MaxCrashes \in Nat /\ MaxErrors \in Nat

Servers == 0..NumServers - 1
None == NumServers
Links == Servers \X Servers

VARIABLES
    pc,          \* "off", "connect", "handshake", "wait", "ready", "sent" (the
                 \* first shares), "started" (got everyone's) or "gone"
    target,      \* the lower server to connect to next
    conns,       \* the connections map: by id, the server at the other end
    handler,     \* the peers of the MpcMessageHandler that get_handler returned
    backlog,     \* connections to a listener that were not accepted yet
    accepting,   \* whose handshake the accept loop waits for, or None
    looping,     \* whether the accept loop (and with it the listener) lives
    stream,      \* [<<p, q>> -> commands from p to q that q has not read]
    crashes,
    erred        \* the servers whose accept loop an error ended; read by no
                 \* action but for the bound on its size

vars == <<pc, target, conns, handler, backlog, accepting, looping, stream, crashes, erred>>

\* HashMap::insert: a connection under the same id is replaced and dropped.
Inserted(map, id, q) ==
    [k \in DOMAIN map \cup {id} |-> IF k = id THEN q ELSE map[k]]

Init ==
    /\ pc = [p \in Servers |-> "off"]
    /\ target = [p \in Servers |-> 0]
    /\ conns = [p \in Servers |-> << >>]
    /\ handler = [p \in Servers |-> {}]
    /\ backlog = [p \in Servers |-> << >>]
    /\ accepting = [p \in Servers |-> None]
    /\ looping = [p \in Servers |-> FALSE]
    /\ stream = [l \in Links |-> << >>]
    /\ crashes = 0
    /\ erred = {}

\* listen: bind the port and spawn the accept loop.
Listen(p) ==
    /\ pc[p] = "off"
    /\ InOrder => \A q \in 0..p - 1 : pc[q] # "off"
    /\ pc' = [pc EXCEPT ![p] = "connect"]
    /\ looping' = [looping EXCEPT ![p] = TRUE]
    /\ UNCHANGED <<target, conns, handler, backlog, accepting, stream, crashes, erred>>

\* The listener closes with its task: connections not yet accepted are reset.
CloseListener(p) ==
    /\ looping' = [looping EXCEPT ![p] = FALSE]
    /\ backlog' = [backlog EXCEPT ![p] = << >>]
    /\ accepting' = [accepting EXCEPT ![p] = None]

\* connect, one round of its loop: the operating system completes the
\* connection as soon as the peer listens, whether or not it is accepted.
Connect(p) ==
    /\ pc[p] = "connect"
    /\ target[p] < p
    /\ looping[target[p]]
    /\ backlog' = [backlog EXCEPT ![target[p]] = Append(@, p)]
    /\ pc' = [pc EXCEPT ![p] = "handshake"]
    /\ UNCHANGED <<target, conns, handler, accepting, looping, stream, crashes, erred>>

\* The connection is refused: connect unwraps the error and panics.
Refused(p) ==
    /\ pc[p] = "connect"
    /\ target[p] < p
    /\ ~looping[target[p]]
    /\ pc' = [pc EXCEPT ![p] = "gone"]
    /\ CloseListener(p)
    /\ UNCHANGED <<target, conns, handler, stream, crashes, erred>>

\* The handshake is sent, its failure ignored, and the peer is connected.
Handshake(p) ==
    /\ pc[p] = "handshake"
    /\ stream' = [stream EXCEPT ![<<p, target[p]>>] = Append(@, "Handshake")]
    /\ conns' = [conns EXCEPT ![p] = Inserted(@, target[p], target[p])]
    /\ target' = [target EXCEPT ![p] = @ + 1]
    /\ pc' = [pc EXCEPT ![p] = "connect"]
    /\ UNCHANGED <<handler, backlog, accepting, looping, crashes, erred>>

\* connect returns.
Connected(p) ==
    /\ pc[p] = "connect"
    /\ target[p] = p
    /\ pc' = [pc EXCEPT ![p] = "wait"]
    /\ UNCHANGED <<target, conns, handler, backlog, accepting, looping, stream, crashes, erred>>

\* accept returns an error, which ends the while let without a word, or
\* set_nodelay fails on the connection it returns, whose expect ends the
\* spawned task.  Either way the listener goes and the server lives on.
AcceptFails(p) ==
    /\ looping[p]
    /\ accepting[p] = None
    /\ Cardinality(erred) < MaxErrors
    /\ erred' = erred \cup {p}
    /\ CloseListener(p)
    /\ UNCHANGED <<pc, target, conns, handler, stream, crashes>>

\* The accept loop takes the next connection and waits for its handshake.
Accept(p) ==
    /\ looping[p]
    /\ accepting[p] = None
    /\ backlog[p] # << >>
    /\ accepting' = [accepting EXCEPT ![p] = Head(backlog[p])]
    /\ backlog' = [backlog EXCEPT ![p] = Tail(@)]
    /\ UNCHANGED <<pc, target, conns, handler, looping, stream, crashes, erred>>

\* The id in a handshake is cut to one byte.
Announced(p) == p % IdRange

\* q has dropped its end of a connection that p made to it: it is neither filed
\* nor on its way to be.
Dropped(q, p) ==
    /\ q < p
    /\ \A k \in DOMAIN conns[q] : conns[q][k] # p
    /\ \A i \in DOMAIN backlog[q] : backlog[q][i] # p
    /\ accepting[q] # p

\* What receive on the connection from q returns at p: the next command, None
\* at the end of the stream, or nothing yet.
Incoming(q, p) ==
    IF stream[<<q, p>>] # << >> THEN Head(stream[<<q, p>>])
    ELSE IF pc[q] = "gone" \/ Dropped(q, p) THEN "None" ELSE "Pending"

\* Mutant: a peer counts as connected before its handshake arrives.
AcceptedUnshaken(p) ==
    /\ looping[p]
    /\ accepting[p] # None
    /\ conns' = [conns EXCEPT ![p] = Inserted(@, Announced(accepting[p]), accepting[p])]
    /\ accepting' = [accepting EXCEPT ![p] = None]
    /\ UNCHANGED <<pc, target, handler, backlog, looping, stream, crashes, erred>>

\* handle_new_listen_connection: the handshake names the peer.  A connection
\* that it replaces is closed.
Accepted(p) ==
    /\ looping[p]
    /\ accepting[p] # None
    /\ Incoming(accepting[p], p) = "Handshake"
    /\ stream' = [stream EXCEPT ![<<accepting[p], p>>] = Tail(@)]
    /\ conns' = [conns EXCEPT ![p] = Inserted(@, Announced(accepting[p]), accepting[p])]
    /\ accepting' = [accepting EXCEPT ![p] = None]
    /\ UNCHANGED <<pc, target, handler, backlog, looping, crashes, erred>>

\* Mutant: the loop does not wait for a handshake that is not there yet.
AcceptPanicEager(p) ==
    /\ looping[p]
    /\ accepting[p] # None
    /\ Incoming(accepting[p], p) # "Handshake"
    /\ CloseListener(p)
    /\ UNCHANGED <<pc, target, conns, handler, stream, crashes, erred>>

\* The peer died before its handshake, or something else comes first: the
\* panic ends the spawned task and with it the listener, but not the server.
AcceptPanic(p) ==
    /\ looping[p]
    /\ accepting[p] # None
    /\ Incoming(accepting[p], p) \notin {"Handshake", "Pending"}
    /\ CloseListener(p)
    /\ UNCHANGED <<pc, target, conns, handler, stream, crashes, erred>>

\* Mutant: is_ready counts the server itself.
IsReadyCountingSelf(p) == Cardinality(DOMAIN conns[p]) + 1 >= NumServers - 1

\* Mutant: is_ready waits for as many connections as there are servers.
IsReadyForAll(p) == Cardinality(DOMAIN conns[p]) = NumServers

\* is_ready.
IsReady(p) == Cardinality(DOMAIN conns[p]) = NumServers - 1

\* wait_till_ready ends, and get_handler returns a handler of the connections
\* that are not filed under the server's own id.
Ready(p) ==
    /\ pc[p] = "wait"
    /\ IsReady(p)
    /\ pc' = [pc EXCEPT ![p] = "ready"]
    /\ handler' = [handler EXCEPT ![p] = {conns[p][k] : k \in DOMAIN conns[p] \ {p}}]
    /\ UNCHANGED <<target, conns, backlog, accepting, looping, stream, crashes, erred>>

\* wait_till_ready sleeps and looks again, without a limit.
Poll(p) ==
    /\ pc[p] = "wait"
    /\ ~IsReady(p)
    /\ UNCHANGED vars

\* The first broadcast of the protocol.
Broadcast(p) ==
    /\ pc[p] = "ready"
    /\ stream' = [l \in Links |->
           IF l[1] = p /\ l[2] \in handler[p] THEN Append(stream[l], "Share") ELSE stream[l]]
    /\ pc' = [pc EXCEPT ![p] = "sent"]
    /\ UNCHANGED <<target, conns, handler, backlog, accepting, looping, crashes, erred>>

\* receive_all of the first round has an answer from every peer.
Answered(p) == \A q \in handler[p] : Incoming(q, p) # "Pending"

Read(p) ==
    stream' = [l \in Links |->
        IF l[2] = p /\ l[1] \in handler[p] /\ stream[l] # << >>
        THEN Tail(stream[l]) ELSE stream[l]]

ReceiveAll(p) ==
    /\ pc[p] = "sent"
    /\ Answered(p)
    /\ \A q \in handler[p] : Incoming(q, p) = "Share" /\ Announced(q) # Announced(p)
    /\ Read(p)
    /\ pc' = [pc EXCEPT ![p] = "started"]
    /\ UNCHANGED <<target, conns, handler, backlog, accepting, looping, crashes, erred>>

\* What panics when q answers it: a handshake, or a share whose sender has p's
\* own id in one byte, in handle_cmd as it comes; a missing share by the count,
\* once every peer has answered.
Fatal(q, p) ==
    {"Handshake"} \cup (IF Announced(q) = Announced(p) THEN {"Share"} ELSE {})
                  \cup (IF Answered(p) THEN {"None"} ELSE {})

ReceivePanic(p) ==
    /\ pc[p] = "sent"
    /\ \E q \in handler[p] : Incoming(q, p) \in Fatal(q, p)
    /\ Read(p)
    /\ pc' = [pc EXCEPT ![p] = "gone"]
    /\ CloseListener(p)
    /\ UNCHANGED <<target, conns, handler, crashes, erred>>

\* A server dies, and any suffix of what it has sent may be lost on each link.
\* A port that cannot be bound and a set_nodelay that fails in connect are such
\* deaths: their unwrap and expect are in the main task.
Crash(p) ==
    /\ pc[p] \notin {"started", "gone"}
    /\ crashes < MaxCrashes
    /\ crashes' = crashes + 1
    /\ pc' = [pc EXCEPT ![p] = "gone"]
    /\ \E kept \in [Servers -> 0..2] :
          /\ \A q \in Servers : kept[q] <= Len(stream[<<p, q>>])
          /\ stream' = [l \in Links |->
                IF l[1] = p THEN SubSeq(stream[l], 1, kept[l[2]]) ELSE stream[l]]
    /\ CloseListener(p)
    /\ UNCHANGED <<target, conns, handler, erred>>

\* Everyone has started or is gone.
Settled ==
    /\ \A p \in Servers : pc[p] \in {"started", "gone"}
    /\ UNCHANGED vars

Main(p) ==
    \/ Listen(p) \/ Connect(p) \/ Refused(p) \/ Handshake(p) \/ Connected(p)
    \/ Ready(p) \/ Poll(p) \/ Broadcast(p) \/ ReceiveAll(p) \/ ReceivePanic(p)

Loop(p) == Accept(p) \/ Accepted(p) \/ AcceptPanic(p)

Next ==
    \/ \E p \in Servers : Main(p) \/ Loop(p) \/ AcceptFails(p) \/ Crash(p)
    \/ Settled

Spec == Init /\ [][Next]_vars

\* The main task and the accept loop are tasks of a fair runtime.
FairSpec == Spec /\ \A p \in Servers : WF_vars(Main(p)) /\ WF_vars(Loop(p))
----------------------------------------------------------------------------
(* Properties.                                                             *)

Peers(p) == Servers \ {p}

Ends(map) == {map[k] : k \in DOMAIN map}

\* The handler that get_handler builds "can be used to communicate with all
\* connected peers": it has a connection to every peer.
ReadyComplete ==
    \A p \in Servers : pc[p] \in {"ready", "sent", "started"} => handler[p] = Peers(p)

\* Handshakes and shares are never taken for each other, although a server
\* that is ready sends its first shares to peers whose accept loop has not
\* come to its connection yet: the accept loop reads handshakes only, and the
\* connections of a handler carry none (handle_cmd panics on one).
HandshakesApart ==
    \A p, q \in Servers :
        /\ accepting[p] = q => Incoming(q, p) # "Share"
        /\ q \in handler[p] =>
              \A i \in 1..Len(stream[<<q, p>>]) : stream[<<q, p>>][i] = "Share"

\* No order in which servers start, connect and shake hands ends an accept
\* loop.  In a server that lives it ended by an error of accept or set_nodelay,
\* or because a server with a higher id died before its handshake was read.
LoopSurvives ==
    \A p \in Servers : ~looping[p] /\ pc[p] \notin {"off", "gone"} =>
        \/ p \in erred
        \/ \E q \in p + 1..NumServers - 1 : pc[q] = "gone" /\ q \notin Ends(conns[p])

\* If nobody dies and no accept loop meets an error, every server gets its
\* connections and everyone's first shares, although the accept loops handle
\* one handshake at a time and every server connects before it looks at its own
\* loop: connections go from higher to lower ids, so waiting is not circular.
EveryoneStarts ==
    <>(crashes > 0 \/ erred # {} \/ \A p \in Servers : pc[p] = "started")
----------------------------------------------------------------------------
(* The inductive invariant behind the safety properties, for servers whose *)
(* ids a handshake can carry.  A connection exists from the moment its     *)
(* higher end has connected to its lower end, but only its handshake tells *)
(* the lower end about it.                                                 *)

IdsFit == NumServers <= IdRange

Running == {"ready", "sent", "started"}
Commands == {"Handshake", "Share"}

\* The types of the variables; conns is described by ConnsInv.
FactoryType ==
    /\ pc \in [Servers -> {"off", "connect", "handshake", "wait", "gone"} \cup Running]
    /\ target \in [Servers -> Servers]
    /\ DOMAIN conns = Servers
    /\ handler \in [Servers -> SUBSET Servers]
    /\ backlog \in [Servers -> Seq(Servers)]
    /\ accepting \in [Servers -> Servers \cup {None}]
    /\ looping \in [Servers -> BOOLEAN]
    /\ stream \in [Links -> Seq(Commands)]
    /\ crashes \in Nat
    /\ erred \subseteq Servers

\* How far p is with the servers below it.
TargetOf(p) ==
    /\ target[p] <= p
    /\ pc[p] = "handshake" => target[p] < p
    /\ pc[p] \in {"wait"} \cup Running => target[p] = p

TargetInv == \A p \in Servers : TargetOf(p)

\* Every connection is filed under the id of its other end, never under the
\* server's own, and a handler is made of connections.
ConnsOf(p) ==
    /\ DOMAIN conns[p] \subseteq Peers(p)
    /\ \A k \in DOMAIN conns[p] : conns[p][k] = k
    /\ handler[p] \subseteq DOMAIN conns[p]
    /\ pc[p] \in Running => handler[p] = Peers(p)

ConnsInv == \A p \in Servers : ConnsOf(p)

\* q, with a higher id, has connected to p and is not filed yet.
Waits(q, p) ==
    /\ q > p
    /\ q \notin DOMAIN conns[p]
    /\ \/ target[q] > p
       \/ target[q] = p /\ pc[q] \in {"handshake", "gone"}

\* The queue of p's listener holds such servers, each once.
QueueOf(p) ==
    /\ accepting[p] # None => Waits(accepting[p], p)
    /\ \A i \in 1..Len(backlog[p]) :
          /\ Waits(backlog[p][i], p)
          /\ backlog[p][i] # accepting[p]
          /\ \A j \in 1..Len(backlog[p]) : backlog[p][i] = backlog[p][j] => i = j

QueueInv == \A p \in Servers : QueueOf(p)

\* A stream that carries only shares from position i on.
SharesFrom(s, i) == \A j \in i..Len(s) : s[j] = "Share"

\* The first command from a server that p has not filed yet is its handshake,
\* which is there until p reads it or its sender dies; everything else is
\* shares.
StreamOf(q, p) ==
    IF q > p /\ q \notin DOMAIN conns[p]
    THEN /\ stream[<<q, p>>] # << >> =>
                stream[<<q, p>>][1] = "Handshake" /\ target[q] > p
         /\ target[q] > p /\ pc[q] # "gone" => stream[<<q, p>>] # << >>
         /\ SharesFrom(stream[<<q, p>>], 2)
    ELSE /\ SharesFrom(stream[<<q, p>>], 1)
         /\ q > p => target[q] > p

StreamInv == \A p, q \in Servers : StreamOf(q, p)

\* Whatever order servers start, connect, handshake, fail and die in, the two tasks of
\* a server agree: the map holds distinct peers, the queue those that have
\* connected and are not in it, and each stream begins with its handshake.
FactoryInv ==
    /\ FactoryType
    /\ TargetInv
    /\ ConnsInv
    /\ QueueInv
    /\ StreamInv
    /\ LoopSurvives
=============================================================================

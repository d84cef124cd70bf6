-------------------------- MODULE TcpFactoryProofs --------------------------
(***************************************************************************)
(* Proofs about TcpFactory for every number of servers, started in any     *)
(* order, with any deaths and any errors of accept, as long as every id    *)
(* fits a handshake (IdsFit).                                              *)
(***************************************************************************)
EXTENDS TcpFactory, FiniteSetTheorems, TLAPS

----------------------------------------------------------------------------
(* The constants.                                                          *)

LEMMA ServersType ==
    /\ 0 \in Servers
    /\ \A p \in Servers : p \in Nat /\ p \in Int /\ p # None
    /\ \A p, q \in Servers : <<p, q>> \in Links
BY FactoryAssumption DEF Servers, None, Links

\* An id that fits arrives as it was sent.
LEMMA AnnouncedFits ==
    ASSUME IdsFit, NEW p \in Servers
    PROVE  Announced(p) = p
BY FactoryAssumption DEF IdsFit, Announced, Servers

LEMMA PeersCount ==
    ASSUME NEW p \in Servers
    PROVE  IsFiniteSet(Peers(p)) /\ Cardinality(Peers(p)) = NumServers - 1
<1>1. IsFiniteSet(Servers) /\ Cardinality(Servers) = NumServers
    BY FactoryAssumption, FS_Interval DEF Servers
<1> QED
    BY <1>1, FS_RemoveElement DEF Peers

----------------------------------------------------------------------------
(* The steps.                                                              *)

LEMMA NextCases ==
    ASSUME Next
    PROVE  \/ \E p \in Servers :
                 \/ Listen(p) \/ Connect(p) \/ Refused(p) \/ Handshake(p)
                 \/ Connected(p) \/ Ready(p) \/ Broadcast(p) \/ ReceiveAll(p)
                 \/ ReceivePanic(p) \/ Crash(p)
                 \/ Accept(p) \/ Accepted(p) \/ AcceptPanic(p) \/ AcceptFails(p)
           \/ UNCHANGED vars
BY DEF Next, Main, Loop, Poll, Settled

LEMMA InsertedMap ==
    ASSUME NEW map, NEW id, NEW q
    PROVE  /\ DOMAIN Inserted(map, id, q) = DOMAIN map \cup {id}
           /\ Inserted(map, id, q)[id] = q
           /\ \A k \in DOMAIN map : k # id => Inserted(map, id, q)[k] = map[k]
BY DEF Inserted

----------------------------------------------------------------------------
(* Types.                                                                  *)

LEMMA ReadType ==
    ASSUME FactoryType, NEW p \in Servers, Read(p)
    PROVE  stream' \in [Links -> Seq(Commands)]
<1>1. ASSUME NEW l \in Links
      PROVE  stream'[l] \in Seq(Commands)
    <2>1. stream[l] \in Seq(Commands)
        BY DEF FactoryType
    <2> QED
        BY <2>1 DEF Read
<1> QED
    BY <1>1 DEF Read

LEMMA CrashType ==
    ASSUME FactoryType, NEW p \in Servers, Crash(p)
    PROVE  /\ \A l \in Links :
                 /\ stream'[l] \in Seq(Commands)
                 /\ Len(stream'[l]) <= Len(stream[l])
                 /\ \A i \in 1..Len(stream'[l]) : stream'[l][i] = stream[l][i]
                 /\ l[1] # p => stream'[l] = stream[l]
           /\ stream' \in [Links -> Seq(Commands)]
<1>1. PICK kept \in [Servers -> 0..2] :
          /\ \A q \in Servers : kept[q] <= Len(stream[<<p, q>>])
          /\ stream' = [l \in Links |->
                IF l[1] = p THEN SubSeq(stream[l], 1, kept[l[2]]) ELSE stream[l]]
    BY DEF Crash
<1>2. ASSUME NEW l \in Links
      PROVE  /\ stream'[l] \in Seq(Commands)
             /\ Len(stream'[l]) <= Len(stream[l])
             /\ \A i \in 1..Len(stream'[l]) : stream'[l][i] = stream[l][i]
             /\ l[1] # p => stream'[l] = stream[l]
    <2>1. stream[l] \in Seq(Commands)
        BY DEF FactoryType
    <2>2. CASE l[1] # p
        BY <1>1, <2>1, <2>2
    <2>3. CASE l[1] = p
        <3>1. l[2] \in Servers /\ l = <<p, l[2]>>
            BY <2>3 DEF Links
        <3>2. kept[l[2]] \in Nat /\ kept[l[2]] <= Len(stream[l])
            BY <1>1, <3>1
        <3>3. stream'[l] = SubSeq(stream[l], 1, kept[l[2]])
            BY <1>1, <2>3
        <3> QED
            BY <2>1, <2>3, <3>2, <3>3
    <2> QED
        BY <2>2, <2>3
<1> QED
    BY <1>1, <1>2

LEMMA StepType ==
    ASSUME FactoryType, TargetInv, ConnsInv, [Next]_vars
    PROVE  FactoryType'
<1> USE DEF FactoryType, Running, Commands
<1>1. CASE UNCHANGED vars
    BY <1>1 DEF vars
<1>2. ASSUME NEW p \in Servers, Listen(p) PROVE FactoryType'
    BY <1>2 DEF Listen
<1>3. ASSUME NEW p \in Servers, Connect(p) PROVE FactoryType'
    <2>1. target[p] \in Servers /\ backlog[target[p]] \in Seq(Servers)
        OBVIOUS
    <2> QED
        BY <1>3, <2>1 DEF Connect
<1>4. ASSUME NEW p \in Servers, CloseListener(p),
             pc' = [pc EXCEPT ![p] = "gone"] \/ pc' = pc,
             UNCHANGED <<target, conns, handler>>,
             stream' \in [Links -> Seq(Commands)], crashes' \in Nat, erred' \subseteq Servers
      PROVE  FactoryType'
    BY <1>4 DEF CloseListener
<1>5. ASSUME NEW p \in Servers, Refused(p) PROVE FactoryType'
    BY <1>4, <1>5 DEF Refused
<1>6. ASSUME NEW p \in Servers, Handshake(p) PROVE FactoryType'
    <2>1. target[p] \in Servers /\ target[p] < p /\ p \in Servers
        BY <1>6 DEF Handshake, TargetInv, TargetOf
    <2>2. target[p] + 1 \in Servers
        BY ONLY <2>1, FactoryAssumption DEF Servers
    <2>3. <<p, target[p]>> \in Links
        BY <2>1 DEF Links
    <2> QED
        BY <1>6, <2>1, <2>2, <2>3 DEF Handshake
<1>7. ASSUME NEW p \in Servers, Connected(p) \/ Ready(p) PROVE FactoryType'
    <2>1. CASE Connected(p)
        BY <2>1 DEF Connected
    <2>2. CASE Ready(p)
        <3>1. {conns[p][k] : k \in DOMAIN conns[p] \ {p}} \subseteq Servers
            BY DEF ConnsInv, ConnsOf, Peers
        <3> QED
            BY <2>2, <3>1 DEF Ready
    <2> QED
        BY <1>7, <2>1, <2>2
<1>8. ASSUME NEW p \in Servers, Broadcast(p) PROVE FactoryType'
    BY <1>8 DEF Broadcast
<1>9. ASSUME NEW p \in Servers, ReceiveAll(p) PROVE FactoryType'
    BY <1>9, ReadType DEF ReceiveAll
<1>10. ASSUME NEW p \in Servers, ReceivePanic(p) PROVE FactoryType'
    BY <1>4, <1>10, ReadType DEF ReceivePanic
<1>11. ASSUME NEW p \in Servers, Crash(p) PROVE FactoryType'
    <2>1. stream' \in [Links -> Seq(Commands)]
        BY <1>11, CrashType
    <2>2. crashes' \in Nat /\ CloseListener(p) /\ pc' = [pc EXCEPT ![p] = "gone"]
          /\ UNCHANGED <<target, conns, handler, erred>>
        BY <1>11 DEF Crash
    <2> QED
        BY <1>4, <2>1, <2>2
<1>12. ASSUME NEW p \in Servers, Accept(p) PROVE FactoryType'
    BY <1>12 DEF Accept
<1>13. ASSUME NEW p \in Servers, Accepted(p) PROVE FactoryType'
    <2>1. accepting[p] \in Servers /\ <<accepting[p], p>> \in Links
        BY <1>13, ServersType DEF Accepted
    <2>2. stream[<<accepting[p], p>>] \in Seq(Commands) /\ stream[<<accepting[p], p>>] # << >>
        BY <1>13, <2>1 DEF Accepted, Incoming
    <2> QED
        BY <1>13, <2>1, <2>2 DEF Accepted
<1>14. ASSUME NEW p \in Servers, AcceptPanic(p) PROVE FactoryType'
    BY <1>4, <1>14 DEF AcceptPanic
<1>15. ASSUME NEW p \in Servers, AcceptFails(p) PROVE FactoryType'
    BY <1>4, <1>15 DEF AcceptFails
<1> QED
    BY <1>1, <1>2, <1>3, <1>5, <1>6, <1>7, <1>8, <1>9, <1>10, <1>11, <1>12,
       <1>13, <1>14, <1>15, NextCases

----------------------------------------------------------------------------
(* What one server's steps do to the program counters and the maps.        *)

\* The steps of p in which it dies or panics.
Leaving(p) == Refused(p) \/ ReceivePanic(p) \/ Crash(p)

LEMMA LeavingShape ==
    ASSUME NEW p \in Servers, Leaving(p)
    PROVE  /\ pc' = [pc EXCEPT ![p] = "gone"]
           /\ CloseListener(p)
           /\ UNCHANGED <<target, conns, handler>>
BY DEF Leaving, Refused, ReceivePanic, Crash

LEMMA StepTarget ==
    ASSUME FactoryType, TargetInv, [Next]_vars
    PROVE  TargetInv'
<1> SUFFICES ASSUME NEW q \in Servers PROVE TargetOf(q)'
    BY DEF TargetInv
<1>1. TargetOf(q) /\ q \in Int /\ target[q] \in Int
    BY ServersType DEF TargetInv, FactoryType
<1>2. CASE UNCHANGED <<pc, target>>
    BY <1>1, <1>2 DEF TargetOf
<1>3. ASSUME NEW p \in Servers, Listen(p) PROVE TargetOf(q)'
    BY <1>1, <1>3 DEF Listen, TargetOf, FactoryType, Running
<1>4. ASSUME NEW p \in Servers, Connect(p) PROVE TargetOf(q)'
    BY <1>1, <1>4 DEF Connect, TargetOf, FactoryType, Running
<1>5. ASSUME NEW p \in Servers, Leaving(p) PROVE TargetOf(q)'
    BY <1>1, <1>5, LeavingShape DEF TargetOf, FactoryType, Running
<1>6. ASSUME NEW p \in Servers, Handshake(p) PROVE TargetOf(q)'
    <2>1. CASE q # p
        BY <1>1, <1>6, <2>1 DEF Handshake, TargetOf, FactoryType
    <2>2. CASE q = p
        <3>1. target'[q] = target[q] + 1 /\ pc'[q] = "connect" /\ target[q] < q
            BY <1>1, <1>6, <2>2 DEF Handshake, TargetOf, FactoryType
        <3> QED
            BY <1>1, <3>1 DEF TargetOf, Running
    <2> QED
        BY <2>1, <2>2
<1>7. ASSUME NEW p \in Servers, Connected(p) PROVE TargetOf(q)'
    BY <1>1, <1>7 DEF Connected, TargetOf, FactoryType, Running
<1>8. ASSUME NEW p \in Servers, Ready(p) PROVE TargetOf(q)'
    BY <1>1, <1>8 DEF Ready, TargetOf, FactoryType, Running
<1>9. ASSUME NEW p \in Servers, Broadcast(p) PROVE TargetOf(q)'
    BY <1>1, <1>9 DEF Broadcast, TargetOf, FactoryType, Running
<1>10. ASSUME NEW p \in Servers, ReceiveAll(p) PROVE TargetOf(q)'
    BY <1>1, <1>10 DEF ReceiveAll, TargetOf, FactoryType, Running
<1>11. ASSUME NEW p \in Servers,
              Accept(p) \/ Accepted(p) \/ AcceptPanic(p) \/ AcceptFails(p)
       PROVE  TargetOf(q)'
    BY <1>2, <1>11 DEF Accept, Accepted, AcceptPanic, AcceptFails
<1> QED
    BY <1>2, <1>3, <1>4, <1>5, <1>6, <1>7, <1>8, <1>9, <1>10, <1>11, NextCases
       DEF Leaving, vars

\* A server that is ready has as many connections as there are peers, under
\* the ids of different peers: one to each.
LEMMA ReadyHandler ==
    ASSUME NEW p \in Servers, ConnsOf(p), IsReady(p)
    PROVE  {conns[p][k] : k \in DOMAIN conns[p] \ {p}} = Peers(p)
<1>1. DOMAIN conns[p] = Peers(p)
    BY PeersCount, FS_Subset, FS_CardinalityType DEF ConnsOf, IsReady
<1> QED
    BY <1>1 DEF ConnsOf, Peers

LEMMA StepConns ==
    ASSUME IdsFit, FactoryType, TargetInv, ConnsInv, QueueInv, [Next]_vars
    PROVE  ConnsInv'
<1> SUFFICES ASSUME NEW q \in Servers PROVE ConnsOf(q)'
    BY DEF ConnsInv
<1>1. ConnsOf(q)
    BY DEF ConnsInv
<1>2. ASSUME UNCHANGED <<conns, handler>>,
             pc'[q] \in Running => pc[q] \in Running
      PROVE  ConnsOf(q)'
    BY <1>1, <1>2 DEF ConnsOf
<1>3. ASSUME NEW p \in Servers, Listen(p) PROVE ConnsOf(q)'
    BY <1>2, <1>3 DEF Listen, FactoryType, Running
<1>4. ASSUME NEW p \in Servers, Connect(p) PROVE ConnsOf(q)'
    BY <1>2, <1>4 DEF Connect, FactoryType, Running
<1>5. ASSUME NEW p \in Servers, Leaving(p) PROVE ConnsOf(q)'
    BY <1>2, <1>5, LeavingShape DEF FactoryType, Running
<1>6. ASSUME NEW p \in Servers, NEW k \in Peers(p),
             conns' = [conns EXCEPT ![p] = Inserted(@, k, k)],
             UNCHANGED handler,
             pc'[q] \in Running => pc[q] \in Running
      PROVE  ConnsOf(q)'
    <2>1. CASE q # p
        BY <1>1, <1>6, <2>1 DEF ConnsOf, FactoryType
    <2>2. CASE q = p
        <3>1. conns'[q] = Inserted(conns[q], k, k)
            BY <1>6, <2>2 DEF FactoryType
        <3>2. /\ DOMAIN conns'[q] = DOMAIN conns[q] \cup {k}
              /\ \A i \in DOMAIN conns[q] \cup {k} : conns'[q][i] = i
            BY <1>1, <3>1 DEF ConnsOf, Inserted
        <3> QED
            BY <1>1, <1>6, <2>2, <3>2 DEF ConnsOf
    <2> QED
        BY <2>1, <2>2
<1>7. ASSUME NEW p \in Servers, Handshake(p) PROVE ConnsOf(q)'
    <2>1. target[p] \in Peers(p)
        BY <1>7, ServersType DEF Handshake, TargetInv, TargetOf, FactoryType, Peers
    <2> QED
        BY <1>6, <1>7, <2>1 DEF Handshake, FactoryType, Running
<1>8. ASSUME NEW p \in Servers, Accepted(p) PROVE ConnsOf(q)'
    <2>1. accepting[p] \in Servers /\ accepting[p] > p
        BY <1>8 DEF Accepted, QueueInv, QueueOf, Waits, FactoryType
    <2>2. accepting[p] \in Peers(p) /\ Announced(accepting[p]) = accepting[p]
        BY <2>1, AnnouncedFits, ServersType DEF Peers
    <2>3. conns' = [conns EXCEPT ![p] = Inserted(@, accepting[p], accepting[p])]
          /\ UNCHANGED <<handler, pc>>
        BY <1>8, <2>2 DEF Accepted
    <2> QED
        BY <1>6, <2>2, <2>3
<1>9. ASSUME NEW p \in Servers, Connected(p) PROVE ConnsOf(q)'
    BY <1>2, <1>9 DEF Connected, FactoryType, Running
<1>10. ASSUME NEW p \in Servers, Ready(p) PROVE ConnsOf(q)'
    <2>1. CASE q # p
        BY <1>1, <1>10, <2>1 DEF Ready, ConnsOf, FactoryType
    <2>2. CASE q = p
        <3>1. handler'[q] = Peers(q) /\ UNCHANGED conns
            BY <1>1, <1>10, <2>2, ReadyHandler DEF Ready, FactoryType
        <3>2. DOMAIN conns[q] = Peers(q)
            BY <1>1, <1>10, <2>2, PeersCount, FS_Subset, FS_CardinalityType
               DEF Ready, ConnsOf, IsReady
        <3> QED
            BY <1>1, <3>1, <3>2 DEF ConnsOf
    <2> QED
        BY <2>1, <2>2
<1>11. ASSUME NEW p \in Servers, Broadcast(p) PROVE ConnsOf(q)'
    BY <1>2, <1>11 DEF Broadcast, FactoryType, Running
<1>12. ASSUME NEW p \in Servers, ReceiveAll(p) PROVE ConnsOf(q)'
    BY <1>2, <1>12 DEF ReceiveAll, FactoryType, Running
<1>13. ASSUME NEW p \in Servers, Accept(p) \/ AcceptPanic(p) \/ AcceptFails(p)
       PROVE  ConnsOf(q)'
    BY <1>2, <1>13 DEF Accept, AcceptPanic, AcceptFails
<1>14. CASE UNCHANGED vars
    BY <1>2, <1>14 DEF vars
<1> QED
    BY <1>3, <1>4, <1>5, <1>7, <1>8, <1>9, <1>10, <1>11, <1>12, <1>13, <1>14,
       NextCases DEF Leaving

----------------------------------------------------------------------------
(* The queue of a listener.                                                *)

\* Servers go on to the next target only after their handshake, and stay gone.
LEMMA TargetMoves ==
    ASSUME FactoryType, [Next]_vars, NEW q \in Servers
    PROVE  /\ \/ target'[q] = target[q]
              \/ target'[q] = target[q] + 1 /\ pc[q] = "handshake"
           /\ pc[q] = "gone" => pc'[q] = "gone"
           /\ pc[q] = "handshake" =>
                 pc'[q] \in {"handshake", "gone"} \/ target'[q] = target[q] + 1
<1> DEFINE Moves ==
        /\ \/ target'[q] = target[q]
           \/ target'[q] = target[q] + 1 /\ pc[q] = "handshake"
        /\ pc[q] = "gone" => pc'[q] = "gone"
        /\ pc[q] = "handshake" =>
              pc'[q] \in {"handshake", "gone"} \/ target'[q] = target[q] + 1
<1>1. CASE UNCHANGED <<pc, target>>
    BY <1>1
<1>2. ASSUME NEW p \in Servers, Leaving(p) PROVE Moves
    BY <1>2, LeavingShape DEF FactoryType
<1>3. ASSUME NEW p \in Servers, Handshake(p) PROVE Moves
    BY <1>3 DEF Handshake, FactoryType
<1>4. ASSUME NEW p \in Servers, NEW s,
             pc[p] \notin {"gone", "handshake"}, pc' = [pc EXCEPT ![p] = s],
             UNCHANGED target
      PROVE  Moves
    BY <1>4 DEF FactoryType
<1>5. ASSUME NEW p \in Servers, Listen(p) PROVE Moves
    BY <1>4, <1>5 DEF Listen
<1>6. ASSUME NEW p \in Servers, Connect(p) PROVE Moves
    BY <1>4, <1>6 DEF Connect
<1>7. ASSUME NEW p \in Servers, Connected(p) PROVE Moves
    BY <1>4, <1>7 DEF Connected
<1>8. ASSUME NEW p \in Servers, Ready(p) PROVE Moves
    BY <1>4, <1>8 DEF Ready
<1>9. ASSUME NEW p \in Servers, Broadcast(p) PROVE Moves
    BY <1>4, <1>9 DEF Broadcast
<1>10. ASSUME NEW p \in Servers, ReceiveAll(p) PROVE Moves
    BY <1>4, <1>10 DEF ReceiveAll
<1>11. ASSUME NEW p \in Servers,
              Accept(p) \/ Accepted(p) \/ AcceptPanic(p) \/ AcceptFails(p)
       PROVE  Moves
    BY <1>1, <1>11 DEF Accept, Accepted, AcceptPanic, AcceptFails
<1> HIDE DEF Moves
<1>12. Moves
    BY <1>1, <1>2, <1>3, <1>5, <1>6, <1>7, <1>8, <1>9, <1>10, <1>11, NextCases
       DEF Leaving, vars, Moves
<1> QED
    BY <1>12 DEF Moves

\* A server that has connected waits until it is filed.
LEMMA WaitsStays ==
    ASSUME FactoryType, [Next]_vars, NEW p \in Servers, NEW q \in Servers,
           Waits(q, p), q \notin DOMAIN conns'[p]
    PROVE  Waits(q, p)'
<1>1. p \in Int /\ q \in Int /\ target[q] \in Int
    BY ServersType DEF FactoryType
<1> QED
    BY <1>1, TargetMoves DEF Waits

\* Which connections a step files.
LEMMA HandshakeFiles ==
    ASSUME FactoryType, TargetInv, NEW p \in Servers, Handshake(p), NEW r \in Servers
    PROVE  /\ target[p] \in Servers /\ target[p] < p
           /\ DOMAIN conns'[r] = DOMAIN conns[r] \cup (IF r = p THEN {target[p]} ELSE {})
<1>1. target[p] \in Servers /\ target[p] < p
    BY DEF Handshake, TargetInv, TargetOf, FactoryType
<1>2. conns'[r] = IF r = p THEN Inserted(conns[p], target[p], target[p]) ELSE conns[r]
    BY DEF Handshake, FactoryType
<1>3. CASE r = p
    BY <1>1, <1>2, <1>3 DEF Inserted
<1>4. CASE r # p
    BY <1>1, <1>2, <1>4
<1> QED
    BY <1>3, <1>4

LEMMA AcceptedFiles ==
    ASSUME IdsFit, FactoryType, QueueInv, NEW p \in Servers, Accepted(p), NEW r \in Servers
    PROVE  /\ accepting[p] \in Servers
           /\ Waits(accepting[p], p)
           /\ DOMAIN conns'[r] = DOMAIN conns[r] \cup (IF r = p THEN {accepting[p]} ELSE {})
<1>1. accepting[p] \in Servers /\ Waits(accepting[p], p)
    BY DEF Accepted, QueueInv, QueueOf, FactoryType
<1>2. conns'[r] = IF r = p THEN Inserted(conns[p], accepting[p], accepting[p]) ELSE conns[r]
    BY <1>1, AnnouncedFits DEF Accepted, FactoryType
<1>3. CASE r = p
    BY <1>1, <1>2, <1>3 DEF Inserted
<1>4. CASE r # p
    BY <1>1, <1>2, <1>4
<1> QED
    BY <1>3, <1>4

LEMMA StepQueue ==
    ASSUME IdsFit, FactoryType, TargetInv, QueueInv, StreamInv, [Next]_vars
    PROVE  QueueInv'
<1> SUFFICES ASSUME NEW r \in Servers PROVE QueueOf(r)'
    BY DEF QueueInv
<1>1. /\ QueueOf(r) /\ r \in Int /\ backlog[r] \in Seq(Servers)
      /\ accepting[r] \in Servers \cup {None}
      /\ Len(backlog[r]) \in Nat
      /\ \A i \in 1..Len(backlog[r]) : backlog[r][i] \in Servers
    BY ServersType DEF QueueInv, FactoryType
\* The queue stays, and nobody in it is filed.
<1>2. ASSUME backlog'[r] = backlog[r], accepting'[r] = accepting[r],
             \A q \in Servers : q > r /\ q \notin DOMAIN conns[r] => q \notin DOMAIN conns'[r]
      PROVE  QueueOf(r)'
    <2>1. ASSUME NEW q \in Servers, Waits(q, r) PROVE Waits(q, r)'
        BY <1>2, <2>1, WaitsStays DEF Waits
    <2> QED
        BY <1>1, <1>2, <2>1 DEF QueueOf
<1>3. ASSUME NEW p \in Servers, CloseListener(p), UNCHANGED conns PROVE QueueOf(r)'
    <2>1. CASE r = p
        <3>1. backlog'[r] = << >> /\ accepting'[r] = None
            BY <1>3, <2>1 DEF CloseListener, FactoryType
        <3> QED
            BY <3>1 DEF QueueOf
    <2>2. CASE r # p
        BY <1>2, <1>3, <2>2 DEF CloseListener, FactoryType
    <2> QED
        BY <2>1, <2>2
<1>4. ASSUME NEW p \in Servers, Leaving(p) PROVE QueueOf(r)'
    BY <1>3, <1>4, LeavingShape
<1>5. ASSUME NEW p \in Servers, AcceptPanic(p) \/ AcceptFails(p) PROVE QueueOf(r)'
    BY <1>3, <1>5 DEF AcceptPanic, AcceptFails
<1>6. ASSUME NEW p \in Servers, Connect(p) PROVE QueueOf(r)'
    <2>1. CASE r # target[p]
        BY <1>2, <1>6, <2>1 DEF Connect, FactoryType
    <2>2. CASE r = target[p]
        <3>1. /\ backlog'[r] = Append(backlog[r], p) /\ accepting'[r] = accepting[r]
              /\ UNCHANGED conns /\ target'[p] = r /\ pc'[p] = "handshake"
              /\ pc[p] = "connect" /\ r < p
            BY <1>6, <2>2 DEF Connect, FactoryType
        <3>2. p \in Int /\ p # None /\ r \in Int
            BY <1>1, ServersType
        <3>3. ~Waits(p, r)
            BY <2>2, <3>1, <3>2 DEF Waits
        <3>9. p \notin DOMAIN conns[r]
            <4>1. StreamOf(p, r)
                BY DEF StreamInv
            <4> QED
                BY <2>2, <3>1, <3>2, <4>1 DEF StreamOf
        <3>4. Waits(p, r)'
            BY <3>1, <3>9 DEF Waits
        <3>5. ASSUME NEW q \in Servers, Waits(q, r) PROVE Waits(q, r)'
            BY <3>1, <3>5, WaitsStays DEF Waits
        <3>6. /\ Len(backlog'[r]) = Len(backlog[r]) + 1
              /\ \A i \in 1..Len(backlog[r]) : backlog'[r][i] = backlog[r][i]
              /\ backlog'[r][Len(backlog[r]) + 1] = p
            BY <1>1, <3>1
        <3>7. accepting'[r] # None => Waits(accepting[r], r)'
            BY <1>1, <3>1, <3>5 DEF QueueOf
        <3>8. ASSUME NEW i \in 1..Len(backlog'[r])
              PROVE  /\ Waits(backlog[r][i], r)'
                     /\ backlog'[r][i] # accepting'[r]
                     /\ \A j \in 1..Len(backlog'[r]) :
                           backlog'[r][i] = backlog'[r][j] => i = j
            <4>1. CASE i = Len(backlog[r]) + 1
                BY <1>1, <3>1, <3>2, <3>3, <3>4, <3>6, <4>1 DEF QueueOf
            <4>2. CASE i # Len(backlog[r]) + 1
                <5>1. i \in 1..Len(backlog[r]) /\ backlog'[r][i] = backlog[r][i]
                    BY <1>1, <3>6, <4>2
                <5>2. /\ backlog[r][i] \in Servers /\ Waits(backlog[r][i], r)
                      /\ backlog[r][i] # accepting[r] /\ backlog[r][i] # p
                    BY <1>1, <3>3, <5>1 DEF QueueOf
                <5>3. ASSUME NEW q, q = backlog[r][i] PROVE Waits(q, r)'
                    BY <3>5, <5>2, <5>3
                <5>4. ASSUME NEW j \in 1..Len(backlog'[r]), backlog'[r][i] = backlog'[r][j]
                      PROVE  i = j
                    <6>1. j \in 1..Len(backlog[r]) \/ j = Len(backlog[r]) + 1
                        BY <1>1, <3>6
                    <6> QED
                        BY <1>1, <3>6, <5>1, <5>2, <5>4, <6>1 DEF QueueOf
                <5> QED
                    BY <3>1, <5>1, <5>2, <5>3, <5>4
            <4> QED
                BY <4>1, <4>2
        <3> QED
            BY <3>1, <3>7, <3>8 DEF QueueOf
    <2> QED
        BY <2>1, <2>2
<1>7. ASSUME NEW p \in Servers, Handshake(p) PROVE QueueOf(r)'
    <2>1. UNCHANGED <<backlog, accepting>>
        BY <1>7 DEF Handshake
    <2>2. ASSUME NEW q \in Servers, q > r, q \notin DOMAIN conns[r]
          PROVE  q \notin DOMAIN conns'[r]
        BY <1>1, <1>7, <2>2, HandshakeFiles, ServersType
    <2> QED
        BY <1>2, <2>1, <2>2
<1>8. ASSUME NEW p \in Servers, Accept(p) PROVE QueueOf(r)'
    <2>1. CASE r # p
        BY <1>2, <1>8, <2>1 DEF Accept, FactoryType
    <2>2. CASE r = p
        <3>1. /\ backlog[r] # << >> /\ UNCHANGED conns
              /\ accepting'[r] = Head(backlog[r]) /\ backlog'[r] = Tail(backlog[r])
            BY <1>8, <2>2 DEF Accept, FactoryType
        <3>2. /\ Len(backlog[r]) > 0
              /\ accepting'[r] = backlog[r][1]
              /\ Len(backlog'[r]) = Len(backlog[r]) - 1
              /\ \A i \in 1..Len(backlog'[r]) : backlog'[r][i] = backlog[r][i + 1]
            BY <1>1, <3>1
        <3>3. ASSUME NEW q \in Servers, Waits(q, r) PROVE Waits(q, r)'
            BY <3>1, <3>3, WaitsStays DEF Waits
        <3> QED
            <4>1. /\ \A i \in 1..Len(backlog[r]) : Waits(backlog[r][i], r)
                  /\ \A i, j \in 1..Len(backlog[r]) : backlog[r][i] = backlog[r][j] => i = j
                BY <1>1 DEF QueueOf
            <4>3. ASSUME NEW q, NEW i \in 1..Len(backlog[r]), q = backlog[r][i]
                  PROVE  Waits(q, r)'
                BY <1>1, <3>3, <4>1, <4>3
            <4>4. Waits(accepting[r], r)'
                BY <1>1, <3>2, <4>3
            <4>2. ASSUME NEW i \in 1..Len(backlog'[r])
                  PROVE  /\ Waits(backlog[r][i], r)'
                         /\ backlog'[r][i] # accepting'[r]
                         /\ \A j \in 1..Len(backlog'[r]) :
                               backlog'[r][i] = backlog'[r][j] => i = j
                <5>1. i + 1 \in 1..Len(backlog[r]) /\ backlog'[r][i] = backlog[r][i + 1]
                    BY <1>1, <3>2
                <5>2. Waits(backlog[r][i], r)'
                    BY <4>3, <5>1
                <5>3. 1 \in 1..Len(backlog[r]) /\ i + 1 # 1
                    BY <1>1, <3>2
                <5>4. backlog'[r][i] # accepting'[r]
                    BY <3>2, <4>1, <5>1, <5>3
                <5>5. ASSUME NEW j \in 1..Len(backlog'[r]), backlog'[r][i] = backlog'[r][j]
                      PROVE  i = j
                    <6>0. j \in 1..Len(backlog'[r]) /\ Len(backlog[r]) \in Nat
                        BY <1>1, <5>5
                    <6>1. j + 1 \in 1..Len(backlog[r]) /\ backlog'[r][j] = backlog[r][j + 1]
                        BY ONLY <3>2, <6>0
                    <6>2. backlog[r][i + 1] = backlog[r][j + 1]
                        BY <5>1, <5>5, <6>1
                    <6>3. i + 1 = j + 1
                        BY ONLY <4>1, <5>1, <6>1, <6>2
                    <6>4. i \in Int /\ j \in Int
                        BY <5>5
                    <6> QED
                        BY ONLY <6>3, <6>4
                <5> QED
                    BY <5>2, <5>4, <5>5
            <4> QED
                BY <4>2, <4>4 DEF QueueOf
    <2> QED
        BY <2>1, <2>2
<1>9. ASSUME NEW p \in Servers, Accepted(p) PROVE QueueOf(r)'
    <2>1. DOMAIN conns'[r] = DOMAIN conns[r] \cup (IF r = p THEN {accepting[p]} ELSE {})
        BY <1>9, AcceptedFiles
    <2>2. CASE r # p
        BY <1>2, <1>9, <2>1, <2>2 DEF Accepted, FactoryType
    <2>3. CASE r = p
        <3>1. accepting'[r] = None /\ backlog'[r] = backlog[r]
            BY <1>9, <2>3 DEF Accepted, FactoryType
        <3>2. ASSUME NEW q \in Servers, Waits(q, r), q # accepting[r] PROVE Waits(q, r)'
            BY <2>1, <2>3, <3>2, WaitsStays DEF Waits
        <3> QED
            BY <1>1, <3>1, <3>2, ServersType DEF QueueOf
    <2> QED
        BY <2>2, <2>3
<1>10. ASSUME NEW p \in Servers,
              \/ Listen(p) \/ Connected(p) \/ Ready(p) \/ Broadcast(p) \/ ReceiveAll(p)
       PROVE  QueueOf(r)'
    <2>1. UNCHANGED <<backlog, accepting, conns>>
        BY <1>10 DEF Listen, Connected, Ready, Broadcast, ReceiveAll
    <2> QED
        BY <1>2, <2>1
<1>11. CASE UNCHANGED vars
    BY <1>2, <1>11 DEF vars
<1> QED
    BY <1>4, <1>5, <1>6, <1>7, <1>8, <1>9, <1>10, <1>11, NextCases DEF Leaving

----------------------------------------------------------------------------
(* The streams.                                                            *)

LEMMA SharesAppended ==
    ASSUME NEW s \in Seq(Commands), NEW i \in {1, 2}, SharesFrom(s, i)
    PROVE  SharesFrom(Append(s, "Share"), i)
BY DEF SharesFrom, Commands

LEMMA SharesTail ==
    ASSUME NEW s \in Seq(Commands), s # << >>, SharesFrom(s, 2)
    PROVE  SharesFrom(Tail(s), 1)
<1>1. Len(s) \in Nat /\ Len(s) > 0 /\ Len(Tail(s)) = Len(s) - 1
    OBVIOUS
<1>2. \A i \in 1..Len(Tail(s)) : i + 1 \in 2..Len(s) /\ Tail(s)[i] = s[i + 1]
    BY <1>1
<1> QED
    BY <1>2 DEF SharesFrom

LEMMA SharesLater ==
    ASSUME NEW s \in Seq(Commands), SharesFrom(s, 1)
    PROVE  SharesFrom(s, 2)
<1>1. \A i \in 2..Len(s) : i \in 1..Len(s)
    OBVIOUS
<1> QED
    BY <1>1 DEF SharesFrom

LEMMA StepStream ==
    ASSUME IdsFit, FactoryType, TargetInv, ConnsInv, QueueInv, StreamInv, [Next]_vars
    PROVE  StreamInv'
<1> SUFFICES ASSUME NEW p \in Servers, NEW q \in Servers PROVE StreamOf(q, p)'
    BY DEF StreamInv
<1> DEFINE s == stream[<<q, p>>]
<1>1. /\ p \in Int /\ q \in Int /\ target[q] \in Int /\ <<q, p>> \in Links
      /\ s \in Seq(Commands)
    BY ServersType DEF FactoryType
<1>2. StreamOf(q, p)
    BY DEF StreamInv
<1> HIDE DEF s
\* The stream stays, and what StreamOf asks of its two ends.
<1>3. ASSUME s' = s, q > p => (q \in DOMAIN conns'[p] <=> q \in DOMAIN conns[p]),
             target'[q] > p <=> target[q] > p
      PROVE  StreamOf(q, p)'
    <2>1. pc[q] = "gone" => pc'[q] = "gone"
        BY TargetMoves
    <2> QED
        BY <1>2, <1>3, <2>1 DEF StreamOf, s
<1>4. ASSUME NEW r \in Servers, Handshake(r) PROVE StreamOf(q, p)'
    <2>1. /\ target[r] \in Servers /\ target[r] < r
          /\ DOMAIN conns'[p] = DOMAIN conns[p] \cup (IF p = r THEN {target[r]} ELSE {})
        BY <1>4, HandshakeFiles
    <2>2. stream' = [stream EXCEPT ![<<r, target[r]>>] = Append(@, "Handshake")]
        BY <1>4 DEF Handshake
    <2>3. target' = [target EXCEPT ![r] = @ + 1]
        BY <1>4 DEF Handshake
    <2>4. q > p => (q \in DOMAIN conns'[p] <=> q \in DOMAIN conns[p])
        BY <1>1, <2>1
    <2>5. CASE r = q /\ target[r] = p
        <3>1. q > p /\ target'[q] = p + 1 /\ target[q] = p
            BY <1>1, <2>1, <2>3, <2>5 DEF FactoryType
        <3>2. q \notin DOMAIN conns[p] /\ s = << >>
            BY <1>1, <1>2, <3>1 DEF StreamOf, s
        <3>3. s' = Append(s, "Handshake")
            BY <1>1, <2>2, <2>5 DEF FactoryType, s
        <3>4. s' = <<"Handshake">>
            BY <3>2, <3>3
        <3>5. Len(s') = 1 /\ s'[1] = "Handshake" /\ s' # << >>
            BY <3>4
        <3>6. SharesFrom(s, 2)'
            BY <3>5 DEF SharesFrom
        <3>7. q > p /\ q \notin DOMAIN conns'[p] /\ target'[q] > p
            BY <1>1, <2>4, <3>1, <3>2
        <3> QED
            BY <3>5, <3>6, <3>7 DEF StreamOf, s
    <2>6. CASE r = q /\ target[r] # p
        <3>1. <<r, target[r]>> # <<q, p>> /\ target'[q] = target[q] + 1
            BY <2>3, <2>6 DEF FactoryType
        <3>2. s' = s
            BY <1>1, <2>2, <3>1 DEF FactoryType, s
        <3>3. target'[q] > p <=> target[q] > p
            BY <1>1, <2>6, <3>1
        <3> QED
            BY <1>3, <2>4, <3>2, <3>3
    <2>7. CASE r # q
        <3>1. s' = s /\ target'[q] = target[q]
            BY <1>1, <2>2, <2>3, <2>7 DEF FactoryType, s
        <3> QED
            BY <1>3, <2>4, <3>1
    <2> QED
        BY <2>5, <2>6, <2>7
<1>5. ASSUME NEW r \in Servers, Accepted(r) PROVE StreamOf(q, p)'
    <2>1. /\ accepting[r] \in Servers /\ Waits(accepting[r], r)
          /\ DOMAIN conns'[p] = DOMAIN conns[p] \cup (IF p = r THEN {accepting[r]} ELSE {})
        BY <1>5, AcceptedFiles
    <2>2. /\ stream' = [stream EXCEPT ![<<accepting[r], r>>] = Tail(@)]
          /\ UNCHANGED target
          /\ Incoming(accepting[r], r) = "Handshake"
        BY <1>5 DEF Accepted
    <2>3. CASE r = p /\ accepting[r] = q
        <3>1. s # << >>
            BY <2>2, <2>3 DEF Incoming, s
        <3>2. q > p /\ q \notin DOMAIN conns[p]
            BY <2>1, <2>3 DEF Waits
        <3>3. target[q] > p /\ SharesFrom(s, 2)
            BY <1>2, <3>1, <3>2 DEF StreamOf, s
        <3>4. s' = Tail(s)
            BY <1>1, <2>2, <2>3 DEF FactoryType, s
        <3>5. SharesFrom(s', 1)
            BY <1>1, <3>1, <3>3, <3>4, SharesTail
        <3>6. q \in DOMAIN conns'[p] /\ target'[q] > p
            BY <2>1, <2>2, <2>3, <3>3
        <3> QED
            BY <3>5, <3>6 DEF StreamOf, s, SharesFrom
    <2>4. CASE r # p \/ accepting[r] # q
        <3>1. <<accepting[r], r>> # <<q, p>>
            BY <2>4
        <3>2. s' = s
            BY <1>1, <2>2, <3>1 DEF FactoryType, s
        <3>3. q \in DOMAIN conns'[p] <=> q \in DOMAIN conns[p]
            BY <2>1, <2>4
        <3> QED
            BY <1>3, <2>2, <3>2, <3>3
    <2> QED
        BY <2>3, <2>4
<1>6. ASSUME NEW r \in Servers, Broadcast(r) PROVE StreamOf(q, p)'
    <2>1. /\ pc[r] = "ready" /\ UNCHANGED <<target, conns>>
          /\ s' = IF q = r /\ p \in handler[r] THEN Append(s, "Share") ELSE s
        BY <1>1, <1>6 DEF Broadcast, s
    <2>2. CASE ~(q = r /\ p \in handler[r])
        BY <1>3, <2>1, <2>2
    <2>3. CASE q = r /\ p \in handler[r]
        <3>1. target[q] = q /\ pc[q] # "gone"
            BY <2>1, <2>3 DEF TargetInv, TargetOf, Running
        <3>2. s' = Append(s, "Share")
            BY <2>1, <2>3
        <3>3. CASE q > p /\ q \notin DOMAIN conns[p]
            <4>1. s # << >> /\ s[1] = "Handshake" /\ SharesFrom(s, 2)
                BY <1>2, <3>1, <3>3 DEF StreamOf, s
            <4>2. s' # << >> /\ s'[1] = "Handshake"
                BY <1>1, <3>2, <4>1
            <4>3. SharesFrom(s', 2)
                BY <1>1, <3>2, <4>1, SharesAppended
            <4>4. target'[q] > p /\ q \notin DOMAIN conns'[p]
                BY <2>1, <3>1, <3>3
            <4> QED
                BY <3>3, <4>2, <4>3, <4>4 DEF StreamOf, s, SharesFrom
        <3>4. CASE ~(q > p /\ q \notin DOMAIN conns[p])
            <4>1. SharesFrom(s, 1)
                BY <1>2, <3>4 DEF StreamOf, s
            <4>2. SharesFrom(s', 1)
                BY <1>1, <3>2, <4>1, SharesAppended
            <4>3. (q > p => target'[q] > p) /\ UNCHANGED conns
                BY <2>1, <3>1
            <4> QED
                BY <3>4, <4>2, <4>3 DEF StreamOf, s, SharesFrom
        <3> QED
            BY <3>3, <3>4
    <2> QED
        BY <2>2, <2>3
<1>7. ASSUME NEW r \in Servers, Read(r), UNCHANGED <<target, conns>> PROVE StreamOf(q, p)'
    <2>1. s' = IF p = r /\ q \in handler[r] /\ s # << >> THEN Tail(s) ELSE s
        BY <1>1, <1>7 DEF Read, s
    <2>2. CASE ~(p = r /\ q \in handler[r] /\ s # << >>)
        BY <1>3, <1>7, <2>1, <2>2
    <2>3. CASE p = r /\ q \in handler[r] /\ s # << >>
        <3>1. q \in DOMAIN conns[p]
            BY <2>3 DEF ConnsInv, ConnsOf
        <3>2. SharesFrom(s, 1) /\ (q > p => target[q] > p)
            BY <1>2, <3>1 DEF StreamOf, s
        <3>3. SharesFrom(s', 1)
            BY <1>1, <2>1, <2>3, <3>2, SharesLater, SharesTail
        <3> QED
            BY <1>7, <3>1, <3>2, <3>3 DEF StreamOf, s, SharesFrom
    <2> QED
        BY <2>2, <2>3
<1>8. ASSUME NEW r \in Servers, Crash(r) PROVE StreamOf(q, p)'
    <2>1. UNCHANGED <<target, conns>> /\ pc' = [pc EXCEPT ![r] = "gone"]
        BY <1>8 DEF Crash
    <2>2. /\ s' \in Seq(Commands) /\ Len(s') <= Len(s)
          /\ \A i \in 1..Len(s') : s'[i] = s[i]
          /\ q # r => s' = s
        BY <1>1, <1>8, CrashType DEF s
    <2>3. CASE q # r
        BY <1>3, <2>1, <2>2, <2>3
    <2>4. CASE q = r
        <3>1. pc'[q] = "gone"
            BY <2>1, <2>4 DEF FactoryType
        <3>2. \A i \in {1, 2} : SharesFrom(s, i) => SharesFrom(s', i)
            BY <1>1, <2>2 DEF SharesFrom
        <3>3. s' # << >> => s # << >> /\ s'[1] = s[1]
            BY <1>1, <2>2
        <3>4. CASE q > p /\ q \notin DOMAIN conns[p]
            <4>1. (s # << >> => s[1] = "Handshake" /\ target[q] > p) /\ SharesFrom(s, 2)
                BY <1>2, <3>4 DEF StreamOf, s
            <4> QED
                BY <2>1, <3>1, <3>2, <3>3, <3>4, <4>1 DEF StreamOf, s, SharesFrom
        <3>5. CASE ~(q > p /\ q \notin DOMAIN conns[p])
            <4>1. SharesFrom(s, 1) /\ (q > p => target[q] > p)
                BY <1>2, <3>5 DEF StreamOf, s
            <4> QED
                BY <2>1, <3>2, <3>5, <4>1 DEF StreamOf, s, SharesFrom
        <3> QED
            BY <3>4, <3>5
    <2> QED
        BY <2>3, <2>4
<1>9. ASSUME UNCHANGED <<target, conns, stream>> PROVE StreamOf(q, p)'
    BY <1>3, <1>9 DEF s
<1>10. ASSUME NEW r \in Servers, ReceiveAll(r) \/ ReceivePanic(r) PROVE StreamOf(q, p)'
    BY <1>7, <1>10 DEF ReceiveAll, ReceivePanic
<1>11. ASSUME NEW r \in Servers,
              \/ Listen(r) \/ Connect(r) \/ Refused(r) \/ Connected(r) \/ Ready(r)
              \/ Accept(r) \/ AcceptPanic(r) \/ AcceptFails(r)
       PROVE  StreamOf(q, p)'
    BY <1>9, <1>11
       DEF Listen, Connect, Refused, Connected, Ready, Accept, AcceptPanic, AcceptFails
<1>12. CASE UNCHANGED vars
    BY <1>9, <1>12 DEF vars
<1> QED
    BY <1>4, <1>5, <1>6, <1>8, <1>10, <1>11, <1>12, NextCases

----------------------------------------------------------------------------
(* What the invariant says about a handshake that is waited for.           *)

\* The accept loop at p waits for q: q is not filed, and no share precedes its
\* handshake.
LEMMA AwaitedHandshake ==
    ASSUME FactoryType, QueueInv, StreamInv, NEW p \in Servers, accepting[p] # None
    PROVE  /\ accepting[p] \in Servers /\ accepting[p] > p
           /\ accepting[p] \notin DOMAIN conns[p]
           /\ Incoming(accepting[p], p) # "Share"
           /\ Incoming(accepting[p], p) = "None" => pc[accepting[p]] = "gone"
<1> DEFINE q == accepting[p]
<1>1. q \in Servers /\ q > p /\ q \notin DOMAIN conns[p]
    BY DEF QueueInv, QueueOf, Waits, FactoryType
<1>2. stream[<<q, p>>] # << >> => stream[<<q, p>>][1] = "Handshake"
    BY <1>1 DEF StreamInv, StreamOf
<1>3. stream[<<q, p>>] \in Seq(Commands)
    BY <1>1, ServersType DEF FactoryType
<1>4. stream[<<q, p>>] # << >> => Head(stream[<<q, p>>]) = "Handshake"
    BY <1>2, <1>3
<1> HIDE DEF q
<1>5. Incoming(q, p) \in {"Handshake", "Pending"} \/ (Incoming(q, p) = "None" /\ pc[q] = "gone")
    <2>1. ~Dropped(q, p)
        BY <1>1, ServersType DEF Dropped
    <2> QED
        BY <1>4, <2>1 DEF Incoming
<1> QED
    BY <1>1, <1>5 DEF q

LEMMA EndsAreKeys ==
    ASSUME ConnsInv, NEW p \in Servers
    PROVE  Ends(conns[p]) = DOMAIN conns[p]
BY DEF ConnsInv, ConnsOf, Ends

LEMMA StepLoop ==
    ASSUME IdsFit, FactoryType, TargetInv, ConnsInv, QueueInv, StreamInv, LoopSurvives,
           ConnsInv', [Next]_vars
    PROVE  LoopSurvives'
<1>0. ASSUME NEW p \in Servers PROVE Ends(conns[p])' = DOMAIN conns'[p]
    BY DEF ConnsInv, ConnsOf, Ends
<1> SUFFICES ASSUME NEW p \in Servers, ~looping'[p], pc'[p] \notin {"off", "gone"},
                    p \notin erred'
             PROVE  \E q \in p + 1..NumServers - 1 :
                        pc'[q] = "gone" /\ q \notin DOMAIN conns'[p]
    BY <1>0 DEF LoopSurvives
<1>1. ASSUME NEW q \in p + 1..NumServers - 1
      PROVE  q \in Servers /\ q \in Int /\ q > p /\ p \in Int
    BY FactoryAssumption DEF Servers
<1>12. p \notin erred
    <2>1. ASSUME NEW r \in Servers, Leaving(r) PROVE erred \subseteq erred'
        BY <2>1 DEF Leaving, Refused, ReceivePanic, Crash
    <2>2. ASSUME NEW r \in Servers, Accept(r) \/ Accepted(r) \/ AcceptPanic(r) \/ AcceptFails(r)
          PROVE  erred \subseteq erred'
        BY <2>2 DEF Accept, Accepted, AcceptPanic, AcceptFails
    <2>3. ASSUME NEW r \in Servers, Listen(r) \/ Connect(r) \/ Handshake(r) \/ Connected(r)
          PROVE  erred \subseteq erred'
        BY <2>3 DEF Listen, Connect, Handshake, Connected
    <2>4. ASSUME NEW r \in Servers, Ready(r) \/ Broadcast(r) \/ ReceiveAll(r)
          PROVE  erred \subseteq erred'
        BY <2>4 DEF Ready, Broadcast, ReceiveAll
    <2> QED
        BY <2>1, <2>2, <2>3, <2>4, NextCases DEF Leaving, vars
\* The loop had ended before.
<1>2. ASSUME ~looping[p], pc[p] \notin {"off", "gone"},
             \A q \in Servers : q > p /\ q \notin DOMAIN conns[p] => q \notin DOMAIN conns'[p]
      PROVE  \E q \in p + 1..NumServers - 1 :
                 pc'[q] = "gone" /\ q \notin DOMAIN conns'[p]
    <2>1. PICK q \in p + 1..NumServers - 1 : pc[q] = "gone" /\ q \notin DOMAIN conns[p]
        BY <1>2, <1>12, EndsAreKeys DEF LoopSurvives
    <2>2. pc'[q] = "gone" /\ q \notin DOMAIN conns'[p]
        BY <1>1, <1>2, <2>1, TargetMoves
    <2> QED
        BY <2>2
<1> DEFINE Found == \E q \in p + 1..NumServers - 1 :
                        pc'[q] = "gone" /\ q \notin DOMAIN conns'[p]
<1> HIDE DEF Found
<1>3. ASSUME UNCHANGED <<looping, conns>>, pc[p] \notin {"off", "gone"} PROVE Found
    BY <1>2, <1>3 DEF Found
<1>4. ASSUME NEW r \in Servers, Listen(r) PROVE Found
    <2>1. r # p /\ looping'[p] = looping[p] /\ pc'[p] = pc[p] /\ UNCHANGED conns
        BY <1>4 DEF Listen, FactoryType
    <2> QED
        BY <1>2, <2>1 DEF Found
<1>5. ASSUME NEW r \in Servers, Leaving(r) PROVE Found
    <2>1. r # p /\ looping'[p] = looping[p] /\ pc'[p] = pc[p] /\ UNCHANGED conns
        BY <1>5, LeavingShape DEF CloseListener, FactoryType
    <2> QED
        BY <1>2, <2>1 DEF Found
<1>6. ASSUME NEW r \in Servers, Handshake(r) PROVE Found
    <2>1. UNCHANGED looping /\ pc[p] \notin {"off", "gone"}
        BY <1>6 DEF Handshake, FactoryType
    <2>2. ASSUME NEW q \in Servers, q > p, q \notin DOMAIN conns[p]
          PROVE  q \notin DOMAIN conns'[p]
        BY <1>6, <2>2, HandshakeFiles, ServersType
    <2> QED
        BY <1>2, <2>1, <2>2 DEF Found
<1>7. ASSUME NEW r \in Servers, Accepted(r) PROVE Found
    <2>1. UNCHANGED <<looping, pc>> /\ r # p
        BY <1>7 DEF Accepted
    <2>2. DOMAIN conns'[p] = DOMAIN conns[p]
        BY <1>7, <2>1, AcceptedFiles
    <2> QED
        BY <1>2, <2>1, <2>2 DEF Found
<1>8. ASSUME NEW r \in Servers, AcceptPanic(r) PROVE Found
    <2>1. UNCHANGED <<conns, pc>> /\ looping' = [looping EXCEPT ![r] = FALSE]
        BY <1>8 DEF AcceptPanic, CloseListener
    <2>2. CASE r # p
        <3>1. ~looping[p]
            BY <2>1, <2>2 DEF FactoryType
        <3> QED
            BY <1>2, <2>1, <3>1 DEF Found
    <2>3. CASE r = p
        <3>1. accepting[p] # None /\ Incoming(accepting[p], p) \notin {"Handshake", "Pending"}
            BY <1>8, <2>3 DEF AcceptPanic
        <3>2. stream[<<accepting[p], p>>] \in Seq(Commands)
            BY <3>1, AwaitedHandshake, ServersType DEF FactoryType
        <3>3. Incoming(accepting[p], p) \in {"Handshake", "Share", "None", "Pending"}
            BY <3>2 DEF Incoming, Commands
        <3>4. pc[accepting[p]] = "gone" /\ accepting[p] \notin DOMAIN conns[p]
              /\ accepting[p] \in Servers /\ accepting[p] > p
            BY <3>1, <3>3, AwaitedHandshake
        <3>5. accepting[p] \in p + 1..NumServers - 1
            BY <3>4, FactoryAssumption DEF Servers
        <3> QED
            BY <2>1, <3>4, <3>5 DEF Found
    <2> QED
        BY <2>2, <2>3
<1>9. ASSUME NEW r \in Servers,
             \/ Connect(r) \/ Connected(r) \/ Ready(r) \/ Broadcast(r) \/ ReceiveAll(r)
             \/ Accept(r)
      PROVE  Found
    <2>1. UNCHANGED <<looping, conns>>
        BY <1>9 DEF Connect, Connected, Ready, Broadcast, ReceiveAll, Accept
    <2>2. pc[p] \notin {"off", "gone"}
        BY <1>9 DEF Connect, Connected, Ready, Broadcast, ReceiveAll, Accept, FactoryType
    <2> QED
        BY <1>3, <2>1, <2>2
<1>10. ASSUME UNCHANGED vars PROVE Found
    BY <1>3, <1>10 DEF vars
\* The loop ends by an error, which is remembered: it is another server's.
<1>13. ASSUME NEW r \in Servers, AcceptFails(r) PROVE Found
    <2>1. r # p /\ looping' = [looping EXCEPT ![r] = FALSE] /\ UNCHANGED <<pc, conns>>
        BY <1>13 DEF AcceptFails, CloseListener
    <2>2. ~looping[p]
        BY <2>1 DEF FactoryType
    <2> QED
        BY <1>2, <2>1, <2>2 DEF Found
<1>11. Found
    BY <1>4, <1>5, <1>6, <1>7, <1>8, <1>9, <1>10, <1>13, NextCases DEF Leaving
<1> QED
    BY <1>11 DEF Found

----------------------------------------------------------------------------
(* The theorems.                                                           *)

LEMMA InitFactory == Init => FactoryInv
<1> SUFFICES ASSUME Init PROVE FactoryInv
    OBVIOUS
<1>1. FactoryType
    BY ServersType DEF Init, FactoryType
<1>2. TargetInv
    BY ServersType DEF Init, TargetInv, TargetOf, Running
<1>3. ConnsInv
    BY DEF Init, ConnsInv, ConnsOf, Running
<1>4. QueueInv
    BY DEF Init, QueueInv, QueueOf
<1>5. StreamInv
    <2> SUFFICES ASSUME NEW p \in Servers, NEW q \in Servers PROVE StreamOf(q, p)
        BY DEF StreamInv
    <2>1. stream[<<q, p>>] = << >> /\ target[q] = 0 /\ DOMAIN conns[p] = {}
        BY ServersType DEF Init
    <2>2. p \in Nat
        BY ServersType
    <2> QED
        BY <2>1, <2>2 DEF StreamOf, SharesFrom
<1>6. LoopSurvives
    BY DEF Init, LoopSurvives
<1> QED
    BY <1>1, <1>2, <1>3, <1>4, <1>5, <1>6 DEF FactoryInv

LEMMA StepFactory ==
    ASSUME IdsFit, FactoryInv, [Next]_vars
    PROVE  FactoryInv'
<1>1. ConnsInv'
    BY StepConns DEF FactoryInv
<1> QED
    BY <1>1, StepType, StepTarget, StepQueue, StepStream, StepLoop DEF FactoryInv

\* The inductive invariant of TcpConnectionFactory: where every server is with
\* its connects, what its connections map, its listener's queue and every
\* stream hold, and why an accept loop ended.  For any number of servers whose
\* ids fit a handshake, started in any order, with any deaths and accept errors.
THEOREM FactoryInvariance == IdsFit => (Spec => []FactoryInv)
<1> SUFFICES ASSUME IdsFit PROVE Spec => []FactoryInv
    OBVIOUS
<1>1. FactoryInv /\ [Next]_vars => FactoryInv'
    BY StepFactory
<1> QED
    BY <1>1, InitFactory, PTL DEF Spec

\* wait_till_ready only counts the connections, and get_handler leaves out the
\* server's own id: what it returns still reaches every peer.
THEOREM HandlersComplete == IdsFit => (Spec => []ReadyComplete)
<1> SUFFICES ASSUME IdsFit PROVE Spec => []ReadyComplete
    OBVIOUS
<1>1. FactoryInv => ReadyComplete
    BY DEF FactoryInv, ConnsInv, ConnsOf, ReadyComplete, Running
<1> QED
    BY <1>1, FactoryInvariance, PTL

\* The accept loop never takes a share for a handshake, and no connection of a
\* handler carries a handshake (handle_cmd would panic on it).
THEOREM HandshakesNeverMixed == IdsFit => (Spec => []HandshakesApart)
<1> SUFFICES ASSUME IdsFit PROVE Spec => []HandshakesApart
    OBVIOUS
<1>1. ASSUME FactoryInv PROVE HandshakesApart
    <2> SUFFICES ASSUME NEW p \in Servers, NEW q \in Servers
                 PROVE  /\ accepting[p] = q => Incoming(q, p) # "Share"
                        /\ q \in handler[p] =>
                              \A i \in 1..Len(stream[<<q, p>>]) : stream[<<q, p>>][i] = "Share"
        BY DEF HandshakesApart
    <2>1. accepting[p] = q => Incoming(q, p) # "Share"
        BY <1>1, AwaitedHandshake, ServersType DEF FactoryInv
    <2>2. q \in handler[p] => q \in DOMAIN conns[p]
        BY <1>1 DEF FactoryInv, ConnsInv, ConnsOf
    <2>3. q \in DOMAIN conns[p] => SharesFrom(stream[<<q, p>>], 1)
        BY <1>1 DEF FactoryInv, StreamInv, StreamOf
    <2> QED
        BY <2>1, <2>2, <2>3 DEF SharesFrom
<1> QED
    BY <1>1, FactoryInvariance, PTL

\* An accept loop that ended in a living server met an error of accept or
\* set_nodelay, or a server with a higher id died before its handshake was read.
\* No order of connects, handshakes and first shares ends one: the panics of
\* handle_new_listen_connection need a death.
THEOREM LoopsSurvive == IdsFit => (Spec => []LoopSurvives)
<1> SUFFICES ASSUME IdsFit PROVE Spec => []LoopSurvives
    OBVIOUS
<1>1. FactoryInv => LoopSurvives
    BY DEF FactoryInv
<1> QED
    BY <1>1, FactoryInvariance, PTL
=============================================================================

------------------------------ MODULE PrcQuery ------------------------------
(***************************************************************************)
(* One query at the level of its data: the client shares an index, the     *)
(* servers turn their shares into shared one-hot encodings with layers of  *)
(* AND gates, retrieve a shared record bit, convert index and record to    *)
(* arithmetic shares and commit to them, and server 0 signs the aggregate. *)
(*                                                                         *)
(* MpcRounds shows that the servers compute every round from messages of   *)
(* that round, so all servers take each step together here.                *)
(***************************************************************************)
EXTENDS SecretSharing, QueryPlan

CONSTANTS
    L1, L2,      \* bits of the two parts of an index: 2^L2 rows of 2^L1 bits
    PeerSeeds,   \* seeds of the correlated randomness; server p has seed s + p
    QuerySeeds,  \* seeds of the client's generator
    DbSeeds      \* seeds of the database

ASSUME QueryAssumption ==
    /\ L1 \in 3..MaxBits /\ L2 \in 1..L1   \* the assertions of from_seed
    /\ JoinAccepts(L1, L2)
    /\ PeerSeeds \subseteq Nat /\ QuerySeeds \subseteq Nat /\ DbSeeds \subseteq Nat
    /\ Order > 2^(L1 + L2)

IdxBits == L1 + L2

\* PRCDatabase::from_seed, bit l1 of row l2.
DbBit(seed, l1, l2) == DrawBit(seed, l2 * 2^L1 + l1)

\* What is dealt for one query, in bytes of triples.
Dealt == Provision(L1, L2, 1)

VARIABLES
    idx,       \* the index the client asks for
    seed,      \* the seeds in use: [peer, query, db]
    stage,     \* of prc_protocol: "ohe", "pir", "conv", "commit"; of the client
               \* with its token: "check0", "check1", "verify", "done", "panic"
    layer,     \* number of the layer that runs
    lstate,    \* its LayerState (of ConvLayer: "SendingDaBits" once blinded)
    size,      \* its current_size, in bytes
    ops,       \* its operations that are still to be executed
    and_data,  \* [Servers -> arrays x, y, z]
    beaver,    \* [Servers -> arrays a, b, c]
    prev,      \* [Servers -> output z of the layer that ran before]
    used,      \* bytes of triples taken
    pir,       \* [Servers -> level-1 answer and encoded l2 index], the PIR inputs
    rec,       \* [Servers -> share of the record bit]
    e,         \* [Servers -> blinded bits of the conversion]
    arith,     \* [Servers -> arithmetic shares of index and record]
    token      \* the PRCToken: what server 0 signed, and the commitment that the
               \* client has set, or <<>>

vars == <<idx, seed, stage, layer, lstate, size, ops, and_data, beaver, prev,
          used, pir, rec, e, arith, token>>
layerVars == <<layer, lstate, size, ops, and_data, beaver, prev, used>>
queryVars == <<idx, seed>>

----------------------------------------------------------------------------
(* The client.                                                             *)

Seeds == [p \in Servers |-> seed.peer + p]

\* idx_to_2dim.
IdxTo2Dim == <<idx % 2^L1, idx \div 2^L1>>

\* _query_index shares the two parts; a server joins its shares, l1 first.
IdxShare(p) ==
    JoinBoolean(ShareBoolean(IdxTo2Dim[1], L1, seed.query, 0)[p],
                ShareBoolean(IdxTo2Dim[2], L2, seed.query, N * L1)[p], L1)

\* _query_commit_rnd: the randomness of the commitment, and its shares.
CommitRnd == Draw(seed.query, N * IdxBits)
RndShare(p) == ShareArith(CommitRnd, seed.query, N * IdxBits + 1)[p]

\* Commitment::commit and aggregate: Pedersen commitments are binding and
\* additive, so a commitment is its opening.
Commit(rnd, i, resp) == [rnd |-> rnd, idx |-> i, resp |-> resp]

\* get_commitment: the commitment to a record value, from the client's state.
GetCommitment(rec_val) == Commit(CommitRnd, idx, rec_val)

----------------------------------------------------------------------------
(* The circuit of recursive_ohe_vec.  A node encodes the index bits        *)
(* lo..lo+len-1.  A node of one bit is an input, the others are the AND    *)
(* gates of their layer, with their low and high halves in the next level. *)
(* The nodes of a level cover different bits, and the recursion reaches    *)
(* them, and requests their tickets, in the order of these bits.           *)

Gates(nodes) == {n \in nodes : n.len > 1}

Split(n) == CeilDiv(n.len, 2)

Low(n) == [lo |-> n.lo, len |-> Split(n)]
High(n) == [lo |-> n.lo + Split(n), len |-> n.len - Split(n)]

\* The encodings that rec_retrieve asks for.
Root1 == [lo |-> 0, len |-> L1]
Root2 == [lo |-> L1, len |-> L2]

Level[k \in 0..MaxDepth] ==
    IF k = 0 THEN {Root1, Root2}
    ELSE UNION {{Low(n), High(n)} : n \in Gates(Level[k - 1])}

\* Mutant: a ticket always gets a byte more than its full bytes.
TicketBytesSpare(bits) == bits \div 8 + 1

\* Bytes reserved by request_ticket for a number of bits.
TicketBytes(bits) == CeilDiv(bits, 8)

\* Bytes of the tickets of these gates.
Bytes(gates) == SumFunction([n \in gates |-> TicketBytes(2^n.len)])

\* st_bit of the ticket of gate n of layer k.
Start(k, n) == 8 * Bytes({m \in Gates(Level[k]) : m.lo < n.lo})

\* The operations of layer k: the low half is repeated and each bit of the high
\* half is expanded.
Replicate(k, n) ==
    [op |-> "Replicate", n |-> 2^High(n).len, node |-> Low(n), stream |-> 0,
     st |-> Start(k, n)]
BitExpand(k, n) ==
    [op |-> "BitExpand", n |-> 2^Low(n).len, node |-> High(n), stream |-> 1,
     st |-> Start(k, n)]

OheOps(k) == UNION {{Replicate(k, n), BitExpand(k, n)} : n \in Gates(Level[k])}

\* MpcProvider::and of the two inputs of the second retrieval level.
PirOps ==
    {[op |-> "Copy", n |-> 1, node |-> Root2, stream |-> i, st |-> 0] : i \in 0..1}

\* read_output: the bits of a ticket, without the padding of its last byte.
ReadOutput(z, st, bits) == [j \in 0..bits - 1 |-> z[st + j]]

\* Mutant: every server flips the bit to negate it.
LeafFlippedByAll(p, lo) ==
    [j \in 0..1 |-> (IdxShare(p)[lo] + 1 - j) % 2]

\* The encoding of one bit: only the constant party negates.
Leaf(p, lo) ==
    [j \in 0..1 |-> (IdxShare(p)[lo] + (IF p = 0 THEN 1 - j ELSE 0)) % 2]

\* The array that node n of level k stands for at server p, with the output z
\* of that layer.
NodeData(p, k, n, z) ==
    IF n.len = 1 THEN Leaf(p, n.lo) ELSE ReadOutput(z, Start(k, n), 2^n.len)

\* extract_src_data for an operation of the layer that runs.
Source(p, o) ==
    IF stage = "pir" THEN pir[p][o.stream + 1]
    ELSE NodeData(p, layer + 1, o.node, prev[p])

Width(array) == Cardinality(DOMAIN array)

\* What an operation writes, from its destination's first bit on.
Written(o, data) ==
    [j \in 0..o.n * Width(data) - 1 |->
        IF o.op = "BitExpand" THEN data[j \div o.n] ELSE data[j % Width(data)]]

\* copy_from: the bits of src at at_bit, the others as they are.
CopyFrom(dest, at_bit, src) ==
    [j \in DOMAIN dest |->
        IF j - at_bit \in DOMAIN src THEN src[j - at_bit] ELSE dest[j]]

Layers == CHOOSE d \in 0..MaxDepth :
              /\ Gates(Level[d]) = {}
              /\ \A k \in 0..d - 1 : Gates(Level[k]) # {}

\* current_size when the ticketing of the layer ends.
LayerSize ==
    IF stage = "pir" THEN TicketBytes(2^L2) ELSE Bytes(Gates(Level[layer]))

Zeros(bytes) == [j \in 0..8 * bytes - 1 |-> 0]
NoData == [p \in Servers |-> << >>]

Init ==
    /\ idx \in 0..2^IdxBits - 1
    /\ seed \in [peer : PeerSeeds, query : QuerySeeds, db : DbSeeds]
    /\ stage = "ohe"
    /\ layer = Layers - 1
    /\ lstate = "Ticketing"
    /\ size = 0
    /\ ops = {}
    /\ and_data = NoData
    /\ beaver = NoData
    /\ prev = NoData
    /\ used = 0
    /\ pir = NoData
    /\ rec = NoData
    /\ e = NoData
    /\ arith = NoData
    /\ token = << >>

----------------------------------------------------------------------------
(* Layer::interact.                                                        *)

\* end_ticketing_phase: cleared inputs and the next triples.
EndTicketing ==
    /\ stage \in {"ohe", "pir"}
    /\ lstate = "Ticketing"
    /\ used + LayerSize <= Dealt.beaver
    /\ size' = LayerSize
    /\ ops' = IF stage = "pir" THEN PirOps ELSE OheOps(layer)
    /\ and_data' = [p \in Servers |->
                       [x |-> Zeros(LayerSize), y |-> Zeros(LayerSize),
                        z |-> Zeros(LayerSize)]]
    /\ beaver' = [p \in Servers |->
           LET t == [j \in 0..8 * LayerSize - 1 |->
                        Triple(Seeds, 8 * Dealt.beaver, p, 8 * used + j)]
           IN  [a |-> [j \in DOMAIN t |-> t[j].a],
                b |-> [j \in DOMAIN t |-> t[j].b],
                c |-> [j \in DOMAIN t |-> t[j].c]]]
    /\ used' = used + LayerSize
    /\ lstate' = "DataInitialized"
    /\ UNCHANGED <<queryVars, stage, layer, prev, pir, rec, e, arith, token>>

\* The operation that was added last.
AddedLast(o) ==
    \A q \in ops : q.st < o.st \/ (q.st = o.st /\ q.stream <= o.stream)

\* execute_operations: operations are popped, the last one first.
ExecOperation(o) ==
    LET new(p) == Written(o, Source(p, o)) IN
    /\ lstate = "DataInitialized"
    /\ AddedLast(o)
    /\ ops' = ops \ {o}
    /\ and_data' = [p \in Servers |->
           IF o.stream = 0
           THEN [and_data[p] EXCEPT !.x = CopyFrom(@, o.st, new(p))]
           ELSE [and_data[p] EXCEPT !.y = CopyFrom(@, o.st, new(p))]]
    /\ lstate' = IF ops = {o} THEN "OperationsExecuted" ELSE lstate
    /\ UNCHANGED <<queryVars, stage, layer, size, beaver, prev, used, pir, rec,
                   e, arith, token>>

Xored(u, v) == [j \in DOMAIN u |-> (u[j] + v[j]) % 2]

\* blind_and_with_beaver: a and b become u and v.
BlindAndWithBeaver ==
    /\ lstate = "OperationsExecuted"
    /\ beaver' = [p \in Servers |->
           [beaver[p] EXCEPT !.a = Xored(@, and_data[p].x),
                             !.b = Xored(@, and_data[p].y)]]
    /\ lstate' = "SendingBeaverShares"
    /\ UNCHANGED <<queryVars, stage, layer, size, ops, and_data, prev, used,
                   pir, rec, e, arith, token>>

\* send_beaver_shares, receive_beaver_shares and recons_beaver_uv.
ReconsBeaverUV ==
    LET u == Reconstruct(8 * size, [p \in Servers |-> beaver[p].a])
        v == Reconstruct(8 * size, [p \in Servers |-> beaver[p].b])
    IN
    /\ lstate = "SendingBeaverShares"
    /\ beaver' = [p \in Servers |-> [beaver[p] EXCEPT !.a = u, !.b = v]]
    /\ lstate' = "BeaverSharesReceived"
    /\ UNCHANGED <<queryVars, stage, layer, size, ops, and_data, prev, used,
                   pir, rec, e, arith, token>>

\* Mutant: every server adds the constant uv.
AndBitByAll(p, x, y, u, v, c) == (u * v + u * y + v * x + c) % 2

\* The output bit of a gate: uv is added by the constant party only.
AndBit(p, x, y, u, v, c) ==
    ((IF p = 0 THEN u * v ELSE 0) + u * y + v * x + c) % 2

\* finish_and_exchange.
FinishAndExchange ==
    /\ lstate = "BeaverSharesReceived"
    /\ and_data' = [p \in Servers |->
           LET d == and_data[p]
               t == beaver[p]
           IN  [d EXCEPT !.z = [j \in DOMAIN d.x |->
                   AndBit(p, d.x[j], d.y[j], t.a[j], t.b[j], t.c[j])]]]
    /\ lstate' = "Finished"
    /\ UNCHANGED <<queryVars, stage, layer, size, ops, beaver, prev, used, pir,
                   rec, e, arith, token>>

\* MpcProvider::run pops the next layer.
PopLayer ==
    /\ stage = "ohe"
    /\ lstate = "Finished"
    /\ layer > 0
    /\ layer' = layer - 1
    /\ lstate' = "Ticketing"
    /\ prev' = [p \in Servers |-> and_data[p].z]
    /\ and_data' = NoData
    /\ beaver' = NoData
    /\ UNCHANGED <<queryVars, stage, size, ops, used, pir, rec, e, arith, token>>

----------------------------------------------------------------------------
(* prc_protocol after the encoding.                                        *)

\* Mutant: rows are read where columns are meant.
Lvl1PirSwapped(ohe) ==
    [i \in 0..2^L2 - 1 |->
        SumFunction([j \in DOMAIN ohe |-> ohe[j] * DbBit(seed.db, i, j % 2^L2)]) % 2]

\* lvl1_pir_retrieve: the inner products of the encoding of l1 and the rows.
Lvl1PirRetrieve(ohe) ==
    [i \in 0..2^L2 - 1 |->
        SumFunction([j \in DOMAIN ohe |-> ohe[j] * DbBit(seed.db, j, i)]) % 2]

\* rec_retrieve between its two runs: get_output of both encodings, clear,
\* the level-1 retrieval, and the AND for the second level.
RecRetrieve ==
    LET ohe(p, n) == NodeData(p, 0, n, and_data[p].z) IN
    /\ stage = "ohe"
    /\ lstate = "Finished"
    /\ layer = 0
    /\ pir' = [p \in Servers |-> <<Lvl1PirRetrieve(ohe(p, Root1)), ohe(p, Root2)>>]
    /\ stage' = "pir"
    /\ lstate' = "Ticketing"
    /\ prev' = NoData
    /\ and_data' = NoData
    /\ beaver' = NoData
    /\ UNCHANGED <<queryVars, layer, size, ops, used, rec, e, arith, token>>

\* get_output and parity.  shrink_to_partial_last_byte changes bit_size only:
\* parity runs over the padding as well.
RecordShare ==
    /\ stage = "pir"
    /\ lstate = "Finished"
    /\ rec' = [p \in Servers |-> SumFunction(and_data[p].z) % 2]
    /\ stage' = "conv"
    /\ lstate' = "Ticketing"
    /\ and_data' = NoData
    /\ beaver' = NoData
    /\ UNCHANGED <<queryVars, layer, size, ops, prev, used, pir, e, arith, token>>

\* The bits that conv_b2a converts: the joined index, then the record.
ConvBits(p) ==
    [i \in 0..IdxBits |-> IF i < IdxBits THEN IdxShare(p)[i] ELSE rec[p]]

\* ConvLayer::interact up to the exchange: the bits blinded with daBits.
ConvBlind ==
    /\ stage = "conv"
    /\ lstate = "Ticketing"
    /\ IdxBits + 1 <= Dealt.dabit
    /\ e' = [p \in Servers |->
                [i \in 0..IdxBits |-> (ConvBits(p)[i] + DaBit(Seeds, p, i).r_z2) % 2]]
    /\ lstate' = "SendingDaBits"
    /\ UNCHANGED <<queryVars, stage, layer, size, ops, and_data, beaver, prev,
                   used, pir, rec, arith, token>>

\* One bit of the conversion: e + r - 2er, e added by the constant party.
ArithBit(p, blinded, r) ==
    r - 2 * blinded * r + (IF p = 0 THEN blinded ELSE 0)

\* The value of the bits lo..hi of the conversion, at server p.
ArithShare(p, opened, lo, hi) ==
    SumFunction([i \in lo..hi |->
        2^(i - lo) * ArithBit(p, opened[i], DaBit(Seeds, p, i).r_zp)]) % Order

\* The exchange and the rest of ConvLayer::interact.
ConvFinish ==
    LET opened == Reconstruct(IdxBits + 1, e) IN
    /\ stage = "conv"
    /\ lstate = "SendingDaBits"
    /\ arith' = [p \in Servers |->
           [idx |-> ArithShare(p, opened, 0, IdxBits - 1),
            rec |-> ArithShare(p, opened, IdxBits, IdxBits)]]
    /\ stage' = "commit"
    /\ UNCHANGED <<queryVars, layerVars, pir, rec, e, token>>

\* Mutant: server 0 leaves its own commitment out.
AggregateOthers ==
    /\ stage = "commit"
    /\ token' = [commitment |-> << >>,
                 sig |-> Commit(Total([p \in Servers \ {0} |-> RndShare(p)]),
                                Total([p \in Servers \ {0} |-> arith[p].idx]),
                                Total([p \in Servers \ {0} |-> arith[p].rec]))]
    /\ stage' = "check0"
    /\ UNCHANGED <<queryVars, layerVars, pir, rec, e, arith>>

\* Every server commits; server 0 aggregates all commitments and signs.
AggregateCommitments ==
    /\ stage = "commit"
    /\ token' = [commitment |-> << >>,
                 sig |-> Commit(Total([p \in Servers |-> RndShare(p)]),
                                Total([p \in Servers |-> arith[p].idx]),
                                Total([p \in Servers |-> arith[p].rec]))]
    /\ stage' = "check0"
    /\ UNCHANGED <<queryVars, layerVars, pir, rec, e, arith>>

----------------------------------------------------------------------------
(* The client with its token (run_server).                                 *)

Checks == [check0 |-> 0, check1 |-> 1]   \* the record value of each check

\* Mutant: a check that fails leaves no commitment behind.
CheckForRecValResetting ==
    LET commit == GetCommitment(Checks[stage]) IN
    /\ stage \in DOMAIN Checks
    /\ token' = [token EXCEPT !.commitment = IF commit = token.sig THEN commit ELSE << >>]
    /\ stage' = IF stage = "check0" THEN "check1" ELSE "verify"
    /\ UNCHANGED <<queryVars, layerVars, pir, rec, e, arith>>

\* check_for_rec_val for 0 and then for 1, whatever the first one says: the
\* commitment is set if the signature is one of it.
CheckForRecVal ==
    LET commit == GetCommitment(Checks[stage]) IN
    /\ stage \in DOMAIN Checks
    /\ token' = [token EXCEPT !.commitment = IF commit = token.sig THEN commit ELSE @]
    /\ stage' = IF stage = "check0" THEN "check1" ELSE "verify"
    /\ UNCHANGED <<queryVars, layerVars, pir, rec, e, arith>>

\* PRCToken::verify, which run_server asserts.
Verify ==
    /\ stage = "verify"
    /\ stage' = IF token.commitment # << >> /\ token.commitment = token.sig
                THEN "done" ELSE "panic"
    /\ UNCHANGED <<queryVars, layerVars, pir, rec, e, arith, token>>

Done ==
    /\ stage \in {"done", "panic"}
    /\ UNCHANGED vars

Next ==
    \/ EndTicketing \/ (\E o \in ops : ExecOperation(o)) \/ BlindAndWithBeaver \/ ReconsBeaverUV
    \/ FinishAndExchange \/ PopLayer
    \/ RecRetrieve \/ RecordShare
    \/ ConvBlind \/ ConvFinish \/ AggregateCommitments
    \/ CheckForRecVal \/ Verify
    \/ Done

Spec == Init /\ [][Next]_vars
----------------------------------------------------------------------------
(* Properties.                                                             *)

Opened(stream(_)) == Reconstruct(8 * size, [p \in Servers |-> stream(p)])

\* finish_and_exchange computes the AND of the shared inputs in every bit of
\* the layer.  In the padding bits, which no operation writes, the shares are
\* random but reconstruct to zero: parity relies on it.
GatesCorrect ==
    lstate = "Finished" =>
        LET x == Opened(LAMBDA p : and_data[p].x)
            y == Opened(LAMBDA p : and_data[p].y)
            z == Opened(LAMBDA p : and_data[p].z)
        IN  \A j \in 0..8 * size - 1 : z[j] = x[j] * y[j]

\* Reference: the one-hot encoding of the index bits a node covers.
OneHot(n) == [j \in 0..2^n.len - 1 |-> IF j = (idx \div 2^n.lo) % 2^n.len THEN 1 ELSE 0]

\* Every node of recursive_ohe_vec reconstructs to the one-hot encoding of its
\* part of the index: the replicated low and expanded high halves meet at the
\* right bits whatever the tickets, the padding and the order of operations.
OheCorrect ==
    lstate = "Finished" /\ stage = "ohe" =>
        \A n \in Level[layer] :
            Reconstruct(2^n.len, [p \in Servers |-> NodeData(p, layer, n, and_data[p].z)])
                = OneHot(n)

\* The bit of the database the client asked for (idx_to_2dim, get_record_bit).
Record == DbBit(seed.db, IdxTo2Dim[1], IdxTo2Dim[2])

\* rec_retrieve leaves the servers with shares of the record bit.
RecordCorrect ==
    stage \notin {"ohe", "pir"} => Xor(rec) = Record

\* conv_b2a turns the xor shares of index and record into additive shares of
\* the same values.
ConversionCorrect ==
    stage \notin {"ohe", "pir", "conv"} =>
        /\ Total([p \in Servers |-> arith[p].idx]) = idx
        /\ Total([p \in Servers |-> arith[p].rec]) = Record

\* The client can open the signed commitment to the record at its index, and
\* to no other value.
TokenOpensToRecord ==
    token # << >> => \A v \in 0..3 : GetCommitment(v) = token.sig <=> v = Record

\* Whatever the record is, and so whichever of its two checks fails, the client
\* ends with a token that verifies and whose commitment is to its record: the
\* assertion of run_server holds.
TokenVerifies ==
    /\ stage # "panic"
    /\ stage = "done" => token.commitment = GetCommitment(Record)

\* The layers take from the provider what QueryPlan, and with it the schedule
\* of MpcRounds, says: layer by layer, the same kind and the same amount.
PlanFollowed ==
    LET plan == PrcProtocol(L1, L2)
        ran == IF stage = "ohe" THEN Layers - layer ELSE Layers + 1
        needs == [i \in 1..Layers + 1 |-> plan[i].need]
    IN  /\ Len(plan) = Layers + 3
        /\ plan[Layers + 2].need = IdxBits + 1
        /\ lstate = "Finished" =>
               used = SumFunction([i \in 1..ran |-> needs[i]])

=============================================================================

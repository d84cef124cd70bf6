----------------------------- MODULE QueryPlan -----------------------------
(***************************************************************************)
(* The rounds that one query costs, and the correlated randomness that is  *)
(* dealt for it, as functions of the database dimensions: l1 and l2 are    *)
(* the bit lengths of the two parts of the index, so the database has      *)
(* 2^l2 rows of 2^l1 bits.                                                 *)
(***************************************************************************)
EXTENDS Integers, Sequences, Functions

CeilDiv(a, b) == (a + b - 1) \div b

\* Bit lengths for which the tables below are tabulated.
MaxBits == 26
MaxDepth == 5

\* Levels of AND gates below a one-hot encoding of b bits
\* (recursive_ohe_vec; one bit is encoded without interaction).
OheDepth[b \in 1..MaxBits] ==
    IF b = 1 THEN 0 ELSE 1 + OheDepth[CeilDiv(b, 2)]

\* Bytes of AND gates that the encoding of b bits requests from layer k: a
\* ticket of 2^b bits on its own layer, and what its two halves request one
\* layer deeper.
OheBytes[b \in 1..MaxBits] ==
    [k \in 0..MaxDepth |->
        IF b = 1 THEN 0
        ELSE IF k = 0 THEN CeilDiv(2^b, 8)
        ELSE OheBytes[CeilDiv(b, 2)][k - 1] + OheBytes[b - CeilDiv(b, 2)][k - 1]]

\* rec_retrieve encodes both index parts in the same layers, which
\* MpcProvider::run pops from the deepest to layer 0.
OheLayers(l1, l2) ==
    IF OheDepth[l1] > OheDepth[l2] THEN OheDepth[l1] ELSE OheDepth[l2]

OheRounds(l1, l2) ==
    LET depth == OheLayers(l1, l2) IN
    [i \in 1..depth |->
        [kind |-> "beaver",
         need |-> OheBytes[l1][depth - i] + OheBytes[l2][depth - i]]]

\* Mutant: the AND runs over two blocks of the size of the encoding.
PirRoundWide(l2) == [kind |-> "beaver", need |-> CeilDiv(2 * 2^l2, 8)]

\* The AND of the level-1 answer with the encoded l2 index.
PirRound(l2) == [kind |-> "beaver", need |-> CeilDiv(2^l2, 8)]

\* conv_b2a of the joined index and of the record bit.
ConvRound(l1, l2) == [kind |-> "dabit", need |-> l1 + l2 + 1]

CommitRound == [kind |-> "commit", need |-> 0]

\* The panic of recursive_ohe_vec for an index part without bits, and the one
\* of BooleanValue::new for a joined index that does not fit a u32.
OheAccepts(bits) == bits > 0
JoinAccepts(l1, l2) == l1 + l2 <= 32

\* prc_protocol, as the sequence of its interactions.
PrcProtocol(l1, l2) ==
    OheRounds(l1, l2) \o <<PirRound(l2), ConvRound(l1, l2), CommitRound>>

\* n calls of prc_protocol.
Session(l1, l2, n) ==
    LET one == PrcProtocol(l1, l2) IN
    [i \in 1..n * Len(one) |-> one[((i - 1) % Len(one)) + 1]]

\* Mutant: nothing is dealt for the padding of tickets.
ProvisionTight(l1, l2, n) ==
    [beaver |-> CeilDiv(n * (CeilDiv(5 * 2^l2, 2) + CeilDiv(3 * 2^l1, 2)), 8),
     dabit |-> n * 36,
     commit |-> 0]

\* init_seeded_correlated_randomness for n queries: bytes of triples
\* (2.5 l2 + 1.5 l1 + 96 bits a query) and daBits.
Provision(l1, l2, n) ==
    [beaver |->
        CeilDiv(n * (CeilDiv(5 * 2^l2, 2) + CeilDiv(3 * 2^l1, 2) + 3 * 32), 8),
     dabit |-> n * 36,
     commit |-> 0]
----------------------------------------------------------------------------
(* The budget.                                                             *)

\* Bits of AND gates in the encoding of b bits, without padding.
OheGateBits[b \in 1..MaxBits] ==
    IF b = 1 THEN 0
    ELSE 2^b + OheGateBits[CeilDiv(b, 2)] + OheGateBits[b - CeilDiv(b, 2)]

\* What the rounds of a schedule take of a kind.
TakenBy(schedule, kind) ==
    SumFunction([r \in DOMAIN schedule |->
                    IF schedule[r].kind = kind THEN schedule[r].need ELSE 0])
=============================================================================

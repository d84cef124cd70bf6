--------------------------- MODULE SecretSharing ---------------------------
(***************************************************************************)
(* Shares and correlated randomness.  A bit array is a function from       *)
(* 0..size-1 to {0, 1}; a sharing is a function from servers to shares,    *)
(* which reconstructs by xor (bits) or by addition modulo Order (scalars). *)
(***************************************************************************)
EXTENDS Integers, FiniteSetsExt

CONSTANTS
    N,         \* number of servers
    Order,     \* order of the scalar field of the commitments
    Rnd(_, _)  \* Rnd(seed, i): the i-th draw of the generator seeded with seed

ASSUME SharingAssumption == N \in Nat \ {0, 1} /\ Order \in Nat \ {0, 1}

Servers == 0..N - 1

\* inplace_xor over all shares.
Xor(share) == SumFunction(share) % 2

\* reconstruct of a sharing of bit arrays of the given size.
Reconstruct(size, share) ==
    [j \in 0..size - 1 |-> Xor([p \in Servers |-> share[p][j]])]

\* ArithValue::add over all shares.
Total(share) == SumFunction(share) % Order

Draw(seed, i) == Rnd(seed, i) % Order
DrawBit(seed, i) == Rnd(seed, i) % 2

\* secret_share_arith, with the draws of the generator after the first "at":
\* all shares but the last are drawn.
ShareArith(x, seed, at) ==
    LET drawn == [p \in 0..N - 2 |-> Draw(seed, at + p)]
    IN  [p \in Servers |->
            IF p < N - 1 THEN drawn[p] ELSE (x - Total(drawn)) % Order]

\* secret_share_boolean of the size-bit value x, as bit arrays.
ShareBoolean(x, size, seed, at) ==
    LET drawn == [p \in 0..N - 2 |->
                     [i \in 0..size - 1 |-> DrawBit(seed, at + p * size + i)]]
    IN  [p \in Servers |->
            IF p < N - 1 THEN drawn[p]
            ELSE [i \in 0..size - 1 |->
                     ((x \div 2^i) + Xor([q \in 0..N - 2 |-> drawn[q][i]])) % 2]]

\* join_boolean of a size-bit share and a share of higher bits.
JoinBoolean(lower, higher, size) ==
    [i \in 0..size + Cardinality(DOMAIN higher) - 1 |->
        IF i < size THEN lower[i] ELSE higher[i - size]]

----------------------------------------------------------------------------
(* Beaver triples: bit j of a, b and c.  D2BitArray::from_seed draws the   *)
(* three arrays, of "size" bits each, one after the other.                 *)

SeededTriple(seed, size, j) ==
    [a |-> DrawBit(seed, j), b |-> DrawBit(seed, size + j),
     c |-> DrawBit(seed, 2 * size + j)]

\* generate_as_dealer, at server 0: a and b are drawn, c completes the triple.
DealtTriple(seeds, size, j) ==
    LET own == SeededTriple(seeds[0], size, j)
        others == [p \in Servers \ {0} |-> SeededTriple(seeds[p], size, j)]
        a == own.a + Xor([p \in Servers \ {0} |-> others[p].a])
        b == own.b + Xor([p \in Servers \ {0} |-> others[p].b])
    IN  [a |-> own.a, b |-> own.b,
         c |-> (a * b + Xor([p \in Servers \ {0} |-> others[p].c])) % 2]

\* Server p's share of triple j.
Triple(seeds, size, p, j) ==
    IF p = 0 THEN DealtTriple(seeds, size, j) ELSE SeededTriple(seeds[p], size, j)

----------------------------------------------------------------------------
(* DaBits: a random bit shared both by xor and by addition.                *)

SeededDaBit(seed, i) ==
    [r_z2 |-> DrawBit(seed, 2 * i), r_zp |-> Draw(seed, 2 * i + 1)]

\* generate_as_dealer: the dealer draws the bit and subtracts the others.
DealtDaBit(seeds, i) ==
    LET val == DrawBit(seeds[0], i)
        others == [p \in Servers \ {0} |-> SeededDaBit(seeds[p], i)]
    IN  [r_z2 |-> (val + Xor([p \in Servers \ {0} |-> others[p].r_z2])) % 2,
         r_zp |-> (val - Total([p \in Servers \ {0} |-> others[p].r_zp])) % Order]

\* Mutant: the dealer keeps the bit it drew as its xor share.
DealtDaBitPlain(seeds, p, i) ==
    IF p # 0 THEN SeededDaBit(seeds[p], i)
    ELSE [r_z2 |-> DrawBit(seeds[0], i), r_zp |-> DealtDaBit(seeds, i).r_zp]

\* Server p's share of daBit i.
DaBit(seeds, p, i) ==
    IF p = 0 THEN DealtDaBit(seeds, i) ELSE SeededDaBit(seeds[p], i)
=============================================================================

--------------------------- MODULE PrcQueryProofs ---------------------------
(***************************************************************************)
(* The data of a query, proved for any number of servers, any database     *)
(* dimensions, seeds and index: what the servers hold after each round     *)
(* reconstructs to what the client asked for.                              *)
(***************************************************************************)
EXTENDS PrcQuery, Sums

----------------------------------------------------------------------------
(* Sharings.  The generator of the code, external to the model, is any     *)
(* function from seeds and positions to numbers.                           *)

Generator == \A s, i \in Nat : Rnd(s, i) \in Nat

\* The servers are a finite set, with the dealer.
LEMMA ServerSet ==
    /\ IsFiniteSet(Servers) /\ 0 \in Servers /\ N - 1 \in Servers
    /\ Servers \ {N - 1} = 0..N - 2
    /\ \A p \in Servers : p \in Nat
<1>1. IsFiniteSet(0..N - 1)
    BY SharingAssumption, FS_Interval
<1> QED
    BY <1>1, SharingAssumption DEF Servers

\* Xor and Total are sums over the domain of a sharing.
LEMMA XorOn ==
    ASSUME NEW f, NEW S, DOMAIN f = S
    PROVE  Xor(f) = SumOn(f, S) % 2 /\ Total(f) = SumOn(f, S) % Order
BY DEF Xor, Total, SumFunction, SumFunctionOnSet, FoldFunction, SumOn

\* Draws are naturals in their range.
LEMMA DrawTypes ==
    ASSUME Generator, NEW s \in Nat, NEW i \in Nat
    PROVE  DrawBit(s, i) \in 0..1 /\ Draw(s, i) \in 0..Order - 1
<1>1. Rnd(s, i) \in Nat
    BY DEF Generator
<1>2. Order \in Nat /\ Order > 0
    BY SharingAssumption
<1> QED
    BY <1>1, <1>2, ModDef DEF DrawBit, Draw

\* A share that makes up for the others.
LEMMA ModComplete ==
    ASSUME NEW x \in Int, NEW D \in Int, NEW m \in Nat, m > 0
    PROVE  (((x - (D % m)) % m) + D) % m = x % m
<1> DEFINE r == D % m
           k == D \div m
<1>1. r \in Int /\ k \in Int /\ D = m * k + r
    BY ModDef
<1> HIDE DEF r, k
<1>2. x - r \in Int
    BY <1>1
<1>3. (((x - r) % m) + D) % m = ((x - r) + D) % m
    BY <1>2, ModAdd
<1>4. (x - r) + D = x + m * k
    BY <1>1
<1>5. (x + m * k) % m = x % m
    BY <1>1, ModMultiple
<1> QED
    BY <1>3, <1>4, <1>5 DEF r

\* secret_share_arith: the shares add up to the value.
LEMMA ShareArithTotal ==
    ASSUME Generator, NEW x \in Int, NEW s \in Nat, NEW at \in Nat
    PROVE  /\ DOMAIN ShareArith(x, s, at) = Servers
           /\ \A p \in Servers : ShareArith(x, s, at)[p] \in Int
           /\ Total(ShareArith(x, s, at)) = x % Order
<1> DEFINE drawn == [p \in 0..N - 2 |-> Draw(s, at + p)]
           D == SumOn(drawn, 0..N - 2)
           f == ShareArith(x, s, at)
<1>1. Order \in Nat /\ Order > 0 /\ N \in Nat /\ N > 1
    BY SharingAssumption
<1>2. \A p \in 0..N - 2 : drawn[p] \in Int
    <2> SUFFICES ASSUME NEW p \in 0..N - 2 PROVE drawn[p] \in Int
        OBVIOUS
    <2>1. at + p \in Nat
        BY <1>1
    <2>2. Draw(s, at + p) \in Int
        BY <2>1, DrawTypes, <1>1
    <2> QED
        BY <2>2
<1>3. DOMAIN drawn = 0..N - 2 /\ IsFiniteSet(0..N - 2)
    BY <1>1, FS_Interval
<1>4. Total(drawn) = D % Order /\ D \in Int
    BY <1>2, <1>3, XorOn, SumInt
<1>5. /\ DOMAIN f = Servers
      /\ \A p \in 0..N - 2 : f[p] = drawn[p]
      /\ f[N - 1] = (x - (D % Order)) % Order
    <2>1. f = [p \in Servers |-> IF p < N - 1 THEN drawn[p] ELSE (x - Total(drawn)) % Order]
        BY DEF ShareArith
    <2> HIDE DEF f, drawn, D
    <2> QED
        BY <2>1, <1>1, <1>4 DEF Servers
<1> HIDE DEF f, drawn, D
<1>6. f[N - 1] \in Int
    <2>1. x - (D % Order) \in Int
        BY <1>1, <1>4
    <2> QED
        BY <2>1, <1>1, <1>5
<1>7. \A p \in Servers : f[p] \in Int
    BY <1>1, <1>2, <1>5, <1>6 DEF Servers
<1>8. SumOn(f, Servers) = f[N - 1] + SumOn(f, Servers \ {N - 1})
    BY <1>7, ServerSet, SumRemove
<1>9. SumOn(f, Servers \ {N - 1}) = SumOn(f, 0..N - 2)
    BY ServerSet, Zenon
<1>10. SumOn(f, 0..N - 2) = D
    BY <1>2, <1>3, <1>5, SumCong DEF D
<1>11. Total(f) = (f[N - 1] + D) % Order
    BY <1>5, <1>8, <1>9, <1>10, XorOn
<1>12. Total(f) = x % Order
    <2>1. (((x - (D % Order)) % Order) + D) % Order = x % Order
        BY <1>1, <1>4, ModComplete
    <2> QED
        BY <1>5, <1>11, <2>1
<1> QED
    BY <1>5, <1>7, <1>12 DEF f

\* A sum over the servers, without the last one and without the dealer.
LEMMA SumAtLast ==
    ASSUME NEW f, NEW g, \A p \in Servers : f[p] \in Int, \A p \in 0..N - 2 : g[p] = f[p]
    PROVE  /\ SumOn(g, 0..N - 2) \in Int
           /\ SumOn(f, Servers) = f[N - 1] + SumOn(g, 0..N - 2)
<1>1. SumOn(f, Servers) = f[N - 1] + SumOn(f, Servers \ {N - 1})
    BY ServerSet, SumRemove
<1>2. SumOn(f, Servers \ {N - 1}) = SumOn(f, 0..N - 2)
    BY ServerSet, Zenon
<1>3. IsFiniteSet(0..N - 2)
    BY SharingAssumption, FS_Interval
<1>4. \A p \in 0..N - 2 : f[p] \in Int /\ g[p] \in Int /\ g[p] = f[p]
    BY SharingAssumption DEF Servers
<1>5. SumOn(g, 0..N - 2) = SumOn(f, 0..N - 2)
    BY <1>3, <1>4, SumCong
<1>6. SumOn(g, 0..N - 2) \in Int
    BY <1>3, <1>4, SumInt
<1> QED
    BY <1>1, <1>2, <1>5, <1>6

\* A sum over all servers, with the dealer's share apart.
LEMMA SumAtDealer ==
    ASSUME NEW f, NEW g, \A p \in Servers : f[p] \in Int,
           \A p \in Servers \ {0} : g[p] = f[p]
    PROVE  /\ SumOn(g, Servers \ {0}) \in Int
           /\ SumOn(f, Servers) = f[0] + SumOn(g, Servers \ {0})
<1>1. SumOn(f, Servers) = f[0] + SumOn(f, Servers \ {0})
    BY ServerSet, SumRemove
<1>2. IsFiniteSet(Servers \ {0})
    BY ServerSet, FS_Subset
<1>3. \A p \in Servers \ {0} : f[p] \in Int /\ g[p] \in Int /\ g[p] = f[p]
    OBVIOUS
<1>4. SumOn(g, Servers \ {0}) = SumOn(f, Servers \ {0})
    BY <1>2, <1>3, SumCong
<1>5. SumOn(g, Servers \ {0}) \in Int
    BY <1>2, <1>3, SumInt
<1> QED
    BY <1>1, <1>4, <1>5

\* secret_share_boolean: the shares of a bit reconstruct to it.
LEMMA ShareBooleanXor ==
    ASSUME Generator, NEW x \in Nat, NEW bits \in 0..32, NEW s \in Nat, NEW at \in Nat
    PROVE  /\ \A p \in Servers : \A i \in 0..bits - 1 :
                  ShareBoolean(x, bits, s, at)[p][i] \in 0..1
           /\ \A p \in Servers : DOMAIN ShareBoolean(x, bits, s, at)[p] = 0..bits - 1
           /\ \A i \in 0..bits - 1 :
                  Xor([p \in Servers |-> ShareBoolean(x, bits, s, at)[p][i]])
                      = (x \div 2^i) % 2
<1> DEFINE drawn == [p \in 0..N - 2 |->
                        [i \in 0..bits - 1 |-> DrawBit(s, at + p * bits + i)]]
           last == [i \in 0..bits - 1 |->
                       ((x \div 2^i) + Xor([q \in 0..N - 2 |-> drawn[q][i]])) % 2]
           f == ShareBoolean(x, bits, s, at)
<1>1. f = [p \in Servers |-> IF p < N - 1 THEN drawn[p] ELSE last]
    BY DEF ShareBoolean
<1>2. N \in Nat /\ N > 1
    BY SharingAssumption
<1>3. \A p \in 0..N - 2 : \A i \in 0..bits - 1 : drawn[p][i] \in 0..1
    <2> SUFFICES ASSUME NEW p \in 0..N - 2, NEW i \in 0..bits - 1
                 PROVE  drawn[p][i] \in 0..1
        OBVIOUS
    <2>1. at + p * bits + i \in Nat
        BY <1>2
    <2>2. DrawBit(s, at + p * bits + i) \in 0..1
        BY <2>1, DrawTypes
    <2> QED
        BY <2>2
<1>4. \A p \in 0..N - 2 : DOMAIN drawn[p] = 0..bits - 1
    OBVIOUS
<1>5. DOMAIN last = 0..bits - 1
    OBVIOUS
<1>6. ASSUME NEW i \in 0..bits - 1
      PROVE  /\ last[i] \in 0..1
             /\ Xor([p \in Servers |-> f[p][i]]) = (x \div 2^i) % 2
    <2> DEFINE d == [q \in 0..N - 2 |-> drawn[q][i]]
               D == SumOn(d, 0..N - 2)
               b == x \div 2^i
               h == [p \in Servers |-> f[p][i]]
    <2>1. 2^i \in Nat \ {0}
        <3>1. i \in 0..32
            OBVIOUS
        <3> QED
            BY <3>1, PowerNat
    <2>2. b \in Int
        <3> DEFINE m == 2^i
        <3>1. m \in Nat /\ m > 0
            BY <2>1
        <3> HIDE DEF m
        <3> QED
            BY <3>1, ModDef DEF m
    <2>3. last[i] = (b + Xor(d)) % 2
        OBVIOUS
    <2>4. \A p \in 0..N - 2 : d[p] \in Int
        BY <1>3
    <2>5. DOMAIN d = 0..N - 2 /\ DOMAIN h = Servers
        OBVIOUS
    <2>6. h[N - 1] = last[i] /\ \A p \in 0..N - 2 : h[p] = d[p]
        <3> HIDE DEF drawn, last, f
        <3> QED
            BY <1>1, <1>2 DEF Servers
    <2> HIDE DEF d, D, b, h, last, f, drawn
    <2>7. D \in Int
        <3>1. IsFiniteSet(0..N - 2)
            BY <1>2, FS_Interval
        <3> QED
            BY <3>1, <2>4, SumInt DEF D
    <2>8. Xor(d) = D % 2
        BY <2>5, XorOn DEF D
    <2>9. last[i] \in 0..1 /\ last[i] = (b + (D % 2)) % 2
        BY <2>2, <2>3, <2>7, <2>8
    <2>10. \A p \in Servers : h[p] \in Int
        BY <2>4, <2>6, <2>9, <1>2 DEF Servers
    <2>11. SumOn(h, Servers) = h[N - 1] + SumOn(d, 0..N - 2)
        BY <2>6, <2>10, SumAtLast
    <2>12. Xor(h) = (last[i] + D) % 2
        BY <2>5, <2>6, <2>11, XorOn DEF D
    <2>13. Xor(h) = b % 2
        BY <2>2, <2>7, <2>9, <2>12
    <2> QED
        BY <2>9, <2>13 DEF h, b
<1>7. \A p \in Servers : \A i \in 0..bits - 1 : f[p][i] \in 0..1
    <2>1. \A i \in 0..bits - 1 : last[i] \in 0..1
        BY <1>6
    <2> HIDE DEF drawn, last, f
    <2> SUFFICES ASSUME NEW p \in Servers, NEW i \in 0..bits - 1
                 PROVE  f[p][i] \in 0..1
        OBVIOUS
    <2>2. CASE p < N - 1
        BY <1>1, <1>2, <1>3, <2>2 DEF Servers
    <2>3. CASE p = N - 1
        BY <1>1, <1>2, <2>1, <2>3 DEF Servers
    <2> QED
        BY <1>2, <2>2, <2>3 DEF Servers
<1>8. \A p \in Servers : DOMAIN f[p] = 0..bits - 1
    <2> HIDE DEF drawn, last, f
    <2> QED
        BY <1>1, <1>2, <1>4, <1>5 DEF Servers
<1> QED
    BY <1>6, <1>7, <1>8

\* The parity of a product is the product of the parities.
LEMMA ParityProduct ==
    ASSUME NEW a \in Int, NEW b \in Int
    PROVE  (a * b) % 2 = (a % 2) * (b % 2)
<1> DEFINE i == a \div 2
           j == b \div 2
           r == a % 2
           s == b % 2
<1>1. i \in Int /\ j \in Int /\ r \in {0, 1} /\ s \in {0, 1} /\ a = 2 * i + r /\ b = 2 * j + s
    OBVIOUS
<1> HIDE DEF i, j, r, s
<1>2. a * b = 2 * (2 * (i * j) + i * s + j * r) + r * s
    BY <1>1
<1> DEFINE k == 2 * (i * j) + i * s + j * r
           v == r * s
<1>3. k \in Int /\ v \in {0, 1}
    BY <1>1
<1>4. a * b = 2 * k + v
    BY <1>2
<1>5. (a * b) % 2 = v
    <2> DEFINE w == a * b
    <2>1. w \in Int /\ w = 2 * k + v
        BY <1>4
    <2> HIDE DEF w, k, v
    <2>2. w % 2 = v
        BY <2>1, <1>3
    <2> QED
        BY <2>2 DEF w
<1> QED
    BY <1>5 DEF r, s

\* generate_as_dealer: the triples of the servers multiply.
LEMMA TripleXor ==
    ASSUME Generator, NEW seeds \in [Servers -> Nat], NEW bits \in Nat, NEW j \in Nat
    PROVE  /\ \A p \in Servers : /\ Triple(seeds, bits, p, j).a \in 0..1
                                 /\ Triple(seeds, bits, p, j).b \in 0..1
                                 /\ Triple(seeds, bits, p, j).c \in 0..1
           /\ Xor([p \in Servers |-> Triple(seeds, bits, p, j).c])
                  = Xor([p \in Servers |-> Triple(seeds, bits, p, j).a])
                      * Xor([p \in Servers |-> Triple(seeds, bits, p, j).b])
<1> DEFINE S == [p \in Servers |-> SeededTriple(seeds[p], bits, j)]
           D == DealtTriple(seeds, bits, j)
           oa == [p \in Servers \ {0} |-> S[p].a]
           ob == [p \in Servers \ {0} |-> S[p].b]
           oc == [p \in Servers \ {0} |-> S[p].c]
           a == [p \in Servers |-> Triple(seeds, bits, p, j).a]
           b == [p \in Servers |-> Triple(seeds, bits, p, j).b]
           c == [p \in Servers |-> Triple(seeds, bits, p, j).c]
           A == SumOn(oa, Servers \ {0})
           B == SumOn(ob, Servers \ {0})
           C == SumOn(oc, Servers \ {0})
<1>1. \A p \in Servers : S[p].a \in 0..1 /\ S[p].b \in 0..1 /\ S[p].c \in 0..1
    <2> SUFFICES ASSUME NEW p \in Servers
                 PROVE  S[p].a \in 0..1 /\ S[p].b \in 0..1 /\ S[p].c \in 0..1
        OBVIOUS
    <2>1. seeds[p] \in Nat /\ j \in Nat /\ bits + j \in Nat /\ 2 * bits + j \in Nat
        OBVIOUS
    <2>2. /\ DrawBit(seeds[p], j) \in 0..1 /\ DrawBit(seeds[p], bits + j) \in 0..1
          /\ DrawBit(seeds[p], 2 * bits + j) \in 0..1
        BY <2>1, DrawTypes
    <2> QED
        BY <2>2 DEF SeededTriple
<1>2. /\ D.a = S[0].a
      /\ D.b = S[0].b
      /\ D.c = ((S[0].a + Xor(oa)) * (S[0].b + Xor(ob)) + Xor(oc)) % 2
    <2>1. /\ oa = [p \in Servers \ {0} |-> SeededTriple(seeds[p], bits, j).a]
          /\ ob = [p \in Servers \ {0} |-> SeededTriple(seeds[p], bits, j).b]
          /\ oc = [p \in Servers \ {0} |-> SeededTriple(seeds[p], bits, j).c]
        OBVIOUS
    <2>2. S[0] = SeededTriple(seeds[0], bits, j)
        BY ServerSet
    <2> HIDE DEF oa, ob, oc, S
    <2> QED
        BY <2>1, <2>2 DEF DealtTriple
<1>3. /\ a[0] = D.a /\ \A p \in Servers \ {0} : a[p] = S[p].a
      /\ b[0] = D.b /\ \A p \in Servers \ {0} : b[p] = S[p].b
      /\ c[0] = D.c /\ \A p \in Servers \ {0} : c[p] = S[p].c
    BY ServerSet DEF Triple
<1>4. \A p \in Servers \ {0} : oa[p] = S[p].a /\ ob[p] = S[p].b /\ oc[p] = S[p].c
    OBVIOUS
<1>5. /\ DOMAIN oa = Servers \ {0} /\ DOMAIN ob = Servers \ {0} /\ DOMAIN oc = Servers \ {0}
      /\ DOMAIN a = Servers /\ DOMAIN b = Servers /\ DOMAIN c = Servers
    OBVIOUS
<1> HIDE DEF S, D, oa, ob, oc, a, b, c
<1>6. IsFiniteSet(Servers \ {0})
    BY ServerSet, FS_Subset
<1>7. A \in Int /\ B \in Int /\ C \in Int
    <2>1. \A p \in Servers \ {0} : oa[p] \in Int /\ ob[p] \in Int /\ oc[p] \in Int
        BY <1>1, <1>4
    <2> QED
        BY <2>1, <1>6, SumInt
<1>8. Xor(oa) = A % 2 /\ Xor(ob) = B % 2 /\ Xor(oc) = C % 2
    BY <1>5, XorOn
<1> HIDE DEF A, B, C
<1>9. \A p \in Servers : a[p] \in 0..1 /\ b[p] \in 0..1
    BY <1>1, <1>2, <1>3, ServerSet
<1>10. D.c \in 0..1
    <2> DEFINE w == (S[0].a + Xor(oa)) * (S[0].b + Xor(ob)) + Xor(oc)
    <2>1. S[0].a \in Int /\ S[0].b \in Int /\ Xor(oa) \in Int /\ Xor(ob) \in Int /\ Xor(oc) \in Int
        BY <1>1, <1>7, <1>8, ServerSet
    <2>2. w \in Int
        BY <2>1
    <2> HIDE DEF w
    <2>3. w % 2 \in 0..1
        BY <2>2
    <2> QED
        BY <2>3, <1>2 DEF w
<1>11. \A p \in Servers : c[p] \in 0..1
    BY <1>1, <1>3, <1>10, ServerSet
<1>12. /\ SumOn(a, Servers) = a[0] + A
       /\ SumOn(b, Servers) = b[0] + B
       /\ SumOn(c, Servers) = c[0] + C
    <2>1. \A p \in Servers : a[p] \in Int /\ b[p] \in Int /\ c[p] \in Int
        BY <1>9, <1>11
    <2>2. \A p \in Servers \ {0} : oa[p] = a[p] /\ ob[p] = b[p] /\ oc[p] = c[p]
        BY <1>3, <1>4
    <2> QED
        BY <2>1, <2>2, SumAtDealer DEF A, B, C
<1>13. /\ Xor(a) = (a[0] + A) % 2
       /\ Xor(b) = (b[0] + B) % 2
       /\ Xor(c) = (c[0] + C) % 2
    BY <1>5, <1>12, XorOn
<1>14. Xor(c) = Xor(a) * Xor(b)
    <2> DEFINE u == a[0] + (A % 2)
               v == b[0] + (B % 2)
               w == u * v
    <2>1. u \in Int /\ v \in Int /\ w \in Int
        BY <1>7, <1>9, ServerSet
    <2>2. c[0] = (w + (C % 2)) % 2
        BY <1>2, <1>3, <1>8
    <2>3. w % 2 = (u % 2) * (v % 2)
        BY <2>1, ParityProduct
    <2>4. u % 2 = Xor(a) /\ v % 2 = Xor(b)
        BY <1>7, <1>9, <1>13, ServerSet
    <2> HIDE DEF u, v, w
    <2>5. Xor(c) = w % 2
        BY <2>1, <2>2, <1>7, <1>13
    <2> QED
        BY <2>3, <2>4, <2>5
<1>15. \A p \in Servers : /\ a[p] = Triple(seeds, bits, p, j).a
                          /\ b[p] = Triple(seeds, bits, p, j).b
                          /\ c[p] = Triple(seeds, bits, p, j).c
    BY DEF a, b, c
<1>16. \A p \in Servers : /\ Triple(seeds, bits, p, j).a \in 0..1
                          /\ Triple(seeds, bits, p, j).b \in 0..1
                          /\ Triple(seeds, bits, p, j).c \in 0..1
    BY <1>9, <1>11, <1>15
<1> QED
    BY <1>14, <1>16 DEF a, b, c

\* generate_as_dealer of daBits: both sharings are of the dealer's bit.
LEMMA DaBitShares ==
    ASSUME Generator, NEW seeds \in [Servers -> Nat], NEW i \in Nat
    PROVE  /\ \A p \in Servers : DaBit(seeds, p, i).r_z2 \in 0..1 /\ DaBit(seeds, p, i).r_zp \in Int
           /\ DrawBit(seeds[0], i) \in 0..1
           /\ Xor([p \in Servers |-> DaBit(seeds, p, i).r_z2]) = DrawBit(seeds[0], i)
           /\ SumOn([p \in Servers |-> DaBit(seeds, p, i).r_zp], Servers) % Order
                  = DrawBit(seeds[0], i) % Order
<1> DEFINE S == [p \in Servers |-> SeededDaBit(seeds[p], i)]
           D == DealtDaBit(seeds, i)
           val == DrawBit(seeds[0], i)
           o2 == [p \in Servers \ {0} |-> S[p].r_z2]
           op == [p \in Servers \ {0} |-> S[p].r_zp]
           z2 == [p \in Servers |-> DaBit(seeds, p, i).r_z2]
           zp == [p \in Servers |-> DaBit(seeds, p, i).r_zp]
           A == SumOn(o2, Servers \ {0})
           B == SumOn(op, Servers \ {0})
<1>1. Order \in Nat /\ Order > 0
    BY SharingAssumption
<1>2. val \in 0..1 /\ \A p \in Servers : S[p].r_z2 \in 0..1 /\ S[p].r_zp \in Int
    <2>1. \A p \in Servers : seeds[p] \in Nat /\ i \in Nat /\ 2 * i \in Nat /\ 2 * i + 1 \in Nat
        OBVIOUS
    <2>2. \A p \in Servers : /\ DrawBit(seeds[p], i) \in 0..1 /\ DrawBit(seeds[p], 2 * i) \in 0..1
                             /\ Draw(seeds[p], 2 * i + 1) \in 0..Order - 1
        BY <2>1, DrawTypes
    <2>3. \A p \in Servers : Draw(seeds[p], 2 * i + 1) \in Int
        BY <2>2, <1>1
    <2> QED
        BY <2>2, <2>3, ServerSet DEF SeededDaBit
<1>3. D.r_z2 = (val + Xor(o2)) % 2 /\ D.r_zp = (val - Total(op)) % Order
    <2>1. /\ o2 = [p \in Servers \ {0} |-> SeededDaBit(seeds[p], i).r_z2]
          /\ op = [p \in Servers \ {0} |-> SeededDaBit(seeds[p], i).r_zp]
        OBVIOUS
    <2> HIDE DEF o2, op
    <2> QED
        BY <2>1 DEF DealtDaBit
<1>4. /\ z2[0] = D.r_z2 /\ \A p \in Servers \ {0} : z2[p] = S[p].r_z2 /\ o2[p] = S[p].r_z2
      /\ zp[0] = D.r_zp /\ \A p \in Servers \ {0} : zp[p] = S[p].r_zp /\ op[p] = S[p].r_zp
    BY ServerSet DEF DaBit
<1>5. /\ DOMAIN o2 = Servers \ {0} /\ DOMAIN op = Servers \ {0}
      /\ DOMAIN z2 = Servers /\ DOMAIN zp = Servers
    OBVIOUS
<1>6. \A p \in Servers : z2[p] = DaBit(seeds, p, i).r_z2 /\ zp[p] = DaBit(seeds, p, i).r_zp
    OBVIOUS
<1> HIDE DEF S, D, val, o2, op, z2, zp
<1>7. A \in Int /\ B \in Int
    <2>1. \A p \in Servers \ {0} : o2[p] \in Int /\ op[p] \in Int
        BY <1>2, <1>4
    <2>2. IsFiniteSet(Servers \ {0})
        BY ServerSet, FS_Subset
    <2> QED
        BY <2>1, <2>2, SumInt
<1>8. Xor(o2) = A % 2 /\ Total(op) = B % Order
    BY <1>5, XorOn
<1>9. D.r_z2 \in 0..1 /\ D.r_zp \in Int
    <2>1. D.r_z2 \in 0..1
        BY <1>2, <1>3, <1>7, <1>8
    <2>2. val - (B % Order) \in Int
        BY <1>1, <1>2, <1>7
    <2>3. (val - (B % Order)) % Order \in Int
        BY <1>1, <2>2
    <2> QED
        BY <2>1, <2>3, <1>3, <1>8
<1>10. \A p \in Servers : z2[p] \in 0..1 /\ zp[p] \in Int
    BY <1>2, <1>4, <1>9
<1>11. SumOn(z2, Servers) = z2[0] + A /\ SumOn(zp, Servers) = zp[0] + B
    <2>1. \A p \in Servers : z2[p] \in Int /\ zp[p] \in Int
        BY <1>10
    <2>2. \A p \in Servers \ {0} : o2[p] = z2[p] /\ op[p] = zp[p]
        BY <1>4
    <2> QED
        BY <2>1, <2>2, SumAtDealer
<1>12. Xor(z2) = (z2[0] + A) % 2
    BY <1>5, <1>11, XorOn
<1> HIDE DEF A, B
<1>13. Xor(z2) = val
    BY <1>2, <1>3, <1>4, <1>7, <1>8, <1>12
<1>14. SumOn(zp, Servers) % Order = val % Order
    <2>1. val \in Int
        BY <1>2
    <2>2. (((val - (B % Order)) % Order) + B) % Order = val % Order
        BY <2>1, <1>1, <1>7, ModComplete
    <2> QED
        BY <2>2, <1>3, <1>4, <1>8, <1>11
<1> QED
    BY <1>2, <1>6, <1>10, <1>13, <1>14 DEF z2, zp, val

\* The constants as the proofs use them.
LEMMA Dims ==
    /\ L1 \in 3..26 /\ L2 \in 1..26 /\ L2 <= L1 /\ IdxBits = L1 + L2 /\ IdxBits \in 4..32
    /\ MaxBits = 26 /\ MaxDepth = 5
    /\ Order \in Nat /\ Order > 2^IdxBits /\ N \in Nat /\ N > 1
    /\ PeerSeeds \subseteq Nat /\ QuerySeeds \subseteq Nat /\ DbSeeds \subseteq Nat
BY QueryAssumption, SharingAssumption DEF IdxBits, MaxBits, MaxDepth, JoinAccepts

----------------------------------------------------------------------------
(* The circuit.                                                            *)

Children(L) == UNION {{Low(n), High(n)} : n \in Gates(L)}

\* The levels of the circuit, without the recursion.
LEMMA LevelDef ==
    /\ Level[0] = {Root1, Root2}
    /\ \A k \in 1..5 : Level[k] = Children(Level[k - 1])
<1> DEFINE L0 == {Root1, Root2}
           A == Children(L0)
           B == Children(A)
           C == Children(B)
           D == Children(C)
           E == Children(D)
           f == [k \in 0..5 |-> IF k = 0 THEN L0 ELSE IF k = 1 THEN A ELSE IF k = 2 THEN B
                                ELSE IF k = 3 THEN C ELSE IF k = 4 THEN D ELSE E]
           Step(g) == [k \in 0..5 |-> IF k = 0 THEN L0 ELSE Children(g[k - 1])]
<1>1. f = Step(f)
    <2>1. /\ f[0] = L0 /\ f[1] = A /\ f[2] = B /\ f[3] = C /\ f[4] = D /\ f[5] = E
        OBVIOUS
    <2>2. A = Children(L0) /\ B = Children(A) /\ C = Children(B) /\ D = Children(C)
          /\ E = Children(D)
        OBVIOUS
    <2>3. \A k \in 1..5 : f[k] = Children(f[k - 1])
        <3> HIDE DEF L0, A, B, C, D, E, f
        <3> SUFFICES ASSUME NEW k \in 1..5 PROVE f[k] = Children(f[k - 1])
            OBVIOUS
        <3>1. k = 1 \/ k = 2 \/ k = 3 \/ k = 4 \/ k = 5
            OBVIOUS
        <3>2. CASE k = 1
            BY <2>1, <2>2, <3>2
        <3>3. CASE k = 2
            BY <2>1, <2>2, <3>3
        <3>4. CASE k = 3
            BY <2>1, <2>2, <3>4
        <3>5. CASE k = 4
            BY <2>1, <2>2, <3>5
        <3>6. CASE k = 5
            BY <2>1, <2>2, <3>6
        <3> QED
            BY <3>1, <3>2, <3>3, <3>4, <3>5, <3>6
    <2>4. DOMAIN f = 0..5 /\ f = [k \in 0..5 |-> f[k]]
        OBVIOUS
    <2> HIDE DEF f, L0
    <2> QED
        BY <2>1, <2>3, <2>4
<1>2. Level = CHOOSE g : g = Step(g)
    BY DEF Level, Children, MaxDepth
<1>3. Level = Step(Level)
    <2> HIDE DEF f, Step
    <2> QED
        BY <1>1, <1>2
<1> QED
    BY <1>3

Node == [lo : Nat, len : Nat]

\* The nodes of a level: at most w bits each, and no bit twice.
Covers(L, w) ==
    /\ \A n \in L : n \in Node /\ n.len >= 1 /\ n.len <= w /\ n.lo + n.len <= IdxBits
    /\ \A n, m \in L : n = m \/ n.lo + n.len <= m.lo \/ m.lo + m.len <= n.lo

\* Both halves of a gate are nodes, at most half as long, rounded up.
LEMMA Halves ==
    ASSUME NEW n \in Node, n.len > 1
    PROVE  /\ Split(n) \in Nat /\ Split(n) >= 1 /\ Split(n) < n.len
           /\ Split(n) + Split(n) <= n.len + 1 /\ n.len <= Split(n) + Split(n)
           /\ Low(n) \in Node /\ Low(n).lo = n.lo /\ Low(n).len = Split(n)
           /\ High(n) \in Node /\ High(n).lo = n.lo + Split(n)
           /\ High(n).len = n.len - Split(n)
<1>1. n.lo \in Nat /\ n.len \in Nat /\ Split(n) = (n.len + 1) \div 2
    BY DEF Node, Split, CeilDiv
<1>2. /\ Split(n) \in Nat /\ Split(n) >= 1 /\ Split(n) < n.len
      /\ Split(n) + Split(n) <= n.len + 1 /\ n.len <= Split(n) + Split(n)
    BY <1>1
<1> QED
    BY <1>1, <1>2 DEF Node, Low, High

\* The children of a level cover its gates without overlap.
LEMMA ChildrenCover ==
    ASSUME NEW L, NEW w \in Nat, NEW v \in Nat, w + 1 <= v + v + 1, Covers(L, w)
    PROVE  Covers(Children(L), v)
<1>1. \A n \in Gates(L) :
          /\ n \in L /\ n \in Node /\ n.len > 1 /\ n.len <= w /\ n.lo + n.len <= IdxBits
          /\ n.lo \in Nat /\ n.len \in Nat
    BY DEF Gates, Covers, Node
<1>2. ASSUME NEW c \in Children(L)
      PROVE  \E n \in Gates(L) : c = Low(n) \/ c = High(n)
    BY DEF Children
<1>3. \A n \in Gates(L) :
          /\ Split(n) \in Nat /\ Split(n) >= 1 /\ Split(n) < n.len /\ Split(n) <= v
          /\ n.len - Split(n) <= v
          /\ Low(n) \in Node /\ Low(n).lo = n.lo /\ Low(n).len = Split(n)
          /\ High(n) \in Node /\ High(n).lo = n.lo + Split(n) /\ High(n).len = n.len - Split(n)
    <2> SUFFICES ASSUME NEW n \in Gates(L)
                 PROVE  /\ Split(n) \in Nat /\ Split(n) >= 1 /\ Split(n) < n.len /\ Split(n) <= v
                        /\ n.len - Split(n) <= v
                        /\ Low(n) \in Node /\ Low(n).lo = n.lo /\ Low(n).len = Split(n)
                        /\ High(n) \in Node /\ High(n).lo = n.lo + Split(n)
                        /\ High(n).len = n.len - Split(n)
        OBVIOUS
    <2>1. n \in Node /\ n.len > 1 /\ n.len <= w /\ n.len \in Nat
        BY <1>1
    <2>2. /\ Split(n) \in Nat /\ Split(n) >= 1 /\ Split(n) < n.len
          /\ Split(n) + Split(n) <= n.len + 1 /\ n.len <= Split(n) + Split(n)
          /\ Low(n) \in Node /\ Low(n).lo = n.lo /\ Low(n).len = Split(n)
          /\ High(n) \in Node /\ High(n).lo = n.lo + Split(n)
          /\ High(n).len = n.len - Split(n)
        BY <2>1, Halves
    <2>3. Split(n) <= v /\ n.len - Split(n) <= v
        BY <2>1, <2>2
    <2> QED
        BY <2>2, <2>3
<1>4. ASSUME NEW c \in Children(L)
      PROVE  c \in Node /\ c.len >= 1 /\ c.len <= v /\ c.lo + c.len <= IdxBits
    <2>1. PICK n \in Gates(L) : c = Low(n) \/ c = High(n)
        BY <1>2
    <2> QED
        BY <2>1, <1>1, <1>3, Dims
<1>5. ASSUME NEW c \in Children(L), NEW d \in Children(L)
      PROVE  c = d \/ c.lo + c.len <= d.lo \/ d.lo + d.len <= c.lo
    <2>1. PICK n \in Gates(L) : c = Low(n) \/ c = High(n)
        BY <1>2
    <2>2. PICK m \in Gates(L) : d = Low(m) \/ d = High(m)
        BY <1>2
    <2>3. n = m \/ n.lo + n.len <= m.lo \/ m.lo + m.len <= n.lo
        BY <1>1 DEF Covers
    <2>4. /\ c.lo >= n.lo /\ c.lo + c.len <= n.lo + n.len /\ c.lo \in Nat /\ c.len \in Nat
          /\ d.lo >= m.lo /\ d.lo + d.len <= m.lo + m.len /\ d.lo \in Nat /\ d.len \in Nat
        BY <2>1, <2>2, <1>1, <1>3 DEF Node
    <2>5. CASE n = m
        BY <2>1, <2>2, <2>5, <1>1, <1>3
    <2>6. CASE n # m
        BY <2>3, <2>4, <2>6, <1>1
    <2> QED
        BY <2>5, <2>6
<1> QED
    BY <1>4, <1>5 DEF Covers

\* The widest node of every level.
Widest == <<26, 13, 7, 4, 2, 1>>

\* Each level covers index bits without overlap, in nodes that get shorter.
LEMMA LevelCovers ==
    ASSUME NEW k \in 0..5
    PROVE  Covers(Level[k], Widest[k + 1])
<1>1. Widest[1] = 26 /\ Widest[2] = 13 /\ Widest[3] = 7 /\ Widest[4] = 4 /\ Widest[5] = 2
      /\ Widest[6] = 1
    BY DEF Widest
<1>2. Covers(Level[0], 26)
    <2>1. /\ Root1 \in Node /\ Root1.lo = 0 /\ Root1.len = L1
          /\ Root2 \in Node /\ Root2.lo = L1 /\ Root2.len = L2
        BY Dims DEF Root1, Root2, Node
    <2> QED
        BY <2>1, LevelDef, Dims DEF Covers
<1>3. /\ Level[1] = Children(Level[0]) /\ Level[2] = Children(Level[1])
      /\ Level[3] = Children(Level[2]) /\ Level[4] = Children(Level[3])
      /\ Level[5] = Children(Level[4])
    BY LevelDef
<1>4. Covers(Level[1], 13)
    BY <1>2, <1>3, ChildrenCover
<1>5. Covers(Level[2], 7)
    BY <1>4, <1>3, ChildrenCover
<1>6. Covers(Level[3], 4)
    BY <1>5, <1>3, ChildrenCover
<1>7. Covers(Level[4], 2)
    BY <1>6, <1>3, ChildrenCover
<1>8. Covers(Level[5], 1)
    BY <1>7, <1>3, ChildrenCover
<1>9. k = 0 \/ k = 1 \/ k = 2 \/ k = 3 \/ k = 4 \/ k = 5
    OBVIOUS
<1> QED
    BY <1>1, <1>2, <1>4, <1>5, <1>6, <1>7, <1>8, <1>9

\* The nodes of a level are within the index.
LEMMA Nodes ==
    ASSUME NEW k \in 0..5, NEW n \in Level[k]
    PROVE  /\ n \in Node /\ n.lo \in Nat /\ n.len \in 1..26 /\ n.lo + n.len <= IdxBits
           /\ 2^n.len \in Nat \ {0}
<1>1. Widest[k + 1] \in 1..26
    BY DEF Widest
<1>2. n \in Node /\ n.len >= 1 /\ n.len <= Widest[k + 1] /\ n.lo + n.len <= IdxBits
    BY LevelCovers DEF Covers
<1>3. n.lo \in Nat /\ n.len \in 1..26
    BY <1>1, <1>2 DEF Node
<1>4. n.len \in 0..32
    BY <1>3
<1>5. 2^n.len \in Nat \ {0}
    BY <1>4, PowerNat
<1> QED
    BY <1>2, <1>3, <1>5

\* Different nodes of a level have different first bits.
LEMMA Apart ==
    ASSUME NEW k \in 0..5, NEW n \in Level[k], NEW m \in Level[k], n # m
    PROVE  n.lo < m.lo \/ m.lo < n.lo
<1>1. n.lo + n.len <= m.lo \/ m.lo + m.len <= n.lo
    BY LevelCovers DEF Covers
<1>2. n.lo \in Nat /\ n.len \in 1..26 /\ m.lo \in Nat /\ m.len \in 1..26
    BY Nodes
<1> QED
    BY <1>1, <1>2

\* A level is a finite set.
LEMMA FiniteLevel ==
    ASSUME NEW k \in 0..5
    PROVE  IsFiniteSet(Level[k]) /\ IsFiniteSet(Gates(Level[k]))
<1> DEFINE f == [n \in Level[k] |-> n.lo]
<1>1. \A n \in Level[k] : n.lo \in 0..32
    <2> TAKE n \in Level[k]
    <2>1. n.lo \in Nat /\ n.len \in 1..26 /\ n.lo + n.len <= IdxBits
        BY Nodes
    <2> QED
        BY <2>1, Dims
<1>2. f \in [Level[k] -> 0..32]
    BY <1>1
<1>3. \A n, m \in Level[k] : f[n] = f[m] => n = m
    <2> SUFFICES ASSUME NEW n \in Level[k], NEW m \in Level[k], n # m PROVE n.lo # m.lo
        OBVIOUS
    <2>1. n.lo < m.lo \/ m.lo < n.lo
        BY Apart
    <2>2. n.lo \in Nat /\ m.lo \in Nat
        BY Nodes
    <2> QED
        BY <2>1, <2>2
<1>4. f \in Injection(Level[k], 0..32)
    BY <1>2, <1>3 DEF Injection, IsInjective
<1>5. IsFiniteSet(0..32)
    <2>1. 0 \in Int /\ 32 \in Int
        OBVIOUS
    <2> QED
        BY <2>1, FS_Interval, Zenon
<1>6. IsFiniteSet(Level[k])
    <2> HIDE DEF f
    <2> QED
        BY <1>4, <1>5, FS_Injection
<1>7. Gates(Level[k]) \in SUBSET Level[k]
    BY DEF Gates
<1> QED
    BY <1>6, <1>7, FS_Subset

\* Every layer but the deepest has gates.
LEMMA LayersDef ==
    /\ Layers \in 1..5
    /\ Gates(Level[Layers]) = {}
    /\ \A k \in 0..Layers - 1 : Gates(Level[k]) # {}
<1> DEFINE T == {k \in 0..5 : Gates(Level[k]) = {}}
<1>1. 5 \in T
    <2>1. Covers(Level[5], Widest[5 + 1]) /\ Widest[5 + 1] = 1
        BY LevelCovers DEF Widest
    <2>2. \A n \in Level[5] : n.len \in Nat /\ n.len <= 1
        BY <2>1 DEF Covers, Node
    <2> QED
        BY <2>2 DEF Gates
<1>2. T \in SUBSET Nat /\ T # {}
    BY <1>1
<1>3. PICK d \in T : \A k \in T : d <= k
    <2> HIDE DEF T
    <2> QED
        BY <1>2, SmallestNumber
<1>4. \E c \in 0..MaxDepth : /\ Gates(Level[c]) = {}
                             /\ \A k \in 0..c - 1 : Gates(Level[k]) # {}
    BY <1>3, Dims
<1>5. /\ Layers \in 0..5 /\ Gates(Level[Layers]) = {}
      /\ \A k \in 0..Layers - 1 : Gates(Level[k]) # {}
    BY <1>4, Dims DEF Layers
<1>6. Layers # 0
    <2>1. Root1 \in Gates(Level[0])
        BY LevelDef, Dims DEF Gates, Root1
    <2> QED
        BY <2>1, <1>5
<1> QED
    BY <1>5, <1>6

\* The halves of a gate are nodes of the next level.
LEMMA ChildIn ==
    ASSUME NEW k \in 0..4, NEW n \in Gates(Level[k])
    PROVE  Low(n) \in Level[k + 1] /\ High(n) \in Level[k + 1]
<1>1. k + 1 \in 1..5 /\ (k + 1) - 1 = k
    OBVIOUS
<1>2. Level[k + 1] = Children(Level[k])
    BY <1>1, LevelDef
<1> QED
    BY <1>2 DEF Children

----------------------------------------------------------------------------
(* The tickets of a layer.                                                 *)

\* A ticket has the bytes for its bits.
LEMMA TicketFacts ==
    ASSUME NEW b \in Nat
    PROVE  TicketBytes(b) \in Nat /\ b <= 8 * TicketBytes(b)
BY DEF TicketBytes, CeilDiv

TicketOf(k) == [n \in Level[k] |-> TicketBytes(2^n.len)]

\* The bytes of a set of gates, as a sum over all nodes of the level.
LEMMA BytesSum ==
    ASSUME NEW k \in 0..5, NEW G \in SUBSET Gates(Level[k])
    PROVE  /\ \A n \in Level[k] : TicketOf(k)[n] \in Nat
           /\ Bytes(G) = SumOn(TicketOf(k), G) /\ Bytes(G) \in Nat
           /\ IsFiniteSet(G)
<1>1. \A n \in Level[k] : TicketOf(k)[n] = TicketBytes(2^n.len) /\ TicketOf(k)[n] \in Nat
    <2> SUFFICES ASSUME NEW n \in Level[k]
                 PROVE  TicketOf(k)[n] = TicketBytes(2^n.len) /\ TicketBytes(2^n.len) \in Nat
        OBVIOUS
    <2>1. 2^n.len \in Nat
        BY Nodes
    <2>2. TicketBytes(2^n.len) \in Nat
        <3> DEFINE b == 2^n.len
        <3> HIDE DEF b
        <3>1. TicketBytes(b) \in Nat
            BY <2>1, TicketFacts DEF b
        <3> QED
            BY <3>1 DEF b
    <2> QED
        BY <2>2 DEF TicketOf
<1>2. IsFiniteSet(G) /\ G \in SUBSET Level[k]
    BY FiniteLevel, FS_Subset DEF Gates
<1> DEFINE f == [n \in G |-> TicketBytes(2^n.len)]
<1>3. Bytes(G) = SumOn(f, G)
    BY DEF Bytes, SumFunction, FoldFunction, SumOn, SumFunctionOnSet
<1>4. \A n \in G : TicketOf(k)[n] \in Int /\ f[n] = TicketOf(k)[n] /\ TicketOf(k)[n] \in Nat
    BY <1>1, <1>2
<1> HIDE DEF f
<1>5. SumOn(f, G) = SumOn(TicketOf(k), G)
    BY <1>2, <1>4, SumCong
<1>6. SumOn(TicketOf(k), G) \in Nat
    BY <1>2, <1>4, SumNat
<1> QED
    BY <1>1, <1>2, <1>3, <1>5, <1>6

\* The gates before n.
Before(k, n) == {m \in Gates(Level[k]) : m.lo < n.lo}

\* A ticket ends before the next one starts and before the layer ends.
LEMMA TicketEnd ==
    ASSUME NEW k \in 0..5, NEW n \in Gates(Level[k]), NEW G \in SUBSET Gates(Level[k]),
           n \in G, Before(k, n) \subseteq G
    PROVE  Start(k, n) \in Nat /\ Start(k, n) + 2^n.len <= 8 * Bytes(G)
<1>0. n \in Level[k]
    BY DEF Gates
<1> DEFINE f == TicketOf(k)
           b == Bytes(Before(k, n))
           c == Bytes(Before(k, n) \cup {n})
           t == TicketBytes(2^n.len)
<1>1. Before(k, n) \in SUBSET Gates(Level[k]) /\ n \notin Before(k, n)
    <2>1. n.lo \in Nat
        BY <1>0, Nodes
    <2> QED
        BY <2>1 DEF Before
<1>2. b \in Nat /\ b = SumOn(f, Before(k, n)) /\ \A m \in Level[k] : f[m] \in Nat
    BY <1>1, BytesSum
<1>3. Start(k, n) = 8 * b
    BY DEF Start, Before
<1> DEFINE H == Before(k, n) \cup {n}
<1>4. H \in SUBSET Gates(Level[k]) /\ H \in SUBSET G /\ n \in H /\ H \ {n} = Before(k, n)
      /\ H \in SUBSET Level[k] /\ G \in SUBSET Level[k]
    BY <1>1 DEF Gates
<1>5. IsFiniteSet(H) /\ IsFiniteSet(G) /\ Bytes(H) = SumOn(f, H) /\ Bytes(G) = SumOn(f, G)
      /\ Bytes(G) \in Nat
    BY <1>4, BytesSum
<1> HIDE DEF H, f
<1>6. SumOn(f, H) = f[n] + SumOn(f, H \ {n})
    <2>1. \A m \in H : f[m] \in Int
        BY <1>2, <1>4
    <2> QED
        BY <2>1, <1>4, <1>5, SumRemove
<1>7. SumOn(f, H \ {n}) = b
    BY <1>2, <1>4, Zenon
<1>8. SumOn(f, H) <= SumOn(f, G)
    <2>1. \A m \in G : f[m] \in Nat
        BY <1>2, <1>4
    <2> QED
        BY <2>1, <1>4, <1>5, SumMono
<1>9. f[n] = t /\ t \in Nat
    BY <1>0, <1>2 DEF f, TicketOf
<1>10. 2^n.len \in Nat /\ 2^n.len <= 8 * t
    <2>1. 2^n.len \in Nat
        BY <1>0, Nodes
    <2> DEFINE w == 2^n.len
    <2> HIDE DEF w
    <2>2. w <= 8 * TicketBytes(w)
        BY <2>1, TicketFacts DEF w
    <2> QED
        BY <2>1, <2>2 DEF w
<1> DEFINE w == 2^n.len
           g == Bytes(G)
<1>11. w \in Nat /\ w <= 8 * t /\ t + b <= g /\ g \in Nat
    BY <1>5, <1>6, <1>7, <1>8, <1>9, <1>10
<1> HIDE DEF w, t, b, g
<1>12. 8 * b + w <= 8 * g
    BY <1>2, <1>9, <1>11
<1> QED
    BY <1>2, <1>3, <1>12 DEF w, g

----------------------------------------------------------------------------
(* The operations of a layer.                                              *)

OpBits(o) == o.n * 2^o.node.len

Ops(stg, k) == IF stg = "pir" THEN PirOps ELSE OheOps(k)

SizeOf(stg, k) == IF stg = "pir" THEN TicketBytes(2^L2) ELSE Bytes(Gates(Level[k]))

\* The two inputs of gate n have the bits of its output.
LEMMA GateBits ==
    ASSUME NEW k \in 0..4, NEW n \in Gates(Level[k])
    PROVE  /\ n \in Level[k] /\ n \in Node /\ n.len > 1
           /\ Low(n).len \in 1..26 /\ High(n).len \in 1..26
           /\ Low(n).len + High(n).len = n.len
           /\ 2^Low(n).len \in Nat \ {0} /\ 2^High(n).len \in Nat \ {0}
           /\ 2^n.len = 2^Low(n).len * 2^High(n).len
           /\ 2^n.len = 2^High(n).len * 2^Low(n).len
<1>1. n \in Level[k] /\ n.len > 1
    BY DEF Gates
<1>2. n \in Node /\ n.len \in 1..26
    BY <1>1, Nodes
<1>3. Split(n) \in Nat /\ Split(n) >= 1 /\ Split(n) < n.len
      /\ Low(n).len = Split(n) /\ High(n).len = n.len - Split(n)
    BY <1>1, <1>2, Halves
<1> DEFINE a == Low(n).len
           b == High(n).len
<1>4. a \in 1..26 /\ b \in 1..26 /\ a + b = n.len /\ a + b <= 32
    BY <1>2, <1>3
<1> HIDE DEF a, b
<1>5. a \in 0..32 /\ b \in 0..32
    BY <1>4
<1>6. Two(a) \in Nat \ {0} /\ Two(b) \in Nat \ {0}
    BY <1>5, Powers
<1>7. Two(a + b) = Two(a) * Two(b)
    BY <1>4, PowerSum
<1>8. Two(n.len) = Two(a) * Two(b) /\ Two(n.len) = Two(b) * Two(a)
    BY <1>4, <1>6, <1>7
<1> QED
    BY <1>1, <1>2, <1>4, <1>6, <1>8 DEF a, b, Two

\* What an operation of an encoding layer is.
LEMMA OheOp ==
    ASSUME NEW k \in 0..4, NEW n \in Gates(Level[k]),
           NEW o \in {Replicate(k, n), BitExpand(k, n)}
    PROVE  /\ o.st = Start(k, n) /\ o.node \in Level[k + 1] /\ o.n \in Nat \ {0}
           /\ o.stream \in {0, 1} /\ OpBits(o) = 2^n.len
           /\ o.stream = 0 => o = Replicate(k, n)
           /\ o.stream = 1 => o = BitExpand(k, n)
<1>1. Low(n) \in Level[k + 1] /\ High(n) \in Level[k + 1]
    BY ChildIn
<1>2. /\ 2^Low(n).len \in Nat \ {0} /\ 2^High(n).len \in Nat \ {0}
      /\ 2^n.len = 2^Low(n).len * 2^High(n).len
      /\ 2^n.len = 2^High(n).len * 2^Low(n).len
    BY GateBits
<1>3. CASE o = Replicate(k, n)
    <2>1. /\ o.st = Start(k, n) /\ o.node = Low(n) /\ o.n = 2^High(n).len
          /\ o.stream = 0
        BY <1>3 DEF Replicate
    <2> QED
        BY <2>1, <1>1, <1>2, <1>3 DEF OpBits
<1>4. CASE o = BitExpand(k, n)
    <2>1. /\ o.st = Start(k, n) /\ o.node = High(n) /\ o.n = 2^Low(n).len
          /\ o.stream = 1
        BY <1>4 DEF BitExpand
    <2> QED
        BY <2>1, <1>1, <1>2, <1>4 DEF OpBits
<1> QED
    BY <1>3, <1>4

\* What an operation of the retrieval layer is.
LEMMA PirOp ==
    ASSUME NEW o \in PirOps
    PROVE  /\ o.st = 0 /\ o.node = Root2 /\ o.n = 1 /\ o.stream \in {0, 1} /\ o.op = "Copy"
           /\ OpBits(o) = 2^L2 /\ 2^L2 \in Nat \ {0} /\ o.node.len = L2
<1>1. PICK i \in 0..1 : o = [op |-> "Copy", n |-> 1, node |-> Root2, stream |-> i, st |-> 0]
    BY DEF PirOps
<1>2. o.st = 0 /\ o.node = Root2 /\ o.n = 1 /\ o.stream \in {0, 1} /\ o.op = "Copy"
    BY <1>1
<1>3. o.node.len = L2
    BY <1>2 DEF Root2
<1>4. L2 \in 0..32
    BY Dims
<1>5. 2^L2 \in Nat \ {0}
    BY <1>4, PowerNat
<1>6. OpBits(o) = 2^L2
    <2> DEFINE w == 2^L2
    <2>1. OpBits(o) = 1 * w /\ w \in Nat
        BY <1>2, <1>3, <1>5 DEF OpBits
    <2> HIDE DEF w
    <2>2. OpBits(o) = w
        BY <2>1
    <2> QED
        BY <2>2 DEF w
<1> QED
    BY <1>2, <1>3, <1>5, <1>6

\* An operation writes within the layer.
LEMMA OpFits ==
    ASSUME NEW stg, NEW k \in 0..4, NEW o \in Ops(stg, k)
    PROVE  /\ o.st \in Nat /\ o.stream \in {0, 1} /\ o.n \in Nat \ {0}
           /\ 2^o.node.len \in Nat \ {0} /\ OpBits(o) \in Nat
           /\ SizeOf(stg, k) \in Nat
           /\ o.st + OpBits(o) <= 8 * SizeOf(stg, k)
<1>1. CASE stg = "pir"
    <2>1. o \in PirOps /\ SizeOf(stg, k) = TicketBytes(2^L2)
        BY <1>1 DEF Ops, SizeOf
    <2>2. /\ o.st = 0 /\ o.node = Root2 /\ o.n = 1 /\ o.stream \in {0, 1}
          /\ OpBits(o) = 2^L2 /\ 2^L2 \in Nat \ {0} /\ o.node.len = L2
        BY <2>1, PirOp
    <2> DEFINE w == 2^L2
    <2>3. w \in Nat \ {0} /\ OpBits(o) = w /\ SizeOf(stg, k) = TicketBytes(w) /\ 2^o.node.len = w
        BY <2>1, <2>2
    <2> HIDE DEF w
    <2>4. TicketBytes(w) \in Nat /\ w <= 8 * TicketBytes(w)
        BY <2>3, TicketFacts
    <2> QED
        BY <2>2, <2>3, <2>4
<1>2. CASE stg # "pir"
    <2>1. o \in OheOps(k) /\ SizeOf(stg, k) = Bytes(Gates(Level[k]))
        BY <1>2 DEF Ops, SizeOf
    <2>2. PICK n \in Gates(Level[k]) : o \in {Replicate(k, n), BitExpand(k, n)}
        BY <2>1 DEF OheOps
    <2>3. /\ o.st = Start(k, n) /\ o.node \in Level[k + 1] /\ o.n \in Nat \ {0}
          /\ o.stream \in {0, 1} /\ OpBits(o) = 2^n.len
        BY <2>2, OheOp
    <2>4. k + 1 \in 0..5 /\ k \in 0..5
        OBVIOUS
    <2>5. 2^o.node.len \in Nat \ {0}
        BY <2>3, <2>4, Nodes
    <2>6. 2^n.len \in Nat \ {0}
        BY <2>4, Nodes DEF Gates
    <2>7. Start(k, n) \in Nat /\ Start(k, n) + 2^n.len <= 8 * Bytes(Gates(Level[k]))
        <3> DEFINE G == Gates(Level[k])
        <3>1. G \in SUBSET Gates(Level[k]) /\ n \in G /\ Before(k, n) \subseteq G
            BY DEF Before
        <3> HIDE DEF G
        <3>2. Start(k, n) \in Nat /\ Start(k, n) + 2^n.len <= 8 * Bytes(G)
            BY <2>4, <3>1, TicketEnd
        <3> QED
            BY <3>2 DEF G
    <2>8. Bytes(Gates(Level[k])) \in Nat
        BY <2>4, BytesSum
    <2> QED
        BY <2>1, <2>3, <2>5, <2>6, <2>7, <2>8
<1> QED
    BY <1>1, <1>2

\* Operations on the same stream do not overlap.
LEMMA OpsApart ==
    ASSUME NEW stg, NEW k \in 0..4, NEW o \in Ops(stg, k), NEW q \in Ops(stg, k),
           o # q, o.stream = q.stream
    PROVE  o.st + OpBits(o) <= q.st \/ q.st + OpBits(q) <= o.st
<1>1. CASE stg = "pir"
    <2>1. o \in PirOps /\ q \in PirOps
        BY <1>1 DEF Ops
    <2> QED
        BY <2>1 DEF PirOps
<1>2. CASE stg # "pir"
    <2>0. k \in 0..5
        OBVIOUS
    <2>1. o \in OheOps(k) /\ q \in OheOps(k)
        BY <1>2 DEF Ops
    <2>2. PICK n \in Gates(Level[k]) : o \in {Replicate(k, n), BitExpand(k, n)}
        BY <2>1 DEF OheOps
    <2>3. PICK m \in Gates(Level[k]) : q \in {Replicate(k, m), BitExpand(k, m)}
        BY <2>1 DEF OheOps
    <2>4. /\ o.st = Start(k, n) /\ OpBits(o) = 2^n.len /\ o.stream \in {0, 1}
          /\ o.stream = 0 => o = Replicate(k, n)
          /\ o.stream = 1 => o = BitExpand(k, n)
        BY <2>2, OheOp
    <2>5. /\ q.st = Start(k, m) /\ OpBits(q) = 2^m.len
          /\ q.stream = 0 => q = Replicate(k, m)
          /\ q.stream = 1 => q = BitExpand(k, m)
        BY <2>3, OheOp
    <2>6. n # m
        BY <2>4, <2>5
    <2>7. n.lo < m.lo \/ m.lo < n.lo
        BY <2>0, <2>6, Apart DEF Gates
    <2>8. \A g \in Gates(Level[k]) : g.lo \in Nat
        BY <2>0, Nodes DEF Gates
    <2>9. ASSUME NEW u \in Gates(Level[k]), NEW v \in Gates(Level[k]), u.lo < v.lo
          PROVE  Start(k, u) + 2^u.len <= Start(k, v)
        <3> DEFINE G == Before(k, v)
        <3>1. G \in SUBSET Gates(Level[k]) /\ u \in G /\ Before(k, u) \subseteq G
            BY <2>8, <2>9 DEF Before
        <3>2. Start(k, v) = 8 * Bytes(G)
            BY DEF Start, Before
        <3> HIDE DEF G
        <3>3. Start(k, u) + 2^u.len <= 8 * Bytes(G)
            BY <2>0, <3>1, TicketEnd
        <3> QED
            BY <3>2, <3>3
    <2> QED
        BY <2>4, <2>5, <2>7, <2>9
<1> QED
    BY <1>1, <1>2

----------------------------------------------------------------------------
(* The bits of the index and their one-hot encodings.                      *)

\* A low bit of a number is one of its remainder.
LEMMA LowBit ==
    ASSUME NEW x \in Nat, NEW A \in Nat \ {0}, NEW C \in Nat \ {0}
    PROVE  ((x % (A * (2 * C))) \div A) % 2 = (x \div A) % 2
<1> DEFINE B == 2 * C
           y == x \div A
           r == x % A
           t == y % B
           w == x % (A * B)
<1>1. x \in Int /\ B \in Nat \ {0}
    OBVIOUS
<1>2. y \in Int /\ r \in 0..A - 1
    BY <1>1, ModDef
<1>3. t \in Int
    <2> HIDE DEF y, B
    <2>1. B \in Nat /\ B > 0
        BY <1>1
    <2> QED
        BY <2>1, <1>2, ModDef
<1>4. w = A * t + r
    <2> HIDE DEF B
    <2>1. x % (A * B) = (x % A) + A * ((x \div A) % B)
        BY <1>1, ModSplit, Zenon
    <2> DEFINE At == A * t
    <2>2. w = r + At /\ At \in Int /\ r \in Int
        BY <2>1, <1>2, <1>3
    <2> QED
        BY <2>2
<1>5. w \div A = t
    <2> HIDE DEF w, t, r
    <2>1. A * t \in Int
        BY <1>3
    <2>2. w \in Int /\ A \in Nat /\ A > 0
        BY <1>2, <1>4, <2>1
    <2> QED
        BY <1>2, <1>3, <1>4, <2>2, ModUnique
<1>6. t % 2 = y % 2
    <2> DEFINE D == 2
               z == y \div D
    <2>1. D \in Nat \ {0}
        OBVIOUS
    <2> HIDE DEF y, D
    <2>2. y % (D * C) = (y % D) + D * ((y \div D) % C)
        BY <1>2, <2>1, ModSplit, Zenon
    <2>3. z % C \in Int
        <3>1. z \in Int
            BY <1>2 DEF D
        <3> HIDE DEF z
        <3> QED
            BY <3>1
    <2>4. t = (y % 2) + 2 * (z % C)
        BY <2>2 DEF D
    <2> DEFINE v == z % C
    <2> HIDE DEF t, v, z
    <2> QED
        BY <1>2, <1>3, <2>3, <2>4 DEF v
<1> QED
    BY <1>5, <1>6

IdxOk ==
    /\ Generator
    /\ idx \in 0..2^IdxBits - 1
    /\ seed \in [peer : Nat, query : Nat, db : Nat]

\* The powers of two of the dimensions.
LEMMA PowerDims ==
    /\ Two(L1) \in Nat \ {0} /\ Two(L2) \in Nat \ {0} /\ Two(IdxBits) \in Nat \ {0}
    /\ Two(IdxBits) = Two(L1) * Two(L2)
<1>1. L1 \in 0..32 /\ L2 \in 0..32 /\ IdxBits \in 0..32 /\ L1 + L2 <= 32
      /\ L1 \in Nat /\ L2 \in Nat /\ IdxBits = L1 + L2
    BY Dims
<1>2. Two(L1 + L2) = Two(L1) * Two(L2)
    BY <1>1, PowerSum
<1> QED
    BY <1>1, <1>2, Powers

\* idx_to_2dim splits the index into bits below and above L1.
LEMMA IdxParts ==
    ASSUME IdxOk
    PROVE  /\ idx \in Nat
           /\ IdxTo2Dim[1] = idx % Two(L1) /\ IdxTo2Dim[1] \in Nat
           /\ IdxTo2Dim[2] = idx \div Two(L1) /\ IdxTo2Dim[2] \in 0..Two(L2) - 1
<1> DEFINE A == Two(L1)
           B == Two(L2)
           q == idx \div A
           r == idx % A
<1>1. A \in Nat \ {0} /\ B \in Nat \ {0} /\ Two(IdxBits) = A * B
    BY PowerDims
<1>2. idx \in Nat /\ idx < A * B
    BY <1>1 DEF IdxOk, Two
<1> HIDE DEF A, B
<1>3. q \in Int /\ r \in 0..A - 1 /\ idx = A * q + r
    BY <1>1, <1>2, ModDef
<1> HIDE DEF q, r
<1>4. q >= 0
    <2> SUFFICES ASSUME q <= -1 PROVE FALSE
        BY <1>3
    <2>1. A * q <= A * (-1)
        BY <1>1, <1>3
    <2> QED
        BY <1>1, <1>2, <1>3, <2>1
<1>5. q < B
    <2> SUFFICES ASSUME q >= B PROVE FALSE
        BY <1>1, <1>3
    <2>1. A * q >= A * B
        BY <1>1, <1>3
    <2>2. A * q \in Int /\ A * B \in Int
        BY <1>1, <1>3
    <2> QED
        BY <1>1, <1>2, <1>3, <2>1, <2>2
<1>6. IdxTo2Dim[1] = r /\ IdxTo2Dim[2] = q
    BY DEF IdxTo2Dim, A, q, r, Two
<1> QED
    BY <1>1, <1>2, <1>3, <1>4, <1>5, <1>6 DEF A, B, q, r

\* f is a sharing of the bits of x.
SharesBits(f, x, bits) ==
    /\ \A p \in Servers : \A i \in 0..bits - 1 : f[p][i] \in 0..1
    /\ \A p \in Servers : DOMAIN f[p] = 0..bits - 1
    /\ \A i \in 0..bits - 1 : Xor([p \in Servers |-> f[p][i]]) = (x \div 2^i) % 2

\* What secret_share_boolean returns are shares of its value.
LEMMA ShareBooleanShares ==
    ASSUME Generator, NEW x \in Nat, NEW b \in 0..32, NEW s \in Nat, NEW at \in Nat
    PROVE  SharesBits(ShareBoolean(x, b, s, at), x, b)
BY ShareBooleanXor DEF SharesBits

\* _query_index and join_boolean: the servers share the bits of the index.
LEMMA IdxBit ==
    ASSUME IdxOk, NEW i \in 0..IdxBits - 1
    PROVE  /\ \A p \in Servers : IdxShare(p)[i] \in 0..1
           /\ Xor([p \in Servers |-> IdxShare(p)[i]]) = (idx \div 2^i) % 2
<1> DEFINE lo == ShareBoolean(IdxTo2Dim[1], L1, seed.query, 0)
           hi == ShareBoolean(IdxTo2Dim[2], L2, seed.query, N * L1)
<1>1. /\ IdxTo2Dim[1] \in Nat /\ IdxTo2Dim[2] \in Nat /\ L1 \in 0..32 /\ L2 \in 0..32
      /\ seed.query \in Nat /\ N * L1 \in Nat /\ Generator /\ L1 \in Nat /\ L2 \in Nat
    BY IdxParts, Dims DEF IdxOk
<1> DEFINE x1 == IdxTo2Dim[1]
           x2 == IdxTo2Dim[2]
           q == seed.query
           nl == N * L1
<1>2. /\ \A p \in Servers : \A j \in 0..L1 - 1 : lo[p][j] \in 0..1
      /\ \A p \in Servers : DOMAIN lo[p] = 0..L1 - 1
      /\ \A j \in 0..L1 - 1 : Xor([p \in Servers |-> lo[p][j]]) = (x1 \div 2^j) % 2
    <2> DEFINE z == 0
    <2>1. z \in Nat
        OBVIOUS
    <2> HIDE DEF z
    <2>2. SharesBits(ShareBoolean(x1, L1, q, z), x1, L1)
        BY <1>1, <2>1, ShareBooleanShares, Zenon
    <2> QED
        BY <2>2 DEF z, SharesBits
<1>3. /\ \A p \in Servers : \A j \in 0..L2 - 1 : hi[p][j] \in 0..1
      /\ \A p \in Servers : DOMAIN hi[p] = 0..L2 - 1
      /\ \A j \in 0..L2 - 1 : Xor([p \in Servers |-> hi[p][j]]) = (x2 \div 2^j) % 2
    <2>1. SharesBits(ShareBoolean(x2, L2, q, nl), x2, L2)
        BY <1>1, ShareBooleanShares, Zenon
    <2> QED
        BY <2>1 DEF SharesBits
<1>4. Cardinality(0..L2 - 1) = L2
    BY Dims, FS_Interval
<1>5. \A p \in Servers : IdxShare(p)[i] = IF i < L1 THEN lo[p][i] ELSE hi[p][i - L1]
    <2> SUFFICES ASSUME NEW p \in Servers
                 PROVE  IdxShare(p)[i] = IF i < L1 THEN lo[p][i] ELSE hi[p][i - L1]
        OBVIOUS
    <2>1. IdxShare(p) = JoinBoolean(lo[p], hi[p], L1)
        BY DEF IdxShare
    <2>2. DOMAIN hi[p] = 0..L2 - 1
        BY <1>3
    <2>3. Cardinality(DOMAIN hi[p]) = L2
        BY <2>2, <1>4
    <2>4. i \in 0..L1 + L2 - 1
        BY Dims
    <2> HIDE DEF lo, hi
    <2> QED
        BY <2>1, <2>3, <2>4 DEF JoinBoolean
<1> HIDE DEF lo, hi
<1>6. CASE i < L1
    <2>1. i \in 0..L1 - 1 /\ i \in 0..32 /\ L1 - i - 1 \in 0..32 /\ i + (L1 - i) <= 32
          /\ L1 - i \in Nat /\ i \in Nat
        BY <1>6, Dims
    <2>2. \A p \in Servers : IdxShare(p)[i] = lo[p][i]
        BY <1>5, <1>6
    <2>3. [p \in Servers |-> IdxShare(p)[i]] = [p \in Servers |-> lo[p][i]]
        BY <2>2
    <2>4. Xor([p \in Servers |-> IdxShare(p)[i]]) = (x1 \div 2^i) % 2
        BY <2>1, <2>3, <1>2
    <2>5. (x1 \div 2^i) % 2 = (idx \div 2^i) % 2
        <3> DEFINE A == Two(i)
                   C == Two(L1 - i - 1)
        <3>1. Two(i) \in Nat \ {0} /\ Two(L1 - i - 1) \in Nat \ {0}
              /\ Two((L1 - i - 1) + 1) = 2 * Two(L1 - i - 1)
            BY <2>1, Powers
        <3>2. (L1 - i - 1) + 1 = L1 - i /\ i + (L1 - i) = L1
            BY <2>1, Dims
        <3>3. Two(L1) = A * (2 * C)
            <4>1. Two(i + (L1 - i)) = Two(i) * Two(L1 - i)
                BY <2>1, PowerSum
            <4> QED
                BY <4>1, <3>1, <3>2
        <3>4. idx \in Nat /\ x1 = idx % Two(L1)
            BY IdxParts
        <3>5. A \in Nat \ {0} /\ C \in Nat \ {0}
            BY <3>1
        <3> HIDE DEF A, C, x1
        <3>6. ((idx % (A * (2 * C))) \div A) % 2 = (idx \div A) % 2
            BY <3>4, <3>5, LowBit, Zenon
        <3>7. (x1 \div A) % 2 = (idx \div A) % 2
            BY <3>3, <3>4, <3>6
        <3> QED
            BY <3>7 DEF A, Two
    <2> QED
        BY <1>2, <2>1, <2>2, <2>4, <2>5
<1>7. CASE i >= L1
    <2>1. i - L1 \in 0..L2 - 1 /\ i - L1 \in 0..32 /\ L1 + (i - L1) <= 32
          /\ i - L1 \in Nat /\ i \in Nat /\ L1 + (i - L1) = i
        BY <1>7, Dims
    <2>2. \A p \in Servers : IdxShare(p)[i] = hi[p][i - L1]
        BY <1>5, <1>7, Dims
    <2>3. [p \in Servers |-> IdxShare(p)[i]] = [p \in Servers |-> hi[p][i - L1]]
        BY <2>2
    <2>4. Xor([p \in Servers |-> IdxShare(p)[i]]) = (x2 \div 2^(i - L1)) % 2
        BY <2>1, <2>3, <1>3
    <2>5. x2 \div 2^(i - L1) = idx \div 2^i
        <3> DEFINE A == Two(L1)
                   B == Two(i - L1)
        <3>1. A \in Nat \ {0} /\ B \in Nat \ {0}
            BY <2>1, Powers, PowerDims
        <3>2. Two(L1 + (i - L1)) = Two(L1) * Two(i - L1)
            BY <2>1, <1>1, PowerSum
        <3>3. Two(i) = A * B
            BY <3>2, <2>1
        <3>4. idx \in Int /\ x2 = idx \div A
            BY IdxParts
        <3> HIDE DEF A, B, x2
        <3>5. idx \div (A * B) = (idx \div A) \div B
            BY <3>1, <3>4, ModSplit, Zenon
        <3>6. x2 \div B = idx \div Two(i)
            BY <3>3, <3>4, <3>5
        <3> QED
            BY <3>6 DEF B, Two
    <2> QED
        BY <1>3, <2>1, <2>2, <2>4, <2>5
<1> QED
    BY <1>6, <1>7, Dims

\* The servers hold shares g, of b bits, of the bits v.
Encodes(g, b, v) ==
    /\ \A p \in Servers : g[p] \in [0..b - 1 -> Int]
    /\ \A j \in 0..b - 1 : Xor([p \in Servers |-> g[p][j]]) = v[j]

\* Node n of level k encodes its part of the index, with the outputs z.
NodeOk(k, n, z) ==
    Encodes([p \in Servers |-> NodeData(p, k, n, z[p])], 2^n.len, OneHot(n))

\* Only the constant party negates.
LEMMA LeafOk ==
    ASSUME IdxOk, NEW k, NEW z, NEW n \in Node, n.len = 1, n.lo + 1 <= IdxBits
    PROVE  NodeOk(k, n, z)
<1>1. n.lo \in 0..IdxBits - 1 /\ n.lo \in 0..32
    BY Dims DEF Node
<1> DEFINE b == (idx \div 2^n.lo) % 2
           s == [p \in Servers |-> IdxShare(p)[n.lo]]
           g == [p \in Servers |-> NodeData(p, k, n, z[p])]
<1>2. (\A p \in Servers : s[p] \in 0..1) /\ Xor(s) = b /\ DOMAIN s = Servers
    BY <1>1, IdxBit
<1>3. \A p \in Servers : g[p] = [j \in 0..1 |-> (s[p] + (IF p = 0 THEN 1 - j ELSE 0)) % 2]
    BY DEF NodeData, Leaf
<1>0. \A p \in Servers : /\ g[p] = [j \in 0..1 |-> g[p][j]]
                         /\ \A j \in 0..1 : g[p][j] = (s[p] + (IF p = 0 THEN 1 - j ELSE 0)) % 2
    <2> SUFFICES ASSUME NEW p \in Servers
                 PROVE  /\ g[p] = [j \in 0..1 |-> g[p][j]]
                        /\ \A j \in 0..1 : g[p][j] = (s[p] + (IF p = 0 THEN 1 - j ELSE 0)) % 2
        OBVIOUS
    <2> HIDE DEF s, g
    <2> QED
        BY <1>3
<1>4. 2^n.len = 2
    OBVIOUS
<1>5. OneHot(n) = [j \in 0..1 |-> IF j = b THEN 1 ELSE 0]
    BY <1>4 DEF OneHot
<1>6. Encodes(g, 2, OneHot(n))
    <2> HIDE DEF s, g, b
    <2>0. ASSUME NEW p \in Servers, NEW j \in 0..1
          PROVE  /\ (IF p = 0 THEN 1 - j ELSE 0) \in Int
                 /\ g[p][j] = (s[p] + (IF p = 0 THEN 1 - j ELSE 0)) % 2 /\ g[p][j] \in Int
        <3> DEFINE c == IF p = 0 THEN 1 - j ELSE 0
        <3>1. c \in Int /\ s[p] \in Int
            BY <1>2
        <3>2. g[p][j] = (s[p] + c) % 2
            BY <1>0
        <3> HIDE DEF c
        <3>3. (s[p] + c) % 2 \in Int
            BY <3>1
        <3> QED
            BY <3>1, <3>2, <3>3 DEF c
    <2>1. \A p \in Servers : g[p] \in [0..2 - 1 -> Int]
        <3>1. 2 - 1 = 1
            OBVIOUS
        <3>2. \A p \in Servers : g[p] \in [0..1 -> Int]
            BY <1>0, <2>0
        <3> QED
            BY <3>1, <3>2
    <2>2. ASSUME NEW j \in 0..2 - 1
          PROVE  Xor([p \in Servers |-> g[p][j]]) = OneHot(n)[j]
        <3> DEFINE h == [p \in Servers |-> g[p][j]]
                   c == [p \in Servers |-> IF p = 0 THEN 1 - j ELSE 0]
                   sc == [p \in Servers |-> s[p] + c[p]]
        <3>1. \A p \in Servers : /\ c[p] \in Int /\ s[p] \in Int /\ sc[p] = s[p] + c[p]
                                 /\ sc[p] \in Int /\ h[p] = sc[p] % 2 /\ h[p] \in Int
            BY <1>2, <2>0
        <3>2. c[0] = 1 - j /\ 1 - j \in Int /\ \A p \in Servers : p # 0 => c[p] = 0
            BY ServerSet
        <3>3. DOMAIN h = Servers
            OBVIOUS
        <3> HIDE DEF h, c, sc
        <3>4. SumOn(h, Servers) % 2 = SumOn(sc, Servers) % 2
            <4>1. \A p \in Servers : h[p] \in Int /\ sc[p] \in Int /\ h[p] % 2 = sc[p] % 2
                BY <3>1
            <4> DEFINE m == 2
            <4>2. m \in Nat /\ m > 0 /\ \A p \in Servers : h[p] \in Int /\ sc[p] \in Int /\ h[p] % m = sc[p] % m
                BY <4>1
            <4> HIDE DEF m
            <4>3. SumOn(h, Servers) % m = SumOn(sc, Servers) % m
                BY <4>2, ServerSet, SumMod
            <4> QED
                BY <4>3 DEF m
        <3>5. SumOn(sc, Servers) = SumOn(s, Servers) + SumOn(c, Servers)
            BY <3>1, ServerSet, SumPlus
        <3>6. SumOn(c, Servers) = 1 - j
            <4>1. SumOn(c, Servers) = c[0]
                BY <3>1, <3>2, ServerSet, SumOnly
            <4> QED
                BY <4>1, <3>2
        <3>7. SumOn(s, Servers) \in Int
            BY <3>1, ServerSet, SumInt
        <3>8. SumOn(s, Servers) % 2 = b
            BY <1>2, XorOn
        <3>9. Xor(h) = SumOn(h, Servers) % 2
            BY <3>3, XorOn
        <3>10. j \in {0, 1} /\ b \in {0, 1}
            BY <3>7, <3>8
        <3>11. Xor(h) = IF j = b THEN 1 ELSE 0
            BY <3>4, <3>5, <3>6, <3>7, <3>8, <3>9, <3>10
        <3> QED
            BY <3>11, <1>5 DEF h
    <2> QED
        BY <2>1, <2>2 DEF Encodes
<1> QED
    BY <1>4, <1>6 DEF NodeOk

\* A gate multiplies the encodings of its halves.
LEMMA OneHotProduct ==
    ASSUME idx \in Nat, NEW k \in 0..4, NEW n \in Gates(Level[k]), NEW j \in 0..2^n.len - 1
    PROVE  /\ j % 2^Low(n).len \in 0..2^Low(n).len - 1
           /\ j \div 2^Low(n).len \in 0..2^High(n).len - 1
           /\ OneHot(Low(n))[j % 2^Low(n).len] * OneHot(High(n))[j \div 2^Low(n).len]
                  = OneHot(n)[j]
<1> DEFINE a == Low(n).len
           b == High(n).len
           A == Two(a)
           B == Two(b)
           P == Two(n.lo)
           y == idx \div P
           r == j % A
           q == j \div A
<1>1. n \in Node /\ n.len > 1 /\ n \in Level[k] /\ a + b = n.len /\ a \in 1..26 /\ b \in 1..26
      /\ A \in Nat \ {0} /\ B \in Nat \ {0} /\ Two(n.len) = A * B
    BY GateBits DEF Two
<1>2. Low(n).lo = n.lo /\ High(n).lo = n.lo + a
    BY <1>1, Halves
<1>3. n.lo \in Nat /\ n.lo + n.len <= 32
    <2>1. k \in 0..5
        OBVIOUS
    <2>2. n.lo \in Nat /\ n.lo + n.len <= IdxBits
        BY <1>1, <2>1, Nodes
    <2> QED
        BY <2>2, Dims, <1>1 DEF Node
<1>4. P \in Nat \ {0} /\ Two(n.lo + a) = P * A
    <2>1. n.lo \in 0..32 /\ n.lo + a <= 32 /\ a \in Nat
        BY <1>1, <1>3
    <2> QED
        BY <2>1, <1>3, Powers, PowerSum
<1>5. j \in Nat /\ j < A * B
    BY <1>1 DEF Two
<1>6. /\ OneHot(Low(n)) = [i \in 0..A - 1 |-> IF i = y % A THEN 1 ELSE 0]
      /\ OneHot(High(n)) = [i \in 0..B - 1 |-> IF i = (idx \div (P * A)) % B THEN 1 ELSE 0]
      /\ OneHot(n) = [i \in 0..(A * B) - 1 |-> IF i = y % (A * B) THEN 1 ELSE 0]
    <2>1. OneHot(Low(n)) = [i \in 0..Two(a) - 1 |-> IF i = (idx \div Two(n.lo)) % Two(a) THEN 1 ELSE 0]
        BY <1>2 DEF OneHot, Two
    <2>2. OneHot(High(n)) = [i \in 0..Two(b) - 1 |-> IF i = (idx \div Two(n.lo + a)) % Two(b) THEN 1 ELSE 0]
        BY <1>2 DEF OneHot, Two
    <2>3. OneHot(n) = [i \in 0..Two(n.len) - 1 |-> IF i = (idx \div Two(n.lo)) % Two(n.len) THEN 1 ELSE 0]
        BY DEF OneHot, Two
    <2> QED
        BY <2>1, <2>2, <2>3, <1>1, <1>4
<1>7. 2^Low(n).len = A /\ 2^High(n).len = B
    BY DEF Two
<1> HIDE DEF a, b, A, B, P
<1>8. y \in Int
    <2>1. idx \in Int /\ P \in Nat /\ P > 0
        BY <1>4
    <2> QED
        BY <2>1, ModDef
<1>9. idx \div (P * A) = y \div A
    <2>1. idx \in Int
        OBVIOUS
    <2> QED
        BY <2>1, <1>1, <1>4, ModSplit, Zenon
<1> HIDE DEF y
<1>10. y % (A * B) = (y % A) + A * ((y \div A) % B)
    BY <1>1, <1>8, ModSplit, Zenon
<1>11. r \in 0..A - 1 /\ q \in Int /\ j = A * q + r
    <2>1. j \in Int /\ A \in Nat /\ A > 0
        BY <1>1, <1>5
    <2> QED
        BY <2>1, ModDef
<1> DEFINE u == y % A
           v == (y \div A) % B
<1>12. u \in 0..A - 1 /\ v \in 0..B - 1
    <2>1. A \in Nat /\ A > 0 /\ B \in Nat /\ B > 0
        BY <1>1
    <2>2. u \in 0..A - 1 /\ y \div A \in Int
        BY <1>8, <2>1, ModDef
    <2> DEFINE w == y \div A
    <2>3. w \in Int
        BY <2>2
    <2> HIDE DEF w
    <2>4. w % B \in 0..B - 1
        BY <2>1, <2>3, ModDef
    <2> QED
        BY <2>2, <2>4 DEF w
<1> HIDE DEF r, q, u, v
<1>13. q >= 0 /\ q < B
    <2>1. A \in Nat /\ B \in Nat /\ A > 0
        BY <1>1
    <2>2. q >= 0
        <3> SUFFICES ASSUME q <= -1 PROVE FALSE
            BY <1>11
        <3>1. A * q <= A * (-1)
            BY <1>11, <2>1
        <3> QED
            BY <1>5, <1>11, <2>1, <3>1
    <2>3. q < B
        <3> SUFFICES ASSUME q >= B PROVE FALSE
            BY <1>11, <2>1
        <3>1. A * q >= A * B
            BY <1>11, <2>1
        <3>2. A * q \in Int /\ A * B \in Int
            BY <1>11, <2>1
        <3> QED
            BY <1>5, <1>11, <2>1, <3>1, <3>2
    <2> QED
        BY <2>2, <2>3
<1>14. j = y % (A * B) <=> r = u /\ q = v
    <2>1. y % (A * B) = A * v + u
        <3>1. A * v \in Int /\ u \in Int
            BY <1>1, <1>12
        <3> QED
            BY <3>1, <1>10 DEF u, v
    <2>2. ASSUME j = A * v + u PROVE r = u /\ q = v
        <3>1. A \in Nat /\ A > 0 /\ v \in Int /\ j \in Int
            BY <1>1, <1>5, <1>12
        <3>2. j % A = u /\ j \div A = v
            BY <3>1, <2>2, <1>12, ModUnique
        <3> QED
            BY <3>2 DEF r, q
    <2> QED
        BY <2>1, <2>2, <1>11
<1>15. OneHot(Low(n))[r] = IF r = u THEN 1 ELSE 0
    BY <1>6, <1>11 DEF u
<1>16. OneHot(High(n))[q] = IF q = v THEN 1 ELSE 0
    <2>1. q \in 0..B - 1
        BY <1>1, <1>11, <1>13
    <2> QED
        BY <2>1, <1>6, <1>9 DEF v
<1>17. OneHot(n)[j] = IF r = u /\ q = v THEN 1 ELSE 0
    <2>1. j \in 0..(A * B) - 1
        <3> DEFINE m == A * B
        <3>1. m \in Nat /\ j < m
            BY <1>1, <1>5
        <3> HIDE DEF m
        <3>2. j \in 0..m - 1
            BY <1>5, <3>1
        <3> QED
            BY <3>2 DEF m
    <2> QED
        BY <2>1, <1>6, <1>14
<1>18. OneHot(Low(n))[r] * OneHot(High(n))[q] = OneHot(n)[j]
    BY <1>15, <1>16, <1>17
<1>19. r \in 0..A - 1 /\ q \in 0..B - 1
    BY <1>1, <1>11, <1>13
<1> QED
    BY <1>7, <1>18, <1>19 DEF r, q

----------------------------------------------------------------------------
(* The rounds of a layer, for one bit.                                     *)

\* A reconstructed bit is a bit.
LEMMA XorBit ==
    ASSUME NEW f, DOMAIN f = Servers, \A p \in Servers : f[p] \in Int
    PROVE  SumOn(f, Servers) \in Int /\ Xor(f) = SumOn(f, Servers) % 2 /\ Xor(f) \in {0, 1}
<1>1. SumOn(f, Servers) \in Int
    BY ServerSet, SumInt
<1>2. Xor(f) = SumOn(f, Servers) % 2
    BY XorOn
<1> QED
    BY <1>1, <1>2

\* Sums of terms that are reduced modulo 2, one by one.
LEMMA SumParity ==
    ASSUME NEW f, NEW g, NEW S, IsFiniteSet(S), \A x \in S : g[x] \in Int /\ f[x] = g[x] % 2
    PROVE  SumOn(f, S) % 2 = SumOn(g, S) % 2
<1> DEFINE m == 2
<1>1. m \in Nat /\ m > 0 /\ \A x \in S : f[x] \in Int /\ g[x] \in Int /\ f[x] % m = g[x] % m
    OBVIOUS
<1> HIDE DEF m
<1>2. SumOn(f, S) % m = SumOn(g, S) % m
    BY <1>1, SumMod
<1> QED
    BY <1>2 DEF m

\* Blinding adds the blinding bits.
LEMMA XorBlind ==
    ASSUME NEW f, NEW g, NEW h, DOMAIN f = Servers, DOMAIN g = Servers, DOMAIN h = Servers,
           \A p \in Servers : f[p] \in Int /\ g[p] \in Int /\ h[p] = (f[p] + g[p]) % 2
    PROVE  Xor(h) = (Xor(f) + Xor(g)) % 2
<1> DEFINE s == [p \in Servers |-> f[p] + g[p]]
<1>1. \A p \in Servers : /\ f[p] \in Int /\ g[p] \in Int /\ s[p] = f[p] + g[p]
                         /\ s[p] \in Int /\ h[p] = s[p] % 2 /\ h[p] \in Int
    <2> TAKE p \in Servers
    <2>1. f[p] + g[p] \in Int
        OBVIOUS
    <2> QED
        BY <2>1
<1> HIDE DEF s
<1>2. SumOn(s, Servers) = SumOn(f, Servers) + SumOn(g, Servers)
    BY <1>1, ServerSet, SumPlus
<1>3. SumOn(h, Servers) % 2 = SumOn(s, Servers) % 2
    BY <1>1, ServerSet, SumParity
<1>4. /\ SumOn(f, Servers) \in Int /\ Xor(f) = SumOn(f, Servers) % 2
      /\ SumOn(g, Servers) \in Int /\ Xor(g) = SumOn(g, Servers) % 2
      /\ Xor(h) = SumOn(h, Servers) % 2
    BY <1>1, XorBit
<1> QED
    BY <1>2, <1>3, <1>4

\* One bit of a gate when u and v are open.
OpenGate(x, y, c, z, u, v) ==
    /\ u \in {0, 1} /\ v \in {0, 1}
    /\ DOMAIN x = Servers /\ DOMAIN y = Servers /\ DOMAIN c = Servers /\ DOMAIN z = Servers
    /\ \A p \in Servers : /\ x[p] \in Int /\ y[p] \in Int /\ c[p] \in Int
                          /\ z[p] = AndBit(p, x[p], y[p], u, v, c[p])
    /\ Xor(c) = ((u + Xor(x)) % 2) * ((v + Xor(y)) % 2)

\* finish_and_exchange: the shares of u, v and c give shares of the product.
LEMMA AndShares ==
    ASSUME NEW x, NEW y, NEW c, NEW z, NEW u, NEW v, OpenGate(x, y, c, z, u, v)
    PROVE  (\A p \in Servers : z[p] \in Int) /\ Xor(z) = Xor(x) * Xor(y)
<1>0. /\ u \in {0, 1} /\ v \in {0, 1}
      /\ DOMAIN x = Servers /\ DOMAIN y = Servers /\ DOMAIN c = Servers /\ DOMAIN z = Servers
      /\ \A p \in Servers : /\ x[p] \in Int /\ y[p] \in Int /\ c[p] \in Int
                            /\ z[p] = AndBit(p, x[p], y[p], u, v, c[p])
      /\ Xor(c) = ((u + Xor(x)) % 2) * ((v + Xor(y)) % 2)
    BY DEF OpenGate
<1> USE <1>0
<1> DEFINE k == [p \in Servers |-> IF p = 0 THEN u * v ELSE 0]
           uy == [p \in Servers |-> u * y[p]]
           vx == [p \in Servers |-> v * x[p]]
           s1 == [p \in Servers |-> k[p] + uy[p]]
           s2 == [p \in Servers |-> s1[p] + vx[p]]
           s == [p \in Servers |-> s2[p] + c[p]]
<1>1. \A p \in Servers : /\ k[p] \in Int /\ uy[p] \in Int /\ vx[p] \in Int
                         /\ uy[p] = u * y[p] /\ vx[p] = v * x[p]
    OBVIOUS
<1>2. \A p \in Servers : /\ s1[p] \in Int /\ s1[p] = k[p] + uy[p]
                         /\ s2[p] \in Int /\ s2[p] = s1[p] + vx[p]
                         /\ s[p] \in Int /\ s[p] = s2[p] + c[p]
    <2> HIDE DEF k, uy, vx
    <2> QED
        BY <1>1
<1>3. k[0] = u * v /\ u * v \in Int /\ \A p \in Servers : p # 0 => k[p] = 0
    BY ServerSet
<1>4. \A p \in Servers : z[p] = s[p] % 2
    <2> SUFFICES ASSUME NEW p \in Servers PROVE z[p] = s[p] % 2
        OBVIOUS
    <2>1. s[p] = (IF p = 0 THEN u * v ELSE 0) + u * y[p] + v * x[p] + c[p]
        BY ServerSet
    <2> HIDE DEF s
    <2> QED
        BY <2>1 DEF AndBit
<1> HIDE DEF k, uy, vx, s1, s2, s
<1> DEFINE X == SumOn(x, Servers)
           Y == SumOn(y, Servers)
           C == SumOn(c, Servers)
<1>5. /\ X \in Int /\ Xor(x) = X % 2 /\ Y \in Int /\ Xor(y) = Y % 2
      /\ C \in Int /\ Xor(c) = C % 2
    BY XorBit
<1>6. \A p \in Servers : z[p] \in Int
    BY <1>2, <1>4
<1>7. Xor(z) = SumOn(s, Servers) % 2
    <2>1. Xor(z) = SumOn(z, Servers) % 2
        BY <1>6, XorBit
    <2>2. SumOn(z, Servers) % 2 = SumOn(s, Servers) % 2
        BY <1>2, <1>4, ServerSet, SumParity
    <2> QED
        BY <2>1, <2>2
<1>8. SumOn(k, Servers) = u * v
    <2>1. SumOn(k, Servers) = k[0]
        BY <1>1, <1>3, ServerSet, SumOnly
    <2> QED
        BY <2>1, <1>3
<1>9. SumOn(uy, Servers) = u * Y
    BY <1>1, ServerSet, SumTimes
<1>10. SumOn(vx, Servers) = v * X
    BY <1>1, ServerSet, SumTimes
<1>11. SumOn(s1, Servers) = SumOn(k, Servers) + SumOn(uy, Servers)
    BY <1>1, <1>2, ServerSet, SumPlus
<1>12. SumOn(s2, Servers) = SumOn(s1, Servers) + SumOn(vx, Servers)
    BY <1>1, <1>2, ServerSet, SumPlus
<1>13. SumOn(s, Servers) = SumOn(s2, Servers) + SumOn(c, Servers)
    <2>1. \A p \in Servers : s2[p] \in Int /\ c[p] \in Int /\ s[p] = s2[p] + c[p]
        BY <1>2
    <2> QED
        BY <2>1, ServerSet, SumPlus
<1> HIDE DEF X, Y, C
<1>14. SumOn(s, Servers) = u * v + u * Y + v * X + C
    BY <1>8, <1>9, <1>10, <1>11, <1>12, <1>13 DEF C
<1>15. (u * v + u * Y + v * X + C) % 2 = (X % 2) * (Y % 2)
    <2>1. C % 2 = ((u + (X % 2)) % 2) * ((v + (Y % 2)) % 2)
        BY <1>5
    <2>2. X % 2 \in {0, 1} /\ Y % 2 \in {0, 1}
        BY <1>5
    <2>3. CASE u = 0 /\ v = 0
        BY <1>5, <2>1, <2>2, <2>3
    <2>4. CASE u = 0 /\ v = 1
        BY <1>5, <2>1, <2>2, <2>4
    <2>5. CASE u = 1 /\ v = 0
        BY <1>5, <2>1, <2>2, <2>5
    <2>6. CASE u = 1 /\ v = 1
        BY <1>5, <2>1, <2>2, <2>6
    <2> QED
        BY <2>3, <2>4, <2>5, <2>6
<1> QED
    BY <1>5, <1>6, <1>7, <1>14, <1>15

----------------------------------------------------------------------------
(* The inductive invariant.                                                *)

LayerStates ==
    {"Ticketing", "DataInitialized", "OperationsExecuted", "SendingBeaverShares",
     "BeaverSharesReceived", "Finished"}

Stages == {"ohe", "pir", "conv", "commit", "check0", "check1", "verify", "done"}

\* Where the protocol is.
ControlInv ==
    /\ IdxOk
    /\ stage \in Stages
    /\ layer \in 0..Layers - 1
    /\ used \in Nat
    /\ stage \in {"ohe", "pir"} => lstate \in LayerStates
    /\ stage \notin {"ohe", "pir"} => lstate \in {"Ticketing", "SendingDaBits"}

\* The nodes below the layer that runs encode their parts of the index.
EncodingInv ==
    stage = "ohe" => \A n \in Level[layer + 1] : NodeOk(layer + 1, n, prev)

\* Column l1 of the database.
Column == [i \in 0..2^L2 - 1 |-> DbBit(seed.db, IdxTo2Dim[1], i)]

\* The inputs of the second retrieval level.
PirInv ==
    stage = "pir" =>
        /\ Encodes([p \in Servers |-> pir[p][1]], 2^L2, Column)
        /\ Encodes([p \in Servers |-> pir[p][2]], 2^L2, OneHot(Root2))

BitArray(sz) == [0..8 * sz - 1 -> Int]

XorX(d, j) == Xor([p \in Servers |-> d[p].x[j]])
XorY(d, j) == Xor([p \in Servers |-> d[p].y[j]])
XorZ(d, j) == Xor([p \in Servers |-> d[p].z[j]])
XorA(t, j) == Xor([p \in Servers |-> t[p].a[j]])
XorB(t, j) == Xor([p \in Servers |-> t[p].b[j]])
XorC(t, j) == Xor([p \in Servers |-> t[p].c[j]])

\* What a layer's triples are to its inputs, in bit j: c is the product of a
\* and b, which the exchange replaces by the blinded inputs u and v.
Product(st, d, t, j) ==
    /\ st \in {"DataInitialized", "OperationsExecuted"} =>
           XorC(t, j) = XorA(t, j) * XorB(t, j)
    /\ st = "SendingBeaverShares" =>
           XorC(t, j) = ((XorA(t, j) + XorX(d, j)) % 2) * ((XorB(t, j) + XorY(d, j)) % 2)
    /\ st = "BeaverSharesReceived" =>
           /\ t[0].a[j] \in {0, 1} /\ t[0].b[j] \in {0, 1}
           /\ \A p \in Servers : t[p].a[j] = t[0].a[j] /\ t[p].b[j] = t[0].b[j]
           /\ XorC(t, j) = ((t[0].a[j] + XorX(d, j)) % 2) * ((t[0].b[j] + XorY(d, j)) % 2)
    /\ st = "Finished" => XorZ(d, j) = XorX(d, j) * XorY(d, j)

Stream(d, i) == IF i = 0 THEN d.x ELSE d.y

\* An operation that was executed left its bits.
Executed(d, o, p) ==
    \A j \in 0..OpBits(o) - 1 : Stream(d[p], o.stream)[o.st + j] = Written(o, Source(p, o))[j]

\* A layer that runs.
RunInv ==
    stage \in {"ohe", "pir"} /\ lstate # "Ticketing" =>
        /\ size = SizeOf(stage, layer)
        /\ and_data \in [Servers -> [x : BitArray(size), y : BitArray(size), z : BitArray(size)]]
        /\ beaver \in [Servers -> [a : BitArray(size), b : BitArray(size), c : BitArray(size)]]
        /\ ops \subseteq Ops(stage, layer)
        /\ lstate # "DataInitialized" => ops = {}
        /\ \A o \in Ops(stage, layer) \ ops : \A p \in Servers : Executed(and_data, o, p)
        /\ stage = "pir" => \A p \in Servers : \A j \in 2^L2..8 * size - 1 :
                                and_data[p].x[j] = 0 /\ and_data[p].y[j] = 0
        /\ \A j \in 0..8 * size - 1 : Product(lstate, and_data, beaver, j)

\* The record, blinded and then converted.
RecordInv ==
    /\ stage \notin {"ohe", "pir"} => rec \in [Servers -> Int] /\ Xor(rec) = Record
    /\ stage = "conv" /\ lstate = "SendingDaBits" =>
           \A p \in Servers : \A i \in 0..IdxBits :
               e[p][i] = (ConvBits(p)[i] + DaBit(Seeds, p, i).r_z2) % 2

\* The client's token, and what its checks have set.
TokenInv ==
    /\ stage \in {"ohe", "pir", "conv", "commit"} => token = << >>
    /\ stage \in {"check0", "check1", "verify", "done"} =>
           /\ token.sig = GetCommitment(Record)
           /\ token = [commitment |-> token.commitment, sig |-> token.sig]
    /\ stage = "check0" => token.commitment = << >>
    /\ stage = "check1" =>
           token.commitment = IF Record = 0 THEN GetCommitment(Record) ELSE << >>
    /\ stage \in {"verify", "done"} => token.commitment = GetCommitment(Record)

QueryInv ==
    ControlInv /\ EncodingInv /\ PirInv /\ RunInv /\ RecordInv /\ ConversionCorrect /\ TokenInv

\* A node's data depends on the index, the seeds and the layer's output.
LEMMA SameNode ==
    ASSUME UNCHANGED <<idx, seed>>, NEW k, NEW n, NEW z
    PROVE  NodeOk(k, n, z)' <=> NodeOk(k, n, z)
BY DEF NodeOk, OneHot, NodeData, Leaf, IdxShare, IdxTo2Dim

\* EncodingInv under steps that leave its variables alone; the next lemmas say
\* the same of the other conjuncts.
LEMMA EncodingFrame ==
    ASSUME EncodingInv, UNCHANGED <<idx, seed, stage, layer, prev>>
    PROVE  EncodingInv'
BY SameNode DEF EncodingInv

\* Of PirInv.
LEMMA PirFrame ==
    ASSUME PirInv, UNCHANGED <<idx, seed, stage, pir>>
    PROVE  PirInv'
BY DEF PirInv, Column, OneHot, IdxTo2Dim

\* Of the source of an operation.
LEMMA SameSource ==
    ASSUME UNCHANGED <<idx, seed, stage, layer, prev, pir>>, NEW p, NEW o
    PROVE  Source(p, o)' = Source(p, o)
BY DEF Source, NodeData, Leaf, IdxShare, IdxTo2Dim

\* Of RecordInv.
LEMMA RecordFrame ==
    ASSUME RecordInv, UNCHANGED <<idx, seed, stage, lstate, rec, e>>
    PROVE  RecordInv'
BY DEF RecordInv, Record, IdxTo2Dim, ConvBits, IdxShare, Seeds

\* Of ConversionCorrect.
LEMMA ConversionFrame ==
    ASSUME ConversionCorrect, UNCHANGED <<idx, seed, stage, arith>>
    PROVE  ConversionCorrect'
BY DEF ConversionCorrect, Record, IdxTo2Dim

\* Of TokenInv.
LEMMA TokenFrame ==
    ASSUME TokenInv, UNCHANGED <<idx, seed, stage, token>>
    PROVE  TokenInv'
BY DEF TokenInv, Record, IdxTo2Dim, GetCommitment, CommitRnd

\* Of the record that is asked for.
LEMMA SameRecord ==
    ASSUME UNCHANGED <<idx, seed>>
    PROVE  Record' = Record /\ IdxOk' = IdxOk /\ \A v : GetCommitment(v)' = GetCommitment(v)
BY DEF Record, IdxTo2Dim, IdxOk, GetCommitment, CommitRnd, Generator

\* The invariant holds when the query comes in.
LEMMA InitInv ==
    ASSUME Generator, Init
    PROVE  QueryInv
<1>1. ControlInv
    <2>1. IdxOk
        BY Dims DEF Init, IdxOk
    <2> QED
        BY <2>1, LayersDef DEF Init, ControlInv, Stages, LayerStates
<1>2. EncodingInv
    <2>1. layer + 1 = Layers /\ Layers \in 0..5 /\ Gates(Level[Layers]) = {}
        BY LayersDef DEF Init
    <2> SUFFICES ASSUME NEW n \in Level[Layers] PROVE NodeOk(Layers, n, prev)
        BY <2>1 DEF EncodingInv
    <2>2. n \in Node /\ n.len \in 1..26 /\ n.lo + n.len <= IdxBits
        BY <2>1, Nodes
    <2>3. n.len = 1
        BY <2>1, <2>2 DEF Gates
    <2> QED
        BY <2>2, <2>3, <1>1, LeafOk DEF ControlInv
<1>3. PirInv /\ RunInv /\ RecordInv /\ ConversionCorrect /\ TokenInv
    BY DEF Init, PirInv, RunInv, RecordInv, ConversionCorrect, TokenInv
<1> QED
    BY <1>1, <1>2, <1>3 DEF QueryInv

\* Layers are numbered within the depth of the circuit.
LEMMA LayerRange ==
    ASSUME ControlInv
    PROVE  layer \in 0..4 /\ layer + 1 \in 1..5 /\ layer \in 0..5 /\ layer + 1 \in 0..5
BY LayersDef DEF ControlInv

\* extract_src_data: the array of an operation.
LEMMA SourceType ==
    ASSUME ControlInv, EncodingInv, PirInv, stage \in {"ohe", "pir"},
           NEW o \in Ops(stage, layer), NEW p \in Servers
    PROVE  Source(p, o) \in [0..2^o.node.len - 1 -> Int] /\ Width(Source(p, o)) = 2^o.node.len
<1>1. Source(p, o) \in [0..2^o.node.len - 1 -> Int]
    <2>1. CASE stage = "pir"
        <3>1. o \in PirOps
            BY <2>1 DEF Ops
        <3>2. o.node.len = L2 /\ o.stream \in {0, 1}
            BY <3>1, PirOp
        <3>3. /\ [q \in Servers |-> pir[q][1]][p] \in [0..2^L2 - 1 -> Int]
              /\ [q \in Servers |-> pir[q][2]][p] \in [0..2^L2 - 1 -> Int]
            BY <2>1 DEF PirInv, Encodes
        <3>4. pir[p][1] \in [0..2^L2 - 1 -> Int] /\ pir[p][2] \in [0..2^L2 - 1 -> Int]
            BY <3>3
        <3>5. Source(p, o) = pir[p][o.stream + 1]
            BY <2>1 DEF Source
        <3>6. CASE o.stream = 0
            BY <3>2, <3>4, <3>5, <3>6
        <3>7. CASE o.stream = 1
            BY <3>2, <3>4, <3>5, <3>7
        <3> QED
            BY <3>2, <3>6, <3>7
    <2>2. CASE stage = "ohe"
        <3>1. o \in OheOps(layer)
            BY <2>2 DEF Ops
        <3>2. PICK n \in Gates(Level[layer]) : o \in {Replicate(layer, n), BitExpand(layer, n)}
            BY <3>1 DEF OheOps
        <3>3. o.node \in Level[layer + 1]
            BY <3>2, OheOp, LayerRange
        <3>4. NodeOk(layer + 1, o.node, prev)
            BY <2>2, <3>3 DEF EncodingInv
        <3>5. [q \in Servers |-> NodeData(q, layer + 1, o.node, prev[q])][p]
                  \in [0..2^o.node.len - 1 -> Int]
            BY <3>4 DEF NodeOk, Encodes
        <3>6. Source(p, o) = NodeData(p, layer + 1, o.node, prev[p])
            BY <2>2 DEF Source
        <3> QED
            BY <3>5, <3>6
    <2> QED
        BY <2>1, <2>2
<1>2. 2^o.node.len \in Nat \ {0}
    BY LayerRange, OpFits
<1> DEFINE w == 2^o.node.len
           s == Source(p, o)
<1>3. s \in [0..w - 1 -> Int] /\ w \in Nat \ {0}
    BY <1>1, <1>2
<1> HIDE DEF w, s
<1>4. DOMAIN s = 0..w - 1
    BY <1>3
<1>5. Cardinality(0..w - 1) = w
    BY <1>3, FS_Interval
<1>6. Width(s) = w
    BY <1>4, <1>5 DEF Width
<1> QED
    BY <1>3, <1>6 DEF w, s

\* What an operation writes.
LEMMA WrittenBits ==
    ASSUME NEW o, NEW s, NEW w \in Nat \ {0}, s \in [0..w - 1 -> Int], Width(s) = w,
           o.n \in Nat \ {0}
    PROVE  /\ DOMAIN Written(o, s) = 0..(o.n * w) - 1
           /\ \A j \in 0..(o.n * w) - 1 :
                  /\ Written(o, s)[j] \in Int
                  /\ o.op = "BitExpand" => /\ j \div o.n \in 0..w - 1
                                           /\ Written(o, s)[j] = s[j \div o.n]
                  /\ o.op # "BitExpand" => /\ j % w \in 0..w - 1
                                           /\ Written(o, s)[j] = s[j % w]
<1> DEFINE n == o.n
<1>1. Written(o, s) = [j \in 0..(n * w) - 1 |->
                          IF o.op = "BitExpand" THEN s[j \div n] ELSE s[j % w]]
    BY DEF Written
<1>2. n \in Nat \ {0}
    OBVIOUS
<1> HIDE DEF n
<1>3. ASSUME NEW j \in 0..(n * w) - 1
      PROVE  j \div n \in 0..w - 1 /\ j % w \in 0..w - 1
    <2> DEFINE m == n * w
               q == j \div n
               r == j % n
    <2>1. m \in Nat /\ j \in Nat /\ j < m /\ n \in Nat /\ n > 0 /\ j \in Int /\ w > 0
        BY <1>2
    <2>2. q \in Int /\ r \in 0..n - 1 /\ j = n * q + r
        BY <2>1, ModDef
    <2>3. j % w \in 0..w - 1
        BY <2>1, ModDef
    <2> HIDE DEF q, r
    <2>4. q >= 0
        <3> SUFFICES ASSUME q <= -1 PROVE FALSE
            BY <2>2
        <3>1. n * q <= n * (-1)
            BY <2>1, <2>2
        <3> QED
            BY <2>1, <2>2, <3>1
    <2>5. q < w
        <3> SUFFICES ASSUME q >= w PROVE FALSE
            BY <2>2
        <3>1. n * q >= n * w
            BY <2>1, <2>2
        <3>2. n * q \in Int
            BY <2>1, <2>2
        <3> QED
            BY <2>1, <2>2, <3>1, <3>2
    <2> QED
        BY <2>2, <2>3, <2>4, <2>5 DEF q
<1>4. \A j \in 0..(n * w) - 1 :
          /\ Written(o, s)[j] \in Int
          /\ o.op = "BitExpand" => j \div n \in 0..w - 1 /\ Written(o, s)[j] = s[j \div n]
          /\ o.op # "BitExpand" => j % w \in 0..w - 1 /\ Written(o, s)[j] = s[j % w]
    <2> SUFFICES ASSUME NEW j \in 0..(n * w) - 1
                 PROVE  /\ Written(o, s)[j] \in Int
                        /\ o.op = "BitExpand" =>
                               j \div n \in 0..w - 1 /\ Written(o, s)[j] = s[j \div n]
                        /\ o.op # "BitExpand" =>
                               j % w \in 0..w - 1 /\ Written(o, s)[j] = s[j % w]
        OBVIOUS
    <2> DEFINE q == j \div n
               r == j % w
    <2>1. q \in 0..w - 1 /\ r \in 0..w - 1
        BY <1>3
    <2>2. Written(o, s)[j] = IF o.op = "BitExpand" THEN s[q] ELSE s[r]
        BY <1>1
    <2> HIDE DEF q, r
    <2>3. s[q] \in Int /\ s[r] \in Int
        BY <2>1
    <2> QED
        BY <2>1, <2>2, <2>3 DEF q, r
<1>5. DOMAIN Written(o, s) = 0..(n * w) - 1
    BY <1>1
<1> QED
    BY <1>4, <1>5 DEF n

Writes(o, s, w) ==
    /\ w \in Nat \ {0} /\ s \in [0..w - 1 -> Int] /\ Width(s) = w /\ o.n \in Nat \ {0}

\* Replicate repeats its source, BitExpand expands every bit of it.
LEMMA WrittenAt ==
    ASSUME NEW o, NEW s, NEW w, Writes(o, s, w), NEW j \in 0..(o.n * w) - 1
    PROVE  /\ o.op = "BitExpand" => Written(o, s)[j] = s[j \div o.n]
           /\ o.op # "BitExpand" => Written(o, s)[j] = s[j % w]
<1> DEFINE m == (o.n * w) - 1
           d == j \div o.n
           r == j % w
<1>1. Written(o, s) = [i \in 0..m |-> IF o.op = "BitExpand" THEN s[i \div o.n] ELSE s[i % w]]
    BY DEF Writes, Written
<1>2. j \in 0..m
    OBVIOUS
<1> HIDE DEF m
<1>3. Written(o, s)[j] = IF o.op = "BitExpand" THEN s[d] ELSE s[r]
    BY <1>1, <1>2
<1> QED
    BY <1>3

----------------------------------------------------------------------------
(* The steps of a layer.                                                   *)

\* A step inside a layer leaves everything but the layer alone.
LEMMA LayerFrame ==
    ASSUME QueryInv, stage \in {"ohe", "pir"},
           UNCHANGED <<queryVars, stage, layer, prev, pir, rec, e, arith, token>>,
           lstate' \in LayerStates, used' \in Nat, RunInv'
    PROVE  QueryInv'
<1>1. UNCHANGED <<idx, seed>> /\ stage' = stage
    BY DEF queryVars
<1>2. ControlInv'
    BY <1>1, SameRecord DEF QueryInv, ControlInv
<1>3. EncodingInv' /\ PirInv' /\ ConversionCorrect' /\ TokenInv'
    BY <1>1, EncodingFrame, PirFrame, ConversionFrame, TokenFrame DEF QueryInv
<1>4. RecordInv'
    BY <1>1 DEF RecordInv
<1> QED
    BY <1>2, <1>3, <1>4 DEF QueryInv

\* The size of a layer is that of its tickets.
LEMMA SizeType ==
    ASSUME ControlInv
    PROVE  /\ LayerSize = SizeOf(stage, layer) /\ SizeOf(stage, layer) \in Nat
           /\ Seeds \in [Servers -> Nat] /\ Dealt.beaver \in Nat
<1>1. LayerSize = SizeOf(stage, layer)
    BY DEF LayerSize, SizeOf
<1>2. SizeOf(stage, layer) \in Nat
    <2>1. Bytes(Gates(Level[layer])) \in Nat
        BY LayerRange, BytesSum
    <2>2. TicketBytes(2^L2) \in Nat
        <3> DEFINE w == Two(L2)
        <3>1. w \in Nat
            BY PowerDims
        <3> HIDE DEF w
        <3>2. TicketBytes(w) \in Nat
            BY <3>1, TicketFacts
        <3> QED
            BY <3>2 DEF w, Two
    <2> QED
        BY <2>1, <2>2 DEF SizeOf
<1>3. Seeds \in [Servers -> Nat]
    BY ServerSet DEF Seeds, ControlInv, IdxOk
<1>4. Dealt.beaver \in Nat
    <2> DEFINE a == Two(L1)
               b == Two(L2)
    <2>1. a \in Nat /\ b \in Nat
        BY PowerDims
    <2>2. Dealt.beaver = (1 * (((5 * b + 2 - 1) \div 2) + ((3 * a + 2 - 1) \div 2) + 3 * 32) + 8 - 1) \div 8
        BY DEF Dealt, Provision, CeilDiv, Two
    <2> HIDE DEF a, b
    <2> QED
        BY <2>1, <2>2
<1> QED
    BY <1>1, <1>2, <1>3, <1>4

\* Cleared arrays are arrays of zeros.
LEMMA ZerosType ==
    ASSUME NEW sz \in Nat
    PROVE  Zeros(sz) \in BitArray(sz) /\ \A j \in 0..8 * sz - 1 : Zeros(sz)[j] = 0
BY DEF Zeros, BitArray

\* end_ticketing_phase keeps the invariant.
LEMMA EndTicketingInv ==
    ASSUME QueryInv, EndTicketing
    PROVE  QueryInv'
<1>1. ControlInv /\ Generator /\ stage \in {"ohe", "pir"}
    BY DEF QueryInv, EndTicketing, ControlInv, IdxOk
<1> DEFINE sz == SizeOf(stage, layer)
           T(p, j) == Triple(Seeds, 8 * Dealt.beaver, p, 8 * used + j)
<1>2. LayerSize = sz /\ sz \in Nat /\ Seeds \in [Servers -> Nat] /\ 8 * Dealt.beaver \in Nat
      /\ used \in Nat
    BY <1>1, SizeType DEF ControlInv
<1>3. /\ size' = sz /\ ops' = Ops(stage, layer)
      /\ and_data' = [p \in Servers |-> [x |-> Zeros(sz), y |-> Zeros(sz), z |-> Zeros(sz)]]
      /\ used' = used + sz /\ lstate' = "DataInitialized"
      /\ UNCHANGED <<queryVars, stage, layer, prev, pir, rec, e, arith, token>>
    BY <1>1, <1>2 DEF EndTicketing, Ops
<1>4. beaver' = [p \in Servers |->
                    [a |-> [j \in 0..8 * sz - 1 |-> T(p, j).a],
                     b |-> [j \in 0..8 * sz - 1 |-> T(p, j).b],
                     c |-> [j \in 0..8 * sz - 1 |-> T(p, j).c]]]
    <2>1. beaver' = [p \in Servers |->
              LET t == [j \in 0..8 * LayerSize - 1 |->
                           Triple(Seeds, 8 * Dealt.beaver, p, 8 * used + j)]
              IN  [a |-> [j \in DOMAIN t |-> t[j].a],
                   b |-> [j \in DOMAIN t |-> t[j].b],
                   c |-> [j \in DOMAIN t |-> t[j].c]]]
        BY DEF EndTicketing
    <2> HIDE DEF sz
    <2> QED
        BY <2>1, <1>2
<1>5. ASSUME NEW j \in 0..8 * sz - 1
      PROVE  /\ \A p \in Servers : T(p, j).a \in 0..1 /\ T(p, j).b \in 0..1 /\ T(p, j).c \in 0..1
             /\ Xor([p \in Servers |-> T(p, j).c])
                    = Xor([p \in Servers |-> T(p, j).a]) * Xor([p \in Servers |-> T(p, j).b])
    <2> DEFINE s == Seeds
               b == 8 * Dealt.beaver
               i == 8 * used + j
    <2>1. s \in [Servers -> Nat] /\ b \in Nat /\ i \in Nat
        BY <1>2
    <2> HIDE DEF s, b, i
    <2>2. /\ \A p \in Servers : /\ Triple(s, b, p, i).a \in 0..1 /\ Triple(s, b, p, i).b \in 0..1
                                /\ Triple(s, b, p, i).c \in 0..1
          /\ Xor([p \in Servers |-> Triple(s, b, p, i).c])
                 = Xor([p \in Servers |-> Triple(s, b, p, i).a])
                     * Xor([p \in Servers |-> Triple(s, b, p, i).b])
        BY <2>1, <1>1, TripleXor
    <2> QED
        BY <2>2 DEF s, b, i
<1> HIDE DEF sz, T
<1>6. and_data' \in [Servers -> [x : BitArray(sz), y : BitArray(sz), z : BitArray(sz)]]
    <2>1. Zeros(sz) \in BitArray(sz)
        BY <1>2, ZerosType
    <2> QED
        BY <1>3, <2>1
<1>7. beaver' \in [Servers -> [a : BitArray(sz), b : BitArray(sz), c : BitArray(sz)]]
    <2>1. \A p \in Servers : /\ [j \in 0..8 * sz - 1 |-> T(p, j).a] \in BitArray(sz)
                             /\ [j \in 0..8 * sz - 1 |-> T(p, j).b] \in BitArray(sz)
                             /\ [j \in 0..8 * sz - 1 |-> T(p, j).c] \in BitArray(sz)
        <3>1. \A p \in Servers : \A j \in 0..8 * sz - 1 :
                  T(p, j).a \in Int /\ T(p, j).b \in Int /\ T(p, j).c \in Int
            <4> TAKE p \in Servers
            <4> TAKE j \in 0..8 * sz - 1
            <4>1. T(p, j).a \in 0..1 /\ T(p, j).b \in 0..1 /\ T(p, j).c \in 0..1
                BY <1>5
            <4> QED
                BY <4>1
        <3> QED
            BY <3>1 DEF BitArray
    <2> QED
        BY <1>4, <2>1
<1>8. ASSUME NEW j \in 0..8 * sz - 1
      PROVE  XorC(beaver', j) = XorA(beaver', j) * XorB(beaver', j)
    <2>1. /\ [p \in Servers |-> beaver'[p].a[j]] = [p \in Servers |-> T(p, j).a]
          /\ [p \in Servers |-> beaver'[p].b[j]] = [p \in Servers |-> T(p, j).b]
          /\ [p \in Servers |-> beaver'[p].c[j]] = [p \in Servers |-> T(p, j).c]
        BY <1>4
    <2> QED
        BY <2>1, <1>5 DEF XorA, XorB, XorC
<1>9. \A p \in Servers : \A j \in 0..8 * sz - 1 : and_data'[p].x[j] = 0 /\ and_data'[p].y[j] = 0
    BY <1>2, <1>3, ZerosType
<1>10. stage = "pir" => \A p \in Servers : \A j \in 2^L2..8 * sz - 1 :
                             and_data'[p].x[j] = 0 /\ and_data'[p].y[j] = 0
    <2>1. Two(L2) \in Nat
        BY PowerDims
    <2>2. \A j \in Two(L2)..8 * sz - 1 : j \in 0..8 * sz - 1
        BY <2>1, <1>2
    <2> QED
        BY <2>2, <1>9 DEF Two
<1>11. RunInv'
    <2>1. SizeOf(stage', layer') = sz /\ Ops(stage', layer') = ops' /\ stage' = stage
        BY <1>3 DEF sz
    <2>2. \A j \in 0..8 * sz - 1 : Product(lstate', and_data', beaver', j)
        BY <1>3, <1>8 DEF Product
    <2> QED
        BY <2>1, <2>2, <1>3, <1>6, <1>7, <1>10 DEF RunInv
<1> QED
    BY <1>1, <1>2, <1>3, <1>11, LayerFrame DEF LayerStates

\* copy_from at a bit that it writes, and at one that it leaves.
LEMMA CopyBits ==
    ASSUME NEW sz \in Nat, NEW dest \in BitArray(sz), NEW at \in Nat, NEW b \in Nat, NEW src,
           DOMAIN src = 0..b - 1, \A j \in 0..b - 1 : src[j] \in Int, at + b <= 8 * sz
    PROVE  /\ CopyFrom(dest, at, src) \in BitArray(sz)
           /\ \A j \in 0..b - 1 : CopyFrom(dest, at, src)[at + j] = src[j]
           /\ \A i \in 0..8 * sz - 1 :
                  i < at \/ i >= at + b => CopyFrom(dest, at, src)[i] = dest[i]
<1>1. CopyFrom(dest, at, src) =
          [i \in 0..8 * sz - 1 |-> IF i - at \in 0..b - 1 THEN src[i - at] ELSE dest[i]]
    BY DEF CopyFrom, BitArray
<1>2. CopyFrom(dest, at, src) \in BitArray(sz)
    BY <1>1 DEF BitArray
<1>3. ASSUME NEW j \in 0..b - 1 PROVE CopyFrom(dest, at, src)[at + j] = src[j]
    <2>1. at + j \in 0..8 * sz - 1 /\ (at + j) - at = j
        OBVIOUS
    <2> QED
        BY <1>1, <2>1
<1>4. ASSUME NEW i \in 0..8 * sz - 1, i < at \/ i >= at + b
      PROVE  CopyFrom(dest, at, src)[i] = dest[i]
    <2>1. i - at \notin 0..b - 1
        BY <1>4
    <2> QED
        BY <1>1, <2>1
<1> QED
    BY <1>2, <1>3, <1>4

\* execute_operations keeps the invariant.
LEMMA ExecOperationInv ==
    ASSUME QueryInv, NEW o \in ops, ExecOperation(o)
    PROVE  QueryInv'
<1>1. /\ lstate = "DataInitialized" /\ stage \in {"ohe", "pir"}
      /\ ControlInv /\ EncodingInv /\ PirInv /\ RunInv
    BY DEF QueryInv, ExecOperation, ControlInv
<1> DEFINE O == Ops(stage, layer)
           S(p) == Source(p, o)
           w == 2^o.node.len
           b == OpBits(o)
           W(p) == Written(o, S(p))
<1>2. /\ size = SizeOf(stage, layer) /\ size \in Nat
      /\ and_data \in [Servers -> [x : BitArray(size), y : BitArray(size), z : BitArray(size)]]
      /\ beaver \in [Servers -> [a : BitArray(size), b : BitArray(size), c : BitArray(size)]]
      /\ ops \subseteq O /\ o \in O
    BY <1>1, SizeType DEF RunInv
<1>3. /\ o.st \in Nat /\ o.stream \in {0, 1} /\ o.n \in Nat \ {0} /\ w \in Nat \ {0}
      /\ b \in Nat /\ o.st + b <= 8 * size /\ b = o.n * w
    <2>1. layer \in 0..4
        BY <1>1, LayerRange
    <2> QED
        BY <1>2, <2>1, OpFits DEF OpBits
<1>4. \A p \in Servers : DOMAIN W(p) = 0..b - 1 /\ \A j \in 0..b - 1 : W(p)[j] \in Int
    <2> SUFFICES ASSUME NEW p \in Servers
                 PROVE  DOMAIN W(p) = 0..b - 1 /\ \A j \in 0..b - 1 : W(p)[j] \in Int
        OBVIOUS
    <2> DEFINE s == S(p)
    <2>1. s \in [0..w - 1 -> Int] /\ Width(s) = w
        BY <1>1, <1>2, SourceType
    <2> HIDE DEF s, w
    <2>2. /\ DOMAIN Written(o, s) = 0..(o.n * w) - 1
          /\ \A j \in 0..(o.n * w) - 1 : Written(o, s)[j] \in Int
        BY <1>3, <2>1, WrittenBits
    <2> HIDE DEF b
    <2> QED
        BY <1>3, <2>2 DEF s
<1>5. /\ ops' = ops \ {o} /\ lstate' = (IF ops = {o} THEN "OperationsExecuted" ELSE lstate)
      /\ UNCHANGED <<queryVars, stage, layer, size, beaver, prev, used, pir, rec, e, arith, token>>
      /\ and_data' = [p \in Servers |->
             IF o.stream = 0
             THEN [and_data[p] EXCEPT !.x = CopyFrom(@, o.st, W(p))]
             ELSE [and_data[p] EXCEPT !.y = CopyFrom(@, o.st, W(p))]]
    BY DEF ExecOperation
<1> HIDE DEF S, w, W, b
<1>6. \A p \in Servers :
          /\ and_data[p].x \in BitArray(size) /\ and_data[p].y \in BitArray(size)
          /\ and_data[p].z \in BitArray(size)
    BY <1>2
<1>7. \A p \in Servers : \A i \in {0, 1} :
          /\ Stream(and_data[p], i) \in BitArray(size)
          /\ i # o.stream => Stream(and_data'[p], i) = Stream(and_data[p], i)
          /\ i = o.stream => Stream(and_data'[p], i) = CopyFrom(Stream(and_data[p], i), o.st, W(p))
    <2> SUFFICES ASSUME NEW p \in Servers, NEW i \in {0, 1}
                 PROVE  /\ Stream(and_data[p], i) \in BitArray(size)
                        /\ i # o.stream => Stream(and_data'[p], i) = Stream(and_data[p], i)
                        /\ i = o.stream => Stream(and_data'[p], i)
                                               = CopyFrom(Stream(and_data[p], i), o.st, W(p))
        OBVIOUS
    <2>1. and_data[p] \in [x : BitArray(size), y : BitArray(size), z : BitArray(size)]
        BY <1>2
    <2>2. CASE o.stream = 0
        <3>1. and_data'[p] = [and_data[p] EXCEPT !.x = CopyFrom(@, o.st, W(p))]
            BY <1>5, <2>2
        <3>2. /\ and_data'[p].x = CopyFrom(and_data[p].x, o.st, W(p))
              /\ and_data'[p].y = and_data[p].y
            BY <2>1, <3>1
        <3> QED
            BY <2>2, <3>2, <1>6 DEF Stream
    <2>3. CASE o.stream = 1
        <3>1. and_data'[p] = [and_data[p] EXCEPT !.y = CopyFrom(@, o.st, W(p))]
            BY <1>5, <2>3
        <3>2. /\ and_data'[p].y = CopyFrom(and_data[p].y, o.st, W(p))
              /\ and_data'[p].x = and_data[p].x
            BY <2>1, <3>1
        <3> QED
            BY <2>3, <3>2, <1>6 DEF Stream
    <2> QED
        BY <2>2, <2>3, <1>3
<1>8. ASSUME NEW p \in Servers, NEW i \in {0, 1}
      PROVE  /\ Stream(and_data'[p], i) \in BitArray(size)
             /\ i = o.stream => \A j \in 0..b - 1 : Stream(and_data'[p], i)[o.st + j] = W(p)[j]
             /\ \A j \in 0..8 * size - 1 :
                    i # o.stream \/ j < o.st \/ j >= o.st + b =>
                        Stream(and_data'[p], i)[j] = Stream(and_data[p], i)[j]
    <2>1. CASE i # o.stream
        BY <2>1, <1>7
    <2>2. CASE i = o.stream
        <3> DEFINE D == Stream(and_data[p], i)
                   at == o.st
                   V == W(p)
        <3>1. Stream(and_data'[p], i) = CopyFrom(D, at, V) /\ D \in BitArray(size)
            BY <2>2, <1>7
        <3>2. DOMAIN V = 0..b - 1 /\ \A j \in 0..b - 1 : V[j] \in Int
            BY <1>4
        <3>3. at \in Nat /\ b \in Nat /\ at + b <= 8 * size /\ size \in Nat
            BY <1>2, <1>3
        <3> HIDE DEF D, at, V
        <3>4. /\ CopyFrom(D, at, V) \in BitArray(size)
              /\ \A j \in 0..b - 1 : CopyFrom(D, at, V)[at + j] = V[j]
              /\ \A j \in 0..8 * size - 1 : j < at \/ j >= at + b => CopyFrom(D, at, V)[j] = D[j]
            BY <3>1, <3>2, <3>3, CopyBits
        <3> QED
            BY <2>2, <3>1, <3>4 DEF D, at, V
    <2> QED
        BY <2>1, <2>2
<1>9. and_data' \in [Servers -> [x : BitArray(size), y : BitArray(size), z : BitArray(size)]]
    <2> SUFFICES ASSUME NEW p \in Servers
                 PROVE  and_data'[p] \in [x : BitArray(size), y : BitArray(size), z : BitArray(size)]
        BY <1>5
    <2>1. Stream(and_data'[p], 0) \in BitArray(size) /\ Stream(and_data'[p], 1) \in BitArray(size)
        BY <1>8
    <2>2. and_data'[p].x \in BitArray(size) /\ and_data'[p].y \in BitArray(size)
        BY <2>1 DEF Stream
    <2>3. and_data[p] \in [x : BitArray(size), y : BitArray(size), z : BitArray(size)]
        BY <1>2
    <2>4. and_data'[p] = IF o.stream = 0
                         THEN [and_data[p] EXCEPT !.x = CopyFrom(@, o.st, W(p))]
                         ELSE [and_data[p] EXCEPT !.y = CopyFrom(@, o.st, W(p))]
        BY <1>5
    <2>5. /\ and_data'[p] = [x |-> and_data'[p].x, y |-> and_data'[p].y, z |-> and_data'[p].z]
          /\ and_data'[p].z = and_data[p].z
        BY <2>3, <2>4
    <2> QED
        BY <2>2, <2>5, <1>6
<1>10. ASSUME NEW q \in O \ (ops \ {o}), NEW p \in Servers
       PROVE  \A j \in 0..OpBits(q) - 1 :
                  Stream(and_data'[p], q.stream)[q.st + j] = Written(q, Source(p, q))[j]
    <2>1. CASE q = o
        BY <2>1, <1>3, <1>8 DEF W, S, b
    <2>2. CASE q # o
        <3>1. q \in O \ ops
            BY <2>2
        <3>2. Executed(and_data, q, p)
            BY <3>1, <1>1 DEF RunInv
        <3>3. /\ q.st \in Nat /\ q.stream \in {0, 1} /\ OpBits(q) \in Nat
              /\ q.st + OpBits(q) <= 8 * size
            <4>1. layer \in 0..4
                BY <1>1, LayerRange
            <4> QED
                BY <4>1, <1>2, OpFits
        <3>4. q.stream = o.stream =>
                  q.st + OpBits(q) <= o.st \/ o.st + b <= q.st
            <4>1. layer \in 0..4
                BY <1>1, LayerRange
            <4> QED
                BY <4>1, <1>2, <2>2, OpsApart DEF b
        <3> SUFFICES ASSUME NEW j \in 0..OpBits(q) - 1
                     PROVE  Stream(and_data'[p], q.stream)[q.st + j]
                                = Stream(and_data[p], q.stream)[q.st + j]
            BY <3>2 DEF Executed
        <3>5. q.st + j \in 0..8 * size - 1
            BY <3>3, <1>2
        <3>6. q.stream # o.stream \/ q.st + j < o.st \/ q.st + j >= o.st + b
            BY <3>3, <3>4, <1>3
        <3> QED
            BY <3>3, <3>5, <3>6, <1>8
    <2> QED
        BY <2>1, <2>2
<1>11. ASSUME stage = "pir", NEW p \in Servers, NEW j \in 2^L2..8 * size - 1
       PROVE  and_data'[p].x[j] = 0 /\ and_data'[p].y[j] = 0
    <2>1. o \in PirOps
        BY <1>2, <1>11 DEF Ops
    <2>2. o.st = 0 /\ b = 2^L2 /\ 2^L2 \in Nat \ {0}
        BY <2>1, PirOp DEF b
    <2>3. j \in 0..8 * size - 1 /\ j >= o.st + b
        BY <2>2, <1>2, <1>3
    <2>4. and_data[p].x[j] = 0 /\ and_data[p].y[j] = 0
        BY <1>1, <1>11 DEF RunInv
    <2>5. /\ Stream(and_data'[p], 0)[j] = Stream(and_data[p], 0)[j]
          /\ Stream(and_data'[p], 1)[j] = Stream(and_data[p], 1)[j]
        BY <2>3, <1>8
    <2> QED
        BY <2>4, <2>5 DEF Stream
<1>12. RunInv'
    <2>1. /\ UNCHANGED <<idx, seed, stage, layer, prev, pir>> /\ size' = size /\ beaver' = beaver
          /\ Ops(stage', layer') = O /\ SizeOf(stage', layer') = SizeOf(stage, layer)
        BY <1>5 DEF queryVars
    <2>2. \A q \in O \ ops' : \A p \in Servers : Executed(and_data, q, p)'
        <3> SUFFICES ASSUME NEW q \in O \ ops', NEW p \in Servers
                     PROVE  Executed(and_data, q, p)'
            OBVIOUS
        <3>1. Source(p, q)' = Source(p, q)
            BY <2>1, SameSource
        <3>2. q \in O \ (ops \ {o})
            BY <1>5
        <3>3. \A j \in 0..OpBits(q) - 1 :
                  Stream(and_data'[p], q.stream)[q.st + j] = Written(q, Source(p, q))[j]
            BY <3>2, <1>10
        <3> QED
            BY <3>1, <3>3 DEF Executed
    <2>3. lstate' \in {"DataInitialized", "OperationsExecuted"}
        BY <1>1, <1>5
    <2>4. \A j \in 0..8 * size - 1 : Product(lstate', and_data', beaver', j)
        <3> SUFFICES ASSUME NEW j \in 0..8 * size - 1
                     PROVE  Product(lstate', and_data', beaver', j)
            OBVIOUS
        <3>1. Product(lstate, and_data, beaver, j)
            BY <1>1 DEF RunInv
        <3>2. XorC(beaver, j) = XorA(beaver, j) * XorB(beaver, j)
            BY <3>1, <1>1 DEF Product
        <3> QED
            BY <2>1, <2>3, <3>2 DEF Product
    <2>5. ops' \subseteq O /\ (lstate' # "DataInitialized" => ops' = {})
        BY <1>1, <1>2, <1>5
    <2>6. \A p \in Servers : \A j \in 2^L2..8 * size - 1 : stage = "pir" =>
              and_data'[p].x[j] = 0 /\ and_data'[p].y[j] = 0
        BY <1>11
    <2> HIDE DEF O
    <2> QED
        BY <1>2, <1>9, <2>1, <2>2, <2>4, <2>5, <2>6 DEF RunInv
<1>13. lstate' \in LayerStates /\ used' \in Nat
    BY <1>1, <1>5 DEF LayerStates, ControlInv
<1> QED
    BY <1>1, <1>5, <1>12, <1>13, LayerFrame

AndArrays(sz) == [Servers -> [x : BitArray(sz), y : BitArray(sz), z : BitArray(sz)]]
BeaverArrays(sz) == [Servers -> [a : BitArray(sz), b : BitArray(sz), c : BitArray(sz)]]

\* A round of a layer, after its operations.
LEMMA RoundInv ==
    ASSUME QueryInv, stage \in {"ohe", "pir"}, lstate \notin {"Ticketing", "DataInitialized"},
           UNCHANGED <<queryVars, stage, layer, size, ops, prev, used, pir, rec, e, arith, token>>,
           lstate' \in LayerStates,
           and_data' \in AndArrays(size), beaver' \in BeaverArrays(size),
           \A p \in Servers : /\ and_data'[p].x = and_data[p].x
                              /\ and_data'[p].y = and_data[p].y,
           \A j \in 0..8 * size - 1 : Product(lstate', and_data', beaver', j)
    PROVE  QueryInv'
<1>1. /\ UNCHANGED <<idx, seed, stage, layer, prev, pir>> /\ size' = size /\ ops' = ops
      /\ Ops(stage', layer') = Ops(stage, layer) /\ SizeOf(stage', layer') = SizeOf(stage, layer)
    BY DEF queryVars
<1>2. ControlInv /\ RunInv
    BY DEF QueryInv
<1>3. ASSUME NEW o \in Ops(stage, layer) \ ops, NEW p \in Servers
      PROVE  Executed(and_data, o, p)'
    <2>1. Executed(and_data, o, p)
        BY <1>2, <1>3 DEF RunInv
    <2>2. Source(p, o)' = Source(p, o)
        BY <1>1, SameSource
    <2>3. Stream(and_data'[p], o.stream) = Stream(and_data[p], o.stream)
        BY DEF Stream
    <2> QED
        BY <2>1, <2>2, <2>3 DEF Executed
<1>4. stage = "pir" => \A p \in Servers : \A j \in 2^L2..8 * size - 1 :
                           and_data'[p].x[j] = 0 /\ and_data'[p].y[j] = 0
    BY <1>2 DEF RunInv
<1>5. size = SizeOf(stage, layer) /\ ops \subseteq Ops(stage, layer) /\ ops = {}
    BY <1>2 DEF RunInv
<1>6. RunInv'
    BY <1>1, <1>3, <1>4, <1>5 DEF RunInv, AndArrays, BeaverArrays
<1>7. used' \in Nat
    BY <1>2 DEF ControlInv
<1> QED
    BY <1>6, <1>7, LayerFrame

\* The arrays of a layer that runs.
LEMMA RunTypes ==
    ASSUME QueryInv, stage \in {"ohe", "pir"}, lstate # "Ticketing"
    PROVE  /\ size \in Nat /\ and_data \in AndArrays(size) /\ beaver \in BeaverArrays(size)
           /\ size = SizeOf(stage, layer)
           /\ \A p \in Servers : \A j \in 0..8 * size - 1 :
                  /\ and_data[p].x[j] \in Int /\ and_data[p].y[j] \in Int /\ and_data[p].z[j] \in Int
                  /\ beaver[p].a[j] \in Int /\ beaver[p].b[j] \in Int /\ beaver[p].c[j] \in Int
           /\ \A j \in 0..8 * size - 1 : Product(lstate, and_data, beaver, j)
<1>1. ControlInv /\ RunInv
    BY DEF QueryInv
<1>2. /\ size \in Nat /\ and_data \in AndArrays(size) /\ beaver \in BeaverArrays(size)
      /\ size = SizeOf(stage, layer)
      /\ \A j \in 0..8 * size - 1 : Product(lstate, and_data, beaver, j)
    BY <1>1, SizeType DEF RunInv, AndArrays, BeaverArrays
<1>3. \A p \in Servers : \A j \in 0..8 * size - 1 :
          /\ and_data[p].x[j] \in Int /\ and_data[p].y[j] \in Int /\ and_data[p].z[j] \in Int
          /\ beaver[p].a[j] \in Int /\ beaver[p].b[j] \in Int /\ beaver[p].c[j] \in Int
    <2> TAKE p \in Servers
    <2> TAKE j \in 0..8 * size - 1
    <2>1. /\ and_data[p] \in [x : BitArray(size), y : BitArray(size), z : BitArray(size)]
          /\ beaver[p] \in [a : BitArray(size), b : BitArray(size), c : BitArray(size)]
        BY <1>2 DEF AndArrays, BeaverArrays
    <2>2. /\ and_data[p].x \in BitArray(size) /\ and_data[p].y \in BitArray(size)
          /\ and_data[p].z \in BitArray(size) /\ beaver[p].a \in BitArray(size)
          /\ beaver[p].b \in BitArray(size) /\ beaver[p].c \in BitArray(size)
        BY <2>1
    <2> QED
        BY <2>2 DEF BitArray
<1> QED
    BY <1>2, <1>3

\* blind_and_with_beaver keeps the invariant.
LEMMA BlindAndWithBeaverInv ==
    ASSUME QueryInv, BlindAndWithBeaver
    PROVE  QueryInv'
<1>1. lstate = "OperationsExecuted" /\ stage \in {"ohe", "pir"}
    BY DEF QueryInv, BlindAndWithBeaver, ControlInv
<1>2. /\ size \in Nat /\ and_data \in AndArrays(size) /\ beaver \in BeaverArrays(size)
      /\ \A p \in Servers : \A j \in 0..8 * size - 1 :
             /\ and_data[p].x[j] \in Int /\ and_data[p].y[j] \in Int
             /\ beaver[p].a[j] \in Int /\ beaver[p].b[j] \in Int
      /\ \A j \in 0..8 * size - 1 : Product(lstate, and_data, beaver, j)
    BY <1>1, RunTypes
<1>3. /\ beaver' = [p \in Servers |->
             [beaver[p] EXCEPT !.a = Xored(@, and_data[p].x), !.b = Xored(@, and_data[p].y)]]
      /\ lstate' = "SendingBeaverShares" /\ and_data' = and_data
      /\ UNCHANGED <<queryVars, stage, layer, size, ops, prev, used, pir, rec, e, arith, token>>
    BY DEF BlindAndWithBeaver
<1>4. ASSUME NEW u \in BitArray(size), NEW v \in BitArray(size)
      PROVE  /\ Xored(u, v) \in BitArray(size)
             /\ \A j \in 0..8 * size - 1 : Xored(u, v)[j] = (u[j] + v[j]) % 2
    <2>1. Xored(u, v) = [j \in 0..8 * size - 1 |-> (u[j] + v[j]) % 2]
        BY DEF Xored, BitArray
    <2>2. \A j \in 0..8 * size - 1 : (u[j] + v[j]) % 2 \in Int
        <3> SUFFICES ASSUME NEW j \in 0..8 * size - 1 PROVE (u[j] + v[j]) % 2 \in Int
            OBVIOUS
        <3>1. u[j] \in Int /\ v[j] \in Int
            BY DEF BitArray
        <3> QED
            BY <3>1
    <2> QED
        BY <2>1, <2>2 DEF BitArray
<1>5. ASSUME NEW p \in Servers
      PROVE  /\ beaver'[p].a = Xored(beaver[p].a, and_data[p].x)
             /\ beaver'[p].b = Xored(beaver[p].b, and_data[p].y)
             /\ beaver'[p].c = beaver[p].c
             /\ beaver[p].a \in BitArray(size) /\ beaver[p].b \in BitArray(size)
             /\ beaver[p].c \in BitArray(size)
             /\ and_data[p].x \in BitArray(size) /\ and_data[p].y \in BitArray(size)
             /\ beaver'[p] \in [a : BitArray(size), b : BitArray(size), c : BitArray(size)]
    <2> DEFINE A == Xored(beaver[p].a, and_data[p].x)
               B == Xored(beaver[p].b, and_data[p].y)
    <2>1. /\ and_data[p] \in [x : BitArray(size), y : BitArray(size), z : BitArray(size)]
          /\ beaver[p] \in [a : BitArray(size), b : BitArray(size), c : BitArray(size)]
        BY <1>2 DEF AndArrays, BeaverArrays
    <2>2. /\ and_data[p].x \in BitArray(size) /\ and_data[p].y \in BitArray(size)
          /\ beaver[p].a \in BitArray(size) /\ beaver[p].b \in BitArray(size)
          /\ beaver[p].c \in BitArray(size)
        BY <2>1
    <2>3. beaver'[p] = [beaver[p] EXCEPT !.a = A, !.b = B]
        BY <1>3
    <2>4. A \in BitArray(size) /\ B \in BitArray(size)
        BY <1>4, <2>2
    <2> HIDE DEF A, B
    <2>5. /\ beaver'[p].a = A /\ beaver'[p].b = B /\ beaver'[p].c = beaver[p].c
          /\ beaver'[p] \in [a : BitArray(size), b : BitArray(size), c : BitArray(size)]
        BY <2>1, <2>3, <2>4
    <2> QED
        BY <2>2, <2>5 DEF A, B
<1>6. beaver' \in BeaverArrays(size)
    BY <1>3, <1>5 DEF BeaverArrays
<1>7. ASSUME NEW j \in 0..8 * size - 1
      PROVE  Product(lstate', and_data', beaver', j)
    <2> DEFINE a == [p \in Servers |-> beaver[p].a[j]]
               b == [p \in Servers |-> beaver[p].b[j]]
               x == [p \in Servers |-> and_data[p].x[j]]
               y == [p \in Servers |-> and_data[p].y[j]]
               u == [p \in Servers |-> beaver'[p].a[j]]
               v == [p \in Servers |-> beaver'[p].b[j]]
    <2>1. \A p \in Servers :
              /\ a[p] \in Int /\ b[p] \in Int /\ x[p] \in Int /\ y[p] \in Int
              /\ u[p] = (a[p] + x[p]) % 2 /\ v[p] = (b[p] + y[p]) % 2
        BY <1>2, <1>4, <1>5
    <2>2. /\ DOMAIN a = Servers /\ DOMAIN b = Servers /\ DOMAIN x = Servers /\ DOMAIN y = Servers
          /\ DOMAIN u = Servers /\ DOMAIN v = Servers
        OBVIOUS
    <2>3. /\ XorA(beaver, j) = Xor(a) /\ XorB(beaver, j) = Xor(b)
          /\ XorX(and_data, j) = Xor(x) /\ XorY(and_data, j) = Xor(y)
          /\ XorA(beaver', j) = Xor(u) /\ XorB(beaver', j) = Xor(v)
        BY DEF XorA, XorB, XorX, XorY
    <2> HIDE DEF a, b, x, y, u, v
    <2>4. Xor(u) = (Xor(a) + Xor(x)) % 2
        BY <2>1, <2>2, XorBlind
    <2>5. Xor(v) = (Xor(b) + Xor(y)) % 2
        BY <2>1, <2>2, XorBlind
    <2>6. Xor(a) \in {0, 1} /\ Xor(b) \in {0, 1} /\ Xor(x) \in {0, 1} /\ Xor(y) \in {0, 1}
        BY <2>1, <2>2, XorBit
    <2>7. XorC(beaver', j) = XorC(beaver, j)
        <3>1. [p \in Servers |-> beaver'[p].c[j]] = [p \in Servers |-> beaver[p].c[j]]
            BY <1>5
        <3> QED
            BY <3>1 DEF XorC
    <2>8. XorC(beaver, j) = Xor(a) * Xor(b)
        BY <1>1, <1>2, <2>3 DEF Product
    <2>9. Xor(a) = (Xor(u) + Xor(x)) % 2 /\ Xor(b) = (Xor(v) + Xor(y)) % 2
        BY <2>4, <2>5, <2>6
    <2> QED
        BY <1>3, <2>3, <2>7, <2>8, <2>9 DEF Product
<1> QED
    BY <1>1, <1>2, <1>3, <1>6, <1>7, RoundInv DEF LayerStates

\* The exchange of the Beaver shares keeps the invariant.
LEMMA ReconsBeaverUVInv ==
    ASSUME QueryInv, ReconsBeaverUV
    PROVE  QueryInv'
<1>1. lstate = "SendingBeaverShares" /\ stage \in {"ohe", "pir"}
    BY DEF QueryInv, ReconsBeaverUV, ControlInv
<1>2. /\ size \in Nat /\ and_data \in AndArrays(size) /\ beaver \in BeaverArrays(size)
      /\ \A p \in Servers : \A j \in 0..8 * size - 1 :
             beaver[p].a[j] \in Int /\ beaver[p].b[j] \in Int
      /\ \A j \in 0..8 * size - 1 : Product(lstate, and_data, beaver, j)
    BY <1>1, RunTypes
<1> DEFINE u == Reconstruct(8 * size, [p \in Servers |-> beaver[p].a])
           v == Reconstruct(8 * size, [p \in Servers |-> beaver[p].b])
<1>3. /\ beaver' = [p \in Servers |-> [beaver[p] EXCEPT !.a = u, !.b = v]]
      /\ lstate' = "BeaverSharesReceived" /\ and_data' = and_data
      /\ UNCHANGED <<queryVars, stage, layer, size, ops, prev, used, pir, rec, e, arith, token>>
    BY DEF ReconsBeaverUV
<1>4. /\ u = [j \in 0..8 * size - 1 |-> XorA(beaver, j)]
      /\ v = [j \in 0..8 * size - 1 |-> XorB(beaver, j)]
    BY DEF Reconstruct, XorA, XorB
<1>5. \A j \in 0..8 * size - 1 : XorA(beaver, j) \in {0, 1} /\ XorB(beaver, j) \in {0, 1}
    <2> SUFFICES ASSUME NEW j \in 0..8 * size - 1
                 PROVE  XorA(beaver, j) \in {0, 1} /\ XorB(beaver, j) \in {0, 1}
        OBVIOUS
    <2> DEFINE a == [p \in Servers |-> beaver[p].a[j]]
               b == [p \in Servers |-> beaver[p].b[j]]
    <2>1. DOMAIN a = Servers /\ DOMAIN b = Servers /\ \A p \in Servers : a[p] \in Int /\ b[p] \in Int
        BY <1>2
    <2>2. XorA(beaver, j) = Xor(a) /\ XorB(beaver, j) = Xor(b)
        BY DEF XorA, XorB
    <2> HIDE DEF a, b
    <2> QED
        BY <2>1, <2>2, XorBit
<1> HIDE DEF u, v
<1>6. u \in BitArray(size) /\ v \in BitArray(size)
    BY <1>4, <1>5 DEF BitArray
<1>7. ASSUME NEW p \in Servers
      PROVE  /\ beaver'[p].a = u /\ beaver'[p].b = v /\ beaver'[p].c = beaver[p].c
             /\ beaver'[p] \in [a : BitArray(size), b : BitArray(size), c : BitArray(size)]
    <2>1. beaver[p] \in [a : BitArray(size), b : BitArray(size), c : BitArray(size)]
        BY <1>2 DEF BeaverArrays
    <2>2. beaver'[p] = [beaver[p] EXCEPT !.a = u, !.b = v]
        BY <1>3
    <2> QED
        BY <1>6, <2>1, <2>2
<1>8. beaver' \in BeaverArrays(size)
    BY <1>3, <1>7 DEF BeaverArrays
<1>9. ASSUME NEW j \in 0..8 * size - 1
      PROVE  Product(lstate', and_data', beaver', j)
    <2>1. \A p \in Servers : /\ beaver'[p].a[j] = XorA(beaver, j)
                             /\ beaver'[p].b[j] = XorB(beaver, j)
        BY <1>4, <1>7
    <2>2. XorC(beaver', j) = XorC(beaver, j)
        <3>1. [p \in Servers |-> beaver'[p].c[j]] = [p \in Servers |-> beaver[p].c[j]]
            BY <1>7
        <3> QED
            BY <3>1 DEF XorC
    <2>3. XorC(beaver, j) = ((XorA(beaver, j) + XorX(and_data, j)) % 2)
                                * ((XorB(beaver, j) + XorY(and_data, j)) % 2)
        BY <1>1, <1>2 DEF Product
    <2>4. 0 \in Servers
        BY ServerSet
    <2> QED
        BY <1>3, <1>5, <2>1, <2>2, <2>3, <2>4 DEF Product
<1> QED
    BY <1>1, <1>2, <1>3, <1>8, <1>9, RoundInv DEF LayerStates

\* finish_and_exchange keeps the invariant.
LEMMA FinishAndExchangeInv ==
    ASSUME QueryInv, FinishAndExchange
    PROVE  QueryInv'
<1>1. lstate = "BeaverSharesReceived" /\ stage \in {"ohe", "pir"}
    BY DEF QueryInv, FinishAndExchange, ControlInv
<1>2. /\ size \in Nat /\ and_data \in AndArrays(size) /\ beaver \in BeaverArrays(size)
      /\ \A p \in Servers : \A j \in 0..8 * size - 1 :
             /\ and_data[p].x[j] \in Int /\ and_data[p].y[j] \in Int /\ beaver[p].c[j] \in Int
      /\ \A j \in 0..8 * size - 1 : Product(lstate, and_data, beaver, j)
    BY <1>1, RunTypes
<1> DEFINE Z(p, j) == AndBit(p, and_data[p].x[j], and_data[p].y[j],
                             beaver[p].a[j], beaver[p].b[j], beaver[p].c[j])
<1>3. /\ and_data' = [p \in Servers |->
             [and_data[p] EXCEPT !.z = [j \in DOMAIN and_data[p].x |-> Z(p, j)]]]
      /\ lstate' = "Finished" /\ beaver' = beaver
      /\ UNCHANGED <<queryVars, stage, layer, size, ops, prev, used, pir, rec, e, arith, token>>
    BY DEF FinishAndExchange
<1> HIDE DEF Z
<1>4. ASSUME NEW p \in Servers
      PROVE  /\ and_data'[p].x = and_data[p].x /\ and_data'[p].y = and_data[p].y
             /\ and_data'[p].z = [j \in 0..8 * size - 1 |-> Z(p, j)]
             /\ [j \in 0..8 * size - 1 |-> Z(p, j)] \in BitArray(size) =>
                    and_data'[p] \in [x : BitArray(size), y : BitArray(size), z : BitArray(size)]
    <2> DEFINE z == [j \in 0..8 * size - 1 |-> Z(p, j)]
    <2>1. and_data[p] \in [x : BitArray(size), y : BitArray(size), z : BitArray(size)]
        BY <1>2 DEF AndArrays
    <2>2. and_data[p].x \in BitArray(size)
        BY <2>1
    <2>3. DOMAIN and_data[p].x = 0..8 * size - 1
        BY <2>2 DEF BitArray
    <2>4. and_data'[p] = [and_data[p] EXCEPT !.z = z]
        BY <1>3, <2>3
    <2> HIDE DEF z
    <2>5. /\ and_data'[p].x = and_data[p].x /\ and_data'[p].y = and_data[p].y
          /\ and_data'[p].z = z
          /\ z \in BitArray(size) =>
                 and_data'[p] \in [x : BitArray(size), y : BitArray(size), z : BitArray(size)]
        BY <2>1, <2>4
    <2> QED
        BY <2>5 DEF z
<1>5. ASSUME NEW j \in 0..8 * size - 1
      PROVE  /\ \A p \in Servers : Z(p, j) \in Int
             /\ Product(lstate', and_data', beaver', j)
    <2> DEFINE x == [p \in Servers |-> and_data[p].x[j]]
               y == [p \in Servers |-> and_data[p].y[j]]
               c == [p \in Servers |-> beaver[p].c[j]]
               z == [p \in Servers |-> Z(p, j)]
               u == beaver[0].a[j]
               v == beaver[0].b[j]
    <2>1. /\ u \in {0, 1} /\ v \in {0, 1}
          /\ \A p \in Servers : beaver[p].a[j] = u /\ beaver[p].b[j] = v
          /\ Xor(c) = ((u + Xor(x)) % 2) * ((v + Xor(y)) % 2)
        BY <1>1, <1>2 DEF Product, XorC, XorX, XorY
    <2>2. \A p \in Servers : /\ x[p] \in Int /\ y[p] \in Int /\ c[p] \in Int
                             /\ z[p] = AndBit(p, x[p], y[p], u, v, c[p])
        BY <1>2, <2>1 DEF Z
    <2>3. DOMAIN x = Servers /\ DOMAIN y = Servers /\ DOMAIN c = Servers /\ DOMAIN z = Servers
        OBVIOUS
    <2>4. /\ XorX(and_data', j) = Xor(x) /\ XorY(and_data', j) = Xor(y)
          /\ XorZ(and_data', j) = Xor(z) /\ \A p \in Servers : z[p] = Z(p, j)
        <3>0. \A p \in Servers : /\ and_data'[p].x[j] = and_data[p].x[j]
                                  /\ and_data'[p].y[j] = and_data[p].y[j]
                                  /\ and_data'[p].z[j] = Z(p, j)
            BY <1>4
        <3>1. /\ [p \in Servers |-> and_data'[p].x[j]] = x
              /\ [p \in Servers |-> and_data'[p].y[j]] = y
              /\ [p \in Servers |-> and_data'[p].z[j]] = z
            BY <3>0
        <3> QED
            BY <3>1 DEF XorX, XorY, XorZ
    <2> HIDE DEF x, y, c, z, u, v
    <2>5. (\A p \in Servers : z[p] \in Int) /\ Xor(z) = Xor(x) * Xor(y)
        <3>1. OpenGate(x, y, c, z, u, v)
            BY <2>1, <2>2, <2>3, Zenon DEF OpenGate
        <3> QED
            BY <3>1, AndShares
    <2> QED
        BY <1>3, <2>4, <2>5 DEF Product
<1>6. and_data' \in AndArrays(size)
    <2>1. \A p \in Servers : [j \in 0..8 * size - 1 |-> Z(p, j)] \in BitArray(size)
        BY <1>5 DEF BitArray
    <2> QED
        BY <1>3, <1>4, <2>1 DEF AndArrays
<1>7. \A p \in Servers : and_data'[p].x = and_data[p].x /\ and_data'[p].y = and_data[p].y
    BY <1>4
<1> QED
    BY <1>1, <1>2, <1>3, <1>5, <1>6, <1>7, RoundInv DEF LayerStates

----------------------------------------------------------------------------
(* The encodings.                                                          *)

\* The inputs of gate n, in bit j of its ticket, are bits of the encodings of
\* its halves.
LEMMA GateInputs ==
    ASSUME QueryInv, stage = "ohe", lstate = "Finished",
           NEW n \in Gates(Level[layer]), NEW j \in 0..2^n.len - 1
    PROVE  /\ Start(layer, n) + j \in 0..8 * size - 1
           /\ XorX(and_data, Start(layer, n) + j) = OneHot(Low(n))[j % 2^Low(n).len]
           /\ XorY(and_data, Start(layer, n) + j) = OneHot(High(n))[j \div 2^Low(n).len]
<1>1. ControlInv /\ EncodingInv /\ PirInv /\ RunInv /\ stage \in {"ohe", "pir"}
    BY DEF QueryInv
<1>2. layer \in 0..4 /\ idx \in Nat
    BY <1>1, LayerRange, IdxParts DEF ControlInv
<1> DEFINE R == Replicate(layer, n)
           X == BitExpand(layer, n)
           A == 2^Low(n).len
           B == 2^High(n).len
           W == 2^n.len
           st == Start(layer, n)
<1>3. /\ A \in Nat \ {0} /\ B \in Nat \ {0} /\ W = B * A /\ W = A * B
    BY <1>2, GateBits
<1>4. j % A \in 0..A - 1 /\ j \div A \in 0..B - 1
    BY <1>2, OneHotProduct
<1>5. R \in Ops(stage, layer) /\ X \in Ops(stage, layer) /\ size = SizeOf(stage, layer) /\ ops = {}
    BY <1>1 DEF Ops, OheOps, RunInv
<1>6. /\ R.op = "Replicate" /\ R.n = B /\ R.node = Low(n) /\ R.stream = 0 /\ R.st = st
      /\ X.op = "BitExpand" /\ X.n = A /\ X.node = High(n) /\ X.stream = 1 /\ X.st = st
    BY DEF Replicate, BitExpand
<1>7. OpBits(R) = W /\ OpBits(X) = W
    BY <1>3, <1>6 DEF OpBits
<1>8. st + j \in 0..8 * size - 1
    <2>1. R.st \in Nat /\ OpBits(R) \in Nat /\ SizeOf(stage, layer) \in Nat
          /\ R.st + OpBits(R) <= 8 * SizeOf(stage, layer)
        BY <1>2, <1>5, OpFits
    <2> HIDE DEF R, st, W
    <2>2. j \in 0..W - 1
        BY DEF W
    <2> QED
        BY <2>1, <2>2, <1>5, <1>6, <1>7
<1>9. Low(n) \in Level[layer + 1] /\ High(n) \in Level[layer + 1]
    BY <1>2, ChildIn
<1>10. NodeOk(layer + 1, Low(n), prev) /\ NodeOk(layer + 1, High(n), prev)
    BY <1>1, <1>9 DEF EncodingInv
<1>11. ASSUME NEW p \in Servers
       PROVE  /\ and_data[p].x[st + j] = NodeData(p, layer + 1, Low(n), prev[p])[j % A]
              /\ and_data[p].y[st + j] = NodeData(p, layer + 1, High(n), prev[p])[j \div A]
    <2> DEFINE s == Source(p, R)
               t == Source(p, X)
    <2>1. s = NodeData(p, layer + 1, Low(n), prev[p]) /\ t = NodeData(p, layer + 1, High(n), prev[p])
        BY <1>6 DEF Source
    <2>2. s \in [0..A - 1 -> Int] /\ Width(s) = A /\ t \in [0..B - 1 -> Int] /\ Width(t) = B
        BY <1>1, <1>5, <1>6, SourceType
    <2>3. Executed(and_data, R, p) /\ Executed(and_data, X, p)
        BY <1>1, <1>5 DEF RunInv
    <2>4. and_data[p].x[st + j] = Written(R, s)[j] /\ and_data[p].y[st + j] = Written(X, t)[j]
        BY <2>3, <1>6, <1>7 DEF Executed, Stream
    <2> HIDE DEF R, X, A, B, s, t, st
    <2>5. Written(R, s)[j] = s[j % A]
        <3>0. R.n \in Nat \ {0} /\ A \in Nat \ {0}
            BY <1>3, <1>6
        <3>1. Writes(R, s, A) /\ R.op # "BitExpand"
            BY <3>0, <2>2, <1>6 DEF Writes
        <3>2. j \in 0..(R.n * A) - 1
            BY <1>3, <1>6 DEF W
        <3> QED
            BY <3>1, <3>2, WrittenAt
    <2>6. Written(X, t)[j] = t[j \div A]
        <3>0. X.n \in Nat \ {0} /\ B \in Nat \ {0}
            BY <1>3, <1>6
        <3>1. Writes(X, t, B) /\ X.op = "BitExpand" /\ X.n = A
            BY <3>0, <2>2, <1>6 DEF Writes
        <3>2. j \in 0..(X.n * B) - 1
            BY <1>3, <1>6 DEF W
        <3>3. Written(X, t)[j] = t[j \div X.n]
            BY <3>1, <3>2, WrittenAt
        <3> QED
            BY <3>1, <3>3
    <2> QED
        BY <2>1, <2>4, <2>5, <2>6
<1> DEFINE jl == j % A
           jh == j \div A
           fl == [p \in Servers |-> NodeData(p, layer + 1, Low(n), prev[p])]
           fh == [p \in Servers |-> NodeData(p, layer + 1, High(n), prev[p])]
<1>12. Encodes(fl, A, OneHot(Low(n))) /\ Encodes(fh, B, OneHot(High(n)))
    BY <1>10 DEF NodeOk
<1>13. jl \in 0..A - 1 /\ jh \in 0..B - 1
    BY <1>4
<1>14. /\ [p \in Servers |-> and_data[p].x[st + j]] = [p \in Servers |-> fl[p][jl]]
       /\ [p \in Servers |-> and_data[p].y[st + j]] = [p \in Servers |-> fh[p][jh]]
    BY <1>11
<1> HIDE DEF A, B, jl, jh, fl, fh, st
<1>15. /\ Xor([p \in Servers |-> fl[p][jl]]) = OneHot(Low(n))[jl]
       /\ Xor([p \in Servers |-> fh[p][jh]]) = OneHot(High(n))[jh]
    BY <1>12, <1>13 DEF Encodes
<1>16. XorX(and_data, st + j) = OneHot(Low(n))[jl] /\ XorY(and_data, st + j) = OneHot(High(n))[jh]
    BY <1>14, <1>15 DEF XorX, XorY
<1> QED
    BY <1>8, <1>16 DEF st, jl, jh, A

\* A layer that finished encodes the nodes of its level.
LEMMA LayerResult ==
    ASSUME QueryInv, stage = "ohe", lstate = "Finished", NEW n \in Level[layer]
    PROVE  NodeOk(layer, n, [p \in Servers |-> and_data[p].z])
<1>1. ControlInv /\ stage \in {"ohe", "pir"} /\ lstate # "Ticketing"
    BY DEF QueryInv
<1>2. layer \in 0..4 /\ layer \in 0..5 /\ idx \in Nat /\ IdxOk
    BY <1>1, LayerRange, IdxParts DEF ControlInv
<1>3. n \in Node /\ n.len \in 1..26 /\ n.lo + n.len <= IdxBits
    BY <1>2, Nodes
<1> DEFINE z == [p \in Servers |-> and_data[p].z]
<1>4. CASE n.len = 1
    BY <1>2, <1>3, <1>4, LeafOk
<1>5. CASE n.len > 1
    <2>1. n \in Gates(Level[layer])
        BY <1>5 DEF Gates
    <2>2. /\ size \in Nat /\ \A p \in Servers : \A j \in 0..8 * size - 1 : and_data[p].z[j] \in Int
          /\ \A j \in 0..8 * size - 1 : Product(lstate, and_data, beaver, j)
        BY <1>1, RunTypes
    <2> DEFINE W == 2^n.len
               st == Start(layer, n)
               g == [p \in Servers |-> NodeData(p, layer, n, z[p])]
    <2>3. ASSUME NEW j \in 0..W - 1
          PROVE  /\ st + j \in 0..8 * size - 1
                 /\ XorZ(and_data, st + j) = OneHot(n)[j]
        <3>1. /\ st + j \in 0..8 * size - 1
              /\ XorX(and_data, st + j) = OneHot(Low(n))[j % 2^Low(n).len]
              /\ XorY(and_data, st + j) = OneHot(High(n))[j \div 2^Low(n).len]
            BY <2>1, GateInputs
        <3>2. OneHot(Low(n))[j % 2^Low(n).len] * OneHot(High(n))[j \div 2^Low(n).len] = OneHot(n)[j]
            BY <1>2, <2>1, OneHotProduct
        <3>3. Product(lstate, and_data, beaver, st + j)
            BY <2>2, <3>1
        <3>4. XorZ(and_data, st + j) = XorX(and_data, st + j) * XorY(and_data, st + j)
            BY <3>3 DEF Product
        <3> QED
            BY <3>1, <3>2, <3>4
    <2>4. \A p \in Servers : g[p] = [j \in 0..W - 1 |-> and_data[p].z[st + j]]
        BY <1>5, <1>3 DEF NodeData, ReadOutput
    <2> HIDE DEF g, W, st
    <2>5. \A p \in Servers : g[p] \in [0..W - 1 -> Int]
        <3> TAKE p \in Servers
        <3>1. \A j \in 0..W - 1 : and_data[p].z[st + j] \in Int
            BY <2>2, <2>3
        <3> QED
            BY <2>4, <3>1
    <2>6. ASSUME NEW j \in 0..W - 1
          PROVE  Xor([p \in Servers |-> g[p][j]]) = OneHot(n)[j]
        <3>1. \A p \in Servers : g[p][j] = and_data[p].z[st + j]
            BY <2>4
        <3>2. [p \in Servers |-> g[p][j]] = [p \in Servers |-> and_data[p].z[st + j]]
            BY <3>1
        <3> QED
            BY <2>3, <3>2 DEF XorZ
    <2>7. Encodes(g, W, OneHot(n))
        BY <2>5, <2>6 DEF Encodes
    <2> QED
        BY <2>7 DEF g, W, NodeOk
<1> QED
    BY <1>3, <1>4, <1>5

\* The next layer of run keeps the invariant.
LEMMA PopLayerInv ==
    ASSUME QueryInv, PopLayer
    PROVE  QueryInv'
<1>1. /\ stage = "ohe" /\ lstate = "Finished" /\ layer > 0 /\ layer' = layer - 1
      /\ lstate' = "Ticketing" /\ prev' = [p \in Servers |-> and_data[p].z]
      /\ UNCHANGED <<idx, seed, stage, used, pir, rec, e, arith, token>>
    BY DEF PopLayer, queryVars
<1>2. ControlInv'
    BY <1>1, SameRecord, LayersDef DEF QueryInv, ControlInv, LayerStates
<1>3. EncodingInv'
    <2>1. layer' + 1 = layer
        BY <1>1 DEF QueryInv, ControlInv
    <2>2. PICK k : k = layer
        OBVIOUS
    <2>3. PICK z : z = [p \in Servers |-> and_data[p].z]
        OBVIOUS
    <2>4. ASSUME NEW n \in Level[k] PROVE NodeOk(k, n, z)'
        <3>1. NodeOk(k, n, z)
            BY <1>1, <2>2, <2>3, LayerResult
        <3> QED
            BY <1>1, <3>1, SameNode
    <2>5. layer' + 1 = k /\ prev' = z
        BY <1>1, <2>1, <2>2, <2>3
    <2> QED
        BY <2>4, <2>5 DEF EncodingInv
<1>4. PirInv' /\ RunInv'
    BY <1>1 DEF PirInv, RunInv
<1>5. RecordInv' /\ ConversionCorrect' /\ TokenInv'
    BY <1>1, ConversionFrame, TokenFrame DEF QueryInv, RecordInv
<1> QED
    BY <1>2, <1>3, <1>4, <1>5 DEF QueryInv

----------------------------------------------------------------------------
(* The retrieval.                                                          *)

\* A server may multiply its share by a public bit.
LEMMA XorTimes ==
    ASSUME NEW f, NEW h, NEW c \in {0, 1}, DOMAIN f = Servers, DOMAIN h = Servers,
           \A p \in Servers : f[p] \in Int /\ h[p] = c * f[p]
    PROVE  (\A p \in Servers : h[p] \in Int) /\ Xor(h) = c * Xor(f)
<1>1. \A p \in Servers : h[p] \in Int
    <2> TAKE p \in Servers
    <2>1. c * f[p] \in Int
        BY DEF Servers
    <2> QED
        BY <2>1
<1>2. c \in Int
    OBVIOUS
<1>3. SumOn(h, Servers) = c * SumOn(f, Servers)
    BY <1>2, ServerSet, SumTimes
<1>4. /\ SumOn(f, Servers) \in Int /\ Xor(f) = SumOn(f, Servers) % 2
      /\ SumOn(h, Servers) \in Int /\ Xor(h) = SumOn(h, Servers) % 2
    BY <1>1, XorBit
<1>5. CASE c = 0
    BY <1>3, <1>4, <1>5
<1>6. CASE c = 1
    BY <1>3, <1>4, <1>6
<1> QED
    BY <1>1, <1>5, <1>6

\* The bits g of each server are shares of h, which is zero but for its bit y.
SharesOne(g, T, h, y) ==
    /\ IsFiniteSet(T) /\ y \in T
    /\ \A p \in Servers : \A j \in T : g[p][j] \in Int
    /\ \A j \in T : h[j] \in {0, 1} /\ (j # y => h[j] = 0)
    /\ \A j \in T : Xor([p \in Servers |-> g[p][j]]) = h[j]

\* The parities of the servers' bits are then shares of bit y.
LEMMA SharedParity ==
    ASSUME NEW g, NEW T, NEW h, NEW y, SharesOne(g, T, h, y), NEW f, DOMAIN f = Servers,
           \A p \in Servers : f[p] = SumOn(g[p], T) % 2
    PROVE  (\A p \in Servers : f[p] \in Int) /\ Xor(f) = h[y]
<1>1. /\ IsFiniteSet(T) /\ y \in T
      /\ \A p \in Servers : \A j \in T : g[p][j] \in Int
      /\ \A j \in T : h[j] \in {0, 1} /\ (j # y => h[j] = 0)
      /\ \A j \in T : Xor([p \in Servers |-> g[p][j]]) = h[j]
    BY DEF SharesOne
<1> DEFINE C == [j \in T |-> [p \in Servers |-> g[p][j]]]
           s == [p \in Servers |-> SumOn(g[p], T)]
           q == [j \in T |-> SumOn(C[j], Servers)]
<1>2. /\ \A p \in Servers : \A j \in T : g[p][j] \in Int /\ C[j][p] = g[p][j]
      /\ \A p \in Servers : s[p] = SumOn(g[p], T)
      /\ \A j \in T : q[j] = SumOn(C[j], Servers)
      /\ \A j \in T : DOMAIN C[j] = Servers /\ Xor(C[j]) = h[j]
    BY <1>1
<1> HIDE DEF C, s, q
<1>3. SumOn(s, Servers) = SumOn(q, T)
    <2>1. Table(Servers, T, g, C, s, q)
        BY <1>1, <1>2, ServerSet DEF Table
    <2> QED
        BY <2>1, SumSwap
<1>4. \A p \in Servers : SumOn(g[p], T) \in Int
    <2> TAKE p \in Servers
    <2>1. \A j \in T : g[p][j] \in Int
        BY <1>1
    <2> QED
        BY <1>1, <2>1, SumInt
<1>5. \A p \in Servers : s[p] \in Int /\ f[p] = s[p] % 2 /\ f[p] \in Int
    BY <1>2, <1>4
<1>6. SumOn(f, Servers) % 2 = SumOn(s, Servers) % 2
    BY <1>5, ServerSet, SumParity
<1>7. \A j \in T : q[j] \in Int /\ h[j] = q[j] % 2
    <2> TAKE j \in T
    <2> DEFINE c == C[j]
    <2>1. DOMAIN c = Servers /\ \A p \in Servers : c[p] \in Int
        BY <1>2
    <2> HIDE DEF c
    <2>2. SumOn(c, Servers) \in Int /\ Xor(c) = SumOn(c, Servers) % 2
        BY <2>1, XorBit
    <2> QED
        BY <2>2, <1>2 DEF c
<1>8. SumOn(h, T) % 2 = SumOn(q, T) % 2
    BY <1>1, <1>7, SumParity
<1>9. h[y] \in {0, 1} /\ h[y] \in Int
    BY <1>1
<1>10. SumOn(h, T) = h[y]
    BY <1>1, <1>9, SumOnly
<1>11. Xor(f) = SumOn(f, Servers) % 2
    BY <1>5, XorBit
<1>12. h[y] % 2 = h[y]
    BY <1>9
<1> QED
    BY <1>3, <1>5, <1>6, <1>8, <1>10, <1>11, <1>12

\* The bits of the database.
LEMMA DbBits ==
    ASSUME IdxOk, NEW l1 \in Nat, NEW l2 \in Nat
    PROVE  DbBit(seed.db, l1, l2) \in 0..1
<1> DEFINE A == Two(L1)
           s == seed.db
           at == l2 * A + l1
<1>1. A \in Nat /\ s \in Nat /\ Generator
    BY PowerDims DEF IdxOk
<1> HIDE DEF A, s
<1>2. l2 * A \in Nat
    BY <1>1
<1>3. at \in Nat
    BY <1>2
<1> HIDE DEF at
<1>4. DrawBit(s, at) \in 0..1
    BY <1>1, <1>3, DrawTypes
<1> QED
    BY <1>4 DEF DbBit, s, at, A, Two

\* lvl1_pir_retrieve: the servers select the column of l1, row by row.
LEMMA Lvl1Bits ==
    ASSUME IdxOk, NEW g, Encodes(g, 2^L1, OneHot(Root1)), NEW i \in 0..2^L2 - 1
    PROVE  /\ \A p \in Servers : Lvl1PirRetrieve(g[p])[i] \in Int
           /\ Xor([p \in Servers |-> Lvl1PirRetrieve(g[p])[i]]) = Column[i]
<1> DEFINE A == Two(L1)
           B == Two(L2)
           T == 0..A - 1
           y == idx % A
           db == [j \in T |-> DbBit(seed.db, j, i)]
           R == [p \in Servers |-> [j \in T |-> g[p][j] * db[j]]]
           h == [j \in T |-> db[j] * OneHot(Root1)[j]]
           f == [p \in Servers |-> Lvl1PirRetrieve(g[p])[i]]
<1>1. /\ A \in Nat \ {0} /\ B \in Nat \ {0} /\ idx \in Nat /\ i \in Nat /\ i \in 0..B - 1
      /\ y \in T /\ IdxTo2Dim[1] = y
    <2>1. A \in Nat \ {0} /\ B \in Nat \ {0} /\ idx \in Nat /\ IdxTo2Dim[1] = idx % A
        BY PowerDims, IdxParts
    <2>2. i \in 0..B - 1
        BY DEF Two
    <2> HIDE DEF A, B
    <2>3. i \in Nat
        BY <2>1, <2>2
    <2>4. idx % A \in 0..A - 1
        BY <2>1, ModDef
    <2> QED
        BY <2>1, <2>2, <2>3, <2>4
<1>2. /\ \A p \in Servers : g[p] \in [T -> Int]
      /\ \A j \in T : Xor([p \in Servers |-> g[p][j]]) = OneHot(Root1)[j]
    BY DEF Encodes, Two
<1>3. \A j \in T : OneHot(Root1)[j] = IF j = y THEN 1 ELSE 0
    <2>1. Root1.lo = 0 /\ Root1.len = L1 /\ 2^0 = 1
        BY DEF Root1
    <2>2. idx \div 1 = idx
        BY <1>1
    <2>3. OneHot(Root1) = [j \in 0..A - 1 |-> IF j = (idx \div 1) % A THEN 1 ELSE 0]
        BY <2>1 DEF OneHot, Two
    <2> HIDE DEF A
    <2> QED
        BY <2>2, <2>3
<1>4. \A j \in T : db[j] \in {0, 1} /\ db[j] = DbBit(seed.db, j, i)
    <2> TAKE j \in T
    <2>1. j \in Nat
        BY <1>1
    <2>2. DbBit(seed.db, j, i) \in 0..1
        BY <1>1, <2>1, DbBits
    <2> HIDE DEF T
    <2> QED
        BY <2>2
<1>5. ASSUME NEW p \in Servers
      PROVE  f[p] = SumOn(R[p], T) % 2
    <2>1. DOMAIN g[p] = T
        BY <1>2
    <2>2. f[p] = SumFunction([j \in T |-> g[p][j] * DbBit(seed.db, j, i)]) % 2
        BY <2>1, <1>1 DEF Lvl1PirRetrieve, Two
    <2>3. R[p] = [j \in T |-> g[p][j] * DbBit(seed.db, j, i)]
        BY <1>4
    <2>4. f[p] = SumFunction(R[p]) % 2 /\ DOMAIN R[p] = T
        BY <2>2, <2>3
    <2>5. Xor(R[p]) = SumOn(R[p], T) % 2
        BY <2>4, XorOn
    <2> QED
        BY <2>4, <2>5 DEF Xor
<1>6. IsFiniteSet(T)
    BY <1>1, FS_Interval
<1>7. \A j \in T : h[j] = IF j = y THEN db[y] ELSE 0
    <2> TAKE j \in T
    <2>1. h[j] = db[j] * OneHot(Root1)[j] /\ db[j] \in {0, 1}
        BY <1>4
    <2> HIDE DEF h, db
    <2> QED
        BY <2>1, <1>3
<1>8. ASSUME NEW j \in T
      PROVE  /\ \A p \in Servers : R[p][j] \in Int
             /\ Xor([p \in Servers |-> R[p][j]]) = h[j]
    <2> DEFINE c == db[j]
               u == [p \in Servers |-> g[p][j]]
               v == [p \in Servers |-> R[p][j]]
    <2>1. c \in {0, 1} /\ DOMAIN u = Servers /\ DOMAIN v = Servers
        BY <1>4
    <2>2. \A p \in Servers : u[p] \in Int /\ v[p] = c * u[p] /\ v[p] = R[p][j]
        <3> TAKE p \in Servers
        <3>1. g[p][j] \in Int
            BY <1>2
        <3>2. R[p][j] = g[p][j] * c
            OBVIOUS
        <3> HIDE DEF R, c
        <3> QED
            BY <2>1, <3>1, <3>2
    <2>3. Xor(u) = OneHot(Root1)[j] /\ h[j] = c * OneHot(Root1)[j]
        BY <1>2
    <2> HIDE DEF c, u, v, R, h
    <2>4. (\A p \in Servers : v[p] \in Int) /\ Xor(v) = c * Xor(u)
        BY <2>1, <2>2, XorTimes
    <2> QED
        BY <2>2, <2>3, <2>4 DEF v
<1>9. DOMAIN f = Servers /\ Column[i] = db[y]
    BY <1>1 DEF Column, Two
<1>10. \A p \in Servers : f[p] = Lvl1PirRetrieve(g[p])[i]
    OBVIOUS
<1> HIDE DEF R, h, f, db, T, y
<1>11. SharesOne(R, T, h, y)
    BY <1>1, <1>4, <1>6, <1>7, <1>8 DEF SharesOne
<1>12. (\A p \in Servers : f[p] \in Int) /\ Xor(f) = h[y]
    BY <1>5, <1>9, <1>11, SharedParity
<1>13. h[y] = db[y]
    BY <1>1, <1>7
<1> QED
    BY <1>9, <1>10, <1>12, <1>13 DEF f

\* rec_retrieve up to its second run keeps the invariant.
LEMMA RecRetrieveInv ==
    ASSUME QueryInv, RecRetrieve
    PROVE  QueryInv'
<1>1. /\ stage = "ohe" /\ lstate = "Finished" /\ layer = 0 /\ stage' = "pir"
      /\ lstate' = "Ticketing" /\ UNCHANGED <<idx, seed, layer, used, rec, e, arith, token>>
      /\ pir' = [p \in Servers |-> <<Lvl1PirRetrieve(NodeData(p, 0, Root1, and_data[p].z)),
                                     NodeData(p, 0, Root2, and_data[p].z)>>]
    BY DEF RecRetrieve, queryVars
<1>2. IdxOk /\ ControlInv
    BY DEF QueryInv, ControlInv
<1> DEFINE z == [p \in Servers |-> and_data[p].z]
           g1 == [p \in Servers |-> NodeData(p, 0, Root1, z[p])]
           g2 == [p \in Servers |-> NodeData(p, 0, Root2, z[p])]
<1>3. Encodes(g1, 2^L1, OneHot(Root1)) /\ Encodes(g2, 2^L2, OneHot(Root2))
    <2>1. Root1 \in Level[0] /\ Root2 \in Level[0]
        BY LevelDef
    <2>2. NodeOk(0, Root1, z) /\ NodeOk(0, Root2, z)
        BY <1>1, <2>1, LayerResult
    <2> QED
        BY <2>2 DEF NodeOk, Root1, Root2
<1>4. \A p \in Servers : pir'[p][1] = Lvl1PirRetrieve(g1[p]) /\ pir'[p][2] = g2[p]
    BY <1>1
<1> HIDE DEF g1, g2
<1>5. Encodes([p \in Servers |-> pir'[p][1]], 2^L2, Column)
    <2> DEFINE g == [p \in Servers |-> pir'[p][1]]
    <2>1. \A p \in Servers : g[p] = Lvl1PirRetrieve(g1[p])
        BY <1>4
    <2> HIDE DEF g
    <2>2. \A p \in Servers : g[p] \in [0..2^L2 - 1 -> Int]
        <3> TAKE p \in Servers
        <3>1. \A i \in 0..2^L2 - 1 : Lvl1PirRetrieve(g1[p])[i] \in Int
            BY <1>2, <1>3, Lvl1Bits
        <3>2. Lvl1PirRetrieve(g1[p]) = [i \in 0..2^L2 - 1 |-> Lvl1PirRetrieve(g1[p])[i]]
            BY DEF Lvl1PirRetrieve
        <3> QED
            BY <2>1, <3>1, <3>2
    <2>3. \A i \in 0..2^L2 - 1 : Xor([p \in Servers |-> g[p][i]]) = Column[i]
        <3> TAKE i \in 0..2^L2 - 1
        <3>1. [p \in Servers |-> g[p][i]] = [p \in Servers |-> Lvl1PirRetrieve(g1[p])[i]]
            BY <2>1
        <3> QED
            BY <1>2, <1>3, <3>1, Lvl1Bits
    <2>4. Encodes(g, 2^L2, Column)
        BY <2>2, <2>3 DEF Encodes
    <2> QED
        BY <2>4 DEF g
<1>6. Encodes([p \in Servers |-> pir'[p][2]], 2^L2, OneHot(Root2))
    <2>1. [p \in Servers |-> pir'[p][2]] = g2
        BY <1>4 DEF g2
    <2> QED
        BY <1>3, <2>1
<1>7. PirInv'
    BY <1>1, <1>5, <1>6 DEF PirInv, Column, OneHot, IdxTo2Dim
<1>8. ControlInv'
    BY <1>1, SameRecord DEF QueryInv, ControlInv, LayerStates, Stages
<1>9. EncodingInv' /\ RunInv' /\ RecordInv' /\ ConversionCorrect'
    BY <1>1 DEF EncodingInv, RunInv, RecordInv, ConversionCorrect
<1>10. TokenInv'
    BY <1>1 DEF QueryInv, TokenInv
<1> QED
    BY <1>7, <1>8, <1>9, <1>10 DEF QueryInv

\* The inputs of the second level, without and with the padding.
LEMMA PirInputs ==
    ASSUME QueryInv, stage = "pir", lstate = "Finished", NEW j \in 0..8 * size - 1
    PROVE  /\ XorX(and_data, j) \in {0, 1} /\ XorY(and_data, j) \in {0, 1}
           /\ j < Two(L2) => /\ XorX(and_data, j) = Column[j]
                             /\ XorY(and_data, j) = OneHot(Root2)[j]
           /\ j >= Two(L2) => XorX(and_data, j) = 0
<1>1. ControlInv /\ EncodingInv /\ PirInv /\ RunInv /\ stage \in {"ohe", "pir"} /\ lstate # "Ticketing"
    BY DEF QueryInv
<1> DEFINE x == [p \in Servers |-> and_data[p].x[j]]
           y == [p \in Servers |-> and_data[p].y[j]]
<1>2. /\ size \in Nat /\ DOMAIN x = Servers /\ DOMAIN y = Servers
      /\ \A p \in Servers : /\ x[p] \in Int /\ x[p] = and_data[p].x[j]
                            /\ y[p] \in Int /\ y[p] = and_data[p].y[j]
    BY <1>1, RunTypes
<1>3. XorX(and_data, j) = Xor(x) /\ XorY(and_data, j) = Xor(y)
    BY DEF XorX, XorY
<1>4. Xor(x) \in {0, 1} /\ Xor(y) \in {0, 1}
    <2> HIDE DEF x, y
    <2> QED
        BY <1>2, XorBit
<1> DEFINE B == Two(L2)
<1>5. B \in Nat \ {0}
    BY PowerDims
<1>6. CASE j < B
    <2> DEFINE O(i) == [op |-> "Copy", n |-> 1, node |-> Root2, stream |-> i, st |-> 0]
    <2>1. \A i \in {0, 1} : O(i) \in Ops(stage, layer) /\ ops = {}
        BY <1>1 DEF Ops, PirOps, RunInv
    <2>2. j \in 0..B - 1
        BY <1>2, <1>5, <1>6
    <2>3. ASSUME NEW i \in {0, 1}, NEW p \in Servers
          PROVE  Stream(and_data[p], i)[j] = pir[p][i + 1][j]
        <3> DEFINE o == O(i)
                   s == Source(p, o)
        <3>1. o.op = "Copy" /\ o.n = 1 /\ o.node.len = L2 /\ o.stream = i /\ o.st = 0
            BY DEF Root2
        <3>2. o \in Ops(stage, layer) /\ Executed(and_data, o, p)
            BY <1>1, <2>1 DEF RunInv
        <3>3. s = pir[p][i + 1]
            BY <3>1 DEF Source
        <3> HIDE DEF o
        <3>4. s \in [0..B - 1 -> Int] /\ Width(s) = B
            BY <1>1, <3>1, <3>2, SourceType DEF Two
        <3>5. OpBits(o) = 1 * B
            BY <3>1 DEF OpBits, Two
        <3> HIDE DEF s, B
        <3>6. 0 + j = j /\ 1 * B = B /\ j % B = j
            BY <1>5, <2>2
        <3>7. Stream(and_data[p], i)[j] = Written(o, s)[j]
            BY <3>1, <3>2, <3>5, <3>6, <2>2 DEF Executed, s
        <3>8. Writes(o, s, B)
            BY <1>5, <3>1, <3>4 DEF Writes
        <3>9. j \in 0..(o.n * B) - 1
            BY <2>2, <3>1, <3>6
        <3>10. Written(o, s)[j] = s[j % B]
            BY <3>1, <3>8, <3>9, WrittenAt
        <3> QED
            BY <3>3, <3>6, <3>7, <3>10
    <2>4. \A p \in Servers : x[p] = pir[p][1][j] /\ y[p] = pir[p][2][j]
        <3> TAKE p \in Servers
        <3>1. /\ Stream(and_data[p], 0)[j] = pir[p][0 + 1][j]
              /\ Stream(and_data[p], 1)[j] = pir[p][1 + 1][j]
            BY <2>3
        <3>2. 0 + 1 = 1 /\ 1 + 1 = 2
            OBVIOUS
        <3> QED
            BY <1>2, <3>1, <3>2 DEF Stream
    <2> DEFINE g1 == [p \in Servers |-> pir[p][1]]
               g2 == [p \in Servers |-> pir[p][2]]
    <2>5. Encodes(g1, B, Column) /\ Encodes(g2, B, OneHot(Root2))
        BY <1>1 DEF PirInv, Two
    <2>6. Xor([p \in Servers |-> g1[p][j]]) = Column[j] /\ Xor([p \in Servers |-> g2[p][j]]) = OneHot(Root2)[j]
        <3> HIDE DEF g1, g2, B
        <3> QED
            BY <2>2, <2>5 DEF Encodes
    <2>7. x = [p \in Servers |-> g1[p][j]] /\ y = [p \in Servers |-> g2[p][j]]
        BY <2>4
    <2>8. Xor(x) = Column[j] /\ Xor(y) = OneHot(Root2)[j]
        BY <2>6, <2>7
    <2> HIDE DEF x, y
    <2>9. ~(j >= B)
        BY <1>5, <2>2
    <2> QED
        BY <1>3, <1>4, <1>6, <2>8, <2>9 DEF B
<1>7. CASE j >= B
    <2>1. j \in B..8 * size - 1
        BY <1>2, <1>5, <1>7
    <2>2. \A p \in Servers : and_data[p].x[j] = 0
        BY <1>1, <2>1 DEF RunInv, Two
    <2>3. SumOn(x, Servers) = 0
        <3>1. \A p \in Servers : x[p] = 0
            BY <2>2
        <3> HIDE DEF x
        <3> QED
            BY <3>1, ServerSet, SumZero
    <2>4. Xor(x) = 0 % 2
        BY <1>2, <2>3, XorOn
    <2> HIDE DEF x, y
    <2>5. ~(j < B) /\ 0 % 2 = 0
        BY <1>5, <2>1
    <2> QED
        BY <1>3, <1>4, <1>7, <2>4, <2>5 DEF B
<1> HIDE DEF B
<1>8. j \in Int /\ B \in Int
    BY <1>2, <1>5
<1> QED
    BY <1>6, <1>7, <1>8 DEF B

\* The end of rec_retrieve keeps the invariant.
LEMMA RecordShareInv ==
    ASSUME QueryInv, RecordShare
    PROVE  QueryInv'
<1>1. /\ stage = "pir" /\ lstate = "Finished" /\ stage' = "conv" /\ lstate' = "Ticketing"
      /\ UNCHANGED <<idx, seed, layer, used, pir, e, arith, token>>
      /\ rec' = [p \in Servers |-> SumFunction(and_data[p].z) % 2]
    BY DEF RecordShare, queryVars
<1>2. ControlInv /\ IdxOk
    BY DEF QueryInv, ControlInv
<1> DEFINE B == Two(L2)
           T == 0..8 * size - 1
           y == idx \div Two(L1)
           g == [p \in Servers |-> and_data[p].z]
           h == [j \in T |-> XorZ(and_data, j)]
<1>3. /\ size \in Nat /\ size = TicketBytes(B) /\ B \in Nat \ {0} /\ y \in 0..B - 1 /\ IdxTo2Dim[2] = y
      /\ and_data \in AndArrays(size)
      /\ \A p \in Servers : \A j \in T : and_data[p].z[j] \in Int
      /\ \A j \in T : Product(lstate, and_data, beaver, j)
    BY <1>1, <1>2, RunTypes, PowerDims, IdxParts DEF SizeOf, Two
<1>4. B <= 8 * size
    <2> HIDE DEF B
    <2> QED
        BY <1>3, TicketFacts
<1>5. y \in T
    <2> HIDE DEF y, B
    <2> QED
        BY <1>3, <1>4
<1>6. \A p \in Servers : rec'[p] = SumOn(g[p], T) % 2
    <2> SUFFICES ASSUME NEW p \in Servers PROVE rec'[p] = SumOn(g[p], T) % 2
        OBVIOUS
    <2>1. and_data[p] \in [x : BitArray(size), y : BitArray(size), z : BitArray(size)]
        BY <1>3 DEF AndArrays
    <2>2. and_data[p].z \in BitArray(size)
        BY <2>1
    <2>3. DOMAIN and_data[p].z = T
        BY <2>2 DEF BitArray
    <2>4. Xor(and_data[p].z) = SumOn(and_data[p].z, T) % 2
        BY <2>3, XorOn
    <2> QED
        BY <1>1, <2>4 DEF Xor
<1>7. \A j \in 0..B - 1 : OneHot(Root2)[j] = IF j = y THEN 1 ELSE 0
    <2>1. Root2.lo = L1 /\ Root2.len = L2
        BY DEF Root2
    <2>2. OneHot(Root2) = [j \in 0..2^L2 - 1 |-> IF j = (idx \div 2^L1) % 2^L2 THEN 1 ELSE 0]
        BY <2>1 DEF OneHot
    <2>4. OneHot(Root2) = [j \in 0..B - 1 |-> IF j = y % B THEN 1 ELSE 0]
        BY <2>2, Zenon DEF Two
    <2> HIDE DEF y, B
    <2>3. y % B = y
        BY <1>3
    <2> QED
        BY <2>4, <2>3
<1>8. ASSUME NEW j \in T
      PROVE  /\ h[j] \in {0, 1} /\ (j # y => h[j] = 0)
             /\ j = y => h[j] = Column[y]
    <2>1. /\ XorX(and_data, j) \in {0, 1} /\ XorY(and_data, j) \in {0, 1}
          /\ j < B => XorX(and_data, j) = Column[j] /\ XorY(and_data, j) = OneHot(Root2)[j]
          /\ j >= B => XorX(and_data, j) = 0
        BY <1>1, PirInputs
    <2>2. h[j] = XorX(and_data, j) * XorY(and_data, j)
        <3>1. h[j] = XorZ(and_data, j)
            OBVIOUS
        <3>2. Product(lstate, and_data, beaver, j)
            BY <1>3
        <3>3. XorZ(and_data, j) = XorX(and_data, j) * XorY(and_data, j)
            BY <1>1, <3>2 DEF Product
        <3> QED
            BY <3>1, <3>3
    <2> HIDE DEF B, y, h
    <2>3. j \in Nat
        BY <1>3
    <2>4. h[j] \in {0, 1}
        BY <2>1, <2>2
    <2>5. CASE j < B
        <3>1. j \in 0..B - 1
            BY <2>3, <2>5, <1>3
        <3>2. XorY(and_data, j) = IF j = y THEN 1 ELSE 0
            BY <2>1, <2>5, <3>1, <1>7
        <3> QED
            BY <2>1, <2>2, <2>4, <2>5, <3>2
    <2>6. CASE j >= B
        BY <1>3, <2>1, <2>2, <2>3, <2>4, <2>6
    <2> QED
        BY <1>3, <2>3, <2>5, <2>6
<1>9. \A j \in T : Xor([p \in Servers |-> g[p][j]]) = h[j]
    BY DEF XorZ
<1>10. IsFiniteSet(T) /\ \A p \in Servers : \A j \in T : g[p][j] \in Int
    BY <1>3, FS_Interval
<1>11. Record = Column[y]
    <2>1. y \in 0..2^L2 - 1
        BY <1>3 DEF Two
    <2> QED
        BY <1>3, <2>1 DEF Record, Column
<1> DEFINE f == rec'
<1>12. DOMAIN f = Servers /\ f = [p \in Servers |-> f[p]]
    BY <1>1
<1>13. \A p \in Servers : f[p] = SumOn(g[p], T) % 2
    BY <1>6
<1> HIDE DEF f, g, h, T, y
<1>14. SharesOne(g, T, h, y)
    BY <1>5, <1>8, <1>9, <1>10 DEF SharesOne
<1>15. (\A p \in Servers : f[p] \in Int) /\ Xor(f) = h[y]
    BY <1>12, <1>13, <1>14, SharedParity
<1>16. rec' \in [Servers -> Int] /\ Xor(rec') = Record
    BY <1>5, <1>8, <1>11, <1>12, <1>15 DEF f
<1>17. RecordInv'
    BY <1>1, <1>16, SameRecord DEF RecordInv
<1>18. ControlInv'
    BY <1>1, SameRecord DEF QueryInv, ControlInv, LayerStates, Stages
<1>19. EncodingInv' /\ PirInv' /\ RunInv' /\ ConversionCorrect'
    BY <1>1 DEF EncodingInv, PirInv, RunInv, ConversionCorrect
<1>20. TokenInv'
    BY <1>1 DEF QueryInv, TokenInv
<1> QED
    BY <1>17, <1>18, <1>19, <1>20 DEF QueryInv

----------------------------------------------------------------------------
(* The conversion.                                                         *)

\* A factor may be reduced before the product is.
LEMMA ModTimes ==
    ASSUME NEW a \in Int, NEW b \in Int, NEW c \in Int, NEW m \in Nat, m > 0, a % m = b % m
    PROVE  (c * a) % m = (c * b) % m
<1>1. PICK k \in Int : a = b + m * k
    BY ModSame
<1> DEFINE x == c * b
           y == c * k
<1>2. x \in Int /\ y \in Int
    OBVIOUS
<1>3. c * a = x + m * y
    BY <1>1
<1> HIDE DEF x, y
<1>4. (x + m * y) % m = x % m
    BY <1>2, ModMultiple
<1> QED
    BY <1>3, <1>4 DEF x

\* conv_b2a of one bit: the shares of e + r - 2er add up to the bit that was
\* blinded, for a daBit v.
LEMMA ArithBitSum ==
    ASSUME NEW r, NEW h, NEW v \in {0, 1}, NEW o \in {0, 1}, DOMAIN r = Servers,
           SumOn(r, Servers) % Order = v % Order,
           \A p \in Servers : r[p] \in Int /\ h[p] = ArithBit(p, o, r[p])
    PROVE  /\ \A p \in Servers : h[p] \in Int
           /\ SumOn(h, Servers) % Order = ((o + v) % 2) % Order
<1> DEFINE k == [p \in Servers |-> IF p = 0 THEN o ELSE 0]
           c == 1 - 2 * o
           s == [p \in Servers |-> c * r[p]]
           S == SumOn(r, Servers)
<1>1. c \in Int /\ o \in Int
    OBVIOUS
<1>2. \A p \in Servers : r[p] \in Int /\ s[p] = c * r[p] /\ s[p] \in Int /\ k[p] \in Int
    <2> TAKE p \in Servers
    <2> HIDE DEF c
    <2>1. c * r[p] \in Int
        BY <1>1
    <2> QED
        BY <2>1
<1>3. \A p \in Servers : h[p] = s[p] + k[p]
    <2> TAKE p \in Servers
    <2>1. /\ h[p] = r[p] - 2 * o * r[p] + (IF p = 0 THEN o ELSE 0)
          /\ s[p] = c * r[p] /\ k[p] = (IF p = 0 THEN o ELSE 0) /\ r[p] \in Int
        BY DEF ArithBit
    <2>2. CASE o = 0
        <3>1. c = 1
            BY <2>2
        <3> QED
            BY <2>1, <2>2, <3>1
    <2>3. CASE o = 1
        <3>1. c = -1
            BY <2>3
        <3> QED
            BY <2>1, <2>3, <3>1
    <2> QED
        BY <2>2, <2>3
<1>4. k[0] = o /\ \A p \in Servers : p # 0 => k[p] = 0
    BY ServerSet
<1> HIDE DEF k, s, c
<1>5. \A p \in Servers : h[p] \in Int
    BY <1>2, <1>3
<1>6. SumOn(h, Servers) = SumOn(s, Servers) + SumOn(k, Servers)
    BY <1>2, <1>3, ServerSet, SumPlus
<1>7. SumOn(s, Servers) = c * S
    BY <1>1, <1>2, ServerSet, SumTimes
<1>8. SumOn(k, Servers) = o
    <2>1. SumOn(k, Servers) = k[0]
        BY <1>2, <1>4, ServerSet, SumOnly
    <2> QED
        BY <2>1, <1>4
<1>9. S \in Int
    BY <1>2, ServerSet, SumInt
<1>10. Order \in Nat /\ Order > 0 /\ v \in Int
    BY SharingAssumption
<1>11. PICK i \in Int : S = v + Order * i
    BY <1>9, <1>10, ModSame
<1> HIDE DEF S
<1>12. SumOn(h, Servers) = c * S + o
    BY <1>6, <1>7, <1>8
<1> DEFINE b == (o + v) % 2
           n == c * i
<1>13. b \in Int /\ n \in Int /\ SumOn(h, Servers) = b + Order * n
    <2>1. CASE o = 0
        <3>1. c = 1 /\ b = v
            BY <2>1 DEF c
        <3> QED
            BY <3>1, <2>1, <1>9, <1>10, <1>11, <1>12
    <2>2. CASE o = 1
        <3>1. c = -1 /\ b = 1 - v
            BY <2>2 DEF c
        <3>2. n = -i
            BY <3>1
        <3>3. SumOn(h, Servers) = 1 - S
            BY <1>12, <3>1, <2>2, <1>9
        <3>4. Order * i \in Int /\ Order * (-i) = -(Order * i)
            BY <1>10
        <3> HIDE DEF b, n
        <3> QED
            BY <3>1, <3>2, <3>3, <3>4, <1>10, <1>11
    <2> QED
        BY <2>1, <2>2
<1> HIDE DEF b, n
<1>14. (b + Order * n) % Order = b % Order
    BY <1>10, <1>13, ModMultiple
<1> QED
    BY <1>5, <1>13, <1>14 DEF b

\* The terms R of each server add up to b, term by term.
SharesSum(R, T, b) ==
    /\ IsFiniteSet(T)
    /\ \A p \in Servers : \A i \in T : R[p][i] \in Int
    /\ \A i \in T : b[i] \in Int
    /\ \A i \in T : SumOn([p \in Servers |-> R[p][i]], Servers) % Order = b[i] % Order

\* If the servers' terms are shares of values, their sums are shares of the sum.
LEMMA SharedTotal ==
    ASSUME NEW R, NEW T, NEW b, SharesSum(R, T, b), NEW f, DOMAIN f = Servers,
           \A p \in Servers : f[p] = SumOn(R[p], T) % Order
    PROVE  Total(f) = SumOn(b, T) % Order
<1>1. /\ IsFiniteSet(T)
      /\ \A p \in Servers : \A i \in T : R[p][i] \in Int
      /\ \A i \in T : b[i] \in Int
      /\ \A i \in T : SumOn([p \in Servers |-> R[p][i]], Servers) % Order = b[i] % Order
    BY DEF SharesSum
<1> DEFINE C == [i \in T |-> [p \in Servers |-> R[p][i]]]
           s == [p \in Servers |-> SumOn(R[p], T)]
           q == [i \in T |-> SumOn(C[i], Servers)]
<1>2. /\ \A p \in Servers : \A i \in T : R[p][i] \in Int /\ C[i][p] = R[p][i]
      /\ \A p \in Servers : s[p] = SumOn(R[p], T)
      /\ \A i \in T : q[i] = SumOn(C[i], Servers) /\ q[i] % Order = b[i] % Order
    BY <1>1
<1> HIDE DEF C, s, q
<1>3. SumOn(s, Servers) = SumOn(q, T)
    <2>1. Table(Servers, T, R, C, s, q)
        BY <1>1, <1>2, ServerSet DEF Table
    <2> QED
        BY <2>1, SumSwap
<1>4. Order \in Nat /\ Order > 0
    BY SharingAssumption
<1>5. \A p \in Servers : s[p] \in Int
    <2> TAKE p \in Servers
    <2>1. \A i \in T : R[p][i] \in Int
        BY <1>1
    <2>2. SumOn(R[p], T) \in Int
        BY <1>1, <2>1, SumInt
    <2> QED
        BY <1>2, <2>2
<1>6. \A p \in Servers : f[p] \in Int /\ s[p] \in Int /\ f[p] % Order = s[p] % Order
    <2> TAKE p \in Servers
    <2>1. f[p] = s[p] % Order /\ s[p] \in Int
        BY <1>2, <1>5
    <2> QED
        BY <2>1, <1>4
<1>7. SumOn(f, Servers) % Order = SumOn(s, Servers) % Order
    BY <1>4, <1>6, ServerSet, SumMod
<1>8. \A i \in T : q[i] \in Int
    <2> TAKE i \in T
    <2>1. \A p \in Servers : C[i][p] \in Int
        BY <1>2
    <2>2. SumOn(C[i], Servers) \in Int
        BY <2>1, ServerSet, SumInt
    <2> QED
        BY <1>2, <2>2
<1>9. \A i \in T : q[i] \in Int /\ b[i] \in Int /\ q[i] % Order = b[i] % Order
    BY <1>1, <1>2, <1>8
<1>10. SumOn(q, T) % Order = SumOn(b, T) % Order
    BY <1>1, <1>4, <1>9, SumMod
<1>11. Total(f) = SumOn(f, Servers) % Order
    BY XorOn
<1> QED
    BY <1>3, <1>7, <1>10, <1>11

\* The bits that conv_b2a converts.
ConvValue(i) == IF i < IdxBits THEN (idx \div 2^i) % 2 ELSE Record

\* The bits that are converted are shares of the index and of the record.
LEMMA ConvBit ==
    ASSUME QueryInv, stage = "conv", NEW i \in 0..IdxBits
    PROVE  /\ \A p \in Servers : ConvBits(p)[i] \in Int
           /\ Xor([p \in Servers |-> ConvBits(p)[i]]) = ConvValue(i)
           /\ ConvValue(i) \in {0, 1}
<1>1. IdxOk /\ rec \in [Servers -> Int] /\ Xor(rec) = Record
    BY DEF QueryInv, ControlInv, RecordInv
<1>2. \A p \in Servers : ConvBits(p)[i] = IF i < IdxBits THEN IdxShare(p)[i] ELSE rec[p]
    BY DEF ConvBits
<1> DEFINE s == [p \in Servers |-> ConvBits(p)[i]]
<1>3. (\A p \in Servers : s[p] \in Int) /\ Xor(s) = ConvValue(i)
    <2>1. CASE i < IdxBits
        <3>1. i \in 0..IdxBits - 1
            BY <2>1, Dims
        <3>2. /\ \A p \in Servers : IdxShare(p)[i] \in 0..1
              /\ Xor([p \in Servers |-> IdxShare(p)[i]]) = (idx \div 2^i) % 2
            BY <1>1, <3>1, IdxBit
        <3>3. s = [p \in Servers |-> IdxShare(p)[i]]
            BY <1>2, <2>1
        <3>4. \A p \in Servers : s[p] \in Int
            BY <3>2, <3>3
        <3> QED
            BY <2>1, <3>2, <3>3, <3>4 DEF ConvValue
    <2>2. CASE ~(i < IdxBits)
        <3>1. s = rec
            BY <1>1, <1>2, <2>2
        <3> HIDE DEF s
        <3> QED
            BY <1>1, <2>2, <3>1 DEF ConvValue
    <2> QED
        BY <2>1, <2>2
<1>4. DOMAIN s = Servers /\ \A p \in Servers : s[p] = ConvBits(p)[i]
    OBVIOUS
<1> HIDE DEF s
<1>5. Xor(s) \in {0, 1}
    BY <1>3, <1>4, XorBit
<1> QED
    BY <1>3, <1>4, <1>5 DEF s

\* ConvLayer::interact up to the exchange keeps the invariant.
LEMMA ConvBlindInv ==
    ASSUME QueryInv, ConvBlind
    PROVE  QueryInv'
<1>1. /\ stage = "conv" /\ lstate' = "SendingDaBits"
      /\ e' = [p \in Servers |->
                  [i \in 0..IdxBits |-> (ConvBits(p)[i] + DaBit(Seeds, p, i).r_z2) % 2]]
      /\ UNCHANGED <<idx, seed, stage, layer, used, prev, pir, rec, arith, token>>
    BY DEF ConvBlind, queryVars
<1>2. \A p \in Servers : \A i \in 0..IdxBits :
          e'[p][i] = (ConvBits(p)[i] + DaBit(Seeds, p, i).r_z2) % 2
    BY <1>1
<1>3. RecordInv'
    <2>1. rec' \in [Servers -> Int] /\ Xor(rec') = Record'
        BY <1>1, SameRecord DEF QueryInv, RecordInv
    <2>2. Seeds' = Seeds /\ \A p \in Servers : ConvBits(p)' = ConvBits(p)
        BY <1>1 DEF Seeds, ConvBits, IdxShare, IdxTo2Dim
    <2> QED
        BY <1>2, <2>1, <2>2 DEF RecordInv
<1>4. ControlInv'
    BY <1>1, SameRecord DEF QueryInv, ControlInv
<1>5. EncodingInv' /\ PirInv' /\ RunInv'
    BY <1>1 DEF EncodingInv, PirInv, RunInv
<1>6. ConversionCorrect' /\ TokenInv'
    BY <1>1, ConversionFrame, TokenFrame DEF QueryInv
<1> QED
    BY <1>3, <1>4, <1>5, <1>6 DEF QueryInv

\* The bit that the servers open is the blinded bit.
LEMMA OpenedBit ==
    ASSUME QueryInv, stage = "conv", lstate = "SendingDaBits", NEW i \in 0..IdxBits
    PROVE  Reconstruct(IdxBits + 1, e)[i] = (ConvValue(i) + DrawBit(Seeds[0], i)) % 2
<1>1. ControlInv /\ Generator /\ i \in Nat
    BY Dims DEF QueryInv, ControlInv, IdxOk
<1>2. Seeds \in [Servers -> Nat]
    BY <1>1, SizeType
<1> DEFINE f == [p \in Servers |-> ConvBits(p)[i]]
           g == [p \in Servers |-> DaBit(Seeds, p, i).r_z2]
           h == [p \in Servers |-> e[p][i]]
<1>3. (\A p \in Servers : f[p] \in Int) /\ Xor(f) = ConvValue(i)
    BY ConvBit
<1>4. /\ \A p \in Servers : DaBit(Seeds, p, i).r_z2 \in 0..1
      /\ Xor(g) = DrawBit(Seeds[0], i)
    <2> DEFINE s == Seeds
    <2>1. s \in [Servers -> Nat]
        BY <1>2
    <2> HIDE DEF s
    <2>2. /\ \A p \in Servers : DaBit(s, p, i).r_z2 \in 0..1
          /\ Xor([p \in Servers |-> DaBit(s, p, i).r_z2]) = DrawBit(s[0], i)
        BY <2>1, <1>1, DaBitShares
    <2> QED
        BY <2>2 DEF s
<1>5. \A p \in Servers : g[p] \in Int
    BY <1>4
<1>6. \A p \in Servers : h[p] = (f[p] + g[p]) % 2
    BY DEF QueryInv, RecordInv
<1>7. DOMAIN f = Servers /\ DOMAIN g = Servers /\ DOMAIN h = Servers
    OBVIOUS
<1>8. Reconstruct(IdxBits + 1, e)[i] = Xor(h)
    <2>1. i \in 0..(IdxBits + 1) - 1
        BY Dims
    <2> QED
        BY <2>1 DEF Reconstruct
<1> HIDE DEF f, g, h
<1>9. Xor(h) = (Xor(f) + Xor(g)) % 2
    BY <1>3, <1>5, <1>6, <1>7, XorBlind
<1> QED
    BY <1>3, <1>4, <1>8, <1>9

\* The servers' shares of the bits lo..hi add up to the value of these bits.
LEMMA ConvShare ==
    ASSUME QueryInv, stage = "conv", lstate = "SendingDaBits",
           NEW lo \in 0..IdxBits, NEW hi \in 0..IdxBits, NEW b,
           \A i \in lo..hi : b[i] = Two(i - lo) * ConvValue(i)
    PROVE  Total([p \in Servers |-> ArithShare(p, Reconstruct(IdxBits + 1, e), lo, hi)])
               = SumOn(b, lo..hi) % Order
<1> DEFINE T == lo..hi
           o == Reconstruct(IdxBits + 1, e)
           Z(p, i) == DaBit(Seeds, p, i).r_zp
           R == [p \in Servers |-> [i \in T |-> Two(i - lo) * ArithBit(p, o[i], Z(p, i))]]
           f == [p \in Servers |-> ArithShare(p, o, lo, hi)]
<1>1. ControlInv /\ Generator /\ Seeds \in [Servers -> Nat] /\ IdxBits \in 0..32
    BY SizeType, Dims DEF QueryInv, ControlInv, IdxOk
<1>2. IsFiniteSet(T)
    BY Dims, FS_Interval
<1>3. ASSUME NEW i \in T
      PROVE  /\ b[i] \in Int
             /\ \A p \in Servers : R[p][i] \in Int
             /\ SumOn([p \in Servers |-> R[p][i]], Servers) % Order = b[i] % Order
    <2>1. i \in 0..IdxBits /\ i \in Nat /\ i - lo \in 0..32
        BY <1>1
    <2> DEFINE w == Two(i - lo)
               v == DrawBit(Seeds[0], i)
               oi == o[i]
               c == ConvValue(i)
               r == [p \in Servers |-> Z(p, i)]
               h == [p \in Servers |-> ArithBit(p, oi, r[p])]
               k == [p \in Servers |-> R[p][i]]
    <2>2. w \in Nat
        BY <2>1, Powers
    <2>3. c \in {0, 1} /\ b[i] = w * c
        BY <2>1, ConvBit
    <2>4. oi = (c + v) % 2
        BY <2>1, OpenedBit
    <2>5. /\ v \in 0..1 /\ \A p \in Servers : r[p] \in Int
          /\ SumOn(r, Servers) % Order = v % Order
        <3> DEFINE s == Seeds
        <3>1. s \in [Servers -> Nat]
            BY <1>1
        <3> HIDE DEF s
        <3>2. /\ \A p \in Servers : DaBit(s, p, i).r_zp \in Int
              /\ DrawBit(s[0], i) \in 0..1
              /\ SumOn([p \in Servers |-> DaBit(s, p, i).r_zp], Servers) % Order
                     = DrawBit(s[0], i) % Order
            BY <3>1, <1>1, <2>1, DaBitShares
        <3> QED
            BY <3>2 DEF s
    <2>6. DOMAIN r = Servers /\ \A p \in Servers : h[p] = ArithBit(p, oi, r[p])
        OBVIOUS
    <2>7. \A p \in Servers : k[p] = w * h[p] /\ k[p] = R[p][i]
        OBVIOUS
    <2> HIDE DEF w, v, oi, c, r, h, k, R, T, o
    <2>8. v \in {0, 1} /\ oi \in {0, 1} /\ (oi + v) % 2 = c
        BY <2>3, <2>4, <2>5
    <2>9. /\ \A p \in Servers : h[p] \in Int
          /\ SumOn(h, Servers) % Order = ((oi + v) % 2) % Order
        BY <2>5, <2>6, <2>8, ArithBitSum
    <2>10. SumOn(k, Servers) = w * SumOn(h, Servers)
        <3>1. w \in Int /\ \A p \in Servers : h[p] \in Int /\ k[p] = w * h[p]
            BY <2>2, <2>7, <2>9
        <3> QED
            BY <3>1, ServerSet, SumTimes
    <2> DEFINE H == SumOn(h, Servers)
    <2>11. H \in Int /\ H % Order = c % Order
        BY <2>8, <2>9, ServerSet, SumInt
    <2>12. Order \in Nat /\ Order > 0 /\ c \in Int /\ w \in Int
        BY <2>2, <2>3, SharingAssumption
    <2> HIDE DEF H
    <2>13. (w * H) % Order = (w * c) % Order
        BY <2>11, <2>12, ModTimes
    <2>14. \A p \in Servers : R[p][i] \in Int
        <3> TAKE p \in Servers
        <3>1. w * h[p] \in Int
            BY <2>9, <2>12
        <3> QED
            BY <3>1, <2>7
    <2>15. w * c \in Int
        BY <2>12
    <2> QED
        BY <2>3, <2>10, <2>13, <2>14, <2>15 DEF H, k
<1>4. ASSUME NEW p \in Servers
      PROVE  f[p] = SumOn(R[p], T) % Order
    <2>1. f[p] = SumFunction([i \in T |-> Two(i - lo) * ArithBit(p, o[i], Z(p, i))]) % Order
        BY DEF ArithShare, Two
    <2>2. f[p] = Total(R[p]) /\ DOMAIN R[p] = T
        BY <2>1 DEF Total
    <2> QED
        BY <2>2, XorOn
<1>5. DOMAIN f = Servers
    OBVIOUS
<1> HIDE DEF T, R, f
<1>6. SharesSum(R, T, b)
    BY <1>2, <1>3 DEF SharesSum
<1>7. Total(f) = SumOn(b, T) % Order
    BY <1>4, <1>5, <1>6, SharedTotal
<1> QED
    BY <1>7 DEF T, f

\* The record is a bit.
LEMMA RecordBit ==
    ASSUME IdxOk
    PROVE  Record \in {0, 1}
<1> DEFINE a == IdxTo2Dim[1]
           b == IdxTo2Dim[2]
<1>1. a \in Nat /\ b \in Nat
    BY IdxParts, PowerDims
<1> HIDE DEF a, b
<1>2. DbBit(seed.db, a, b) \in 0..1
    BY <1>1, DbBits
<1> QED
    BY <1>2 DEF Record, a, b

\* The rest of ConvLayer::interact keeps the invariant.
LEMMA ConvFinishInv ==
    ASSUME QueryInv, ConvFinish
    PROVE  QueryInv'
<1> DEFINE o == Reconstruct(IdxBits + 1, e)
<1>1. /\ stage = "conv" /\ lstate = "SendingDaBits" /\ stage' = "commit"
      /\ arith' = [p \in Servers |-> [idx |-> ArithShare(p, o, 0, IdxBits - 1),
                                      rec |-> ArithShare(p, o, IdxBits, IdxBits)]]
      /\ UNCHANGED <<idx, seed, layer, lstate, used, rec, e, token>>
    BY DEF ConvFinish, queryVars, layerVars
<1>2. IdxOk /\ idx \in Nat /\ Record \in {0, 1}
    BY IdxParts, RecordBit DEF QueryInv, ControlInv
<1>3. IdxBits \in 1..32 /\ Order \in Nat /\ Order > 1 /\ idx < Two(IdxBits) /\ Two(IdxBits) < Order
      /\ Two(IdxBits) \in Nat
    BY <1>2, Dims, PowerDims, SharingAssumption, QueryAssumption DEF IdxOk, Two, IdxBits
<1>4. Total([p \in Servers |-> ArithShare(p, o, 0, IdxBits - 1)]) = idx
    <2> DEFINE z == 0
               k == IdxBits - 1
               b == [i \in 0..IdxBits - 1 |-> Two(i) * ((idx \div Two(i)) % 2)]
    <2>1. z \in 0..IdxBits /\ k \in 0..IdxBits
        BY <1>3
    <2>2. \A i \in z..k : b[i] = Two(i - z) * ConvValue(i)
        <3> TAKE i \in z..k
        <3>1. i \in 0..IdxBits - 1 /\ i - z = i /\ i < IdxBits
            BY <1>3
        <3>2. ConvValue(i) = (idx \div Two(i)) % 2
            BY <3>1 DEF ConvValue, Two
        <3> QED
            BY <3>1, <3>2
    <2>3. \A i \in 0..IdxBits - 1 : b[i] = Two(i) * ((idx \div Two(i)) % 2)
        OBVIOUS
    <2> HIDE DEF z, k, b
    <2>4. Total([p \in Servers |-> ArithShare(p, Reconstruct(IdxBits + 1, e), z, k)])
              = SumOn(b, z..k) % Order
        BY <1>1, <2>1, <2>2, ConvShare
    <2>5. SumOn(b, 0..IdxBits - 1) = idx % Two(IdxBits)
        <3> DEFINE n == IdxBits
        <3>1. n \in 0..32 /\ \A i \in 0..n - 1 : b[i] = Two(i) * ((idx \div Two(i)) % 2)
            BY <1>3, <2>3
        <3> HIDE DEF n
        <3>2. SumOn(b, 0..n - 1) = idx % Two(n)
            BY <1>2, <3>1, Binary, Zenon
        <3> QED
            BY <3>2 DEF n
    <2> DEFINE P == Two(IdxBits)
    <2>6. idx % P = idx /\ idx % Order = idx
        <3>1. P \in Nat /\ idx < P /\ P < Order
            BY <1>3
        <3> HIDE DEF P
        <3> QED
            BY <1>2, <1>3, <3>1
    <2>7. Total([p \in Servers |-> ArithShare(p, o, 0, IdxBits - 1)])
              = SumOn(b, 0..IdxBits - 1) % Order
        BY <2>4, Zenon DEF z, k
    <2> HIDE DEF o
    <2> QED
        BY <2>5, <2>6, <2>7
<1>5. Total([p \in Servers |-> ArithShare(p, o, IdxBits, IdxBits)]) = Record
    <2> DEFINE b == [i \in IdxBits..IdxBits |-> Record]
               y == IdxBits
    <2>1. y \in 0..IdxBits /\ y \in y..y /\ \A i \in y..y : i = y
        BY <1>3
    <2>2. \A i \in y..y : b[i] = Two(i - y) * ConvValue(i)
        <3> TAKE i \in y..y
        <3>1. i = IdxBits /\ i - y = 0 /\ ~(i < IdxBits)
            BY <1>3
        <3>2. ConvValue(i) = Record /\ Two(i - y) = 1
            BY <3>1, PowerTable DEF ConvValue
        <3>3. b[i] = Record
            BY <3>1
        <3> QED
            BY <1>2, <3>2, <3>3
    <2>3. b[y] = Record /\ b[y] \in Int
        BY <1>2, <2>1
    <2> HIDE DEF b, y
    <2>4. IsFiniteSet(y..y)
        <3>1. y \in Int
            BY <1>3 DEF y
        <3> QED
            BY <3>1, FS_Interval
    <2>5. Total([p \in Servers |-> ArithShare(p, Reconstruct(IdxBits + 1, e), y, y)])
              = SumOn(b, y..y) % Order
        BY <1>1, <2>1, <2>2, ConvShare
    <2>6. SumOn(b, y..y) = b[y]
        BY <2>1, <2>3, <2>4, SumOnly
    <2>7. Record % Order = Record
        BY <1>2, <1>3
    <2>8. Total([p \in Servers |-> ArithShare(p, o, IdxBits, IdxBits)]) = SumOn(b, y..y) % Order
        BY <2>5, Zenon DEF y
    <2> HIDE DEF o
    <2> QED
        BY <2>3, <2>6, <2>7, <2>8
<1> HIDE DEF o
<1>6. /\ [p \in Servers |-> arith'[p].idx] = [p \in Servers |-> ArithShare(p, o, 0, IdxBits - 1)]
      /\ [p \in Servers |-> arith'[p].rec] = [p \in Servers |-> ArithShare(p, o, IdxBits, IdxBits)]
    BY <1>1
<1>7. ConversionCorrect'
    BY <1>1, <1>4, <1>5, <1>6, SameRecord DEF ConversionCorrect
<1>8. ControlInv'
    BY <1>1, SameRecord DEF QueryInv, ControlInv, Stages
<1>9. EncodingInv' /\ PirInv' /\ RunInv'
    BY <1>1 DEF EncodingInv, PirInv, RunInv
<1>10. RecordInv' /\ TokenInv'
    BY <1>1, SameRecord DEF QueryInv, RecordInv, TokenInv
<1> QED
    BY <1>7, <1>8, <1>9, <1>10 DEF QueryInv

----------------------------------------------------------------------------
(* The commitment and the client's token.                                  *)

\* The aggregation and the signature keep the invariant.
LEMMA AggregateCommitmentsInv ==
    ASSUME QueryInv, AggregateCommitments
    PROVE  QueryInv'
<1>1. /\ stage = "commit" /\ stage' = "check0"
      /\ token' = [commitment |-> << >>,
                   sig |-> Commit(Total([p \in Servers |-> RndShare(p)]),
                                  Total([p \in Servers |-> arith[p].idx]),
                                  Total([p \in Servers |-> arith[p].rec]))]
      /\ UNCHANGED <<idx, seed, layer, lstate, used, rec, e, arith>>
    BY DEF AggregateCommitments, queryVars, layerVars
<1>2. IdxOk
    BY DEF QueryInv, ControlInv
<1>3. Total([p \in Servers |-> RndShare(p)]) = CommitRnd
    <2> DEFINE x == CommitRnd
               s == seed.query
               n == N * IdxBits
    <2>1. s \in Nat /\ n \in Nat /\ Generator
        BY <1>2, Dims, SharingAssumption DEF IdxOk
    <2> DEFINE at == n + 1
    <2>2. x \in 0..Order - 1
        <3>1. x = Draw(s, n)
            BY DEF CommitRnd
        <3> HIDE DEF x, s, n
        <3> QED
            BY <2>1, <3>1, DrawTypes
    <2>3. x \in Int /\ at \in Nat
        <3> HIDE DEF x, n
        <3> QED
            BY <2>1, <2>2
    <2>4. \A p \in Servers : RndShare(p) = ShareArith(x, s, at)[p]
        BY DEF RndShare
    <2> HIDE DEF x, s, at
    <2>5. Total(ShareArith(x, s, at)) = x % Order
        BY <2>1, <2>3, ShareArithTotal
    <2>6. ShareArith(x, s, at) = [p \in Servers |-> ShareArith(x, s, at)[p]]
        BY DEF ShareArith
    <2>7. x % Order = x
        BY <2>2, SharingAssumption
    <2>8. [p \in Servers |-> RndShare(p)] = [p \in Servers |-> ShareArith(x, s, at)[p]]
        BY <2>4
    <2>9. Total([p \in Servers |-> RndShare(p)]) = x
        BY <2>5, <2>6, <2>7, <2>8
    <2> QED
        BY <2>9 DEF x
<1>4. /\ Total([p \in Servers |-> arith[p].idx]) = idx
      /\ Total([p \in Servers |-> arith[p].rec]) = Record
    BY <1>1 DEF QueryInv, ConversionCorrect
<1>5. token' = [commitment |-> << >>, sig |-> GetCommitment(Record)]
    BY <1>1, <1>3, <1>4 DEF GetCommitment
<1>6. GetCommitment(Record)' = GetCommitment(Record)
    BY <1>1 DEF GetCommitment, CommitRnd, Record, IdxTo2Dim
<1>7. TokenInv'
    BY <1>1, <1>5, <1>6 DEF TokenInv
<1>8. ControlInv'
    BY <1>1, SameRecord DEF QueryInv, ControlInv, Stages
<1>9. EncodingInv' /\ PirInv' /\ RunInv'
    BY <1>1 DEF EncodingInv, PirInv, RunInv
<1>10. RecordInv' /\ ConversionCorrect'
    BY <1>1, SameRecord DEF QueryInv, RecordInv, ConversionCorrect
<1> QED
    BY <1>7, <1>8, <1>9, <1>10 DEF QueryInv

\* A commitment opens to one value.
LEMMA Binding ==
    ASSUME NEW v, NEW w
    PROVE  (GetCommitment(v) = GetCommitment(w) <=> v = w) /\ GetCommitment(v) # << >>
<1>1. GetCommitment(v).resp = v /\ GetCommitment(w).resp = w
    BY DEF GetCommitment, Commit
<1>2. "resp" \in DOMAIN GetCommitment(v)
    BY DEF GetCommitment, Commit
<1>3. DOMAIN << >> = {}
    OBVIOUS
<1>4. GetCommitment(v) # << >>
    BY <1>2, <1>3
<1> QED
    BY <1>1, <1>4

\* check_for_rec_val keeps the invariant.
LEMMA CheckForRecValInv ==
    ASSUME QueryInv, CheckForRecVal
    PROVE  QueryInv'
<1>1. /\ stage \in {"check0", "check1"}
      /\ stage' = (IF stage = "check0" THEN "check1" ELSE "verify")
      /\ UNCHANGED <<idx, seed, layer, lstate, used, rec, e, arith>>
    BY DEF CheckForRecVal, Checks, queryVars, layerVars
<1> DEFINE v == Checks[stage]
           c == IF GetCommitment(v) = token.sig THEN GetCommitment(v) ELSE token.commitment
<1>2. token' = [token EXCEPT !.commitment = c]
    BY DEF CheckForRecVal
<1>3. /\ token.sig = GetCommitment(Record)
      /\ token = [commitment |-> token.commitment, sig |-> token.sig]
    BY <1>1 DEF QueryInv, TokenInv
<1>4. token' = [commitment |-> c, sig |-> token.sig]
    <2> HIDE DEF c
    <2> QED
        BY <1>2, <1>3
<1>5. token'.commitment = c /\ token'.sig = GetCommitment(Record)
    BY <1>3, <1>4
<1>6. v = (IF stage = "check0" THEN 0 ELSE 1)
    BY <1>1 DEF Checks
<1>7. Record \in {0, 1}
    BY RecordBit DEF QueryInv, ControlInv
<1>8. c = IF v = Record THEN GetCommitment(Record) ELSE token.commitment
    BY <1>3, Binding
<1>9. GetCommitment(Record)' = GetCommitment(Record) /\ Record' = Record
    BY <1>1 DEF GetCommitment, CommitRnd, Record, IdxTo2Dim
<1> HIDE DEF v, c
<1>10. TokenInv'
    <2>1. CASE stage = "check0"
        <3>1. stage' = "check1" /\ v = 0 /\ token.commitment = << >>
            BY <1>1, <1>6, <2>1 DEF QueryInv, TokenInv
        <3>2. c = IF Record = 0 THEN GetCommitment(Record) ELSE << >>
            BY <1>8, <3>1
        <3> QED
            BY <1>4, <1>5, <1>9, <3>1, <3>2 DEF TokenInv
    <2>2. CASE stage = "check1"
        <3>1. /\ stage' = "verify" /\ v = 1
              /\ token.commitment = IF Record = 0 THEN GetCommitment(Record) ELSE << >>
            BY <1>1, <1>6, <2>2 DEF QueryInv, TokenInv
        <3>2. c = GetCommitment(Record)
            BY <1>7, <1>8, <3>1
        <3> QED
            BY <1>4, <1>5, <1>9, <3>1, <3>2 DEF TokenInv
    <2> QED
        BY <1>1, <2>1, <2>2
<1>11. ControlInv'
    BY <1>1, SameRecord DEF QueryInv, ControlInv, Stages
<1>12. EncodingInv' /\ PirInv' /\ RunInv'
    BY <1>1 DEF EncodingInv, PirInv, RunInv
<1>13. RecordInv' /\ ConversionCorrect'
    BY <1>1, SameRecord DEF QueryInv, RecordInv, ConversionCorrect
<1> QED
    BY <1>10, <1>11, <1>12, <1>13 DEF QueryInv

\* verify keeps the invariant.
LEMMA VerifyInv ==
    ASSUME QueryInv, Verify
    PROVE  QueryInv'
<1>1. /\ stage = "verify"
      /\ stage' = (IF token.commitment # << >> /\ token.commitment = token.sig
                   THEN "done" ELSE "panic")
      /\ UNCHANGED <<idx, seed, layer, lstate, used, rec, e, arith, token>>
    BY DEF Verify, queryVars, layerVars
<1>2. /\ token.sig = GetCommitment(Record) /\ token.commitment = GetCommitment(Record)
      /\ token = [commitment |-> token.commitment, sig |-> token.sig]
    BY <1>1 DEF QueryInv, TokenInv
<1>3. stage' = "done"
    BY <1>1, <1>2, Binding
<1>4. GetCommitment(Record)' = GetCommitment(Record)
    BY <1>1 DEF GetCommitment, CommitRnd, Record, IdxTo2Dim
<1>5. TokenInv'
    BY <1>1, <1>2, <1>3, <1>4 DEF TokenInv
<1>6. ControlInv'
    BY <1>1, <1>3, SameRecord DEF QueryInv, ControlInv, Stages
<1>7. EncodingInv' /\ PirInv' /\ RunInv'
    BY <1>1, <1>3 DEF EncodingInv, PirInv, RunInv
<1>8. RecordInv' /\ ConversionCorrect'
    BY <1>1, <1>3, SameRecord DEF QueryInv, RecordInv, ConversionCorrect
<1> QED
    BY <1>5, <1>6, <1>7, <1>8 DEF QueryInv

\* Steps that change nothing.
LEMMA StutterInv ==
    ASSUME QueryInv, UNCHANGED vars
    PROVE  QueryInv'
<1>1. /\ UNCHANGED <<idx, seed, stage, layer, lstate, size, ops, and_data, beaver, prev,
                     used, pir, rec, e, arith, token>>
      /\ UNCHANGED <<idx, seed, stage, layer, prev, pir>> /\ UNCHANGED <<idx, seed>>
    BY DEF vars
<1>2. ControlInv'
    BY <1>1, SameRecord DEF QueryInv, ControlInv
<1>3. EncodingInv' /\ PirInv' /\ RecordInv' /\ ConversionCorrect' /\ TokenInv'
    BY <1>1, EncodingFrame, PirFrame, RecordFrame, ConversionFrame, TokenFrame DEF QueryInv
<1>4. RunInv'
    <2>1. RunInv
        BY DEF QueryInv
    <2>2. \A o, p : Executed(and_data, o, p)' <=> Executed(and_data, o, p)
        <3> SUFFICES ASSUME NEW o, NEW p PROVE Executed(and_data, o, p)' <=> Executed(and_data, o, p)
            OBVIOUS
        <3>1. Source(p, o)' = Source(p, o)
            BY <1>1, SameSource
        <3> QED
            BY <1>1, <3>1 DEF Executed
    <2> QED
        BY <1>1, <2>1, <2>2 DEF RunInv
<1> QED
    BY <1>2, <1>3, <1>4 DEF QueryInv

\* Every step of the query keeps the invariant.
LEMMA NextInv ==
    ASSUME QueryInv, [Next]_vars
    PROVE  QueryInv'
<1>1. CASE EndTicketing
    BY <1>1, EndTicketingInv
<1>2. CASE \E o \in ops : ExecOperation(o)
    BY <1>2, ExecOperationInv
<1>3. CASE BlindAndWithBeaver
    BY <1>3, BlindAndWithBeaverInv
<1>4. CASE ReconsBeaverUV
    BY <1>4, ReconsBeaverUVInv
<1>5. CASE FinishAndExchange
    BY <1>5, FinishAndExchangeInv
<1>6. CASE PopLayer
    BY <1>6, PopLayerInv
<1>7. CASE RecRetrieve
    BY <1>7, RecRetrieveInv
<1>8. CASE RecordShare
    BY <1>8, RecordShareInv
<1>9. CASE ConvBlind
    BY <1>9, ConvBlindInv
<1>10. CASE ConvFinish
    BY <1>10, ConvFinishInv
<1>11. CASE AggregateCommitments
    BY <1>11, AggregateCommitmentsInv
<1>12. CASE CheckForRecVal
    BY <1>12, CheckForRecValInv
<1>13. CASE Verify
    BY <1>13, VerifyInv
<1>14. CASE UNCHANGED vars
    BY <1>14, StutterInv
<1>15. CASE Done
    BY <1>15, StutterInv DEF Done
<1> QED
    BY <1>1, <1>2, <1>3, <1>4, <1>5, <1>6, <1>7, <1>8, <1>9, <1>10, <1>11, <1>12, <1>13,
       <1>14, <1>15 DEF Next

----------------------------------------------------------------------------
(* The properties.                                                         *)

\* The protocol keeps, from the shares of the index to the client's token, what
\* the proofs of its steps need.
THEOREM QueryInvariant == ASSUME Generator PROVE Spec => []QueryInv
<1>1. Init => QueryInv
    BY InitInv
<1>2. QueryInv /\ [Next]_vars => QueryInv'
    BY NextInv
<1> QED
    BY <1>1, <1>2, PTL DEF Spec

\* finish_and_exchange, for every number of servers and every size of a layer:
\* each bit of the output, padding included, is shared as the AND of the inputs.
THEOREM QueryGates == ASSUME Generator PROVE Spec => []GatesCorrect
<1>1. QueryInv => GatesCorrect
    <2> SUFFICES ASSUME QueryInv, lstate = "Finished",
                        NEW j \in 0..8 * size - 1
                 PROVE  Opened(LAMBDA p : and_data[p].z)[j]
                            = Opened(LAMBDA p : and_data[p].x)[j] * Opened(LAMBDA p : and_data[p].y)[j]
        BY DEF GatesCorrect
    <2>1. stage \in {"ohe", "pir"}
        BY DEF QueryInv, ControlInv
    <2>2. Product(lstate, and_data, beaver, j)
        BY <2>1, RunTypes
    <2>3. XorZ(and_data, j) = XorX(and_data, j) * XorY(and_data, j)
        BY <2>2 DEF Product
    <2> QED
        BY <2>3 DEF Opened, Reconstruct, XorX, XorY, XorZ
<1> QED
    BY <1>1, QueryInvariant, PTL

\* recursive_ohe_vec, for every number of servers and all dimensions of the
\* database: every node of every layer is shared as the one-hot encoding of its
\* bits of the index.
THEOREM QueryEncodings == ASSUME Generator PROVE Spec => []OheCorrect
<1>1. QueryInv => OheCorrect
    <2> SUFFICES ASSUME QueryInv, lstate = "Finished", stage = "ohe", NEW n \in Level[layer]
                 PROVE  Reconstruct(2^n.len, [p \in Servers |-> NodeData(p, layer, n, and_data[p].z)])
                            = OneHot(n)
        BY DEF OheCorrect
    <2> DEFINE z == [p \in Servers |-> and_data[p].z]
               g == [p \in Servers |-> NodeData(p, layer, n, z[p])]
    <2>1. Encodes(g, 2^n.len, OneHot(n))
        BY LayerResult DEF NodeOk
    <2>2. g = [p \in Servers |-> NodeData(p, layer, n, and_data[p].z)]
        OBVIOUS
    <2> HIDE DEF g
    <2>3. \A j \in 0..2^n.len - 1 : Xor([p \in Servers |-> g[p][j]]) = OneHot(n)[j]
        BY <2>1 DEF Encodes
    <2>4. OneHot(n) = [j \in 0..2^n.len - 1 |-> OneHot(n)[j]]
        BY DEF OneHot
    <2>5. Reconstruct(2^n.len, g) = OneHot(n)
        BY <2>3, <2>4 DEF Reconstruct
    <2> QED
        BY <2>2, <2>5
<1> QED
    BY <1>1, QueryInvariant, PTL

\* rec_retrieve, for every database and every index: the servers end with xor
\* shares of the record that the client asked for.
THEOREM QueryRecord == ASSUME Generator PROVE Spec => []RecordCorrect
<1>1. QueryInv => RecordCorrect
    BY DEF QueryInv, RecordInv, RecordCorrect
<1> QED
    BY <1>1, QueryInvariant, PTL

\* conv_b2a, for every order of the scalar field above the indices: additive
\* shares of the index and of the record.
THEOREM QueryConversion == ASSUME Generator PROVE Spec => []ConversionCorrect
<1>1. QueryInv => ConversionCorrect
    BY DEF QueryInv
<1> QED
    BY <1>1, QueryInvariant, PTL

\* The signed commitment opens to the record at the client's index and to no
\* other value.
THEOREM QueryToken == ASSUME Generator PROVE Spec => []TokenOpensToRecord
<1>1. QueryInv => TokenOpensToRecord
    <2> SUFFICES ASSUME QueryInv, token # << >>, NEW v \in 0..3
                 PROVE  GetCommitment(v) = token.sig <=> v = Record
        BY DEF TokenOpensToRecord
    <2>1. token.sig = GetCommitment(Record)
        BY DEF QueryInv, ControlInv, Stages, TokenInv
    <2> QED
        BY <2>1, Binding
<1> QED
    BY <1>1, QueryInvariant, PTL

\* run_server's assertion holds: the client's two checks leave a token that
\* verifies, with the commitment to its record.
THEOREM QueryVerifies == ASSUME Generator PROVE Spec => []TokenVerifies
<1>1. QueryInv => TokenVerifies
    BY DEF QueryInv, ControlInv, Stages, TokenInv, TokenVerifies
<1> QED
    BY <1>1, QueryInvariant, PTL

----------------------------------------------------------------------------
(* The rounds of the plan.                                                 *)

\* Terms that are zero can be left out of a sum.
LEMMA SumSupport ==
    ASSUME NEW f, NEW T, IsFiniteSet(T), NEW S \in SUBSET T,
           \A x \in T : f[x] \in Int, \A x \in T : x \notin S => f[x] = 0
    PROVE  SumOn(f, T) = SumOn(f, S)
<1> DEFINE Good == {t \in SUBSET T : SumOn(f, t) = SumOn(f, t \cap S)}
<1>1. {} \in Good
    <2>1. {} \cap S = {}
        OBVIOUS
    <2> QED
        BY <2>1
<1>2. ASSUME NEW t \in SUBSET T, t # {}, \A x \in t : t \ {x} \in Good
      PROVE  t \in Good
    <2>1. IsFiniteSet(t) /\ IsFiniteSet(t \cap S)
        BY FS_Subset
    <2>2. PICK y : y \in t
        BY <1>2
    <2>3. SumOn(f, t) = f[y] + SumOn(f, t \ {y})
        BY <2>1, <2>2, SumRemove
    <2>4. SumOn(f, t \ {y}) = SumOn(f, (t \ {y}) \cap S)
        BY <1>2, <2>2
    <2>5. SumOn(f, t \cap S) \in Int /\ SumOn(f, (t \ {y}) \cap S) \in Int
        <3>1. IsFiniteSet((t \ {y}) \cap S)
            BY FS_Subset
        <3> QED
            BY <2>1, <3>1, SumInt
    <2>6. CASE y \in S
        <3>1. y \in t \cap S /\ (t \cap S) \ {y} = (t \ {y}) \cap S
            BY <2>2, <2>6
        <3>2. SumOn(f, t \cap S) = f[y] + SumOn(f, (t \cap S) \ {y})
            BY <2>1, <3>1, SumRemove
        <3> QED
            BY <2>3, <2>4, <3>1, <3>2
    <2>7. CASE y \notin S
        <3>1. (t \ {y}) \cap S = t \cap S /\ f[y] = 0
            BY <2>2, <2>7
        <3>2. SumOn(f, (t \ {y}) \cap S) = SumOn(f, t \cap S)
            BY <3>1, Zenon
        <3>3. SumOn(f, t) = SumOn(f, t \cap S)
            BY <2>3, <2>4, <2>5, <3>1, <3>2
        <3> QED
            BY <3>3
    <2> QED
        BY <2>6, <2>7
<1>3. T \in Good
    <2> HIDE DEF Good
    <2> QED
        BY <1>1, <1>2, SubsetInduction
<1>4. T \cap S = S
    OBVIOUS
<1> QED
    BY <1>3, <1>4

Kids(s) == UNION {{Low(n), High(n)} : n \in s}

\* The halves of different gates of a level are four nodes.
LEMMA KidsApart ==
    ASSUME NEW k \in 0..4, NEW n \in Gates(Level[k])
    PROVE  /\ Low(n) # High(n)
           /\ \A m \in Gates(Level[k]) : m # n =>
                 {Low(n), High(n)} \cap {Low(m), High(m)} = {}
<1>1. \A m \in Gates(Level[k]) :
          /\ m \in Node /\ m.len > 1 /\ m.lo \in Nat /\ m.len \in Nat /\ m \in Level[k]
          /\ Split(m) \in Nat /\ Split(m) >= 1 /\ Split(m) < m.len
          /\ Low(m).lo = m.lo /\ High(m).lo = m.lo + Split(m)
    <2> SUFFICES ASSUME NEW m \in Gates(Level[k])
                 PROVE  /\ m \in Node /\ m.len > 1 /\ m.lo \in Nat /\ m.len \in Nat /\ m \in Level[k]
                        /\ Split(m) \in Nat /\ Split(m) >= 1 /\ Split(m) < m.len
                        /\ Low(m).lo = m.lo /\ High(m).lo = m.lo + Split(m)
        OBVIOUS
    <2>1. m \in Level[k] /\ m.len > 1
        BY DEF Gates
    <2>2. m \in Node /\ m.lo \in Nat /\ m.len \in Nat
        BY <2>1, Nodes DEF Node
    <2> QED
        BY <2>1, <2>2, Halves
<1>2. Low(n) # High(n)
    BY <1>1
<1>3. ASSUME NEW m \in Gates(Level[k]), m # n
      PROVE  {Low(n), High(n)} \cap {Low(m), High(m)} = {}
    <2>1. n.lo + n.len <= m.lo \/ m.lo + m.len <= n.lo
        BY <1>1, <1>3, LevelCovers DEF Covers
    <2>2. /\ Low(n).lo # Low(m).lo /\ Low(n).lo # High(m).lo
          /\ High(n).lo # Low(m).lo /\ High(n).lo # High(m).lo
        BY <1>1, <2>1
    <2> QED
        BY <2>2
<1> QED
    BY <1>2, <1>3

\* A sum over a level, by the gates of the layer above it.
LEMMA ChildSum ==
    ASSUME NEW k \in 0..4, NEW f, \A n \in Level[k + 1] : f[n] \in Int
    PROVE  SumOn(f, Level[k + 1])
               = SumOn([n \in Gates(Level[k]) |-> f[Low(n)] + f[High(n)]], Gates(Level[k]))
<1> DEFINE S == Gates(Level[k])
           g == [n \in S |-> f[Low(n)] + f[High(n)]]
           Good == {s \in SUBSET S : SumOn(f, Kids(s)) = SumOn(g, s)}
<1>1. Level[k + 1] = Kids(S) /\ IsFiniteSet(Level[k + 1]) /\ IsFiniteSet(S)
    <2>1. k + 1 \in 1..5 /\ (k + 1) - 1 = k /\ k + 1 \in 0..5 /\ k \in 0..5
        OBVIOUS
    <2> QED
        BY <2>1, LevelDef, FiniteLevel DEF Children, Kids
<1>2. \A n \in S : /\ g[n] = f[Low(n)] + f[High(n)] /\ g[n] \in Int
                   /\ f[Low(n)] \in Int /\ f[High(n)] \in Int
    BY ChildIn
<1>3. {} \in Good
    <2>1. Kids({}) = {}
        BY DEF Kids
    <2> QED
        BY <2>1, SumEmpty
<1>4. ASSUME NEW s \in SUBSET S, s # {}, \A x \in s : s \ {x} \in Good
      PROVE  s \in Good
    <2>1. PICK y : y \in s
        BY <1>4
    <2> DEFINE A == Kids(s)
               B == A \ {Low(y)}
               C == B \ {High(y)}
    <2>2. Low(y) \in A /\ High(y) \in B /\ C = Kids(s \ {y})
        <3>1. Low(y) # High(y)
            BY <2>1, KidsApart
        <3>2. \A m \in s \ {y} : {Low(y), High(y)} \cap {Low(m), High(m)} = {}
            BY <2>1, KidsApart
        <3>3. Low(y) \in A /\ High(y) \in A
            BY <2>1 DEF Kids
        <3>4. A = Kids(s \ {y}) \cup {Low(y), High(y)}
            BY <2>1, Zenon DEF Kids
        <3>5. Low(y) \notin Kids(s \ {y}) /\ High(y) \notin Kids(s \ {y})
            BY <3>2, Zenon DEF Kids
        <3> HIDE DEF A
        <3> QED
            BY <3>1, <3>3, <3>4, <3>5
    <2>3. A \in SUBSET Level[k + 1] /\ B \in SUBSET Level[k + 1] /\ C \in SUBSET Level[k + 1]
        BY <1>1 DEF Kids
    <2>4. IsFiniteSet(A) /\ IsFiniteSet(B) /\ IsFiniteSet(s)
        <3> HIDE DEF A, B, S
        <3> QED
            BY <1>1, <2>3, FS_Subset
    <2>5. SumOn(f, A) = f[Low(y)] + SumOn(f, A \ {Low(y)})
        <3> HIDE DEF A
        <3> QED
            BY <2>2, <2>3, <2>4, SumRemove
    <2>6. SumOn(f, B) = f[High(y)] + SumOn(f, B \ {High(y)})
        <3> HIDE DEF B
        <3> QED
            BY <2>2, <2>3, <2>4, SumRemove
    <2>7. SumOn(g, s) = g[y] + SumOn(g, s \ {y})
        <3>1. \A x \in s : g[x] \in Int
            BY <1>2
        <3> HIDE DEF g
        <3> QED
            BY <2>1, <2>4, <3>1, SumRemove
    <2>8. SumOn(f, C) = SumOn(g, s \ {y})
        BY <1>4, <2>1, <2>2
    <2>9. SumOn(g, s \ {y}) \in Int
        <3>1. IsFiniteSet(s \ {y}) /\ \A x \in s \ {y} : g[x] \in Int
            BY <1>2, <2>4, FS_Subset
        <3> HIDE DEF g
        <3> QED
            BY <3>1, SumInt
    <2>10. g[y] = f[Low(y)] + f[High(y)] /\ f[Low(y)] \in Int /\ f[High(y)] \in Int
        BY <1>2, <2>1
    <2>11. SumOn(f, A) = SumOn(g, s)
        <3> HIDE DEF g
        <3> QED
            BY <2>5, <2>6, <2>7, <2>8, <2>9, <2>10
    <2> QED
        BY <2>11
<1>5. S \in Good
    <2> HIDE DEF Good, S
    <2> QED
        BY <1>1, <1>3, <1>4, SubsetInduction
<1> QED
    BY <1>1, <1>5

\* What the nodes of level j request k layers below.
Requests(j, k) == SumOn([n \in Level[j] |-> OheBytes[n.len][k]], Level[j])

\* The circuit requests of every layer what the plan says: the gates of layer k
\* are those that the two encodings request k levels down.
LEMMA LevelBytes ==
    ASSUME NEW k \in 0..5
    PROVE  Bytes(Gates(Level[k])) = OheBytes[L1][k] + OheBytes[L2][k]
<1>0. MaxBits = 26 /\ MaxDepth = 5
    BY DEF MaxBits, MaxDepth
<1>1. \A b \in 1..26 : \A i \in 0..5 : OheBytes[b][i] \in Nat
    BY <1>0, BytesTable
<1>2. \A j \in 0..5 : \A n \in Level[j] : n.len \in 1..26
    BY Nodes
<1>3. \A i \in 0..5 : Requests(0, i) = OheBytes[L1][i] + OheBytes[L2][i]
    <2> SUFFICES ASSUME NEW i \in 0..5
                 PROVE  Requests(0, i) = OheBytes[L1][i] + OheBytes[L2][i]
        OBVIOUS
    <2> DEFINE L == Level[0]
               f == [n \in L |-> OheBytes[n.len][i]]
    <2>1. L = {Root1, Root2} /\ Root1 # Root2 /\ Root1.len = L1 /\ Root2.len = L2
        BY LevelDef, Dims DEF Root1, Root2
    <2>2. IsFiniteSet(L)
        BY FiniteLevel
    <2>3. /\ f[Root1] = OheBytes[L1][i] /\ f[Root2] = OheBytes[L2][i]
          /\ \A n \in L : f[n] \in Int
        <3>1. \A n \in L : n.len \in 1..26
            BY <1>2
        <3>2. \A n \in L : f[n] = OheBytes[n.len][i]
            OBVIOUS
        <3> HIDE DEF f, L
        <3>3. \A n \in L : f[n] \in Nat
            BY <1>1, <3>1, <3>2
        <3>4. Root1 \in L /\ Root2 \in L
            BY <2>1
        <3> QED
            BY <2>1, <3>2, <3>3, <3>4
    <2> HIDE DEF L, f
    <2>4. SumOn(f, L) = f[Root1] + SumOn(f, L \ {Root1})
        BY <2>1, <2>2, <2>3, SumRemove
    <2>5. L \ {Root1} = {Root2}
        BY <2>1
    <2>6. SumOn(f, {Root2}) = f[Root2]
        <3>1. IsFiniteSet({Root2}) /\ Root2 \in {Root2} /\ f[Root2] \in Int
              /\ \A x \in {Root2} : x # Root2 => f[x] = 0
            BY <2>1, <2>3, FS_Singleton
        <3> QED
            BY <3>1, SumOnly
    <2> QED
        BY <2>3, <2>4, <2>5, <2>6 DEF Requests, f, L
<1>4. \A j \in 0..4 : \A i \in 1..5 : Requests(j, i) = Requests(j + 1, i - 1)
    <2> SUFFICES ASSUME NEW j \in 0..4, NEW i \in 1..5
                 PROVE  Requests(j, i) = Requests(j + 1, i - 1)
        OBVIOUS
    <2> DEFINE L == Level[j]
               S == Gates(L)
               h == [n \in L |-> OheBytes[n.len][i]]
               f == [n \in Level[j + 1] |-> OheBytes[n.len][i - 1]]
               g == [n \in S |-> f[Low(n)] + f[High(n)]]
    <2>1. j \in 0..5 /\ j + 1 \in 0..5 /\ i - 1 \in 0..5 /\ i \in 0..5
        OBVIOUS
    <2>2. SumOn(f, Level[j + 1]) = SumOn(g, S)
        <3>1. \A n \in Level[j + 1] : f[n] \in Int
            <4>1. \A n \in Level[j + 1] : f[n] = OheBytes[n.len][i - 1]
                OBVIOUS
            <4>2. \A n \in Level[j + 1] : n.len \in 1..26
                BY <1>2, <2>1
            <4>3. \A b \in 1..26 : OheBytes[b][i - 1] \in Nat
                BY <1>1, <2>1
            <4> HIDE DEF f
            <4> QED
                BY <4>1, <4>2, <4>3
        <3> HIDE DEF f
        <3> QED
            BY <3>1, ChildSum
    <2>3. \A n \in L : h[n] \in Int
        <3>1. \A n \in L : h[n] = OheBytes[n.len][i]
            OBVIOUS
        <3>2. \A n \in L : n.len \in 1..26
            BY <1>2, <2>1
        <3>3. \A b \in 1..26 : OheBytes[b][i] \in Nat
            BY <1>1, <2>1
        <3> HIDE DEF h, L
        <3> QED
            BY <3>1, <3>2, <3>3
    <2>4. \A n \in L : n \notin S => h[n] = 0
        <3> SUFFICES ASSUME NEW n \in L, n \notin S PROVE h[n] = 0
            OBVIOUS
        <3>1. n.len = 1
            BY <1>2, <2>1 DEF Gates
        <3> QED
            BY <1>0, <2>1, <3>1, BytesTable
    <2>5. \A n \in S : h[n] \in Int /\ g[n] = h[n]
        <3> SUFFICES ASSUME NEW n \in S PROVE h[n] \in Int /\ g[n] = h[n]
            OBVIOUS
        <3>1. n \in L /\ n.len \in 2..26
            BY <1>2, <2>1 DEF Gates
        <3>2. Low(n) \in Level[j + 1] /\ High(n) \in Level[j + 1]
            BY ChildIn
        <3>3. Low(n).len = CeilDiv(n.len, 2) /\ High(n).len = n.len - CeilDiv(n.len, 2)
            BY DEF Low, High, Split
        <3>4. OheBytes[n.len][i] =
                  OheBytes[CeilDiv(n.len, 2)][i - 1] + OheBytes[n.len - CeilDiv(n.len, 2)][i - 1]
            BY <1>0, <3>1, BytesTable
        <3>5. f[Low(n)] = OheBytes[CeilDiv(n.len, 2)][i - 1]
              /\ f[High(n)] = OheBytes[n.len - CeilDiv(n.len, 2)][i - 1]
            BY <3>2, <3>3
        <3> QED
            BY <2>3, <3>1, <3>4, <3>5
    <2>6. IsFiniteSet(L) /\ IsFiniteSet(S) /\ S \in SUBSET L
        BY <2>1, FiniteLevel DEF Gates
    <2> HIDE DEF L, S, h, f, g
    <2>7. SumOn(h, L) = SumOn(h, S)
        BY <2>3, <2>4, <2>6, SumSupport
    <2>8. SumOn(g, S) = SumOn(h, S)
        BY <2>5, <2>6, SumCong
    <2>9. Requests(j, i) = SumOn(h, L) /\ Requests(j + 1, i - 1) = SumOn(f, Level[j + 1])
        BY DEF Requests, h, f, L
    <2> QED
        BY <2>2, <2>7, <2>8, <2>9
<1>5. \A j \in 0..5 : Requests(j, 0) = Bytes(Gates(Level[j]))
    <2> SUFFICES ASSUME NEW j \in 0..5
                 PROVE  Requests(j, 0) = Bytes(Gates(Level[j]))
        OBVIOUS
    <2> DEFINE L == Level[j]
               S == Gates(L)
               h == [n \in L |-> OheBytes[n.len][0]]
               t == TicketOf(j)
    <2>1. \A n \in L : h[n] \in Int
        BY <1>1, <1>2
    <2>2. \A n \in L : n \notin S => h[n] = 0
        <3> SUFFICES ASSUME NEW n \in L, n \notin S PROVE h[n] = 0
            OBVIOUS
        <3>1. n.len = 1
            BY <1>2 DEF Gates
        <3>2. 0 \in 0..MaxDepth
            BY <1>0
        <3>3. OheBytes[1][0] = 0
            BY <3>2, BytesTable
        <3>4. h[n] = OheBytes[n.len][0]
            OBVIOUS
        <3> QED
            BY <3>1, <3>3, <3>4
    <2>3. \A n \in S : h[n] \in Int /\ t[n] = h[n]
        <3> SUFFICES ASSUME NEW n \in S PROVE h[n] \in Int /\ t[n] = h[n]
            OBVIOUS
        <3>1. n \in L /\ n.len \in 2..26
            BY <1>2 DEF Gates
        <3>2. OheBytes[n.len][0] = CeilDiv(2^n.len, 8)
            BY <1>0, <3>1, BytesTable
        <3> QED
            BY <2>1, <3>1, <3>2 DEF TicketOf, TicketBytes
    <2>4. IsFiniteSet(L) /\ IsFiniteSet(S) /\ S \in SUBSET L
        BY FiniteLevel DEF Gates
    <2>5. Bytes(S) = SumOn(t, S)
        BY BytesSum
    <2>6. Requests(j, 0) = SumOn(h, L)
        BY DEF Requests
    <2> HIDE DEF L, S, h, t
    <2>7. SumOn(h, L) = SumOn(h, S)
        BY <2>1, <2>2, <2>4, SumSupport
    <2>8. SumOn(t, S) = SumOn(h, S)
        BY <2>3, <2>4, SumCong
    <2> QED
        BY <2>5, <2>6, <2>7, <2>8 DEF L, S
<1>6. Requests(0, k) = Requests(k, 0)
    <2>1. /\ Requests(0, 1) = Requests(1, 0)
          /\ Requests(0, 2) = Requests(1, 1) /\ Requests(1, 1) = Requests(2, 0)
          /\ Requests(0, 3) = Requests(1, 2) /\ Requests(1, 2) = Requests(2, 1)
          /\ Requests(2, 1) = Requests(3, 0)
          /\ Requests(0, 4) = Requests(1, 3) /\ Requests(1, 3) = Requests(2, 2)
          /\ Requests(2, 2) = Requests(3, 1) /\ Requests(3, 1) = Requests(4, 0)
          /\ Requests(0, 5) = Requests(1, 4) /\ Requests(1, 4) = Requests(2, 3)
          /\ Requests(2, 3) = Requests(3, 2) /\ Requests(3, 2) = Requests(4, 1)
          /\ Requests(4, 1) = Requests(5, 0)
        BY <1>4
    <2>2. k = 0 \/ k = 1 \/ k = 2 \/ k = 3 \/ k = 4 \/ k = 5
        OBVIOUS
    <2> QED
        BY <2>1, <2>2
<1> QED
    BY <1>3, <1>5, <1>6

\* The layers that an encoding of b bits requests something of.
ReachesTo(k, t) ==
    \A b \in 1..26 : (OheBytes[b][k] > 0 <=> b > t) /\ (OheDepth[b] > k <=> b > t)

\* Twice as many bits reach one layer further.
LEMMA ReachesFurther ==
    ASSUME NEW k \in 0..4, NEW t \in Nat \ {0}, ReachesTo(k, t)
    PROVE  ReachesTo(k + 1, 2 * t)
<1>0. MaxBits = 26 /\ MaxDepth = 5
    BY DEF MaxBits, MaxDepth
<1> SUFFICES ASSUME NEW b \in 1..26
             PROVE  (OheBytes[b][k + 1] > 0 <=> b > 2 * t) /\ (OheDepth[b] > k + 1 <=> b > 2 * t)
    BY DEF ReachesTo
<1>1. k \in 0..5 /\ k + 1 \in 1..5 /\ k + 1 \in 0..5 /\ (k + 1) - 1 = k
    OBVIOUS
<1>2. CASE b = 1
    <2>1. OheBytes[1][k + 1] = 0 /\ OheDepth[1] = 0
        BY <1>0, <1>1, BytesTable, DepthTable
    <2> QED
        BY <1>2, <2>1
<1>3. CASE b # 1
    <2> DEFINE hi == CeilDiv(b, 2)
               lo == b - CeilDiv(b, 2)
    <2>1. b \in 2..MaxBits
        BY <1>0, <1>3
    <2>2. hi \in 1..26 /\ lo \in 1..26 /\ lo <= hi /\ (hi > t <=> b > 2 * t)
        <3>1. hi \in 1..26 /\ lo \in 1..26
            BY <1>0, <2>1, IndexHalves
        <3>2. 2 * hi <= b + 1 /\ 2 * hi >= b
            BY <2>1, IndexHalves
        <3>3. lo = b - hi
            OBVIOUS
        <3> HIDE DEF hi, lo
        <3> QED
            BY <3>1, <3>2, <3>3
    <2>3. OheBytes[b][k + 1] = OheBytes[hi][k] + OheBytes[lo][k]
        BY <1>0, <1>1, <2>1, BytesTable
    <2>4. OheDepth[b] = 1 + OheDepth[hi]
        BY <2>1, DepthTable
    <2> HIDE DEF hi, lo
    <2>5. OheBytes[hi][k] \in Nat /\ OheBytes[lo][k] \in Nat /\ OheDepth[hi] \in Nat
        BY <1>0, <1>1, <2>2, BytesTable, DepthTable
    <2>6. /\ OheBytes[hi][k] > 0 <=> hi > t
          /\ OheDepth[hi] > k <=> hi > t
          /\ OheBytes[lo][k] > 0 <=> lo > t
        BY <2>2 DEF ReachesTo
    <2> QED
        BY <2>2, <2>3, <2>4, <2>5, <2>6
<1> QED
    BY <1>2, <1>3

\* The depth of a table row is the number of layers it requests something of.
LEMMA BytesDepth ==
    ASSUME NEW b \in 1..26, NEW k \in 0..5
    PROVE  OheBytes[b][k] > 0 <=> OheDepth[b] > k
<1>0. MaxBits = 26 /\ MaxDepth = 5
    BY DEF MaxBits, MaxDepth
<1>1. ReachesTo(0, 1)
    <2> SUFFICES ASSUME NEW c \in 1..26
                 PROVE  (OheBytes[c][0] > 0 <=> c > 1) /\ (OheDepth[c] > 0 <=> c > 1)
        BY DEF ReachesTo
    <2>1. CASE c = 1
        <3>1. 0 \in 0..MaxDepth
            BY <1>0
        <3>2. OheBytes[1][0] = 0 /\ OheDepth[1] = 0
            BY <3>1, BytesTable, DepthTable
        <3> QED
            BY <2>1, <3>2
    <2>2. CASE c # 1
        <3>1. c \in 2..MaxBits /\ CeilDiv(c, 2) \in 1..MaxBits
            BY <1>0, <2>2, IndexHalves
        <3>2. OheDepth[c] = 1 + OheDepth[CeilDiv(c, 2)] /\ OheDepth[CeilDiv(c, 2)] \in Nat
            BY <3>1, DepthTable
        <3>3. OheBytes[c][0] = CeilDiv(2^c, 8)
            BY <3>1, BytesTable
        <3>4. 2^c \in Nat \ {0}
            <4>1. c \in 0..32
                OBVIOUS
            <4> QED
                BY <4>1, PowerNat
        <3>5. \A x \in Nat \ {0} : CeilDiv(x, 8) > 0
            BY DEF CeilDiv
        <3>6. OheBytes[c][0] > 0
            BY <3>3, <3>4, <3>5
        <3> QED
            BY <2>2, <3>2, <3>6
    <2> QED
        BY <2>1, <2>2
<1>2. ReachesTo(1, 2)
    <2>1. ReachesTo(0 + 1, 2 * 1)
        BY <1>1, ReachesFurther
    <2> QED
        BY <2>1
<1>3. ReachesTo(2, 4)
    <2>1. ReachesTo(1 + 1, 2 * 2)
        BY <1>2, ReachesFurther
    <2> QED
        BY <2>1
<1>4. ReachesTo(3, 8)
    <2>1. ReachesTo(2 + 1, 2 * 4)
        BY <1>3, ReachesFurther
    <2> QED
        BY <2>1
<1>5. ReachesTo(4, 16)
    <2>1. ReachesTo(3 + 1, 2 * 8)
        BY <1>4, ReachesFurther
    <2> QED
        BY <2>1
<1>6. ReachesTo(5, 32)
    <2>1. ReachesTo(4 + 1, 2 * 16)
        BY <1>5, ReachesFurther
    <2> QED
        BY <2>1
<1>7. k = 0 \/ k = 1 \/ k = 2 \/ k = 3 \/ k = 4 \/ k = 5
    OBVIOUS
<1> QED
    BY <1>1, <1>2, <1>3, <1>4, <1>5, <1>6, <1>7 DEF ReachesTo

\* The rounds of the plan are the layers of the circuit, the second retrieval
\* level, the conversion and the commitment.
LEMMA PlanRounds ==
    LET plan == PrcProtocol(L1, L2) IN
    /\ Layers = OheLayers(L1, L2)
    /\ Len(plan) = Layers + 3
    /\ plan[Layers + 2].need = IdxBits + 1
    /\ \A k \in 0..Layers - 1 : plan[Layers - k].need = SizeOf("ohe", k)
    /\ \A k \in 0..Layers - 1 : SizeOf("ohe", k) \in Nat
    /\ plan[Layers + 1].need = SizeOf("pir", 0)
    /\ SizeOf("pir", 0) \in Nat
<1> DEFINE plan == PrcProtocol(L1, L2)
           D == OheLayers(L1, L2)
<1>0. MaxBits = 26 /\ MaxDepth = 5 /\ L1 \in 1..26 /\ L2 \in 1..26 /\ IdxBits = L1 + L2
    BY Dims
<1>1. ASSUME NEW k \in 0..5 PROVE Gates(Level[k]) # {} <=> k < D
    <2>1. Bytes(Gates(Level[k])) = OheBytes[L1][k] + OheBytes[L2][k]
        BY LevelBytes
    <2>2. OheBytes[L1][k] \in Nat /\ OheBytes[L2][k] \in Nat
        BY <1>0, BytesTable
    <2>3. Gates(Level[k]) # {} <=> Bytes(Gates(Level[k])) > 0
        <3> DEFINE S == Gates(Level[k])
                   t == TicketOf(k)
        <3>1. S \in SUBSET Gates(Level[k]) /\ S \in SUBSET Level[k]
            BY DEF Gates
        <3>2. Bytes(S) = SumOn(t, S) /\ IsFiniteSet(S) /\ \A n \in S : t[n] \in Nat
            BY <3>1, BytesSum
        <3>3. ASSUME S = {} PROVE Bytes(S) = 0
            <4>1. SumOn(t, {}) = 0
                BY SumEmpty
            <4> QED
                BY <3>2, <3>3, <4>1
        <3>4. ASSUME NEW n \in S PROVE Bytes(S) > 0
            <4>1. t[n] > 0
                <5>1. 2^n.len \in Nat \ {0}
                    BY <3>1, Nodes
                <5>2. \A x \in Nat \ {0} : CeilDiv(x, 8) > 0
                    BY DEF CeilDiv
                <5>3. t[n] = CeilDiv(2^n.len, 8)
                    BY <3>1 DEF TicketOf, TicketBytes
                <5> QED
                    BY <5>1, <5>2, <5>3
            <4> HIDE DEF S, t
            <4>2. SumOn(t, S) = t[n] + SumOn(t, S \ {n})
                BY <3>2, SumRemove
            <4>3. SumOn(t, S \ {n}) \in Nat
                <5>1. IsFiniteSet(S \ {n})
                    BY <3>2, FS_Subset
                <5> QED
                    BY <3>2, <5>1, SumNat
            <4> QED
                BY <3>2, <4>1, <4>2, <4>3
        <3> QED
            BY <3>3, <3>4
    <2>4. /\ OheBytes[L1][k] > 0 <=> OheDepth[L1] > k
          /\ OheBytes[L2][k] > 0 <=> OheDepth[L2] > k
        BY <1>0, BytesDepth
    <2>5. OheDepth[L1] \in Nat /\ OheDepth[L2] \in Nat
        BY <1>0, DepthTable
    <2>6. k < D <=> OheDepth[L1] > k \/ OheDepth[L2] > k
        BY <2>5 DEF OheLayers
    <2> QED
        BY <2>1, <2>2, <2>3, <2>4, <2>6
<1>2. /\ D \in 0..5
      /\ Len(plan) = D + 3
      /\ \A i \in 1..D : plan[i].need = OheBytes[L1][D - i] + OheBytes[L2][D - i]
      /\ plan[D + 1].need = CeilDiv(Two(L2), 8)
      /\ plan[D + 2].need = L1 + L2 + 1
    <2>1. L1 \in 1..MaxBits /\ L2 \in 1..MaxBits
        BY <1>0
    <2>2. /\ D \in 0..MaxDepth
          /\ Len(plan) = D + 3
          /\ \A i \in 1..D : plan[i].need = OheBytes[L1][D - i] + OheBytes[L2][D - i]
          /\ plan[D + 1].need = CeilDiv(Two(L2), 8)
          /\ plan[D + 2].need = L1 + L2 + 1
        BY <2>1, PlanShape
    <2> QED
        BY <1>0, <2>2
<1> HIDE DEF D, plan
<1>3. Layers = D
    <2>1. Layers \in 0..5 /\ Layers - 1 \in 0..5 /\ Layers - 1 \in 0..Layers - 1
        BY LayersDef
    <2>2. ~(Layers < D) /\ Layers - 1 < D
        BY <1>1, <2>1, LayersDef
    <2> QED
        BY <1>2, <2>1, <2>2
<1>4. ASSUME NEW k \in 0..Layers - 1
      PROVE  plan[Layers - k].need = SizeOf("ohe", k) /\ SizeOf("ohe", k) \in Nat
    <2>1. Layers - k \in 1..D /\ D - (Layers - k) = k /\ k \in 0..5
        BY <1>2, <1>3
    <2>2. plan[Layers - k].need = OheBytes[L1][k] + OheBytes[L2][k]
        BY <1>2, <2>1
    <2>3. SizeOf("ohe", k) = Bytes(Gates(Level[k]))
        BY DEF SizeOf
    <2>4. Bytes(Gates(Level[k])) \in Nat
        BY <2>1, BytesSum
    <2> QED
        BY <2>1, <2>2, <2>3, <2>4, LevelBytes
<1>5. plan[Layers + 1].need = SizeOf("pir", 0) /\ SizeOf("pir", 0) \in Nat
    <2>1. SizeOf("pir", 0) = CeilDiv(Two(L2), 8)
        BY DEF SizeOf, TicketBytes, Two
    <2>2. CeilDiv(Two(L2), 8) \in Nat
        BY <1>0, ByteRounding
    <2> QED
        BY <1>2, <1>3, <2>1, <2>2
<1> QED
    BY <1>0, <1>2, <1>3, <1>4, <1>5 DEF plan, D

\* What the first m rounds of the plan take.
Planned(m) ==
    LET needs == [i \in 1..Layers + 1 |-> PrcProtocol(L1, L2)[i].need]
    IN  SumFunction([i \in 1..m |-> needs[i]])

\* Round by round.
LEMMA PlannedNext ==
    /\ Planned(0) = 0
    /\ \A k \in 0..Layers - 1 :
          Planned(Layers - k) = Planned(Layers - 1 - k) + SizeOf("ohe", k)
    /\ Planned(Layers + 1) = Planned(Layers) + SizeOf("pir", 0)
<1> DEFINE needs == [i \in 1..Layers + 1 |-> PrcProtocol(L1, L2)[i].need]
<1>0. Layers \in 1..5
    BY LayersDef
<1>1. /\ \A k \in 0..Layers - 1 : needs[Layers - k] = SizeOf("ohe", k)
      /\ needs[Layers + 1] = SizeOf("pir", 0)
    <2>1. \A i \in 1..Layers + 1 : needs[i] = PrcProtocol(L1, L2)[i].need
        OBVIOUS
    <2> HIDE DEF needs
    <2>2. \A k \in 0..Layers - 1 : Layers - k \in 1..Layers + 1
        BY <1>0
    <2>3. Layers + 1 \in 1..Layers + 1
        BY <1>0
    <2> QED
        BY <2>1, <2>2, <2>3, PlanRounds
<1> HIDE DEF needs
<1>2. \A i \in 1..Layers + 1 : needs[i] \in Nat
    <2> SUFFICES ASSUME NEW i \in 1..Layers + 1 PROVE needs[i] \in Nat
        OBVIOUS
    <2>1. CASE i = Layers + 1
        BY <1>1, <2>1, PlanRounds
    <2>2. CASE i # Layers + 1
        <3> DEFINE k == Layers - i
        <3>1. k \in 0..Layers - 1 /\ Layers - k = i
            BY <1>0, <2>2
        <3> HIDE DEF k
        <3> QED
            BY <1>1, <3>1, PlanRounds
    <2> QED
        BY <2>1, <2>2
<1>3. \A m \in 0..Layers + 1 : Planned(m) = SumOn(needs, 1..m)
    <2> SUFFICES ASSUME NEW m \in 0..Layers + 1 PROVE Planned(m) = SumOn(needs, 1..m)
        OBVIOUS
    <2> DEFINE T == 1..m
               f == [i \in T |-> needs[i]]
    <2>1. Planned(m) = SumOn(f, T)
        BY DEF Planned, needs, SumFunction, FoldFunction, SumOn, SumFunctionOnSet
    <2>2. IsFiniteSet(T) /\ \A i \in T : needs[i] \in Int /\ f[i] = needs[i]
        BY <1>0, <1>2, FS_Interval
    <2> HIDE DEF T, f
    <2>3. SumOn(f, T) = SumOn(needs, T)
        BY <2>2, SumCong
    <2> QED
        BY <2>1, <2>3 DEF T
<1>4. \A m \in 0..Layers : Planned(m + 1) = Planned(m) + needs[m + 1]
    <2> SUFFICES ASSUME NEW m \in 0..Layers
                 PROVE  Planned(m + 1) = Planned(m) + needs[m + 1]
        OBVIOUS
    <2>1. m \in Nat /\ m \in 0..Layers + 1 /\ m + 1 \in 0..Layers + 1
        BY <1>0
    <2>2. \A x \in 1..m + 1 : needs[x] \in Int
        BY <1>0, <1>2
    <2>3. SumOn(needs, 1..m + 1) = SumOn(needs, 1..m) + needs[m + 1]
        BY <2>1, <2>2, SumNext
    <2> QED
        BY <1>3, <2>1, <2>3
<1>5. Planned(0) = 0
    <2>1. 1..0 = {} /\ 0 \in 0..Layers + 1
        BY <1>0
    <2>2. SumOn(needs, {}) = 0
        BY SumEmpty
    <2> QED
        BY <1>3, <2>1, <2>2
<1>6. ASSUME NEW k \in 0..Layers - 1
      PROVE  Planned(Layers - k) = Planned(Layers - 1 - k) + SizeOf("ohe", k)
    <2> DEFINE m == Layers - 1 - k
    <2>1. m \in 0..Layers /\ m + 1 = Layers - k
        BY <1>0
    <2> HIDE DEF m
    <2>2. Planned(m + 1) = Planned(m) + needs[m + 1]
        BY <1>4, <2>1
    <2>3. needs[m + 1] = SizeOf("ohe", k)
        BY <1>1, <2>1
    <2> QED
        BY <2>1, <2>2, <2>3 DEF m
<1>7. Planned(Layers + 1) = Planned(Layers) + SizeOf("pir", 0)
    <2>1. Layers \in 0..Layers
        BY <1>0
    <2> QED
        BY <1>1, <1>4, <2>1
<1> QED
    BY <1>5, <1>6, <1>7

\* Rounds that have taken their triples.
RoundsRun(stg, st, k) ==
    IF stg = "ohe" THEN (IF st = "Ticketing" THEN Layers - 1 - k ELSE Layers - k)
    ELSE IF stg = "pir" /\ st = "Ticketing" THEN Layers ELSE Layers + 1

\* The triples taken are those of the rounds so far.
PlanInv == used = Planned(RoundsRun(stage, lstate, layer))

\* Every step of a query follows the plan.
LEMMA PlanStep ==
    ASSUME QueryInv, PlanInv, [Next]_vars
    PROVE  PlanInv'
<1>0. Layers \in 1..5 /\ layer \in 0..Layers - 1 /\ ControlInv
    BY LayersDef DEF QueryInv, ControlInv
<1>1. CASE EndTicketing
    <2>1. /\ stage \in {"ohe", "pir"} /\ lstate = "Ticketing" /\ lstate' = "DataInitialized"
          /\ used' = used + LayerSize /\ stage' = stage /\ layer' = layer
        BY <1>1 DEF EndTicketing
    <2>2. LayerSize = SizeOf(stage, layer) /\ SizeOf("pir", layer) = SizeOf("pir", 0)
        BY <1>0, SizeType DEF SizeOf
    <2>3. CASE stage = "ohe"
        <3>1. RoundsRun(stage, lstate, layer) = Layers - 1 - layer
              /\ RoundsRun(stage', lstate', layer') = Layers - layer
            BY <2>1, <2>3 DEF RoundsRun
        <3>2. used = Planned(Layers - 1 - layer)
            BY <3>1 DEF PlanInv
        <3>3. Planned(Layers - layer) = Planned(Layers - 1 - layer) + SizeOf("ohe", layer)
            BY <1>0, PlannedNext
        <3>4. used' = Planned(Layers - layer)
            BY <2>1, <2>2, <2>3, <3>2, <3>3
        <3> QED
            BY <3>1, <3>4 DEF PlanInv
    <2>4. CASE stage = "pir"
        <3>1. RoundsRun(stage, lstate, layer) = Layers
              /\ RoundsRun(stage', lstate', layer') = Layers + 1
            BY <2>1, <2>4 DEF RoundsRun
        <3>2. used' = Planned(Layers + 1)
            BY <2>1, <2>2, <2>4, <3>1, PlannedNext DEF PlanInv
        <3> QED
            BY <3>1, <3>2 DEF PlanInv
    <2> QED
        BY <2>1, <2>3, <2>4
<1>2. ASSUME used' = used, RoundsRun(stage, lstate, layer)' = RoundsRun(stage, lstate, layer)
      PROVE  PlanInv'
    BY <1>2 DEF PlanInv
<1>3. CASE \E o \in ops : ExecOperation(o)
    BY <1>2, <1>3 DEF ExecOperation, RoundsRun
<1>4. CASE BlindAndWithBeaver
    BY <1>2, <1>4 DEF BlindAndWithBeaver, RoundsRun
<1>5. CASE ReconsBeaverUV
    BY <1>2, <1>5 DEF ReconsBeaverUV, RoundsRun
<1>6. CASE FinishAndExchange
    BY <1>2, <1>6 DEF FinishAndExchange, RoundsRun
<1>7. CASE PopLayer
    <2>1. /\ stage = "ohe" /\ stage' = "ohe" /\ lstate = "Finished" /\ lstate' = "Ticketing"
          /\ layer' = layer - 1 /\ used' = used
        BY <1>7 DEF PopLayer
    <2>2. Layers - 1 - (layer - 1) = Layers - layer
        BY <1>0
    <2> QED
        BY <1>2, <2>1, <2>2 DEF RoundsRun
<1>8. CASE RecRetrieve
    <2>1. /\ stage = "ohe" /\ stage' = "pir" /\ lstate = "Finished" /\ lstate' = "Ticketing"
          /\ layer = 0 /\ used' = used
        BY <1>8 DEF RecRetrieve
    <2>2. Layers - 0 = Layers
        BY <1>0
    <2> QED
        BY <1>2, <2>1, <2>2 DEF RoundsRun
<1>9. CASE RecordShare
    BY <1>2, <1>9 DEF RecordShare, RoundsRun
<1>10. CASE ConvBlind
    BY <1>2, <1>10 DEF ConvBlind, RoundsRun
<1>11. CASE ConvFinish
    BY <1>2, <1>11 DEF ConvFinish, RoundsRun, layerVars
<1>12. CASE AggregateCommitments
    BY <1>2, <1>12 DEF AggregateCommitments, RoundsRun, layerVars
<1>13. CASE CheckForRecVal
    <2>1. stage \in {"check0", "check1"} /\ stage' \in {"check1", "verify"}
        BY <1>13 DEF CheckForRecVal, Checks
    <2> QED
        BY <1>2, <1>13, <2>1 DEF CheckForRecVal, RoundsRun, layerVars
<1>14. CASE Verify
    BY <1>2, <1>14 DEF Verify, RoundsRun, layerVars
<1>15. CASE UNCHANGED vars
    BY <1>2, <1>15 DEF vars, RoundsRun
<1>16. CASE Done
    BY <1>2, <1>16 DEF Done, vars, RoundsRun
<1> QED
    BY <1>1, <1>3, <1>4, <1>5, <1>6, <1>7, <1>8, <1>9, <1>10, <1>11, <1>12, <1>13, <1>14,
       <1>15, <1>16 DEF Next

\* The layers that run take from the provider exactly the rounds of QueryPlan,
\* the schedule that MpcRounds and Budget are about, for all dimensions of the
\* database.
THEOREM QueryFollowsPlan == ASSUME Generator PROVE Spec => []PlanFollowed
<1>1. Init => PlanInv
    <2> SUFFICES ASSUME Init PROVE PlanInv
        OBVIOUS
    <2>1. Layers \in 1..5 /\ layer = Layers - 1 /\ stage = "ohe" /\ lstate = "Ticketing"
          /\ used = 0
        BY LayersDef DEF Init
    <2>2. Layers - 1 - layer = 0
        BY <2>1
    <2> QED
        BY <2>1, <2>2, PlannedNext DEF PlanInv, RoundsRun
<1>2. QueryInv /\ PlanInv /\ [Next]_vars => PlanInv'
    BY PlanStep
<1>3. QueryInv /\ PlanInv => PlanFollowed
    <2> SUFFICES ASSUME QueryInv, PlanInv PROVE PlanFollowed
        OBVIOUS
    <2>1. /\ Len(PrcProtocol(L1, L2)) = Layers + 3
          /\ PrcProtocol(L1, L2)[Layers + 2].need = IdxBits + 1
        BY PlanRounds
    <2>2. ASSUME lstate = "Finished"
          PROVE  used = Planned(IF stage = "ohe" THEN Layers - layer ELSE Layers + 1)
        <3>1. RoundsRun(stage, lstate, layer) = IF stage = "ohe" THEN Layers - layer ELSE Layers + 1
            BY <2>2 DEF RoundsRun
        <3> QED
            BY <3>1 DEF PlanInv
    <2> QED
        BY <2>1, <2>2 DEF PlanFollowed, Planned
<1> QED
    BY <1>1, <1>2, <1>3, QueryInvariant, PTL DEF Spec
=============================================================================

----------------------------- MODULE WireProofs -----------------------------
(***************************************************************************)
(* Proofs about Wire for bytes and lengths of any width, arrays of any     *)
(* sizes and any number of commands, with a stream that is cut after any   *)
(* of its bytes.                                                           *)
(***************************************************************************)
EXTENDS Wire, Sums

----------------------------------------------------------------------------
(* Tables: functions that are defined by recursion over an interval.       *)

\* g is the table that starts with e and goes on with the steps.
Tabulates(g, lo, hi, e, step) ==
    g = [i \in lo..hi |-> IF i = lo THEN e ELSE step[i][g[i - 1]]]

LEMMA TableExists ==
    ASSUME NEW lo \in Nat, NEW hi \in Nat, NEW S, NEW e \in S,
           NEW step \in [lo..hi -> [S -> S]]
    PROVE  \E g : Tabulates(g, lo, hi, e, step)
<1> DEFINE Bad == {k \in 0..hi : ~\E g : Tabulates(g, lo, k, e, step)}
<1> SUFFICES ASSUME Bad # {} PROVE FALSE
    <2>1. hi \in 0..hi
        OBVIOUS
    <2> QED
        BY <2>1
<1>1. Bad \in SUBSET Nat
    OBVIOUS
<1>2. PICK k \in Bad : \A j \in Bad : k <= j
    <2> HIDE DEF Bad
    <2> QED
        BY <1>1, SmallestNumber
<1>3. k \in 0..hi /\ ~\E g : Tabulates(g, lo, k, e, step)
    OBVIOUS
<1>4. k > lo
    <2> SUFFICES ASSUME ~(k > lo) PROVE FALSE
        OBVIOUS
    <2> DEFINE g == [i \in lo..k |-> e]
    <2>1. \A i \in lo..k : i = lo
        BY <1>3
    <2>2. Tabulates(g, lo, k, e, step)
        BY <2>1 DEF Tabulates
    <2> QED
        BY <1>3, <2>2
<1>5. k - 1 \in 0..hi /\ k - 1 \notin Bad
    BY <1>2, <1>3, <1>4
<1>6. PICK g : Tabulates(g, lo, k - 1, e, step)
    BY <1>5
<1> DEFINE h == [i \in lo..k |-> IF i = k THEN step[k][g[k - 1]] ELSE g[i]]
<1>7. ASSUME NEW i \in lo..k
      PROVE  h[i] = IF i = lo THEN e ELSE step[i][h[i - 1]]
    <2>1. CASE i = k
        <3>1. k - 1 \in lo..k /\ k - 1 # k
            BY <1>3, <1>4
        <3>2. h[k - 1] = g[k - 1]
            BY <3>1
        <3> QED
            BY <1>4, <2>1, <3>2
    <2>2. CASE i # k
        <3>1. i \in lo..k - 1
            BY <1>3, <2>2
        <3>2. g[i] = IF i = lo THEN e ELSE step[i][g[i - 1]]
            BY <1>6, <3>1 DEF Tabulates
        <3>3. i # lo => h[i - 1] = g[i - 1]
            BY <3>1, <1>3
        <3> QED
            BY <2>2, <3>2, <3>3
    <2> QED
        BY <2>1, <2>2
<1>8. Tabulates(h, lo, k, e, step)
    <2>1. h = [i \in lo..k |-> h[i]]
        OBVIOUS
    <2> HIDE DEF h
    <2> QED
        BY <1>7, <2>1 DEF Tabulates
<1> QED
    BY <1>3, <1>8

LEMMA TableValues ==
    ASSUME NEW lo \in Nat, NEW hi \in Nat, NEW S, NEW e \in S,
           NEW step \in [lo..hi -> [S -> S]], NEW g, Tabulates(g, lo, hi, e, step)
    PROVE  /\ g \in [lo..hi -> S]
           /\ lo <= hi => g[lo] = e
           /\ \A i \in lo + 1..hi : g[i] = step[i][g[i - 1]]
<1>1. \A i \in lo..hi : g[i] = IF i = lo THEN e ELSE step[i][g[i - 1]]
    BY DEF Tabulates
<1> DEFINE Bad == {k \in lo..hi : g[k] \notin S}
<1>2. Bad = {}
    <2> SUFFICES ASSUME Bad # {} PROVE FALSE
        OBVIOUS
    <2>1. Bad \in SUBSET Nat
        OBVIOUS
    <2>2. PICK k \in Bad : \A j \in Bad : k <= j
        <3> HIDE DEF Bad
        <3> QED
            BY <2>1, SmallestNumber
    <2>3. k # lo
        BY <1>1
    <2>4. k - 1 \in lo..hi /\ k - 1 \notin Bad
        BY <2>2, <2>3
    <2>5. g[k - 1] \in S /\ step[k] \in [S -> S]
        BY <2>4
    <2>6. g[k] = step[k][g[k - 1]]
        BY <1>1, <2>3
    <2> QED
        BY <2>5, <2>6
<1>3. g = [i \in lo..hi |-> g[i]]
    BY DEF Tabulates
<1>4. \A i \in lo + 1..hi : i \in lo..hi /\ i # lo
    OBVIOUS
<1>5. lo <= hi => lo \in lo..hi
    OBVIOUS
<1> QED
    BY <1>1, <1>2, <1>3, <1>4, <1>5

----------------------------------------------------------------------------
(* Numbers as bytes.                                                       *)

LEMMA Weights ==
    /\ Weight[0] = 1
    /\ \A i \in 1..Width : Weight[i] = Weight[i - 1] * Base
    /\ \A i \in 0..Width : Weight[i] \in Nat \ {0}
<1> DEFINE step == [i \in 0..Width |-> [x \in Nat \ {0} |-> Base * x]]
<1>1. Width \in Nat /\ Base \in Nat /\ Base > 0 /\ 0 <= Width
    BY WireAssumption
<1>2. step \in [0..Width -> [Nat \ {0} -> Nat \ {0}]]
    <2>1. \A x \in Nat \ {0} : Base * x \in Nat \ {0}
        BY <1>1
    <2> QED
        BY <2>1
<1>3. \E g : Tabulates(g, 0, Width, 1, step)
    <2> HIDE DEF step
    <2>1. 0 \in Nat /\ 1 \in Nat \ {0}
        OBVIOUS
    <2> QED
        BY <1>1, <1>2, <2>1, TableExists
<1> DEFINE Is(g) == g = [i \in 0..Width |-> IF i = 0 THEN 1 ELSE Base * g[i - 1]]
<1>4. \E g : Is(g)
    <2>1. PICK g : Tabulates(g, 0, Width, 1, step)
        BY <1>3
    <2>2. g \in [0..Width -> Nat \ {0}]
        <3> HIDE DEF step
        <3>1. 0 \in Nat /\ 1 \in Nat \ {0}
            OBVIOUS
        <3> QED
            BY <1>1, <1>2, <2>1, <3>1, TableValues
    <2>3. \A i \in 0..Width : i # 0 => step[i][g[i - 1]] = Base * g[i - 1]
        <3> SUFFICES ASSUME NEW i \in 0..Width, i # 0 PROVE step[i][g[i - 1]] = Base * g[i - 1]
            OBVIOUS
        <3>1. i - 1 \in 0..Width
            BY <1>1
        <3>2. g[i - 1] \in Nat \ {0}
            BY <2>2, <3>1
        <3> QED
            BY <3>2
    <2>4. Is(g)
        <3> HIDE DEF step
        <3> QED
            BY <2>1, <2>3 DEF Tabulates
    <2> QED
        BY <2>4
<1>5. Is(Weight)
    <2>1. Weight = CHOOSE g : Is(g)
        BY DEF Weight
    <2> HIDE DEF Is
    <2> QED
        BY <1>4, <2>1
<1>6. \A i \in 0..Width : Weight[i] = IF i = 0 THEN 1 ELSE Base * Weight[i - 1]
    BY <1>5
<1> HIDE DEF Is
<1> DEFINE Bad == {i \in 0..Width : Weight[i] \notin Nat \ {0}}
<1>7. Bad = {}
    <2> SUFFICES ASSUME Bad # {} PROVE FALSE
        OBVIOUS
    <2>1. Bad \in SUBSET Nat
        OBVIOUS
    <2>2. PICK k \in Bad : \A j \in Bad : k <= j
        <3> HIDE DEF Bad
        <3> QED
            BY <2>1, SmallestNumber
    <2>3. k # 0
        BY <1>6
    <2>4. k - 1 \in 0..Width /\ k - 1 \notin Bad
        <3>1. k \in 1..Width
            BY <1>1, <2>3
        <3>2. k - 1 \in 0..Width /\ ~(k <= k - 1)
            BY <1>1, <3>1
        <3> QED
            BY <2>2, <3>2
    <2>5. Weight[k - 1] \in Nat \ {0}
        BY <2>4
    <2>6. Weight[k] = Base * Weight[k - 1]
        BY <1>6, <2>3
    <2>7. \A x \in Nat \ {0} : Base * x \in Nat \ {0}
        BY <1>1
    <2> QED
        BY <2>5, <2>6, <2>7
<1>8. \A i \in 0..Width : Weight[i] \in Nat \ {0}
    BY <1>7
<1>9. ASSUME NEW i \in 1..Width PROVE Weight[i] = Weight[i - 1] * Base
    <2>1. i \in 0..Width /\ i # 0 /\ i - 1 \in 0..Width
        BY <1>1
    <2>2. Weight[i] = Base * Weight[i - 1] /\ Weight[i - 1] \in Nat
        BY <1>6, <1>8, <2>1
    <2>3. \A x \in Nat : Base * x = x * Base
        BY <1>1
    <2> QED
        BY <2>2, <2>3
<1>10. 0 \in 0..Width
    BY <1>1
<1> QED
    BY <1>6, <1>8, <1>9, <1>10

LEMMA LeBytesType ==
    ASSUME NEW n \in Nat
    PROVE  /\ LeBytes(n) \in Seq(Byte) /\ Len(LeBytes(n)) = Width
           /\ \A i \in 1..Width : LeBytes(n)[i] = (n \div Weight[i - 1]) % Base
<1>1. Width \in Nat /\ Base \in Nat /\ Base > 0
    BY WireAssumption
<1>2. ASSUME NEW i \in 1..Width PROVE (n \div Weight[i - 1]) % Base \in Byte
    <2> DEFINE w == Weight[i - 1]
    <2>1. w \in Nat \ {0}
        <3>1. i - 1 \in 0..Width
            BY <1>1
        <3> QED
            BY <3>1, Weights
    <2> HIDE DEF w
    <2>2. n \div w \in Int
        BY <2>1, ModDef
    <2>3. (n \div w) % Base \in 0..Base - 1
        BY <1>1, <2>2, ModDef
    <2> QED
        BY <2>3 DEF w, Byte
<1>3. LeBytes(n) \in [1..Width -> Byte]
    BY <1>2 DEF LeBytes
<1>4. \A i \in 1..Width : LeBytes(n)[i] = (n \div Weight[i - 1]) % Base
    BY DEF LeBytes
<1> QED
    BY <1>1, <1>3, <1>4

\* from_le_bytes gives back what to_le_bytes was given, up to the width.
LEMMA BytesBack ==
    ASSUME NEW n \in Nat, n < Weight[Width]
    PROVE  FromLeBytes(LeBytes(n)) = n
<1> DEFINE f == [i \in 1..Width |-> LeBytes(n)[i] * Weight[i - 1]]
           Bad == {w \in 0..Width : SumOn(f, 1..w) # n % Weight[w]}
<1>1. Width \in Nat /\ Base \in Nat /\ Base > 0 /\ Width \in 0..Width
    BY WireAssumption
<1>2. FromLeBytes(LeBytes(n)) = SumOn(f, 1..Width)
    BY DEF FromLeBytes, SumOn, SumFunction
<1>3. \A i \in 1..Width : f[i] = Weight[i - 1] * ((n \div Weight[i - 1]) % Base) /\ f[i] \in Int
    <2> SUFFICES ASSUME NEW i \in 1..Width
                 PROVE  f[i] = Weight[i - 1] * ((n \div Weight[i - 1]) % Base) /\ f[i] \in Int
        OBVIOUS
    <2> DEFINE w == Weight[i - 1]
               d == LeBytes(n)[i]
    <2>1. w \in Nat \ {0}
        <3>1. i - 1 \in 0..Width
            BY <1>1
        <3> QED
            BY <3>1, Weights
    <2>2. d \in Byte /\ d = (n \div w) % Base
        <3>1. LeBytes(n) \in Seq(Byte) /\ Len(LeBytes(n)) = Width /\ d = (n \div w) % Base
            BY LeBytesType
        <3> QED
            BY <3>1
    <2>3. f[i] = d * w
        OBVIOUS
    <2>4. d \in Int
        BY <1>1, <2>2 DEF Byte
    <2> HIDE DEF d, w, f
    <2>5. d * w = w * d /\ d * w \in Int
        BY <2>1, <2>4
    <2> QED
        BY <2>2, <2>3, <2>5 DEF w
<1> HIDE DEF f
<1>4. Bad = {}
    <2> SUFFICES ASSUME Bad # {} PROVE FALSE
        OBVIOUS
    <2>1. Bad \in SUBSET Nat
        OBVIOUS
    <2>2. PICK w \in Bad : \A j \in Bad : w <= j
        <3> HIDE DEF Bad
        <3> QED
            BY <2>1, SmallestNumber
    <2>3. w # 0
        <3> SUFFICES ASSUME w = 0 PROVE FALSE
            OBVIOUS
        <3>1. SumOn(f, 1..0) = 0
            <4>1. 1..0 = {}
                OBVIOUS
            <4> QED
                BY <4>1, SumEmpty
        <3>2. n % Weight[0] = 0
            <4>1. n % 1 \in 0..1 - 1
                BY ModDef
            <4>2. n % 1 = 0
                BY <4>1
            <4>3. Weight[0] = 1
                BY Weights
            <4> QED
                BY <4>2, <4>3
        <3> QED
            BY <3>1, <3>2
    <2>4. w \in 1..Width /\ w - 1 \in 0..Width /\ w - 1 \in Nat /\ ~(w <= w - 1)
        BY <1>1, <2>3
    <2>5. SumOn(f, 1..w - 1) = n % Weight[w - 1]
        BY <2>2, <2>4
    <2>6. SumOn(f, 1..w) = SumOn(f, 1..w - 1) + f[w]
        <3>1. PICK m \in Nat : m = w - 1
            BY <2>4
        <3>2. m + 1 = w /\ \A i \in 1..m + 1 : i \in 1..Width
            BY <1>1, <2>4, <3>1
        <3>3. SumOn(f, 1..m + 1) = SumOn(f, 1..m) + f[m + 1]
            BY <1>3, <3>2, SumNext
        <3> QED
            BY <3>1, <3>2, <3>3
    <2> DEFINE A == Weight[w - 1]
    <2>7. A \in Nat \ {0} /\ Weight[w] = A * Base /\ Base \in Nat \ {0}
        <3>1. Base \in Nat \ {0}
            BY <1>1
        <3> QED
            BY <2>4, <3>1, Weights, Zenon
    <2>8. f[w] = A * ((n \div A) % Base)
        BY <1>3, <2>4
    <2> HIDE DEF A
    <2>9. n % (A * Base) = (n % A) + A * ((n \div A) % Base)
        <3>1. n \in Int
            OBVIOUS
        <3> QED
            BY <2>7, <3>1, ModSplit, Zenon
    <2>10. SumOn(f, 1..w) = n % Weight[w]
        <3>1. SumOn(f, 1..w - 1) = n % A
            BY <2>5 DEF A
        <3>2. SumOn(f, 1..w) = (n % A) + A * ((n \div A) % Base)
            BY <2>6, <2>8, <3>1, Zenon
        <3> QED
            BY <2>7, <2>9, <3>2, Zenon
    <2> QED
        BY <2>10
<1>5. SumOn(f, 1..Width) = n % Weight[Width]
    BY <1>1, <1>4
<1>6. Weight[Width] \in Nat \ {0}
    BY <1>1, Weights
<1>7. n % Weight[Width] = n
    <2> DEFINE m == Weight[Width]
    <2>1. m \in Nat /\ m > 0 /\ n < m
        BY <1>6
    <2> HIDE DEF m
    <2>2. n % m = n
        BY <2>1
    <2> QED
        BY <2>2 DEF m
<1> QED
    BY <1>2, <1>5, <1>7

----------------------------------------------------------------------------
(* Parts of sequences.                                                     *)

LEMMA Part ==
    ASSUME NEW S, NEW x \in Seq(S), NEW y \in Seq(S), NEW z \in Seq(S)
    PROVE  SubSeq((x \o y) \o z, Len(x) + 1, Len(x) + Len(y)) = y
<1> DEFINE all == (x \o y) \o z
           m == Len(x)
           n == Len(y)
<1>1. /\ x \o y \in Seq(S) /\ Len(x \o y) = m + n
      /\ \A i \in 1..m + n : (x \o y)[i] = IF i <= m THEN x[i] ELSE y[i - m]
    BY ConcatProperties
<1>2. m \in Nat /\ n \in Nat /\ Len(z) \in Nat
    BY LenProperties
<1>3. ASSUME NEW i \in 1..n PROVE all[m + i] = y[i]
    <2>1. m + i \in 1..m + n /\ ~(m + i <= m) /\ (m + i) - m = i
        BY <1>2
    <2>2. m + i \in 1..(m + n) + Len(z) /\ m + i <= m + n
        BY <1>2
    <2>3. all[m + i] = (x \o y)[m + i]
        BY <1>1, <2>2, ConcatProperties
    <2> QED
        BY <1>1, <2>1, <2>3
<1>4. \A i \in m + 1..m + n : all[i] \in S
    <2> SUFFICES ASSUME NEW i \in m + 1..m + n PROVE all[i] \in S
        OBVIOUS
    <2>1. PICK j \in 1..n : i = m + j
        <3>1. i - m \in 1..n /\ i = m + (i - m)
            BY <1>2
        <3> QED
            BY <3>1
    <2>2. y[j] \in S
        BY ElementOfSeq
    <2> QED
        BY <1>3, <2>1, <2>2
<1> DEFINE part == SubSeq(all, m + 1, m + n)
<1> HIDE DEF all, m, n
<1>5. /\ part \in Seq(S)
      /\ Len(part) = IF m + 1 <= m + n THEN (m + n) - (m + 1) + 1 ELSE 0
      /\ \A i \in 1..(m + n) - (m + 1) + 1 : part[i] = all[(m + 1) + i - 1]
    <2>1. m + 1 \in Int /\ m + n \in Int
        BY <1>2
    <2> QED
        BY <1>4, <2>1, SubSeqProperties
<1> HIDE DEF part
<1>6. (m + n) - (m + 1) + 1 = n /\ (IF m + 1 <= m + n THEN (m + n) - (m + 1) + 1 ELSE 0) = n
    BY <1>2
<1>7. Len(part) = n
    BY <1>5, <1>6, Zenon
<1>8. ASSUME NEW i \in 1..n PROVE part[i] = y[i]
    <2>1. part[i] = all[(m + 1) + i - 1]
        BY <1>5, <1>6, Zenon
    <2>2. (m + 1) + i - 1 = m + i
        BY <1>2
    <2> QED
        BY <1>3, <2>1, <2>2
<1>9. part = y
    BY <1>5, <1>7, <1>8, SeqEqual DEF n
<1> QED
    BY <1>9 DEF part, all, m, n

\* Its two ends.
LEMMA PartFirst ==
    ASSUME NEW S, NEW x \in Seq(S), NEW y \in Seq(S)
    PROVE  SubSeq(x \o y, 1, Len(x)) = x
<1>1. << >> \in Seq(S) /\ Len(<< >>) = 0 /\ << >> \o x = x
    BY EmptySeq, ConcatEmptySeq
<1>2. SubSeq((<< >> \o x) \o y, Len(<< >>) + 1, Len(<< >>) + Len(x)) = x
    BY <1>1, Part
<1>3. 0 + 1 = 1 /\ 0 + Len(x) = Len(x)
    BY LenProperties
<1> QED
    BY <1>1, <1>2, <1>3

LEMMA PartLast ==
    ASSUME NEW S, NEW x \in Seq(S), NEW y \in Seq(S)
    PROVE  SubSeq(x \o y, Len(x) + 1, Len(x) + Len(y)) = y
<1>1. << >> \in Seq(S) /\ x \o y \in Seq(S) /\ (x \o y) \o << >> = x \o y
    BY EmptySeq, ConcatEmptySeq, ConcatProperties
<1> QED
    BY <1>1, Part

\* What follows the first n elements.
Behind(s, n) == SubSeq(s, n + 1, Len(s))

LEMMA PrefixRest ==
    ASSUME NEW S, NEW s \in Seq(S), NEW t \in Seq(S), IsPrefix(s, t)
    PROVE  t = s \o Behind(t, Len(s)) /\ Behind(t, Len(s)) \in Seq(S)
<1> DEFINE n == Len(s)
           r == SubSeq(t, n + 1, Len(t))
<1>1. n \in Nat /\ Len(t) \in Nat /\ n <= Len(t) /\ s = SubSeq(t, 1, n)
    BY SubSeqFull, LenProperties DEF IsPrefix
<1>2. SubSeq(t, 1, n) \o r = SubSeq(t, 1, Len(t))
    <2>1. /\ 1 \in 1..Len(t) + 1 /\ n \in 1 - 1..Len(t)
          /\ Len(t) \in n..Len(t)
        BY <1>1
    <2> QED
        BY <2>1, ConcatAdjacentSubSeq
<1>3. r \in Seq(S)
    <2>1. \A i \in n + 1..Len(t) : t[i] \in S
        <3>1. \A i \in n + 1..Len(t) : i \in 1..Len(t)
            BY <1>1
        <3> QED
            BY <3>1, ElementOfSeq
    <2>2. n + 1 \in Int /\ Len(t) \in Int
        BY <1>1
    <2> HIDE DEF n
    <2> QED
        BY <2>1, <2>2, SubSeqProperties
<1> QED
    BY <1>1, <1>2, <1>3, SubSeqFull DEF Behind

LEMMA PrefixOf ==
    ASSUME NEW S, NEW s \in Seq(S), NEW r \in Seq(S)
    PROVE  IsPrefix(s, s \o r)
<1>1. Len(s) <= Len(s \o r)
    <2>1. Len(s \o r) = Len(s) + Len(r) /\ Len(s) \in Nat /\ Len(r) \in Nat
        BY ConcatProperties, LenProperties
    <2> QED
        BY <2>1
<1>2. SubSeq(s, 1, Len(s)) = s /\ SubSeq(s \o r, 1, Len(s)) = s
    BY SubSeqFull, PartFirst
<1> QED
    BY <1>1, <1>2 DEF IsPrefix

\* The shorter of two beginnings of a sequence begins the other.
LEMMA ShorterBegins ==
    ASSUME NEW S, NEW x \in Seq(S), NEW s \in Seq(S), NEW r \in Seq(S),
           SubSeq(s \o r, 1, Len(x)) = x, Len(x) <= Len(s)
    PROVE  IsPrefix(x, s)
<1>1. Len(x) \in Nat /\ Len(s) \in Nat
    BY LenProperties
<1>2. SubSeq(s, 1, Len(x)) = x
    <2>1. CASE Len(x) = 0
        <3>1. x = << >>
            BY <2>1, EmptySeq
        <3>2. SubSeq(s, 1, 0) = << >>
            BY SubSeqEmpty
        <3> QED
            BY <2>1, <3>1, <3>2
    <2>2. CASE Len(x) # 0
        <3>1. 1 \in 1..Len(s) /\ Len(x) \in 1..Len(s)
            BY <1>1, <2>2
        <3>2. SubSeq(s \o r, 1, Len(x)) = SubSeq(s, 1, Len(x))
            BY <3>1, SubSeqOfConcat1
        <3> QED
            BY <3>2
    <2> QED
        BY <2>1, <2>2
<1> QED
    BY <1>2, SubSeqFull DEF IsPrefix

\* Three parts in a row, concatenated from the left and from the right.
FromLeft(x, y, z) == (x \o y) \o z
FromRight(x, y, z) == x \o (y \o z)

LEMMA Associative ==
    ASSUME NEW S, NEW x \in Seq(S), NEW y \in Seq(S), NEW z \in Seq(S)
    PROVE  FromLeft(x, y, z) = FromRight(x, y, z)
<1>1. (x \o y) \o z = x \o (y \o z)
    BY ConcatAssociative
<1> QED
    BY <1>1 DEF FromLeft, FromRight

LEMMA Cancel ==
    ASSUME NEW S, NEW x \in Seq(S), NEW p \in Seq(S), NEW v \in Seq(S), x \o p = x \o v
    PROVE  p = v
<1>1. /\ Len(x \o p) = Len(x) + Len(p) /\ Len(x \o v) = Len(x) + Len(v)
      /\ Len(x) \in Nat /\ Len(p) \in Nat /\ Len(v) \in Nat
    BY ConcatProperties, LenProperties
<1>2. Len(p) = Len(v)
    BY <1>1
<1>3. /\ SubSeq(x \o p, Len(x) + 1, Len(x) + Len(p)) = p
      /\ SubSeq(x \o v, Len(x) + 1, Len(x) + Len(v)) = v
    BY PartLast
<1> QED
    BY <1>2, <1>3

\* t is x and then y.
Joined(t, x, y) == t = x \o y

\* What follows it there and in the sequence.
LEMMA Beginnings ==
    ASSUME NEW S, NEW x \in Seq(S), NEW p \in Seq(S), NEW s \in Seq(S), NEW r \in Seq(S),
           NEW t, Joined(t, x, p), Joined(t, s, r), Len(x) <= Len(s)
    PROVE  \E y \in Seq(S) : Joined(s, x, y) /\ Joined(p, y, r)
<1> DEFINE y == Behind(s, Len(x))
<1>0. x \o p = s \o r
    BY DEF Joined
<1>1. SubSeq(s \o r, 1, Len(x)) = x
    BY <1>0, PartFirst
<1>2. IsPrefix(x, s)
    BY ONLY x \in Seq(S), s \in Seq(S), r \in Seq(S), Len(x) <= Len(s), <1>1, ShorterBegins
<1>3. s = x \o y /\ y \in Seq(S)
    BY ONLY x \in Seq(S), s \in Seq(S), <1>2, PrefixRest
<1> HIDE DEF y
<1>4. y \o r \in Seq(S)
    BY ONLY r \in Seq(S), <1>3, ConcatProperties
<1>5. FromLeft(x, y, r) = FromRight(x, y, r)
    BY ONLY x \in Seq(S), <1>3, r \in Seq(S), Associative
<1>6. x \o p = x \o (y \o r)
    BY ONLY <1>0, <1>3, <1>5 DEF FromLeft, FromRight
<1>7. p = y \o r
    BY ONLY x \in Seq(S), p \in Seq(S), <1>4, <1>6, Cancel
<1> QED
    BY <1>3, <1>7 DEF Joined

----------------------------------------------------------------------------
(* Commands.                                                               *)

LEMMA ByteSets ==
    /\ {0, 1, 2, 3} \subseteq Byte /\ Senders \subseteq Byte /\ Values \subseteq Byte
    /\ Base \in Nat /\ Width \in Nat \ {0} /\ CommitLen \in Nat
    /\ \A n \in Nat : DivCeil(n) \in Nat
<1>1. Base \in Nat /\ Base >= 4 /\ ByteBits \in Nat \ {0}
    BY WireAssumption
<1>2. \A n \in Nat : DivCeil(n) \in Nat
    <2> SUFFICES ASSUME NEW n \in Nat PROVE DivCeil(n) \in Nat
        OBVIOUS
    <2>1. PICK m \in Nat : m = n + ByteBits - 1
        BY <1>1
    <2>2. m \div ByteBits \in Nat
        BY <1>1
    <2> QED
        BY <2>1, <2>2 DEF DivCeil
<1> QED
    BY <1>1, <1>2, WireAssumption DEF Byte

LEMMA DataSeq ==
    ASSUME NEW n \in Nat, NEW d \in [1..n -> Values]
    PROVE  d \in Seq(Byte) /\ Len(d) = n
<1>1. d \in [1..n -> Byte]
    BY ByteSets
<1> QED
    BY <1>1

\* The two bytes before everything else.
LEMMA Header ==
    ASSUME NEW t \in Byte, NEW s \in Byte, NEW r \in Seq(Byte)
    PROVE  /\ <<t, s>> \in Seq(Byte) /\ Len(<<t, s>>) = 2
           /\ <<t, s>> \o r \in Seq(Byte) /\ Len(<<t, s>> \o r) = 2 + Len(r)
           /\ (<<t, s>> \o r)[1] = t /\ (<<t, s>> \o r)[2] = s
<1> DEFINE h == <<t, s>>
<1>1. h \in Seq(Byte) /\ Len(h) = 2 /\ h[1] = t /\ h[2] = s
    OBVIOUS
<1> HIDE DEF h
<1>2. /\ h \o r \in Seq(Byte) /\ Len(h \o r) = 2 + Len(r) /\ Len(r) \in Nat
      /\ \A i \in 1..2 + Len(r) : (h \o r)[i] = IF i <= 2 THEN h[i] ELSE r[i - 2]
    <2>1. /\ h \o r \in Seq(Byte) /\ Len(h \o r) = Len(h) + Len(r)
          /\ \A i \in 1..Len(h) + Len(r) :
                (h \o r)[i] = IF i <= Len(h) THEN h[i] ELSE r[i - Len(h)]
        BY ONLY <1>1, r \in Seq(Byte), ConcatProperties
    <2>2. Len(r) \in Nat
        BY LenProperties
    <2> QED
        BY <1>1, <2>1, <2>2
<1>3. 1 \in 1..2 + Len(r) /\ 2 \in 1..2 + Len(r)
    BY <1>2
<1> QED
    BY <1>1, <1>2, <1>3 DEF h

\* Four parts in a row, concatenated from the left and from the right.
InRow(h, b, a, r) == ((h \o b) \o a) \o r
Nested(h, b, a, r) == h \o (b \o (a \o r))

LEMMA Nest ==
    ASSUME NEW S, NEW h \in Seq(S), NEW b \in Seq(S), NEW a \in Seq(S), NEW r \in Seq(S)
    PROVE  InRow(h, b, a, r) = Nested(h, b, a, r)
<1>1. h \o b \in Seq(S) /\ a \o r \in Seq(S)
    BY ConcatProperties
<1>2. PICK hb \in Seq(S) : hb = h \o b
    BY ONLY <1>1
<1>3. PICK ar \in Seq(S) : ar = a \o r
    BY ONLY <1>1
<1>4. FromLeft(hb, a, r) = FromRight(hb, a, r)
    BY ONLY hb \in Seq(S), a \in Seq(S), r \in Seq(S), Associative
<1>5. FromLeft(h, b, ar) = FromRight(h, b, ar)
    BY ONLY h \in Seq(S), b \in Seq(S), ar \in Seq(S), Associative
<1>6. InRow(h, b, a, r) = hb \o ar
    BY ONLY <1>2, <1>3, <1>4 DEF InRow, FromLeft, FromRight
<1>7. Nested(h, b, a, r) = hb \o ar
    BY ONLY <1>2, <1>3, <1>5 DEF Nested, FromLeft, FromRight
<1> QED
    BY ONLY <1>6, <1>7

\* What is read of a command with a size and an array, and what follows them.
LEMMA Fields ==
    ASSUME NEW t \in Byte, NEW s \in Byte, NEW n \in BitSizes, NEW a \in Data(n),
           NEW r \in Seq(Byte), NEW data, data = InRow(<<t, s>>, LeBytes(n), a, r)
    PROVE  /\ data \in Seq(Byte) /\ Len(data) = 2 + Width + DivCeil(n) + Len(r)
           /\ data[1] = t /\ data[2] = s
           /\ FromLeBytes(SubSeq(data, 3, 2 + Width)) = n
           /\ ArraySize(data) = DivCeil(n) /\ DivCeil(n) \in Nat
           /\ ArrayAt(data, 1) = a
<1> DEFINE h == <<t, s>>
           b == LeBytes(n)
           d == DivCeil(n)
<1>1. n \in Nat /\ n < Weight[Width] /\ Width \in Nat
    <2>1. n \in 1..Weight[Width] - 1 /\ Width \in Nat /\ Width \in 0..Width
        BY WireAssumption
    <2>2. Weight[Width] \in Nat
        BY <2>1, Weights
    <2> QED
        BY <2>1, <2>2
<1>2. b \in Seq(Byte) /\ Len(b) = Width /\ FromLeBytes(b) = n
    BY <1>1, LeBytesType, BytesBack
<1>3. a \in Seq(Byte) /\ Len(a) = d /\ d \in Nat
    <2>1. d \in Nat
        BY <1>1, ByteSets
    <2> QED
        BY <2>1, DataSeq DEF Data
<1>4. h \in Seq(Byte) /\ Len(h) = 2
    OBVIOUS
<1>5. data = h \o (b \o (a \o r)) /\ data = ((h \o b) \o a) \o r
    <2>0. h \in Seq(Byte) /\ b \in Seq(Byte) /\ a \in Seq(Byte)
        BY <1>2, <1>3, <1>4
    <2> HIDE DEF h, b
    <2>1. InRow(h, b, a, r) = Nested(h, b, a, r)
        BY ONLY <2>0, r \in Seq(Byte), Nest
    <2>2. data = InRow(h, b, a, r)
        BY DEF h, b
    <2> QED
        BY <2>1, <2>2, Zenon DEF InRow, Nested
<1>6. /\ data[1] = t /\ data[2] = s
      /\ data \in Seq(Byte) /\ Len(data) = 2 + Len(b \o (a \o r))
      /\ b \o (a \o r) \in Seq(Byte) /\ a \o r \in Seq(Byte)
    <2> DEFINE bar == b \o (a \o r)
    <2>1. a \o r \in Seq(Byte)
        BY <1>3, ConcatProperties
    <2>2. bar \in Seq(Byte)
        BY <1>2, <2>1, ConcatProperties
    <2>3. data = <<t, s>> \o bar
        BY <1>5
    <2> HIDE DEF bar
    <2>4. data[1] = t /\ data[2] = s /\ data \in Seq(Byte) /\ Len(data) = 2 + Len(bar)
        <3>1. /\ <<t, s>> \o bar \in Seq(Byte) /\ Len(<<t, s>> \o bar) = 2 + Len(bar)
              /\ (<<t, s>> \o bar)[1] = t /\ (<<t, s>> \o bar)[2] = s
            BY ONLY t \in Byte, s \in Byte, <2>2, Header
        <3> QED
            BY ONLY <2>3, <3>1
    <2> QED
        BY <2>1, <2>2, <2>4 DEF bar
<1> HIDE DEF h, b, d
<1>7. Len(data) = 2 + Width + d + Len(r)
    <2>1. Len(b \o (a \o r)) = Len(b) + Len(a \o r) /\ Len(a \o r) = Len(a) + Len(r)
        <3>1. PICK ar \in Seq(Byte) : ar = a \o r
            BY ONLY <1>6
        <3>2. a \in Seq(Byte) /\ b \in Seq(Byte)
            BY ONLY <1>2, <1>3
        <3>3. Len(a \o r) = Len(a) + Len(r)
            BY ONLY <3>2, r \in Seq(Byte), ConcatProperties
        <3>4. Len(b \o ar) = Len(b) + Len(ar)
            BY ONLY <3>2, ar \in Seq(Byte), ConcatProperties
        <3> QED
            BY ONLY <3>1, <3>3, <3>4
    <2>2. Len(r) \in Nat
        BY LenProperties
    <2> QED
        BY <1>1, <1>2, <1>3, <1>6, <2>1, <2>2
<1>8. /\ data = (h \o b) \o (a \o r) /\ h \o b \in Seq(Byte) /\ Len(h \o b) = 2 + Width
    <2> DEFINE ar == a \o r
    <2>1. ar \in Seq(Byte)
        BY <1>6
    <2>2. data = h \o (b \o ar)
        BY <1>5
    <2> HIDE DEF ar
    <2>3. h \in Seq(Byte) /\ b \in Seq(Byte)
        BY <1>2, <1>4
    <2>4. (h \o b) \o ar = h \o (b \o ar)
        BY ONLY <2>1, <2>3, ConcatAssociative
    <2>5. h \o b \in Seq(Byte) /\ Len(h \o b) = Len(h) + Len(b)
        BY ONLY <2>3, ConcatProperties
    <2> QED
        BY <1>2, <1>4, <2>2, <2>4, <2>5 DEF ar
<1>9. FromLeBytes(SubSeq(data, 3, 2 + Width)) = n
    <2>1. SubSeq((h \o b) \o (a \o r), Len(h) + 1, Len(h) + Len(b)) = b
        BY <1>2, <1>4, <1>6, Part
    <2>2. SubSeq(data, 2 + 1, 2 + Width) = b
        BY <1>2, <1>4, <1>8, <2>1
    <2>3. 2 + 1 = 3
        OBVIOUS
    <2> QED
        BY <1>2, <2>2, <2>3
<1>10. ArraySize(data) = d
    BY <1>9 DEF ArraySize, d
<1>11. ArrayAt(data, 1) = a
    <2>1. SubSeq(((h \o b) \o a) \o r, Len(h \o b) + 1, Len(h \o b) + Len(a)) = a
        BY <1>3, <1>8, Part
    <2>2. SubSeq(data, (2 + Width) + 1, (2 + Width) + d) = a
        BY <1>3, <1>5, <1>8, <2>1
    <2>3. ArrayAt(data, 1) = SubSeq(data, (2 + Width + (1 - 1) * d) + 1, (2 + Width + (1 - 1) * d) + d)
        BY <1>10 DEF ArrayAt
    <2>4. 2 + Width + (1 - 1) * d = 2 + Width
        BY <1>1, <1>3
    <2> QED
        BY <2>2, <2>3, <2>4
<1> QED
    BY <1>3, <1>6, <1>7, <1>9, <1>10, <1>11 DEF d

\* The header and the size of an exchange.
LEMMA HeaderTypes ==
    ASSUME NEW t \in {0, 1, 2, 3}, NEW s \in Byte, NEW n \in BitSizes
    PROVE  t \in Byte /\ <<t, s>> \in Seq(Byte) /\ LeBytes(n) \in Seq(Byte) /\ n \in Nat
<1>1. t \in Byte
    BY ByteSets
<1>2. n \in Nat
    BY WireAssumption
<1>3. LeBytes(n) \in Seq(Byte)
    BY <1>2, LeBytesType
<1> QED
    BY <1>1, <1>2, <1>3

LEMMA BeaverBack ==
    ASSUME NEW n \in BitSizes, NEW cmd \in Beaver(n)
    PROVE  /\ Serialize(cmd) \in Seq(Byte) /\ Deserialize(Serialize(cmd)) = cmd
           /\ Len(Serialize(cmd)) = 2 + Width + DivCeil(n) + DivCeil(n)
<1> DEFINE data == Serialize(cmd)
           a == cmd.a
           b == cmd.b
           d == DivCeil(n)
<1>1. /\ cmd.type = "BeaverExchange" /\ cmd.sender \in Senders /\ cmd.size = n
      /\ a \in Data(n) /\ b \in Data(n)
      /\ cmd = [type |-> "BeaverExchange", sender |-> cmd.sender, size |-> n, a |-> a, b |-> b]
    BY DEF Beaver
<1>2. cmd.sender \in Byte /\ 0 \in {0, 1, 2, 3}
    BY <1>1, ByteSets
<1>3. /\ <<0, cmd.sender>> \in Seq(Byte) /\ LeBytes(n) \in Seq(Byte)
      /\ 0 \in Byte /\ n \in Nat
    BY <1>2, HeaderTypes
<1>4. a \in Seq(Byte) /\ Len(a) = d /\ b \in Seq(Byte) /\ Len(b) = d
    <2>1. d \in Nat
        BY <1>3, ByteSets
    <2> QED
        BY <1>1, <2>1, DataSeq DEF Data
<1>5. data = InRow(<<0, cmd.sender>>, LeBytes(n), a, b)
    BY <1>1 DEF Serialize, InRow
<1> HIDE DEF data, a, b
<1>6. /\ data \in Seq(Byte) /\ Len(data) = 2 + Width + d + Len(b)
      /\ data[1] = 0 /\ data[2] = cmd.sender
      /\ FromLeBytes(SubSeq(data, 3, 2 + Width)) = n
      /\ ArraySize(data) = d /\ d \in Nat /\ ArrayAt(data, 1) = a
    <2>1. cmd.sender \in Byte /\ 0 \in Byte /\ a \in Data(n) /\ b \in Seq(Byte)
        BY <1>1, <1>2, <1>3, <1>4
    <2> QED
        BY ONLY n \in BitSizes, <1>5, <2>1, Fields
<1> HIDE DEF d
<1>7. ArrayAt(data, 2) = b
    <2> DEFINE x == (<<0, cmd.sender>> \o LeBytes(n)) \o a
    <2>1. x \in Seq(Byte) /\ Len(x) + Len(b) = Len(data)
        <3> DEFINE h == <<0, cmd.sender>> \o LeBytes(n)
        <3>1. h \in Seq(Byte)
            BY <1>3, ConcatProperties
        <3> HIDE DEF h
        <3>2. h \o a \in Seq(Byte)
            BY <1>4, <3>1, ConcatProperties
        <3>3. x \in Seq(Byte)
            BY <3>2 DEF h
        <3> HIDE DEF x
        <3>4. Len(x \o b) = Len(x) + Len(b)
            BY <1>4, <3>3, ConcatProperties
        <3> QED
            BY <1>5, <3>3, <3>4 DEF x, InRow
    <2> HIDE DEF x
    <2>2. Len(x) \in Nat /\ Width \in Nat
        BY <2>1, LenProperties, ByteSets
    <2>3. Len(x) = 2 + Width + d
        BY <1>4, <1>6, <2>1, <2>2
    <2>4. SubSeq(x \o b, Len(x) + 1, Len(x) + Len(b)) = b
        BY <1>4, <2>1, PartLast
    <2>5. SubSeq(data, (2 + Width + d) + 1, (2 + Width + d) + d) = b
        <3>1. data = x \o b
            BY <1>5 DEF x, InRow
        <3> QED
            BY <1>4, <2>3, <2>4, <3>1
    <2>6. ArrayAt(data, 2) = SubSeq(data, (2 + Width + (2 - 1) * d) + 1, (2 + Width + (2 - 1) * d) + d)
        BY <1>6 DEF ArrayAt
    <2>7. 2 + Width + (2 - 1) * d = 2 + Width + d
        BY <1>6, <2>2
    <2> QED
        BY <2>5, <2>6, <2>7
<1>8. Deserialize(data) = [type |-> "BeaverExchange", sender |-> cmd.sender, size |-> n,
                           a |-> a, b |-> b]
    BY <1>6, <1>7 DEF Deserialize
<1> QED
    BY <1>1, <1>4, <1>6, <1>8 DEF data, d

LEMMA DabitBack ==
    ASSUME NEW n \in BitSizes, NEW cmd \in Dabit(n)
    PROVE  /\ Serialize(cmd) \in Seq(Byte) /\ Deserialize(Serialize(cmd)) = cmd
           /\ Len(Serialize(cmd)) = 2 + Width + DivCeil(n)
<1> DEFINE data == Serialize(cmd)
           a == cmd.a
           e == << >>
<1>1. /\ cmd.type = "DabitExchange" /\ cmd.sender \in Senders /\ cmd.size = n
      /\ a \in Data(n)
      /\ cmd = [type |-> "DabitExchange", sender |-> cmd.sender, size |-> n, a |-> a]
    BY DEF Dabit
<1>2. cmd.sender \in Byte /\ 2 \in {0, 1, 2, 3} /\ e \in Seq(Byte)
    BY <1>1, ByteSets, EmptySeq
<1>3. /\ <<2, cmd.sender>> \in Seq(Byte) /\ LeBytes(n) \in Seq(Byte)
      /\ 2 \in Byte /\ n \in Nat
    BY <1>2, HeaderTypes
<1>4. a \in Seq(Byte)
    <2>1. DivCeil(n) \in Nat
        BY <1>3, ByteSets
    <2> QED
        BY <1>1, <2>1, DataSeq DEF Data
<1>5. data = InRow(<<2, cmd.sender>>, LeBytes(n), a, e)
    <2> DEFINE h == <<2, cmd.sender>>
               l == LeBytes(n)
               hla == (h \o l) \o a
    <2>1. data = hla
        BY <1>1 DEF Serialize
    <2>2. h \in Seq(Byte) /\ l \in Seq(Byte) /\ a \in Seq(Byte)
        BY <1>3, <1>4
    <2>3. hla \in Seq(Byte)
        <3> HIDE DEF h, l, a
        <3>1. h \o l \in Seq(Byte)
            BY <2>2, ConcatProperties
        <3> QED
            BY <2>2, <3>1, ConcatProperties
    <2>4. hla \o e = hla
        <3> HIDE DEF hla
        <3> QED
            BY <2>3, ConcatEmptySeq
    <2> QED
        BY <2>1, <2>4 DEF InRow
<1> HIDE DEF data, a, e
<1>6. /\ data \in Seq(Byte) /\ Len(data) = 2 + Width + DivCeil(n) + Len(e)
      /\ data[1] = 2 /\ data[2] = cmd.sender
      /\ FromLeBytes(SubSeq(data, 3, 2 + Width)) = n
      /\ ArrayAt(data, 1) = a
    <2>1. cmd.sender \in Byte /\ 2 \in Byte /\ a \in Data(n) /\ e \in Seq(Byte)
        BY <1>1, <1>2, <1>3
    <2> QED
        BY ONLY n \in BitSizes, <1>5, <2>1, Fields
<1>7. Deserialize(data) = [type |-> "DabitExchange", sender |-> cmd.sender, size |-> n, a |-> a]
    BY <1>6 DEF Deserialize
<1>8. Len(data) = 2 + Width + DivCeil(n)
    <2>1. Len(e) = 0 /\ Width \in Nat /\ DivCeil(n) \in Nat
        BY <1>3, ByteSets, EmptySeq DEF e
    <2> QED
        BY ONLY <1>6, <2>1
<1> QED
    BY <1>1, <1>6, <1>7, <1>8 DEF data

LEMMA HandshakeBack ==
    ASSUME NEW cmd \in [type : {"Handshake"}, sender : Byte]
    PROVE  /\ Serialize(cmd) \in Seq(Byte) /\ Deserialize(Serialize(cmd)) = cmd
           /\ Len(Serialize(cmd)) = 2
<1> DEFINE data == Serialize(cmd)
<1>1. cmd.type = "Handshake" /\ cmd.sender \in Byte /\ 1 \in Byte
    BY ByteSets
<1>2. data = <<1, cmd.sender>>
    BY <1>1 DEF Serialize
<1>3. data \in Seq(Byte) /\ Len(data) = 2 /\ data[1] = 1 /\ data[2] = cmd.sender
    BY <1>1, <1>2
<1> HIDE DEF data
<1>4. Deserialize(data) = [type |-> "Handshake", sender |-> cmd.sender]
    BY <1>3 DEF Deserialize
<1>5. cmd = [type |-> "Handshake", sender |-> cmd.sender]
    BY <1>1
<1> QED
    BY <1>3, <1>4, <1>5 DEF data

LEMMA CommitBack ==
    ASSUME NEW cmd \in [type : {"AggCommit"}, sender : Senders, commit : [1..CommitLen -> Values]]
    PROVE  /\ Serialize(cmd) \in Seq(Byte) /\ Deserialize(Serialize(cmd)) = cmd
           /\ Len(Serialize(cmd)) = 2 + CommitLen
<1> DEFINE data == Serialize(cmd)
           c == cmd.commit
           h == <<3, cmd.sender>>
<1>1. /\ cmd.type = "AggCommit" /\ cmd.sender \in Byte /\ 3 \in Byte
      /\ c \in [1..CommitLen -> Values] /\ CommitLen \in Nat
    BY ByteSets
<1>2. c \in Seq(Byte) /\ Len(c) = CommitLen
    BY <1>1, DataSeq
<1>3. data = h \o c
    BY <1>1 DEF Serialize
<1>4. cmd = [type |-> "AggCommit", sender |-> cmd.sender, commit |-> c]
    BY <1>1
<1>5. /\ data \in Seq(Byte) /\ data[1] = 3 /\ data[2] = cmd.sender
      /\ h \in Seq(Byte) /\ Len(h) = 2 /\ Len(data) = 2 + Len(c)
    <2> HIDE DEF data, c
    <2> QED
        BY <1>1, <1>2, <1>3, Header
<1> HIDE DEF data, c, h
<1>6. SubSeq(data, 3, 2 + CommitLen) = c
    <2>1. SubSeq(h \o c, Len(h) + 1, Len(h) + Len(c)) = c
        BY <1>2, <1>5, PartLast
    <2>2. SubSeq(data, 2 + 1, 2 + CommitLen) = c
        BY <1>2, <1>3, <1>5, <2>1
    <2>3. 2 + 1 = 3
        OBVIOUS
    <2> QED
        BY <2>2, <2>3
<1>7. Deserialize(data) = [type |-> "AggCommit", sender |-> cmd.sender, commit |-> c]
    <2>1. data[1] = 3 /\ data[2] = cmd.sender
        BY <1>5
    <2>2. data[1] # 0 /\ data[1] # 1 /\ data[1] # 2
        BY ONLY <2>1
    <2> QED
        BY ONLY <1>6, <2>1, <2>2, Zenon DEF Deserialize
<1> QED
    BY <1>2, <1>4, <1>5, <1>7 DEF data

\* The four kinds of commands.
LEMMA CommandKinds ==
    ASSUME NEW cmd \in Cmds
    PROVE  \/ \E n \in BitSizes : cmd \in Beaver(n) \/ cmd \in Dabit(n)
           \/ cmd \in [type : {"Handshake"}, sender : Byte]
           \/ cmd \in [type : {"AggCommit"}, sender : Senders, commit : [1..CommitLen -> Values]]
<1> DEFINE Sized == {Beaver(n) \cup Dabit(n) : n \in BitSizes}
<1>1. cmd \in UNION Sized => \E X \in Sized : cmd \in X
    OBVIOUS
<1>2. \A X \in Sized : \E n \in BitSizes : X = Beaver(n) \cup Dabit(n)
    OBVIOUS
<1>3. cmd \in UNION Sized => \E n \in BitSizes : cmd \in Beaver(n) \/ cmd \in Dabit(n)
    <2> HIDE DEF Sized
    <2> QED
        BY <1>1, <1>2
<1>4. \/ cmd \in UNION Sized
      \/ cmd \in [type : {"Handshake"}, sender : Byte]
      \/ cmd \in [type : {"AggCommit"}, sender : Senders, commit : [1..CommitLen -> Values]]
    BY DEF Cmds
<1> QED
    BY <1>3, <1>4

\* What deserialize makes of a serialized command is the command.
LEMMA CommandBack ==
    ASSUME NEW cmd \in Cmds
    PROVE  Serialize(cmd) \in Seq(Byte) /\ Deserialize(Serialize(cmd)) = cmd
BY CommandKinds, BeaverBack, DabitBack, HandshakeBack, CommitBack
----------------------------------------------------------------------------
(* Sequences of sequences.                                                 *)

\* g[i] is what the first i of them make.
Joins(g, seqs) ==
    g = [i \in 1..Len(seqs) |-> IF i = 1 THEN seqs[i] ELSE g[i - 1] \o seqs[i]]

LEMMA JoinsExist ==
    ASSUME NEW S, NEW seqs \in Seq(Seq(S)), Len(seqs) # 0
    PROVE  \E g \in [1..Len(seqs) -> Seq(S)] : Joins(g, seqs)
<1> DEFINE n == Len(seqs)
           step == [i \in 1..n |-> [x \in Seq(S) |-> x \o seqs[i]]]
<1>1. n \in Nat /\ 1 \in Nat /\ 1 <= n
    BY LenProperties
<1>2. \A i \in 1..n : seqs[i] \in Seq(S)
    BY ElementOfSeq
<1>3. seqs[1] \in Seq(S)
    <2>1. 1 \in 1..n
        BY <1>1
    <2> QED
        BY <1>2, <2>1
<1>4. step \in [1..n -> [Seq(S) -> Seq(S)]]
    <2>1. ASSUME NEW i \in 1..n, NEW x \in Seq(S) PROVE x \o seqs[i] \in Seq(S)
        BY <1>2, ConcatProperties
    <2> HIDE DEF n
    <2> QED
        BY <2>1
<1>5. PICK g : Tabulates(g, 1, n, seqs[1], step)
    <2> HIDE DEF n, step
    <2> QED
        BY <1>1, <1>3, <1>4, TableExists
<1>6. g \in [1..n -> Seq(S)]
    <2> HIDE DEF n, step
    <2> QED
        BY <1>1, <1>3, <1>4, <1>5, TableValues
<1>7. ASSUME NEW i \in 1..n, i # 1 PROVE step[i][g[i - 1]] = g[i - 1] \o seqs[i]
    <2>1. i - 1 \in 1..n
        BY <1>1, <1>7
    <2>2. g[i - 1] \in Seq(S)
        BY <1>6, <2>1
    <2> HIDE DEF n
    <2> QED
        BY <2>2
<1>8. Joins(g, seqs)
    <2>1. g = [i \in 1..n |-> IF i = 1 THEN seqs[1] ELSE step[i][g[i - 1]]]
        <3> HIDE DEF n, step
        <3> QED
            BY <1>5 DEF Tabulates
    <2> HIDE DEF step
    <2>2. g = [i \in 1..n |-> IF i = 1 THEN seqs[i] ELSE g[i - 1] \o seqs[i]]
        <3> HIDE DEF n
        <3> QED
            BY <1>7, <2>1
    <2> QED
        BY <2>2 DEF Joins
<1> QED
    BY <1>6, <1>8

LEMMA JoinsValues ==
    ASSUME NEW seqs, NEW g, Joins(g, seqs)
    PROVE  \A i \in 1..Len(seqs) : g[i] = IF i = 1 THEN seqs[i] ELSE g[i - 1] \o seqs[i]
BY DEF Joins

LEMMA FlattenJoins ==
    ASSUME NEW S, NEW seqs \in Seq(Seq(S)), Len(seqs) # 0
    PROVE  \E g \in [1..Len(seqs) -> Seq(S)] :
                Joins(g, seqs) /\ FlattenSeq(seqs) = g[Len(seqs)]
<1> DEFINE G == CHOOSE g : Joins(g, seqs)
<1>1. FlattenSeq(seqs) = G[Len(seqs)]
    BY DEF FlattenSeq, Joins
<1>2. PICK g \in [1..Len(seqs) -> Seq(S)] : Joins(g, seqs)
    BY JoinsExist
<1>3. Joins(G, seqs)
    BY <1>2
<1> HIDE DEF G
<1> DEFINE n == Len(seqs)
           Bad == {i \in 1..n : G[i] # g[i]}
<1>4. n \in Nat
    BY LenProperties
<1>5. Bad = {}
    <2> SUFFICES ASSUME Bad # {} PROVE FALSE
        OBVIOUS
    <2>1. Bad \in SUBSET Nat
        BY <1>4
    <2>2. PICK k \in Bad : \A j \in Bad : k <= j
        <3> HIDE DEF Bad
        <3> QED
            BY <2>1, SmallestNumber
    <2>3. k \in 1..n
        OBVIOUS
    <2>4. /\ G[k] = IF k = 1 THEN seqs[k] ELSE G[k - 1] \o seqs[k]
          /\ g[k] = IF k = 1 THEN seqs[k] ELSE g[k - 1] \o seqs[k]
        BY <1>2, <1>3, <2>3, JoinsValues
    <2>5. k # 1
        BY <2>4
    <2>6. k - 1 \in 1..n /\ ~(k <= k - 1)
        BY <1>4, <2>3, <2>5
    <2>7. G[k - 1] = g[k - 1]
        BY <2>2, <2>6
    <2> QED
        BY <2>4, <2>5, <2>7
<1>6. G[n] = g[n]
    <2>1. n \in 1..n
        BY <1>4
    <2> QED
        BY <1>5, <2>1
<1> QED
    BY <1>1, <1>2, <1>6

LEMMA FlattenType ==
    ASSUME NEW S, NEW seqs \in Seq(Seq(S))
    PROVE  /\ FlattenSeq(seqs) \in Seq(S)
           /\ Len(seqs) = 0 => FlattenSeq(seqs) = << >>
<1>1. CASE Len(seqs) = 0
    <2>1. seqs = << >>
        BY <1>1, EmptySeq
    <2>2. FlattenSeq(seqs) = seqs
        BY <1>1 DEF FlattenSeq
    <2>3. << >> \in Seq(S)
        BY EmptySeq
    <2> QED
        BY <2>1, <2>2, <2>3
<1>2. CASE Len(seqs) # 0
    <2>1. PICK g \in [1..Len(seqs) -> Seq(S)] : FlattenSeq(seqs) = g[Len(seqs)]
        BY <1>2, FlattenJoins
    <2>2. Len(seqs) \in 1..Len(seqs)
        BY <1>2, LenProperties
    <2> QED
        BY <1>2, <2>1, <2>2
<1> QED
    BY <1>1, <1>2

\* One more sequence behind the others.
LEMMA FlattenOneMore ==
    ASSUME NEW S, NEW s \in Seq(Seq(S)), NEW t \in Seq(Seq(S)),
           Len(t) = Len(s) + 1, \A i \in 1..Len(s) : t[i] = s[i]
    PROVE  FlattenSeq(t) = FlattenSeq(s) \o t[Len(t)]
<1> DEFINE n == Len(s)
<1>1. n \in Nat /\ Len(t) = n + 1 /\ Len(t) # 0 /\ n + 1 \in 1..n + 1
    BY LenProperties
<1>2. PICK g \in [1..Len(t) -> Seq(S)] : Joins(g, t) /\ FlattenSeq(t) = g[Len(t)]
    BY <1>1, FlattenJoins
<1>3. \A i \in 1..n + 1 : g[i] = IF i = 1 THEN t[i] ELSE g[i - 1] \o t[i]
    <2>1. \A i \in 1..Len(t) : g[i] = IF i = 1 THEN t[i] ELSE g[i - 1] \o t[i]
        BY <1>2, JoinsValues, Zenon
    <2>2. Len(t) = n + 1
        BY <1>1
    <2> QED
        BY ONLY <2>1, <2>2, Zenon
<1>4. CASE n = 0
    <2>1. FlattenSeq(s) = << >>
        BY <1>4, FlattenType
    <2>2. FlattenSeq(t) = t[1] /\ Len(t) = 1
        BY <1>1, <1>2, <1>3, <1>4
    <2>3. t[1] \in Seq(S)
        <3>1. 1 \in 1..Len(t)
            BY <2>2
        <3> QED
            BY <3>1, ElementOfSeq
    <2>4. << >> \o t[1] = t[1]
        BY <2>3, ConcatEmptySeq
    <2> QED
        BY <2>1, <2>2, <2>4
<1>5. CASE n # 0
    <2>1. PICK h \in [1..n -> Seq(S)] : Joins(h, s) /\ FlattenSeq(s) = h[n]
        BY <1>5, FlattenJoins
    <2>2. \A i \in 1..n : h[i] = IF i = 1 THEN s[i] ELSE h[i - 1] \o s[i]
        BY <2>1, JoinsValues
    <2> DEFINE Bad == {i \in 1..n : g[i] # h[i]}
    <2>3. Bad = {}
        <3> SUFFICES ASSUME Bad # {} PROVE FALSE
            OBVIOUS
        <3>1. Bad \in SUBSET Nat
            BY <1>1
        <3>2. PICK k \in Bad : \A j \in Bad : k <= j
            <4> HIDE DEF Bad
            <4> QED
                BY <3>1, SmallestNumber
        <3>3. k \in 1..n /\ k \in 1..n + 1
            BY <1>1
        <3>4. /\ g[k] = IF k = 1 THEN s[k] ELSE g[k - 1] \o s[k]
              /\ h[k] = IF k = 1 THEN s[k] ELSE h[k - 1] \o s[k]
            BY <1>3, <2>2, <3>3
        <3>5. k # 1
            BY <3>4
        <3>6. k - 1 \in 1..n /\ ~(k <= k - 1)
            BY <1>1, <3>3, <3>5
        <3>7. g[k - 1] = h[k - 1]
            BY <3>2, <3>6
        <3> QED
            BY <3>4, <3>5, <3>7
    <2>4. g[n] = h[n]
        <3>1. n \in 1..n
            BY <1>1, <1>5
        <3> QED
            BY <2>3, <3>1
    <2>5. g[n + 1] = g[n] \o t[n + 1]
        <3>1. n + 1 # 1 /\ (n + 1) - 1 = n
            BY <1>1, <1>5
        <3>2. g[n + 1] = IF n + 1 = 1 THEN t[n + 1] ELSE g[(n + 1) - 1] \o t[n + 1]
            BY <1>1, <1>3
        <3> QED
            BY <3>1, <3>2
    <2> QED
        BY <1>1, <1>2, <2>1, <2>4, <2>5
<1> QED
    BY <1>4, <1>5

\* The first sequence, and the others behind it.
LEMMA FlattenFirst ==
    ASSUME NEW S, NEW s \in Seq(Seq(S)), NEW t \in Seq(Seq(S)),
           Len(s) = Len(t) + 1, \A i \in 1..Len(t) : s[i + 1] = t[i]
    PROVE  FlattenSeq(s) = s[1] \o FlattenSeq(t)
<1> DEFINE n == Len(t)
<1>1. n \in Nat /\ Len(s) = n + 1 /\ Len(s) # 0 /\ n + 1 \in 1..n + 1 /\ 1 \in 1..n + 1
    BY LenProperties
<1>2. PICK g \in [1..Len(s) -> Seq(S)] : Joins(g, s) /\ FlattenSeq(s) = g[Len(s)]
    BY <1>1, FlattenJoins
<1>3. \A i \in 1..n + 1 : g[i] = IF i = 1 THEN s[i] ELSE g[i - 1] \o s[i]
    <2>1. \A i \in 1..Len(s) : g[i] = IF i = 1 THEN s[i] ELSE g[i - 1] \o s[i]
        BY <1>2, JoinsValues, Zenon
    <2>2. Len(s) = n + 1
        BY <1>1
    <2> QED
        BY ONLY <2>1, <2>2, Zenon
<1>4. s[1] \in Seq(S) /\ g[1] = s[1]
    BY <1>1, <1>3, ElementOfSeq
<1>5. CASE n = 0
    <2>1. FlattenSeq(t) = << >>
        BY <1>5, FlattenType
    <2>2. FlattenSeq(s) = s[1]
        BY <1>1, <1>2, <1>4, <1>5
    <2>3. s[1] \o << >> = s[1]
        BY <1>4, ConcatEmptySeq
    <2> QED
        BY <2>1, <2>2, <2>3
<1>6. CASE n # 0
    <2>1. PICK h \in [1..n -> Seq(S)] : Joins(h, t) /\ FlattenSeq(t) = h[n]
        BY <1>6, FlattenJoins
    <2>2. \A i \in 1..n : h[i] = IF i = 1 THEN t[i] ELSE h[i - 1] \o t[i]
        BY <2>1, JoinsValues
    <2> DEFINE Bad == {i \in 1..n : g[i + 1] # s[1] \o h[i]}
    <2>3. Bad = {}
        <3> SUFFICES ASSUME Bad # {} PROVE FALSE
            OBVIOUS
        <3>1. Bad \in SUBSET Nat
            BY <1>1
        <3>2. PICK k \in Bad : \A j \in Bad : k <= j
            <4> HIDE DEF Bad
            <4> QED
                BY <3>1, SmallestNumber
        <3>3. k \in 1..n /\ k + 1 \in 1..n + 1 /\ k + 1 # 1 /\ (k + 1) - 1 = k
            BY <1>1
        <3>4. g[k + 1] = g[k] \o t[k]
            BY <1>3, <3>3
        <3>5. h[k] = IF k = 1 THEN t[k] ELSE h[k - 1] \o t[k]
            BY <2>2, <3>3
        <3>6. CASE k = 1
            BY <1>4, <3>2, <3>4, <3>5, <3>6
        <3>7. CASE k # 1
            <4>1. k - 1 \in 1..n /\ ~(k <= k - 1) /\ (k - 1) + 1 = k
                BY <1>1, <3>3, <3>7
            <4>2. g[k] = s[1] \o h[k - 1]
                <5>1. k - 1 \notin Bad
                    <6> HIDE DEF Bad
                    <6> QED
                        BY <3>2, <4>1
                <5> QED
                    BY <4>1, <5>1
            <4>3. h[k - 1] \in Seq(S) /\ t[k] \in Seq(S)
                BY <3>3, <4>1, ElementOfSeq
            <4>4. FromLeft(s[1], h[k - 1], t[k]) = FromRight(s[1], h[k - 1], t[k])
                BY ONLY <1>4, <4>3, Associative
            <4>5. g[k + 1] = FromLeft(s[1], h[k - 1], t[k])
                BY <3>4, <4>2 DEF FromLeft
            <4>6. s[1] \o h[k] = FromRight(s[1], h[k - 1], t[k])
                BY <3>5, <3>7 DEF FromRight
            <4> QED
                BY <3>2, <4>4, <4>5, <4>6
        <3> QED
            BY <3>6, <3>7
    <2>4. g[n + 1] = s[1] \o h[n]
        <3>1. n \in 1..n
            BY <1>1, <1>6
        <3> QED
            BY <2>3, <3>1
    <2> QED
        BY <1>1, <1>2, <2>1, <2>4
<1> QED
    BY <1>5, <1>6
----------------------------------------------------------------------------
(* Frames.                                                                 *)

LEMMA Shorten ==
    ASSUME NEW S, NEW s \in Seq(S), NEW t \in Seq(S), IsPrefix(s, t), NEW k \in 0..Len(s)
    PROVE  SubSeq(s, 1, k) \in Seq(S) /\ IsPrefix(SubSeq(s, 1, k), t)
<1>1. Len(s) \in Nat /\ k \in Int /\ 1 \in Int
    BY LenProperties
<1>2. SubSeq(s, 1, k) \in Seq(S) /\ SubSeq(s, k + 1, Len(s)) \in Seq(S)
    <2>1. \A i \in 1..Len(s) : s[i] \in S
        BY ElementOfSeq
    <2>2. \A i \in 1..k : s[i] \in S
        BY <1>1, <2>1
    <2>3. \A i \in k + 1..Len(s) : s[i] \in S
        BY <1>1, <2>1
    <2>4. SubSeq(s, 1, k) \in Seq(S)
        BY <1>1, <2>2, SubSeqProperties
    <2>5. k + 1 \in Int /\ Len(s) \in Int
        BY <1>1
    <2>6. SubSeq(s, k + 1, Len(s)) \in Seq(S)
        BY <2>3, <2>5, SubSeqProperties
    <2> QED
        BY <2>4, <2>6
<1>3. SubSeq(s, 1, k) \o SubSeq(s, k + 1, Len(s)) = s
    <2>1. 1 \in 1..Len(s) + 1 /\ k \in 1 - 1..Len(s) /\ Len(s) \in k..Len(s)
        BY <1>1
    <2>2. SubSeq(s, 1, k) \o SubSeq(s, k + 1, Len(s)) = SubSeq(s, 1, Len(s))
        BY <2>1, ConcatAdjacentSubSeq
    <2> QED
        BY <2>2, SubSeqFull
<1>4. PICK p \in Seq(S), q \in Seq(S) : p = SubSeq(s, 1, k) /\ s = p \o q
    BY <1>2, <1>3
<1>5. PICK r \in Seq(S) : t = s \o r
    BY PrefixRest
<1>6. FromLeft(p, q, r) = FromRight(p, q, r)
    BY ONLY p \in Seq(S), q \in Seq(S), r \in Seq(S), Associative
<1>7. t = p \o (q \o r)
    BY ONLY <1>4, <1>5, <1>6 DEF FromLeft, FromRight
<1>8. q \o r \in Seq(S)
    BY ONLY q \in Seq(S), r \in Seq(S), ConcatProperties
<1>9. IsPrefix(p, t)
    BY ONLY p \in Seq(S), <1>7, <1>8, PrefixOf
<1> QED
    BY ONLY <1>2, <1>4, <1>9

\* A frame is the length of the command and the command.
LEMMA FrameParts ==
    ASSUME CommandsFit, NEW cmd \in Cmds
    PROVE  \E b \in Seq(Byte), c \in Seq(Byte) :
              /\ Frame(cmd) = b \o c /\ Frame(cmd) \in Seq(Byte)
              /\ Len(b) = Width /\ FromLeBytes(b) = Len(c)
              /\ Deserialize(c) = cmd
<1> DEFINE c == Serialize(cmd)
           b == LeBytes(Len(c))
<1>1. c \in Seq(Byte) /\ Deserialize(c) = cmd
    BY CommandBack
<1>2. Len(c) \in Nat /\ Len(c) < Weight[Width]
    <2>1. Len(c) \in Nat
        BY <1>1, LenProperties
    <2> QED
        BY <2>1 DEF CommandsFit
<1> HIDE DEF c
<1>3. b \in Seq(Byte) /\ Len(b) = Width /\ FromLeBytes(b) = Len(c)
    BY <1>2, LeBytesType, BytesBack
<1>4. Frame(cmd) = b \o c
    BY DEF Frame, c
<1> HIDE DEF b
<1>5. b \o c \in Seq(Byte)
    BY <1>1, <1>3, ConcatProperties
<1> QED
    BY <1>1, <1>3, <1>4, <1>5

\* What is read when the next frame has arrived.
LEMMA FirstCommand ==
    ASSUME CommandsFit, NEW cmd \in Cmds, NEW p \in Seq(Byte), NEW s \in Seq(Byte),
           IsPrefix(s, Frame(cmd) \o p),
           NEW n, n = FromLeBytes(SubSeq(s, 1, Width)),
           Len(s) >= Width, Len(s) >= Width + n
    PROVE  /\ Deserialize(SubSeq(s, Width + 1, Width + n)) = cmd
           /\ SubSeq(s, Width + n + 1, Len(s)) \in Seq(Byte)
           /\ IsPrefix(SubSeq(s, Width + n + 1, Len(s)), p)
           /\ s = Frame(cmd) \o p => SubSeq(s, Width + n + 1, Len(s)) = p
<1>1. PICK b \in Seq(Byte), c \in Seq(Byte) :
              /\ Frame(cmd) = b \o c /\ Frame(cmd) \in Seq(Byte)
              /\ Len(b) = Width /\ FromLeBytes(b) = Len(c)
              /\ Deserialize(c) = cmd
    BY FrameParts
<1>2. PICK x \in Seq(Byte) : x = Frame(cmd) /\ x = b \o c
    BY <1>1
<1>3. Len(x) = Width + Len(c) /\ Width \in Nat /\ Len(c) \in Nat /\ Len(s) \in Nat
    <2>1. Len(b \o c) = Len(b) + Len(c)
        BY ONLY b \in Seq(Byte), c \in Seq(Byte), ConcatProperties
    <2>2. Width \in Nat
        BY ByteSets
    <2> QED
        BY <1>1, <1>2, <2>1, <2>2, LenProperties
<1>4. x \o p \in Seq(Byte) /\ c \o p \in Seq(Byte)
    BY ONLY x \in Seq(Byte), c \in Seq(Byte), p \in Seq(Byte), ConcatProperties
<1>5. IsPrefix(s, x \o p)
    BY <1>2
<1>6. PICK r \in Seq(Byte) : x \o p = s \o r
    BY ONLY s \in Seq(Byte), <1>4, <1>5, PrefixRest
<1>7. FromLeft(b, c, p) = FromRight(b, c, p)
    BY ONLY b \in Seq(Byte), c \in Seq(Byte), p \in Seq(Byte), Associative
<1>8. b \o (c \o p) = s \o r
    BY ONLY <1>2, <1>6, <1>7 DEF FromLeft, FromRight
<1>9. Len(b) <= Len(s)
    BY <1>1, <1>3
<1>10. PICK z \in Seq(Byte) : s = b \o z
    <2>1. PICK cp \in Seq(Byte) : cp = c \o p
        BY ONLY <1>4
    <2>2. Joined(s \o r, b, cp) /\ Joined(s \o r, s, r)
        BY ONLY <1>8, <2>1 DEF Joined
    <2>3. \E z \in Seq(Byte) : Joined(s, b, z)
        <3>1. PICK t : Joined(t, b, cp) /\ Joined(t, s, r)
            BY ONLY <2>2
        <3> QED
            BY ONLY b \in Seq(Byte), s \in Seq(Byte), r \in Seq(Byte), cp \in Seq(Byte),
                    <1>9, <3>1, Beginnings
    <2> QED
        BY ONLY <2>3 DEF Joined
<1>11. n = Len(c)
    <2>1. SubSeq(b \o z, 1, Len(b)) = b
        BY ONLY b \in Seq(Byte), z \in Seq(Byte), PartFirst
    <2>2. SubSeq(s, 1, Width) = b
        BY ONLY <1>1, <1>10, <2>1
    <2> QED
        BY ONLY <1>1, <2>2, n = FromLeBytes(SubSeq(s, 1, Width))
<1>12. Len(x) <= Len(s)
    BY <1>3, <1>11
<1>13. PICK y \in Seq(Byte) : s = x \o y /\ p = y \o r
    <2>1. PICK t : Joined(t, x, p) /\ Joined(t, s, r)
        BY ONLY <1>6 DEF Joined
    <2>2. \E y \in Seq(Byte) : Joined(s, x, y) /\ Joined(p, y, r)
        BY ONLY x \in Seq(Byte), p \in Seq(Byte), s \in Seq(Byte), r \in Seq(Byte),
                <1>12, <2>1, Beginnings
    <2> QED
        BY ONLY <2>2 DEF Joined
<1>14. SubSeq(s, Width + 1, Width + n) = c
    <2>1. SubSeq((b \o c) \o y, Len(b) + 1, Len(b) + Len(c)) = c
        BY ONLY b \in Seq(Byte), c \in Seq(Byte), y \in Seq(Byte), Part
    <2> QED
        BY ONLY <1>1, <1>2, <1>11, <1>13, <2>1
<1>15. SubSeq(s, Width + n + 1, Len(s)) = y
    <2>1. SubSeq(x \o y, Len(x) + 1, Len(x) + Len(y)) = y
        BY ONLY x \in Seq(Byte), y \in Seq(Byte), PartLast
    <2>2. Len(x \o y) = Len(x) + Len(y)
        BY ONLY x \in Seq(Byte), y \in Seq(Byte), ConcatProperties
    <2>3. Len(x) = Width + n
        BY ONLY <1>3, <1>11
    <2> QED
        BY ONLY <1>13, <2>1, <2>2, <2>3
<1>16. IsPrefix(y, p)
    <2>1. IsPrefix(y, y \o r)
        BY ONLY y \in Seq(Byte), r \in Seq(Byte), PrefixOf
    <2> QED
        BY ONLY <1>13, <2>1
<1>17. s = Frame(cmd) \o p => y = p
    <2> SUFFICES ASSUME s = Frame(cmd) \o p PROVE y = p
        OBVIOUS
    <2>1. x \o y = x \o p
        BY ONLY <1>2, <1>13, s = Frame(cmd) \o p
    <2> QED
        BY ONLY x \in Seq(Byte), y \in Seq(Byte), p \in Seq(Byte), <2>1, Cancel
<1> QED
    BY ONLY <1>1, <1>14, <1>15, <1>16, <1>17, y \in Seq(Byte)

\* The frames of what is in s behind the commands of g.
FramesOf(s, g) == [i \in 1..Len(s) - Len(g) |-> Frame(s[Len(g) + i])]

LEMMA FramesType ==
    ASSUME CommandsFit, NEW s \in Seq(Cmds), NEW g \in Seq(Cmds), Len(g) <= Len(s)
    PROVE  /\ FramesOf(s, g) \in Seq(Seq(Byte)) /\ Len(FramesOf(s, g)) = Len(s) - Len(g)
           /\ \A i \in 1..Len(s) - Len(g) :
                Len(g) + i \in 1..Len(s) /\ FramesOf(s, g)[i] = Frame(s[Len(g) + i])
<1>1. Len(s) \in Nat /\ Len(g) \in Nat
    BY LenProperties
<1>2. PICK m \in Nat : m = Len(s) - Len(g)
    BY <1>1
<1>3. ASSUME NEW i \in 1..m PROVE Len(g) + i \in 1..Len(s) /\ Frame(s[Len(g) + i]) \in Seq(Byte)
    <2>1. Len(g) + i \in 1..Len(s)
        BY <1>1, <1>2
    <2>2. s[Len(g) + i] \in Cmds
        BY <2>1, ElementOfSeq
    <2> QED
        BY <2>1, <2>2, FrameParts
<1>4. FramesOf(s, g) = [i \in 1..m |-> Frame(s[Len(g) + i])]
    BY <1>2 DEF FramesOf
<1>5. FramesOf(s, g) \in [1..m -> Seq(Byte)]
    BY <1>3, <1>4
<1>6. Len(FramesOf(s, g)) = m /\ FramesOf(s, g) \in Seq(Seq(Byte))
    BY ONLY m \in Nat, <1>5
<1>7. \A i \in 1..m : FramesOf(s, g)[i] = Frame(s[Len(g) + i])
    BY ONLY <1>4
<1> QED
    BY ONLY <1>2, <1>3, <1>6, <1>7
----------------------------------------------------------------------------
(* The invariant.                                                          *)

LEMMA SelfPrefix ==
    ASSUME NEW S, NEW s \in Seq(S)
    PROVE  IsPrefix(s, s)
<1>1. Len(s) \in Nat
    BY LenProperties
<1> QED
    BY <1>1 DEF IsPrefix

LEMMA WireInitial ==
    ASSUME CommandsFit, Init
    PROVE  WireInv
<1> DEFINE F == FramesOf(sent, got)
<1>1. sent = << >> /\ got = << >> /\ stream = << >>
    BY DEF Init
<1>2. << >> \in Seq(Cmds) /\ << >> \in Seq(Byte) /\ Len(<< >>) = 0
    BY EmptySeq
<1>3. sent \in Seq(Cmds) /\ got \in Seq(Cmds) /\ stream \in Seq(Byte)
    BY <1>1, <1>2
<1>4. Len(sent) = 0 /\ Len(got) = 0 /\ Len(got) <= Len(sent)
    BY <1>1, <1>2
<1>5. F \in Seq(Seq(Byte)) /\ Len(F) = 0
    <2>1. F \in Seq(Seq(Byte)) /\ Len(F) = Len(sent) - Len(got)
        BY ONLY CommandsFit, <1>3, <1>4, FramesType
    <2> QED
        BY ONLY <1>4, <2>1
<1>6. Frames = F
    BY DEF Frames, FramesOf
<1> HIDE DEF F
<1>7. FlattenSeq(F) = stream
    BY <1>1, <1>5, FlattenType
<1>8. IsPrefix(stream, stream)
    BY <1>3, SelfPrefix
<1>9. \A i \in 1..Len(got) : got[i] = sent[i]
    BY <1>4
<1> QED
    BY <1>3, <1>4, <1>6, <1>7, <1>8, <1>9 DEF WireInv

LEMMA WireStep ==
    ASSUME CommandsFit, WireInv, [Next]_vars
    PROVE  WireInv'
<1> DEFINE F == FramesOf(sent, got)
           G == FramesOf(sent', got')
<1>1. /\ sent \in Seq(Cmds) /\ got \in Seq(Cmds) /\ stream \in Seq(Byte)
      /\ Len(got) <= Len(sent) /\ \A i \in 1..Len(got) : got[i] = sent[i]
      /\ Len(got) \in Nat /\ Len(sent) \in Nat
    BY LenProperties DEF WireInv
<1>2. Frames = F /\ Frames' = G
    BY DEF Frames, FramesOf
<1>3. /\ F \in Seq(Seq(Byte)) /\ Len(F) = Len(sent) - Len(got)
      /\ \A i \in 1..Len(sent) - Len(got) :
            Len(got) + i \in 1..Len(sent) /\ F[i] = Frame(sent[Len(got) + i])
    BY <1>1, FramesType
<1> HIDE DEF F, G
<1>4. IsPrefix(stream, FlattenSeq(F)) /\ (state = "open" => stream = FlattenSeq(F))
    BY <1>2 DEF WireInv
<1>5. FlattenSeq(F) \in Seq(Byte)
    BY <1>3, FlattenType
<1>6. ASSUME NEW cmd \in Cmds, Send(cmd) PROVE WireInv'
    <2>1. /\ sent' = Append(sent, cmd) /\ stream' = stream \o Frame(cmd)
          /\ got' = got /\ state' = state /\ state = "open"
        BY <1>6 DEF Send
    <2>2. /\ sent' \in Seq(Cmds) /\ Len(sent') = Len(sent) + 1
          /\ sent'[Len(sent) + 1] = cmd
          /\ \A i \in 1..Len(sent) : sent'[i] = sent[i]
        BY <1>1, <2>1, AppendProperties
    <2>3. got' \in Seq(Cmds) /\ Len(got') <= Len(sent') /\ Len(got') = Len(got)
        BY <1>1, <2>1, <2>2
    <2>4. /\ G \in Seq(Seq(Byte)) /\ Len(G) = Len(sent') - Len(got')
          /\ \A i \in 1..Len(sent') - Len(got') :
                Len(got') + i \in 1..Len(sent') /\ G[i] = Frame(sent'[Len(got') + i])
        BY ONLY CommandsFit, <2>2, <2>3, FramesType DEF G
    <2>5. Len(G) = Len(F) + 1
        BY <1>1, <1>3, <2>2, <2>3, <2>4
    <2>6. ASSUME NEW i \in 1..Len(F) PROVE G[i] = F[i]
        <3>1. i \in 1..Len(sent) - Len(got) /\ i \in 1..Len(sent') - Len(got')
            BY <1>1, <1>3, <2>2, <2>3
        <3>2. F[i] = Frame(sent[Len(got) + i]) /\ Len(got) + i \in 1..Len(sent)
            BY <1>3, <3>1
        <3>3. G[i] = Frame(sent'[Len(got) + i])
            BY <2>3, <2>4, <3>1
        <3>4. sent'[Len(got) + i] = sent[Len(got) + i]
            BY <2>2, <3>2
        <3> QED
            BY <3>2, <3>3, <3>4
    <2>7. G[Len(G)] = Frame(cmd)
        <3>1. Len(G) \in 1..Len(sent') - Len(got') /\ Len(got') + Len(G) = Len(sent) + 1
            BY <1>1, <2>2, <2>3, <2>4
        <3>2. G[Len(G)] = Frame(sent'[Len(got') + Len(G)])
            BY <2>4, <3>1
        <3> QED
            BY <2>2, <3>1, <3>2
    <2>8. FlattenSeq(G) = FlattenSeq(F) \o G[Len(G)]
        <3>1. F \in Seq(Seq(Byte)) /\ G \in Seq(Seq(Byte))
            BY <1>3, <2>4
        <3> QED
            BY ONLY <2>5, <2>6, <3>1, FlattenOneMore
    <2>9. stream' = FlattenSeq(G)
        BY <1>4, <2>1, <2>7, <2>8
    <2>10. stream' \in Seq(Byte)
        BY <2>4, <2>9, FlattenType
    <2>11. IsPrefix(stream', FlattenSeq(G))
        <3>1. IsPrefix(stream', stream')
            BY <2>10, SelfPrefix
        <3> QED
            BY <2>9, <3>1
    <2>12. \A i \in 1..Len(got') : got'[i] = sent'[i]
        <3> SUFFICES ASSUME NEW i \in 1..Len(got') PROVE got'[i] = sent'[i]
            OBVIOUS
        <3>1. i \in 1..Len(got) /\ i \in 1..Len(sent)
            BY <1>1, <2>1
        <3> QED
            BY <1>1, <2>1, <2>2, <3>1
    <2> QED
        BY <1>2, <2>2, <2>3, <2>9, <2>10, <2>11, <2>12 DEF WireInv
<1>7. ASSUME Cut PROVE WireInv'
    <2>1. state' = "cut" /\ sent' = sent /\ got' = got
        BY <1>7 DEF Cut
    <2>2. PICK keep \in 0..Len(stream) : stream' = SubSeq(stream, 1, keep)
        BY <1>7 DEF Cut
    <2>3. stream' \in Seq(Byte) /\ IsPrefix(stream', FlattenSeq(F))
        BY <1>1, <1>4, <1>5, <2>2, Shorten
    <2>4. G = F
        BY <2>1 DEF F, G
    <2> QED
        BY <1>1, <1>2, <2>1, <2>3, <2>4 DEF WireInv
<1>8. ASSUME Receive PROVE WireInv'
    <2> DEFINE new == Deserialize(SubSeq(stream, Width + 1, Width + CmdLen))
    <2>1. /\ sent' = sent /\ state' = state /\ got' = Append(got, new)
          /\ stream' = SubSeq(stream, Width + CmdLen + 1, Len(stream))
          /\ Len(stream) >= Width /\ Len(stream) >= Width + CmdLen
        BY <1>8 DEF Receive, Arrived
    <2> HIDE DEF new
    <2>2. Len(F) # 0
        <3> SUFFICES ASSUME Len(F) = 0 PROVE FALSE
            OBVIOUS
        <3>1. FlattenSeq(F) = << >>
            BY <1>3, FlattenType
        <3>2. Len(stream) <= Len(FlattenSeq(F))
            BY <1>4 DEF IsPrefix
        <3>3. Len(stream) <= 0 /\ Len(stream) \in Nat
            BY <1>1, <3>1, <3>2, LenProperties
        <3>4. Width \in Nat \ {0}
            BY ByteSets
        <3> QED
            BY <2>1, <3>3, <3>4
    <2> DEFINE cmd == sent[Len(got) + 1]
    <2>3. Len(got) + 1 \in 1..Len(sent) /\ F[1] = Frame(cmd) /\ cmd \in Cmds
        <3>1. 1 \in 1..Len(sent) - Len(got)
            BY <1>1, <1>3, <2>2
        <3>2. Len(got) + 1 \in 1..Len(sent) /\ F[1] = Frame(cmd)
            BY <1>3, <3>1
        <3> QED
            BY <1>1, <3>2, ElementOfSeq
    <2> HIDE DEF cmd
    <2> DEFINE g == Append(got, cmd)
               H == FramesOf(sent, g)
    <2>4. g \in Seq(Cmds) /\ Len(g) = Len(got) + 1 /\ Len(g) <= Len(sent)
        BY <1>1, <2>3, AppendProperties
    <2> HIDE DEF g
    <2>5. /\ H \in Seq(Seq(Byte)) /\ Len(H) = Len(sent) - Len(g)
          /\ \A i \in 1..Len(sent) - Len(g) :
                Len(g) + i \in 1..Len(sent) /\ H[i] = Frame(sent[Len(g) + i])
        BY <1>1, <2>4, FramesType
    <2> HIDE DEF H
    <2>6. Len(F) = Len(H) + 1
        BY <1>1, <1>3, <2>4, <2>5
    <2>7. ASSUME NEW i \in 1..Len(H) PROVE F[i + 1] = H[i]
        <3>1. /\ i \in 1..Len(sent) - Len(g) /\ i + 1 \in 1..Len(sent) - Len(got)
              /\ Len(got) + (i + 1) = Len(g) + i
            BY <1>1, <2>4, <2>5
        <3> QED
            BY <1>3, <2>5, <3>1
    <2>8. FlattenSeq(F) = F[1] \o FlattenSeq(H)
        <3>1. F \in Seq(Seq(Byte)) /\ H \in Seq(Seq(Byte))
            BY <1>3, <2>5
        <3> QED
            BY ONLY <2>6, <2>7, <3>1, FlattenFirst
    <2>9. PICK p \in Seq(Byte) : p = FlattenSeq(H)
        BY <2>5, FlattenType
    <2>10. /\ IsPrefix(stream, Frame(cmd) \o p)
           /\ state = "open" => stream = Frame(cmd) \o p
        BY ONLY <1>4, <2>3, <2>8, <2>9
    <2>11. /\ Deserialize(SubSeq(stream, Width + 1, Width + CmdLen)) = cmd
           /\ stream' \in Seq(Byte) /\ IsPrefix(stream', p)
           /\ state = "open" => stream' = p
        <3>1. CmdLen = FromLeBytes(SubSeq(stream, 1, Width))
            BY DEF CmdLen
        <3>2. stream \in Seq(Byte) /\ cmd \in Cmds
            BY <1>1, <2>3
        <3>3. Len(stream) >= Width /\ Len(stream) >= Width + CmdLen
            BY <2>1
        <3>4. /\ Deserialize(SubSeq(stream, Width + 1, Width + CmdLen)) = cmd
              /\ SubSeq(stream, Width + CmdLen + 1, Len(stream)) \in Seq(Byte)
              /\ IsPrefix(SubSeq(stream, Width + CmdLen + 1, Len(stream)), p)
              /\ stream = Frame(cmd) \o p => SubSeq(stream, Width + CmdLen + 1, Len(stream)) = p
            BY ONLY CommandsFit, p \in Seq(Byte), <2>10, <3>1, <3>2, <3>3, FirstCommand
        <3> QED
            BY ONLY <2>1, <2>10, <3>4
    <2>12. got' = g
        BY <2>1, <2>11 DEF new, g
    <2>13. G = H
        BY <2>1, <2>12 DEF G, H
    <2>14. \A i \in 1..Len(got') : got'[i] = sent'[i]
        <3> SUFFICES ASSUME NEW i \in 1..Len(g) PROVE g[i] = sent[i]
            BY <2>1, <2>12
        <3>1. /\ \A j \in 1..Len(got) : g[j] = got[j]
              /\ g[Len(got) + 1] = cmd
            BY <1>1, <2>3, AppendProperties DEF g
        <3>2. i \in 1..Len(got) \/ i = Len(got) + 1
            BY <1>1, <2>4
        <3> QED
            BY <1>1, <3>1, <3>2 DEF cmd
    <2>15. /\ sent' \in Seq(Cmds) /\ got' \in Seq(Cmds) /\ Len(got') <= Len(sent')
        BY <1>1, <2>1, <2>4, <2>12
    <2>16. Frames' = H
        BY <1>2, <2>13
    <2> QED
        BY <2>1, <2>9, <2>11, <2>14, <2>15, <2>16 DEF WireInv
<1>9. ASSUME ReceiveNone PROVE WireInv'
    <2>1. sent' = sent /\ got' = got /\ stream' = stream /\ state' = "none"
        BY <1>9 DEF ReceiveNone
    <2>2. G = F
        BY <2>1 DEF F, G
    <2> QED
        BY <1>1, <1>2, <1>4, <2>1, <2>2 DEF WireInv
<1>10. ASSUME UNCHANGED vars PROVE WireInv'
    <2>1. sent' = sent /\ got' = got /\ stream' = stream /\ state' = state
        BY <1>10 DEF vars
    <2>2. G = F
        BY <2>1 DEF F, G
    <2> QED
        BY <1>1, <1>2, <1>4, <2>1, <2>2 DEF WireInv
<1> QED
    BY <1>6, <1>7, <1>8, <1>9, <1>10 DEF Next

LEMMA InvDelivers ==
    ASSUME WireInv
    PROVE  Delivered
<1>1. /\ sent \in Seq(Cmds) /\ got \in Seq(Cmds) /\ Len(got) <= Len(sent)
      /\ \A i \in 1..Len(got) : got[i] = sent[i]
      /\ Len(got) \in Nat /\ Len(sent) \in Nat
    BY LenProperties DEF WireInv
<1>2. SubSeq(sent, 1, Len(got)) = got
    <2> DEFINE n == Len(got)
               q == SubSeq(sent, 1, n)
    <2>1. \A i \in 1..n : i \in 1..Len(sent) /\ sent[i] \in Cmds
        BY <1>1, ElementOfSeq
    <2>2. 1 \in Int /\ n \in Int
        BY <1>1
    <2>3. /\ q \in Seq(Cmds) /\ Len(q) = IF 1 <= n THEN n - 1 + 1 ELSE 0
          /\ \A i \in 1..n - 1 + 1 : q[i] = sent[1 + i - 1]
        BY <2>1, <2>2, SubSeqProperties
    <2> HIDE DEF q
    <2>4. Len(q) = n
        BY <1>1, <2>3
    <2>5. \A i \in 1..n : q[i] = got[i]
        BY <1>1, <2>3
    <2> QED
        BY <1>1, <2>3, <2>4, <2>5, SeqEqual DEF q
<1>3. SubSeq(got, 1, Len(got)) = got
    BY <1>1, SubSeqFull
<1>4. IsPrefix(got, sent)
    BY <1>1, <1>2, <1>3 DEF IsPrefix
<1> QED
    BY <1>4 DEF WireInv, Delivered

\* Whatever is sent and wherever the stream is cut, the receiver gets the
\* commands that were sent, in order and field by field (serialize,
\* deserialize and the length prefix of send and receive), if the lengths of
\* the commands fit the prefix.
THEOREM CommandsDelivered == CommandsFit => (Spec => []Delivered)
<1> SUFFICES ASSUME CommandsFit PROVE Spec => []Delivered
    OBVIOUS
<1>1. Init => WireInv
    BY WireInitial
<1>2. WireInv /\ [Next]_vars => WireInv'
    BY WireStep
<1>3. WireInv => Delivered
    BY InvDelivers
<1> QED
    BY <1>1, <1>2, <1>3, PTL DEF Spec
\* With the sizes of the code (bytes of eight bits, lengths and sizes of four
\* bytes, commitments of 32) the lengths of all commands fit.
LEMMA RealCommandsFit ==
    ASSUME Base = 256, Width = 4, ByteBits = 8, CommitLen = 32
    PROVE  CommandsFit
<1> DEFINE W == Weight[Width]
<1>1. W \in Nat /\ W >= 256
    <2>1. /\ Weight[0] = 1 /\ \A i \in 1..4 : Weight[i] = Weight[i - 1] * 256
          /\ \A i \in 0..4 : Weight[i] \in Nat
        BY Weights
    <2>2. \A i \in {1, 2, 3, 4} : i \in 1..4 /\ i - 1 \in 0..4 /\ i \in 0..4
        OBVIOUS
    <2>3. Weight[1] = Weight[0] * 256 /\ 1 - 1 = 0
        BY <2>1, <2>2
    <2>4. Weight[2] = Weight[1] * 256 /\ 2 - 1 = 1
        BY <2>1, <2>2
    <2>5. Weight[3] = Weight[2] * 256 /\ 3 - 1 = 2
        BY <2>1, <2>2
    <2>6. Weight[4] = Weight[3] * 256 /\ 4 - 1 = 3
        BY <2>1, <2>2
    <2> QED
        BY <2>1, <2>3, <2>4, <2>5, <2>6
<1> HIDE DEF W
<1>2. ASSUME NEW n \in BitSizes PROVE DivCeil(n) \in Nat /\ 8 * DivCeil(n) <= W + 6
    <2>1. n \in 1..W - 1
        BY WireAssumption DEF W
    <2>2. n \in Nat /\ n <= W - 1
        BY <1>1, <2>1
    <2>3. PICK m \in Nat : m = n + 8 - 1
        BY <2>2
    <2>4. m \div 8 \in Nat /\ 8 * (m \div 8) <= m
        BY ONLY m \in Nat
    <2>5. DivCeil(n) = m \div 8
        BY <2>3 DEF DivCeil
    <2> QED
        BY <1>1, <2>2, <2>3, <2>4, <2>5
<1>3. ASSUME NEW cmd \in Cmds PROVE Len(Serialize(cmd)) < W
    <2>1. ASSUME NEW n \in BitSizes, cmd \in Beaver(n) PROVE Len(Serialize(cmd)) < W
        <3>1. Len(Serialize(cmd)) = 2 + Width + DivCeil(n) + DivCeil(n)
            BY <2>1, BeaverBack
        <3> QED
            BY ONLY Width = 4, <1>1, <1>2, <3>1
    <2>2. ASSUME NEW n \in BitSizes, cmd \in Dabit(n) PROVE Len(Serialize(cmd)) < W
        <3>1. Len(Serialize(cmd)) = 2 + Width + DivCeil(n)
            BY <2>2, DabitBack
        <3> QED
            BY ONLY Width = 4, <1>1, <1>2, <3>1
    <2>3. ASSUME cmd \in [type : {"Handshake"}, sender : Byte] PROVE Len(Serialize(cmd)) < W
        <3>1. Len(Serialize(cmd)) = 2
            BY ONLY <2>3, HandshakeBack
        <3> QED
            BY ONLY <1>1, <3>1
    <2>4. ASSUME cmd \in [type : {"AggCommit"}, sender : Senders, commit : [1..CommitLen -> Values]]
          PROVE  Len(Serialize(cmd)) < W
        <3>1. Len(Serialize(cmd)) = 2 + CommitLen
            BY ONLY <2>4, CommitBack
        <3> QED
            BY ONLY CommitLen = 32, <1>1, <3>1
    <2> QED
        BY <2>1, <2>2, <2>3, <2>4, CommandKinds
<1> QED
    BY <1>3 DEF CommandsFit, W

\* With the sizes of the code (write_u32_le, to_le_bytes of a u32 and the
\* compressed commitment) nothing is left to assume: the receiver gets the
\* commands that were sent, in order and field by field.
THEOREM RealCommandsDelivered ==
    ASSUME Base = 256, Width = 4, ByteBits = 8, CommitLen = 32
    PROVE  Spec => []Delivered
BY RealCommandsFit, CommandsDelivered
=============================================================================

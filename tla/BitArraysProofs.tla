-------------------------- MODULE BitArraysProofs --------------------------
(***************************************************************************)
(* Proofs about BitArrays for any number of arrays, all sizes, bytes of    *)
(* any number of bits and lanes of any number of bytes.                    *)
(***************************************************************************)
EXTENDS BitArrays, FiniteSetTheorems, TLAPS

----------------------------------------------------------------------------
(* Arithmetic.                                                             *)

LEMMA TimesMono ==
    ASSUME NEW i \in Int, NEW j \in Int, NEW k \in Nat, i <= j
    PROVE  i * k <= j * k
<1>1. (j - i) * k >= 0
    OBVIOUS
<1>2. (j - i) * k = j * k - i * k
    OBVIOUS
<1> QED
    BY <1>1, <1>2

LEMMA Division ==
    ASSUME NEW n \in Nat, NEW b \in Nat \ {0}
    PROVE  n \div b \in Nat /\ n % b \in 0..b - 1 /\ n = (n \div b) * b + (n % b)
OBVIOUS

\* Multiples of b that lie closer than b are in order.
LEMMA TimesLess ==
    ASSUME NEW i \in Int, NEW j \in Int, NEW b \in Nat \ {0}, i * b < j * b + b
    PROVE  i <= j
<1> SUFFICES ASSUME j + 1 <= i PROVE FALSE
    OBVIOUS
<1>1. (j + 1) * b <= i * b
    BY TimesMono
<1>2. (j + 1) * b = j * b + b
    OBVIOUS
<1>3. i * b \in Int /\ j * b \in Int
    OBVIOUS
<1> QED
    BY <1>1, <1>2, <1>3

LEMMA ByteFacts ==
    ASSUME NEW n \in Nat
    PROVE  /\ DivCeil(n) \in Nat
           /\ DivCeil(n) * ByteBits \in Nat
           /\ n <= DivCeil(n) * ByteBits
           /\ DivCeil(n) * ByteBits < n + ByteBits
<1>1. ByteBits \in Nat \ {0} /\ n + ByteBits - 1 \in Nat
    BY ArraysAssumption
<1> DEFINE m == n + ByteBits - 1
<1>2. /\ m \div ByteBits \in Nat /\ m % ByteBits \in 0..ByteBits - 1
      /\ m = (m \div ByteBits) * ByteBits + (m % ByteBits)
    BY <1>1, Division
<1>3. DivCeil(n) \in Nat /\ m = DivCeil(n) * ByteBits + (m % ByteBits)
    BY <1>2 DEF DivCeil
<1>4. DivCeil(n) * ByteBits \in Nat
    BY <1>1, <1>3
<1> QED
    BY <1>1, <1>2, <1>3, <1>4

\* The bytes of n bits, by what they must hold.
LEMMA BytesUnique ==
    ASSUME NEW n \in Nat, NEW k \in Int, n <= k * ByteBits, k * ByteBits < n + ByteBits
    PROVE  DivCeil(n) = k
<1>1. ByteBits \in Nat \ {0} /\ k * ByteBits \in Int
    BY ArraysAssumption
<1>2. /\ DivCeil(n) \in Nat /\ DivCeil(n) * ByteBits \in Nat
      /\ n <= DivCeil(n) * ByteBits /\ DivCeil(n) * ByteBits < n + ByteBits
    BY ByteFacts
<1>3. /\ DivCeil(n) * ByteBits < k * ByteBits + ByteBits
      /\ k * ByteBits < DivCeil(n) * ByteBits + ByteBits
    BY <1>1, <1>2
<1>4. DivCeil(n) <= k /\ k <= DivCeil(n)
    BY <1>1, <1>2, <1>3, TimesLess
<1> QED
    BY <1>2, <1>4

LEMMA BytesMono ==
    ASSUME NEW m \in Nat, NEW n \in Nat, m <= n
    PROVE  DivCeil(m) <= DivCeil(n)
<1>1. /\ DivCeil(m) \in Nat /\ DivCeil(m) * ByteBits < m + ByteBits
      /\ DivCeil(n) \in Nat /\ n <= DivCeil(n) * ByteBits
      /\ DivCeil(m) * ByteBits \in Nat /\ DivCeil(n) * ByteBits \in Nat
      /\ ByteBits \in Nat \ {0}
    BY ByteFacts, ArraysAssumption
<1>2. DivCeil(m) * ByteBits < DivCeil(n) * ByteBits + ByteBits
    BY <1>1
<1> QED
    BY <1>1, <1>2, TimesLess

\* Whole bytes have no padding.
LEMMA WholeBytes ==
    ASSUME NEW n \in Nat, n % ByteBits = 0
    PROVE  DivCeil(n) * ByteBits = n /\ DivCeil(n) = n \div ByteBits
<1>1. ByteBits \in Nat \ {0}
    BY ArraysAssumption
<1>2. n \div ByteBits \in Nat /\ n = (n \div ByteBits) * ByteBits + (n % ByteBits)
    BY <1>1, Division
<1> DEFINE k == n \div ByteBits
<1>3. k \in Nat /\ n = k * ByteBits
    BY <1>1, <1>2
<1> HIDE DEF k
<1>4. n <= k * ByteBits /\ k * ByteBits < n + ByteBits
    BY <1>1, <1>3
<1>5. DivCeil(n) = k
    BY <1>3, <1>4, BytesUnique
<1> QED
    BY <1>3, <1>5 DEF k

\* The largest size.
LEMMA MaxSizeType == MaxSize \in Sizes /\ MaxSize \in Nat /\ \A n \in Sizes : n <= MaxSize
<1>1. \E x \in Sizes : \A y \in Sizes : x >= y
    BY ArraysAssumption
<1>2. MaxSize \in Sizes /\ \A y \in Sizes : MaxSize >= y
    BY <1>1 DEF MaxSize, Max
<1>3. \A y \in Sizes : y \in Nat
    BY ArraysAssumption
<1> QED
    BY <1>2, <1>3

LEMMA LayoutFacts ==
    ASSUME NEW len \in Nat
    PROVE  /\ CreateLayout(len) \in Nat /\ len <= CreateLayout(len)
           /\ AlignMaxLen(len) = CreateLayout(len)
<1>1. Align \in Nat \ {0} /\ len % Align \in 0..Align - 1
    BY ArraysAssumption
<1>2. CreateLayout(len) \in Nat /\ len <= CreateLayout(len)
    BY <1>1 DEF CreateLayout
<1>3. AlignMaxLen(len) = CreateLayout(len)
    BY DEF CreateLayout, AlignMaxLen
<1> QED
    BY <1>2, <1>3

LEMMA CellFacts ==
    ASSUME NEW k \in Nat, NEW m \in Nat, k <= m
    PROVE  /\ Cells(k) \subseteq Cells(m)
           /\ \A j \in Cells(k) : j \in Nat
           /\ \A j : j \in Cells(k) <=> j \in Nat /\ j < k * ByteBits
<1>1. /\ k * ByteBits \in Nat /\ m * ByteBits \in Nat /\ k * ByteBits <= m * ByteBits
    BY TimesMono, ArraysAssumption
<1>2. \A j : j \in Cells(k) <=> j \in Nat /\ j < k * ByteBits
    BY <1>1 DEF Cells
<1>3. \A j : j \in Cells(m) <=> j \in Nat /\ j < m * ByteBits
    BY <1>1 DEF Cells
<1> QED
    BY <1>1, <1>2, <1>3

\* The cells of an array: its bits, its bytes, its lanes.
LEMMA ArrayCells ==
    ASSUME NEW n \in Nat
    PROVE  /\ 0..n - 1 \subseteq Cells(DivCeil(n))
           /\ Cells(DivCeil(n)) \subseteq Cells(CreateLayout(DivCeil(n)))
           /\ Cells(AlignMaxLen(DivCeil(n))) = Cells(CreateLayout(DivCeil(n)))
           /\ n <= MaxSize => Cells(DivCeil(n)) \subseteq Cells(DivCeil(MaxSize))
           /\ n % ByteBits = 0 => Cells(DivCeil(n)) = 0..n - 1
<1>1. /\ DivCeil(n) \in Nat /\ n <= DivCeil(n) * ByteBits
      /\ CreateLayout(DivCeil(n)) \in Nat /\ DivCeil(n) <= CreateLayout(DivCeil(n))
      /\ AlignMaxLen(DivCeil(n)) = CreateLayout(DivCeil(n))
    BY ByteFacts, LayoutFacts
<1>2. 0..n - 1 \subseteq Cells(DivCeil(n))
    BY <1>1, ByteFacts DEF Cells
<1>3. n <= MaxSize => Cells(DivCeil(n)) \subseteq Cells(DivCeil(MaxSize))
    BY <1>1, MaxSizeType, BytesMono, ByteFacts, CellFacts
<1>4. n % ByteBits = 0 => Cells(DivCeil(n)) = 0..n - 1
    BY WholeBytes DEF Cells
<1>5. Cells(DivCeil(n)) \subseteq Cells(CreateLayout(DivCeil(n)))
    BY <1>1, CellFacts
<1> QED
    BY <1>1, <1>2, <1>3, <1>4, <1>5

----------------------------------------------------------------------------
(* Arrays as a size and a memory.                                          *)

\* The cells of the lanes of n bits, and what they may hold.
Lanes(n) == Cells(CreateLayout(DivCeil(n)))

Mems(n) ==
    {mem \in [Lanes(n) -> Bit] : \A j \in Lanes(n) \ Cells(DivCeil(n)) : mem[j] = 0}

\* The array of n bits with this memory.
Arr(n, mem) == Fresh(n, DivCeil(n), mem)

LEMMA KeptArr ==
    ASSUME NEW x, Kept(x)
    PROVE  /\ x.bit_size \in 0..MaxSize /\ x.bit_size \in Nat /\ x.bit_size # NoArray.bit_size
           /\ x.byte_size = DivCeil(x.bit_size) /\ x.byte_size \in Nat
           /\ x.alloc = CreateLayout(x.byte_size)
           /\ x.mem \in Mems(x.bit_size)
           /\ x = Arr(x.bit_size, x.mem)
           /\ LanesOf(x) = Lanes(x.bit_size)
<1>1. /\ x.bit_size \in 0..MaxSize /\ x.byte_size = DivCeil(x.bit_size)
      /\ x.byte_size \in Nat
      /\ x.alloc = CreateLayout(x.byte_size)
      /\ x.mem \in [Lanes(x.bit_size) -> Bit]
    BY DEF Kept, Lanes
<1>2. x.bit_size \in Nat /\ x.bit_size # NoArray.bit_size
    BY <1>1, MaxSizeType DEF NoArray
<1>3. x.mem \in Mems(x.bit_size)
    BY <1>1 DEF Kept, Mems, Lanes
<1>4. x = [bit_size |-> x.bit_size, byte_size |-> x.byte_size, alloc |-> x.alloc,
           mem |-> x.mem]
    BY DEF Kept
<1>5. x = Arr(x.bit_size, x.mem)
    BY <1>1, <1>4 DEF Arr, Fresh
<1>6. LanesOf(x) = Lanes(x.bit_size)
    BY <1>1, <1>2, ArrayCells DEF LanesOf, Lanes
<1> QED
    BY <1>1, <1>2, <1>3, <1>5, <1>6

LEMMA ArrKept ==
    ASSUME NEW n \in 0..MaxSize, NEW mem \in Mems(n)
    PROVE  Kept(Arr(n, mem))
<1>1. n \in Nat /\ DivCeil(n) \in Nat /\ CreateLayout(DivCeil(n)) \in Nat
    BY MaxSizeType, ByteFacts, LayoutFacts
<1> DEFINE x == Arr(n, mem)
<1>2. /\ x = [bit_size |-> n, byte_size |-> DivCeil(n), alloc |-> CreateLayout(DivCeil(n)),
              mem |-> mem]
    BY DEF Arr, Fresh
<1>3. /\ x.bit_size = n /\ x.byte_size = DivCeil(n) /\ x.mem = mem
      /\ x.alloc = CreateLayout(DivCeil(n))
    BY <1>2
<1>4. /\ mem \in [Cells(CreateLayout(DivCeil(n))) -> Bit]
      /\ \A j \in Cells(CreateLayout(DivCeil(n))) \ Cells(DivCeil(n)) : mem[j] = 0
    BY DEF Mems, Lanes
<1> HIDE DEF x
<1> QED
    BY <1>1, <1>2, <1>3, <1>4 DEF Kept, x

LEMMA MemFacts ==
    ASSUME NEW n \in Nat, NEW mem \in Mems(n)
    PROVE  /\ mem \in [Lanes(n) -> Bit] /\ DOMAIN mem = Lanes(n)
           /\ \A j \in Lanes(n) : mem[j] \in Bit
           /\ \A j \in Lanes(n) \ Cells(DivCeil(n)) : mem[j] = 0
BY DEF Mems

\* What operations on the lanes make of kept arrays.
LEMMA XorArr ==
    ASSUME NEW x, NEW y, Kept(x), Kept(y), x.bit_size = y.bit_size
    PROVE  LET m == [j \in Lanes(x.bit_size) |-> (x.mem[j] + y.mem[j]) % 2]
           IN  XorOf(x, y) = Arr(x.bit_size, m) /\ m \in Mems(x.bit_size)
<1> DEFINE n == x.bit_size
           m == [j \in Lanes(n) |-> (x.mem[j] + y.mem[j]) % 2]
<1>1. /\ n \in Nat /\ LanesOf(x) = Lanes(n) /\ x = Arr(n, x.mem)
      /\ x.mem \in Mems(n) /\ y.mem \in Mems(n)
    BY KeptArr
<1>2. DOMAIN x.mem = Lanes(n)
    BY <1>1, MemFacts
<1>3. XorOf(x, y) = [x EXCEPT !.mem = m]
    BY <1>1, <1>2 DEF XorOf, Stored
<1>4. [x EXCEPT !.mem = m] = Arr(n, m)
    BY <1>1 DEF Arr, Fresh
<1>5. m \in Mems(n)
    <2>1. \A j \in Lanes(n) : x.mem[j] \in Bit /\ y.mem[j] \in Bit
        BY <1>1, MemFacts
    <2>2. \A j \in Lanes(n) : (x.mem[j] + y.mem[j]) % 2 \in Bit
        BY <2>1 DEF Bit
    <2>3. \A j \in Lanes(n) \ Cells(DivCeil(n)) : (x.mem[j] + y.mem[j]) % 2 = 0
        BY <1>1, MemFacts
    <2> QED
        BY <2>2, <2>3 DEF Mems
<1> QED
    BY <1>3, <1>4, <1>5

LEMMA AndArr ==
    ASSUME NEW x, NEW y, Kept(x), Kept(y), x.bit_size = y.bit_size
    PROVE  LET m == [j \in Lanes(x.bit_size) |-> x.mem[j] * y.mem[j]]
           IN  AndOf(x, y) = Arr(x.bit_size, m) /\ m \in Mems(x.bit_size)
<1> DEFINE n == x.bit_size
           m == [j \in Lanes(n) |-> x.mem[j] * y.mem[j]]
<1>1. /\ n \in Nat /\ LanesOf(x) = Lanes(n) /\ x = Arr(n, x.mem)
      /\ x.mem \in Mems(n) /\ y.mem \in Mems(n)
    BY KeptArr
<1>2. DOMAIN x.mem = Lanes(n)
    BY <1>1, MemFacts
<1>3. AndOf(x, y) = [x EXCEPT !.mem = m]
    BY <1>1, <1>2 DEF AndOf, Stored
<1>4. [x EXCEPT !.mem = m] = Arr(n, m)
    BY <1>1 DEF Arr, Fresh
<1>5. m \in Mems(n)
    <2>1. \A j \in Lanes(n) : x.mem[j] \in Bit /\ y.mem[j] \in Bit
        BY <1>1, MemFacts
    <2>2. \A j \in Lanes(n) : x.mem[j] * y.mem[j] \in Bit
        BY <2>1 DEF Bit
    <2>3. \A j \in Lanes(n) \ Cells(DivCeil(n)) : x.mem[j] * y.mem[j] = 0
        BY <1>1, MemFacts
    <2> QED
        BY <2>2, <2>3 DEF Mems
<1> QED
    BY <1>3, <1>4, <1>5

LEMMA MutAndArr ==
    ASSUME NEW x, NEW y, NEW z, Kept(x), Kept(y), Kept(z),
           x.bit_size = y.bit_size, x.bit_size = z.bit_size
    PROVE  Stored(z, LAMBDA j : x.mem[j] * y.mem[j])
               = Arr(x.bit_size, [j \in Lanes(x.bit_size) |-> x.mem[j] * y.mem[j]])
<1> DEFINE n == x.bit_size
           m == [j \in Lanes(n) |-> x.mem[j] * y.mem[j]]
<1>1. n \in Nat /\ LanesOf(z) = Lanes(n) /\ z = Arr(n, z.mem) /\ z.mem \in Mems(n)
    BY KeptArr
<1>2. DOMAIN z.mem = Lanes(n)
    BY <1>1, MemFacts
<1>3. Stored(z, LAMBDA j : x.mem[j] * y.mem[j]) = [z EXCEPT !.mem = m]
    BY <1>1, <1>2 DEF Stored
<1>4. [z EXCEPT !.mem = m] = Arr(n, m)
    BY <1>1 DEF Arr, Fresh
<1> QED
    BY <1>3, <1>4

LEMMA ZeroArr ==
    ASSUME NEW n \in 0..MaxSize
    PROVE  ZeroMem(DivCeil(n)) = [j \in Lanes(n) |-> 0] /\ ZeroMem(DivCeil(n)) \in Mems(n)
BY DEF ZeroMem, Lanes, Mems, Bit

LEMMA CloneArr ==
    ASSUME NEW x, Kept(x)
    PROVE  Stored(Fresh(x.bit_size, x.byte_size, ZeroMem(x.byte_size)), LAMBDA j : x.mem[j])
               = x
<1> DEFINE n == x.bit_size
           z == Arr(n, ZeroMem(DivCeil(n)))
<1>1. /\ n \in 0..MaxSize /\ n \in Nat /\ x.byte_size = DivCeil(n)
      /\ x.mem \in Mems(n) /\ x = Arr(n, x.mem)
    BY KeptArr
<1>2. Kept(z)
    BY <1>1, ZeroArr, ArrKept
<1>3. z = Fresh(n, x.byte_size, ZeroMem(x.byte_size)) /\ z.bit_size = n
    BY <1>1 DEF Arr, Fresh
<1>4. LanesOf(z) = Lanes(n) /\ DOMAIN z.mem = Lanes(n)
    BY <1>1, <1>2, <1>3, KeptArr, MemFacts
<1>5. x.mem = [j \in Lanes(n) |-> x.mem[j]]
    BY <1>1, MemFacts
<1>6. Stored(z, LAMBDA j : x.mem[j]) = [z EXCEPT !.mem = [j \in Lanes(n) |-> x.mem[j]]]
    <2> HIDE DEF z
    <2> QED
        BY <1>4 DEF Stored
<1>7. [z EXCEPT !.mem = x.mem] = Arr(n, x.mem)
    BY DEF Arr, Fresh
<1> QED
    BY <1>1, <1>3, <1>5, <1>6, <1>7

LEMMA DrawnArr ==
    ASSUME NEW n \in 0..MaxSize, NEW k \in Draws
    PROVE  Drawn(n, k).mem \in Mems(n) /\ Drawn(n, k) = Arr(n, Drawn(n, k).mem)
<1> DEFINE m == [j \in Lanes(n) |-> IF j \in Cells(DivCeil(n)) THEN Pattern(k)[j] ELSE 0]
<1>1. n \in Nat /\ n <= MaxSize
    BY MaxSizeType
<1>2. Drawn(n, k) = Arr(n, m)
    BY DEF Drawn, Arr, Lanes
<1>3. Drawn(n, k).mem = m
    BY <1>2 DEF Arr, Fresh
<1>4. ASSUME NEW j \in Cells(DivCeil(n)) PROVE Pattern(k)[j] \in Bit
    <2>1. j \in Cells(DivCeil(MaxSize))
        BY <1>1, ArrayCells
    <2>2. j \in Nat
        BY <1>1, ByteFacts, CellFacts
    <2> QED
        BY <2>1, <2>2 DEF Pattern, Bit
<1>5. m \in Mems(n)
    <2>1. \A j \in Lanes(n) : m[j] \in Bit
        BY <1>4 DEF Bit
    <2> QED
        BY <2>1 DEF Mems
<1> QED
    BY <1>2, <1>3, <1>5

LEMMA FromSliceArr ==
    ASSUME NEW n \in 0..MaxSize, NEW src,
           \A j \in Cells(DivCeil(n)) : src[j] \in Bit
    PROVE  /\ FromSlice(DivCeil(n), src) \in Mems(n)
           /\ \A j \in Cells(DivCeil(n)) : FromSlice(DivCeil(n), src)[j] = src[j]
<1> DEFINE len == DivCeil(n)
           pass == len - (len % Align)
           cleared == IF len % Align # 0 THEN Cells(pass + Align) \ Cells(pass) ELSE {}
           m == [j \in Lanes(n) |->
                    IF j \in Cells(len) THEN src[j] ELSE IF j \in cleared THEN 0 ELSE 1]
<1>1. n \in Nat /\ len \in Nat /\ CreateLayout(len) \in Nat
    BY MaxSizeType, ByteFacts, LayoutFacts
<1>2. FromSlice(len, src) = m
    BY DEF FromSlice, Lanes
<1>3. Cells(len) \subseteq Lanes(n)
    BY <1>1, ArrayCells DEF Lanes
<1>4. ASSUME NEW j \in Lanes(n), j \notin Cells(len) PROVE j \in cleared
    <2>1. Align \in Nat \ {0} /\ len % Align \in 0..Align - 1
        BY <1>1, ArraysAssumption
    <2>2. CASE len % Align = 0
        <3>1. CreateLayout(len) = len
            BY <2>2 DEF CreateLayout
        <3> QED
            BY <1>4, <3>1 DEF Lanes
    <2>3. CASE len % Align # 0
        <3>1. CreateLayout(len) = pass + Align
            BY <1>1, <2>1, <2>3 DEF CreateLayout
        <3>2. pass \in Nat /\ pass <= len
            <4>1. len % Align <= len
                <5>1. len \div Align \in Nat /\ len = (len \div Align) * Align + (len % Align)
                    BY <1>1, <2>1, Division
                <5>2. (len \div Align) * Align \in Nat
                    BY <2>1, <5>1
                <5> HIDE DEF len
                <5> QED
                    BY <1>1, <2>1, <5>1, <5>2
            <4> QED
                BY <1>1, <2>1, <4>1
        <3>3. j \in Cells(pass + Align)
            BY <3>1 DEF Lanes
        <3>4. j \notin Cells(pass)
            <4> HIDE DEF pass
            <4> QED
                BY <1>1, <1>4, <3>2, CellFacts
        <3> QED
            BY <2>3, <3>3, <3>4
    <2> QED
        BY <2>2, <2>3
<1>5. m \in Mems(n)
    <2> HIDE DEF cleared
    <2>1. \A j \in Lanes(n) : m[j] \in Bit
        BY DEF Bit
    <2>2. \A j \in Lanes(n) \ Cells(len) : m[j] = 0
        BY <1>4
    <2> QED
        BY <2>1, <2>2 DEF Mems
<1>6. \A j \in Cells(len) : m[j] = src[j]
    BY <1>3
<1> QED
    BY <1>2, <1>5, <1>6

LEMMA SetBitArr ==
    ASSUME NEW x, Kept(x), NEW i \in Nat, i < x.bit_size, NEW v \in Bit
    PROVE  /\ i \in Cells(x.byte_size)
           /\ [x EXCEPT !.mem[i] = v] = Arr(x.bit_size, [x.mem EXCEPT ![i] = v])
           /\ [x.mem EXCEPT ![i] = v] \in Mems(x.bit_size)
<1> DEFINE n == x.bit_size
           m == [x.mem EXCEPT ![i] = v]
<1>1. /\ n \in Nat /\ x = Arr(n, x.mem) /\ x.mem \in Mems(n)
      /\ x.byte_size = DivCeil(n)
    BY KeptArr
<1>2. i \in Cells(DivCeil(n))
    <2>1. i \in 0..n - 1
        BY <1>1
    <2> QED
        BY <1>1, <2>1, ArrayCells
<1>3. [x EXCEPT !.mem[i] = v] = [x EXCEPT !.mem = m]
    BY <1>1
<1>4. [x EXCEPT !.mem = m] = Arr(n, m)
    BY <1>1 DEF Arr, Fresh
<1>5. m \in Mems(n)
    BY <1>1, <1>2 DEF Mems
<1> QED
    BY <1>1, <1>2, <1>3, <1>4, <1>5

LEMMA ShrinkArr ==
    ASSUME NEW x, Kept(x), NEW n \in Nat, x.bit_size % ByteBits = 0,
           n <= x.bit_size, n + ByteBits > x.bit_size
    PROVE  /\ DivCeil(n) = DivCeil(x.bit_size)
           /\ [x EXCEPT !.bit_size = n] = Arr(n, x.mem)
           /\ x.mem \in Mems(n) /\ n \in 0..MaxSize
<1>1. /\ x.bit_size \in Nat /\ x.bit_size \in 0..MaxSize
      /\ x = Arr(x.bit_size, x.mem) /\ x.mem \in Mems(x.bit_size)
    BY KeptArr
<1>2. DivCeil(x.bit_size) * ByteBits = x.bit_size /\ DivCeil(x.bit_size) \in Nat
    BY <1>1, WholeBytes, ByteFacts
<1>3. DivCeil(n) = DivCeil(x.bit_size)
    BY <1>1, <1>2, BytesUnique
<1>4. [x EXCEPT !.bit_size = n] = Arr(n, x.mem)
    BY <1>1, <1>3 DEF Arr, Fresh
<1>5. x.mem \in Mems(n)
    BY <1>1, <1>3 DEF Mems, Lanes
<1>6. n \in 0..MaxSize
    BY <1>1, MaxSizeType
<1> QED
    BY <1>3, <1>4, <1>5, <1>6

\* The byte-wise copy of copy_from touches the same bits as the one bit by bit.
LEMMA CopiedArr ==
    ASSUME NEW x, Kept(x), NEW at \in Nat, NEW y, y.bit_size \in Nat,
           y.byte_size = DivCeil(y.bit_size),
           \A j \in Cells(y.byte_size) : y.mem[j] \in Bit,
           at + y.bit_size <= x.bit_size
    PROVE  LET m == [j \in Lanes(x.bit_size) |->
                        IF j - at \in 0..y.bit_size - 1 THEN y.mem[j - at] ELSE x.mem[j]]
           IN  Copied(x, at, y) = Arr(x.bit_size, m) /\ m \in Mems(x.bit_size)
<1> DEFINE n == x.bit_size
           s == y.bit_size
           m == [j \in Lanes(n) |-> IF j - at \in 0..s - 1 THEN y.mem[j - at] ELSE x.mem[j]]
           cells == IF at % ByteBits # 0 \/ s % ByteBits # 0 THEN 0..s - 1
                    ELSE Cells(y.byte_size)
<1>1. n \in Nat /\ x = Arr(n, x.mem) /\ x.mem \in Mems(n)
    BY KeptArr
<1>2. DOMAIN x.mem = Lanes(n)
    BY <1>1, MemFacts
<1>3. cells = 0..s - 1
    BY ArrayCells
<1>4. Copied(x, at, y) = [x EXCEPT !.mem = m]
    <2>1. Copied(x, at, y) =
              [x EXCEPT !.mem = [j \in DOMAIN x.mem |->
                                    IF j - at \in cells THEN y.mem[j - at] ELSE x.mem[j]]]
        BY DEF Copied
    <2> HIDE DEF cells
    <2> QED
        BY <1>2, <1>3, <2>1
<1>5. [x EXCEPT !.mem = m] = Arr(n, m)
    BY <1>1 DEF Arr, Fresh
<1>6. 0..s - 1 \subseteq Cells(y.byte_size)
    BY ArrayCells
<1>7. \A j \in Lanes(n) : m[j] \in Bit
    BY <1>1, <1>6, MemFacts
<1>8. ASSUME NEW j \in Lanes(n) \ Cells(DivCeil(n)) PROVE m[j] = 0
    <2>1. j \in Nat
        BY <1>1, ByteFacts, LayoutFacts, CellFacts DEF Lanes
    <2>2. j \notin 0..n - 1
        BY <1>1, ArrayCells
    <2>3. j - at \notin 0..s - 1
        BY <1>1, <2>1, <2>2
    <2>4. m[j] = x.mem[j]
        BY <2>3
    <2> QED
        BY <1>1, <2>4, MemFacts
<1> HIDE DEF m
<1>9. m \in Mems(n)
    <2>1. m \in [Lanes(n) -> Bit]
        BY <1>7 DEF m
    <2> QED
        BY <1>8, <2>1 DEF Mems
<1> QED
    BY <1>4, <1>5, <1>9 DEF m

LEMMA OnesArr ==
    ASSUME NEW n \in Nat
    PROVE  /\ OnesOf(n).bit_size = n /\ OnesOf(n).byte_size = DivCeil(n)
           /\ \A j \in Cells(DivCeil(n)) : OnesOf(n).mem[j] = 1
<1>1. OnesOf(n).mem = OnesMem(DivCeil(n))
    BY DEF OnesOf, Fresh
<1>2. \A j \in Cells(DivCeil(n)) :
          j \in Cells(CreateLayout(DivCeil(n))) /\ j \in Cells(AlignMaxLen(DivCeil(n)))
    BY ArrayCells
<1>3. \A j \in Cells(DivCeil(n)) : OnesOf(n).mem[j] = 1
    BY <1>1, <1>2 DEF OnesMem
<1> QED
    BY <1>3 DEF OnesOf, Fresh

\* The bits that to_slice copies.
SliceBits(x, st, end) == [j \in Cells(end - st) |-> x.mem[st * ByteBits + j]]

LEMMA SliceArr ==
    ASSUME NEW x, Kept(x), NEW st \in Nat, NEW end \in Nat, st <= end, end <= x.byte_size,
           NEW n \in Nat, n <= MaxSize,
           n \in (end - st - 1) * ByteBits + 1..(end - st) * ByteBits
    PROVE  /\ end - st = DivCeil(n)
           /\ FromSlice(end - st, SliceBits(x, st, end)) \in Mems(n)
           /\ \A j \in Cells(DivCeil(n)) :
                 FromSlice(end - st, SliceBits(x, st, end))[j] = x.mem[st * ByteBits + j]
<1> DEFINE k == end - st
           src == SliceBits(x, st, end)
<1>1. /\ x.bit_size \in Nat /\ x.byte_size = DivCeil(x.bit_size) /\ x.byte_size \in Nat
      /\ x.mem \in Mems(x.bit_size)
    BY KeptArr
<1>2. k \in Nat /\ k * ByteBits \in Nat /\ ByteBits \in Nat \ {0}
    BY ArraysAssumption
<1>3. (k - 1) * ByteBits = k * ByteBits - ByteBits
    BY <1>2
<1>4. n <= k * ByteBits /\ k * ByteBits < n + ByteBits
    <2>1. (k - 1) * ByteBits + 1 <= n /\ n <= k * ByteBits
        BY <1>2
    <2> HIDE DEF k
    <2> QED
        BY <1>2, <1>3, <2>1
<1>5. k = DivCeil(n)
    BY <1>2, <1>4, BytesUnique
<1>6. ASSUME NEW j \in Cells(k) PROVE src[j] \in Bit
    <2>1. j \in Nat /\ j < k * ByteBits
        BY <1>2, CellFacts
    <2>2. st * ByteBits + k * ByteBits = end * ByteBits
        BY <1>2
    <2>3. end * ByteBits <= x.byte_size * ByteBits
        BY <1>1, <1>2, TimesMono
    <2>4. /\ st * ByteBits \in Nat /\ end * ByteBits \in Nat /\ x.byte_size * ByteBits \in Nat
        BY <1>1, <1>2
    <2>5. st * ByteBits + j \in Nat /\ st * ByteBits + j < x.byte_size * ByteBits
        <3> HIDE DEF k
        <3> QED
            BY <1>2, <2>1, <2>2, <2>3, <2>4
    <2>6. st * ByteBits + j \in Cells(x.byte_size)
        BY <1>1, <2>5, CellFacts
    <2>7. st * ByteBits + j \in Lanes(x.bit_size)
        BY <1>1, <2>6, ArrayCells DEF Lanes
    <2> QED
        BY <1>1, <2>7, MemFacts DEF SliceBits
<1>7. n \in 0..MaxSize
    BY MaxSizeType
<1> HIDE DEF k, src
<1>8. /\ FromSlice(k, src) \in Mems(n)
      /\ \A j \in Cells(k) : FromSlice(k, src)[j] = src[j]
    BY <1>5, <1>6, <1>7, FromSliceArr
<1>9. \A j \in Cells(k) : src[j] = x.mem[st * ByteBits + j]
    BY DEF src, SliceBits, k
<1> QED
    BY <1>5, <1>8, <1>9 DEF k, src

----------------------------------------------------------------------------
(* The vectors that the arrays stand for.                                  *)

Vec == [a \in Slots |-> AsVector(arr[a])]

LEMMA ArrVector ==
    ASSUME NEW n, NEW mem
    PROVE  AsVector(Arr(n, mem)) = [size |-> n, bits |-> [j \in Cells(DivCeil(n)) |-> mem[j]]]
BY DEF AsVector, SubBits, Arr, Fresh

LEMMA KeptVector ==
    ASSUME NEW x, Kept(x)
    PROVE  /\ AsVector(x).size = x.bit_size
           /\ AsVector(x).bits = [j \in Cells(DivCeil(x.bit_size)) |-> x.mem[j]]
<1>1. x = Arr(x.bit_size, x.mem)
    BY KeptArr
<1> QED
    BY <1>1, ArrVector

LEMMA HeldArrays ==
    ASSUME ArraysInv, NEW a \in Slots
    PROVE  /\ Has(a) => Kept(arr[a])
           /\ Vec[a] = AsVector(arr[a])
           /\ Vec[a].size = arr[a].bit_size
           /\ Vec[a].size = -1 <=> ~Has(a)
<1>1. Vec[a] = AsVector(arr[a]) /\ AsVector(arr[a]).size = arr[a].bit_size
    BY DEF Vec, AsVector
<1>2. arr[a] = NoArray \/ Kept(arr[a])
    BY DEF ArraysInv
<1>3. NoArray.bit_size = -1
    BY DEF NoArray
<1> QED
    BY <1>1, <1>2, <1>3 DEF Has

\* A step that leaves nothing but kept arrays.
LEMMA StepKept ==
    ASSUME arr' = [b \in Slots |-> arr'[b]],
           \A b \in Slots : arr'[b] = NoArray \/ Kept(arr'[b]),
           out' \in Bit \cup {Nothing}, freed' \in Nat \X Nat
    PROVE  ArraysInv' /\ Vec' = [b \in Slots |-> AsVector(arr'[b])]
<1>1. \A b \in Slots : (arr[b] = NoArray \/ Kept(arr[b]))'
    BY DEF NoArray, Kept, Cells, CreateLayout, DivCeil, MaxSize, Bit
<1>2. ArraysInv'
    BY <1>1 DEF ArraysInv, Bit, Nothing
<1>3. Vec' = [b \in Slots |-> AsVector(arr'[b])]
    BY DEF Vec, AsVector, SubBits, Cells
<1> QED
    BY <1>2, <1>3

\* Storing a kept array keeps the invariant and changes one vector.
LEMMA BecomesArr ==
    ASSUME ArraysInv, NEW a \in Slots, NEW n \in 0..MaxSize, NEW mem \in Mems(n),
           Becomes(a, Arr(n, mem))
    PROVE  /\ ArraysInv'
           /\ out' = Nothing
           /\ Vec' = [Vec EXCEPT ![a] = [size |-> n,
                                         bits |-> [j \in Cells(DivCeil(n)) |-> mem[j]]]]
<1>1. arr' = [arr EXCEPT ![a] = Arr(n, mem)] /\ out' = Nothing /\ freed' = NotFreed
    BY DEF Becomes
<1>2. Kept(Arr(n, mem))
    BY ArrKept
<1>3. arr = [b \in Slots |-> arr[b]]
    BY DEF ArraysInv
<1>4. arr' = [b \in Slots |-> IF b = a THEN Arr(n, mem) ELSE arr[b]]
    BY <1>1, <1>3
<1>5. arr' = [b \in Slots |-> arr'[b]]
    BY <1>4
<1>6. \A b \in Slots : arr'[b] = NoArray \/ Kept(arr'[b])
    BY <1>2, <1>4 DEF ArraysInv
<1>7. out' \in Bit \cup {Nothing} /\ freed' \in Nat \X Nat
    BY <1>1 DEF NotFreed
<1>8. ArraysInv' /\ Vec' = [b \in Slots |-> AsVector(arr'[b])]
    BY <1>5, <1>6, <1>7, StepKept
<1>9. Vec' = [b \in Slots |-> IF b = a THEN AsVector(Arr(n, mem)) ELSE AsVector(arr[b])]
    BY <1>4, <1>8
<1>10. Vec' = [Vec EXCEPT ![a] = AsVector(Arr(n, mem))]
    BY <1>9 DEF Vec
<1>11. Vec' = [Vec EXCEPT ![a] = [size |-> n,
                                  bits |-> [j \in Cells(DivCeil(n)) |-> mem[j]]]]
    BY <1>10, ArrVector
<1> QED
    BY <1>1, <1>8, <1>11

LEMMA ReturnsKept ==
    ASSUME ArraysInv, NEW v \in Bit, Returns(v)
    PROVE  ArraysInv' /\ Vec' = Vec /\ out' = v
<1>1. arr' = arr /\ out' = v /\ freed' = NotFreed
    BY DEF Returns
<1>2. out' \in Bit \cup {Nothing} /\ freed' \in Nat \X Nat
    BY <1>1 DEF NotFreed
<1>3. arr' = [b \in Slots |-> arr'[b]] /\ \A b \in Slots : arr'[b] = NoArray \/ Kept(arr'[b])
    BY <1>1 DEF ArraysInv
<1>4. ArraysInv' /\ Vec' = [b \in Slots |-> AsVector(arr'[b])]
    BY <1>2, <1>3, StepKept
<1> QED
    BY <1>1, <1>4 DEF Vec

LEMMA VecOf ==
    ASSUME ArraysInv, NEW a \in Slots, Has(a)
    PROVE  LET x == arr[a] IN
           /\ Kept(x) /\ x.bit_size \in Nat /\ x.bit_size \in 0..MaxSize
           /\ Vec[a] = [size |-> x.bit_size,
                        bits |-> [j \in Cells(DivCeil(x.bit_size)) |-> x.mem[j]]]
           /\ Vectors!Held(a)
<1>1. Kept(arr[a]) /\ Vec[a] = AsVector(arr[a]) /\ Vec[a].size # -1
    BY HeldArrays
<1>2. /\ arr[a] = Arr(arr[a].bit_size, arr[a].mem)
      /\ arr[a].bit_size \in Nat /\ arr[a].bit_size \in 0..MaxSize
    BY <1>1, KeptArr
<1>3. Vectors!Held(a)
    BY <1>1 DEF Vectors!Held, Vectors!NoVector, Vectors!Vector, Vec
<1> QED
    BY <1>1, <1>2, <1>3, ArrVector

\* The sizes of the two modules agree.
LEMMA VectorCells ==
    ASSUME NEW n
    PROVE  Vectors!Stored(n) = Cells(DivCeil(n)) /\ Vectors!Bytes(n) = DivCeil(n)
BY DEF Vectors!Stored, Vectors!Bytes, Cells, DivCeil

LEMMA VectorBecomes ==
    ASSUME NEW a \in Slots, NEW v, Vec' = [Vec EXCEPT ![a] = v], out' = Nothing
    PROVE  Vectors!Becomes(a, v)
BY DEF Vectors!Becomes, Vec, Nothing, Vectors!Nothing

----------------------------------------------------------------------------
(* One lemma per operation: it keeps the invariant and does to the vectors *)
(* what BitVectors says.                                                   *)

LEMMA NewStep ==
    ASSUME ArraysInv, NEW a \in Slots, NEW n \in Sizes, New(a, n)
    PROVE  ArraysInv' /\ Vectors!Zeros(a)
<1> DEFINE mem == ZeroMem(DivCeil(n))
<1>1. n \in 0..MaxSize
    BY MaxSizeType, ArraysAssumption
<1>2. Becomes(a, Arr(n, mem))
    BY DEF New, Arr
<1>3. /\ ArraysInv' /\ out' = Nothing
      /\ Vec' = [Vec EXCEPT ![a] = [size |-> n,
                                    bits |-> [j \in Cells(DivCeil(n)) |-> mem[j]]]]
    BY <1>1, <1>2, ZeroArr, BecomesArr
<1>4. [j \in Cells(DivCeil(n)) |-> mem[j]] = [j \in Cells(DivCeil(n)) |-> 0]
    <2>1. n \in Nat
        BY <1>1
    <2>2. \A j \in Cells(DivCeil(n)) : mem[j] = 0
        BY <1>1, <2>1, ZeroArr, ArrayCells DEF Lanes
    <2> QED
        BY <2>2
<1>5. Vectors!Becomes(a, Vectors!Vector(n, [j \in Vectors!Stored(n) |-> 0]))
    BY <1>3, <1>4, VectorBecomes, VectorCells DEF Vectors!Vector
<1> QED
    BY <1>3, <1>5 DEF Vectors!Zeros

LEMMA ShrinkStep ==
    ASSUME ArraysInv, NEW a \in Slots, NEW n \in Sizes, Shrink(a, n)
    PROVE  ArraysInv' /\ Vectors!Shrink(a)
<1> DEFINE x == arr[a]
<1>1. /\ Has(a) /\ x.bit_size % ByteBits = 0 /\ n <= x.bit_size /\ n + ByteBits > x.bit_size
      /\ Becomes(a, [x EXCEPT !.bit_size = n]) /\ n \in Nat
    BY ArraysAssumption DEF Shrink
<1>2. /\ Kept(x) /\ Vectors!Held(a)
      /\ Vec[a] = [size |-> x.bit_size,
                   bits |-> [j \in Cells(DivCeil(x.bit_size)) |-> x.mem[j]]]
    BY <1>1, VecOf
<1> HIDE DEF x
<1>3. /\ DivCeil(n) = DivCeil(x.bit_size) /\ [x EXCEPT !.bit_size = n] = Arr(n, x.mem)
      /\ x.mem \in Mems(n) /\ n \in 0..MaxSize
    BY <1>1, <1>2, ShrinkArr
<1>4. Becomes(a, Arr(n, x.mem))
    BY <1>1, <1>3
<1>5. /\ ArraysInv' /\ out' = Nothing
      /\ Vec' = [Vec EXCEPT ![a] = [size |-> n,
                                    bits |-> [j \in Cells(DivCeil(n)) |-> x.mem[j]]]]
    BY <1>3, <1>4, BecomesArr
<1>6. [Vec[a] EXCEPT !.size = n] =
          [size |-> n, bits |-> [j \in Cells(DivCeil(n)) |-> x.mem[j]]]
    BY <1>2, <1>3
<1>7. Vectors!Becomes(a, [Vec[a] EXCEPT !.size = n])
    BY <1>5, <1>6, VectorBecomes
<1>8. n <= Vec[a].size /\ Vectors!Bytes(n) = Vectors!Bytes(Vec[a].size)
    BY <1>1, <1>2, <1>3, VectorCells
<1> QED
    BY <1>2, <1>5, <1>7, <1>8 DEF Vectors!Shrink, Vec

\* random and from_byte_slice fill an array with some bits.
LEMMA FillStep ==
    ASSUME ArraysInv, NEW a \in Slots, NEW n \in Sizes, NEW mem \in Mems(n),
           Becomes(a, Arr(n, mem))
    PROVE  ArraysInv' /\ Vectors!Fill(a)
<1>1. n \in 0..MaxSize /\ n \in Nat
    BY MaxSizeType, ArraysAssumption
<1>2. /\ ArraysInv' /\ out' = Nothing
      /\ Vec' = [Vec EXCEPT ![a] = [size |-> n,
                                    bits |-> [j \in Cells(DivCeil(n)) |-> mem[j]]]]
    BY <1>1, BecomesArr
<1>3. Vec = [b \in Slots |-> Vec[b]]
    BY DEF Vec
<1>4. Vec'[a] = [size |-> n, bits |-> [j \in Cells(DivCeil(n)) |-> mem[j]]]
    BY <1>2, <1>3
<1>5. Vec' = [Vec EXCEPT ![a] = Vec'[a]]
    BY <1>2, <1>4
<1>6. Vec'[a].size \in Sizes /\ Vec'[a].bits \in [Vectors!Stored(Vec'[a].size) -> Vectors!Bit]
    <2>1. \A j \in Cells(DivCeil(n)) : mem[j] \in Bit
        BY <1>1, ArrayCells, MemFacts DEF Lanes
    <2>2. Vectors!Stored(Vec'[a].size) = Cells(DivCeil(n))
        BY <1>4, VectorCells
    <2> QED
        BY <1>4, <2>1, <2>2 DEF Bit, Vectors!Bit
<1> QED
    BY <1>2, <1>5, <1>6 DEF Vectors!Fill, Vec, Nothing, Vectors!Nothing

LEMMA RandomStep ==
    ASSUME ArraysInv, NEW a \in Slots, NEW n \in Sizes, NEW k \in Draws,
           Random(a, n, k) \/ FromByteSlice(a, n, k)
    PROVE  ArraysInv' /\ Vectors!Fill(a)
<1>1. n \in 0..MaxSize /\ n \in Nat
    BY MaxSizeType, ArraysAssumption
<1>2. CASE Random(a, n, k)
    <2>1. Becomes(a, Arr(n, Drawn(n, k).mem)) /\ Drawn(n, k).mem \in Mems(n)
        BY <1>1, <1>2, DrawnArr DEF Random
    <2> QED
        BY <2>1, FillStep
<1>3. CASE FromByteSlice(a, n, k)
    <2>1. \A j \in Cells(DivCeil(n)) : Pattern(k)[j] \in Bit
        <3>1. \A j \in Cells(DivCeil(n)) : j \in Cells(DivCeil(MaxSize)) /\ j \in Nat
            BY <1>1, ArrayCells, ByteFacts, CellFacts
        <3> QED
            BY <3>1 DEF Pattern, Bit
    <2>2. FromSlice(DivCeil(n), Pattern(k)) \in Mems(n)
        BY <1>1, <2>1, FromSliceArr
    <2>3. Becomes(a, Arr(n, FromSlice(DivCeil(n), Pattern(k))))
        BY <1>3 DEF FromByteSlice, Arr
    <2> QED
        BY <2>2, <2>3, FillStep
<1> QED
    BY <1>2, <1>3

LEMMA SetBitStep ==
    ASSUME ArraysInv, NEW a \in Slots, NEW i \in Nat, NEW v \in Bit, SetBit(a, i, v)
    PROVE  ArraysInv' /\ Vectors!SetBit(a)
<1> DEFINE x == arr[a]
           n == x.bit_size
           m == [x.mem EXCEPT ![i] = v]
<1>1. Has(a) /\ i < n /\ Becomes(a, [x EXCEPT !.mem[i] = v])
    BY DEF SetBit
<1>2. /\ Kept(x) /\ n \in Nat /\ n \in 0..MaxSize /\ Vectors!Held(a)
      /\ Vec[a] = [size |-> n, bits |-> [j \in Cells(DivCeil(n)) |-> x.mem[j]]]
    BY <1>1, VecOf
<1>3. x.byte_size = DivCeil(n) /\ x.mem \in Mems(n)
    BY <1>2, KeptArr
<1> HIDE DEF x
<1>4. i \in Cells(DivCeil(n)) /\ [x EXCEPT !.mem[i] = v] = Arr(n, m) /\ m \in Mems(n)
    BY <1>1, <1>2, <1>3, SetBitArr
<1>5. /\ ArraysInv' /\ out' = Nothing
      /\ Vec' = [Vec EXCEPT ![a] = [size |-> n,
                                    bits |-> [j \in Cells(DivCeil(n)) |-> m[j]]]]
    <2>1. Becomes(a, Arr(n, m))
        BY <1>1, <1>4
    <2> HIDE DEF n, m
    <2> QED
        BY <1>2, <1>4, <2>1, BecomesArr
<1>6. [Vec[a] EXCEPT !.bits[i] = v] =
          [size |-> n, bits |-> [j \in Cells(DivCeil(n)) |-> m[j]]]
    <2>1. \A j \in Cells(DivCeil(n)) : m[j] = IF j = i THEN v ELSE x.mem[j]
        BY <1>2, <1>3, MemFacts, ArrayCells DEF Lanes
    <2>2. [Vec[a].bits EXCEPT ![i] = v] = [j \in Cells(DivCeil(n)) |-> m[j]]
        BY <1>2, <1>4, <2>1
    <2> HIDE DEF m
    <2>3. [Vec[a] EXCEPT !.bits[i] = v] = [size |-> n, bits |-> [Vec[a].bits EXCEPT ![i] = v]]
        BY <1>2
    <2> QED
        BY <2>2, <2>3
<1>7. Vectors!Becomes(a, [Vec[a] EXCEPT !.bits[i] = v])
    BY <1>5, <1>6, VectorBecomes
<1>8. i \in 0..Vec[a].size - 1
    BY <1>1, <1>2
<1> QED
    BY <1>2, <1>5, <1>7, <1>8 DEF Vectors!SetBit, Vec, Bit, Vectors!Bit

\* What copy_from does to the vectors, whatever it copies from.
LEMMA CopyStep ==
    ASSUME ArraysInv, NEW a \in Slots, NEW at \in Nat, NEW y, y.bit_size \in Nat,
           y.byte_size = DivCeil(y.bit_size),
           \A j \in Cells(y.byte_size) : y.mem[j] \in Bit,
           NEW bits, \A j \in Cells(y.byte_size) : bits[j] = y.mem[j],
           CopyFrom(a, at, y)
    PROVE  ArraysInv' /\ Vectors!CopyBits(a, y.bit_size, bits)
<1> DEFINE x == arr[a]
           n == x.bit_size
           s == y.bit_size
           m == [j \in Lanes(n) |-> IF j - at \in 0..s - 1 THEN y.mem[j - at] ELSE x.mem[j]]
           new == [j \in Cells(DivCeil(n)) |->
                      IF j - at \in 0..s - 1 THEN bits[j - at] ELSE x.mem[j]]
<1>1. Has(a) /\ at + s <= n /\ Becomes(a, Copied(x, at, y))
    BY DEF CopyFrom
<1>2. /\ Kept(x) /\ n \in Nat /\ n \in 0..MaxSize /\ Vectors!Held(a)
      /\ Vec[a] = [size |-> n, bits |-> [j \in Cells(DivCeil(n)) |-> x.mem[j]]]
    BY <1>1, VecOf
<1>3. Copied(x, at, y) = Arr(n, m) /\ m \in Mems(n)
    BY <1>1, <1>2, CopiedArr
<1>4. Becomes(a, Arr(n, m))
    BY <1>1, <1>3
<1>5. [j \in Cells(DivCeil(n)) |-> m[j]] = new
    <2>1. \A j \in Cells(DivCeil(n)) : j \in Lanes(n)
        BY <1>2, ArrayCells DEF Lanes
    <2>2. \A j \in 0..s - 1 : bits[j] = y.mem[j]
        BY ArrayCells
    <2> QED
        BY <2>1, <2>2
<1> HIDE DEF m
<1>6. /\ ArraysInv' /\ out' = Nothing
      /\ Vec' = [Vec EXCEPT ![a] = [size |-> n, bits |-> new]]
    <2> HIDE DEF new, n
    <2> QED
        BY <1>2, <1>3, <1>4, <1>5, BecomesArr
<1>7. [Vec[a] EXCEPT !.bits = [j \in DOMAIN Vec[a].bits |->
                                  IF j - at \in 0..s - 1 THEN bits[j - at] ELSE Vec[a].bits[j]]]
          = [size |-> n, bits |-> new]
    <2>1. DOMAIN Vec[a].bits = Cells(DivCeil(n)) /\ \A j \in Cells(DivCeil(n)) : Vec[a].bits[j] = x.mem[j]
        BY <1>2
    <2>2. [j \in DOMAIN Vec[a].bits |->
              IF j - at \in 0..s - 1 THEN bits[j - at] ELSE Vec[a].bits[j]] = new
        BY <2>1
    <2>3. [Vec[a] EXCEPT !.bits = new] = [size |-> n, bits |-> new]
        BY <1>2
    <2> QED
        BY <2>2, <2>3
<1>8. Vectors!Becomes(a, [Vec[a] EXCEPT !.bits = [j \in DOMAIN Vec[a].bits |->
          IF j - at \in 0..s - 1 THEN bits[j - at] ELSE Vec[a].bits[j]]])
    BY <1>6, <1>7, VectorBecomes
<1>9. at \in 0..Vec[a].size - s
    BY <1>1, <1>2
<1> QED
    BY <1>2, <1>6, <1>8, <1>9 DEF Vectors!CopyBits, Vec

LEMMA CopyOnesStep ==
    ASSUME ArraysInv, NEW a \in Slots, NEW n \in Sizes, NEW at \in Nat,
           CopyFrom(a, at, OnesOf(n))
    PROVE  ArraysInv' /\ Vectors!CopyOnes(a)
<1> DEFINE y == OnesOf(n)
           bits == [j \in Vectors!Stored(n) |-> 1]
<1>1. n \in Nat
    BY ArraysAssumption
<1>2. /\ y.bit_size = n /\ y.byte_size = DivCeil(n)
      /\ \A j \in Cells(y.byte_size) : y.mem[j] = 1
    BY <1>1, OnesArr
<1>3. /\ \A j \in Cells(y.byte_size) : y.mem[j] \in Bit
      /\ \A j \in Cells(y.byte_size) : bits[j] = y.mem[j]
    BY <1>2, VectorCells DEF Bit
<1>4. CopyFrom(a, at, y)
    OBVIOUS
<1> HIDE DEF y, bits
<1>5. ArraysInv' /\ Vectors!CopyBits(a, n, bits)
    BY <1>1, <1>2, <1>3, <1>4, CopyStep
<1> QED
    BY <1>5 DEF Vectors!CopyOnes, bits

LEMMA CopyFromStep ==
    ASSUME ArraysInv, NEW a \in Slots, NEW b \in Slots, NEW at \in Nat, a # b, Has(b),
           CopyFrom(a, at, arr[b])
    PROVE  ArraysInv' /\ Vectors!CopyFrom(a, b)
<1> DEFINE y == arr[b]
<1>1. /\ Kept(y) /\ y.bit_size \in Nat /\ Vectors!Held(b)
      /\ Vec[b] = [size |-> y.bit_size,
                   bits |-> [j \in Cells(DivCeil(y.bit_size)) |-> y.mem[j]]]
    BY VecOf
<1>2. y.byte_size = DivCeil(y.bit_size) /\ y.mem \in Mems(y.bit_size)
    BY <1>1, KeptArr
<1>3. /\ \A j \in Cells(y.byte_size) : y.mem[j] \in Bit
      /\ \A j \in Cells(y.byte_size) : Vec[b].bits[j] = y.mem[j]
    BY <1>1, <1>2, ArrayCells, MemFacts DEF Lanes
<1>4. Vec[b].size = y.bit_size /\ CopyFrom(a, at, y)
    BY <1>1
<1> HIDE DEF y
<1>5. ArraysInv' /\ Vectors!CopyBits(a, Vec[b].size, Vec[b].bits)
    BY <1>1, <1>2, <1>3, <1>4, CopyStep
<1> QED
    BY <1>1, <1>5 DEF Vectors!CopyFrom, Vec

LEMMA CloneStep ==
    ASSUME ArraysInv, NEW a \in Slots, NEW b \in Slots, Clone(a, b)
    PROVE  ArraysInv' /\ Vectors!Clone(a, b)
<1> DEFINE x == arr[a]
           n == x.bit_size
<1>1. Has(a) /\ a # b
    BY DEF Clone
<1>2. /\ Kept(x) /\ n \in 0..MaxSize /\ Vectors!Held(a)
      /\ Vec[a] = [size |-> n, bits |-> [j \in Cells(DivCeil(n)) |-> x.mem[j]]]
    BY <1>1, VecOf
<1>3. x.mem \in Mems(n) /\ x = Arr(n, x.mem)
    BY <1>2, KeptArr
<1>4. Becomes(b, x)
    BY <1>2, CloneArr DEF Clone
<1>5. Becomes(b, Arr(n, x.mem))
    BY <1>3, <1>4
<1> HIDE DEF x
<1>6. /\ ArraysInv' /\ out' = Nothing /\ Vec' = [Vec EXCEPT ![b] = Vec[a]]
    BY <1>2, <1>3, <1>5, BecomesArr
<1>7. Vectors!Becomes(b, Vec[a])
    BY <1>6, VectorBecomes
<1> QED
    BY <1>1, <1>2, <1>6, <1>7 DEF Vectors!Clone, Vec

\* Two arrays of one size.
LEMMA SameSizeFacts ==
    ASSUME ArraysInv, NEW a \in Slots, NEW b \in Slots, SameSize(a, b)
    PROVE  LET n == arr[a].bit_size IN
           /\ Kept(arr[a]) /\ Kept(arr[b]) /\ arr[b].bit_size = n
           /\ n \in Nat /\ n \in 0..MaxSize
           /\ Vec[a] = [size |-> n, bits |-> [j \in Cells(DivCeil(n)) |-> arr[a].mem[j]]]
           /\ Vec[b] = [size |-> n, bits |-> [j \in Cells(DivCeil(n)) |-> arr[b].mem[j]]]
           /\ Vectors!Alike(a, b)
<1>1. Has(a) /\ Has(b) /\ arr[a].bit_size = arr[b].bit_size
    BY DEF SameSize
<1>2. /\ Kept(arr[a]) /\ arr[a].bit_size \in Nat /\ arr[a].bit_size \in 0..MaxSize
      /\ Vec[a] = [size |-> arr[a].bit_size,
                   bits |-> [j \in Cells(DivCeil(arr[a].bit_size)) |-> arr[a].mem[j]]]
      /\ Vectors!Held(a)
    BY <1>1, VecOf
<1>3. /\ Kept(arr[b])
      /\ Vec[b] = [size |-> arr[b].bit_size,
                   bits |-> [j \in Cells(DivCeil(arr[b].bit_size)) |-> arr[b].mem[j]]]
      /\ Vectors!Held(b)
    BY <1>1, VecOf
<1>4. Vec[a].size = Vec[b].size
    BY <1>1, <1>2, <1>3
<1>5. Vectors!Alike(a, b)
    BY <1>2, <1>3, <1>4 DEF Vectors!Alike, Vec
<1> QED
    BY <1>1, <1>2, <1>3, <1>5

\* The vector of n bits that a memory holds, and operations on the lanes.
VectorOf(n, mem) == [size |-> n, bits |-> [j \in Cells(DivCeil(n)) |-> mem[j]]]

XorMem(n, f, g) == [j \in Lanes(n) |-> (f[j] + g[j]) % 2]
AndMem(n, f, g) == [j \in Lanes(n) |-> f[j] * g[j]]

LEMMA XorVector ==
    ASSUME NEW n \in Nat, NEW f, NEW g
    PROVE  Vectors!Xored(VectorOf(n, f), VectorOf(n, g)) = VectorOf(n, XorMem(n, f, g))
<1> DEFINE v == VectorOf(n, f)
           w == VectorOf(n, g)
           h == [j \in Cells(DivCeil(n)) |-> (f[j] + g[j]) % 2]
<1>1. \A j \in Cells(DivCeil(n)) : j \in Lanes(n)
    BY ArrayCells DEF Lanes
<1>2. /\ DOMAIN v.bits = Cells(DivCeil(n))
      /\ \A j \in Cells(DivCeil(n)) : v.bits[j] = f[j] /\ w.bits[j] = g[j]
    BY DEF VectorOf
<1>3. [j \in DOMAIN v.bits |-> (v.bits[j] + w.bits[j]) % 2] = h
    BY <1>2
<1>4. \A k : [v EXCEPT !.bits = k] = [size |-> n, bits |-> k]
    <2>1. \A c, k : [[size |-> n, bits |-> c] EXCEPT !.bits = k] = [size |-> n, bits |-> k]
        OBVIOUS
    <2>2. v = [size |-> n, bits |-> v.bits]
        BY DEF VectorOf
    <2> HIDE DEF v
    <2> QED
        BY <2>1, <2>2
<1> HIDE DEF v, w
<1>5. Vectors!Xored(v, w) = [v EXCEPT !.bits = h]
    BY <1>3 DEF Vectors!Xored
<1>6. h = [j \in Cells(DivCeil(n)) |-> XorMem(n, f, g)[j]]
    BY <1>1 DEF XorMem
<1> QED
    BY <1>4, <1>5, <1>6 DEF VectorOf, v, w

LEMMA AndVector ==
    ASSUME NEW n \in Nat, NEW f, NEW g
    PROVE  Vectors!Anded(VectorOf(n, f), VectorOf(n, g)) = VectorOf(n, AndMem(n, f, g))
<1> DEFINE v == VectorOf(n, f)
           w == VectorOf(n, g)
           h == [j \in Cells(DivCeil(n)) |-> f[j] * g[j]]
<1>1. \A j \in Cells(DivCeil(n)) : j \in Lanes(n)
    BY ArrayCells DEF Lanes
<1>2. /\ DOMAIN v.bits = Cells(DivCeil(n))
      /\ \A j \in Cells(DivCeil(n)) : v.bits[j] = f[j] /\ w.bits[j] = g[j]
    BY DEF VectorOf
<1>3. [j \in DOMAIN v.bits |-> v.bits[j] * w.bits[j]] = h
    BY <1>2
<1>4. \A k : [v EXCEPT !.bits = k] = [size |-> n, bits |-> k]
    <2>1. \A c, k : [[size |-> n, bits |-> c] EXCEPT !.bits = k] = [size |-> n, bits |-> k]
        OBVIOUS
    <2>2. v = [size |-> n, bits |-> v.bits]
        BY DEF VectorOf
    <2> HIDE DEF v
    <2> QED
        BY <2>1, <2>2
<1> HIDE DEF v, w
<1>5. Vectors!Anded(v, w) = [v EXCEPT !.bits = h]
    BY <1>3 DEF Vectors!Anded
<1>6. h = [j \in Cells(DivCeil(n)) |-> AndMem(n, f, g)[j]]
    BY <1>1 DEF AndMem
<1> QED
    BY <1>4, <1>5, <1>6 DEF VectorOf, v, w

LEMMA XorStep ==
    ASSUME ArraysInv, NEW a \in Slots, NEW b \in Slots, InplaceXor(a, b)
    PROVE  ArraysInv' /\ Vectors!Xor(a, b)
<1> DEFINE x == arr[a]
           y == arr[b]
           n == x.bit_size
           m == [j \in Lanes(n) |-> (x.mem[j] + y.mem[j]) % 2]
<1>1. a # b /\ SameSize(a, b) /\ Becomes(a, XorOf(x, y))
    BY DEF InplaceXor
<1>2. /\ Kept(x) /\ Kept(y) /\ y.bit_size = n /\ n \in Nat /\ n \in 0..MaxSize
      /\ Vec[a] = [size |-> n, bits |-> [j \in Cells(DivCeil(n)) |-> x.mem[j]]]
      /\ Vec[b] = [size |-> n, bits |-> [j \in Cells(DivCeil(n)) |-> y.mem[j]]]
      /\ Vectors!Alike(a, b)
    BY <1>1, SameSizeFacts
<1> HIDE DEF x, y
<1>3. XorOf(x, y) = Arr(n, m) /\ m \in Mems(n)
    BY <1>2, XorArr
<1>4. Becomes(a, Arr(n, m))
    BY <1>1, <1>3
<1>5. Vectors!Xored(Vec[a], Vec[b]) =
          [size |-> n, bits |-> [j \in Cells(DivCeil(n)) |-> m[j]]]
    <2>1. Vec[a] = VectorOf(n, x.mem) /\ Vec[b] = VectorOf(n, y.mem)
        BY <1>2 DEF VectorOf
    <2>2. Vectors!Xored(Vec[a], Vec[b]) = VectorOf(n, XorMem(n, x.mem, y.mem))
        BY <1>2, <2>1, XorVector
    <2> QED
        BY <2>2 DEF VectorOf, XorMem
<1> HIDE DEF n, m
<1>6. ArraysInv' /\ out' = Nothing /\ Vec' = [Vec EXCEPT ![a] = Vectors!Xored(Vec[a], Vec[b])]
    BY <1>2, <1>3, <1>4, <1>5, BecomesArr
<1>7. Vectors!Becomes(a, Vectors!Xored(Vec[a], Vec[b]))
    BY <1>6, VectorBecomes
<1> QED
    BY <1>1, <1>2, <1>6, <1>7 DEF Vectors!Xor, Vec

LEMMA AndStep ==
    ASSUME ArraysInv, NEW a \in Slots, NEW b \in Slots, InplaceAnd(a, b)
    PROVE  ArraysInv' /\ Vectors!And(a, b)
<1> DEFINE x == arr[a]
           y == arr[b]
           n == x.bit_size
           m == [j \in Lanes(n) |-> x.mem[j] * y.mem[j]]
<1>1. a # b /\ SameSize(a, b) /\ Becomes(a, AndOf(x, y))
    BY DEF InplaceAnd
<1>2. /\ Kept(x) /\ Kept(y) /\ y.bit_size = n /\ n \in Nat /\ n \in 0..MaxSize
      /\ Vec[a] = [size |-> n, bits |-> [j \in Cells(DivCeil(n)) |-> x.mem[j]]]
      /\ Vec[b] = [size |-> n, bits |-> [j \in Cells(DivCeil(n)) |-> y.mem[j]]]
      /\ Vectors!Alike(a, b)
    BY <1>1, SameSizeFacts
<1> HIDE DEF x, y
<1>3. AndOf(x, y) = Arr(n, m) /\ m \in Mems(n)
    BY <1>2, AndArr
<1>4. Becomes(a, Arr(n, m))
    BY <1>1, <1>3
<1>5. Vectors!Anded(Vec[a], Vec[b]) =
          [size |-> n, bits |-> [j \in Cells(DivCeil(n)) |-> m[j]]]
    <2>1. Vec[a] = VectorOf(n, x.mem) /\ Vec[b] = VectorOf(n, y.mem)
        BY <1>2 DEF VectorOf
    <2>2. Vectors!Anded(Vec[a], Vec[b]) = VectorOf(n, AndMem(n, x.mem, y.mem))
        BY <1>2, <2>1, AndVector
    <2> QED
        BY <2>2 DEF VectorOf, AndMem
<1> HIDE DEF n, m
<1>6. ArraysInv' /\ out' = Nothing /\ Vec' = [Vec EXCEPT ![a] = Vectors!Anded(Vec[a], Vec[b])]
    BY <1>2, <1>3, <1>4, <1>5, BecomesArr
<1>7. Vectors!Becomes(a, Vectors!Anded(Vec[a], Vec[b]))
    BY <1>6, VectorBecomes
<1> QED
    BY <1>1, <1>2, <1>6, <1>7 DEF Vectors!And, Vec

LEMMA MutAndStep ==
    ASSUME ArraysInv, NEW a \in Slots, NEW b \in Slots, NEW c \in Slots, MutAnd(c, a, b)
    PROVE  ArraysInv' /\ Vectors!MutAnd(c, a, b)
<1> DEFINE x == arr[a]
           y == arr[b]
           z == arr[c]
           n == x.bit_size
           m == [j \in Lanes(n) |-> x.mem[j] * y.mem[j]]
<1>1. /\ c \notin {a, b} /\ SameSize(a, b) /\ SameSize(a, c)
      /\ Becomes(c, Stored(z, LAMBDA j : x.mem[j] * y.mem[j]))
    BY DEF MutAnd
<1>2. /\ Kept(x) /\ Kept(y) /\ y.bit_size = n /\ n \in Nat /\ n \in 0..MaxSize
      /\ Vec[a] = [size |-> n, bits |-> [j \in Cells(DivCeil(n)) |-> x.mem[j]]]
      /\ Vec[b] = [size |-> n, bits |-> [j \in Cells(DivCeil(n)) |-> y.mem[j]]]
      /\ Vectors!Alike(a, b)
    BY <1>1, SameSizeFacts
<1>3. Kept(z) /\ z.bit_size = n /\ Vectors!Alike(a, c)
    BY <1>1, SameSizeFacts
<1> HIDE DEF x, y, z
<1>4. m \in Mems(n)
    BY <1>2, AndArr
<1>5. Stored(z, LAMBDA j : x.mem[j] * y.mem[j]) = Arr(n, m)
    BY <1>2, <1>3, MutAndArr
<1>6. Becomes(c, Arr(n, m))
    BY <1>1, <1>5
<1>7. Vectors!Anded(Vec[a], Vec[b]) =
          [size |-> n, bits |-> [j \in Cells(DivCeil(n)) |-> m[j]]]
    <2>1. Vec[a] = VectorOf(n, x.mem) /\ Vec[b] = VectorOf(n, y.mem)
        BY <1>2 DEF VectorOf
    <2>2. Vectors!Anded(Vec[a], Vec[b]) = VectorOf(n, AndMem(n, x.mem, y.mem))
        BY <1>2, <2>1, AndVector
    <2> QED
        BY <2>2 DEF VectorOf, AndMem
<1> HIDE DEF n, m
<1>8. ArraysInv' /\ out' = Nothing /\ Vec' = [Vec EXCEPT ![c] = Vectors!Anded(Vec[a], Vec[b])]
    BY <1>2, <1>4, <1>6, <1>7, BecomesArr
<1>9. Vectors!Becomes(c, Vectors!Anded(Vec[a], Vec[b]))
    BY <1>8, VectorBecomes
<1> QED
    BY <1>1, <1>2, <1>3, <1>8, <1>9 DEF Vectors!MutAnd, Vec

LEMMA ShareStep ==
    ASSUME ArraysInv, NEW a \in Slots, NEW b \in Slots, NEW k \in Draws,
           InplaceSecretShare(a, b, k)
    PROVE  ArraysInv' /\ Vectors!Share(a, b)
<1> DEFINE x == arr[a]
           n == x.bit_size
           y == Drawn(n, k)
           m == XorMem(n, x.mem, y.mem)
<1>1. /\ a # b /\ Has(a) /\ arr' = [arr EXCEPT ![a] = XorOf(x, y), ![b] = y]
      /\ out' = Nothing /\ freed' = NotFreed
    BY DEF InplaceSecretShare
<1>2. /\ Kept(x) /\ n \in Nat /\ n \in 0..MaxSize /\ Vectors!Held(a)
      /\ Vec[a] = VectorOf(n, x.mem)
    BY <1>1, VecOf DEF VectorOf
<1>3. y.mem \in Mems(n) /\ y = Arr(n, y.mem)
    BY <1>2, DrawnArr
<1>4. Kept(y) /\ y.bit_size = n
    <2>1. Kept(Arr(n, y.mem)) /\ Arr(n, y.mem).bit_size = n
        BY <1>2, <1>3, ArrKept DEF Arr, Fresh
    <2> QED
        BY <1>3, <2>1
<1> HIDE DEF x, y
<1>5. XorOf(x, y) = Arr(n, m) /\ m \in Mems(n)
    BY <1>2, <1>4, XorArr DEF XorMem
<1>6. Kept(XorOf(x, y))
    BY <1>2, <1>5, ArrKept
<1>7. arr' = [c \in Slots |-> IF c = b THEN y ELSE IF c = a THEN XorOf(x, y) ELSE arr[c]]
    BY <1>1 DEF ArraysInv
<1>8. /\ arr' = [c \in Slots |-> arr'[c]]
      /\ \A c \in Slots : arr'[c] = NoArray \/ Kept(arr'[c])
    BY <1>4, <1>6, <1>7 DEF ArraysInv
<1>9. out' \in Bit \cup {Nothing} /\ freed' \in Nat \X Nat
    BY <1>1 DEF NotFreed
<1>10. ArraysInv' /\ Vec' = [c \in Slots |-> AsVector(arr'[c])]
    BY <1>8, <1>9, StepKept
<1>11. AsVector(y) = VectorOf(n, y.mem) /\ AsVector(XorOf(x, y)) = VectorOf(n, m)
    BY <1>3, <1>5, ArrVector DEF VectorOf
<1>12. Vec' = [c \in Slots |-> IF c = b THEN VectorOf(n, y.mem)
                               ELSE IF c = a THEN VectorOf(n, m) ELSE Vec[c]]
    BY <1>7, <1>10, <1>11 DEF Vec
<1>13. Vec'[b] = VectorOf(n, y.mem)
    BY <1>12
<1>14. Vectors!Xored(Vec[a], Vec'[b]) = VectorOf(n, m)
    BY <1>2, <1>13, XorVector
<1>15. Vec' = [Vec EXCEPT ![a] = Vectors!Xored(Vec[a], Vec'[b]), ![b] = Vec'[b]]
    <2>1. Vec = [c \in Slots |-> Vec[c]]
        BY DEF Vec
    <2> QED
        BY <1>1, <1>12, <1>13, <1>14, <2>1
<1>16. Vec'[b].size = Vec[a].size /\ Vec[a].size = n
    BY <1>2, <1>13 DEF VectorOf
<1>17. Vec'[b].bits \in [Vectors!Stored(Vec[a].size) -> Vectors!Bit]
    <2>1. \A j \in Cells(DivCeil(n)) : y.mem[j] \in Bit
        BY <1>2, <1>3, ArrayCells, MemFacts DEF Lanes
    <2>2. Vec'[b].bits = [j \in Cells(DivCeil(n)) |-> y.mem[j]]
        BY <1>13 DEF VectorOf
    <2> QED
        BY <1>16, <2>1, <2>2, VectorCells DEF Bit, Vectors!Bit
<1> QED
    BY <1>1, <1>2, <1>10, <1>15, <1>16, <1>17
        DEF Vectors!Share, Vec, Nothing, Vectors!Nothing

LEMMA SliceStep ==
    ASSUME ArraysInv, NEW a \in Slots, NEW b \in Slots, NEW st \in Nat, NEW end \in Nat,
           NEW n \in Sizes \cup {0}, Slice(a, b, st, end, n)
    PROVE  ArraysInv' /\ Vectors!Slice(a, b)
<1> DEFINE x == arr[a]
           m == FromSlice(end - st, SliceBits(x, st, end))
           new == [j \in Cells(DivCeil(n)) |-> Vec[a].bits[st * ByteBits + j]]
<1>1. /\ a # b /\ Has(a) /\ st <= end /\ end <= x.byte_size
      /\ n \in (end - st - 1) * ByteBits + 1..(end - st) * ByteBits
      /\ Becomes(b, Fresh(n, end - st, m))
    BY DEF Slice, SliceBits
<1>2. n \in Nat /\ n <= MaxSize /\ n \in 0..MaxSize
    BY MaxSizeType, ArraysAssumption
<1>3. /\ Kept(x) /\ x.bit_size \in Nat /\ Vectors!Held(a)
      /\ Vec[a] = [size |-> x.bit_size,
                   bits |-> [j \in Cells(DivCeil(x.bit_size)) |-> x.mem[j]]]
    BY <1>1, VecOf
<1>4. x.byte_size = DivCeil(x.bit_size) /\ x.byte_size \in Nat
    BY <1>3, KeptArr
<1> HIDE DEF x
<1>5. /\ end - st = DivCeil(n) /\ m \in Mems(n)
      /\ \A j \in Cells(DivCeil(n)) : m[j] = x.mem[st * ByteBits + j]
    BY <1>1, <1>2, <1>3, SliceArr
<1> HIDE DEF m
<1>6. Becomes(b, Arr(n, m))
    BY <1>1, <1>5 DEF Arr
<1>7. /\ ArraysInv' /\ out' = Nothing
      /\ Vec' = [Vec EXCEPT ![b] = [size |-> n,
                                    bits |-> [j \in Cells(DivCeil(n)) |-> m[j]]]]
    BY <1>2, <1>5, <1>6, BecomesArr
<1>8. ASSUME NEW j \in Cells(DivCeil(n)) PROVE Vec[a].bits[st * ByteBits + j] = m[j]
    <2>1. /\ ByteBits \in Nat \ {0} /\ DivCeil(n) \in Nat
          /\ j \in Nat /\ j < DivCeil(n) * ByteBits
        BY <1>2, ByteFacts, CellFacts, ArraysAssumption
    <2>2. st * ByteBits + DivCeil(n) * ByteBits = end * ByteBits
        <3>1. st + DivCeil(n) = end
            BY <1>5, <2>1
        <3>2. (st + DivCeil(n)) * ByteBits = st * ByteBits + DivCeil(n) * ByteBits
            BY <2>1
        <3> QED
            BY <3>1, <3>2
    <2>3. end * ByteBits <= x.byte_size * ByteBits
        BY <1>1, <1>4, <2>1, TimesMono
    <2>4. /\ st * ByteBits \in Nat /\ end * ByteBits \in Nat /\ x.byte_size * ByteBits \in Nat
          /\ DivCeil(n) * ByteBits \in Nat
        BY <1>4, <2>1
    <2>5. st * ByteBits + j \in Nat /\ st * ByteBits + j < x.byte_size * ByteBits
        BY <2>1, <2>2, <2>3, <2>4
    <2>6. st * ByteBits + j \in Cells(DivCeil(x.bit_size))
        BY <1>4, <2>5, CellFacts
    <2> QED
        BY <1>3, <1>5, <2>6
<1>9. [j \in Cells(DivCeil(n)) |-> m[j]] = new
    BY <1>8
<1> HIDE DEF new
<1>10. Vectors!Becomes(b, Vectors!Vector(n, new))
    BY <1>7, <1>9, VectorBecomes DEF Vectors!Vector
<1>11. Vectors!Becomes(b, Vectors!Vector(n,
           [j \in Vectors!Stored(n) |-> Vec[a].bits[st * ByteBits + j]]))
    BY <1>10, VectorCells DEF new
<1>12. st \in 0..Vectors!Bytes(Vec[a].size) /\ end \in 0..Vectors!Bytes(Vec[a].size)
    <2>1. Vectors!Bytes(Vec[a].size) = x.byte_size
        BY <1>3, <1>4, VectorCells
    <2> QED
        BY <1>1, <1>4, <2>1
<1>13. Vectors!Bytes(n) = end - st
    BY <1>5, VectorCells
<1> QED
    BY <1>1, <1>3, <1>7, <1>11, <1>12, <1>13 DEF Vectors!Slice, Vec

\* The tail of the last lane adds nothing to a count of ones.
LEMMA OnesCounted ==
    ASSUME NEW n \in Nat, NEW m \in Mems(n)
    PROVE  /\ Cardinality({j \in Lanes(n) : m[j] = 1}) % 2 \in Bit
           /\ Cardinality({j \in Lanes(n) : m[j] = 1}) % 2 =
                  Vectors!SumOf(VectorOf(n, m).bits)
<1> DEFINE ones == {j \in Lanes(n) : m[j] = 1}
           bits == VectorOf(n, m).bits
<1>1. bits = [j \in Cells(DivCeil(n)) |-> m[j]]
    BY DEF VectorOf
<1>2. ones = {j \in DOMAIN bits : bits[j] = 1}
    <2>1. \A j \in Cells(DivCeil(n)) : j \in Lanes(n)
        BY ArrayCells DEF Lanes
    <2>2. \A j \in Lanes(n) : j \notin Cells(DivCeil(n)) => m[j] # 1
        BY MemFacts
    <2> QED
        BY <1>1, <2>1, <2>2
<1>3. Cardinality(ones) \in Nat
    <2> DEFINE top == CreateLayout(DivCeil(n)) * ByteBits - 1
    <2>1. DivCeil(n) \in Nat /\ CreateLayout(DivCeil(n)) \in Nat /\ ByteBits \in Nat
        BY ByteFacts, LayoutFacts, ArraysAssumption
    <2>2. top \in Int
        BY <2>1
    <2>3. Lanes(n) = 0..top
        BY DEF Lanes, Cells
    <2> HIDE DEF top
    <2>4. IsFiniteSet(0..top)
        BY <2>2, FS_Interval
    <2>5. ones \subseteq 0..top
        BY <2>3
    <2> HIDE DEF ones
    <2> QED
        BY <2>4, <2>5, FS_Subset, FS_CardinalityType
<1> HIDE DEF ones, bits
<1>4. Cardinality(ones) % 2 \in Bit
    BY <1>3 DEF Bit
<1>5. Cardinality(ones) % 2 = Vectors!SumOf(bits)
    <2>1. Vectors!Cardinality(ones) = Cardinality(ones)
        BY Zenon DEF Cardinality, Vectors!Cardinality
    <2> QED
        BY <1>2, <2>1 DEF Vectors!SumOf
<1> QED
    BY <1>4, <1>5 DEF ones, bits

LEMMA ParityStep ==
    ASSUME ArraysInv, NEW a \in Slots, Parity(a)
    PROVE  ArraysInv' /\ Vectors!Parity(a)
<1> DEFINE x == arr[a]
           n == x.bit_size
           v == Cardinality({j \in Lanes(n) : x.mem[j] = 1}) % 2
<1>1. Has(a) /\ Returns(ParityOf(x))
    BY DEF Parity
<1>2. /\ Kept(x) /\ n \in Nat /\ Vectors!Held(a) /\ Vec[a] = VectorOf(n, x.mem)
    BY <1>1, VecOf DEF VectorOf
<1>3. x.mem \in Mems(n) /\ LanesOf(x) = Lanes(n)
    BY <1>2, KeptArr
<1> HIDE DEF x
<1>4. ParityOf(x) = v
    BY <1>3 DEF ParityOf, CountOnes
<1>5. v \in Bit /\ v = Vectors!SumOf(Vec[a].bits)
    BY <1>2, <1>3, OnesCounted
<1> HIDE DEF v
<1>6. ArraysInv' /\ Vec' = Vec /\ out' = Vectors!SumOf(Vec[a].bits)
    BY <1>1, <1>4, <1>5, ReturnsKept
<1>7. Vectors!Returns(Vectors!SumOf(Vec[a].bits))
    BY <1>6 DEF Vectors!Returns, Vec
<1> QED
    BY <1>2, <1>6, <1>7 DEF Vectors!Parity, Vec

LEMMA InnerProdStep ==
    ASSUME ArraysInv, NEW a \in Slots, NEW b \in Slots, InnerProd(a, b)
    PROVE  ArraysInv' /\ Vectors!InnerProd(a, b)
<1> DEFINE x == arr[a]
           y == arr[b]
           n == x.bit_size
           m == AndMem(n, x.mem, y.mem)
           v == Cardinality({j \in Lanes(n) : m[j] = 1}) % 2
           w == CountOnes(x, LAMBDA j : x.mem[j] * y.mem[j])
<1>1. SameSize(a, b) /\ Returns(w)
    BY DEF InnerProd
<1>2. /\ Kept(x) /\ Kept(y) /\ y.bit_size = n /\ n \in Nat
      /\ Vec[a] = VectorOf(n, x.mem) /\ Vec[b] = VectorOf(n, y.mem)
      /\ Vectors!Alike(a, b)
    BY <1>1, SameSizeFacts DEF VectorOf
<1>3. LanesOf(x) = Lanes(n)
    BY <1>2, KeptArr
<1>4. m \in Mems(n)
    BY <1>2, AndArr DEF AndMem
<1>5. w = v
    <2>1. \A j \in Lanes(n) : m[j] = x.mem[j] * y.mem[j]
        BY DEF AndMem
    <2> HIDE DEF m
    <2>2. {j \in Lanes(n) : x.mem[j] * y.mem[j] = 1} = {j \in Lanes(n) : m[j] = 1}
        BY <2>1
    <2> QED
        BY <1>3, <2>2 DEF CountOnes
<1> HIDE DEF x, y
<1>6. Vectors!Anded(Vec[a], Vec[b]) = VectorOf(n, m)
    BY <1>2, AndVector
<1> HIDE DEF m
<1>7. v \in Bit /\ v = Vectors!SumOf(Vectors!Anded(Vec[a], Vec[b]).bits)
    BY <1>2, <1>4, <1>6, OnesCounted
<1> HIDE DEF v, w
<1>8. ArraysInv' /\ Vec' = Vec /\ out' = Vectors!SumOf(Vectors!Anded(Vec[a], Vec[b]).bits)
    BY <1>1, <1>5, <1>7, ReturnsKept
<1>9. Vectors!Returns(Vectors!SumOf(Vectors!Anded(Vec[a], Vec[b]).bits))
    BY <1>8 DEF Vectors!Returns, Vec
<1> QED
    BY <1>2, <1>8, <1>9 DEF Vectors!InnerProd, Vec

LEMMA EqStep ==
    ASSUME ArraysInv, NEW a \in Slots, NEW b \in Slots, Eq(a, b)
    PROVE  ArraysInv' /\ Vectors!Eq(a, b)
<1> DEFINE x == arr[a]
           y == arr[b]
           n == x.bit_size
           same == n = y.bit_size /\ \A j \in LanesOf(x) : x.mem[j] = y.mem[j]
<1>1. Has(a) /\ Has(b) /\ Returns(IF same THEN 1 ELSE 0)
    BY DEF Eq
<1>2. /\ Kept(x) /\ n \in Nat /\ Vectors!Held(a) /\ Vec[a] = VectorOf(n, x.mem)
    BY <1>1, VecOf DEF VectorOf
<1>3. /\ Kept(y) /\ Vectors!Held(b) /\ Vec[b] = VectorOf(y.bit_size, y.mem)
    BY <1>1, VecOf DEF VectorOf
<1>4. x.mem \in Mems(n) /\ LanesOf(x) = Lanes(n) /\ y.mem \in Mems(y.bit_size)
    BY <1>2, <1>3, KeptArr
<1> HIDE DEF x, y
<1>5. same <=> Vec[a] = Vec[b]
    <2>1. CASE n # y.bit_size
        <3>1. Vec[a].size # Vec[b].size
            BY <1>2, <1>3, <2>1 DEF VectorOf
        <3> QED
            BY <2>1, <3>1
    <2>2. CASE n = y.bit_size
        <3>1. \A j \in Cells(DivCeil(n)) : j \in Lanes(n)
            BY <1>2, ArrayCells DEF Lanes
        <3>2. /\ \A j \in Cells(DivCeil(n)) : Vec[a].bits[j] = x.mem[j]
              /\ \A j \in Cells(DivCeil(n)) : Vec[b].bits[j] = y.mem[j]
            BY <1>2, <1>3, <2>2 DEF VectorOf
        <3>3. \A j \in Lanes(n) \ Cells(DivCeil(n)) : x.mem[j] = 0 /\ y.mem[j] = 0
            BY <1>2, <1>4, <2>2, MemFacts
        <3>4. ASSUME same PROVE Vec[a] = Vec[b]
            <4>1. [j \in Cells(DivCeil(n)) |-> x.mem[j]] = [j \in Cells(DivCeil(n)) |-> y.mem[j]]
                BY <1>4, <3>1, <3>4
            <4> QED
                BY <1>2, <1>3, <2>2, <4>1 DEF VectorOf
        <3>5. ASSUME Vec[a] = Vec[b] PROVE same
            <4>1. \A j \in Lanes(n) : x.mem[j] = y.mem[j]
                BY <3>2, <3>3, <3>5
            <4> QED
                BY <1>4, <2>2, <4>1
        <3> QED
            BY <3>4, <3>5
    <2> QED
        BY <2>1, <2>2
<1> DEFINE v == IF same THEN 1 ELSE 0
<1>6. v \in Bit /\ v = IF Vec[a] = Vec[b] THEN 1 ELSE 0
    BY <1>5 DEF Bit
<1>7. Returns(v)
    BY <1>1
<1> HIDE DEF v
<1>8. ArraysInv' /\ Vec' = Vec /\ out' = IF Vec[a] = Vec[b] THEN 1 ELSE 0
    BY <1>6, <1>7, ReturnsKept
<1>9. Vectors!Returns(IF Vec[a] = Vec[b] THEN 1 ELSE 0)
    BY <1>8 DEF Vectors!Returns, Vec
<1> QED
    BY <1>2, <1>3, <1>8, <1>9 DEF Vectors!Eq, Vec

LEMMA NoArrayVector == AsVector(NoArray) = Vectors!NoVector
<1>1. Cells(0) = {}
    BY ArraysAssumption DEF Cells
<1>2. [j \in {} |-> NoArray.mem[j]] = << >>
    OBVIOUS
<1>3. AsVector(NoArray) = [size |-> NoArray.bit_size,
                           bits |-> [j \in Cells(NoArray.byte_size) |-> NoArray.mem[j]]]
    BY DEF AsVector, SubBits
<1>4. NoArray.byte_size = 0 /\ NoArray.bit_size = -1
    BY DEF NoArray
<1> QED
    BY <1>1, <1>2, <1>3, <1>4 DEF Vectors!NoVector, Vectors!Vector

LEMMA DropStep ==
    ASSUME ArraysInv, NEW a \in Slots, Drop(a)
    PROVE  ArraysInv' /\ Vectors!Clear(a)
<1>1. /\ Has(a) /\ arr' = [arr EXCEPT ![a] = NoArray] /\ out' = Nothing
      /\ freed' = <<arr[a].alloc, arr[a].byte_size>>
    BY DEF Drop
<1>2. Kept(arr[a])
    BY <1>1, HeldArrays
<1>3. arr[a].byte_size \in Nat /\ arr[a].alloc = CreateLayout(arr[a].byte_size)
    BY <1>2, KeptArr
<1>4. out' \in Bit \cup {Nothing} /\ freed' \in Nat \X Nat
    BY <1>1, <1>3, LayoutFacts
<1>5. arr' = [b \in Slots |-> IF b = a THEN NoArray ELSE arr[b]]
    BY <1>1 DEF ArraysInv
<1>6. arr' = [b \in Slots |-> arr'[b]] /\ \A b \in Slots : arr'[b] = NoArray \/ Kept(arr'[b])
    BY <1>5 DEF ArraysInv
<1>7. ArraysInv' /\ Vec' = [b \in Slots |-> AsVector(arr'[b])]
    BY <1>4, <1>6, StepKept
<1>8. Vec' = [Vec EXCEPT ![a] = Vectors!NoVector]
    BY <1>5, <1>7, NoArrayVector DEF Vec
<1>9. Vectors!Becomes(a, Vectors!NoVector)
    BY <1>1, <1>8, VectorBecomes
<1> QED
    BY <1>7, <1>9 DEF Vectors!Clear

----------------------------------------------------------------------------
(* The theorems.                                                           *)

\* Every step keeps the invariant and is a step of the vectors.
LEMMA StepArrays ==
    ASSUME ArraysInv, Next
    PROVE  ArraysInv' /\ Vectors!Next
<1>1. PICK a \in Slots :
          \/ \E n \in Sizes :
                \/ New(a, n) \/ Shrink(a, n)
                \/ \E k \in Draws : Random(a, n, k) \/ FromByteSlice(a, n, k)
                \/ \E at \in 0..MaxSize : CopyFrom(a, at, OnesOf(n))
          \/ \E i \in 0..MaxSize, v \in Bit : SetBit(a, i, v)
          \/ Parity(a) \/ Drop(a)
          \/ \E b \in Slots :
                \/ Clone(a, b) \/ InplaceXor(a, b) \/ InplaceAnd(a, b)
                \/ InnerProd(a, b) \/ Eq(a, b)
                \/ a # b /\ Has(b) /\ \E at \in 0..MaxSize : CopyFrom(a, at, arr[b])
                \/ \E st, end \in 0..DivCeil(MaxSize), n \in Sizes \cup {0} :
                      Slice(a, b, st, end, n)
                \/ \E k \in Draws : InplaceSecretShare(a, b, k)
                \/ \E c \in Slots : MutAnd(c, a, b)
    BY DEF Next
<1>2. /\ \A i \in 0..MaxSize : i \in Nat
      /\ \A i \in 0..DivCeil(MaxSize) : i \in Nat
    BY MaxSizeType, ByteFacts
<1> DEFINE Goal == ArraysInv' /\ Vectors!Next
<1>3. ASSUME Vectors!Zeros(a) \/ Vectors!Fill(a) \/ Vectors!SetBit(a)
                 \/ Vectors!CopyOnes(a) \/ Vectors!Shrink(a) \/ Vectors!Parity(a)
                 \/ Vectors!Clear(a)
      PROVE  Vectors!Next
    BY <1>3 DEF Vectors!Next
<1>4. ASSUME NEW b \in Slots,
             \/ Vectors!CopyFrom(a, b) \/ Vectors!Slice(a, b) \/ Vectors!Clone(a, b)
             \/ Vectors!Xor(a, b) \/ Vectors!And(a, b) \/ Vectors!Share(a, b)
             \/ Vectors!InnerProd(a, b) \/ Vectors!Eq(a, b)
             \/ \E c \in Slots : Vectors!MutAnd(c, a, b)
      PROVE  Vectors!Next
    BY <1>4 DEF Vectors!Next
<1>5. ASSUME NEW n \in Sizes, New(a, n) PROVE Goal
    BY <1>3, <1>5, NewStep
<1>6. ASSUME NEW n \in Sizes, Shrink(a, n) PROVE Goal
    BY <1>3, <1>6, ShrinkStep
<1>7. ASSUME NEW n \in Sizes, NEW k \in Draws, Random(a, n, k) \/ FromByteSlice(a, n, k)
      PROVE  Goal
    BY <1>3, <1>7, RandomStep
<1>8. ASSUME NEW n \in Sizes, NEW at \in 0..MaxSize, CopyFrom(a, at, OnesOf(n)) PROVE Goal
    BY <1>2, <1>3, <1>8, CopyOnesStep
<1>9. ASSUME NEW i \in 0..MaxSize, NEW v \in Bit, SetBit(a, i, v) PROVE Goal
    BY <1>2, <1>3, <1>9, SetBitStep
<1>10. ASSUME Parity(a) PROVE Goal
    BY <1>3, <1>10, ParityStep
<1>11. ASSUME Drop(a) PROVE Goal
    BY <1>3, <1>11, DropStep
<1>12. ASSUME NEW b \in Slots, Clone(a, b) PROVE Goal
    BY <1>4, <1>12, CloneStep
<1>13. ASSUME NEW b \in Slots, InplaceXor(a, b) PROVE Goal
    BY <1>4, <1>13, XorStep
<1>14. ASSUME NEW b \in Slots, InplaceAnd(a, b) PROVE Goal
    BY <1>4, <1>14, AndStep
<1>15. ASSUME NEW b \in Slots, InnerProd(a, b) PROVE Goal
    BY <1>4, <1>15, InnerProdStep
<1>16. ASSUME NEW b \in Slots, Eq(a, b) PROVE Goal
    BY <1>4, <1>16, EqStep
<1>17. ASSUME NEW b \in Slots, a # b, Has(b), NEW at \in 0..MaxSize, CopyFrom(a, at, arr[b])
       PROVE  Goal
    BY <1>2, <1>4, <1>17, CopyFromStep
<1>18. ASSUME NEW b \in Slots, NEW st \in 0..DivCeil(MaxSize), NEW end \in 0..DivCeil(MaxSize),
              NEW n \in Sizes \cup {0}, Slice(a, b, st, end, n)
       PROVE  Goal
    BY <1>2, <1>4, <1>18, SliceStep
<1>19. ASSUME NEW b \in Slots, NEW k \in Draws, InplaceSecretShare(a, b, k) PROVE Goal
    BY <1>4, <1>19, ShareStep
<1>20. ASSUME NEW b \in Slots, NEW c \in Slots, MutAnd(c, a, b) PROVE Goal
    BY <1>4, <1>20, MutAndStep
<1> HIDE DEF Goal
<1>21. Goal
    BY <1>1, <1>5, <1>6, <1>7, <1>8, <1>9, <1>10, <1>11, <1>12, <1>13, <1>14, <1>15,
        <1>16, <1>17, <1>18, <1>19, <1>20
<1> QED
    BY <1>21 DEF Goal

LEMMA StutterArrays ==
    ASSUME ArraysInv, UNCHANGED vars
    PROVE  ArraysInv' /\ UNCHANGED Vectors!vvars
<1>1. arr' = arr /\ out' = out /\ freed' = freed
    BY DEF vars
<1>2. /\ arr' = [b \in Slots |-> arr'[b]]
      /\ \A b \in Slots : arr'[b] = NoArray \/ Kept(arr'[b])
      /\ out' \in Bit \cup {Nothing} /\ freed' \in Nat \X Nat
    BY <1>1 DEF ArraysInv
<1>3. ArraysInv' /\ Vec' = [b \in Slots |-> AsVector(arr'[b])]
    BY <1>2, StepKept
<1>4. Vec' = Vec
    BY <1>1, <1>3 DEF Vec
<1> QED
    BY <1>1, <1>3, <1>4 DEF Vectors!vvars, Vec

LEMMA InitArrays == Init => ArraysInv /\ Vectors!Init
<1> SUFFICES ASSUME Init PROVE ArraysInv /\ Vectors!Init
    OBVIOUS
<1>1. arr = [a \in Slots |-> NoArray] /\ out = Nothing /\ freed = NotFreed
    BY DEF Init
<1>2. ArraysInv
    BY <1>1 DEF ArraysInv, NotFreed
<1>3. Vec = [a \in Slots |-> Vectors!NoVector]
    BY <1>1, NoArrayVector DEF Vec
<1> QED
    BY <1>1, <1>2, <1>3 DEF Vectors!Init, Vec, Nothing, Vectors!Nothing

\* Whatever is done to arrays of whatever sizes, every array has the bytes that
\* its bits need, on an allocation of whole lanes, and no operation leaves
\* anything in the tail of a lane.
THEOREM ArraysInvariance == Spec => []ArraysInv
<1>1. ArraysInv /\ [Next]_vars => ArraysInv'
    BY StepArrays, StutterArrays
<1> QED
    BY <1>1, InitArrays, PTL DEF Spec

\* The unchecked loads and stores of BitArray and AU8Array stay inside the
\* allocations, in every state that calls can lead to.
THEOREM NoAccessOutside == Spec => []AccessesInside
<1>1. ArraysInv => AccessesInside
    <2> SUFFICES ASSUME ArraysInv, NEW a \in Slots, NEW b \in Slots, Has(a), Has(b)
                 PROVE  /\ AlignMaxLen(arr[a].byte_size) <= arr[a].alloc
                        /\ SameSize(a, b) => AlignMaxLen(arr[a].byte_size) <= arr[b].alloc
                        /\ \A at \in 0..arr[a].bit_size - arr[b].bit_size :
                              at % ByteBits = 0 /\ arr[b].bit_size % ByteBits = 0 =>
                                  /\ at \div ByteBits + arr[b].byte_size <= arr[a].byte_size
                                  /\ arr[b].byte_size <= arr[b].alloc
        BY DEF AccessesInside
    <2> DEFINE n == arr[a].bit_size
               s == arr[b].bit_size
    <2>1. /\ n \in Nat /\ s \in Nat
          /\ arr[a].byte_size = DivCeil(n) /\ arr[b].byte_size = DivCeil(s)
          /\ arr[a].alloc = CreateLayout(DivCeil(n)) /\ arr[b].alloc = CreateLayout(DivCeil(s))
        BY HeldArrays, KeptArr
    <2>2. /\ DivCeil(n) \in Nat /\ DivCeil(s) \in Nat /\ n <= DivCeil(n) * ByteBits
          /\ DivCeil(n) * ByteBits \in Nat
        BY <2>1, ByteFacts
    <2>3. /\ AlignMaxLen(DivCeil(n)) = CreateLayout(DivCeil(n))
          /\ CreateLayout(DivCeil(n)) \in Nat
          /\ DivCeil(s) <= CreateLayout(DivCeil(s))
        BY <2>2, LayoutFacts
    <2>4. SameSize(a, b) => n = s
        BY DEF SameSize
    <2> HIDE DEF n, s
    <2>5. ASSUME NEW at \in 0..n - s, at % ByteBits = 0, s % ByteBits = 0
          PROVE  at \div ByteBits + DivCeil(s) <= DivCeil(n)
        <3>1. at \in Nat /\ at + s <= n
            BY <2>1
        <3>2. /\ DivCeil(at) * ByteBits = at /\ DivCeil(at) = at \div ByteBits
              /\ DivCeil(s) * ByteBits = s /\ DivCeil(at) \in Nat
            BY <2>1, <2>5, <3>1, WholeBytes, ByteFacts
        <3>3. ByteBits \in Nat \ {0}
            BY ArraysAssumption
        <3>4. (DivCeil(at) + DivCeil(s)) * ByteBits = at + s
            <4>1. (DivCeil(at) + DivCeil(s)) * ByteBits
                      = DivCeil(at) * ByteBits + DivCeil(s) * ByteBits
                <5>1. \A i, j, k \in Nat : (i + j) * k = i * k + j * k
                    OBVIOUS
                <5> QED
                    BY <2>2, <3>2, <3>3, <5>1
            <4> QED
                BY <3>2, <4>1
        <3>5. (DivCeil(at) + DivCeil(s)) * ByteBits < DivCeil(n) * ByteBits + ByteBits
            BY <2>1, <2>2, <3>1, <3>3, <3>4
        <3>6. DivCeil(at) + DivCeil(s) <= DivCeil(n)
            BY <2>2, <3>2, <3>3, <3>5, TimesLess
        <3> QED
            BY <3>2, <3>6
    <2> QED
        BY <2>1, <2>3, <2>4, <2>5 DEF n, s
<1> QED
    BY <1>1, ArraysInvariance, PTL

\* BitArray on aligned memory is a vector of bits: whatever the lanes hold
\* beyond the bytes of an array never reaches a bit of any array nor a result.
THEOREM ArraysAreVectors == Spec => RefinesVectors
<1>1. ArraysInv /\ [Next]_vars => [Vectors!Next]_Vectors!vvars
    BY StepArrays, StutterArrays
<1>2. Init => Vectors!Init
    BY InitArrays
<1> QED
    BY <1>1, <1>2, ArraysInvariance, PTL DEF Spec, RefinesVectors, Vectors!VectorSpec
============================================================================

------------------------------ MODULE BitArrays ------------------------------
(***************************************************************************)
(* BitArray on AU8Array.  An array owns an allocation rounded up to whole  *)
(* lanes of Align bytes, and the bitwise operations run over all lanes of  *)
(* self, whatever its size: they read and write the padding bits of the    *)
(* last byte and the tail behind it, in the other operand too.             *)
(***************************************************************************)
EXTENDS Integers, Sequences, FiniteSets, FiniteSetsExt

CONSTANTS
    Slots,      \* the variables of the program that hold an array
    Sizes,      \* sizes in bits that arrays are made with
    ByteBits,   \* bits of a byte (8)
    Align       \* bytes of a lane (32)

ASSUME ArraysAssumption ==
    /\ Sizes \subseteq Nat \ {0}
    /\ \E largest \in Sizes : \A n \in Sizes : largest >= n   \* a usize
    /\ ByteBits \in Nat \ {0} /\ Align \in Nat \ {0}

VARIABLES
    arr,    \* [Slots -> arrays or NoArray]
    out,    \* what the last call returned: 0, 1 or Nothing
    freed   \* sizes allocated and passed to dealloc if the last call was a drop

vars == <<arr, out, freed>>

Nothing == 2
Bit == {0, 1}
MaxSize == Max(Sizes)

DivCeil(n) == (n + ByteBits - 1) \div ByteBits

\* An array: sizes in bits and bytes, bytes allocated, and the bits of memory.
NoArray == [bit_size |-> -1, byte_size |-> 0, alloc |-> 0, mem |-> << >>]

Has(a) == arr[a].bit_size # NoArray.bit_size

NotFreed == <<0, 0>>

Init ==
    /\ arr = [a \in Slots |-> NoArray]
    /\ out = Nothing
    /\ freed = NotFreed

Becomes(a, x) ==
    arr' = [arr EXCEPT ![a] = x] /\ out' = Nothing /\ freed' = NotFreed

Returns(v) == out' = v /\ freed' = NotFreed /\ UNCHANGED arr

----------------------------------------------------------------------------
(* AU8Array.                                                               *)

\* The size of create_layout.
CreateLayout(len) == IF len % Align # 0 THEN len + Align - (len % Align) ELSE len

\* Mutant: a whole lane is added to a length that is a multiple already.
AlignMaxLenNext(len) == len + Align - (len % Align)

AlignMaxLen(len) == IF len % Align = 0 THEN len ELSE len + Align - (len % Align)

\* The bits of so many bytes of memory.
Cells(bytes) == 0..bytes * ByteBits - 1

\* An array of n bits on a fresh allocation with this content.
Fresh(n, bytes, mem) ==
    [bit_size |-> n, byte_size |-> bytes, alloc |-> CreateLayout(bytes), mem |-> mem]

\* alloc_zeroed.
ZeroMem(len) == [j \in Cells(CreateLayout(len)) |-> 0]

\* write_bytes(0xFF) over the aligned length.
OnesMem(len) == [j \in Cells(CreateLayout(len)) |-> IF j \in Cells(AlignMaxLen(len)) THEN 1 ELSE 0]

\* Mutant: the last lane is not cleared (fresh memory holds ones).
FromSliceUncleared(len, src) ==
    [j \in Cells(CreateLayout(len)) |-> IF j \in Cells(len) THEN src[j] ELSE 1]

\* from_slice: whole lanes are copied, a last partial lane is cleared and its
\* bytes copied; no bytes make an empty array without an allocation.
FromSlice(len, src) ==
    LET simd_pass == len - (len % Align)
        cleared == IF len % Align # 0 THEN Cells(simd_pass + Align) \ Cells(simd_pass) ELSE {}
    IN  [j \in Cells(CreateLayout(len)) |->
            IF j \in Cells(len) THEN src[j] ELSE IF j \in cleared THEN 0 ELSE 1]

\* The lanes that an operation on x runs over.
LanesOf(x) == Cells(AlignMaxLen(x.byte_size))

\* What lane-wise operations store into x.
Stored(x, f(_)) ==
    [x EXCEPT !.mem = [j \in DOMAIN @ |-> IF j \in LanesOf(x) THEN f(j) ELSE @[j]]]

----------------------------------------------------------------------------
(* Creating arrays.                                                        *)

New(a, n) == Becomes(a, Fresh(n, DivCeil(n), ZeroMem(DivCeil(n))))

\* The bytes that random and from_byte_slice are tried with: alternating bits
\* and ones.
Draws == {0, 1}
Pattern(k) == [j \in Cells(DivCeil(MaxSize)) |-> IF k = 0 THEN j % 2 ELSE 1]

\* random: all bytes of an array of zeros are drawn, padding bits too.
Drawn(n, k) ==
    Fresh(n, DivCeil(n),
          [j \in Cells(CreateLayout(DivCeil(n))) |->
              IF j \in Cells(DivCeil(n)) THEN Pattern(k)[j] ELSE 0])

Random(a, n, k) == Becomes(a, Drawn(n, k))

FromByteSlice(a, n, k) ==
    Becomes(a, Fresh(n, DivCeil(n), FromSlice(DivCeil(n), Pattern(k))))

\* ones; exec_operation only copies from it.
OnesOf(n) == Fresh(n, DivCeil(n), OnesMem(DivCeil(n)))

\* AU8Array::clone copies lane by lane; an empty array cannot be cloned.
Clone(a, b) ==
    /\ a # b
    /\ Has(a) /\ arr[a].byte_size > 0
    /\ LET x == arr[a] IN
       Becomes(b, Stored(Fresh(x.bit_size, x.byte_size, ZeroMem(x.byte_size)),
                         LAMBDA j : x.mem[j]))

----------------------------------------------------------------------------
(* Bits and ranges.                                                        *)

SetBit(a, i, v) ==
    /\ Has(a)
    /\ i < arr[a].bit_size
    /\ Becomes(a, [arr[a] EXCEPT !.mem[i] = v])

\* copy_from: bit by bit unless offset and size are whole bytes.
Copied(x, at, source) ==
    LET cells == IF at % ByteBits # 0 \/ source.bit_size % ByteBits # 0
                 THEN 0..source.bit_size - 1
                 ELSE Cells(source.byte_size)
    IN  [x EXCEPT !.mem =
            [j \in DOMAIN @ |-> IF j - at \in cells THEN source.mem[j - at] ELSE @[j]]]

CopyFrom(a, at, source) ==
    /\ Has(a)
    /\ at + source.bit_size <= arr[a].bit_size
    /\ Becomes(a, Copied(arr[a], at, source))

\* to_slice, and read_output's shrinking of the last byte to n bits.
Slice(a, b, st, end, n) ==
    /\ a # b
    /\ Has(a)
    /\ st <= end /\ end <= arr[a].byte_size
    /\ n \in (end - st - 1) * ByteBits + 1..(end - st) * ByteBits
    /\ Becomes(b, Fresh(n, end - st,
           FromSlice(end - st, [j \in Cells(end - st) |-> arr[a].mem[st * ByteBits + j]])))

\* shrink_to_partial_last_byte, of whole bytes as its caller read_output has them.
Shrink(a, n) ==
    /\ Has(a)
    /\ arr[a].bit_size % ByteBits = 0
    /\ n <= arr[a].bit_size /\ n + ByteBits > arr[a].bit_size
    /\ Becomes(a, [arr[a] EXCEPT !.bit_size = n])

----------------------------------------------------------------------------
(* Operations on whole lanes.                                              *)

SameSize(a, b) == Has(a) /\ Has(b) /\ arr[a].bit_size = arr[b].bit_size

XorOf(x, y) == Stored(x, LAMBDA j : (x.mem[j] + y.mem[j]) % 2)
AndOf(x, y) == Stored(x, LAMBDA j : x.mem[j] * y.mem[j])

InplaceXor(a, b) == a # b /\ SameSize(a, b) /\ Becomes(a, XorOf(arr[a], arr[b]))
InplaceAnd(a, b) == a # b /\ SameSize(a, b) /\ Becomes(a, AndOf(arr[a], arr[b]))

MutAnd(c, a, b) ==
    /\ c \notin {a, b}
    /\ SameSize(a, b) /\ SameSize(a, c)
    /\ Becomes(c, Stored(arr[c], LAMBDA j : arr[a].mem[j] * arr[b].mem[j]))

\* inplace_secret_share between two parties.
InplaceSecretShare(a, b, k) ==
    /\ a # b
    /\ Has(a) /\ arr[a].bit_size > 0
    /\ LET drawn == Drawn(arr[a].bit_size, k) IN
       arr' = [arr EXCEPT ![a] = XorOf(@, drawn), ![b] = drawn]
    /\ out' = Nothing /\ freed' = NotFreed

\* The lanes of x are xored into one, whose ones are counted modulo two: the
\* number of ones in all lanes, modulo two.
CountOnes(x, f(_)) == Cardinality({j \in LanesOf(x) : f(j) = 1}) % 2

ParityOf(x) == CountOnes(x, LAMBDA j : x.mem[j])

Parity(a) == Has(a) /\ Returns(ParityOf(arr[a]))

InnerProd(a, b) ==
    /\ SameSize(a, b)
    /\ Returns(CountOnes(arr[a], LAMBDA j : arr[a].mem[j] * arr[b].mem[j]))

Eq(a, b) ==
    /\ Has(a) /\ Has(b)
    /\ Returns(IF /\ arr[a].bit_size = arr[b].bit_size
                  /\ \A j \in LanesOf(arr[a]) : arr[a].mem[j] = arr[b].mem[j]
               THEN 1 ELSE 0)

\* Drop: the layout is made from the length itself.
Drop(a) ==
    /\ Has(a)
    /\ arr' = [arr EXCEPT ![a] = NoArray]
    /\ out' = Nothing
    /\ freed' = <<arr[a].alloc, arr[a].byte_size>>

Next ==
    \E a \in Slots :
        \/ \E n \in Sizes :
              \/ New(a, n) \/ Shrink(a, n)
              \/ \E k \in Draws : Random(a, n, k) \/ FromByteSlice(a, n, k)
              \/ \E at \in 0..MaxSize : CopyFrom(a, at, OnesOf(n))
        \/ \E i \in 0..MaxSize, v \in Bit : SetBit(a, i, v)
        \/ Parity(a) \/ Drop(a)
        \/ \E b \in Slots :
              \/ Clone(a, b) \/ InplaceXor(a, b) \/ InplaceAnd(a, b)
              \/ InnerProd(a, b) \/ Eq(a, b)
              \/ a # b /\ Has(b) /\ \E at \in 0..MaxSize : CopyFrom(a, at, arr[b])
              \/ \E st, end \in 0..DivCeil(MaxSize), n \in Sizes \cup {0} : Slice(a, b, st, end, n)
              \/ \E k \in Draws : InplaceSecretShare(a, b, k)
              \/ \E c \in Slots : MutAnd(c, a, b)

Spec == Init /\ [][Next]_vars
----------------------------------------------------------------------------
(* Properties.                                                             *)

\* The unchecked loads and stores stay inside the allocations, in every call
\* that the assertions let through from here: lane-wise operations run over
\* the lanes of self in both operands, which only have equal sizes in bits,
\* and the byte-wise copy counts the bytes of the source.
AccessesInside ==
    \A a, b \in Slots : Has(a) /\ Has(b) =>
        /\ AlignMaxLen(arr[a].byte_size) <= arr[a].alloc
        /\ SameSize(a, b) => AlignMaxLen(arr[a].byte_size) <= arr[b].alloc
        /\ \A at \in 0..arr[a].bit_size - arr[b].bit_size :
              at % ByteBits = 0 /\ arr[b].bit_size % ByteBits = 0 =>
                  /\ at \div ByteBits + arr[b].byte_size <= arr[a].byte_size
                  /\ arr[b].byte_size <= arr[b].alloc

\* Arrays are vectors of whole bytes: whatever the lanes hold behind the bytes
\* of an array never reaches a bit of any array nor the result of parity,
\* inner_prod or eq, and copies touch no bit outside their range.
SubBits(x) == [j \in Cells(x.byte_size) |-> x.mem[j]]
AsVector(x) == [size |-> x.bit_size, bits |-> SubBits(x)]

Vectors == INSTANCE BitVectors WITH vec <- [a \in Slots |-> AsVector(arr[a])]

RefinesVectors == Vectors!VectorSpec

\* A drop "recomputes" the layout: it frees an allocation with the size that
\* it was made with, as dealloc requires.
DropMatchesAlloc == freed[1] = freed[2]
----------------------------------------------------------------------------
(* The inductive invariant behind these properties.                        *)

\* An array has the bytes that its bits need and an allocation of whole lanes,
\* and the tail of the last lane is zero.
Kept(x) ==
    /\ x \in [bit_size : 0..MaxSize, byte_size : Nat, alloc : Nat,
              mem : [Cells(CreateLayout(x.byte_size)) -> Bit]]
    /\ x.byte_size = DivCeil(x.bit_size)
    /\ x.alloc = CreateLayout(x.byte_size)
    /\ \A j \in Cells(x.alloc) \ Cells(x.byte_size) : x.mem[j] = 0

\* The types of the variables, and what every call leaves of an array: no
\* operation puts anything in the tail of the last lane, although none but the
\* constructors clears it and most run over it.
ArraysInv ==
    /\ arr = [a \in Slots |-> arr[a]]
    /\ \A a \in Slots : arr[a] = NoArray \/ Kept(arr[a])
    /\ out \in Bit \cup {Nothing}
    /\ freed \in Nat \X Nat
=============================================================================

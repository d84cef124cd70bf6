----------------------------- MODULE BitVectors -----------------------------
(***************************************************************************)
(* What BitArray promises: vectors of bits, stored in whole bytes, without *)
(* memory, lanes or alignment.  The bits of the last byte beyond the size  *)
(* of a vector are kept, and whole-vector operations include them; no      *)
(* other operation reads or writes them.                                   *)
(***************************************************************************)
EXTENDS Integers, FiniteSets

CONSTANTS
    Slots,      \* the variables of the program that hold a vector
    Sizes,      \* sizes of vectors, in bits
    ByteBits    \* bits of a byte (8)

VARIABLES
    vec,   \* [Slots -> vectors or NoVector]
    out    \* what the last call returned: 0, 1 or Nothing

vvars == <<vec, out>>

Nothing == 2
Bit == {0, 1}

\* The number of bytes, and of bits in them, that hold n bits.
Bytes(n) == (n + ByteBits - 1) \div ByteBits
Stored(n) == 0..Bytes(n) * ByteBits - 1

Vector(n, bits) == [size |-> n, bits |-> bits]
NoVector == Vector(-1, << >>)
Held(a) == vec[a].size # NoVector.size

Init == vec = [a \in Slots |-> NoVector] /\ out = Nothing

Becomes(a, v) == out' = Nothing /\ vec' = [vec EXCEPT ![a] = v]
Returns(v) == UNCHANGED vec /\ out' = v

SumOf(bits) == Cardinality({j \in DOMAIN bits : bits[j] = 1}) % 2

\* new; random and from_byte_slice.
Zeros(a) == \E n \in Sizes : Becomes(a, Vector(n, [j \in Stored(n) |-> 0]))

Fill(a) ==
    /\ vec' = [vec EXCEPT ![a] = vec'[a]]
    /\ vec'[a].size \in Sizes
    /\ vec'[a].bits \in [Stored(vec'[a].size) -> Bit]
    /\ out' = Nothing

SetBit(a) ==
    Held(a) /\ \E i \in 0..vec[a].size - 1 : \E v \in Bit :
        Becomes(a, [vec[a] EXCEPT !.bits[i] = v])

\* The size bits given by src replace those of a from bit "at" on.
CopyBits(a, size, src) ==
    Held(a) /\ \E at \in 0..vec[a].size - size :
        Becomes(a, [vec[a] EXCEPT !.bits =
            [j \in DOMAIN @ |-> IF j - at \in 0..size - 1 THEN src[j - at] ELSE @[j]]])

CopyFrom(a, b) == a # b /\ Held(b) /\ CopyBits(a, vec[b].size, vec[b].bits)

CopyOnes(a) == \E n \in Sizes : CopyBits(a, n, [j \in Stored(n) |-> 1])

\* Some whole bytes of a become b, of which the last may count partly.
Slice(a, b) ==
    a # b /\ Held(a) /\ \E st, end \in 0..Bytes(vec[a].size) : \E n \in Sizes \cup {0} :
        /\ st <= end
        /\ Bytes(n) = end - st
        /\ Becomes(b, Vector(n, [j \in Stored(n) |-> vec[a].bits[st * ByteBits + j]]))

\* The last byte counts partly from now on.
Shrink(a) ==
    Held(a) /\ \E n \in Sizes :
        /\ n <= vec[a].size /\ Bytes(n) = Bytes(vec[a].size)
        /\ Becomes(a, [vec[a] EXCEPT !.size = n])

Clone(a, b) == a # b /\ Held(a) /\ Becomes(b, vec[a])

Alike(a, b) == Held(a) /\ Held(b) /\ vec[a].size = vec[b].size

Xored(v, w) == [v EXCEPT !.bits = [j \in DOMAIN @ |-> (@[j] + w.bits[j]) % 2]]
Anded(v, w) == [v EXCEPT !.bits = [j \in DOMAIN @ |-> @[j] * w.bits[j]]]

Xor(a, b) == a # b /\ Alike(a, b) /\ Becomes(a, Xored(vec[a], vec[b]))
And(a, b) == a # b /\ Alike(a, b) /\ Becomes(a, Anded(vec[a], vec[b]))

\* c becomes the conjunction of a and b.
MutAnd(c, a, b) ==
    c \notin {a, b} /\ Alike(a, b) /\ Alike(a, c) /\ Becomes(c, Anded(vec[a], vec[b]))

\* a becomes one share of itself and b, which is drawn, the other.
Share(a, b) ==
    /\ a # b
    /\ Held(a)
    /\ vec'[b].size = vec[a].size
    /\ vec'[b].bits \in [Stored(vec[a].size) -> Bit]
    /\ vec' = [vec EXCEPT ![a] = Xored(@, vec'[b]), ![b] = vec'[b]]
    /\ out' = Nothing

Parity(a) == Held(a) /\ Returns(SumOf(vec[a].bits))
InnerProd(a, b) == Alike(a, b) /\ Returns(SumOf(Anded(vec[a], vec[b]).bits))
Eq(a, b) == Held(a) /\ Held(b) /\ Returns(IF vec[a] = vec[b] THEN 1 ELSE 0)

Clear(a) == Becomes(a, NoVector)

Next ==
    \E a \in Slots :
        \/ Zeros(a) \/ Fill(a) \/ SetBit(a) \/ CopyOnes(a) \/ Shrink(a)
        \/ Parity(a) \/ Clear(a)
        \/ \E b \in Slots :
              \/ CopyFrom(a, b) \/ Slice(a, b) \/ Clone(a, b) \/ Xor(a, b)
              \/ And(a, b) \/ Share(a, b) \/ InnerProd(a, b) \/ Eq(a, b)
              \/ \E c \in Slots : MutAnd(c, a, b)

VectorSpec == Init /\ [][Next]_vvars
=============================================================================

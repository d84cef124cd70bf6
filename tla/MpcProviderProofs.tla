------------------------- MODULE MpcProviderProofs -------------------------
(***************************************************************************)
(* Layers and tickets for any sequence of calls, of any length, with any   *)
(* index lengths: what a stack of layers always satisfies, whoever builds  *)
(* it, and what the order of calls of the server adds to that.             *)
(* Budget: for every database that from_seed accepts, up to 2^26 bits      *)
(* wide, enough randomness is dealt for any number of queries.             *)
(***************************************************************************)
EXTENDS MpcProvider, Budget, Sums

Tickets == [layer : Nat, st : Nat, end : Nat, build : Nat]
Sources == Tickets \cup {Input}
Operations == [inp : Sources, out : Tickets]
LayerType == [num : Nat, size : Nat, ops : Seq(Operations), build : Nat]

\* A source that an operation of the layer above ls[i] can read.
SourceOk(ls, i, src, run) ==
    /\ src \in Sources
    /\ src # Input =>
          /\ i \in 1..Len(ls)
          /\ src.layer = i - 1 /\ src.build = run
          /\ EndByte(src) <= ls[i].size

\* An operation of ls[i].
OperationOk(ls, i, op, run) ==
    /\ SourceOk(ls, i + 1, op.inp, run)
    /\ op.out.layer = i - 1
    /\ EndByte(op.out) <= ls[i].size

Apart(t, u) == t = u \/ t.end <= u.st \/ u.end <= t.st

\* The layers that requests have built since the last run or clear.
StackOk(ls, run) ==
    /\ ls \in Seq(LayerType)
    /\ \A i \in 1..Len(ls) :
          /\ ls[i].num = i - 1 /\ ls[i].build = run
          /\ \A j \in 1..Len(ls[i].ops) : OperationOk(ls, i, ls[i].ops[j], run)
          /\ \A j, k \in 1..Len(ls[i].ops) : Apart(ls[i].ops[j].out, ls[i].ops[k].out)

\* Requests only add to a stack.
Grows(ls, new) ==
    Len(ls) <= Len(new) /\ \A i \in 1..Len(ls) : ls[i].size <= new[i].size

\* What a request at layer k returns.
RequestOk(ls, k, r, run) ==
    StackOk(r.layers, run) /\ Grows(ls, r.layers) /\ SourceOk(r.layers, k + 1, r.src, run)

LEMMA InputTicket == Input \notin Tickets
BY DEF Input, Tickets

\* A source stays readable when the stack grows.
LEMMA SourceGrows ==
    ASSUME NEW ls, NEW new, NEW i, NEW src, NEW run, ls \in Seq(LayerType), new \in Seq(LayerType),
           SourceOk(ls, i, src, run), Grows(ls, new)
    PROVE  SourceOk(new, i, src, run)
<1> SUFFICES ASSUME src # Input
             PROVE  /\ i \in 1..Len(new) /\ EndByte(src) <= new[i].size
    BY DEF SourceOk
<1>1. i \in 1..Len(ls) /\ EndByte(src) <= ls[i].size /\ src \in Tickets
    BY DEF SourceOk, Sources
<1>2. Len(ls) \in Nat /\ Len(new) \in Nat /\ Len(ls) <= Len(new)
    BY DEF Grows
<1>3. ls[i].size <= new[i].size /\ ls[i] \in LayerType /\ new[i] \in LayerType
    BY <1>1, <1>2 DEF Grows
<1>4. EndByte(src) \in Int
    BY <1>1 DEF EndByte, CeilDiv, Tickets
<1>5. ls[i].size \in Nat /\ new[i].size \in Nat
    BY <1>3 DEF LayerType
<1>6. EndByte(src) <= new[i].size
    BY <1>1, <1>3, <1>4, <1>5
<1> QED
    BY <1>1, <1>2, <1>6

\* get_layer: the stack with the layer asked for.
LEMMA WithLayerOk ==
    ASSUME NEW ls, NEW run, NEW k \in Nat, StackOk(ls, run), builds \in Nat, run = builds + 1
    PROVE  /\ StackOk(WithLayer(ls, k), run) /\ Grows(ls, WithLayer(ls, k))
           /\ k + 1 \in 1..Len(WithLayer(ls, k))
<1> DEFINE with == WithLayer(ls, k)
<1>1. ls \in Seq(LayerType) /\ Len(ls) \in Nat
    BY DEF StackOk
<1>2. PICK count \in Nat : count = IF k + 1 > Len(ls) THEN k + 1 ELSE Len(ls)
    BY <1>1
<1>3. with = [i \in 1..count |-> IF i <= Len(ls) THEN ls[i] ELSE Layer(i - 1, builds + 1)]
    BY <1>2 DEF WithLayer
<1>4. ASSUME NEW i \in 1..count PROVE with[i] \in LayerType
    <2>1. CASE i <= Len(ls)
        BY <2>1, <1>1, <1>3
    <2>2. CASE i > Len(ls)
        <3>1. with[i] = [num |-> i - 1, size |-> 0, ops |-> << >>, build |-> builds + 1]
            BY <2>2, <1>1, <1>3 DEF Layer
        <3>2. << >> \in Seq(Operations)
            OBVIOUS
        <3> QED
            BY <3>1, <3>2 DEF LayerType
    <2> QED
        BY <2>1, <2>2, <1>1
<1>5. with \in Seq(LayerType) /\ Len(with) = count
    BY <1>3, <1>4
<1>6. \A i \in 1..Len(ls) : i \in 1..count /\ with[i] = ls[i]
    BY <1>1, <1>2, <1>3
<1>7. Grows(ls, with)
    <2> SUFFICES ASSUME NEW i \in 1..Len(ls) PROVE ls[i].size <= with[i].size
        BY <1>1, <1>2, <1>5 DEF Grows
    <2>1. ls[i] \in LayerType /\ with[i] = ls[i]
        BY <1>1, <1>6
    <2> QED
        BY <2>1 DEF LayerType
<1>8. ASSUME NEW i \in 1..count
      PROVE  /\ with[i].num = i - 1 /\ with[i].build = builds + 1
             /\ \A j \in 1..Len(with[i].ops) : OperationOk(with, i, with[i].ops[j], run)
             /\ \A j, m \in 1..Len(with[i].ops) : Apart(with[i].ops[j].out, with[i].ops[m].out)
    <2>1. CASE i <= Len(ls)
        <3>1. i \in 1..Len(ls) /\ with[i] = ls[i]
            BY <2>1, <1>1, <1>6
        <3>2. ASSUME NEW j \in 1..Len(ls[i].ops) PROVE OperationOk(with, i, ls[i].ops[j], run)
            <4>1. OperationOk(ls, i, ls[i].ops[j], run)
                BY <3>1 DEF StackOk
            <4>2. SourceOk(with, i + 1, ls[i].ops[j].inp, run)
                BY <4>1, <1>1, <1>5, <1>7, SourceGrows DEF OperationOk
            <4> QED
                BY <4>1, <4>2, <3>1 DEF OperationOk
        <3> QED
            BY <3>1, <3>2 DEF StackOk
    <2>2. CASE i > Len(ls)
        <3>1. with[i] = [num |-> i - 1, size |-> 0, ops |-> << >>, build |-> builds + 1]
            BY <2>2, <1>1, <1>3 DEF Layer
        <3>2. with[i].num = i - 1 /\ with[i].build = builds + 1 /\ Len(with[i].ops) = 0
            BY <3>1
        <3> QED
            BY <3>2
    <2> QED
        BY <2>1, <2>2, <1>1
<1>9. StackOk(with, run)
    BY <1>5, <1>8 DEF StackOk
<1>10. k + 1 \in 1..count
    BY <1>1, <1>2
<1> QED
    BY <1>5, <1>7, <1>9, <1>10

\* Growing is transitive.
LEMMA GrowsOn ==
    ASSUME NEW a \in Seq(LayerType), NEW b \in Seq(LayerType), NEW c \in Seq(LayerType),
           NEW d \in Seq(LayerType), Grows(a, b), Grows(b, c), Grows(c, d)
    PROVE  Grows(a, d)
<1>1. Len(a) \in Nat /\ Len(b) \in Nat /\ Len(c) \in Nat /\ Len(d) \in Nat
      /\ Len(a) <= Len(b) /\ Len(b) <= Len(c) /\ Len(c) <= Len(d)
    BY DEF Grows
<1> SUFFICES ASSUME NEW i \in 1..Len(a) PROVE a[i].size <= d[i].size
    BY <1>1 DEF Grows
<1>2. i \in 1..Len(b) /\ i \in 1..Len(c) /\ i \in 1..Len(d)
    BY <1>1
<1>3. a[i] \in LayerType /\ b[i] \in LayerType /\ c[i] \in LayerType /\ d[i] \in LayerType
    BY <1>2
<1>4. a[i].size \in Nat /\ b[i].size \in Nat /\ c[i].size \in Nat /\ d[i].size \in Nat
    BY <1>3 DEF LayerType
<1>5. a[i].size <= b[i].size /\ b[i].size <= c[i].size /\ c[i].size <= d[i].size
    BY <1>2 DEF Grows
<1> QED
    BY <1>4, <1>5

\* A sequence with two elements added.
LEMMA AddTwo ==
    ASSUME NEW S, NEW a \in Seq(S), NEW b \in Seq(S), Len(b) = 2
    PROVE  /\ Len(a \o b) = Len(a) + 2
           /\ \A j \in 1..Len(a) : (a \o b)[j] = a[j]
           /\ (a \o b)[Len(a) + 1] = b[1] /\ (a \o b)[Len(a) + 2] = b[2]
<1>1. Len(a) \in Nat /\ Len(a \o b) = Len(a) + Len(b)
    <2>1. Len(a) \in Nat
        OBVIOUS
    <2>2. Len(a \o b) = Len(a) + Len(b)
        BY ConcatProperties, Zenon
    <2> QED
        BY <2>1, <2>2
<1>2. \A j \in 1..Len(a) + Len(b) : (a \o b)[j] = IF j <= Len(a) THEN a[j] ELSE b[j - Len(a)]
    BY ConcatProperties
<1>3. \A j \in 1..Len(a) : (a \o b)[j] = a[j]
    BY <1>1, <1>2
<1>4. (a \o b)[Len(a) + 1] = b[1] /\ (a \o b)[Len(a) + 2] = b[2]
    <2>1. /\ Len(a) + 1 \in 1..Len(a) + Len(b) /\ Len(a) + 2 \in 1..Len(a) + Len(b)
          /\ (Len(a) + 1) - Len(a) = 1 /\ ~(Len(a) + 1 <= Len(a))
          /\ (Len(a) + 2) - Len(a) = 2 /\ ~(Len(a) + 2 <= Len(a))
        BY <1>1
    <2> QED
        BY <2>1, <1>2
<1> QED
    BY <1>1, <1>3, <1>4

\* request_ticket and add_operation: the new ticket is behind all others of its
\* layer, inside it, and its inputs are in the layer below.
LEMMA RequestedOk ==
    ASSUME NEW ls, NEW run, NEW k \in Nat, NEW bits \in Nat, NEW low, NEW high,
           builds \in Nat, run = builds + 1, StackOk(ls, run),
           SourceOk(ls, k + 2, low, run), SourceOk(ls, k + 2, high, run)
    PROVE  RequestOk(ls, k, Requested(ls, k, bits, <<low, high>>), run)
<1> DEFINE with == WithLayer(ls, k)
           l == with[k + 1]
           t == TicketIn(l, bits)
           size == Grown(l.size, bits)
           added == <<[inp |-> low, out |-> t], [inp |-> high, out |-> t]>>
           top == [l EXCEPT !.size = size, !.ops = @ \o added]
           new == [with EXCEPT ![k + 1] = top]
<1>1. StackOk(with, run) /\ Grows(ls, with) /\ k + 1 \in 1..Len(with)
    BY WithLayerOk
<1>2. Requested(ls, k, bits, <<low, high>>) = [layers |-> new, src |-> t]
    BY DEF Requested
<1> HIDE DEF with
<1>3. with \in Seq(LayerType) /\ Len(with) \in Nat /\ l \in LayerType /\ l.size \in Nat
      /\ l.ops \in Seq(Operations) /\ l.num = k
    <2>1. with \in Seq(LayerType) /\ Len(with) \in Nat
        BY <1>1 DEF StackOk
    <2>2. l \in LayerType /\ l.num = (k + 1) - 1
        BY <1>1, <2>1 DEF StackOk
    <2> QED
        BY <2>1, <2>2 DEF LayerType
<1>4. /\ t \in Tickets /\ t.layer = k /\ t.build = builds + 1
      /\ t.st = l.size * 8 /\ t.end = l.size * 8 + bits
    <2>1. t = [layer |-> l.num, st |-> l.size * 8, end |-> l.size * 8 + bits,
               build |-> builds + 1]
        BY DEF TicketIn
    <2> HIDE DEF t, l
    <2>2. l.num = k /\ k \in Nat /\ l.size * 8 \in Nat /\ l.size * 8 + bits \in Nat
          /\ builds + 1 \in Nat
        BY <1>3
    <2> QED
        BY <2>1, <2>2 DEF Tickets
<1>5. size \in Nat /\ l.size <= size /\ EndByte(t) = size
    <2>1. t.end = l.size * 8 + bits /\ l.size \in Nat
        BY <1>3, <1>4
    <2> QED
        BY <2>1 DEF Grown, EndByte, CeilDiv
<1> HIDE DEF size, t
<1>6. SourceOk(with, k + 2, low, run) /\ SourceOk(with, k + 2, high, run)
    BY <1>1, <1>3, SourceGrows DEF StackOk
<1>7. /\ added \in Seq(Operations) /\ Len(added) = 2
      /\ added[1] = [inp |-> low, out |-> t] /\ added[2] = [inp |-> high, out |-> t]
    <2>1. low \in Sources /\ high \in Sources
        BY <1>6 DEF SourceOk
    <2> QED
        BY <2>1, <1>4 DEF Operations
<1> HIDE DEF added
<1>8. /\ top \in LayerType /\ top.size = size /\ top.ops = l.ops \o added
      /\ top.num = l.num /\ top.build = l.build
    <2>1. l.ops \o added \in Seq(Operations)
        BY <1>3, <1>7
    <2> QED
        BY <2>1, <1>3, <1>5 DEF LayerType
<1> HIDE DEF top
<1>9. /\ new \in Seq(LayerType) /\ Len(new) = Len(with) /\ new[k + 1] = top
      /\ \A i \in 1..Len(with) : i # k + 1 => new[i] = with[i]
    BY <1>1, <1>3, <1>8
<1> HIDE DEF new
<1>10. \A i \in 1..Len(with) : with[i].size \in Nat /\ with[i].size <= new[i].size
    <2> SUFFICES ASSUME NEW i \in 1..Len(with)
                 PROVE  with[i].size \in Nat /\ with[i].size <= new[i].size
        OBVIOUS
    <2>1. with[i] \in LayerType
        BY <1>3
    <2>2. with[i].size \in Nat
        BY <2>1 DEF LayerType
    <2>3. CASE i = k + 1
        BY <2>2, <2>3, <1>5, <1>8, <1>9
    <2>4. CASE i # k + 1
        BY <2>2, <2>4, <1>9
    <2> QED
        BY <2>2, <2>3, <2>4
<1>11. Grows(with, new)
    BY <1>3, <1>9, <1>10 DEF Grows
<1>12. ASSUME NEW i \in 1..Len(with), NEW op, OperationOk(with, i, op, run), op.out \in Tickets
       PROVE  OperationOk(new, i, op, run)
    <2>1. SourceOk(new, i + 1, op.inp, run)
        BY <1>12, <1>3, <1>9, <1>11, SourceGrows DEF OperationOk
    <2>2. EndByte(op.out) <= with[i].size /\ EndByte(op.out) \in Int
        BY <1>12 DEF OperationOk, EndByte, CeilDiv, Tickets
    <2>3. new[i] \in LayerType
        BY <1>3, <1>9
    <2>4. new[i].size \in Nat
        BY <2>3 DEF LayerType
    <2>5. EndByte(op.out) <= new[i].size
        BY <2>2, <2>4, <1>10
    <2> QED
        BY <2>1, <2>5, <1>12 DEF OperationOk
<1>13. ASSUME NEW i \in 1..Len(with), i # k + 1
       PROVE  /\ new[i].num = i - 1 /\ new[i].build = builds + 1
              /\ \A j \in 1..Len(new[i].ops) : OperationOk(new, i, new[i].ops[j], run)
              /\ \A j, m \in 1..Len(new[i].ops) : Apart(new[i].ops[j].out, new[i].ops[m].out)
    <2>1. new[i] = with[i]
        BY <1>9, <1>13
    <2>2. ASSUME NEW j \in 1..Len(with[i].ops) PROVE OperationOk(new, i, with[i].ops[j], run)
        <3>1. OperationOk(with, i, with[i].ops[j], run)
            BY <1>1 DEF StackOk
        <3>2. with[i].ops[j].out \in Tickets
            <4>1. with[i] \in LayerType
                BY <1>3
            <4>2. with[i].ops[j] \in Operations
                BY <4>1 DEF LayerType
            <4> QED
                BY <4>2 DEF Operations
        <3> QED
            BY <3>1, <3>2, <1>12
    <2> QED
        BY <2>1, <2>2, <1>1 DEF StackOk
<1> DEFINE old == l.ops
<1>13a. old \in Seq(Operations) /\ top.ops = old \o added
    BY <1>3, <1>8
<1> HIDE DEF old
<1>13b. PICK count \in Nat : count = Len(old)
    BY <1>13a
<1>14. /\ count \in Nat /\ Len(top.ops) = count + 2
       /\ \A j \in 1..count : top.ops[j] = old[j]
       /\ top.ops[count + 1] = added[1] /\ top.ops[count + 2] = added[2]
    <2>1. count = Len(old) /\ Len(added) = 2 /\ old \in Seq(Operations) /\ added \in Seq(Operations)
        BY <1>7, <1>13a, <1>13b
    <2> QED
        BY <2>1, AddTwo, <1>13a
<1>15. \A j \in 1..count : /\ old[j].out \in Tickets /\ OperationOk(new, k + 1, old[j], run)
                       /\ old[j].out.end <= t.st
    <2> SUFFICES ASSUME NEW j \in 1..count
                 PROVE  /\ old[j].out \in Tickets /\ OperationOk(new, k + 1, old[j], run)
                        /\ old[j].out.end <= t.st
        OBVIOUS
    <2>1. old[j] \in Operations /\ old[j].out \in Tickets
        <3>1. old[j] \in Operations
            BY <1>13a, <1>13b
        <3> QED
            BY <3>1 DEF Operations
    <2>2. OperationOk(with, k + 1, old[j], run)
        BY <1>1, <1>13b DEF StackOk, old
    <2>3. OperationOk(new, k + 1, old[j], run)
        BY <2>1, <2>2, <1>1, <1>12
    <2>4. EndByte(old[j].out) <= l.size /\ old[j].out.end \in Nat
        BY <2>1, <2>2 DEF OperationOk, Tickets
    <2>5. old[j].out.end <= l.size * 8
        <3> DEFINE x == old[j].out.end
                   y == l.size
        <3>1. x \in Nat /\ y \in Nat /\ (x + 7) \div 8 <= y
            BY <2>4, <1>3 DEF EndByte, CeilDiv
        <3> HIDE DEF x, y
        <3>2. x <= y * 8
            BY <3>1
        <3> QED
            BY <3>2 DEF x, y
    <2> QED
        BY <2>1, <2>3, <2>5, <1>4
<1>16. OperationOk(new, k + 1, added[1], run) /\ OperationOk(new, k + 1, added[2], run)
    <2>1. SourceOk(new, (k + 1) + 1, low, run) /\ SourceOk(new, (k + 1) + 1, high, run)
        <3>1. SourceOk(new, k + 2, low, run) /\ SourceOk(new, k + 2, high, run)
            BY <1>3, <1>6, <1>9, <1>11, SourceGrows
        <3>2. (k + 1) + 1 = k + 2
            OBVIOUS
        <3> QED
            BY <3>1, <3>2
    <2>2. t.layer = (k + 1) - 1 /\ EndByte(t) <= new[k + 1].size
        BY <1>4, <1>5, <1>8, <1>9
    <2> QED
        BY <2>1, <2>2, <1>7 DEF OperationOk
<1>17. \A j \in 1..Len(top.ops) : OperationOk(new, k + 1, top.ops[j], run)
    <2> SUFFICES ASSUME NEW j \in 1..Len(top.ops) PROVE OperationOk(new, k + 1, top.ops[j], run)
        OBVIOUS
    <2>1. j \in 1..count \/ j = count + 1 \/ j = count + 2
        BY <1>14
    <2> QED
        BY <2>1, <1>14, <1>15, <1>16
<1>18. \A j, m \in 1..Len(top.ops) : Apart(top.ops[j].out, top.ops[m].out)
    <2>1. \A j \in 1..Len(top.ops) : j \in 1..count \/ top.ops[j].out = t
        <3> SUFFICES ASSUME NEW j \in 1..Len(top.ops), j \notin 1..count PROVE top.ops[j].out = t
            OBVIOUS
        <3>1. j = count + 1 \/ j = count + 2
            BY <1>14
        <3> QED
            BY <3>1, <1>7, <1>14
    <2>2. \A j, m \in 1..count : Apart(top.ops[j].out, top.ops[m].out)
        <3>1. \A j, m \in 1..count : Apart(old[j].out, old[m].out)
            BY <1>1, <1>13b DEF StackOk, old
        <3> QED
            BY <3>1, <1>14
    <2>3. \A j \in 1..count : Apart(top.ops[j].out, t) /\ Apart(t, top.ops[j].out)
        BY <1>14, <1>15 DEF Apart
    <2>4. Apart(t, t)
        BY DEF Apart
    <2> QED
        BY <2>1, <2>2, <2>3, <2>4
<1>19. new[k + 1].num = (k + 1) - 1 /\ new[k + 1].build = builds + 1
    BY <1>1, <1>8, <1>9 DEF StackOk
<1>20. StackOk(new, run)
    BY <1>9, <1>13, <1>17, <1>18, <1>19 DEF StackOk
<1>21. Grows(ls, new)
    <2>0. ls \in Seq(LayerType) /\ Len(ls) \in Nat
        BY DEF StackOk
    <2>1. Len(ls) <= Len(new) /\ Len(ls) <= Len(with)
        BY <2>0, <1>1, <1>3, <1>9 DEF Grows
    <2> SUFFICES ASSUME NEW i \in 1..Len(ls) PROVE ls[i].size <= new[i].size
        BY <2>1 DEF Grows
    <2>2. i \in 1..Len(with) /\ ls[i].size <= with[i].size
        BY <2>0, <2>1, <1>1, <1>3 DEF Grows
    <2>3. ls[i] \in LayerType /\ new[i] \in LayerType
        BY <2>0, <2>2, <1>3, <1>9
    <2>4. ls[i].size \in Nat /\ new[i].size \in Nat
        BY <2>3 DEF LayerType
    <2> QED
        BY <2>2, <2>4, <1>10
<1>22. SourceOk(new, k + 1, t, run)
    <2>1. t.layer = (k + 1) - 1 /\ k + 1 \in 1..Len(new) /\ EndByte(t) <= new[k + 1].size
        BY <1>1, <1>4, <1>5, <1>8, <1>9
    <2> QED
        BY <2>1, <1>4 DEF SourceOk, Sources
<1>23. RequestOk(ls, k, [layers |-> new, src |-> t], run)
    BY <1>20, <1>21, <1>22 DEF RequestOk
<1> QED
    BY <1>2, <1>23 DEF new, top, added, t, size

----------------------------------------------------------------------------
(* recursive_ohe_vec.                                                      *)

\* The sizes of the gates.
LEMMA PowerOf ==
    ASSUME NEW b \in 1..32
    PROVE  2^b \in Nat
<1>1. b \in 0..32
    OBVIOUS
<1> QED
    BY <1>1, PowerNat

\* One bit: the data is at hand.
LEMMA SingleBitOk ==
    ASSUME NEW ls, NEW k \in Nat, NEW run, StackOk(ls, run)
    PROVE  RequestOk(ls, k, [layers |-> ls, src |-> Input], run)
<1>1. Grows(ls, ls)
    <2> SUFFICES ASSUME NEW i \in 1..Len(ls) PROVE ls[i].size <= ls[i].size
        BY DEF Grows, StackOk
    <2>1. ls[i] \in LayerType
        BY DEF StackOk
    <2> QED
        BY <2>1 DEF LayerType
<1> QED
    BY <1>1 DEF RequestOk, SourceOk, Sources

\* The gate over two halves.
LEMMA JoinOk ==
    ASSUME NEW ls, NEW run, NEW k \in Nat, NEW bits \in Nat, NEW low, NEW high,
           builds \in Nat, run = builds + 1, StackOk(ls, run),
           RequestOk(ls, k + 1, low, run), RequestOk(low.layers, k + 1, high, run)
    PROVE  RequestOk(ls, k, Requested(high.layers, k, bits, <<low.src, high.src>>), run)
<1> DEFINE r == Requested(high.layers, k, bits, <<low.src, high.src>>)
<1>0. (k + 1) + 1 = k + 2
    OBVIOUS
<1>1. /\ StackOk(low.layers, run) /\ Grows(ls, low.layers) /\ SourceOk(low.layers, k + 2, low.src, run)
      /\ StackOk(high.layers, run) /\ Grows(low.layers, high.layers)
      /\ SourceOk(high.layers, k + 2, high.src, run)
    BY <1>0 DEF RequestOk
<1>2. SourceOk(high.layers, k + 2, low.src, run)
    BY <1>1, SourceGrows DEF StackOk
<1>3. RequestOk(high.layers, k, r, run)
    BY <1>1, <1>2, RequestedOk
<1>4. ls \in Seq(LayerType) /\ low.layers \in Seq(LayerType) /\ high.layers \in Seq(LayerType)
      /\ r.layers \in Seq(LayerType)
    BY <1>1, <1>3 DEF RequestOk, StackOk
<1>5. Grows(ls, r.layers)
    BY <1>1, <1>3, <1>4, GrowsOn DEF RequestOk
<1> QED
    BY <1>3, <1>5 DEF RequestOk
\* The encodings of up to 2, 4, 8, 16 and 32 bits, each from the one before.
LEMMA Ohe2Ok ==
    ASSUME NEW ls, NEW run, NEW k \in Nat, NEW b \in 1..2,
           builds \in Nat, run = builds + 1, StackOk(ls, run)
    PROVE  RequestOk(ls, k, Ohe2(ls, k, b), run)
<1> DEFINE low == SingleBit(ls, k + 1, CeilDiv(b, 2))
           high == SingleBit(low.layers, k + 1, b - CeilDiv(b, 2))
<1>1. RequestOk(ls, k + 1, low, run)
    BY SingleBitOk DEF SingleBit
<1>2. low.layers = ls
    BY DEF SingleBit
<1>3. RequestOk(low.layers, k + 1, high, run)
    BY <1>2, SingleBitOk DEF SingleBit
<1>4. 2^b \in Nat
    <2>1. b \in 1..32
        OBVIOUS
    <2> QED
        BY <2>1, PowerOf
<1> HIDE DEF low, high
<1>5. RequestOk(ls, k, Requested(high.layers, k, 2^b, <<low.src, high.src>>), run)
    BY <1>1, <1>3, <1>4, JoinOk
<1>6. b = 1 => RequestOk(ls, k, Ohe2(ls, k, b), run)
    BY SingleBitOk DEF Ohe2, Joined
<1>7. b # 1 => Ohe2(ls, k, b) = Requested(high.layers, k, 2^b, <<low.src, high.src>>)
    BY DEF Ohe2, Joined, low, high
<1> QED
    BY <1>5, <1>6, <1>7

LEMMA Ohe4Ok ==
    ASSUME NEW ls, NEW run, NEW k \in Nat, NEW b \in 1..4,
           builds \in Nat, run = builds + 1, StackOk(ls, run)
    PROVE  RequestOk(ls, k, Ohe4(ls, k, b), run)
<1> DEFINE low == Ohe2(ls, k + 1, CeilDiv(b, 2))
           high == Ohe2(low.layers, k + 1, b - CeilDiv(b, 2))
<1>1. CASE b = 1
    BY <1>1, SingleBitOk DEF Ohe4, Joined
<1>2. CASE b # 1
    <2>1. CeilDiv(b, 2) \in 1..2 /\ b - CeilDiv(b, 2) \in 1..2 /\ k + 1 \in Nat /\ k \in Nat
        BY <1>2 DEF CeilDiv
    <2>2. RequestOk(ls, k + 1, low, run)
        BY <2>1, Ohe2Ok
    <2>3. RequestOk(low.layers, k + 1, high, run)
        BY <2>1, <2>2, Ohe2Ok DEF RequestOk
    <2>4. 2^b \in Nat
        <3>1. b \in 1..32
            OBVIOUS
        <3> QED
            BY <3>1, PowerOf
    <2>5. Ohe4(ls, k, b) = Requested(high.layers, k, 2^b, <<low.src, high.src>>)
        BY <1>2 DEF Ohe4, Joined
    <2> HIDE DEF low, high
    <2>6. RequestOk(ls, k, Requested(high.layers, k, 2^b, <<low.src, high.src>>), run)
        BY <2>1, <2>2, <2>3, <2>4, JoinOk
    <2> QED
        BY <2>5, <2>6
<1> QED
    BY <1>1, <1>2

LEMMA Ohe8Ok ==
    ASSUME NEW ls, NEW run, NEW k \in Nat, NEW b \in 1..8,
           builds \in Nat, run = builds + 1, StackOk(ls, run)
    PROVE  RequestOk(ls, k, Ohe8(ls, k, b), run)
<1> DEFINE low == Ohe4(ls, k + 1, CeilDiv(b, 2))
           high == Ohe4(low.layers, k + 1, b - CeilDiv(b, 2))
<1>1. CASE b = 1
    BY <1>1, SingleBitOk DEF Ohe8, Joined
<1>2. CASE b # 1
    <2>1. CeilDiv(b, 2) \in 1..4 /\ b - CeilDiv(b, 2) \in 1..4 /\ k + 1 \in Nat /\ k \in Nat
        BY <1>2 DEF CeilDiv
    <2>2. RequestOk(ls, k + 1, low, run)
        BY <2>1, Ohe4Ok
    <2>3. RequestOk(low.layers, k + 1, high, run)
        BY <2>1, <2>2, Ohe4Ok DEF RequestOk
    <2>4. 2^b \in Nat
        <3>1. b \in 1..32
            OBVIOUS
        <3> QED
            BY <3>1, PowerOf
    <2>5. Ohe8(ls, k, b) = Requested(high.layers, k, 2^b, <<low.src, high.src>>)
        BY <1>2 DEF Ohe8, Joined
    <2> HIDE DEF low, high
    <2>6. RequestOk(ls, k, Requested(high.layers, k, 2^b, <<low.src, high.src>>), run)
        BY <2>1, <2>2, <2>3, <2>4, JoinOk
    <2> QED
        BY <2>5, <2>6
<1> QED
    BY <1>1, <1>2

LEMMA Ohe16Ok ==
    ASSUME NEW ls, NEW run, NEW k \in Nat, NEW b \in 1..16,
           builds \in Nat, run = builds + 1, StackOk(ls, run)
    PROVE  RequestOk(ls, k, Ohe16(ls, k, b), run)
<1> DEFINE low == Ohe8(ls, k + 1, CeilDiv(b, 2))
           high == Ohe8(low.layers, k + 1, b - CeilDiv(b, 2))
<1>1. CASE b = 1
    BY <1>1, SingleBitOk DEF Ohe16, Joined
<1>2. CASE b # 1
    <2>1. CeilDiv(b, 2) \in 1..8 /\ b - CeilDiv(b, 2) \in 1..8 /\ k + 1 \in Nat /\ k \in Nat
        BY <1>2 DEF CeilDiv
    <2>2. RequestOk(ls, k + 1, low, run)
        BY <2>1, Ohe8Ok
    <2>3. RequestOk(low.layers, k + 1, high, run)
        BY <2>1, <2>2, Ohe8Ok DEF RequestOk
    <2>4. 2^b \in Nat
        <3>1. b \in 1..32
            OBVIOUS
        <3> QED
            BY <3>1, PowerOf
    <2>5. Ohe16(ls, k, b) = Requested(high.layers, k, 2^b, <<low.src, high.src>>)
        BY <1>2 DEF Ohe16, Joined
    <2> HIDE DEF low, high
    <2>6. RequestOk(ls, k, Requested(high.layers, k, 2^b, <<low.src, high.src>>), run)
        BY <2>1, <2>2, <2>3, <2>4, JoinOk
    <2> QED
        BY <2>5, <2>6
<1> QED
    BY <1>1, <1>2

LEMMA OheVecOk ==
    ASSUME NEW ls, NEW run, NEW b \in 1..32,
           builds \in Nat, run = builds + 1, StackOk(ls, run)
    PROVE  RequestOk(ls, 0, OheVec(ls, b), run)
<1> DEFINE low == Ohe16(ls, 0 + 1, CeilDiv(b, 2))
           high == Ohe16(low.layers, 0 + 1, b - CeilDiv(b, 2))
<1>1. CASE b = 1
    BY <1>1, SingleBitOk DEF OheVec, Joined
<1>2. CASE b # 1
    <2>1. CeilDiv(b, 2) \in 1..16 /\ b - CeilDiv(b, 2) \in 1..16 /\ 0 + 1 \in Nat /\ 0 \in Nat
        BY <1>2 DEF CeilDiv
    <2>2. RequestOk(ls, 0 + 1, low, run)
        BY <2>1, Ohe16Ok
    <2>3. RequestOk(low.layers, 0 + 1, high, run)
        BY <2>1, <2>2, Ohe16Ok DEF RequestOk
    <2>4. 2^b \in Nat
        <3>1. b \in 1..32
            OBVIOUS
        <3> QED
            BY <3>1, PowerOf
    <2>5. OheVec(ls, b) = Requested(high.layers, 0, 2^b, <<low.src, high.src>>)
        BY <1>2 DEF OheVec, Joined
    <2> HIDE DEF low, high
    <2>6. RequestOk(ls, 0, Requested(high.layers, 0, 2^b, <<low.src, high.src>>), run)
        BY <2>1, <2>2, <2>3, <2>4, JoinOk
    <2> QED
        BY <2>5, <2>6
<1> QED
    BY <1>1, <1>2

----------------------------------------------------------------------------
(* The inductive invariant.                                                *)

\* Where the server is, and how many sources it holds there.
Building == {"idle", "ohe", "rec", "rec_run", "pir", "pir_run"}
Reading == {"ohe_read", "ohe_clear", "rec_read1", "rec_read2", "rec_clear", "pir_read"}

Holds(where) ==
    IF where \in {"ohe", "rec", "pir_run", "ohe_read", "rec_read2", "pir_read"} THEN 1
    ELSE IF where \in {"rec_run", "rec_read1"} THEN 2
    ELSE 0

\* A source that get_output may be asked for, with this output layer.
OutputOk(out, src) ==
    /\ src \in Sources
    /\ src # Input => out # NoLayer /\ CheckTicket(out, src) /\ src.build = out.build

\* What the server holds: tickets of the layers that it builds, or of the output
\* layer that it reads.
ServerOk(ls, out, hs, where, run) ==
    /\ Len(hs) = Holds(where)
    /\ \A j \in 1..Len(hs) :
          /\ where \in Building => SourceOk(ls, 1, hs[j], run)
          /\ where \in Reading => OutputOk(out, hs[j])

ProviderInv ==
    /\ builds \in Nat
    /\ held \in Seq(Sources)
    /\ StackOk(layers, builds + 1)
    /\ pc \in Building \cup Reading \cup {"any"}
    /\ pc # "any" => ServerOk(layers, output, held, pc, builds + 1) /\ ~failed /\ OutputsOwn

\* Layers as requests build them can run.
LEMMA StackRuns ==
    ASSUME ProviderInv, NEW i \in 1..Len(layers)
    PROVE  Executes(i)
<1>1. layers \in Seq(LayerType) /\ Len(layers) \in Nat
    BY DEF ProviderInv, StackOk
<1> DEFINE prev == IF i < Len(layers) THEN layers[i + 1] ELSE NoLayer
<1> SUFFICES ASSUME NEW j \in 1..Len(layers[i].ops)
             PROVE  /\ Extracts(layers[i].ops[j].inp, prev)
                    /\ CheckTicket(layers[i], layers[i].ops[j].out)
    BY DEF Executes
<1> DEFINE op == layers[i].ops[j]
<1>2. OperationOk(layers, i, op, builds + 1) /\ layers[i].num = i - 1
    BY DEF ProviderInv, StackOk
<1>3. CheckTicket(layers[i], op.out)
    BY <1>2 DEF OperationOk, CheckTicket
<1>4. ASSUME op.inp # Input PROVE prev # NoLayer /\ CheckTicket(prev, op.inp)
    <2>1. /\ i + 1 \in 1..Len(layers) /\ op.inp.layer = (i + 1) - 1
          /\ EndByte(op.inp) <= layers[i + 1].size
        BY <1>2, <1>4 DEF OperationOk, SourceOk
    <2>2. prev = layers[i + 1] /\ prev.num = (i + 1) - 1
        BY <2>1, <1>1 DEF ProviderInv, StackOk
    <2>3. prev # NoLayer
        BY <2>2, <1>1 DEF NoLayer, Layer
    <2> QED
        BY <2>1, <2>2, <2>3 DEF CheckTicket
<1> QED
    BY <1>3, <1>4 DEF Extracts

\* No layers are fine for any run.
LEMMA EmptyStack == \A run : StackOk(<< >>, run)
<1>1. << >> \in Seq(LayerType) /\ Len(<< >>) = 0
    OBVIOUS
<1> QED
    BY <1>1 DEF StackOk

\* The places of the server are told apart, and what is held at each.
LEMMA Places ==
    /\ "any" \notin Building /\ "any" \notin Reading
    /\ \A where \in Building : where \notin Reading
    /\ \A where \in Building \cup Reading : Holds(where) \in 0..2
BY DEF Building, Reading, Holds

LEMMA HeldAt ==
    /\ Holds("idle") = 0 /\ Holds("ohe") = 1 /\ Holds("rec") = 1 /\ Holds("rec_run") = 2
    /\ Holds("pir") = 0 /\ Holds("pir_run") = 1 /\ Holds("ohe_read") = 1
    /\ Holds("ohe_clear") = 0 /\ Holds("rec_read1") = 2 /\ Holds("rec_read2") = 1
    /\ Holds("rec_clear") = 0 /\ Holds("pir_read") = 1
BY DEF Holds

\* A request keeps the invariant.
LEMMA MakesInv ==
    ASSUME ProviderInv, NEW r, RequestOk(layers, 0, r, builds + 1), Makes(r),
           \/ pc = "any" /\ pc' = "any"
           \/ pc \in Building /\ pc' \in Building /\ Holds(pc') = Holds(pc) + 1
    PROVE  ProviderInv'
<1>1. /\ layers' = r.layers /\ held' = Append(held, r.src)
      /\ output' = output /\ builds' = builds /\ got' = got /\ failed' = failed
    BY DEF Makes
<1>2. /\ StackOk(r.layers, builds + 1) /\ Grows(layers, r.layers)
      /\ SourceOk(r.layers, 1, r.src, builds + 1)
    <2>1. 0 + 1 = 1
        OBVIOUS
    <2> QED
        BY <2>1 DEF RequestOk
<1>3. r.src \in Sources /\ held \in Seq(Sources) /\ held' \in Seq(Sources)
    BY <1>1, <1>2 DEF SourceOk, ProviderInv
<1>4. pc' \in Building \cup Reading \cup {"any"}
    OBVIOUS
<1>5. ASSUME pc' # "any"
      PROVE  ServerOk(layers', output', held', pc', builds' + 1) /\ ~failed' /\ OutputsOwn'
    <2>1. /\ pc \in Building /\ pc' \in Building /\ Holds(pc') = Holds(pc) + 1 /\ pc # "any"
          /\ pc' \notin Reading
        BY <1>5, Places
    <2>2. ServerOk(layers, output, held, pc, builds + 1) /\ ~failed /\ OutputsOwn
        BY <2>1 DEF ProviderInv
    <2>3. Len(held') = Len(held) + 1 /\ Len(held) \in Nat
          /\ held'[Len(held) + 1] = r.src
        BY <1>1, <1>3
    <2>4. \A j \in 1..Len(held) : held'[j] = held[j]
        BY <1>1, <1>3
    <2>5. \A j \in 1..Len(held) : SourceOk(r.layers, 1, held[j], builds + 1)
        <3> SUFFICES ASSUME NEW j \in 1..Len(held)
                     PROVE  SourceOk(r.layers, 1, held[j], builds + 1)
            OBVIOUS
        <3>1. SourceOk(layers, 1, held[j], builds + 1)
            BY <2>1, <2>2 DEF ServerOk
        <3> QED
            BY <3>1, <1>2, SourceGrows DEF StackOk, ProviderInv
    <2>6. \A j \in 1..Len(held') : SourceOk(r.layers, 1, held'[j], builds + 1)
        <3> SUFFICES ASSUME NEW j \in 1..Len(held')
                     PROVE  SourceOk(r.layers, 1, held'[j], builds + 1)
            OBVIOUS
        <3>1. j \in 1..Len(held) \/ j = Len(held) + 1
            BY <2>3
        <3> QED
            BY <3>1, <2>3, <2>4, <2>5, <1>2
    <2>7. Len(held') = Holds(pc')
        BY <2>1, <2>2, <2>3 DEF ServerOk
    <2>8. ServerOk(layers', output', held', pc', builds' + 1)
        BY <2>1, <2>6, <2>7, <1>1 DEF ServerOk
    <2>9. OutputsOwn'
        BY <2>1, <2>2, <1>1 DEF OutputsOwn
    <2> QED
        BY <2>2, <2>8, <2>9, <1>1
<1>6. StackOk(layers', builds' + 1) /\ builds' \in Nat
    BY <1>1, <1>2 DEF ProviderInv
<1> QED
    BY <1>3, <1>4, <1>5, <1>6 DEF ProviderInv

\* run keeps the invariant, and never panics.
LEMMA RunInv ==
    ASSUME ProviderInv, Run,
           \/ pc = "any" /\ pc' = "any"
           \/ pc \in Building /\ pc' \in Reading /\ Holds(pc') = Holds(pc)
    PROVE  ProviderInv'
<1>1. /\ layers' = << >> /\ held' = held /\ output' = Kept /\ builds' = builds + 1
      /\ got' = got /\ failed' = (failed \/ ~\A i \in 1..Len(layers) : Executes(i))
    BY DEF Run
<1>2. failed' = (failed \/ FALSE)
    BY <1>1, StackRuns
<1>3. StackOk(layers', builds' + 1) /\ builds' \in Nat
    BY <1>1, EmptyStack DEF ProviderInv
<1>4. ASSUME pc' # "any"
      PROVE  ServerOk(layers', output', held', pc', builds' + 1) /\ ~failed' /\ OutputsOwn'
    <2>1. /\ pc \in Building /\ pc' \in Reading /\ Holds(pc') = Holds(pc) /\ pc # "any"
          /\ pc' \notin Building
        BY <1>4, Places
    <2>2. ServerOk(layers, output, held, pc, builds + 1) /\ ~failed /\ OutputsOwn
        BY <2>1 DEF ProviderInv
    <2>3. ASSUME NEW j \in 1..Len(held) PROVE OutputOk(output', held[j])
        <3>1. SourceOk(layers, 1, held[j], builds + 1)
            BY <2>1, <2>2 DEF ServerOk
        <3>2. ASSUME held[j] # Input
              PROVE  /\ output' # NoLayer /\ CheckTicket(output', held[j])
                     /\ held[j].build = output'.build
            <4>1. /\ 1 \in 1..Len(layers) /\ held[j].layer = 1 - 1
                  /\ held[j].build = builds + 1 /\ EndByte(held[j]) <= layers[1].size
                BY <3>1, <3>2 DEF SourceOk
            <4>2. layers \in Seq(LayerType) /\ layers # << >>
                BY <4>1 DEF ProviderInv, StackOk
            <4>3. output' = layers[1]
                BY <4>2, <1>1 DEF Kept
            <4>4. output'.num = 1 - 1 /\ output'.build = builds + 1
                BY <4>1, <4>3 DEF ProviderInv, StackOk
            <4>5. output' # NoLayer
                BY <4>4 DEF NoLayer, Layer
            <4> QED
                BY <4>1, <4>3, <4>4, <4>5 DEF CheckTicket
        <3> QED
            BY <3>1, <3>2 DEF OutputOk, SourceOk
    <2>4. ServerOk(layers', output', held', pc', builds' + 1)
        BY <2>1, <2>2, <2>3, <1>1 DEF ServerOk
    <2>5. OutputsOwn'
        BY <2>1, <2>2, <1>1 DEF OutputsOwn
    <2> QED
        BY <2>2, <2>4, <2>5, <1>2
<1> QED
    BY <1>1, <1>3, <1>4 DEF ProviderInv

\* get_output keeps the invariant.
LEMMA GetOutputInv ==
    ASSUME ProviderInv, GetOutput,
           \/ pc = "any" /\ pc' = "any"
           \/ /\ pc \in Reading /\ pc' \in Building \cup Reading /\ Holds(pc) = Holds(pc') + 1
              /\ pc' \in Building => Holds(pc') = 0
    PROVE  ProviderInv'
<1>1. /\ held # << >> /\ held' = Tail(held) /\ layers' = layers /\ output' = output
      /\ builds' = builds /\ got' = [src |-> Head(held), from |-> output.build]
      /\ failed' = (failed \/ ~Extracts(Head(held), output))
    BY DEF GetOutput
<1>2. held \in Seq(Sources) /\ held' \in Seq(Sources)
    BY <1>1 DEF ProviderInv
<1>3. /\ Len(held) \in Nat /\ Len(held') = Len(held) - 1 /\ 1 \in 1..Len(held)
      /\ Head(held) = held[1]
    BY <1>1, <1>2
<1>4. \A j \in 1..Len(held') : j + 1 \in 1..Len(held) /\ held'[j] = held[j + 1]
    BY <1>1, <1>2, <1>3
<1>5. ASSUME pc' # "any"
      PROVE  ServerOk(layers', output', held', pc', builds' + 1) /\ ~failed' /\ OutputsOwn'
    <2>1. /\ pc \in Reading /\ pc' \in Building \cup Reading /\ Holds(pc) = Holds(pc') + 1
          /\ pc' \in Building => Holds(pc') = 0
          /\ pc # "any" /\ pc \notin Building
        BY <1>5, Places
    <2>2. ServerOk(layers, output, held, pc, builds + 1) /\ ~failed /\ OutputsOwn
        BY <2>1 DEF ProviderInv
    <2>3. \A j \in 1..Len(held) : OutputOk(output, held[j])
        BY <2>1, <2>2 DEF ServerOk
    <2>4. Len(held') = Holds(pc') /\ Holds(pc') \in 0..2
        BY <2>1, <2>2, <1>3, Places DEF ServerOk
    <2>5. \A j \in 1..Len(held') : OutputOk(output', held'[j])
        BY <2>3, <1>1, <1>4
    <2>6. pc' \in Building => \A j \in 1..Len(held') : FALSE
        BY <2>1, <2>4
    <2>7. ServerOk(layers', output', held', pc', builds' + 1)
        BY <2>4, <2>5, <2>6 DEF ServerOk
    <2>8. OutputOk(output, Head(held))
        BY <2>3, <1>3
    <2>9. Extracts(Head(held), output)
        BY <2>8 DEF OutputOk, Extracts
    <2>10. OutputsOwn'
        <3>1. got'.src = Head(held) /\ got'.from = output.build
            BY <1>1
        <3> QED
            BY <3>1, <2>8 DEF OutputsOwn, OutputOk
    <2> QED
        BY <2>2, <2>7, <2>9, <2>10, <1>1
<1>6. StackOk(layers', builds' + 1) /\ builds' \in Nat
    BY <1>1 DEF ProviderInv
<1> QED
    BY <1>2, <1>5, <1>6 DEF ProviderInv

\* clear keeps the invariant.
LEMMA ClearInv ==
    ASSUME ProviderInv, Clear,
           \/ pc = "any" /\ pc' = "any"
           \/ /\ pc \in Reading /\ pc' \in Building
              /\ Holds(pc) = 0 /\ Holds(pc') = 0
    PROVE  ProviderInv'
<1>1. /\ layers' = << >> /\ held' = held /\ builds' = builds + 1 /\ got' = got
      /\ failed' = failed
    BY DEF Clear
<1>2. StackOk(layers', builds' + 1) /\ builds' \in Nat
    BY <1>1, EmptyStack DEF ProviderInv
<1>3. ASSUME pc' # "any"
      PROVE  ServerOk(layers', output', held', pc', builds' + 1) /\ ~failed' /\ OutputsOwn'
    <2>1. pc \in Reading /\ Holds(pc) = 0 /\ Holds(pc') = 0 /\ pc # "any"
        BY <1>3, Places
    <2>2. ServerOk(layers, output, held, pc, builds + 1) /\ ~failed /\ OutputsOwn
        BY <2>1 DEF ProviderInv
    <2>3. Len(held') = 0 /\ \A j \in 1..Len(held') : FALSE
        BY <2>1, <2>2, <1>1 DEF ServerOk
    <2>4. ServerOk(layers', output', held', pc', builds' + 1)
        BY <2>1, <2>3 DEF ServerOk
    <2>5. OutputsOwn'
        BY <2>1, <2>2, <1>1 DEF OutputsOwn
    <2> QED
        BY <2>2, <2>4, <2>5, <1>1
<1> QED
    BY <1>1, <1>2, <1>3 DEF ProviderInv

\* What the callers ask for.
LEMMA RequestsOk ==
    ASSUME ProviderInv, NEW b \in Lengths
    PROVE  /\ RequestOk(layers, 0, OheVec(layers, b), builds + 1)
           /\ RequestOk(layers, 0, Requested(layers, 0, 2^b, <<Input, Input>>), builds + 1)
<1>1. b \in 1..32 /\ 2^b \in Nat
    <2>1. b \in 1..32
        BY ProviderAssumption DEF MaxBits
    <2> QED
        BY <2>1, PowerOf
<1>2. builds \in Nat /\ StackOk(layers, builds + 1)
    BY DEF ProviderInv
<1> DEFINE run == builds + 1
<1>3. run = builds + 1
    OBVIOUS
<1>4. SourceOk(layers, 0 + 2, Input, run)
    BY DEF SourceOk, Sources
<1> HIDE DEF run
<1>5. StackOk(layers, run)
    BY <1>2, <1>3
<1>6. RequestOk(layers, 0, OheVec(layers, b), run)
    BY <1>1, <1>2, <1>3, <1>5, OheVecOk
<1>7. RequestOk(layers, 0, Requested(layers, 0, 2^b, <<Input, Input>>), run)
    BY <1>1, <1>2, <1>3, <1>4, <1>5, RequestedOk
<1> QED
    BY <1>3, <1>6, <1>7

\* Every step keeps the invariant.
LEMMA ProviderStep == ProviderInv /\ [Next]_vars => ProviderInv'
<1> SUFFICES ASSUME ProviderInv, [Next]_vars PROVE ProviderInv'
    OBVIOUS
<1> USE DEF Goes, Building, Reading
<1>1. ASSUME NEW b \in Lengths, Ohe(b) \/ RecOhe1(b) \/ RecOhe2(b) PROVE ProviderInv'
    <2>1. Makes(OheVec(layers, b))
        BY <1>1, Zenon DEF Ohe, RecOhe1, RecOhe2
    <2>2. \/ pc = "idle" /\ pc' = "ohe"
          \/ pc = "idle" /\ pc' = "rec"
          \/ pc = "rec" /\ pc' = "rec_run"
        BY <1>1, Zenon DEF Ohe, RecOhe1, RecOhe2
    <2>3. pc \in Building /\ pc' \in Building /\ Holds(pc') = Holds(pc) + 1
        BY <2>2, HeldAt
    <2> QED
        BY <2>1, <2>3, RequestsOk, MakesInv
<1>2. ASSUME NEW b \in Lengths, RecAnd(b) PROVE ProviderInv'
    <2>1. Makes(Requested(layers, 0, 2^b, <<Input, Input>>))
        BY <1>2, Zenon DEF RecAnd
    <2>2. pc = "pir" /\ pc' = "pir_run"
        BY <1>2, Zenon DEF RecAnd
    <2>3. pc \in Building /\ pc' \in Building /\ Holds(pc') = Holds(pc) + 1
        BY <2>2, HeldAt
    <2> QED
        BY <2>1, <2>3, RequestsOk, MakesInv
<1>3. ASSUME OheRun \/ RecRun \/ RecPirRun PROVE ProviderInv'
    <2>1. Run /\ pc \in Building /\ pc' \in Reading /\ Holds(pc') = Holds(pc)
        BY <1>3, HeldAt DEF OheRun, RecRun, RecPirRun
    <2> QED
        BY <2>1, RunInv
<1>4. ASSUME OheRead \/ RecRead1 \/ RecRead2 \/ RecPirRead PROVE ProviderInv'
    <2>1. /\ GetOutput /\ pc \in Reading /\ pc' \in Building \cup Reading
          /\ Holds(pc) = Holds(pc') + 1 /\ (pc' \in Building => Holds(pc') = 0)
        <3>1. GetOutput
            BY <1>4, Zenon DEF OheRead, RecRead1, RecRead2, RecPirRead
        <3>2. \/ pc = "ohe_read" /\ pc' = "ohe_clear"
              \/ pc = "rec_read1" /\ pc' = "rec_read2"
              \/ pc = "rec_read2" /\ pc' = "rec_clear"
              \/ pc = "pir_read" /\ pc' = "idle"
            BY <1>4, Zenon DEF OheRead, RecRead1, RecRead2, RecPirRead
        <3> QED
            BY <3>1, <3>2, HeldAt
    <2> QED
        BY <2>1, GetOutputInv
<1>5. ASSUME OheClear \/ RecClear PROVE ProviderInv'
    <2>1. Clear /\ pc \in Reading /\ pc' \in Building /\ Holds(pc) = 0 /\ Holds(pc') = 0
        BY <1>5, HeldAt DEF OheClear, RecClear
    <2> QED
        BY <2>1, ClearInv
<1>6. ASSUME Free PROVE ProviderInv'
    <2>1. pc = "any" /\ pc' = "any"
        BY <1>6 DEF Free
    <2>2. ASSUME NEW b \in Lengths, Makes(OheVec(layers, b)) PROVE ProviderInv'
        BY <2>1, <2>2, RequestsOk, MakesInv
    <2> QED
        BY <2>1, <2>2, <1>6, RunInv, GetOutputInv, ClearInv DEF Free
<1>7. ASSUME UNCHANGED vars PROVE ProviderInv'
    BY <1>7 DEF vars, ProviderInv, OutputsOwn
<1> QED
    BY <1>1, <1>2, <1>3, <1>4, <1>5, <1>6, <1>7 DEF Next, Server, Done

----------------------------------------------------------------------------
(* The theorems.                                                           *)

\* Layers and tickets are in order after any sequence of calls: every stack can
\* run, and the server holds tickets of the layers that it builds or reads.
THEOREM ProviderInvariant == Spec => []ProviderInv
<1>1. Init => ProviderInv
    <2> SUFFICES ASSUME Init PROVE ProviderInv
        OBVIOUS
    <2>1. << >> \in Seq(Sources) /\ Len(<< >>) = 0
        OBVIOUS
    <2>2. /\ layers = << >> /\ held = << >> /\ builds = 0 /\ pc \in {"idle", "any"}
          /\ failed = FALSE /\ got.src = Input
        BY DEF Init, Nothing
    <2>3. StackOk(layers, builds + 1)
        BY <2>2, EmptyStack
    <2>4. ServerOk(layers, output, held, "idle", builds + 1)
        BY <2>1, <2>2 DEF ServerOk, Holds
    <2> QED
        BY <2>1, <2>2, <2>3, <2>4 DEF ProviderInv, Building, Reading, OutputsOwn
<1> QED
    BY <1>1, ProviderStep, PTL DEF Spec

\* The tickets of a layer never overlap, whoever requests them in which order.
THEOREM TicketsApart == Spec => []TicketsDisjoint
<1>1. ASSUME ProviderInv PROVE TicketsDisjoint
    <2> SUFFICES ASSUME NEW i \in 1..Len(layers), NEW j \in 1..Len(layers[i].ops),
                        NEW k \in 1..Len(layers[i].ops),
                        NEW t, t = layers[i].ops[j].out, NEW u, u = layers[i].ops[k].out
                 PROVE  /\ EndByte(t) <= layers[i].size
                        /\ t # u => t.end <= u.st \/ u.end <= t.st
        BY DEF TicketsDisjoint
    <2>1. OperationOk(layers, i, layers[i].ops[j], builds + 1) /\ Apart(t, u)
        BY <1>1 DEF ProviderInv, StackOk
    <2> QED
        BY <2>1 DEF OperationOk, Apart
<1> QED
    BY <1>1, ProviderInvariant, PTL

\* Whatever requests have built, run executes it without a panic.
THEOREM StacksRunnable == Spec => []LayersRunnable
<1>1. ProviderInv => LayersRunnable
    BY StackRuns DEF LayersRunnable
<1> QED
    BY <1>1, ProviderInvariant, PTL

\* The server's calls reach no panic of the layers.
THEOREM ServerNeverPanics == Spec => []NeverPanics
<1>1. ProviderInv => NeverPanics
    BY DEF ProviderInv, NeverPanics
<1> QED
    BY <1>1, ProviderInvariant, PTL

\* Every output that the server reads was computed for the ticket it asks with.
THEOREM OutputsAreOwn == Spec => []OutputsOwn
<1>1. ProviderInv => OutputsOwn
    BY DEF ProviderInv, OutputsOwn
<1> QED
    BY <1>1, ProviderInvariant, PTL

----------------------------------------------------------------------------
(* Budget.                                                                 *)

\* The shapes that the actions of Budget reach.
ShapeInv == l1 \in 3..MaxBits /\ l2 \in 0..l1 /\ n \in Nat \ {0}

\* The assertions of from_seed on the dimensions hold in every state.
LEMMA ShapeInvariance == BudgetSpec => []ShapeInv
<1>1. BudgetInit => ShapeInv
    BY DEF BudgetInit, ShapeInv, MaxBits
<1>2. ShapeInv /\ [BudgetNext]_bvars => ShapeInv'
    BY DEF ShapeInv, BudgetNext, WidenL1, WidenL2, NarrowL2, MoreQueries, bvars, MaxBits
<1> QED
    BY <1>1, <1>2, PTL DEF BudgetSpec

\* What an answered shape is.
LEMMA AnsweredShape ==
    ASSUME ShapeInv, Answered
    PROVE  l1 \in 1..MaxBits /\ l2 \in 1..MaxBits /\ l1 + l2 <= 32 /\ n \in Nat \ {0}
BY DEF ShapeInv, Answered, OheAccepts, JoinAccepts, MaxBits

\* The estimate in init_seeded_correlated_randomness holds for every database
\* that is answered: 1.5 * 2^b gates for an encoding of b bits, and 96 bits of
\* padding.
THEOREM EstimateAlwaysHolds == BudgetSpec => []EstimateHolds
<1>1. ShapeInv => EstimateHolds
    <2> SUFFICES ASSUME ShapeInv, Answered
                 PROVE  /\ \A b \in {l1, l2} : 2 * OheGateBits[b] <= 3 * 2^b
                        /\ 8 * TakenBy(PrcProtocol(l1, l2), "beaver")
                               <= OheGateBits[l1] + OheGateBits[l2] + 2^l2 + 3 * 32
        BY DEF EstimateHolds
    <2>1. l1 \in 1..MaxBits /\ l2 \in 1..MaxBits /\ l1 + l2 <= 32
        BY AnsweredShape
    <2>2. \A b \in {l1, l2} : 2 * OheGateBits[b] <= 3 * Two(b)
        BY <2>1, GateBound
    <2>3. /\ 8 * TakenBy(PrcProtocol(l1, l2), "beaver")
                 <= OheGateBits[l1] + OheGateBits[l2] + Two(l2) + 71
          /\ OheGateBits[l1] \in Nat /\ OheGateBits[l2] \in Nat /\ Two(l2) \in Nat
        BY <2>1, QueryBound
    <2>4. TakenBy(PrcProtocol(l1, l2), "beaver") \in Int
        <3>1. 0 \in Nat /\ "beaver" \in {"beaver", "dabit"}
            OBVIOUS
        <3> QED
            BY <2>1, <3>1, SessionTakes
    <2> DEFINE t == TakenBy(PrcProtocol(l1, l2), "beaver")
               x == OheGateBits[l1] + OheGateBits[l2]
               y == Two(l2)
    <2>5. 8 * t <= x + y + 3 * 32
        <3>1. 8 * t <= x + y + 71 /\ x \in Nat /\ y \in Nat /\ t \in Int
            BY <2>3, <2>4
        <3> HIDE DEF t, x, y
        <3> QED
            BY <3>1
    <2> QED
        BY <2>2, <2>5 DEF Two
<1> QED
    BY <1>1, ShapeInvariance, PTL

\* The correlated randomness that is dealt for n queries is enough for n calls
\* of prc_protocol, for every database that is answered and every n: no
\* assertion of take fails.
THEOREM ProvisionAlwaysSuffices == BudgetSpec => []ProvisionSuffices
<1>1. ShapeInv => ProvisionSuffices
    <2> SUFFICES ASSUME ShapeInv, Answered, NEW kind \in {"beaver", "dabit"}
                 PROVE  TakenBy(Session(l1, l2, n), kind) <= Provision(l1, l2, n)[kind]
        BY DEF ProvisionSuffices
    <2> DEFINE t == TakenBy(PrcProtocol(l1, l2), kind)
               u == Two(l1)
               v == Two(l2)
               e == CeilDiv(5 * v, 2) + CeilDiv(3 * u, 2) + 96
    <2>1. l1 \in 1..MaxBits /\ l2 \in 1..MaxBits /\ l1 + l2 <= 32 /\ n \in Nat
        BY AnsweredShape
    <2>2. TakenBy(Session(l1, l2, n), kind) = n * t /\ t \in Int
        BY <2>1, SessionTakes
    <2>3. Provision(l1, l2, n).beaver = CeilDiv(n * e, 8) /\ Provision(l1, l2, n).dabit = n * 36
        <3>1. 3 * 32 = 96
            OBVIOUS
        <3> QED
            BY <3>1 DEF Provision, Two
    <2>4. CASE kind = "dabit"
        <3>1. t = l1 + l2 + 1
            BY <2>1, <2>4, QueryTakes
        <3>2. t <= 36
            BY <2>1, <3>1 DEF MaxBits
        <3> HIDE DEF t
        <3>3. n * t <= n * 36
            <4>1. n * 36 = n * t + n * (36 - t)
                BY <2>1, <2>2
            <4>2. n * (36 - t) >= 0 /\ n * (36 - t) \in Int /\ n * t \in Int
                BY <2>1, <2>2, <3>2
            <4> QED
                BY <4>1, <4>2
        <3> QED
            BY <2>2, <2>3, <2>4, <3>3
    <2>5. CASE kind = "beaver"
        <3>1. /\ 8 * t <= OheGateBits[l1] + OheGateBits[l2] + v + 71
              /\ OheGateBits[l1] \in Nat /\ OheGateBits[l2] \in Nat
              /\ u \in Nat /\ v \in Nat
            BY <2>1, <2>5, QueryBound
        <3>2. 2 * OheGateBits[l1] <= 3 * u /\ 2 * OheGateBits[l2] <= 3 * v
            BY <2>1, GateBound
        <3> DEFINE p == CeilDiv(5 * v, 2)
                   q == CeilDiv(3 * u, 2)
        <3> HIDE DEF t, u, v
        <3>3. 2 * p >= 5 * v /\ 2 * q >= 3 * u /\ p \in Int /\ q \in Int
            BY <3>1 DEF CeilDiv
        <3>4. e = p + q + 96
            OBVIOUS
        <3> HIDE DEF p, q, e
        <3>5. 8 * t <= e /\ e \in Int
            BY <2>2, <3>1, <3>2, <3>3, <3>4
        <3>6. 8 * (n * t) <= n * e
            <4> DEFINE w == e - 8 * t
            <4>1. w \in Nat /\ e = 8 * t + w
                BY <2>2, <3>5
            <4> HIDE DEF w
            <4>2. n * e = 8 * (n * t) + n * w
                BY <2>1, <2>2, <4>1
            <4>3. n * w \in Nat /\ n * t \in Int
                BY <2>1, <2>2, <4>1
            <4> QED
                BY <4>2, <4>3
        <3>7. \A x, y \in Int : 8 * x <= y => x <= CeilDiv(y, 8)
            BY DEF CeilDiv
        <3>8. n * t \in Int /\ n * e \in Int
            BY <2>1, <2>2, <3>5
        <3>9. n * t <= CeilDiv(n * e, 8)
            BY <3>6, <3>7, <3>8
        <3> QED
            BY <2>2, <2>3, <2>5, <3>9
    <2> QED
        BY <2>4, <2>5
<1> QED
    BY <1>1, ShapeInvariance, PTL
=============================================================================

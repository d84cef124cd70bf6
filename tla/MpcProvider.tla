----------------------------- MODULE MpcProvider -----------------------------
(***************************************************************************)
(* The life of layers and tickets in MpcProvider, without their data.      *)
(* Requests build a stack of layers; run executes them from the deepest to *)
(* layer 0, which it keeps as output layer; get_output reads a ticket from *)
(* it.  A ticket is a layer number and a range of bits: nothing in it says *)
(* for which stack of layers it was made ("build" is read by no action).   *)
(***************************************************************************)
EXTENDS QueryPlan, FiniteSets

CONSTANTS
    Lengths,    \* bit lengths of the indices that are encoded
    MaxBuilds,  \* bound on the number of runs and clears of the server
    MaxFree,    \* the same for callers in any order
    MaxHeld     \* bound on the sources such a caller keeps, and on the gates of layer 0

ASSUME ProviderAssumption ==
    /\ Lengths \subseteq 1..MaxBits
    /\ MaxBuilds \in Nat /\ MaxFree \in Nat /\ MaxHeld \in Nat

VARIABLES
    layers,   \* the layers being built; layers[i] is layer i - 1
    output,   \* the output layer, or NoLayer
    builds,   \* how often a run or a clear has ended a stack of layers
    held,     \* sources the caller holds, in the order it got them
    got,      \* the last output read: which ticket, from which layer; or Nothing
    pc,       \* where the server is in ohe or rec_retrieve, or "any": a caller
              \* that makes the public calls in any order
    failed    \* a panic has been reached

vars == <<layers, output, builds, held, got, pc, failed>>

\* A layer: its current_size in bytes, its operations, and who filled it.
Layer(num, build) == [num |-> num, size |-> 0, ops |-> << >>, build |-> build]
NoLayer == Layer(-1, 0)

\* A LayerSource: data that is at hand, or a ticket.
Input == [layer |-> -1, st |-> 0, end |-> 0, build |-> 0]
Nothing == [src |-> Input, from |-> 0]

Init ==
    /\ layers = << >> /\ output = NoLayer /\ builds = 0
    /\ held = << >> /\ got = Nothing
    /\ pc \in {"idle", "any"} /\ failed = FALSE

EndByte(ticket) == CeilDiv(ticket.end, 8)

----------------------------------------------------------------------------
(* Requests.                                                               *)

\* get_layer: layers are created up to the one asked for.
WithLayer(ls, k) ==
    [i \in 1..(IF k + 1 > Len(ls) THEN k + 1 ELSE Len(ls)) |->
        IF i <= Len(ls) THEN ls[i] ELSE Layer(i - 1, builds + 1)]

\* Mutant: layers are counted from one.
TicketInNext(layer, bits) ==
    [layer |-> layer.num + 1, st |-> layer.size * 8, end |-> layer.size * 8 + bits,
     build |-> builds + 1]

\* The ticket that request_ticket makes in this layer.
TicketIn(layer, bits) ==
    [layer |-> layer.num, st |-> layer.size * 8, end |-> layer.size * 8 + bits,
     build |-> builds + 1]

\* Mutant: the size grows by the full bytes of the request.
GrownFloor(size, bits) == size + bits \div 8

Grown(size, bits) == size + CeilDiv(bits, 8)

\* request_ticket, then two add_operations on it that read these sources.
Requested(ls, k, bits, inp) ==
    LET with == WithLayer(ls, k)
        t == TicketIn(with[k + 1], bits)
        l == with[k + 1]
    IN  [layers |-> [with EXCEPT ![k + 1] =
                        [l EXCEPT !.size = Grown(@, bits),
                                  !.ops = @ \o <<[inp |-> inp[1], out |-> t],
                                                 [inp |-> inp[2], out |-> t]>>]],
         src |-> t]

\* One call of recursive_ohe_vec for b bits at layer k: first the two halves, one
\* layer deeper, then the gate that joins them.  One bit needs no gate.
Joined(Half(_, _, _), ls, k, b) ==
    IF b = 1 THEN [layers |-> ls, src |-> Input]
    ELSE LET low == Half(ls, k + 1, CeilDiv(b, 2))
             high == Half(low.layers, k + 1, b - CeilDiv(b, 2))
         IN  Requested(high.layers, k, 2^b, <<low.src, high.src>>)

\* The recursion: MaxDepth levels of gates above the single bits.
SingleBit(ls, k, b) == [layers |-> ls, src |-> Input]
Ohe2(ls, k, b) == Joined(SingleBit, ls, k, b)
Ohe4(ls, k, b) == Joined(Ohe2, ls, k, b)
Ohe8(ls, k, b) == Joined(Ohe4, ls, k, b)
Ohe16(ls, k, b) == Joined(Ohe8, ls, k, b)
OheVec(ls, b) == Joined(Ohe16, ls, 0, b)

Makes(request) ==
    /\ layers' = request.layers
    /\ held' = Append(held, request.src)
    /\ UNCHANGED <<output, builds, got, failed>>

----------------------------------------------------------------------------
(* Running and reading.                                                    *)

\* check_ticket, for a layer that is initialized or finished.
CheckTicket(layer, ticket) ==
    ticket.layer = layer.num /\ EndByte(ticket) <= layer.size

\* extract_src_data does not panic.
Extracts(src, prev) ==
    \/ src = Input
    \/ prev # NoLayer /\ CheckTicket(prev, src)

\* The operations of layer i do not panic, given the layer that ran before.
Executes(i) ==
    LET prev == IF i < Len(layers) THEN layers[i + 1] ELSE NoLayer IN
    \A op \in {layers[i].ops[j] : j \in 1..Len(layers[i].ops)} :
        Extracts(op.inp, prev) /\ CheckTicket(layers[i], op.out)

\* Mutant: a run does not replace an output layer that was not cleared.
KeptFirst == IF output # NoLayer THEN output ELSE IF layers = << >> THEN NoLayer ELSE layers[1]

\* What run keeps: the layer that ran last.
Kept == IF layers = << >> THEN NoLayer ELSE layers[1]

Bound == IF pc = "any" THEN MaxFree ELSE MaxBuilds

\* run: every layer interacts and is popped, the deepest first.
Run ==
    /\ builds < Bound
    /\ builds' = builds + 1
    /\ output' = Kept
    /\ layers' = << >>
    /\ failed' = (failed \/ ~\A i \in 1..Len(layers) : Executes(i))
    /\ UNCHANGED <<held, got>>

\* get_output of the oldest source still held.
GetOutput ==
    /\ held # << >>
    /\ held' = Tail(held)
    /\ got' = [src |-> Head(held), from |-> output.build]
    /\ failed' = (failed \/ ~Extracts(Head(held), output))
    /\ UNCHANGED <<layers, output, builds>>

Clear ==
    /\ builds < Bound
    /\ builds' = builds + 1
    /\ layers' = << >>
    /\ output' = NoLayer
    /\ UNCHANGED <<held, got, failed>>

----------------------------------------------------------------------------
(* The callers.                                                            *)

Goes(from, to) == ~failed /\ pc = from /\ pc' = to

\* PRCServer::ohe, and the first half of rec_retrieve.
Ohe(b) == Goes("idle", "ohe") /\ Makes(OheVec(layers, b))
OheRun == Goes("ohe", "ohe_read") /\ Run
OheRead == Goes("ohe_read", "ohe_clear") /\ GetOutput
OheClear == Goes("ohe_clear", "idle") /\ Clear

RecOhe1(b) == Goes("idle", "rec") /\ Makes(OheVec(layers, b))
RecOhe2(b) == Goes("rec", "rec_run") /\ Makes(OheVec(layers, b))
RecRun == Goes("rec_run", "rec_read1") /\ Run
RecRead1 == Goes("rec_read1", "rec_read2") /\ GetOutput
RecRead2 == Goes("rec_read2", "rec_clear") /\ GetOutput
RecClear == Goes("rec_clear", "pir") /\ Clear

\* The second half: one AND of 2^b bits whose inputs are at hand, and no clear.
RecAnd(b) == Goes("pir", "pir_run") /\ Makes(Requested(layers, 0, 2^b, <<Input, Input>>))
RecPirRun == Goes("pir_run", "pir_read") /\ Run
RecPirRead == Goes("pir_read", "idle") /\ GetOutput

Server ==
    \/ \E b \in Lengths : Ohe(b) \/ RecOhe1(b) \/ RecOhe2(b) \/ RecAnd(b)
    \/ OheRun \/ OheRead \/ OheClear
    \/ RecRun \/ RecRead1 \/ RecRead2 \/ RecClear \/ RecPirRun \/ RecPirRead

\* Any order of the public calls.
Free ==
    /\ pc = "any" /\ ~failed
    /\ UNCHANGED pc
    /\ \/ /\ Len(held) < MaxHeld
          /\ layers # << >> => Len(layers[1].ops) < 2 * MaxHeld
          /\ \E b \in Lengths : Makes(OheVec(layers, b))
       \/ Run \/ GetOutput \/ Clear

Done ==
    /\ failed \/ builds = Bound
    /\ UNCHANGED vars

Next == Server \/ Free \/ Done

Spec == Init /\ [][Next]_vars
----------------------------------------------------------------------------
(* Properties.                                                             *)

\* The server's calls reach none of the panics in and, run, read_output,
\* check_ticket and copy_from, in any order of ohe and rec_retrieve with any
\* index lengths: rec_retrieve leaves its output layer behind and ohe of one
\* bit runs no layer at all.
NeverPanics == failed => pc = "any"

\* The ranges of the tickets of a layer are disjoint and inside it, so that
\* operations of different encodings do not overwrite each other.
TicketsDisjoint ==
    \A i \in 1..Len(layers) :
        LET tickets == {layers[i].ops[j].out : j \in 1..Len(layers[i].ops)} IN
        \A t, u \in tickets :
            /\ EndByte(t) <= layers[i].size
            /\ t # u => t.end <= u.st \/ u.end <= t.st

\* Whatever was requested, read, cleared or left over before, the layers built
\* so far can run: every operation finds the tickets it reads in the layer
\* right below, and the one it writes in its own.
LayersRunnable == \A i \in 1..Len(layers) : Executes(i)

\* Whatever get_output returns to the server was computed for its ticket.  This
\* is due to its order of calls: check_ticket accepts a ticket of an earlier
\* run as long as the layer is large enough.
OutputsOwn == pc # "any" => got.src = Input \/ got.src.build = got.from
==============================================================================

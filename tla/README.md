# A TLA+ verification of PRC

PRC ("private record certification") lets a client obtain a signed token for
one record of a database that is replicated on n servers, without any server
learning which record. The client secret-shares an index; the servers turn it
into shared one-hot encodings with a GMW protocol over Beaver triples, retrieve
a shared record bit by two-level PIR, convert index and record to arithmetic
shares with daBits, and each commits to its shares; server 0 adds the
commitments up and signs the sum. The code is Rust on tokio, about 3800 lines
without its tests.

Nothing in the protocol's messages says which query or round they belong to, and
the correlated randomness is addressed by counters that each server keeps for
itself. The servers agree by counting alone, over links where peers run ahead,
fall behind or die. Tests run it on one machine with no failures. That is what
this project is mostly about; the second theme is that the computation between
the messages is right in every bit, padding included.

## Inventory

| Part | Source (`src/src/`) | State | Operations | Interacts with |
|---|---|---|---|---|
| Message handler | `prc/connection.rs` `MpcMessageHandler` | peers, three storages (triples, daBits, commitments) | `send_*`, `broadcast`, `receive_all`, `receive_*`, `handle_cmd` | links; called by layers and provider |
| Links | `prc/connection.rs` `ChannelConnection`, `TcpConnection` | FIFO of serialized commands, byte counters | `send` (errors ignored), `receive` (`None` when the peer is gone) | operating system, tokio |
| Connection factory | `prc/connection.rs` `TcpConnectionFactory` | map of connections, spawned accept loop | `listen`, `connect`, `handle_new_listen_connection`, `is_ready`, `wait_till_ready`, `get_handler` | its peers' factories |
| Randomness providers | `cor_rnd/beaver.rs`, `cor_rnd/dabit.rs` | storage, `used` | `generate_with_seed`, `generate_as_dealer`, `take` | sized by `prc/config.rs` |
| MPC provider, layers | `prc/mpc.rs`, `prc/layer.rs` | stack of layers; per layer `LayerState`, tickets, operations, inputs, triples | `ohe_vec`, `and`, `run`, `get_output`, `clear`; `request_ticket`, `add_operation`, `interact` | provider, handler |
| Conversion | `prc/b2a_conv.rs`, `cor_rnd/sharing.rs` | none | `interact` | daBit provider, handler |
| Server | `prc/server.rs` | database, provider, signing key | `new`, `rec_retrieve`, `conv_b2a`, `prc_protocol` | all of the above |
| Client | `prc/client.rs`, `prc/util.rs` | index, commitment randomness | `query_all_servers`, `check_for_rec_val`, `verify` | server's query and token |
| Database | `prc/db.rs` | bit matrix | `from_seed`, `get_record_bit`, `lvl1_pir_retrieve` | server |
| Commitments | `prc/commitment.rs` | none | `commit`, `verify`, `aggregate` | server, client |
| Bit arrays | `simd_array/*.rs` | aligned bytes, `bit_size` | xor, and, `copy_from`, slices, `parity`, `inner_prod` | everything |
| Binary | `main.rs` | loop over `rep_num` queries | `run_server` | server, client |

What is hard here, and what would make each part correct:

* **Rounds.** A server may be a round ahead of a peer, so a message of the next
  round can be under way, or waiting, while the current one is received. Correct
  means: whatever a server combines was made in its own round and blinded with
  the same slice of randomness; storages are empty between rounds; links do not
  fill up; if nobody dies every query is signed; if somebody dies, everyone
  notices, and no token is signed that lacks a commitment.
* **Running out.** `take` panics. All servers must panic in the same round.
* **Leaving.** The first server to finish must not take messages with it.
* **Sizing.** A floating point estimate must cover tickets rounded up to bytes.
* **Connecting.** One task connects, another accepts; a peer may not be there
  yet, or die in between.
* **Bits.** Tickets smaller than a byte, padding that holds random shares, index
  parts of different lengths, constants that exactly one server must add.
* **Bytes.** A TCP stream has no marks: prefixes, partial reads and writes, cuts
  within a frame, buffers smaller than a broadcast, counters of 32 bits.
* **Memory.** Lane-wise operations over whole lanes with unchecked accesses,
  guarded by assertions on sizes in bits.
* **Calls in sequence.** Tickets, layers and providers outlive the run they were
  made for; nothing in a ticket says for which run it is good.

`PROJECT.json` lists the hazards with their lines and the properties that
answer them.

## Modules

| Module | Models | Run as |
|---|---|---|
| `Lockstep` | what the rounds promise: a server finishes a round only when all have entered it | instance in `MpcRounds` |
| `MpcRounds` | one process per server: take, send, receive, combine, over bounded FIFO links, with deaths | `MCMpcRounds` |
| `MpcRoundsProofs` | its inductive invariants and theorems, with deaths and without | TLAPS |
| `QueryPlan` | the rounds of a query and what each takes; what is dealt | used by `MCMpcRounds`, `Budget`, `PrcQuery`, `MpcProvider` |
| `Budget` | is enough dealt? one state per database shape and number of queries | itself |
| `SecretSharing` | sharing, reconstruction, dealing of triples and daBits | used by `PrcQuery` |
| `Sums` | induction by smallest counterexample; sums, remainders, powers, the tables of `QueryPlan` | TLAPS |
| `PrcQuery` | one query with all its bits, from the client's shares to the token | `MCPrcQuery` |
| `PrcQueryProofs` | sharings for any number of servers; the inductive invariant of a query and its theorems | TLAPS |
| `MpcProvider` | layers and tickets over many calls, without their data | itself |
| `MpcProviderProofs` | that stacks of layers can be run, that tickets stay apart and current, and that enough is dealt for any number of queries (`Budget`) | TLAPS |
| `TcpFactory` | how servers connect and start their first round | itself |
| `TcpFactoryProofs` | its inductive invariant and its safety properties | TLAPS |
| `TcpStreams` | the rounds over byte streams, with `NetStat`; implements `MpcRounds` | `MCTcpStreams` |
| `TcpStreamsProofs` | that frames stay whole and are counted exactly, and the refinement of `MpcRounds` | TLAPS |
| `Wire` | `Cmd::serialize` and `deserialize` over one stream, byte by byte | itself |
| `WireProofs` | that what is decoded is what was encoded, for all sizes | TLAPS |
| `BitVectors` | what bit arrays promise: vectors of bits | instance in `BitArrays` |
| `BitArrays` | `BitArray` and `AU8Array`, lane by lane | `MCBitArrays` |
| `BitArraysProofs` | memory safety of the lanes, and the refinement of `BitVectors` | TLAPS |

Three refinements connect them, all proved: `TcpStreams` implements `MpcRounds`
(`RefinesRounds`), which implements `Lockstep` (`RefinesLockstep`), and
`BitArrays` implements `BitVectors` (`RefinesVectors`). Definitions commented
"Mutant" are changed forms of the definition below them, each the way a
plausible bug would change it; `PROJECT.json` says which property each breaks.

### MpcRounds

`rnd`, `pc` and `status` are the control state of a server inside
`prc_protocol`: in each round it takes randomness (`Take`, or `TakePanic` when
the assertion of `take` fails), sends to each peer in any order (`Send`, one of
the futures that `broadcast` joins), receives one message from each peer in any
order (`Receive`, or `ReceiveNone` when the peer is gone: the futures of
`receive_all`), and combines (`Combine`, or `CombinePanic` when the count
assertion fails). `store` is the three storages, `used` the providers' counters,
`chan` the links, `token` what server 0 has signed. A message is abstracted to
its kind, its sender, and two fields that are *not* on the wire and that no
action reads: the round it was made in and the end of the slice of randomness
that blinds it. `SharesMatch` is about these. The payload itself is the business
of `PrcQuery`.

`Schedule` and `Avail` are constants, so the theorems hold for every series of
rounds. `MCMpcRounds` instantiates them with `QueryPlan`.

A server leaves by returning, by a panic, or by `Crash` (any point of a round,
`MaxCrashes` bounds how often). A panic closes the sockets in order: what was
sent is still delivered, except on connections with unread data, which TCP
resets. A crash may lose any suffix of what was sent, on each link separately.
A message that is cut off in the middle counts as lost, since `receive` returns
`None` for it.

### PrcQuery

All servers take each step together: `MpcRounds` is what justifies this. The
state follows the code's own: the layer that runs, its `LayerState`, its
operations, `and_data` and `beaver` per server and bit, `prev` for the output of
the layer before. `EndTicketing`, `ExecOperation` (one per operation popped),
`BlindAndWithBeaver`, `ReconsBeaverUV` and `FinishAndExchange` are the phases of
`Layer::interact`; `PopLayer` is the loop of `run`; `RecRetrieve` and
`RecordShare` are the two halves of `rec_retrieve`; `ConvBlind` and `ConvFinish`
are `ConvLayer::interact`. The circuit of `recursive_ohe_vec` is not walked
recursively but described level by level. A level is the set of its nodes, each
the range of index bits that it encodes; the ranges of a level are disjoint, and
the recursion requests the tickets of a layer, and adds its operations, in the
order of these ranges. So a ticket starts behind those of the gates with lower
bits (`Start`), and the operation popped next is the one with the highest place
(`AddedLast`). The dimensions are those that `from_seed` and `join_boolean`
accept (`QueryAssumption`). ChaCha8 is the constant
`Rnd`; `MCRnd` is a fixed mixing function. The scalar field is the integers
modulo `Order`. Pedersen commitments are taken to be binding and additive (a
commitment is its opening), and the signature to bind the commitment.

The client is at the end: `CheckForRecVal` is the check of the token against a
record value (`PRCToken::check_for_rec_val`), which `run_server` calls for 0 and
then for 1 and which sets the token's commitment when it succeeds; `Verify` is
the final verification, whose failure is the assertion in `run_server`.

### Budget and QueryPlan

The states of `Budget` are configurations: every pair of dimensions that
`from_seed` accepts. `Answered` says that no guard on the shape panics inside a
query (`OheAccepts`, `JoinAccepts`); the sizing properties are about the
answered shapes, and `ShapesAnswered` is the claim that there are no others.

### MpcProvider

`layers` is the stack that requests build, `output` the layer that `run` keeps.
A ticket is what it is in the code, a layer number and a range of bits, plus the
number of the run it was made for, which no action reads. The initial states
are a server, with its sequences of calls (`ohe` and the two halves of
`rec_retrieve`, each call an action), and a caller that makes the public calls
in any order. The recursion of `recursive_ohe_vec` is written out in its five
levels (`Ohe2` to `OheVec`), which is all that 2 to `MaxBits` bits have. Every
panic of `check_ticket`, `extract_src_data` and `run` sets `failed`.

### TcpFactory

`pc` and `target` follow `PRCServer::new` through `listen`, `connect`,
`wait_till_ready` and `get_handler` into the first round; `looping` and
`accepting` follow the accept loop, which is a task of its own. `backlog` is the
operating system's queue: a connection succeeds when the peer listens, before it
is accepted. `Refused` is the `unwrap` of a failed connect, `AcceptPanic` the
panic on a handshake that never comes. `AcceptFails` is the other end of the
accept loop: `accept` returns an error and the `while let` is over, or
`set_nodelay` fails on the new connection. The listener is gone, the server is
not, and the peers' connections that were not filed yet are closed (`Dropped`).
`MaxErrors` bounds how many loops meet an error, and `erred` records whose. An
error in the main task (`bind`, or `set_nodelay` in `connect`) panics the server
and is a `Crash`. `conns` is the map of connections by
announced id, and `Announced` cuts an id to `IdRange` values (256 in the code).
`stream` holds what a connection carries: first a handshake, then the first
shares, which a server that is ready sends although its peer may not have come
to the handshake yet. The first round is one send and one receive, with all that
panics in `handle_cmd` (`Fatal`): a handshake, and the assertion that a sender
has another id than oneself, which compares single bytes. Later rounds are
`MpcRounds`, whose links join servers with different bytes: two ids are the same
byte only with more than 256 servers.

### TcpStreams

The same rounds one level down. A frame is a prefix and `CmdLen` units, written
and read one unit at a time; `Cap` units fit between two servers, and `Write`
waits for room, as `write_all` does. `StartSend` is the beginning of a
`broadcast`, after which nothing is read until all of it is written
(`wr`). `ReadPrefix` and `ReadPayload` are `receive`: the length is whatever
unit comes next, and nothing tells a prefix from payload. `ReadCut` is a stream
that ends, at a prefix or within a frame. `stat` are the `NetStat`s, counted
modulo `Word`, and `Finish` is the end of a query in `run_server`, where they
are summed into `report` and reset. The connections come from `TcpFactory`, and
the handshake has been counted on them, `Greeting` units as sent by the
higher id and as received by the lower one (`Handshaken`); nothing resets the
counters before the first query. All rounds are of one kind and take nothing:
kinds and randomness are the business of `MpcRounds`, which this module is shown
to implement.

### Wire

One direction of a connection, with every byte: `Serialize`, `Deserialize` for
the four commands, little-endian lengths, and a stream that is cut after any
byte. Base, width and array sizes are constants. `Frame` is what `send` writes
for a command; `CmdLen` and `Arrived` are all that `receive` knows of the next
one.

### BitArrays

An array is its size in bits and bytes, the bytes allocated and the bits of all
of them, tail included. Lane-wise operations (`Stored`) run over the lanes of
`self` in both operands, byte-wise ones over bytes. `from_slice` gets memory
with arbitrary contents and clears its last lane. `parity` and `inner_prod` xor
all lanes into one and take its `count_ones` modulo two, which `CountOnes` states
as the number of ones in all lanes modulo two. `BitVectors` keeps
whole bytes and nothing behind them; that parity, products and equality see the
padding of the last byte is part of both.

## Runs

| Run | Instance | Checks |
|---|---|---|
| `rounds` | 3 servers, 6 queries on 8 x 2 bits with randomness for 1, links of 3, no deaths | `TypeOK`, `SharesMatch`, `LinkBound`, `ExhaustedTogether`, `DeathlessInv` |
| `rounds_crash` | 3 servers, 1 query, links of 1, up to 2 deaths | `TokenComplete`, `CleanExit`, `PanicOnlyAfterCrash`, `RoundsInv`, `RefinesLockstep`, `EveryQuerySigned`, `EveryoneStops` |
| `query` | 4 servers, 4 rows of 32 bits, every index, 12 choices of seeds | `GatesCorrect`, `OheCorrect`, `RecordCorrect`, `ConversionCorrect`, `TokenOpensToRecord`, `TokenVerifies`, `PlanFollowed` |
| `budget` | 2^3 to 2^26 bits a row, 1 to 2^26 rows, 1 to 3 queries | `ProvisionSuffices`, `EstimateHolds` |
| `shapes` | the same, 1 query | `ShapesAnswered`, violated |
| `provider` | indices of 1, 2, 3 and 5 bits; 6 runs or clears of the server, 3 of any caller | `NeverPanics`, `OutputsOwn`, `TicketsDisjoint`, `LayersRunnable` |
| `tcp` | 3 servers started in order, 3 ids, up to 2 deaths, any accept loop may fail | `ReadyComplete`, `HandshakesApart`, `LoopSurvives`, `FactoryInv`, `EveryoneStarts` |
| `tcp_any_order` | 3 servers started in any order, no deaths or errors | `EveryoneStarts`, violated |
| `streams` | 3 servers, 2 queries of 1 round, frames, handshakes and buffers of 2 units, counters up to 8, one death | `FramesIntact`, `ReportExact`, `FramesInv`, `RefinesRounds`, `EveryoneFinishes`, `EveryoneStops` |
| `wire` | bytes of 4 values, lengths of 2 bytes, arrays of 1 to 3 bits, 2 commands | `Delivered` |
| `arrays` | 2 arrays of 1, 2 or 5 bits, bytes of 2 bits, lanes of 2 bytes | `AccessesInside`, `ArraysInv`, `RefinesVectors` |
| `arrays_drop` | the same | `DropMatchesAlloc`, violated |

Bounds and why they are enough:

* Three servers are the fewest with which two peers of a server can be in
  different rounds from each other and from it. A query on 8 x 2 bits has two
  encoding rounds, a PIR round, a conversion and a commitment: consecutive rounds of
  the same kind, where a mix-up would go unnoticed, and changes of kind. Several
  queries make the sequence wrap around. The allowance for padding is generous on
  so small a database, so the randomness of one query lasts for several before it
  runs out in the middle of one. `LinkBound` says links never hold more than 2, so
  the capacity 3 of `rounds` never limits anything and stands for the code's 100;
  the capacity 1 of `rounds_crash` does block senders.
* In `query` both index parts have gates, of different depth, in tickets smaller
  than a byte and larger ones; five bits split into unequal halves; some layers
  have gates of one part only; the PIR layer is half padding. The number of
  servers is even, since a constant added by every server instead of one is
  invisible with an odd number of them, and greater than two, so that the dealer
  corrects several other shares. `Order` = 131 exceeds every index.
* `budget` goes up to 2^26 rows of 2^26 bits. The joined index must fit the u32
  of a `BooleanValue`, so the answered shapes among them end at 2^16 rows of
  2^16 bits, or 2^6 rows of 2^26: both ends are inside.
* `provider`: index lengths with no layer at all (1 bit), one, two and three
  layers, and unequal halves. Six runs or clears are a whole `rec_retrieve` with
  what was there before and what comes after it.
* `tcp`: server 0 has two connections to accept, one after the other, server 2
  two to make, and server 1 does both. As many ids as servers is the boundary
  (256 servers in the code). A death can bring down others, by refused
  connections, missing shares and broken accept loops; two deaths leave one
  server with everything gone wrong. Each of the three loops may meet its error,
  at any time, with deaths or without.
* `streams`: buffers of exactly a frame are the smallest for which nobody may
  block. The first query of the server with the highest id sends exactly the
  largest value the counters hold (`Word` - 1 = 8), handshakes included, and that
  of the lowest id receives it. Two queries, so that a peer can send in the second
  while the first is summed up. The frames are the shortest ones, which can still
  be cut at and behind the prefix; a unit of payload looks like a length.
* `wire`: two-byte lengths exercise the byte order; arrays of 1, 2 and 3 bits
  with two bits to a byte are partial, exact and longer than a byte.
* `arrays`: the sizes give less than a byte, a byte, and three bytes with a
  partial one, in lanes of two: a lane that is half used, and two lanes. Drawn
  arrays have one of two contents, `set_bit` gives all others. The two slots are
  interchangeable, so TLC uses their symmetry.

Deadlock checking is off in `budget` and `shapes`, which enumerate
configurations and end, and in `wire`, whose sender stops after its commands.
`Over`, `Done` and `Settled` are the final states of the others.

### The violated properties

Each of these runs states what a comment or the documentation says and shows a
behaviour of the code that differs.

* `EveryoneStarts` with servers started in any order: `README.md:178` asks the
  user to start n processes with ids 0 to n-1 and names no order (and
  `measurements/bench.sh:78` starts them concurrently in the background). The
  code requires lower ids to be listening first: otherwise `connect` panics at
  `connection.rs:628`, and the peers of that server poll without end
  (`connection.rs:680`). The run `tcp` shows that in order of ids, without failures, all is well.
* `ShapesAnswered`: `main.rs:31` asks for powers of two, and a database with one
  row passes every check of the setup, but `recursive_ohe_vec` (`mpc.rs:91`)
  panics on zero bits in the first query. So do dimensions with more than 32
  bits together, in `join_boolean` (`sharing.rs:153`).
* `DropMatchesAlloc`: `AU8Array::drop` "recomputes" the layout
  (`aligned_array.rs:195`) from the length that was not rounded up. `dealloc`
  requires the layout of the allocation.

### Other divergences

Smaller disagreements between comments and code, met while modelling. The
models follow the code, and the runs show that the protocol does not depend on
them.

* `layer.rs:273` says operations run in the order they were added; they are
  popped from the end (`ExecOperation`). The results are the same (`OheCorrect`).
* `connection.rs:651` says a handler reaches all connected peers. A handshake
  carries the id as u8 (`connection.rs:639`), so with 257 servers the last one is
  filed by server 0 under its own id, counted by `is_ready` and skipped by
  `get_handler`: `TcpFactory` with one server more than `IdRange` violates
  `ReadyComplete`.
* `bit_array.rs:278` says `parity` sums the bits of an array; it includes the
  padding bits, which `random` leaves nonzero. The padding of the protocol's
  answers is a sharing of zero (`GatesCorrect`, `RecordCorrect`).
* `bit_array.rs:196` says "Only last byte can be partial", but the assertion lets
  any size shrink past a byte boundary. The one caller starts from whole bytes, as
  `Shrink` does.
* `layer.rs:181` says `read_output` panics if a ticket is invalid; a ticket of an
  earlier run is not noticed. The server never keeps one (`OutputsOwn`).
* `measurements/PCR_plots.py:72` plots the bytes sent alone, "as upload=download".
  In the first report of a server they differ: connections are counted from their
  handshake on (`connection.rs:640`, and `577` at the peer), 6 bytes sent for each
  lower peer and 6 received for each higher one, and nothing resets the counters
  before the first query. `ReportExact` says what each report is; from the second
  on both directions are the same.
* `BeaverProvider` keeps `used` when it is filled again (`beaver.rs:29`), unlike
  `DaBitProvider`. The program fills it once.

### Fairness

`MpcRounds!Fairness` is weak fairness of each server's steps: a server is a task
of the tokio runtime, which polls a woken task eventually, and the futures that
`join_all` combines are polled whenever one of them is woken. A step that stays
enabled (a message to read, a place to write, a closed link) is such a wakeup.
Crashes are never required. `TcpFactory!FairSpec` has weak fairness of each
server's main task and of its accept loop, two tasks of the same runtime; that
each server is started at some time is part of the former; nothing makes
`AcceptFails` or `Crash` happen. `TcpStreams` has weak
fairness of each server's steps, for the same reason as `MpcRounds`: socket
readiness wakes the future that waits in a read or a write.

## Proofs

Each proof module rests on the `ASSUME`s of the module it is about, which TLC
evaluates on every run. Where a theorem needs more than these, its statement
says so. TLC also checks these inductive invariants on runs: `RoundsInv`,
`DeathlessInv`, `FactoryInv`, `FramesInv`, `ArraysInv`. Each includes the types
of the variables it is about. Those of a query (`QueryInv`), of the layers
(`ProviderInv`) and of the commands (`WireInv`) are made of parts that imply the
properties that `query`, `provider` and `wire` check.

### Rounds: `MpcRoundsProofs`

For any finite set of two or more servers, any schedule, any amount of dealt
randomness, any capacity of at least one and any number of deaths:

| Theorem | Statement |
|---|---|
| `Invariance` | `Spec => []RoundsInv` |
| `TypeCorrect` | `Spec => []TypeOK` |
| `SharesAlwaysMatch` | `Spec => []SharesMatch` |
| `LinksBounded` | `Spec => []LinkBound` |
| `ExitsAreClean` | `Spec => []CleanExit` |
| `TokensComplete` | `Spec => []TokenComplete` |
| `Refinement` | `Spec => RefinesLockstep` |

The assumptions are the three `ASSUME`s of `MpcRounds`: server 0 exists and has
a peer, a schedule is a sequence of rounds in which commitment rounds take no
randomness, and the capacity is at least one.

The argument. None of the properties is inductive: that the message at the head
of a link is of the right round depends on where sender and receiver are and on
everything between them. `RoundsInv` describes each link with two counters that
the code does not have, both functions of the state: `SentTo(p, q)`, the last
round p has sent to q, and `ReadFrom(q, p)`, the last round q has finished
reading from p.

* `PhaseInv`: `sent` is used only while sending, `heard` only while receiving.
* `SkewInv`: nobody is past a round that some peer has not sent it. With
  `PhaseInv` this bounds the distance of any two servers by one round, which is
  where `LinkBound` comes from.
* `UsedInv`: the counters of servers that have entered equally many rounds are
  equal, and one round apart they differ by what that round takes.
* `LinkInv`: a link holds consecutive rounds starting right after
  `ReadFrom`, each of the schedule's kind and with the right slice of
  randomness; a link from a server that has not died misses nothing.
* `StoreInv`: a stored message is of the receiver's round and from a peer heard.

The key lemma is `EnoughSenders`: messages in a storage have distinct senders
(two messages of the same sender, round, kind and slice are equal), so as many
messages as peers means one message of *every* peer, dead ones included. This is
why counting is enough, and why `Combine` preserves `SkewInv` (`HeardEveryone`).
`TokensComplete` and `Refinement` follow from it.

### Panics: `MpcRoundsProofs`

In the same module and under the same assumptions:

| Theorem | Statement |
|---|---|
| `Deathless` | `Spec => []DeathlessInv` |
| `RunOutTogether` | `Spec => []ExhaustedTogether` |
| `PanicsNeedDeaths` | `Provided => (Spec => []PanicOnlyAfterCrash)` |

`Provided` says that the dealt randomness covers the schedule: there are partial
sums T of what the rounds take (`Covered`), none of which exceeds `Avail`. That
it holds of the code's schedules is the `ASSUME ExpectedSuffices` of
`MCMpcRounds`, evaluated in `rounds_crash`, and `ProvisionSuffices` for every
database shape. Without it `take` panics although nobody died, which is what
`rounds` shows. Stating the sums as a function T that the hypothesis provides
also avoids an induction over the schedule: each server's counters are T at the
round it has entered.

A server that runs out leaves its peers as a death does, so the difficulty is
that nobody is hurt by its leaving. `RoundsInv` is not enough, since its links
may miss messages from servers that left. `DeathlessInv` adds:

* `DealtInv`: nobody overdraws, and a server is exhausted only where it is
  `Short`, before a round that takes more than is left.
* `CompleteInv`, while nobody has died: no link and no storage misses a message.
* `SignedInv`: server 0 has signed every query it is past.

By `UsedInv`, if one server is short in round r then so is every server that
gets there (`NobodyEnters`). So nobody sends in round r, nobody waits for a
message that an exhausted server took with it (`NoneNeedsDeath`,
`NothingUnread`), and every count is right (`CountIsRight`).

### Connecting: `TcpFactoryProofs`

For any number of servers, in any starting order, with any number of deaths and
of accept loops that fail, if `IdsFit`:

| Theorem | Statement |
|---|---|
| `FactoryInvariance` | `IdsFit => (Spec => []FactoryInv)` |
| `HandlersComplete` | `IdsFit => (Spec => []ReadyComplete)` |
| `HandshakesNeverMixed` | `IdsFit => (Spec => []HandshakesApart)` |
| `LoopsSurvive` | `IdsFit => (Spec => []LoopSurvives)` |

`IdsFit` is `NumServers <= IdRange`, up to 256 servers: with one more
`ReadyComplete` is false (see "Other divergences").

`is_ready` only counts. `ConnsInv` says that what it counts are distinct peers:
a connection is filed under the id of its other end, never under the server's
own, so as many entries as peers are all peers (`PeersCount`). That this
survives the accept loop needs the path a connection takes:
`TargetInv` says how far a server is with connecting, `QueueInv` that backlog
and accept loop hold, each once, servers that have connected and are not filed
(`Waits`), and `StreamInv` that the first command of such a server is its
handshake, and that everything else on any connection is shares. The accept loop
therefore reads the handshake of the server it is with, however early the
first shares come, and waits in vain only for a dead one. That is `LoopsSurvive`:
of the three ways in which the loop of a living server ends, an error of
`accept`, one of `set_nodelay` and the panic on a handshake, the first two are
what the environment does (`erred`), and the third needs a peer that is gone. An
order of steps in which all goes well for each server alone never ends one.

### Frames: `TcpStreamsProofs`

For any servers, lengths of frames, buffers, widths of the counters and deaths:

| Theorem | Statement |
|---|---|
| `FramesInvariance` | `Spec => []FramesInv` |
| `FramesStayIntact` | `Spec => []FramesIntact` |
| `ReportsExact` | `ReportBytes < Word => (Spec => []ReportExact)` |
| `StreamsAreLinks` | `Spec => RefinesRounds` |

`WriteNext(l)` and `ReadNext(l)` are the places (round and position in the
frame) that the two ends of a connection come to next. `FramesInv` says that the
units in the buffers follow each other without a gap from the reader's place to
the writer's, that each is what a server writes at that place, and that the
reader's count of missing units and its buffer add up to the length of the frame
of its own round. A death cuts off a suffix, which leaves the beginning gapless;
the reader gets to the end of it and no further. That a length is read where a
length was written follows, since position 0 of a round comes after the last
position of the round before. No relation between `Cap` and the frames is
needed: buffers that are too small block, and do not mix.

`ReportsExact` is about the counters, which `run_server` reads and resets while
a peer may already be sending frames of the next query. `CountersInv` says that
each of the two counters of a connection holds the complete frames of the
current query so far (`FirstFrames`), plus the frame of the current round once
this end has come to it, and in the first query the handshake if it went this
way (`Greeted`). What has arrived and was not read is not counted, so
what a peer sends early changes nothing before the reset. The hypothesis is the
one the u32 needs: a query and n - 1 handshakes are what the server with the
highest id sends and the one with the lowest id receives before the first reset,
and if that does not fit the counter, the sum of these wraps around.
`Summed` adds the connections one by one with `SumFunction`; that n - 1 equal
counters give n - 1 times one of them is `SumConstant`, and that the handshakes
add up to those of the peers on one side is `SumWhere` (`SumOut`).

`StreamsAreLinks` takes a message to be on its link from the write of its last
unit to the read of its last unit. `FramesInv` makes the rounds of the units in
a buffer consecutive, so the messages of a buffer (`Messages`) follow from its
first and its last unit alone, and taking a unit off the front, adding one at
the end or cutting the buffer anywhere each change them by at most one message
at that end or to a prefix (`MessagesTail`, `MessagesAppend`, `MessagesCut`).
Writing and reading inside a frame are then stutters, the last units are `Send`
and `Receive`, and a read that ends early is `ReceiveNone`. Three things do not
follow from one link alone:

* `QuietInv` (`QuietInvariance`): nothing is on its way to a server that has
  left, and nothing on its way is of a later round than its sender is in.
* No server is more than a round ahead of a peer (`Ahead`), so a link holds at
  most two messages (`TransitBound`): the capacity of the links in `MpcRounds`
  is never in the way of a write, and a crash of the streams keeps a number of
  messages that a crash in `MpcRounds` can keep.
* The two levels reset different connections when a server panics: one with
  part of a frame unread is reset here and has no message unread there. Where
  anything is unread, the peer is a round ahead and so has read all that the
  panicking server sent it (`UnreadMeansRead`), and the reset loses nothing.

Composed with `Refinement`, the streams implement `Lockstep` too.

### Arrays: `BitArraysProofs`

For any number of arrays, any sizes up to a largest one (a usize), any width of
a byte and any alignment:

| Theorem | Statement |
|---|---|
| `ArraysInvariance` | `Spec => []ArraysInv` |
| `NoAccessOutside` | `Spec => []AccessesInside` |
| `ArraysAreVectors` | `Spec => RefinesVectors` |

`ArraysInv`: an array has exactly the bytes that its bits need and an allocation
of whole lanes, and everything behind its last byte is zero. The first two make
equal sizes in bits mean equal allocations, which is what the assertions of the
lane-wise operations rely on. The third is what makes `parity`, `inner_prod` and
`eq`, which run over whole lanes, agree with the vectors, which end with the
last byte; no operation establishes it except the constructors, and each of the
others has to keep it (`XorArr`, `AndArr`, `MutAndArr`, `CopiedArr`, ...). The
refinement then goes action by action (`XorStep`, `CopyFromStep`, ...). The
byte-wise copy is shown to touch the same bits as the bit-wise one
(`WholeBytes`). The padding bits inside the last byte are in both specifications.

### One query: `Sums`, `PrcQueryProofs`

For any number of servers from two on, all dimensions that a query accepts, any
database, index and seeds, and any scalar field larger than the indices:

| Theorem | Statement |
|---|---|
| `QueryInvariant` | `Spec => []QueryInv` |
| `QueryGates` | `Spec => []GatesCorrect` |
| `QueryEncodings` | `Spec => []OheCorrect` |
| `QueryRecord` | `Spec => []RecordCorrect` |
| `QueryConversion` | `Spec => []ConversionCorrect` |
| `QueryToken` | `Spec => []TokenOpensToRecord` |
| `QueryVerifies` | `Spec => []TokenVerifies` |
| `QueryFollowsPlan` | `Spec => []PlanFollowed` |

Besides `SharingAssumption` and `QueryAssumption` each theorem assumes
`Generator`: what `Rnd` draws are natural numbers. Nothing is assumed about how
they are distributed: correctness, unlike secrecy, does not depend on it.

*Induction.* Reconstruction is a fold over the servers. The library's induction
theorems take the property as an operator, which the provers here cannot
instantiate; `Sums` argues with the smallest counterexample instead.
The naturals and the subsets of a finite set are well founded, so a nonempty set
of counterexamples has a minimal one (`SmallestNumber`, `MinimalSubset`), and the
set can be written down for the statement at hand. In this way come: that the
fold behind `SumFunction` exists and does not depend on the order of `CHOOSE`
(`FoldsExist`, `SumRemove`), that sums are additive, that two sums may be swapped
(`SumSwap`), and that a number is the sum of its bits (`Binary`). Exponents stay
below 34, so powers of two are a table (`PowerTable`).

*Sharings.* With these, `secret_share_boolean` and `secret_share_arith` return
shares of their values, a dealt triple satisfies c = ab, and a dealt daBit is the
same bit in both sharings.

*The invariant.* `QueryInv` is the conjunction of

* `ControlInv`: stages, layer numbers and `LayerState`s that go together;
* `EncodingInv`: the output of the layer before encodes the nodes of its level;
* `RunInv`: for the layer that runs, the sizes of its arrays, that each operation
  already executed has left its bits in place, that bits nobody writes are zero,
  and, from step to step of `interact`, how inputs, triples and opened values
  are related (`Product`);
* `PirInv`: the inputs of the second level are shares of a column of the
  database and of an encoding of the row;
* `RecordInv`, `ConversionCorrect`, `TokenInv`: the same for the later stages.

*The argument.* `OpsApart` and `OpFits` show that the operations of a layer write
disjoint bits inside their tickets, whatever the rounding to bytes, so the order
in which they are popped does not matter. `AndShares` is Beaver's identity for
one bit and any number of servers, one of which adds the constant. `GateInputs`
and `OneHotProduct` show that the repeated low half and the expanded high half
multiply to the encoding of both: bit j has the index j mod 2^l in one and
j div 2^l in the other. `SharedParity` swaps the sum over the servers with the
sum over the bits, once for the inner products of the first level and once for
the parity of the answer, whose padding vanishes because `GatesCorrect` holds
there too. `ArithBitSum` is e + r - 2er for one bit, `ConvShare` the weighted sum of
these modulo `Order`, which is the index since `Order` exceeds it.

*The plan.* The circuit is a tree of gates, `QueryPlan` a table that halves the
length of an index; `PlanFollowed` says that they describe the same rounds. A sum
over a level of the tree is regrouped by the gates of the level above, whose
halves are four different nodes (`KidsApart`, `ChildSum`), so the bytes that a
layer takes are those of the table k levels down (`LevelBytes`). The depth in the
table is the number of layers that it requests something of (`BytesDepth`), which
makes the number of rounds right (`PlanRounds`); from there `used` grows round by
round (`PlanStep`).

### Layers and tickets: `MpcProviderProofs`

For index lengths up to `MaxBits`, any bounds on runs, held tickets and calls,
and both the server and the caller in any order:

| Theorem | Statement |
|---|---|
| `ProviderInvariant` | `Spec => []ProviderInv` |
| `TicketsApart` | `Spec => []TicketsDisjoint` |
| `StacksRunnable` | `Spec => []LayersRunnable` |
| `ServerNeverPanics` | `Spec => []NeverPanics` |
| `OutputsAreOwn` | `Spec => []OutputsOwn` |

A request walks the halves of an index and touches a layer of the stack for
each, so what it leaves behind is described by what every stack of layers has in
common, whoever built it: a new ticket starts behind all others of its layer
(`Apart`), an operation writes a ticket of its own layer and reads either inputs
or tickets of the next deeper one (`OperationOk`, `SourceOk`), and a layer that
is read exists and is large enough (`StackOk`). Requests only ever make stacks
longer and layers larger, so what was readable stays readable while the rest of
the walk goes on. `run` pops from the deepest layer, whose output is the one the
next layer's operations name. `ServerOk` says for each place in the server's
calls which tickets it holds and that they are of the last run, which is what
`NeverPanics` and `OutputsOwn` need of the server and not of any caller.

### Messages: `WireProofs`

For bytes of any base from 4 on (the four types of commands), numbers, arrays
and commitments of any width, any commands and any number of them, and a stream
that is cut after any byte:

| Theorem | Statement |
|---|---|
| `CommandsDelivered` | `CommandsFit => (Spec => []Delivered)` |
| `RealCommandsDelivered` | `Spec => []Delivered`, with bytes of 8 bits, numbers of 4 bytes and commitments of 32 |

`CommandsFit` says that the length of every command fits its prefix, which
`serialized.len() as u32` takes for granted; `RealCommandsFit` shows that it does
in the code, where the size in bits of an array is a u32 too.

*Decoding.* The digits of a number, each times what it counts for, sum up to its
remainder modulo the base to the power of the digits so far, digit by digit
(`BytesBack`); numbers that fit are their own remainder. Each field of a command
then lies where `deserialize` looks for it (`Part`, `Fields`): the arrays begin
behind the header and are as long as the decoded size says (`BeaverBack`,
`DabitBack`, `HandshakeBack`, `CommitBack`, `CommandBack`).

*The stream.* `WireInv` strengthens `Delivered`: the stream is always a beginning
of the frames that are on their way, all of them while the peer lives. A send
puts a frame behind them (`FlattenOneMore`), a cut leaves a shorter beginning
(`Shorten`). A receive needs `FirstCommand`: if as many bytes are there as the
prefix says, then the prefix is that of the first frame, even in a stream that
was cut, so the whole frame is there, is decoded to its command, and leaves a
beginning of the others (`Beginnings`, `FlattenFirst`). `FlattenSeq` and the
weights of the digits are recursive functions; that there are such functions is
`TableExists`.

### Sizing: `MpcProviderProofs`, `Sums`

For any number of queries and every shape up to 2^26 rows of 2^26 bits:

| Theorem | Statement |
|---|---|
| `EstimateAlwaysHolds` | `BudgetSpec => []EstimateHolds` |
| `ProvisionAlwaysSuffices` | `BudgetSpec => []ProvisionSuffices` |

The estimate in `config.rs` has three parts, and so has the proof. Gates: an
encoding of b bits has at most 1.5 * 2^b of them (`GateBound`), by induction over
the halves, since the halves of 2^b have at most 2^((b+1)/2) entries each.
Padding: a ticket of three or more bits of index fills whole bytes, so only
encodings of two bits lose anything, four bits each, and there are at most b / 2
of those in an encoding of b bits (`LayerSumBound`, `ByteRounding`). With
l1 + l2 <= 32 this stays below the 96 bits that are set aside per query. Queries:
a session repeats the same rounds, and the sum of a periodic schedule is n times
the sum of a period (`SumPeriodic`, `SessionTakes`); the division by eight is
rounded up once for all queries, which only helps.

### What TLC alone checks

* `EveryQuerySigned`, `EveryoneStops`, `EveryoneStarts`, `EveryoneFinishes`:
  liveness under fairness is outside the prover.

## Not modelled

* `D2BitArray` as a type of its own: it is a list of `BitArray`s under common
  assertions, and appears as functions on bits where the protocol uses it. The
  SIMD intrinsics are lanes, not instructions.
* Multi-bit records (`todo!()` in the retrieval), `ArithValue<u32>`, which
  nothing uses, and `Debug` output.
* A peer that is silent but not gone: the code has no timeouts, so everyone
  waits.
* The buffers that `receive` leaks (`connection.rs:514`), a hazard without a
  property: the growth is unconditional.
* Usage reports of the randomness providers (`last_report`), the command line,
  timing, measurement files and scripts.
* Cryptographic strength, the group arithmetic and point encodings of
  commitments and signatures, and servers that deviate from the protocol: the
  code assumes semi-honest servers and an insecure placeholder dealer, and says
  so.

## Plan

Done: the rounds, one query with its data and the client's checks, the budget,
connection setup and first round, byte streams and the encoding of messages, bit
arrays and their memory, layers and tickets over many calls; proofs of all their
invariants and refinements. Left: the liveness properties, which are for TLC.

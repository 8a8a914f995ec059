# A verification of the replication protocols in neatworks

This directory holds TLA+ models of the Rust workspace in `src/`, the TLC
configurations that check them, and theorems about them that TLAPS checks.
Paths below are relative to the repository. `PB/` stands for
`crates/permissioned-blockchain/src/`.

## Inventory: the system

The program is a benchmark of state machine replication protocols. One library
crate (`src/`) gives every node an event loop, a network and signatures; one
crate implements seven protocols over it; one crate is an unfinished Kademlia
overlay.

| Component | Code | State | Operations | Talks to |
|---|---|---|---|---|
| event loop and network | `src/context/tokio.rs`, `replication.rs` | per node an event channel and a pace counter | `send`, `handle`, `handle_loopback`, `on_pace` | every protocol, by callbacks |
| timers | `src/context/tokio.rs` | a task per timer, a set of timers that fired | `set`, `unset`, the drain before each event | clients' resend timers |
| ordered multicast | `src/context/ordered_multicast.rs`, `PB/bin/neo-sequencer.rs` | the sequencer's number and link hash, the receiver's saved packet | `process`, `apply`, `verify`, delegate | Neo |
| hash chain | `PB/common.rs` | `digest_parent`, `digest_execute`, `pending_execute` | `propose`, `commit`, `next_execute` | PBFT, MinBFT, HotStuff, Zyzzyva |
| PBFT | `PB/pbft.rs` | waiting requests, blocks, prepare and commit certificates, chain, application | `handle_request`, `on_pace`, `handle_pre_prepare`, `handle_prepare`, `handle_commit`, loopbacks | its clients |
| MinBFT | `PB/minbft.rs` | the same with one kind of certificate | the same without `Prepare` votes | its clients |
| client of both and of HotStuff | `PB/pbft.rs`, `PB/minbft.rs`, `PB/hotstuff.rs` | request number, replies of the outstanding invocation | `invoke`, `handle` | replicas |
| NeoBFT | `PB/neo.rs` | reordering buffer, requests, confirm certificates | requests, queries, confirms | ordered multicast |
| HotStuff | `PB/hotstuff.rs` | blocks, generic and locked certificates, reordering maps | `handle_generic`, `handle_vote`, `do_update` | clients |
| Zyzzyva | `PB/zyzzyva.rs` | chain, client's responses and local commits | order requests, commits | clients |
| unreplicated | `PB/unreplicated.rs` | client's consume callback, waiting requests, replies per client | request, reply, `on_pace` | its clients |
| benchmark client | `PB/client.rs`, `src/benchmark.rs` | latencies, in-flight invocations | `close_loop`, `on_timer` | clients |
| benchmark server | `PB/main.rs` | the state of the host, the token of its replica | `set_task`, `panic`, `poll_benchmark`, `reset`, the panic hook | the controller, over HTTP |
| controller | `scripts/control/src/main.rs` | a session per host, the run's cancellation and panic flag | `run`, `host_session` | benchmark servers |
| simulated context | `src/context/simulated.rs` | one timeline of events | `deliver_event`, `send`, `set`, `unset` | tests |
| Kademlia | `crates/kademlia` | buckets, queries | `insert`, `closest`, find | - |
| crypto, applications, other scripts, switch | `src/crypto.rs`, `PB/app*`, `scripts/`, `assets/` | - | - | - |

What is hard in this code, and what makes each part correct:

- **Order of messages.** Every UDP send is a task of its own, so votes overtake
  the blocks they are about, and certificates of successive blocks complete in
  different orders at different replicas. Correct: replicas execute one log, in
  chain order, each block once; no index or assertion panics.
- **Loss and duplication.** No protocol retransmits; only panics of the
  benchmark say that something was lost. Correct: loss never breaks safety, a
  duplicate never counts twice, nor executes twice where the code looks for it
  (HotStuff and the baseline), and with nothing lost every invocation is
  answered.
- **Callbacks between one loop and its own messages.** A node's message to
  itself goes through its event channel, ahead of the copies for the others.
- **Quorum arithmetic.** `n - f`, `n - f - 1` and `f + 1` with one's own vote
  counted in some and not in others. Correct: what is executed survives `f`
  crashes, and what a client accepts was executed by `f + 1` replicas.
- **Pacing.** A primary proposes only in `on_pace`, which only events cause.
  Correct: no request waits for an event that never comes.
- **Closed-loop clients** that see replies of an earlier invocation late.
- **Two threads and three locks.** The runtime thread invokes and fires timers,
  the dispatch thread takes replies and unsets timers, and `unset` waits for a
  task of the other thread. Correct: no timer that was unset raises an alarm,
  and no thread waits for another for good.
- **Speculation and reordering.** Zyzzyva executes before anything is agreed on;
  NeoBFT executes in the order of a sequencer whose packets it must put back
  into order. Correct: what a client accepts is final, and nothing waits for
  what is already there.
- **Noticing failure.** A benchmark run fails by panics on other hosts, reported
  through a hook that only tries a lock. Correct: a run that completes is clean,
  and every run ends.

`PROJECT.json` lists each hazard at its line with the properties that cover it,
or with the reason why none does.

## Modules

| Module | Models | How |
|---|---|---|
| `Multiplex` | the event loop and the network under it | `net` is the set of datagrams in flight, `loopback` a node's own messages in its channel; one action per kind of event, parameterised by what the handler sends |
| `Chain` | `PB/common.rs` | pure operators on one replica's `Chain` record |
| `ReplyClient` | the client of PBFT, MinBFT and HotStuff | extends `Multiplex`; `ClientInvoke` is `invoke`, `ClientHandle` is `handle` |
| `Execution` | `do_execute` of both replicas, with `Chain::commit`, `next_execute` and the replies | extends `Chain`, `ReplyClient`; also the safety properties both protocols share |
| `Pbft` | the PBFT replica | extends `Execution`; one action per handler and per loopback message |
| `MinBft` | the MinBFT replica | the same |
| `HotStuff` | the HotStuff replica; its client is `ReplyClient` with no digest in the replies | extends `Execution` for its state and properties; `do_update`, which executes one block at a time, is its own |
| `OrderedMulticast` | the sequencer and the delegate of `src/context/ordered_multicast.rs` | extends `ReplyClient`; `Process` numbers and splits a request into packets, as often as it arrives, `Passed` and `Saved` are the delegate |
| `Neo` | the NeoBFT replica and client, in the three modes of the deployment | extends `OrderedMulticast`; one action per handler, see below |
| `Zyzzyva` | the Zyzzyva replica and client, with and without `byzantine` | extends `Execution`; the client is its own |
| `EventLoop` | `src/context/tokio.rs` from the inside: the dispatch thread, the runtime's tasks, the timers and their lock | one action per step between two waits or lock operations |
| `Unreplicated` | `PB/unreplicated.rs`, and `close_loop` of `PB/client.rs` that drives its clients | extends `EventLoop`, `Chain` |
| `Control` | `run` and `host_session` of the controller with the benchmark servers | one action per HTTP request, or two when its handler waits |
| `ReplicatedLog` | what all protocols promise their clients | abstract specification: a log that only grows, holds each invoked request at most once, and answers from it |
| `MCPbft`, `MCMinBft`, `MCHotStuff`, `MCNeo`, `MCZyzzyva`, `MCUnreplicated`, `MCControl` | - | model values and symmetry for TLC |
| `ExecutionProofs`, `PbftProofs`, `MinBftProofs`, `HotStuffProofs`, `ZyzzyvaProofs`, `NeoProofs`, `UnreplicatedProofs`, `ControlProofs` | - | the theorems |

How the models read:

- A handler runs to completion on its node's loop, so it is one action, with
  the messages it sends. `invoke` runs on another thread than `handle` but both
  hold the client's lock throughout, so each is one action too.
- A datagram that is never received is a loss, so the models need no action for
  it: safety is checked with it, and progress is stated under the fairness that
  excludes it. `Flight` may keep a received datagram in flight, at most
  `MaxDup` times: a duplicate.
- `Context::send` puts the loopback copy into the node's own channel before it
  hands the others to the socket. The channel is a queue, so only a datagram
  that was in flight at that moment may be handled first. Each entry of
  `loopback` remembers those in `before`, and `Arrived` checks it. A model that
  let a node's own `PrePrepare` be overtaken by the votes it caused would panic
  where the program cannot.
- A digest is the sequence of batches of the chain that ends in the block.
  That is what a collision-free hash over requests and parent digest tells
  apart.
- A result is the operations executed so far (`Result`): a deterministic
  application gives equal results for those, and the models call nothing else
  equal. Comparing results with replies then says which log a client saw.
- `paced` says that no event came to the primary since it proposed. The loop
  calls `on_pace` when its counter, which every event sets, runs out, and when
  the channel is empty; either way at least one event lies between two calls
  that propose. Only the primary's `on_pace` does anything.
- HotStuff needs no `paced`: its primary proposes when its last block is
  certified, which takes an event. Inserting a block is written as operators on
  a record of the replica's fields, since one Generic may release several that
  were held back, and the handler inserts them all (`InsertAll`).
- HotStuff's `do_propose` certifies the parent of what it proposes, so a digest
  determines `certified_digest` too.
- `panicked` records that a panic ended the loop of a replica, which takes no
  step after that. A client's panic is a driver's affair: `Unreplicated` models
  the one of a timer, `Control` what any of them does to the run.
- Neo's handlers call one another several levels deep (`handle_request`,
  `do_confirm1`, `do_confirm2`, `do_update_confirm_num`, `do_commit`), each
  changing what the next reads. A replica's state is therefore one record, each
  level a function on it named like the code's, and `out` what they send. `out`
  is empty between actions. A loop over a map that shrinks is a recursive
  function of the turns taken (`Release`, `ConfirmAll`), with one turn as an
  operator of its own (`ReleaseNext`, `ConfirmNext`). `panicked` names the
  assertion that failed.
- `Bootstrapped`: `close_loop` finishes one invocation of one client before the
  others start (`PB/client.rs:130`). Neo rests on it, for a replica takes the
  first packet it sees for the first of all (`PB/neo.rs:277`).
- A Zyzzyva client sends its request to every replica and all but the primary
  drop it on arrival (`PB/zyzzyva.rs`, `handle_request`). Only the primary's
  copy is put in flight, which saves states and loses no behaviour: dropping is
  an event only at replicas whose `on_pace` does nothing.
- `EventLoop` says where the dispatch thread is (`at`) and where each timer's
  task is (`task`). `Locked` is the timer lock, which the thread holds from the
  drain to the end of the iteration. The server's loop of `Unreplicated` has one
  thread and no timers; of it only `pace_count` matters.
- In `Control`, `Hook(h, s)` is the panic hook: it puts `Panicked` in place, or
  misses because another thread holds the lock. What the program runs on a host
  is `loop[h]`, and its end there decides what `reset` and the benchmark thread
  find.

## What is checked

| Run | Instance | Properties | Shows |
|---|---|---|---|
| `pbft_pipeline` | 2 replicas, f = 0, 3 clients, blocks of 1 request, 3 blocks | `TypeOK` `Agreement` `ExecutedInOrder` `NoPanic` `Linearizable` | with three blocks in flight and their certificates completing in any order, one log is executed in order, and the clients cannot tell it from `ReplicatedLog` |
| `pbft_quorum` | 4 replicas, 3 running, f = 1, one client that invokes twice | `ExecutedIsCertified` `ConsumedIsExecuted` `InvokeCompletes` | the thresholds count distinct replicas and mean what they should; late replies of the first invocation neither answer nor block the second |
| `minbft_two` | 4 configured, the f + 1 = 2 the deployment starts running, 2 blocks | `TypeOK` `Agreement` `ExecutedInOrder` `NoPanic` `ExecutedIsHeld` `ConsumedIsExecuted` `Linearizable` | the same for MinBFT |
| `hotstuff_quorum` | 4 replicas, 3 running, one client that invokes twice | `ExecutedIsLocked` `ConsumedIsExecuted` `InvokeCompletes` | the three-chain rule leaves `n - f` replicas locked on what is executed, and empty blocks bring every invocation its answer |
| `hotstuff_dup` | 2 replicas, 2 clients, one duplicate | `Agreement` `Linearizable` | a repeated request is executed once, whenever it arrives |
| `hotstuff_reorder` | 4 running replicas, 3 blocks | `NoPanic` `WaitsForMissing` | a replica that fell behind inserts every block after its parent and holds none back |
| `neo_variants` | 2 replicas, f = 0, 2 clients that invoke twice, all three modes, one lost packet | `TypeOK` `ExecutedAsSequenced` `ExecutedIsOrdered` `ConsumedIsExecuted` `ParkedWaits` `NoPanic` `NothingForgotten` `Linearizable` | with a packet lost, one unsigned and everything overtaking everything, replicas execute the sequencer's order, nothing stays parked that could go on, and without loss nothing stays behind |
| `zyzzyva` | 4 replicas of which one may stop at any point, `byzantine`, one client that invokes twice | `ConsumedIsFinal` `StoredIsExecutable` `Linearizable` `InvokeCompletes` | whichever of its two ways a client takes to a result, also when the replica stops in between, the result is final and it gets one |
| `unreplicated` | 2 clients on one event loop, 3 invocations, with and without blocks, one request lost or repeated | `NoFalseAlarm` `BlockIsDue` `Linearizable` `AnsweredOrEnded` | the threads and locks of the loop, the timers and the pace of the server fit together |
| `control` | 1 replica host, 2 client hosts, any of which may panic at any moment, one panic unseen by the hook | `CompletedIsClean` `RunEnds` | a run that completes is clean, and every run ends |
| `minbft_reply` | 2 running replicas, 2 blocks | `InvokeCompletes` is violated | see the divergences below |
| `neo_stuck` | 2 replicas, neo-bn, nothing lost | `NotAllStuck` is violated | see below |

The properties:

- `Agreement`: what two replicas executed are prefixes of one another.
- `ExecutedInOrder`: the application is exactly at `digest_execute`, and no
  block waits whose parent is executed.
- `NoPanic`: no index or assertion of a replica fails.
- `ExecutedIsCertified` (PBFT): `n - f` replicas hold each executed block and a
  complete prepare certificate for it. `ExecutedIsHeld` (MinBFT): `f + 1`
  replicas hold it.
- `ExecutedIsLocked` (HotStuff): `n - f` replicas are locked on each executed
  block or above it.
- `WaitsForMissing` (HotStuff): a block in `reordering_generics` misses its
  parent.
- `ConsumedIsExecuted`: what a client consumed was executed, at that point of
  the log, by `f + 1` replicas.
- `Linearizable`: `ReplicatedLog` with the longest log any replica executed.
- `InvokeCompletes`: every invocation is answered.
- `ExecutedAsSequenced` (Neo): what a replica executed is a prefix of what the
  sequencer numbered. `ExecutedIsOrdered`: in neo-bn, `n - f` replicas hold each
  executed request in its place.
- `ParkedWaits` (Neo): whatever a replica has put aside, a request behind a gap
  or a Confirm of either kind, misses what it was put aside for.
- `NotAllStuck` (Neo): when nothing was lost and nothing can move any more, some
  client is answered and can go on. It fails in neo-bn and neo-pk.
- `NothingForgotten` (Neo): when no packet was lost, no request was numbered
  twice and nothing can move any more, every replica has ordered all requests and, without Confirms, executed
  them up to the last one it verified; in neo-hm no client waits.
- `ConsumedIsFinal` (Zyzzyva): what a client consumed was executed by all `n`
  replicas, or by `n - f` of them with `n - f` storing the client's Commit.
  `StoredIsExecutable`: a replica stores a Commit only of a block that it
  executed, or will when the blocks before it come.
- `NoFalseAlarm` (event loop): whatever the next drain hands to `on_timer` is of
  a timer that is set, for the request the client waits for now.
- `BlockIsDue` (unreplicated): a request that waits for a block is in front of
  an event or of an `on_pace` that is due.
- `AnsweredOrEnded` (unreplicated): an invocation is answered or its timer ends
  the loop; no thread waits for another for good.
- `CompletedIsClean` (control): a run completes only when every client host
  finished and was counted, no replica's loop panicked, and every host is ready
  for the next run, unless a task nobody joins panicked there.
- `RunEnds` (control): the run ends, unless the only panic was one of a client's
  dispatch thread and the hook missed it (`Unnoticed`).

### Bounds

`MaxRequestNum` bounds the invocations of a client, `MaxHeight` the blocks,
`MaxDup` the duplicated receipts; `MaxBatchSize` is a parameter of the code.
Three blocks are what it takes for one certificate to release two waiting
blocks (`next_execute` taking two rounds), for which two replicas are enough,
since blocks wait per replica. Four replicas of which three run are the
smallest configuration in which a quorum is smaller than the replicas and every
running one is needed; `pbft_quorum` has two blocks there, one after the other.
Four PBFT replicas with two blocks in flight at once exceed ten million states
and are left to the proofs, which hold for every number.

In HotStuff a request is executed three blocks after its own, so two requests of
one client, one after the other, take eight blocks; a `MaxHeight` of 9 is never
reached. A replica can fall behind only when all four run (with `n - f` running
each must vote for a block before the next is proposed); with a fourth block,
and so with replies, that instance exceeds a million states, and
`hotstuff_reorder` stops at three blocks. Three are enough for a block to wait
for one that waits.

`neo_variants` runs two replicas with `f = 0`: reordering, queries and Confirms
wait per replica and per sender, so that the second replica gives every order.
What `f` changes (`ConfirmedNum`, a position in a sorted list, and the client's
`n - f`) shows in smaller instances of the same module, which find nothing: four
replicas of which three run, with three clients that invoke once in neo-hm and
neo-pk (189 thousand states), or in neo-bn two clients that invoke once, with a
lost packet (1337 states). In neo-bn three clients exceed 1.8 million. `MaxLoss = 1` loses a packet to one replica, which then queries.
`QueryThreshold` is 1 where the code has 100: it counts the requests that wait,
and one is enough to make the query and its answer race with the late packet.
`Linked = {2}` makes the second packet linked where the sequencer links what it
does not sign, so that an unsigned one comes between two signed. `U32 = 2^16`
stands for the wrap of the operation numbers, so that a packet from before a
replica's first one has a very large number, as in the code. The run has 186 thousand states.

`zyzzyva` needs all four replicas, for a client tells `n` from `n - f`
responses. One may stop, between any two of its steps (`MayStop`).

`unreplicated` takes 3 waiting events for the 4096 that panic the loop, and one
fault. Three invocations of two clients let a late event of one client's timer
meet the other client's handler and the next invocation of its own.

`control` has two client hosts because the controller polls them in order, so
that a later one may panic while an earlier one is polled, and one replica host
for the sessions that reset something that runs. One missed hook is the code's
single point of failure.

`CHECK_DEADLOCK FALSE` is in every configuration because a run ends when the
clients have made their `MaxRequestNum` invocations, or the controller is done.

For PBFT and MinBFT, `Linearizable` is checked without duplicates. `handle_request` says "TODO check
resend" (`PB/pbft.rs:226`): a `Request` that arrives twice is proposed and
executed twice, in this code and in the model. The other properties of PBFT are
proved with any number of duplicates, and so are those of MinBFT but for
`ExecutedInOrder` and `NoPanic`, which a duplicated `Prepare` breaks (below).

NeoBFT does the same, at its sequencer: `process` looks nothing up, so that a
`Request` that arrives twice gets two numbers, and `do_commit` consults a map,
`replies`, to which nothing writes. The model has both. The runs of Neo therefore
set `MaxDup = 0`, and the theorems that need it assume `NumbersOnce` of every
step: the sequencer gets no request twice. All other datagrams may be
duplicated in them, but for Confirms, whose second delivery `do_confirm1` asserts
against: Neo delivers each once (a named BOUND of `HandleConfirm`).

### Fairness

`FairSpec` adds weak fairness for each running replica's steps and for each
client's receipt of replies. A replica is one loop that always returns to its
channel: `ReplicaStep(r)` as a whole is weakly fair. This is weaker than
fairness for every message: a set has no order, so it lets a loop choose. It
suffices because each run sends finitely many messages. It also means that a
datagram in flight to a running replica is received in the end, so progress is
stated for executions in which nothing is lost: the code never retransmits, so
nothing more could be claimed. Invocations are not fair: a client need not
invoke.

The first invocation of `PB/client.rs:130` happens before the loop and its
successors from `handle`; the models let clients invoke at any time and
concurrently, which covers both. Neo and `Unreplicated` keep the order, on
which they depend.

In `Zyzzyva` a replica that may stop (`MayStop`) is not fair: this is the crash.

In `Unreplicated` each thread and each task is fair on its own: the operating
system schedules both threads, and tokio every task. `Deadline` is not fair, so
that no property rests on the run being cut short; `TakeStop` is fair once the
deadline has passed, which is the thread that calls `stop`. Datagrams are
received; the run's one fault is what loses a request, and the timer must then
end the loop.

In `Control` the sessions and the main loop poll, so their steps are fair as long
as the controller runs. A client's benchmark ends with its deadline
(`BenchmarkFinishes`), a replica when its token is cancelled. Panics are not
fair: none is needed.

### Divergences found

1. `minbft_reply`. Replies for the blocks that waited carry the digest of the
   block that released them (`PB/minbft.rs:287`), and the client compares
   digests. Two replicas whose certificates complete in different orders
   therefore send replies that do not match, and the client waits forever with
   nothing lost. `PB/pbft.rs:332-353` is the same code, and reading it says the
   same of four replicas with two blocks in flight, an instance too large to run.
   `pbft_quorum` checks `InvokeCompletes` with one block in flight at a time.
2. `neo_stuck`. In neo-bn a Confirm that comes before its last request is parked
   by that request's number (`PB/neo.rs:332`) and released when a request with
   this or a higher number is verified, not when it is ordered. A packet that the
   delegate passed on unverified may wait behind a gap; when a verified packet
   closes the gap both are ordered, only the first counts as verified, and a
   Confirm that ends at the second stays parked until a later request comes. When
   every client waits for an answer none does.

   neo-pk has the same end by another way, from the third invocation on: a replica
   gets a packet by a Query while the packet itself is late. When it comes it takes
   the place of the newest packet at the delegate, which passes that on unverified
   (`src/context/ordered_multicast.rs:259`), and is then dropped as old
   (`PB/neo.rs:283`): nobody verifies the newest request any more. `MCNeo` with
   only neo-pk, no loss and `MaxRequestNum = 3` violates `NotAllStuck`. neo-hm
   verifies every packet, and there `NothingForgotten` says that no client waits.

Four more need a configuration the deployment does not start, and are no runs:

3. `insert_prepare` of PBFT copes with votes that overtake their block, as its
   comment says (`PB/pbft.rs:297`). `insert_commit` does not: when all `n`
   replicas run, `n - f` others can commit a block that has not reached this
   one, and `do_execute` indexes a block that is not there (line 333). The
   theorem `NeverPanics` bounds it: with at most `n - f` replicas running no
   panic is possible. `MCPbft` with four replicas in `Live`, one client and one
   block violates `NoPanic`. The deployment starts `n - f`.
4. `insert_commit` of MinBFT lets the replica's own `Commit` through after the
   certificate is complete (`PB/minbft.rs:263`) and does not ask whether the
   block has been executed. With more than `f + 1` running replicas a block is
   committed twice and the assertion of `PB/common.rs:132` fails: `MCMinBft` with
   three replicas in `Live`, two clients and two blocks violates `NoPanic`. The
   deployment starts `f + 1`. A `Prepare` that arrives twice does the same, as
   its replica sends itself two `Commit`s. Both conditions of `NeverPanics` and
   `ExecutesInOrder` of `MinBftProofs` are therefore needed.
5. A HotStuff Generic that arrives twice is inserted twice; `do_update` commits a
   block that is `digest_execute` already, and `assert!(execute)`
   (`PB/hotstuff.rs:362`) fails. `MCHotStuff` with `Live` of three and
   `MaxDup = 1` violates `NoPanic`; `hotstuff_dup` shows that nothing worse comes
   of it.
6. A NeoBFT replica takes the first packet it sees for operation 1
   (`PB/neo.rs:277`). With one client, whose first invocation is over before the
   second, every one of `n - f` running replicas has seen the first packet by
   then. When all `n` run, one may have fallen behind, takes the second packet
   for the first, and panics on a Confirm whose digest does not match: `MCNeo` with
   four replicas in `Live`, `f = 1`, one client and two invocations violates
   `NoPanic`. The deployment starts `2f + 1`.

Seen while modelling, where a property's bounds leave it out:

- `handle_request` asserts that fewer than `QUERY_THRESHOLD + 1000 = 1100`
  requests wait behind a gap (`PB/neo.rs:291`), where the comment expects the gap
  to close within a millisecond. A client has at most one request there, so that
  up to 1099 clients are safe (`NeverPanics` of `NeoProofs`). The controller's
  throughput runs have 1000, in 5 groups of 200; its last runs of neo-bn have
  up to 1500, in 5 groups of 300 (`scripts/control/src/main.rs:75`). There a
  packet that is lost or late is all it takes.
- A signed packet that arrives twice is passed on unverified by the delegate
  when its second copy replaces the first (`src/context/ordered_multicast.rs:259`),
  and `handle_request` drops the second as old. Its verification is lost until a
  later packet is verified. `NotAllStuck` excludes duplicates. `NothingForgotten`
  does not: `ForgetsNothing` proves it with any number of second copies of
  packets.
- A client's `Request` that reaches the sequencer twice is numbered and executed
  twice (`src/context/ordered_multicast.rs:362`, `PB/neo.rs:381`), and as the first
  of all it gets numbers 1 and 2 before anyone has answered, so that a replica
  that sees packet 2 first takes it for operation 1 and is one operation ahead of
  the others. `MCNeo` with `MaxDup = 1` (and `MaxLoss = 0`) violates
  `ExecutedAsSequenced`, `NothingForgotten` and `Linearizable`, in neo-hm already.
  `NoPanic` it did not violate: one client in neo-bn, with one or two invocations
  and a duplicate, was checked to the end. While the client waits only copies of
  its request are numbered, and it goes on only after equal replies, `seq_num` included,
  of all `n - f` that run. But the bound on parked requests (`FewParked`) counts one
  per client, so that `NeverPanics` needs the condition as well.
- A Query is sent once, when exactly `QUERY_THRESHOLD` requests wait
  (`PB/neo.rs:292`). When it reaches its peers before the packet they miss too,
  nobody answers, and nobody asks again.
- A Zyzzyva client's `local_commits` outlives a change of `commit_digest`
  (`PB/zyzzyva.rs:155`). It takes a duplicated request, which Zyzzyva executes
  twice, to have two digests for one request.
- `PB/unreplicated.rs` pushes every request to `requests` and drains them only
  with `make_blocks`; without it the vector grows for ever. With `make_blocks` a
  request that is received twice before its block is executed twice, and the
  assertion on the evicted reply fails. A reply that is received twice unsets a
  timer that is gone, which panics.
- A block takes `MAX_BATCH_SIZE` requests. What it leaves waits for another event
  (`src/context/tokio.rs:270`), in PBFT as in `unreplicated`.
- A benchmark thread that finishes writes `BenchmarkClientFinish`, and `set_task`
  writes `ReplicaRunning`, over a `Panicked` (`PB/main.rs:214`), so that `/panic`
  never tells. `CompletedIsClean` holds all the same, since the replica's task is
  awaited; a panic of a task that nobody joins stays unseen.
- When the dispatch thread of a client host panics before the first invocation
  is answered, and the hook finds the state locked, nothing on that host changes
  any more and the controller polls for ever (`Unnoticed`).

One thing that looks wrong and is not: HotStuff's `do_update` overwrites the
client's entry in `replies` (`PB/hotstuff.rs:369`), which at the primary could be
the `None` of the client's next request, and the primary would stop proposing.
It cannot be, because the primary handles its own Generic, ahead of the replies
that the others send on receiving it (`InvokeCompletes` in `hotstuff_quorum`).

## What is proved

For every number of replicas, clients, invocations and blocks,
from the assumptions the modules name (`f < n / 3`, a
finite set of replicas, a primary among them, a positive batch size; for
`Control` any sequence of client hosts; for `Unreplicated` any number of clients,
faults and waiting events), and for every number of duplicates where the table
does not say otherwise (`Confirm`s of Neo excepted, which are delivered once). In
the rows of `NeoProofs`, `Once` stands for `[][NumbersOnce]_vars`: the sequencer gets
no request twice.

| Theorem | Of | States |
|---|---|---|
| `Invariance` | `PbftProofs` | `Spec => []IInv` |
| `TypeCorrect` | | `Spec => []TypeOK` |
| `ReplicasAgree` | | `Spec => []Agreement` |
| `ExecutesInOrder` | | `Spec => []ExecutedInOrder` |
| `ExecutesCertified` | | `Spec => []ExecutedIsCertified` |
| `ConsumesExecuted` | | `Spec => []ConsumedIsExecuted` |
| `NeverPanics` | | `Spec => []NoPanic`, if at most `n - f` replicas run |
| `ServesLog` | | `Spec => Linearizable`: it implements `ReplicatedLog`, if nothing arrives twice |
| `Invariance` | `MinBftProofs` | `Spec => []IInv` |
| `TypeCorrect` | | `Spec => []TypeOK` |
| `ReplicasAgree` | | `Spec => []Agreement` |
| `ExecutesHeld` | | `Spec => []ExecutedIsHeld` |
| `ConsumesExecuted` | | `Spec => []ConsumedIsExecuted` |
| `ExecutesInOrder` | | `Spec => []ExecutedInOrder`, if at most `f + 1` replicas run and nothing arrives twice |
| `NeverPanics` | | `Spec => []NoPanic`, under the same two conditions |
| `ServesLog` | | `Spec => Linearizable`, if nothing arrives twice |
| `Invariance` | `HotStuffProofs` | `Spec => []IInv` |
| `ReplicasAgree` | | `Spec => []Agreement` |
| `ReleasesAll` | | `Spec => []WaitsForMissing` |
| `ExecutesLocked` | | `Spec => []ExecutedIsLocked` |
| `ConsumesExecuted` | | `Spec => []ConsumedIsExecuted` |
| `NeverPanics` | | `Spec => []NoPanic`, if nothing arrives twice |
| `ServesLog` | | `Spec => Linearizable`, on any network |
| `StoresExecutable` | `ZyzzyvaProofs` | `Spec => []StoredIsExecutable` |
| `ConsumesFinal` | | `Spec => []ConsumedIsFinal`, if nothing arrives twice |
| `ServesLog` | | `Spec => Linearizable`, if nothing arrives twice |
| `DoExecuteAny` | `ExecutionProofs` | what one `do_execute` changes, even of a block that was executed before |
| `DoExecuteStep` | | the same of a new block: execution stays in order |
| `LastExecutedProperties`, `CommittedExtends` | | what `commit` and the loop over `next_execute` return |
| `NeverFalseAlarm` | `UnreplicatedProofs` | `Spec => []NoFalseAlarm` |
| `BlocksAreDue` | | `Spec => []BlockIsDue`, if there are no more clients than a block has room for |
| `ServesLog` | | `Spec => Linearizable`, if there are finitely many clients |
| `CompletesClean` | `ControlProofs` | `Spec => []CompletedIsClean` |
| `Invariance` | `NeoProofs` | `Spec => []IInv`, whoever runs and whatever is lost |
| `ConsumesExecuted` | | `Spec => []ConsumedIsExecuted` |
| `ExecutesOrdered` | | `Spec => []ExecutedIsOrdered` |
| `ReleasesParked` | | `Spec => []ParkedWaits` |
| `OrderInvariance` | | `Spec /\ Once => []SInv`, if `Deployed` |
| `TypeCorrect` | | `Spec /\ Once => []TypeOK`, if `Deployed` |
| `ExecutesSequenced` | | `Spec /\ Once => []ExecutedAsSequenced`, if `Deployed` |
| `NeverPanics` | | `Spec /\ Once => []NoPanic`, if `Deployed` with fewer than `QUERY_THRESHOLD + 1000` clients |
| `ServesLog` | | `Spec /\ Once => Linearizable`: Neo implements `ReplicatedLog`, if `Deployed` |
| `ForgetsNothing` | | `Spec /\ Once => []NothingForgotten`, if `Deployed` with exactly `n - f` running replicas |
| `OneCode` | | of the packets for one request a replica's delegate passes on exactly one |

The argument for PBFT. None of the properties is inductive: nothing in `Agreement` says
why a block that completes its certificate is on the same chain as the others.
`IInv` adds:

- `MessagesSound`: every digest in a message, a certificate, a replica's blocks
  or its chain is an ancestor of the primary's `digest_parent`. There is one
  chain, because only the primary proposes and each proposal extends the last.
  Agreement and the absence of conflicts follow from it, since two blocks of
  one chain under the same parent are the same block.
- `CommitsBacked`: a `Commit` in flight, looped back or counted was sent by a
  replica that holds the block and its complete prepare certificate. Both only
  grow, so this survives every step.
- `Settled`: a block is in a replica's chain, waiting or executed, only when its
  commit certificate is complete. A complete certificate takes no more Commits,
  so a block reaches `do_execute` once.
- `Ordered`: the application is at `digest_execute`, and no waiting block's
  parent is executed.
- With at most `n - f` replicas running a complete commit certificate includes
  the replica's own `Commit`, which it sends only when it holds the block:
  hence no panic.

`ConsumedIsExecuted` takes `Served` (`ExecutionProofs`) on top: every reply in
flight or counted by a client answers its current or an earlier request with a
result of a block in the sender's `app`, a client holds at most one reply of a
replica, and it consumed one result per request that is over. `app` only grows,
so a reply that was right stays right however late it is, and `f + 1` equal
replies are `f + 1` replicas that executed the same log. The one lemma that a
protocol has to give is that its replies are right when they are sent.

`PbftProofs` has one lemma per action and part of `IInv`. The lemmas on
`do_execute` and on the clients are in `ExecutionProofs`, parameterised over the
messages of a protocol, and serve the other protocols as well. Digests being
sequences, the proofs need no induction over data.

The argument for MinBFT has two layers. What holds on any network is that every
digest is on the one chain and that what is executed has its certificate
(`IInv`); agreement, `ExecutedIsHeld` and the clients' results follow. A block
may be committed twice, though: `insert_commit` lets the replica's own `Commit`
through when the certificate is complete, and does not ask whether the block has
been executed. That panics or moves `digest_execute` back, never forks `app`.
The second layer (`ExactAlways`) says that it is not met when a replica takes up each
block once and the `f + 1` Commits of a certificate cannot be there without its
own.

The argument for HotStuff. There is one chain here too, so that a block is known
by its height, and `Agreement` follows. A handler inserts any number of blocks,
and `do_update` executes one while it does; so the proof follows the record of a
replica's fields from block to block (`InsertFits`, `InsertAllFits`) and asks of
each that it is `Fit`: what it inserted, locked, certified and executed is on
the chain, and what it sends is true. `ExecutedIsLocked` needs what a vote says
of its sender: who votes for a block has locked the block's grandparent
(`Locked`), and locks only rise. The primary proposes on a certified block
(`Certain`), so every block but the last has a quorum of votes; a block is
executed with three above it, and the votes for its grandchild are a quorum
that has locked it. `WaitsForMissing` is about `do_reorder_generic`, which calls
itself while it empties `reordering_generics`: the blocks under one digest are
its children (`Aside`), hence copies of one block, and `ReleasedAll` shows that
the recursion, on heights, leaves none of the released blocks' children behind.
A second invariant, `OInv`, is about networks that duplicate nothing. There each
replica is `Steady`: for some height `h` it has inserted the chain's blocks up to
`h`, and executed all but the last three, so that the block `do_update` looks up
is there and the next it commits follows the last. This is kept because a
Generic on its way is of a block its receiver does not have, inserted or aside
(`Orderly`), and because the primary, which handles its own Generic through the
loopback channel, does so ahead of the votes for that block (`OwnIn`): a vote
that the primary takes up is for a block it has. `NeverPanics` follows.

The argument for Zyzzyva. A replica executes what it receives, so its `IInv` is
about the primary's one chain: what a replica received is in it, and is
executed or waits unless the loop panicked. `StoredIsExecutable` follows, with
the check in `handle_commit`. For `ConsumedIsFinal` the client is the hard part,
as it keeps `local_commits` when it replaces its `commit` by one of another
digest. `OncePlaced` says why that is harmless: a request is on its way to the
primary, in its queue or in one block of the chain, so that the responses to one
request are all of one block; `ClientSound` then says that whoever is counted
executed that block, or stored its commit. A duplicated request breaks `OncePlaced`,
hence the condition.

`NoFalseAlarm` is an argument about one lock. Its invariant adds that a timer's
task runs only while the timer is set and its client waits for the request it
was set for (`TasksAreSet`), and that the vector of fired timers is empty while
the dispatch thread holds the lock (`DrainedWhileLocked`). A handler unsets
inside that time, so that no entry of the timer is in the vector; the task it
aborts cannot push before the lock is free, when `unset` has waited for its end.

`BlockIsDue` is about `pace_count`, which the loop sets to the length of its
channel (`PaceCovers`): when the channel is empty and requests wait, it has
counted down to 0, unless a block left some of them over. That it leaves none
needs both ends. A client invokes again only when it has consumed the reply to
its last request, and a reply in flight, in the loop's channel or in a handler
is no newer than the server's last one to that client (`AllKnown`); so what is
with the server or on its way to it is unanswered (`AllDue`) and of different
clients (`Apart`), and a block with room for all clients takes it all. With more
clients than `MAX_BATCH_SIZE` what is left over waits for the next message, as the
definition's comment says.

`Linearizable` of the baseline rests on the same facts. Whatever is executed is
newer than all that was executed for its client (`New`): without `make_blocks`
because `handle_request` compares it with `replies`, which is enough as it executes
at once, so that a second copy is known; with `make_blocks` because what waits is
due. There a copy would not be known before the block is made, which is why the
model has no copies in that mode. The log is `app`, each `Execute` is
`AppendBatches`, and every reply, in flight, in a channel, in a handler or kept for
the next copy, has the result of one execution of its request (`Sound`).

`CompletedIsClean` needs to know why the run was cancelled. Its invariant adds
that a client host is `BenchmarkClientFinish` only when its benchmark returned
(`FinishIsOk`), that a session which is done without a panic has reset its host
and seen its task return (`DoneIsClean`, `ReplicasReset`), that before all client
hosts are polled only a panic or a failed session cancels (`CancelledLate`), and
that until then every host polled was counted (`Counting`). The hook's success is
used nowhere: a run does not complete by mistake when it misses.

The argument for Neo is in two layers. The first, `IInv`, holds on any network,
in all three modes and whoever runs. A handler calls functions five levels deep,
two of them loops, and each reads what the last has changed; so the invariant of
a replica (`Fit`) is one of its record, and each function is shown to keep it
wherever it may be called (`DoUpdateDoes`, `DoConfirm1Fits`, `ReceiveFits`, ...).
It needs:

- `Executing`: what is executed are the first of the ordered requests, up to
  `confirmed_num` in neo-bn and up to `verified_num` otherwise.
- `Gathered`, `Ahead`: of the Confirms of one sender, in flight, parked in either
  map or counted, no two overlap, and those not counted start above what is.
  Otherwise the assertion of `do_confirm1` would fail, and a range could be
  counted twice.
- `Backed`: what a replica counts for another is at most what that one has
  confirmed, which is at most what it has ordered; and `n - f` of the numbers
  reach what is executed. `ExecutedIsOrdered` is this fact.
- `Settled`: no parked Confirm is next. It is what the two loops establish, and with
  `Gapped` it is `ParkedWaits`. That a loop ends only when nothing is left to
  release is by counting: each turn takes one from a finite set.
- `Honest`: every reply a handler sends is a result of a prefix of `app`, as is
  every reply in flight or counted by a client.

The second layer, `SInv`, ties the replicas to the sequencer. Where no request
reaches the sequencer twice, each is numbered once (`Fresh`, `Distinct`) and each packet, in flight, saved, parked or
ordered, holds the request of its number (`Sound`). What a replica orders could still
start too late, as it takes the first packet it sees for number 1. Here
`Bootstrapping` comes in: a second request is invoked only after `n - f` replicas
answered the first, which are all that run, so that a replica without requests
can only meet packet 1. Hence a replica's requests are the sequencer's first
(`InOrder`), the digests of all Confirms agree (`Attests`), and none of the
assertions fails but possibly the one on the parked packets. These are requests above
what the replica has ordered, so unanswered, so each its client's last one:
`FewParked` bounds them by the number of clients with an injection.

`Deployed` says what this takes: finitely many clients, no more numbers than the
operation numbers can tell apart (`U32`), and at most `n - f` running replicas.
The last is what the controller starts (`2f + 1`,
`scripts/control/src/main.rs:432`), and divergence 6 shows that it is needed.
`NumbersOnce` is a condition on steps, not on the constants: a step that numbers a
request leaves no copy of it in flight. `SInv` rests on it, so what is proved from
`SInv` does too. The code has nothing that ensures it (above, "Seen while modelling");
`IInv` and what follows from it alone (`ConsumesExecuted`, `ExecutesOrdered`,
`ReleasesParked`) does not depend on it.

`ForgetsNothing` is the quiescent half of progress: where nothing can move,
nothing is left to do. Two more invariants follow each packet and each reply to
its end. `PacketInv` says that, while no packet is lost, every number the
sequencer gave is at every running replica: in flight with a code for it, held
back by the delegate, parked, or ordered (`Accounted`). That each handler passes a packet
on from one of these to the next, whatever else it does, is `Passes`: the
delegate's exchange of the held packet, `handle_request` dropping what is old,
ordering a packet with all that waited behind it, or replacing one parked copy by
another. In a quiescent state a number that is not ordered would be parked; but
the lowest one would be next, and no parked packet is (`Gapped`). The other conjunct is `Marked`: a verified
request is never above `verified_num`, which is what was executed. In neo-hm
every packet carries its codes wherever it is (`AllCoded`), so all is executed,
and `ReplyInv` brings the answers: what a replica executed of a client's last
request is answered by a reply in flight or in the client's hands, all replies to
one request agree (`SameAnswer`), and a client that waits has fewer than `n - f` of
them (`Owed`). With `n - f` running replicas and nothing in flight no
client waits. In neo-pk and neo-bn that fails, as divergence 2 says.

`ServesLog` is the refinement, step by step: the longest `app` of any replica is
the abstract log. All are prefixes of `sequenced` (`Prefixed`), so a replica's step
either leaves the longest as it is or appends to it requests that are invoked and
not yet in it (`Distinct`, `Invoked`); a client's `Complete` answers with a result
that `n - f` replicas computed, hence from a prefix of the log that has its
request last; everything else stutters.

The same for PBFT, MinBFT and Zyzzyva. The longest `app` is the log here too. It
lies on the primary's chain, so what it needs is that no request is in that chain
twice: `OncePlaced` says that a request is in flight to the primary, in its queue
or in one block of the chain, and only if it was invoked. Each step
leaves it there or moves it on, unless the network delivers it twice: these
primaries propose what they are given ("TODO check resend"). No log is ever cut
(`Grows`), so a step that makes the longest one longer is `AppendBatches`
(`LogStep`), whatever blocks it executes at once. A client answers with the result of a replica that executed its request
(`Served`, `HandleResponds`). In Zyzzyva both ways of finishing a request do:
`n` equal responses, or `n - f` of them and their commits.

HotStuff needs nothing of the network, as its `handle_request` asks `replies` what
it has seen. That map keeps only the last request of each client, which is enough
because an old request, however late, is not taken for a new one: when a client
invokes again, some replica has executed what it no longer waits for (`Answered`),
so it is in a block, and the primary has executed it too by the time it takes the
next one. The last is the hard part, since a replica may be ahead of the primary.
It holds because the primary's own messages come first: with nothing left in its
channel it has every block of the chain and its certificate (`OwnIn`,
`FullPrimary`), and what may overtake a message in that channel follows what it
had executed before (`Overtakes`). So whatever waits at the primary, or is in a
block that it has not executed, is the last request noted of its client (`Latest`),
and each request is in one place (`RequestsOnce`). For the primary alone `OInv`
holds on any network: it is sent no Generic, and counts a replica's vote once.

`OneCode` is arithmetic: the packets of a request are at offsets 0, 4, 8, ...
below `n`, and a replica's index lies behind exactly one of them.

Only model-checked: progress (`InvokeCompletes` of PBFT, HotStuff and Zyzzyva,
`AnsweredOrEnded` of the baseline, `RunEnds` of the controller), since liveness
under fairness is out of the prover's reach. Every safety property of every
passing run, and every refinement, is a theorem under the conditions in the table.

## Not modelled, and why

- Byzantine replicas. The code has no behaviour to react to them beyond
  verifying signatures; the models check crashes (`Live`), loss, reordering and
  duplication.
- View changes. No protocol here implements one; `view_num` stays 0.
- Resend timers of the replicated clients: when one fires the benchmark panics
  (`PB/client.rs:163`), nothing is sent again. `Unreplicated` has that timer.
- Signatures and hashes are ideal, and so is the link hash of the multicast, which
  no receiver looks at. Formatting, latencies, the scripts other than the
  controller, the switch's P4 program and the key-value workload have no state of
  the protocols.
- Of the runtime, `Timer::reset`, which nothing calls. Of the benchmark, the
  barrier between groups of clients and the workloads with several operations
  per transaction. Of the controller, start-up over SSH, the records of results
  and its assertion that the throughput is not zero.
- The simulated context is a second runtime that only its own tests start. A
  context that sends while an event is delivered takes a lock that the delivery
  holds, so no protocol runs on it.
- The Kademlia overlay calls `unimplemented!()` on a normal path, and nothing uses
  it.

## What is left

The barrier between groups of clients; larger instances of neo-bn with four
replicas, which need a coarser multicast; and proofs that the protocols forget
nothing in quiescent states, as `ForgetsNothing` shows for Neo.

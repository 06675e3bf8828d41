# A TLA+ model of QwFNfer

QwFNfer runs mixture-of-experts language models whose experts do not fit in memory. Experts live
on disk; a cache keeps some of them in RAM and in VRAM; a long prompt is prefilled by streaming
whole layers; replies are decoded several tokens at a time, with drafts that are verified and rolled
back; `qwfn-server` shares one engine among many clients and keeps the sequences of their
conversations. This directory holds TLA+ modules of the parts of it that are hard to test, the
TLC models that check them, and proofs checked by TLAPS.

Paths below are relative to the repository (`src/qwfn_io.cpp` is `src/src/qwfn_io.cpp` in
`PROJECT.json`).

## The system

| Part | State | Operations | Talks to |
|---|---|---|---|
| I/O engine, `src/qwfn_io.cpp` | job queue, completions, `in_flight_`, worker threads or an io_uring | `init`, `submit`, `reap`, `shutdown` | the kernel; used by the expert cache and the streamer |
| Expert cache, `src/qwfn_expert_cache.cpp` | per layer: RAM slots and their map, VRAM slots and theirs, free list; swaps in progress, staging ring, speculative reads | `fetch_begin/_end`, `prefetch_begin`, `promote`, `settle`, `lend_begin/_end`, `lend_restore`, `warm`, `fetch_batch` | I/O engine; two device queues; called by the engine |
| Prefill streamer, `src/qwfn_prefill.cpp` | two host buffers, a one-entry job queue, a reader thread, a device mirror | `load_layer`, `prefetch_layer`, `drop_vram_staging`, `host_scratch` | reads the tiers of the expert cache; called by the engine |
| Engine, layer loop, `src/qwfn_engine.cpp` | per layer a kept graph and graphs parked by size, device tensors of partial sums, a copy of the VRAM tier's table | `eval_batch`, `prefill_enter/_leave`, `vram_lend_begin/_end` | cache, streamer, graph builder; called by the server |
| Engine, sequence state, `src/qwfn_engine.cpp`, `src/qwfn_graph.cpp` | position, KV rows, pooled block keys and their bias, recurrent state and its snapshots, the draft head's rows | `eval`, `reset`, `rollback`, `mtp_draft*`, `checkpoint_save/_restore` | called by the server |
| Time-share scheduler, `tools/qwfn_server.cpp` | open slots, waiters, the running ticket, usage per session, linger | `admit`, `acquire`, `should_yield`, `park`, `release`, `idle` calls | one thread per request |
| Prefix cache and requests, `tools/qwfn_server.cpp` | `consumed`, `consumed_img`, `last`, the pool of checkpoints, parked bytes, `eng_epoch` | `build_prompt`, `pool_save`, `pool_switch`, `prefix_reuse`, `generate`, `ts_park` | engine; scheduler |
| Token loop, `tools/qwfn_server.cpp` | history, the token at hand, accepted drafts not emitted yet, thinking budget | draft, verify, accept, roll back, cut, park | engine, sampler, lookup |
| Prompt lookup, `src/qwfn_lookup.cpp` | a trigram table over the history, the window policy | `reset`, `append`, `propose`, `choose` | token loop |
| HTTP, templates, tools, vision, tokenizer, files | none that outlives a request | parsing and formatting | server |
| Console and router (Python) | child processes, a lock | start, stop, swap models | servers |

What is hard here, and what makes each part correct:

* **Threads that count.** `reap()` sleeps on a condition variable that workers notify after they
  have dropped the lock. Every accepted read must be completed once, no wake-up may be lost, and
  after `shutdown()` no worker may touch a caller's buffer.
* **Bytes that arrive later than the table says.** An upload, a read-back, a staging copy and a
  disk read all complete after the tables were changed. A slot must not be given away while
  anything still reads or writes it, and what is handed out must hold the expert it is for.
* **A reader thread with two buffers.** A layer must be computed on its own experts whatever was
  read ahead, superseded, cancelled, or left over by a failed prefill.
* **Graphs that outlive what they were built on.** In decode a layer's graph is kept and replayed,
  the zero uploads are skipped, and the experts promoted during a layer are folded in by the next
  one. Each routed expert must enter the residual once, whatever was replayed, lent or taken back.
* **Five places to roll back.** A rejected draft has been written into the KV rows, the pooled keys,
  the recurrent state, the draft head and the history. What is left must be the state of the
  accepted tokens, and the text one that decoding one token at a time can give.
* **One engine, many conversations.** What a request is evaluated after must be exactly what its
  client sent, although sequences are continued, checkpointed, restored, evicted and parked, and
  although images of one size look the same as tokens.
* **Fair turns.** Slots are returned on every path; the request whose turn it is must be awake;
  nobody starves.

`PROJECT.json` lists these hazards line by line with the properties that cover them.

## Modules

| Module | Models | Actions correspond to |
|---|---|---|
| `IoEngine` | the thread-pool backend | `submit` and its notification, one pass of `reap`'s loop, the three steps of `shutdown`, a worker taking, completing and notifying |
| `IoEngineProofs` | theorems about `IoEngine` and `IoBackends` | |
| `IoUring` | the io_uring backend | `submit` with a submit that takes some of the ring, `reap`'s flush, its loop and interruptions; the kernel is external |
| `IoBackends` | the engine as its callers have it | composes the two: `init()` picked one, its steps follow |
| `ExpertCache` | the cache | one expert of `fetch_begin` served per step (VRAM hit, claimed slot, RAM hit, upgrade, promotion, miss, no slot), reads submitted, `fetch_end`, settles, swaps finished one by one, loans, speculative reads; a short prompt's `fetch_batch`, `warm` after a swept layer, `lend_restore` with its reads beside the uploads; the disk and both device queues are processes |
| `ExpertCacheProofs`, `ExpertCacheByteProofs` | theorems about `ExpertCache`: its tables, the swaps of exclusive tiers and its reads; the two queues and the bytes of both tiers | |
| `PrefillStreamer` | the streamer and the engine's use of it | the reader's steps, `load_layer` before and after its wait, read-ahead, MoE, warm, leave, and between prefills decode steps and borrowers |
| `PrefillStreamerProofs` | theorems about `PrefillStreamer` | |
| `Timeshare` | `struct timeshare` | admission, waiting with its two deadlines, idle calls, turns, yield points, parking, refusals, leaving, the clock |
| `TimeshareProofs` | theorems about `Timeshare` | |
| `PrefixCache` | conversations in the server | a request from one yield point to the next: the start with its choice of what to reuse, a prefill pass, the reply, failure, cancelling, parking, resuming, abandoning |
| `PrefixCacheProofs` | theorems about `PrefixCache` | |
| `LayerGraphs` | the layer loop of `eval_batch()` and the tier's loans around it | a layer's graph (kept, parked, taken back or built), the fetch with its promotions, chunks of a cached batch, a layer of a swept batch, the CPU's experts, failures at every call, lending, warming, taking back |
| `LayerGraphsProofs` | theorems about `LayerGraphs` | |
| `SpecDecode` | the token loop of `generate()` on the engine's sequence state | feeding a prompt batched, streamed or one by one; the first token; emitting; the budget's cut; parks; a step alone, or with drafts of the head or of the lookup |
| `SpecDecodeProofs` | theorems about `SpecDecode` | |
| `LookupDrafter` | the drafter's table and the policy's window, as operators | `reset`, `append`, `propose`, `choose`, used by `SpecDecode` |
| `PlainDecode` | what a client is promised: the abstract specification `SpecDecode` implements | the client asks, the trunk says, the reply closes |
| `MC...` | TLC instances | symmetry sets and the settings a run goes through |

Conventions. Variables keep the source's names. Each module models what the memory *really*
holds beside what the program believes: in `ExpertCache` the bytes of a slot are variables of
their own, changed only when a read lands or a queue executes; in `PrefillStreamer` a slice is
named by the layer its bytes belong to; in `PrefixCache` the engine's sequence keeps the image
each position was evaluated with. In `SpecDecode` a cache row is the tokens it was computed from,
and a position whose attention saw anything but its own past is marked, for good; in `LayerGraphs`
a partial sum is the set of (layer, position, expert) terms in it. The properties compare the two. Frequencies, recency and
sampling only choose among what the code may choose, and the choice is left open. Definitions
named `Mut...` are the plausible mistakes against which each property is tested: with the
definition they stand for replaced, TLC finds the property violated.

The abstract specification. `PlainDecode` knows neither drafts nor windows: a reply grows by tokens
the trunk may emit after everything before them. `SpecDecode` is shown to implement it with the
refinement mapping `text <- hist`, `open <- pc # "idle"`; a rejected draft, a rollback, a park and a
restore are stuttering steps (`PlainSpec`): TLC checks it on the run, `RefinesPlain` proves it.

Atomicity. In `IoEngine` a step is what one thread does between two lock operations. In
`ExpertCache` the host is one thread, so a step is what it does between two points where a queue
or the disk can matter. In `PrefixCache` a request holds the server's mutex except while parked,
so its steps run from yield point to yield point, and `SpecDecode` cuts the token loop at its
evaluation point, where a client can leave and the request be parked. In `LayerGraphs` one host
thread builds and waits for graphs; it is cut where a call can fail and where the cache may move
experts. In `Timeshare` a step is a critical section of
the scheduler's mutex.

## Runs

| Run | Instance | Shows |
|---|---|---|
| `io` | threads: 2 workers, 3 requests of which 1 malformed, `max_tags` 1 or 8, `min_complete` 0 to 2, restarts; or a ring of 2 with 4 requests of which 1 malformed, submits and flushes of which the kernel takes any part, interruptions | exact counting, one completion each on either backend, quiet after shutdown, no lost wake-up, short reaps drained, `reap` blocks on what the kernel does not have only after a flush taken in part, `reap` and `shutdown` return |
| `cache_exclusive` | 4 experts, 3 RAM slots, 1 VRAM slot, a tier that is lent, restored and warmed, short prompts | exclusive tiers with the direct read-back: tables and bytes agree in both tiers |
| `cache_staged` | 2 layers, 3 experts, 2 RAM slots, 1 VRAM slot, 1 ring entry, 1 speculative read, skipped misses | the staging ring, whose read-backs land after their slot is mapped |
| `cache_small_pool` | 3 experts, 2 slots, fetches of 2, a second checkpoint, a failed fetch and what follows it | half-done fetches and lost claims; every fetch returns |
| `timeshare` | 3 connections of 2 sessions, 3 slots, quantum 2, linger 1, refused parks, turns that end early | slots, wake-ups, parks that hand over |
| `timeshare_live` | the same with 2 slots, turns that reach a yield point | nobody starves |
| `prefix` | 4 requests, conversations of 3 messages, batch 2, budget for about two checkpoints; three settings | the context of every request is its own conversation |
| `prefill` | 4 layers, 3 experts (file only, RAM, VRAM), all streamer modes | each layer on its own experts; loads return |
| `spec_decode` | vocabulary of 3, context of 7, blocks of 2, batches of 2, 2 drafts of the head, windows of 1 or 2 lookup drafts, thinking budget 2, 2 turns, 1 park | engine, head, history and text agree after every accept, rollback, cut and park; the text is one of `PlainDecode` |
| `layer_graphs` | 2 layers (one of attention), steps of 1 or 2 positions, 2 or 3 experts, five settings of the engine | every expert enters once; no graph runs out of its shape or on memory the tier left; the parked graphs are counted exactly |
| `cache_cold_reread` | `cache_small_pool` | a violation, see Findings |
| `prefix_parked_image` | 3 requests, one image, one park | a violation, see Findings |

Bounds, and why these. The interesting cases need: more requests than ring entries and than
workers; fewer slots than experts, so that every fetch may evict, and one VRAM slot, so that
every promotion swaps; a victim, a newcomer and a bystander (3 experts); two layers, because a
read-back queued by one layer lands while the other is fetched; four layers for the streamer,
so that a read-ahead, a jump of the queue and the wrap-around to layer 0 are different layers;
three requests, so that one runs, one waits and one arrives; four for the prefix cache, so that
a conversation is left, another one takes the engine, and the first comes back twice. For
`SpecDecode`: blocks of two, so that a step crosses a block's end and its bias window moves; two
drafts, so that none, one or both are accepted; a trunk that is sure at two positions of three, so
that text repeats, the lookup finds something to copy and some of it is rejected; both sizes of the
lookup's window, because equal windows are chosen per step and larger ones with hysteresis; a
bucket function in which keys collide. For `LayerGraphs`: two layers are enough for a fold (of the
layer before) and a wrap to the next evaluation; the settings separate what the code's switches
keep apart (stashed graphs, lent tiers, skipped uploads, skipped misses). Counters
that would grow for ever are capped in guards and named: `MaxSpec`, `MaxFail`, `MaxUsage`,
`MaxMsgs`, `MaxTurns`, `MaxParks`, the parks of a scene. Short prompts with a second checkpoint in a
pool that runs out are beyond the time of a run: `cache_small_pool` leaves them out (its `Prompting`
with `"batch"` has 2.2 million states).

Settings inside a run. `PrefixCache` starts in one of several *scenes* (images, context size,
parks, events), `PrefillStreamer` in one of several *modes*, `LayerGraphs` in one of its `Settings`
and `IoBackends` with one backend; TLC explores all of a run's. The
combinations a passing run leaves out are those of the findings below.

Deadlock is checked except where the system may really stop: `cache_small_pool` (the bound on
failed fetches ends the behaviour), `prefix` (all requests answered), `prefill` (the streamer
destroyed) and `spec_decode` (all turns taken).

Fairness. Weak fairness of a thread's next step, of a device queue and of the disk:
threads that can run are run and a read ends. In `Timeshare` also strong fairness of the
end of a turn: a reply has a token budget, so a request that is given the engine again and again
completes. Clients are never required to do anything. Symmetry is used in safety runs only.

## What is proved

`IoEngineProofs` proves about `IoEngine`, for any finite set of requests and any pool of workers:

* `TypeCorrect`, the types;
* `InFlightCorrect`: `in_flight_` is the queued plus the reading;
* `ShutdownQuiesces`: after `shutdown()` nothing is queued, read or counted;
* `NoLostWakeup`: a `reap()` that sleeps has a worker that will still notify it;
* `ShortReapDrained`: a `reap()` that returns short leaves nothing behind;
* `CompletesOnce`: a read its caller waits for is in one place, once.

`fetch_end()` and `fetch_batch()` rely on the last one: they loop on `reap()` until their reads are in
and give up on a call that returns none.

The assumptions are those of the module: finite sets of requests and workers, at least one
worker, positive `max_tags`. The counter alone is not inductive. The invariant `IInv` adds to it
when workers may have left the pool (`PoolUp`), that a queued job has a worker awake or a
notification due, and a sleeping `reap()` a read to come or a notification due (`Wakers`), that
`reap()` never holds more tags than there is room for (`GotFits`) and that a reading worker has a
job (`JobHeld`). `NoLostWakeup` follows from `Wakers` and the counter: if reads are counted, some
are queued or being read, and either way a worker is awake. `StepIInv` has one step per action.
`CompletesOnce` needs counting beside it (`OInv`): `Occ(s, r)` is how often a request is in a queue,
`At(r)` how many workers hold it, and lemmas say how a batch appended, a head taken and a tail
popped change them (`OccConcat` and its neighbours); a worker holds a job only while it reads
(`JobOnlyReading`), so the job it takes is counted there and nowhere else.

It also proves about `IoBackends`, the engine with a backend chosen, for rings of any depth and any batches:

* `BackendsImplemented`: it implements `IoEngine` and `IoUring`, the backend not chosen standing
  still; so what holds of the pool holds of the engine (`PoolInBackend`);
* `RingReturnsOnce` (`RingOneCompletionEach`): an accepted request is in one place until `reap()`
  returns it, and `in_flight_` counts the rest, whatever a full ring, a short `io_uring_submit()`
  or an interrupted wait does;
* `RingWaitsForReads` (`RingStuckOnRemainder`): however much of the ring each `io_uring_submit()` takes,
  `reap()` blocks only while the kernel reads, but in one case, which the code has (see the findings): its
  own flush was taken in part, and it has collected a read since. So a caller that asks for one
  completion never waits for nothing. The invariant is `RingOwes`: where `reap()` waits with
  entries left in the ring, a read its flush began is still read, posted or collected (`Begun`).

Their invariant `RingInv` has the five places apart (rejected, ring, kernel, posted, held by the
`reap()` in progress), each a sequence without repetition, and `in_flight_` the sum of four
lengths. That is inductive once the batch being submitted is apart from all of them. `Those`, what
`submit()` keeps of a batch, is a recursive function: `EachThose` proves from a least
counterexample that it keeps the requests of the batch that are in the set, each once. The wait
needs `RingOwes` beside it: what `reap()` still owes is at most what is in flight, the rejected tags
are handed out before any completion is awaited, and it waits only with an empty ring (or for
nothing, if the flush took nothing). With those, an empty completion queue and a `reap()` that
still owes a tag leave only the kernel.

`TimeshareProofs` proves every safety property the `timeshare` run checks, for any finite set of
requests, any sessions, any positive `max_open` and quantum, any linger:

* `SlotsBalance`: open slots, tickets, waiters and the running request agree, so each slot is given
  back once (`SlotsExact`);
* `NoMissedTurn`: whoever `pick()` names has been woken (`TurnIsAwake`);
* `ParksForOthers`: a request that parks is not picked again while one it parked for still waits
  (`ParkHandsOver`).

`pick()` is a `CHOOSE`, so the first part of the argument is that it has one answer. `Before` orders
the waiters by usage and then by arrival; as no two tickets arrive together (`IsInjective(arrived)`)
it is total (`BeforeOrders`), and a least usage and a least arrival exist because the naturals are
well-founded (`LeastNat`, `FirstExists`); `PickIsFirst` says that `pick()` is that least element.
Appending a ticket, removing one and decay all keep the order of those that stay (`AppendKeeps`,
`LeaveKeeps`, `DecayKeeps`, gathered in `StepOrder`).
The inductive invariant `TInv` adds to `SlotsExact` that the tickets are exactly the open requests,
that no linger runs beside a request and that whoever sleeps in one has its end as alarm, and that
the waiters a request is about to park for still wait and still come before it. `TurnIsAwake` is
inductive beside it: a step either wakes everybody, or leaves the order and the waiters `pick()`
chooses among as they were or larger (`StepAwake`, one case per action).
The assumptions are `Requests`, `Slots`, `Times` and `Switches` of the module.

`ExpertCacheProofs` and `ExpertCacheByteProofs` are about `ExpertCache` in every configuration
(exclusive tiers or not, staged or direct read-back, any checkpoint, loans, prompts, restores), for
any numbers of layers, experts, RAM and VRAM slots and ring entries. They assume `CacheConstants`
only (its last conjunct says that `None` is not also a read-ahead's record).

* `TypesHold`, the types, and `TablesAgree`: in both tiers an expert's entry names
  a slot that holds it, and a VRAM slot's expert is mapped to it (`MapsAgree`). The invariant `Maps` has the two
  tiers apart (`RamMaps`, `VramMaps`), adds that a lent tier is empty (`LentEmpty`), without which a
  refill could map an expert twice, and that what the warm-up after a loan, a read-ahead or a
  prompt is about to give a slot does not have one (`Fresh`).
* `RingsConserved`: a staging entry is busy exactly while one swap owns it, pending or landing
  (`RingOK`): no entry leaks when a fetch fails or a tier is lent with read-backs on the way.
* `TiersApart`: with exclusive tiers no expert keeps a slot in both. The tiers do overlap while swaps
  are pending, so the invariant says why that ends: for each expert in both, a swap is pending that
  will release the very slot it is mapped to (`BothSwap`).
* `SwapsProtected`: `finish_swap()` never reaches its branch for a slot that is not its victim's any
  more ("cannot happen: protected"). A swap's slot is claimed for the victim, and of what later
  steps will mark valid none is that slot (`Slots`): the reads of the fetch in progress, its claims,
  its promotions, the speculative reads and the ones they left behind.
* `ReadsNotAliased` (`NoAliasedRead`): until a fetch fails (`failed = 0`), no slot is written by two at
  once: two reads, a read and a write-back from either queue, or a read and a reordering. A
  failed fetch leaves claims nobody reads for, and from then on the property is only checked. The
  argument has three layers. *Whose a read is*: which operation has claims, a read ahead or
  completions to wait for (`Phases`); what is to be read has its slot, mapped and not yet valid, and
  no slot is wanted twice (`WantedHeld`, `MappedWanted`, `ListsApart`, gathered in `Claims`); each read on
  the drive is of one of these (`DiskReads`), and a reached count of completions means that the reads it
  counts have landed (`Counts`). *What a step may do*: every action changes a RAM slot in one of a few
  ways (`RamMove`; `StepMoves`, one case per action), so that the invariants above are carried by
  cases on the move and not on the action. *What the queues owe a slot*: what the side queue still
  writes is the slot of a landed victim, and not at the layer being worked on (`Sides`); the main queue is
  empty where the host has waited for it (`QueueEmpty`), and what is on it reads a slot that is mapped,
  valid and the host's (`QueueHeld`).
* `KernelsReadTheirExperts` (`UseBytes`), `HandlesNameTheirExperts` (`ServedExpert`) and
  `ResidentsHoldTheirExperts` (`ResidentBytes`): until a fetch fails, the VRAM slots a queued layer computes
  on hold its experts by the time the queue reaches it; a ready handle in RAM names a block
  with its expert's weights at the precision it promises; and a mapped, valid slot holds what its
  tables say. What is true at every step is weaker, because bytes follow the tables late, and
  `BytesRight` says what brings them: a RAM block is right once it is no longer being read, or reordered, or
  brought back (`RamRight`); a VRAM slot is, unless the queue has an upload for it
  (`VramRight`); a victim's bytes are in the slot it leaves, in its staging entry, or in the queue's
  hands (`VictimRight`, `BackRight`), and a landed one's are on the side queue (`SideRight`). That is
  inductive only beside an account of the queue (`Ops`): each upload and each read-back works for
  a slot the host still keeps for it (`OpsHeld`, `UploadHeld`, `StageHeld`), a victim is read back before its
  slot is written and a slot is written before it is used (`OpsOrder`), and a
  queued use is of experts the slots still are, or will be, given to (`UsesHeld`). Handles are
  related to the tables apart (`GpuHandles`, `RamHandles`).
  The hypothesis `RestoresOwn` of these three says that `lend_restore()` meets no VRAM slot it may
  replace. It is not decoration: without it the code clears a layout flag it should not
  (the fourth of the other findings below). It holds in every run (a restore needs room in the tier, and with
  one VRAM slot room means that there is nothing to replace), and `ContentsWithoutRestore` is free of it: `UseBytes` and
  `ServedExpert` hold in every configuration with no restore or no exclusive tiers. `ResidentBytes`
  assumes moreover that no restore meets a cold file: the reads ahead of a restore are of the hot
  file and leave the slot's precision flag as it was (`prefetch_start()`, `src/qwfn_expert_cache.cpp:1348`).

`PrefillStreamerProofs` is about `PrefillStreamer` with more than two layers (`Model`), any experts and
any of its modes.

* `BuffersApart`: the reader never writes the buffer the caller computes on or has lent out
  (`ReaderApart`), whatever fails and whoever borrows. The invariant `Sched` says where the reader
  reads and where its next job goes: into a buffer named for that layer and not ready, neither in
  use nor read by the device.
* `OnLayer` (`ComputesOnLayer`) and `WarmsOwn` (`WarmsFromLayer`): a layer is computed on its own experts
  and `warm()` copies those of the layer just computed, provided failures come alone (`FaultsAlone`) and a borrower with
  read-ahead has an even number of layers (`BorrowsEven`). Neither is decoration: without them the
  property is false, and Findings says how. The shipped model has 48 layers. The invariant adds that the buffers alternate
  (`Alternates`), that the front one holds its layer (`FrontHolds`), what the host buffers are while
  the device mirrors them or does not (`HostOnly`, `Direct`) and that without tiers nothing is taken
  from one (`Bare`).

`LayerGraphsProofs` proves every property the `layer_graphs` run checks, for any numbers of layers,
positions, experts, slots and settings, whatever residency the cache chooses. It assumes
`LayerConstants` and that `None` is no graph (`NoneIsNoGraph`).

* `ReplayFits` (`GraphFits`) and `ReadsItsRouting` (`RoutingRead`): the invariant `Kept` says what every
  kept and every parked graph still is: built for the positions it is filed under, marked with the
  bucket and the pack it was built with, and, unless the tier has moved since (`moved`), built for
  memory that is there and for the loans of today. `SwitchedKept` shows that parking one and taking
  another back keeps this.
* `StashCounted` (`StashExact`): the bytes parked are counted as a set of units, so that replacing,
  parking and taking back are unions and differences of finite sets (`StashReplace`,
  `SwitchedBytes`).
* `FoldsOnce` (`ContributesOnce`): every routed expert enters the residual once. `Stages` says at each
  point of a layer which of its experts the device tensors hold and which are still to come: after
  the graph those in the tier (`AtFetch`); after the fetch the rest is split between the promoted,
  which all have a slot, and the CPU's (`AtMoe`); in a prompt those of the chunks so far
  (`AtChunk`); after the layer all of them, in three tensors that share none (`AtGraph`). `Around` is
  what makes the skipped uploads right: rows believed zero are empty (`Zeros`), a lent tier is
  empty, the table a graph reads is the tier's (`TableUp`), a gate is scaled only where misses may
  be skipped (`Scales`).

`PrefixCacheProofs` is about `PrefixCache` for any finite set of requests, any texts, images, batch
and pool sizes, any bound on a conversation. It assumes `RequestsFinite`, `Sizes` and `Settings`.

* `BudgetHolds` (`WithinBudget`): in every scene, whatever fails and whoever is parked, the checkpoints
  in the pool and those of parked requests stay within `--prefix-cache`. Bytes are counted as a set
  of units, one per entry and position, so that evicting, replacing and adding are unions and
  differences of finite sets (`UnitsWithin`, `UnitsOfOneMore`, `ParkedChanges`). `SaveTakes` and
  `BoundaryTakes` say once what `pool_save()` and `pool_boundary_save()` may leave behind: entries like
  those there were, or one more where it fits, and the one about to be restored among them. The
  types (`TInv`) include how far a request is (`Progress`) and that the engine, or its checkpoint,
  has no more than that (`Lengths`); that a prompt is a sequence whatever it was built from needs an
  induction over its messages, made from a least counterexample (`UpToType`).
* `ConsumedHolds` (`EngineIsConsumed`), `PoolHolds` (`PoolExact`) and `ContextHolds` (the first half of
  `ContextIsRequest`): between requests `consumed` and `consumed_img` are what the engine evaluated, a
  checkpoint holds what it is filed under, and the request that holds the lock computes on its own
  tokens. None of the three is inductive alone. `Exact` says of the request that runs (`Owned`) and of
  each that is parked (`Away`) that what was evaluated are its tokens with the images of
  `consumed_img`, and that the images of the prompt's rest are set in the engine (`Pending`); for a
  parked one the latter only while the epoch is its own; and that nothing is pending between
  requests (`AtRest`). They hold where a resume that may fail fails with no other request parked
  (`FailsAlone`, which the scenes of the runs satisfy): otherwise they are false, and Findings says
  how.
* `RequestTold` and `RepliesTold`, for any images: the evaluated tokens of a chat request tell the
  messages it sent, and a cached reply's checkpoint those of its own conversation and the reply.
  They are the second half of `ContextIsRequest` and `RepliesFiled` with the images left out.
  What a sequence tells (`Told`) is a recursion over its places, so `SaidExists` makes it a function
  and `MeaningMore` says what one place more adds; `RebuiltTold` and `ContinuedTold` are the heart of
  it: a prompt rendered message by message, or continued from a reply and its generated tokens,
  tells exactly the messages, whatever the pool knew. The invariant (`WInv`) is inductive in every
  scene, a failed resume included: a reply kept tells its messages and was generated whole, or there
  was no room for one, and then none for a prompt that continues it (`IsReply`); what it is filed
  under tells a beginning of its conversation (`Files`); and a request's history is its prompt and
  the first token of its reply (`Telling`). `FailsAlone` is needed only to go from the tokens filed to
  those in the engine.
* `ContextOfText` (`ContextIsRequest`) and `RepliesOfText` (`RepliesFiled`): where nobody sends images
  (`Image = {}`) the tokens are all there is to a place, and the two properties hold as they
  stand. With images they are false in general, since a sequence's pads look the same whatever the
  image (Findings); the scenes of the run in which they hold depend on what the model replies.

`SpecDecodeProofs` is about `SpecDecode` for any vocabulary, any tokens the sampler may draw after a
context (`Drawable`), any prompts and sizes. It assumes `Sizes`, `Texts` (a client adds at least a
token, and the phrase that closes the thinking has one) and `WindowKeepsUp` (a step's positions are no
more than a block and one).

* `StateIsHistory` (`EngineHolds`), `HeadIsHistory` (`HeadRows`) and `ShownIsHistory` (`ShownInOrder`): the
  recurrent state is the history's, the draft head's rows are of the tokens that followed, and
  the client is given the history's end. The recurrent state alone is not inductive: the next step's
  residual is right only if its attention reads the right rows, and where the history is longer than
  the sparse budget it reads the blocks the bias opens. So the inductive invariant (`IInv`) says that the engine
  is sound: the raw rows are those of the sequence (`Rows`); unless a prompt or a restore left the
  pools dirty, the whole blocks' pooled keys are too (`Pooled`), and the bias is that of a position
  no more than one step back (`Behind`), which `WindowStep` shows a window of three blocks catches
  up with; and where the head has rows, each pairs a residual with the token that followed
  (`Headed`). Of the loop it says that the token about to be given is one the trunk draws after
  the evaluated history and is paired in the head (`Drawn`), and what the prompt's feeding and the
  cut leave behind (`Feeding`, `Looping`). Each operation of the engine has a lemma (`EvalDecodeIs`,
  `MtpStepIs`, `CloseGapIs` and those after them). A window of drafts is evaluated whole before any is rejected, so
  these lemmas hold over any set of tokens, and only what is left after the rollback is over
  `Token` again. A step's bias (`Biases`) and a prompt fed one by one (`OneByOne`) are recursive
  functions; what they return is proved from a least counterexample.
* `RefinesPlain` (`PlainSpec`): every step of the loop, mapped by `text <- hist`, `open <- pc # "idle"`, is
  the client's asking, tokens each of which the trunk may draw after all before it (the
  accepted drafts and no other), the reply's closing, or a stutter.

Only model-checked:

* liveness, which the prover does not do, and what rests on `ENABLED`;
* the properties of the expert cache about reads and bytes after a fetch has failed: its claims
  stay behind with no read, and what a later fetch does with them is another argument (`cache_cold_reread`
  shows that it may not even be right);
* of `PrefixCache`, `RepliesFiled` and the second half of `ContextIsRequest` in scenes with images:
  they hold as far as the replies tell images apart, which is a choice of the scene;
* of `SpecDecode`, `LookupCopies`: `LookupDrafter` folds over the history, and is compared with a
  definition of the longest match on the histories of the run; induction over data is beyond the
  prover. Whatever it proposes, the theorems above hold: they leave the drafts free.

## Findings

Two runs show behaviour that differs from what the repository says of it.

* `cache_cold_reread`: a fetch that fails half way leaves a claim with no read behind it. A later
  fetch hands it out at the cold precision, and `fetch_end()` reads it again with
  `read_block_now()`, which always reads the full-precision block: the bytes have another type than
  the handle says (`src/qwfn_expert_cache.cpp:1204`; the comment at 1301 says the block is fetched
  "rather than compute on stale bytes"). The passing run states the weaker `ServedExpert`.
* `prefix_parked_image`: parking clears `consumed` and leaves `last`; the next turn of the
  conversation `last` names is built without its image, refused by its checkpoint, and prefilled
  with image pads that nobody fills (`tools/qwfn_server.cpp:2120`; comment at 936).

Others were met while choosing the instances above. Each is why a passing run excludes a
combination, and each can be seen by setting the constants as said:

* `Timeshare` as in `timeshare_live` with `ShortTurns = TRUE`, `EveryWaiterRuns`: in a linger the
  scheduler picks the session that has just finished whatever it has used, and only a yield point
  inside a turn looks at the quantum. Turns that end before their first yield point keep a waiting
  session out (`tools/qwfn_server.cpp:728`; the comment at 777 and `README.md:128` say it yields).
* `IoBackends`, `Uring!Stuck` is reachable: when the submit inside `reap()` takes some of the ring and not
  all, `reap()` goes on to wait for all of it (`src/qwfn_io.cpp:566`; the comment at 560 says that the
  flush is there so that `io_uring_wait_cqe()` does not "block on completions that cannot arrive"). The
  run states how far the comment is right, `RingStuckOnRemainder`.
* `ExpertCache` as in `cache_cold_reread`, `ServedBytes`, another way:
  `read_block_now()` takes any completion of its engine for its own
  (`src/qwfn_expert_cache.cpp:1214`).
* `ExpertCache`, `GSlot = {g1, g2}`, `Exclusive = TRUE`, one layer and `"restore"`, `UseBytes`: a
  restore that promotes over a victim may be offered the promoted expert's own slot. `promote()`
  declines it ("never: in live_ / pending (the caller's own slot)",
  `src/qwfn_expert_cache.cpp:877`; a restore has nothing in `live_`), but `choose_victim()` has cleared the
  slot's layout flag by then (line 701), and bytes in device layout are reordered again on the way up. In
  the code a restore meets a victim only if decode steps filled the tier after a loan ended and before
  the restore ran (`src/qwfn_expert_cache.h:293`); with one VRAM slot, as in the runs, none has a
  victim.
* `PrefixCache`, images with `same = TRUE`, `RepliesFiled`: `pool_save()` takes equal tokens for
  the same sequence without comparing images (`tools/qwfn_server.cpp:1841`).
* `PrefixCache`, images with `"leave"`, `ContextIsRequest`: a prompt built from a cached entry
  splices none of its earlier images, so `prefix_reuse()` has nothing to compare
  (`tools/qwfn_server.cpp:1779`).
* `PrefixCache`, two parks with `"resume"`, `ContextIsRequest`: a failed resume resets the engine
  without a new epoch (`tools/qwfn_server.cpp:2152`): another parked request finds its epoch
  unchanged and takes the empty engine for its own.
* `PrefixCache`, five requests, `Text = {p, q}`, `ReplyText = {x}`, `PoolBudget = 5`, `PoolMin = 1`,
  `PoolBoundary = 1` and one scene of text with `ctx = 6` and no parks, `Bytes(pool) +
  ParkedBytes <= PoolBudget`: an entry saved without its reply, after a prompt over the context was
  rejected, gets the reply when the same tokens are saved again, and its bytes are not checked
  (`tools/qwfn_server.cpp:1841`; `docs/prefix-cache-proposal.md:250` says an identical entry is only
  touched). The invariant therefore counts the checkpoints, cached and parked, and not the replies
  filed with them.
* `PrefillStreamer`, `"fault"` with `"borrow"`, or with `"tiers"`, `ComputesOnLayer`: after a
  failed prefill a staged buffer, or a read that copies out of a tier, is still taken for its
  layer (`src/qwfn_engine.cpp:3185`, `src/qwfn_prefill.cpp:345`).
* `PrefillStreamer`, `NLayer = 3` with read-ahead and `"borrow"`, `ComputesOnLayer`: with an odd number
  of layers the last read-ahead, of layer 0, goes to the first buffer, which `host_scratch()` lends
  out (`src/qwfn_prefill.h:66`, borrowed at `src/qwfn_engine.cpp:3185`); the next prefill still takes it
  for layer 0.

Read in the code while modelling it, with what the models do about each:

* A prompt pass of one token is a decode step (`T > 1`, `src/qwfn_engine.cpp:2032`): it does not pair
  the row the last pass left open, so the draft head keeps a hole while `mtp_kv_valid_` stays true
  (comment at 1665). The tokens drafted are worse, never the text. `HeadRows` excludes exactly these
  positions (`holes`).
* When the thinking budget cuts the reply while accepted drafts are still to be emitted, those drafts
  are in the history and in the engine and are never shown; `ShownInOrder` allows for it. The step is
  counted twice in `n`.
* The bias window of the sparse attention moves one block per step: right only while a step's drafts
  fit in a block (`WindowKeepsUp`, an assumption the code does not check; 3 and 4 as built).
* `reset()` and the streamed prompt leave `rb_depth_` as it was; no caller rolls back there.
* `--promote N`: a row of `t_gids_` has one entry per expert used and the late fold reads `N` for
  each position of a step (`LayerConstants`, an assumption the code does not check).
* With `--skip-miss` a prompt's batches read `t_rscale_` as the last decode step left it
  (`src/qwfn_engine.cpp:2430`, 3530): `ContributesOnce` states the scale for decode only.
* `fetch_batch()`, `warm()` and `prefetch_start()` take a second slot for an expert that has a cold
  or claimed one. A claimed slot that no read is behind is then never valid and never evictable: it
  is lost to the pool until the next reset.
* `prefetch_start()` does not clear a slot's cold flag; the restore runs have no second checkpoint.
* `fetch_batch()` marks its slots valid before their reads land and does not take that back when
  `reap()` returns nothing (`src/qwfn_expert_cache.cpp:1284`). With the thread pool, the default
  (`src/qwfn_engine.h:70`), it cannot return nothing, by `ShortReapDrained`. With `--io-uring` it can, where
  `io_uring_wait_cqe()` fails: the adopted slots stay valid and mapped with whatever they hold, so
  `ResidentBytes` would not hold. `ExpertCache` models the cache over the thread pool only.
* The drafter's places for a key include the current suffix itself, so one of the `WAYS` is not a
  place to copy from.

## Not modelled

What the graphs compute (`LayerGraphs` and `SpecDecode` model what they read and write), sampling,
the vision encoder and the tokenizer are numeric or string work without control state. The
acceptance of a draft at temperature is arithmetic on distributions: in `SpecDecode` any token of
the trunk may follow a rejection. Which victim, which promotion and whether a lookup window pays are
decided by frequencies and measured times: the models leave the choice open. HTTP, templates,
tool-call text and attachments are parsing and formatting; their effect on the engine is in
`PrefixCache` and `Timeshare`. Model loading, weights, packaging and the kernels' patches are I/O or
third-party, and so is opening and aligning files in the I/O engine. The warm-count file, the
diagnostic switches that only print and `QWFN_MOE_SEPARATE` are left out. The PLE row cache is used
by a benchmark only. `PROJECT.json` has one entry per part.

Hazards without a property. A failed read is a completion like any other (`src/qwfn_io.cpp:645`):
modelled faithfully, a failing disk would falsify every byte property by what the code says it does.
The warm-count file is replaced by one rename (`src/qwfn_expert_cache.cpp:1563`). An exception from
the idle callback while parked would leave `parked_bytes` raised (`tools/qwfn_server.cpp:2138`); the
callback writes to a sink and is not known to throw. The batch gather of the PLE table
(`src/qwfn_ple.cpp:150`) is called by the I/O benchmark only.

## Plan

Steps 1 to 7 are done; the rest is in the order of its worth.

1. `IoEngine`, `IoUring`: the completions everything else counts on. *(done)*
2. `ExpertCache`: the decode path. *(done)*
3. `Timeshare`, `PrefixCache`: requests. *(done)*
4. `PrefillStreamer`. *(done)*
5. More of the expert cache: `warm()`, `fetch_batch()`, `lend_restore()`. *(done)*
6. The engine: `LayerGraphs` for the layer loop and the loans around a prefill, `SpecDecode` for the
   sequence state and the token loop, refining `PlainDecode`. *(done)*
7. `LookupDrafter`, inside `SpecDecode`; `IoBackends`. *(done)*
8. Compositions: `Timeshare` with `PrefixCache` (a park between two sessions), `LayerGraphs` with
   `ExpertCache` (the residency it now chooses freely).
9. Abstract specifications: a completion box that both backends implement; an engine held by one
   request at a time that `Timeshare` implements.
10. Tool-call streaming as an algorithm over a small alphabet; the router.
11. Proofs: `IoEngine`, `Timeshare`, `PrefillStreamer`, the tables and swaps of `ExpertCache`,
    `LayerGraphs`, `PrefixCache`, `SpecDecode` with its refinement of `PlainDecode`, both backends of
    `IoBackends`, the reads and the bytes of `ExpertCache` *(done)*; the latter after a failed fetch.

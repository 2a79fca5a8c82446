# A verification project for the DSP-JSFX runtime

The repository turns JSFX effects into native audio plug-ins. Around the
generated DSP code it has a runtime in C++ whose parts are shared by the audio
thread, worker threads, graphics threads and, for messages and shared memory,
other processes. Nearly all of it is written so that the audio thread never
waits: it uses `try_lock`, atomics and retry on the next block. That is where
unit tests say least, and it is what this project specifies in TLA+, checks with
TLC on small instances and proves with TLAPS.

## The system and what makes it correct

| Component (source) | State | Operations | Hard part | What must hold |
|---|---|---|---|---|
| Sample-pool storage (`src/DspJsfxSamplePoolStorage.h`) | active, pending and retained generations, reader count, request ids | publish, adopt, defer, pin, bind, reclaim | readers take no lock; `try_lock` loses | nothing in view is freed; no older bank returns |
| Sample pool (`src/DspJsfxSamplePool.cpp`) | one-place request queue, reported state | commit from paths or memory, worker loop | commits overtake decodes | a settled pool is that of the newest commit; every commit is served |
| Task scheduler (`src/JsfxTasks.h`) | 32 slots, epoch, wake generation, two workers | submit, join, cancel, release, reset, query, run, finish | slot reuse, lock-free reset and queries, parking | counts exact; trees complete; no lost wake-up; everything ends |
| Task arena and buffers (`src/JsfxTasks.h`, `src/JsfxTaskRuntimeHooks.h`) | one private heap, eight buffers | allocate, copy, seal, run, commit, swap, release | allocation outside the lock, heap swap | no heap freed in use; the arena comes back |
| Message bus and instance runtime (`src/DspJsfxMessageBus.cpp`, `src/DspJsfxRuntime.cpp`) | instance slots and message ring in shared memory, cursor, inbox | register, subscribe, flush, collect, change domain | other processes, lossy lock, staleness, lag, full slots | order per sender; no duplicates; drops are counted |
| Shared memory and gmem (`src/DspJsfxSharedMemory.cpp`, `src/DspJsfxGmem.cpp`) | segments, headers, page sequence numbers | open or create, attach, load, store, bulk | initialisation race, death of a creator | a validated header is complete |
| Smart idle (`src/JsfxIdleRuntime.h`) | sleeping flag, quiet samples, wake flags | begin and finish a block | flags set by other threads | no sleep over unfinished work |
| Graphics frame pool, snapshots and rings (`src/JsfxGfxFramePool.h`, `src/JSFXJuceProcessor.cpp`) | leased surfaces, owner counts, ring indices | acquire, publish, read | chosen under a lock, used after it | a reader's frame does not change |
| Mirror ranges (`src/JsfxGfxMemorySync.h`) | none | build, sort and merge ranges | saturating arithmetic | exactly the cells asked for |

How they meet: a pool's worker publishes into its storage and calls back into
the processor, which wakes the plug-in; a task arena takes a lease on a storage
generation and binds it to the batch of the task it runs; the smart idle logic
asks the task scheduler and the pools whether work is outstanding; every audio
block begins with the runtime collecting messages and ends with it sending some.

`PROJECT.json` lists all components, the ones outside this project too
(drawing, file import, MIDI translation, the compiler), and every hazard with
the line where it bites.

## Modules

| Module | Models |
|---|---|
| `SamplePoolStorage` | the storage at the grain of its atomic accesses |
| `BankPublication` | what the storage promises: banks replaced atomically |
| `SamplePoolStorage_proofs` | the theorems about the storage |
| `SamplePool` | extends the storage with commits and the worker |
| `JsfxTasks` | the task scheduler |
| `TaskArena` | the scheduler's private arena: allocation, writers, adoption, reclamation |
| `MessageBus` | the message bus and the instance runtime that uses it |
| `GfxSnapshots` | the audio thread's snapshots for graphics readers |
| `GfxWorker` | extends it with the drawing worker, surfaces, input and the write ring |
| `GfxEcho` | extends that with what the script sees of its own edits |
| `GfxSnapshots_proofs`, `GfxWorker_proofs` | the theorems about the snapshots and the worker |
| `TaskArena_proofs` | the theorems about the arena |
| `SamplePool_proofs`, `MessageBus_proofs`, `JsfxTasks_proofs` | the theorems about the pool, the bus and the scheduler |
| `FiniteInduction` | induction over naturals and finite sets as facts about sets, which the proofs use |
| `MC...` | instances for TLC |

Definitions under a comment "Mutant:" are deliberately wrong
variants of a definition, each of which breaks a property: they show that the
property would notice the bug. No specification uses them.

### SamplePoolStorage

Variables are the fields of the class (`requested` is `requestedId_`, and so
on). A *pin* stands for one count in `readers_`, whoever holds it: a batch's pin,
a reader scope or a lease. It goes from idle to counted (`fetch_add`) to held
(the load of `active_`), which is the window the reclamation protocol is about.
`adoptPending`, `publish` and `reclaimRetired` are split where a lock-free access
of another thread can fall between two of theirs and make a difference: the exchange of
`pending_` and the store of `active_`; the two stores of an immediate publication; the
two loads, the check of `readers_` and the erasure. `publish`'s load of `deferred_` and the
store it decides are one step: a `setDeferred` between them cannot adopt, since the mutex
is held, and so leaves what one leaves that comes after the store and loses the lock.
`bindPinned` has two actions, one for a batch that has no pin of the storage yet (`Bind`)
and one for a batch that has (`Rebind`), whose count stays as it is. A generation is named by its
`publicationRequestId`; `publish` refuses an id twice, so this names it uniquely.
A freed generation leaves `generations`. All atomics of the protocol are
sequentially consistent in the code, so interleaving is the right semantics.

Calls come from clients at any time, subject to what the code asks of them: a
lease outlives the batches bound to it.

### SamplePool

`CommitBegin` to `CommitRecord` follow `commitFromPaths` and `commitFromMemory` in order,
under `commitMutex_`: number, start, announce, queue, record. What is announced (state,
selected and failed) is one step, and so are the counts the worker reports before the
final state (846-848): a client that reads between those stores sees a mixture, about which no
property says anything. `WorkerTake` to `WorkerReclaim` follow
`workerMain` and `publishGeneration`. A `Sources` element is what a commit
compares (generation, kind, options) with what decoding it yields (how many
files, how many bad), which stands for all of `buildGeneration`. Storage actions
are reused as they are: the worker is the storage's `Worker`, and readers keep
pinning, adopting and deferring all the time.

### JsfxTasks

A slot is a record with the fields of `Job`; `Vacant` is a slot whose id is 0.
`finish` recurses to the parent under the lock: `Finish` is a recursive function of the
levels left to climb, each of which is `FinishLevel`. A worker's scan is one step under the lock; observing the
wake generation and waiting for it to change are separate steps, with `fresh[w]`
for "changed since w observed it". `submit` and `join` hold the mutex over
several steps (check, store the fields, store the id and signal, look at the
epoch again), because `reset` and the queries do not take the mutex. A reset
looks at a slot (its id and epoch) and then marks it (`cancel` and `released`), two steps a slot; a
query finds the slot, checks it (epoch, released and status), loads the result and verifies id and
epoch. The atomics inside one of these steps are not told apart. In a query that is harmless, since
id and epoch are looked at again at the end; in a reset, since the slot may change hands between
the look and the mark anyway. An actor that does not get the lock returns without effect, so it
has no action.

What a body may do is left open: any operation, in any order, with any handle it
can have received, then return or throw. The handles a body can have are those
issued before its own job and those of its own descendants (`Names`).

The chunk of 32 iterations is one iteration here. `values`, reductions, captures
and copied variables are data the properties do not tell apart, but for `result`,
which is the id of the job that wrote it.

### TaskArena

The arena of a native Legacy build, the one that can clone and adopt. `run`'s
arena part is cut where the mutex is released: the decision (`ReclaimTake`,
`AllocTake`, `LookOn`), then freeing or allocating and copying without the mutex, then
the store under it. A heap is a name in `heaps` while it is allocated; what moving
a `unique_ptr` frees leaves the set. The script's calls take effect at once, since
they run under the mutex and return when they do not get it. A worker's scan ends
doomed writers and picks one in steps of their own, finer than the code's one
critical section. Only the arena's writers are jobs here: one iteration, at most one
dependency, no children; `Finish` is what `finish` does to such a job. `Submit` does not know
which writers were released, so it allows a chain after one that was, which the code refuses. That
an arena under reclamation has its heap freed and gives up its id is one step: every call finds
it released in between.

A sample generation is named by the request that asked for it. `acquireLease` and
`validateLease` compare with the newest request (`isCurrent`), so `Request` makes
every lease stale. A graphics frame holds the lifecycle mutex from `FrameBegin` to
`FrameEnd`; the audio thread's adoption only tries it, the frame's own rebinds it.

`Polls` says what the script does: with TRUE it waits, as the documentation's example
does, until the status is no longer queued or allocating before it asks for results.

### MessageBus

A domain is a header in shared memory: a table of instance slots, a ring and a
spin lock that is tried a bounded number of times. A bus call changes its process's
registry, then makes header calls one after the other; each either runs as one step
under the lock or is lost (`Lose`, `FlushLost`), which is always possible: the holder
may be another process, or one that died. A block is `BeginBlock` (refresh and
collect), the script's calls, `EndBlock` and the flush. The runtime's boxes
(`inbox`, `outbox`, `dropped`) and the bus's table and ring are one module because
every property is about both. Numbers in the ring are the code's: `globalSeq`,
the slot is the number modulo the ring's size, an instance goes stale after `Stale`
messages without a heartbeat. A slot of the table has room for `MaxChannels` channels (24 in the
code): `Publish` writes that many of an instance's subscriptions, any of them (`Fitting`), since they
come in a hash table's order, and marks the record published all the same. Channels that are only
advertised take the room that is left and are not in the model. A join of the domain an
instance is in already only publishes its record again.

### GfxSnapshots, GfxWorker, GfxEcho

`GfxSnapshots` has one action per atomic access of `beginGfxSnapshotRead`,
`endGfxSnapshotRead` and `updateGfxSnapshotIfNeeded`; a snapshot being copied holds
`Torn`. `GfxWorker` adds `renderWorkerFrame` in its order: surface, snapshot, input,
script, write ring, publication; the message thread, which posts input and keeps a
frame while it paints; and the audio block, which drains the ring when it begins and
may publish when it ends. Its next-state relation conjoins the actions of
`GfxSnapshots`, so every behaviour is one of the snapshot protocol (this is proved).
`GfxEcho` adds the worker's copy of the script variables and the flag that
holds its refresh back until an edit has come back in a snapshot.

## What is checked

| Run | Instance | Shows |
|---|---|---|
| `storage` | 3 pins, 3 requests, symmetry on pins | types, `NoUseAfterReclaim`, `LatestWins`, `BytesAreOfRetained`, `BankMovesForward`, refinement of `BankPublication` |
| `pool` | 2 clients, 1 pin, 2 requests, 3 sources | `SettledShowsNewest`, `CommitServed`, `PendingAdopted`, `RetiredReclaimed` |
| `pool_supersede` | the same | a violation: see below |
| `tasks_trees` | 2 workers, 3 slots, 2 iterations, joins of 2, failures, cancellation | `CountsExact`, `TreeComplete`, `DependenciesHold`, `FailureReachesParent` |
| `tasks_reset` | 2 workers, 2 slots, 3 ids, one reset, queries | `NoLostWakeup`, `QueryHonest`, `ResetReachesAll`, `FinalIsKept`, `EveryTaskEnds` |
| `tasks_leak` | 2 slots, one reset | a violation: see below |
| `arena` | 2 workers, 3 heaps, 2 arenas, 2 writers, 1 reset, 2 generations, symmetry | `HeapInUseIsKept`, `SingleWriter`, `ResultsAreComplete`, `NoHeapLost`, `OneArenaHeap`, `NothingForgotten` |
| `arena_early` | the same without polling, 1 generation | a violation: see below |
| `bus` | 3 instances, 2 slots, 2 channels where a slot has room for 1, ring of 2, 2 domains, 3 posts | `FifoPerSender`, `OneSlotEach`, `ProcessingPeerKeepsSlot`, `LossIsCounted` |
| `bus_recover` | 3 slots, ring of 1 | a violation: see below |
| `gfx` | 1 reader, 2 snapshot slots, 2 surfaces, ring of 2 | `StableWhileRead`, `ShownNotDrawn`, `NoInputLost`, `AppliedOnceInOrder`, `NeverOlder`, `ForcedIsPublished` |
| `gfx_echo` | ring of 4, 2 edits | a violation: see below |

Every passing run also checks one type invariant.

Why the bounds are enough. Storage: three pins let a lease, a batch bound to it
and an independent reader overlap; three requests give an active, a pending and
an overtaking bank. The invariants are proved without these bounds. Pool: two
requests are one in the queue and one being decoded, the only two places a
request can be; two clients make the commit lock matter; the sources cover full,
partial and empty outcomes and both kinds. Tasks: three slots hold a parent, its
child and a job one of them waits for; two iterations let both workers run one
job; two slots and three ids force a slot to be used again; one reset is enough
to fall between any two steps of another actor, and jobs of two epochs then
coexist. Arena: the code has two workers; three heaps are the live one, the arena's
and one freed before, so that an allocation may reuse a name; two arenas let one follow
another, two writers make a chain. Bus: the sender fills a ring of two with three
messages, so a receiver lags and its boundary is crossed; two slots for three instances force
reclamation (the code has 256 slots and a window of 65536 messages); the third instance only
registered before; a receiver of both channels has one more than its slot has room for, so that
the slot leaves one out (messages are posted on one of them only, `Topics`, the one that is left out or the
other). Gfx: with one reader, two slots leave the publisher without a free
one exactly as three do with two readers, and two surfaces leave the worker none while
one is painted and one is in front; a ring of two holds one entry, so it is full and
wraps at once. The proofs about `GfxSnapshots` and `GfxWorker` hold for all sizes.

`MaxSerial`, `MaxArenas` and `MaxJobs` bound the ids handed out, `MaxEpoch` and
`MaxResets` the resets, `MaxBanks` and `Requests` the generations asked for, `MaxPosts` and
`MaxMoves` what an instance posts and how often it moves or subscribes to a silent channel, `Topics`
the channels posted on, `MaxSeq`, `MaxInput` and
`MaxEdits` what the graphics threads number: beyond them the calls are refused by
the model, as by a program that stops asking. `Calls` picks the operations a run
explores. Only the pool's runs check deadlock: its worker never stops, while in the
others all programs may stop calling.

### Fairness

Pool: the worker thread runs and obtains the mutexes it waits for (strong
fairness, since readers may hold the storage mutex again and again, each time
for a bounded critical section), and a client inside a call completes it. Nobody has to
call the pool, and readers need not stop reading: `RetiredReclaimed` says what
happens if they do, `PendingAdopted` what happens if deferral stays off. The
worker's 25 ms wait is a step that is always possible when the queue is empty.

Tasks: workers keep being scheduled and obtain the mutex (strong fairness of
`Loop`), which includes that a body returns, as the cooperative model requires of
a script; whoever has begun a call completes it. The enabling conditions
(`CanLoop`, `MidCall`, `MidScan`) are written out because TLC evaluates `ENABLED`
by enumerating successors. Nobody has to release anything or cancel anything:
`EveryTaskEnds` is about ending, not about giving slots back.

Bus: a host keeps calling an attached instance's blocks, a thread inside a call
finishes it, and a registration or a collection that is tried again and again gets the lock some
time: neither is lost for ever. Losing one call is always allowed. Only `bus_recover` needs it, so what
it shows is not the work of a lock that never comes free.

Gfx: audio blocks keep coming; a frame that has begun goes on; a copy for which memory
is short is not short of it for ever. Nothing is assumed of the message thread or of
requests. `ForcedIsPublished` needs no more, since a failed attempt asks again.

The arena has no liveness property: `NothingForgotten` states as an invariant that the
workers never sleep over an arena that waits for them.

### What the violations show

`pool_supersede`: `publishGeneration` checks once that its request is the newest,
then publishes and reports. A commit that starts after the check has its
announced state overwritten by the final state of the older result until the
worker takes the newer request. The comment at the check promises more. Once the
pool settles the report is right (`SettledShowsNewest`).

`tasks_leak`: `join` validates its dependencies, then collects. When the host
resets between the two, a dependency may be collected and its slot taken for
the join itself, which then counts as referenced by itself with no one to let
go. The slot is lost until the instance is destroyed. It takes a join in a task
body while the host resets (a sample-rate or oversampling change).

`arena_early`: `task_arena_copy_out`, `read`, `commit` and `adopt` compare the sample
lease before they look at the status. On an arena with samples that is still being
allocated there is no lease, so the call stores "failed" over "allocating". Released
then, the arena is reclaimed by the other worker and a new one may be created and
allocated while the first allocation still runs: two private heaps exist, where the
documentation bounds an instance to one, and the first worker's store lands in an arena
it does not belong to. A script that waits for status 3, 4 or 5, as documented, is
safe (`arena`).

`bus_recover`: when an instance's slot was taken as stale, `collectInbox` registers it
again once. If that attempt does not get the lock, nothing remembers to repeat it: the
record counts as published and the cursor is up to date, so without new traffic the
instance stays unregistered although it processes blocks and the lock is free.

`gfx_echo`: the worker waits for its edit to come back by comparing snapshot
numbers. A block that drained the ring before the edit was sent ends after it and
publishes a newer snapshot without it; the next frame refreshes from it and the script
sees its own edit undone, until a later snapshot brings it back.

## What is proved

`SamplePoolStorage_proofs` proves, for any set of pins and requests, that
`StorageSpec` implies `[]StorageTypeOK`, `[]NoUseAfterReclaim`, `[]LatestWins`,
`[]BytesAreOfRetained`, `BankMovesForward` and `ImplementsBank`. The assumptions are
those of `SamplePoolStorage`: the worker is not a reader, request ids are positive
naturals, the free-mutex marker is not a thread.

None of the invariants is inductive alone. `IInv` adds:

- `CountInv`: `readers` is the cardinality of the finite set of pins that are
  counted or held, so `readers = 0` at the worker's check means nobody reads;
- `MutexInv`: an actor is inside a critical section exactly if it holds the mutex;
- `HandInv`: what an actor carries through its critical section is the newest
  published generation, and the pair kept by a reclamation still is
  `{active, pending}` when the erasure comes;
- `RetainedInv` and `PinInv`: the active, pending, carried and viewed generations
  exist, and a reader that arrives after the check can only view the active one;
- `OrderInv`: where the newest generation is, at each point of each critical section;
- `AccountInv`: which bytes are still to be counted.

One lemma per part shows that every action preserves it, one action per step.
`ImplementsAtomicBank` takes `staged` to be the newest published generation while it
is not active: the exchange that takes `pending_` into an adopter's hand does not
change it, so that step stutters, as do both halves of a publication and all of
reclamation but the erasure.

`GfxSnapshots_proofs` proves, for any number of slots, readers and attempts, that
`SnapshotSpec` implies its type invariant, `[]StableWhileRead` and `NeverOlder`. The
inductive invariant `SnapshotInv` adds to the types that a slot's owner count is -1 exactly
while the writer has claimed it and nobody has it pinned (`ClaimInv`), that otherwise it
is the number of readers between their pin and its undoing (`CountInv`), that the slot in
front is complete and the newest published (`FrontInv`), and that what a reader found
there is still there and no newer than the front (`ReadInv`). The counts are the heart:
a pin or a claim that succeeds is a compare-and-swap, and only an exact count lets the
writer conclude from 0 that nobody reads. The assumptions are that there is at least one
slot and one attempt and that the readers are finitely many.

`GfxWorker_proofs` first shows that every step of the composition is a step of the
snapshot protocol or leaves it alone (`WorkerKeepsProtocol`), so those theorems hold
there without being proved again. Then, each by an invariant of its own and for any
sizes: `[]ShownNotDrawn`; `[]NoInputLost`, with the sequence of inputs taken apart
at its two ends; `[]AppliedOnceInOrder`. The last uses `RingInv`: what the ring holds from
the audio thread's place to `head` is, in order, what was accepted and not yet applied
(`Holds`); while a block drains, the tail it has not stored yet only makes the ring
look fuller to the worker than it is. `SendHolds` and `DrainHolds` are about the two
ends, for any sequence; the index arithmetic is in `EndMoves`, `RoomMeans` and
`BeginMoves`.

`TaskArena_proofs` proves, for any set of workers and heaps and any bounds, of a script
that polls (`ASSUME Polls`; `arena_early` shows what happens without): `[]ArenaTypeOK`,
`[]SingleWriter`, `[]HeapInUseIsKept`, `[]NoHeapLost`, `[]OneArenaHeap` and
`ResultsAreComplete`. Its inductive invariant is `ArenaInv`:

- `StatusInv`: a worker that allocates or frees without the mutex is the only one that
  does, and the status names what it does;
- `JobInv`: `refs` is the number of writers that have not ended, and those are of the
  arena that exists now, which is sealed or failed;
- `ChainInv` and `OrderInv`: an arena's writers form one chain up to `lastWriter`, and a
  writer that has begun finds all before it done, so two never run at once;
- `SealedInv`: one that did not succeed leaves no sealed arena, so a sealed arena
  without references is the work of all its writers;
- `RunInv`: each running writer has one worker;
- `HeapInv`: every allocated heap is the live one, the arena's or in the hand of the one
  worker outside the mutex.

`JobEffects` and `ArenaEffects` sum up what any step does to the writers and to the
arena; the lemmas about the chain, the order and the seal use only those.

`NothingIsForgotten` proves `[]NothingForgotten` on top of that, provided there is a worker at
all: `WakeInv` says that what a worker about to wait has seen to be so still is so (each step
that changes it signals), `OwnerInv` that whatever is under way is in some worker's hands,
`CancelInv` that the writers of a released arena are told to end.

### The pool

`SamplePool_proofs` first shows that a step of the pool is a step of the storage or leaves it
alone (`PoolUsesStorage`), which brings the storage's theorems along (`PoolReclaimsSafely`).
`[]SettledShowsNewest` speaks of settled states only; the invariant has to follow the newest
request everywhere. `NewestInFlight` lists where it can be (in its commit, in the queue, being
decoded, published, reported, shown) and `FreshInv`, `NumberInv`, `StartInv` and `BoundInv`
that no other request can be taken for it: numbers are handed out under the commit mutex and
neither the queue nor the worker ever has a later one. `LastInv` ties it to what was committed.

### The bus

`MessageBus_proofs` proves, for any instances, domains, slots, channels (finitely many) and
ring size, with any number of lost calls: `[]BusTypeOK`, `[]OneSlotEach`,
`[]ProcessingPeerKeepsSlot`, `[]FifoPerSender` and `LossIsCounted`. `ProcessingPeerKeepsSlot` promises as
many of the current subscriptions as a slot has channels, not all of them, which the code does not keep
beyond 24. `LossIsCounted` promises of a receiver that what the ring still has is delivered and
that a lag counts one drop on each subscribed channel, however many messages were lost; of a sender, that each
message of a lost outbox is counted. A direct message on a channel that is not subscribed may be lost by
a lag without being counted, as in the code (707-708).

- `RegistryInv` is what the first two need: an instance's calls under way go to the domain it is
  in, except its removal from one it left (`CallsAreHome`), without which a late registration
  could follow a removal; and a published record is the slot's content (`SlotIsRecord`), so the
  slot's age is the instance's.
- `DeliveryInv`: the history of a domain is numbered by place; what a ring or an inbox holds was
  committed as it is; an inbox is in that order and behind its cursor; a sender's own numbers
  grow along every history and on into its outbox. A change of domain is where this is not
  obvious, since it clears the inbox but not the sender's count.
- `RingHoldsLast`: the ring holds the last R messages at their number modulo R, from which it
  follows what a lagging receiver finds and whether it has lost any (`PlacesDiffer`, `WrittenHoldsLast`).

### The scheduler

`JsfxTasks_proofs` proves, for any workers, slots, iteration counts, bodies and programs, and any
number of resets: the inductive invariant `TaskInv`, and from it `[]TasksTypeOK`,
`[]TreeComplete`, `[]DependenciesHold`, `[]FailureReachesParent`, `[]QueryHonest`,
`[]ResetReachesAll` and `FinalIsKept`; and `[]NoLostWakeup`, given that there is a worker.
`CountsExact` is proved until the first reset
(`epoch = 1`), and so is that nothing leaks. After a reset it is not so: a join may count
itself in a slot that was used again, which is what `tasks_leak` shows. What holds
always, and what safety needs, is that `refs` is never short (`CountsSound`). `[]TasksTypeOK` keeps the
counts from going below zero and does not bound them from above. `FinalIsKept` allows a terminal job to
lose its slot when it is released, or in the step in which its parent ends (`ParentEnds`): at no other
time, child or not.

- `View` is the table with the id that a submission has stored its fields for but not yet its id:
  counts are raised before the id appears, so nothing about counts is true of `jobs`
  itself in between. `TreeInv` and `Exact` are about `View`.
- `TreeInv`: each id names one slot and is newer than its parent and dependencies, so following
  those ends; `children` is the number of open children and `refs` at least what needs the
  job; open jobs find their parent and what they depend on; a failure has reached the
  parent's mark or its status (`BlameSound`). Together they show that `finish`
  frees no slot anybody points at.
- `ControlInv` and `CallInv`: who is where in a call, who holds the mutex, and that what a
  suspended submission or join holds on to is still there, although `reset` does not
  take the mutex.
- `ExecInv`: `executing` is the number of workers in a body of that job.
- `QueryInv`: the handle of a query under way is not the one being published; what it read while
  the slot had the handle's id is the handle's.
- `ResetInv`: an older job is marked, or still in front of the walk, or about to be looked at again
  by its submitter. This is why `submit` reads the epoch twice.

`NoLostWakeup` rests on two more invariants. `SettledInv`: no job whose body, iterations and
children are done stays open. `finish` climbs at most as many levels as there are slots,
and each level that goes on has ended one more job (`FinishSettles`), so it never stops
below an ancestor that could end. `WakeInv`: the last worker to park has just scanned every
slot (`ScanCovers`) with nobody in a body, and what it left open waits for an open child or
dependency (`ScanSettles`); after that, only a step that signals can change this
(`Gentle`). That each open job then waits for another open one means that those left, if any,
wait in a circle. A program can build one (a body that finds a newer handle in a sealed
buffer, the hazard at `JsfxTasks.h:180`; the model's bodies may know more handles still), so
that there is none is not a theorem; on the instance of `tasks_reset`, `EveryTaskEnds`
shows that none arises.

What one level of `finish` does to a sound table is a lemma about `FinishLevel`; that `Finish`
keeps the table sound follows by induction over the levels, and likewise for the release of a
row of dependencies, one after the other. The provers cannot instantiate induction over a predicate;
`FiniteInduction` states it for sets of naturals and of subsets, where it is a fact
they can use, and shows that the recursive functions of the model exist.

### Model-checked only

- `GfxEcho`, whose property fails.
- All liveness: `CommitServed`, `PendingAdopted`, `RetiredReclaimed`, `EveryTaskEnds` and
  `ForcedIsPublished`. TLAPS does not prove liveness under fairness.

## Not modelled

Memory orders weaker than sequential consistency: the storage uses none in its protocol.
The snapshots order by acquire and release on the owner count, for which reader and
writer compete, and on `front`; the scheduler's wake generation and the write ring's
indices are each released after what they announce. The models interleave them all. Destruction of pools and
schedulers: the owner has stopped its clients. Decoding, the pool's completion
callback and its read-only queries. The 64-pin limit, beyond which a batch falls back
to a reader scope, itself a pin here. Reductions.

Arena: the preserved ranges, progress reports and argument checks; an audio block
that runs while a graphics frame adopts, which the lifecycle mutex does not exclude;
builds whose graphics thread calls without that mutex. Buffers: eight blocks of
numbers under the scheduler's mutex; their lock-free read is listed as a hazard.

Bus: enumeration of peers, payload limits, a domain that cannot be mapped, and what a
lingering registration in a domain that was left costs its senders. Messages of other
processes arrive as those of other instances do.

Graphics: merging of mouse moves, the span ring (the same indices as the scalar ring),
slider gestures, the menu bridge between the native worker and the message thread
and its possible wait for each other, the ranges of mirrored memory.

Shared memory, global memory, smart idle and the file slots: each is a component of its
own without a module yet; their hazards are listed with the lines where they bite. The
processor's glue to the host, drawing, import, MIDI translation and the compiler are
sequential code with their own tests.

## Plan

1. Done: `SamplePoolStorage` with `BankPublication` and its proofs; `SamplePool`; `JsfxTasks`.
2. Done: `MessageBus`; `GfxSnapshots`, `GfxWorker` with their proofs, `GfxEcho`; `TaskArena`.
3. Done: the proofs of `TaskArena`, `SamplePool`, `MessageBus` and `JsfxTasks`, every safety
   property of the runs that the code keeps.
4. The buffers beside the arena; `SmartIdle` with the completion callback as a second
   actor: no sleep over a pending adoption or an unfinished task.
5. `SharedSegment` and `Gmem`: initialisation race and a dying creator; page sequence
   numbers against bulk writes.
6. `MirrorRanges`: the merged ranges against their reference definition; the file slots'
   reload against a newer selection.

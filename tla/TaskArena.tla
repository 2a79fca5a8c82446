------------------------------ MODULE TaskArena ------------------------------
(***************************************************************************)
(* The private arena of src/JsfxTasks.h: one heap per instance that        *)
(* workers allocate, fill from the live heap, run a chain of writers on    *)
(* and reclaim, and that the script of a native Legacy build may adopt as  *)
(* its live heap.                                                          *)
(*                                                                         *)
(* The script's calls run under the scheduler's mutex, which they only     *)
(* try: one that loses it has no effect and no action here.  Sections of   *)
(* the workers under that mutex are one step each; what they do outside    *)
(* it, allocation, copying, running a writer and freeing, takes steps of   *)
(* its own.  The reset takes no mutex.  It excludes the script's calls:    *)
(* the host does not process while it prepares, and graphics frames hold   *)
(* the lifecycle mutex.                                                    *)
(*                                                                         *)
(* A heap is a name, without contents.  The scheduler is in JsfxTasks;     *)
(* here only arena writers are submitted.                                  *)
(***************************************************************************)
EXTENDS Integers, FiniteSets

CONSTANTS
    Workers,
    Heaps,
    Null,       \* no heap
    Polls,      \* the script waits for status 3, 4 or 5 before other calls
    MaxArenas,  \* bound on the arenas created
    MaxJobs,    \* bound on the writers submitted
    MaxResets,  \* bound on the resets
    MaxBanks    \* bound on the sample generations

ASSUME ArenaAssumption ==
    /\ Workers # {} /\ Null \notin Heaps /\ Heaps # {} /\ Polls \in BOOLEAN
    /\ MaxArenas \in Nat /\ MaxJobs \in Nat /\ MaxResets \in Nat
    /\ MaxBanks \in Nat \ {0}

Jobs == 1..MaxJobs

VARIABLES
    id,         \* arena.id, 0 for none
    stamp,      \* arena.epoch
    status,     \* arena.status
    released,   \* arena.released
    memory,     \* arena.memory
    lease,      \* arena.lease: the generation it pins, 0 when null
    generation, \* arena.generation, 0 for an arena without samples
    clone,      \* arena.clone
    input,      \* arena.input
    copied,     \* arena.copied is arena.size
    refs,       \* arena.refs
    lastWriter, \* arena.lastWriter
    arenas,     \* arenas created
    epoch,      \* epoch of the scheduler
    live,       \* mem of the script's state
    heaps,      \* heaps that are allocated
    bank,       \* the generation the pool was asked for last
    jobs,       \* the writers
    submitted,  \* how many there are
    pc,         \* where each worker is
    hand,       \* what it carries: a heap, the generation it leased, its job
    fresh,      \* workGeneration has changed since it observed it
    hpc,        \* where a reset is
    frame,      \* heap a graphics frame works on; Null outside of a frame
    taken       \* history: arenas whose results the script has taken

callVars   == << stamp, generation, clone, input, lastWriter, arenas >>
jobVars    == << jobs, submitted >>
hostVars   == << epoch, hpc, bank, frame >>
workerVars == << pc, hand >>
vars == << id, status, released, memory, lease, copied, refs, callVars, live, heaps,
           jobVars, workerVars, fresh, hostVars, taken >>

Empty  == [heap |-> Null, lease |-> 0, job |-> 0]
Absent == [status |-> "none", cancel |-> FALSE, arena |-> 0, after |-> 0, epoch |-> 0]

Init ==
    /\ id = 0 /\ stamp = 0 /\ status = "none" /\ released = FALSE
    /\ memory = Null /\ lease = 0 /\ generation = 0 /\ clone = FALSE
    /\ input = Null /\ copied = FALSE /\ refs = 0 /\ lastWriter = 0 /\ arenas = 0
    /\ epoch = 1 /\ bank = 1
    /\ live \in Heaps /\ heaps = {live}
    /\ jobs = [k \in Jobs |-> Absent] /\ submitted = 0
    /\ pc = [w \in Workers |-> "top"]
    /\ hand = [w \in Workers |-> Empty]
    /\ fresh = [w \in Workers |-> FALSE]
    /\ hpc = "idle" /\ frame = Null /\ taken = {}

signalWork == fresh' = [w \in Workers |-> TRUE]

GoTo(w, place) == pc' = [pc EXCEPT ![w] = place]

-----------------------------------------------------------------------------
(* A worker: Runtime::run.                                                 *)

Observe(w) ==
    /\ \/ pc[w] = "top"
       \/ pc[w] = "wait" /\ fresh[w]
    /\ fresh' = [fresh EXCEPT ![w] = FALSE]
    /\ GoTo(w, "look")
    /\ UNCHANGED << id, status, released, memory, lease, copied, refs, callVars, live,
                    heaps, jobVars, hand, hostVars, taken >>

\* Mutant: an arena that is being allocated is reclaimed.
ReclaimableAllocating ==
    id # 0 /\ released /\ refs = 0 /\ status # "reclaiming"

\* Mutant: an arena whose writers have not ended is reclaimed.
ReclaimableBusy ==
    id # 0 /\ released /\ status \notin {"allocating", "reclaiming"}

Reclaimable ==
    id # 0 /\ released /\ refs = 0 /\ status \notin {"allocating", "reclaiming"}

Allocatable == id # 0 /\ status = "queued"

ReclaimTake(w) ==
    /\ pc[w] = "look"
    /\ Reclaimable
    /\ hand' = [hand EXCEPT ![w].heap = memory, ![w].lease = lease]
    /\ memory' = Null /\ lease' = 0
    /\ status' = "reclaiming"
    /\ GoTo(w, "free")
    /\ UNCHANGED << id, released, copied, refs, callVars, live, heaps, jobVars, fresh,
                    hostVars, taken >>

\* The heap is freed outside the mutex, and only then is the arena given up under it;
\* between the two the arena is "reclaiming", which every call refuses.
ReclaimEnd(w) ==
    /\ pc[w] = "free"
    /\ heaps' = heaps \ {hand[w].heap}
    /\ hand' = [hand EXCEPT ![w] = Empty]
    /\ id' = 0 /\ status' = "none"
    /\ GoTo(w, "scan")
    /\ UNCHANGED << released, memory, lease, copied, refs, callVars, live, jobVars, fresh,
                    hostVars, taken >>

AllocTake(w) ==
    /\ pc[w] = "look"
    /\ ~Reclaimable /\ Allocatable
    /\ status' = "allocating"
    /\ GoTo(w, "calloc")
    /\ UNCHANGED << id, released, memory, lease, copied, refs, callVars, live, heaps,
                    jobVars, hand, fresh, hostVars, taken >>

\* acquireLease pins the pool's generation if it is the one asked for and there is no
\* newer request; calloc may find no memory.
AllocHeap(w) ==
    /\ pc[w] = "calloc"
    /\ \/ \E h \in Heaps \ heaps :
            /\ generation \in {0, bank}
            /\ heaps' = heaps \cup {h}
            /\ hand' = [hand EXCEPT ![w].heap = h, ![w].lease = generation]
            /\ GoTo(w, "copy")
       \/ /\ \E l \in {0} \cup ({generation} \cap {bank}) :
               hand' = [hand EXCEPT ![w].lease = l]
          /\ GoTo(w, "failed")
          /\ UNCHANGED heaps
    /\ UNCHANGED << id, status, released, memory, lease, copied, refs, callVars, live,
                    jobVars, fresh, hostVars, taken >>

\* The copy looks at released now and then.
AllocCopy(w) ==
    /\ pc[w] = "copy"
    /\ \/ GoTo(w, "copied")
       \/ released /\ GoTo(w, "failed")
    /\ UNCHANGED << id, status, released, memory, lease, copied, refs, callVars, live,
                    heaps, jobVars, hand, fresh, hostVars, taken >>

\* Moving into arena.memory frees what it held.
AllocStore(w) ==
    /\ pc[w] \in {"copied", "failed"}
    /\ heaps' = heaps \ {memory}
    /\ memory' = hand[w].heap
    /\ lease' = hand[w].lease
    /\ hand' = [hand EXCEPT ![w] = Empty]
    /\ copied' = (pc[w] = "copied" /\ clone)
    /\ status' = IF pc[w] = "copied" /\ ~released
                 THEN IF clone THEN "sealed" ELSE "input"
                 ELSE "failed"
    /\ signalWork
    /\ GoTo(w, "top")
    /\ UNCHANGED << id, released, refs, callVars, live, jobVars, hostVars, taken >>

LookOn(w) ==
    /\ pc[w] = "look"
    /\ ~Reclaimable /\ ~Allocatable
    /\ GoTo(w, "scan")
    /\ UNCHANGED << id, status, released, memory, lease, copied, refs, callVars, live,
                    heaps, jobVars, hand, fresh, hostVars, taken >>

-----------------------------------------------------------------------------
(* Writers.                                                                *)

Pending(k) == jobs[k].status = "pending"

\* Mutant: a writer that fails leaves the arena sealed.
FinishQuietly(k, final) ==
    /\ jobs' = [jobs EXCEPT ![k].status = final]
    /\ refs' = refs - 1
    /\ UNCHANGED status
    /\ signalWork

\* finish, for a writer.
Finish(k, final) ==
    /\ jobs' = [jobs EXCEPT ![k].status = final]
    /\ refs' = refs - 1
    /\ status' = IF final = "succeeded" THEN status ELSE "failed"
    /\ signalWork

\* ready: the writer before it has succeeded.
Met(k) == jobs[k].after # 0 => jobs[jobs[k].after].status = "succeeded"

\* ready cancels a job whose dependency did not succeed.
Doomed(k) ==
    \/ jobs[k].cancel
    \/ \E d \in Jobs : d = jobs[k].after /\ jobs[d].status \in {"failed", "cancelled"}

ScanDoomed(w, k) ==
    /\ pc[w] = "scan"
    /\ Pending(k) /\ Doomed(k)
    /\ Finish(k, "cancelled")
    /\ UNCHANGED << id, released, memory, lease, copied, callVars, live, heaps, submitted,
                    workerVars, hostVars, taken >>

ScanPick(w, k) ==
    /\ pc[w] = "scan"
    /\ Pending(k) /\ ~Doomed(k) /\ Met(k)
    /\ jobs' = [jobs EXCEPT ![k].status = "running"]
    /\ hand' = [hand EXCEPT ![w] = [heap |-> memory, lease |-> lease, job |-> k]]
    /\ GoTo(w, "run")
    /\ UNCHANGED << id, status, released, memory, lease, copied, refs, callVars, live,
                    heaps, submitted, fresh, hostVars, taken >>

ScanNothing(w) ==
    /\ pc[w] = "scan"
    /\ \A k \in Jobs : Pending(k) => ~Doomed(k) /\ ~Met(k)
    /\ GoTo(w, "wait")
    /\ UNCHANGED << id, status, released, memory, lease, copied, refs, callVars, live,
                    heaps, jobVars, hand, fresh, hostVars, taken >>

\* The writer returns, throws or faults; a cancelled one is cancelled at the latest
\* when it returns.
RunEnd(w) ==
    /\ pc[w] = "run"
    /\ LET k == hand[w].job
       IN \/ Finish(k, "failed")
          \/ Finish(k, IF jobs[k].cancel THEN "cancelled" ELSE "succeeded")
    /\ hand' = [hand EXCEPT ![w] = Empty]
    /\ GoTo(w, "top")
    /\ UNCHANGED << id, released, memory, lease, copied, callVars, live, heaps, submitted,
                    hostVars, taken >>

Worker(w) ==
    \/ Observe(w) \/ ReclaimTake(w) \/ ReclaimEnd(w)
    \/ AllocTake(w) \/ AllocHeap(w) \/ AllocCopy(w) \/ AllocStore(w)
    \/ LookOn(w) \/ ScanNothing(w) \/ RunEnd(w)
    \/ \E k \in Jobs : ScanDoomed(w, k) \/ ScanPick(w, k)

-----------------------------------------------------------------------------
(* The script's calls.                                                     *)

\* task_arena_create (in FALSE) and task_arena_clone (in TRUE).  A clone called during
\* a graphics frame is the frame's own.
Create(g, cloned) ==
    /\ hpc = "idle" /\ arenas < MaxArenas
    /\ id = 0
    /\ arenas' = arenas + 1
    /\ id' = arenas + 1
    /\ stamp' = epoch
    /\ status' = "queued"
    /\ released' = FALSE
    /\ generation' = g /\ clone' = cloned /\ input' = live
    /\ copied' = FALSE /\ refs' = 0 /\ lastWriter' = 0
    /\ signalWork
    /\ UNCHANGED << memory, lease, live, heaps, jobVars, workerVars, hostVars, taken >>

\* The handle is of the arena, which is of this epoch and not released.
Addressed == hpc = "idle" /\ id # 0 /\ ~released /\ stamp = epoch

Waited == Polls => status \notin {"queued", "allocating"}

\* Mutant: no worker is told.
ReleaseSilently ==
    /\ Addressed
    /\ released' = TRUE
    /\ jobs' = [k \in Jobs |-> IF jobs[k].status \in {"pending", "running"}
                               THEN [jobs[k] EXCEPT !.cancel = TRUE] ELSE jobs[k]]
    /\ UNCHANGED << id, status, memory, lease, copied, refs, callVars, live, heaps,
                    submitted, workerVars, fresh, hostVars, taken >>

Release ==
    /\ Addressed
    /\ released' = TRUE
    /\ jobs' = [k \in Jobs |-> IF jobs[k].status \in {"pending", "running"}
                               THEN [jobs[k] EXCEPT !.cancel = TRUE] ELSE jobs[k]]
    /\ signalWork
    /\ UNCHANGED << id, status, memory, lease, copied, refs, callVars, live, heaps,
                    submitted, workerVars, hostVars, taken >>

\* task_arena_copy_in, of the whole heap at once.
CopyIn ==
    /\ Addressed /\ status = "input" /\ ~copied
    /\ copied' = TRUE
    /\ UNCHANGED << id, status, released, memory, lease, refs, callVars, live, heaps,
                    jobVars, workerVars, fresh, hostVars, taken >>

Seal ==
    /\ Addressed /\ status = "input" /\ copied
    /\ status' = "sealed"
    /\ UNCHANGED << id, released, memory, lease, copied, refs, callVars, live, heaps,
                    jobVars, workerVars, fresh, hostVars, taken >>

\* Mutant: a writer need not name the writer before it.
ChainedAnyway(dependency) == dependency \in {0, lastWriter}

Chained(dependency) == dependency = lastWriter

\* Mutant: the arena does not know of the writer.
SubmitUncounted(dependency) ==
    /\ Addressed /\ submitted < MaxJobs
    /\ status = "sealed" /\ Chained(dependency)
    /\ dependency # 0 => jobs[dependency].status \notin {"failed", "cancelled"}
    /\ submitted' = submitted + 1
    /\ jobs' = [jobs EXCEPT ![submitted + 1] =
                  [status |-> "pending", cancel |-> FALSE, arena |-> id,
                   after |-> dependency, epoch |-> epoch]]
    /\ lastWriter' = submitted + 1
    /\ signalWork
    /\ UNCHANGED << id, status, released, memory, lease, copied, refs, stamp, generation, clone,
                    input, arenas, live, heaps, workerVars, hostVars, taken >>

\* defer_arena: submit's part for a writer.  A dependency that was released is not told
\* apart from one that was not: the code refuses it, the model allows more.
Submit(dependency) ==
    /\ Addressed /\ submitted < MaxJobs
    /\ status = "sealed" /\ Chained(dependency)
    /\ dependency # 0 => jobs[dependency].status \notin {"failed", "cancelled"}
    /\ submitted' = submitted + 1
    /\ jobs' = [jobs EXCEPT ![submitted + 1] =
                  [status |-> "pending", cancel |-> FALSE, arena |-> id,
                   after |-> dependency, epoch |-> epoch]]
    /\ refs' = refs + 1
    /\ lastWriter' = submitted + 1
    /\ signalWork
    /\ UNCHANGED << id, status, released, memory, lease, copied, stamp, generation, clone,
                    input, arenas, live, heaps, workerVars, hostVars, taken >>

\* task_cancel of a writer.
Cancel(k) ==
    /\ hpc = "idle"
    /\ jobs[k].status \in {"pending", "running"} /\ jobs[k].epoch = epoch
    /\ ~jobs[k].cancel
    /\ jobs' = [jobs EXCEPT ![k].cancel = TRUE]
    /\ signalWork
    /\ UNCHANGED << id, status, released, memory, lease, copied, refs, callVars, live,
                    heaps, submitted, workerVars, hostVars, taken >>

\* validateLease: the pinned generation still is the pool's current one.
LeaseValid == generation = 0 \/ lease = bank

\* A result call whose generation is gone, whatever the arena is doing.
Invalidate ==
    /\ Addressed /\ Waited
    /\ ~LeaseValid
    /\ status' = "failed"
    /\ UNCHANGED << id, released, memory, lease, copied, refs, callVars, live, heaps,
                    jobVars, workerVars, fresh, hostVars, taken >>

\* task_arena_copy_out, task_arena_read and task_arena_commit.
Commit ==
    /\ Addressed /\ Waited
    /\ LeaseValid
    /\ status = "sealed" /\ refs = 0
    /\ taken' = taken \cup {id}
    /\ UNCHANGED << id, status, released, memory, lease, copied, refs, callVars, live,
                    heaps, jobVars, workerVars, fresh, hostVars >>

\* Only the frame itself replaces the heap it works on.
HeapBoundary(fromGraphics) == fromGraphics <=> frame # Null

\* task_arena_adopt: the live heap becomes the arena's and is reclaimed with it; a
\* frame is bound to the new one.
Adopt(fromGraphics) ==
    /\ Addressed /\ Waited
    /\ HeapBoundary(fromGraphics)
    /\ LeaseValid
    /\ status = "sealed" /\ refs = 0 /\ clone /\ live = input
    /\ live' = memory
    /\ memory' = live
    /\ frame' = IF fromGraphics THEN memory ELSE frame
    /\ released' = TRUE
    /\ taken' = taken \cup {id}
    /\ signalWork
    /\ UNCHANGED << id, status, lease, copied, refs, callVars, heaps, jobVars, workerVars,
                    epoch, hpc, bank >>

Call ==
    \/ \E g \in 0..bank, cloned \in BOOLEAN : Create(g, cloned)
    \/ Release \/ CopyIn \/ Seal \/ Invalidate \/ Commit
    \/ \E fromGraphics \in BOOLEAN : Adopt(fromGraphics)
    \/ \E k \in Jobs : Cancel(k)
    \/ \E k \in Jobs \cup {0} : Submit(k)

-----------------------------------------------------------------------------
(* The host, the sample pool and the graphics thread.                      *)

\* reset, step by step: the epoch, the arena, the jobs.
ResetEpoch ==
    /\ hpc = "idle" /\ frame = Null /\ epoch <= MaxResets
    /\ epoch' = epoch + 1
    /\ hpc' = "arena"
    /\ UNCHANGED << id, status, released, memory, lease, copied, refs, callVars, live,
                    heaps, jobVars, workerVars, fresh, bank, frame, taken >>

ResetArena ==
    /\ hpc = "arena"
    /\ released' = (released \/ (id # 0 /\ stamp < epoch))
    /\ hpc' = "jobs"
    /\ UNCHANGED << id, status, memory, lease, copied, refs, callVars, live, heaps,
                    jobVars, workerVars, fresh, epoch, bank, frame, taken >>

ResetJobs ==
    /\ hpc = "jobs"
    /\ jobs' = [k \in Jobs |-> IF jobs[k].status \in {"pending", "running"}
                               THEN [jobs[k] EXCEPT !.cancel = TRUE] ELSE jobs[k]]
    /\ signalWork
    /\ hpc' = "idle"
    /\ UNCHANGED << id, status, released, memory, lease, copied, refs, callVars, live,
                    heaps, submitted, workerVars, epoch, bank, frame, taken >>

Reset == ResetEpoch \/ ResetArena \/ ResetJobs

\* The pool is asked for another generation, which replaces the one before.
Request ==
    /\ bank < MaxBanks
    /\ bank' = bank + 1
    /\ UNCHANGED << id, status, released, memory, lease, copied, refs, callVars, live,
                    heaps, jobVars, workerVars, fresh, epoch, hpc, frame, taken >>

\* A frame of the native Legacy build is bound to the live heap (bindLegacy) and
\* holds the lifecycle mutex until it ends.
FrameBegin ==
    /\ frame = Null /\ hpc = "idle"
    /\ frame' = live
    /\ UNCHANGED << id, status, released, memory, lease, copied, refs, callVars, live,
                    heaps, jobVars, workerVars, fresh, epoch, hpc, bank, taken >>

FrameEnd ==
    /\ frame # Null
    /\ frame' = Null
    /\ UNCHANGED << id, status, released, memory, lease, copied, refs, callVars, live,
                    heaps, jobVars, workerVars, fresh, epoch, hpc, bank, taken >>

Next == \/ \E w \in Workers : Worker(w)
        \/ Call \/ Reset \/ Request \/ FrameBegin \/ FrameEnd

Spec == Init /\ [][Next]_vars

-----------------------------------------------------------------------------
(* Properties.                                                             *)

Statuses   == {"none", "queued", "allocating", "input", "sealed", "failed", "reclaiming"}
PcPlaces   == {"top", "look", "scan", "wait", "free", "calloc", "copy", "copied", "failed", "run"}
JobRecord  == [status : {"none", "pending", "running", "succeeded", "failed", "cancelled"},
               cancel : BOOLEAN, arena : 0..MaxArenas, after : 0..MaxJobs,
               epoch : 0..(MaxResets + 1)]
HandRecord == [heap : Heaps \cup {Null}, lease : 0..MaxBanks, job : 0..MaxJobs]

\* Every variable keeps its type: the arena never has fewer than no writers.
ArenaTypeOK ==
    /\ id \in 0..MaxArenas /\ arenas \in 0..MaxArenas
    /\ stamp \in 0..(MaxResets + 1) /\ epoch \in 1..(MaxResets + 1)
    /\ status \in Statuses
    /\ released \in BOOLEAN /\ clone \in BOOLEAN /\ copied \in BOOLEAN
    /\ memory \in Heaps \cup {Null} /\ input \in Heaps \cup {Null} /\ live \in Heaps
    /\ heaps \subseteq Heaps /\ frame \in Heaps \cup {Null}
    /\ lease \in 0..MaxBanks /\ generation \in 0..MaxBanks /\ bank \in 1..MaxBanks
    /\ refs \in Nat
    /\ lastWriter \in 0..MaxJobs /\ submitted \in 0..MaxJobs
    /\ jobs \in [Jobs -> JobRecord]
    /\ pc \in [Workers -> PcPlaces]
    /\ hand \in [Workers -> HandRecord]
    /\ fresh \in [Workers -> BOOLEAN]
    /\ hpc \in {"idle", "arena", "jobs"}
    /\ taken \subseteq 1..MaxArenas

\* No heap is freed or handed on while somebody works on it: the script, a graphics
\* frame, a writer, or a worker that copies from it (JsfxTasks.h:587-589: "retry the
\* publication instead of freeing a heap that graphics still references").
HeapInUseIsKept ==
    /\ live \in heaps /\ live # memory
    /\ frame # Null => frame = live
    /\ \A w \in Workers :
         /\ pc[w] = "run" => /\ hand[w].heap = memory /\ memory \in heaps
                             /\ hand[w].lease = lease
         /\ pc[w] = "copy" /\ clone => input \in heaps
         /\ pc[w] = "free" /\ hand[w].heap # Null => hand[w].heap \notin {live, memory}

\* One writer at a time works on the arena, and none while it is being allocated or
\* taken apart (docs/Structured-Tasks.md: "executes a single writer in an explicit,
\* private heap").
SingleWriter ==
    \A w \in Workers : pc[w] = "run" =>
      \A v \in Workers \ {w} : pc[v] \notin {"run", "free", "calloc", "copy", "copied",
                                             "failed"}

\* What the script takes out of an arena, by copies or as its live heap, is the work
\* of all the writers it submitted there: one that failed, was cancelled or has not
\* ended keeps the results from being taken.
ResultsAreComplete ==
    [][ \A a \in taken' \ taken : \A k \in Jobs :
          jobs[k].arena = a => jobs[k].status = "succeeded" ]_vars

\* An instance without an arena has no heap but the live one: allocation, adoption and
\* reclamation lose none.
NoHeapLost == id = 0 => memory = Null /\ heaps = {live}

\* "One arena per instance is bounded to 25,165,824 doubles (192 MiB), in addition to
\* the existing live heap" (docs/Structured-Tasks.md).
OneArenaHeap == Cardinality(heaps \ {live}) <= 1

\* The workers never all sleep, with nobody about to wake them, over an arena that
\* waits to be allocated, a released one, or a writer that can be run or cancelled.
NothingForgotten ==
    (\A w \in Workers : pc[w] = "wait" /\ ~fresh[w]) /\ hpc = "idle" =>
      /\ ~Allocatable
      /\ ~(id # 0 /\ released)
      /\ \A k \in Jobs : Pending(k) => ~Doomed(k) /\ ~Met(k)

=============================================================================

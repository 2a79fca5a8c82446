--------------------------- MODULE TaskArena_proofs ---------------------------
(***************************************************************************)
(* Proofs about TaskArena for any number of workers, heaps, arenas,        *)
(* writers, resets and generations, for a script that polls.               *)
(***************************************************************************)
EXTENDS TaskArena, FiniteSetTheorems, TLAPS

(***************************************************************************)
(* The inductive invariant.                                                *)
(***************************************************************************)

\* A worker that allocates, and one that allocates or frees: outside the mutex, with
\* the arena to itself.
Allocating(w) == pc[w] \in {"calloc", "copy", "copied", "failed"}
Outside(w)    == Allocating(w) \/ pc[w] = "free"

\* The status says whether such a worker exists, and there is one at most.
StatusInv ==
    /\ id \in {0, arenas}
    /\ id = 0 <=> status = "none"
    /\ status = "reclaiming" => released
    /\ \A w \in Workers : /\ Allocating(w) => status = "allocating"
                          /\ pc[w] = "free" => status = "reclaiming"
    /\ \A v, w \in Workers : Outside(v) /\ Outside(w) => v = w

Open(k)  == jobs[k].status \in {"pending", "running"}
OpenJobs == {k \in Jobs : Open(k)}

\* refs counts the writers that have not ended, and those are the arena's.
JobInv ==
    /\ \A k \in Jobs : /\ k > submitted <=> jobs[k].status = "none"
                       /\ jobs[k].status = "none" => jobs[k].arena = 0
                       /\ jobs[k].status # "none" => jobs[k].arena \in 1..arenas
                       /\ Open(k) => jobs[k].arena = id /\ status \in {"sealed", "failed"}
    /\ refs = Cardinality(OpenJobs)

\* The writers of an arena are a chain that ends in lastWriter.
ChainInv ==
    /\ lastWriter <= submitted
    /\ status \in {"queued", "allocating", "input"} => lastWriter = 0
    /\ id # 0 /\ lastWriter # 0 => jobs[lastWriter].arena = id
    /\ \A k \in Jobs : id # 0 /\ jobs[k].arena = id => k <= lastWriter
    /\ \A k, l \in Jobs : jobs[k].arena = jobs[l].arena /\ jobs[k].arena # 0 /\ k < l =>
         /\ jobs[l].after \in k..(l - 1)
         /\ jobs[jobs[l].after].arena = jobs[l].arena

\* A writer that has begun finds the ones before it done.
OrderInv ==
    \A k, l \in Jobs :
      /\ jobs[k].arena = jobs[l].arena /\ jobs[k].arena # 0 /\ k < l
      /\ jobs[l].status \in {"running", "succeeded"}
      => jobs[k].status = "succeeded"

\* A writer that did not succeed leaves no sealed arena.
SealedInv ==
    \A k \in Jobs : id # 0 /\ jobs[k].arena = id /\ status = "sealed" =>
                    jobs[k].status \notin {"failed", "cancelled"}

\* A worker runs a writer that is running, and nobody else does.
RunInv ==
    /\ \A w \in Workers : pc[w] = "run" =>
         hand[w].job \in Jobs /\ jobs[hand[w].job].status = "running"
    /\ \A v, w \in Workers :
         pc[v] = "run" /\ pc[w] = "run" /\ hand[v].job = hand[w].job => v = w

\* Whose each heap is.
HeapInv ==
    /\ live \in heaps /\ memory # live
    /\ memory # Null => memory \in heaps
    /\ status \in {"none", "queued", "allocating", "reclaiming"} => memory = Null
    /\ status \in {"input", "sealed"} => memory # Null
    /\ OpenJobs # {} => memory # Null
    /\ status \in {"queued", "allocating"} => input = live
    /\ frame # Null => frame = live
    /\ \A w \in Workers :
         /\ Outside(w) /\ hand[w].heap # Null => hand[w].heap \in heaps \ {live}
         /\ pc[w] \in {"copy", "copied"} => hand[w].heap # Null
         /\ pc[w] \in {"top", "look", "scan", "wait", "calloc"} => hand[w].heap = Null
         /\ pc[w] = "run" => hand[w].heap = memory /\ hand[w].lease = lease
    /\ \A h \in heaps :
         h \in {live, memory} \/ \E w \in Workers : Outside(w) /\ hand[w].heap = h

ArenaInv == /\ ArenaTypeOK /\ StatusInv /\ JobInv /\ ChainInv /\ OrderInv /\ SealedInv
            /\ RunInv /\ HeapInv

(***************************************************************************)
(* The writers that are open.                                              *)
(***************************************************************************)

\* They are finitely many, and none is open when they count zero.
LEMMA OpenFinite ==
    /\ IsFiniteSet(OpenJobs)
    /\ Cardinality(OpenJobs) \in Nat
    /\ Cardinality(OpenJobs) = 0 <=> OpenJobs = {}
<1>1. IsFiniteSet(Jobs)
  BY ArenaAssumption, FS_Interval DEF ArenaAssumption, Jobs
<1>2. IsFiniteSet(OpenJobs)
  BY <1>1, FS_Subset DEF OpenJobs
<1> QED BY <1>2, FS_CardinalityType, FS_EmptySet

\* One ends.
LEMMA OneLess ==
    ASSUME ArenaTypeOK, JobInv, NEW k \in Jobs, Open(k),
           NEW final \in {"succeeded", "failed", "cancelled"},
           jobs' = [jobs EXCEPT ![k].status = final]
    PROVE  /\ OpenJobs' = OpenJobs \ {k}
           /\ refs - 1 \in Nat
           /\ refs - 1 = Cardinality(OpenJobs')
<1>1. OpenJobs' = OpenJobs \ {k}
  BY DEF OpenJobs, Open, ArenaTypeOK, JobRecord
<1>2. k \in OpenJobs
  BY DEF OpenJobs
<1>3. Cardinality(OpenJobs \ {k}) = Cardinality(OpenJobs) - 1
  BY <1>2, OpenFinite, FS_RemoveElement
<1>4. Cardinality(OpenJobs \ {k}) \in Nat
  BY OpenFinite, FS_RemoveElement, FS_CardinalityType
<1> QED BY <1>1, <1>3, <1>4 DEF JobInv

\* One is submitted.
LEMMA OneMore ==
    ASSUME ArenaTypeOK, JobInv, submitted < MaxJobs, NEW j, j.status = "pending",
           jobs' = [jobs EXCEPT ![submitted + 1] = j]
    PROVE  /\ submitted + 1 \in Jobs
           /\ OpenJobs' = OpenJobs \cup {submitted + 1}
           /\ refs + 1 = Cardinality(OpenJobs')
<1>1. submitted + 1 \in Jobs
  BY ArenaAssumption DEF ArenaAssumption, ArenaTypeOK, Jobs
<1>2. submitted + 1 \notin OpenJobs
  BY <1>1 DEF OpenJobs, Open, JobInv, ArenaTypeOK
<1>3. OpenJobs' = OpenJobs \cup {submitted + 1}
  BY <1>1 DEF OpenJobs, Open, ArenaTypeOK, JobRecord
<1>4. Cardinality(OpenJobs \cup {submitted + 1}) = Cardinality(OpenJobs) + 1
  BY <1>2, OpenFinite, FS_AddElement
<1> QED BY <1>1, <1>3, <1>4 DEF JobInv

(***************************************************************************)
(* What each kind of step leaves alone.                                    *)
(***************************************************************************)

\* The steps that move no worker and touch neither the arena nor a writer.
Aside == \/ Request \/ FrameBegin \/ FrameEnd \/ ResetEpoch \/ UNCHANGED vars

\* The calls that touch the arena, but no worker and no writer.
OnArena == \/ \E g \in 0..bank, cloned \in BOOLEAN : Create(g, cloned)
           \/ CopyIn \/ Seal \/ Invalidate \/ Commit \/ ResetArena
           \/ \E fromGraphics \in BOOLEAN : Adopt(fromGraphics)

\* The steps that cancel writers, which only marks them.
Cancels == Release \/ ResetJobs \/ \E k \in Jobs : Cancel(k)

Submits == \E k \in Jobs \cup {0} : Submit(k)

\* A step is of one of these kinds, or of a worker.
LEMMA Steps ==
    [Next]_vars => \/ Aside \/ OnArena \/ Cancels \/ Submits
                   \/ \E w \in Workers : Worker(w)
BY DEF Next, Call, Reset, Aside, OnArena, Cancels, Submits

\* A cancelled writer keeps all but its mark.
LEMMA CancelMarks ==
    ASSUME ArenaTypeOK, Cancels
    PROVE  /\ \A k \in Jobs : /\ jobs'[k].status = jobs[k].status
                              /\ jobs'[k].arena = jobs[k].arena
                              /\ jobs'[k].after = jobs[k].after
           /\ OpenJobs' = OpenJobs
           /\ UNCHANGED << id, status, memory, lease, refs, callVars, live, heaps, submitted,
                           workerVars, frame, taken >>
BY DEF ArenaTypeOK, JobRecord, Cancels, Release, ResetJobs, Cancel, OpenJobs, Open, hostVars

(***************************************************************************)
(* Types.                                                                  *)
(***************************************************************************)

\* A step keeps the types.
LEMMA TypeStep == ASSUME Polls, ArenaInv, [Next]_vars PROVE ArenaTypeOK'
<1> USE DEF ArenaTypeOK, callVars, jobVars, hostVars, workerVars, signalWork, GoTo
<1> ArenaTypeOK /\ ArenaAssumption
  BY ArenaAssumption DEF ArenaInv
<1>1. CASE Aside
  <2>1. CASE Request
    BY <2>1 DEF Request, ArenaAssumption
  <2>2. CASE FrameBegin \/ FrameEnd
    BY <2>2 DEF FrameBegin, FrameEnd
  <2>3. CASE ResetEpoch
    BY <2>3 DEF ResetEpoch, ArenaAssumption
  <2>4. CASE UNCHANGED vars
    BY <2>4 DEF vars
  <2> QED BY <1>1, <2>1, <2>2, <2>3, <2>4 DEF Aside
<1>2. CASE OnArena
  <2>1. ASSUME NEW g \in 0..bank, NEW cloned \in BOOLEAN, Create(g, cloned) PROVE ArenaTypeOK'
    <3>1. arenas + 1 \in 0..MaxArenas /\ g \in 0..MaxBanks
      BY <2>1 DEF Create, ArenaAssumption
    <3>2. /\ stamp' \in 0..(MaxResets + 1) /\ refs' \in Nat /\ lastWriter' \in 0..MaxJobs
          /\ status' \in Statuses /\ input' \in Heaps \cup {Null}
      BY <2>1 DEF Create, Statuses, ArenaAssumption
    <3> QED BY <2>1, <3>1, <3>2 DEF Create
  <2>2. ASSUME NEW fromGraphics \in BOOLEAN, Adopt(fromGraphics) PROVE ArenaTypeOK'
    <3>1. memory \in Heaps /\ id \in 1..MaxArenas
      BY <2>2 DEF Adopt, Addressed, ArenaInv, HeapInv, ArenaAssumption
    <3> QED BY <2>2, <3>1 DEF Adopt
  <2>3. CASE CopyIn
    BY <2>3 DEF CopyIn
  <2>4. CASE Seal
    BY <2>4 DEF Seal, Statuses
  <2>5. CASE Invalidate
    BY <2>5 DEF Invalidate, Statuses
  <2>6. CASE Commit
    BY <2>6 DEF Commit, Addressed
  <2>7. CASE ResetArena
    BY <2>7 DEF ResetArena
  <2> QED BY <1>2, <2>1, <2>2, <2>3, <2>4, <2>5, <2>6, <2>7 DEF OnArena
<1>3. CASE Cancels
  <2>a. \A j \in JobRecord : [j EXCEPT !.cancel = TRUE] \in JobRecord
    BY DEF JobRecord
  <2>1. jobs' \in [Jobs -> JobRecord]
    BY <1>3, <2>a DEF Cancels, Release, ResetJobs, Cancel
  <2>2. CASE Release
    BY <2>1, <2>2 DEF Release
  <2>3. CASE ResetJobs
    BY <2>1, <2>3 DEF ResetJobs
  <2>4. CASE \E k \in Jobs : Cancel(k)
    BY <2>1, <2>4 DEF Cancel
  <2> QED BY <1>3, <2>2, <2>3, <2>4 DEF Cancels
<1>4. CASE Submits
  <2> PICK k \in Jobs \cup {0} : Submit(k)
    BY <1>4 DEF Submits
  <2>1. k \in 0..MaxJobs
    BY DEF Jobs, ArenaAssumption
  <2>2. jobs' \in [Jobs -> JobRecord]
    <3>1. [status |-> "pending", cancel |-> FALSE, arena |-> id, after |-> k,
           epoch |-> epoch] \in JobRecord
      BY <2>1 DEF JobRecord, ArenaAssumption
    <3> QED BY <3>1 DEF Submit
  <2>3. submitted + 1 \in 0..MaxJobs /\ refs + 1 \in Nat
    BY DEF Submit, ArenaAssumption
  <2> QED BY <2>2, <2>3 DEF Submit
<1>5. ASSUME NEW w \in Workers, Worker(w) PROVE ArenaTypeOK'
  <2> Empty \in HandRecord
    BY DEF Empty, HandRecord, ArenaAssumption
  <2>1. CASE Observe(w)
    BY <2>1 DEF Observe, PcPlaces
  <2>2. CASE ReclaimTake(w)
    <3>1. hand' \in [Workers -> HandRecord]
      BY <2>2 DEF ReclaimTake, HandRecord
    <3> QED BY <2>2, <3>1 DEF ReclaimTake, PcPlaces, Statuses, ArenaAssumption
  <2>3. CASE ReclaimEnd(w)
    BY <2>3 DEF ReclaimEnd, PcPlaces, Statuses, ArenaAssumption
  <2>4. CASE AllocTake(w) \/ AllocCopy(w) \/ LookOn(w) \/ ScanNothing(w)
    <3>1. pc' \in [Workers -> PcPlaces]
      BY <2>4 DEF AllocTake, AllocCopy, LookOn, ScanNothing, PcPlaces
    <3>2. status' \in Statuses
      BY <2>4 DEF AllocTake, AllocCopy, LookOn, ScanNothing, Statuses
    <3> QED BY <2>4, <3>1, <3>2 DEF AllocTake, AllocCopy, LookOn, ScanNothing
  <2>5. CASE AllocHeap(w)
    <3>1. heaps' \subseteq Heaps
      BY <2>5 DEF AllocHeap
    <3>2. hand' \in [Workers -> HandRecord]
      <4>2. \A l \in 0..MaxBanks : [hand EXCEPT ![w].lease = l] \in [Workers -> HandRecord]
        BY DEF HandRecord
      <4>3. generation \in 0..MaxBanks /\ 0 \in 0..MaxBanks
        BY DEF ArenaAssumption
      <4>4. \/ \E h \in Heaps \ heaps : hand' = [hand EXCEPT ![w].heap = h, ![w].lease = generation]
            \/ \E l \in 0..MaxBanks : hand' = [hand EXCEPT ![w].lease = l]
        BY <2>5, <4>3 DEF AllocHeap
      <4>5. CASE \E h \in Heaps \ heaps : hand' = [hand EXCEPT ![w].heap = h, ![w].lease = generation]
        <5> PICK h \in Heaps \ heaps : hand' = [hand EXCEPT ![w].heap = h, ![w].lease = generation]
          BY <4>5
        <5>1. [hand EXCEPT ![w].heap = h, ![w].lease = generation] \in [Workers -> HandRecord]
          BY <4>3 DEF HandRecord
        <5> HIDE DEF ArenaTypeOK
        <5> QED BY <5>1
      <4>6. CASE \E l \in 0..MaxBanks : hand' = [hand EXCEPT ![w].lease = l]
        BY <4>2, <4>6
      <4> QED BY <4>4, <4>5, <4>6
    <3>3. pc' \in [Workers -> PcPlaces]
      BY <2>5 DEF AllocHeap, PcPlaces
    <3> QED BY <2>5, <3>1, <3>2, <3>3 DEF AllocHeap
  <2>6. CASE AllocStore(w)
    <3>1. hand[w].heap \in Heaps \cup {Null} /\ hand[w].lease \in 0..MaxBanks
      BY DEF HandRecord
    <3>2. pc' \in [Workers -> PcPlaces] /\ hand' \in [Workers -> HandRecord]
      BY <2>6 DEF AllocStore, PcPlaces
    <3> QED BY <2>6, <3>1, <3>2 DEF AllocStore, Statuses
  <2>7. CASE RunEnd(w)
    <3>1. PICK final \in {"succeeded", "failed", "cancelled"} : Finish(hand[w].job, final)
      BY <2>7 DEF RunEnd
    <3>2. hand[w].job \in Jobs /\ Open(hand[w].job)
      BY <2>7 DEF RunEnd, ArenaInv, RunInv, Open
    <3>3. refs' \in Nat
      BY <3>1, <3>2, OneLess DEF Finish, ArenaInv
    <3>4. jobs' \in [Jobs -> JobRecord] /\ status' \in Statuses
      BY <3>1, <3>2 DEF Finish, JobRecord, Statuses
    <3>5. pc' \in [Workers -> PcPlaces] /\ hand' \in [Workers -> HandRecord]
      BY <2>7 DEF RunEnd, PcPlaces
    <3> QED BY <2>7, <3>1, <3>3, <3>4, <3>5 DEF RunEnd, Finish
  <2>8. ASSUME NEW k \in Jobs, ScanDoomed(w, k) PROVE ArenaTypeOK'
    <3>1. refs' \in Nat
      BY <2>8, OneLess DEF ScanDoomed, Pending, Finish, ArenaInv, Open
    <3>2. jobs' \in [Jobs -> JobRecord] /\ status' \in Statuses
      BY <2>8 DEF ScanDoomed, Finish, JobRecord, Statuses
    <3> QED BY <2>8, <3>1, <3>2 DEF ScanDoomed, Finish
  <2>9. ASSUME NEW k \in Jobs, ScanPick(w, k) PROVE ArenaTypeOK'
    <3>1. jobs' \in [Jobs -> JobRecord]
      BY <2>9 DEF ScanPick, JobRecord
    <3>2. hand' \in [Workers -> HandRecord]
      <4>1. k \in 0..MaxJobs
        BY DEF Jobs, ArenaAssumption
      <4>2. [heap |-> memory, lease |-> lease, job |-> k] \in HandRecord
        BY <4>1 DEF HandRecord
      <4> QED BY <2>9, <4>2 DEF ScanPick
    <3> QED BY <2>9, <3>1, <3>2 DEF ScanPick, PcPlaces
  <2> QED BY <1>5, <2>1, <2>2, <2>3, <2>4, <2>5, <2>6, <2>7, <2>8, <2>9 DEF Worker
<1> QED BY <1>1, <1>2, <1>3, <1>4, <1>5, Steps

(***************************************************************************)
(* The status and the worker that has the arena to itself.                 *)
(***************************************************************************)

\* A step keeps the arena with one worker at most while it is allocated or freed.
LEMMA StatusStep == ASSUME Polls, ArenaInv, [Next]_vars PROVE StatusInv'
<1> USE DEF StatusInv, Allocating, Outside, callVars, jobVars, hostVars, workerVars, GoTo
<1> StatusInv /\ ArenaTypeOK /\ ArenaAssumption
  BY ArenaAssumption DEF ArenaInv
<1>1. CASE Aside
  BY <1>1 DEF Aside, Request, FrameBegin, FrameEnd, ResetEpoch, vars
<1>2. CASE OnArena
  <2>1. ASSUME NEW g \in 0..bank, NEW cloned \in BOOLEAN, Create(g, cloned) PROVE StatusInv'
    BY <2>1 DEF Create, ArenaTypeOK
  <2>2. ASSUME NEW fromGraphics \in BOOLEAN, Adopt(fromGraphics) PROVE StatusInv'
    BY <2>2 DEF Adopt, Addressed
  <2>3. CASE Seal
    BY <2>3 DEF Seal, Addressed
  <2>4. CASE Invalidate
    BY <2>4 DEF Invalidate, Addressed, Waited
  <2>5. CASE CopyIn \/ Commit \/ ResetArena
    BY <2>5 DEF CopyIn, Commit, ResetArena
  <2> QED BY <1>2, <2>1, <2>2, <2>3, <2>4, <2>5 DEF OnArena
<1>3. CASE Cancels
  <2>1. UNCHANGED << id, status, arenas, pc >>
    BY <1>3, CancelMarks
  <2>2. released => released'
    BY <1>3 DEF Cancels, Release, ResetJobs, Cancel
  <2> QED BY <2>1, <2>2
<1>4. CASE Submits
  BY <1>4 DEF Submits, Submit
<1>5. ASSUME NEW w \in Workers, Worker(w) PROVE StatusInv'
  <2> pc \in [Workers -> PcPlaces]
    BY DEF ArenaTypeOK
  <2>1. CASE Observe(w) \/ AllocCopy(w) \/ LookOn(w) \/ ScanNothing(w)
    BY <2>1 DEF Observe, AllocCopy, LookOn, ScanNothing
  <2>2. CASE ReclaimTake(w)
    BY <2>2 DEF ReclaimTake, Reclaimable
  <2>3. CASE ReclaimEnd(w)
    BY <2>3 DEF ReclaimEnd
  <2>4. CASE AllocTake(w)
    BY <2>4 DEF AllocTake, Allocatable
  <2>5. CASE AllocHeap(w)
    BY <2>5 DEF AllocHeap
  <2>6. CASE AllocStore(w)
    BY <2>6 DEF AllocStore
  <2>7. CASE RunEnd(w)
    <3>1. hand[w].job \in Jobs /\ Open(hand[w].job)
      BY <2>7 DEF RunEnd, ArenaInv, RunInv, Open
    <3>2. status \in {"sealed", "failed"}
      BY <3>1 DEF ArenaInv, JobInv
    <3> QED BY <2>7, <3>2 DEF RunEnd, Finish
  <2>8. ASSUME NEW k \in Jobs, ScanDoomed(w, k) PROVE StatusInv'
    <3>1. status \in {"sealed", "failed"}
      BY <2>8 DEF ScanDoomed, Pending, ArenaInv, JobInv, Open
    <3> QED BY <2>8, <3>1 DEF ScanDoomed, Finish
  <2>9. ASSUME NEW k \in Jobs, ScanPick(w, k) PROVE StatusInv'
    BY <2>9 DEF ScanPick
  <2> QED BY <1>5, <2>1, <2>2, <2>3, <2>4, <2>5, <2>6, <2>7, <2>8, <2>9 DEF Worker
<1> QED BY <1>1, <1>2, <1>3, <1>4, <1>5, Steps

(***************************************************************************)
(* The writers and refs.                                                   *)
(***************************************************************************)

\* A step that leaves the writers alone keeps JobInv if no open writer minds.
LEMMA JobsAlone ==
    ASSUME ArenaInv, UNCHANGED << jobs, submitted, refs >>, arenas' \in arenas..(arenas + 1),
           \/ UNCHANGED << id, status >>
           \/ id' = id /\ status' = "failed"
           \/ OpenJobs = {}
    PROVE  JobInv'
<1> ArenaTypeOK /\ JobInv
  BY DEF ArenaInv
<1>1. OpenJobs' = OpenJobs
  BY DEF OpenJobs, Open
<1> QED BY <1>1 DEF JobInv, Open, OpenJobs, ArenaTypeOK

\* Nor does any writer that is open exist while the arena is not sealed and not failed.
LEMMA NoneOpen ==
    ASSUME ArenaInv, \/ status \notin {"sealed", "failed"} \/ refs = 0
    PROVE  OpenJobs = {}
BY OpenFinite DEF ArenaInv, JobInv, OpenJobs

\* A step keeps refs the number of open writers.
LEMMA JobStep == ASSUME Polls, ArenaInv, [Next]_vars PROVE JobInv'
<1> USE DEF callVars, jobVars, hostVars, workerVars
<1> ArenaTypeOK /\ StatusInv /\ JobInv /\ ArenaAssumption
  BY ArenaAssumption DEF ArenaInv
<1> /\ arenas \in arenas..(arenas + 1) /\ arenas + 1 \in arenas..(arenas + 1)
    /\ \A a : a = arenas => a \in arenas..(arenas + 1)
  BY DEF ArenaTypeOK
<1>1. CASE Aside
  <2>1. UNCHANGED << jobs, submitted, refs, arenas, id, status >>
    BY <1>1 DEF Aside, Request, FrameBegin, FrameEnd, ResetEpoch, vars
  <2> QED BY <2>1, JobsAlone
<1>2. CASE OnArena
  <2>1. ASSUME NEW g \in 0..bank, NEW cloned \in BOOLEAN, Create(g, cloned) PROVE JobInv'
    <3>1. OpenJobs = {}
      BY <2>1, NoneOpen DEF Create, StatusInv
    <3>2. refs = 0
      BY <3>1, OpenFinite DEF JobInv
    <3> QED BY <2>1, <3>1, <3>2, JobsAlone DEF Create
  <2>2. ASSUME NEW fromGraphics \in BOOLEAN, Adopt(fromGraphics) PROVE JobInv'
    BY <2>2, JobsAlone DEF Adopt
  <2>3. CASE Seal
    BY <2>3, NoneOpen, JobsAlone DEF Seal
  <2>4. CASE Invalidate
    BY <2>4, JobsAlone DEF Invalidate
  <2>5. CASE CopyIn \/ Commit \/ ResetArena
    BY <2>5, JobsAlone DEF CopyIn, Commit, ResetArena
  <2> QED BY <1>2, <2>1, <2>2, <2>3, <2>4, <2>5 DEF OnArena
<1>3. CASE Cancels
  BY <1>3, CancelMarks DEF JobInv, Open
<1>4. CASE Submits
  <2> PICK k \in Jobs \cup {0} : Submit(k)
    BY <1>4 DEF Submits
  <2> DEFINE j == [status |-> "pending", cancel |-> FALSE, arena |-> id, after |-> k,
                   epoch |-> epoch]
  <2>1. /\ submitted < MaxJobs /\ status = "sealed" /\ id # 0
        /\ jobs' = [jobs EXCEPT ![submitted + 1] = j]
        /\ submitted' = submitted + 1 /\ refs' = refs + 1
        /\ UNCHANGED << id, status, arenas >>
    BY DEF Submit, Addressed
  <2>2. j.status = "pending" /\ j.arena = id
    OBVIOUS
  <2> HIDE DEF j
  <2>3. submitted + 1 \in Jobs /\ refs' = Cardinality(OpenJobs')
    BY <2>1, <2>2, OneMore
  <2>4. id \in 1..arenas
    BY <2>1 DEF StatusInv, ArenaTypeOK
  <2>5. \A l \in Jobs : jobs'[l] = IF l = submitted + 1 THEN j ELSE jobs[l]
    BY <2>1, <2>3 DEF ArenaTypeOK
  <2>6. \A l \in Jobs : l > submitted + 1 <=> l > submitted /\ l # submitted + 1
    BY DEF ArenaTypeOK, Jobs, ArenaAssumption
  <2> QED BY <2>1, <2>2, <2>3, <2>4, <2>5, <2>6 DEF JobInv, Open
<1>5. ASSUME NEW w \in Workers, Worker(w) PROVE JobInv'
  <2>1. CASE Observe(w) \/ AllocHeap(w) \/ AllocCopy(w) \/ LookOn(w) \/ ScanNothing(w)
    BY <2>1, JobsAlone DEF Observe, AllocHeap, AllocCopy, LookOn, ScanNothing
  <2>2. CASE ReclaimTake(w)
    BY <2>2, NoneOpen, JobsAlone DEF ReclaimTake, Reclaimable
  <2>3. CASE ReclaimEnd(w)
    BY <2>3, NoneOpen, JobsAlone DEF ReclaimEnd, StatusInv
  <2>4. CASE AllocTake(w)
    BY <2>4, NoneOpen, JobsAlone DEF AllocTake, Allocatable
  <2>5. CASE AllocStore(w)
    BY <2>5, NoneOpen, JobsAlone DEF AllocStore, StatusInv, Allocating
  <2>6. ASSUME NEW k \in Jobs, Open(k), NEW final \in {"succeeded", "failed", "cancelled"},
               Finish(k, final), UNCHANGED << id, arenas, submitted >>
        PROVE  JobInv'
    <3>1. refs' = Cardinality(OpenJobs')
      BY <2>6, OneLess DEF Finish
    <3>2. \A l \in Jobs : /\ jobs'[l].arena = jobs[l].arena
                          /\ l # k => jobs'[l].status = jobs[l].status
                          /\ l = k => jobs'[l].status = final
      BY <2>6 DEF Finish, ArenaTypeOK, JobRecord
    <3>3. status' \in {status, "failed"}
      BY <2>6 DEF Finish
    <3> QED BY <2>6, <3>1, <3>2, <3>3 DEF JobInv, Open
  <2>7. CASE RunEnd(w)
    <3>1. hand[w].job \in Jobs /\ Open(hand[w].job)
      BY <2>7 DEF RunEnd, ArenaInv, RunInv, Open
    <3> QED BY <2>6, <2>7, <3>1 DEF RunEnd
  <2>8. ASSUME NEW k \in Jobs, ScanDoomed(w, k) PROVE JobInv'
    BY <2>6, <2>8 DEF ScanDoomed, Pending, Open
  <2>9. ASSUME NEW k \in Jobs, ScanPick(w, k) PROVE JobInv'
    <3>1. \A l \in Jobs : /\ jobs'[l].arena = jobs[l].arena
                          /\ l # k => jobs'[l].status = jobs[l].status
                          /\ l = k => jobs'[l].status = "running" /\ jobs[l].status = "pending"
      BY <2>9 DEF ScanPick, Pending, ArenaTypeOK, JobRecord
    <3>2. OpenJobs' = OpenJobs
      BY <3>1 DEF OpenJobs, Open
    <3> QED BY <2>9, <3>1, <3>2 DEF ScanPick, JobInv, Open
  <2> QED BY <1>5, <2>1, <2>2, <2>3, <2>4, <2>5, <2>7, <2>8, <2>9 DEF Worker
<1> QED BY <1>1, <1>2, <1>3, <1>4, <1>5, Steps

(***************************************************************************)
(* What a step does to the writers, and what to the arena.                 *)
(***************************************************************************)

JobsKept ==
    /\ submitted' = submitted
    /\ \A k \in Jobs : /\ jobs'[k].status = jobs[k].status
                       /\ jobs'[k].arena = jobs[k].arena
                       /\ jobs'[k].after = jobs[k].after

\* Writer k goes on to a status, and no other one does.
JobGoes(k, next) ==
    /\ submitted' = submitted
    /\ \A l \in Jobs : /\ jobs'[l].status = IF l = k THEN next ELSE jobs[l].status
                       /\ jobs'[l].arena = jobs[l].arena
                       /\ jobs'[l].after = jobs[l].after

JobEnds(k) ==
    /\ jobs[k].status \in {"pending", "running"}
    /\ \/ /\ \E final \in {"failed", "cancelled"} : JobGoes(k, final)
          /\ status' = "failed"
       \/ JobGoes(k, "succeeded") /\ jobs[k].status = "running" /\ status' = status

JobBegins(k) == JobGoes(k, "running") /\ Pending(k) /\ Met(k) /\ status' = status

JobAdded ==
    /\ submitted + 1 \in Jobs /\ submitted' = submitted + 1
    /\ lastWriter' = submitted + 1
    /\ id # 0 /\ status = "sealed" /\ UNCHANGED << id, status >>
    /\ \A l \in Jobs : l # submitted + 1 => jobs'[l] = jobs[l]
    /\ jobs'[submitted + 1].status = "pending"
    /\ jobs'[submitted + 1].arena = id
    /\ jobs'[submitted + 1].after = lastWriter

\* A step keeps the writers, adds one, or lets one begin or end.
LEMMA JobEffects ==
    ASSUME Polls, ArenaInv, [Next]_vars
    PROVE  JobsKept \/ JobAdded \/ \E k \in Jobs : JobBegins(k) \/ JobEnds(k)
<1> USE DEF callVars, jobVars, hostVars, workerVars
<1> ArenaTypeOK
  BY DEF ArenaInv
<1>1. CASE Aside
  BY <1>1 DEF Aside, Request, FrameBegin, FrameEnd, ResetEpoch, vars, JobsKept
<1>2. CASE OnArena
  BY <1>2 DEF OnArena, Create, CopyIn, Seal, Invalidate, Commit, ResetArena, Adopt, JobsKept
<1>3. CASE Cancels
  BY <1>3, CancelMarks DEF JobsKept
<1>4. CASE Submits
  <2> PICK k \in Jobs \cup {0} : Submit(k)
    BY <1>4 DEF Submits
  <2> DEFINE j == [status |-> "pending", cancel |-> FALSE, arena |-> id, after |-> k,
                   epoch |-> epoch]
  <2>1. /\ submitted < MaxJobs /\ status = "sealed" /\ id # 0 /\ k = lastWriter
        /\ jobs' = [jobs EXCEPT ![submitted + 1] = j]
        /\ submitted' = submitted + 1 /\ lastWriter' = submitted + 1
        /\ UNCHANGED << id, status >>
    BY DEF Submit, Addressed, Chained
  <2>2. j.status = "pending" /\ j.arena = id /\ j.after = lastWriter
    BY <2>1
  <2> HIDE DEF j
  <2>3. submitted + 1 \in Jobs
    BY <2>1, ArenaAssumption DEF ArenaAssumption, ArenaTypeOK, Jobs
  <2> QED BY <2>1, <2>2, <2>3 DEF JobAdded, ArenaTypeOK
<1>5. ASSUME NEW w \in Workers, Worker(w)
      PROVE  JobsKept \/ \E k \in Jobs : JobBegins(k) \/ JobEnds(k)
  <2>1. CASE \/ Observe(w) \/ ReclaimTake(w) \/ ReclaimEnd(w) \/ AllocTake(w)
    BY <2>1 DEF Observe, ReclaimTake, ReclaimEnd, AllocTake, JobsKept
  <2>2. CASE \/ AllocHeap(w) \/ AllocCopy(w) \/ AllocStore(w) \/ LookOn(w) \/ ScanNothing(w)
    BY <2>2 DEF AllocHeap, AllocCopy, AllocStore, LookOn, ScanNothing, JobsKept
  <2>3. ASSUME NEW k \in Jobs, NEW final \in {"succeeded", "failed", "cancelled"},
               Finish(k, final), submitted' = submitted
        PROVE  JobGoes(k, final) /\ (status' = IF final = "succeeded" THEN status ELSE "failed")
    BY <2>3 DEF Finish, JobGoes, ArenaTypeOK, JobRecord
  <2>4. CASE RunEnd(w)
    <3> DEFINE k == hand[w].job
    <3>1. k \in Jobs /\ jobs[k].status = "running"
      BY <2>4 DEF RunEnd, ArenaInv, RunInv
    <3>2. PICK final \in {"succeeded", "failed", "cancelled"} : Finish(k, final)
      BY <2>4 DEF RunEnd
    <3>3. submitted' = submitted
      BY <2>4 DEF RunEnd
    <3> HIDE DEF k
    <3>4. JobEnds(k)
      BY <2>3, <3>1, <3>2, <3>3 DEF JobEnds
    <3> QED BY <3>1, <3>4
  <2>5. ASSUME NEW k \in Jobs, ScanDoomed(w, k) PROVE JobEnds(k)
    BY <2>3, <2>5 DEF ScanDoomed, Pending, JobEnds
  <2>6. ASSUME NEW k \in Jobs, ScanPick(w, k) PROVE JobBegins(k)
    BY <2>6 DEF ScanPick, JobBegins, JobGoes, Met, ArenaTypeOK, JobRecord
  <2> QED BY <1>5, <2>1, <2>2, <2>4, <2>5, <2>6 DEF Worker
<1> QED BY <1>1, <1>2, <1>3, <1>4, <1>5, Steps

\* A step keeps the arena and its chain, adds a writer, or creates or ends the arena.
LEMMA ArenaEffects ==
    ASSUME Polls, ArenaInv, [Next]_vars
    PROVE  \/ JobAdded
           \/ /\ UNCHANGED << id, lastWriter >>
              /\ status' \in {"queued", "allocating", "input"} =>
                   status \in {"queued", "allocating", "input"}
              /\ status' = "sealed" => status \in {"sealed", "allocating", "input"}
           \/ id' = arenas + 1 /\ lastWriter' = 0 /\ JobsKept
           \/ id' = 0 /\ status' = "none" /\ UNCHANGED lastWriter /\ JobsKept
<1> USE DEF callVars, jobVars, hostVars, workerVars
<1> StatusInv
  BY DEF ArenaInv
<1>1. CASE Aside
  BY <1>1 DEF Aside, Request, FrameBegin, FrameEnd, ResetEpoch, vars
<1>2. CASE OnArena
  <2>1. CASE \E g \in 0..bank, cloned \in BOOLEAN : Create(g, cloned)
    BY <2>1 DEF Create, JobsKept
  <2>2. CASE \/ CopyIn \/ Seal \/ Invalidate \/ Commit \/ ResetArena
             \/ \E fromGraphics \in BOOLEAN : Adopt(fromGraphics)
    BY <2>2 DEF CopyIn, Seal, Invalidate, Commit, ResetArena, Adopt
  <2> QED BY <1>2, <2>1, <2>2 DEF OnArena
<1>3. CASE Cancels
  BY <1>3, CancelMarks DEF ArenaInv
<1>4. CASE Submits
  <2>1. submitted' # submitted
    BY <1>4 DEF Submits, Submit, ArenaInv, ArenaTypeOK
  <2> QED BY <2>1, JobEffects DEF JobsKept, JobBegins, JobEnds, JobGoes
<1>5. ASSUME NEW w \in Workers, Worker(w)
      PROVE  \/ /\ UNCHANGED << id, lastWriter >>
                /\ status' \in {"queued", "allocating", "input"} =>
                     status \in {"queued", "allocating", "input"}
                /\ status' = "sealed" => status \in {"sealed", "allocating", "input"}
             \/ id' = 0 /\ status' = "none" /\ UNCHANGED lastWriter /\ JobsKept
  <2>1. CASE ReclaimEnd(w)
    BY <2>1 DEF ReclaimEnd, JobsKept
  <2>2. CASE AllocStore(w)
    BY <2>2 DEF AllocStore, StatusInv, Allocating
  <2>3. CASE \/ Observe(w) \/ ReclaimTake(w) \/ AllocTake(w) \/ AllocHeap(w)
             \/ AllocCopy(w) \/ LookOn(w) \/ ScanNothing(w)
    BY <2>3 DEF Observe, ReclaimTake, AllocTake, Allocatable, AllocHeap, AllocCopy, LookOn,
                ScanNothing
  <2>4. CASE RunEnd(w) \/ \E k \in Jobs : ScanDoomed(w, k) \/ ScanPick(w, k)
    BY <2>4 DEF RunEnd, ScanDoomed, ScanPick, Finish
  <2> QED BY <1>5, <2>1, <2>2, <2>3, <2>4 DEF Worker
<1> QED BY <1>1, <1>2, <1>3, <1>4, <1>5, Steps

(***************************************************************************)
(* The chain of writers, their order and what a sealed arena promises.     *)
(***************************************************************************)

\* What lies between two writers is a writer.
LEMMA Between ==
    ASSUME NEW k \in Jobs, NEW l \in Jobs
    PROVE  /\ \A d \in k..(l - 1) : d \in Jobs /\ d # 0 /\ d < l /\ (k < d \/ k = d)
           /\ \A d \in Int : k <= d /\ d < l => d \in Jobs /\ d # 0 /\ d \in k..(l - 1)
BY ArenaAssumption DEF Jobs, ArenaAssumption

\* A step keeps the writers of an arena a chain.
LEMMA ChainStep == ASSUME Polls, ArenaInv, [Next]_vars PROVE ChainInv'
<1> ArenaTypeOK /\ StatusInv /\ JobInv /\ ChainInv
  BY DEF ArenaInv
<1>0. \A k \in Jobs : k \in Nat /\ k # 0
  BY ArenaAssumption DEF Jobs, ArenaAssumption
<1>1. CASE JobAdded
  <2> DEFINE n == submitted + 1
  <2>1. /\ n \in Jobs /\ id # 0 /\ id' = id /\ status = "sealed" /\ status' = status
        /\ submitted' = n /\ lastWriter' = n
        /\ jobs'[n].arena = id /\ jobs'[n].after = lastWriter
        /\ \A l \in Jobs : l # n => jobs'[l] = jobs[l]
    BY <1>1 DEF JobAdded
  <2>2. n > submitted /\ submitted \in Nat /\ lastWriter \in Nat /\ lastWriter < n
    BY ArenaAssumption DEF ArenaTypeOK, ChainInv, ArenaAssumption
  <2>3. \A l \in Jobs : l > submitted => jobs[l].arena = 0
    BY DEF JobInv
  <2> HIDE DEF n
  <2>4. \A k \in Jobs : jobs'[k].arena = id => k <= n
    BY <1>0, <2>1, <2>2, <2>3
  <2>5. ASSUME NEW k \in Jobs, NEW l \in Jobs, jobs'[k].arena = jobs'[l].arena,
               jobs'[k].arena # 0, k < l
        PROVE  jobs'[l].after \in k..(l - 1) /\ jobs'[jobs'[l].after].arena = jobs'[l].arena
    <3>1. k # n
      <4> SUFFICES ASSUME k = n PROVE FALSE
        OBVIOUS
      <4>1. l > submitted /\ l # n
        BY <1>0, <2>2, <2>5
      <4>2. jobs'[l].arena = 0
        BY <2>1, <2>3, <4>1
      <4> QED BY <2>5, <4>2
    <3>2. CASE l # n
      <4>1. jobs[l].after \in k..(l - 1) /\ jobs[jobs[l].after].arena = jobs[l].arena
        BY <2>1, <2>5, <3>1, <3>2 DEF ChainInv
      <4>2. l < n
        BY <1>0, <2>1, <2>2, <2>3, <2>5, <3>2
      <4>3. jobs[l].after \in Jobs /\ jobs[l].after < l
        BY <4>1, Between
      <4>4. jobs[l].after # n
        BY <1>0, <2>1, <4>2, <4>3
      <4> QED BY <2>1, <3>2, <4>1, <4>3, <4>4
    <3>3. CASE l = n
      <4>1. jobs[k].arena = id /\ k <= lastWriter
        BY <2>1, <2>5, <3>1, <3>3 DEF ChainInv
      <4>2. lastWriter \in Jobs /\ lastWriter # n /\ lastWriter # 0
        BY <2>1, <2>2, <4>1, Between
      <4>3. jobs[lastWriter].arena = id
        BY <2>1, <4>2 DEF ChainInv
      <4>4. lastWriter \in k..(n - 1)
        BY <1>0, <2>1, <2>2, <4>1
      <4> QED BY <2>1, <3>3, <4>2, <4>3, <4>4
    <3> QED BY <3>2, <3>3
  <2> QED BY <2>1, <2>2, <2>4, <2>5 DEF ChainInv
<1>2. CASE ~JobAdded
  <2>1. /\ submitted' = submitted
        /\ \A k \in Jobs : jobs'[k].arena = jobs[k].arena /\ jobs'[k].after = jobs[k].after
    BY <1>2, JobEffects DEF JobsKept, JobBegins, JobEnds, JobGoes
  <2>2. \A k, l \in Jobs : jobs'[k].arena = jobs'[l].arena /\ jobs'[k].arena # 0 /\ k < l =>
          /\ jobs'[l].after \in k..(l - 1)
          /\ jobs'[jobs'[l].after].arena = jobs'[l].arena
    <3> SUFFICES ASSUME NEW k \in Jobs, NEW l \in Jobs, jobs'[k].arena = jobs'[l].arena,
                        jobs'[k].arena # 0, k < l
                 PROVE  /\ jobs'[l].after \in k..(l - 1)
                        /\ jobs'[jobs'[l].after].arena = jobs'[l].arena
      OBVIOUS
    <3>1. jobs[l].after \in k..(l - 1) /\ jobs[jobs[l].after].arena = jobs[l].arena
      BY <2>1 DEF ChainInv
    <3>2. jobs[l].after \in Jobs
      BY <3>1, Between
    <3> QED BY <2>1, <3>1, <3>2
  <2>3. CASE /\ UNCHANGED << id, lastWriter >>
             /\ status' \in {"queued", "allocating", "input"} =>
                  status \in {"queued", "allocating", "input"}
    <3>1. id # 0 /\ lastWriter # 0 => lastWriter \in Jobs
      BY DEF ArenaTypeOK, Jobs
    <3> QED BY <2>1, <2>2, <2>3, <3>1 DEF ChainInv
  <2>4. CASE id' = arenas + 1 /\ lastWriter' = 0
    <3>1. \A k \in Jobs : jobs[k].arena # arenas + 1
      BY DEF JobInv, ArenaTypeOK
    <3>2. 0 <= submitted
      BY DEF ArenaTypeOK
    <3> QED BY <2>1, <2>2, <2>4, <3>1, <3>2 DEF ChainInv
  <2>5. CASE id' = 0 /\ status' = "none" /\ UNCHANGED lastWriter
    BY <2>1, <2>2, <2>5 DEF ChainInv
  <2> QED BY <1>2, <2>3, <2>4, <2>5, ArenaEffects
<1> QED BY <1>1, <1>2

\* A step keeps the order along the chain.
LEMMA OrderStep == ASSUME Polls, ArenaInv, [Next]_vars PROVE OrderInv'
<1> ArenaTypeOK /\ JobInv /\ ChainInv /\ OrderInv
  BY DEF ArenaInv
<1>0. \A k \in Jobs : k \in Nat /\ k # 0
  BY ArenaAssumption DEF Jobs, ArenaAssumption
<1>1. CASE JobsKept
  BY <1>1 DEF JobsKept, OrderInv
<1>2. CASE JobAdded
  <2>1. \A l \in Jobs : l > submitted + 1 => jobs'[l].status = "none"
    BY <1>0, <1>2 DEF JobAdded, JobInv, ArenaTypeOK
  <2>2. \A k, l \in Jobs : jobs'[l].status \in {"running", "succeeded"} /\ k < l =>
          jobs'[l] = jobs[l] /\ jobs'[k] = jobs[k]
    BY <1>0, <1>2, <2>1 DEF JobAdded, ArenaTypeOK
  <2> QED BY <2>2 DEF OrderInv
<1>3. ASSUME NEW b \in Jobs, JobBegins(b) PROVE OrderInv'
  <2> SUFFICES ASSUME NEW k \in Jobs, NEW l \in Jobs, jobs'[k].arena = jobs'[l].arena,
                      jobs'[k].arena # 0, k < l, jobs'[l].status \in {"running", "succeeded"}
               PROVE  jobs'[k].status = "succeeded"
    BY DEF OrderInv
  <2>1. jobs[k].arena = jobs[l].arena /\ jobs[k].arena # 0
    BY <1>3 DEF JobBegins, JobGoes
  <2>2. CASE l # b
    BY <1>3, <2>1, <2>2 DEF JobBegins, JobGoes, Pending, OrderInv
  <2>3. CASE l = b
    <3> DEFINE d == jobs[l].after
    <3>1. d \in k..(l - 1) /\ jobs[d].arena = jobs[l].arena
      BY <2>1 DEF ChainInv
    <3>2. d \in Jobs /\ d # 0 /\ (k < d \/ k = d)
      BY <3>1, Between
    <3>3. jobs[d].status = "succeeded"
      BY <1>3, <2>3, <3>2 DEF JobBegins, Met
    <3>4. jobs[k].status = "succeeded"
      BY <2>1, <3>1, <3>2, <3>3 DEF OrderInv
    <3> QED BY <1>0, <1>3, <2>3, <3>4 DEF JobBegins, JobGoes
  <2> QED BY <2>2, <2>3
<1>4. ASSUME NEW e \in Jobs, JobEnds(e) PROVE OrderInv'
  BY <1>4 DEF JobEnds, JobGoes, OrderInv
<1> QED BY <1>1, <1>2, <1>3, <1>4, JobEffects

\* A step that fails or cancels a writer does not leave the arena sealed.
LEMMA SealedStep == ASSUME Polls, ArenaInv, [Next]_vars PROVE SealedInv'
<1> ArenaTypeOK /\ JobInv /\ ChainInv /\ SealedInv
  BY DEF ArenaInv
<1>1. CASE JobAdded
  BY <1>1 DEF JobAdded, SealedInv
<1>2. CASE id' = arenas + 1 /\ JobsKept
  BY <1>2 DEF JobsKept, SealedInv, JobInv, ArenaTypeOK
<1>3. CASE id' = 0
  BY <1>3 DEF SealedInv
<1>4. CASE /\ UNCHANGED << id, lastWriter >>
           /\ status' = "sealed" => status \in {"sealed", "allocating", "input"}
           /\ ~JobAdded
  <2> SUFFICES ASSUME NEW k \in Jobs, id' # 0, jobs'[k].arena = id', status' = "sealed"
               PROVE  jobs'[k].status \notin {"failed", "cancelled"}
    BY DEF SealedInv
  <2>1. jobs[k].arena = id
    BY <1>4, JobEffects DEF JobsKept, JobBegins, JobEnds, JobGoes
  <2>2. status = "sealed"
    <3>1. k <= lastWriter /\ k \in Nat /\ k # 0
      BY <1>4, <2>1, ArenaAssumption DEF ChainInv, Jobs, ArenaAssumption
    <3>2. lastWriter # 0
      BY <3>1
    <3> QED BY <1>4, <3>2 DEF ChainInv
  <2>3. jobs[k].status \notin {"failed", "cancelled"}
    BY <1>4, <2>1, <2>2 DEF SealedInv
  <2> QED BY <1>4, <2>3, JobEffects DEF JobsKept, JobBegins, JobEnds, JobGoes
<1> QED BY <1>1, <1>2, <1>3, <1>4, ArenaEffects

(***************************************************************************)
(* Who runs what.                                                          *)
(***************************************************************************)

\* A step lets no two workers run one writer.
LEMMA RunStep == ASSUME Polls, ArenaInv, [Next]_vars PROVE RunInv'
<1> USE DEF callVars, jobVars, hostVars, workerVars, GoTo
<1> ArenaTypeOK /\ JobInv /\ RunInv
  BY DEF ArenaInv
<1> pc \in [Workers -> PcPlaces] /\ hand \in [Workers -> HandRecord]
  BY DEF ArenaTypeOK
<1>1. CASE UNCHANGED << pc, hand >> /\ JobsKept
  BY <1>1 DEF RunInv, JobsKept
<1>2. CASE Aside \/ OnArena \/ Cancels
  <2>1. UNCHANGED << pc, hand >>
    <3>1. CASE Aside
      BY <3>1 DEF Aside, Request, FrameBegin, FrameEnd, ResetEpoch, vars
    <3>2. CASE OnArena
      BY <3>2 DEF OnArena, Create, CopyIn, Seal, Invalidate, Commit, ResetArena, Adopt
    <3>3. CASE Cancels
      BY <3>3, CancelMarks
    <3> QED BY <1>2, <3>1, <3>2, <3>3
  <2>2. JobsKept
    <3>1. CASE Aside
      BY <3>1 DEF Aside, Request, FrameBegin, FrameEnd, ResetEpoch, vars, JobsKept
    <3>2. CASE OnArena
      BY <3>2 DEF OnArena, Create, CopyIn, Seal, Invalidate, Commit, ResetArena, Adopt,
                  JobsKept
    <3>3. CASE Cancels
      BY <3>3, CancelMarks DEF JobsKept
    <3> QED BY <1>2, <3>1, <3>2, <3>3
  <2> QED BY <1>1, <2>1, <2>2
<1>3. CASE Submits
  <2>1. JobAdded /\ UNCHANGED << pc, hand >>
    <3>1. submitted' # submitted
      BY <1>3 DEF Submits, Submit, ArenaTypeOK
    <3> QED BY <1>3, <3>1, JobEffects DEF Submits, Submit, JobsKept, JobBegins, JobEnds, JobGoes
  <2>2. \A w \in Workers : pc[w] = "run" => hand[w].job # submitted + 1
    BY DEF RunInv, JobInv, ArenaTypeOK
  <2> QED BY <2>1, <2>2 DEF RunInv, JobAdded
<1>4. ASSUME NEW w \in Workers, Worker(w) PROVE RunInv'
  <2>1. ASSUME JobsKept, \A v \in Workers : pc'[v] = "run" => pc[v] = "run" /\ hand'[v] = hand[v]
        PROVE  RunInv'
    BY <2>1 DEF RunInv, JobsKept
  <2>2. CASE Observe(w) \/ ReclaimTake(w) \/ ReclaimEnd(w) \/ AllocTake(w) \/ AllocHeap(w)
    <3>1. JobsKept
      BY <2>2 DEF Observe, ReclaimTake, ReclaimEnd, AllocTake, AllocHeap, JobsKept
    <3>2. \A v \in Workers : pc'[v] = "run" => pc[v] = "run" /\ hand'[v] = hand[v]
      BY <2>2 DEF Observe, ReclaimTake, ReclaimEnd, AllocTake, AllocHeap
    <3> QED BY <2>1, <3>1, <3>2
  <2>3. CASE AllocCopy(w) \/ AllocStore(w) \/ LookOn(w) \/ ScanNothing(w)
    <3>1. JobsKept
      BY <2>3 DEF AllocCopy, AllocStore, LookOn, ScanNothing, JobsKept
    <3>2. \A v \in Workers : pc'[v] = "run" => pc[v] = "run" /\ hand'[v] = hand[v]
      BY <2>3 DEF AllocCopy, AllocStore, LookOn, ScanNothing
    <3> QED BY <2>1, <3>1, <3>2
  <2>4. CASE RunEnd(w)
    <3>1. PICK final \in {"succeeded", "failed", "cancelled"} : Finish(hand[w].job, final)
      BY <2>4 DEF RunEnd
    <3>2. hand[w].job \in Jobs /\ pc[w] = "run"
      BY <2>4 DEF RunEnd, RunInv
    <3>3. \A v \in Workers : pc'[v] = "run" => /\ pc[v] = "run" /\ hand'[v] = hand[v]
                                               /\ hand[v].job # hand[w].job
      BY <2>4, <3>2 DEF RunEnd, RunInv
    <3>4. \A l \in Jobs : l # hand[w].job => jobs'[l] = jobs[l]
      BY <3>1 DEF Finish, ArenaTypeOK
    <3> QED BY <3>3, <3>4 DEF RunInv
  <2>5. ASSUME NEW k \in Jobs, ScanDoomed(w, k) PROVE RunInv'
    <3>1. \A l \in Jobs : l # k => jobs'[l] = jobs[l]
      BY <2>5 DEF ScanDoomed, Finish, ArenaTypeOK
    <3>2. \A v \in Workers : pc[v] = "run" => hand[v].job # k
      BY <2>5 DEF ScanDoomed, Pending, RunInv
    <3>3. UNCHANGED << pc, hand >>
      BY <2>5 DEF ScanDoomed
    <3> QED BY <3>1, <3>2, <3>3 DEF RunInv
  <2>6. ASSUME NEW k \in Jobs, ScanPick(w, k) PROVE RunInv'
    <3>1. /\ \A l \in Jobs : l # k => jobs'[l] = jobs[l]
          /\ jobs'[k].status = "running"
      BY <2>6 DEF ScanPick, ArenaTypeOK, JobRecord
    <3>2. \A v \in Workers : pc[v] = "run" => hand[v].job # k
      BY <2>6 DEF ScanPick, Pending, RunInv
    <3>3. \A v \in Workers : IF v = w THEN hand'[v].job = k /\ pc[v] # "run"
                                      ELSE hand'[v] = hand[v] /\ pc'[v] = pc[v]
      BY <2>6 DEF ScanPick
    <3> QED BY <3>1, <3>2, <3>3 DEF RunInv
  <2> QED BY <1>4, <2>2, <2>3, <2>4, <2>5, <2>6 DEF Worker
<1> QED BY <1>2, <1>3, <1>4, Steps

(***************************************************************************)
(* Whose each heap is.                                                     *)
(***************************************************************************)

\* Without an open writer no worker runs one.
LEMMA NoneRuns ==
    ASSUME ArenaInv, OpenJobs = {}
    PROVE  \A w \in Workers : pc[w] # "run"
BY DEF ArenaInv, RunInv, OpenJobs, Open

\* A step that touches no heap keeps whose each one is.
LEMMA HeapsAlone ==
    ASSUME ArenaInv, UNCHANGED << live, heaps, memory, lease, input, frame, pc, hand >>,
           OpenJobs' \subseteq OpenJobs \/ memory # Null,
           \/ status' \in {status, "failed"}
           \/ status' = "sealed" /\ memory # Null
    PROVE  HeapInv'
<1> HeapInv
  BY DEF ArenaInv
<1> QED BY DEF HeapInv, Outside, Allocating

\* A step keeps whose each heap is.
LEMMA HeapStep == ASSUME Polls, ArenaInv, [Next]_vars PROVE HeapInv'
<1> USE DEF callVars, jobVars, hostVars, workerVars, GoTo
<1> ArenaTypeOK /\ StatusInv /\ JobInv /\ HeapInv /\ ArenaAssumption
  BY ArenaAssumption DEF ArenaInv
<1> pc \in [Workers -> PcPlaces] /\ hand \in [Workers -> HandRecord]
  BY DEF ArenaTypeOK
<1>0. UNCHANGED jobs => OpenJobs' = OpenJobs
  BY DEF OpenJobs, Open
<1>1. CASE Aside
  <2>1. CASE FrameBegin \/ FrameEnd
    BY <1>0, <2>1 DEF FrameBegin, FrameEnd, HeapInv, Outside, Allocating
  <2>2. CASE Request \/ ResetEpoch \/ UNCHANGED vars
    BY <1>0, <2>2, HeapsAlone DEF Request, ResetEpoch, vars
  <2> QED BY <1>1, <2>1, <2>2 DEF Aside
<1>2. CASE OnArena
  <2>1. ASSUME NEW g \in 0..bank, NEW cloned \in BOOLEAN, Create(g, cloned) PROVE HeapInv'
    <3>1. memory = Null /\ status' = "queued" /\ input' = live
      BY <2>1 DEF Create, StatusInv, HeapInv
    <3>2. UNCHANGED << memory, lease, live, heaps, pc, hand, jobs, frame >>
      BY <2>1 DEF Create
    <3> QED BY <1>0, <3>1, <3>2 DEF HeapInv, Outside, Allocating
  <2>2. ASSUME NEW fromGraphics \in BOOLEAN, Adopt(fromGraphics) PROVE HeapInv'
    <3>1. OpenJobs = {} /\ status = "sealed"
      BY <2>2, NoneOpen DEF Adopt
    <3>2. \A w \in Workers : pc[w] # "run" /\ ~Outside(w)
      BY <3>1, NoneRuns DEF StatusInv, Outside, Allocating
    <3>3. /\ live' = memory /\ memory' = live /\ memory # Null /\ live # Null
          /\ UNCHANGED << status, heaps, pc, hand, jobs >>
      BY <2>2, <3>1 DEF Adopt, HeapInv, ArenaTypeOK, ArenaAssumption
    <3>4. frame' # Null => frame' = live'
      BY <2>2 DEF Adopt, HeapBoundary
    <3>5. \A w \in Workers : pc[w] # "run" /\ pc[w] \notin {"copy", "copied", "calloc"}
      BY <3>2 DEF Outside, Allocating
    <3>6. \A h \in heaps : h \in {live, memory}
      BY <3>2 DEF HeapInv
    <3> QED BY <1>0, <3>1, <3>2, <3>3, <3>4, <3>5, <3>6 DEF HeapInv, Outside, Allocating
  <2>3. CASE Seal
    BY <1>0, <2>3, HeapsAlone DEF Seal, HeapInv
  <2>4. CASE CopyIn \/ Invalidate \/ Commit \/ ResetArena
    BY <1>0, <2>4, HeapsAlone DEF CopyIn, Invalidate, Commit, ResetArena
  <2> QED BY <1>2, <2>1, <2>2, <2>3, <2>4 DEF OnArena
<1>3. CASE Cancels
  BY <1>3, CancelMarks, HeapsAlone
<1>4. CASE Submits
  <2>1. /\ status = "sealed"
        /\ UNCHANGED << live, heaps, memory, lease, input, frame, pc, hand, status >>
    BY <1>4 DEF Submits, Submit
  <2> QED BY <2>1, HeapsAlone DEF HeapInv
<1>5. ASSUME NEW w \in Workers, Worker(w) PROVE HeapInv'
  <2>a. \A v \in Workers : Outside(v) /\ Outside(w) => v = w
    BY DEF StatusInv
  <2>b. \A v \in Workers : v # w => pc'[v] = pc[v] /\ hand'[v] = hand[v]
    <3>1. CASE Observe(w) \/ ReclaimTake(w) \/ ReclaimEnd(w) \/ AllocTake(w) \/ AllocHeap(w)
      BY <3>1 DEF Observe, ReclaimTake, ReclaimEnd, AllocTake, AllocHeap
    <3>2. CASE AllocCopy(w) \/ AllocStore(w) \/ LookOn(w) \/ ScanNothing(w) \/ RunEnd(w)
      BY <3>2 DEF AllocCopy, AllocStore, LookOn, ScanNothing, RunEnd
    <3>3. CASE \E k \in Jobs : ScanDoomed(w, k) \/ ScanPick(w, k)
      BY <3>3 DEF ScanDoomed, ScanPick
    <3> QED BY <1>5, <3>1, <3>2, <3>3 DEF Worker
  <2>c. \A v \in Workers : v # w => (Outside(v)' <=> Outside(v))
    BY <2>b DEF Outside, Allocating
  <2>1. CASE Observe(w) \/ LookOn(w) \/ ScanNothing(w)
    <3>1. /\ UNCHANGED << live, heaps, memory, lease, input, frame, status, jobs, hand >>
          /\ pc[w] \in {"top", "look", "scan", "wait"} /\ pc'[w] \in {"look", "scan", "wait"}
      BY <2>1 DEF Observe, LookOn, ScanNothing
    <3>2. ~Outside(w) /\ ~Outside(w)'
      BY <3>1 DEF Outside, Allocating
    <3> QED BY <1>0, <2>b, <2>c, <3>1, <3>2 DEF HeapInv
  <2>2. CASE AllocTake(w)
    <3>1. /\ UNCHANGED << live, heaps, memory, lease, input, frame, jobs, hand >>
          /\ pc[w] = "look" /\ pc'[w] = "calloc" /\ status = "queued" /\ status' = "allocating"
      BY <2>2 DEF AllocTake, Allocatable
    <3>2. hand[w].heap = Null /\ ~Outside(w)
      BY <3>1 DEF HeapInv, Outside, Allocating
    <3> QED BY <1>0, <2>b, <2>c, <3>1, <3>2 DEF HeapInv
  <2>3. CASE AllocCopy(w)
    <3>1. /\ UNCHANGED << live, heaps, memory, lease, input, frame, status, jobs, hand >>
          /\ pc[w] = "copy" /\ pc'[w] \in {"copied", "failed"}
      BY <2>3 DEF AllocCopy
    <3>2. Outside(w) /\ Outside(w)' /\ hand[w].heap # Null
      BY <3>1 DEF Outside, Allocating, HeapInv
    <3> QED BY <1>0, <2>b, <2>c, <3>1, <3>2 DEF HeapInv
  <2>4. CASE ReclaimTake(w)
    <3>1. /\ UNCHANGED << live, heaps, frame, input, jobs >>
          /\ pc[w] = "look" /\ pc'[w] = "free" /\ memory' = Null /\ status' = "reclaiming"
          /\ hand'[w].heap = memory /\ status \notin {"allocating", "reclaiming"} /\ refs = 0
      BY <2>4 DEF ReclaimTake, Reclaimable, HandRecord
    <3>2. OpenJobs = {} /\ \A v \in Workers : pc[v] # "run"
      BY <3>1, NoneOpen, NoneRuns
    <3>3. \A v \in Workers : ~Outside(v)
      BY <3>1 DEF StatusInv, Outside, Allocating
    <3>4. Outside(w)' /\ \A v \in Workers : pc'[v] # "run"
      BY <2>b, <3>1, <3>2 DEF Outside
    <3>5. \A h \in heaps : h = live \/ h = hand'[w].heap
      BY <3>1, <3>3 DEF HeapInv
    <3>6. live # Null
      BY DEF ArenaTypeOK, ArenaAssumption
    <3> QED BY <1>0, <2>b, <2>c, <3>1, <3>2, <3>3, <3>4, <3>5, <3>6 DEF HeapInv
  <2>5. CASE ReclaimEnd(w)
    <3>1. /\ UNCHANGED << live, memory, lease, frame, input, jobs >>
          /\ heaps' = heaps \ {hand[w].heap} /\ hand'[w].heap = Null /\ status' = "none"
          /\ pc[w] = "free" /\ pc'[w] = "scan"
      BY <2>5 DEF ReclaimEnd, Empty
    <3>2. status = "reclaiming" /\ memory = Null /\ Outside(w) /\ ~Outside(w)'
      BY <3>1 DEF StatusInv, HeapInv, Outside, Allocating
    <3>3. OpenJobs = {}
      BY <3>2, NoneOpen
    <3>4. \A v \in Workers : ~Outside(v)'
      BY <2>a, <2>c, <3>2
    <3>5. live # hand[w].heap
      BY <3>2 DEF HeapInv, ArenaTypeOK, ArenaAssumption
    <3>6. \A h \in heaps' : h = live
      <4>1. Null \notin heaps
        BY DEF ArenaTypeOK, ArenaAssumption
      <4> QED BY <2>a, <3>1, <3>2, <4>1 DEF HeapInv
    <3> QED BY <1>0, <2>b, <3>1, <3>2, <3>3, <3>4, <3>5, <3>6 DEF HeapInv
  <2>6. CASE AllocHeap(w)
    <3>1. UNCHANGED << live, memory, lease, input, frame, status, jobs >> /\ pc[w] = "calloc"
      BY <2>6 DEF AllocHeap
    <3>2. Outside(w) /\ hand[w].heap = Null
      BY <3>1 DEF Outside, Allocating, HeapInv
    <3>3. CASE \E h \in Heaps \ heaps : /\ heaps' = heaps \cup {h}
                                        /\ hand'[w].heap = h /\ pc'[w] = "copy"
      <4> PICK h \in Heaps \ heaps : /\ heaps' = heaps \cup {h}
                                     /\ hand'[w].heap = h /\ pc'[w] = "copy"
        BY <3>3
      <4>1. Outside(w)' /\ h # live /\ h # Null
        BY DEF Outside, Allocating, HeapInv, ArenaAssumption
      <4>2. \A v \in Workers :
              /\ Outside(v)' /\ hand'[v].heap # Null => hand'[v].heap \in heaps' \ {live}
              /\ pc'[v] \in {"copy", "copied"} => hand'[v].heap # Null
              /\ pc'[v] \in {"top", "look", "scan", "wait", "calloc"} => hand'[v].heap = Null
              /\ pc'[v] = "run" => hand'[v].heap = memory /\ hand'[v].lease = lease
        BY <2>b, <2>c, <3>2, <4>1 DEF HeapInv
      <4>3. \A g \in heaps' :
              g \in {live, memory} \/ \E v \in Workers : Outside(v)' /\ hand'[v].heap = g
        <5>1. \A g \in heaps : g # Null
          BY DEF ArenaTypeOK, ArenaAssumption
        <5> QED BY <2>b, <2>c, <3>2, <4>1, <5>1 DEF HeapInv
      <4> QED BY <1>0, <3>1, <4>2, <4>3 DEF HeapInv
    <3>4. CASE heaps' = heaps /\ hand'[w].heap = Null /\ pc'[w] = "failed"
      <4>1. Outside(w)'
        BY <3>4 DEF Outside, Allocating
      <4> QED BY <1>0, <2>b, <2>c, <3>1, <3>2, <3>4, <4>1 DEF HeapInv
    <3>5. pc \in [Workers -> PcPlaces] /\ hand \in [Workers -> HandRecord]
      BY DEF ArenaTypeOK
    <3>6. ASSUME NEW h \in Heaps, NEW l, hand' = [hand EXCEPT ![w].heap = h, ![w].lease = l]
          PROVE  hand'[w].heap = h
      BY <3>5, <3>6 DEF HandRecord
    <3>7. ASSUME NEW l, hand' = [hand EXCEPT ![w].lease = l] PROVE hand'[w].heap = Null
      BY <3>2, <3>5, <3>7 DEF HandRecord
    <3>8. \A place : GoTo(w, place) => pc'[w] = place
      BY <3>5 DEF GoTo
    <3>9. CASE \E h \in Heaps \ heaps :
                 /\ heaps' = heaps \cup {h}
                 /\ hand' = [hand EXCEPT ![w].heap = h, ![w].lease = generation]
                 /\ GoTo(w, "copy")
      BY <3>3, <3>6, <3>8, <3>9
    <3>10. CASE /\ \E l \in {0} \cup ({generation} \cap {bank}) : hand' = [hand EXCEPT ![w].lease = l]
                /\ GoTo(w, "failed") /\ UNCHANGED heaps
      BY <3>4, <3>7, <3>8, <3>10
    <3> QED BY <2>6, <3>9, <3>10 DEF AllocHeap
  <2>7. CASE AllocStore(w)
    <3>1. Outside(w) /\ status = "allocating" /\ memory = Null
      BY <2>7 DEF AllocStore, Outside, Allocating, StatusInv, HeapInv
    <3>2. /\ heaps' = heaps /\ memory' = hand[w].heap /\ lease' = hand[w].lease
          /\ UNCHANGED << live, frame, input, jobs >>
          /\ hand'[w].heap = Null /\ pc'[w] = "top"
          /\ \/ status' \in {"input", "sealed"} /\ pc[w] = "copied"
             \/ status' = "failed"
      <4>1. Null \notin heaps
        BY DEF ArenaTypeOK, ArenaAssumption
      <4> QED BY <2>7, <3>1, <4>1 DEF AllocStore, Empty
    <3>3. OpenJobs = {} /\ \A v \in Workers : pc[v] # "run"
      BY <3>1, NoneOpen, NoneRuns
    <3>4. \A v \in Workers : ~Outside(v)'
      <4>1. ~Outside(w)'
        BY <3>2 DEF Outside, Allocating
      <4> QED BY <2>a, <2>c, <3>1, <4>1
    <3>5. \A v \in Workers : pc'[v] \notin {"run", "copy", "copied"}
      BY <2>b, <3>2, <3>3, <3>4 DEF Outside, Allocating
    <3>6. memory' # live /\ (memory' # Null => memory' \in heaps)
      BY <3>1, <3>2 DEF HeapInv, ArenaTypeOK, ArenaAssumption
    <3>7. \A h \in heaps : h \in {live, memory'}
      BY <2>a, <3>1, <3>2 DEF HeapInv, ArenaTypeOK, ArenaAssumption
    <3>8. \A v \in Workers :
            pc'[v] \in {"top", "look", "scan", "wait", "calloc"} => hand'[v].heap = Null
      BY <2>b, <3>2 DEF HeapInv
    <3>9. status' \in {"input", "sealed"} => memory' # Null
      BY <3>2 DEF HeapInv
    <3> QED BY <1>0, <3>2, <3>3, <3>4, <3>5, <3>6, <3>7, <3>8, <3>9 DEF HeapInv
  <2>8. CASE RunEnd(w)
    <3>1. PICK final \in {"succeeded", "failed", "cancelled"} : Finish(hand[w].job, final)
      BY <2>8 DEF RunEnd
    <3>2. hand[w].job \in Jobs /\ Open(hand[w].job)
      BY <2>8 DEF RunEnd, ArenaInv, RunInv, Open
    <3>3. OpenJobs' \subseteq OpenJobs
      BY <3>1, <3>2, OneLess DEF Finish
    <3>4. /\ UNCHANGED << live, heaps, memory, lease, input, frame >>
          /\ status' \in {status, "failed"} /\ hand'[w].heap = Null
          /\ pc[w] = "run" /\ pc'[w] = "top"
      BY <2>8, <3>1 DEF RunEnd, Finish, Empty
    <3>5. ~Outside(w) /\ ~Outside(w)'
      BY <3>4 DEF Outside, Allocating
    <3> QED BY <2>b, <2>c, <3>3, <3>4, <3>5 DEF HeapInv
  <2>9. ASSUME NEW k \in Jobs, ScanDoomed(w, k) PROVE HeapInv'
    <3>1. Open(k) /\ Finish(k, "cancelled")
      BY <2>9 DEF ScanDoomed, Pending, Open
    <3>2. OpenJobs' \subseteq OpenJobs
      BY <3>1, OneLess DEF Finish
    <3> QED BY <2>9, <3>1, <3>2, HeapsAlone DEF ScanDoomed, Finish
  <2>10. ASSUME NEW k \in Jobs, ScanPick(w, k) PROVE HeapInv'
    <3>1. /\ UNCHANGED << live, heaps, memory, lease, input, frame, status >>
          /\ pc[w] = "scan" /\ pc'[w] = "run"
          /\ hand'[w].heap = memory /\ hand'[w].lease = lease
      BY <2>10 DEF ScanPick
    <3>2. OpenJobs' \subseteq OpenJobs
      BY <2>10 DEF ScanPick, Pending, OpenJobs, Open, ArenaTypeOK, JobRecord
    <3>3. ~Outside(w) /\ ~Outside(w)'
      BY <3>1 DEF Outside, Allocating
    <3> QED BY <2>b, <2>c, <3>1, <3>2, <3>3 DEF HeapInv
  <2> QED BY <1>5, <2>1, <2>2, <2>3, <2>4, <2>5, <2>6, <2>7, <2>8, <2>9, <2>10 DEF Worker
<1> QED BY <1>1, <1>2, <1>3, <1>4, <1>5, Steps

(***************************************************************************)
(* Nothing is forgotten.                                                   *)
(***************************************************************************)

\* Past its look at the arena, with no signal since it observed the work generation.
Idling(w) == pc[w] \in {"scan", "wait"} /\ ~fresh[w]

\* What such a worker has seen to be so still is so: the steps that change it signal.
\* The reset releases the arena one step before it does.
WakeInv ==
    \A w \in Workers :
      /\ Idling(w) => ~Allocatable /\ (hpc # "jobs" => ~Reclaimable)
      /\ pc[w] = "wait" /\ ~fresh[w] =>
           \A k \in Jobs : Pending(k) => ~Doomed(k) /\ ~Met(k)

\* What is under way is in some worker's hands.
OwnerInv ==
    /\ status = "allocating" => \E w \in Workers : Allocating(w)
    /\ status = "reclaiming" => \E w \in Workers : pc[w] = "free"
    /\ \A k \in Jobs : jobs[k].status = "running" =>
         \E w \in Workers : pc[w] = "run" /\ hand[w].job = k

\* The writers of a released arena are told to end.
CancelInv ==
    released /\ id # 0 /\ hpc # "jobs" => \A k \in Jobs : Open(k) => jobs[k].cancel

\* A signal leaves no worker idling.
LEMMA Woken == ASSUME signalWork PROVE WakeInv'
BY DEF signalWork, WakeInv, Idling

\* What a worker cannot allocate or reclaim, and the writers it cannot run, need a
\* signal to change, but for a reset's release.
LEMMA WakeStep == ASSUME Polls, ArenaInv, WakeInv, [Next]_vars PROVE WakeInv'
<1> USE DEF callVars, jobVars, hostVars, workerVars, GoTo
<1> ArenaTypeOK /\ StatusInv
  BY DEF ArenaInv
<1>a. ASSUME UNCHANGED << id, status, released, refs, jobs, pc, fresh >>,
             hpc' # "jobs" => hpc # "jobs"
      PROVE  WakeInv'
  BY <1>a DEF WakeInv, Idling, Allocatable, Reclaimable, Pending, Doomed, Met
<1>1. CASE Aside
  <2>1. UNCHANGED << id, status, released, refs, jobs, pc, fresh >>
    BY <1>1 DEF Aside, Request, FrameBegin, FrameEnd, ResetEpoch, vars
  <2>2. hpc' # "jobs" => hpc # "jobs"
    BY <1>1 DEF Aside, Request, FrameBegin, FrameEnd, ResetEpoch, vars
  <2> QED BY <1>a, <2>1, <2>2
<1>2. CASE OnArena
  <2>1. CASE \/ \E g \in 0..bank, cloned \in BOOLEAN : Create(g, cloned)
             \/ \E fromGraphics \in BOOLEAN : Adopt(fromGraphics)
    BY <2>1, Woken DEF Create, Adopt
  <2>2. CASE CopyIn \/ Commit
    BY <1>a, <2>2 DEF CopyIn, Commit
  <2>3. CASE Seal \/ Invalidate
    <3>1. ~released /\ ~released' /\ status' \in {"sealed", "failed"}
      BY <2>3 DEF Seal, Invalidate, Addressed
    <3>2. UNCHANGED << jobs, pc, fresh >>
      BY <2>3 DEF Seal, Invalidate
    <3> QED BY <3>1, <3>2 DEF WakeInv, Idling, Allocatable, Reclaimable, Pending, Doomed, Met
  <2>4. CASE ResetArena
    BY <2>4 DEF ResetArena, WakeInv, Idling, Allocatable, Pending, Doomed, Met
  <2> QED BY <1>2, <2>1, <2>2, <2>3, <2>4 DEF OnArena
<1>3. CASE Cancels
  BY <1>3, Woken DEF Cancels, Release, ResetJobs, Cancel
<1>4. CASE Submits
  BY <1>4, Woken DEF Submits, Submit
<1>5. ASSUME NEW w \in Workers, Worker(w) PROVE WakeInv'
  <2> pc \in [Workers -> PcPlaces] /\ fresh \in [Workers -> BOOLEAN]
    BY DEF ArenaTypeOK
  <2>1. CASE AllocStore(w) \/ RunEnd(w) \/ \E k \in Jobs : ScanDoomed(w, k)
    BY <2>1, Woken DEF AllocStore, RunEnd, ScanDoomed, Finish
  \* The worker goes somewhere it does not idle, and leaves the others what they saw.
  <2>2. ASSUME UNCHANGED << id, released, refs, jobs, hpc >>,
               ~Allocatable => ~Allocatable', ~Reclaimable => ~Reclaimable',
               pc'[w] \notin {"scan", "wait"},
               \A v \in Workers \ {w} : pc'[v] = pc[v] /\ fresh'[v] = fresh[v]
        PROVE  WakeInv'
    BY <2>2 DEF WakeInv, Idling, Pending, Doomed, Met
  <2>3. CASE Observe(w) \/ AllocHeap(w) \/ AllocCopy(w)
    <3>1. /\ UNCHANGED << id, status, released, refs, jobs, hpc >>
          /\ pc'[w] \notin {"scan", "wait"}
          /\ \A v \in Workers \ {w} : pc'[v] = pc[v] /\ fresh'[v] = fresh[v]
      BY <2>3 DEF Observe, AllocHeap, AllocCopy
    <3> QED BY <2>2, <3>1 DEF Allocatable, Reclaimable
  <2>4. CASE ReclaimTake(w) \/ AllocTake(w)
    <3>1. /\ UNCHANGED << id, released, refs, jobs, hpc >>
          /\ status' \in {"allocating", "reclaiming"}
          /\ pc'[w] \notin {"scan", "wait"}
          /\ \A v \in Workers \ {w} : pc'[v] = pc[v] /\ fresh'[v] = fresh[v]
      BY <2>4 DEF ReclaimTake, AllocTake
    <3> QED BY <2>2, <3>1 DEF Allocatable, Reclaimable
  <2>5. CASE ReclaimEnd(w)
    <3>1. ~Allocatable' /\ ~Reclaimable' /\ pc'[w] = "scan"
          /\ UNCHANGED << jobs, fresh >>
          /\ \A v \in Workers \ {w} : pc'[v] = pc[v]
      BY <2>5 DEF ReclaimEnd, Allocatable, Reclaimable
    <3> QED BY <3>1 DEF WakeInv, Pending, Doomed, Met
  <2>6. CASE LookOn(w)
    <3>1. ~Allocatable /\ ~Reclaimable /\ pc'[w] = "scan"
          /\ UNCHANGED << id, status, released, refs, jobs, fresh, hpc >>
          /\ \A v \in Workers \ {w} : pc'[v] = pc[v]
      BY <2>6 DEF LookOn
    <3> QED BY <3>1 DEF WakeInv, Idling, Allocatable, Reclaimable, Pending, Doomed, Met
  <2>7. CASE ScanNothing(w)
    <3>1. /\ \A k \in Jobs : Pending(k) => ~Doomed(k) /\ ~Met(k)
          /\ pc[w] = "scan" /\ pc'[w] = "wait"
          /\ UNCHANGED << id, status, released, refs, jobs, fresh, hpc >>
          /\ \A v \in Workers \ {w} : pc'[v] = pc[v]
      BY <2>7 DEF ScanNothing
    <3> QED BY <3>1 DEF WakeInv, Idling, Allocatable, Reclaimable, Pending, Doomed, Met
  <2>8. ASSUME NEW k \in Jobs, ScanPick(w, k) PROVE WakeInv'
    <3>1. /\ UNCHANGED << id, status, released, refs, fresh, hpc >>
          /\ pc'[w] = "run"
          /\ \A v \in Workers \ {w} : pc'[v] = pc[v]
      BY <2>8 DEF ScanPick
    <3>2. /\ \A l \in Jobs \ {k} : jobs'[l] = jobs[l]
          /\ jobs[k].status = "pending" /\ jobs'[k].status = "running"
      BY <2>8 DEF ScanPick, Pending, ArenaTypeOK, JobRecord
    <3>3. ASSUME NEW v \in Workers, pc'[v] = "wait", ~fresh'[v], NEW l \in Jobs, Pending(l)'
          PROVE  ~Doomed(l)' /\ ~Met(l)'
      <4>1. v # w /\ l # k /\ pc[v] = "wait" /\ ~fresh[v]
        BY <3>1, <3>2, <3>3 DEF Pending
      <4>2. jobs'[l] = jobs[l] /\ ~Doomed(l) /\ ~Met(l)
        BY <3>2, <3>3, <4>1 DEF WakeInv, Pending
      <4>3. jobs[l].after # 0 /\ jobs[jobs[l].after].status # "succeeded"
        BY <4>2 DEF Met
      <4>4. CASE jobs[l].after = k
        BY <3>2, <4>2, <4>3, <4>4 DEF Doomed, Met
      <4>5. CASE jobs[l].after # k
        <5>1. jobs[l].after \in Jobs
          BY <4>3 DEF ArenaTypeOK, JobRecord, Jobs
        <5>2. jobs'[jobs[l].after] = jobs[jobs[l].after]
          BY <3>2, <4>5, <5>1
        <5> QED BY <4>2, <4>3, <5>1, <5>2 DEF Doomed, Met
      <4> QED BY <4>4, <4>5
    <3> QED BY <3>1, <3>3 DEF WakeInv, Idling, Allocatable, Reclaimable
  <2> QED BY <1>5, <2>1, <2>3, <2>4, <2>5, <2>6, <2>7, <2>8 DEF Worker
<1> QED BY <1>1, <1>2, <1>3, <1>4, <1>5, Steps

\* What is under way stays in some worker's hands until it ends.
LEMMA OwnerStep == ASSUME Polls, ArenaInv, OwnerInv, [Next]_vars PROVE OwnerInv'
<1> USE DEF callVars, jobVars, hostVars, workerVars, GoTo
<1> ArenaTypeOK /\ StatusInv
  BY DEF ArenaInv
<1>a. ASSUME UNCHANGED << pc, hand >>,
             status' \in {"allocating", "reclaiming"} => status' = status,
             \A k \in Jobs : jobs'[k].status = "running" => jobs[k].status = "running"
      PROVE  OwnerInv'
  BY <1>a DEF OwnerInv, Allocating
<1>1. CASE Aside
  BY <1>a, <1>1 DEF Aside, Request, FrameBegin, FrameEnd, ResetEpoch, vars
<1>2. CASE OnArena
  BY <1>a, <1>2 DEF OnArena, Create, CopyIn, Seal, Invalidate, Commit, ResetArena, Adopt
<1>3. CASE Cancels
  BY <1>a, <1>3, CancelMarks
<1>4. CASE Submits
  <2>1. UNCHANGED << pc, hand, status >>
    BY <1>4 DEF Submits, Submit
  <2>2. \A k \in Jobs : jobs'[k].status = "running" => jobs[k].status = "running"
    BY <1>4 DEF Submits, Submit, ArenaTypeOK
  <2> QED BY <1>a, <2>1, <2>2
<1>5. ASSUME NEW w \in Workers, Worker(w) PROVE OwnerInv'
  <2> pc \in [Workers -> PcPlaces] /\ hand \in [Workers -> HandRecord]
    BY DEF ArenaTypeOK
  <2>a. /\ Allocating(w) => status = "allocating"
        /\ pc[w] = "free" => status = "reclaiming"
        /\ \A v \in Workers : Outside(v) /\ Outside(w) => v = w
    BY DEF StatusInv
  \* The worker runs nothing before or after, and the others go on as they were.
  <2>b. ASSUME jobs' = jobs, pc[w] # "run", pc'[w] # "run",
               \A v \in Workers \ {w} : pc'[v] = pc[v] /\ hand'[v] = hand[v],
               status' = "allocating" =>
                 Allocating(w)' \/ (status = "allocating" /\ ~Allocating(w)),
               status' = "reclaiming" =>
                 pc'[w] = "free" \/ (status = "reclaiming" /\ pc[w] # "free")
        PROVE  OwnerInv'
    <3>1. \A k \in Jobs : jobs'[k].status = "running" =>
            \E v \in Workers : pc'[v] = "run" /\ hand'[v].job = k
      BY <2>b DEF OwnerInv
    <3>2. status' = "allocating" => \E v \in Workers : Allocating(v)'
      BY <2>b DEF OwnerInv, Allocating
    <3>3. status' = "reclaiming" => \E v \in Workers : pc'[v] = "free"
      BY <2>b DEF OwnerInv
    <3> QED BY <3>1, <3>2, <3>3 DEF OwnerInv
  <2>1. CASE Observe(w) \/ LookOn(w) \/ ScanNothing(w)
    <3>1. /\ UNCHANGED << status, jobs, hand >>
          /\ pc[w] \in {"top", "look", "scan", "wait"}
          /\ pc'[w] \in {"look", "scan", "wait"}
          /\ \A v \in Workers \ {w} : pc'[v] = pc[v]
      BY <2>1 DEF Observe, LookOn, ScanNothing
    <3> QED BY <2>b, <3>1 DEF Allocating
  <2>2. CASE ReclaimTake(w)
    <3>1. /\ status' = "reclaiming" /\ jobs' = jobs /\ pc[w] = "look" /\ pc'[w] = "free"
          /\ \A v \in Workers \ {w} : pc'[v] = pc[v] /\ hand'[v] = hand[v]
      BY <2>2 DEF ReclaimTake
    <3> QED BY <2>b, <3>1
  <2>3. CASE ReclaimEnd(w)
    <3>1. /\ status' = "none" /\ jobs' = jobs /\ pc[w] = "free" /\ pc'[w] = "scan"
          /\ \A v \in Workers \ {w} : pc'[v] = pc[v] /\ hand'[v] = hand[v]
      BY <2>3 DEF ReclaimEnd
    <3> QED BY <2>b, <3>1
  <2>4. CASE AllocTake(w) \/ AllocHeap(w) \/ AllocCopy(w)
    <3>1. /\ status' \in {status, "allocating"} /\ jobs' = jobs
          /\ pc[w] \in {"look", "calloc", "copy"}
          /\ pc'[w] \in {"calloc", "copy", "copied", "failed"}
          /\ \A v \in Workers \ {w} : pc'[v] = pc[v] /\ hand'[v] = hand[v]
      BY <2>4 DEF AllocTake, AllocHeap, AllocCopy
    <3>2. Allocating(w)' /\ pc[w] # "run" /\ pc'[w] # "run" /\ pc[w] # "free"
      BY <3>1 DEF Allocating
    <3>3. status' = "reclaiming" => status = "reclaiming"
      BY <3>1
    <3> QED BY <2>b, <3>1, <3>2, <3>3
  <2>5. CASE AllocStore(w)
    <3>1. /\ status' \in {"sealed", "input", "failed"} /\ jobs' = jobs
          /\ pc[w] \in {"copied", "failed"} /\ pc'[w] = "top"
          /\ \A v \in Workers \ {w} : pc'[v] = pc[v] /\ hand'[v] = hand[v]
      BY <2>5 DEF AllocStore
    <3> QED BY <2>b, <3>1
  <2>6. CASE RunEnd(w)
    <3>1. PICK final \in {"succeeded", "failed", "cancelled"} : Finish(hand[w].job, final)
      BY <2>6 DEF RunEnd
    <3>2. /\ pc[w] = "run" /\ pc'[w] = "top"
          /\ \A v \in Workers \ {w} : pc'[v] = pc[v] /\ hand'[v] = hand[v]
      BY <2>6 DEF RunEnd
    <3>3. hand[w].job \in Jobs
      BY <3>2 DEF ArenaInv, RunInv
    <3>4. /\ \A k \in Jobs \ {hand[w].job} : jobs'[k] = jobs[k]
          /\ jobs'[hand[w].job].status # "running"
          /\ status' \in {status, "failed"}
      BY <3>1, <3>3 DEF Finish, ArenaTypeOK, JobRecord
    <3>5. \A k \in Jobs : jobs'[k].status = "running" =>
            \E v \in Workers : pc'[v] = "run" /\ hand'[v].job = k
      BY <3>2, <3>4 DEF OwnerInv
    <3>6. status' = "allocating" => \E v \in Workers : Allocating(v)'
      BY <3>2, <3>4 DEF OwnerInv, Allocating
    <3>7. status' = "reclaiming" => \E v \in Workers : pc'[v] = "free"
      BY <3>2, <3>4 DEF OwnerInv
    <3> QED BY <3>5, <3>6, <3>7 DEF OwnerInv
  <2>7. ASSUME NEW k \in Jobs, ScanDoomed(w, k) PROVE OwnerInv'
    <3>1. /\ \A l \in Jobs : jobs'[l].status = "running" => jobs[l].status = "running"
          /\ status' = "failed"
      BY <2>7 DEF ScanDoomed, Finish, ArenaTypeOK, JobRecord
    <3>2. UNCHANGED << pc, hand >>
      BY <2>7 DEF ScanDoomed
    <3> QED BY <1>a, <3>1, <3>2
  <2>8. ASSUME NEW k \in Jobs, ScanPick(w, k) PROVE OwnerInv'
    <3>1. /\ \A l \in Jobs \ {k} : jobs'[l] = jobs[l]
          /\ status' = status /\ pc[w] = "scan" /\ pc'[w] = "run" /\ hand'[w].job = k
          /\ \A v \in Workers \ {w} : pc'[v] = pc[v] /\ hand'[v] = hand[v]
      BY <2>8 DEF ScanPick, ArenaTypeOK
    <3>2. \A l \in Jobs : jobs'[l].status = "running" =>
            \E v \in Workers : pc'[v] = "run" /\ hand'[v].job = l
      BY <3>1 DEF OwnerInv
    <3>3. status' = "allocating" => \E v \in Workers : Allocating(v)'
      BY <3>1 DEF OwnerInv, Allocating
    <3>4. status' = "reclaiming" => \E v \in Workers : pc'[v] = "free"
      BY <3>1 DEF OwnerInv
    <3> QED BY <3>2, <3>3, <3>4 DEF OwnerInv
  <2> QED BY <1>5, <2>1, <2>2, <2>3, <2>4, <2>5, <2>6, <2>7, <2>8 DEF Worker
<1> QED BY <1>1, <1>2, <1>3, <1>4, <1>5, Steps

\* A released arena's writers have been told to end, by Release or by the reset.
LEMMA CancelStep == ASSUME Polls, ArenaInv, CancelInv, [Next]_vars PROVE CancelInv'
<1> USE DEF callVars, jobVars, hostVars, workerVars
<1> ArenaTypeOK /\ StatusInv
  BY DEF ArenaInv
<1>a. ASSUME released' => released, id' \in {0, id}, hpc' # "jobs" => hpc # "jobs",
             \A k \in Jobs : Open(k)' => Open(k) /\ jobs'[k].cancel = jobs[k].cancel
      PROVE  CancelInv'
  BY <1>a DEF CancelInv
<1>1. CASE Aside
  BY <1>a, <1>1 DEF Aside, Request, FrameBegin, FrameEnd, ResetEpoch, vars, Open
<1>2. CASE OnArena
  <2>1. CASE \E g \in 0..bank, cloned \in BOOLEAN : Create(g, cloned)
    BY <2>1 DEF Create, CancelInv
  <2>2. CASE \E fromGraphics \in BOOLEAN : Adopt(fromGraphics)
    <3>1. OpenJobs = {} /\ jobs' = jobs
      BY <2>2, NoneOpen DEF Adopt
    <3> QED BY <3>1 DEF CancelInv, OpenJobs, Open
  <2>3. CASE CopyIn \/ Seal \/ Invalidate \/ Commit
    BY <1>a, <2>3 DEF CopyIn, Seal, Invalidate, Commit, Open
  <2>4. CASE ResetArena
    BY <2>4 DEF ResetArena, CancelInv
  <2> QED BY <1>2, <2>1, <2>2, <2>3, <2>4 DEF OnArena
<1>3. CASE Cancels
  <2>1. CASE Release \/ ResetJobs
    BY <2>1 DEF Release, ResetJobs, CancelInv, Open, ArenaTypeOK, JobRecord
  <2>2. ASSUME NEW k \in Jobs, Cancel(k) PROVE CancelInv'
    <3>1. \A l \in Jobs : Open(l)' => Open(l) /\ (jobs[l].cancel => jobs'[l].cancel)
      BY <2>2 DEF Cancel, Open, ArenaTypeOK, JobRecord
    <3> QED BY <2>2, <3>1 DEF Cancel, CancelInv
  <2> QED BY <1>3, <2>1, <2>2 DEF Cancels
<1>4. CASE Submits
  BY <1>4 DEF Submits, Submit, Addressed, CancelInv
<1>5. ASSUME NEW w \in Workers, Worker(w) PROVE CancelInv'
  <2>1. UNCHANGED << released, hpc >> /\ id' \in {0, id}
    BY <1>5 DEF Worker, Observe, ReclaimTake, ReclaimEnd, AllocTake, AllocHeap, AllocCopy,
                AllocStore, LookOn, ScanNothing, RunEnd, ScanDoomed, ScanPick
  <2>2. CASE jobs' = jobs
    BY <1>a, <2>1, <2>2 DEF Open
  <2>3. ASSUME NEW k \in Jobs, Open(k), NEW next, jobs' = [jobs EXCEPT ![k].status = next]
        PROVE  CancelInv'
    <3>1. \A l \in Jobs : Open(l)' => Open(l) /\ jobs'[l].cancel = jobs[l].cancel
      BY <2>3 DEF Open, ArenaTypeOK, JobRecord
    <3> QED BY <1>a, <2>1, <3>1
  <2>4. CASE RunEnd(w)
    <3>1. hand[w].job \in Jobs /\ Open(hand[w].job)
      BY <2>4 DEF RunEnd, ArenaInv, RunInv, Open
    <3>2. PICK final \in {"succeeded", "failed", "cancelled"} : Finish(hand[w].job, final)
      BY <2>4 DEF RunEnd
    <3> QED BY <2>3, <3>1, <3>2 DEF Finish
  <2>5. ASSUME NEW k \in Jobs, ScanDoomed(w, k) \/ ScanPick(w, k) PROVE CancelInv'
    BY <2>3, <2>5 DEF ScanDoomed, ScanPick, Finish, Pending, Open
  <2>6. CASE \/ Observe(w) \/ ReclaimTake(w) \/ ReclaimEnd(w) \/ AllocTake(w) \/ AllocHeap(w)
             \/ AllocCopy(w) \/ AllocStore(w) \/ LookOn(w) \/ ScanNothing(w)
    <3>1. jobs' = jobs
      BY <2>6 DEF Observe, ReclaimTake, ReclaimEnd, AllocTake, AllocHeap, AllocCopy,
                  AllocStore, LookOn, ScanNothing
    <3> QED BY <2>2, <3>1
  <2> QED BY <1>5, <2>4, <2>5, <2>6 DEF Worker
<1> QED BY <1>1, <1>2, <1>3, <1>4, <1>5, Steps

(***************************************************************************)
(* The theorems.                                                           *)
(***************************************************************************)

\* The invariant holds before the first arena.
LEMMA ArenaInvInit == Init => ArenaInv
<1> SUFFICES ASSUME Init PROVE ArenaInv
  OBVIOUS
<1> USE DEF Init
<1>1. ArenaTypeOK
  <2>1. /\ \A k \in Jobs : jobs[k] \in JobRecord
        /\ jobs = [k \in Jobs |-> jobs[k]]
    BY ArenaAssumption DEF Absent, JobRecord, ArenaAssumption
  <2>2. \A w \in Workers : hand[w] \in HandRecord /\ pc[w] \in PcPlaces
    BY ArenaAssumption DEF Empty, HandRecord, PcPlaces, ArenaAssumption
  <2>3. /\ jobs \in [Jobs -> JobRecord] /\ pc \in [Workers -> PcPlaces]
        /\ hand \in [Workers -> HandRecord] /\ fresh \in [Workers -> BOOLEAN]
    BY <2>1, <2>2
  <2>4. /\ 0 \in Nat /\ 1 \in 1..(MaxResets + 1) /\ 1 \in 1..MaxBanks
        /\ 0 \in 0..MaxArenas /\ 0 \in 0..(MaxResets + 1) /\ 0 \in 0..MaxBanks /\ 0 \in 0..MaxJobs
    BY ArenaAssumption DEF ArenaAssumption
  <2> QED BY <2>3, <2>4 DEF ArenaTypeOK, Statuses
<1>2. \A k \in Jobs : jobs[k].status = "none" /\ jobs[k].arena = 0 /\ k > 0
  BY ArenaAssumption DEF Absent, Jobs, ArenaAssumption
<1>3. \A w \in Workers : pc[w] = "top" /\ hand[w].heap = Null
  BY DEF Empty
<1>4. OpenJobs = {}
  BY <1>2 DEF OpenJobs, Open
<1>5. StatusInv
  BY <1>3 DEF StatusInv, Outside, Allocating
<1>6. JobInv
  BY <1>2, <1>4, OpenFinite DEF JobInv, Open
<1>7. ChainInv /\ OrderInv /\ SealedInv /\ RunInv
  BY <1>2, <1>3 DEF ChainInv, OrderInv, SealedInv, RunInv
<1>8. HeapInv
  BY <1>3, <1>4, ArenaAssumption DEF HeapInv, Outside, Allocating, ArenaAssumption
<1> QED BY <1>1, <1>5, <1>6, <1>7, <1>8 DEF ArenaInv

\* A step keeps the invariant.
LEMMA ArenaInvStep == ASSUME Polls, ArenaInv, [Next]_vars PROVE ArenaInv'
BY TypeStep, StatusStep, JobStep, ChainStep, OrderStep, SealedStep, RunStep, HeapStep DEF ArenaInv

\* A set within a singleton has one element at most.
LEMMA AtMostOne == ASSUME NEW S, NEW x, S \subseteq {x} PROVE Cardinality(S) <= 1
<1>1. IsFiniteSet({x}) /\ Cardinality({x}) = 1
  BY FS_Singleton
<1>2. Cardinality(S) <= Cardinality({x})
  BY <1>1, FS_Subset
<1> QED BY <1>1, <1>2

\* What the worker's sections, the script's calls, the reset and the host keep together.
THEOREM ArenaInvariant == ASSUME Polls PROVE Spec => []ArenaInv
<1>1. ArenaInv /\ [Next]_vars => ArenaInv'
  BY ArenaInvStep
<1> QED BY <1>1, ArenaInvInit, PTL DEF Spec

\* The arena of JsfxTasks.h keeps its types whatever workers, script and host do.
THEOREM ArenaTypes == ASSUME Polls PROVE Spec => []ArenaTypeOK
<1>1. ArenaInv => ArenaTypeOK
  BY DEF ArenaInv
<1> QED BY <1>1, ArenaInvariant, PTL

\* A writer in run has the arena's heap to itself: the chain orders the writers, and
\* refs keeps the arena from being allocated or reclaimed meanwhile.
THEOREM OneWriter == ASSUME Polls PROVE Spec => []SingleWriter
<1>1. ASSUME ArenaInv PROVE SingleWriter
  <2> StatusInv /\ JobInv /\ OrderInv /\ RunInv
    BY <1>1 DEF ArenaInv
  <2> SUFFICES ASSUME NEW w \in Workers, pc[w] = "run", NEW v \in Workers \ {w}
               PROVE  pc[v] # "run" /\ ~Outside(v)
    BY DEF SingleWriter, Outside, Allocating
  <2> DEFINE k == hand[w].job
             l == hand[v].job
  <2>1. k \in Jobs /\ jobs[k].status = "running"
    BY DEF RunInv
  <2>2. jobs[k].arena = id /\ status \in {"sealed", "failed"} /\ id # 0
    BY <2>1 DEF JobInv, Open, StatusInv
  <2>3. ~Outside(v)
    BY <2>2 DEF StatusInv, Outside
  <2>4. ASSUME pc[v] = "run" PROVE FALSE
    <3>1. l \in Jobs /\ jobs[l].status = "running" /\ l # k
      BY <2>4 DEF RunInv
    <3>2. jobs[l].arena = id
      BY <3>1 DEF JobInv, Open
    <3>3. k < l \/ l < k
      BY <2>1, <3>1, ArenaAssumption DEF Jobs, ArenaAssumption
    <3> QED BY <2>1, <2>2, <3>1, <3>2, <3>3 DEF OrderInv
  <2> QED BY <2>3, <2>4
<1> QED BY <1>1, ArenaInvariant, PTL

\* No step of reclamation, adoption or a graphics frame frees a heap in use.
THEOREM HeapsAreKept == ASSUME Polls PROVE Spec => []HeapInUseIsKept
<1>1. ASSUME ArenaInv PROVE HeapInUseIsKept
  <2> ArenaTypeOK /\ StatusInv /\ HeapInv /\ RunInv
    BY <1>1 DEF ArenaInv
  <2>1. ASSUME NEW w \in Workers, pc[w] = "run"
        PROVE  hand[w].heap = memory /\ memory \in heaps /\ hand[w].lease = lease
    <3>1. memory # Null
      BY <1>1, <2>1, NoneRuns DEF HeapInv
    <3> QED BY <2>1, <3>1 DEF HeapInv
  <2>2. ASSUME NEW w \in Workers, pc[w] = "copy" PROVE input \in heaps
    BY <2>2 DEF StatusInv, Allocating, HeapInv
  <2>3. ASSUME NEW w \in Workers, pc[w] = "free", hand[w].heap # Null
        PROVE  hand[w].heap \notin {live, memory}
    <3>1. memory = Null
      BY <2>3 DEF StatusInv, HeapInv
    <3> QED BY <2>3, <3>1 DEF HeapInv, Outside
  <2> QED BY <2>1, <2>2, <2>3 DEF HeapInUseIsKept, HeapInv
<1> QED BY <1>1, ArenaInvariant, PTL

\* Without an arena only the live heap is allocated.
THEOREM NoneLost == ASSUME Polls PROVE Spec => []NoHeapLost
<1>1. ASSUME ArenaInv PROVE NoHeapLost
  <2> SUFFICES ASSUME id = 0 PROVE memory = Null /\ heaps = {live}
    BY DEF NoHeapLost
  <2> ArenaTypeOK /\ StatusInv /\ HeapInv
    BY <1>1 DEF ArenaInv
  <2>1. status = "none" /\ memory = Null
    BY DEF StatusInv, HeapInv
  <2>2. \A w \in Workers : ~Outside(w)
    BY <2>1 DEF StatusInv, Outside
  <2>3. \A h \in heaps : h # Null
    BY ArenaAssumption DEF ArenaTypeOK, ArenaAssumption
  <2> QED BY <2>1, <2>2, <2>3 DEF HeapInv
<1> QED BY <1>1, ArenaInvariant, PTL

\* A script that polls never makes the instance hold more than one heap beside the
\* live one; the run arena_early shows that one that does not poll can.
THEOREM OneHeap == ASSUME Polls PROVE Spec => []OneArenaHeap
<1>1. ASSUME ArenaInv PROVE OneArenaHeap
  <2> ArenaTypeOK /\ StatusInv /\ HeapInv
    BY <1>1 DEF ArenaInv
  <2>0. \A h \in heaps : h # Null
    BY ArenaAssumption DEF ArenaTypeOK, ArenaAssumption
  <2>1. CASE \E w \in Workers : Outside(w)
    <3> PICK w \in Workers : Outside(w)
      BY <2>1
    <3>1. memory = Null
      BY DEF StatusInv, HeapInv, Outside
    <3>2. \A v \in Workers : Outside(v) => v = w
      BY DEF StatusInv
    <3>3. heaps \ {live} \subseteq {hand[w].heap}
      BY <2>0, <3>1, <3>2 DEF HeapInv
    <3> QED BY <3>3, AtMostOne DEF OneArenaHeap
  <2>2. CASE \A w \in Workers : ~Outside(w)
    <3>1. heaps \ {live} \subseteq {memory}
      BY <2>2 DEF HeapInv
    <3> QED BY <3>1, AtMostOne DEF OneArenaHeap
  <2> QED BY <2>1, <2>2
<1> QED BY <1>1, ArenaInvariant, PTL

\* Results are taken of arenas all of whose writers have succeeded.
THEOREM CompleteResults == ASSUME Polls PROVE Spec => ResultsAreComplete
<1>1. ASSUME ArenaInv, [Next]_vars
      PROVE  [ \A a \in taken' \ taken : \A k \in Jobs :
                 jobs[k].arena = a => jobs[k].status = "succeeded" ]_vars
  <2> SUFFICES ASSUME NEW a \in taken' \ taken, NEW k \in Jobs, jobs[k].arena = a
               PROVE  jobs[k].status = "succeeded"
    OBVIOUS
  <2> ArenaTypeOK /\ StatusInv /\ JobInv /\ SealedInv
    BY <1>1 DEF ArenaInv
  <2>1. a = id /\ id # 0 /\ status = "sealed" /\ refs = 0
    <3>1. CASE Aside
      BY <3>1 DEF Aside, Request, FrameBegin, FrameEnd, ResetEpoch, vars
    <3>2. CASE OnArena
      BY <3>2 DEF OnArena, Create, CopyIn, Seal, Invalidate, Commit, ResetArena, Adopt, Addressed
    <3>3. CASE Cancels
      BY <3>3, CancelMarks
    <3>4. CASE Submits
      BY <3>4 DEF Submits, Submit
    <3>5. ASSUME NEW w \in Workers, Worker(w) PROVE FALSE
      BY <3>5 DEF Worker, Observe, ReclaimTake, ReclaimEnd, AllocTake, AllocHeap, AllocCopy,
                  AllocStore, LookOn, ScanNothing, RunEnd, ScanDoomed, ScanPick
    <3> QED BY <1>1, <3>1, <3>2, <3>3, <3>4, <3>5, Steps
  <2>2. OpenJobs = {}
    BY <1>1, <2>1, NoneOpen
  <2>3. jobs[k].status \notin {"pending", "running", "none"}
    BY <2>1, <2>2 DEF OpenJobs, Open, JobInv
  <2>4. jobs[k].status \notin {"failed", "cancelled"}
    BY <2>1 DEF SealedInv
  <2>5. jobs[k].status \in {"none", "pending", "running", "succeeded", "failed", "cancelled"}
    BY DEF ArenaTypeOK, JobRecord
  <2> QED BY <2>3, <2>4, <2>5
<1> QED BY <1>1, ArenaInvariant, PTL DEF Spec, ResultsAreComplete

\* No wakeup of Runtime::run is lost: the workers never all sleep over an arena to
\* allocate or to reclaim, or a writer to run or to cancel.
THEOREM NothingIsForgotten == ASSUME Polls PROVE Spec => []NothingForgotten
<1>1. Init => WakeInv /\ OwnerInv /\ CancelInv
  <2> SUFFICES ASSUME Init PROVE WakeInv /\ OwnerInv /\ CancelInv
    OBVIOUS
  <2>1. /\ \A w \in Workers : pc[w] = "top"
        /\ \A k \in Jobs : jobs[k].status = "none"
        /\ status = "none" /\ id = 0
    BY DEF Init, Absent
  <2> QED BY <2>1 DEF WakeInv, Idling, OwnerInv, CancelInv
<1>2. ArenaInv /\ WakeInv /\ OwnerInv /\ CancelInv /\ [Next]_vars =>
        WakeInv' /\ OwnerInv' /\ CancelInv'
  BY WakeStep, OwnerStep, CancelStep
<1>3. ASSUME ArenaInv, WakeInv, OwnerInv, CancelInv PROVE NothingForgotten
  <2> SUFFICES ASSUME \A w \in Workers : pc[w] = "wait" /\ ~fresh[w], hpc = "idle"
               PROVE  /\ ~Allocatable
                      /\ ~(id # 0 /\ released)
                      /\ \A k \in Jobs : Pending(k) => ~Doomed(k) /\ ~Met(k)
    BY DEF NothingForgotten
  <2> PICK w \in Workers : TRUE
    BY ArenaAssumption DEF ArenaAssumption
  <2>1. ~Allocatable /\ ~Reclaimable /\ \A k \in Jobs : Pending(k) => ~Doomed(k) /\ ~Met(k)
    BY <1>3 DEF WakeInv, Idling
  <2>2. ASSUME id # 0, released PROVE FALSE
    <3>1. status \notin {"allocating", "reclaiming"}
      BY <1>3 DEF OwnerInv, Allocating
    <3>2. refs # 0
      BY <2>1, <2>2, <3>1 DEF Reclaimable
    <3>3. PICK k \in Jobs : Open(k)
      BY <1>3, <3>2, OpenFinite DEF ArenaInv, JobInv, OpenJobs
    <3>4. jobs[k].cancel
      BY <1>3, <2>2, <3>3 DEF CancelInv
    <3>5. jobs[k].status = "pending"
      BY <1>3, <3>3 DEF Open, OwnerInv
    <3> QED BY <2>1, <3>4, <3>5 DEF Pending, Doomed
  <2> QED BY <2>1, <2>2
<1> QED BY <1>1, <1>2, <1>3, ArenaInvariant, PTL DEF Spec

=============================================================================

------------------------------ MODULE SamplePool ------------------------------
(***************************************************************************)
(* The sample pool (src/DspJsfxSamplePool.cpp): clients commit file or     *)
(* in-memory selections, one worker thread decodes the newest of them into *)
(* a generation, publishes it through SamplePoolStorage and reports its    *)
(* state.  commitMutex_ serialises commits; a commit overwrites a request  *)
(* the worker has not picked up yet; the worker also wakes every 25 ms to  *)
(* adopt and reclaim.                                                      *)
(*                                                                         *)
(* Decoding is abstracted: a source is the record of the options a commit  *)
(* compares and of what decoding it yields.  buildGeneration never returns *)
(* a null generation, so the branch of publishGeneration for one is left   *)
(* out.  Destruction (the worker is joined with no client left) is not     *)
(* modelled.  What a commit announces is stored in one step, and so are    *)
(* the counts the worker reports: no property tells those stores apart.    *)
(***************************************************************************)
EXTENDS SamplePoolStorage

CONSTANTS
    Clients,   \* threads that commit
    Sources    \* what can be committed

ASSUME ActorsDiffer == Clients \cap (Pins \cup {Worker, Free}) = {}

\* gen is the source generation, options stand for mode, budget, target rate and
\* level analysis; files are selected, bad of them fail or exceed the budget.
ASSUME SourcesAreRecords ==
    Sources \subseteq [gen : Nat, kind : {"paths", "memory"}, options : Nat,
                       files : Nat, bad : Nat]

Nothing == [gen |-> 0, kind |-> "none", options |-> 0, files |-> 0, bad |-> 0]

VARIABLES
    commitLock, \* holder of commitMutex_, or Free
    cpc,        \* where each client is inside commitFromPaths / commitFromMemory
    committing, \* the source a client is committing
    reqOf,      \* Request.requestId of the commit in progress
    nextId,     \* nextRequestId_
    sourceOf,   \* the source each issued request carries
    last,       \* lastCommitted*_ : the options of the last accepted commit
    queue,      \* pendingRequest_, None when requestPending_ is false
    loop,       \* where workerMain is
    req,        \* the request workerMain took
    state,      \* state_
    selected,   \* selected_
    failed,     \* failed_
    reported    \* publishedGeneration_ : the source reported as published

poolVars == << commitLock, cpc, committing, reqOf, nextId, sourceOf, last, queue,
               loop, req, state, selected, failed, reported >>
vars == << storageVars, poolVars >>

commitVars == << commitLock, cpc, committing, reqOf, nextId, sourceOf, last >>
reportVars == << state, selected, failed, reported >>

LastId == nextId - 1
CGoto(c, from, to) == cpc[c] = from /\ cpc' = [cpc EXCEPT ![c] = to]
WGoto(from, to)    == loop = from /\ loop' = to

-----------------------------------------------------------------------------
(* commitFromPaths and commitFromMemory.                                   *)

\* A commit of what was committed last returns at once; only the generation and
\* the options are compared, never the files.
Duplicate(s) ==
    /\ s.gen # 0 /\ s.gen = last.gen
    /\ s.kind = last.kind /\ s.options = last.options

\* Mutant: commits are not serialised.
CommitBeginUnlocked(c, s) ==
    /\ CGoto(c, "idle", "number")
    /\ commitLock' = c
    /\ nextId \in Requests
    /\ ~Duplicate(s)
    /\ committing' = [committing EXCEPT ![c] = s]
    /\ UNCHANGED << storageVars, reqOf, nextId, sourceOf, last, queue, loop, req, reportVars >>

CommitBegin(c, s) ==
    /\ CGoto(c, "idle", "number")
    /\ commitLock = Free /\ commitLock' = c
    /\ nextId \in Requests   \* bound on the commits of a run
    /\ ~Duplicate(s)
    /\ committing' = [committing EXCEPT ![c] = s]
    /\ UNCHANGED << storageVars, reqOf, nextId, sourceOf, last, queue, loop, req, reportVars >>

CommitNumber(c) ==
    /\ CGoto(c, "number", "start")
    /\ nextId' = nextId + 1
    /\ reqOf' = [reqOf EXCEPT ![c] = nextId]
    /\ sourceOf' = [sourceOf EXCEPT ![nextId] = committing[c]]
    /\ UNCHANGED << storageVars, commitLock, committing, last, queue, loop, req, reportVars >>

CommitStart(c) ==
    /\ CGoto(c, "start", "announce")
    /\ RequestStarted(reqOf[c])
    /\ UNCHANGED << commitLock, committing, reqOf, nextId, sourceOf, last, queue, loop,
                    req, reportVars >>

Announced(s) == IF s.files = 0 THEN "empty"
                ELSE IF s.kind = "paths" THEN "scanning" ELSE "loading"

CommitAnnounce(c) ==
    /\ CGoto(c, "announce", "enqueue")
    /\ selected' = committing[c].files
    /\ failed' = 0
    /\ state' = Announced(committing[c])
    /\ UNCHANGED << storageVars, commitLock, committing, reqOf, nextId, sourceOf, last,
                    queue, loop, req, reported >>

\* Mutant: a request already waiting is not replaced.
CommitEnqueueIfEmpty(c) ==
    /\ CGoto(c, "enqueue", "record")
    /\ queue' = IF queue = None THEN reqOf[c] ELSE queue
    /\ UNCHANGED << storageVars, commitLock, committing, reqOf, nextId, sourceOf, last,
                    loop, req, reportVars >>

CommitEnqueue(c) ==
    /\ CGoto(c, "enqueue", "record")
    /\ queue' = reqOf[c]
    /\ UNCHANGED << storageVars, commitLock, committing, reqOf, nextId, sourceOf, last,
                    loop, req, reportVars >>

CommitRecord(c) ==
    /\ CGoto(c, "record", "idle")
    /\ commitLock' = Free
    /\ last' = committing[c]
    /\ committing' = [committing EXCEPT ![c] = Nothing]
    /\ UNCHANGED << storageVars, reqOf, nextId, sourceOf, queue, loop, req, reportVars >>

-----------------------------------------------------------------------------
(* workerMain.                                                             *)

WorkerTake ==
    /\ WGoto("wait", "load")
    /\ queue # None
    /\ req' = queue
    /\ queue' = None
    /\ UNCHANGED << storageVars, commitVars, reportVars >>

\* Mutant: the worker adopts only after it served a request.
WorkerTimeoutIdle ==
    /\ WGoto("wait", "reclaim")
    /\ queue = None
    /\ UNCHANGED << storageVars, commitVars, queue, req, reportVars >>

\* wait_for times out with nothing to do but housekeeping.
WorkerTimeout ==
    /\ WGoto("wait", "adopt")
    /\ queue = None
    /\ UNCHANGED << storageVars, commitVars, queue, req, reportVars >>

WorkerLoad ==
    /\ WGoto("load", "built")
    /\ state' = "loading"
    /\ UNCHANGED << storageVars, commitVars, queue, req, selected, failed, reported >>

Superseded(r) == r + 1 # nextId

WorkerDrop ==
    /\ Superseded(req)
    /\ WGoto("built", "adopt")
    /\ UNCHANGED << storageVars, commitVars, queue, req, reportVars >>

WorkerKeep ==
    /\ ~Superseded(req)
    /\ WGoto("built", "publish")
    /\ UNCHANGED << storageVars, commitVars, queue, req, reportVars >>

WorkerPublishStore ==
    /\ WGoto("publish", "publishing")
    /\ PublishStore(req)
    /\ UNCHANGED << commitVars, queue, req, reportVars >>

WorkerPublishRefused ==
    /\ WGoto("publish", "adopt")
    /\ mutex = Free /\ ~PublishAccepted(req)
    /\ UNCHANGED << storageVars, commitVars, queue, req, reportVars >>

WorkerPublishRoute ==
    /\ loop = "publishing"
    /\ \/ PublishDiscardPending /\ loop' = loop
       \/ (PublishDeferred \/ PublishActivate) /\ loop' = "report"
    /\ UNCHANGED << commitVars, queue, req, reportVars >>

WorkerReportCounts ==
    /\ WGoto("report", "finish")
    /\ selected' = sourceOf[req].files
    /\ failed' = sourceOf[req].bad
    /\ reported' = sourceOf[req]
    /\ UNCHANGED << storageVars, commitVars, queue, req, state >>

FinalState(s) ==
    IF s.files = s.bad THEN (IF s.files > 0 THEN "failed" ELSE "empty")
    ELSE IF s.bad > 0 THEN "partial" ELSE "ready"

WorkerReportState ==
    /\ WGoto("finish", "adopt")
    /\ state' = FinalState(sourceOf[req])
    /\ UNCHANGED << storageVars, commitVars, queue, req, selected, failed, reported >>

\* Mutant: a deferred pool does not reclaim.
WorkerSkipReclaim ==
    /\ WGoto("adopt", "wait")
    /\ deferred \/ mutex # Free
    /\ UNCHANGED << storageVars, commitVars, queue, req, reportVars >>

WorkerSkipAdopt ==
    /\ WGoto("adopt", "reclaim")
    /\ deferred \/ mutex # Free   \* deferred, or try_to_lock lost
    /\ UNCHANGED << storageVars, commitVars, queue, req, reportVars >>

WorkerAdopt ==
    /\ \/ ~deferred /\ WGoto("adopt", "adopting") /\ AdoptTake(Worker)
       \/ WGoto("adopting", "reclaim") /\ AdoptInstall(Worker)
    /\ UNCHANGED << commitVars, queue, req, reportVars >>

WorkerReclaim ==
    /\ \/ WGoto("reclaim", "reclaiming") /\ ReclaimLoad
       \/ loop = "reclaiming" /\ ReclaimDecide /\ loop' = loop
       \/ WGoto("reclaiming", "wait") /\ (ReclaimGiveUp \/ ReclaimErase)
    /\ UNCHANGED << commitVars, queue, req, reportVars >>

-----------------------------------------------------------------------------
Init ==
    /\ StorageInit
    /\ commitLock = Free
    /\ cpc = [c \in Clients |-> "idle"]
    /\ committing = [c \in Clients |-> Nothing]
    /\ reqOf = [c \in Clients |-> None]
    /\ nextId = 1
    /\ sourceOf = [r \in Requests |-> Nothing]
    /\ last = Nothing
    /\ queue = None
    /\ loop = "wait" /\ req = None
    /\ state = "empty" /\ selected = 0 /\ failed = 0
    /\ reported = Nothing

\* What audio-side clients do with the storage, whatever the worker is doing.
ClientStep ==
    /\ \E p \in Pins : Read(p) \/ Adopt(p) \/ \E v \in BOOLEAN : SetDeferred(p, v)
    /\ UNCHANGED poolVars

CommitStep(c) ==
    \/ CommitNumber(c) \/ CommitStart(c) \/ CommitAnnounce(c)
    \/ CommitEnqueue(c) \/ CommitRecord(c)

Commit(c) == CommitStep(c) \/ \E s \in Sources : CommitBegin(c, s)

WorkerStep ==
    \/ WorkerTake \/ WorkerTimeout \/ WorkerLoad \/ WorkerDrop \/ WorkerKeep
    \/ WorkerPublishStore \/ WorkerPublishRefused \/ WorkerPublishRoute
    \/ WorkerReportCounts \/ WorkerReportState
    \/ WorkerSkipAdopt \/ WorkerAdopt \/ WorkerReclaim

Next ==
    \/ ClientStep
    \/ \E c \in Clients : Commit(c)
    \/ WorkerStep

Spec == Init /\ [][Next]_vars

\* The operating system runs the worker, which gets mutex_ and workerMutex_ when
\* it waits for them (strong fairness: a client may hold mutex_ each time it
\* looks), and lets a thread inside a call of the pool finish it.  Nobody is
\* obliged to call the pool, or to stop reading.
Fairness ==
    /\ SF_vars(WorkerStep)
    /\ \A c \in Clients : WF_vars(CommitStep(c))
    /\ \A p \in Pins : WF_vars(AdoptInstall(p) /\ UNCHANGED poolVars)

FairSpec == Spec /\ Fairness

-----------------------------------------------------------------------------
States == {"empty", "scanning", "loading", "ready", "partial", "failed"}

SamplePoolTypeOK ==
    /\ StorageTypeOK
    /\ commitLock \in Clients \cup {Free}
    /\ cpc \in [Clients -> {"idle", "number", "start", "announce", "enqueue", "record"}]
    /\ committing \in [Clients -> Sources \cup {Nothing}]
    /\ reqOf \in [Clients -> Ids]
    /\ nextId \in Nat \ {0}
    /\ sourceOf \in [Requests -> Sources \cup {Nothing}]
    /\ last \in Sources \cup {Nothing} /\ reported \in Sources \cup {Nothing}
    /\ queue \in Ids /\ req \in Ids
    /\ loop \in {"wait", "load", "built", "publish", "publishing", "report", "finish",
                 "adopt", "adopting", "reclaim", "reclaiming"}
    /\ state \in States
    /\ selected \in Nat /\ failed \in Nat

Settled ==
    /\ \A c \in Clients : cpc[c] = "idle"
    /\ queue = None /\ loop = "wait"

\* Once no commit is under way and the worker has nothing to do, what was
\* published and everything the pool reports (state_, selected_, failed_,
\* publishedGeneration_) is that of the newest commit: no commit is lost in the
\* one-place queue, dropped after being superseded, or reported half with another.
SettledShowsNewest ==
    Settled /\ nextId > 1 =>
        LET s == sourceOf[LastId] IN
        /\ published = LastId
        /\ reported = s /\ last = s
        /\ selected = s.files /\ failed = s.bad
        /\ state = FinalState(s)

\* A request that has been numbered ends with its generation, or with that of a
\* later request, published (commits of a run are bounded by Requests, so they
\* do not supersede one another for ever).
CommitServed == \A r \in Requests : nextId > r ~> published >= r

\* When the client leaves deferral off, a deferred bank does not stay pending:
\* the worker's periodic adoption finishes an adoption whose try_lock lost.
PendingAdopted == <>[]~deferred => <>[](pending = None)

\* When readers stay away, every generation but the active and the pending one
\* is freed.
RetiredReclaimed == <>[](readers = 0) => <>[](generations \subseteq {active, pending})

\* "A newer request supersedes this result even if its decode has not begun":
\* the worker never reports the state of a result while a newer request is
\* already waiting in the queue, its state announced.
NewerRequestSupersedes ==
    [][(loop = "finish" /\ loop' = "adopt") => queue = None]_vars
=============================================================================

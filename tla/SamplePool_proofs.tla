--------------------------- MODULE SamplePool_proofs ---------------------------
(***************************************************************************)
(* Proofs about SamplePool for any set of clients, of pins, of requests    *)
(* and of sources: its types, that a settled pool shows the newest commit, *)
(* and that whatever commits and the worker do is a behaviour of the       *)
(* storage, so that the storage's theorems hold of the pool.               *)
(***************************************************************************)
EXTENDS SamplePool, SamplePoolStorage_proofs

(***************************************************************************)
(* The inductive invariant.                                                *)
(***************************************************************************)

\* A client inside a commit holds commitMutex_.
LockInv == \A c \in Clients : cpc[c] # "idle" <=> commitLock = c

\* A commit in progress has the newest number, and its source is that request's.
NumberInv ==
    \A c \in Clients :
      /\ cpc[c] = "number" => nextId \in Requests
      /\ cpc[c] \in {"start", "announce", "enqueue", "record"} =>
           reqOf[c] = LastId /\ LastId \in Requests /\ committing[c] = sourceOf[LastId]

\* The storage knows the newest request, except between its numbering and its start.
StartInv ==
    requested = IF \E c \in Clients : cpc[c] = "start" THEN LastId - 1 ELSE LastId

\* Nothing is waiting, being served or published that was not numbered.
BoundInv ==
    /\ queue <= LastId /\ req <= LastId /\ published <= requested
    /\ loop \in {"load", "built", "publish", "publishing", "report", "finish"} => req \in Requests

\* What was committed last is the newest request's source once its commit is over.
LastInv ==
    (nextId > 1 /\ \A c \in Clients : cpc[c] \in {"idle", "number"}) => last = sourceOf[LastId]

\* Where the newest request is on its way from its commit to the report.
Committing == \E c \in Clients : cpc[c] \in {"start", "announce", "enqueue"}
Waiting    == queue = LastId /\ req < LastId /\ published < LastId
Served     == queue = None /\ req = LastId
Decoding   == Served /\ loop \in {"load", "built", "publish"} /\ published < LastId
Publishing == Served /\ loop \in {"publishing", "report"} /\ published = LastId
Counted    == /\ published = LastId /\ reported = sourceOf[LastId]
              /\ selected = sourceOf[LastId].files /\ failed = sourceOf[LastId].bad
Finishing  == Served /\ loop = "finish" /\ Counted
Shown      == /\ queue = None /\ loop \in {"wait", "adopt", "adopting", "reclaim", "reclaiming"}
              /\ Counted /\ state = FinalState(sourceOf[LastId])

NewestInFlight ==
    nextId > 1 => Committing \/ Waiting \/ Decoding \/ Publishing \/ Finishing \/ Shown

\* A request that is still being committed is neither waiting nor served.
FreshInv == Committing => queue < LastId /\ req < LastId /\ published < LastId

PoolInv ==
    /\ LockInv /\ NumberInv /\ StartInv /\ BoundInv /\ LastInv
    /\ NewestInFlight /\ FreshInv

-----------------------------------------------------------------------------
USE ActorsDiffer, SourcesAreRecords
USE WorkerIsNoPin, RequestsArePositive, FreeIsNoActor
USE DEF Actors, Ids, None, Free, Goto, CGoto, WGoto

\* The numbers compared are numbers.
LEMMA PoolNumbers ==
    ASSUME SamplePoolTypeOK
    PROVE  /\ queue \in Nat /\ req \in Nat /\ published \in Nat /\ requested \in Nat
           /\ LastId \in Nat /\ nextId \in Nat /\ LastId = nextId - 1 /\ LastId + 1 = nextId
           /\ \A c \in Clients : reqOf[c] \in Nat
<1>1. /\ queue \in Ids /\ req \in Ids /\ published \in Ids /\ requested \in Ids
      /\ \A c \in Clients : reqOf[c] \in Ids
  BY DEF SamplePoolTypeOK, StorageTypeOK
<1>2. Ids \subseteq Nat
  OBVIOUS
<1>3. nextId \in Nat \ {0}
  BY DEF SamplePoolTypeOK
<1>4. LastId \in Nat /\ LastId = nextId - 1 /\ LastId + 1 = nextId
  BY <1>3 DEF LastId
<1> HIDE DEF Ids
<1> QED
  BY <1>1, <1>2, <1>3, <1>4

\* What a source holds are numbers.
LEMMA SourceNumbers ==
    \A s \in Sources \cup {Nothing} : s.files \in Nat /\ s.bad \in Nat
BY DEF Nothing

-----------------------------------------------------------------------------
(* The pool's steps are steps of the storage.                               *)

\* A commit starts a request it numbered, and the worker publishes one it took.
LEMMA StepIsStorage ==
    ASSUME SamplePoolTypeOK, NumberInv, BoundInv, [Next]_vars
    PROVE  [StorageNext]_storageVars
<1>1. CASE ClientStep
  BY <1>1 DEF ClientStep, StorageNext
<1>2. ASSUME NEW c \in Clients, Commit(c) PROVE [StorageNext]_storageVars
  <2>1. CASE CommitStart(c)
    <3>1. reqOf[c] \in Requests
      BY <2>1 DEF CommitStart, NumberInv
    <3> QED
      BY <2>1, <3>1 DEF CommitStart, StorageNext
  <2>2. CASE ~CommitStart(c)
    BY <1>2, <2>2 DEF Commit, CommitStep, CommitBegin, CommitNumber, CommitAnnounce, CommitEnqueue,
                      CommitRecord
  <2> QED
    BY <2>1, <2>2
<1>3. CASE WorkerStep
  <2>1. CASE WorkerPublishStore
    <3>1. req \in Requests
      BY <2>1 DEF WorkerPublishStore, BoundInv
    <3> QED
      BY <2>1, <3>1 DEF WorkerPublishStore, StorageNext
  <2>2. CASE WorkerPublishRoute
    BY <2>2 DEF WorkerPublishRoute, StorageNext
  <2>3. CASE WorkerAdopt
    BY <2>3 DEF WorkerAdopt, StorageNext, Adopt
  <2>4. CASE WorkerReclaim
    BY <2>4 DEF WorkerReclaim, StorageNext, Reclaim
  <2>5. CASE \/ WorkerTake \/ WorkerTimeout \/ WorkerLoad \/ WorkerDrop \/ WorkerKeep
             \/ WorkerPublishRefused \/ WorkerReportCounts \/ WorkerReportState \/ WorkerSkipAdopt
    BY <2>5 DEF WorkerTake, WorkerTimeout, WorkerLoad, WorkerDrop, WorkerKeep, WorkerPublishRefused,
                WorkerReportCounts, WorkerReportState, WorkerSkipAdopt
  <2> QED
    BY <1>3, <2>1, <2>2, <2>3, <2>4, <2>5 DEF WorkerStep
<1>4. CASE UNCHANGED vars
  BY <1>4 DEF vars
<1> QED
  BY <1>1, <1>2, <1>3, <1>4 DEF Next

\* Of the storage's steps only a request's start and a publication move the two ids.
LEMMA WorkerKeepsIds ==
    /\ PublishDiscardPending \/ PublishDeferred \/ PublishActivate => UNCHANGED << requested, published >>
    /\ \A a \in Actors : Adopt(a) => UNCHANGED << requested, published >>
    /\ Reclaim => UNCHANGED << requested, published >>
    /\ \A p \in Pins : Read(p) \/ (\E v \in BOOLEAN : SetDeferred(p, v)) => UNCHANGED << requested, published >>
BY DEF PublishDiscardPending, PublishDeferred, PublishActivate, Adopt, AdoptTake, AdoptBusy,
       AdoptInstall, Reclaim, ReclaimLoad, ReclaimGiveUp, ReclaimDecide, ReclaimErase, Read,
       PinCount, PinLoad, Unpin, Bind, Rebind, SetDeferred, bankVars, pinVars

-----------------------------------------------------------------------------
(* Types.                                                                   *)

\* The types hold at first.
LEMMA InitPool == Init => SamplePoolTypeOK /\ PoolInv
<1> SUFFICES ASSUME Init PROVE SamplePoolTypeOK /\ PoolInv
  OBVIOUS
<1>1. StorageTypeOK
  BY InitIInv DEF Init, IInv
<1>2. SamplePoolTypeOK
  BY <1>1 DEF Init, SamplePoolTypeOK, Nothing, States
<1>3. PoolInv
  <2>1. requested = 0 /\ published = 0
    BY DEF Init, StorageInit
  <2> QED
    BY <2>1 DEF Init, PoolInv, LockInv, NumberInv, StartInv, BoundInv, LastInv, NewestInFlight, FreshInv, Committing, LastId
<1> QED
  BY <1>2, <1>3

\* Every step keeps the types, given that it keeps the storage's.
LEMMA PoolTypes ==
    ASSUME SamplePoolTypeOK, NumberInv, BoundInv, StorageTypeOK', [Next]_vars
    PROVE  SamplePoolTypeOK'
<1>1. CASE ClientStep \/ UNCHANGED vars
  BY <1>1 DEF ClientStep, SamplePoolTypeOK, poolVars, vars
<1>2. ASSUME NEW c \in Clients, Commit(c) PROVE SamplePoolTypeOK'
  <2>1. ASSUME NEW s \in Sources, CommitBegin(c, s) PROVE SamplePoolTypeOK'
    BY <2>1 DEF CommitBegin, SamplePoolTypeOK, reportVars
  <2>2. CASE CommitNumber(c)
    <3>1. nextId \in Requests
      BY <2>2 DEF CommitNumber, NumberInv
    <3> QED
      BY <2>2, <3>1 DEF CommitNumber, SamplePoolTypeOK, reportVars
  <2>3. CASE CommitStart(c)
    BY <2>3 DEF CommitStart, SamplePoolTypeOK, reportVars
  <2>4. CASE CommitAnnounce(c)
    <3>1. committing[c] \in Sources \cup {Nothing}
      BY DEF SamplePoolTypeOK
    <3>2. committing[c].files \in Nat /\ Announced(committing[c]) \in States
      BY <3>1, SourceNumbers DEF Announced, States
    <3> QED
      BY <2>4, <3>2 DEF CommitAnnounce, SamplePoolTypeOK
  <2>5. CASE CommitEnqueue(c)
    BY <2>5 DEF CommitEnqueue, SamplePoolTypeOK, reportVars
  <2>6. CASE CommitRecord(c)
    BY <2>6 DEF CommitRecord, SamplePoolTypeOK, reportVars
  <2> QED
    BY <1>2, <2>1, <2>2, <2>3, <2>4, <2>5, <2>6 DEF Commit, CommitStep
<1>3. CASE WorkerStep
  <2>1. CASE WorkerReportCounts
    <3>1. req \in Requests
      BY <2>1 DEF WorkerReportCounts, BoundInv
    <3>2. sourceOf[req] \in Sources \cup {Nothing}
      BY <3>1 DEF SamplePoolTypeOK
    <3>3. sourceOf[req].files \in Nat /\ sourceOf[req].bad \in Nat
      BY <3>2, SourceNumbers
    <3> QED
      BY <2>1, <3>2, <3>3 DEF WorkerReportCounts, SamplePoolTypeOK, commitVars
  <2>2. CASE WorkerReportState
    <3>1. FinalState(sourceOf[req]) \in States
      BY DEF FinalState, States
    <3> QED
      BY <2>2, <3>1 DEF WorkerReportState, SamplePoolTypeOK, commitVars
  <2>3. CASE WorkerLoad
    BY <2>3 DEF WorkerLoad, SamplePoolTypeOK, commitVars, States
  <2>4. CASE \/ WorkerTake \/ WorkerTimeout \/ WorkerDrop \/ WorkerKeep
             \/ WorkerPublishRefused \/ WorkerSkipAdopt
             \/ WorkerPublishStore \/ WorkerPublishRoute \/ WorkerAdopt \/ WorkerReclaim
    <3>1. /\ UNCHANGED << commitVars, reportVars >> /\ queue' \in Ids /\ req' \in Ids
          /\ loop' \in {"wait", "load", "built", "publish", "publishing", "report", "finish",
                        "adopt", "adopting", "reclaim", "reclaiming"}
      BY <2>4 DEF WorkerTake, WorkerTimeout, WorkerDrop, WorkerKeep, WorkerPublishRefused,
                  WorkerSkipAdopt, WorkerPublishStore, WorkerPublishRoute, WorkerAdopt,
                  WorkerReclaim, SamplePoolTypeOK
    <3> QED
      BY <3>1 DEF SamplePoolTypeOK, commitVars, reportVars
  <2> QED
    BY <1>3, <2>1, <2>2, <2>3, <2>4 DEF WorkerStep
<1> QED
  BY <1>1, <1>2, <1>3 DEF Next

-----------------------------------------------------------------------------
(* The invariant.                                                           *)

\* Steps that change neither the pool's variables nor the two ids keep it.
LEMMA OthersKeepPool ==
    ASSUME PoolInv, UNCHANGED << poolVars, requested, published >>
    PROVE  PoolInv'
BY DEF PoolInv, poolVars, LockInv, NumberInv, StartInv, BoundInv, LastInv, NewestInFlight, FreshInv, Committing, LastId,
       Committing, Waiting, Served, Decoding, Publishing, Counted, Finishing, Shown

\* Only the client that holds commitMutex_ is inside a commit.
LEMMA OneCommits ==
    ASSUME LockInv, NEW c \in Clients, cpc[c] # "idle"
    PROVE  commitLock = c /\ \A e \in Clients \ {c} : cpc[e] = "idle"
BY DEF LockInv

\* A commit that begins, waits in it for its number.
LEMMA BeginKeeps ==
    ASSUME SamplePoolTypeOK, PoolInv, NEW c \in Clients, NEW s \in Sources, CommitBegin(c, s)
    PROVE  PoolInv'
<1>1. /\ cpc[c] = "idle" /\ cpc' = [cpc EXCEPT ![c] = "number"] /\ commitLock = Free /\ commitLock' = c
      /\ nextId \in Requests /\ committing' = [committing EXCEPT ![c] = s]
      /\ UNCHANGED << requested, published, reqOf, nextId, sourceOf, last, queue, loop, req,
                      state, selected, failed, reported >>
  BY DEF CommitBegin, storageVars, reportVars
<1>2. cpc'[c] = "number" /\ \A e \in Clients \ {c} : cpc'[e] = cpc[e]
  BY <1>1 DEF SamplePoolTypeOK
<1>3. \A e \in Clients : cpc[e] = "idle"
  BY <1>1 DEF PoolInv, LockInv
<1>4. LockInv' /\ NumberInv'
  BY <1>1, <1>2, <1>3 DEF LockInv, NumberInv
<1>5. StartInv' /\ BoundInv' /\ LastInv'
  BY <1>1, <1>2, <1>3 DEF PoolInv, StartInv, BoundInv, LastInv, LastId
<1>6. NewestInFlight'
  <2>1. ~Committing
    BY <1>3 DEF Committing
  <2> QED
    BY <1>1, <2>1 DEF PoolInv, NewestInFlight, FreshInv, Committing, LastId, Waiting, Served, Decoding, Publishing,
                      Counted, Finishing, Shown
<1>7. FreshInv'
  BY <1>2, <1>3 DEF FreshInv, Committing
<1> QED
  BY <1>4, <1>5, <1>6, <1>7 DEF PoolInv

\* A number makes the request the newest, which the storage does not know yet.
LEMMA NumberKeeps ==
    ASSUME SamplePoolTypeOK, PoolInv, NEW c \in Clients, CommitNumber(c)
    PROVE  PoolInv'
<1>1. /\ cpc[c] = "number" /\ cpc' = [cpc EXCEPT ![c] = "start"]
      /\ nextId' = nextId + 1 /\ reqOf' = [reqOf EXCEPT ![c] = nextId]
      /\ sourceOf' = [sourceOf EXCEPT ![nextId] = committing[c]]
      /\ UNCHANGED << requested, published, commitLock, committing, last, queue, loop, req,
                      state, selected, failed, reported >>
  BY DEF CommitNumber, storageVars, reportVars
<1>2. cpc'[c] = "start" /\ \A e \in Clients \ {c} : cpc'[e] = cpc[e] /\ cpc[e] = "idle"
  BY <1>1, OneCommits DEF SamplePoolTypeOK, PoolInv
<1>3. nextId \in Requests /\ sourceOf'[nextId] = committing[c] /\ reqOf'[c] = nextId
  BY <1>1 DEF SamplePoolTypeOK, PoolInv, NumberInv
<1>4. LastId' = nextId /\ nextId' # nextId /\ nextId = LastId + 1
  BY <1>1, PoolNumbers DEF LastId
<1>5. LockInv' /\ NumberInv' /\ LastInv'
  BY <1>1, <1>2, <1>3, <1>4 DEF PoolInv, LockInv, NumberInv, LastInv
<1>6. requested = LastId
  BY <1>1, <1>2 DEF PoolInv, StartInv
<1>7. StartInv'
  BY <1>1, <1>2, <1>4, <1>6, PoolNumbers DEF StartInv
<1>8. queue < nextId /\ req < nextId /\ published < nextId
  BY <1>6, PoolNumbers DEF PoolInv, BoundInv
<1>9. BoundInv'
  BY <1>1, <1>4, <1>8, PoolNumbers DEF PoolInv, BoundInv
<1>10. NewestInFlight'
  <2>1. Committing'
    BY <1>2 DEF Committing
  <2> QED
    BY <2>1 DEF NewestInFlight
<1>11. FreshInv'
  BY <1>1, <1>4, <1>8 DEF FreshInv
<1> QED
  BY <1>5, <1>7, <1>9, <1>10, <1>11 DEF PoolInv

\* The storage is told of the newest request.
LEMMA StartKeeps ==
    ASSUME SamplePoolTypeOK, PoolInv, NEW c \in Clients, CommitStart(c)
    PROVE  PoolInv'
<1>1. /\ cpc[c] = "start" /\ cpc' = [cpc EXCEPT ![c] = "announce"] /\ requested' = reqOf[c]
      /\ UNCHANGED << published, commitLock, committing, reqOf, nextId, sourceOf, last, queue,
                      loop, req, state, selected, failed, reported >>
  BY DEF CommitStart, RequestStarted, bankVars, reportVars
<1>2. cpc'[c] = "announce" /\ \A e \in Clients \ {c} : cpc'[e] = cpc[e] /\ cpc[e] = "idle"
  BY <1>1, OneCommits DEF SamplePoolTypeOK, PoolInv
<1>3. LockInv' /\ NumberInv' /\ LastInv'
  BY <1>1, <1>2 DEF PoolInv, LockInv, NumberInv, LastInv, LastId
<1>4. requested' = LastId /\ LastId' = LastId
  BY <1>1 DEF PoolInv, NumberInv, LastId
<1>5. StartInv'
  BY <1>2, <1>4 DEF StartInv
<1>6. Committing /\ Committing'
  BY <1>1, <1>2 DEF Committing
<1>7. BoundInv' /\ NewestInFlight' /\ FreshInv'
  BY <1>1, <1>4, <1>6, PoolNumbers DEF PoolInv, BoundInv, NewestInFlight, FreshInv
<1> QED
  BY <1>3, <1>5, <1>7 DEF PoolInv

\* What is announced is of the newest request, which has nothing to show yet.
LEMMA AnnounceKeeps ==
    ASSUME SamplePoolTypeOK, PoolInv, NEW c \in Clients, CommitAnnounce(c)
    PROVE  PoolInv'
<1>1. /\ cpc[c] = "announce" /\ cpc' = [cpc EXCEPT ![c] = "enqueue"]
      /\ UNCHANGED << requested, published, commitLock, committing, reqOf, nextId, sourceOf, last,
                      queue, loop, req, reported >>
  BY DEF CommitAnnounce, storageVars
<1>2. cpc'[c] = "enqueue" /\ \A e \in Clients \ {c} : cpc'[e] = cpc[e] /\ cpc[e] = "idle"
  BY <1>1, OneCommits DEF SamplePoolTypeOK, PoolInv
<1>3. LockInv' /\ NumberInv' /\ LastInv' /\ StartInv' /\ BoundInv'
  BY <1>1, <1>2 DEF PoolInv, LockInv, NumberInv, LastInv, StartInv, BoundInv, LastId
<1>4. Committing /\ Committing'
  BY <1>1, <1>2 DEF Committing
<1>5. NewestInFlight' /\ FreshInv'
  BY <1>1, <1>4 DEF PoolInv, NewestInFlight, FreshInv, LastId
<1> QED
  BY <1>3, <1>5 DEF PoolInv

\* The newest request replaces whatever waits.
LEMMA EnqueueKeeps ==
    ASSUME SamplePoolTypeOK, PoolInv, NEW c \in Clients, CommitEnqueue(c)
    PROVE  PoolInv'
<1>1. /\ cpc[c] = "enqueue" /\ cpc' = [cpc EXCEPT ![c] = "record"] /\ queue' = reqOf[c]
      /\ UNCHANGED << requested, published, commitLock, committing, reqOf, nextId, sourceOf, last,
                      loop, req, state, selected, failed, reported >>
  BY DEF CommitEnqueue, storageVars, reportVars
<1>2. cpc'[c] = "record" /\ \A e \in Clients \ {c} : cpc'[e] = cpc[e] /\ cpc[e] = "idle"
  BY <1>1, OneCommits DEF SamplePoolTypeOK, PoolInv
<1>3. LockInv' /\ NumberInv' /\ LastInv' /\ StartInv'
  BY <1>1, <1>2 DEF PoolInv, LockInv, NumberInv, LastInv, StartInv, LastId
<1>4. queue' = LastId /\ LastId' = LastId
  BY <1>1 DEF PoolInv, NumberInv, LastId
<1>5. Committing /\ ~Committing'
  BY <1>1, <1>2 DEF Committing
<1>6. BoundInv'
  BY <1>1, <1>4, PoolNumbers DEF PoolInv, BoundInv
<1>7. Waiting'
  BY <1>1, <1>4, <1>5 DEF PoolInv, FreshInv, Waiting
<1> QED
  BY <1>3, <1>5, <1>6, <1>7 DEF PoolInv, NewestInFlight, FreshInv

\* A commit that is over is what was committed last.
LEMMA RecordKeeps ==
    ASSUME SamplePoolTypeOK, PoolInv, NEW c \in Clients, CommitRecord(c)
    PROVE  PoolInv'
<1>1. /\ cpc[c] = "record" /\ cpc' = [cpc EXCEPT ![c] = "idle"] /\ commitLock' = Free
      /\ last' = committing[c] /\ committing' = [committing EXCEPT ![c] = Nothing]
      /\ UNCHANGED << requested, published, reqOf, nextId, sourceOf, queue,
                      loop, req, state, selected, failed, reported >>
  BY DEF CommitRecord, storageVars, reportVars
<1>2. cpc'[c] = "idle" /\ \A e \in Clients \ {c} : cpc'[e] = cpc[e] /\ cpc[e] = "idle"
  BY <1>1, OneCommits DEF SamplePoolTypeOK, PoolInv
<1>3. LockInv' /\ NumberInv' /\ StartInv' /\ BoundInv'
  BY <1>1, <1>2 DEF PoolInv, LockInv, NumberInv, StartInv, BoundInv, LastId
<1>4. LastInv'
  BY <1>1 DEF PoolInv, NumberInv, LastInv, LastId
<1>5. ~Committing /\ ~Committing'
  BY <1>1, <1>2 DEF Committing
<1>6. NewestInFlight' /\ FreshInv'
  BY <1>1, <1>5 DEF PoolInv, NewestInFlight, FreshInv, LastId, Waiting, Served, Decoding, Publishing,
                    Counted, Finishing, Shown
<1> QED
  BY <1>3, <1>4, <1>6 DEF PoolInv

\* What a commit relies on is not the worker's.
LEMMA WorkerKeepsCommits ==
    ASSUME PoolInv, UNCHANGED << commitVars, requested >>
    PROVE  LockInv' /\ NumberInv' /\ StartInv' /\ LastInv' /\ LastId' = LastId
           /\ (Committing' <=> Committing)
BY DEF PoolInv, LockInv, NumberInv, StartInv, LastInv, LastId, Committing, commitVars

\* The worker takes what waits; decodes it; and drops it when it is superseded.
LEMMA ServeKeeps ==
    ASSUME SamplePoolTypeOK, PoolInv, WorkerTake \/ WorkerLoad \/ WorkerDrop \/ WorkerKeep
    PROVE  PoolInv'
<1>1. UNCHANGED << commitVars, requested, published, selected, failed, reported >>
  BY DEF WorkerTake, WorkerLoad, WorkerDrop, WorkerKeep, storageVars, reportVars
<1>2. /\ LockInv' /\ NumberInv' /\ StartInv' /\ LastInv' /\ LastId' = LastId
      /\ (Committing' <=> Committing) /\ sourceOf' = sourceOf /\ nextId' = nextId
  BY <1>1, WorkerKeepsCommits DEF commitVars
<1>3. LastId = nextId - 1 /\ nextId \in Nat /\ queue \in Nat /\ req \in Nat /\ published \in Nat
  BY PoolNumbers
<1>4. BoundInv /\ NewestInFlight /\ FreshInv
  BY DEF PoolInv
<1>5. CASE WorkerTake
  <2>1. loop = "wait" /\ loop' = "load" /\ queue # 0 /\ req' = queue /\ queue' = 0
    BY <1>5 DEF WorkerTake
  <2>2. queue \in Requests
    BY <2>1 DEF SamplePoolTypeOK
  <2>3. BoundInv'
    BY <1>1, <1>2, <1>3, <1>4, <2>1, <2>2 DEF BoundInv
  <2>4. FreshInv'
    BY <1>1, <1>2, <1>3, <1>4, <2>1 DEF FreshInv
  <2>5. NewestInFlight'
    BY <1>1, <1>2, <1>3, <1>4, <2>1 DEF NewestInFlight, Waiting, Served, Decoding, Publishing,
                                         Finishing, Shown
  <2> QED
    BY <1>2, <2>3, <2>4, <2>5 DEF PoolInv
<1>6. CASE WorkerLoad
  <2>1. loop = "load" /\ loop' = "built" /\ req' = req /\ queue' = queue
    BY <1>6 DEF WorkerLoad
  <2> QED
    BY <1>1, <1>2, <1>4, <2>1 DEF PoolInv, BoundInv, FreshInv, NewestInFlight, Waiting, Served,
                                  Decoding, Publishing, Finishing, Shown
<1>7. CASE WorkerKeep
  <2>1. loop = "built" /\ loop' = "publish" /\ req' = req /\ queue' = queue
    BY <1>7 DEF WorkerKeep
  <2> QED
    BY <1>1, <1>2, <1>4, <2>1 DEF PoolInv, BoundInv, FreshInv, NewestInFlight, Waiting, Served,
                                  Decoding, Publishing, Finishing, Shown
<1>8. CASE WorkerDrop
  <2>1. loop = "built" /\ loop' = "adopt" /\ req' = req /\ queue' = queue /\ req # LastId
    BY <1>3, <1>8 DEF WorkerDrop, Superseded
  <2> QED
    BY <1>1, <1>2, <1>4, <2>1 DEF PoolInv, BoundInv, FreshInv, NewestInFlight, Waiting, Served,
                                  Decoding, Publishing, Finishing, Shown
<1> QED
  BY <1>5, <1>6, <1>7, <1>8

\* Only the newest request is published, and it is never refused.
LEMMA PublishKeeps ==
    ASSUME SamplePoolTypeOK, PoolInv, WorkerPublishStore \/ WorkerPublishRefused
    PROVE  PoolInv'
<1>1. UNCHANGED << commitVars, requested, queue, req, state, selected, failed, reported >>
  BY DEF WorkerPublishStore, WorkerPublishRefused, PublishStore, storageVars, reportVars
<1>2. /\ LockInv' /\ NumberInv' /\ StartInv' /\ LastInv' /\ LastId' = LastId
      /\ (Committing' <=> Committing) /\ sourceOf' = sourceOf /\ nextId' = nextId
  BY <1>1, WorkerKeepsCommits DEF commitVars
<1>3. /\ LastId = nextId - 1 /\ nextId \in Nat /\ queue \in Nat /\ req \in Nat /\ published \in Nat
      /\ requested \in Nat
  BY PoolNumbers
<1>4. BoundInv /\ NewestInFlight /\ FreshInv
  BY DEF PoolInv
<1>5. loop = "publish"
  BY DEF WorkerPublishStore, WorkerPublishRefused
<1>6. ~Committing => requested = LastId
  BY DEF PoolInv, StartInv, Committing
<1>7. CASE WorkerPublishStore
  <2>1. loop' = "publishing" /\ req = requested /\ req > published /\ published' = req
    BY <1>7 DEF WorkerPublishStore, PublishStore, PublishAccepted
  <2>2. BoundInv'
    BY <1>1, <1>2, <1>3, <1>4, <1>5, <2>1 DEF BoundInv
  <2>3. FreshInv'
    BY <1>1, <1>2, <1>4, <2>1 DEF FreshInv
  <2>4. NewestInFlight'
    BY <1>1, <1>2, <1>3, <1>4, <1>5, <1>6, <2>1 DEF NewestInFlight, Waiting, Served, Decoding,
       Publishing, Finishing, Shown
  <2> QED
    BY <1>2, <2>2, <2>3, <2>4 DEF PoolInv
<1>8. CASE WorkerPublishRefused
  <2>1. loop' = "adopt" /\ ~(req = requested /\ req > published) /\ published' = published
    BY <1>8 DEF WorkerPublishRefused, PublishAccepted, storageVars
  <2>2. BoundInv' /\ FreshInv'
    BY <1>1, <1>2, <1>4, <2>1 DEF BoundInv, FreshInv
  <2>3. NewestInFlight'
    BY <1>1, <1>2, <1>3, <1>4, <1>5, <1>6, <2>1 DEF NewestInFlight, Waiting, Served, Decoding,
       Publishing, Finishing, Shown
  <2> QED
    BY <1>2, <2>2, <2>3 DEF PoolInv
<1> QED
  BY <1>7, <1>8

\* A report is of the request that was published.
LEMMA ReportKeeps ==
    ASSUME SamplePoolTypeOK, PoolInv, WorkerPublishRoute \/ WorkerReportCounts \/ WorkerReportState
    PROVE  PoolInv'
<1>1. UNCHANGED << commitVars, requested, published, queue, req >>
  BY WorkerKeepsIds DEF WorkerPublishRoute, WorkerReportCounts, WorkerReportState, storageVars
<1>2. /\ LockInv' /\ NumberInv' /\ StartInv' /\ LastInv' /\ LastId' = LastId
      /\ (Committing' <=> Committing) /\ sourceOf' = sourceOf /\ nextId' = nextId
  BY <1>1, WorkerKeepsCommits DEF commitVars
<1>3. BoundInv /\ NewestInFlight /\ FreshInv
  BY DEF PoolInv
<1>4. CASE WorkerPublishRoute
  <2>1. loop = "publishing" /\ loop' \in {"publishing", "report"} /\ UNCHANGED reportVars
    BY <1>4 DEF WorkerPublishRoute
  <2> QED
    BY <1>1, <1>2, <1>3, <2>1 DEF PoolInv, BoundInv, FreshInv, NewestInFlight, Waiting, Served,
       Decoding, Publishing, Finishing, Shown, reportVars
<1>5. CASE WorkerReportCounts
  <2>1. /\ loop = "report" /\ loop' = "finish" /\ reported' = sourceOf[req]
        /\ selected' = sourceOf[req].files /\ failed' = sourceOf[req].bad
    BY <1>5 DEF WorkerReportCounts
  <2> QED
    BY <1>1, <1>2, <1>3, <2>1 DEF PoolInv, BoundInv, FreshInv, NewestInFlight, Waiting, Served,
       Decoding, Publishing, Counted, Finishing, Shown
<1>6. CASE WorkerReportState
  <2>1. /\ loop = "finish" /\ loop' = "adopt" /\ state' = FinalState(sourceOf[req])
        /\ UNCHANGED << reported, selected, failed >>
    BY <1>6 DEF WorkerReportState
  <2> QED
    BY <1>1, <1>2, <1>3, <2>1 DEF PoolInv, BoundInv, FreshInv, NewestInFlight, Waiting, Served,
       Decoding, Publishing, Counted, Finishing, Shown
<1> QED
  BY <1>4, <1>5, <1>6

\* Housekeeping changes nothing that is reported.
LEMMA HousekeepingKeeps ==
    ASSUME SamplePoolTypeOK, PoolInv, WorkerTimeout \/ WorkerSkipAdopt \/ WorkerAdopt \/ WorkerReclaim
    PROVE  PoolInv'
<1>1. UNCHANGED << commitVars, requested, published, queue, req, reportVars >>
  BY WorkerKeepsIds
     DEF WorkerTimeout, WorkerSkipAdopt, WorkerAdopt, WorkerReclaim, storageVars, Adopt, Reclaim
<1>2. /\ LockInv' /\ NumberInv' /\ StartInv' /\ LastInv' /\ LastId' = LastId
      /\ (Committing' <=> Committing) /\ sourceOf' = sourceOf /\ nextId' = nextId
  BY <1>1, WorkerKeepsCommits DEF commitVars
<1>3. /\ loop \in {"wait", "adopt", "adopting", "reclaim", "reclaiming"}
      /\ loop' \in {"wait", "adopt", "adopting", "reclaim", "reclaiming"}
  BY DEF WorkerTimeout, WorkerSkipAdopt, WorkerAdopt, WorkerReclaim
<1>4. BoundInv' /\ FreshInv'
  BY <1>1, <1>2, <1>3 DEF PoolInv, BoundInv, FreshInv
<1>5. NewestInFlight'
  BY <1>1, <1>2, <1>3 DEF PoolInv, NewestInFlight, Waiting, Served, Decoding, Publishing, Counted,
                          Finishing, Shown, reportVars
<1> QED
  BY <1>2, <1>4, <1>5 DEF PoolInv

\* Every state of every execution of the pool.
LEMMA PoolHolds == Spec => [](IInv /\ SamplePoolTypeOK /\ PoolInv)
<1>1. Init => IInv /\ SamplePoolTypeOK /\ PoolInv
  BY InitIInv, InitPool DEF Init
<1>2. IInv /\ SamplePoolTypeOK /\ PoolInv /\ [Next]_vars => (IInv /\ SamplePoolTypeOK /\ PoolInv)'
  <2> SUFFICES ASSUME IInv, SamplePoolTypeOK, PoolInv, [Next]_vars
               PROVE  IInv' /\ SamplePoolTypeOK' /\ PoolInv'
    OBVIOUS
  <2>1. [StorageNext]_storageVars
    BY StepIsStorage DEF PoolInv
  <2>2. IInv'
    BY <2>1, Inductive
  <2>3. SamplePoolTypeOK'
    BY <2>2, PoolTypes DEF PoolInv, IInv
  <2>4. PoolInv'
    <3>1. CASE ClientStep \/ UNCHANGED vars
      <4>1. UNCHANGED << requested, published >>
        BY <3>1, WorkerKeepsIds DEF ClientStep, vars, storageVars, Adopt
      <4>2. UNCHANGED poolVars
        BY <3>1 DEF ClientStep, vars
      <4> QED
        BY <4>1, <4>2, OthersKeepPool
    <3>2. ASSUME NEW c \in Clients, Commit(c) PROVE PoolInv'
      BY <3>2, BeginKeeps, NumberKeeps, StartKeeps, AnnounceKeeps, EnqueueKeeps, RecordKeeps
         DEF Commit, CommitStep
    <3>3. CASE WorkerStep
      BY <3>3, ServeKeeps, PublishKeeps, ReportKeeps, HousekeepingKeeps DEF WorkerStep
    <3> QED
      BY <3>1, <3>2, <3>3 DEF Next
  <2> QED
    BY <2>2, <2>3, <2>4
<1> QED
  BY <1>1, <1>2, PTL DEF Spec

-----------------------------------------------------------------------------
(* The results.                                                             *)

\* Every variable of the pool keeps its type.
THEOREM PoolTypesHold == Spec => []SamplePoolTypeOK
BY PoolHolds, PTL

\* Once no commit is under way and the worker has nothing to do, everything the pool reports
\* is that of the newest commit, for any number of clients and of commits.
THEOREM SettledShowsNewestHolds == Spec => []SettledShowsNewest
<1>1. SamplePoolTypeOK /\ PoolInv => SettledShowsNewest
  <2> SUFFICES ASSUME SamplePoolTypeOK, PoolInv, Settled, nextId > 1
               PROVE  /\ Counted /\ last = sourceOf[LastId]
                      /\ state = FinalState(sourceOf[LastId])
    BY DEF SettledShowsNewest, Counted
  <2>1. last = sourceOf[LastId]
    BY DEF PoolInv, LastInv, Settled
  <2>2. LastId # 0
    BY PoolNumbers
  <2>3. Shown
    BY <2>2 DEF PoolInv, NewestInFlight, Settled, Committing, Waiting, Decoding, Publishing, Finishing
  <2> QED
    BY <2>1, <2>3 DEF Shown
<1> QED
  BY <1>1, PoolHolds, PTL

\* Whatever clients, commits and the worker do is a behaviour of the storage.
THEOREM PoolUsesStorage == Spec => StorageSpec
<1>1. Init => StorageInit
  BY DEF Init
<1>2. IInv /\ SamplePoolTypeOK /\ PoolInv /\ [Next]_vars => [StorageNext]_storageVars
  BY StepIsStorage DEF PoolInv
<1> QED
  BY <1>1, <1>2, PoolHolds, PTL DEF Spec, StorageSpec

\* So, in the pool, no reader reads a generation that was freed, the newest published
\* generation is the audible or the pending one, and the audible bank only moves forward.
THEOREM PoolReclaimsSafely ==
    Spec => []NoUseAfterReclaim /\ []LatestWins /\ BankMovesForward /\ ImplementsBank
BY PoolUsesStorage, ReclamationIsSafe, NewestIsCurrentOrPending, NoRollback, ImplementsAtomicBank, PTL

===============================================================================

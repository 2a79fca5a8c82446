-------------------------- MODULE SamplePoolStorage --------------------------
(***************************************************************************)
(* Ownership of the immutable sample-bank generations                      *)
(* (src/DspJsfxSamplePoolStorage.h).  A worker builds generations and      *)
(* publishes them; realtime readers use the current one without taking a   *)
(* lock or a shared_ptr count.  A reader first counts itself in readers_   *)
(* and only then loads active_; the worker frees retired generations only  *)
(* when, holding mutex_, it sees no reader at all.                         *)
(*                                                                         *)
(* A critical section is cut wherever a lock-free access of another thread *)
(* could make a difference to a property; accesses that only the holder of *)
(* mutex_ acts on share a step.  publish's load of deferred_ and the store *)
(* that it decides are one: a setDeferred between the two leaves what one  *)
(* leaves that comes after the store and loses the lock.                   *)
(* A generation is named by the request that produced it                   *)
(* (publicationRequestId): publish refuses an id it has published before.  *)
(***************************************************************************)
EXTENDS Integers

CONSTANTS
    Pins,       \* counted references: a ReadBatch pin, a ReaderScope, a PinnedRead lease
    Worker,     \* the pool's worker thread
    Requests    \* the request ids commits may hand out

ASSUME WorkerIsNoPin == Worker \notin Pins
ASSUME RequestsArePositive == Requests \subseteq Nat \ {0}

None == 0       \* the null generation pointer
Free == "free"  \* mutex_ is not held

ASSUME FreeIsNoActor == Free \notin Pins \cup {Worker}

VARIABLES
    mutex,       \* holder of mutex_, or Free
    pc,          \* where each actor is inside adoptPending, publish or reclaimRetired
    requested,   \* requestedId_
    published,   \* publishedId_
    deferred,    \* deferred_
    active,      \* active_
    pending,     \* pending_
    generations, \* generations_: the generations whose memory exists
    accounted,   \* the generations whose bytes are in bytes_
    readers,     \* readers_
    phase,       \* of each pin: idle, counted (before the load of active_), held
    snap,        \* the generation a held pin reads
    lender,      \* the lease a pin was bound from (bindPinned), or the pin itself
    hand,        \* the generation an actor carries through its critical section
    keep         \* the two generations reclaimRetired has decided to keep

storageVars == << mutex, pc, requested, published, deferred, active, pending,
                  generations, accounted, readers, phase, snap, lender, hand, keep >>
pinVars   == << phase, snap, lender >>
bankVars  == << active, pending, generations, accounted, published >>

Actors == Pins \cup {Worker}
Ids    == Requests \cup {None}

Goto(a, from, to) == pc[a] = from /\ pc' = [pc EXCEPT ![a] = to]
Lock(a)   == mutex = Free /\ mutex' = a
Unlock(a) == mutex = a /\ mutex' = Free

-----------------------------------------------------------------------------
(* Readers.  A pin is one count in readers_: taken before active_ is read. *)

PinCount(p) ==
    /\ phase[p] = "idle" /\ pc[p] = "ready"
    /\ readers' = readers + 1
    /\ phase' = [phase EXCEPT ![p] = "counted"]
    /\ UNCHANGED << mutex, pc, requested, deferred, bankVars, snap, lender, hand, keep >>

PinLoad(p) ==
    /\ phase[p] = "counted"
    /\ phase' = [phase EXCEPT ![p] = "held"]
    /\ snap'  = [snap EXCEPT ![p] = active]
    /\ UNCHANGED << mutex, pc, requested, deferred, bankVars, readers, lender, hand, keep >>

\* bindPinned: a task's batch adopts the generation of a lease that its caller
\* keeps for the whole batch; active_ is not consulted.
Bind(p, lease) ==
    /\ phase[p] = "idle" /\ pc[p] = "ready"
    /\ p # lease /\ phase[lease] = "held" /\ lender[lease] = lease
    /\ snap[lease] # None
    /\ readers' = readers + 1
    /\ phase'  = [phase EXCEPT ![p] = "held"]
    /\ snap'   = [snap EXCEPT ![p] = snap[lease]]
    /\ lender' = [lender EXCEPT ![p] = lease]
    /\ UNCHANGED << mutex, pc, requested, deferred, bankVars, hand, keep >>

\* The caller of bindPinned holds the lease throughout the batch.
Lent(p) == \E q \in Pins : q # p /\ lender[q] = p

\* bindPinned on a batch that has the storage pinned already: its count stays.
Rebind(p, lease) ==
    /\ phase[p] = "held" /\ pc[p] = "ready" /\ ~Lent(p)
    /\ p # lease /\ phase[lease] = "held" /\ lender[lease] = lease
    /\ snap[lease] # None
    /\ snap'   = [snap EXCEPT ![p] = snap[lease]]
    /\ lender' = [lender EXCEPT ![p] = lease]
    /\ UNCHANGED << mutex, pc, requested, deferred, bankVars, readers, phase, hand, keep >>

\* Mutant: a release that does not check that the pin is held.
UnpinTwice(p) ==
    /\ phase[p] # "counted" /\ pc[p] = "ready" /\ ~Lent(p)
    /\ readers' = readers - 1
    /\ phase'  = [phase EXCEPT ![p] = "idle"]
    /\ snap'   = [snap EXCEPT ![p] = None]
    /\ lender' = [lender EXCEPT ![p] = p]
    /\ UNCHANGED << mutex, pc, requested, deferred, bankVars, hand, keep >>

Unpin(p) ==
    /\ phase[p] = "held" /\ pc[p] = "ready" /\ ~Lent(p)
    /\ readers' = readers - 1
    /\ phase'  = [phase EXCEPT ![p] = "idle"]
    /\ snap'   = [snap EXCEPT ![p] = None]
    /\ lender' = [lender EXCEPT ![p] = p]
    /\ UNCHANGED << mutex, pc, requested, deferred, bankVars, hand, keep >>

-----------------------------------------------------------------------------
(* Requests, and the client's deferral switch.                             *)

\* requestStarted: the compare-exchange loop keeps the largest id.
RequestStarted(id) ==
    /\ id > requested
    /\ requested' = id
    /\ UNCHANGED << mutex, pc, deferred, bankVars, readers, pinVars, hand, keep >>

\* setDeferred(false) goes on to try an adoption.
SetDeferred(p, value) ==
    /\ Goto(p, "ready", IF value THEN "ready" ELSE "try")
    /\ phase[p] # "counted"
    /\ deferred' = value
    /\ UNCHANGED << mutex, requested, bankVars, readers, pinVars, hand, keep >>

-----------------------------------------------------------------------------
(* adoptPending, called directly or by setDeferred(false).                 *)

AdoptTake(a) ==
    /\ pc[a] \in {"ready", "try"} /\ pc' = [pc EXCEPT ![a] = "install"]
    /\ a \in Pins => phase[a] # "counted"
    /\ Lock(a)
    /\ hand' = [hand EXCEPT ![a] = pending]
    /\ pending' = None
    /\ UNCHANGED << requested, published, deferred, active, generations, accounted,
                    readers, pinVars, keep >>

\* try_to_lock loses: -1, and nothing but the attempt is over.
AdoptBusy(a) ==
    /\ mutex # Free
    /\ Goto(a, "try", "ready")
    /\ UNCHANGED << mutex, requested, deferred, bankVars, readers, pinVars, hand, keep >>

Installed(a) == IF hand[a] # None /\ (active = None \/ hand[a] > active)
                  THEN hand[a] ELSE active

\* The adopting thread's own batch moves to the generation now active.
AdoptInstall(a) ==
    /\ Goto(a, "install", "ready")
    /\ Unlock(a)
    /\ active' = Installed(a)
    /\ snap' = IF a \in Pins /\ phase[a] = "held"
                 THEN [snap EXCEPT ![a] = Installed(a)] ELSE snap
    /\ hand' = [hand EXCEPT ![a] = None]
    /\ UNCHANGED << requested, published, deferred, pending, generations, accounted,
                    readers, phase, lender, keep >>

-----------------------------------------------------------------------------
(* publish, by the worker.                                                 *)

\* Mutant: publication compares with nothing.
PublishAcceptedAlways(id) == id <= requested

PublishAccepted(id) == id = requested /\ id > published

PublishStore(id) ==
    /\ Goto(Worker, "ready", "route")
    /\ Lock(Worker)
    /\ PublishAccepted(id)
    /\ generations' = generations \cup {id}
    /\ published' = id
    /\ hand' = [hand EXCEPT ![Worker] = id]
    /\ UNCHANGED << requested, deferred, active, pending, accounted, readers, pinVars, keep >>

PublishDeferred ==
    /\ deferred
    /\ Goto(Worker, "route", "ready")
    /\ Unlock(Worker)
    /\ pending' = hand[Worker]
    /\ accounted' = accounted \cup {hand[Worker]}
    /\ hand' = [hand EXCEPT ![Worker] = None]
    /\ UNCHANGED << requested, published, deferred, active, generations, readers,
                    pinVars, keep >>

\* Mutant: the immediate publication leaves the deferred one pending.
PublishKeepPending ==
    /\ ~deferred
    /\ Goto(Worker, "route", "activate")
    /\ UNCHANGED << mutex, requested, bankVars, deferred, readers, pinVars, hand, keep >>

\* An immediate publication discards the pending pointer it overtakes.
PublishDiscardPending ==
    /\ ~deferred
    /\ Goto(Worker, "route", "activate")
    /\ pending' = None
    /\ UNCHANGED << mutex, requested, published, deferred, active, generations,
                    accounted, readers, pinVars, hand, keep >>

PublishActivate ==
    /\ Goto(Worker, "activate", "ready")
    /\ Unlock(Worker)
    /\ active' = hand[Worker]
    /\ accounted' = accounted \cup {hand[Worker]}
    /\ hand' = [hand EXCEPT ![Worker] = None]
    /\ UNCHANGED << requested, published, deferred, pending, generations, readers,
                    pinVars, keep >>

-----------------------------------------------------------------------------
(* reclaimRetired, by the worker.                                          *)

\* Mutant: only the active generation is kept.
ReclaimLoadActive ==
    /\ Goto(Worker, "ready", "check")
    /\ Lock(Worker)
    /\ keep' = {active}
    /\ UNCHANGED << requested, deferred, bankVars, readers, pinVars, hand >>

ReclaimLoad ==
    /\ Goto(Worker, "ready", "check")
    /\ Lock(Worker)
    /\ keep' = {active, pending}
    /\ UNCHANGED << requested, deferred, bankVars, readers, pinVars, hand >>

ReclaimGiveUp ==
    /\ readers # 0
    /\ Goto(Worker, "check", "ready")
    /\ Unlock(Worker)
    /\ keep' = {}
    /\ UNCHANGED << requested, deferred, bankVars, readers, pinVars, hand >>

\* Mutant: retired generations are freed under a reader.
ReclaimDecideBlindly ==
    /\ Goto(Worker, "check", "erase")
    /\ UNCHANGED << mutex, requested, deferred, bankVars, readers, pinVars, hand, keep >>

ReclaimDecide ==
    /\ readers = 0
    /\ Goto(Worker, "check", "erase")
    /\ UNCHANGED << mutex, requested, deferred, bankVars, readers, pinVars, hand, keep >>

\* Mutant: the byte count is not recomputed.
ReclaimEraseUncounted ==
    /\ Goto(Worker, "erase", "ready")
    /\ Unlock(Worker)
    /\ generations' = generations \cap keep
    /\ keep' = {}
    /\ UNCHANGED << accounted, requested, published, deferred, active, pending, readers,
                    pinVars, hand >>

ReclaimErase ==
    /\ Goto(Worker, "erase", "ready")
    /\ Unlock(Worker)
    /\ generations' = generations \cap keep
    /\ accounted' = generations \cap keep
    /\ keep' = {}
    /\ UNCHANGED << requested, published, deferred, active, pending, readers, pinVars, hand >>

-----------------------------------------------------------------------------
StorageInit ==
    /\ mutex = Free
    /\ pc = [a \in Actors |-> "ready"]
    /\ requested = None /\ published = None
    /\ deferred = FALSE
    /\ active = None /\ pending = None
    /\ generations = {} /\ accounted = {}
    /\ readers = 0
    /\ phase = [p \in Pins |-> "idle"]
    /\ snap = [p \in Pins |-> None]
    /\ lender = [p \in Pins |-> p]
    /\ hand = [a \in Actors |-> None]
    /\ keep = {}

Read(p) == PinCount(p) \/ PinLoad(p) \/ Unpin(p) \/ \E q \in Pins : Bind(p, q) \/ Rebind(p, q)

Adopt(a) == AdoptTake(a) \/ AdoptBusy(a) \/ AdoptInstall(a)

Reclaim == ReclaimLoad \/ ReclaimGiveUp \/ ReclaimDecide \/ ReclaimErase

StorageNext ==
    \/ \E p \in Pins : Read(p)
    \/ \E a \in Actors : Adopt(a)
    \/ \E p \in Pins, v \in BOOLEAN : SetDeferred(p, v)
    \/ \E id \in Requests : RequestStarted(id) \/ PublishStore(id)
    \/ PublishDeferred \/ PublishDiscardPending \/ PublishActivate
    \/ Reclaim

StorageSpec == StorageInit /\ [][StorageNext]_storageVars

-----------------------------------------------------------------------------
StorageTypeOK ==
    /\ mutex \in Actors \cup {Free}
    /\ pc \in [Actors -> {"ready", "try", "install", "route", "activate", "check", "erase"}]
    /\ requested \in Ids /\ published \in Ids
    /\ deferred \in BOOLEAN
    /\ active \in Ids /\ pending \in Ids
    /\ generations \subseteq Requests /\ accounted \subseteq Requests
    /\ readers \in Nat
    /\ phase \in [Pins -> {"idle", "counted", "held"}]
    /\ snap \in [Pins -> Ids]
    /\ lender \in [Pins -> Pins]
    /\ hand \in [Actors -> Ids]
    /\ keep \subseteq Ids

\* No pin reads memory reclaimRetired has freed, however its counting, its load
\* of active_, an adoption and the worker's check interleave.
NoUseAfterReclaim == \A p \in Pins : snap[p] \in generations \cup {None}

\* Between critical sections the newest published generation is the one readers
\* get, or the one waiting to be adopted, and nothing older is waiting: a lost
\* setDeferred(false), a deferred bank overtaken by an immediate one and a late
\* adoption never bring an older bank back.
LatestWins ==
    mutex = Free => IF pending = None THEN active = published
                                      ELSE pending = published /\ active < pending

\* The bytes reported to the budget display are those of the generations held.
BytesAreOfRetained == mutex = Free => accounted = generations

\* The audible bank is only ever replaced by one of a later request, and only
\* while the thread replacing it holds mutex_.
BankMovesForward == [][active' # active => active' > active /\ mutex # Free]_storageVars

-----------------------------------------------------------------------------
(* The storage implements BankPublication: a published generation that is   *)
(* not audible yet is staged, in whichever of pending_ or an actor's hand   *)
(* it is.                                                                   *)

Staged == IF published = active THEN None ELSE published

Bank == INSTANCE BankPublication
          WITH Readers <- Pins, bank <- active, staged <- Staged,
               alive <- generations, view <- snap

\* Every step of the lock-level protocol is a step of the abstract bank, or
\* leaves it alone: what a client can see of publish, adoptPending and
\* reclaimRetired is atomic.
ImplementsBank == Bank!Spec
=============================================================================

----------------------- MODULE SamplePoolStorage_proofs -----------------------
(***************************************************************************)
(* Proofs about SamplePoolStorage for any set of pins and of requests: its *)
(* types, the safety of reclamation, the ordering of banks, and that it    *)
(* implements BankPublication.                                             *)
(***************************************************************************)
EXTENDS SamplePoolStorage, FiniteSets, FiniteSetTheorems, TLAPS

(***************************************************************************)
(* The inductive invariant.                                                *)
(***************************************************************************)

\* The counter is the number of pins taken: why readers = 0 means "nobody".
CountedPins == {p \in Pins : phase[p] # "idle"}

CountInv ==
    /\ IsFiniteSet(CountedPins)
    /\ readers = Cardinality(CountedPins)

\* Only the actor inside a critical section holds the mutex.
Critical == {"install", "route", "activate", "check", "erase"}

MutexInv ==
    /\ \A a \in Actors : pc[a] \in Critical <=> mutex = a
    /\ \A p \in Pins : pc[p] \in {"ready", "try", "install"}

\* What an actor carries, and what the worker has decided to keep.
HandInv ==
    /\ \A a \in Actors : pc[a] \in {"ready", "try", "check", "erase"} => hand[a] = None
    /\ \A a \in Actors : hand[a] # None => hand[a] = published
    /\ pc[Worker] \in {"route", "activate"} => hand[Worker] = published /\ published # None
    /\ pc[Worker] \in {"check", "erase"} => keep = {active, pending}

\* The three pointers are generations whose memory exists.
RetainedInv ==
    /\ active \in generations \cup {None}
    /\ pending \in generations \cup {None}
    /\ published \in {active, None} \cup generations

\* Pins read existing memory; once the worker has decided to erase, whatever
\* has been pinned since can only be the generation it keeps.
PinInv ==
    /\ \A p \in Pins : snap[p] \in generations \cup {None}
    /\ \A p \in Pins : phase[p] # "held" => snap[p] = None
    /\ pc[Worker] = "erase" => \A p \in Pins : snap[p] \in {active, None}

\* Which of the three pointers is the newest, at each place of the protocol.
OrderInv ==
    /\ active <= published
    /\ mutex \in {Free, Worker} /\ pc[Worker] \notin {"route", "activate", "install"} =>
          IF pending = None THEN active = published
                            ELSE pending = published /\ active < pending
    /\ \A a \in Actors : pc[a] = "install" =>
          pending = None /\ (IF hand[a] = None THEN active = published
                                               ELSE active < published)
    /\ pc[Worker] \in {"route", "activate"} => active < published
    /\ pc[Worker] = "activate" => pending = None

\* bytes_ lags behind generations_ only while a publication is in flight.
AccountInv ==
    generations = IF pc[Worker] \in {"route", "activate"}
                    THEN accounted \cup {hand[Worker]} ELSE accounted

IInv ==
    /\ StorageTypeOK
    /\ CountInv
    /\ MutexInv
    /\ HandInv
    /\ RetainedInv
    /\ PinInv
    /\ OrderInv
    /\ AccountInv

-----------------------------------------------------------------------------
USE WorkerIsNoPin, RequestsArePositive, FreeIsNoActor
USE DEF Actors, Ids, None, Free, Goto, Lock, Unlock

\* The initial state satisfies the inductive invariant.
LEMMA InitIInv == StorageInit => IInv
<1> SUFFICES ASSUME StorageInit PROVE IInv
  OBVIOUS
<1> USE DEF StorageInit
<1>1. StorageTypeOK
  BY DEF StorageTypeOK
<1>2. CountInv
  <2>1. CountedPins = {}
    BY DEF CountedPins
  <2>2. QED
    BY <2>1, FS_EmptySet DEF CountInv
<1>3. MutexInv /\ HandInv
  BY DEF MutexInv, HandInv, Critical
<1>4. RetainedInv /\ PinInv
  BY DEF RetainedInv, PinInv
<1>5. OrderInv /\ AccountInv
  BY DEF OrderInv, AccountInv
<1>6. QED
  BY <1>1, <1>2, <1>3, <1>4, <1>5 DEF IInv

\* While a pin is taken the counter is positive, so Unpin cannot wrap it.
LEMMA PinsAreCounted ==
  ASSUME StorageTypeOK, CountInv, NEW p \in Pins, phase[p] # "idle"
  PROVE  readers >= 1
<1>1. p \in CountedPins
  BY DEF CountedPins
<1>2. Cardinality(CountedPins) # 0
  BY <1>1, FS_EmptySet DEF CountInv
<1>3. QED
  BY <1>2, FS_CardinalityType DEF CountInv, StorageTypeOK

\* Taking or dropping one pin moves the counter with the set of taken pins;
\* a step that changes neither phase nor the counter preserves the equality.
LEMMA CountStep ==
  ASSUME StorageTypeOK, CountInv, [StorageNext]_storageVars
  PROVE  CountInv'
<1>1. ASSUME NEW p \in Pins, phase[p] = "idle", readers' = readers + 1,
             NEW ph \in {"counted", "held"}, phase' = [phase EXCEPT ![p] = ph]
      PROVE  CountInv'
  <2>1. CountedPins' = CountedPins \cup {p}
    BY <1>1 DEF CountedPins, StorageTypeOK
  <2>2. p \notin CountedPins
    BY <1>1 DEF CountedPins
  <2>3. QED
    BY <1>1, <2>1, <2>2, FS_AddElement DEF CountInv
<1>2. ASSUME NEW p \in Pins, PinLoad(p)
      PROVE  CountInv'
  <2>1. CountedPins' = CountedPins
    BY <1>2 DEF PinLoad, CountedPins, StorageTypeOK
  <2>2. QED
    BY <1>2, <2>1 DEF PinLoad, CountInv
<1>3. ASSUME NEW p \in Pins, Unpin(p)
      PROVE  CountInv'
  <2>1. CountedPins' = CountedPins \ {p}
    BY <1>3 DEF Unpin, CountedPins, StorageTypeOK
  <2>2. p \in CountedPins
    BY <1>3 DEF Unpin, CountedPins
  <2>3. readers' = readers - 1
    BY <1>3 DEF Unpin
  <2>4. QED
    BY <2>1, <2>2, <2>3, FS_RemoveElement DEF CountInv
<1>4. ASSUME UNCHANGED << readers, phase >>
      PROVE  CountInv'
  BY <1>4 DEF CountInv, CountedPins
<1>5. ASSUME NEW p \in Pins, PinCount(p)
      PROVE  CountInv'
  BY <1>1, <1>5 DEF PinCount
<1>6. ASSUME NEW p \in Pins, NEW q \in Pins, Bind(p, q)
      PROVE  CountInv'
  BY <1>1, <1>6 DEF Bind
<1>7. QED
  BY <1>2, <1>3, <1>4, <1>5, <1>6
     DEF StorageNext, storageVars, Read, Rebind, Adopt, AdoptTake, AdoptBusy, AdoptInstall,
         SetDeferred, RequestStarted, PublishStore, PublishDeferred,
         PublishDiscardPending, PublishActivate, Reclaim, ReclaimLoad, ReclaimGiveUp,
         ReclaimDecide, ReclaimErase, pinVars, bankVars

\* Every step keeps every variable within its type.
LEMMA TypeStep ==
  ASSUME IInv, [StorageNext]_storageVars
  PROVE  StorageTypeOK'
<1> USE DEF IInv, StorageTypeOK, pinVars, bankVars
<1>1. ASSUME NEW p \in Pins, PinCount(p)
      PROVE  StorageTypeOK'
  BY <1>1 DEF PinCount
<1>2. ASSUME NEW p \in Pins, PinLoad(p)
      PROVE  StorageTypeOK'
  BY <1>2 DEF PinLoad
<1>3. ASSUME NEW p \in Pins, NEW q \in Pins, Bind(p, q) \/ Rebind(p, q)
      PROVE  StorageTypeOK'
  <2>1. CASE Bind(p, q)
    BY <2>1 DEF Bind
  <2>2. CASE Rebind(p, q)
    BY <2>2 DEF Rebind
  <2>3. QED
    BY <1>3, <2>1, <2>2
<1>4. ASSUME NEW p \in Pins, Unpin(p)
      PROVE  StorageTypeOK'
  BY <1>4, PinsAreCounted DEF Unpin
<1>5. ASSUME NEW id \in Requests, RequestStarted(id)
      PROVE  StorageTypeOK'
  BY <1>5 DEF RequestStarted
<1>6. ASSUME NEW p \in Pins, NEW v \in BOOLEAN, SetDeferred(p, v)
      PROVE  StorageTypeOK'
  BY <1>6 DEF SetDeferred
<1>7. ASSUME NEW a \in Actors, AdoptTake(a)
      PROVE  StorageTypeOK'
  BY <1>7 DEF AdoptTake
<1>8. ASSUME NEW a \in Actors, AdoptBusy(a)
      PROVE  StorageTypeOK'
  BY <1>8 DEF AdoptBusy
<1>9. ASSUME NEW a \in Actors, AdoptInstall(a)
      PROVE  StorageTypeOK'
  BY <1>9 DEF AdoptInstall, Installed
<1>10. ASSUME NEW id \in Requests, PublishStore(id)
      PROVE  StorageTypeOK'
  BY <1>10 DEF PublishStore, PublishAccepted
<1>11. ASSUME PublishDeferred
      PROVE  StorageTypeOK'
  BY <1>11 DEF PublishDeferred, HandInv
<1>12. ASSUME PublishDiscardPending
      PROVE  StorageTypeOK'
  BY <1>12 DEF PublishDiscardPending
<1>13. ASSUME PublishActivate
      PROVE  StorageTypeOK'
  BY <1>13 DEF PublishActivate, HandInv
<1>14. ASSUME ReclaimLoad
      PROVE  StorageTypeOK'
  BY <1>14 DEF ReclaimLoad
<1>15. ASSUME ReclaimGiveUp
      PROVE  StorageTypeOK'
  BY <1>15 DEF ReclaimGiveUp
<1>16. ASSUME ReclaimDecide
      PROVE  StorageTypeOK'
  BY <1>16 DEF ReclaimDecide
<1>17. ASSUME ReclaimErase
      PROVE  StorageTypeOK'
  BY <1>17 DEF ReclaimErase
<1>18. CASE UNCHANGED storageVars
  BY <1>18 DEF storageVars
<1>19. QED
  BY <1>1, <1>2, <1>3, <1>4, <1>5, <1>6, <1>7, <1>8, <1>9, <1>10, <1>11, <1>12, <1>13, <1>14, <1>15, <1>16, <1>17, <1>18
     DEF StorageNext, Read, Adopt, Reclaim

\* A critical section is entered by taking mutex_ and left by releasing it.
LEMMA MutexStep ==
  ASSUME IInv, [StorageNext]_storageVars
  PROVE  MutexInv'
<1> USE DEF IInv, StorageTypeOK, MutexInv, Critical, pinVars, bankVars
<1>1. ASSUME NEW p \in Pins, PinCount(p)
      PROVE  MutexInv'
  BY <1>1 DEF PinCount
<1>2. ASSUME NEW p \in Pins, PinLoad(p)
      PROVE  MutexInv'
  BY <1>2 DEF PinLoad
<1>3. ASSUME NEW p \in Pins, NEW q \in Pins, Bind(p, q) \/ Rebind(p, q)
      PROVE  MutexInv'
  BY <1>3 DEF Bind, Rebind
<1>4. ASSUME NEW p \in Pins, Unpin(p)
      PROVE  MutexInv'
  BY <1>4 DEF Unpin
<1>5. ASSUME NEW id \in Requests, RequestStarted(id)
      PROVE  MutexInv'
  BY <1>5 DEF RequestStarted
<1>6. ASSUME NEW p \in Pins, NEW v \in BOOLEAN, SetDeferred(p, v)
      PROVE  MutexInv'
  BY <1>6 DEF SetDeferred
<1>7. ASSUME NEW a \in Actors, AdoptTake(a)
      PROVE  MutexInv'
  BY <1>7 DEF AdoptTake
<1>8. ASSUME NEW a \in Actors, AdoptBusy(a)
      PROVE  MutexInv'
  BY <1>8 DEF AdoptBusy
<1>9. ASSUME NEW a \in Actors, AdoptInstall(a)
      PROVE  MutexInv'
  BY <1>9 DEF AdoptInstall
<1>10. ASSUME NEW id \in Requests, PublishStore(id)
      PROVE  MutexInv'
  BY <1>10 DEF PublishStore
<1>11. ASSUME PublishDeferred
      PROVE  MutexInv'
  BY <1>11 DEF PublishDeferred
<1>12. ASSUME PublishDiscardPending
      PROVE  MutexInv'
  BY <1>12 DEF PublishDiscardPending
<1>13. ASSUME PublishActivate
      PROVE  MutexInv'
  BY <1>13 DEF PublishActivate
<1>14. ASSUME ReclaimLoad
      PROVE  MutexInv'
  BY <1>14 DEF ReclaimLoad
<1>15. ASSUME ReclaimGiveUp
      PROVE  MutexInv'
  BY <1>15 DEF ReclaimGiveUp
<1>16. ASSUME ReclaimDecide
      PROVE  MutexInv'
  BY <1>16 DEF ReclaimDecide
<1>17. ASSUME ReclaimErase
      PROVE  MutexInv'
  BY <1>17 DEF ReclaimErase
<1>18. CASE UNCHANGED storageVars
  BY <1>18 DEF storageVars
<1>19. QED
  BY <1>1, <1>2, <1>3, <1>4, <1>5, <1>6, <1>7, <1>8, <1>9, <1>10, <1>11, <1>12, <1>13, <1>14, <1>15, <1>16, <1>17, <1>18
     DEF StorageNext, Read, Adopt, Reclaim

\* An actor carries only the newest generation, and the kept pair stays current.
LEMMA HandStep ==
  ASSUME IInv, [StorageNext]_storageVars
  PROVE  HandInv'
<1> USE DEF IInv, StorageTypeOK, MutexInv, Critical, HandInv, OrderInv, pinVars, bankVars
<1>1. ASSUME NEW p \in Pins, PinCount(p)
      PROVE  HandInv'
  BY <1>1 DEF PinCount
<1>2. ASSUME NEW p \in Pins, PinLoad(p)
      PROVE  HandInv'
  BY <1>2 DEF PinLoad
<1>3. ASSUME NEW p \in Pins, NEW q \in Pins, Bind(p, q) \/ Rebind(p, q)
      PROVE  HandInv'
  BY <1>3 DEF Bind, Rebind
<1>4. ASSUME NEW p \in Pins, Unpin(p)
      PROVE  HandInv'
  BY <1>4 DEF Unpin
<1>5. ASSUME NEW id \in Requests, RequestStarted(id)
      PROVE  HandInv'
  BY <1>5 DEF RequestStarted
<1>6. ASSUME NEW p \in Pins, NEW v \in BOOLEAN, SetDeferred(p, v)
      PROVE  HandInv'
  BY <1>6 DEF SetDeferred
<1>7. ASSUME NEW a \in Actors, AdoptTake(a)
      PROVE  HandInv'
  BY <1>7 DEF AdoptTake
<1>8. ASSUME NEW a \in Actors, AdoptBusy(a)
      PROVE  HandInv'
  BY <1>8 DEF AdoptBusy
<1>9. ASSUME NEW a \in Actors, AdoptInstall(a)
      PROVE  HandInv'
  BY <1>9 DEF AdoptInstall, Installed
<1>10. ASSUME NEW id \in Requests, PublishStore(id)
      PROVE  HandInv'
  BY <1>10 DEF PublishStore, PublishAccepted
<1>11. ASSUME PublishDeferred
      PROVE  HandInv'
  BY <1>11 DEF PublishDeferred
<1>12. ASSUME PublishDiscardPending
      PROVE  HandInv'
  BY <1>12 DEF PublishDiscardPending
<1>13. ASSUME PublishActivate
      PROVE  HandInv'
  BY <1>13 DEF PublishActivate
<1>14. ASSUME ReclaimLoad
      PROVE  HandInv'
  BY <1>14 DEF ReclaimLoad
<1>15. ASSUME ReclaimGiveUp
      PROVE  HandInv'
  BY <1>15 DEF ReclaimGiveUp
<1>16. ASSUME ReclaimDecide
      PROVE  HandInv'
  BY <1>16 DEF ReclaimDecide
<1>17. ASSUME ReclaimErase
      PROVE  HandInv'
  BY <1>17 DEF ReclaimErase
<1>18. CASE UNCHANGED storageVars
  BY <1>18 DEF storageVars
<1>19. QED
  BY <1>1, <1>2, <1>3, <1>4, <1>5, <1>6, <1>7, <1>8, <1>9, <1>10, <1>11, <1>12, <1>13, <1>14, <1>15, <1>16, <1>17, <1>18
     DEF StorageNext, Read, Adopt, Reclaim

\* No step leaves active_ or pending_ pointing at freed memory.
LEMMA RetainedStep ==
  ASSUME IInv, [StorageNext]_storageVars
  PROVE  RetainedInv'
<1> USE DEF IInv, StorageTypeOK, MutexInv, Critical, HandInv, OrderInv, RetainedInv, pinVars, bankVars
<1>1. ASSUME NEW p \in Pins, PinCount(p)
      PROVE  RetainedInv'
  BY <1>1 DEF PinCount
<1>2. ASSUME NEW p \in Pins, PinLoad(p)
      PROVE  RetainedInv'
  BY <1>2 DEF PinLoad
<1>3. ASSUME NEW p \in Pins, NEW q \in Pins, Bind(p, q) \/ Rebind(p, q)
      PROVE  RetainedInv'
  BY <1>3 DEF Bind, Rebind
<1>4. ASSUME NEW p \in Pins, Unpin(p)
      PROVE  RetainedInv'
  BY <1>4 DEF Unpin
<1>5. ASSUME NEW id \in Requests, RequestStarted(id)
      PROVE  RetainedInv'
  BY <1>5 DEF RequestStarted
<1>6. ASSUME NEW p \in Pins, NEW v \in BOOLEAN, SetDeferred(p, v)
      PROVE  RetainedInv'
  BY <1>6 DEF SetDeferred
<1>7. ASSUME NEW a \in Actors, AdoptTake(a)
      PROVE  RetainedInv'
  BY <1>7 DEF AdoptTake
<1>8. ASSUME NEW a \in Actors, AdoptBusy(a)
      PROVE  RetainedInv'
  BY <1>8 DEF AdoptBusy
<1>9. ASSUME NEW a \in Actors, AdoptInstall(a)
      PROVE  RetainedInv'
  BY <1>9 DEF AdoptInstall, Installed
<1>10. ASSUME NEW id \in Requests, PublishStore(id)
      PROVE  RetainedInv'
  BY <1>10 DEF PublishStore
<1>11. ASSUME PublishDeferred
      PROVE  RetainedInv'
  BY <1>11 DEF PublishDeferred
<1>12. ASSUME PublishDiscardPending
      PROVE  RetainedInv'
  BY <1>12 DEF PublishDiscardPending
<1>13. ASSUME PublishActivate
      PROVE  RetainedInv'
  BY <1>13 DEF PublishActivate
<1>14. ASSUME ReclaimLoad
      PROVE  RetainedInv'
  BY <1>14 DEF ReclaimLoad
<1>15. ASSUME ReclaimGiveUp
      PROVE  RetainedInv'
  BY <1>15 DEF ReclaimGiveUp
<1>16. ASSUME ReclaimDecide
      PROVE  RetainedInv'
  BY <1>16 DEF ReclaimDecide
<1>17. ASSUME ReclaimErase
      PROVE  RetainedInv'
  BY <1>17 DEF ReclaimErase
<1>18. CASE UNCHANGED storageVars
  BY <1>18 DEF storageVars
<1>19. QED
  BY <1>1, <1>2, <1>3, <1>4, <1>5, <1>6, <1>7, <1>8, <1>9, <1>10, <1>11, <1>12, <1>13, <1>14, <1>15, <1>16, <1>17, <1>18
     DEF StorageNext, Read, Adopt, Reclaim

\* No step leaves a pin reading freed memory.
LEMMA PinStep ==
  ASSUME IInv, [StorageNext]_storageVars
  PROVE  PinInv'
<1> USE DEF IInv, StorageTypeOK, MutexInv, Critical, HandInv, RetainedInv, PinInv, pinVars, bankVars
<1>1. ASSUME NEW p \in Pins, PinCount(p)
      PROVE  PinInv'
  BY <1>1 DEF PinCount
<1>2. ASSUME NEW p \in Pins, PinLoad(p)
      PROVE  PinInv'
  BY <1>2 DEF PinLoad
<1>3. ASSUME NEW p \in Pins, NEW q \in Pins, Bind(p, q) \/ Rebind(p, q)
      PROVE  PinInv'
  BY <1>3 DEF Bind, Rebind
<1>4. ASSUME NEW p \in Pins, Unpin(p)
      PROVE  PinInv'
  BY <1>4 DEF Unpin
<1>5. ASSUME NEW id \in Requests, RequestStarted(id)
      PROVE  PinInv'
  BY <1>5 DEF RequestStarted
<1>6. ASSUME NEW p \in Pins, NEW v \in BOOLEAN, SetDeferred(p, v)
      PROVE  PinInv'
  BY <1>6 DEF SetDeferred
<1>7. ASSUME NEW a \in Actors, AdoptTake(a)
      PROVE  PinInv'
  BY <1>7 DEF AdoptTake
<1>8. ASSUME NEW a \in Actors, AdoptBusy(a)
      PROVE  PinInv'
  BY <1>8 DEF AdoptBusy
<1>9. ASSUME NEW a \in Actors, AdoptInstall(a)
      PROVE  PinInv'
  BY <1>9 DEF AdoptInstall, Installed
<1>10. ASSUME NEW id \in Requests, PublishStore(id)
      PROVE  PinInv'
  BY <1>10 DEF PublishStore
<1>11. ASSUME PublishDeferred
      PROVE  PinInv'
  BY <1>11 DEF PublishDeferred
<1>12. ASSUME PublishDiscardPending
      PROVE  PinInv'
  BY <1>12 DEF PublishDiscardPending
<1>13. ASSUME PublishActivate
      PROVE  PinInv'
  BY <1>13 DEF PublishActivate
<1>14. ASSUME ReclaimLoad
      PROVE  PinInv'
  BY <1>14 DEF ReclaimLoad
<1>15. ASSUME ReclaimGiveUp
      PROVE  PinInv'
  BY <1>15 DEF ReclaimGiveUp
<1>16. ASSUME ReclaimDecide
      PROVE  PinInv'
  <2>1. \A p \in Pins : snap[p] = None
    <3> SUFFICES ASSUME NEW p \in Pins, snap[p] # None PROVE FALSE
      OBVIOUS
    <3>1. readers >= 1
      BY PinsAreCounted
    <3>2. QED
      BY <1>16, <3>1 DEF ReclaimDecide
  <2>2. QED
    BY <1>16, <2>1 DEF ReclaimDecide
<1>17. ASSUME ReclaimErase
      PROVE  PinInv'
  BY <1>17 DEF ReclaimErase
<1>18. CASE UNCHANGED storageVars
  BY <1>18 DEF storageVars
<1>19. QED
  BY <1>1, <1>2, <1>3, <1>4, <1>5, <1>6, <1>7, <1>8, <1>9, <1>10, <1>11, <1>12, <1>13, <1>14, <1>15, <1>16, <1>17, <1>18
     DEF StorageNext, Read, Adopt, Reclaim

\* Adoption, deferral and publication keep the newest generation current or pending.
LEMMA OrderStep ==
  ASSUME IInv, [StorageNext]_storageVars
  PROVE  OrderInv'
<1> USE DEF IInv, StorageTypeOK, MutexInv, Critical, HandInv, OrderInv, pinVars, bankVars
<1>1. ASSUME NEW p \in Pins, PinCount(p)
      PROVE  OrderInv'
  BY <1>1 DEF PinCount
<1>2. ASSUME NEW p \in Pins, PinLoad(p)
      PROVE  OrderInv'
  BY <1>2 DEF PinLoad
<1>3. ASSUME NEW p \in Pins, NEW q \in Pins, Bind(p, q) \/ Rebind(p, q)
      PROVE  OrderInv'
  BY <1>3 DEF Bind, Rebind
<1>4. ASSUME NEW p \in Pins, Unpin(p)
      PROVE  OrderInv'
  BY <1>4 DEF Unpin
<1>5. ASSUME NEW id \in Requests, RequestStarted(id)
      PROVE  OrderInv'
  BY <1>5 DEF RequestStarted
<1>6. ASSUME NEW p \in Pins, NEW v \in BOOLEAN, SetDeferred(p, v)
      PROVE  OrderInv'
  BY <1>6 DEF SetDeferred
<1>7. ASSUME NEW a \in Actors, AdoptTake(a)
      PROVE  OrderInv'
  <2>1. pc[Worker] \notin {"route", "activate", "install"}
    BY <1>7 DEF AdoptTake
  <2>2. IF pending = None THEN active = published
                          ELSE pending = published /\ active < pending
    BY <1>7, <2>1 DEF AdoptTake
  <2>3. /\ mutex' = a /\ pc' = [pc EXCEPT ![a] = "install"]
        /\ hand' = [hand EXCEPT ![a] = pending] /\ pending' = None
        /\ active' = active /\ published' = published
    BY <1>7 DEF AdoptTake
  <2>4. \A b \in Actors : pc'[b] = "install" => b = a
    BY <1>7, <2>3 DEF AdoptTake
  <2>5. QED
    BY <2>1, <2>2, <2>3, <2>4
<1>8. ASSUME NEW a \in Actors, AdoptBusy(a)
      PROVE  OrderInv'
  BY <1>8 DEF AdoptBusy
<1>9. ASSUME NEW a \in Actors, AdoptInstall(a)
      PROVE  OrderInv'
  BY <1>9 DEF AdoptInstall, Installed
<1>10. ASSUME NEW id \in Requests, PublishStore(id)
      PROVE  OrderInv'
  BY <1>10 DEF PublishStore, PublishAccepted
<1>11. ASSUME PublishDeferred
      PROVE  OrderInv'
  BY <1>11 DEF PublishDeferred
<1>12. ASSUME PublishDiscardPending
      PROVE  OrderInv'
  BY <1>12 DEF PublishDiscardPending
<1>13. ASSUME PublishActivate
      PROVE  OrderInv'
  BY <1>13 DEF PublishActivate
<1>14. ASSUME ReclaimLoad
      PROVE  OrderInv'
  BY <1>14 DEF ReclaimLoad
<1>15. ASSUME ReclaimGiveUp
      PROVE  OrderInv'
  BY <1>15 DEF ReclaimGiveUp
<1>16. ASSUME ReclaimDecide
      PROVE  OrderInv'
  BY <1>16 DEF ReclaimDecide
<1>17. ASSUME ReclaimErase
      PROVE  OrderInv'
  BY <1>17 DEF ReclaimErase
<1>18. CASE UNCHANGED storageVars
  BY <1>18 DEF storageVars
<1>19. QED
  BY <1>1, <1>2, <1>3, <1>4, <1>5, <1>6, <1>7, <1>8, <1>9, <1>10, <1>11, <1>12, <1>13, <1>14, <1>15, <1>16, <1>17, <1>18
     DEF StorageNext, Read, Adopt, Reclaim

\* The byte count catches up with generations_ before mutex_ is released.
LEMMA AccountStep ==
  ASSUME IInv, [StorageNext]_storageVars
  PROVE  AccountInv'
<1> USE DEF IInv, StorageTypeOK, MutexInv, Critical, HandInv, AccountInv, pinVars, bankVars
<1>1. ASSUME NEW p \in Pins, PinCount(p)
      PROVE  AccountInv'
  BY <1>1 DEF PinCount
<1>2. ASSUME NEW p \in Pins, PinLoad(p)
      PROVE  AccountInv'
  BY <1>2 DEF PinLoad
<1>3. ASSUME NEW p \in Pins, NEW q \in Pins, Bind(p, q) \/ Rebind(p, q)
      PROVE  AccountInv'
  BY <1>3 DEF Bind, Rebind
<1>4. ASSUME NEW p \in Pins, Unpin(p)
      PROVE  AccountInv'
  BY <1>4 DEF Unpin
<1>5. ASSUME NEW id \in Requests, RequestStarted(id)
      PROVE  AccountInv'
  BY <1>5 DEF RequestStarted
<1>6. ASSUME NEW p \in Pins, NEW v \in BOOLEAN, SetDeferred(p, v)
      PROVE  AccountInv'
  BY <1>6 DEF SetDeferred
<1>7. ASSUME NEW a \in Actors, AdoptTake(a)
      PROVE  AccountInv'
  BY <1>7 DEF AdoptTake
<1>8. ASSUME NEW a \in Actors, AdoptBusy(a)
      PROVE  AccountInv'
  BY <1>8 DEF AdoptBusy
<1>9. ASSUME NEW a \in Actors, AdoptInstall(a)
      PROVE  AccountInv'
  BY <1>9 DEF AdoptInstall
<1>10. ASSUME NEW id \in Requests, PublishStore(id)
      PROVE  AccountInv'
  BY <1>10 DEF PublishStore, PublishAccepted
<1>11. ASSUME PublishDeferred
      PROVE  AccountInv'
  BY <1>11 DEF PublishDeferred
<1>12. ASSUME PublishDiscardPending
      PROVE  AccountInv'
  BY <1>12 DEF PublishDiscardPending
<1>13. ASSUME PublishActivate
      PROVE  AccountInv'
  BY <1>13 DEF PublishActivate
<1>14. ASSUME ReclaimLoad
      PROVE  AccountInv'
  BY <1>14 DEF ReclaimLoad
<1>15. ASSUME ReclaimGiveUp
      PROVE  AccountInv'
  BY <1>15 DEF ReclaimGiveUp
<1>16. ASSUME ReclaimDecide
      PROVE  AccountInv'
  BY <1>16 DEF ReclaimDecide
<1>17. ASSUME ReclaimErase
      PROVE  AccountInv'
  BY <1>17 DEF ReclaimErase
<1>18. CASE UNCHANGED storageVars
  BY <1>18 DEF storageVars
<1>19. QED
  BY <1>1, <1>2, <1>3, <1>4, <1>5, <1>6, <1>7, <1>8, <1>9, <1>10, <1>11, <1>12, <1>13, <1>14, <1>15, <1>16, <1>17, <1>18
     DEF StorageNext, Read, Adopt, Reclaim

\* The invariant is inductive.
LEMMA Inductive == IInv /\ [StorageNext]_storageVars => IInv'
<1> SUFFICES ASSUME IInv, [StorageNext]_storageVars PROVE IInv'
  OBVIOUS
<1>1. StorageTypeOK'
  BY TypeStep
<1>2. CountInv'
  BY CountStep DEF IInv
<1>3. MutexInv' /\ HandInv' /\ RetainedInv'
  BY MutexStep, HandStep, RetainedStep
<1>4. PinInv' /\ OrderInv' /\ AccountInv'
  BY PinStep, OrderStep, AccountStep
<1>5. QED
  BY <1>1, <1>2, <1>3, <1>4 DEF IInv

\* Every state of every execution satisfies the inductive invariant.
LEMMA Invariant == StorageSpec => []IInv
<1>1. StorageInit => IInv
  BY InitIInv
<1>2. IInv /\ [StorageNext]_storageVars => IInv'
  BY Inductive
<1>3. QED
  BY <1>1, <1>2, PTL DEF StorageSpec

-----------------------------------------------------------------------------
(* The results.                                                            *)

\* Every variable of the storage keeps its type; the reader count never wraps.
THEOREM TypeCorrect == StorageSpec => []StorageTypeOK
<1>1. IInv => StorageTypeOK
  BY DEF IInv
<1>2. QED
  BY <1>1, Invariant, PTL

\* reclaimRetired frees no generation that a ReadBatch, a ReaderScope or a
\* PinnedRead can still read, for any number of them.
THEOREM ReclamationIsSafe == StorageSpec => []NoUseAfterReclaim
<1>1. IInv => NoUseAfterReclaim
  BY DEF IInv, PinInv, NoUseAfterReclaim
<1>2. QED
  BY <1>1, Invariant, PTL

\* Outside critical sections the newest published generation is active_ or
\* pending_, whatever setDeferred and adoptPending calls were lost to contention.
THEOREM NewestIsCurrentOrPending == StorageSpec => []LatestWins
<1>1. IInv => LatestWins
  BY DEF IInv, StorageTypeOK, MutexInv, Critical, OrderInv, LatestWins
<1>2. QED
  BY <1>1, Invariant, PTL

\* bytes_ is the sum over generations_ whenever mutex_ is free.
THEOREM BytesAreExact == StorageSpec => []BytesAreOfRetained
<1>1. IInv => BytesAreOfRetained
  BY DEF IInv, StorageTypeOK, MutexInv, Critical, AccountInv, BytesAreOfRetained
<1>2. QED
  BY <1>1, Invariant, PTL

\* active_ changes only under mutex_, and only to a later request's generation.
THEOREM NoRollback == StorageSpec => BankMovesForward
<1>1. IInv /\ [StorageNext]_storageVars
        => [active' # active => active' > active /\ mutex # Free]_storageVars
  <2> SUFFICES ASSUME IInv, StorageNext, active' # active
               PROVE  active' > active /\ mutex # Free
    BY DEF storageVars
  <2> USE DEF IInv, StorageTypeOK, MutexInv, Critical, HandInv, OrderInv
  <2>1. CASE \E a \in Actors : AdoptInstall(a)
    BY <2>1 DEF AdoptInstall, Installed
  <2>2. CASE PublishActivate
    BY <2>2 DEF PublishActivate
  <2>3. QED
    BY <2>1, <2>2
       DEF StorageNext, Read, PinCount, PinLoad, Bind, Rebind, Unpin, RequestStarted,
           SetDeferred, Adopt, AdoptTake, AdoptBusy, PublishStore, PublishDeferred,
           PublishDiscardPending, Reclaim, ReclaimLoad, ReclaimGiveUp, ReclaimDecide,
           ReclaimErase, bankVars, pinVars
<1>2. QED
  BY <1>1, Invariant, PTL DEF StorageSpec, BankMovesForward
-----------------------------------------------------------------------------
(* The lock-level protocol implements BankPublication.                     *)

\* A step that leaves the bank, what is staged, the memory and the views alone.
LEMMA StutterStep ==
  ASSUME UNCHANGED << active, published, generations, snap >>
  PROVE  UNCHANGED Bank!bankVars
BY DEF Bank!bankVars, Staged

\* The ids compared by adoptPending and publish are numbers.
LEMMA IdsAreNumbers ==
  ASSUME StorageTypeOK
  PROVE  active \in Nat /\ published \in Nat
<1>1. active \in Ids /\ published \in Ids
  BY DEF StorageTypeOK
<1>2. Ids \subseteq Nat
  BY RequestsArePositive
<1>3. QED
  BY <1>1, <1>2

\* Adoption installs what is staged, or only lets the adopter look again.
LEMMA AdoptInstallRefines ==
  ASSUME IInv, NEW a \in Actors, AdoptInstall(a)
  PROVE  [Bank!Next]_Bank!bankVars
<1>n. active \in Nat /\ published \in Nat
  BY IdsAreNumbers DEF IInv
<1> USE DEF IInv, StorageTypeOK, MutexInv, Critical, HandInv, OrderInv
<1>1. /\ published' = published /\ generations' = generations
      /\ active' = Installed(a)
  BY DEF AdoptInstall
<1>2. \/ snap' = snap
      \/ a \in Pins /\ snap' = [snap EXCEPT ![a] = Installed(a)]
  BY DEF AdoptInstall
<1>3. CASE hand[a] = None
  <2>1. active' = active
    BY <1>1, <1>3 DEF Installed
  <2>2. CASE snap' = snap
    BY <1>1, <2>1, <2>2, StutterStep
  <2>3. CASE a \in Pins /\ snap' = [snap EXCEPT ![a] = active]
    BY <1>1, <2>1, <2>3 DEF Bank!Next, Bank!Look, Staged
  <2>4. QED
    BY <1>1, <1>2, <2>1, <2>2, <2>3
<1>4. CASE hand[a] # None
  <2>1. hand[a] = published /\ active < published
    BY <1>4 DEF AdoptInstall
  <2>2. active' = published
    BY <1>1, <1>4, <2>1 DEF Installed
  <2>3. Staged = published /\ Staged # None /\ Staged' = None
    <3>1. published # active /\ published # None
      BY <1>n, <2>1
    <3>2. QED
      BY <1>1, <2>2, <3>1 DEF Staged
  <2>4. Bank!Install
    BY <1>1, <1>2, <2>2, <2>3 DEF Bank!Install, Bank!NoBank
  <2>5. QED
    BY <2>4 DEF Bank!Next
<1>5. QED
  BY <1>3, <1>4

\* Publication stages the new bank, which no other is newer than.
LEMMA PublishStoreRefines ==
  ASSUME IInv, NEW id \in Requests, PublishStore(id)
  PROVE  Bank!Next
<1>n. active \in Nat /\ published \in Nat
  BY IdsAreNumbers DEF IInv
<1> USE DEF IInv, StorageTypeOK, OrderInv
<1>1. id > published /\ active <= published /\ id \in Nat
  BY DEF PublishStore, PublishAccepted
<1>2. id > active /\ id > Staged
  <2>1. id > active /\ id > None
    BY <1>n, <1>1
  <2>2. QED
    BY <1>1, <2>1 DEF Staged
<1>3. Staged' = id
  BY <1>2 DEF PublishStore, Staged
<1>4. Bank!Stage(id)
  BY <1>2, <1>3 DEF PublishStore, Bank!Stage, pinVars
<1>5. QED
  BY <1>4 DEF Bank!Next

\* An immediate publication installs its bank and leaves every view alone.
LEMMA PublishActivateRefines ==
  ASSUME IInv, PublishActivate
  PROVE  Bank!Next
<1> USE DEF IInv, StorageTypeOK, HandInv, OrderInv
<1>1. hand[Worker] = published /\ active < published /\ published # None
  BY DEF PublishActivate
<1>2. Staged = published /\ Staged # None /\ Staged' = None /\ active' = Staged
  BY <1>1 DEF PublishActivate, Staged
<1>3. Bank!Install
  BY <1>2 DEF PublishActivate, Bank!Install, Bank!NoBank, pinVars
<1>4. QED
  BY <1>3 DEF Bank!Next

\* Reclamation frees only what is neither audible, staged nor in view.
LEMMA ReclaimEraseRefines ==
  ASSUME IInv, ReclaimErase
  PROVE  Bank!Next
<1> USE DEF IInv, StorageTypeOK, MutexInv, Critical, HandInv, OrderInv, PinInv, RetainedInv
<1> DEFINE dead == generations \ keep
<1>1. keep = {active, pending} /\ mutex = Worker /\ None \notin generations
  BY DEF ReclaimErase
<1>2. Staged \in {None, pending}
  BY <1>1 DEF ReclaimErase, Staged
<1>3. active \notin dead /\ Staged \notin dead /\ \A p \in Pins : snap[p] \notin dead
  BY <1>1, <1>2 DEF ReclaimErase
<1>4. Bank!Retire(dead)
  BY <1>3 DEF ReclaimErase, Bank!Retire, Staged, pinVars
<1>5. dead \in SUBSET generations
  OBVIOUS
<1>6. QED
  BY <1>4, <1>5 DEF Bank!Next

\* Every step of the protocol is a step of the abstract bank or stutters.
LEMMA StepRefines ==
  ASSUME IInv, [StorageNext]_storageVars
  PROVE  [Bank!Next]_Bank!bankVars
<1> USE DEF pinVars, bankVars
<1>1. ASSUME NEW p \in Pins, PinLoad(p)
      PROVE  Bank!Next
  BY <1>1 DEF PinLoad, Bank!Next, Bank!Look, Staged
<1>2. ASSUME NEW p \in Pins, NEW q \in Pins, Bind(p, q) \/ Rebind(p, q)
      PROVE  Bank!Next
  BY <1>2 DEF Bind, Rebind, Bank!Next, Bank!Look, Staged
<1>3. ASSUME NEW p \in Pins, Unpin(p)
      PROVE  Bank!Next
  BY <1>3 DEF Unpin, Bank!Next, Bank!LookAway, Bank!NoBank, Staged
<1>4. ASSUME NEW a \in Actors, AdoptInstall(a)
      PROVE  [Bank!Next]_Bank!bankVars
  BY <1>4, AdoptInstallRefines
<1>5. ASSUME NEW id \in Requests, PublishStore(id)
      PROVE  Bank!Next
  BY <1>5, PublishStoreRefines
<1>6. CASE PublishActivate
  BY <1>6, PublishActivateRefines
<1>7. CASE ReclaimErase
  BY <1>7, ReclaimEraseRefines
<1>8. CASE UNCHANGED << active, published, generations, snap >>
  BY <1>8, StutterStep
<1>9. QED
  BY <1>1, <1>2, <1>3, <1>4, <1>5, <1>6, <1>7, <1>8
     DEF StorageNext, storageVars, Read, PinCount, RequestStarted, SetDeferred, Adopt,
         AdoptTake, AdoptBusy, PublishDeferred, PublishDiscardPending, Reclaim,
         ReclaimLoad, ReclaimGiveUp, ReclaimDecide

\* What a client can observe of the storage is the atomic replacement of whole
\* banks: every execution of the lock-level protocol is one of BankPublication.
THEOREM ImplementsAtomicBank == StorageSpec => ImplementsBank
<1>1. StorageInit => Bank!Init
  BY DEF StorageInit, Bank!Init, Bank!NoBank, Staged
<1>2. IInv /\ [StorageNext]_storageVars => [Bank!Next]_Bank!bankVars
  BY StepRefines
<1>3. QED
  BY <1>1, <1>2, Invariant, PTL DEF StorageSpec, ImplementsBank, Bank!Spec
=============================================================================

------------------------------ MODULE GfxWorker ------------------------------
(***************************************************************************)
(* The thread that draws, GfxView's worker in src/JSFXJuceProcessor.cpp,   *)
(* with the three things it shares: surfaces with the message thread       *)
(* (src/JsfxGfxFramePool.h), input with the message thread, and script     *)
(* state with the audio thread: snapshots one way, a ring of writes the    *)
(* other way.                                                              *)
(*                                                                         *)
(* An input is a button transition, which is never coalesced; an edit is   *)
(* the one variable a frame of the script has changed.  Both are numbered. *)
(* The scalar and the span ring have one protocol; here is one ring.       *)
(***************************************************************************)
EXTENDS GfxSnapshots, Sequences, SequencesExt

CONSTANTS
    Worker,
    Surfaces,   \* the slots of FramePool
    InputCap,   \* kMaxQueuedMouseFrames
    RingSize,   \* gfxWriteQueueSize
    MaxInput,   \* bound on the inputs posted
    MaxEdits    \* bound on the edits made

ASSUME GfxAssumption ==
    /\ Worker \in Readers
    /\ Surfaces # {} /\ 0 \notin Surfaces
    /\ InputCap \in Nat \ {0} /\ RingSize \in Nat \ {0, 1}
    /\ MaxInput \in Nat /\ MaxEdits \in Nat

VARIABLES
    gpc,        \* where the worker is
    faulted,    \* its interpreter has failed for good
    canvas,     \* workerCanvas, 0 when null
    published,  \* FramePool::published, 0 when null
    leased,     \* the frame that is being painted, 0 for none
    inputs,     \* sharedInput.mouseFrames
    hand,       \* the input taken for this frame, 0 for none
    posted,     \* inputs posted
    consumed,   \* history: inputs given to a frame
    overflowed, \* history: inputs a full queue has dropped
    edit,       \* the edit of this frame, 0 for none
    edits,      \* edits made
    ring,       \* gfxWriteQueue
    head,       \* gfxWriteHead
    tail,       \* gfxWriteTail
    block,      \* where the audio block is
    from,       \* local tail of applyQueuedGfxStateWrites
    limit,      \* the head it has loaded
    accepted,   \* history: edits the ring took
    applied     \* history: edits the audio thread applied

frameVars == << canvas, published, leased >>
inputVars == << inputs, hand, posted, consumed, overflowed >>
editVars  == << edit, edits >>
sendVars  == << ring, head, accepted >>
drainVars == << tail, block, from, limit, applied >>
workVars  == << gpc, faulted, frameVars, inputVars, editVars, sendVars >>
gfxVars   == << snapshotVars, workVars, drainVars >>

GfxInit ==
    /\ SnapshotInit
    /\ gpc = "wait" /\ faulted = FALSE
    /\ canvas = 0 /\ published = 0 /\ leased = 0
    /\ inputs = << >> /\ hand = 0 /\ posted = 0 /\ consumed = {} /\ overflowed = {}
    /\ edit = 0 /\ edits = 0
    /\ ring = [i \in 0..(RingSize - 1) |-> 0]
    /\ head = 0 /\ tail = 0 /\ accepted = << >> /\ applied = << >>
    /\ block = "idle" /\ from = 0 /\ limit = 0

-----------------------------------------------------------------------------
(* The message thread.                                                     *)

\* Mutant: the limit is noticed when it has been passed.
QueueFullLate == Len(inputs) > InputCap

QueueFull == Len(inputs) = InputCap

\* A button transition joins the queue; a full queue drops its oldest.
Post ==
    /\ posted < MaxInput
    /\ posted' = posted + 1
    /\ IF QueueFull
       THEN /\ inputs' = Append(Tail(inputs), posted + 1)
            /\ overflowed' = overflowed \cup {Head(inputs)}
       ELSE /\ inputs' = Append(inputs, posted + 1)
            /\ UNCHANGED overflowed
    /\ UNCHANGED << snapshotVars, gpc, faulted, frameVars, hand, consumed,
                    editVars, sendVars, drainVars >>

\* paint keeps a handle of the frame while it draws it on the screen.
Lease ==
    /\ leased = 0 /\ published # 0
    /\ leased' = published
    /\ UNCHANGED << snapshotVars, gpc, faulted, canvas, published, inputVars,
                    editVars, sendVars, drainVars >>

Unlease ==
    /\ leased # 0
    /\ leased' = 0
    /\ UNCHANGED << snapshotVars, gpc, faulted, canvas, published, inputVars,
                    editVars, sendVars, drainVars >>

Message == Post \/ Lease \/ Unlease

-----------------------------------------------------------------------------
(* renderWorkerFrame, on the worker.                                       *)

\* Mutant: only the frame in front is spared.
BacksNotFront == Surfaces \ {published}

\* The surfaces nobody else has a handle of; the worker has dropped its own.
Backs == Surfaces \ {published, leased}

\* Mutant: the input is taken before it is known that the frame can run.
AcquireAndTake ==
    /\ gpc = "wait" /\ ~faulted
    /\ \E s \in Backs : canvas' = s
    /\ BeginRead(Worker)
    /\ gpc' = "pin"
    /\ IF inputs = << >>
       THEN UNCHANGED << inputs, hand >>
       ELSE /\ hand' = Head(inputs)
            /\ inputs' = Tail(inputs)
    /\ UNCHANGED << faulted, published, leased, posted, consumed,
                    overflowed, editVars, sendVars, drainVars >>

\* A surface first, then a snapshot.
Acquire ==
    /\ gpc = "wait" /\ ~faulted
    /\ \E s \in Backs : canvas' = s
    /\ BeginRead(Worker)
    /\ gpc' = "pin"
    /\ UNCHANGED << faulted, published, leased, inputVars,
                    editVars, sendVars, drainVars >>

\* All backs are leased: the input stays for the next round.
AcquireNone ==
    /\ gpc = "wait" /\ ~faulted
    /\ Backs = {}
    /\ UNCHANGED gfxVars

PinSnapshot ==
    /\ gpc = "pin"
    /\ Trying(Worker)
    /\ UNCHANGED << workVars, drainVars >>

\* No snapshot to be had: this frame is skipped.
SkipFrame ==
    /\ gpc = "pin"
    /\ Skip(Worker)
    /\ gpc' = "wait"
    /\ canvas' = 0
    /\ hand' = 0
    /\ UNCHANGED << faulted, published, leased, inputs, posted, consumed, overflowed,
                    editVars, sendVars, drainVars >>

\* The input is taken and the script synchronised with the snapshot (see GfxEcho).
TakeInput ==
    /\ gpc = "pin" /\ rpc[Worker] = "read"
    /\ IF inputs = << >>
       THEN UNCHANGED << inputs, hand >>
       ELSE /\ hand' = Head(inputs)
            /\ inputs' = Tail(inputs)
    /\ gpc' = "run"
    /\ UNCHANGED << snapshotVars, faulted, frameVars, posted, consumed, overflowed,
                    edit, edits, sendVars, drainVars >>

\* executeFrame: the script may edit its variable.
Execute ==
    /\ gpc = "run"
    /\ consumed' = consumed \cup ({hand} \ {0})
    /\ hand' = 0
    /\ \/ /\ edits < MaxEdits
          /\ edits' = edits + 1
          /\ edit' = edits + 1
          /\ gpc' = "send"
       \/ /\ gpc' = "present"
          /\ UNCHANGED << edit, edits >>
    /\ UNCHANGED << snapshotVars, faulted, frameVars, inputs, posted, overflowed,
                    sendVars, drainVars >>

\* executeFrame fails: nothing is sent or shown, now or later.
ExecuteFails ==
    /\ gpc = "run"
    /\ consumed' = consumed \cup ({hand} \ {0})
    /\ hand' = 0
    /\ faulted' = TRUE
    /\ gpc' = "end"
    /\ UNCHANGED << snapshotVars, frameVars, inputs, posted, overflowed, editVars,
                    sendVars, drainVars >>

Wrapped(i) == IF i < RingSize THEN i ELSE i - RingSize

Next(i) == Wrapped(i + 1)

\* Mutant: the ring is used to its last place.
FullLate == FALSE

Full == Next(head) = tail

\* The ring's entry is written before head shows it.
Send ==
    /\ gpc = "send"
    /\ ~Full
    /\ ring' = [ring EXCEPT ![head] = edit]
    /\ head' = Next(head)
    /\ accepted' = Append(accepted, edit)
    /\ edit' = 0
    /\ gpc' = "present"
    /\ UNCHANGED << snapshotVars, faulted, frameVars, inputVars, edits,
                    drainVars >>

\* The ring is full: the edit is dropped.
SendDropped ==
    /\ gpc = "send"
    /\ Full
    /\ edit' = 0
    /\ gpc' = "present"
    /\ UNCHANGED << snapshotVars, faulted, frameVars, inputVars, edits,
                    sendVars, drainVars >>

\* The drawing is shown, unless the frame has left the canvas as it was.
Present ==
    /\ gpc = "present"
    /\ published' \in {published, canvas}
    /\ gpc' = "end"
    /\ UNCHANGED << snapshotVars, faulted, canvas, leased, inputVars, editVars,
                    sendVars, drainVars >>

\* The worker's own handle does not count when it looks for a surface again.
FrameEnd ==
    /\ gpc = "end"
    /\ EndRead(Worker)
    /\ gpc' = "wait"
    /\ canvas' = 0
    /\ UNCHANGED << faulted, published, leased, inputVars, editVars, sendVars, drainVars >>

Frame == \/ Acquire \/ AcquireNone \/ PinSnapshot \/ SkipFrame \/ TakeInput
         \/ Execute \/ ExecuteFails \/ Send \/ SendDropped \/ Present \/ FrameEnd

-----------------------------------------------------------------------------
(* The audio thread: writes are applied when a block begins, the snapshot  *)
(* is published when it ends.                                              *)

DrainBegin ==
    /\ block = "idle" /\ wpc = "idle"
    /\ block' = "drain"
    /\ from' = tail
    /\ limit' = head
    /\ UNCHANGED << snapshotVars, workVars, tail, applied >>

DrainOne ==
    /\ block = "drain" /\ from # limit
    /\ applied' = Append(applied, ring[from])
    /\ from' = Next(from)
    /\ UNCHANGED << snapshotVars, workVars, tail, block, limit >>

DrainEnd ==
    /\ block = "drain" /\ from = limit
    /\ tail' = from
    /\ block' = "run"
    /\ from' = 0 /\ limit' = 0
    /\ UNCHANGED << snapshotVars, workVars, applied >>

\* A request makes the block publish; the countdown may.
BlockEnd ==
    /\ block = "run"
    /\ block' = "idle"
    /\ \/ WriterBegin
       \/ /\ ~force \/ sequence = MaxSeq
          /\ UNCHANGED snapshotVars
    /\ UNCHANGED << workVars, tail, from, limit, applied >>

Copy ==
    /\ Fill
    /\ UNCHANGED << workVars, drainVars >>

PublishStep ==
    /\ Claim \/ NextCandidate \/ NoSlot \/ FillFail \/ PublishFront \/ ReleaseWriter
    /\ UNCHANGED << workVars, drainVars >>

Audio == DrainBegin \/ DrainOne \/ DrainEnd \/ BlockEnd \/ Copy \/ PublishStep

Request ==
    /\ Ask
    /\ UNCHANGED << workVars, drainVars >>

GfxNext == Message \/ Frame \/ Audio \/ Request

GfxSpec == GfxInit /\ [][GfxNext]_gfxVars

\* Audio blocks keep coming and some step of theirs is always possible; a frame that
\* has begun goes on; memory for a copy is not short for ever.
GfxFairness ==
    /\ []<><<Audio>>_gfxVars
    /\ <>[](gpc # "wait") => []<><<Frame>>_gfxVars
    /\ []<>(wpc = "fill") => []<><<Copy>>_gfxVars

FairGfxSpec == GfxSpec /\ GfxFairness

-----------------------------------------------------------------------------
(* Properties.                                                             *)

\* Every variable keeps its type, those of the snapshots included.
GfxTypeOK ==
    /\ SnapshotTypeOK
    /\ gpc \in {"wait", "pin", "run", "send", "present", "end"}
    /\ faulted \in BOOLEAN
    /\ {canvas, published, leased} \subseteq Surfaces \cup {0}
    /\ inputs \in Seq(1..MaxInput) /\ Len(inputs) <= InputCap
    /\ {hand, posted} \subseteq 0..MaxInput
    /\ consumed \cup overflowed \subseteq 1..MaxInput
    /\ {edit, edits} \subseteq 0..MaxEdits
    /\ ring \in [0..(RingSize - 1) -> 0..MaxEdits]
    /\ {head, tail, from, limit} \subseteq 0..(RingSize - 1)
    /\ block \in {"idle", "drain", "run"}
    /\ accepted \in Seq(1..MaxEdits) /\ applied \in Seq(1..MaxEdits)

\* The surface a frame draws on is neither in front nor being painted, until it is
\* published: "no writes to a published/leased bitmap".
ShownNotDrawn ==
    gpc \in {"pin", "run", "send", "present"} => canvas \notin {published, leased, 0}

\* A button transition is queued, or in the hand of a frame that runs, or was given to
\* a script, or was pushed out of a full queue: "a contested snapshot must not lose a
\* wheel/button event".
NoInputLost ==
    consumed \cup overflowed \cup ToSet(inputs) \cup ({hand} \ {0}) = 1..posted

\* How far a place of the ring is ahead of another.
Distance(a, b) == IF a <= b THEN b - a ELSE b - a + RingSize

\* What the ring holds that the audio thread has not read yet.
First   == IF block = "drain" THEN from ELSE tail
Pending == [i \in 1..Distance(First, head) |-> ring[Wrapped(First + i - 1)]]

\* Every write the ring took is applied once and in order, or still in the ring, while
\* worker and audio thread work on its two ends.
AppliedOnceInOrder == accepted = applied \o Pending

=============================================================================

----------------------------- MODULE GfxSnapshots -----------------------------
(***************************************************************************)
(* The graphics snapshots of src/JSFXJuceProcessor.cpp: the audio thread   *)
(* publishes the script's state into one of three slots, graphics readers  *)
(* pin the slot in front.  A reader's pin and the writer's claim compete   *)
(* for one atomic of the slot, gfxSnapOwners: how many readers have it, or *)
(* -1 for the writer.  Nobody waits.                                       *)
(*                                                                         *)
(* Each action is one atomic access.  A snapshot is its sequence number;   *)
(* while it is being copied the slot holds Torn.  The 30 Hz countdown and  *)
(* the count of clients decide when a block publishes unasked: at any time.*)
(***************************************************************************)
EXTENDS Integers, FiniteSets

CONSTANTS
    N,          \* how many slots gfxSnaps has
    Readers,
    Tries,      \* attempts of beginGfxSnapshotRead
    MaxSeq      \* bound on the snapshots published

ASSUME SnapshotAssumption ==
    N \in Nat \ {0} /\ Tries \in Nat \ {0} /\ MaxSeq \in Nat /\ IsFiniteSet(Readers)

Slots == 0..(N - 1)
Torn  == -1

VARIABLES
    front,      \* gfxSnapFront
    owners,     \* gfxSnapOwners
    content,    \* of each slot: sequence, or Torn
    sequence,   \* gfxSnapshotSequence
    force,      \* gfxSnapshotForcePublish
    wpc,        \* where the writer is
    candidate,  \* the slot it tries or has claimed
    rpc,        \* where each reader is
    idx,        \* the slot it tries or has pinned
    count,      \* the owners it has seen there
    tries,      \* attempts so far
    seen        \* history: the snapshot it last began to read

writerVars == << content, sequence, wpc, candidate >>
readerVars == << rpc, idx, count, tries, seen >>
snapshotVars == << front, owners, force, writerVars, readerVars >>

SnapshotInit ==
    /\ front = 0
    /\ owners = [s \in Slots |-> 0]
    /\ content = [s \in Slots |-> 0]
    /\ sequence = 0
    /\ force = FALSE
    /\ wpc = "idle"
    /\ candidate = 0
    /\ rpc = [r \in Readers |-> "idle"]
    /\ idx = [r \in Readers |-> 0]
    /\ count = [r \in Readers |-> 0]
    /\ tries = [r \in Readers |-> 0]
    /\ seen = [r \in Readers |-> 0]

-----------------------------------------------------------------------------
(* updateGfxSnapshotIfNeeded, on the audio thread.                         *)

\* Another thread asks for a snapshot with the next block.
Ask ==
    /\ ~force
    /\ force' = TRUE
    /\ UNCHANGED << front, owners, writerVars, readerVars >>

\* The request is taken before anything can fail.
WriterBegin ==
    /\ wpc = "idle"
    /\ sequence < MaxSeq
    /\ force' = FALSE
    /\ wpc' = "claim"
    /\ candidate' = 0
    /\ UNCHANGED << front, owners, content, sequence, readerVars >>

\* Mutant: a slot somebody reads is written.
FreeUnread(s) == s # front /\ owners[s] >= 0

\* Only the writer moves front, so it need not be loaded again.
Free(s) == s # front /\ owners[s] = 0

Claim ==
    /\ wpc = "claim" /\ candidate \in Slots
    /\ Free(candidate)
    /\ owners' = [owners EXCEPT ![candidate] = -1]
    /\ content' = [content EXCEPT ![candidate] = Torn]
    /\ wpc' = "fill"
    /\ UNCHANGED << front, sequence, force, candidate, readerVars >>

NextCandidate ==
    /\ wpc = "claim" /\ candidate \in Slots
    /\ ~Free(candidate)
    /\ candidate' = candidate + 1
    /\ UNCHANGED << front, owners, content, sequence, force, wpc, readerVars >>

\* Mutant: the request is lost when every slot is taken.
NoSlotForget ==
    /\ wpc = "claim" /\ candidate \notin Slots
    /\ wpc' = "idle"
    /\ candidate' = 0
    /\ UNCHANGED << front, owners, content, sequence, force, readerVars >>

\* No slot is free: the request is made again.
NoSlot ==
    /\ wpc = "claim" /\ candidate \notin Slots
    /\ force' = TRUE
    /\ wpc' = "idle"
    /\ candidate' = 0
    /\ UNCHANGED << front, owners, content, sequence, readerVars >>

Fill ==
    /\ wpc = "fill"
    /\ content' = [content EXCEPT ![candidate] = sequence + 1]
    /\ sequence' = sequence + 1
    /\ wpc' = "publish"
    /\ UNCHANGED << front, owners, force, candidate, readerVars >>

\* bad_alloc: the frame in front stays.
FillFail ==
    /\ wpc = "fill"
    /\ force' = TRUE
    /\ wpc' = "release"
    /\ UNCHANGED << front, owners, content, sequence, candidate, readerVars >>

PublishFront ==
    /\ wpc = "publish"
    /\ front' = candidate
    /\ wpc' = "release"
    /\ UNCHANGED << owners, content, sequence, force, candidate, readerVars >>

ReleaseWriter ==
    /\ wpc = "release"
    /\ owners' = [owners EXCEPT ![candidate] = 0]
    /\ wpc' = "idle"
    /\ candidate' = 0
    /\ UNCHANGED << front, content, sequence, force, readerVars >>

Writer == \/ WriterBegin \/ Claim \/ NextCandidate \/ NoSlot
          \/ Fill \/ FillFail \/ PublishFront \/ ReleaseWriter

-----------------------------------------------------------------------------
(* beginGfxSnapshotRead and endGfxSnapshotRead.                            *)

\* The attempt failed: nullptr after the last one.  Its locals are gone.
NextTry(r) ==
    /\ rpc' = [rpc EXCEPT ![r] = IF tries[r] < Tries THEN "load" ELSE "missed"]
    /\ idx' = [idx EXCEPT ![r] = 0]
    /\ count' = [count EXCEPT ![r] = 0]
    /\ UNCHANGED << tries, seen >>

BeginRead(r) ==
    /\ rpc[r] = "idle"
    /\ rpc' = [rpc EXCEPT ![r] = "load"]
    /\ UNCHANGED << front, owners, force, writerVars, idx, count, tries, seen >>

LoadFront(r) ==
    /\ rpc[r] = "load"
    /\ idx' = [idx EXCEPT ![r] = front]
    /\ tries' = [tries EXCEPT ![r] = @ + 1]
    /\ rpc' = [rpc EXCEPT ![r] = "owners"]
    /\ UNCHANGED << front, owners, force, writerVars, count, seen >>

LoadOwners(r) ==
    /\ rpc[r] = "owners"
    /\ IF owners[idx[r]] < 0
       THEN NextTry(r)
       ELSE /\ count' = [count EXCEPT ![r] = owners[idx[r]]]
            /\ rpc' = [rpc EXCEPT ![r] = "pin"]
            /\ UNCHANGED << idx, tries, seen >>
    /\ UNCHANGED << front, owners, force, writerVars >>

Pin(r) ==
    /\ rpc[r] = "pin"
    /\ owners[idx[r]] = count[r]
    /\ owners' = [owners EXCEPT ![idx[r]] = @ + 1]
    /\ rpc' = [rpc EXCEPT ![r] = "check"]
    /\ count' = [count EXCEPT ![r] = 0]
    /\ UNCHANGED << front, force, writerVars, idx, tries, seen >>

PinFail(r) ==
    /\ rpc[r] = "pin"
    /\ owners[idx[r]] # count[r]
    /\ NextTry(r)
    /\ UNCHANGED << front, owners, force, writerVars >>

\* Mutant: the slot is read without another look at front.
CurrentAnyway(r) == TRUE

Current(r) == front = idx[r]

Check(r) ==
    /\ rpc[r] = "check"
    /\ IF Current(r)
       THEN /\ rpc' = [rpc EXCEPT ![r] = "read"]
            /\ seen' = [seen EXCEPT ![r] = content[idx[r]]]
            /\ tries' = [tries EXCEPT ![r] = 0]
       ELSE /\ rpc' = [rpc EXCEPT ![r] = "undo"]
            /\ UNCHANGED << tries, seen >>
    /\ UNCHANGED << front, owners, force, writerVars, idx, count >>

Undo(r) ==
    /\ rpc[r] = "undo"
    /\ owners' = [owners EXCEPT ![idx[r]] = @ - 1]
    /\ NextTry(r)
    /\ UNCHANGED << front, force, writerVars >>

EndRead(r) ==
    /\ rpc[r] = "read"
    /\ owners' = [owners EXCEPT ![idx[r]] = @ - 1]
    /\ rpc' = [rpc EXCEPT ![r] = "idle"]
    /\ idx' = [idx EXCEPT ![r] = 0]
    /\ UNCHANGED << front, force, writerVars, count, tries, seen >>

\* This frame is skipped.
Skip(r) ==
    /\ rpc[r] = "missed"
    /\ rpc' = [rpc EXCEPT ![r] = "idle"]
    /\ tries' = [tries EXCEPT ![r] = 0]
    /\ UNCHANGED << front, owners, force, writerVars, idx, count, seen >>

Trying(r) == \/ LoadFront(r) \/ LoadOwners(r) \/ Pin(r) \/ PinFail(r)
             \/ Check(r) \/ Undo(r)

Reader(r) == BeginRead(r) \/ Trying(r) \/ EndRead(r) \/ Skip(r)

SnapshotNext == Ask \/ Writer \/ \E r \in Readers : Reader(r)

SnapshotSpec == SnapshotInit /\ [][SnapshotNext]_snapshotVars

-----------------------------------------------------------------------------
(* Properties.                                                             *)

Counted(s) == {r \in Readers : rpc[r] \in {"check", "undo", "read"} /\ idx[r] = s}

\* Every variable of the snapshots keeps its type: no count is below -1.
SnapshotTypeOK ==
    /\ front \in Slots
    /\ owners \in [Slots -> Nat \cup {-1}]
    /\ content \in [Slots -> Nat \cup {Torn}]
    /\ sequence \in Nat
    /\ force \in BOOLEAN
    /\ wpc \in {"idle", "claim", "fill", "publish", "release"}
    /\ candidate \in 0..N
    /\ rpc \in [Readers -> {"idle", "load", "owners", "pin", "check", "undo", "read", "missed"}]
    /\ idx \in [Readers -> Slots]
    /\ count \in [Readers -> Nat]
    /\ tries \in [Readers -> Nat]
    /\ seen \in [Readers -> Nat \cup {Torn}]

\* What a reader has pinned is complete and does not change until it lets go: "No
\* reader can enter after a writer has selected a slot, even if its front-index load
\* was delayed across several publications."
StableWhileRead ==
    \A r \in Readers : rpc[r] = "read" => seen[r] # Torn /\ content[idx[r]] = seen[r]

\* A reader never goes back to an older snapshot than one it has read: the second
\* look at front in beginGfxSnapshotRead.
NeverOlder ==
    [][ \A r \in Readers : seen'[r] >= seen[r] ]_snapshotVars

\* A requested snapshot appears, though every attempt to take a slot or to copy may
\* fail: each failure asks again.
ForcedIsPublished ==
    \A n \in 0..(MaxSeq - 1) : (force /\ sequence = n) ~> (sequence > n)

=============================================================================

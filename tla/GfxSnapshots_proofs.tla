------------------------- MODULE GfxSnapshots_proofs -------------------------
(***************************************************************************)
(* Proofs about GfxSnapshots for any number of slots, of readers and of    *)
(* attempts: its types, that a pinned snapshot is complete and stable, and *)
(* that a reader never goes back.                                          *)
(***************************************************************************)
EXTENDS GfxSnapshots, FiniteSetTheorems, TLAPS

(***************************************************************************)
(* The inductive invariant.                                                *)
(***************************************************************************)

\* An atomic that is negative is the writer's claim, and nobody has that slot pinned.
ClaimInv ==
    /\ wpc \in {"fill", "publish", "release"} => candidate \in Slots
    /\ \A s \in Slots : owners[s] = -1 <=> (wpc \in {"fill", "publish", "release"} /\ candidate = s)
    /\ \A s \in Slots : owners[s] = -1 => Counted(s) = {}

\* Otherwise it counts the readers that have it pinned.
CountInv ==
    \A s \in Slots : owners[s] # -1 => owners[s] = Cardinality(Counted(s))

\* The slot in front is complete and nothing newer has been published.
FrontInv ==
    /\ content[front] # Torn /\ content[front] <= sequence
    /\ wpc \in {"fill", "publish"} => candidate # front
    /\ wpc = "publish" => content[candidate] = sequence

\* What a reader reads is what it found, and no newer than what is in front.
ReadInv ==
    \A r \in Readers :
        /\ seen[r] # Torn /\ seen[r] <= content[front]
        /\ rpc[r] = "read" => content[idx[r]] = seen[r]

SnapshotInv == SnapshotTypeOK /\ ClaimInv /\ CountInv /\ FrontInv /\ ReadInv

(***************************************************************************)
(* The readers of a slot.                                                  *)
(***************************************************************************)

Pinned == {"check", "undo", "read"}

\* The readers that count on a slot are finitely many.
LEMMA CountedFinite ==
    ASSUME NEW s
    PROVE  /\ Counted(s) \subseteq Readers
           /\ IsFiniteSet(Counted(s))
           /\ Cardinality(Counted(s)) \in Nat
BY SnapshotAssumption, FS_Subset, FS_CardinalityType DEF Counted, SnapshotAssumption

\* A step of the writer or of others leaves the readers of every slot alone.
LEMMA CountedSame ==
    ASSUME \A r \in Readers : /\ rpc'[r] \in Pinned <=> rpc[r] \in Pinned
                              /\ rpc[r] \in Pinned => idx'[r] = idx[r]
    PROVE  \A s : Counted(s)' = Counted(s)
BY DEF Counted, Pinned

\* A reader that pins joins one slot, one that unpins leaves it.
LEMMA CountedJoins ==
    ASSUME NEW r \in Readers, NEW s, rpc[r] \notin Pinned, rpc'[r] \in Pinned, idx'[r] = s,
           \A q \in Readers \ {r} : rpc'[q] = rpc[q] /\ idx'[q] = idx[q]
    PROVE  /\ Cardinality(Counted(s)') = Cardinality(Counted(s)) + 1
           /\ \A t : t # s => Counted(t)' = Counted(t)
<1>1. Counted(s)' = Counted(s) \cup {r}
  BY DEF Counted, Pinned
<1>2. r \notin Counted(s)
  BY DEF Counted, Pinned
<1>3. \A t : t # s => Counted(t)' = Counted(t)
  BY DEF Counted, Pinned
<1>4. Cardinality(Counted(s) \cup {r}) = Cardinality(Counted(s)) + 1
  BY <1>2, CountedFinite, FS_AddElement
<1> QED BY <1>1, <1>3, <1>4

\* A reader that unpins its slot is one less to count there.
LEMMA CountedLeaves ==
    ASSUME NEW r \in Readers, NEW s, rpc[r] \in Pinned, rpc'[r] \notin Pinned, idx[r] = s,
           \A q \in Readers \ {r} : rpc'[q] = rpc[q] /\ idx'[q] = idx[q]
    PROVE  /\ Cardinality(Counted(s)') = Cardinality(Counted(s)) - 1
           /\ \A t : t # s => Counted(t)' = Counted(t)
<1>1. Counted(s)' = Counted(s) \ {r}
  BY DEF Counted, Pinned
<1>2. r \in Counted(s)
  BY DEF Counted, Pinned
<1>3. \A t : t # s => Counted(t)' = Counted(t)
  BY DEF Counted, Pinned
<1>4. Cardinality(Counted(s) \ {r}) = Cardinality(Counted(s)) - 1
  BY <1>2, CountedFinite, FS_RemoveElement
<1> QED BY <1>1, <1>3, <1>4

(***************************************************************************)
(* Types.                                                                  *)
(***************************************************************************)

\* Arithmetic of the slots and of the scan over them.
LEMMA SlotFacts ==
    /\ N \in Nat /\ N > 0 /\ MaxSeq \in Nat /\ Tries \in Nat
    /\ 0 \in Slots /\ 0 \in 0..N
    /\ \A s \in Slots : s \in Nat /\ s \in 0..N
    /\ \A c \in 0..N : c \in Slots => c + 1 \in 0..N
BY SnapshotAssumption DEF SnapshotAssumption, Slots

\* A step keeps the types.
LEMMA SnapshotTyping == ASSUME SnapshotInv, [SnapshotNext]_snapshotVars PROVE SnapshotTypeOK'
<1> USE SlotFacts DEF SnapshotInv, SnapshotTypeOK, Torn, writerVars, readerVars
<1>1. CASE UNCHANGED snapshotVars
  BY <1>1 DEF snapshotVars
<1>2. CASE Ask
  BY <1>2 DEF Ask
<1>3. CASE Writer
  <2>1. CASE WriterBegin    BY <2>1 DEF WriterBegin
  <2>2. CASE Claim          BY <2>2 DEF Claim
  <2>3. CASE NextCandidate  BY <2>3 DEF NextCandidate
  <2>4. CASE NoSlot         BY <2>4 DEF NoSlot
  <2>5. CASE Fill           BY <2>5 DEF Fill, ClaimInv
  <2>6. CASE FillFail       BY <2>6 DEF FillFail
  <2>7. CASE PublishFront   BY <2>7 DEF PublishFront, ClaimInv
  <2>8. CASE ReleaseWriter  BY <2>8 DEF ReleaseWriter
  <2> QED BY <1>3, <2>1, <2>2, <2>3, <2>4, <2>5, <2>6, <2>7, <2>8 DEF Writer
<1>4. ASSUME NEW r \in Readers, Reader(r) PROVE SnapshotTypeOK'
  <2> DEFINE i == idx[r]
  <2>0. i \in Slots /\ owners[i] \in Nat \cup {-1}
    OBVIOUS
  <2>1. CASE BeginRead(r)   BY <2>1 DEF BeginRead
  <2>2. CASE LoadFront(r)   BY <2>2 DEF LoadFront
  <2>3. CASE LoadOwners(r)
    <3>1. CASE owners[i] < 0
      BY <2>3, <3>1 DEF LoadOwners, NextTry
    <3>2. CASE ~(owners[i] < 0)
      BY <2>0, <2>3, <3>2 DEF LoadOwners
    <3> QED BY <3>1, <3>2
  <2>4. CASE Pin(r)         BY <2>0, <2>4 DEF Pin
  <2>5. CASE PinFail(r)     BY <2>5 DEF PinFail, NextTry
  <2>6. CASE Check(r)
    <3>1. CASE Current(r)
      BY <2>6, <3>1 DEF Check
    <3>2. CASE ~Current(r)
      BY <2>6, <3>2 DEF Check
    <3> QED BY <3>1, <3>2
  <2>7. CASE Undo(r) \/ EndRead(r)
    <3>1. r \in Counted(i)
      BY <2>7 DEF Undo, EndRead, Counted
    <3>2. owners[i] = Cardinality(Counted(i))
      BY <3>1, <2>0 DEF ClaimInv, CountInv
    <3>3. Cardinality(Counted(i)) # 0
      BY <3>1, CountedFinite, FS_EmptySet
    <3>4. owners[i] - 1 \in Nat
      BY <3>2, <3>3, CountedFinite
    <3>5. owners' \in [Slots -> Nat \cup {-1}]
      BY <2>7, <3>4 DEF Undo, EndRead
    <3> QED BY <2>7, <3>5 DEF Undo, EndRead, NextTry
  <2>8. CASE Skip(r)        BY <2>8 DEF Skip
  <2> QED BY <1>4, <2>1, <2>2, <2>3, <2>4, <2>5, <2>6, <2>7, <2>8 DEF Reader, Trying
<1> QED BY <1>1, <1>2, <1>3, <1>4 DEF SnapshotNext

(***************************************************************************)
(* The invariant is inductive.                                             *)
(***************************************************************************)

\* The invariant holds before anything is published.
LEMMA SnapshotInvInit == SnapshotInit => SnapshotInv
<1> SUFFICES ASSUME SnapshotInit PROVE SnapshotInv
  OBVIOUS
<1> USE SlotFacts DEF SnapshotInit, Torn
<1>1. SnapshotTypeOK
  BY DEF SnapshotTypeOK
<1>2. \A s : Counted(s) = {}
  BY DEF Counted
<1>3. ClaimInv
  BY <1>2 DEF ClaimInv
<1>4. CountInv
  BY <1>2, FS_EmptySet DEF CountInv
<1>5. FrontInv /\ ReadInv
  BY DEF FrontInv, ReadInv
<1> QED BY <1>1, <1>3, <1>4, <1>5 DEF SnapshotInv

\* The writer leaves the readers where they are.
LEMMA WriterKeepsReaders ==
    ASSUME Writer \/ Ask \/ UNCHANGED snapshotVars
    PROVE  UNCHANGED readerVars /\ \A s : Counted(s)' = Counted(s)
<1>1. UNCHANGED readerVars
  BY DEF Writer, WriterBegin, Claim, NextCandidate, NoSlot, Fill, FillFail, PublishFront,
         ReleaseWriter, Ask, snapshotVars
<1> QED BY <1>1, CountedSame DEF readerVars

\* The writer keeps the claims and the counts.
LEMMA WriterClaims ==
    ASSUME SnapshotInv, Writer \/ Ask \/ UNCHANGED snapshotVars
    PROVE  ClaimInv' /\ CountInv'
<1> USE SlotFacts DEF SnapshotInv, SnapshotTypeOK
<1>0. \A s : Counted(s)' = Counted(s)
  BY WriterKeepsReaders
<1>1. CASE Claim
  <2>1. candidate \in Slots /\ owners[candidate] = 0
    BY <1>1 DEF Claim, Free
  <2>2. Cardinality(Counted(candidate)) = 0
    BY <2>1 DEF CountInv
  <2>3. Counted(candidate) = {}
    BY <2>2, CountedFinite, FS_EmptySet
  <2>4. ClaimInv'
    BY <1>0, <1>1, <2>1, <2>3 DEF Claim, ClaimInv
  <2>5. CountInv'
    BY <1>0, <1>1, <2>1 DEF Claim, CountInv
  <2> QED BY <2>4, <2>5
<1>2. CASE ReleaseWriter
  <2>1. candidate \in Slots /\ owners[candidate] = -1
    BY <1>2 DEF ReleaseWriter, ClaimInv
  <2>2. Counted(candidate) = {}
    BY <2>1 DEF ClaimInv
  <2>3. ClaimInv'
    BY <1>0, <1>2, <2>1 DEF ReleaseWriter, ClaimInv
  <2>4. CountInv'
    BY <1>0, <1>2, <2>1, <2>2, FS_EmptySet DEF ReleaseWriter, CountInv
  <2> QED BY <2>3, <2>4
<1>3. CASE WriterBegin \/ NextCandidate \/ NoSlot
  <2>1. /\ wpc \in {"idle", "claim"} /\ wpc' \in {"idle", "claim"}
        /\ owners' = owners
    BY <1>3 DEF WriterBegin, NextCandidate, NoSlot
  <2> QED BY <1>0, <2>1 DEF ClaimInv, CountInv
<1>5. CASE Ask
  BY <1>0, <1>5 DEF Ask, writerVars, ClaimInv, CountInv
<1>4. CASE Fill \/ FillFail \/ PublishFront \/ UNCHANGED snapshotVars
  BY <1>0, <1>4 DEF Fill, FillFail, PublishFront, snapshotVars, writerVars, ClaimInv, CountInv
<1> QED BY <1>1, <1>2, <1>3, <1>4, <1>5 DEF Writer

\* The writer keeps the front whole and never makes it older.
LEMMA WriterFront ==
    ASSUME SnapshotInv, Writer \/ Ask \/ UNCHANGED snapshotVars
    PROVE  FrontInv' /\ content'[front'] >= content[front]
<1> USE SlotFacts DEF SnapshotInv, SnapshotTypeOK, FrontInv, Torn
<1>1. CASE Claim
  BY <1>1 DEF Claim, Free
<1>2. CASE Fill
  BY <1>2 DEF Fill, ClaimInv
<1>3. CASE PublishFront
  BY <1>3 DEF PublishFront, ClaimInv
<1>4. CASE ReleaseWriter \/ FillFail \/ NoSlot \/ NextCandidate
  BY <1>4 DEF ReleaseWriter, FillFail, NoSlot, NextCandidate
<1>5. CASE WriterBegin \/ Ask \/ UNCHANGED snapshotVars
  BY <1>5 DEF WriterBegin, Ask, snapshotVars, writerVars
<1> QED BY <1>1, <1>2, <1>3, <1>4, <1>5 DEF Writer

\* What is pinned does not change: the writer changes only the slot it has claimed.
LEMMA WriterReads ==
    ASSUME SnapshotInv, Writer \/ Ask \/ UNCHANGED snapshotVars
    PROVE  ReadInv'
<1> SUFFICES ASSUME NEW r \in Readers
             PROVE  /\ seen'[r] # Torn /\ seen'[r] <= content'[front']
                    /\ rpc'[r] = "read" => content'[idx'[r]] = seen'[r]
  BY DEF ReadInv
<1>1. UNCHANGED readerVars
  BY WriterKeepsReaders
<1>2. seen'[r] # Torn /\ seen'[r] <= content'[front']
  <2>1. /\ content[front] \in Nat
        /\ content'[front'] # Torn /\ content'[front'] \in Nat \cup {Torn}
    BY SnapshotTyping, WriterFront DEF SnapshotInv, SnapshotTypeOK, FrontInv, SnapshotNext
  <2>2. seen[r] \in Nat /\ seen[r] <= content[front]
    BY DEF SnapshotInv, SnapshotTypeOK, ReadInv
  <2> QED BY <1>1, <2>1, <2>2, WriterFront DEF readerVars, Torn
<1>3. ASSUME rpc[r] = "read" PROVE content'[idx[r]] = content[idx[r]]
  <2>1. idx[r] \in Slots /\ r \in Counted(idx[r])
    BY <1>3 DEF SnapshotInv, SnapshotTypeOK, Counted
  <2>2. owners[idx[r]] # -1
    BY <2>1 DEF SnapshotInv, ClaimInv
  <2>3. owners[idx[r]] # 0
    BY <2>1, <2>2, CountedFinite, FS_EmptySet DEF SnapshotInv, CountInv
  <2>4. CASE Claim
    BY <2>1, <2>3, <2>4 DEF Claim, Free, SnapshotInv, SnapshotTypeOK
  <2>5. CASE Fill
    <3>1. candidate # idx[r]
      BY <2>1, <2>2, <2>5 DEF Fill, SnapshotInv, ClaimInv
    <3> QED BY <2>1, <2>5, <3>1 DEF Fill, SnapshotInv, SnapshotTypeOK
  <2>6. CASE ~Claim /\ ~Fill
    BY <2>6 DEF Writer, WriterBegin, NextCandidate, NoSlot, FillFail, PublishFront,
                ReleaseWriter, Ask, snapshotVars, writerVars
  <2> QED BY <2>4, <2>5, <2>6
<1> QED BY <1>1, <1>2, <1>3 DEF readerVars, SnapshotInv, ReadInv

\* A reader keeps the claims, the counts, the front and what it has read.
LEMMA ReaderStep ==
    ASSUME SnapshotInv, NEW r \in Readers, Reader(r)
    PROVE  ClaimInv' /\ CountInv' /\ FrontInv' /\ ReadInv'
<1> USE SlotFacts DEF SnapshotInv, SnapshotTypeOK
<1> PICK i \in Slots : i = idx[r]
  OBVIOUS
<1>0. /\ i \in Slots /\ i = idx[r]
      /\ \A q \in Readers \ {r} : rpc'[q] = rpc[q] /\ idx'[q] = idx[q] /\ seen'[q] = seen[q]
  BY DEF Reader, Trying, BeginRead, LoadFront, LoadOwners, Pin, PinFail, Check, Undo, EndRead,
         Skip, NextTry
<1>1. FrontInv'
  BY DEF Reader, Trying, BeginRead, LoadFront, LoadOwners, Pin, PinFail, Check, Undo, EndRead,
         Skip, writerVars, FrontInv
<1>2. ReadInv'
  <2>1. UNCHANGED << front, content >>
    BY DEF Reader, Trying, BeginRead, LoadFront, LoadOwners, Pin, PinFail, Check, Undo, EndRead,
           Skip, writerVars
  <2>2. CASE Check(r) /\ Current(r)
    <3>1. /\ seen'[r] = content[i] /\ i = front
          /\ idx' = idx
      BY <2>2 DEF Check, Current
    <3>2. content[front] \in Nat
      BY DEF FrontInv, Torn
    <3>3. content'[idx'[r]] = seen'[r] /\ seen'[r] # Torn /\ seen'[r] <= content'[front']
      <4>1. content'[idx'[r]] = seen'[r] /\ content'[front'] = seen'[r]
        BY <1>0, <2>1, <3>1
      <4>2. seen'[r] \in Nat /\ seen'[r] # Torn
        BY <2>1, <3>2, <4>1 DEF Torn
      <4> QED BY <4>1, <4>2
    <3>4. \A q \in Readers \ {r} : seen'[q] = seen[q] /\ rpc'[q] = rpc[q] /\ idx'[q] = idx[q]
      BY <1>0
    <3> QED BY <2>1, <3>3, <3>4 DEF ReadInv
  <2>3. CASE ~(Check(r) /\ Current(r))
    <3>1. seen'[r] = seen[r] /\ rpc'[r] # "read"
      BY <2>3 DEF Reader, Trying, BeginRead, LoadFront, LoadOwners, Pin, PinFail, Check, Undo,
                  EndRead, Skip, NextTry
    <3> QED BY <1>0, <2>1, <3>1 DEF ReadInv
  <2> QED BY <2>2, <2>3
<1>3. ClaimInv' /\ CountInv'
  <2>1. CASE Pin(r)
    <3>1. /\ owners[i] \in Nat
          /\ owners' = [owners EXCEPT ![i] = owners[i] + 1]
          /\ rpc[r] \notin Pinned /\ rpc'[r] \in Pinned /\ idx'[r] = i
      BY <2>1 DEF Pin, Pinned
    <3>2. /\ Cardinality(Counted(i)') = Cardinality(Counted(i)) + 1
          /\ \A t : t # i => Counted(t)' = Counted(t)
      BY <1>0, <3>1, CountedJoins
    <3>3. ClaimInv'
      BY <1>0, <2>1, <3>1, <3>2 DEF ClaimInv, Pin, writerVars
    <3>4. CountInv'
      BY <1>0, <3>1, <3>2 DEF CountInv
    <3> QED BY <3>3, <3>4
  <2>2. CASE Undo(r) \/ EndRead(r)
    <3>1. /\ rpc[r] \in Pinned /\ rpc'[r] \notin Pinned
          /\ owners' = [owners EXCEPT ![i] = owners[i] - 1]
      BY <2>2 DEF Undo, EndRead, NextTry, Pinned
    <3>2. /\ Cardinality(Counted(i)') = Cardinality(Counted(i)) - 1
          /\ \A t : t # i => Counted(t)' = Counted(t)
      BY <1>0, <3>1, CountedLeaves
    <3>3. owners[i] # -1 /\ owners[i] = Cardinality(Counted(i)) /\ owners[i] # 0
      <4>1. r \in Counted(i)
        BY <3>1 DEF Counted, Pinned
      <4>2. owners[i] # -1 /\ owners[i] = Cardinality(Counted(i))
        BY <1>0, <4>1 DEF ClaimInv, CountInv
      <4> QED BY <4>1, <4>2, CountedFinite, FS_EmptySet
    <3>4. ClaimInv'
      BY <1>0, <2>2, <3>1, <3>2, <3>3 DEF ClaimInv, Undo, EndRead, writerVars
    <3>5. CountInv'
      BY <1>0, <3>1, <3>2, <3>3 DEF CountInv
    <3> QED BY <3>4, <3>5
  <2>3. CASE ~Pin(r) /\ ~Undo(r) /\ ~EndRead(r)
    <3>1. /\ UNCHANGED << owners, wpc, candidate >>
          /\ rpc[r] \in Pinned <=> rpc'[r] \in Pinned
          /\ rpc[r] \in Pinned => idx'[r] = i
      BY <2>3 DEF Reader, Trying, BeginRead, LoadFront, LoadOwners, PinFail, Check, Skip, NextTry,
                  Pinned, writerVars
    <3>2. \A s : Counted(s)' = Counted(s)
      BY <1>0, <3>1, CountedSame
    <3> QED BY <3>1, <3>2 DEF ClaimInv, CountInv
  <2> QED BY <2>1, <2>2, <2>3
<1> QED BY <1>1, <1>2, <1>3

\* A step keeps the invariant.
LEMMA SnapshotInvStep == SnapshotInv /\ [SnapshotNext]_snapshotVars => SnapshotInv'
<1> SUFFICES ASSUME SnapshotInv, [SnapshotNext]_snapshotVars PROVE SnapshotInv'
  OBVIOUS
<1>1. SnapshotTypeOK'
  BY SnapshotTyping
<1>2. CASE Writer \/ Ask \/ UNCHANGED snapshotVars
  BY <1>1, <1>2, WriterClaims, WriterFront, WriterReads DEF SnapshotInv
<1>3. ASSUME NEW r \in Readers, Reader(r) PROVE SnapshotInv'
  BY <1>1, <1>3, ReaderStep DEF SnapshotInv
<1> QED BY <1>2, <1>3 DEF SnapshotNext

\* What the owner words of JsfxGfxSnapshots.h and the readers keep together.
THEOREM SnapshotInvariant == SnapshotSpec => []SnapshotInv
BY SnapshotInvInit, SnapshotInvStep, PTL DEF SnapshotSpec

(***************************************************************************)
(* What follows from it.                                                   *)
(***************************************************************************)

\* Every variable keeps its type.
THEOREM SnapshotTypes == SnapshotSpec => []SnapshotTypeOK
BY SnapshotInvariant, PTL DEF SnapshotInv

\* However reads, claims and publications interleave, a pinned snapshot is complete and
\* does not change: updateGfxSnapshotIfNeeded never writes a slot that
\* beginGfxSnapshotRead has returned.
THEOREM PinnedIsStable == SnapshotSpec => []StableWhileRead
<1>1. SnapshotInv => StableWhileRead
  BY DEF SnapshotInv, ReadInv, StableWhileRead
<1> QED BY <1>1, SnapshotInvariant, PTL

\* The snapshots one reader obtains never get older.
THEOREM ReadersMoveForward == SnapshotSpec => NeverOlder
<1>1. SnapshotInv /\ [SnapshotNext]_snapshotVars
        => [\A r \in Readers : seen'[r] >= seen[r]]_snapshotVars
  <2> SUFFICES ASSUME SnapshotInv, SnapshotNext, NEW r \in Readers PROVE seen'[r] >= seen[r]
    OBVIOUS
  <2>1. seen[r] \in Nat /\ seen[r] <= content[front] /\ content[front] \in Nat
    BY DEF SnapshotInv, SnapshotTypeOK, ReadInv, FrontInv
  <2>2. CASE Writer \/ Ask
    BY <2>1, <2>2, WriterKeepsReaders DEF readerVars
  <2>3. ASSUME NEW q \in Readers, Reader(q) PROVE seen'[r] >= seen[r]
    <3>1. seen'[r] = seen[r] \/ (r = q /\ Check(q) /\ Current(q))
      BY <2>3 DEF Reader, Trying, BeginRead, LoadFront, LoadOwners, Pin, PinFail, Check, Undo,
                  EndRead, Skip, NextTry, SnapshotInv, SnapshotTypeOK
    <3>2. CASE r = q /\ Check(q) /\ Current(q)
      BY <2>1, <3>2 DEF Check, Current, SnapshotInv, SnapshotTypeOK
    <3> QED BY <2>1, <3>1, <3>2
  <2> QED BY <2>2, <2>3 DEF SnapshotNext
<1> QED BY <1>1, SnapshotInvariant, PTL DEF SnapshotSpec, NeverOlder

=============================================================================

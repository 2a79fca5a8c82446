--------------------------- MODULE GfxWorker_proofs ---------------------------
(***************************************************************************)
(* Proofs about GfxWorker for any sizes: its parts keep the snapshot       *)
(* protocol, no input is lost and no shown surface is drawn on.            *)
(***************************************************************************)
EXTENDS GfxWorker, GfxSnapshots_proofs, SequenceTheorems

(***************************************************************************)
(* The composition keeps the protocol of the snapshots.                    *)
(***************************************************************************)

\* A step of the worker and its clients is a step of the snapshot protocol.
LEMMA StepKeepsProtocol == [GfxNext]_gfxVars => [SnapshotNext]_snapshotVars
<1> SUFFICES ASSUME [GfxNext]_gfxVars PROVE [SnapshotNext]_snapshotVars
  OBVIOUS
<1>1. CASE Message \/ UNCHANGED gfxVars
  BY <1>1 DEF Message, Post, Lease, Unlease, gfxVars
<1>2. CASE Frame
  <2>1. CASE AcquireNone \/ TakeInput \/ Execute \/ ExecuteFails \/ Send \/ SendDropped \/ Present
    BY <2>1 DEF AcquireNone, TakeInput, Execute, ExecuteFails, Send, SendDropped, Present, gfxVars
  <2>2. CASE Acquire \/ PinSnapshot \/ SkipFrame \/ FrameEnd
    <3>1. Reader(Worker)
      BY <2>2 DEF Acquire, PinSnapshot, SkipFrame, FrameEnd, Reader
    <3> QED BY <3>1, GfxAssumption DEF SnapshotNext, GfxAssumption
  <2> QED BY <1>2, <2>1, <2>2 DEF Frame
<1>3. CASE Audio
  BY <1>3 DEF Audio, DrainBegin, DrainOne, DrainEnd, BlockEnd, Copy, PublishStep, SnapshotNext, Writer
<1>4. CASE Request
  BY <1>4 DEF Request, SnapshotNext
<1> QED BY <1>1, <1>2, <1>3, <1>4 DEF GfxNext

\* Worker, audio thread and message thread together follow the protocol of
\* beginGfxSnapshotRead and updateGfxSnapshotIfNeeded.
THEOREM WorkerKeepsProtocol == GfxSpec => SnapshotSpec
<1>1. GfxInit => SnapshotInit
  BY DEF GfxInit
<1> QED BY <1>1, StepKeepsProtocol, PTL DEF GfxSpec, SnapshotSpec

\* So a frame's snapshot is stable for as long as the frame runs.
THEOREM FrameReadsStable == GfxSpec => []StableWhileRead
BY WorkerKeepsProtocol, PinnedIsStable, PTL

\* And the next frame's is not older.
THEOREM FramesMoveForward == GfxSpec => NeverOlder
BY WorkerKeepsProtocol, ReadersMoveForward, PTL

(***************************************************************************)
(* Surfaces.                                                               *)
(***************************************************************************)

\* A step keeps the drawn image apart from the one that is shown.
LEMMA DrawStep == ShownNotDrawn /\ [GfxNext]_gfxVars => ShownNotDrawn'
<1> SUFFICES ASSUME ShownNotDrawn, [GfxNext]_gfxVars PROVE ShownNotDrawn'
  OBVIOUS
<1> USE DEF ShownNotDrawn
<1>1. CASE Message \/ UNCHANGED gfxVars \/ Request
  BY <1>1 DEF Message, Post, Lease, Unlease, Request, gfxVars, workVars, frameVars
<1>2. CASE Frame
  <2>1. CASE Acquire
    BY <2>1, GfxAssumption DEF Acquire, Backs, GfxAssumption
  <2>2. CASE AcquireNone \/ PinSnapshot \/ TakeInput \/ Execute \/ Send \/ SendDropped
    BY <2>2 DEF AcquireNone, PinSnapshot, TakeInput, Execute, Send, SendDropped, gfxVars,
                workVars, frameVars
  <2>3. CASE SkipFrame \/ ExecuteFails \/ Present \/ FrameEnd
    BY <2>3 DEF SkipFrame, ExecuteFails, Present, FrameEnd
  <2> QED BY <1>2, <2>1, <2>2, <2>3 DEF Frame
<1>3. CASE Audio
  BY <1>3 DEF Audio, DrainBegin, DrainOne, DrainEnd, BlockEnd, Copy, PublishStep, workVars, frameVars
<1> QED BY <1>1, <1>2, <1>3 DEF GfxNext

\* The surface a frame draws on is neither shown nor being painted.
THEOREM DrawsAside == GfxSpec => []ShownNotDrawn
<1>1. GfxInit => ShownNotDrawn
  BY DEF GfxInit, ShownNotDrawn
<1> QED BY <1>1, DrawStep, PTL DEF GfxSpec

(***************************************************************************)
(* Inputs.                                                                 *)
(***************************************************************************)

\* Only a frame that runs has an input in hand.
InputInv ==
    /\ posted \in Nat /\ inputs \in Seq(Nat \ {0}) /\ hand \in Nat
    /\ gpc # "run" => hand = 0
    /\ NoInputLost

\* Taking the head of a queue takes one element from what it holds.
LEMMA TakesHead ==
    ASSUME NEW q \in Seq(Nat \ {0}), q # << >>
    PROVE  /\ Tail(q) \in Seq(Nat \ {0}) /\ Head(q) \in Nat \ {0}
           /\ ToSet(q) = ToSet(Tail(q)) \cup {Head(q)}
<1>0. DOMAIN Tail(q) = 1..Len(Tail(q))
  OBVIOUS
<1>1. Len(q) \in Nat /\ Len(q) # 0 /\ Tail(q) \in Seq(Nat \ {0}) /\ Len(Tail(q)) = Len(q) - 1
  OBVIOUS
<1>2. \A i \in 1..Len(q) - 1 : Tail(q)[i] = q[i + 1]
  OBVIOUS
<1>3. Head(q) = q[1] /\ q[1] \in Nat \ {0}
  BY <1>1
<1>4. ToSet(q) \subseteq ToSet(Tail(q)) \cup {Head(q)}
  <2> SUFFICES ASSUME NEW i \in 1..Len(q) PROVE q[i] \in ToSet(Tail(q)) \cup {Head(q)}
    BY DEF ToSet
  <2>1. CASE i = 1
    BY <2>1, <1>3
  <2>2. CASE i # 1
    <3>1. i - 1 \in 1..Len(Tail(q)) /\ Tail(q)[i - 1] = q[i]
      BY <2>2, <1>1, <1>2
    <3> QED BY <3>1, <1>0 DEF ToSet
  <2> QED BY <2>1, <2>2
<1>5. ToSet(Tail(q)) \cup {Head(q)} \subseteq ToSet(q)
  <2>1. \A i \in 1..Len(Tail(q)) : i + 1 \in 1..Len(q) /\ Tail(q)[i] = q[i + 1]
    BY <1>1, <1>2
  <2> QED BY <1>1, <1>3, <2>1 DEF ToSet
<1> QED BY <1>1, <1>3, <1>4, <1>5

\* Appending adds one element to what a queue holds.
LEMMA AppendsOne ==
    ASSUME NEW q \in Seq(Nat \ {0}), NEW e \in Nat \ {0}
    PROVE  Append(q, e) \in Seq(Nat \ {0}) /\ ToSet(Append(q, e)) = ToSet(q) \cup {e}
<1>1. /\ Append(q, e) \in Seq(Nat \ {0}) /\ Len(Append(q, e)) = Len(q) + 1 /\ Len(q) \in Nat
      /\ Append(q, e)[Len(q) + 1] = e
      /\ \A i \in 1..Len(q) : Append(q, e)[i] = q[i]
  OBVIOUS
<1>2. 1..(Len(q) + 1) = 1..Len(q) \cup {Len(q) + 1}
  BY <1>1
<1> QED BY <1>1, <1>2, SMTT(30) DEF ToSet

\* A step loses no input.
LEMMA InputStep == InputInv /\ [GfxNext]_gfxVars => InputInv'
<1> SUFFICES ASSUME InputInv, [GfxNext]_gfxVars PROVE InputInv'
  OBVIOUS
<1> USE DEF InputInv, NoInputLost
<1>1. CASE Post
  <2>1. 1..posted' = 1..posted \cup {posted + 1} /\ posted' = posted + 1 /\ posted + 1 \in Nat \ {0}
    BY <1>1 DEF Post
  <2>2. UNCHANGED << gpc, hand, consumed >>
    BY <1>1 DEF Post
  <2>3. CASE QueueFull
    <3>1. inputs # << >>
      BY <2>3, GfxAssumption DEF QueueFull, GfxAssumption
    <3>2. /\ inputs' = Append(Tail(inputs), posted + 1)
          /\ overflowed' = overflowed \cup {Head(inputs)}
      BY <1>1, <2>3 DEF Post
    <3>3. /\ inputs' \in Seq(Nat \ {0})
          /\ ToSet(inputs') = ToSet(Tail(inputs)) \cup {posted + 1}
          /\ ToSet(inputs) = ToSet(Tail(inputs)) \cup {Head(inputs)}
      BY <2>1, <3>1, <3>2, TakesHead, AppendsOne
    <3> QED BY <2>1, <2>2, <3>2, <3>3
  <2>4. CASE ~QueueFull
    <3>1. inputs' = Append(inputs, posted + 1) /\ overflowed' = overflowed
      BY <1>1, <2>4 DEF Post
    <3>2. inputs' \in Seq(Nat \ {0}) /\ ToSet(inputs') = ToSet(inputs) \cup {posted + 1}
      BY <2>1, <3>1, AppendsOne
    <3> QED BY <2>1, <2>2, <3>1, <3>2
  <2> QED BY <2>3, <2>4
<1>2. CASE TakeInput
  <2>1. UNCHANGED << posted, consumed, overflowed >> /\ hand = 0 /\ gpc' = "run"
    BY <1>2 DEF TakeInput
  <2>2. CASE inputs = << >>
    BY <1>2, <2>1, <2>2 DEF TakeInput
  <2>3. CASE inputs # << >>
    <3>1. inputs' = Tail(inputs) /\ hand' = Head(inputs)
      BY <1>2, <2>3 DEF TakeInput
    <3>2. /\ inputs' \in Seq(Nat \ {0}) /\ hand' \in Nat \ {0}
          /\ ToSet(inputs) = ToSet(inputs') \cup {hand'}
      BY <2>3, <3>1, TakesHead
    <3> QED BY <2>1, <3>2
  <2> QED BY <2>2, <2>3
<1>3. CASE Execute \/ ExecuteFails
  <2>1. /\ UNCHANGED << posted, inputs, overflowed >>
        /\ hand' = 0 /\ consumed' = consumed \cup ({hand} \ {0})
    BY <1>3 DEF Execute, ExecuteFails
  <2> QED BY <2>1
<1>4. CASE SkipFrame
  <2>1. UNCHANGED << posted, inputs, overflowed, consumed >> /\ hand' = 0 /\ hand = 0
    BY <1>4 DEF SkipFrame
  <2> QED BY <2>1
<1>5. CASE ~Post /\ ~TakeInput /\ ~Execute /\ ~ExecuteFails /\ ~SkipFrame
  <2>1. UNCHANGED inputVars /\ (gpc' = "run" => gpc = "run") /\ (gpc = "run" => gpc' = "run" \/ UNCHANGED gfxVars)
    BY <1>5 DEF GfxNext, Message, Lease, Unlease, Frame, Acquire, AcquireNone, PinSnapshot, Send,
                SendDropped, Present, FrameEnd, Audio, DrainBegin, DrainOne, DrainEnd, BlockEnd,
                Copy, PublishStep, Request, workVars, gfxVars
  <2> QED BY <2>1 DEF inputVars, gfxVars, workVars
<1> QED BY <1>1, <1>2, <1>3, <1>4, <1>5

\* Nothing has been posted to begin with.
LEMMA InputInvInit == GfxInit => InputInv
BY DEF GfxInit, InputInv, NoInputLost, ToSet

\* A button transition that was posted is queued, in the hand of a frame that runs,
\* has been given to the script, or was pushed out of a full queue.
THEOREM InputsAreKept == GfxSpec => []NoInputLost
<1>1. InputInv => NoInputLost
  BY DEF InputInv
<1> QED BY <1>1, InputInvInit, InputStep, PTL DEF GfxSpec

(***************************************************************************)
(* The ring of writes.                                                     *)
(***************************************************************************)

Places == 0..(RingSize - 1)

\* What the ring keeps in order: from place a up to place h, array r holds what of s is
\* not in t, in order.
Holds(a, h, r, s, t) ==
    /\ Len(s) = Len(t) + Distance(a, h)
    /\ \A j \in 1..Len(t) : s[j] = t[j]
    /\ \A i \in 1..Distance(a, h) : s[Len(t) + i] = r[Wrapped(a + i - 1)]

\* While the audio thread drains it has not passed the head it loaded, and the
\* worker, which looks at tail, has more room to leave than it believes.
RingInv ==
    /\ head \in Places /\ tail \in Places /\ from \in Places /\ limit \in Places
    /\ ring \in [Places -> Nat]
    /\ edit \in Nat /\ edits \in Nat
    /\ accepted \in Seq(Nat) /\ applied \in Seq(Nat)
    /\ block = "drain" => /\ Distance(from, limit) <= Distance(from, head)
                          /\ Distance(from, head) <= Distance(tail, head)
    /\ Holds(First, head, ring, accepted, applied)

\* Arithmetic of the ring.
LEMMA RingFacts ==
    /\ RingSize \in Nat /\ RingSize > 1
    /\ 0 \in Places
    /\ \A a, b \in Places : /\ Distance(a, b) \in Nat /\ Distance(a, b) < RingSize
                            /\ Distance(a, b) = 0 <=> a = b
                            /\ Next(a) \in Places
    /\ \A a \in Places : \A i \in 1..RingSize : Wrapped(a + i - 1) \in Places
BY GfxAssumption DEF GfxAssumption, Distance, Places, Next, Wrapped

\* The end of a stretch that does not fill the ring moves on.
LEMMA EndMoves ==
    ASSUME NEW a \in Places, NEW b \in Places, Distance(a, b) < RingSize - 1
    PROVE  /\ Distance(a, Next(b)) = Distance(a, b) + 1
           /\ Wrapped(a + Distance(a, b)) = b
           /\ \A i \in 1..Distance(a, b) : Wrapped(a + i - 1) # b
BY GfxAssumption DEF GfxAssumption, Distance, Places, Next, Wrapped

\* A ring whose next place is not its first one has room to spare.
LEMMA RoomMeans ==
    ASSUME NEW a \in Places, NEW b \in Places, Next(b) # a
    PROVE  Distance(a, b) < RingSize - 1
BY GfxAssumption DEF GfxAssumption, Distance, Places, Next, Wrapped

\* The beginning of a stretch that is not empty moves on.
LEMMA BeginMoves ==
    ASSUME NEW a \in Places, NEW b \in Places, a # b
    PROVE  /\ Distance(Next(a), b) = Distance(a, b) - 1
           /\ \A i \in 1..(Distance(a, b) - 1) : Wrapped(Next(a) + i - 1) = Wrapped(a + i)
           /\ Wrapped(a) = a
BY GfxAssumption DEF GfxAssumption, Distance, Places, Next, Wrapped

\* A write that finds room goes to the end of what the ring holds.
LEMMA SendHolds ==
    ASSUME NEW a \in Places, NEW h \in Places, NEW r \in [Places -> Nat],
           NEW s \in Seq(Nat), NEW t \in Seq(Nat), NEW e \in Nat,
           Distance(a, h) < RingSize - 1, Holds(a, h, r, s, t)
    PROVE  Holds(a, Next(h), [r EXCEPT ![h] = e], Append(s, e), t)
<1> DEFINE d == Distance(a, h)
           S == Append(s, e)
           R == [r EXCEPT ![h] = e]
<1>1. d \in Nat /\ d < RingSize /\ RingSize \in Nat
  BY RingFacts
<1>2. /\ Distance(a, Next(h)) = d + 1
      /\ Wrapped(a + d) = h
      /\ \A i \in 1..d : Wrapped(a + i - 1) # h
  BY EndMoves
<1>3. Len(S) = Len(s) + 1 /\ S[Len(s) + 1] = e /\ \A j \in 1..Len(s) : S[j] = s[j]
  OBVIOUS
<1> HIDE DEF S
<1>4. Len(s) = Len(t) + d /\ Len(t) \in Nat
  BY DEF Holds
<1>5. \A j \in 1..Len(t) : S[j] = t[j]
  BY <1>1, <1>3, <1>4 DEF Holds
<1>6. ASSUME NEW i \in 1..(d + 1) PROVE S[Len(t) + i] = R[Wrapped(a + i - 1)]
  <2>1. CASE i \in 1..d
    <3>1. S[Len(t) + i] = s[Len(t) + i]
      <4> HIDE DEF d
      <4>1. Len(t) + i \in 1..Len(s)
        BY <1>1, <1>4, <2>1
      <4> QED BY <1>3, <4>1
    <3>2. Wrapped(a + i - 1) # h /\ Wrapped(a + i - 1) \in Places
      BY <1>1, <1>2, <2>1, RingFacts
    <3>3. R[Wrapped(a + i - 1)] = r[Wrapped(a + i - 1)]
      BY <3>2
    <3> QED BY <2>1, <3>1, <3>3 DEF Holds
  <2>2. CASE i = d + 1
    <3>1. Wrapped(a + i - 1) = h
      <4>1. a + i - 1 = a + d
        BY <1>1, <2>2 DEF Places
      <4> QED BY <1>2, <4>1
    <3>2. S[Len(t) + i] = e
      BY <1>1, <1>3, <1>4, <2>2
    <3> QED BY <3>1, <3>2
  <2>3. i \in 1..d \/ i = d + 1
    <3> HIDE DEF d
    <3> QED BY <1>1
  <2> QED BY <2>1, <2>2, <2>3
<1>7. Len(S) = Len(t) + (d + 1)
  BY <1>1, <1>3, <1>4
<1> HIDE DEF R, d
<1>8. Holds(a, Next(h), R, S, t)
  BY <1>2, <1>5, <1>6, <1>7 DEF Holds
<1> QED BY <1>8 DEF S, R

\* The write at the beginning goes over to what has been applied.
LEMMA DrainHolds ==
    ASSUME NEW a \in Places, NEW h \in Places, NEW r \in [Places -> Nat],
           NEW s \in Seq(Nat), NEW t \in Seq(Nat), a # h, Holds(a, h, r, s, t)
    PROVE  Holds(Next(a), h, r, s, Append(t, r[a]))
<1> DEFINE d == Distance(a, h)
           T == Append(t, r[a])
<1>1. d \in Nat /\ d # 0
  BY RingFacts
<1>2. /\ Distance(Next(a), h) = d - 1
      /\ \A i \in 1..(d - 1) : Wrapped(Next(a) + i - 1) = Wrapped(a + i)
      /\ Wrapped(a) = a
  BY BeginMoves
<1>3. Len(T) = Len(t) + 1 /\ T[Len(t) + 1] = r[a] /\ \A j \in 1..Len(t) : T[j] = t[j]
  OBVIOUS
<1> HIDE DEF T
<1>4. Len(s) = Len(t) + d /\ Len(t) \in Nat
  BY DEF Holds
<1>5. s[Len(t) + 1] = r[a]
  <2>1. 1 \in 1..d /\ a + 1 - 1 = a
    BY <1>1 DEF Places
  <2> QED BY <1>2, <2>1 DEF Holds
<1>6. ASSUME NEW j \in 1..(Len(t) + 1) PROVE s[j] = T[j]
  <2> HIDE DEF d
  <2>1. CASE j \in 1..Len(t)
    <3>1. s[j] = t[j]
      BY <2>1 DEF Holds
    <3> QED BY <1>3, <2>1, <3>1
  <2>2. CASE j = Len(t) + 1
    BY <1>3, <1>5, <2>2
  <2>3. j \in 1..Len(t) \/ j = Len(t) + 1
    BY <1>4
  <2> QED BY <2>1, <2>2, <2>3
<1>7. ASSUME NEW i \in 1..(d - 1) PROVE s[Len(t) + 1 + i] = r[Wrapped(Next(a) + i - 1)]
  <2>1. i + 1 \in 1..d /\ a + (i + 1) - 1 = a + i /\ Len(t) + 1 + i = Len(t) + (i + 1)
    BY <1>1, <1>4 DEF Places
  <2>2. s[Len(t) + (i + 1)] = r[Wrapped(a + (i + 1) - 1)]
    BY <2>1 DEF Holds
  <2> QED BY <1>2, <2>1, <2>2
<1>8. Len(s) = Len(T) + (d - 1)
  BY <1>1, <1>3, <1>4
<1>9. Len(T) = Len(t) + 1
  BY <1>3
<1> HIDE DEF d
<1>10. Holds(Next(a), h, r, s, T)
  BY <1>2, <1>6, <1>7, <1>8, <1>9 DEF Holds
<1> QED BY <1>10 DEF T

\* The elementwise statement is the one of AppliedOnceInOrder.
LEMMA HeldInOrder == RingInv /\ First \in Places => AppliedOnceInOrder
<1> SUFFICES ASSUME RingInv, First \in Places PROVE accepted = applied \o Pending
  BY DEF AppliedOnceInOrder
<1> DEFINE d == Distance(First, head)
<1>1. d \in Nat /\ d < RingSize /\ RingSize \in Nat
  BY RingFacts DEF RingInv
<1>2. accepted \in Seq(Nat) /\ applied \in Seq(Nat) /\ ring \in [Places -> Nat]
  BY DEF RingInv
<1>3. \A i \in 1..d : ring[Wrapped(First + i - 1)] \in Nat
  BY <1>1, <1>2, RingFacts
<1>4. /\ Len(accepted) = Len(applied) + d
      /\ \A j \in 1..Len(applied) : accepted[j] = applied[j]
      /\ \A i \in 1..d : accepted[Len(applied) + i] = ring[Wrapped(First + i - 1)]
  BY DEF RingInv, Holds
<1>5. Pending = [i \in 1..d |-> ring[Wrapped(First + i - 1)]]
  BY DEF Pending
<1> HIDE DEF d
<1>6. Pending \in Seq(Nat) /\ Len(Pending) = d
  BY <1>1, <1>3, <1>5
<1>7. \A i \in 1..d : accepted[Len(applied) + i] = Pending[i]
  BY <1>4, <1>5
<1>8. applied \o Pending \in Seq(Nat) /\ Len(applied \o Pending) = Len(accepted)
  BY <1>2, <1>4, <1>6
<1>9. ASSUME NEW j \in 1..Len(accepted) PROVE accepted[j] = (applied \o Pending)[j]
  <2>1. CASE j \in 1..Len(applied)
    BY <1>2, <1>4, <1>6, <2>1
  <2>2. CASE j \notin 1..Len(applied)
    <3>1. PICK i \in 1..d : j = Len(applied) + i
      <4>1. j - Len(applied) \in 1..d /\ j = Len(applied) + (j - Len(applied))
        BY <1>1, <1>2, <1>4, <2>2
      <4> QED BY <4>1
    <3>2. (applied \o Pending)[j] = Pending[i]
      BY <1>1, <1>2, <1>6, <3>1
    <3> QED BY <1>7, <3>1, <3>2
  <2> QED BY <2>1, <2>2
<1> QED BY <1>2, <1>8, <1>9, SeqEqual

\* What the ring still holds begins in the ring, no earlier than its tail.
LEMMA FirstInRing ==
    RingInv => /\ First \in Places
               /\ Distance(First, head) \in Nat
               /\ Distance(First, head) <= Distance(tail, head)
<1> SUFFICES ASSUME RingInv PROVE First \in Places /\ Distance(First, head) \in Nat
                                  /\ Distance(First, head) <= Distance(tail, head)
  OBVIOUS
<1>1. head \in Places /\ tail \in Places /\ from \in Places
  BY DEF RingInv
<1>2. /\ Distance(from, head) \in Nat
      /\ Distance(tail, head) \in Nat
  BY <1>1, RingFacts
<1>3. CASE block = "drain"
  BY <1>1, <1>2, <1>3 DEF RingInv, First
<1>4. CASE block # "drain"
  BY <1>1, <1>2, <1>4 DEF First
<1> QED BY <1>3, <1>4

\* A step keeps the ring.
LEMMA RingStep == RingInv /\ [GfxNext]_gfxVars => RingInv'
<1> SUFFICES ASSUME RingInv, [GfxNext]_gfxVars PROVE RingInv'
  OBVIOUS
<1>0. /\ head \in Places /\ tail \in Places /\ from \in Places /\ limit \in Places
      /\ ring \in [Places -> Nat]
      /\ edit \in Nat /\ edits \in Nat /\ accepted \in Seq(Nat) /\ applied \in Seq(Nat)
      /\ First \in Places /\ Distance(First, head) <= Distance(tail, head)
      /\ Holds(First, head, ring, accepted, applied)
      /\ block = "drain" => /\ Distance(from, limit) <= Distance(from, head)
                            /\ Distance(from, head) <= Distance(tail, head)
  BY FirstInRing DEF RingInv
<1>1. CASE Send
  <2>1. /\ UNCHANGED << tail, block, from, limit, applied, edits >>
        /\ ring' = [ring EXCEPT ![head] = edit]
        /\ head' = Next(head) /\ accepted' = Append(accepted, edit) /\ edit' = 0
        /\ Next(head) # tail
    BY <1>1 DEF Send, Full, drainVars
  <2>2. First' = First
    BY <2>1 DEF First
  <2>3. Distance(tail, head) < RingSize - 1
    BY <1>0, <2>1, RoomMeans
  <2>4. Distance(First, head) < RingSize - 1
    <3>1. Distance(First, head) \in Nat /\ Distance(tail, head) \in Nat /\ RingSize \in Nat
      BY <1>0, RingFacts
    <3> QED BY <1>0, <2>3, <3>1
  <2>5. Holds(First, head', ring', accepted', applied)
    <3> HIDE DEF First, Holds, Distance, Next
    <3> QED BY <1>0, <2>1, <2>4, SendHolds
  <2>6. Holds(First', head', ring', accepted', applied')
    BY <2>1, <2>2, <2>5
  <2>7. head' \in Places /\ tail' \in Places /\ from' \in Places /\ limit' \in Places /\ ring' \in [Places -> Nat]
    BY <1>0, <2>1, RingFacts
  <2>8. accepted' \in Seq(Nat) /\ applied' \in Seq(Nat) /\ edit' \in Nat /\ edits' \in Nat
    BY <1>0, <2>1
  <2>9. ASSUME block' = "drain"
        PROVE  /\ Distance(from, limit)' <= Distance(from, head)'
               /\ Distance(from, head)' <= Distance(tail, head)'
    <3>1. /\ Distance(from, Next(head)) = Distance(from, head) + 1
          /\ Distance(tail, Next(head)) = Distance(tail, head) + 1
      <4>1. Distance(from, head) < RingSize - 1
        <5>1. Distance(from, head) <= Distance(tail, head)
          BY <1>0, <2>1, <2>9
        <5>2. Distance(from, head) \in Nat /\ Distance(tail, head) \in Nat /\ RingSize \in Nat
          BY <1>0, RingFacts
        <5> QED BY <2>3, <5>1, <5>2
      <4> QED BY <1>0, <2>3, <4>1, EndMoves
    <3>2. /\ Distance(from, limit)' = Distance(from, limit)
          /\ Distance(from, head)' = Distance(from, Next(head))
          /\ Distance(tail, head)' = Distance(tail, Next(head))
      BY <2>1 DEF Distance
    <3>3. Distance(from, limit) \in Nat /\ Distance(from, head) \in Nat /\ Distance(tail, head) \in Nat
      BY <1>0, RingFacts
    <3> QED BY <1>0, <2>1, <2>9, <3>1, <3>2, <3>3
  <2> QED BY <2>6, <2>7, <2>8, <2>9 DEF RingInv
<1>2. CASE DrainOne
  <2>1. /\ UNCHANGED << tail, block, limit, head, ring, accepted, edit, edits >>
        /\ block = "drain" /\ from # limit
        /\ applied' = Append(applied, ring[from]) /\ from' = Next(from)
    BY <1>2 DEF DrainOne, workVars, sendVars, editVars
  <2>2. First = from /\ First' = Next(from)
    BY <2>1 DEF First
  <2>3. from # head
    <3>1. Distance(from, limit) # 0 /\ Distance(from, limit) \in Nat /\ Distance(from, head) \in Nat
      BY <1>0, <2>1, RingFacts
    <3> QED BY <1>0, <2>1, <3>1, RingFacts
  <2>4. Holds(Next(from), head, ring, accepted, Append(applied, ring[from]))
    BY <1>0, <2>2, <2>3, DrainHolds
  <2>5. Holds(First', head', ring', accepted', applied')
    BY <2>1, <2>2, <2>4
  <2>6. head' \in Places /\ tail' \in Places /\ from' \in Places /\ limit' \in Places /\ ring[from] \in Nat
    BY <1>0, <2>1, RingFacts
  <2>7. accepted' \in Seq(Nat) /\ applied' \in Seq(Nat) /\ edit' \in Nat /\ edits' \in Nat
        /\ ring' \in [Places -> Nat]
    BY <1>0, <2>1, <2>6
  <2>8. /\ Distance(from, limit)' <= Distance(from, head)'
        /\ Distance(from, head)' <= Distance(tail, head)'
    <3>1. /\ Distance(Next(from), limit) = Distance(from, limit) - 1
          /\ Distance(Next(from), head) = Distance(from, head) - 1
      BY <1>0, <2>1, <2>3, BeginMoves
    <3>2. /\ Distance(from, limit)' = Distance(Next(from), limit)
          /\ Distance(from, head)' = Distance(Next(from), head)
          /\ Distance(tail, head)' = Distance(tail, head)
      BY <2>1 DEF Distance
    <3>3. Distance(from, limit) \in Nat /\ Distance(from, head) \in Nat /\ Distance(tail, head) \in Nat
      BY <1>0, RingFacts
    <3> QED BY <1>0, <2>1, <3>1, <3>2, <3>3
  <2> QED BY <2>5, <2>6, <2>7, <2>8 DEF RingInv
<1>3. CASE DrainBegin \/ DrainEnd
  <2>1. First' = First /\ UNCHANGED << head, ring, accepted, applied, edit, edits >>
    BY <1>3 DEF DrainBegin, DrainEnd, First, workVars, sendVars, editVars
  <2>2. Holds(First', head', ring', accepted', applied')
    BY <1>0, <2>1
  <2>3. head' \in Places /\ tail' \in Places /\ from' \in Places /\ limit' \in Places
    <3>1. CASE DrainBegin
      BY <1>0, <2>1, <3>1 DEF DrainBegin
    <3>2. CASE DrainEnd
      BY <1>0, <2>1, <3>2, RingFacts DEF DrainEnd
    <3> QED BY <1>3, <3>1, <3>2
  <2>4. block' = "drain" => from' = tail' /\ limit' = head'
    BY <1>3, <2>1 DEF DrainBegin, DrainEnd
  <2>5. block' = "drain" => /\ Distance(from, limit)' <= Distance(from, head)'
                            /\ Distance(from, head)' <= Distance(tail, head)'
    <3>1. Distance(tail', head') \in Nat
      BY <2>3, RingFacts
    <3>2. block' = "drain" => /\ Distance(from, limit)' = Distance(tail', head')
                              /\ Distance(from, head)' = Distance(tail', head')
                              /\ Distance(tail, head)' = Distance(tail', head')
      BY <2>1, <2>4 DEF Distance
    <3> QED BY <3>1, <3>2
  <2> QED BY <1>0, <2>1, <2>2, <2>3, <2>5 DEF RingInv
<1>4. CASE ~Send /\ ~DrainOne /\ ~DrainBegin /\ ~DrainEnd
  <2>1. UNCHANGED << sendVars, tail, from, limit, applied >>
    BY <1>4 DEF GfxNext, Message, Post, Lease, Unlease, Frame, Acquire, AcquireNone, PinSnapshot,
                SkipFrame, TakeInput, Execute, ExecuteFails, SendDropped, Present, FrameEnd, Audio,
                BlockEnd, Copy, PublishStep, Request, workVars, gfxVars, drainVars
  <2>2. edit' \in Nat /\ edits' \in Nat
    BY <1>0, <1>4 DEF GfxNext, Message, Post, Lease, Unlease, Frame, Acquire, AcquireNone,
                PinSnapshot, SkipFrame, TakeInput, Execute, ExecuteFails, SendDropped, Present,
                FrameEnd, Audio, BlockEnd, Copy, PublishStep, Request, workVars, gfxVars, editVars
  <2>3. block' = "drain" <=> block = "drain"
    BY <1>4 DEF GfxNext, Message, Post, Lease, Unlease, Frame, Acquire, AcquireNone, PinSnapshot,
                SkipFrame, TakeInput, Execute, ExecuteFails, SendDropped, Present, FrameEnd, Audio,
                BlockEnd, Copy, PublishStep, Request, workVars, gfxVars, drainVars
  <2>4. First' = First
    BY <2>1, <2>3 DEF First
  <2>5. Holds(First', head', ring', accepted', applied')
    BY <1>0, <2>1, <2>4 DEF sendVars
  <2> QED BY <1>0, <2>1, <2>2, <2>3, <2>5 DEF sendVars, RingInv, Distance
<1> QED BY <1>1, <1>2, <1>3, <1>4

\* The ring is empty to begin with.
LEMMA RingInvInit == GfxInit => RingInv
<1> SUFFICES ASSUME GfxInit PROVE RingInv
  OBVIOUS
<1>1. /\ First = 0 /\ head = 0 /\ tail = 0 /\ from = 0 /\ limit = 0
      /\ accepted = << >> /\ applied = << >> /\ block # "drain"
      /\ ring \in [Places -> Nat] /\ edit \in Nat /\ edits \in Nat
  BY DEF GfxInit, First, Places
<1>2. Distance(0, 0) = 0
  BY RingFacts
<1>3. Holds(First, head, ring, accepted, applied)
  BY <1>1, <1>2 DEF Holds
<1>4. 0 \in Places
  BY RingFacts
<1>5. accepted \in Seq(Nat) /\ applied \in Seq(Nat)
  BY <1>1
<1> QED BY <1>1, <1>3, <1>4, <1>5 DEF RingInv

\* AppliedOnceInOrder: the audio thread applies what the ring took, once and in order
\* (applyQueuedGfxStateWrites), whatever the size of the ring and the writes sent.
THEOREM WritesArriveInOrder == GfxSpec => []AppliedOnceInOrder
<1>1. RingInv => AppliedOnceInOrder
  BY FirstInRing, HeldInOrder
<1> QED BY <1>1, RingInvInit, RingStep, PTL DEF GfxSpec

(***************************************************************************)
(* Types.                                                                  *)
(***************************************************************************)

\* The types of the worker's own state.
FrameTypes ==
    /\ gpc \in {"wait", "pin", "run", "send", "present", "end"}
    /\ faulted \in BOOLEAN
    /\ canvas \in Surfaces \cup {0} /\ published \in Surfaces \cup {0}
    /\ leased \in Surfaces \cup {0}
    /\ block \in {"idle", "drain", "run"}

\* The input queue is within its limit, and what it holds has been posted.
QueueTypes ==
    /\ posted \in 0..MaxInput /\ hand \in 0..MaxInput
    /\ inputs \in Seq(1..MaxInput) /\ Len(inputs) <= InputCap

\* The edits are within their bound, and only a frame that has made one sends.
EditTypes ==
    /\ edit \in 0..MaxEdits /\ edits \in 0..MaxEdits
    /\ gpc = "send" => edit # 0
    /\ ring \in [Places -> 0..MaxEdits]
    /\ accepted \in Seq(1..MaxEdits)

\* A step keeps the types of the worker's own state.
LEMMA FrameTypesStep == FrameTypes /\ [GfxNext]_gfxVars => FrameTypes'
<1> SUFFICES ASSUME FrameTypes, [GfxNext]_gfxVars PROVE FrameTypes'
  OBVIOUS
<1> USE DEF FrameTypes
<1>1. CASE Message \/ Request \/ UNCHANGED gfxVars
  BY <1>1 DEF Message, Post, Lease, Unlease, Request, gfxVars, workVars, frameVars, drainVars
<1>2. CASE Frame
  <2>1. CASE Acquire
    BY <2>1 DEF Acquire, Backs, drainVars
  <2>2. CASE AcquireNone \/ PinSnapshot \/ TakeInput \/ Execute \/ ExecuteFails
    BY <2>2 DEF AcquireNone, PinSnapshot, TakeInput, Execute, ExecuteFails, gfxVars, workVars,
                frameVars, drainVars
  <2>3. CASE SkipFrame \/ Send \/ SendDropped \/ Present \/ FrameEnd
    BY <2>3 DEF SkipFrame, Send, SendDropped, Present, FrameEnd, frameVars, drainVars
  <2> QED BY <1>2, <2>1, <2>2, <2>3 DEF Frame
<1>3. CASE Audio
  BY <1>3 DEF Audio, DrainBegin, DrainOne, DrainEnd, BlockEnd, Copy, PublishStep, workVars,
              frameVars, drainVars
<1> QED BY <1>1, <1>2, <1>3 DEF GfxNext

\* A step keeps the queue within its limit: a full one drops its oldest input.
LEMMA QueueTypesStep == QueueTypes /\ [GfxNext]_gfxVars => QueueTypes'
<1> SUFFICES ASSUME QueueTypes, [GfxNext]_gfxVars PROVE QueueTypes'
  OBVIOUS
<1> USE DEF QueueTypes
<1>0. InputCap \in Nat \ {0} /\ MaxInput \in Nat /\ Len(inputs) \in Nat
  BY GfxAssumption DEF GfxAssumption
<1>a. ASSUME inputs # << >>
      PROVE  /\ Tail(inputs) \in Seq(1..MaxInput) /\ Head(inputs) \in 1..MaxInput
             /\ Len(Tail(inputs)) = Len(inputs) - 1
  <2>1. inputs \in Seq(1..MaxInput)
    OBVIOUS
  <2>2. Head(inputs) \in 1..MaxInput /\ Tail(inputs) \in Seq(1..MaxInput)
        /\ Len(Tail(inputs)) = Len(inputs) - 1
    BY <1>a, <2>1, HeadTailProperties
  <2> QED BY <2>2
<1>1. CASE Post
  <2>1. posted + 1 \in 1..MaxInput /\ posted' = posted + 1 /\ hand' = hand
    BY <1>0, <1>1 DEF Post
  <2>2. CASE QueueFull
    <3>1. inputs # << >> /\ Len(inputs) = InputCap
      BY <1>0, <2>2 DEF QueueFull
    <3>2. inputs' = Append(Tail(inputs), posted + 1)
      BY <1>1, <2>2 DEF Post
    <3>3. inputs' \in Seq(1..MaxInput) /\ Len(inputs') = Len(inputs)
      BY <1>0, <1>a, <2>1, <3>1, <3>2
    <3> QED BY <2>1, <3>1, <3>3
  <2>3. CASE ~QueueFull
    <3>1. inputs' = Append(inputs, posted + 1)
      BY <1>1, <2>3 DEF Post
    <3>2. inputs' \in Seq(1..MaxInput) /\ Len(inputs') = Len(inputs) + 1
      BY <2>1, <3>1
    <3> QED BY <1>0, <2>1, <2>3, <3>2 DEF QueueFull
  <2> QED BY <2>2, <2>3
<1>2. CASE TakeInput
  <2>1. CASE inputs = << >>
    BY <1>2, <2>1 DEF TakeInput
  <2>2. CASE inputs # << >>
    <3>1. inputs' = Tail(inputs) /\ hand' = Head(inputs) /\ posted' = posted
      BY <1>2, <2>2 DEF TakeInput
    <3> QED BY <1>0, <1>a, <2>2, <3>1
  <2> QED BY <2>1, <2>2
<1>3. CASE Execute \/ ExecuteFails \/ SkipFrame
  <2>1. UNCHANGED << posted, inputs >> /\ hand' = 0
    BY <1>3 DEF Execute, ExecuteFails, SkipFrame
  <2> QED BY <1>0, <2>1
<1>4. CASE ~Post /\ ~TakeInput /\ ~Execute /\ ~ExecuteFails /\ ~SkipFrame
  <2>1. UNCHANGED inputVars
    BY <1>4 DEF GfxNext, Message, Lease, Unlease, Frame, Acquire, AcquireNone, PinSnapshot, Send,
                SendDropped, Present, FrameEnd, Audio, DrainBegin, DrainOne, DrainEnd, BlockEnd,
                Copy, PublishStep, Request, workVars, gfxVars
  <2> QED BY <2>1 DEF inputVars
<1> QED BY <1>1, <1>2, <1>3, <1>4

\* A step keeps the edits within their bound.
LEMMA EditTypesStep == EditTypes /\ RingInv /\ [GfxNext]_gfxVars => EditTypes'
<1> SUFFICES ASSUME EditTypes, RingInv, [GfxNext]_gfxVars PROVE EditTypes'
  OBVIOUS
<1> USE DEF EditTypes
<1>0. MaxEdits \in Nat
  BY GfxAssumption DEF GfxAssumption
<1>1. CASE Send
  <2>1. edit \in 1..MaxEdits /\ head \in Places
    BY <1>0, <1>1 DEF Send, RingInv
  <2>2. /\ ring' = [ring EXCEPT ![head] = edit] /\ accepted' = Append(accepted, edit)
        /\ edit' = 0 /\ edits' = edits /\ gpc' = "present"
    BY <1>1 DEF Send
  <2>3. ring' \in [Places -> 0..MaxEdits]
    BY <2>2
  <2>4. accepted' \in Seq(1..MaxEdits)
    BY <2>1, <2>2
  <2> QED BY <1>0, <2>2, <2>3, <2>4
<1>2. CASE Execute
  <2>1. UNCHANGED << ring, accepted >>
    BY <1>2 DEF Execute, sendVars
  <2>2. CASE edits < MaxEdits /\ edits' = edits + 1 /\ edit' = edits + 1
    <3>1. edits + 1 \in 1..MaxEdits
      BY <1>0, <2>2
    <3> QED BY <2>1, <2>2, <3>1
  <2>3. CASE gpc' = "present" /\ UNCHANGED << edit, edits >>
    BY <2>1, <2>3
  <2> QED BY <1>2, <2>2, <2>3 DEF Execute
<1>3. CASE SendDropped
  <2>1. UNCHANGED << ring, accepted, edits >> /\ edit' = 0 /\ gpc' = "present"
    BY <1>3 DEF SendDropped, sendVars
  <2> QED BY <1>0, <2>1
<1>4. CASE ~Send /\ ~Execute /\ ~SendDropped
  <2>1. UNCHANGED << sendVars, editVars >>
    BY <1>4 DEF GfxNext, Message, Post, Lease, Unlease, Frame, Acquire, AcquireNone, PinSnapshot,
                SkipFrame, TakeInput, ExecuteFails, Present, FrameEnd, Audio, DrainBegin, DrainOne,
                DrainEnd, BlockEnd, Copy, PublishStep, Request, workVars, gfxVars, editVars
  <2>2. gpc' = "send" => gpc = "send"
    BY <1>4 DEF GfxNext, Message, Post, Lease, Unlease, Frame, Acquire, AcquireNone, PinSnapshot,
                SkipFrame, TakeInput, ExecuteFails, Present, FrameEnd, Audio, DrainBegin, DrainOne,
                DrainEnd, BlockEnd, Copy, PublishStep, Request, workVars, gfxVars
  <2> QED BY <2>1, <2>2 DEF sendVars, editVars
<1> QED BY <1>1, <1>2, <1>3, <1>4

\* What has been applied was accepted, so it has the type of what was accepted.
LEMMA AppliedTypes == EditTypes /\ RingInv => applied \in Seq(1..MaxEdits)
<1> SUFFICES ASSUME EditTypes, RingInv PROVE applied \in Seq(1..MaxEdits)
  OBVIOUS
<1>1. /\ applied \in Seq(Nat) /\ accepted \in Seq(1..MaxEdits)
      /\ Len(applied) \in Nat /\ Len(accepted) \in Nat
  BY DEF EditTypes, RingInv
<1>2. /\ Len(accepted) = Len(applied) + Distance(First, head)
      /\ \A j \in 1..Len(applied) : accepted[j] = applied[j]
  BY DEF RingInv, Holds
<1>3. Distance(First, head) \in Nat
  BY FirstInRing
<1>4. \A j \in 1..Len(applied) : j \in 1..Len(accepted)
  BY <1>1, <1>2, <1>3
<1>5. \A j \in 1..Len(accepted) : accepted[j] \in 1..MaxEdits
  BY <1>1, ElementOfSeq
<1>6. \A j \in 1..Len(applied) : applied[j] \in 1..MaxEdits
  BY <1>2, <1>4, <1>5
<1> HIDE DEF First
<1>7. /\ SubSeq(accepted, 1, Len(applied)) \in Seq(1..MaxEdits)
      /\ Len(SubSeq(accepted, 1, Len(applied))) = Len(applied)
      /\ \A j \in 1..Len(applied) : SubSeq(accepted, 1, Len(applied))[j] = accepted[j]
  BY <1>1, <1>4, <1>5, SubSeqProperties
<1> DEFINE s == SubSeq(accepted, 1, Len(applied))
<1>8. s \in Seq(Nat)
  BY <1>7
<1>9. Len(s) = Len(applied) /\ \A j \in 1..Len(s) : s[j] = applied[j]
  BY <1>2, <1>7
<1>10. s \in Seq(1..MaxEdits)
  BY <1>7
<1> HIDE DEF s
<1>11. applied = s
  BY <1>1, <1>8, <1>9, SeqEqual
<1> QED BY <1>10, <1>11

\* GfxTypeOK: the worker's, the message thread's and the audio thread's variables keep
\* their types; the queue of inputs stays within kMaxQueuedMouseFrames and the places of
\* the write ring within gfxWriteQueueSize.
THEOREM GfxTypesHold == GfxSpec => []GfxTypeOK
<1>1. GfxInit => FrameTypes /\ QueueTypes /\ EditTypes
  <2> SUFFICES ASSUME GfxInit PROVE FrameTypes /\ QueueTypes /\ EditTypes
    OBVIOUS
  <2>1. /\ MaxInput \in Nat /\ MaxEdits \in Nat /\ InputCap \in Nat
    BY GfxAssumption DEF GfxAssumption
  <2>2. /\ inputs = << >> /\ posted = 0 /\ hand = 0 /\ edit = 0 /\ edits = 0
        /\ accepted = << >> /\ gpc = "wait" /\ ring = [i \in Places |-> 0]
    BY DEF GfxInit, Places
  <2>3. FrameTypes
    BY DEF GfxInit, FrameTypes
  <2>4. QueueTypes
    BY <2>1, <2>2 DEF QueueTypes
  <2>5. 0 \in 0..MaxEdits
    BY <2>1
  <2>6. ring \in [Places -> 0..MaxEdits] /\ accepted \in Seq(1..MaxEdits)
    BY <2>2, <2>5
  <2> QED BY <2>2, <2>3, <2>4, <2>5, <2>6 DEF EditTypes
<1>2. FrameTypes /\ QueueTypes /\ EditTypes /\ RingInv /\ [GfxNext]_gfxVars =>
        FrameTypes' /\ QueueTypes' /\ EditTypes'
  BY FrameTypesStep, QueueTypesStep, EditTypesStep
<1>3. ASSUME SnapshotTypeOK, FrameTypes, QueueTypes, EditTypes, RingInv, InputInv
      PROVE  GfxTypeOK
  <2>1. applied \in Seq(1..MaxEdits)
    BY <1>3, AppliedTypes
  <2>2. consumed \cup overflowed \subseteq 1..posted
    BY <1>3 DEF InputInv, NoInputLost
  <2>3. 1..posted \subseteq 1..MaxInput
    BY <1>3, GfxAssumption DEF QueueTypes, GfxAssumption
  <2>4. head \in Places /\ tail \in Places /\ from \in Places /\ limit \in Places
    BY <1>3 DEF RingInv
  <2> QED BY <1>3, <2>1, <2>2, <2>3, <2>4 DEF GfxTypeOK, FrameTypes, QueueTypes, EditTypes, Places
<1>4. GfxSpec => []SnapshotTypeOK
  BY WorkerKeepsProtocol, SnapshotTypes, PTL
<1>5. GfxSpec => []RingInv
  BY RingInvInit, RingStep, PTL DEF GfxSpec
<1>6. GfxSpec => []InputInv
  BY InputInvInit, InputStep, PTL DEF GfxSpec
<1>7. GfxSpec => [](FrameTypes /\ QueueTypes /\ EditTypes)
  BY <1>1, <1>2, <1>5, PTL DEF GfxSpec
<1> QED BY <1>3, <1>4, <1>5, <1>6, <1>7, PTL

=============================================================================

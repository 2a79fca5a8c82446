--------------------------- MODULE JsfxTasks_proofs ---------------------------
(***************************************************************************)
(* Proofs about the task scheduler, for any workers, slots, bodies and     *)
(* programs.                                                               *)
(***************************************************************************)
EXTENDS JsfxTasks, FiniteInduction

\* Sequences of at most N members of S.
Rows(S) == UNION {[1..n -> S] : n \in 0..N}

JobRecord ==
    [ id : 0..MaxSerial, epoch : 0..MaxEpoch, parent : 0..MaxSerial,
      dependencies : Rows(0..MaxSerial), count : Counts \cup {0},
      next : Nat, completed : Nat, executing : Nat, children : Nat, refs : Nat,
      released : BOOLEAN, bodyDone : BOOLEAN, cancel : BOOLEAN, failed : BOOLEAN,
      status : Statuses, result : 0..MaxSerial ]

Tables == [Slots -> JobRecord]

\* Who needs the job in slot s: its open children, the open jobs that wait for it, and its
\* open parent.
Kids(js, s)   == {t \in Slots : Open(js[t]) /\ js[t].parent = js[s].id}
Waits(js, s)  ==
    {w \in Slots \X (1..N) : /\ Open(js[w[1]]) /\ w[2] \in DOMAIN js[w[1]].dependencies
                             /\ js[w[1]].dependencies[w[2]] = js[s].id}
Owners(js, s) == {t \in Slots : Open(js[t]) /\ js[t].id = js[s].parent}
Needs(js, s)  ==
    Cardinality(Kids(js, s)) + Cardinality(Waits(js, s)) + Cardinality(Owners(js, s))

\* A slot's iterations add up; a free slot and one of an ended job execute nothing.
SlotsSound(js) ==
    \A s \in Slots :
        /\ js[s].completed + js[s].executing = js[s].next /\ js[s].next <= js[s].count
        /\ js[s].id = None => js[s].status = "none" /\ js[s].executing = 0
        /\ js[s].id # None => js[s].status # "none"
        /\ Terminal(js[s]) => js[s].children = 0 /\ js[s].executing = 0

\* Of n ids handed out, each names one slot; a job is newer than what it refers to.
IdsSound(js, n) ==
    \A s \in Slots : js[s].id # None =>
        /\ js[s].id \in 1..n /\ js[s].result = js[s].id /\ js[s].parent < js[s].id
        /\ \A i \in DOMAIN js[s].dependencies : js[s].dependencies[i] < js[s].id
        /\ \A t \in Slots : js[s].id = js[t].id => s = t

\* refs and children are never short.
CountsSound(js) ==
    \A s \in Slots : js[s].id # None =>
        /\ js[s].children = Cardinality(Kids(js, s))
        /\ js[s].refs >= Needs(js, s)

\* A job that has not ended finds its parent.
ParentsFound(js) ==
    \A s \in Slots : Open(js[s]) /\ js[s].parent # None =>
        \E t \in Slots : js[t].id = js[s].parent

\* A job that has not ended finds what it depends on, and has begun only after that succeeded.
DependenciesFound(js) ==
    \A s \in Slots : Open(js[s]) =>
        \A i \in DOMAIN js[s].dependencies : js[s].dependencies[i] # None =>
            \E t \in Slots : /\ js[t].id = js[s].dependencies[i]
                             /\ js[s].executing > 0 => js[t].status = "succeeded"

\* A job over a child that failed or was cancelled will not succeed.
BlameSound(js) ==
    \A s, t \in Slots :
        /\ js[s].id # None /\ js[t].id # None /\ js[t].parent = js[s].id
        /\ js[t].status \in {"failed", "cancelled"}
        => js[s].status # "succeeded" /\ (Open(js[s]) => js[s].cancel)

TreeInv(js, n) ==
    /\ js \in Tables
    /\ SlotsSound(js) /\ IdsSound(js, n) /\ CountsSound(js)
    /\ ParentsFound(js) /\ DependenciesFound(js) /\ BlameSound(js)

Exact(js) == \A s \in Slots : js[s].id # None => js[s].refs = Needs(js, s)

-----------------------------------------------------------------------------
(* Who needs a job.                                                        *)

\* There are finitely many slots, and so of everything that is counted.
LEMMA NeedsAreFinite ==
    ASSUME NEW js, NEW s
    PROVE  /\ IsFiniteSet(Kids(js, s)) /\ Cardinality(Kids(js, s)) \in Nat
           /\ IsFiniteSet(Waits(js, s)) /\ Cardinality(Waits(js, s)) \in Nat
           /\ IsFiniteSet(Owners(js, s)) /\ Cardinality(Owners(js, s)) \in Nat
           /\ Needs(js, s) \in Nat
<1>1. IsFiniteSet(Slots) /\ IsFiniteSet(1..N)
  <2>1. 1 \in Int /\ N \in Int
    BY NAssumption
  <2> QED
    BY <2>1, FS_Interval, Zenon DEF Slots
<1>2. IsFiniteSet(Slots \X (1..N))
  BY <1>1, FS_Product, Zenon
<1>3. Kids(js, s) \in SUBSET Slots /\ Owners(js, s) \in SUBSET Slots
  BY DEF Kids, Owners
<1>4. Waits(js, s) \in SUBSET (Slots \X (1..N))
  BY DEF Waits
<1>5. IsFiniteSet(Kids(js, s)) /\ IsFiniteSet(Owners(js, s)) /\ IsFiniteSet(Waits(js, s))
  BY <1>1, <1>2, <1>3, <1>4, FS_Subset, Zenon
<1>6. /\ Cardinality(Kids(js, s)) \in Nat /\ Cardinality(Owners(js, s)) \in Nat
      /\ Cardinality(Waits(js, s)) \in Nat
  BY <1>5, FS_CardinalityType, Zenon
<1> QED
  BY <1>5, <1>6 DEF Needs

\* ks has the same jobs as js in the same places, with the same ties, open where js is.
SameTies(js, ks) ==
    \A t \in Slots : /\ ks[t].id = js[t].id /\ ks[t].parent = js[t].parent
                     /\ ks[t].dependencies = js[t].dependencies
                     /\ Open(ks[t]) <=> Open(js[t])

\* Then it needs each job as much.
LEMMA SameTiesSameNeeds ==
    ASSUME NEW js, NEW ks, SameTies(js, ks), NEW s \in Slots
    PROVE  /\ Kids(ks, s) = Kids(js, s) /\ Waits(ks, s) = Waits(js, s)
           /\ Owners(ks, s) = Owners(js, s) /\ Needs(ks, s) = Needs(js, s)
<1>1. Kids(ks, s) = Kids(js, s)
  BY DEF Kids, SameTies
<1>2. Waits(ks, s) = Waits(js, s)
  BY DEF Waits, SameTies
<1>3. Owners(ks, s) = Owners(js, s)
  BY DEF Owners, SameTies
<1> QED
  BY <1>1, <1>2, <1>3 DEF Needs

\* A sequence of at most N members of S.
LEMMA RowFacts ==
    ASSUME NEW S, NEW r \in Rows(S)
    PROVE  /\ DOMAIN r \in SUBSET (1..N) /\ IsFiniteSet(DOMAIN r)
           /\ \A i \in DOMAIN r : r[i] \in S
           /\ \A x : Occurrences(r, x) \in Nat
<1>1. PICK n \in 0..N : r \in [1..n -> S]
  BY DEF Rows
<1>2. DOMAIN r = 1..n /\ n \in Int /\ 1 \in Int /\ N \in Int
  BY <1>1, NAssumption
<1>3. IsFiniteSet(DOMAIN r)
  BY <1>2, FS_Interval, Zenon
<1>4. ASSUME NEW x PROVE Occurrences(r, x) \in Nat
  <2> DEFINE D == {i \in DOMAIN r : r[i] = x}
  <2>1. D \in SUBSET (DOMAIN r)
    OBVIOUS
  <2> HIDE DEF D
  <2>2. IsFiniteSet(D)
    BY <2>1, <1>3, FS_Subset, Zenon
  <2>3. Cardinality(D) \in Nat
    BY <2>2, FS_CardinalityType, Zenon
  <2> QED
    BY <2>3 DEF Occurrences, D
<1> QED
  BY <1>1, <1>2, <1>3, <1>4

\* Taking away a set of which all or nothing is there.
LEMMA TakenAway ==
    ASSUME NEW S, IsFiniteSet(S), NEW x
    PROVE  Cardinality(S \ {x}) = Cardinality(S) - Bit(x \in S)
<1>1. CASE x \in S
  BY <1>1, FS_RemoveElement, FS_CardinalityType DEF Bit
<1>2. CASE x \notin S
  <2>1. S \ {x} = S /\ Cardinality(S) \in Nat
    BY <1>2, FS_CardinalityType
  <2> QED
    BY <1>2, <2>1 DEF Bit
<1> QED
  BY <1>1, <1>2

\* Pairs with one first part are as many as their second parts.
LEMMA PairsWith ==
    ASSUME NEW s, NEW D, IsFiniteSet(D)
    PROVE  Cardinality({s} \X D) = Cardinality(D)
<1>1. IsFiniteSet({s}) /\ Cardinality({s}) = 1
  BY FS_Singleton, Zenon
<1>2. Cardinality({s} \X D) = Cardinality({s}) * Cardinality(D)
  BY <1>1, FS_Product, Zenon
<1>3. Cardinality(D) \in Nat
  BY FS_CardinalityType, Zenon
<1> QED
  BY <1>1, <1>2, <1>3

\* What is left of the needs when the job in s is no longer open.
EndOf(js, ks, s) ==
    \A t \in Slots : /\ ks[t].id = js[t].id /\ ks[t].parent = js[t].parent
                     /\ ks[t].dependencies = js[t].dependencies
                     /\ Open(ks[t]) <=> Open(js[t]) /\ t # s

\* The end of a job takes off its parent, its children and its dependencies what it counted
\* for.
LEMMA EndLessens ==
    ASSUME NEW js \in Tables, NEW ks, NEW s \in Slots, EndOf(js, ks, s), Open(js[s]),
           NEW k \in Slots, js[k].id # None
    PROVE  /\ Cardinality(Kids(ks, k)) = Cardinality(Kids(js, k)) - Bit(IsOwner(js[k], js[s]))
           /\ Cardinality(Owners(ks, k)) = Cardinality(Owners(js, k)) - Bit(IsChild(js[k], js[s]))
           /\ Cardinality(Waits(ks, k)) =
                Cardinality(Waits(js, k)) - Occurrences(js[s].dependencies, js[k].id)
           /\ Needs(ks, k) = Needs(js, k) - ReferencesTo(js[k], js[s])
<1>1. Cardinality(Kids(ks, k)) = Cardinality(Kids(js, k)) - Bit(IsOwner(js[k], js[s]))
  <2>1. Kids(ks, k) = Kids(js, k) \ {s}
    BY DEF Kids, EndOf
  <2>2. s \in Kids(js, k) <=> IsOwner(js[k], js[s])
    BY DEF Kids, IsOwner
  <2>3. Cardinality(Kids(js, k) \ {s}) = Cardinality(Kids(js, k)) - Bit(s \in Kids(js, k))
    BY NeedsAreFinite, TakenAway
  <2> QED
    BY <2>1, <2>2, <2>3 DEF Bit
<1>2. Cardinality(Owners(ks, k)) = Cardinality(Owners(js, k)) - Bit(IsChild(js[k], js[s]))
  <2>1. Owners(ks, k) = Owners(js, k) \ {s}
    BY DEF Owners, EndOf
  <2>2. s \in Owners(js, k) <=> IsChild(js[k], js[s])
    BY DEF Owners, IsChild
  <2>3. Cardinality(Owners(js, k) \ {s}) = Cardinality(Owners(js, k)) - Bit(s \in Owners(js, k))
    BY NeedsAreFinite, TakenAway
  <2> QED
    BY <2>1, <2>2, <2>3 DEF Bit
<1>3. Cardinality(Waits(ks, k)) =
        Cardinality(Waits(js, k)) - Occurrences(js[s].dependencies, js[k].id)
  <2> DEFINE D == {i \in DOMAIN js[s].dependencies : js[s].dependencies[i] = js[k].id}
  <2>1. js[s].dependencies \in Rows(0..MaxSerial)
    BY DEF Tables, JobRecord
  <2>2. DOMAIN js[s].dependencies \in SUBSET (1..N) /\ IsFiniteSet(DOMAIN js[s].dependencies)
    BY <2>1, RowFacts
  <2>3. Waits(ks, k) = Waits(js, k) \ ({s} \X D)
    <3>1. \A w \in Slots \X (1..N) : w \in {s} \X D <=> w[1] = s /\ w[2] \in D
      OBVIOUS
    <3> QED
      BY <3>1 DEF Waits, EndOf
  <2>4. {s} \X D \subseteq Waits(js, k)
    BY <2>2 DEF Waits
  <2>5. D \in SUBSET (DOMAIN js[s].dependencies)
    OBVIOUS
  <2>6. Occurrences(js[s].dependencies, js[k].id) = Cardinality(D)
    BY DEF Occurrences
  <2> HIDE DEF D
  <2>7. IsFiniteSet(D)
    BY <2>2, <2>5, FS_Subset, Zenon
  <2>8. Cardinality({s} \X D) = Cardinality(D)
    BY <2>7, PairsWith
  <2>9. Cardinality(Waits(js, k) \ ({s} \X D)) =
          Cardinality(Waits(js, k)) - Cardinality(Waits(js, k) \cap ({s} \X D))
    BY NeedsAreFinite, FS_Difference, Zenon
  <2>10. Waits(js, k) \cap ({s} \X D) = {s} \X D
    BY <2>4
  <2> QED
    BY <2>3, <2>6, <2>8, <2>9, <2>10
<1>4. js[s].dependencies \in Rows(0..MaxSerial)
  BY DEF Tables, JobRecord
<1>5. Occurrences(js[s].dependencies, js[k].id) \in Nat
  BY <1>4, RowFacts
<1>6. Bit(IsOwner(js[k], js[s])) \in Nat /\ Bit(IsChild(js[k], js[s])) \in Nat
  BY DEF Bit
<1> QED
  BY <1>1, <1>2, <1>3, <1>5, <1>6, NeedsAreFinite DEF Needs, ReferencesTo

-----------------------------------------------------------------------------
(* One level of finish.                                                    *)

\* The job of a handle is open in js and no longer is in ks.
EndsIn(js, ks, id) == \E p \in Slots : Open(js[p]) /\ js[p].id = id /\ ~Open(ks[p])

\* The jobs of js are in their places in ks: their ends and the signals to them have stood,
\* and one is released only by its parent's end.
Kept(js, ks) ==
    \A t \in Slots : /\ ks[t].id = js[t].id /\ ks[t].epoch = js[t].epoch
                     /\ ks[t].parent = js[t].parent /\ ks[t].dependencies = js[t].dependencies
                     /\ ks[t].count = js[t].count /\ ks[t].result = js[t].result
                     /\ Terminal(js[t]) => ks[t].status = js[t].status
                     /\ js[t].cancel => ks[t].cancel
                     /\ js[t].released => ks[t].released
                     /\ ks[t].released => js[t].released \/ EndsIn(js, ks, js[t].parent)

SameExecuting(js, ks) == \A t \in Slots : ks[t].executing = js[t].executing

\* What becomes of a slot when the job in s terminates.
LEMMA TerminateFields ==
    ASSUME NEW js \in Tables, NEW s \in Slots, NEW t \in Slots,
           t # s => /\ js[t].refs - ReferencesTo(js[t], js[s]) \in Nat
                    /\ ChildrenWithout(js[t], js[s]) \in Nat
    PROVE  LET ts == Terminate(js, s)[t] IN
           /\ ts \in JobRecord
           /\ ts.id = js[t].id /\ ts.epoch = js[t].epoch /\ ts.parent = js[t].parent
           /\ ts.dependencies = js[t].dependencies /\ ts.count = js[t].count
           /\ ts.next = js[t].next /\ ts.completed = js[t].completed
           /\ ts.executing = js[t].executing /\ ts.result = js[t].result
           /\ ts.bodyDone = js[t].bodyDone
           /\ t = s => /\ ts.status = FinalStatus(js[s]) /\ ts.refs = js[s].refs
                       /\ ts.children = js[s].children /\ ts.cancel = js[s].cancel
                       /\ ts.released = js[s].released
           /\ t # s => /\ ts.status = js[t].status
                       /\ ts.refs = js[t].refs - ReferencesTo(js[t], js[s])
                       /\ ts.children = ChildrenWithout(js[t], js[s])
                       /\ ts.cancel = (js[t].cancel \/ Blamed(js[t], js[s]))
                       /\ ts.released = (js[t].released \/ IsChild(js[t], js[s]))
<1>1. js[s] \in JobRecord /\ js[t] \in JobRecord
  BY DEF Tables
<1>2. CASE t = s
  <2>1. Terminate(js, s)[t] = [js[s] EXCEPT !.status = FinalStatus(js[s])]
    BY <1>2 DEF Terminate
  <2>2. FinalStatus(js[s]) \in Statuses
    BY DEF FinalStatus, Statuses
  <2> QED
    BY <1>1, <1>2, <2>1, <2>2 DEF JobRecord
<1>3. CASE t # s
  <2> DEFINE r == js[t].refs - ReferencesTo(js[t], js[s])
             c == ChildrenWithout(js[t], js[s])
             l == js[t].released \/ IsChild(js[t], js[s])
             b == js[t].cancel \/ Blamed(js[t], js[s])
             f == js[t].failed \/ (Blamed(js[t], js[s]) /\ js[s].failed)
  <2>1. Terminate(js, s)[t] =
          [js[t] EXCEPT !.refs = r, !.children = c, !.released = l, !.cancel = b, !.failed = f]
    BY <1>3 DEF Terminate
  <2>2. r \in Nat /\ c \in Nat /\ l \in BOOLEAN /\ b \in BOOLEAN /\ f \in BOOLEAN
    BY <1>3
  <2> HIDE DEF r, c, l, b, f
  <2>3. Terminate(js, s)[t] \in JobRecord
    BY <1>1, <2>1, <2>2, ZenonT(30) DEF JobRecord
  <2>4. /\ Terminate(js, s)[t].refs = r /\ Terminate(js, s)[t].children = c
        /\ Terminate(js, s)[t].released = l /\ Terminate(js, s)[t].cancel = b
    BY <1>1, <2>1 DEF JobRecord
  <2>5. LET ts == Terminate(js, s)[t] IN
        /\ ts.id = js[t].id /\ ts.epoch = js[t].epoch /\ ts.parent = js[t].parent
        /\ ts.dependencies = js[t].dependencies /\ ts.count = js[t].count
        /\ ts.next = js[t].next /\ ts.completed = js[t].completed
        /\ ts.executing = js[t].executing /\ ts.result = js[t].result
        /\ ts.bodyDone = js[t].bodyDone /\ ts.status = js[t].status
    BY <1>1, <2>1 DEF JobRecord
  <2> QED
    BY <1>3, <2>3, <2>4, <2>5 DEF r, c, l, b
<1> QED
  BY <1>2, <1>3

\* A job terminates when nothing holds it back: the tree stays sound.
LEMMA TerminateKeeps ==
    ASSUME NEW js, NEW n, TreeInv(js, n), NEW s \in Slots, Finishable(js[s])
    PROVE  /\ TreeInv(Terminate(js, s), n)
           /\ Kept(js, Terminate(js, s)) /\ SameExecuting(js, Terminate(js, s))
           /\ Exact(js) => Exact(Terminate(js, s))
<1> DEFINE ts == Terminate(js, s)
<1>1. js \in Tables /\ Open(js[s]) /\ js[s].children = 0 /\ js[s].executing = 0
  BY DEF TreeInv, Finishable
<1>2. \A t \in Slots : js[t] \in JobRecord
  BY <1>1 DEF Tables
<1>3. \A t \in Slots : js[t].id # None => js[t].parent # js[t].id
  BY <1>2 DEF TreeInv, IdsSound, JobRecord
<1>4. ~IsOwner(js[s], js[s]) /\ ~IsChild(js[s], js[s])
  BY <1>3 DEF IsOwner, IsChild
<1>5. FinalStatus(js[s]) \in {"failed", "cancelled", "succeeded"}
  BY DEF FinalStatus
\* Nothing is taken off twice.
<1>6. \A k \in Slots : js[k].id # None =>
        /\ js[k].refs \in Nat /\ js[k].children \in Nat
        /\ ReferencesTo(js[k], js[s]) \in Nat /\ Bit(IsOwner(js[k], js[s])) \in Nat
        /\ ReferencesTo(js[k], js[s]) <= Needs(js, k)
        /\ Bit(IsOwner(js[k], js[s])) <= Cardinality(Kids(js, k))
  <2> SUFFICES ASSUME NEW k \in Slots, js[k].id # None
               PROVE  /\ js[k].refs \in Nat /\ js[k].children \in Nat
                      /\ ReferencesTo(js[k], js[s]) \in Nat /\ Bit(IsOwner(js[k], js[s])) \in Nat
                      /\ ReferencesTo(js[k], js[s]) <= Needs(js, k)
                      /\ Bit(IsOwner(js[k], js[s])) <= Cardinality(Kids(js, k))
    OBVIOUS
  <2> DEFINE ks == [t \in Slots |-> IF t = s THEN [js[s] EXCEPT !.status = "failed"] ELSE js[t]]
  <2>1. EndOf(js, ks, s)
    BY <1>2 DEF EndOf, Open, Terminal, JobRecord
  <2> HIDE DEF ks
  <2>2. /\ Cardinality(Kids(ks, k)) = Cardinality(Kids(js, k)) - Bit(IsOwner(js[k], js[s]))
        /\ Needs(ks, k) = Needs(js, k) - ReferencesTo(js[k], js[s])
    BY <1>1, <2>1, EndLessens
  <2>3. /\ Needs(ks, k) \in Nat /\ Needs(js, k) \in Nat
        /\ Cardinality(Kids(ks, k)) \in Nat /\ Cardinality(Kids(js, k)) \in Nat
    BY NeedsAreFinite
  <2>4. js[s].dependencies \in Rows(0..MaxSerial) /\ js[k].refs \in Nat /\ js[k].children \in Nat
    BY <1>2 DEF JobRecord
  <2>5. Occurrences(js[s].dependencies, js[k].id) \in Nat
    BY <2>4, RowFacts
  <2>6. ReferencesTo(js[k], js[s]) \in Nat /\ Bit(IsOwner(js[k], js[s])) \in Nat
    BY <2>5 DEF ReferencesTo, Bit
  <2> QED
    BY <2>2, <2>3, <2>4, <2>6
\* A free slot is left alone.
<1>7. \A k \in Slots : js[k].id = None =>
        ReferencesTo(js[k], js[s]) = 0 /\ ChildrenWithout(js[k], js[s]) = js[k].children
  <2> SUFFICES ASSUME NEW k \in Slots, js[k].id = None
               PROVE  ReferencesTo(js[k], js[s]) = 0 /\ ChildrenWithout(js[k], js[s]) = js[k].children
    OBVIOUS
  <2>1. ~IsChild(js[k], js[s]) /\ ~IsOwner(js[k], js[s]) /\ js[k].children \in Nat
    BY <1>2 DEF IsChild, IsOwner, JobRecord
  <2> QED
    BY <2>1 DEF ReferencesTo, ChildrenWithout, Bit
<1>8. \A k \in Slots : /\ js[k].refs - ReferencesTo(js[k], js[s]) \in Nat
                       /\ ChildrenWithout(js[k], js[s]) \in Nat
  <2> SUFFICES ASSUME NEW k \in Slots
               PROVE  /\ js[k].refs - ReferencesTo(js[k], js[s]) \in Nat
                      /\ ChildrenWithout(js[k], js[s]) \in Nat
    OBVIOUS
  <2>1. js[k].refs \in Nat /\ js[k].children \in Nat /\ Needs(js, k) \in Nat
    BY <1>2, NeedsAreFinite DEF JobRecord
  <2>2. CASE js[k].id = None
    BY <1>7, <2>1, <2>2
  <2>3. CASE js[k].id # None
    <3>1. js[k].refs >= Needs(js, k) /\ js[k].children = Cardinality(Kids(js, k))
      BY <2>3 DEF TreeInv, CountsSound
    <3> QED
      BY <1>6, <2>1, <2>3, <3>1 DEF ChildrenWithout
  <2> QED
    BY <2>2, <2>3
<1>9. \A t \in Slots :
        /\ ts[t] \in JobRecord
        /\ ts[t].id = js[t].id /\ ts[t].epoch = js[t].epoch /\ ts[t].parent = js[t].parent
        /\ ts[t].dependencies = js[t].dependencies /\ ts[t].count = js[t].count
        /\ ts[t].next = js[t].next /\ ts[t].completed = js[t].completed
        /\ ts[t].executing = js[t].executing /\ ts[t].result = js[t].result
        /\ t = s => /\ ts[t].status = FinalStatus(js[s]) /\ ts[t].refs = js[s].refs
                    /\ ts[t].children = js[s].children /\ ts[t].cancel = js[s].cancel
                    /\ ts[t].released = js[s].released
        /\ t # s => /\ ts[t].status = js[t].status
                    /\ ts[t].refs = js[t].refs - ReferencesTo(js[t], js[s])
                    /\ ts[t].children = ChildrenWithout(js[t], js[s])
                    /\ ts[t].cancel = (js[t].cancel \/ Blamed(js[t], js[s]))
                    /\ ts[t].released = (js[t].released \/ IsChild(js[t], js[s]))
  <2> TAKE t \in Slots
  <2> QED
    BY <1>1, <1>8, TerminateFields
<1>10. ts \in Tables
  <2>1. ts = [t \in Slots |-> ts[t]]
    BY DEF Terminate
  <2> HIDE DEF ts
  <2> QED
    BY <1>9, <2>1 DEF Tables
<1> HIDE DEF ts
<1>11. EndOf(js, ts, s)
  BY <1>1, <1>5, <1>9 DEF EndOf, Open, Terminal
<1>12. \A t \in Slots : Terminal(ts[t]) <=> Terminal(js[t]) \/ t = s
  BY <1>5, <1>9 DEF Terminal
<1>13. \A k \in Slots : js[k].id # None =>
         /\ Cardinality(Kids(ts, k)) = ts[k].children
         /\ Needs(ts, k) = Needs(js, k) - ReferencesTo(js[k], js[s])
         /\ ts[k].refs = js[k].refs - ReferencesTo(js[k], js[s])
  <2> SUFFICES ASSUME NEW k \in Slots, js[k].id # None
               PROVE  /\ Cardinality(Kids(ts, k)) = ts[k].children
                      /\ Needs(ts, k) = Needs(js, k) - ReferencesTo(js[k], js[s])
                      /\ ts[k].refs = js[k].refs - ReferencesTo(js[k], js[s])
    OBVIOUS
  <2>1. /\ Cardinality(Kids(ts, k)) = Cardinality(Kids(js, k)) - Bit(IsOwner(js[k], js[s]))
        /\ Needs(ts, k) = Needs(js, k) - ReferencesTo(js[k], js[s])
    BY <1>1, <1>11, EndLessens
  <2>2. js[k].children = Cardinality(Kids(js, k)) /\ js[k].children \in Nat /\ js[k].refs \in Nat
    BY <1>2 DEF TreeInv, CountsSound, JobRecord
  <2>3. CASE k # s
    BY <1>9, <2>1, <2>2, <2>3 DEF ChildrenWithout
  <2>4. CASE k = s
    <3>1. Occurrences(js[s].dependencies, js[s].id) = 0
      <4>1. js[s].dependencies \in Rows(0..MaxSerial)
        BY <1>2 DEF JobRecord
      <4>2. js[s].id \in 0..MaxSerial /\ js[s].id # None
        BY <1>2, <1>1 DEF JobRecord, Open
      <4>3. \A i \in DOMAIN js[s].dependencies : js[s].dependencies[i] \in 0..MaxSerial
        BY <4>1, RowFacts
      <4>4. \A i \in DOMAIN js[s].dependencies : js[s].dependencies[i] < js[s].id
        BY <4>2 DEF TreeInv, IdsSound
      <4>5. \A i \in DOMAIN js[s].dependencies : js[s].dependencies[i] # js[s].id
        BY <4>2, <4>3, <4>4
      <4>6. {i \in DOMAIN js[s].dependencies : js[s].dependencies[i] = js[s].id} = {}
        BY <4>5
      <4> QED
        BY <4>6, FS_EmptySet DEF Occurrences
    <3>2. ReferencesTo(js[s], js[s]) = 0
      BY <1>4, <3>1 DEF ReferencesTo, Bit
    <3> QED
      BY <1>4, <1>9, <2>1, <2>2, <2>4, <3>2 DEF Bit
  <2> QED
    BY <2>3, <2>4
<1>14. \A k \in Slots : js[k].id # None =>
         ReferencesTo(js[k], js[s]) \in Nat /\ js[k].refs \in Nat /\ Needs(js, k) \in Nat
  BY <1>6, NeedsAreFinite
<1>15. CountsSound(ts)
  BY <1>9, <1>13, <1>14 DEF CountsSound, TreeInv
<1>16. Exact(js) => Exact(ts)
  BY <1>9, <1>13, <1>14 DEF Exact
<1>17. SlotsSound(ts)
  <2> SUFFICES ASSUME NEW t \in Slots
               PROVE  /\ ts[t].completed + ts[t].executing = ts[t].next /\ ts[t].next <= ts[t].count
                      /\ ts[t].id = None => ts[t].status = "none" /\ ts[t].executing = 0
                      /\ ts[t].id # None => ts[t].status # "none"
                      /\ Terminal(ts[t]) => ts[t].children = 0 /\ ts[t].executing = 0
    BY DEF SlotsSound
  <2>1. /\ js[t].completed + js[t].executing = js[t].next /\ js[t].next <= js[t].count
        /\ js[t].id = None => js[t].status = "none" /\ js[t].executing = 0
        /\ js[t].id # None => js[t].status # "none"
        /\ Terminal(js[t]) => js[t].children = 0 /\ js[t].executing = 0
    BY DEF TreeInv, SlotsSound
  <2>2. CASE t = s
    BY <1>1, <1>5, <1>9, <2>1, <2>2 DEF Open
  <2>3. CASE t # s
    <3>1. Terminal(js[t]) => js[t].id # None
      BY <2>1 DEF Terminal
    <3>2. Terminal(js[t]) => ts[t].children = 0
      <4> SUFFICES ASSUME Terminal(js[t]) PROVE ts[t].children = 0
        OBVIOUS
      <4>1. js[t].children = 0 /\ js[t].children = Cardinality(Kids(js, t))
        BY <2>1, <3>1 DEF TreeInv, CountsSound
      <4>2. Bit(IsOwner(js[t], js[s])) = 0
        BY <1>6, <3>1, <4>1
      <4> QED
        BY <1>9, <2>3, <4>1, <4>2 DEF ChildrenWithout
    <3> QED
      BY <1>9, <1>12, <2>1, <2>3, <3>2
  <2> QED
    BY <2>2, <2>3
<1>18. IdsSound(ts, n)
  BY <1>9 DEF TreeInv, IdsSound
<1>19. ParentsFound(ts)
  BY <1>9, <1>11 DEF TreeInv, ParentsFound, EndOf
<1>20. DependenciesFound(ts)
  <2> SUFFICES ASSUME NEW t \in Slots, Open(ts[t]), NEW i \in DOMAIN ts[t].dependencies,
                      ts[t].dependencies[i] # None
               PROVE  \E u \in Slots : /\ ts[u].id = ts[t].dependencies[i]
                                       /\ ts[t].executing > 0 => ts[u].status = "succeeded"
    BY DEF DependenciesFound
  <2>1. Open(js[t]) /\ ts[t].dependencies = js[t].dependencies /\ ts[t].executing = js[t].executing
    BY <1>9, <1>11 DEF EndOf
  <2>2. PICK u \in Slots : /\ js[u].id = js[t].dependencies[i]
                           /\ js[t].executing > 0 => js[u].status = "succeeded"
    BY <2>1 DEF TreeInv, DependenciesFound
  <2>3. js[u].status = "succeeded" => u # s
    BY <1>1 DEF Open, Terminal
  <2> QED
    BY <1>9, <2>1, <2>2, <2>3
<1>21. BlameSound(ts)
  <2> SUFFICES ASSUME NEW k \in Slots, NEW t \in Slots, ts[k].id # None, ts[t].id # None,
                      ts[t].parent = ts[k].id, ts[t].status \in {"failed", "cancelled"}
               PROVE  ts[k].status # "succeeded" /\ (Open(ts[k]) => ts[k].cancel)
    BY DEF BlameSound
  <2>1. js[k].id # None /\ js[t].id # None /\ js[t].parent = js[k].id
    BY <1>9
  <2>2. CASE t # s
    <3>1. js[k].status # "succeeded" /\ (Open(js[k]) => js[k].cancel)
      BY <1>9, <2>1, <2>2 DEF TreeInv, BlameSound
    <3>2. CASE k # s
      BY <1>9, <1>11, <3>1, <3>2 DEF EndOf
    <3>3. CASE k = s
      BY <1>1, <1>9, <1>11, <3>1, <3>3 DEF EndOf, FinalStatus
    <3> QED
      BY <3>2, <3>3
  <2>3. CASE t = s
    <3>1. k # s
      BY <1>3, <2>1, <2>3
    <3>2. Blamed(js[k], js[s])
      BY <1>9, <2>1, <2>3 DEF Blamed, IsOwner
    <3>3. js[k].status # "succeeded"
      <4>1. s \in Kids(js, k)
        BY <1>1, <2>1, <2>3 DEF Kids
      <4>2. Cardinality(Kids(js, k)) # 0
        BY <4>1, NeedsAreFinite, FS_EmptySet
      <4>3. js[k].children # 0
        BY <2>1, <4>2 DEF TreeInv, CountsSound
      <4> QED
        BY <4>3 DEF TreeInv, SlotsSound, Terminal
    <3> QED
      BY <1>9, <3>1, <3>2, <3>3
  <2> QED
    BY <2>2, <2>3
<1>22. Kept(js, ts)
  <2> SUFFICES ASSUME NEW t \in Slots
               PROVE  /\ Terminal(js[t]) => ts[t].status = js[t].status
                      /\ js[t].cancel => ts[t].cancel
                      /\ js[t].released => ts[t].released
                      /\ ts[t].released => js[t].released \/ EndsIn(js, ts, js[t].parent)
    BY <1>9 DEF Kept
  <2>1. Terminal(js[t]) => t # s
    BY <1>1 DEF Open
  <2>2. IsChild(js[t], js[s]) => EndsIn(js, ts, js[t].parent)
    BY <1>1, <1>12 DEF IsChild, EndsIn, Open
  <2>3. js[t].cancel \in BOOLEAN /\ js[t].released \in BOOLEAN
    BY <1>2 DEF JobRecord
  <2> QED
    BY <1>9, <2>1, <2>2, <2>3
<1>23. SameExecuting(js, ts)
  BY <1>9 DEF SameExecuting
<1> QED
  BY <1>10, <1>15, <1>16, <1>17, <1>18, <1>19, <1>20, <1>21, <1>22, <1>23 DEF TreeInv, ts

-----------------------------------------------------------------------------
(* finish, and the recursions in general.                                  *)

\* Being kept is reflexive and transitive.
LEMMA KeptTwice ==
    ASSUME NEW js, NEW ks, NEW ls, Kept(js, ks), Kept(ks, ls)
    PROVE  Kept(js, ls)
<1>1. \A t \in Slots : /\ Open(ks[t]) => Open(js[t])
                       /\ Open(js[t]) /\ ~Open(ks[t]) => ~Open(ls[t])
  BY DEF Kept, Open, Terminal
<1>2. ASSUME NEW t \in Slots, EndsIn(js, ks, js[t].parent) \/ EndsIn(ks, ls, ks[t].parent)
      PROVE  EndsIn(js, ls, js[t].parent)
  <2>1. ASSUME NEW p \in Slots, Open(js[p]), js[p].id = js[t].parent, ~Open(ks[p])
        PROVE  EndsIn(js, ls, js[t].parent)
    BY <1>1, <2>1 DEF EndsIn
  <2>2. ASSUME NEW p \in Slots, Open(ks[p]), ks[p].id = ks[t].parent, ~Open(ls[p])
        PROVE  EndsIn(js, ls, js[t].parent)
    BY <1>1, <2>2 DEF EndsIn, Kept
  <2> QED
    BY <1>2, <2>1, <2>2 DEF EndsIn
<1> QED
  BY <1>2 DEF Kept, Terminal

\* What finish may do to a table: nothing is lost, counts that were exact stay so.
Finished(js, ks, n) ==
    /\ TreeInv(ks, n) /\ Kept(js, ks) /\ SameExecuting(js, ks)
    /\ Exact(js) => Exact(ks)

\* It may do nothing, and it may do it twice.
LEMMA FinishedTwice ==
    ASSUME NEW js, NEW ks, NEW ls, NEW n
    PROVE  /\ TreeInv(js, n) => Finished(js, js, n)
           /\ Finished(js, ks, n) /\ Finished(ks, ls, n) => Finished(js, ls, n)
<1>1. TreeInv(js, n) => Finished(js, js, n)
  BY DEF Finished, Kept, SameExecuting
<1>2. ASSUME Finished(js, ks, n), Finished(ks, ls, n) PROVE Finished(js, ls, n)
  <2>1. Kept(js, ls)
    BY <1>2, KeptTwice DEF Finished
  <2> QED
    BY <1>2, <2>1 DEF Finished, SameExecuting
<1> QED
  BY <1>1, <1>2

\* f is the climb of finish from slot s, through sound tables.
Climbing(f, js, s, n) ==
    /\ f \in [0..N -> [jobs : Tables, at : SUBSET Slots]]
    /\ \A k \in 0..N : Finished(js, f[k].jobs, n)
    /\ f[0] = [jobs |-> js, at |-> {s}]
    /\ \A k \in 1..N : f[k] = FinishLevel(f[k - 1])
    /\ Finish(js, s) = f[N].jobs

\* There is one.
LEMMA FinishClimbs ==
    ASSUME NEW js, NEW n, TreeInv(js, n), NEW s \in Slots
    PROVE  \E f : Climbing(f, js, s, n)
<1> DEFINE G == {acc \in [jobs : Tables, at : SUBSET Slots] : Finished(js, acc.jobs, n)}
           b == [jobs |-> js, at |-> {s}]
           step == [p \in (1..N) \X G |-> FinishLevel(p[2])]
           Climbs(f) == f = [k \in 0..N |-> IF k = 0 THEN b ELSE FinishLevel(f[k - 1])]
           climb == CHOOSE f : Climbs(f)
<1>1. b \in G
  BY FinishedTwice DEF TreeInv
<1>2. \A acc \in G : FinishLevel(acc) \in G
  <2> SUFFICES ASSUME NEW acc \in G PROVE FinishLevel(acc) \in G
    OBVIOUS
  <2>1. CASE acc.at = {}
    BY <2>1 DEF FinishLevel
  <2>2. CASE acc.at # {}
    <3> DEFINE x == CHOOSE x \in acc.at : TRUE
    <3>1. x \in Slots
      BY <2>2
    <3> HIDE DEF x
    <3>2. CASE ~Finishable(acc.jobs[x])
      <4>1. FinishLevel(acc) = [acc EXCEPT !.at = {}]
        BY <2>2, <3>2 DEF FinishLevel, x
      <4> QED
        BY <4>1
    <3>3. CASE Finishable(acc.jobs[x])
      <4> DEFINE T == Terminate(acc.jobs, x)
                 F == Find(acc.jobs, acc.jobs[x].parent)
      <4>1. FinishLevel(acc) = [jobs |-> T, at |-> F]
        BY <2>2, <3>3 DEF FinishLevel, x
      <4>2. Finished(js, acc.jobs, n) /\ TreeInv(acc.jobs, n)
        BY DEF Finished
      <4>3. Finished(acc.jobs, T, n)
        BY <3>1, <3>3, <4>2, TerminateKeeps DEF Finished
      <4> HIDE DEF T
      <4>4. Finished(js, T, n)
        BY <4>2, <4>3, FinishedTwice
      <4>5. T \in Tables
        BY <4>4 DEF Finished, TreeInv
      <4>6. F \in SUBSET Slots
        BY DEF Find
      <4> HIDE DEF F
      <4> QED
        BY <4>1, <4>4, <4>5, <4>6
    <3> QED
      BY <3>2, <3>3
  <2> QED
    BY <2>1, <2>2
<1>3. N \in Nat
  BY NAssumption
<1>4. step \in [(1..N) \X G -> G]
  BY <1>2
<1>5. \A k \in 1..N, acc \in G : step[<< k, acc >>] = FinishLevel(acc)
  OBVIOUS
<1> HIDE DEF G, b, step
<1>6. PICK f : Unfolds(f, G, N, b, step)
  BY <1>1, <1>3, <1>4, RecursionExists
<1>7. Climbs(f)
  <2>1. f \in [0..N -> G]
    BY <1>6 DEF Unfolds
  <2>2. \A k \in 0..N : f[k] = IF k = 0 THEN b ELSE FinishLevel(f[k - 1])
    <3> TAKE k \in 0..N
    <3>1. CASE k = 0
      BY <1>6, <3>1 DEF Unfolds
    <3>2. CASE k # 0
      <4>1. k \in 1..N /\ k - 1 \in 0..N
        BY <1>3, <3>2
      <4>2. f[k - 1] \in G
        BY <1>6, <4>1 DEF Unfolds
      <4> QED
        BY <1>5, <1>6, <3>2, <4>1, <4>2 DEF Unfolds
    <3> QED
      BY <3>1, <3>2
  <2> QED
    BY <2>1, <2>2
<1>8. Climbs(climb)
  <2> HIDE DEF Climbs
  <2> QED
    BY <1>7
<1>9. \A k \in 1..N : climb[k] = FinishLevel(climb[k - 1])
  <2> HIDE DEF climb
  <2> TAKE k \in 1..N
  <2>1. k \in 0..N /\ k # 0
    BY <1>3
  <2> QED
    BY <1>8, <2>1
<1>10. climb[0] = b
  <2> HIDE DEF climb
  <2> QED
    BY <1>3, <1>8
<1>11. \A m \in 0..N : climb[m] \in G
  <2> DEFINE S == {k \in 0..N : climb[k] \in G}
  <2> HIDE DEF climb
  <2> TAKE m \in 0..N
  <2>1. 0 \in S
    BY <1>1, <1>3, <1>10
  <2>2. ASSUME NEW k \in 1..m, k - 1 \in S PROVE k \in S
    <3>1. k \in 1..N /\ k \in 0..N
      BY <1>3
    <3> QED
      BY <1>2, <1>9, <2>2, <3>1
  <2>3. m \in Nat
    BY <1>3
  <2> HIDE DEF S
  <2>4. m \in S
    BY <2>1, <2>2, <2>3, InductionUpTo
  <2> QED
    BY <2>4 DEF S
<1>12. Finish(js, s) = climb[N].jobs
  BY DEF Finish, b
<1>13. climb \in [0..N -> [jobs : Tables, at : SUBSET Slots]]
  <2> HIDE DEF climb
  <2>1. climb = [k \in 0..N |-> climb[k]]
    BY <1>8
  <2>2. \A k \in 0..N : climb[k] \in [jobs : Tables, at : SUBSET Slots]
    BY <1>11 DEF G
  <2> QED
    BY <2>1, <2>2
<1>14. \A k \in 0..N : Finished(js, climb[k].jobs, n)
  <2> HIDE DEF climb
  <2> QED
    BY <1>11 DEF G
<1>15. climb[0] = [jobs |-> js, at |-> {s}]
  BY <1>10 DEF b
<1> HIDE DEF climb
<1>16. Climbing(climb, js, s, n)
  BY <1>9, <1>12, <1>13, <1>14, <1>15 DEF Climbing
<1> QED
  BY <1>16

\* finish climbs through sound tables.
LEMMA FinishKeeps ==
    ASSUME NEW js, NEW n, TreeInv(js, n), NEW s \in Slots
    PROVE  Finished(js, Finish(js, s), n)
<1>1. PICK f : Climbing(f, js, s, n)
  BY FinishClimbs
<1> QED
  BY <1>1, NAssumption DEF Climbing

-----------------------------------------------------------------------------
(* Steps that leave the tree as it is.                                     *)

\* With the same jobs, ties and counts, what the ties say holds as before.
LEMMA SameTiesKeep ==
    ASSUME NEW js, NEW ks, NEW n, TreeInv(js, n), SameTies(js, ks),
           \A t \in Slots : /\ ks[t].children = js[t].children /\ ks[t].refs = js[t].refs
                            /\ ks[t].result = js[t].result
    PROVE  /\ CountsSound(ks) /\ IdsSound(ks, n) /\ ParentsFound(ks)
           /\ Exact(js) => Exact(ks)
<1>1. \A s \in Slots : Kids(ks, s) = Kids(js, s) /\ Needs(ks, s) = Needs(js, s)
  BY SameTiesSameNeeds
<1>2. CountsSound(ks)
  BY <1>1 DEF TreeInv, CountsSound, SameTies
<1>3. Exact(js) => Exact(ks)
  BY <1>1 DEF Exact, SameTies
<1>4. IdsSound(ks, n)
  BY DEF TreeInv, IdsSound, SameTies
<1>5. ParentsFound(ks)
  BY DEF TreeInv, ParentsFound, SameTies
<1> QED
  BY <1>2, <1>3, <1>4, <1>5

\* ks differs from js in marks only, and none was taken back.
Marked(js, ks) ==
    /\ ks \in Tables
    /\ \A t \in Slots : /\ ks[t].id = js[t].id /\ ks[t].epoch = js[t].epoch
                        /\ ks[t].parent = js[t].parent /\ ks[t].dependencies = js[t].dependencies
                        /\ ks[t].count = js[t].count /\ ks[t].result = js[t].result
                        /\ ks[t].next = js[t].next /\ ks[t].completed = js[t].completed
                        /\ ks[t].executing = js[t].executing /\ ks[t].children = js[t].children
                        /\ ks[t].refs = js[t].refs /\ ks[t].status = js[t].status
                        /\ js[t].cancel => ks[t].cancel
                        /\ js[t].released => ks[t].released

\* Marks do no harm.
LEMMA MarkedKeeps ==
    ASSUME NEW js, NEW ks, NEW n, TreeInv(js, n), Marked(js, ks)
    PROVE  /\ TreeInv(ks, n) /\ SameExecuting(js, ks) /\ SameTies(js, ks)
           /\ Exact(js) => Exact(ks)
           /\ (\A t \in Slots : ks[t].released => js[t].released) => Finished(js, ks, n)
<1>1. SameTies(js, ks)
  BY DEF Marked, SameTies, Open, Terminal
<1>2. \A t \in Slots : /\ ks[t].children = js[t].children /\ ks[t].refs = js[t].refs
                       /\ ks[t].result = js[t].result
  BY DEF Marked
<1>3. CountsSound(ks) /\ IdsSound(ks, n) /\ ParentsFound(ks) /\ (Exact(js) => Exact(ks))
  BY <1>1, <1>2, SameTiesKeep
<1>4. SlotsSound(ks)
  BY DEF TreeInv, SlotsSound, Marked, Terminal
<1>5. DependenciesFound(ks)
  <2> SUFFICES ASSUME NEW s \in Slots, Open(ks[s]), NEW i \in DOMAIN ks[s].dependencies,
                      ks[s].dependencies[i] # None
               PROVE  \E t \in Slots : /\ ks[t].id = ks[s].dependencies[i]
                                       /\ ks[s].executing > 0 => ks[t].status = "succeeded"
    BY DEF DependenciesFound
  <2>1. Open(js[s]) /\ ks[s].dependencies = js[s].dependencies /\ ks[s].executing = js[s].executing
    BY <1>1 DEF SameTies, Marked
  <2>2. PICK t \in Slots : /\ js[t].id = js[s].dependencies[i]
                           /\ js[s].executing > 0 => js[t].status = "succeeded"
    BY <2>1 DEF TreeInv, DependenciesFound
  <2> QED
    BY <2>1, <2>2 DEF Marked
<1>6. BlameSound(ks)
  <2> SUFFICES ASSUME NEW s \in Slots, NEW t \in Slots, ks[s].id # None, ks[t].id # None,
                      ks[t].parent = ks[s].id, ks[t].status \in {"failed", "cancelled"}
               PROVE  ks[s].status # "succeeded" /\ (Open(ks[s]) => ks[s].cancel)
    BY DEF BlameSound
  <2>1. /\ js[s].id # None /\ js[t].id # None /\ js[t].parent = js[s].id
        /\ js[t].status \in {"failed", "cancelled"}
    BY DEF Marked
  <2>2. js[s].status # "succeeded" /\ (Open(js[s]) => js[s].cancel)
    BY <2>1 DEF TreeInv, BlameSound
  <2> QED
    BY <1>1, <2>2 DEF Marked, SameTies
<1>7. TreeInv(ks, n)
  BY <1>3, <1>4, <1>5, <1>6 DEF TreeInv, Marked
<1>8. SameExecuting(js, ks)
  BY DEF SameExecuting, Marked
<1>9. (\A t \in Slots : ks[t].released => js[t].released) => Kept(js, ks)
  BY DEF Kept, Marked
<1> QED
  BY <1>1, <1>3, <1>7, <1>8, <1>9 DEF Finished

\* Neither is a body ended.
Flagged(js, ks) == Marked(js, ks) /\ \A t \in Slots : ks[t].bodyDone = js[t].bodyDone

MarkAt(js, s, d, c, f, r) ==
    [js EXCEPT ![s].bodyDone = d, ![s].cancel = c, ![s].failed = f, ![s].released = r]

\* What a mark on one slot does.
LEMMA MarkOne ==
    ASSUME NEW js \in Tables, NEW s \in Slots, NEW d \in BOOLEAN, NEW c \in BOOLEAN,
           NEW f \in BOOLEAN, NEW r \in BOOLEAN, js[s].cancel => c, js[s].released => r
    PROVE  /\ Marked(js, MarkAt(js, s, d, c, f, r))
           /\ d = js[s].bodyDone => Flagged(js, MarkAt(js, s, d, c, f, r))
<1> DEFINE j == [js[s] EXCEPT !.bodyDone = d, !.cancel = c, !.failed = f, !.released = r]
           ks == MarkAt(js, s, d, c, f, r)
<1>1. js[s] \in JobRecord
  BY DEF Tables
<1>2. j \in JobRecord
  BY <1>1 DEF JobRecord
<1>3. /\ j.id = js[s].id /\ j.epoch = js[s].epoch /\ j.parent = js[s].parent
      /\ j.dependencies = js[s].dependencies /\ j.count = js[s].count /\ j.result = js[s].result
      /\ j.next = js[s].next /\ j.completed = js[s].completed /\ j.executing = js[s].executing
      /\ j.children = js[s].children /\ j.refs = js[s].refs /\ j.status = js[s].status
      /\ j.cancel = c /\ j.released = r /\ j.bodyDone = d
  BY <1>1 DEF JobRecord
<1>4. ks = [js EXCEPT ![s] = j]
  BY DEF Tables, MarkAt
<1> HIDE DEF j, ks
<1>5. ks \in Tables /\ ks[s] = j /\ \A t \in Slots : t # s => ks[t] = js[t]
  BY <1>2, <1>4 DEF Tables
<1>6. Marked(js, ks)
  BY <1>2, <1>3, <1>5 DEF Marked
<1>7. d = js[s].bodyDone => Flagged(js, ks)
  BY <1>3, <1>5, <1>6 DEF Flagged
<1> QED
  BY <1>6, <1>7 DEF ks

\* A job that the scan closes.
LEMMA CloseKeeps ==
    ASSUME NEW js, NEW n, TreeInv(js, n), NEW s \in Slots, NEW c \in BOOLEAN, NEW f \in BOOLEAN
    PROVE  Finished(js, Close(js, s, c, f), n)
<1> DEFINE ks == [js EXCEPT ![s].bodyDone = TRUE,
                            ![s].cancel = @ \/ c, ![s].failed = @ \/ f]
           cc == js[s].cancel \/ c
           ff == js[s].failed \/ f
<1>1. js \in Tables /\ js[s] \in JobRecord
  BY DEF TreeInv, Tables
<1>2. ks = MarkAt(js, s, TRUE, cc, ff, js[s].released)
  <2>1. [js[s] EXCEPT !.bodyDone = TRUE, !.cancel = cc, !.failed = ff] =
        [js[s] EXCEPT !.bodyDone = TRUE, !.cancel = cc, !.failed = ff, !.released = js[s].released]
    BY <1>1 DEF JobRecord
  <2> QED
    BY <1>1, <2>1 DEF Tables, MarkAt
<1>3. cc \in BOOLEAN /\ ff \in BOOLEAN /\ js[s].released \in BOOLEAN
  BY <1>1 DEF JobRecord
<1>4. (js[s].cancel => cc) /\ (js[s].released => js[s].released)
  OBVIOUS
<1> HIDE DEF ks, cc, ff
<1>5. Marked(js, ks)
  BY <1>1, <1>2, <1>3, <1>4, MarkOne
<1>6. \A t \in Slots : ks[t].released = js[t].released
  BY <1>1, <1>2 DEF Tables, JobRecord, MarkAt
<1>7. Finished(js, ks, n) /\ TreeInv(ks, n)
  BY <1>5, <1>6, MarkedKeeps
<1>8. Finished(ks, Finish(ks, s), n)
  BY <1>7, FinishKeeps
<1>9. Finished(js, Finish(ks, s), n)
  BY <1>7, <1>8, FinishedTwice
<1> QED
  BY <1>9 DEF Close, ks

\* A slot that the scan visits without running it.
LEMMA VisitKeeps ==
    ASSUME NEW js, NEW n, TreeInv(js, n), NEW s \in Slots
    PROVE  Finished(js, Visit(js, s), n)
<1>1. Finished(js, js, n)
  BY FinishedTwice
<1>2. \A c, f \in BOOLEAN : Finished(js, Close(js, s, c, f), n)
  BY CloseKeeps
<1>3. CASE Cancelled(js, s)
  BY <1>2, <1>3 DEF Visit
<1>4. CASE ~Cancelled(js, s) /\ Unmet(js, js[s]) # {}
  <2> DEFINE b == Blocker(js, js[s])
  <2>1. CASE b \in {"cancelled", "failed"}
    <3>1. Visit(js, s) = Close(js, s, TRUE, b = "failed")
      BY <1>4, <2>1 DEF Visit
    <3>2. (b = "failed") \in BOOLEAN
      OBVIOUS
    <3> HIDE DEF b
    <3>3. Finished(js, Close(js, s, TRUE, b = "failed"), n)
      BY <1>2, <3>2
    <3> QED
      BY <3>1, <3>3
  <2>2. CASE b \notin {"cancelled", "failed"}
    BY <1>1, <1>4, <2>2 DEF Visit
  <2> QED
    BY <2>1, <2>2
<1>5. CASE ~Cancelled(js, s) /\ Unmet(js, js[s]) = {} /\ js[s].count = 0
  BY <1>2, <1>5 DEF Visit
<1>6. CASE ~Cancelled(js, s) /\ Unmet(js, js[s]) = {} /\ js[s].count # 0
  BY <1>1, <1>6 DEF Visit
<1> QED
  BY <1>3, <1>4, <1>5, <1>6

\* One slot executes one more iteration.
OneMore(js, ks, s) == \A t \in Slots : ks[t].executing = js[t].executing + Bit(t = s)

Begin(js, s) ==
    [js EXCEPT ![s].next = @ + 1, ![s].executing = @ + 1, ![s].status = "running"]

\* A slot that the scan picks: its dependencies have succeeded.
LEMMA BeginKeeps ==
    ASSUME NEW js, NEW n, TreeInv(js, n), NEW s \in Slots, Runnable(js, s)
    PROVE  /\ TreeInv(Begin(js, s), n) /\ Kept(js, Begin(js, s)) /\ OneMore(js, Begin(js, s), s)
           /\ Exact(js) => Exact(Begin(js, s))
<1> DEFINE ks == Begin(js, s)
           x == js[s].next + 1
           e == js[s].executing + 1
           j == [js[s] EXCEPT !.next = x, !.executing = e, !.status = "running"]
<1>1. js \in Tables /\ js[s] \in JobRecord
  BY DEF TreeInv, Tables
<1>2. ks = [js EXCEPT ![s] = j]
  BY <1>1 DEF Tables, Begin
<1>3. x \in Nat /\ e \in Nat /\ "running" \in Statuses
  <2>1. js[s].next \in Nat /\ js[s].executing \in Nat
    BY <1>1 DEF JobRecord
  <2> QED
    BY <2>1 DEF Statuses
<1>4. /\ j \in JobRecord
      /\ j.id = js[s].id /\ j.epoch = js[s].epoch /\ j.parent = js[s].parent
      /\ j.dependencies = js[s].dependencies /\ j.count = js[s].count /\ j.result = js[s].result
      /\ j.completed = js[s].completed /\ j.children = js[s].children /\ j.refs = js[s].refs
      /\ j.cancel = js[s].cancel /\ j.released = js[s].released
      /\ j.next = js[s].next + 1 /\ j.executing = js[s].executing + 1 /\ j.status = "running"
  <2> HIDE DEF x, e
  <2>1. /\ j \in JobRecord
        /\ j.id = js[s].id /\ j.epoch = js[s].epoch /\ j.parent = js[s].parent
        /\ j.dependencies = js[s].dependencies /\ j.count = js[s].count /\ j.result = js[s].result
        /\ j.completed = js[s].completed /\ j.children = js[s].children /\ j.refs = js[s].refs
        /\ j.cancel = js[s].cancel /\ j.released = js[s].released
        /\ j.next = x /\ j.executing = e /\ j.status = "running"
    BY <1>1, <1>3 DEF JobRecord
  <2> QED
    BY <2>1 DEF x, e
<1> HIDE DEF j, x, e
<1>5. ks \in Tables /\ ks[s] = j /\ \A t \in Slots : t # s => ks[t] = js[t]
  BY <1>1, <1>2, <1>4 DEF Tables
<1> HIDE DEF ks
<1>6. /\ Open(js[s]) /\ Unmet(js, js[s]) = {} /\ js[s].next < js[s].count
  BY DEF Runnable
<1>7. \A t \in Slots :
        /\ ks[t].id = js[t].id /\ ks[t].epoch = js[t].epoch /\ ks[t].parent = js[t].parent
        /\ ks[t].dependencies = js[t].dependencies /\ ks[t].count = js[t].count
        /\ ks[t].result = js[t].result /\ ks[t].completed = js[t].completed
        /\ ks[t].children = js[t].children /\ ks[t].refs = js[t].refs
        /\ ks[t].cancel = js[t].cancel /\ ks[t].released = js[t].released
        /\ t # s => ks[t].executing = js[t].executing /\ ks[t].status = js[t].status
  BY <1>4, <1>5
<1>8. SameTies(js, ks) /\ \A t \in Slots : Terminal(ks[t]) <=> Terminal(js[t])
  BY <1>4, <1>5, <1>6, <1>7 DEF SameTies, Open, Terminal
<1>9. CountsSound(ks) /\ IdsSound(ks, n) /\ ParentsFound(ks) /\ (Exact(js) => Exact(ks))
  <2>1. \A t \in Slots : /\ ks[t].children = js[t].children /\ ks[t].refs = js[t].refs
                         /\ ks[t].result = js[t].result
    BY <1>7
  <2> QED
    BY <1>8, <2>1, SameTiesKeep
<1>10. SlotsSound(ks)
  <2> SUFFICES ASSUME NEW t \in Slots
               PROVE  /\ ks[t].completed + ks[t].executing = ks[t].next /\ ks[t].next <= ks[t].count
                      /\ ks[t].id = None => ks[t].status = "none" /\ ks[t].executing = 0
                      /\ ks[t].id # None => ks[t].status # "none"
                      /\ Terminal(ks[t]) => ks[t].children = 0 /\ ks[t].executing = 0
    BY DEF SlotsSound
  <2>1. /\ js[t].completed + js[t].executing = js[t].next /\ js[t].next <= js[t].count
        /\ js[t].id = None => js[t].status = "none" /\ js[t].executing = 0
        /\ js[t].id # None => js[t].status # "none"
        /\ Terminal(js[t]) => js[t].children = 0 /\ js[t].executing = 0
    BY DEF TreeInv, SlotsSound
  <2>2. CASE t # s
    BY <1>5, <2>1, <2>2
  <2>3. CASE t = s
    <3>1. js[s].next \in Nat /\ js[s].completed \in Nat /\ js[s].executing \in Nat
      BY <1>1 DEF JobRecord
    <3>3. js[s].count \in Nat
      <4>1. js[s].count \in Counts \cup {0}
        BY <1>1 DEF JobRecord
      <4> QED
        BY <4>1, CountsAreNaturals
    <3>2. js[s].id # None /\ ~Terminal(js[s])
      BY <1>6 DEF Open
    <3> QED
      BY <1>4, <1>5, <1>6, <1>8, <2>1, <2>3, <3>1, <3>2, <3>3
  <2> QED
    BY <2>2, <2>3
<1>11. DependenciesFound(ks)
  <2> SUFFICES ASSUME NEW t \in Slots, Open(ks[t]), NEW i \in DOMAIN ks[t].dependencies,
                      ks[t].dependencies[i] # None
               PROVE  \E u \in Slots : /\ ks[u].id = ks[t].dependencies[i]
                                       /\ ks[t].executing > 0 => ks[u].status = "succeeded"
    BY DEF DependenciesFound
  <2>1. Open(js[t]) /\ ks[t].dependencies = js[t].dependencies
    BY <1>7, <1>8 DEF SameTies
  <2>2. \A u \in Slots : js[u].status = "succeeded" => ks[u].status = "succeeded"
    BY <1>6, <1>7 DEF Open, Terminal
  <2>3. CASE t # s
    <3>1. PICK u \in Slots : /\ js[u].id = js[t].dependencies[i]
                             /\ js[t].executing > 0 => js[u].status = "succeeded"
      BY <2>1 DEF TreeInv, DependenciesFound
    <3> QED
      BY <1>7, <2>1, <2>2, <2>3, <3>1
  <2>4. CASE t = s
    <3>1. i \notin Unmet(js, js[s])
      BY <1>6
    <3>2. Met(js, js[s].dependencies[i])
      BY <2>1, <2>4, <3>1 DEF Unmet
    <3>3. PICK u \in Slots : js[u].id = js[s].dependencies[i] /\ js[u].status = "succeeded"
      BY <2>1, <2>4, <3>2 DEF Met, Find
    <3> QED
      BY <1>7, <2>1, <2>2, <2>4, <3>3
  <2> QED
    BY <2>3, <2>4
<1>12. BlameSound(ks)
  <2> SUFFICES ASSUME NEW p \in Slots, NEW t \in Slots, ks[p].id # None, ks[t].id # None,
                      ks[t].parent = ks[p].id, ks[t].status \in {"failed", "cancelled"}
               PROVE  ks[p].status # "succeeded" /\ (Open(ks[p]) => ks[p].cancel)
    BY DEF BlameSound
  <2>1. t # s
    BY <1>4, <1>5
  <2>2. js[p].status # "succeeded" /\ (Open(js[p]) => js[p].cancel)
    BY <1>7, <2>1 DEF TreeInv, BlameSound
  <2>3. ks[p].status # "succeeded"
    BY <1>4, <1>5, <2>2
  <2> QED
    BY <1>7, <1>8, <2>2, <2>3 DEF SameTies
<1>13. TreeInv(ks, n)
  BY <1>5, <1>9, <1>10, <1>11, <1>12 DEF TreeInv
<1>14. Kept(js, ks)
  <2>1. Terminal(js[s]) => FALSE
    BY <1>6 DEF Open
  <2> QED
    BY <1>7, <2>1 DEF Kept
<1>15. OneMore(js, ks, s)
  <2> SUFFICES ASSUME NEW t \in Slots PROVE ks[t].executing = js[t].executing + Bit(t = s)
    BY DEF OneMore
  <2>1. CASE t = s
    BY <1>4, <1>5, <2>1 DEF Bit
  <2>2. CASE t # s
    <3>1. js[t].executing \in Nat
      BY <1>1 DEF Tables, JobRecord
    <3> QED
      BY <1>7, <2>2, <3>1 DEF Bit
  <2> QED
    BY <2>1, <2>2
<1> QED
  BY <1>9, <1>13, <1>14, <1>15 DEF ks

\* What a scan has made of js so far.
ScanFrom(js, n) ==
    {acc \in [jobs : Tables, picked : Slots \cup {None}] :
        /\ TreeInv(acc.jobs, n) /\ Kept(js, acc.jobs)
        /\ Exact(js) => Exact(acc.jobs)
        /\ acc.picked = None => SameExecuting(js, acc.jobs)
        /\ acc.picked # None => OneMore(js, acc.jobs, acc.picked)}

\* One slot of a scan.
LEMMA ScanSlotKeeps ==
    ASSUME NEW js, NEW n, NEW acc \in ScanFrom(js, n), NEW s \in Slots
    PROVE  ScanSlot(acc, s) \in ScanFrom(js, n)
<1>1. /\ acc.jobs \in Tables /\ acc.picked \in Slots \cup {None}
      /\ TreeInv(acc.jobs, n) /\ Kept(js, acc.jobs) /\ (Exact(js) => Exact(acc.jobs))
      /\ acc.picked = None => SameExecuting(js, acc.jobs)
  BY DEF ScanFrom
<1>2. CASE acc.picked # None \/ ~Open(acc.jobs[s])
  BY <1>2 DEF ScanSlot
<1>3. CASE acc.picked = None /\ Open(acc.jobs[s]) /\ Runnable(acc.jobs, s)
  <2> DEFINE B == Begin(acc.jobs, s)
  <2>1. ScanSlot(acc, s) = [jobs |-> B, picked |-> s]
    BY <1>3 DEF ScanSlot, Begin
  <2>2. /\ TreeInv(B, n) /\ Kept(acc.jobs, B) /\ OneMore(acc.jobs, B, s)
        /\ Exact(acc.jobs) => Exact(B)
    BY <1>1, <1>3, BeginKeeps
  <2> HIDE DEF B
  <2>3. Kept(js, B)
    BY <1>1, <2>2, KeptTwice
  <2>4. OneMore(js, B, s)
    BY <1>1, <1>3, <2>2 DEF OneMore, SameExecuting
  <2>5. B \in Tables
    BY <2>2 DEF TreeInv
  <2>6. s # None
    BY DEF Slots, None
  <2> QED
    BY <1>1, <2>1, <2>2, <2>3, <2>4, <2>5, <2>6 DEF ScanFrom
<1>4. CASE acc.picked = None /\ Open(acc.jobs[s]) /\ ~Runnable(acc.jobs, s)
  <2> DEFINE V == Visit(acc.jobs, s)
  <2>1. ScanSlot(acc, s) = [acc EXCEPT !.jobs = V]
    BY <1>4 DEF ScanSlot
  <2>2. Finished(acc.jobs, V, n)
    BY <1>1, VisitKeeps
  <2> HIDE DEF V
  <2>3. TreeInv(V, n) /\ Kept(acc.jobs, V) /\ SameExecuting(acc.jobs, V) /\ (Exact(acc.jobs) => Exact(V))
    BY <2>2 DEF Finished
  <2>4. Kept(js, V)
    BY <1>1, <2>3, KeptTwice
  <2>5. SameExecuting(js, V)
    BY <1>1, <1>4, <2>3 DEF SameExecuting
  <2>6. V \in Tables
    BY <2>3 DEF TreeInv
  <2>7. ScanSlot(acc, s) = [jobs |-> V, picked |-> None]
    <3>1. acc \in [jobs : Tables, picked : Slots \cup {None}]
      BY DEF ScanFrom
    <3> QED
      BY <1>4, <2>1, <3>1
  <2> QED
    BY <1>1, <2>3, <2>4, <2>5, <2>6, <2>7 DEF ScanFrom
<1> QED
  BY <1>2, <1>3, <1>4

\* The slot a scan looks at in its k-th step.
ScanAt(k) == ((cursor + k - 2) % N) + 1

\* f is the scan, through sound tables.
Scanning(f, n) ==
    /\ \A k \in 0..N : f[k] \in ScanFrom(jobs, n)
    /\ f[0] = [jobs |-> jobs, picked |-> None]
    /\ \A k \in 1..N : ScanAt(k) \in Slots /\ f[k] = ScanSlot(f[k - 1], ScanAt(k))
    /\ Scanned = f[N]

\* There is one.
LEMMA ScannedSteps ==
    ASSUME NEW n, TreeInv(jobs, n), cursor \in Slots
    PROVE  \E f : Scanning(f, n)
<1> DEFINE G == ScanFrom(jobs, n)
           b == [jobs |-> jobs, picked |-> None]
           at(k) == ((cursor + k - 2) % N) + 1
           step == [p \in (1..N) \X G |-> ScanSlot(p[2], at(p[1]))]
           Scans(f) ==
               f = [k \in 0..N |-> IF k = 0 THEN b
                                   ELSE ScanSlot(f[k - 1], ((cursor + k - 2) % N) + 1)]
           scan == CHOOSE f : Scans(f)
<1>1. b \in G
  <2>1. Finished(jobs, jobs, n) /\ jobs \in Tables
    BY FinishedTwice DEF TreeInv
  <2> QED
    BY <2>1 DEF ScanFrom, Finished
<1>2. N \in Nat /\ N # 0 /\ cursor \in Nat /\ cursor >= 1
  BY NAssumption DEF Slots
<1>3. \A k \in 1..N : at(k) \in Slots
  <2> TAKE k \in 1..N
  <2>1. cursor + k - 2 \in Int
    BY <1>2
  <2>2. (cursor + k - 2) % N \in 0..(N - 1)
    <3> DEFINE c == cursor + k - 2
    <3> HIDE DEF c
    <3>1. c \in Int
      BY <2>1 DEF c
    <3>2. c % N \in 0..(N - 1)
      BY <1>2, <3>1
    <3> QED
      BY <3>2 DEF c
  <2> QED
    BY <1>2, <2>2 DEF Slots
<1>4. \A k \in 1..N, acc \in G : ScanSlot(acc, at(k)) \in G
  BY <1>3, ScanSlotKeeps
<1>5. \A k \in 1..N, acc \in G : step[<< k, acc >>] = ScanSlot(acc, at(k))
  OBVIOUS
<1>6. step \in [(1..N) \X G -> G]
  <2> SUFFICES ASSUME NEW p \in (1..N) \X G PROVE step[p] \in G
    OBVIOUS
  <2>1. p[1] \in 1..N /\ p[2] \in G
    OBVIOUS
  <2> HIDE DEF at, G
  <2> QED
    BY <1>4, <2>1
<1> HIDE DEF G, b, step
<1>7. PICK f : Unfolds(f, G, N, b, step)
  BY <1>1, <1>2, <1>6, RecursionExists
<1>8. Scans(f)
  <2>1. f \in [0..N -> G]
    BY <1>7 DEF Unfolds
  <2>2. \A k \in 0..N : f[k] = IF k = 0 THEN b ELSE ScanSlot(f[k - 1], at(k))
    <3> TAKE k \in 0..N
    <3>1. CASE k = 0
      BY <1>7, <3>1 DEF Unfolds
    <3>2. CASE k # 0
      <4>1. k \in 1..N /\ k - 1 \in 0..N
        BY <1>2, <3>2
      <4>2. f[k - 1] \in G
        BY <1>7, <4>1 DEF Unfolds
      <4> HIDE DEF at
      <4> QED
        BY <1>5, <1>7, <3>2, <4>1, <4>2 DEF Unfolds
    <3> QED
      BY <3>1, <3>2
  <2> QED
    BY <2>1, <2>2
<1>9. Scans(scan)
  <2> HIDE DEF Scans
  <2> QED
    BY <1>8
<1>10. \A k \in 1..N : scan[k] = ScanSlot(scan[k - 1], at(k))
  <2> HIDE DEF scan
  <2> TAKE k \in 1..N
  <2>1. k \in 0..N /\ k # 0
    BY <1>2
  <2> QED
    BY <1>9, <2>1
<1>11. scan[0] = b
  <2> HIDE DEF scan
  <2> QED
    BY <1>2, <1>9
<1>12. \A m \in 0..N : scan[m] \in G
  <2> DEFINE S == {k \in 0..N : scan[k] \in G}
  <2> HIDE DEF scan, at
  <2> TAKE m \in 0..N
  <2>1. 0 \in S
    BY <1>1, <1>2, <1>11
  <2>2. ASSUME NEW k \in 1..m, k - 1 \in S PROVE k \in S
    <3>1. k \in 1..N /\ k \in 0..N
      BY <1>2
    <3> QED
      BY <1>4, <1>10, <2>2, <3>1
  <2>3. m \in Nat
    BY <1>2
  <2> HIDE DEF S
  <2>4. m \in S
    BY <2>1, <2>2, <2>3, InductionUpTo
  <2> QED
    BY <2>4 DEF S
<1>13. Scanned = scan[N]
  BY DEF Scanned, b
<1>14. \A k \in 1..N : ScanAt(k) \in Slots /\ scan[k] = ScanSlot(scan[k - 1], ScanAt(k))
  <2> HIDE DEF scan
  <2> QED
    BY <1>3, <1>10 DEF ScanAt
<1>15. scan[0] = [jobs |-> jobs, picked |-> None]
  BY <1>11 DEF b
<1> HIDE DEF scan
<1>16. Scanning(scan, n)
  BY <1>12, <1>13, <1>14, <1>15 DEF Scanning, G
<1> QED
  BY <1>16

\* A whole scan.
LEMMA ScannedKeeps ==
    ASSUME NEW n, TreeInv(jobs, n), cursor \in Slots
    PROVE  Scanned \in ScanFrom(jobs, n)
<1>1. PICK f : Scanning(f, n)
  BY ScannedSteps
<1> QED
  BY <1>1, NAssumption DEF Scanning

-----------------------------------------------------------------------------
(* The end of an iteration, and collection.                                *)

\* One slot executes one iteration less.
OneLess(js, ks, s) == \A t \in Slots : ks[t].executing = js[t].executing - Bit(t = s)

\* The table with an iteration of the job in slot s counted as done.
Counted(js, s) ==
    LET ended == js[s].completed + 1 = js[s].count \/ js[s].cancel
    IN [js EXCEPT ![s].executing = @ - 1, ![s].completed = @ + 1, ![s].bodyDone = @ \/ ended]

\* An iteration ends.
LEMMA CountedKeeps ==
    ASSUME NEW js, NEW n, TreeInv(js, n), NEW s \in Slots, js[s].executing > 0
    PROVE  LET ks == Counted(js, s) IN
           /\ Completed(js, s) = Finish(ks, s)
           /\ TreeInv(ks, n) /\ Kept(js, ks) /\ OneLess(js, ks, s) /\ (Exact(js) => Exact(ks))
           /\ ks[s].id # None /\ \A t \in Slots : t # s => ks[t] = js[t]
           /\ ks[s].completed = ks[s].count => ks[s].bodyDone
<1> DEFINE ended == js[s].completed + 1 = js[s].count \/ js[s].cancel
           e == js[s].executing - 1
           c == js[s].completed + 1
           d == js[s].bodyDone \/ ended
           j == [js[s] EXCEPT !.executing = e, !.completed = c, !.bodyDone = d]
           ks == Counted(js, s)
<1>1. js \in Tables /\ js[s] \in JobRecord
  BY DEF TreeInv, Tables
<1>2. ks = [js EXCEPT ![s] = j]
  BY <1>1 DEF Tables, Counted
<1>3. e \in Nat /\ c \in Nat /\ d \in BOOLEAN
  <2>1. js[s].executing \in Nat /\ js[s].completed \in Nat
    BY <1>1 DEF JobRecord
  <2> QED
    BY <2>1
<1>4. /\ j \in JobRecord
      /\ j.id = js[s].id /\ j.epoch = js[s].epoch /\ j.parent = js[s].parent
      /\ j.dependencies = js[s].dependencies /\ j.count = js[s].count /\ j.result = js[s].result
      /\ j.next = js[s].next /\ j.children = js[s].children /\ j.refs = js[s].refs
      /\ j.cancel = js[s].cancel /\ j.released = js[s].released /\ j.status = js[s].status
      /\ j.completed = js[s].completed + 1 /\ j.executing = js[s].executing - 1
      /\ j.completed = j.count => j.bodyDone
  <2> HIDE DEF c, d, e
  <2>1. /\ j \in JobRecord
        /\ j.id = js[s].id /\ j.epoch = js[s].epoch /\ j.parent = js[s].parent
        /\ j.dependencies = js[s].dependencies /\ j.count = js[s].count /\ j.result = js[s].result
        /\ j.next = js[s].next /\ j.children = js[s].children /\ j.refs = js[s].refs
        /\ j.cancel = js[s].cancel /\ j.released = js[s].released /\ j.status = js[s].status
        /\ j.completed = c /\ j.executing = e /\ j.bodyDone = d
    BY <1>1, <1>3 DEF JobRecord
  <2>2. ASSUME j.completed = j.count PROVE j.bodyDone
    <3>1. js[s].completed + 1 = js[s].count
      BY <2>1, <2>2 DEF c
    <3>2. d = TRUE
      BY <1>3, <3>1 DEF d
    <3> QED
      BY <2>1, <3>2
  <2> QED
    BY <2>1, <2>2 DEF c, e
<1>5. Completed(js, s) = Finish(ks, s)
  BY DEF Completed, Counted
<1> HIDE DEF j, ks
<1>6. ks \in Tables /\ ks[s] = j /\ \A t \in Slots : t # s => ks[t] = js[t]
  BY <1>1, <1>2, <1>4 DEF Tables
<1>7. \A t \in Slots :
        /\ ks[t].id = js[t].id /\ ks[t].epoch = js[t].epoch /\ ks[t].parent = js[t].parent
        /\ ks[t].dependencies = js[t].dependencies /\ ks[t].count = js[t].count
        /\ ks[t].result = js[t].result /\ ks[t].next = js[t].next /\ ks[t].status = js[t].status
        /\ ks[t].children = js[t].children /\ ks[t].refs = js[t].refs
        /\ ks[t].cancel = js[t].cancel /\ ks[t].released = js[t].released
        /\ t # s => ks[t].executing = js[t].executing /\ ks[t].completed = js[t].completed
  BY <1>4, <1>6
<1>8. SameTies(js, ks) /\ \A t \in Slots : Terminal(ks[t]) <=> Terminal(js[t])
  BY <1>7 DEF SameTies, Open, Terminal
<1>9. CountsSound(ks) /\ IdsSound(ks, n) /\ ParentsFound(ks) /\ (Exact(js) => Exact(ks))
  <2>1. \A t \in Slots : /\ ks[t].children = js[t].children /\ ks[t].refs = js[t].refs
                         /\ ks[t].result = js[t].result
    BY <1>7
  <2> QED
    BY <1>8, <2>1, SameTiesKeep
<1>10. \A t \in Slots : ks[t].executing = js[t].executing - Bit(t = s)
  <2> TAKE t \in Slots
  <2>1. js[t].executing \in Nat
    BY <1>1 DEF Tables, JobRecord
  <2>2. CASE t = s
    BY <1>4, <1>6, <2>2 DEF Bit
  <2>3. CASE t # s
    BY <1>7, <2>1, <2>3 DEF Bit
  <2> QED
    BY <2>2, <2>3
<1>11. js[s].id # None /\ ~Terminal(js[s])
  BY DEF TreeInv, SlotsSound
<1>12. SlotsSound(ks)
  <2> SUFFICES ASSUME NEW t \in Slots
               PROVE  /\ ks[t].completed + ks[t].executing = ks[t].next /\ ks[t].next <= ks[t].count
                      /\ ks[t].id = None => ks[t].status = "none" /\ ks[t].executing = 0
                      /\ ks[t].id # None => ks[t].status # "none"
                      /\ Terminal(ks[t]) => ks[t].children = 0 /\ ks[t].executing = 0
    BY DEF SlotsSound
  <2>1. /\ js[t].completed + js[t].executing = js[t].next /\ js[t].next <= js[t].count
        /\ js[t].id = None => js[t].status = "none" /\ js[t].executing = 0
        /\ js[t].id # None => js[t].status # "none"
        /\ Terminal(js[t]) => js[t].children = 0 /\ js[t].executing = 0
    BY DEF TreeInv, SlotsSound
  <2>2. CASE t # s
    BY <1>6, <2>1, <2>2
  <2>3. CASE t = s
    <3>1. js[s].completed \in Nat /\ js[s].executing \in Nat
      BY <1>1 DEF JobRecord
    <3> QED
      BY <1>4, <1>6, <1>7, <1>8, <1>11, <2>1, <2>3, <3>1
  <2> QED
    BY <2>2, <2>3
<1>13. DependenciesFound(ks)
  <2> SUFFICES ASSUME NEW t \in Slots, Open(ks[t]), NEW i \in DOMAIN ks[t].dependencies,
                      ks[t].dependencies[i] # None
               PROVE  \E u \in Slots : /\ ks[u].id = ks[t].dependencies[i]
                                       /\ ks[t].executing > 0 => ks[u].status = "succeeded"
    BY DEF DependenciesFound
  <2>1. Open(js[t]) /\ ks[t].dependencies = js[t].dependencies
    BY <1>7, <1>8 DEF SameTies
  <2>2. PICK u \in Slots : /\ js[u].id = js[t].dependencies[i]
                           /\ js[t].executing > 0 => js[u].status = "succeeded"
    BY <2>1 DEF TreeInv, DependenciesFound
  <2>3. ks[t].executing > 0 => js[t].executing > 0
    <3>1. js[t].executing \in Nat
      BY <1>1 DEF Tables, JobRecord
    <3> QED
      BY <1>10, <3>1 DEF Bit
  <2> QED
    BY <1>7, <2>1, <2>2, <2>3
<1>14. BlameSound(ks)
  <2> SUFFICES ASSUME NEW p \in Slots, NEW t \in Slots, ks[p].id # None, ks[t].id # None,
                      ks[t].parent = ks[p].id, ks[t].status \in {"failed", "cancelled"}
               PROVE  ks[p].status # "succeeded" /\ (Open(ks[p]) => ks[p].cancel)
    BY DEF BlameSound
  <2>1. js[p].status # "succeeded" /\ (Open(js[p]) => js[p].cancel)
    BY <1>7 DEF TreeInv, BlameSound
  <2> QED
    BY <1>7, <1>8, <2>1 DEF SameTies
<1>15. TreeInv(ks, n)
  BY <1>6, <1>9, <1>12, <1>13, <1>14 DEF TreeInv
<1>16. Kept(js, ks)
  BY <1>7 DEF Kept
<1>17. OneLess(js, ks, s)
  BY <1>10 DEF OneLess
<1>18. ks[s].id # None /\ (ks[s].completed = ks[s].count => ks[s].bodyDone)
  BY <1>4, <1>6, <1>11
<1> QED
  BY <1>5, <1>6, <1>9, <1>15, <1>16, <1>17, <1>18 DEF ks

\* And perhaps its job does, and the jobs above.
LEMMA CompletedKeeps ==
    ASSUME NEW js, NEW n, TreeInv(js, n), NEW s \in Slots, js[s].executing > 0
    PROVE  /\ TreeInv(Completed(js, s), n) /\ Kept(js, Completed(js, s))
           /\ OneLess(js, Completed(js, s), s)
           /\ Exact(js) => Exact(Completed(js, s))
<1> DEFINE ks == Counted(js, s)
           F  == Finish(ks, s)
<1>1. /\ Completed(js, s) = F /\ TreeInv(ks, n) /\ Kept(js, ks) /\ OneLess(js, ks, s)
      /\ Exact(js) => Exact(ks)
  BY CountedKeeps
<1> HIDE DEF ks
<1>2. Finished(ks, F, n)
  BY <1>1, FinishKeeps
<1> HIDE DEF F
<1>3. TreeInv(F, n) /\ Kept(ks, F) /\ SameExecuting(ks, F) /\ (Exact(ks) => Exact(F))
  BY <1>2 DEF Finished
<1>4. Kept(js, F)
  BY <1>1, <1>3, KeptTwice
<1>5. OneLess(js, F, s)
  BY <1>1, <1>3 DEF OneLess, SameExecuting
<1> QED
  BY <1>1, <1>3, <1>4, <1>5

\* An empty slot is a record like any other.
LEMMA VacantIsRecord == Vacant \in JobRecord
<1>1. << >> \in Rows(0..MaxSerial)
  <2>1. << >> \in [1..0 -> 0..MaxSerial] /\ 0 \in 0..N
    BY NAssumption
  <2> QED
    BY <2>1 DEF Rows
<1>2. 0 \in 0..MaxSerial /\ 0 \in 0..MaxEpoch
  BY BoundsAreNaturals
<1> QED
  BY <1>1, <1>2 DEF Vacant, JobRecord, None, Statuses

\* Collection takes the slots of jobs that nobody needs.
LEMMA CollectKeeps ==
    ASSUME NEW js, NEW n, TreeInv(js, n)
    PROVE  /\ TreeInv(Collect(js), n) /\ SameExecuting(js, Collect(js))
           /\ Exact(js) => Exact(Collect(js))
<1> DEFINE ks == Collect(js)
<1>1. \A s \in Slots : js[s] \in JobRecord
  BY DEF TreeInv, Tables
<1>2. \A s \in Slots : ks[s] = IF Collectable(js[s]) THEN Vacant ELSE js[s]
  BY DEF Collect
<1>3. ks \in Tables
  <2>1. ks = [s \in Slots |-> ks[s]]
    BY DEF Collect
  <2>2. \A s \in Slots : ks[s] \in JobRecord
    BY <1>1, <1>2, VacantIsRecord
  <2> HIDE DEF ks
  <2> QED
    BY <2>1, <2>2 DEF Tables
<1> HIDE DEF ks
<1>4. /\ Vacant.id = None /\ Vacant.status = "none" /\ Vacant.executing = 0 /\ ~Terminal(Vacant)
      /\ Vacant.next = 0 /\ Vacant.completed = 0 /\ Vacant.count = 0
  BY DEF Vacant, Terminal
<1>5. \A s \in Slots : ks[s].id # None => ks[s] = js[s] /\ ~Collectable(js[s])
  BY <1>2, <1>4
<1>6. \A t \in Slots : Open(ks[t]) <=> Open(js[t])
  BY <1>2, <1>4 DEF Open, Collectable
<1>7. \A t \in Slots : Open(js[t]) => ks[t] = js[t]
  BY <1>2 DEF Open, Collectable
\* What somebody needs stays.
<1>8. \A s \in Slots : Collectable(js[s]) => Kids(js, s) = {} /\ Waits(js, s) = {} /\ Owners(js, s) = {}
  <2> SUFFICES ASSUME NEW s \in Slots, Collectable(js[s])
               PROVE  Kids(js, s) = {} /\ Waits(js, s) = {} /\ Owners(js, s) = {}
    OBVIOUS
  <2>1. js[s].id # None /\ js[s].refs = 0
    BY DEF Collectable
  <2>2. js[s].refs >= Needs(js, s)
    BY <2>1 DEF TreeInv, CountsSound
  <2>3. Cardinality(Kids(js, s)) = 0 /\ Cardinality(Waits(js, s)) = 0 /\ Cardinality(Owners(js, s)) = 0
    BY <2>1, <2>2, NeedsAreFinite DEF Needs
  <2> QED
    BY <2>3, NeedsAreFinite, FS_EmptySet
<1>9. \A s \in Slots : ks[s].id # None =>
        /\ Kids(ks, s) = Kids(js, s) /\ Needs(ks, s) = Needs(js, s)
  <2> SUFFICES ASSUME NEW s \in Slots, ks[s].id # None
               PROVE  Kids(ks, s) = Kids(js, s) /\ Needs(ks, s) = Needs(js, s)
    OBVIOUS
  <2>1. ks[s] = js[s]
    BY <1>5
  <2>2. Kids(ks, s) = Kids(js, s)
    BY <1>6, <1>7, <2>1 DEF Kids
  <2>3. Waits(ks, s) = Waits(js, s)
    <3>1. \A w \in Slots \X (1..N) : w[1] \in Slots
      OBVIOUS
    <3> QED
      BY <1>6, <1>7, <2>1, <3>1 DEF Waits
  <2>4. Owners(ks, s) = Owners(js, s)
    BY <1>6, <1>7, <2>1 DEF Owners
  <2> QED
    BY <2>2, <2>3, <2>4 DEF Needs
<1>10. CountsSound(ks)
  BY <1>5, <1>9 DEF TreeInv, CountsSound
<1>11. Exact(js) => Exact(ks)
  BY <1>5, <1>9 DEF Exact
<1>12. SlotsSound(ks)
  <2>1. 0 \in Nat /\ 0 + 0 = 0 /\ 0 <= 0
    OBVIOUS
  <2> QED
    BY <1>2, <1>4, <2>1 DEF TreeInv, SlotsSound
<1>13. IdsSound(ks, n)
  BY <1>5 DEF TreeInv, IdsSound
<1>14. ParentsFound(ks)
  <2> SUFFICES ASSUME NEW s \in Slots, Open(ks[s]), ks[s].parent # None
               PROVE  \E t \in Slots : ks[t].id = ks[s].parent
    BY DEF ParentsFound
  <2>1. Open(js[s]) /\ ks[s] = js[s]
    BY <1>6, <1>7
  <2>2. PICK t \in Slots : js[t].id = js[s].parent
    BY <2>1 DEF TreeInv, ParentsFound
  <2>3. s \in Kids(js, t)
    BY <2>1, <2>2 DEF Kids
  <2>4. ~Collectable(js[t])
    BY <1>8, <2>3
  <2> QED
    BY <1>2, <2>1, <2>2, <2>4
<1>15. DependenciesFound(ks)
  <2> SUFFICES ASSUME NEW s \in Slots, Open(ks[s]), NEW i \in DOMAIN ks[s].dependencies,
                      ks[s].dependencies[i] # None
               PROVE  \E t \in Slots : /\ ks[t].id = ks[s].dependencies[i]
                                       /\ ks[s].executing > 0 => ks[t].status = "succeeded"
    BY DEF DependenciesFound
  <2>1. Open(js[s]) /\ ks[s] = js[s]
    BY <1>6, <1>7
  <2>2. PICK t \in Slots : /\ js[t].id = js[s].dependencies[i]
                           /\ js[s].executing > 0 => js[t].status = "succeeded"
    BY <2>1 DEF TreeInv, DependenciesFound
  <2>3. << s, i >> \in Waits(js, t)
    <3>1. js[s].dependencies \in Rows(0..MaxSerial)
      BY <1>1 DEF JobRecord
    <3>2. i \in 1..N
      BY <2>1, <3>1, RowFacts
    <3> QED
      BY <2>1, <2>2, <3>2 DEF Waits
  <2>4. ~Collectable(js[t])
    BY <1>8, <2>3
  <2> QED
    BY <1>2, <2>1, <2>2, <2>4
<1>16. BlameSound(ks)
  BY <1>5, <1>6 DEF TreeInv, BlameSound
<1>17. SameExecuting(js, ks)
  <2>1. \A s \in Slots : Collectable(js[s]) => js[s].executing = 0
    BY DEF TreeInv, SlotsSound, Collectable
  <2> QED
    BY <1>2, <1>4, <2>1 DEF SameExecuting
<1> QED
  BY <1>3, <1>10, <1>11, <1>12, <1>13, <1>14, <1>15, <1>16, <1>17 DEF TreeInv, ks

-----------------------------------------------------------------------------
(* A new job.                                                              *)

\* The row of ids that a row of slots stands for, target being free as yet.
IdsAt(js, row, target) == [i \in DOMAIN row |-> IF row[i] = target THEN None ELSE js[row[i]].id]

\* ks is js with a job on its way in slot target: a child of the one in slot p, dependent on
\* the ones in the slots of row.
Stamps(js, ks, p, row, target, n) ==
    /\ ks \in Tables
    /\ LET k == ks[target] IN
       /\ k.id = None /\ k.epoch = epoch /\ k.status = "pending" /\ k.count = n
       /\ k.next = 0 /\ k.completed = 0 /\ k.executing = 0 /\ k.children = 0
       /\ k.result = serial + 1 /\ ~k.bodyDone
       /\ k.parent = (IF p = None THEN None ELSE js[p].id)
       /\ k.refs = Bit(p # None) + Occurrences(row, target)
       /\ k.dependencies = IdsAt(js, row, target)
    /\ \A t \in Slots : t # target =>
          /\ ks[t].id = js[t].id /\ ks[t].epoch = js[t].epoch /\ ks[t].parent = js[t].parent
          /\ ks[t].dependencies = js[t].dependencies /\ ks[t].count = js[t].count
          /\ ks[t].next = js[t].next /\ ks[t].completed = js[t].completed
          /\ ks[t].executing = js[t].executing /\ ks[t].result = js[t].result
          /\ ks[t].status = js[t].status /\ ks[t].cancel = js[t].cancel
          /\ ks[t].released = js[t].released /\ ks[t].bodyDone = js[t].bodyDone
          /\ ks[t].children = js[t].children + Bit(t = p)
          /\ ks[t].refs = js[t].refs + Bit(t = p) + Occurrences(row, t)

\* What stamping does to each slot.
LEMMA StampedFields ==
    ASSUME NEW js \in Tables, NEW a, NEW target \in Slots, NEW n \in Counts \cup {0},
           current[a] \in Slots \cup {None}, current[a] # target, args[a] \in Rows(Slots),
           serial \in Nat, serial < MaxSerial, epoch \in 0..MaxEpoch
    PROVE  Stamps(js, Stamped(js, a, target, n), current[a], args[a], target, n)
<1> DEFINE p == current[a]
           row == args[a]
           parent == IF p = None THEN None ELSE js[p].id
           refs == IF p = None THEN 0 ELSE 1
           result == serial + 1
           new == [Vacant EXCEPT !.epoch = epoch, !.status = "pending", !.count = n,
                                 !.result = result, !.parent = parent, !.refs = refs]
           base == [js EXCEPT ![target] = new]
           deps == [i \in DOMAIN row |-> base[row[i]].id]
           ks == Stamped(js, a, target, n)
<1>1. \A s \in Slots : js[s] \in JobRecord /\ js[s].id \in 0..MaxSerial
  BY DEF Tables, JobRecord
<1>2. \A s \in Slots : ks[s] = [base[s] EXCEPT !.dependencies = IF s = target THEN deps ELSE @,
                                  !.children = @ + Bit(s = p),
                                  !.refs = @ + Bit(s = p) + Occurrences(row, s)]
  BY DEF Stamped
<1>3. ks = [s \in Slots |-> ks[s]]
  BY DEF Stamped
<1>4. parent \in 0..MaxSerial /\ refs \in Nat /\ result \in 0..MaxSerial /\ refs = Bit(p # None)
  BY <1>1, BoundsAreNaturals DEF None, Bit
<1>5. "pending" \in Statuses
  BY DEF Statuses
<1>6. /\ new \in JobRecord
      /\ new.id = None /\ new.epoch = epoch /\ new.status = "pending" /\ new.count = n
      /\ new.next = 0 /\ new.completed = 0 /\ new.executing = 0 /\ new.children = 0
      /\ new.result = result /\ new.bodyDone = FALSE
      /\ new.parent = parent /\ new.refs = refs
  <2> HIDE DEF parent, refs, result
  <2>1. new \in JobRecord
    BY <1>4, <1>5, VacantIsRecord DEF JobRecord
  <2>2. /\ new.id = None /\ new.epoch = epoch /\ new.status = "pending" /\ new.count = n
        /\ new.next = 0 /\ new.completed = 0 /\ new.executing = 0 /\ new.children = 0
        /\ new.result = result /\ new.bodyDone = FALSE
        /\ new.parent = parent /\ new.refs = refs
    BY DEF Vacant
  <2> QED
    BY <2>1, <2>2
<1> HIDE DEF new
<1>7. base[target] = new /\ \A t \in Slots : t # target => base[t] = js[t]
  BY DEF Tables
<1>8. \A i \in DOMAIN row : row[i] \in Slots
  BY RowFacts
<1>9. deps = IdsAt(js, row, target)
  BY <1>6, <1>7, <1>8 DEF IdsAt
<1>10. deps \in Rows(0..MaxSerial)
  <2>1. PICK m \in 0..N : row \in [1..m -> Slots]
    BY DEF Rows
  <2>2. DOMAIN row = 1..m
    BY <2>1
  <2>3. \A i \in DOMAIN row : base[row[i]].id \in 0..MaxSerial
    <3>1. None \in 0..MaxSerial
      BY BoundsAreNaturals DEF None
    <3> HIDE DEF base
    <3> QED
      BY <1>1, <1>6, <1>7, <1>8, <3>1
  <2> HIDE DEF base
  <2>4. deps \in [1..m -> 0..MaxSerial]
    BY <2>2, <2>3
  <2> QED
    BY <2>4 DEF Rows
<1>11. \A t \in Slots : Occurrences(row, t) \in Nat /\ Bit(t = p) \in Nat
  BY RowFacts DEF Bit
<1> HIDE DEF deps, base
<1>12. LET k == ks[target] IN
       /\ k \in JobRecord
       /\ k.id = None /\ k.epoch = epoch /\ k.status = "pending" /\ k.count = n
       /\ k.next = 0 /\ k.completed = 0 /\ k.executing = 0 /\ k.children = 0
       /\ k.result = result /\ k.bodyDone = FALSE
       /\ k.parent = parent /\ k.refs = refs + Occurrences(row, target)
       /\ k.dependencies = deps
  <2> DEFINE c == new.children + Bit(target = p)
             r == new.refs + Bit(target = p) + Occurrences(row, target)
  <2>1. ks[target] = [new EXCEPT !.dependencies = deps, !.children = c, !.refs = r]
    BY <1>2, <1>7
  <2>2. c = 0 /\ r = refs + Occurrences(row, target) /\ c \in Nat /\ r \in Nat
    BY <1>4, <1>6, <1>11 DEF Bit
  <2> HIDE DEF c, r, refs, parent, result
  <2>3. /\ ks[target] \in JobRecord /\ ks[target].dependencies = deps
        /\ ks[target].children = c /\ ks[target].refs = r
    <3>1. new \in JobRecord
      BY <1>6
    <3>2. ks[target] \in JobRecord
      BY <1>10, <2>1, <2>2, <3>1, ZenonT(30) DEF JobRecord
    <3>3. /\ ks[target].dependencies = deps
          /\ ks[target].children = c /\ ks[target].refs = r
      BY <2>1, <3>1 DEF JobRecord
    <3> QED
      BY <3>2, <3>3
  <2>4. LET k == ks[target] IN
        /\ k.id = new.id /\ k.epoch = new.epoch /\ k.status = new.status /\ k.count = new.count
        /\ k.next = new.next /\ k.completed = new.completed /\ k.executing = new.executing
        /\ k.result = new.result /\ k.bodyDone = new.bodyDone /\ k.parent = new.parent
    BY <1>6, <2>1 DEF JobRecord
  <2> QED
    BY <1>6, <2>2, <2>3, <2>4
<1>13. \A t \in Slots : t # target =>
          /\ ks[t] \in JobRecord
          /\ ks[t].id = js[t].id /\ ks[t].epoch = js[t].epoch /\ ks[t].parent = js[t].parent
          /\ ks[t].dependencies = js[t].dependencies /\ ks[t].count = js[t].count
          /\ ks[t].next = js[t].next /\ ks[t].completed = js[t].completed
          /\ ks[t].executing = js[t].executing /\ ks[t].result = js[t].result
          /\ ks[t].status = js[t].status /\ ks[t].cancel = js[t].cancel
          /\ ks[t].released = js[t].released /\ ks[t].bodyDone = js[t].bodyDone
          /\ ks[t].children = js[t].children + Bit(t = p)
          /\ ks[t].refs = js[t].refs + Bit(t = p) + Occurrences(row, t)
  <2> SUFFICES ASSUME NEW t \in Slots, t # target
               PROVE  /\ ks[t] \in JobRecord
                      /\ ks[t].id = js[t].id /\ ks[t].epoch = js[t].epoch
                      /\ ks[t].parent = js[t].parent
                      /\ ks[t].dependencies = js[t].dependencies /\ ks[t].count = js[t].count
                      /\ ks[t].next = js[t].next /\ ks[t].completed = js[t].completed
                      /\ ks[t].executing = js[t].executing /\ ks[t].result = js[t].result
                      /\ ks[t].status = js[t].status /\ ks[t].cancel = js[t].cancel
                      /\ ks[t].released = js[t].released /\ ks[t].bodyDone = js[t].bodyDone
                      /\ ks[t].children = js[t].children + Bit(t = p)
                      /\ ks[t].refs = js[t].refs + Bit(t = p) + Occurrences(row, t)
    OBVIOUS
  <2> DEFINE c == js[t].children + Bit(t = p)
             r == js[t].refs + Bit(t = p) + Occurrences(row, t)
  <2>1. ks[t] = [js[t] EXCEPT !.children = c, !.refs = r]
    <3>1. ks[t] = [js[t] EXCEPT !.dependencies = js[t].dependencies, !.children = c, !.refs = r]
      BY <1>2, <1>7
    <3> HIDE DEF c, r
    <3> QED
      BY <1>1, <3>1 DEF JobRecord
  <2>2. c \in Nat /\ r \in Nat
    <3>1. js[t].children \in Nat /\ js[t].refs \in Nat
      BY <1>1 DEF JobRecord
    <3> QED
      BY <1>11, <3>1
  <2> HIDE DEF c, r
  <2>3. ks[t] \in JobRecord /\ ks[t].children = c /\ ks[t].refs = r
    BY <1>1, <2>1, <2>2 DEF JobRecord
  <2>4. /\ ks[t].id = js[t].id /\ ks[t].epoch = js[t].epoch /\ ks[t].parent = js[t].parent
        /\ ks[t].dependencies = js[t].dependencies /\ ks[t].count = js[t].count
        /\ ks[t].next = js[t].next /\ ks[t].completed = js[t].completed
        /\ ks[t].executing = js[t].executing /\ ks[t].result = js[t].result
        /\ ks[t].status = js[t].status /\ ks[t].cancel = js[t].cancel
        /\ ks[t].released = js[t].released /\ ks[t].bodyDone = js[t].bodyDone
    BY <1>1, <2>1 DEF JobRecord
  <2> QED
    BY <2>3, <2>4 DEF c, r
<1>14. ks \in Tables
  <2> HIDE DEF ks
  <2>1. \A s \in Slots : ks[s] \in JobRecord
    BY <1>12, <1>13
  <2> QED
    BY <1>3, <2>1 DEF Tables
<1> HIDE DEF ks
<1> QED
  BY <1>4, <1>9, <1>12, <1>13, <1>14 DEF Stamps, ks

\* A job that is being submitted, seen as if its id were there already.
Named(ks, target, id) == [ks EXCEPT ![target].id = id]

\* A new job, a child of p that waits for row, may take slot target of js.
MayStamp(js, p, row, target, n) ==
    /\ p \in Slots \cup {None} /\ row \in Rows(Slots) /\ target \in Slots
    /\ n \in Counts \cup {0} /\ serial \in Nat /\ serial < MaxSerial
    /\ TreeInv(js, serial) /\ js[target].id = None /\ (p # None => Open(js[p]))

\* It has taken it, and the tree will be sound when it gets its id.
SoundAfter(js, ks, row, target, n) ==
    /\ ks \in Tables /\ ks[target].id = None /\ SameExecuting(js, ks)
    /\ TreeInv(Named(ks, target, n), n)
    /\ Exact(js) /\ (\A i \in DOMAIN row : js[row[i]].id # None) => Exact(Named(ks, target, n))

\* A new job is counted by its parent and by what it depends on.
LEMMA StampKeeps ==
    ASSUME NEW js, NEW ks, NEW p, NEW row, NEW target, NEW n,
           MayStamp(js, p, row, target, n), Stamps(js, ks, p, row, target, n)
    PROVE  SoundAfter(js, ks, row, target, serial + 1)
<1> SUFFICES ASSUME p \in Slots \cup {None}, row \in Rows(Slots), target \in Slots,
                    n \in Counts \cup {0}, serial \in Nat, serial < MaxSerial,
                    TreeInv(js, serial), js[target].id = None, p # None => Open(js[p])
             PROVE  SoundAfter(js, ks, row, target, serial + 1)
  BY DEF MayStamp
<1> DEFINE m == serial + 1
           ls == Named(ks, target, m)
           parent == IF p = None THEN None ELSE js[p].id
<1>1. js \in Tables /\ \A s \in Slots : js[s] \in JobRecord
  BY DEF TreeInv, Tables
<1>2. p # target /\ m \in 0..MaxSerial /\ m \in Nat /\ m # 0
  <2>1. p # target
    <3>1. target # None
      BY DEF Slots, None
    <3> QED
      BY <3>1 DEF Open
  <2>2. m \in 0..MaxSerial /\ m \in Nat /\ m # 0
    BY BoundsAreNaturals
  <2> QED
    BY <2>1, <2>2
<1>3. ls \in Tables
  <2>1. ks[target] \in JobRecord /\ ks \in Tables
    BY DEF Stamps, Tables
  <2> HIDE DEF m
  <2>2. [ks[target] EXCEPT !.id = m] \in JobRecord
    BY <1>2, <2>1 DEF JobRecord
  <2> QED
    BY <2>1, <2>2 DEF Tables, Named
<1>4. LET k == ls[target] IN
      /\ k.id = m /\ k.status = "pending" /\ k.count = n
      /\ k.next = 0 /\ k.completed = 0 /\ k.executing = 0 /\ k.children = 0
      /\ k.result = m
      /\ k.parent = parent /\ k.refs = Bit(p # None) + Occurrences(row, target)
      /\ k.dependencies = IdsAt(js, row, target)
  <2>1. ks \in Tables /\ ks[target] \in JobRecord
    BY DEF Stamps, Tables
  <2>2. ls[target] = [ks[target] EXCEPT !.id = m]
    BY <2>1 DEF Tables, Named
  <2> HIDE DEF ls, m, parent
  <2>3. LET k == ls[target] IN
        /\ k.id = m /\ k.status = ks[target].status /\ k.count = ks[target].count
        /\ k.next = ks[target].next /\ k.completed = ks[target].completed
        /\ k.executing = ks[target].executing /\ k.children = ks[target].children
        /\ k.result = ks[target].result /\ k.parent = ks[target].parent
        /\ k.refs = ks[target].refs /\ k.dependencies = ks[target].dependencies
    BY <2>1, <2>2 DEF JobRecord
  <2> QED
    BY <2>3 DEF Stamps, m, parent
<1>5. \A t \in Slots : t # target =>
        /\ ls[t].id = js[t].id /\ ls[t].parent = js[t].parent
        /\ ls[t].dependencies = js[t].dependencies /\ ls[t].count = js[t].count
        /\ ls[t].next = js[t].next /\ ls[t].completed = js[t].completed
        /\ ls[t].executing = js[t].executing /\ ls[t].result = js[t].result
        /\ ls[t].status = js[t].status /\ ls[t].cancel = js[t].cancel
        /\ ls[t].children = js[t].children + Bit(t = p)
        /\ ls[t].refs = js[t].refs + Bit(t = p) + Occurrences(row, t)
  <2>1. \A t \in Slots : t # target => ls[t] = ks[t]
    BY DEF Stamps, Tables, Named
  <2> HIDE DEF ls
  <2> QED
    BY <2>1 DEF Stamps
<1> HIDE DEF ls
<1>6. /\ Open(ls[target]) /\ \A t \in Slots : t # target => (Open(ls[t]) <=> Open(js[t]))
      /\ ~Open(js[target])
  BY <1>2, <1>4, <1>5 DEF Open, Terminal, None
\* Every older id is smaller than the new one.
<1>7. \A t \in Slots : js[t].id # None =>
        /\ js[t].id \in 1..serial /\ js[t].id # m /\ js[t].parent # m
        /\ \A i \in DOMAIN js[t].dependencies : js[t].dependencies[i] # m
  <2> SUFFICES ASSUME NEW t \in Slots, js[t].id # None
               PROVE  /\ js[t].id \in 1..serial /\ js[t].id # m /\ js[t].parent # m
                      /\ \A i \in DOMAIN js[t].dependencies : js[t].dependencies[i] # m
    OBVIOUS
  <2>1. /\ js[t].id \in 1..serial /\ js[t].parent < js[t].id
        /\ \A i \in DOMAIN js[t].dependencies : js[t].dependencies[i] < js[t].id
    BY DEF TreeInv, IdsSound
  <2>2. js[t].parent \in 0..MaxSerial /\ js[t].dependencies \in Rows(0..MaxSerial)
    BY <1>1 DEF JobRecord
  <2>3. \A i \in DOMAIN js[t].dependencies : js[t].dependencies[i] \in 0..MaxSerial
    BY <2>2, RowFacts
  <2> QED
    BY <2>1, <2>2, <2>3
<1>8. parent \in 0..serial /\ parent # m
  BY <1>7 DEF Open, None
<1>9. \A s, t \in Slots : js[s].id # None /\ js[s].id = js[t].id => s = t
  BY DEF TreeInv, IdsSound
<1>10. DOMAIN IdsAt(js, row, target) = DOMAIN row /\ \A i \in DOMAIN row :
         /\ row[i] \in Slots /\ i \in 1..N
         /\ row[i] = target => IdsAt(js, row, target)[i] = None
         /\ row[i] # target => IdsAt(js, row, target)[i] = js[row[i]].id
  BY RowFacts DEF IdsAt
<1>11. \A s \in Slots : Occurrences(row, s) \in Nat
  BY RowFacts
<1>12. \A i \in DOMAIN row : IdsAt(js, row, target)[i] \in 0..serial
  BY <1>7, <1>10 DEF None
\* Who needs the others.
<1>13. \A k \in Slots : k # target /\ js[k].id # None =>
         /\ Cardinality(Kids(ls, k)) = Cardinality(Kids(js, k)) + Bit(k = p)
         /\ Cardinality(Waits(ls, k)) = Cardinality(Waits(js, k)) + Occurrences(row, k)
         /\ Owners(ls, k) = Owners(js, k)
  <2> SUFFICES ASSUME NEW k \in Slots, k # target, js[k].id # None
               PROVE  /\ Cardinality(Kids(ls, k)) = Cardinality(Kids(js, k)) + Bit(k = p)
                      /\ Cardinality(Waits(ls, k)) = Cardinality(Waits(js, k)) + Occurrences(row, k)
                      /\ Owners(ls, k) = Owners(js, k)
    OBVIOUS
  <2>1. Cardinality(Kids(ls, k)) = Cardinality(Kids(js, k)) + Bit(k = p)
    <3>1. parent = js[k].id <=> k = p
      BY <1>9 DEF Open, None, Slots
    <3>2. target \notin Kids(js, k)
      BY <1>6 DEF Kids
    <3>3. CASE k = p
      <4>1. Kids(ls, k) = Kids(js, k) \cup {target}
        BY <1>4, <1>5, <1>6, <3>1, <3>3 DEF Kids
      <4>2. Cardinality(Kids(js, k) \cup {target}) = Cardinality(Kids(js, k)) + 1
        BY <3>2, NeedsAreFinite, FS_AddElement, Zenon
      <4> QED
        BY <3>3, <4>1, <4>2 DEF Bit
    <3>4. CASE k # p
      <4>1. Kids(ls, k) = Kids(js, k)
        BY <1>4, <1>5, <1>6, <3>1, <3>4 DEF Kids
      <4>2. Cardinality(Kids(js, k)) \in Nat
        BY NeedsAreFinite
      <4> QED
        BY <3>4, <4>1, <4>2 DEF Bit
    <3> QED
      BY <3>3, <3>4
  <2>2. Cardinality(Waits(ls, k)) = Cardinality(Waits(js, k)) + Occurrences(row, k)
    <3> DEFINE D == {i \in DOMAIN row : row[i] = k}
    <3>1. \A i \in DOMAIN row : IdsAt(js, row, target)[i] = js[k].id <=> row[i] = k
      BY <1>9, <1>10
    <3>2. Waits(ls, k) = Waits(js, k) \cup ({target} \X D)
      <4>1. \A w \in Slots \X (1..N) : w \in {target} \X D <=> w[1] = target /\ w[2] \in D
        OBVIOUS
      <4>2. \A w \in Slots \X (1..N) : w[1] \in Slots
        OBVIOUS
      <4>3. {target} \X D \subseteq Slots \X (1..N)
        BY <1>10
      <4>4. \A w \in Slots \X (1..N) :
              w \in Waits(ls, k) <=> w \in Waits(js, k) \/ (w[1] = target /\ w[2] \in D)
        <5> SUFFICES ASSUME NEW w \in Slots \X (1..N)
                     PROVE  w \in Waits(ls, k) <=> w \in Waits(js, k) \/ (w[1] = target /\ w[2] \in D)
          OBVIOUS
        <5>1. CASE w[1] = target
          BY <1>4, <1>5, <1>6, <1>10, <3>1, <5>1 DEF Waits
        <5>2. CASE w[1] # target
          BY <1>5, <1>6, <4>2, <5>2 DEF Waits
        <5> QED
          BY <5>1, <5>2
      <4>5. Waits(ls, k) \subseteq Slots \X (1..N) /\ Waits(js, k) \subseteq Slots \X (1..N)
        BY DEF Waits
      <4> HIDE DEF D
      <4> QED
        BY <4>1, <4>3, <4>4, <4>5
    <3>3. Waits(js, k) \cap ({target} \X D) = {}
      BY <1>6 DEF Waits
    <3>4. IsFiniteSet(DOMAIN row) /\ D \in SUBSET (DOMAIN row)
      BY RowFacts
    <3>5. Occurrences(row, k) = Cardinality(D)
      BY DEF Occurrences
    <3> HIDE DEF D
    <3>6. IsFiniteSet(D) /\ IsFiniteSet({target})
      BY <3>4, FS_Subset, FS_Singleton, Zenon
    <3>7. IsFiniteSet({target} \X D) /\ Cardinality({target} \X D) = Cardinality(D)
      <4>1. IsFiniteSet({target} \X D)
        BY <3>6, FS_Product, Zenon
      <4> QED
        BY <3>6, <4>1, PairsWith
    <3>8. Cardinality(Waits(js, k) \cup ({target} \X D)) =
            Cardinality(Waits(js, k)) + Cardinality({target} \X D)
            - Cardinality(Waits(js, k) \cap ({target} \X D))
      BY <3>7, NeedsAreFinite, FS_Union, Zenon
    <3>9. Cardinality({}) = 0 /\ Cardinality(Waits(js, k)) \in Nat /\ Cardinality(D) \in Nat
      BY <3>6, FS_EmptySet, FS_CardinalityType, NeedsAreFinite
    <3>10. Cardinality(Waits(ls, k)) = Cardinality(Waits(js, k)) + Cardinality(D) - Cardinality({})
      BY <3>2, <3>3, <3>7, <3>8
    <3> QED
      BY <3>5, <3>9, <3>10
  <2>3. Owners(ls, k) = Owners(js, k)
    <3>1. js[k].parent # m
      BY <1>7
    <3> QED
      BY <1>4, <1>5, <1>6, <3>1 DEF Owners
  <2> QED
    BY <2>1, <2>2, <2>3
\* Who needs the new one.
<1>14. /\ Kids(ls, target) = {} /\ Waits(ls, target) = {}
       /\ Owners(ls, target) = IF p = None THEN {} ELSE {p}
  <2>1. Kids(ls, target) = {}
    <3>1. \A t \in Slots : t # target /\ Open(js[t]) => js[t].parent # m
      BY <1>7 DEF Open
    <3> QED
      BY <1>4, <1>5, <1>6, <1>8, <3>1 DEF Kids
  <2>2. Waits(ls, target) = {}
    <3>1. \A w \in Slots \X (1..N) : w[1] \in Slots
      OBVIOUS
    <3>2. \A t \in Slots : t # target /\ Open(js[t]) =>
            \A i \in DOMAIN js[t].dependencies : js[t].dependencies[i] # m
      BY <1>7 DEF Open
    <3>3. \A i \in DOMAIN row : IdsAt(js, row, target)[i] # m
      BY <1>12
    <3>4. \A t \in Slots : Open(ls[t]) => \A i \in DOMAIN ls[t].dependencies : ls[t].dependencies[i] # m
      BY <1>4, <1>5, <1>6, <1>10, <3>2, <3>3
    <3> QED
      BY <1>4, <3>1, <3>4 DEF Waits
  <2>3. Owners(ls, target) = IF p = None THEN {} ELSE {p}
    <3>1. \A t \in Slots : Open(js[t]) => js[t].id # None
      BY DEF Open
    <3>2. \A t \in Slots : t \in Owners(ls, target) <=> t # target /\ Open(js[t]) /\ js[t].id = parent
      BY <1>4, <1>5, <1>6, <1>8 DEF Owners
    <3>3. CASE p = None
      BY <3>1, <3>2, <3>3 DEF Owners
    <3>4. CASE p # None
      <4>1. \A t \in Slots : t # target /\ Open(js[t]) /\ js[t].id = parent <=> t = p
        BY <1>2, <1>9, <3>1, <3>4
      <4> QED
        BY <3>2, <3>4, <4>1 DEF Owners
    <3> QED
      BY <3>3, <3>4
  <2> QED
    BY <2>1, <2>2, <2>3
<1>15. /\ Cardinality(Kids(ls, target)) = 0 /\ Cardinality(Waits(ls, target)) = 0
       /\ Cardinality(Owners(ls, target)) = Bit(p # None)
  <2>1. Cardinality({}) = 0 /\ Cardinality({p}) = 1
    BY FS_EmptySet, FS_Singleton, Zenon
  <2> QED
    BY <1>14, <2>1 DEF Bit
<1>16. Needs(ls, target) = Bit(p # None)
  BY <1>15 DEF Needs, Bit
<1>17. \A k \in Slots : k # target /\ js[k].id # None =>
         /\ ls[k].children = js[k].children + Bit(k = p)
         /\ Cardinality(Kids(ls, k)) = Cardinality(Kids(js, k)) + Bit(k = p)
         /\ Needs(ls, k) = Needs(js, k) + Bit(k = p) + Occurrences(row, k)
         /\ Needs(js, k) \in Nat /\ js[k].refs \in Nat /\ Bit(k = p) \in Nat
         /\ ls[k].refs = js[k].refs + Bit(k = p) + Occurrences(row, k)
  <2> SUFFICES ASSUME NEW k \in Slots, k # target, js[k].id # None
               PROVE  /\ ls[k].children = js[k].children + Bit(k = p)
                      /\ Cardinality(Kids(ls, k)) = Cardinality(Kids(js, k)) + Bit(k = p)
                      /\ Needs(ls, k) = Needs(js, k) + Bit(k = p) + Occurrences(row, k)
                      /\ Needs(js, k) \in Nat /\ js[k].refs \in Nat /\ Bit(k = p) \in Nat
                      /\ ls[k].refs = js[k].refs + Bit(k = p) + Occurrences(row, k)
    OBVIOUS
  <2>1. Bit(k = p) \in Nat /\ js[k].refs \in Nat
    BY <1>1 DEF Bit, JobRecord
  <2>2. /\ Cardinality(Kids(ls, k)) = Cardinality(Kids(js, k)) + Bit(k = p)
        /\ Cardinality(Waits(ls, k)) = Cardinality(Waits(js, k)) + Occurrences(row, k)
        /\ Owners(ls, k) = Owners(js, k)
    BY <1>13
  <2>3. Needs(ls, k) = Needs(js, k) + Bit(k = p) + Occurrences(row, k)
    BY <1>11, <2>1, <2>2, NeedsAreFinite DEF Needs
  <2> QED
    BY <1>5, <2>1, <2>2, <2>3, NeedsAreFinite
<1>18. \A k \in Slots : ls[k].id # None => k = target \/ (k # target /\ js[k].id # None)
  BY <1>5
<1>19. CountsSound(ls)
  <2> SUFFICES ASSUME NEW k \in Slots, ls[k].id # None
               PROVE  ls[k].children = Cardinality(Kids(ls, k)) /\ ls[k].refs >= Needs(ls, k)
    BY DEF CountsSound
  <2>1. CASE k = target
    BY <1>4, <1>11, <1>15, <1>16, <2>1 DEF Bit
  <2>2. CASE k # target
    <3>1. js[k].id # None
      BY <1>5, <2>2
    <3>2. js[k].children = Cardinality(Kids(js, k)) /\ js[k].refs >= Needs(js, k)
      BY <3>1 DEF TreeInv, CountsSound
    <3> QED
      BY <1>11, <1>17, <2>2, <3>1, <3>2
  <2> QED
    BY <2>1, <2>2
<1>20. ASSUME Exact(js), \A i \in DOMAIN row : js[row[i]].id # None PROVE Exact(ls)
  <2> SUFFICES ASSUME NEW k \in Slots, ls[k].id # None PROVE ls[k].refs = Needs(ls, k)
    BY DEF Exact
  <2>1. CASE k = target
    <3>1. {i \in DOMAIN row : row[i] = target} = {}
      BY <1>20
    <3>2. Occurrences(row, target) = 0
      BY <3>1, FS_EmptySet DEF Occurrences
    <3> QED
      BY <1>4, <1>16, <2>1, <3>2 DEF Bit
  <2>2. CASE k # target
    <3>1. js[k].id # None
      BY <1>5, <2>2
    <3>2. js[k].refs = Needs(js, k)
      BY <1>20, <3>1 DEF Exact
    <3> QED
      BY <1>11, <1>17, <2>2, <3>1, <3>2
  <2> QED
    BY <2>1, <2>2
<1>21. \A t \in Slots : Terminal(ls[t]) <=> t # target /\ Terminal(js[t])
  BY <1>4, <1>5 DEF Terminal
<1>22. SlotsSound(ls)
  <2> SUFFICES ASSUME NEW t \in Slots
               PROVE  /\ ls[t].completed + ls[t].executing = ls[t].next /\ ls[t].next <= ls[t].count
                      /\ ls[t].id = None => ls[t].status = "none" /\ ls[t].executing = 0
                      /\ ls[t].id # None => ls[t].status # "none"
                      /\ Terminal(ls[t]) => ls[t].children = 0 /\ ls[t].executing = 0
    BY DEF SlotsSound
  <2>1. CASE t = target
    <3>1. n \in Nat
      BY CountsAreNaturals
    <3>2. 0 <= n
      BY <3>1
    <3> QED
      BY <1>2, <1>4, <1>21, <2>1, <3>2 DEF None
  <2>2. CASE t # target
    <3>1. /\ js[t].completed + js[t].executing = js[t].next /\ js[t].next <= js[t].count
          /\ js[t].id = None => js[t].status = "none" /\ js[t].executing = 0
          /\ js[t].id # None => js[t].status # "none"
          /\ Terminal(js[t]) => js[t].children = 0 /\ js[t].executing = 0
      BY DEF TreeInv, SlotsSound
    <3>2. Terminal(js[t]) => t # p
      BY DEF Open, Slots, None
    <3>3. Terminal(js[t]) => ls[t].children = 0
      BY <1>5, <2>2, <3>1, <3>2 DEF Bit
    <3> QED
      BY <1>5, <1>21, <2>2, <3>1, <3>3
  <2> QED
    BY <2>1, <2>2
<1>23. IdsSound(ls, m)
  <2> SUFFICES ASSUME NEW s \in Slots, ls[s].id # None
               PROVE  /\ ls[s].id \in 1..m /\ ls[s].result = ls[s].id /\ ls[s].parent < ls[s].id
                      /\ \A i \in DOMAIN ls[s].dependencies : ls[s].dependencies[i] < ls[s].id
                      /\ \A t \in Slots : ls[s].id = ls[t].id => s = t
    BY DEF IdsSound
  <2>1. CASE s = target
    <3>1. \A t \in Slots : t # target => js[t].id # m
      BY <1>2, <1>7 DEF None
    <3>2. \A t \in Slots : ls[s].id = ls[t].id => s = t
      BY <1>4, <1>5, <2>1, <3>1
    <3>3. ls[s].parent < m /\ m \in 1..m
      BY <1>4, <1>8, <2>1
    <3>4. \A i \in DOMAIN ls[s].dependencies : ls[s].dependencies[i] < m
      BY <1>4, <1>10, <1>12, <2>1
    <3> QED
      BY <1>4, <2>1, <3>2, <3>3, <3>4
  <2>2. CASE s # target
    <3>1. /\ js[s].id \in 1..serial /\ js[s].result = js[s].id /\ js[s].parent < js[s].id
          /\ \A i \in DOMAIN js[s].dependencies : js[s].dependencies[i] < js[s].id
      BY <1>5, <2>2 DEF TreeInv, IdsSound
    <3>2. \A t \in Slots : ls[s].id = ls[t].id => s = t
      BY <1>4, <1>5, <1>7, <1>9, <2>2
    <3>3. js[s].id \in 1..m
      BY <3>1
    <3> QED
      BY <1>5, <2>2, <3>1, <3>2, <3>3
  <2> QED
    BY <2>1, <2>2
<1>24. ParentsFound(ls)
  <2> SUFFICES ASSUME NEW s \in Slots, Open(ls[s]), ls[s].parent # None
               PROVE  \E t \in Slots : ls[t].id = ls[s].parent
    BY DEF ParentsFound
  <2>1. CASE s = target
    <3>1. p # None /\ p \in Slots /\ ls[p].id = js[p].id
      BY <1>2, <1>4, <1>5, <2>1
    <3> QED
      BY <1>4, <2>1, <3>1
  <2>2. CASE s # target
    <3>1. PICK t \in Slots : js[t].id = js[s].parent
      BY <1>5, <1>6, <2>2 DEF TreeInv, ParentsFound
    <3>2. t # target
      BY <1>5, <2>2, <3>1
    <3> QED
      BY <1>5, <2>2, <3>1, <3>2
  <2> QED
    BY <2>1, <2>2
<1>25. DependenciesFound(ls)
  <2> SUFFICES ASSUME NEW s \in Slots, Open(ls[s]), NEW i \in DOMAIN ls[s].dependencies,
                      ls[s].dependencies[i] # None
               PROVE  \E t \in Slots : /\ ls[t].id = ls[s].dependencies[i]
                                       /\ ls[s].executing > 0 => ls[t].status = "succeeded"
    BY DEF DependenciesFound
  <2>1. CASE s = target
    <3>1. row[i] \in Slots /\ row[i] # target /\ ls[s].dependencies[i] = js[row[i]].id
      BY <1>4, <1>10, <2>1
    <3>2. ~(ls[s].executing > 0)
      BY <1>4, <2>1
    <3>3. ls[row[i]].id = ls[s].dependencies[i]
      BY <1>5, <3>1
    <3> QED
      BY <3>1, <3>2, <3>3
  <2>2. CASE s # target
    <3>1. Open(js[s]) /\ ls[s].dependencies = js[s].dependencies /\ ls[s].executing = js[s].executing
      BY <1>5, <1>6, <2>2
    <3>2. PICK t \in Slots : /\ js[t].id = js[s].dependencies[i]
                             /\ js[s].executing > 0 => js[t].status = "succeeded"
      BY <2>2, <3>1 DEF TreeInv, DependenciesFound
    <3>3. t # target
      BY <3>1, <3>2
    <3> QED
      BY <1>5, <3>1, <3>2, <3>3
  <2> QED
    BY <2>1, <2>2
<1>26. BlameSound(ls)
  <2> SUFFICES ASSUME NEW s \in Slots, NEW t \in Slots, ls[s].id # None, ls[t].id # None,
                      ls[t].parent = ls[s].id, ls[t].status \in {"failed", "cancelled"}
               PROVE  ls[s].status # "succeeded" /\ (Open(ls[s]) => ls[s].cancel)
    BY DEF BlameSound
  <2>1. t # target
    BY <1>4
  <2>2. s # target
    BY <1>4, <1>5, <1>7, <2>1
  <2>3. /\ js[s].id # None /\ js[t].id # None /\ js[t].parent = js[s].id
        /\ js[t].status \in {"failed", "cancelled"}
    BY <1>5, <2>1, <2>2
  <2>4. js[s].status # "succeeded" /\ (Open(js[s]) => js[s].cancel)
    BY <2>3 DEF TreeInv, BlameSound
  <2> QED
    BY <1>5, <1>6, <2>2, <2>4
<1>27. SameExecuting(js, ks)
  <2>1. js[target].executing = 0
    BY DEF TreeInv, SlotsSound
  <2> QED
    BY <2>1 DEF SameExecuting, Stamps
<1>28. TreeInv(ls, m)
  BY <1>3, <1>19, <1>22, <1>23, <1>24, <1>25, <1>26 DEF TreeInv
<1>29. ks \in Tables /\ ks[target].id = None
  BY DEF Stamps
<1> QED
  BY <1>20, <1>27, <1>28, <1>29 DEF SoundAfter, ls

-----------------------------------------------------------------------------
(* The inductive invariant of the specification.                           *)

Labels ==
    {"ready", "look", "mark", "found", "checked", "verify", "idle", "scan", "park", "body",
     "thrown", "stamp", "join", "publish", "recheck"}

HostLabels == {"ready", "look", "mark", "found", "checked", "verify"}

InCall == {"stamp", "join", "publish", "recheck"}

TypesInv ==
    /\ jobs \in Tables /\ mutex \in Actors \cup {Free}
    /\ serial \in 0..MaxSerial /\ epoch \in 1..MaxEpoch /\ cursor \in Slots
    /\ fresh \in [Workers -> BOOLEAN] /\ pc \in [Actors -> Labels]
    /\ current \in [Actors -> Slots \cup {None}] /\ args \in [Actors -> Rows(Slots)]
    /\ asked \in [Actors -> Counts \cup {-1, 0}] /\ walk \in 1..(N + 1)
    /\ query \in [handle : 0..MaxSerial, slot : Slots \cup {None}, generation : 0..MaxEpoch,
                  result : 0..MaxSerial]

\* The holder of mutex is in a call; who runs a job is in its body.
ControlInv ==
    /\ \A a \in Actors : pc[a] \in InCall <=> mutex = a
    /\ current[Host] = None /\ pc[Host] \in HostLabels \cup InCall
    /\ \A w \in Workers : /\ pc[w] \notin HostLabels
                          /\ current[w] # None <=> pc[w] \in {"body", "thrown"} \cup InCall
    /\ pc[Host] \in {"look", "mark"} => epoch > 1
    /\ pc[Host] = "mark" => walk \in Slots

\* What a call in progress holds on to is still there.
CallInv(a) ==
    /\ pc[a] \in {"stamp", "join"} => serial < MaxSerial
    /\ pc[a] = "stamp" => /\ Vacancies(jobs) # {} /\ asked[a] \in Counts
                          /\ \A i \in DOMAIN args[a] : jobs[args[a][i]].id # None
    /\ pc[a] = "join" /\ epoch = 1 =>
         \A i \in DOMAIN args[a] : jobs[args[a][i]].id # None /\ ~jobs[args[a][i]].released
    /\ pc[a] = "publish" => serial > 0 /\ \E s \in Slots : args[a] = << s >> /\ jobs[s].id = None
    /\ pc[a] = "recheck" => \E s \in Slots : args[a] = << s >> /\ jobs[s].id # None

\* The table as it will be when the job that is being published has its id.
ViewOf(js, pcs, as, n) ==
    [s \in Slots |-> IF \E a \in Actors : pcs[a] = "publish" /\ as[a] = << s >>
                       THEN [js[s] EXCEPT !.id = n] ELSE js[s]]

View == ViewOf(jobs, pc, args, serial)

\* executing counts the workers in a body of the job.
Runners(s) == {w \in Workers : current[w] = s}

ExecInv == \A s \in Slots : jobs[s].executing = Cardinality(Runners(s))

\* A query under way has a handle that nobody is about to hand out again, and what it has
\* read under that handle is the handle's.
QueryInv ==
    /\ pc[Host] \in {"found", "checked", "verify"} =>
         /\ query.slot \in Slots /\ query.handle \in 1..serial
         /\ (\E a \in Actors : pc[a] = "publish") => query.handle # serial
    /\ pc[Host] = "verify" /\ jobs[query.slot].id = query.handle => query.result = query.handle

\* A job of an older epoch is marked, or in front of the reset, or about to be looked at again.
ResetInv ==
    \A s \in Slots :
        /\ jobs[s].epoch <= epoch
        /\ jobs[s].id # None /\ jobs[s].epoch < epoch =>
             \/ jobs[s].cancel /\ jobs[s].released
             \/ pc[Host] \in {"look", "mark"} /\ walk <= s
             \/ \E a \in Actors : pc[a] = "recheck" /\ args[a] = << s >>

TaskInv ==
    /\ TypesInv /\ ControlInv
    /\ \A a \in Actors : CallInv(a)
    /\ TreeInv(View, serial)
    /\ epoch = 1 => Exact(View)
    /\ ExecInv /\ QueryInv /\ ResetInv

-----------------------------------------------------------------------------
(* The table as it will be.                                                *)

\* With nobody publishing it is the table as it is.
LEMMA ViewAtRest ==
    ASSUME NEW js \in Tables, NEW pcs, NEW as, NEW n, \A a \in Actors : pcs[a] # "publish"
    PROVE  ViewOf(js, pcs, as, n) = js
BY DEF ViewOf, Tables

\* Otherwise one slot has its id already.
LEMMA ViewAhead ==
    ASSUME NEW js \in Tables, NEW pcs, NEW as, NEW n, NEW b \in Actors, NEW s \in Slots,
           pcs[b] = "publish", as[b] = << s >>, \A a \in Actors : pcs[a] = "publish" => a = b
    PROVE  ViewOf(js, pcs, as, n) = Named(js, s, n)
<1>1. \A t \in Slots : (\E a \in Actors : pcs[a] = "publish" /\ as[a] = << t >>) <=> t = s
  <2>1. \A t \in Slots : << t >> = << s >> => t = s
    OBVIOUS
  <2> QED
    BY <2>1
<1> QED
  BY <1>1 DEF ViewOf, Named, Tables

\* It depends on the publications only.
LEMMA SameView ==
    ASSUME NEW js, NEW pcs, NEW as, NEW qcs, NEW bs, NEW n,
           \A a \in Actors : /\ qcs[a] = "publish" <=> pcs[a] = "publish"
                             /\ pcs[a] = "publish" => bs[a] = as[a]
    PROVE  ViewOf(js, qcs, bs, n) = ViewOf(js, pcs, as, n)
<1>1. \A s \in Slots : (\E a \in Actors : qcs[a] = "publish" /\ bs[a] = << s >>)
                       <=> (\E a \in Actors : pcs[a] = "publish" /\ as[a] = << s >>)
  OBVIOUS
<1> QED
  BY <1>1 DEF ViewOf

\* Marks on the table are marks on it.
LEMMA MarkedView ==
    ASSUME NEW js \in Tables, NEW ks, Marked(js, ks), NEW pcs, NEW as, NEW n \in 0..MaxSerial
    PROVE  Marked(ViewOf(js, pcs, as, n), ViewOf(ks, pcs, as, n))
<1> DEFINE v == ViewOf(js, pcs, as, n)
           w == ViewOf(ks, pcs, as, n)
           P(s) == \E a \in Actors : pcs[a] = "publish" /\ as[a] = << s >>
<1>1. \A s \in Slots : js[s] \in JobRecord /\ ks[s] \in JobRecord
  BY DEF Marked, Tables
<1>2. \A s \in Slots : /\ P(s) => v[s] = [js[s] EXCEPT !.id = n] /\ w[s] = [ks[s] EXCEPT !.id = n]
                       /\ ~P(s) => v[s] = js[s] /\ w[s] = ks[s]
  BY DEF ViewOf
<1>3. w = [s \in Slots |-> w[s]]
  BY DEF ViewOf
<1> HIDE DEF v, w, P
<1>4. ASSUME NEW s \in Slots
      PROVE  /\ w[s] \in JobRecord
             /\ w[s].id = v[s].id /\ w[s].epoch = v[s].epoch
             /\ w[s].parent = v[s].parent /\ w[s].dependencies = v[s].dependencies
             /\ w[s].count = v[s].count /\ w[s].result = v[s].result
             /\ w[s].next = v[s].next /\ w[s].completed = v[s].completed
             /\ w[s].executing = v[s].executing /\ w[s].children = v[s].children
             /\ w[s].refs = v[s].refs /\ w[s].status = v[s].status
             /\ v[s].cancel => w[s].cancel
             /\ v[s].released => w[s].released
  <2>1. CASE ~P(s)
    <3>1. v[s] = js[s] /\ w[s] = ks[s]
      BY <1>2, <2>1
    <3> QED
      BY <1>1, <3>1 DEF Marked
  <2>2. CASE P(s)
    <3>1. v[s] = [js[s] EXCEPT !.id = n] /\ w[s] = [ks[s] EXCEPT !.id = n]
      BY <1>2, <2>2
    <3>2. w[s] \in JobRecord
      BY <1>1, <3>1 DEF JobRecord
    <3>3. /\ v[s].id = n /\ v[s].epoch = js[s].epoch
          /\ v[s].parent = js[s].parent /\ v[s].dependencies = js[s].dependencies
          /\ v[s].count = js[s].count /\ v[s].result = js[s].result
          /\ v[s].next = js[s].next /\ v[s].completed = js[s].completed
          /\ v[s].executing = js[s].executing /\ v[s].children = js[s].children
          /\ v[s].refs = js[s].refs /\ v[s].status = js[s].status
          /\ v[s].cancel = js[s].cancel /\ v[s].released = js[s].released
      BY <1>1, <3>1 DEF JobRecord
    <3>4. /\ w[s].id = n /\ w[s].epoch = ks[s].epoch
          /\ w[s].parent = ks[s].parent /\ w[s].dependencies = ks[s].dependencies
          /\ w[s].count = ks[s].count /\ w[s].result = ks[s].result
          /\ w[s].next = ks[s].next /\ w[s].completed = ks[s].completed
          /\ w[s].executing = ks[s].executing /\ w[s].children = ks[s].children
          /\ w[s].refs = ks[s].refs /\ w[s].status = ks[s].status
          /\ w[s].cancel = ks[s].cancel /\ w[s].released = ks[s].released
      BY <1>1, <3>1 DEF JobRecord
    <3> QED
      BY <3>2, <3>3, <3>4 DEF Marked
  <2> QED
    BY <2>1, <2>2
<1>5. w \in Tables
  BY <1>3, <1>4 DEF Tables
<1>6. Marked(v, w)
  BY <1>4, <1>5 DEF Marked
<1> QED
  BY <1>6 DEF v, w

-----------------------------------------------------------------------------
(* What the invariant says of a state.                                     *)

\* While nobody holds mutex, nobody publishes: the table is what it looks like.
LEMMA AtRest ==
    ASSUME TypesInv, ControlInv, \A a \in Actors : pc[a] # "publish"
    PROVE  View = jobs
BY ViewAtRest DEF View, TypesInv

\* Who runs a job keeps it from ending.
LEMMA RunnersKeepOpen ==
    ASSUME TypesInv, ExecInv, TreeInv(jobs, serial),
           NEW a \in Actors, current[a] # None, a # Host
    PROVE  /\ current[a] \in Slots /\ jobs[current[a]].executing > 0
           /\ Open(jobs[current[a]])
<1>1. a \in Workers /\ current[a] \in Slots
  BY DEF TypesInv, Actors
<1>2. a \in Runners(current[a]) /\ Runners(current[a]) \in SUBSET Workers
  BY <1>1 DEF Runners
<1>3. IsFiniteSet(Runners(current[a]))
  BY <1>2, ActorsAssumption, FS_Subset, Zenon
<1>4. Cardinality(Runners(current[a])) \in Nat /\ Cardinality(Runners(current[a])) # 0
  BY <1>2, <1>3, FS_CardinalityType, FS_EmptySet
<1>5. jobs[current[a]].executing > 0
  BY <1>1, <1>4 DEF ExecInv
<1>6. jobs[current[a]].id # None /\ ~Terminal(jobs[current[a]])
  BY <1>1, <1>5 DEF TreeInv, SlotsSound
<1> QED
  BY <1>1, <1>5, <1>6 DEF Open

\* No step but a publication gives a slot an id; what a handle names stays as it ended, and
\* marks stay; a slot is taken from an ended job only when the job was released, its parent
\* ends, or it is in R.
Stays(js, ks, e, R) ==
    \A t \in Slots :
        /\ ks[t].id # None =>
             /\ ks[t].id = js[t].id /\ ks[t].epoch = js[t].epoch /\ ks[t].result = js[t].result
             /\ Terminal(js[t]) => ks[t].status = js[t].status
             /\ js[t].cancel => ks[t].cancel
             /\ js[t].released => ks[t].released
        /\ ks[t].epoch \in {0, js[t].epoch, e}
        /\ Terminal(js[t]) /\ ks[t].id # js[t].id =>
             js[t].released \/ EndsIn(js, ks, js[t].parent) \/ t \in R

\* The queries and the reset go on over such a step.
LEMMA Onward ==
    ASSUME TypesInv, QueryInv, ResetInv, NEW R, Stays(jobs, jobs', epoch, R),
           UNCHANGED << epoch, query, walk >>, serial' \in {serial, serial + 1},
           pc'[Host] \in {"look", "mark", "found", "checked", "verify"} => pc'[Host] = pc[Host],
           pc[Host] \in {"look", "mark"} => pc'[Host] \in {"look", "mark"},
           \A a \in Actors : pc[a] = "recheck" => pc'[a] = "recheck" /\ args'[a] = args[a],
           \A a \in Actors : pc'[a] = "publish" =>
                (pc[a] = "publish" /\ serial' = serial) \/ serial' = serial + 1
    PROVE  QueryInv' /\ ResetInv'
<1>1. serial \in Nat /\ epoch \in Nat
  BY DEF TypesInv
<1>2. QueryInv'
  <2>1. ASSUME pc'[Host] \in {"found", "checked", "verify"}
        PROVE  /\ query'.slot \in Slots /\ query'.handle \in 1..serial'
               /\ (\E a \in Actors : pc'[a] = "publish") => query'.handle # serial'
    <3>1. /\ query.slot \in Slots /\ query.handle \in 1..serial
          /\ (\E a \in Actors : pc[a] = "publish") => query.handle # serial
      BY <2>1 DEF QueryInv
    <3>2. query.handle \in 1..serial' /\ query.handle # serial + 1
      BY <1>1, <3>1
    <3>3. (\E a \in Actors : pc'[a] = "publish") => query.handle # serial'
      BY <3>1, <3>2
    <3> QED
      BY <3>1, <3>2, <3>3
  <2>2. ASSUME pc'[Host] = "verify", jobs'[query'.slot].id = query'.handle
        PROVE  query'.result = query'.handle
    <3>1. query.slot \in Slots /\ query.handle \in 1..serial /\ query' = query /\ pc[Host] = "verify"
      BY <2>2 DEF QueryInv
    <3>2. query.handle # None
      BY <3>1 DEF None
    <3>3. jobs[query.slot].id = query.handle
      BY <2>2, <3>1, <3>2 DEF Stays
    <3> QED
      BY <3>1, <3>3 DEF QueryInv
  <2> QED
    BY <2>1, <2>2 DEF QueryInv
<1>3. ResetInv'
  <2> SUFFICES ASSUME NEW s \in Slots
               PROVE  /\ jobs'[s].epoch <= epoch'
                      /\ jobs'[s].id # None /\ jobs'[s].epoch < epoch' =>
                           \/ jobs'[s].cancel /\ jobs'[s].released
                           \/ pc'[Host] \in {"look", "mark"} /\ walk' <= s
                           \/ \E a \in Actors : pc'[a] = "recheck" /\ args'[a] = << s >>
    BY DEF ResetInv
  <2>1. jobs[s].epoch <= epoch /\ jobs'[s].epoch \in {0, jobs[s].epoch, epoch}
    BY DEF ResetInv, Stays
  <2>2. jobs'[s].epoch <= epoch'
    BY <1>1, <2>1
  <2>3. ASSUME jobs'[s].id # None, jobs'[s].epoch < epoch'
        PROVE  \/ jobs'[s].cancel /\ jobs'[s].released
               \/ pc'[Host] \in {"look", "mark"} /\ walk' <= s
               \/ \E a \in Actors : pc'[a] = "recheck" /\ args'[a] = << s >>
    <3>1. /\ jobs[s].id # None /\ jobs[s].epoch < epoch
          /\ jobs[s].cancel => jobs'[s].cancel
          /\ jobs[s].released => jobs'[s].released
      BY <2>3 DEF Stays
    <3>2. \/ jobs[s].cancel /\ jobs[s].released
          \/ pc[Host] \in {"look", "mark"} /\ walk <= s
          \/ \E a \in Actors : pc[a] = "recheck" /\ args[a] = << s >>
      BY <3>1 DEF ResetInv
    <3> QED
      BY <3>1, <3>2
  <2> QED
    BY <2>2, <2>3
<1> QED
  BY <1>2, <1>3

\* Nobody begins or ends an iteration.
LEMMA ExecStays ==
    ASSUME ExecInv, SameExecuting(jobs, jobs'), current' = current
    PROVE  ExecInv'
BY DEF ExecInv, SameExecuting, Runners

\* A kept table, collected or not, stays.
LEMMA KeptStays ==
    ASSUME NEW js, NEW ks, NEW e, Kept(js, ks)
    PROVE  Stays(js, ks, e, {}) /\ Stays(js, Collect(ks), e, {})
<1>1. Stays(js, ks, e, {})
  BY DEF Kept, Stays
<1>2. \A t \in Slots : Collect(ks)[t] = IF Collectable(ks[t]) THEN Vacant ELSE ks[t]
  BY DEF Collect
<1>3. Vacant.id = None /\ Vacant.epoch = 0
  BY DEF Vacant
<1>4. \A t \in Slots : Collectable(ks[t]) => ks[t].released
  BY DEF Collectable
<1>5. \A id : EndsIn(js, ks, id) => EndsIn(js, Collect(ks), id)
  BY <1>2, <1>3 DEF EndsIn, Open
<1>6. Stays(js, Collect(ks), e, {})
  BY <1>1, <1>2, <1>3, <1>4, <1>5 DEF Kept, Stays
<1> QED
  BY <1>1, <1>6

-----------------------------------------------------------------------------
(* Steps that only read the table.                                         *)

\* The table and the calls in progress are as before.
LEMMA QuietKeeps ==
    ASSUME TaskInv, UNCHANGED << jobs, mutex, serial, current, args, asked >>,
           \A a \in Actors : /\ pc'[a] \in InCall <=> pc[a] \in InCall
                             /\ pc[a] \in InCall => pc'[a] = pc[a],
           epoch' = 1 => epoch = 1
    PROVE  /\ \A a \in Actors : CallInv(a)'
           /\ TreeInv(View, serial)' /\ (epoch = 1 => Exact(View))' /\ ExecInv'
<1>1. \A a \in Actors : pc'[a] = pc[a] \/ (pc[a] \notin InCall /\ pc'[a] \notin InCall)
  OBVIOUS
<1>2. ASSUME NEW a \in Actors PROVE CallInv(a)'
  <2>1. CallInv(a)
    BY DEF TaskInv
  <2> QED
    BY <1>1, <2>1 DEF CallInv, InCall, Vacancies
<1>3. View' = View
  <2>1. ViewOf(jobs, pc', args, serial) = ViewOf(jobs, pc, args, serial)
    BY <1>1, SameView DEF InCall
  <2> QED
    BY <2>1 DEF View
<1>4. TreeInv(View', serial') /\ (epoch' = 1 => Exact(View'))
  BY <1>3 DEF TaskInv
<1>5. ExecInv'
  BY DEF TaskInv, ExecInv, Runners
<1> QED
  BY <1>2, <1>4, <1>5

\* A worker observes the generation.
LEMMA ObserveKeeps ==
    ASSUME TaskInv, NEW w \in Workers, Observe(w)
    PROVE  TaskInv'
<1>1. TypesInv /\ ControlInv /\ QueryInv /\ ResetInv /\ w \in Actors /\ w # Host
  BY ActorsAssumption DEF TaskInv, Actors
<1>2. /\ pc' = [pc EXCEPT ![w] = "scan"] /\ pc[w] \in {"idle", "park"}
      /\ fresh' = [fresh EXCEPT ![w] = FALSE]
      /\ UNCHANGED << jobs, mutex, serial, epoch, cursor, current, args, asked, walk, query >>
  BY DEF Observe, callVars
<1>3. \A a \in Actors : pc'[a] = IF a = w THEN "scan" ELSE pc[a]
  BY <1>1, <1>2 DEF TypesInv
<1>4. TypesInv'
  BY <1>1, <1>2 DEF TypesInv, Labels
<1>5. ControlInv'
  BY <1>1, <1>2, <1>3 DEF ControlInv, InCall, HostLabels, Actors
<1>6. \A a \in Actors : /\ pc'[a] \in InCall <=> pc[a] \in InCall
                        /\ pc[a] \in InCall => pc'[a] = pc[a]
  BY <1>2, <1>3 DEF InCall
<1>7. /\ \A a \in Actors : CallInv(a)'
      /\ TreeInv(View, serial)' /\ (epoch = 1 => Exact(View))' /\ ExecInv'
  BY <1>2, <1>6, QuietKeeps
<1>8. Stays(jobs, jobs', epoch, {})
  BY <1>2 DEF Stays
<1>9. QueryInv' /\ ResetInv'
  <2>1. pc'[Host] = pc[Host] /\ \A a \in Actors : pc[a] = "recheck" => pc'[a] = "recheck"
    BY <1>1, <1>2, <1>3 DEF Actors
  <2>2. \A a \in Actors : pc'[a] = "publish" => pc[a] = "publish"
    BY <1>3
  <2> QED
    BY <1>1, <1>2, <1>8, <2>1, <2>2, Onward
<1> QED
  BY <1>4, <1>5, <1>7, <1>9 DEF TaskInv

\* The host moves between its own places.
LEMMA HostMoves ==
    ASSUME TaskInv, NEW x \in HostLabels, pc[Host] \in HostLabels, pc' = [pc EXCEPT ![Host] = x],
           UNCHANGED << jobs, mutex, serial, cursor, current, args, asked >>,
           fresh' \in [Workers -> BOOLEAN], epoch' \in 1..MaxEpoch, walk' \in 1..(N + 1),
           query' \in [handle : 0..MaxSerial, slot : Slots \cup {None}, generation : 0..MaxEpoch,
                       result : 0..MaxSerial],
           epoch' = 1 => epoch = 1, x \in {"look", "mark"} => epoch' > 1,
           x = "mark" => walk' \in Slots, QueryInv', ResetInv'
    PROVE  TaskInv'
<1>1. TypesInv /\ ControlInv /\ Host \in Actors /\ Host \notin Workers
  BY ActorsAssumption DEF TaskInv, Actors
<1>2. \A a \in Actors : pc'[a] = IF a = Host THEN x ELSE pc[a]
  BY <1>1 DEF TypesInv
<1>3. TypesInv'
  BY <1>1 DEF TypesInv, Labels, HostLabels
<1>4. ControlInv'
  BY <1>1, <1>2 DEF ControlInv, InCall, HostLabels, Actors
<1>5. \A a \in Actors : /\ pc'[a] \in InCall <=> pc[a] \in InCall
                        /\ pc[a] \in InCall => pc'[a] = pc[a]
  BY <1>2 DEF InCall, HostLabels
<1>6. /\ \A a \in Actors : CallInv(a)'
      /\ TreeInv(View, serial)' /\ (epoch = 1 => Exact(View))' /\ ExecInv'
  BY <1>5, QuietKeeps
<1> QED
  BY <1>3, <1>4, <1>6 DEF TaskInv

\* A reset that only reads.
LEMMA ResetKeeps ==
    ASSUME TaskInv, ResetBegin \/ ResetPass \/ ResetLook \/ ResetEnd
    PROVE  TaskInv'
<1>1. /\ TypesInv /\ ControlInv /\ QueryInv /\ ResetInv /\ Host \in Actors /\ Host \notin Workers
      /\ N \in Nat
  BY ActorsAssumption, NAssumption DEF TaskInv, Actors
<1>2. /\ serial \in Nat /\ epoch \in 1..MaxEpoch /\ epoch \in Nat /\ walk \in 1..(N + 1)
      /\ MaxEpoch \in Nat
      /\ query \in [handle : 0..MaxSerial, slot : Slots \cup {None}, generation : 0..MaxEpoch,
                    result : 0..MaxSerial]
      /\ \A s \in Slots : jobs[s].epoch \in 0..MaxEpoch /\ s \in 1..N
  BY <1>1, BoundsAreNaturals DEF TypesInv, Tables, JobRecord, Slots
<1> DEFINE x == pc'[Host]
<1>3. /\ pc[Host] \in {"ready", "look"} /\ x \in {"ready", "look", "mark"}
      /\ pc' = [pc EXCEPT ![Host] = x]
      /\ UNCHANGED << jobs, mutex, serial, cursor, current, args, asked, query >>
      /\ fresh' \in [Workers -> BOOLEAN]
  <2>1. fresh \in [Workers -> BOOLEAN] /\ [w \in Workers |-> TRUE] \in [Workers -> BOOLEAN]
    BY <1>1 DEF TypesInv
  <2>2. pc \in [Actors -> Labels]
    BY <1>1 DEF TypesInv
  <2>3. pc = [pc EXCEPT ![Host] = pc[Host]]
    BY <2>2
  <2>4. CASE ResetBegin
    BY <1>1, <2>1, <2>2, <2>4 DEF ResetBegin, Goto, callVars
  <2>5. CASE ResetPass
    BY <2>1, <2>3, <2>5 DEF ResetPass, callVars
  <2>6. CASE ResetLook
    BY <1>1, <2>1, <2>2, <2>6 DEF ResetLook, Goto, callVars
  <2>7. CASE ResetEnd
    BY <1>1, <2>1, <2>2, <2>7 DEF ResetEnd, Goto, callVars, Signal
  <2> QED
    BY <2>4, <2>5, <2>6, <2>7
<1>4. \A a \in Actors : a # Host => pc'[a] = pc[a]
  BY <1>1, <1>3 DEF TypesInv
<1>5. /\ epoch' \in 1..MaxEpoch /\ walk' \in 1..(N + 1) /\ (epoch' = 1 => epoch = 1)
      /\ x \in {"look", "mark"} => epoch' > 1
      /\ x = "mark" => walk' \in Slots
  <2>1. CASE ResetBegin
    <3>1. epoch' = epoch + 1 /\ epoch < MaxEpoch /\ walk' = 1 /\ x = "look"
      BY <1>1, <2>1 DEF ResetBegin, Goto, TypesInv
    <3> QED
      BY <1>1, <1>2, <3>1
  <2>2. CASE ResetPass
    <3>1. epoch' = epoch /\ walk \in Slots /\ walk' = walk + 1 /\ x = "look" /\ pc[Host] = "look"
      BY <2>2 DEF ResetPass
    <3> QED
      BY <1>1, <1>2, <3>1 DEF ControlInv, Slots
  <2>3. CASE ResetLook
    <3>1. epoch' = epoch /\ walk \in Slots /\ walk' = walk /\ x = "mark" /\ pc[Host] = "look"
      BY <1>1, <2>3 DEF ResetLook, Goto, TypesInv
    <3> QED
      BY <1>1, <1>2, <3>1 DEF ControlInv
  <2>4. CASE ResetEnd
    <3>1. epoch' = epoch /\ walk' = 1 /\ x = "ready"
      BY <1>1, <2>4 DEF ResetEnd, Goto, TypesInv
    <3> QED
      BY <1>1, <1>2, <3>1
  <2> QED
    BY <2>1, <2>2, <2>3, <2>4
<1>6. QueryInv'
  BY <1>3 DEF QueryInv
<1>7. ResetInv'
  <2> SUFFICES ASSUME NEW s \in Slots
               PROVE  /\ jobs[s].epoch <= epoch'
                      /\ jobs[s].id # None /\ jobs[s].epoch < epoch' =>
                           \/ jobs[s].cancel /\ jobs[s].released
                           \/ pc'[Host] \in {"look", "mark"} /\ walk' <= s
                           \/ \E a \in Actors : pc'[a] = "recheck" /\ args[a] = << s >>
    BY <1>3 DEF ResetInv
  <2>1. /\ jobs[s].epoch <= epoch
        /\ jobs[s].id # None /\ jobs[s].epoch < epoch =>
             \/ jobs[s].cancel /\ jobs[s].released
             \/ pc[Host] \in {"look", "mark"} /\ walk <= s
             \/ \E a \in Actors : pc[a] = "recheck" /\ args[a] = << s >>
    BY <1>1 DEF ResetInv
  <2>2. (\E a \in Actors : pc[a] = "recheck" /\ args[a] = << s >>) =>
        (\E a \in Actors : pc'[a] = "recheck" /\ args[a] = << s >>)
    BY <1>3, <1>4
  <2>3. CASE ResetBegin
    <3>1. epoch' = epoch + 1 /\ walk' = 1 /\ x = "look"
      BY <1>1, <2>3 DEF ResetBegin, Goto, TypesInv
    <3>2. walk' <= s
      BY <1>2, <3>1
    <3> QED
      BY <1>2, <2>1, <3>1, <3>2
  <2>4. CASE ResetPass
    <3>1. /\ epoch' = epoch /\ walk \in Slots /\ walk' = walk + 1 /\ x = "look" /\ pc[Host] = "look"
          /\ jobs[walk].id = None \/ jobs[walk].epoch = epoch
      BY <2>4 DEF ResetPass
    <3>2. jobs[s].id # None /\ jobs[s].epoch < epoch => s # walk
      BY <1>2, <3>1
    <3>3. s # walk /\ walk <= s => walk' <= s
      BY <1>2, <3>1
    <3> QED
      BY <2>1, <2>2, <3>1, <3>2, <3>3
  <2>5. CASE ResetLook
    <3>1. epoch' = epoch /\ walk' = walk /\ x = "mark" /\ pc[Host] = "look"
      BY <1>1, <2>5 DEF ResetLook, Goto, TypesInv
    <3> QED
      BY <2>1, <2>2, <3>1
  <2>6. CASE ResetEnd
    <3>1. epoch' = epoch /\ walk = N + 1
      BY <2>6 DEF ResetEnd
    <3>2. ~(walk <= s)
      BY <1>1, <1>2, <3>1
    <3> QED
      BY <2>1, <2>2, <3>1, <3>2
  <2> QED
    BY <2>3, <2>4, <2>5, <2>6
<1>8. x \in HostLabels /\ pc[Host] \in HostLabels
  BY <1>3 DEF HostLabels
<1>9. query' \in [handle : 0..MaxSerial, slot : Slots \cup {None}, generation : 0..MaxEpoch,
                  result : 0..MaxSerial]
  BY <1>2, <1>3
<1> HIDE DEF x
<1> QED
  BY <1>3, <1>5, <1>6, <1>7, <1>8, <1>9, HostMoves

\* Only one slot can be without its id as yet.
LEMMA Publisher ==
    ASSUME TaskInv, NEW b \in Actors, pc[b] = "publish"
    PROVE  /\ \A a \in Actors : pc[a] = "publish" => a = b
           /\ \E t \in Slots : /\ args[b] = << t >> /\ jobs[t].id = None
                               /\ View = Named(jobs, t, serial)
<1>1. TypesInv /\ ControlInv /\ CallInv(b)
  BY DEF TaskInv
<1>2. \A a \in Actors : pc[a] = "publish" => a = b
  BY <1>1 DEF ControlInv, InCall
<1>3. PICK t \in Slots : args[b] = << t >> /\ jobs[t].id = None
  BY <1>1 DEF CallInv
<1>4. jobs \in Tables
  BY <1>1 DEF TypesInv
<1>5. View = Named(jobs, t, serial)
  BY <1>2, <1>3, <1>4, ViewAhead DEF View
<1> QED
  BY <1>2, <1>3, <1>5

\* A live slot looks like what it is; its id is one that was handed out before.
LEMMA LiveInView ==
    ASSUME TaskInv, NEW s \in Slots, jobs[s].id # None
    PROVE  /\ View[s] = jobs[s] /\ jobs[s].id \in 1..serial /\ jobs[s].result = jobs[s].id
           /\ (\E a \in Actors : pc[a] = "publish") => jobs[s].id # serial
           /\ \A t \in Slots : jobs[t].id # None => View[t] = jobs[t]
<1>1. jobs \in Tables /\ TypesInv /\ ControlInv /\ TreeInv(View, serial)
  BY DEF TaskInv, TypesInv
<1>2. CASE \A a \in Actors : pc[a] # "publish"
  <2>1. View = jobs
    BY <1>1, <1>2, AtRest
  <2> QED
    BY <1>1, <1>2, <2>1 DEF TreeInv, IdsSound
<1>3. CASE \E a \in Actors : pc[a] = "publish"
  <2>1. PICK b \in Actors : pc[b] = "publish"
    BY <1>3
  <2>2. PICK u \in Slots : jobs[u].id = None /\ View = Named(jobs, u, serial)
    BY <2>1, Publisher
  <2>3. \A t \in Slots : t # u => View[t] = jobs[t]
    BY <1>1, <2>2 DEF Named, Tables
  <2>4. View[u].id = serial
    <3>1. jobs[u] \in JobRecord /\ View[u] = [jobs[u] EXCEPT !.id = serial]
      BY <1>1, <2>2 DEF Named, Tables
    <3> QED
      BY <3>1 DEF JobRecord
  <2>5. s # u
    BY <2>2
  <2>6. jobs[s].id \in 1..serial /\ jobs[s].result = jobs[s].id
    BY <1>1, <2>3, <2>5 DEF TreeInv, IdsSound
  <2>7. jobs[s].id # serial
    BY <1>1, <2>3, <2>4, <2>5 DEF TreeInv, IdsSound
  <2> QED
    BY <2>2, <2>3, <2>5, <2>6, <2>7
<1> QED
  BY <1>2, <1>3

\* A query.
LEMMA QueryKeeps ==
    ASSUME TaskInv, (\E h \in Names(Host) : QueryFind(h)) \/ Query
    PROVE  TaskInv'
<1>1. TypesInv /\ ControlInv /\ QueryInv /\ ResetInv /\ Host \in Actors /\ Host \notin Workers
  BY ActorsAssumption DEF TaskInv, Actors
<1>2. /\ serial \in 0..MaxSerial /\ epoch \in 1..MaxEpoch /\ epoch \in 0..MaxEpoch
      /\ walk \in 1..(N + 1) /\ fresh \in [Workers -> BOOLEAN]
      /\ query \in [handle : 0..MaxSerial, slot : Slots \cup {None}, generation : 0..MaxEpoch,
                    result : 0..MaxSerial]
      /\ \A s \in Slots : jobs[s].result \in 0..MaxSerial
  <2>1. \A s \in Slots : jobs[s].result \in 0..MaxSerial
    BY <1>1 DEF TypesInv, Tables, JobRecord
  <2> QED
    BY <1>1, <2>1, BoundsAreNaturals DEF TypesInv
<1>3. /\ NoQuery \in [handle : 0..MaxSerial, slot : Slots \cup {None}, generation : 0..MaxEpoch,
                      result : 0..MaxSerial]
      /\ NoQuery.slot = None
  BY BoundsAreNaturals DEF NoQuery, None
<1> DEFINE x == pc'[Host]
<1>4. /\ pc[Host] \in {"ready", "found", "checked", "verify"}
      /\ x \in {"ready", "found", "checked", "verify"}
      /\ pc' = [pc EXCEPT ![Host] = x]
      /\ UNCHANGED << jobs, mutex, serial, epoch, cursor, fresh, current, args, asked, walk >>
  <2>1. pc \in [Actors -> Labels]
    BY <1>1 DEF TypesInv
  <2> QED
    BY <1>1, <2>1 DEF QueryFind, Query, QueryInvalid, QueryCheck, QueryResult, QueryEnd, Goto, callVars
<1>5. \A a \in Actors : a # Host => pc'[a] = pc[a]
  BY <1>1, <1>4 DEF TypesInv
<1>6. (\E a \in Actors : pc'[a] = "publish") => (\E a \in Actors : pc[a] = "publish")
  BY <1>4, <1>5
<1>7. /\ QueryInv'
      /\ query' \in [handle : 0..MaxSerial, slot : Slots \cup {None}, generation : 0..MaxEpoch,
                     result : 0..MaxSerial]
  <2>1. CASE \E h \in Names(Host) : QueryFind(h)
    <3>1. PICK h \in Names(Host) : QueryFind(h)
      BY <2>1
    <3>2. PICK s \in Find(jobs, h) : query' = [NoQuery EXCEPT !.handle = h, !.slot = s]
      BY <3>1 DEF QueryFind
    <3>3. x = "found" /\ h \in 1..serial
      BY <1>1, <3>1 DEF QueryFind, Goto, TypesInv, Names
    <3>4. s \in Slots /\ jobs[s].id = h /\ h # None
      BY <3>2, <3>3 DEF Find, None
    <3>5. (\E a \in Actors : pc[a] = "publish") => h # serial
      BY <3>4, LiveInView
    <3>6. /\ query'.handle = h /\ query'.slot = s
          /\ query' = [handle |-> h, slot |-> s, generation |-> 0, result |-> None]
      BY <3>2 DEF NoQuery
    <3>7. h \in 0..MaxSerial /\ 0 \in 0..MaxEpoch /\ None \in 0..MaxSerial
      BY <1>2, <3>3, BoundsAreNaturals DEF None
    <3> QED
      BY <1>4, <1>6, <3>3, <3>4, <3>5, <3>6, <3>7 DEF QueryInv
  <2>2. CASE QueryInvalid \/ QueryEnd
    <3>1. x = "ready" /\ query' = NoQuery
      BY <1>1, <2>2 DEF QueryInvalid, QueryEnd, Goto, TypesInv
    <3> QED
      BY <1>3, <3>1 DEF QueryInv
  <2>3. CASE QueryCheck
    <3>1. pc[Host] = "found" /\ x = "checked" /\ query' = [query EXCEPT !.generation = epoch]
      BY <1>1, <2>3 DEF QueryCheck, Goto, TypesInv
    <3>2. query'.slot = query.slot /\ query'.handle = query.handle
      BY <1>2, <3>1
    <3>3. query' \in [handle : 0..MaxSerial, slot : Slots \cup {None}, generation : 0..MaxEpoch,
                      result : 0..MaxSerial]
      BY <1>2, <3>1
    <3> QED
      BY <1>1, <1>4, <1>6, <3>1, <3>2, <3>3 DEF QueryInv
  <2>4. CASE QueryResult
    <3>1. /\ pc[Host] = "checked" /\ x = "verify"
          /\ query' = [query EXCEPT !.result = jobs[query.slot].result]
      BY <1>1, <2>4 DEF QueryResult, Goto, TypesInv
    <3>2. query.slot \in Slots /\ query.handle \in 1..serial
      BY <1>1, <3>1 DEF QueryInv
    <3> DEFINE r == jobs[query.slot].result
    <3>3. r \in 0..MaxSerial
      BY <1>2, <3>2
    <3>4. jobs[query.slot].id = query.handle => r = query.handle
      <4>1. query.handle # None
        BY <3>2 DEF None
      <4> QED
        BY <3>2, <4>1, LiveInView
    <3> HIDE DEF r
    <3>5. /\ query'.slot = query.slot /\ query'.handle = query.handle /\ query'.result = r
          /\ query' \in [handle : 0..MaxSerial, slot : Slots \cup {None}, generation : 0..MaxEpoch,
                         result : 0..MaxSerial]
      <4>1. query' = [query EXCEPT !.result = r]
        BY <3>1 DEF r
      <4> QED
        BY <1>2, <3>3, <4>1
    <3> QED
      BY <1>1, <1>4, <1>6, <3>1, <3>4, <3>5 DEF QueryInv
  <2> QED
    BY <2>1, <2>2, <2>3, <2>4 DEF Query
<1>8. ResetInv'
  <2>1. pc[Host] \notin {"look", "mark"}
    BY <1>4
  <2>2. \A a \in Actors : pc[a] = "recheck" => pc'[a] = "recheck"
    BY <1>4, <1>5
  <2> QED
    BY <1>1, <1>4, <2>1, <2>2 DEF ResetInv
<1>9. x \in HostLabels /\ pc[Host] \in HostLabels /\ x \notin {"look", "mark"}
  BY <1>4 DEF HostLabels
<1> HIDE DEF x
<1> QED
  BY <1>2, <1>4, <1>7, <1>8, <1>9, HostMoves

-----------------------------------------------------------------------------
(* Steps that mark jobs without mutex.                                     *)

\* Marks alone change neither the tree nor the calls in progress.
LEMMA MarksKeep ==
    ASSUME TaskInv, Marked(jobs, jobs'), UNCHANGED << mutex, serial, epoch, current, args, asked >>,
           \A a \in Actors : /\ pc'[a] \in InCall <=> pc[a] \in InCall
                             /\ pc[a] \in InCall => pc'[a] = pc[a],
           epoch = 1 => \A t \in Slots : jobs'[t].released => jobs[t].released
    PROVE  /\ jobs' \in Tables /\ \A a \in Actors : CallInv(a)'
           /\ TreeInv(View, serial)' /\ (epoch = 1 => Exact(View))' /\ ExecInv'
           /\ Stays(jobs, jobs', epoch, {})
<1>1. TypesInv /\ TreeInv(View, serial) /\ (epoch = 1 => Exact(View)) /\ ExecInv
      /\ jobs \in Tables /\ serial \in 0..MaxSerial
  BY DEF TaskInv, TypesInv
<1>2. \A a \in Actors : pc'[a] = pc[a] \/ (pc[a] \notin InCall /\ pc'[a] \notin InCall)
  OBVIOUS
<1>3. \A t \in Slots : jobs'[t].id = jobs[t].id
  BY DEF Marked
<1>4. ASSUME NEW a \in Actors PROVE CallInv(a)'
  <2>1. CallInv(a) /\ args[a] \in Rows(Slots)
    BY <1>1 DEF TaskInv, TypesInv
  <2>2. \A i \in DOMAIN args[a] : args[a][i] \in Slots
    BY <2>1, RowFacts
  <2>3. Vacancies(jobs') = Vacancies(jobs)
    BY <1>3 DEF Vacancies
  <2>4. CASE pc'[a] = pc[a]
    BY <1>3, <2>1, <2>2, <2>3, <2>4 DEF CallInv
  <2>5. CASE pc'[a] \notin InCall
    BY <2>5 DEF CallInv, InCall
  <2> QED
    BY <1>2, <2>4, <2>5
<1>5. ViewOf(jobs', pc', args', serial') = ViewOf(jobs', pc, args, serial)
  BY <1>2, SameView DEF InCall
<1>6. Marked(View, ViewOf(jobs', pc, args, serial))
  BY <1>1, MarkedView DEF View
<1>7. /\ TreeInv(ViewOf(jobs', pc, args, serial), serial)
      /\ Exact(View) => Exact(ViewOf(jobs', pc, args, serial))
  BY <1>1, <1>6, MarkedKeeps
<1>8. TreeInv(View, serial)' /\ (epoch = 1 => Exact(View))'
  BY <1>1, <1>5, <1>7 DEF View
<1>9. ExecInv'
  BY <1>1 DEF Marked, ExecInv, Runners
<1>10. Stays(jobs, jobs', epoch, {})
  BY DEF Marked, Stays
<1> QED
  BY <1>4, <1>8, <1>9, <1>10 DEF Marked

FailAt(js, s, f) == [js EXCEPT ![s].failed = f, ![s].cancel = TRUE]

\* A job is made to fail.
LEMMA FailMarks ==
    ASSUME NEW js \in Tables, NEW s \in Slots, NEW f \in BOOLEAN
    PROVE  /\ Flagged(js, FailAt(js, s, f))
           /\ \A t \in Slots : FailAt(js, s, f)[t].released = js[t].released
<1> DEFINE j == js[s]
           ks == FailAt(js, s, f)
<1>1. j \in JobRecord
  BY DEF Tables
<1>2. j.bodyDone \in BOOLEAN /\ j.released \in BOOLEAN
  BY <1>1 DEF JobRecord
<1>3. [j EXCEPT !.failed = f, !.cancel = TRUE] =
      [j EXCEPT !.bodyDone = j.bodyDone, !.cancel = TRUE, !.failed = f, !.released = j.released]
  BY <1>1 DEF JobRecord
<1>4. ks = MarkAt(js, s, j.bodyDone, TRUE, f, j.released)
  BY <1>3 DEF Tables, FailAt, MarkAt
<1> HIDE DEF ks
<1>5. \A t \in Slots : ks[t].released = js[t].released
  BY <1>1, <1>4 DEF Tables, JobRecord, MarkAt
<1>6. Flagged(js, ks)
  BY <1>2, <1>4, MarkOne
<1> QED
  BY <1>5, <1>6 DEF ks

\* A refusal marks the job that asked.
LEMMA RejectedMarks ==
    ASSUME NEW js \in Tables, NEW a, current[a] \in Slots \cup {None}
    PROVE  /\ Flagged(js, Rejected(js, a))
           /\ \A t \in Slots : Rejected(js, a)[t].released = js[t].released
<1>1. CASE current[a] = None
  BY <1>1 DEF Rejected, Flagged, Marked
<1>2. CASE current[a] # None
  <2> DEFINE s == current[a]
             f == js[s].failed \/ ~Cancelled(js, s)
  <2>1. s \in Slots /\ js[s] \in JobRecord
    BY <1>2 DEF Tables
  <2>2. f \in BOOLEAN
    BY <2>1 DEF JobRecord
  <2>3. Rejected(js, a) = FailAt(js, s, f)
    BY <1>2, <2>1 DEF Rejected, Tables, FailAt
  <2> HIDE DEF f
  <2> QED
    BY <2>1, <2>2, <2>3, FailMarks
<1> QED
  BY <1>1, <1>2

\* What a body does by itself to the table.
LEMMA BodyFlags ==
    ASSUME TaskInv, NEW w \in Workers, BodyThrow(w) \/ Checkpoint(w) \/ BodyReject(w)
    PROVE  Flagged(jobs, jobs') /\ \A t \in Slots : jobs'[t].released = jobs[t].released
<1> DEFINE s == current[w]
           j == jobs[s]
<1>1. TypesInv /\ ControlInv /\ w \in Actors
  BY DEF TaskInv, Actors
<1>2. s \in Slots /\ jobs \in Tables /\ j \in JobRecord /\ s \in Slots \cup {None}
  BY <1>1 DEF BodyThrow, Checkpoint, BodyReject, Goto, ControlInv, TypesInv, Tables
<1>3. j.failed \in BOOLEAN
  BY <1>2 DEF JobRecord
<1>4. CASE BodyReject(w)
  <2>1. jobs' = Rejected(jobs, w)
    BY <1>4 DEF BodyReject
  <2> QED
    BY <1>2, <2>1, RejectedMarks
<1>5. ASSUME NEW f \in BOOLEAN, jobs' = FailAt(jobs, s, f)
      PROVE  Flagged(jobs, jobs') /\ \A t \in Slots : jobs'[t].released = jobs[t].released
  BY <1>2, <1>5, FailMarks
<1>6. CASE BodyThrow(w)
  <2>1. jobs' = FailAt(jobs, s, TRUE)
    BY <1>6 DEF BodyThrow, FailAt
  <2> QED
    BY <1>5, <2>1
<1>7. CASE Checkpoint(w)
  <2>1. jobs' = [jobs EXCEPT ![s].cancel = TRUE]
    BY <1>7 DEF Checkpoint
  <2>2. [j EXCEPT !.cancel = TRUE] = [j EXCEPT !.failed = j.failed, !.cancel = TRUE]
    BY <1>2 DEF JobRecord
  <2>3. jobs' = FailAt(jobs, s, j.failed)
    BY <1>2, <2>1, <2>2 DEF Tables, FailAt
  <2> QED
    BY <1>3, <1>5, <2>3
<1> QED
  BY <1>4, <1>6, <1>7

\* What a body does by itself.
LEMMA BodyMarks ==
    ASSUME TaskInv, NEW w \in Workers, BodyThrow(w) \/ Checkpoint(w) \/ BodyReject(w)
    PROVE  TaskInv' /\ Stays(jobs, jobs', epoch, {})
<1>1. TypesInv /\ ControlInv /\ QueryInv /\ ResetInv /\ w \in Actors /\ w # Host
  BY ActorsAssumption DEF TaskInv, Actors
<1>2. pc[w] = "body" /\ current[w] \in Slots /\ jobs \in Tables /\ jobs[current[w]] \in JobRecord
  BY <1>1 DEF BodyThrow, Checkpoint, BodyReject, Goto, ControlInv, TypesInv, Tables
<1>3. /\ UNCHANGED << mutex, serial, epoch, cursor, fresh, current, args, asked, walk, query >>
      /\ pc' = pc \/ pc' = [pc EXCEPT ![w] = "thrown"]
  BY DEF BodyThrow, Checkpoint, BodyReject, Goto, callVars
<1>4. Marked(jobs, jobs') /\ \A t \in Slots : jobs'[t].released = jobs[t].released
  BY BodyFlags DEF Flagged
<1>5. \A a \in Actors : /\ a # w => pc'[a] = pc[a]
                        /\ a = w => pc'[a] \in {"body", "thrown"}
  BY <1>1, <1>2, <1>3 DEF TypesInv
<1>6. \A a \in Actors : /\ pc'[a] \in InCall <=> pc[a] \in InCall
                        /\ pc[a] \in InCall => pc'[a] = pc[a]
  BY <1>2, <1>5 DEF InCall
<1>7. /\ jobs' \in Tables /\ \A a \in Actors : CallInv(a)'
      /\ TreeInv(View, serial)' /\ (epoch = 1 => Exact(View))' /\ ExecInv'
      /\ Stays(jobs, jobs', epoch, {})
  BY <1>3, <1>4, <1>6, MarksKeep
<1>8. TypesInv'
  BY <1>1, <1>3, <1>7 DEF TypesInv, Labels
<1>9. ControlInv'
  BY <1>1, <1>2, <1>3, <1>5 DEF ControlInv, InCall, HostLabels, Actors
<1>10. QueryInv' /\ ResetInv'
  <2>1. pc'[Host] = pc[Host] /\ \A a \in Actors : pc[a] = "recheck" => pc'[a] = "recheck"
    BY <1>1, <1>2, <1>5 DEF Actors
  <2>2. \A a \in Actors : pc'[a] = "publish" => pc[a] = "publish"
    BY <1>5
  <2> QED
    BY <1>1, <1>3, <1>7, <2>1, <2>2, Onward
<1> QED
  BY <1>7, <1>8, <1>9, <1>10 DEF TaskInv

\* What a reset does to the table.
LEMMA ResetFlags ==
    ASSUME TaskInv, ResetMark
    PROVE  Flagged(jobs, jobs') /\ jobs'[walk].cancel /\ jobs'[walk].released
<1> DEFINE j == jobs[walk]
<1>1. /\ walk \in Slots /\ jobs \in Tables /\ j \in JobRecord
      /\ jobs' = [jobs EXCEPT ![walk].cancel = TRUE, ![walk].released = TRUE]
  BY DEF ResetMark, Goto, TaskInv, ControlInv, TypesInv, Tables
<1>2. j.failed \in BOOLEAN /\ j.bodyDone \in BOOLEAN
  BY <1>1 DEF JobRecord
<1>3. [j EXCEPT !.cancel = TRUE, !.released = TRUE] =
      [j EXCEPT !.bodyDone = j.bodyDone, !.cancel = TRUE, !.failed = j.failed, !.released = TRUE]
  BY <1>1 DEF JobRecord
<1>4. jobs' = MarkAt(jobs, walk, j.bodyDone, TRUE, j.failed, TRUE)
  BY <1>1, <1>3 DEF Tables, MarkAt
<1>5. Flagged(jobs, jobs')
  <2>1. Flagged(jobs, MarkAt(jobs, walk, j.bodyDone, TRUE, j.failed, TRUE))
    BY <1>1, <1>2, MarkOne
  <2> QED
    BY <1>4, <2>1
<1>6. jobs'[walk].cancel /\ jobs'[walk].released
  BY <1>1 DEF Tables, JobRecord
<1> QED
  BY <1>5, <1>6

\* A reset marks a job, or a slot that is no longer that of the job.
LEMMA ResetMarks ==
    ASSUME TaskInv, ResetMark
    PROVE  TaskInv' /\ Stays(jobs, jobs', epoch, {})
<1>1. TypesInv /\ ControlInv /\ QueryInv /\ ResetInv /\ Host \in Actors /\ Host \notin Workers
  BY ActorsAssumption DEF TaskInv, Actors
<1>2. /\ pc[Host] = "mark" /\ walk \in Slots /\ epoch > 1 /\ jobs \in Tables
      /\ jobs[walk] \in JobRecord
  BY <1>1 DEF ResetMark, Goto, ControlInv, TypesInv, Tables
<1>3. /\ UNCHANGED << mutex, serial, epoch, cursor, fresh, current, args, asked, query >>
      /\ pc' = [pc EXCEPT ![Host] = "look"] /\ walk' = walk + 1
      /\ jobs' = [jobs EXCEPT ![walk].cancel = TRUE, ![walk].released = TRUE]
  BY DEF ResetMark, Goto, callVars
<1>4. Marked(jobs, jobs') /\ jobs'[walk].cancel /\ jobs'[walk].released
  BY ResetFlags DEF Flagged
<1>5. \A a \in Actors : pc'[a] = IF a = Host THEN "look" ELSE pc[a]
  BY <1>1, <1>3 DEF TypesInv
<1>6. \A a \in Actors : /\ pc'[a] \in InCall <=> pc[a] \in InCall
                        /\ pc[a] \in InCall => pc'[a] = pc[a]
  BY <1>2, <1>5 DEF InCall
<1>7. /\ jobs' \in Tables /\ \A a \in Actors : CallInv(a)'
      /\ TreeInv(View, serial)' /\ (epoch = 1 => Exact(View))' /\ ExecInv'
      /\ Stays(jobs, jobs', epoch, {})
  BY <1>2, <1>3, <1>4, <1>6, MarksKeep
<1>8. N \in Nat /\ walk' \in 1..(N + 1) /\ \A s \in Slots : s \in 1..N
  BY <1>2, <1>3, NAssumption DEF Slots
<1>9. TypesInv'
  BY <1>1, <1>3, <1>7, <1>8 DEF TypesInv, Labels
<1>10. ControlInv'
  BY <1>1, <1>2, <1>3, <1>5 DEF ControlInv, InCall, HostLabels, Actors
<1>11. QueryInv'
  BY <1>1, <1>5 DEF QueryInv
<1>12. ResetInv'
  <2> SUFFICES ASSUME NEW s \in Slots
               PROVE  /\ jobs'[s].epoch <= epoch
                      /\ jobs'[s].id # None /\ jobs'[s].epoch < epoch =>
                           \/ jobs'[s].cancel /\ jobs'[s].released
                           \/ pc'[Host] \in {"look", "mark"} /\ walk' <= s
                           \/ \E a \in Actors : pc'[a] = "recheck" /\ args[a] = << s >>
    BY <1>3 DEF ResetInv
  <2>1. /\ jobs[s].epoch <= epoch
        /\ jobs[s].id # None /\ jobs[s].epoch < epoch =>
             \/ jobs[s].cancel /\ jobs[s].released
             \/ pc[Host] \in {"look", "mark"} /\ walk <= s
             \/ \E a \in Actors : pc[a] = "recheck" /\ args[a] = << s >>
    BY <1>1 DEF ResetInv
  <2>2. /\ jobs'[s].epoch = jobs[s].epoch /\ jobs'[s].id = jobs[s].id
        /\ jobs[s].cancel => jobs'[s].cancel
        /\ jobs[s].released => jobs'[s].released
    BY <1>4 DEF Marked
  <2>3. \A a \in Actors : pc[a] = "recheck" => pc'[a] = "recheck"
    BY <1>2, <1>5
  <2>4. s = walk \/ (walk <= s => walk' <= s)
    BY <1>2, <1>3, <1>8
  <2>5. pc'[Host] = "look"
    BY <1>1, <1>5
  <2> QED
    BY <1>4, <2>1, <2>2, <2>3, <2>4, <2>5
<1> QED
  BY <1>7, <1>9, <1>10, <1>11, <1>12 DEF TaskInv

-----------------------------------------------------------------------------
(* Steps under mutex that begin and end in one piece.                      *)

\* Who finds mutex free finds the table at rest.
LEMMA MutexFree ==
    ASSUME TaskInv, mutex = Free
    PROVE  /\ \A a \in Actors : pc[a] \notin InCall
           /\ View = jobs /\ jobs \in Tables /\ TreeInv(jobs, serial) /\ (epoch = 1 => Exact(jobs))
<1>1. TypesInv /\ ControlInv /\ TreeInv(View, serial) /\ (epoch = 1 => Exact(View))
  BY DEF TaskInv
<1>2. \A a \in Actors : pc[a] \notin InCall
  BY <1>1, ActorsAssumption DEF ControlInv, Actors, Free
<1>3. View = jobs
  BY <1>1, <1>2, AtRest DEF InCall
<1> QED
  BY <1>1, <1>2, <1>3 DEF TypesInv

\* Who leaves it free leaves it so.
LEMMA LeftAtRest ==
    ASSUME jobs' \in Tables, \A a \in Actors : pc'[a] \notin InCall,
           TreeInv(jobs', serial'), epoch' = 1 => Exact(jobs')
    PROVE  /\ \A a \in Actors : CallInv(a)'
           /\ TreeInv(View, serial)' /\ (epoch = 1 => Exact(View))'
<1>1. ViewOf(jobs', pc', args', serial') = jobs'
  BY ViewAtRest DEF InCall
<1>2. \A a \in Actors : CallInv(a)'
  BY DEF CallInv, InCall
<1> QED
  BY <1>1, <1>2 DEF View

\* Runners come and go one by one.
LEMMA RunnersMove ==
    ASSUME TypesInv, NEW w \in Workers, NEW p \in Slots
    PROVE  /\ current[w] = None /\ current' = [current EXCEPT ![w] = p] =>
                \A s \in Slots : Cardinality(Runners(s)') = Cardinality(Runners(s)) + Bit(s = p)
           /\ current[w] = p /\ current' = [current EXCEPT ![w] = None] =>
                \A s \in Slots : Cardinality(Runners(s)') = Cardinality(Runners(s)) - Bit(s = p)
<1>1. current \in [Actors -> Slots \cup {None}] /\ w \in Actors /\ None \notin Slots
  BY DEF TypesInv, Actors, None, Slots
<1>2. \A s : IsFiniteSet(Runners(s)) /\ Cardinality(Runners(s)) \in Nat
  <2> TAKE s
  <2>1. Runners(s) \in SUBSET Workers
    BY DEF Runners
  <2>2. IsFiniteSet(Runners(s))
    BY <2>1, ActorsAssumption, FS_Subset, Zenon
  <2> QED
    BY <2>2, FS_CardinalityType
<1>3. ASSUME current[w] = None, current' = [current EXCEPT ![w] = p], NEW s \in Slots
      PROVE  Cardinality(Runners(s)') = Cardinality(Runners(s)) + Bit(s = p)
  <2>1. \A v \in Workers : current'[v] = IF v = w THEN p ELSE current[v]
    BY <1>1, <1>3 DEF Actors
  <2>2. CASE s = p
    <3>1. Runners(s)' = Runners(s) \cup {w} /\ w \notin Runners(s)
      BY <1>1, <1>3, <2>1, <2>2 DEF Runners
    <3>2. Cardinality(Runners(s) \cup {w}) = Cardinality(Runners(s)) + 1
      BY <1>2, <3>1, FS_AddElement, Zenon
    <3> QED
      BY <2>2, <3>1, <3>2 DEF Bit
  <2>3. CASE s # p
    <3>1. Runners(s)' = Runners(s)
      BY <1>1, <1>3, <2>1, <2>3 DEF Runners
    <3>2. Cardinality(Runners(s)) \in Nat
      BY <1>2
    <3> QED
      BY <2>3, <3>1, <3>2 DEF Bit
  <2> QED
    BY <2>2, <2>3
<1>4. ASSUME current[w] = p, current' = [current EXCEPT ![w] = None], NEW s \in Slots
      PROVE  Cardinality(Runners(s)') = Cardinality(Runners(s)) - Bit(s = p)
  <2>1. \A v \in Workers : current'[v] = IF v = w THEN None ELSE current[v]
    BY <1>1, <1>4 DEF Actors
  <2>2. Runners(s)' = Runners(s) \ {w} /\ (w \in Runners(s) <=> s = p)
    BY <1>1, <1>4, <2>1 DEF Runners
  <2>3. Cardinality(Runners(s) \ {w}) = Cardinality(Runners(s)) - Bit(w \in Runners(s))
    BY <1>2, TakenAway
  <2> QED
    BY <2>2, <2>3 DEF Bit
<1> QED
  BY <1>3, <1>4

\* A worker's step: it moves to x, which is no place of a call, and may take or leave a job.
LEMMA WorkerMoves ==
    ASSUME TaskInv, mutex = Free, NEW w \in Workers, NEW x \in {"idle", "park", "body"},
           pc' = [pc EXCEPT ![w] = x],
           jobs' \in Tables, TreeInv(jobs', serial), epoch = 1 => Exact(jobs'),
           Stays(jobs, jobs', epoch, {}), ExecInv',
           UNCHANGED << mutex, serial, epoch, args, asked, walk, query >>,
           cursor' \in Slots, fresh' \in [Workers -> BOOLEAN],
           NEW p \in Slots \cup {None}, current' = [current EXCEPT ![w] = p],
           p # None <=> x = "body"
    PROVE  TaskInv' /\ Stays(jobs, jobs', epoch, {})
<1>1. TypesInv /\ ControlInv /\ QueryInv /\ ResetInv /\ w \in Actors /\ w # Host
  BY ActorsAssumption DEF TaskInv, Actors
<1>2. \A a \in Actors : pc[a] \notin InCall
  BY MutexFree
<1>3. \A a \in Actors : /\ pc'[a] = IF a = w THEN x ELSE pc[a]
                        /\ current'[a] = IF a = w THEN p ELSE current[a]
  BY <1>1 DEF TypesInv
<1>4. \A a \in Actors : pc'[a] \notin InCall
  BY <1>2, <1>3 DEF InCall
<1>5. /\ \A a \in Actors : CallInv(a)'
      /\ TreeInv(View, serial)' /\ (epoch = 1 => Exact(View))'
  BY <1>4, LeftAtRest
<1>6. TypesInv'
  BY <1>1 DEF TypesInv, Labels
<1>7. ControlInv'
  <2>1. \A a \in Actors : pc'[a] \in InCall <=> mutex' = a
    BY <1>1, <1>2, <1>4 DEF ControlInv
  <2>2. current'[Host] = None /\ pc'[Host] = pc[Host]
    BY <1>1, <1>3 DEF ControlInv, Actors
  <2>3. \A v \in Workers : /\ pc'[v] \notin HostLabels
                           /\ current'[v] # None <=> pc'[v] \in {"body", "thrown"} \cup InCall
    <3> TAKE v \in Workers
    <3>1. CASE v = w
      BY <1>1, <1>3, <3>1 DEF HostLabels, InCall
    <3>2. CASE v # w
      BY <1>1, <1>3, <3>2 DEF ControlInv, Actors
    <3> QED
      BY <3>1, <3>2
  <2> QED
    BY <1>1, <2>1, <2>2, <2>3 DEF ControlInv
<1>8. QueryInv' /\ ResetInv'
  <2>1. pc'[Host] = pc[Host] /\ \A a \in Actors : pc[a] # "recheck"
    BY <1>1, <1>2, <1>3 DEF Actors, InCall
  <2>2. \A a \in Actors : pc'[a] # "publish"
    BY <1>4 DEF InCall
  <2> QED
    BY <1>1, <2>1, <2>2, Onward
<1> QED
  BY <1>5, <1>6, <1>7, <1>8 DEF TaskInv

\* A scan.
LEMMA ScanKeeps ==
    ASSUME TaskInv, NEW w \in Workers, ScanPick(w) \/ ScanNothing(w)
    PROVE  TaskInv' /\ Stays(jobs, jobs', epoch, {})
<1> DEFINE p == Scanned.picked
           x == IF p = None THEN "park" ELSE "body"
<1>1. TypesInv /\ ControlInv /\ ExecInv /\ w \in Actors /\ w # Host /\ mutex = Free
  BY ActorsAssumption DEF TaskInv, Actors, ScanPick, ScanNothing
<1>2. TreeInv(jobs, serial) /\ (epoch = 1 => Exact(jobs))
  BY <1>1, MutexFree
<1>3. Scanned \in ScanFrom(jobs, serial)
  BY <1>1, <1>2, ScannedKeeps DEF TypesInv
<1>4. /\ jobs' = Scanned.jobs /\ pc[w] = "scan" /\ pc' = [pc EXCEPT ![w] = x]
      /\ UNCHANGED << mutex, serial, epoch, args, asked, walk, query >>
      /\ SignalIf(Wakes(jobs, jobs'))
      /\ p # None => current' = [current EXCEPT ![w] = p] /\ cursor' = (p % N) + 1
      /\ p = None => current' = current /\ cursor' = cursor
  BY DEF ScanPick, ScanNothing, Goto, callVars
<1>5. p \in Slots \cup {None} /\ jobs' \in Tables /\ TreeInv(jobs', serial) /\ Kept(jobs, jobs')
      /\ (Exact(jobs) => Exact(jobs'))
      /\ (p = None => SameExecuting(jobs, jobs')) /\ (p # None => OneMore(jobs, jobs', p))
  BY <1>3, <1>4 DEF ScanFrom
<1>6. Stays(jobs, jobs', epoch, {})
  BY <1>5, KeptStays
<1>7. current[w] = None
  BY <1>1, <1>4 DEF ControlInv, InCall
<1> HIDE DEF p
<1>8. ExecInv'
  <2>1. CASE p = None
    BY <1>1, <1>4, <1>5, <2>1, ExecStays
  <2>2. CASE p # None
    <3>1. p \in Slots /\ current' = [current EXCEPT ![w] = p]
      BY <1>4, <1>5, <2>2
    <3>2. \A s \in Slots : Cardinality(Runners(s)') = Cardinality(Runners(s)) + Bit(s = p)
      BY <1>1, <1>7, <3>1, RunnersMove
    <3>3. \A s \in Slots : jobs'[s].executing = jobs[s].executing + Bit(s = p)
      BY <1>5, <2>2 DEF OneMore
    <3> QED
      BY <1>1, <3>2, <3>3 DEF ExecInv
  <2> QED
    BY <2>1, <2>2
<1>9. cursor' \in Slots
  <2>1. CASE p = None
    BY <1>1, <1>4, <2>1 DEF TypesInv
  <2>2. CASE p # None
    <3>1. p \in Int /\ N \in Nat /\ N # 0
      BY <1>5, <2>2, NAssumption DEF Slots
    <3>2. p % N \in 0..(N - 1)
      BY <3>1
    <3> QED
      BY <1>4, <2>2, <3>1, <3>2 DEF Slots
  <2> QED
    BY <2>1, <2>2
<1>10. fresh' \in [Workers -> BOOLEAN]
  BY <1>1, <1>4 DEF SignalIf, TypesInv
<1>11. current' = [current EXCEPT ![w] = p]
  BY <1>1, <1>4, <1>7 DEF TypesInv
<1>12. (p # None <=> x = "body") /\ x \in {"idle", "park", "body"}
  OBVIOUS
<1> HIDE DEF x
<1> QED
  BY <1>1, <1>2, <1>4, <1>5, <1>6, <1>8, <1>9, <1>10, <1>11, <1>12, WorkerMoves

\* The end of a body.
LEMMA CompleteKeeps ==
    ASSUME TaskInv, NEW w \in Workers, Complete(w)
    PROVE  TaskInv' /\ Stays(jobs, jobs', epoch, {})
<1> DEFINE s == current[w]
           C == Completed(jobs, s)
<1>1. /\ TypesInv /\ ControlInv /\ ExecInv /\ w \in Actors /\ w # Host /\ mutex = Free
      /\ pc[w] \in {"body", "thrown"}
  BY ActorsAssumption DEF TaskInv, Actors, Complete
<1>2. TreeInv(jobs, serial) /\ (epoch = 1 => Exact(jobs))
  BY <1>1, MutexFree
<1>3. s # None
  BY <1>1 DEF ControlInv
<1>4. s \in Slots /\ jobs[s].executing > 0
  BY <1>1, <1>2, <1>3, RunnersKeepOpen
<1>5. TreeInv(C, serial) /\ Kept(jobs, C) /\ OneLess(jobs, C, s) /\ (Exact(jobs) => Exact(C))
  BY <1>2, <1>4, CompletedKeeps
<1>6. /\ jobs' = Collect(C) /\ pc' = [pc EXCEPT ![w] = "idle"]
      /\ SignalIf(Wakes(jobs, C)) /\ current' = [current EXCEPT ![w] = None]
      /\ UNCHANGED << mutex, serial, epoch, cursor, args, asked, walk, query >>
  BY DEF Complete, callVars
<1> HIDE DEF C
<1>7. TreeInv(Collect(C), serial) /\ SameExecuting(C, Collect(C)) /\ (Exact(C) => Exact(Collect(C)))
  BY <1>5, CollectKeeps
<1>8. Stays(jobs, jobs', epoch, {})
  BY <1>5, <1>6, KeptStays
<1>9. ExecInv'
  <2>1. \A t \in Slots : Cardinality(Runners(t)') = Cardinality(Runners(t)) - Bit(t = s)
    <3>1. current[w] = s /\ current' = [current EXCEPT ![w] = None] /\ s \in Slots /\ TypesInv
      BY <1>1, <1>4, <1>6
    <3> HIDE DEF s
    <3> QED
      BY <3>1, RunnersMove, ZenonT(60)
  <2>2. \A t \in Slots : jobs'[t].executing = jobs[t].executing - Bit(t = s)
    BY <1>5, <1>6, <1>7 DEF OneLess, SameExecuting
  <2> QED
    BY <1>1, <2>1, <2>2 DEF ExecInv
<1>10. fresh' \in [Workers -> BOOLEAN] /\ cursor' \in Slots
  BY <1>1, <1>6 DEF SignalIf, TypesInv
<1>11. jobs' \in Tables
  BY <1>6, <1>7 DEF TreeInv
<1>12. None \in Slots \cup {None} /\ (None # None <=> "idle" = "body")
  OBVIOUS
<1> QED
  BY <1>1, <1>2, <1>5, <1>6, <1>7, <1>8, <1>9, <1>10, <1>11, <1>12, WorkerMoves

\* Marks on a table that stays.
LEMMA StaysMarked ==
    ASSUME NEW js, NEW ks, NEW ls, NEW e, NEW R, Stays(js, ks, e, R), Marked(ks, ls)
    PROVE  Stays(js, ls, e, R)
<1>1. \A id : EndsIn(js, ks, id) => EndsIn(js, ls, id)
  BY DEF EndsIn, Marked, Open, Terminal
<1> QED
  BY <1>1 DEF Stays, Marked, Terminal

\* A call that is over at once.
LEMMA CallReturns ==
    ASSUME TaskInv, mutex = Free,
           jobs' \in Tables, TreeInv(jobs', serial), epoch = 1 => Exact(jobs'),
           NEW R, Stays(jobs, jobs', epoch, R), SameExecuting(jobs, jobs'),
           UNCHANGED << mutex, serial, epoch, cursor, pc, current, args, asked, walk, query >>,
           fresh' \in [Workers -> BOOLEAN]
    PROVE  TaskInv'
<1>1. TypesInv /\ ControlInv /\ QueryInv /\ ResetInv /\ ExecInv
  BY DEF TaskInv
<1>2. \A a \in Actors : pc'[a] \notin InCall /\ pc[a] \notin InCall
  BY MutexFree
<1>3. /\ \A a \in Actors : CallInv(a)'
      /\ TreeInv(View, serial)' /\ (epoch = 1 => Exact(View))'
  BY <1>2, LeftAtRest
<1>4. TypesInv' /\ ControlInv'
  BY <1>1 DEF TypesInv, ControlInv
<1>5. ExecInv'
  BY <1>1, ExecStays
<1>6. QueryInv' /\ ResetInv'
  <2>1. \A a \in Actors : pc[a] # "recheck" /\ pc'[a] # "publish"
    BY <1>2 DEF InCall
  <2>2. \A a \in Actors : pc[a] = "recheck" => pc'[a] = "recheck" /\ args'[a] = args[a]
    BY <2>1
  <2> QED
    BY <1>1, <2>1, <2>2, Onward
<1> QED
  BY <1>3, <1>4, <1>5, <1>6 DEF TaskInv

\* A call that goes on under mutex.
LEMMA CallEnters ==
    ASSUME TaskInv, mutex = Free, NEW a \in Actors, AtCall(a), NEW x \in {"stamp", "join"},
           pc' = [pc EXCEPT ![a] = x], mutex' = a,
           jobs' \in Tables, TreeInv(jobs', serial), epoch = 1 => Exact(jobs'),
           Stays(jobs, jobs', epoch, {}), SameExecuting(jobs, jobs'),
           UNCHANGED << serial, epoch, cursor, fresh, current, walk, query >>,
           args' \in [Actors -> Rows(Slots)], asked' \in [Actors -> Counts \cup {-1, 0}],
           CallInv(a)'
    PROVE  TaskInv'
<1>1. TypesInv /\ ControlInv /\ QueryInv /\ ResetInv /\ ExecInv
  BY DEF TaskInv
<1>2. \A b \in Actors : pc[b] \notin InCall
  BY MutexFree
<1>3. \A b \in Actors : pc'[b] = IF b = a THEN x ELSE pc[b]
  BY <1>1 DEF TypesInv
<1>4. \A b \in Actors : CallInv(b)'
  <2> SUFFICES ASSUME NEW b \in Actors, b # a PROVE CallInv(b)'
    OBVIOUS
  <2>1. pc'[b] \notin InCall
    BY <1>2, <1>3
  <2> QED
    BY <2>1 DEF CallInv, InCall
<1>5. \A b \in Actors : pc'[b] # "publish"
  BY <1>2, <1>3 DEF InCall
<1>6. ViewOf(jobs', pc', args', serial') = jobs'
  BY <1>5, ViewAtRest
<1>7. TreeInv(View, serial)' /\ (epoch = 1 => Exact(View))'
  BY <1>6 DEF View
<1>8. TypesInv'
  BY <1>1 DEF TypesInv, Labels
<1>9. ControlInv'
  <2>1. \A b \in Actors : pc'[b] \in InCall <=> mutex' = b
    BY <1>2, <1>3 DEF InCall
  <2>2. current'[Host] = None /\ pc'[Host] \in HostLabels \cup InCall
        /\ (pc'[Host] \in {"look", "mark"} => pc'[Host] = pc[Host])
    BY <1>1, <1>3 DEF ControlInv, InCall, HostLabels, Actors
  <2>3. \A v \in Workers : /\ pc'[v] \notin HostLabels
                           /\ current'[v] # None <=> pc'[v] \in {"body", "thrown"} \cup InCall
    <3> TAKE v \in Workers
    <3>0. v \in Actors /\ v # Host
      BY ActorsAssumption DEF Actors
    <3>1. CASE v = a
      BY <1>1, <1>3, <3>0, <3>1 DEF ControlInv, AtCall, HostLabels, InCall
    <3>2. CASE v # a
      BY <1>1, <1>3, <3>0, <3>2 DEF ControlInv
    <3> QED
      BY <3>1, <3>2
  <2> QED
    BY <1>1, <2>1, <2>2, <2>3 DEF ControlInv
<1>10. ExecInv'
  BY <1>1, ExecStays
<1>11. QueryInv' /\ ResetInv'
  <2>1. Host \in Actors
    BY DEF Actors
  <2>2. /\ pc'[Host] \in {"look", "mark", "found", "checked", "verify"} => pc'[Host] = pc[Host]
        /\ pc[Host] \in {"look", "mark"} => pc'[Host] \in {"look", "mark"}
    BY <1>3, <2>1 DEF AtCall
  <2>3. \A b \in Actors : pc[b] = "recheck" => pc'[b] = "recheck" /\ args'[b] = args[b]
    BY <1>2 DEF InCall
  <2> QED
    BY <1>1, <1>5, <2>2, <2>3, Onward
<1> QED
  BY <1>4, <1>7, <1>8, <1>9, <1>10, <1>11 DEF TaskInv

\* What every call that comes to the table finds and may do: collect it, and mark jobs.
LEMMA CollectedTable ==
    ASSUME TreeInv(jobs, serial), epoch = 1 => Exact(jobs)
    PROVE  LET js == Collect(jobs) IN
           /\ js \in Tables /\ TreeInv(js, serial) /\ (epoch = 1 => Exact(js))
           /\ SameExecuting(jobs, js) /\ Stays(jobs, js, epoch, {})
           /\ \A ks : Marked(js, ks) =>
                /\ ks \in Tables /\ TreeInv(ks, serial) /\ (epoch = 1 => Exact(ks))
                /\ SameExecuting(jobs, ks) /\ Stays(jobs, ks, epoch, {})
<1> DEFINE js == Collect(jobs)
<1>1. TreeInv(js, serial) /\ SameExecuting(jobs, js) /\ (epoch = 1 => Exact(js))
  BY CollectKeeps
<1>2. Kept(jobs, jobs)
  BY DEF Kept
<1>3. Stays(jobs, js, epoch, {})
  BY <1>2, KeptStays
<1> HIDE DEF js
<1>4. ASSUME NEW ks, Marked(js, ks)
      PROVE  /\ ks \in Tables /\ TreeInv(ks, serial) /\ (epoch = 1 => Exact(ks))
             /\ SameExecuting(jobs, ks) /\ Stays(jobs, ks, epoch, {})
  <2>1. TreeInv(ks, serial) /\ SameExecuting(js, ks) /\ (Exact(js) => Exact(ks))
    BY <1>1, <1>4, MarkedKeeps
  <2>2. SameExecuting(jobs, ks)
    BY <1>1, <2>1 DEF SameExecuting
  <2>3. Stays(jobs, ks, epoch, {})
    BY <1>3, <1>4, StaysMarked
  <2> QED
    BY <1>1, <2>1, <2>2, <2>3 DEF TreeInv
<1>5. js \in Tables
  BY <1>1 DEF TreeInv
<1> QED
  BY <1>1, <1>3, <1>4, <1>5 DEF js

\* Short sequences of slots.
LEMMA ShortRows == << >> \in Rows(Slots) /\ \A s \in Slots : << s >> \in Rows(Slots)
<1>1. N \in Nat /\ N >= 1
  BY NAssumption
<1>2. << >> \in [1..0 -> Slots] /\ 0 \in 0..N
  BY <1>1
<1>3. \A s \in Slots : << s >> \in [1..1 -> Slots] /\ 1 \in 0..N
  BY <1>1
<1> QED
  BY <1>2, <1>3 DEF Rows

\* What a submission's check does to the table, unless it is refused.
LEMMA SubmitFlags ==
    ASSUME TaskInv, NEW a \in Actors, NEW h, NEW n, SubmitCheck(a, h, n)
    PROVE  Flagged(Collect(jobs), jobs')
<1> DEFINE js == Collect(jobs)
<1>1. mutex = Free /\ current[a] \in Slots \cup {None}
  BY DEF SubmitCheck, TaskInv, TypesInv
<1>2. js \in Tables
  BY <1>1, MutexFree, CollectedTable
<1>3. Flagged(js, js)
  BY <1>2 DEF Flagged, Marked
<1>4. CASE jobs' = Rejected(js, a)
  BY <1>1, <1>2, <1>4, RejectedMarks
<1>5. CASE /\ current[a] # None
           /\ jobs' = [js EXCEPT ![current[a]].failed = TRUE, ![current[a]].cancel = TRUE]
  <2>1. current[a] \in Slots /\ TRUE \in BOOLEAN
    BY <1>1, <1>5
  <2>2. Flagged(js, FailAt(js, current[a], TRUE))
    BY <1>2, <2>1, FailMarks
  <2> QED
    BY <1>5, <2>2 DEF FailAt
<1>6. \/ jobs' = js \/ jobs' = Rejected(js, a)
      \/ /\ current[a] # None
         /\ jobs' = [js EXCEPT ![current[a]].failed = TRUE, ![current[a]].cancel = TRUE]
  BY DEF SubmitCheck
<1> QED
  BY <1>3, <1>4, <1>5, <1>6

\* A submission is checked.
LEMMA SubmitKeeps ==
    ASSUME TaskInv, NEW a \in Actors, NEW h, NEW n \in Counts, SubmitCheck(a, h, n)
    PROVE  TaskInv' /\ Stays(jobs, jobs', epoch, {})
<1> DEFINE js == Collect(jobs)
<1>1. /\ TypesInv /\ AtCall(a) /\ mutex = Free /\ serial < MaxSerial
      /\ UNCHANGED << serial, epoch, cursor, fresh, current, walk, query >>
      /\ current[a] \in Slots \cup {None}
  BY DEF SubmitCheck, TaskInv, TypesInv
<1>0. TreeInv(jobs, serial) /\ (epoch = 1 => Exact(jobs))
  BY <1>1, MutexFree
<1>2. /\ js \in Tables /\ TreeInv(js, serial) /\ (epoch = 1 => Exact(js))
      /\ SameExecuting(jobs, js) /\ Stays(jobs, js, epoch, {})
  BY <1>0, CollectedTable
<1>3. ASSUME Marked(js, jobs'), UNCHANGED << mutex, pc, args, asked >>
      PROVE  TaskInv' /\ Stays(jobs, jobs', epoch, {})
  <2>1. /\ jobs' \in Tables /\ TreeInv(jobs', serial) /\ (epoch = 1 => Exact(jobs'))
        /\ SameExecuting(jobs, jobs') /\ Stays(jobs, jobs', epoch, {})
    BY <1>0, <1>3, CollectedTable
  <2>2. fresh' \in [Workers -> BOOLEAN] /\ TreeInv(jobs', serial')
    BY <1>1, <2>1 DEF TypesInv
  <2> QED
    BY <1>1, <1>3, <2>1, <2>2, CallReturns
<1>4. CASE ~SubmitAllowed(js, a, h)
  <2>1. jobs' = Rejected(js, a) /\ UNCHANGED << mutex, pc, args, asked >>
    BY <1>4 DEF SubmitCheck, callVars
  <2>2. Marked(js, jobs')
    BY SubmitFlags DEF Flagged
  <2> QED
    BY <1>3, <2>1, <2>2
<1>5. CASE SubmitAllowed(js, a, h) /\ Vacancies(js) = {}
  <2>1. /\ jobs' = IF current[a] = None THEN js
                   ELSE [js EXCEPT ![current[a]].failed = TRUE, ![current[a]].cancel = TRUE]
        /\ UNCHANGED << mutex, pc, args, asked >>
    BY <1>5 DEF SubmitCheck, callVars
  <2>2. Marked(js, jobs')
    BY SubmitFlags DEF Flagged
  <2> QED
    BY <1>3, <2>1, <2>2
<1>6. CASE SubmitAllowed(js, a, h) /\ Vacancies(js) # {}
  <2> DEFINE row == IF h = None THEN << >> ELSE << Slot(js, h) >>
  <2>1. /\ jobs' = js /\ mutex' = a /\ pc' = [pc EXCEPT ![a] = "stamp"]
        /\ asked' = [asked EXCEPT ![a] = n] /\ args' = [args EXCEPT ![a] = row]
    BY <1>6 DEF SubmitCheck
  <2>2. h # None => Slot(js, h) \in Slots /\ js[Slot(js, h)].id = h
    BY <1>6 DEF SubmitAllowed, Usable, Slot, Find
  <2>3. row \in Rows(Slots)
    BY <2>2, ShortRows
  <2>4. \A i \in DOMAIN row : js[row[i]].id # None
    <3>1. CASE h = None
      BY <3>1
    <3>2. CASE h # None
      <4>1. DOMAIN row = {1} /\ row[1] = Slot(js, h)
        BY <3>2
      <4> QED
        BY <2>2, <3>2, <4>1
    <3> QED
      BY <3>1, <3>2
  <2> HIDE DEF row, js
  <2>5. args'[a] = row /\ asked'[a] = n /\ pc'[a] = "stamp"
    BY <1>1, <2>1 DEF TypesInv
  <2>6. CallInv(a)'
    <3>1. serial' < MaxSerial /\ Vacancies(jobs') # {} /\ asked'[a] \in Counts
      BY <1>1, <1>6, <2>1, <2>5
    <3>2. \A i \in DOMAIN args'[a] : jobs'[args'[a][i]].id # None
      BY <2>1, <2>4, <2>5
    <3> QED
      BY <2>5, <3>1, <3>2 DEF CallInv
  <2>7. args' \in [Actors -> Rows(Slots)] /\ asked' \in [Actors -> Counts \cup {-1, 0}]
    BY <1>1, <2>1, <2>3 DEF TypesInv
  <2>8. TaskInv'
    BY <1>1, <1>2, <2>1, <2>6, <2>7, CallEnters
  <2> QED
    BY <1>2, <2>1, <2>8
<1> QED
  BY <1>4, <1>5, <1>6

\* A join is checked.
LEMMA JoinKeeps ==
    ASSUME TaskInv, NEW a \in Actors, NEW m \in Widths, NEW S, NEW hs \in [1..m -> S],
           JoinCheck(a, hs)
    PROVE  TaskInv' /\ Stays(jobs, jobs', epoch, {}) /\ Flagged(jobs, jobs')
<1>1. /\ TypesInv /\ AtCall(a) /\ mutex = Free /\ serial < MaxSerial
      /\ UNCHANGED << serial, epoch, cursor, fresh, current, walk, query >>
      /\ current[a] \in Slots \cup {None} /\ DOMAIN hs = 1..m
  BY DEF JoinCheck, TaskInv, TypesInv
<1>2. jobs \in Tables /\ TreeInv(jobs, serial) /\ (epoch = 1 => Exact(jobs))
  BY <1>1, MutexFree
<1>3. Kept(jobs, jobs) /\ SameExecuting(jobs, jobs)
  BY DEF Kept, SameExecuting
<1>4. Stays(jobs, jobs, epoch, {})
  BY <1>3, KeptStays
<1>5. CASE \E i \in DOMAIN hs : ~Usable(jobs, hs[i])
  <2>1. jobs' = Rejected(jobs, a) /\ UNCHANGED << mutex, pc, args, asked >>
    BY <1>5 DEF JoinCheck, callVars
  <2>2. Marked(jobs, jobs') /\ Flagged(jobs, jobs')
    BY <1>1, <1>2, <2>1, RejectedMarks DEF Flagged
  <2>3. TreeInv(jobs', serial) /\ SameExecuting(jobs, jobs') /\ (epoch = 1 => Exact(jobs'))
    BY <1>2, <2>2, MarkedKeeps
  <2>4. Stays(jobs, jobs', epoch, {})
    BY <1>4, <2>2, StaysMarked
  <2>5. fresh' \in [Workers -> BOOLEAN] /\ TreeInv(jobs', serial') /\ jobs' \in Tables
    BY <1>1, <2>3 DEF TypesInv, TreeInv
  <2>6. TaskInv'
    BY <1>1, <2>1, <2>3, <2>4, <2>5, CallReturns
  <2> QED
    BY <2>2, <2>4, <2>6
<1>6. CASE \A i \in DOMAIN hs : Usable(jobs, hs[i])
  <2> DEFINE row == [i \in DOMAIN hs |-> Slot(jobs, hs[i])]
  <2>1. /\ jobs' = jobs /\ mutex' = a /\ pc' = [pc EXCEPT ![a] = "join"]
        /\ asked' = asked /\ args' = [args EXCEPT ![a] = row]
    BY <1>6 DEF JoinCheck
  <2>2. \A i \in DOMAIN hs : /\ row[i] \in Slots /\ jobs[row[i]].id # None
                             /\ ~jobs[row[i]].released
    <3> SUFFICES ASSUME NEW i \in DOMAIN hs
                 PROVE  LET s == Slot(jobs, hs[i]) IN
                        s \in Slots /\ jobs[s].id # None /\ ~jobs[s].released
      OBVIOUS
    <3>1. PICK s \in Find(jobs, hs[i]) : ~jobs[s].released
      BY <1>6 DEF Usable
    <3>2. hs[i] # None /\ s \in Slots /\ jobs[s].id = hs[i]
      BY <3>1 DEF Find
    <3>3. Slot(jobs, hs[i]) \in Slots /\ jobs[Slot(jobs, hs[i])].id = hs[i]
      BY <3>1, <3>2 DEF Slot, Find
    <3>4. Slot(jobs, hs[i]) = s
      BY <1>2, <3>2, <3>3 DEF TreeInv, IdsSound
    <3> QED
      BY <3>1, <3>2, <3>4
  <2>3. row \in Rows(Slots)
    <3>1. m \in 0..N
      BY CountsAreNaturals, NAssumption
    <3>2. row \in [1..m -> Slots]
      BY <1>1, <2>2
    <3> QED
      BY <3>1, <3>2 DEF Rows
  <2>4. DOMAIN row = DOMAIN hs
    OBVIOUS
  <2> HIDE DEF row
  <2>5. args'[a] = row /\ pc'[a] = "join"
    BY <1>1, <2>1 DEF TypesInv
  <2>6. CallInv(a)'
    BY <1>1, <2>1, <2>2, <2>4, <2>5 DEF CallInv
  <2>7. args' \in [Actors -> Rows(Slots)] /\ asked' \in [Actors -> Counts \cup {-1, 0}]
    BY <1>1, <2>1, <2>3 DEF TypesInv
  <2>8. TaskInv'
    BY <1>1, <1>2, <1>3, <1>4, <2>1, <2>6, <2>7, CallEnters
  <2>9. Flagged(jobs, jobs')
    BY <1>2, <2>1 DEF Flagged, Marked
  <2> QED
    BY <1>4, <2>1, <2>8, <2>9
<1> QED
  BY <1>5, <1>6

\* A cancellation.
LEMMA CancelKeeps ==
    ASSUME TaskInv, NEW a \in Actors, NEW h, Cancel(a, h)
    PROVE  TaskInv' /\ Stays(jobs, jobs', epoch, {}) /\ Flagged(jobs, jobs')
<1>1. /\ mutex = Free /\ fresh' = [w \in Workers |-> TRUE]
      /\ UNCHANGED << mutex, serial, epoch, cursor, pc, current, args, asked, walk, query >>
  BY DEF Cancel, callVars, Signal
<1>2. jobs \in Tables /\ TreeInv(jobs, serial) /\ (epoch = 1 => Exact(jobs))
  BY <1>1, MutexFree
<1>3. PICK s \in Addressed(a, h) :
        jobs' = [t \in Slots |-> IF jobs[t].id # None /\ s \in Lineage(jobs, t)
                                   THEN [jobs[t] EXCEPT !.cancel = TRUE] ELSE jobs[t]]
  BY DEF Cancel
<1>4. Marked(jobs, jobs') /\ Flagged(jobs, jobs')
  <2>1. ASSUME NEW t \in Slots
        PROVE  /\ jobs'[t] \in JobRecord
               /\ jobs'[t].id = jobs[t].id /\ jobs'[t].epoch = jobs[t].epoch
               /\ jobs'[t].parent = jobs[t].parent /\ jobs'[t].dependencies = jobs[t].dependencies
               /\ jobs'[t].count = jobs[t].count /\ jobs'[t].result = jobs[t].result
               /\ jobs'[t].next = jobs[t].next /\ jobs'[t].completed = jobs[t].completed
               /\ jobs'[t].executing = jobs[t].executing /\ jobs'[t].children = jobs[t].children
               /\ jobs'[t].refs = jobs[t].refs /\ jobs'[t].status = jobs[t].status
               /\ jobs[t].cancel => jobs'[t].cancel
               /\ jobs[t].released => jobs'[t].released
               /\ jobs'[t].bodyDone = jobs[t].bodyDone
    <3>1. jobs[t] \in JobRecord
      BY <1>2 DEF Tables
    <3>2. jobs'[t] = [jobs[t] EXCEPT !.cancel = TRUE] \/ jobs'[t] = jobs[t]
      BY <1>3
    <3>3. CASE jobs'[t] = [jobs[t] EXCEPT !.cancel = TRUE]
      BY <3>1, <3>3 DEF JobRecord
    <3>4. CASE jobs'[t] = jobs[t]
      BY <3>1, <3>4
    <3> QED
      BY <3>2, <3>3, <3>4
  <2>2. jobs' = [t \in Slots |-> jobs'[t]]
    BY <1>3
  <2>3. jobs' \in Tables
    BY <2>1, <2>2 DEF Tables
  <2> QED
    BY <2>1, <2>3 DEF Marked, Flagged
<1>5. TreeInv(jobs', serial) /\ SameExecuting(jobs, jobs') /\ (epoch = 1 => Exact(jobs'))
  BY <1>2, <1>4, MarkedKeeps
<1>6. Stays(jobs, jobs', epoch, {})
  <2>1. Kept(jobs, jobs)
    BY DEF Kept
  <2>2. Stays(jobs, jobs, epoch, {})
    BY <2>1, KeptStays
  <2> QED
    BY <1>4, <2>2, StaysMarked
<1>7. fresh' \in [Workers -> BOOLEAN] /\ TreeInv(jobs', serial') /\ jobs' \in Tables
  BY <1>1, <1>5 DEF TreeInv
<1>8. TaskInv'
  BY <1>1, <1>5, <1>6, <1>7, CallReturns
<1> QED
  BY <1>4, <1>6, <1>8

\* A release, with the collection that follows: it may take the slot of that very job.
LEMMA ReleaseKeeps ==
    ASSUME TaskInv, NEW a \in Actors, NEW h, Release(a, h)
    PROVE  /\ TaskInv'
           /\ \E s \in Slots : jobs[s].id = h /\ Stays(jobs, jobs', epoch, {s})
           /\ \E ks : Flagged(jobs, ks) /\ jobs' = Collect(ks)
<1>1. /\ mutex = Free /\ fresh' = [w \in Workers |-> TRUE]
      /\ UNCHANGED << mutex, serial, epoch, cursor, pc, current, args, asked, walk, query >>
  BY DEF Release, callVars, Signal
<1>2. jobs \in Tables /\ TreeInv(jobs, serial) /\ (epoch = 1 => Exact(jobs))
  BY <1>1, MutexFree
<1>3. PICK s \in Addressed(a, h) : jobs' = Collect([jobs EXCEPT ![s].released = TRUE])
  BY DEF Release
<1>4. s \in Slots /\ jobs[s].id = h /\ jobs[s] \in JobRecord
  BY <1>2, <1>3 DEF Addressed, Find, Tables
<1> DEFINE j == jobs[s]
           ks == [jobs EXCEPT ![s].released = TRUE]
<1>5. j.bodyDone \in BOOLEAN /\ j.cancel \in BOOLEAN /\ j.failed \in BOOLEAN
  BY <1>4 DEF JobRecord
<1>6. ks = MarkAt(jobs, s, j.bodyDone, j.cancel, j.failed, TRUE)
  <2>1. [j EXCEPT !.released = TRUE] =
        [j EXCEPT !.bodyDone = j.bodyDone, !.cancel = j.cancel, !.failed = j.failed, !.released = TRUE]
    BY <1>4 DEF JobRecord
  <2> QED
    BY <1>2, <1>4, <2>1 DEF Tables, MarkAt
<1>7. \A t \in Slots : t # s => ks[t] = jobs[t]
  BY <1>2 DEF Tables
<1> HIDE DEF ks
<1>8. Marked(jobs, ks) /\ Flagged(jobs, ks)
  BY <1>2, <1>4, <1>5, <1>6, MarkOne
<1>9. TreeInv(ks, serial) /\ SameExecuting(jobs, ks) /\ (epoch = 1 => Exact(ks))
  BY <1>2, <1>8, MarkedKeeps
<1>10. /\ TreeInv(jobs', serial) /\ SameExecuting(ks, jobs') /\ (epoch = 1 => Exact(jobs'))
  BY <1>3, <1>9, CollectKeeps DEF ks
<1>11. SameExecuting(jobs, jobs')
  BY <1>9, <1>10 DEF SameExecuting
<1>12. Stays(jobs, jobs', epoch, {s})
  <2>1. \A t \in Slots : jobs'[t] = IF Collectable(ks[t]) THEN Vacant ELSE ks[t]
    BY <1>3 DEF Collect, ks
  <2>2. Vacant.id = None /\ Vacant.epoch = 0
    BY DEF Vacant
  <2>3. \A t \in Slots : Collectable(ks[t]) => jobs[t].released \/ t = s
    BY <1>7 DEF Collectable
  <2>4. \A t \in Slots : /\ ks[t].id = jobs[t].id /\ ks[t].epoch = jobs[t].epoch
                         /\ ks[t].result = jobs[t].result /\ ks[t].status = jobs[t].status
                         /\ jobs[t].cancel => ks[t].cancel
                         /\ jobs[t].released => ks[t].released
    BY <1>8 DEF Marked
  <2> QED
    BY <2>1, <2>2, <2>3, <2>4 DEF Stays
<1>13. fresh' \in [Workers -> BOOLEAN] /\ TreeInv(jobs', serial') /\ jobs' \in Tables
  BY <1>1, <1>10 DEF TreeInv
<1>14. TaskInv'
  BY <1>1, <1>10, <1>11, <1>12, <1>13, CallReturns
<1>15. jobs' = Collect(ks)
  BY <1>3 DEF ks
<1> QED
  BY <1>4, <1>8, <1>12, <1>14, <1>15

-----------------------------------------------------------------------------
(* Steps of a call under way.                                              *)

\* Only the holder of mutex is in a call; a body that calls keeps its job open.
LEMMA MidCallFacts ==
    ASSUME TaskInv, NEW a \in Actors, pc[a] \in InCall
    PROVE  /\ mutex = a /\ \A b \in Actors : b # a => pc[b] \notin InCall
           /\ CallInv(a) /\ current[a] \in Slots \cup {None}
           /\ a = Host => current[a] = None
           /\ a # Host => a \in Workers /\ current[a] # None
           /\ pc[a] # "publish" =>
                /\ View = jobs /\ TreeInv(jobs, serial) /\ (epoch = 1 => Exact(jobs))
                /\ current[a] # None =>
                     current[a] \in Slots /\ jobs[current[a]].executing > 0
<1>1. TypesInv /\ ControlInv /\ ExecInv /\ TreeInv(View, serial) /\ (epoch = 1 => Exact(View))
      /\ CallInv(a)
  BY DEF TaskInv
<1>2. mutex = a /\ \A b \in Actors : b # a => pc[b] \notin InCall
  BY <1>1 DEF ControlInv
<1>3. current[a] \in Slots \cup {None} /\ (a = Host => current[a] = None)
      /\ (a # Host => a \in Workers /\ current[a] # None)
  BY <1>1 DEF TypesInv, ControlInv, Actors
<1>4. ASSUME pc[a] # "publish"
      PROVE  /\ View = jobs /\ TreeInv(jobs, serial) /\ (epoch = 1 => Exact(jobs))
             /\ current[a] # None => current[a] \in Slots /\ jobs[current[a]].executing > 0
  <2>1. \A b \in Actors : pc[b] # "publish"
    BY <1>2, <1>4 DEF InCall
  <2>2. View = jobs /\ TreeInv(jobs, serial) /\ (epoch = 1 => Exact(jobs))
    BY <1>1, <2>1, AtRest
  <2>3. current[a] # None => current[a] \in Slots /\ jobs[current[a]].executing > 0
    BY <1>1, <1>3, <2>2, RunnersKeepOpen
  <2> QED
    BY <2>2, <2>3
<1> QED
  BY <1>1, <1>2, <1>3, <1>4

\* A call goes on from one of its places to another.
LEMMA CallGoesOn ==
    ASSUME TaskInv, NEW a \in Actors, pc[a] \in InCall, NEW x \in InCall,
           pc' = [pc EXCEPT ![a] = x], jobs' \in Tables,
           UNCHANGED << mutex, epoch, cursor, fresh, current, walk, query >>,
           serial' \in 0..MaxSerial, args' \in [Actors -> Rows(Slots)],
           asked' \in [Actors -> Counts \cup {-1, 0}]
    PROVE  /\ TypesInv' /\ ControlInv' /\ \A b \in Actors : b # a => CallInv(b)'
           /\ \A b \in Actors : pc'[b] = IF b = a THEN x ELSE pc[b]
<1>1. TypesInv /\ ControlInv
  BY DEF TaskInv
<1>2. \A b \in Actors : pc'[b] = IF b = a THEN x ELSE pc[b]
  BY <1>1 DEF TypesInv
<1>3. mutex = a /\ \A b \in Actors : b # a => pc[b] \notin InCall
  BY MidCallFacts
<1>4. \A b \in Actors : b # a => CallInv(b)'
  BY <1>2, <1>3 DEF CallInv, InCall
<1>5. TypesInv'
  BY <1>1 DEF TypesInv, Labels, InCall
<1>6. ControlInv'
  <2>1. \A b \in Actors : pc'[b] \in InCall <=> mutex' = b
    BY <1>2, <1>3
  <2>2. current'[Host] = None /\ pc'[Host] \in HostLabels \cup InCall
        /\ (pc'[Host] \in {"look", "mark"} => pc'[Host] = pc[Host])
    BY <1>1, <1>2 DEF ControlInv, InCall, HostLabels, Actors
  <2>3. \A v \in Workers : /\ pc'[v] \notin HostLabels
                           /\ current'[v] # None <=> pc'[v] \in {"body", "thrown"} \cup InCall
    <3> TAKE v \in Workers
    <3>1. v \in Actors
      BY DEF Actors
    <3>2. CASE v = a
      BY <1>1, <1>2, <3>1, <3>2 DEF ControlInv, HostLabels, InCall
    <3>3. CASE v # a
      BY <1>1, <1>2, <3>1, <3>3 DEF ControlInv
    <3> QED
      BY <3>2, <3>3
  <2> QED
    BY <1>1, <2>1, <2>2, <2>3 DEF ControlInv
<1> QED
  BY <1>2, <1>4, <1>5, <1>6

\* What the table will be once the publication that this step begins is over.
LEMMA ViewBegun ==
    ASSUME NEW a \in Actors, NEW s \in Slots, jobs' \in Tables, args'[a] = << s >>,
           \A b \in Actors : pc'[b] = "publish" <=> b = a
    PROVE  View' = Named(jobs', s, serial')
<1>1. pc'[a] = "publish" /\ \A b \in Actors : pc'[b] = "publish" => b = a
  OBVIOUS
<1>2. ViewOf(jobs', pc', args', serial') = Named(jobs', s, serial')
  BY <1>1, ViewAhead
<1> QED
  BY <1>2 DEF View

\* A new job takes its slot, all but its id.
LEMMA StampStep ==
    ASSUME TaskInv, NEW a \in Actors, pc[a] \in {"stamp", "join"},
           NEW js, TreeInv(js, serial), epoch = 1 => Exact(js),
           SameExecuting(jobs, js), Stays(jobs, js, epoch, {}),
           NEW target \in Slots, js[target].id = None, NEW n \in Counts \cup {0},
           epoch = 1 => \A i \in DOMAIN args[a] : js[args[a][i]].id # None,
           jobs' = Stamped(js, a, target, n), pc' = [pc EXCEPT ![a] = "publish"],
           args' = [args EXCEPT ![a] = << target >>], serial' = serial + 1,
           asked' \in [Actors -> Counts \cup {-1, 0}],
           UNCHANGED << mutex, epoch, cursor, fresh, current, walk, query >>
    PROVE  /\ TaskInv' /\ Stays(jobs, jobs', epoch, {})
           /\ Stamps(js, jobs', current[a], args[a], target, n)
<1> DEFINE p == current[a]
           row == args[a]
<1>1. /\ TypesInv /\ ExecInv /\ QueryInv /\ ResetInv /\ CallInv(a) /\ js \in Tables
      /\ pc[a] \in InCall /\ pc[a] # "publish"
  BY DEF TaskInv, TreeInv, InCall
<1>2. /\ serial \in Nat /\ serial < MaxSerial /\ epoch \in 0..MaxEpoch /\ row \in Rows(Slots)
      /\ serial + 1 \in 0..MaxSerial
  BY <1>1, BoundsAreNaturals DEF TypesInv, CallInv
<1>3. p \in Slots \cup {None} /\ (p # None => Open(js[p]))
  <2>1. p \in Slots \cup {None} /\ (p # None => p \in Slots /\ jobs[p].executing > 0)
    BY <1>1, MidCallFacts
  <2>2. p # None => js[p].executing > 0
    BY <2>1 DEF SameExecuting
  <2>3. \A s \in Slots : js[s].executing > 0 => js[s].id # None /\ ~Terminal(js[s])
    BY DEF TreeInv, SlotsSound
  <2> QED
    BY <2>1, <2>2, <2>3 DEF Open
<1>4. p # target
  BY <1>3 DEF Open, None, Slots
<1>5. Stamps(js, jobs', p, row, target, n)
  BY <1>1, <1>2, <1>3, <1>4, StampedFields
<1>6. SoundAfter(js, jobs', row, target, serial')
  <2>1. MayStamp(js, p, row, target, n)
    BY <1>2, <1>3 DEF MayStamp
  <2> HIDE DEF p, row
  <2> QED
    BY <1>5, <2>1, StampKeeps
<1>7. /\ jobs' \in Tables /\ jobs'[target].id = None /\ SameExecuting(js, jobs')
      /\ TreeInv(Named(jobs', target, serial'), serial')
      /\ Exact(js) /\ (\A i \in DOMAIN row : js[row[i]].id # None)
           => Exact(Named(jobs', target, serial'))
  BY <1>6 DEF SoundAfter
<1>8. args' \in [Actors -> Rows(Slots)] /\ args'[a] = << target >>
  BY <1>1, ShortRows DEF TypesInv
<1>9. "publish" \in InCall
  BY DEF InCall
<1>10. /\ TypesInv' /\ ControlInv' /\ \A b \in Actors : b # a => CallInv(b)'
       /\ \A b \in Actors : pc'[b] = IF b = a THEN "publish" ELSE pc[b]
  <2>1. serial' \in 0..MaxSerial /\ jobs' \in Tables /\ pc[a] \in InCall
    BY <1>1, <1>2, <1>7
  <2> HIDE DEF p, row
  <2> QED
    BY <1>8, <1>9, <2>1, CallGoesOn, ZenonT(60)
<1>11. \A b \in Actors : b # a => pc[b] \notin InCall
  BY <1>1, MidCallFacts
<1>12. CallInv(a)'
  <2>1. serial' > 0
    BY <1>2
  <2> QED
    BY <1>7, <1>8, <1>10, <2>1 DEF CallInv
<1>13. View' = Named(jobs', target, serial')
  <2>1. \A b \in Actors : pc'[b] = "publish" <=> b = a
    BY <1>10, <1>11 DEF InCall
  <2> QED
    BY <1>7, <1>8, <2>1, ViewBegun, Zenon
<1>14. TreeInv(View, serial)' /\ (epoch = 1 => Exact(View))'
  BY <1>7, <1>13
<1>15. ExecInv'
  <2>1. SameExecuting(jobs, jobs')
    BY <1>7 DEF SameExecuting
  <2> QED
    BY <1>1, <2>1, ExecStays
<1>16. Stays(jobs, jobs', epoch, {})
  <2> SUFFICES ASSUME NEW t \in Slots
               PROVE  /\ jobs'[t].id # None =>
                           /\ jobs'[t].id = jobs[t].id /\ jobs'[t].epoch = jobs[t].epoch
                           /\ jobs'[t].result = jobs[t].result
                           /\ Terminal(jobs[t]) => jobs'[t].status = jobs[t].status
                           /\ jobs[t].cancel => jobs'[t].cancel
                           /\ jobs[t].released => jobs'[t].released
                      /\ jobs'[t].epoch \in {0, jobs[t].epoch, epoch}
                      /\ Terminal(jobs[t]) /\ jobs'[t].id # jobs[t].id =>
                           jobs[t].released \/ EndsIn(jobs, jobs', jobs[t].parent) \/ t \in {}
    BY DEF Stays
  <2>0. \A id : EndsIn(jobs, js, id) => EndsIn(jobs, jobs', id)
    BY <1>5 DEF Stamps, EndsIn, Open, Terminal
  <2>1. CASE t = target
    BY <1>5, <2>0, <2>1 DEF Stamps, Stays
  <2>2. CASE t # target
    BY <1>5, <2>0, <2>2 DEF Stamps, Stays
  <2> QED
    BY <2>1, <2>2
<1>17. QueryInv' /\ ResetInv'
  <2>1. /\ pc'[Host] \in {"look", "mark", "found", "checked", "verify"} => pc'[Host] = pc[Host]
        /\ pc[Host] \in {"look", "mark"} => pc'[Host] \in {"look", "mark"}
    BY <1>1, <1>10 DEF InCall, Actors
  <2>2. \A b \in Actors : pc[b] # "recheck"
    BY <1>11 DEF InCall
  <2> QED
    BY <1>1, <1>16, <2>1, <2>2, Onward
<1> QED
  BY <1>5, <1>10, <1>12, <1>14, <1>15, <1>16, <1>17 DEF TaskInv

\* The slot a new job takes is free.
LEMMA FirstVacancy ==
    ASSUME NEW js, Vacancies(js) # {}
    PROVE  Min(Vacancies(js)) \in Slots /\ js[Min(Vacancies(js))].id = None
<1> DEFINE V == Vacancies(js)
<1>1. V \in SUBSET Nat /\ V # {}
  BY DEF Vacancies, Slots
<1>2. V \subseteq Slots /\ \A s \in V : js[s].id = None
  BY DEF Vacancies
<1> HIDE DEF V
<1>3. \E x \in V : \A y \in V : x <= y
  BY <1>1, LeastMember
<1>4. Min(V) \in V
  BY <1>3 DEF Min
<1> QED
  BY <1>2, <1>4 DEF V

\* There is a new job in js, seen from actor a.
Begun(js, ks, a) ==
    \E target \in Slots, n \in Counts \cup {0} :
        js[target].id = None /\ Stamps(js, ks, current[a], args[a], target, n)

\* A submission's job takes its slot.
LEMMA SubmitStampKeeps ==
    ASSUME TaskInv, NEW a \in Actors, SubmitStamp(a)
    PROVE  TaskInv' /\ Stays(jobs, jobs', epoch, {}) /\ Begun(jobs, jobs', a)
<1> DEFINE target == Min(Vacancies(jobs))
<1>1. pc[a] = "stamp" /\ pc[a] \in InCall /\ pc[a] # "publish" /\ asked \in [Actors -> Counts \cup {-1, 0}]
  BY DEF SubmitStamp, Goto, InCall, TaskInv, TypesInv
<1>2. /\ TreeInv(jobs, serial) /\ (epoch = 1 => Exact(jobs)) /\ CallInv(a)
  BY <1>1, MidCallFacts
<1>3. /\ target \in Slots /\ jobs[target].id = None /\ asked[a] \in Counts \cup {0}
      /\ \A i \in DOMAIN args[a] : jobs[args[a][i]].id # None
  BY <1>1, <1>2, FirstVacancy DEF CallInv
<1>4. SameExecuting(jobs, jobs) /\ Kept(jobs, jobs)
  BY DEF SameExecuting, Kept
<1>5. Stays(jobs, jobs, epoch, {})
  BY <1>4, KeptStays
<1>6. /\ jobs' = Stamped(jobs, a, target, asked[a]) /\ pc' = [pc EXCEPT ![a] = "publish"]
      /\ args' = [args EXCEPT ![a] = << target >>] /\ serial' = serial + 1
      /\ UNCHANGED << mutex, epoch, cursor, fresh, current, walk, query >> /\ asked' = asked
  BY DEF SubmitStamp, Goto
<1> HIDE DEF target
<1>7. /\ TaskInv' /\ Stays(jobs, jobs', epoch, {})
      /\ Stamps(jobs, jobs', current[a], args[a], target, asked[a])
  BY <1>1, <1>2, <1>3, <1>4, <1>5, <1>6, StampStep
<1> QED
  BY <1>3, <1>7 DEF Begun

\* A call gives mutex back.
LEMMA CallLeaves ==
    ASSUME TaskInv, NEW a \in Actors, pc[a] \in InCall, Return(a), mutex' = Free,
           jobs' \in Tables, TreeInv(jobs', serial), epoch = 1 => Exact(jobs'),
           SameExecuting(jobs, jobs'),
           UNCHANGED << serial, epoch, cursor, fresh, current, walk, query >>,
           args' \in [Actors -> Rows(Slots)], asked' \in [Actors -> Counts \cup {-1, 0}]
    PROVE  /\ TypesInv' /\ ControlInv' /\ (\A b \in Actors : CallInv(b)')
           /\ TreeInv(View, serial)' /\ (epoch = 1 => Exact(View))' /\ ExecInv'
           /\ \A b \in Actors : b # a => pc[b] \notin InCall /\ pc'[b] = pc[b]
           /\ \A b \in Actors : pc'[b] \notin InCall
           /\ pc'[Host] = IF a = Host THEN "ready" ELSE pc[Host]
<1> DEFINE x == IF a = Host THEN "ready" ELSE "body"
<1>1. TypesInv /\ ControlInv /\ ExecInv /\ Host \in Actors
  BY DEF TaskInv, Actors
<1>2. \A b \in Actors : pc'[b] = IF b = a THEN x ELSE pc[b]
  BY <1>1 DEF TypesInv, Return
<1>3. \A b \in Actors : b # a => pc[b] \notin InCall /\ pc'[b] = pc[b]
  BY <1>2, MidCallFacts
<1>4. x \notin InCall /\ x \in Labels /\ pc' = [pc EXCEPT ![a] = x]
  BY DEF InCall, Labels, Return
<1>5. \A b \in Actors : pc'[b] \notin InCall
  BY <1>2, <1>3, <1>4
<1>6. pc'[Host] = IF a = Host THEN "ready" ELSE pc[Host]
  BY <1>1, <1>2
<1>7. /\ \A b \in Actors : CallInv(b)'
      /\ TreeInv(View, serial)' /\ (epoch = 1 => Exact(View))'
  BY <1>5, LeftAtRest
<1>8. ExecInv'
  BY <1>1, ExecStays
<1>9. TypesInv'
  <2> HIDE DEF x
  <2> QED
    BY <1>1, <1>4 DEF TypesInv
<1>10. ControlInv'
  <2>1. \A b \in Actors : pc'[b] \in InCall <=> mutex' = b
    BY <1>5, ActorsAssumption DEF Actors, Free
  <2>2. current'[Host] = None /\ pc'[Host] \in HostLabels \cup InCall
        /\ (pc'[Host] \in {"look", "mark"} => pc'[Host] = pc[Host])
    BY <1>1, <1>6 DEF ControlInv, HostLabels
  <2>3. \A v \in Workers : /\ pc'[v] \notin HostLabels
                           /\ current'[v] # None <=> pc'[v] \in {"body", "thrown"} \cup InCall
    <3> TAKE v \in Workers
    <3>1. v \in Actors /\ v # Host
      BY ActorsAssumption DEF Actors
    <3>2. CASE v = a
      BY <1>1, <1>2, <3>1, <3>2 DEF ControlInv, HostLabels
    <3>3. CASE v # a
      BY <1>1, <1>2, <3>1, <3>3 DEF ControlInv
    <3> QED
      BY <3>2, <3>3
  <2> QED
    BY <1>1, <2>1, <2>2, <2>3 DEF ControlInv
<1> QED
  BY <1>3, <1>5, <1>6, <1>7, <1>8, <1>9, <1>10

\* A join's job takes its slot, or is refused for want of one.
LEMMA JoinStampKeeps ==
    ASSUME TaskInv, NEW a \in Actors, JoinStamp(a)
    PROVE  /\ TaskInv' /\ Stays(jobs, jobs', epoch, {})
           /\ Flagged(Collect(jobs), jobs') \/ Begun(Collect(jobs), jobs', a)
<1> DEFINE js == Collect(jobs)
           target == Min(Vacancies(js))
<1>1. /\ pc[a] = "join" /\ pc[a] \in InCall /\ pc[a] # "publish"
      /\ asked \in [Actors -> Counts \cup {-1, 0}] /\ args \in [Actors -> Rows(Slots)]
      /\ jobs \in Tables /\ current[a] \in Slots \cup {None}
      /\ UNCHANGED << epoch, cursor, fresh, current, walk, query >>
  BY DEF JoinStamp, Goto, InCall, TaskInv, TypesInv
<1>2. /\ TreeInv(jobs, serial) /\ (epoch = 1 => Exact(jobs)) /\ CallInv(a)
  BY <1>1, MidCallFacts
<1>3. /\ js \in Tables /\ TreeInv(js, serial) /\ (epoch = 1 => Exact(js))
      /\ SameExecuting(jobs, js) /\ Stays(jobs, js, epoch, {})
  BY <1>2, CollectedTable
<1>4. CASE Vacancies(js) = {}
  <2>1. /\ Return(a) /\ jobs' = Rejected(js, a) /\ mutex' = Free
        /\ args' = [args EXCEPT ![a] = << >>] /\ UNCHANGED << serial, asked >>
    BY <1>4 DEF JoinStamp
  <2>2. Marked(js, jobs') /\ Flagged(js, jobs')
    BY <1>1, <1>3, <2>1, RejectedMarks DEF Flagged
  <2>3. /\ jobs' \in Tables /\ TreeInv(jobs', serial) /\ (epoch = 1 => Exact(jobs'))
        /\ SameExecuting(jobs, jobs') /\ Stays(jobs, jobs', epoch, {})
    BY <1>2, <2>2, CollectedTable
  <2>4. args' \in [Actors -> Rows(Slots)] /\ asked' \in [Actors -> Counts \cup {-1, 0}]
    BY <1>1, <2>1, ShortRows
  <2>5. /\ TypesInv' /\ ControlInv' /\ (\A b \in Actors : CallInv(b)')
        /\ TreeInv(View, serial)' /\ (epoch = 1 => Exact(View))' /\ ExecInv'
        /\ \A b \in Actors : b # a => pc[b] \notin InCall /\ pc'[b] = pc[b]
        /\ \A b \in Actors : pc'[b] \notin InCall
        /\ pc'[Host] = IF a = Host THEN "ready" ELSE pc[Host]
    BY <1>1, <2>1, <2>3, <2>4, CallLeaves
  <2>6. QueryInv' /\ ResetInv'
    <3>1. TypesInv /\ QueryInv /\ ResetInv
      BY DEF TaskInv
    <3>2. /\ pc'[Host] \in {"look", "mark", "found", "checked", "verify"} => pc'[Host] = pc[Host]
          /\ pc[Host] \in {"look", "mark"} => pc'[Host] \in {"look", "mark"}
      BY <1>1, <2>5
    <3>3. \A b \in Actors : pc[b] # "recheck" /\ pc'[b] # "publish"
      BY <1>1, <2>5 DEF InCall
    <3> QED
      BY <1>1, <2>1, <2>3, <3>1, <3>2, <3>3, Onward
  <2> QED
    BY <2>2, <2>3, <2>5, <2>6 DEF TaskInv
<1>5. CASE Vacancies(js) # {}
  <2>1. /\ jobs' = Stamped(js, a, target, 0) /\ pc' = [pc EXCEPT ![a] = "publish"]
        /\ args' = [args EXCEPT ![a] = << target >>] /\ serial' = serial + 1
        /\ asked' = [asked EXCEPT ![a] = -1] /\ mutex' = mutex
    BY <1>5 DEF JoinStamp, Goto
  <2>2. target \in Slots /\ js[target].id = None
    BY <1>5, FirstVacancy
  <2>3. asked' \in [Actors -> Counts \cup {-1, 0}] /\ 0 \in Counts \cup {0}
    BY <1>1, <2>1
  \* What is named is not collected before the first reset.
  <2>4. epoch = 1 => \A i \in DOMAIN args[a] : js[args[a][i]].id # None
    <3> SUFFICES ASSUME epoch = 1, NEW i \in DOMAIN args[a] PROVE js[args[a][i]].id # None
      OBVIOUS
    <3>1. args[a] \in Rows(Slots)
      BY <1>1
    <3>2. args[a][i] \in Slots
      BY <3>1, RowFacts
    <3>3. jobs[args[a][i]].id # None /\ ~jobs[args[a][i]].released
      BY <1>1, <1>2 DEF CallInv
    <3> QED
      BY <3>2, <3>3 DEF Collect, Collectable
  <2> HIDE DEF js, target
  <2>5. /\ TaskInv' /\ Stays(jobs, jobs', epoch, {})
        /\ Stamps(js, jobs', current[a], args[a], target, 0)
    BY <1>1, <1>3, <2>1, <2>2, <2>3, <2>4, StampStep
  <2>6. Begun(js, jobs', a)
    BY <2>2, <2>3, <2>5 DEF Begun
  <2> QED
    BY <2>5, <2>6 DEF js
<1> QED
  BY <1>4, <1>5

\* The new job's handle finds it.
LEMMA PublishKeeps ==
    ASSUME TaskInv, NEW a \in Actors, Publish(a)
    PROVE  /\ TaskInv'
           /\ \A s \in Slots : jobs[s].id # None => jobs'[s] = jobs[s]
<1>1. /\ pc[a] = "publish" /\ pc[a] \in InCall /\ pc' = [pc EXCEPT ![a] = "recheck"]
      /\ jobs' = [jobs EXCEPT ![args[a][1]].id = serial]
      /\ fresh' = [w \in Workers |-> TRUE]
      /\ UNCHANGED << mutex, serial, epoch, cursor, current, args, asked, walk, query >>
  BY DEF Publish, Goto, InCall, Signal, callVars
<1>2. /\ TypesInv /\ ControlInv /\ QueryInv /\ ResetInv /\ ExecInv /\ CallInv(a)
      /\ jobs \in Tables /\ TreeInv(View, serial) /\ (epoch = 1 => Exact(View))
  BY DEF TaskInv, TypesInv
<1>3. PICK t \in Slots : /\ args[a] = << t >> /\ jobs[t].id = None
                         /\ View = Named(jobs, t, serial)
  BY <1>1, Publisher
<1>4. args[a][1] = t
  BY <1>3
<1>5. jobs' = View
  BY <1>1, <1>3, <1>4 DEF Named
<1>6. jobs' \in Tables /\ jobs[t] \in JobRecord
  BY <1>2, <1>5 DEF TreeInv, Tables
<1>7. \A s \in Slots : s # t => jobs'[s] = jobs[s]
  BY <1>2, <1>3, <1>5 DEF Named, Tables
<1>8. /\ jobs'[t].id = serial /\ jobs'[t].epoch = jobs[t].epoch
      /\ jobs'[t].executing = jobs[t].executing
  <2>1. jobs'[t] = [jobs[t] EXCEPT !.id = serial]
    BY <1>2, <1>3, <1>5 DEF Named, Tables
  <2> QED
    BY <1>6, <2>1 DEF JobRecord
<1>9. serial > 0 /\ serial # None
  BY <1>1, <1>2 DEF CallInv, None
<1>10. \A b \in Actors : b # a => pc[b] \notin InCall
  BY <1>1, MidCallFacts
<1>11. \A b \in Actors : pc'[b] = IF b = a THEN "recheck" ELSE pc[b]
  BY <1>1, <1>2 DEF TypesInv
<1>12. \A b \in Actors : pc'[b] # "publish"
  BY <1>10, <1>11 DEF InCall
<1>13. ViewOf(jobs', pc', args', serial') = jobs'
  BY <1>6, <1>12, ViewAtRest
<1>14. TreeInv(View, serial)' /\ (epoch = 1 => Exact(View))'
  BY <1>1, <1>2, <1>5, <1>13 DEF View
<1>15. TypesInv'
  <2>1. fresh' \in [Workers -> BOOLEAN] /\ pc' \in [Actors -> Labels]
    BY <1>1, <1>2 DEF TypesInv, Labels
  <2> QED
    BY <1>1, <1>2, <1>6, <2>1 DEF TypesInv
<1>16. ControlInv'
  <2>1. \A b \in Actors : pc'[b] \in InCall <=> pc[b] \in InCall
    BY <1>1, <1>11 DEF InCall
  <2>2. current'[Host] = None /\ pc'[Host] \in HostLabels \cup InCall
        /\ (pc'[Host] \in {"look", "mark"} => pc'[Host] = pc[Host])
    BY <1>1, <1>2, <1>11 DEF ControlInv, InCall, HostLabels, Actors
  <2>3. \A v \in Workers : /\ pc'[v] \notin HostLabels
                           /\ current'[v] # None <=> pc'[v] \in {"body", "thrown"} \cup InCall
    <3> TAKE v \in Workers
    <3>1. v \in Actors
      BY DEF Actors
    <3>2. CASE v = a
      BY <1>1, <1>2, <1>11, <3>1, <3>2 DEF ControlInv, HostLabels, InCall
    <3>3. CASE v # a
      BY <1>1, <1>2, <1>11, <3>1, <3>3 DEF ControlInv
    <3> QED
      BY <3>2, <3>3
  <2>4. \A b \in Actors : pc'[b] \in InCall <=> mutex' = b
    BY <1>1, <1>2, <2>1 DEF ControlInv
  <2> QED
    BY <1>1, <1>2, <2>2, <2>3, <2>4 DEF ControlInv
<1>17. ASSUME NEW b \in Actors PROVE CallInv(b)'
  <2>1. CASE b # a
    BY <1>10, <1>11, <2>1 DEF CallInv, InCall
  <2>2. CASE b = a
    <3>1. pc'[b] = "recheck" /\ args'[b] = << t >> /\ jobs'[t].id # None
      BY <1>1, <1>3, <1>8, <1>9, <1>11, <2>2
    <3> QED
      BY <3>1 DEF CallInv
  <2> QED
    BY <2>1, <2>2
<1>18. ExecInv'
  <2>1. SameExecuting(jobs, jobs')
    BY <1>7, <1>8 DEF SameExecuting
  <2> QED
    BY <1>1, <1>2, <2>1, ExecStays
<1>19. Host \in Actors
  BY DEF Actors
<1>20. QueryInv'
  <2>1. ASSUME pc'[Host] \in {"found", "checked", "verify"}
        PROVE  /\ query.slot \in Slots /\ query.handle \in 1..serial /\ query.handle # serial
               /\ pc'[Host] = pc[Host]
    <3>1. pc'[Host] = pc[Host]
      BY <1>11, <1>19, <2>1
    <3> QED
      BY <1>1, <1>2, <2>1, <3>1 DEF QueryInv
  <2>2. ASSUME pc'[Host] = "verify", jobs'[query.slot].id = query.handle
        PROVE  query.result = query.handle
    <3>1. query.slot # t /\ pc[Host] = "verify" /\ query.slot \in Slots
      BY <1>8, <2>1, <2>2
    <3>2. jobs[query.slot].id = query.handle
      BY <1>7, <2>2, <3>1
    <3> QED
      BY <1>2, <3>1, <3>2 DEF QueryInv
  <2> QED
    BY <1>1, <1>12, <2>1, <2>2 DEF QueryInv
<1>21. ResetInv'
  <2> SUFFICES ASSUME NEW s \in Slots
               PROVE  /\ jobs'[s].epoch <= epoch
                      /\ jobs'[s].id # None /\ jobs'[s].epoch < epoch =>
                           \/ jobs'[s].cancel /\ jobs'[s].released
                           \/ pc'[Host] \in {"look", "mark"} /\ walk <= s
                           \/ \E b \in Actors : pc'[b] = "recheck" /\ args'[b] = << s >>
    BY <1>1 DEF ResetInv
  <2>1. CASE s = t
    <3>1. pc'[a] = "recheck" /\ args'[a] = << s >>
      BY <1>1, <1>3, <1>11, <2>1
    <3>2. jobs'[s].epoch <= epoch
      BY <1>2, <1>8, <2>1 DEF ResetInv
    <3> QED
      BY <3>1, <3>2
  <2>2. CASE s # t
    <3>1. \A b \in Actors : pc[b] # "recheck"
      BY <1>1, <1>10 DEF InCall
    <3>2. pc[Host] \in {"look", "mark"} => pc'[Host] = pc[Host]
      BY <1>1, <1>11, <1>19
    <3>3. jobs'[s] = jobs[s]
      BY <1>7, <2>2
    <3> QED
      BY <1>2, <3>1, <3>2, <3>3 DEF ResetInv
  <2> QED
    BY <2>1, <2>2
<1>22. TaskInv'
  BY <1>14, <1>15, <1>16, <1>17, <1>18, <1>20, <1>21 DEF TaskInv
<1>23. \A s \in Slots : jobs[s].id # None => jobs'[s] = jobs[s]
  BY <1>3, <1>7
<1> QED
  BY <1>22, <1>23

\* Marks upon marks.
LEMMA MarkedTwice ==
    ASSUME NEW js, NEW ks, NEW ls, Marked(js, ks), Marked(ks, ls)
    PROVE  Marked(js, ls)
BY DEF Marked

\* The epoch is looked at again, and the call is over.
LEMMA RecheckKeeps ==
    ASSUME TaskInv, NEW a \in Actors, Recheck(a)
    PROVE  TaskInv' /\ Stays(jobs, jobs', epoch, {}) /\ Flagged(jobs, jobs')
<1>1. /\ pc[a] = "recheck" /\ pc[a] \in InCall /\ pc[a] # "publish" /\ Return(a) /\ mutex' = Free
      /\ args' = [args EXCEPT ![a] = << >>] /\ asked' = [asked EXCEPT ![a] = 0]
      /\ UNCHANGED << serial, epoch, cursor, fresh, current, walk, query >>
  BY DEF Recheck, InCall
<1>2. /\ TypesInv /\ QueryInv /\ ResetInv /\ jobs \in Tables /\ current[a] \in Slots \cup {None}
      /\ asked \in [Actors -> Counts \cup {-1, 0}] /\ args \in [Actors -> Rows(Slots)]
  BY DEF TaskInv, TypesInv
<1>3. TreeInv(jobs, serial) /\ (epoch = 1 => Exact(jobs)) /\ CallInv(a)
  BY <1>1, MidCallFacts
<1>4. PICK t \in Slots : args[a] = << t >>
  BY <1>1, <1>3 DEF CallInv
<1>5. args[a][1] = t
  BY <1>4
<1> DEFINE j     == jobs[t]
           stale == j.epoch # epoch
           c     == j.cancel \/ stale
           r     == j.released \/ stale
           js    == [jobs EXCEPT ![t].cancel = c, ![t].released = r]
<1>6. jobs' = IF stale /\ asked[a] = -1 THEN Rejected(js, a) ELSE js
  BY <1>5 DEF Recheck
<1>7. j \in JobRecord
  BY <1>2 DEF Tables
<1>8. j.bodyDone \in BOOLEAN /\ j.failed \in BOOLEAN /\ c \in BOOLEAN /\ r \in BOOLEAN
  BY <1>7 DEF JobRecord
<1>9. stale => c /\ r
  OBVIOUS
<1> HIDE DEF c, r
<1>10. js = MarkAt(jobs, t, j.bodyDone, c, j.failed, r)
  <2>1. [j EXCEPT !.cancel = c, !.released = r] =
        [j EXCEPT !.bodyDone = j.bodyDone, !.cancel = c, !.failed = j.failed, !.released = r]
    BY <1>7 DEF JobRecord
  <2> QED
    BY <1>2, <2>1 DEF Tables, MarkAt
<1>11. js[t].cancel = c /\ js[t].released = r
  <2>1. js[t] = [j EXCEPT !.cancel = c, !.released = r]
    BY <1>2 DEF Tables
  <2> QED
    BY <1>7, <2>1 DEF JobRecord
<1> HIDE DEF js
<1>12. Marked(jobs, js) /\ Flagged(jobs, js)
  <2>1. (j.cancel => c) /\ (j.released => r)
    BY DEF c, r
  <2> QED
    BY <1>2, <1>8, <1>10, <2>1, MarkOne
<1>13. Marked(js, jobs') /\ Flagged(js, jobs')
  <2>1. js \in Tables
    BY <1>12 DEF Marked
  <2>2. Flagged(js, js)
    BY <2>1 DEF Marked, Flagged
  <2>3. Flagged(js, Rejected(js, a))
    BY <1>2, <2>1, RejectedMarks
  <2> QED
    BY <1>6, <2>2, <2>3 DEF Flagged
<1>14. Marked(jobs, jobs')
  BY <1>12, <1>13, MarkedTwice
<1>15. /\ TreeInv(jobs', serial) /\ (epoch = 1 => Exact(jobs')) /\ SameExecuting(jobs, jobs')
       /\ jobs' \in Tables
  BY <1>3, <1>14, MarkedKeeps DEF TreeInv
<1>16. Stays(jobs, jobs', epoch, {})
  BY <1>14 DEF Marked, Stays
<1>17. args' \in [Actors -> Rows(Slots)] /\ asked' \in [Actors -> Counts \cup {-1, 0}]
  BY <1>1, <1>2, ShortRows
<1>18. TreeInv(jobs', serial')
  BY <1>1, <1>15
<1>19. /\ TypesInv' /\ ControlInv' /\ (\A b \in Actors : CallInv(b)')
       /\ TreeInv(View, serial)' /\ (epoch = 1 => Exact(View))' /\ ExecInv'
       /\ \A b \in Actors : b # a => pc[b] \notin InCall /\ pc'[b] = pc[b]
       /\ \A b \in Actors : pc'[b] \notin InCall
       /\ pc'[Host] = IF a = Host THEN "ready" ELSE pc[Host]
  BY <1>1, <1>15, <1>17, <1>18, CallLeaves
<1>20. pc[Host] \in {"look", "mark"} => pc'[Host] = pc[Host]
  BY <1>1, <1>19
<1>21. pc'[Host] \in {"found", "checked", "verify"} => pc'[Host] = pc[Host]
  BY <1>19
<1>22. QueryInv'
  <2>1. \A b \in Actors : pc'[b] # "publish"
    BY <1>19 DEF InCall
  <2>2. pc'[Host] \in {"found", "checked", "verify"} =>
           query.slot \in Slots /\ query.handle \in 1..serial
    BY <1>2, <1>21 DEF QueryInv
  <2>3. ASSUME pc'[Host] = "verify", jobs'[query.slot].id = query.handle
        PROVE  query.result = query.handle
    <3>1. query.slot \in Slots /\ pc[Host] = "verify"
      BY <1>21, <2>2, <2>3
    <3>2. jobs[query.slot].id = query.handle
      BY <1>14, <2>3, <3>1 DEF Marked
    <3> QED
      BY <1>2, <3>1, <3>2 DEF QueryInv
  <2> QED
    BY <1>1, <2>1, <2>2, <2>3 DEF QueryInv
<1>23. ResetInv'
  <2> SUFFICES ASSUME NEW s \in Slots
               PROVE  /\ jobs'[s].epoch <= epoch
                      /\ jobs'[s].id # None /\ jobs'[s].epoch < epoch =>
                           \/ jobs'[s].cancel /\ jobs'[s].released
                           \/ pc'[Host] \in {"look", "mark"} /\ walk <= s
    BY <1>1 DEF ResetInv
  <2>1. /\ jobs'[s].id = jobs[s].id /\ jobs'[s].epoch = jobs[s].epoch
        /\ jobs[s].cancel => jobs'[s].cancel
        /\ jobs[s].released => jobs'[s].released
    BY <1>14 DEF Marked
  <2>2. jobs'[s].epoch <= epoch
    BY <1>2, <2>1 DEF ResetInv
  <2>3. ASSUME jobs'[s].id # None, jobs'[s].epoch < epoch
        PROVE  \/ jobs'[s].cancel /\ jobs'[s].released
               \/ pc'[Host] \in {"look", "mark"} /\ walk <= s
    <3>1. \/ jobs[s].cancel /\ jobs[s].released
          \/ pc[Host] \in {"look", "mark"} /\ walk <= s
          \/ \E b \in Actors : pc[b] = "recheck" /\ args[b] = << s >>
      BY <1>2, <2>1, <2>3 DEF ResetInv
    <3>2. ASSUME NEW b \in Actors, pc[b] = "recheck", args[b] = << s >>
          PROVE  jobs'[s].cancel /\ jobs'[s].released
      <4>1. b = a
        BY <1>19, <3>2 DEF InCall
      <4>2. s = t
        <5>1. << s >> = << t >>
          BY <1>4, <3>2, <4>1
        <5> QED
          BY <5>1
      <4>3. stale
        <5>1. jobs[t].epoch < epoch /\ epoch \in Nat /\ jobs[t].epoch \in Nat
          BY <1>2, <1>7, <2>1, <2>3, <4>2 DEF TypesInv, JobRecord
        <5> QED
          BY <5>1
      <4>4. js[s].cancel /\ js[s].released
        BY <1>9, <1>11, <4>2, <4>3
      <4> QED
        BY <1>13, <4>4 DEF Marked
    <3> QED
      BY <1>20, <2>1, <3>1, <3>2
  <2> QED
    BY <2>2, <2>3
<1>24. Flagged(jobs, jobs')
  BY <1>12, <1>13, <1>14 DEF Flagged
<1> QED
  BY <1>16, <1>19, <1>22, <1>23, <1>24 DEF TaskInv

-----------------------------------------------------------------------------
(* The invariant holds.                                                    *)

\* At first there are no jobs.
LEMMA InitKeeps == Init => TaskInv
<1> SUFFICES ASSUME Init PROVE TaskInv
  OBVIOUS
<1>1. /\ jobs = [s \in Slots |-> Vacant] /\ mutex = Free /\ serial = 0 /\ epoch = 1 /\ cursor = 1
      /\ fresh = [w \in Workers |-> TRUE] /\ current = [a \in Actors |-> None]
      /\ pc = [a \in Actors |-> IF a = Host THEN "ready" ELSE "idle"]
      /\ args = [a \in Actors |-> << >>] /\ asked = [a \in Actors |-> 0]
      /\ walk = 1 /\ query = NoQuery
  BY DEF Init
<1>2. Host \in Actors /\ N \in Nat /\ N >= 1 /\ MaxSerial \in Nat /\ MaxEpoch \in Nat /\ MaxEpoch >= 1
  BY NAssumption, BoundsAreNaturals DEF Actors
<1>3. Host \notin Workers /\ \A w \in Workers : w \in Actors /\ w # Host
  BY ActorsAssumption DEF Actors
<1>4. \A a \in Actors : pc[a] \in {"ready", "idle"}
  BY <1>1
<1>5. \A a \in Actors : pc[a] \notin InCall /\ pc[a] # "publish"
  BY <1>4 DEF InCall
<1>6. TypesInv
  <2>1. jobs \in Tables
    BY <1>1, VacantIsRecord DEF Tables
  <2>2. args \in [Actors -> Rows(Slots)]
    BY <1>1, ShortRows
  <2>3. query \in [handle : 0..MaxSerial, slot : Slots \cup {None}, generation : 0..MaxEpoch,
                   result : 0..MaxSerial]
    BY <1>1, <1>2 DEF NoQuery, None
  <2>4. pc \in [Actors -> Labels] /\ current \in [Actors -> Slots \cup {None}]
    BY <1>1 DEF Labels
  <2>5. /\ serial \in 0..MaxSerial /\ epoch \in 1..MaxEpoch /\ cursor \in Slots
        /\ walk \in 1..(N + 1) /\ asked \in [Actors -> Counts \cup {-1, 0}]
    BY <1>1, <1>2 DEF Slots
  <2> QED
    BY <1>1, <2>1, <2>2, <2>3, <2>4, <2>5 DEF TypesInv
<1>7. ControlInv
  <2>1. \A a \in Actors : mutex # a
    BY <1>1, ActorsAssumption DEF Free, Actors
  <2>2. pc[Host] = "ready" /\ current[Host] = None
    BY <1>1, <1>2
  <2>3. \A w \in Workers : pc[w] = "idle" /\ current[w] = None
    BY <1>1, <1>3
  <2> QED
    BY <1>5, <2>1, <2>2, <2>3 DEF ControlInv, HostLabels, InCall
<1>8. \A a \in Actors : CallInv(a)
  BY <1>5 DEF CallInv, InCall
<1>9. jobs \in Tables
  BY <1>6 DEF TypesInv
<1>10. View = jobs
  BY <1>5, <1>9, ViewAtRest DEF View
<1>11. \A s \in Slots : /\ jobs[s].id = None /\ jobs[s].status = "none" /\ jobs[s].epoch = 0
                        /\ jobs[s].completed = 0 /\ jobs[s].executing = 0 /\ jobs[s].next = 0
                        /\ jobs[s].count = 0
  BY <1>1 DEF Vacant
<1>12. \A s \in Slots : ~Open(jobs[s]) /\ ~Terminal(jobs[s])
  BY <1>11 DEF Open, Terminal
<1>13. TreeInv(View, serial) /\ Exact(View)
  <2>1. SlotsSound(jobs)
    BY <1>11, <1>12 DEF SlotsSound
  <2>2. IdsSound(jobs, serial) /\ CountsSound(jobs) /\ BlameSound(jobs) /\ Exact(jobs)
    BY <1>11 DEF IdsSound, CountsSound, BlameSound, Exact
  <2>3. ParentsFound(jobs) /\ DependenciesFound(jobs)
    BY <1>12 DEF ParentsFound, DependenciesFound
  <2> QED
    BY <1>9, <1>10, <2>1, <2>2, <2>3 DEF TreeInv
<1>14. ExecInv
  <2> SUFFICES ASSUME NEW s \in Slots PROVE jobs[s].executing = Cardinality(Runners(s))
    BY DEF ExecInv
  <2>1. \A w \in Workers : current[w] = None
    BY <1>1, <1>3
  <2>2. s # None
    BY DEF Slots, None
  <2>3. Runners(s) = {}
    BY <2>1, <2>2 DEF Runners
  <2>4. Cardinality(Runners(s)) = 0
    BY <2>3, FS_EmptySet, Zenon
  <2> QED
    BY <1>11, <2>4
<1>15. QueryInv
  BY <1>2, <1>4 DEF QueryInv
<1>16. ResetInv
  BY <1>1, <1>11 DEF ResetInv
<1> QED
  BY <1>6, <1>7, <1>8, <1>13, <1>14, <1>15, <1>16 DEF TaskInv

\* A step leaves what a handle names as it ended, whoever takes it.
Lawful ==
    \/ Stays(jobs, jobs', epoch, {})
    \/ \E a \in Actors, s \in Slots :
         Release(a, jobs[s].id) /\ Stays(jobs, jobs', epoch, {s})
    \/ \A s \in Slots : jobs[s].id # None => jobs'[s] = jobs[s]

\* A call.
LEMMA CallKeeps ==
    ASSUME TaskInv, NEW a \in Actors, Call(a)
    PROVE  TaskInv' /\ Lawful
<1>1. CASE \E h \in Names(a) \cup {None}, n \in Counts : SubmitCheck(a, h, n)
  <2>1. PICK h \in Names(a) \cup {None}, n \in Counts : SubmitCheck(a, h, n)
    BY <1>1
  <2> QED
    BY <2>1, SubmitKeeps DEF Lawful
<1>2. CASE \E n \in Widths : \E hs \in Handles(n, Names(a)) : JoinCheck(a, hs)
  <2>1. PICK n \in Widths : \E hs \in Handles(n, Names(a)) : JoinCheck(a, hs)
    BY <1>2
  <2>2. PICK hs \in [1..n -> Names(a)] : JoinCheck(a, hs)
    BY <2>1 DEF Handles
  <2> QED
    BY <2>2, JoinKeeps DEF Lawful
<1>3. CASE \E h \in Names(a) : Cancel(a, h)
  BY <1>3, CancelKeeps DEF Lawful
<1>4. CASE \E h \in Names(a) : Release(a, h)
  <2>1. PICK h \in Names(a) : Release(a, h)
    BY <1>4
  <2>2. TaskInv' /\ \E s \in Slots : jobs[s].id = h /\ Stays(jobs, jobs', epoch, {s})
    BY <2>1, ReleaseKeeps
  <2>3. PICK s \in Slots : jobs[s].id = h /\ Stays(jobs, jobs', epoch, {s})
    BY <2>2
  <2>4. Release(a, jobs[s].id)
    BY <2>1, <2>3
  <2> QED
    BY <2>2, <2>3, <2>4 DEF Lawful
<1> QED
  BY <1>1, <1>2, <1>3, <1>4 DEF Call

\* A step of a call under way.
LEMMA ContinueKeeps ==
    ASSUME TaskInv, NEW a \in Actors, Continue(a)
    PROVE  TaskInv' /\ Lawful
<1>1. CASE SubmitStamp(a)
  BY <1>1, SubmitStampKeeps DEF Lawful
<1>2. CASE JoinStamp(a)
  BY <1>2, JoinStampKeeps DEF Lawful
<1>3. CASE Publish(a)
  BY <1>3, PublishKeeps DEF Lawful
<1>4. CASE Recheck(a)
  BY <1>4, RecheckKeeps DEF Lawful
<1> QED
  BY <1>1, <1>2, <1>3, <1>4 DEF Continue

\* A step of the host.
LEMMA HostKeeps ==
    ASSUME TaskInv, HostNext
    PROVE  TaskInv' /\ Lawful
<1>0. Host \in Actors
  BY DEF Actors
<1>1. CASE ResetBegin \/ ResetPass \/ ResetLook \/ ResetEnd
  <2>1. jobs' = jobs
    BY <1>1 DEF ResetBegin, ResetPass, ResetLook, ResetEnd
  <2> QED
    BY <1>1, <2>1, ResetKeeps DEF Lawful
<1>2. CASE ResetMark
  BY <1>2, ResetMarks DEF Lawful
<1>3. CASE (\E h \in Names(Host) : QueryFind(h)) \/ Query
  <2>1. jobs' = jobs
    BY <1>3 DEF QueryFind, Query, QueryInvalid, QueryCheck, QueryResult, QueryEnd
  <2> QED
    BY <1>3, <2>1, QueryKeeps DEF Lawful
<1>4. CASE Call(Host)
  BY <1>0, <1>4, CallKeeps
<1>5. CASE Continue(Host)
  BY <1>0, <1>5, ContinueKeeps
<1> QED
  BY <1>1, <1>2, <1>3, <1>4, <1>5 DEF HostNext, Reset

\* A step of a worker.
LEMMA WorkerKeeps ==
    ASSUME TaskInv, NEW w \in Workers, WorkerNext(w)
    PROVE  TaskInv' /\ Lawful
<1>0. w \in Actors
  BY DEF Actors
<1>1. CASE Observe(w)
  <2>1. jobs' = jobs
    BY <1>1 DEF Observe
  <2> QED
    BY <1>1, <2>1, ObserveKeeps DEF Lawful
<1>2. CASE ScanPick(w) \/ ScanNothing(w)
  BY <1>2, ScanKeeps DEF Lawful
<1>3. CASE Complete(w)
  BY <1>3, CompleteKeeps DEF Lawful
<1>4. CASE Continue(w)
  BY <1>0, <1>4, ContinueKeeps
<1>5. CASE Call(w)
  BY <1>0, <1>5, CallKeeps
<1>6. CASE Body(w)
  <2>1. BodyThrow(w) \/ Checkpoint(w) \/ BodyReject(w)
    BY <1>6 DEF Body
  <2> QED
    BY <2>1, BodyMarks DEF Lawful
<1> QED
  BY <1>1, <1>2, <1>3, <1>4, <1>5, <1>6 DEF WorkerNext, Loop

\* Nothing happens.
LEMMA StutterKeeps ==
    ASSUME TaskInv, UNCHANGED vars
    PROVE  TaskInv'
<1>1. UNCHANGED << jobs, mutex, serial, epoch, cursor, fresh, pc, current, args, asked, walk, query >>
  BY DEF vars
<1>2. View' = View
  BY <1>1 DEF View, ViewOf
<1>3. \A a \in Actors : CallInv(a)'
  BY <1>1 DEF TaskInv, CallInv, Vacancies
<1>4. TypesInv' /\ ControlInv'
  BY <1>1 DEF TaskInv, TypesInv, ControlInv
<1>5. ExecInv' /\ QueryInv' /\ ResetInv'
  BY <1>1 DEF TaskInv, ExecInv, Runners, QueryInv, ResetInv
<1>6. TreeInv(View, serial)' /\ (epoch = 1 => Exact(View))'
  BY <1>1, <1>2 DEF TaskInv
<1> QED
  BY <1>3, <1>4, <1>5, <1>6 DEF TaskInv

\* The invariant of the scheduler: with the job that is being published counted in, the table
\* is a tree whose counts, parents, dependencies and failures fit, whatever workers, host,
\* bodies, resets and queries do in which order.
THEOREM TaskInvHolds == Spec => []TaskInv
<1>1. Init => TaskInv
  BY InitKeeps
<1>2. TaskInv /\ [Next]_vars => TaskInv'
  <2> SUFFICES ASSUME TaskInv, [Next]_vars PROVE TaskInv'
    OBVIOUS
  <2>1. CASE HostNext
    BY <2>1, HostKeeps
  <2>2. CASE \E w \in Workers : WorkerNext(w)
    BY <2>2, WorkerKeeps
  <2>3. CASE UNCHANGED vars
    BY <2>3, StutterKeeps
  <2> QED
    BY <2>1, <2>2, <2>3 DEF Next
<1> QED
  BY <1>1, <1>2, PTL DEF Spec

-----------------------------------------------------------------------------
(* What follows from it.                                                   *)

\* The table as it will be differs from the table in one id at most.
LEMMA ViewFields ==
    ASSUME TaskInv, NEW s \in Slots
    PROVE  /\ View[s] = jobs[s] \/ (View[s].id = serial /\ jobs[s].id = None)
           /\ View[s].count = jobs[s].count /\ View[s].next = jobs[s].next
           /\ View[s].completed = jobs[s].completed /\ View[s].executing = jobs[s].executing
<1>1. jobs \in Tables /\ TypesInv /\ ControlInv
  BY DEF TaskInv, TypesInv
<1>2. jobs[s] \in JobRecord
  BY <1>1 DEF Tables
<1>3. CASE \A a \in Actors : pc[a] # "publish"
  <2>1. View = jobs
    BY <1>1, <1>3, AtRest
  <2> QED
    BY <2>1
<1>4. CASE \E a \in Actors : pc[a] = "publish"
  <2>1. PICK b \in Actors : pc[b] = "publish"
    BY <1>4
  <2>2. PICK u \in Slots : jobs[u].id = None /\ View = Named(jobs, u, serial)
    BY <2>1, Publisher
  <2>3. CASE s # u
    <3>1. View[s] = jobs[s]
      BY <1>1, <2>2, <2>3 DEF Named, Tables
    <3> QED
      BY <3>1
  <2>4. CASE s = u
    <3>1. View[s] = [jobs[s] EXCEPT !.id = serial] /\ jobs[s].id = None
      BY <1>1, <2>2, <2>4 DEF Named, Tables
    <3> QED
      BY <1>2, <3>1 DEF JobRecord
  <2> QED
    BY <2>3, <2>4
<1> QED
  BY <1>3, <1>4

\* Every variable has its type; a slot never runs more iterations than it was given.
LEMMA TypesFollow == TaskInv => TasksTypeOK
<1> SUFFICES ASSUME TaskInv PROVE TasksTypeOK
  OBVIOUS
<1>1. TypesInv /\ TreeInv(View, serial) /\ jobs \in Tables
  BY DEF TaskInv, TypesInv
<1>2. ASSUME NEW s \in Slots PROVE JobOK(jobs[s])
  <2>1. jobs[s] \in JobRecord
    BY <1>1 DEF Tables
  <2>2. DOMAIN jobs[s] = DOMAIN Vacant
    BY <2>1 DEF JobRecord, Vacant
  <2>3. /\ jobs[s].id \in {None} \cup Ids /\ jobs[s].parent \in {None} \cup Ids
        /\ jobs[s].result \in {None} \cup Ids
    BY <2>1, BoundsAreNaturals DEF JobRecord, Ids, None
  <2>4. ToSet(jobs[s].dependencies) \subseteq {None} \cup Ids
    <3>1. jobs[s].dependencies \in Rows(0..MaxSerial)
      BY <2>1 DEF JobRecord
    <3>2. \A i \in DOMAIN jobs[s].dependencies : jobs[s].dependencies[i] \in 0..MaxSerial
      BY <3>1, RowFacts
    <3>3. 0..MaxSerial \subseteq {None} \cup Ids
      BY BoundsAreNaturals DEF Ids, None
    <3> QED
      BY <3>2, <3>3 DEF ToSet
  <2>5. /\ jobs[s].next \in 0..jobs[s].count /\ jobs[s].completed \in 0..jobs[s].next
        /\ jobs[s].executing \in 0..jobs[s].next
    <3>1. /\ View[s].count = jobs[s].count /\ View[s].next = jobs[s].next
          /\ View[s].completed = jobs[s].completed /\ View[s].executing = jobs[s].executing
      BY ViewFields
    <3>2. View[s].completed + View[s].executing = View[s].next /\ View[s].next <= View[s].count
      BY <1>1 DEF TreeInv, SlotsSound
    <3>3. /\ jobs[s].count \in Nat /\ jobs[s].next \in Nat
          /\ jobs[s].completed \in Nat /\ jobs[s].executing \in Nat
      <4>1. /\ jobs[s].count \in Counts \cup {0} /\ jobs[s].next \in Nat
            /\ jobs[s].completed \in Nat /\ jobs[s].executing \in Nat
        BY <2>1 DEF JobRecord
      <4>2. \A c \in Counts \cup {0} : c \in Nat
        BY CountsAreNaturals
      <4> QED
        BY <4>1, <4>2, Zenon
    <3> QED
      BY <3>1, <3>2, <3>3
  <2>6. /\ jobs[s].epoch \in 0..MaxEpoch /\ jobs[s].count \in Counts \cup {0}
        /\ jobs[s].children \in Nat /\ jobs[s].refs \in Nat
        /\ {jobs[s].released, jobs[s].bodyDone, jobs[s].cancel, jobs[s].failed} \subseteq BOOLEAN
        /\ jobs[s].status \in Statuses
    BY <2>1 DEF JobRecord
  <2> QED
    BY <2>2, <2>3, <2>4, <2>5, <2>6 DEF JobOK
<1>3. DOMAIN jobs = Slots
  BY <1>1 DEF Tables
<1>4. \A a \in Actors : ToSet(args[a]) \subseteq Slots
  <2> TAKE a \in Actors
  <2>1. args[a] \in Rows(Slots)
    BY <1>1 DEF TypesInv
  <2>2. \A i \in DOMAIN args[a] : args[a][i] \in Slots
    BY <2>1, RowFacts
  <2> QED
    BY <2>2 DEF ToSet
<1>5. query.slot \in Slots \cup {None} /\ query.result \in {None} \cup Ids
  BY <1>1, BoundsAreNaturals DEF TypesInv, Ids, None
<1> QED
  BY <1>1, <1>2, <1>3, <1>4, <1>5 DEF TypesInv, TasksTypeOK, Labels

\* Type correctness of the scheduler (Job and BackgroundTaskScheduler): no slot runs, ends or
\* skips more iterations than its job has.
THEOREM TasksTypesHold == Spec => []TasksTypeOK
BY TaskInvHolds, TypesFollow, PTL

\* With nobody in a critical section, counts that are exact are counted as the property does.
LEMMA CountsFollow == TaskInv /\ epoch = 1 => CountsExact
<1> SUFFICES ASSUME TaskInv, epoch = 1, mutex = Free, NEW s \in Live
             PROVE  LET j == jobs[s]
                        waiting == {w \in Live \X (1..N) :
                                      /\ ~Terminal(jobs[w[1]])
                                      /\ w[2] \in DOMAIN jobs[w[1]].dependencies
                                      /\ jobs[w[1]].dependencies[w[2]] = j.id}
                        owned == {t \in Find(jobs, j.parent) : ~Terminal(jobs[t])}
                    IN /\ j.children = Cardinality(Children(j.id))
                       /\ j.refs = j.children + Cardinality(waiting) + Cardinality(owned)
  BY DEF CountsExact
<1>1. TreeInv(jobs, serial) /\ Exact(jobs) /\ s \in Slots /\ jobs[s].id # None
  BY MutexFree DEF Live
<1>2. Children(jobs[s].id) = Kids(jobs, s)
  BY DEF Children, Live, Kids, Open
<1>3. {w \in Live \X (1..N) :
         /\ ~Terminal(jobs[w[1]]) /\ w[2] \in DOMAIN jobs[w[1]].dependencies
         /\ jobs[w[1]].dependencies[w[2]] = jobs[s].id} = Waits(jobs, s)
  BY DEF Live, Waits, Open
<1>4. {t \in Find(jobs, jobs[s].parent) : ~Terminal(jobs[t])} = Owners(jobs, s)
  BY DEF Find, Owners, Open
<1>5. /\ jobs[s].children = Cardinality(Kids(jobs, s))
      /\ jobs[s].refs = Needs(jobs, s)
  BY <1>1 DEF TreeInv, CountsSound, Exact
<1> QED
  BY <1>2, <1>3, <1>4, <1>5 DEF Needs

\* Until the first reset, refs and children are exactly the children, waiting jobs and parent
\* that still need a job, whenever nobody is in a critical section (submit, join, finish).
THEOREM CountsExactHolds == Spec => [](epoch = 1 => CountsExact)
BY TaskInvHolds, CountsFollow, PTL

\* Until the first reset, when all jobs have ended, none is referenced: collect frees the slots
\* of all that were released. (After a reset it may be otherwise: join.)
THEOREM NothingLeaksBeforeReset == Spec => [](epoch = 1 => NothingLeaks)
<1>1. TaskInv /\ epoch = 1 => NothingLeaks
  <2> SUFFICES ASSUME TaskInv, epoch = 1, mutex = Free, \A s \in Live : Terminal(jobs[s]),
                      NEW s \in Live
               PROVE  jobs[s].refs = 0
    BY DEF NothingLeaks
  <2>1. Exact(jobs) /\ s \in Slots /\ jobs[s].id # None
    BY MutexFree DEF Live
  <2>2. \A t \in Slots : ~Open(jobs[t])
    BY DEF Live, Open
  <2>3. Kids(jobs, s) = {} /\ Waits(jobs, s) = {} /\ Owners(jobs, s) = {}
    BY <2>2 DEF Kids, Waits, Owners
  <2>4. Cardinality({}) = 0
    BY FS_EmptySet, Zenon
  <2> QED
    BY <2>1, <2>3, <2>4 DEF Exact, Needs
<1> QED
  BY <1>1, TaskInvHolds, PTL

\* A live slot that names a parent or a dependency finds it where the table has it.
LEMMA FoundInTable ==
    ASSUME TaskInv, NEW s \in Slots, jobs[s].id # None, NEW t \in Slots,
           View[t].id # None, View[t].id < jobs[s].id
    PROVE  View[t] = jobs[t] /\ jobs[t].id # None
<1>1. jobs[s].id \in 1..serial /\ serial \in Nat
  BY LiveInView DEF TaskInv, TypesInv
<1>2. View[t].id # serial
  BY <1>1
<1> QED
  BY <1>2, ViewFields

\* A terminal job has no child that has not terminated, and a job that has not terminated
\* finds its parent (finish, cancelled).
LEMMA TreeFollows == TaskInv => TreeComplete
<1> SUFFICES ASSUME TaskInv, NEW s \in Live
             PROVE  /\ Terminal(jobs[s]) => Children(jobs[s].id) = {}
                    /\ Open(jobs[s]) /\ jobs[s].parent # None => IsAt(jobs, jobs[s].parent)
  BY DEF TreeComplete
<1>1. TreeInv(View, serial) /\ s \in Slots /\ jobs[s].id # None
  BY DEF TaskInv, Live
<1>2. View[s] = jobs[s] /\ \A t \in Slots : jobs[t].id # None => View[t] = jobs[t]
  BY <1>1, LiveInView
<1>3. ASSUME Terminal(jobs[s]) PROVE Children(jobs[s].id) = {}
  <2>1. View[s].children = 0 /\ View[s].children = Cardinality(Kids(View, s))
    BY <1>1, <1>2, <1>3 DEF TreeInv, SlotsSound, CountsSound
  <2>2. IsFiniteSet(Kids(View, s)) /\ Cardinality(Kids(View, s)) = 0
    BY <2>1, NeedsAreFinite
  <2>3. Kids(View, s) = {}
    BY <2>2, FS_EmptySet, Zenon
  <2>4. Children(jobs[s].id) \subseteq Kids(View, s)
    BY <1>2 DEF Children, Live, Kids, Open
  <2> QED
    BY <2>3, <2>4
<1>4. ASSUME Open(jobs[s]), jobs[s].parent # None PROVE IsAt(jobs, jobs[s].parent)
  <2>1. PICK t \in Slots : View[t].id = jobs[s].parent
    BY <1>1, <1>2, <1>4 DEF TreeInv, ParentsFound
  <2>2. View[s].parent < View[s].id
    BY <1>1, <1>2 DEF TreeInv, IdsSound
  <2>3. View[t].id # None /\ View[t].id < jobs[s].id
    BY <1>2, <1>4, <2>1, <2>2
  <2>4. jobs[t].id = jobs[s].parent
    BY <1>1, <2>1, <2>3, FoundInTable
  <2> QED
    BY <1>4, <2>4 DEF IsAt, Find
<1> QED
  BY <1>3, <1>4

\* "A parent's completion includes all descendants", in every state.
THEOREM TreeCompleteHolds == Spec => []TreeComplete
BY TaskInvHolds, TreeFollows, PTL

\* A job that has not ended finds all it depends on, and runs only after their success.
LEMMA DependenciesFollow == TaskInv => DependenciesHold
<1> SUFFICES ASSUME TaskInv, NEW s \in Live, Open(jobs[s]),
                    NEW id \in ToSet(jobs[s].dependencies) \ {None}
             PROVE  /\ IsAt(jobs, id)
                    /\ jobs[s].executing > 0 => jobs[Slot(jobs, id)].status = "succeeded"
  BY DEF DependenciesHold
<1>1. TreeInv(View, serial) /\ s \in Slots /\ jobs[s].id # None
  BY DEF TaskInv, Live
<1>2. View[s] = jobs[s] /\ \A t \in Slots : jobs[t].id # None => View[t] = jobs[t]
  BY <1>1, LiveInView
<1>3. PICK i \in DOMAIN jobs[s].dependencies : jobs[s].dependencies[i] = id
  BY DEF ToSet
<1>4. id # None /\ id < View[s].id
  BY <1>1, <1>2, <1>3 DEF TreeInv, IdsSound
<1>5. PICK t \in Slots : /\ View[t].id = id
                         /\ View[s].executing > 0 => View[t].status = "succeeded"
  BY <1>1, <1>2, <1>3, <1>4 DEF TreeInv, DependenciesFound
<1>6. View[t] = jobs[t] /\ jobs[t].id # None
  BY <1>1, <1>2, <1>4, <1>5, FoundInTable
<1>7. t \in Find(jobs, id)
  BY <1>4, <1>5, <1>6 DEF Find
<1>8. Slot(jobs, id) \in Find(jobs, id)
  BY <1>7 DEF Slot
<1>9. Slot(jobs, id) = t
  <2>1. Slot(jobs, id) \in Slots /\ jobs[Slot(jobs, id)].id = id
    BY <1>4, <1>8 DEF Find
  <2>2. View[Slot(jobs, id)].id = View[t].id
    BY <1>2, <1>4, <1>5, <2>1
  <2> QED
    BY <1>1, <1>4, <1>5, <2>1, <2>2 DEF TreeInv, IdsSound
<1>10. IsAt(jobs, id)
  BY <1>7 DEF IsAt
<1> QED
  BY <1>2, <1>5, <1>6, <1>9, <1>10

\* No iteration of a job runs before everything it depends on has succeeded, and what it
\* depends on keeps its slot until the job ends (ready, collect).
THEOREM DependenciesHoldAlways == Spec => []DependenciesHold
BY TaskInvHolds, DependenciesFollow, PTL

\* A job that succeeded has no child that did not.
LEMMA FailureFollows == TaskInv => FailureReachesParent
<1> SUFFICES ASSUME TaskInv, NEW s \in Live, jobs[s].status = "succeeded",
                    NEW t \in Live, jobs[t].parent = jobs[s].id
             PROVE  jobs[t].status = "succeeded"
  BY DEF FailureReachesParent
<1>1. /\ TreeInv(View, serial) /\ s \in Slots /\ t \in Slots
      /\ jobs[s].id # None /\ jobs[t].id # None
  BY DEF TaskInv, Live
<1>2. View[s] = jobs[s] /\ View[t] = jobs[t] /\ jobs[t] \in JobRecord
  BY <1>1, LiveInView DEF TaskInv, TypesInv, Tables
<1>3. TreeComplete
  BY TreeFollows
<1>4. Terminal(jobs[s])
  BY DEF Terminal
<1>5. Terminal(jobs[t])
  BY <1>1, <1>3, <1>4 DEF TreeComplete, Children
<1>6. jobs[t].status \notin {"failed", "cancelled"}
  BY <1>1, <1>2 DEF TreeInv, BlameSound
<1> QED
  BY <1>5, <1>6 DEF Terminal

\* A job never succeeds over a child that failed or was cancelled (finish).
THEOREM FailureReachesParentHolds == Spec => []FailureReachesParent
BY TaskInvHolds, FailureFollows, PTL

\* A query answers with the result of the job its handle names (task_result).
THEOREM QueryHonestHolds == Spec => []QueryHonest
<1>1. TaskInv => QueryHonest
  BY DEF TaskInv, QueryInv, QueryHonest, Answered
<1> QED
  BY <1>1, TaskInvHolds, PTL

\* When reset has returned, each job of an older epoch is cancelled and released, also one
\* whose submission was under way.
THEOREM ResetReachesAllHolds == Spec => []ResetReachesAll
<1>1. TaskInv => ResetReachesAll
  <2> SUFFICES ASSUME TaskInv, mutex = Free, pc[Host] = "ready",
                      NEW s \in Live, jobs[s].epoch < epoch
               PROVE  jobs[s].cancel /\ jobs[s].released
    BY DEF ResetReachesAll
  <2>1. s \in Slots /\ jobs[s].id # None /\ ResetInv
    BY DEF Live, TaskInv
  <2>2. \A a \in Actors : pc[a] # "recheck"
    BY MutexFree DEF InCall
  <2> QED
    BY <2>1, <2>2 DEF ResetInv
<1> QED
  BY <1>1, TaskInvHolds, PTL

\* No step takes back the end of a job, or its slot from a handle that was not released
\* unless the job's parent ends.
LEMMA LawfulFinal ==
    ASSUME TaskInv, Lawful, NEW s \in Live, Terminal(jobs[s])
    PROVE  IF jobs'[s].id = jobs[s].id
             THEN jobs'[s].status = jobs[s].status /\ jobs'[s].result = jobs[s].result
             ELSE jobs[s].released \/ ParentEnds(s)
                  \/ \E a \in Actors : Release(a, jobs[s].id)
<1>1. s \in Slots /\ jobs[s].id # None
  BY DEF Live
<1>2. ASSUME NEW R, Stays(jobs, jobs', epoch, R)
      PROVE  /\ jobs'[s].id = jobs[s].id =>
                  jobs'[s].status = jobs[s].status /\ jobs'[s].result = jobs[s].result
             /\ jobs'[s].id # jobs[s].id => jobs[s].released \/ ParentEnds(s) \/ s \in R
  BY <1>1, <1>2 DEF Stays, EndsIn, ParentEnds
<1>3. CASE Stays(jobs, jobs', epoch, {})
  BY <1>2, <1>3
<1>4. CASE \E a \in Actors, t \in Slots :
             Release(a, jobs[t].id) /\ Stays(jobs, jobs', epoch, {t})
  BY <1>2, <1>4
<1>5. CASE \A t \in Slots : jobs[t].id # None => jobs'[t] = jobs[t]
  BY <1>1, <1>5
<1> QED
  BY <1>3, <1>4, <1>5 DEF Lawful

\* A terminal job keeps its status and result as long as its handle names it, and loses its
\* slot only after or with its release, or, a child, in the step in which its parent ends
\* (finish, collect, release).
THEOREM FinalIsKeptHolds == Spec => FinalIsKept
<1> DEFINE Final ==
             \A s \in Live : Terminal(jobs[s]) =>
               IF jobs'[s].id = jobs[s].id
                 THEN jobs'[s].status = jobs[s].status /\ jobs'[s].result = jobs[s].result
                 ELSE jobs[s].released \/ ParentEnds(s)
                      \/ \E a \in Actors : Release(a, jobs[s].id)
<1>1. TaskInv /\ [Next]_vars => [Final]_vars
  <2> SUFFICES ASSUME TaskInv, Next PROVE Final
    OBVIOUS
  <2>1. Lawful
    BY HostKeeps, WorkerKeeps DEF Next
  <2>2. \A s \in Live : Terminal(jobs[s]) =>
               IF jobs'[s].id = jobs[s].id
                 THEN jobs'[s].status = jobs[s].status /\ jobs'[s].result = jobs[s].result
                 ELSE jobs[s].released \/ ParentEnds(s)
                      \/ \E a \in Actors : Release(a, jobs[s].id)
    BY <2>1, LawfulFinal
  <2> QED
    BY <2>2
<1> QED
  BY <1>1, TaskInvHolds, PTL DEF Spec, FinalIsKept

-----------------------------------------------------------------------------
(* No job is left ready to end.                                            *)

\* What a job counts.
LEMMA CountFacts ==
    ASSUME NEW j \in JobRecord
    PROVE  /\ j.count \in Nat /\ j.next \in Nat /\ j.completed \in Nat
           /\ j.executing \in Nat /\ j.children \in Nat
<1>1. j.count \in Nat
  <2>1. j.count \in Counts \cup {0}
    BY DEF JobRecord
  <2>2. Counts \cup {0} \in SUBSET Nat
    BY NAssumption, CountsAreNaturals
  <2> QED
    BY <2>1, <2>2
<1>2. j.next \in Nat /\ j.completed \in Nat /\ j.executing \in Nat /\ j.children \in Nat
  BY DEF JobRecord
<1> QED
  BY <1>1, <1>2

\* A job whose body, iterations and children are done has ended, and the last iteration ends
\* the body.
Settled(j) ==
    /\ j.bodyDone /\ j.executing = 0 /\ j.children = 0 => Terminal(j)
    /\ j.count > 0 /\ j.completed = j.count => j.bodyDone

AllSettled(js) == \A t \in Slots : Settled(js[t])

\* In the middle of a climb only the slot to be looked at may not be.
SettledBut(acc) ==
    /\ \A t \in Slots : t \notin acc.at => Settled(acc.jobs[t])
    /\ \A t \in acc.at :
         /\ acc.jobs[t].id # None
         /\ acc.jobs[t].count > 0 /\ acc.jobs[t].completed = acc.jobs[t].count => acc.jobs[t].bodyDone
    /\ \A t, u \in acc.at : t = u

Ended(js) == {t \in Slots : Terminal(js[t])}

\* One level of it: what was not settled is, or the climb has come to an ancestor.
LEMMA LevelSettles ==
    ASSUME NEW n, NEW acc \in [jobs : Tables, at : SUBSET Slots], TreeInv(acc.jobs, n),
           SettledBut(acc)
    PROVE  /\ SettledBut(FinishLevel(acc))
           /\ Ended(acc.jobs) \subseteq Ended(FinishLevel(acc).jobs)
           /\ \/ FinishLevel(acc).at = {}
              \/ \E x \in Slots \ Ended(acc.jobs) : x \in Ended(FinishLevel(acc).jobs)
<1>1. CASE acc.at = {}
  BY <1>1 DEF FinishLevel
<1>2. CASE acc.at # {}
  <2> DEFINE x == CHOOSE x \in acc.at : TRUE
  <2>1. x \in acc.at /\ x \in Slots
    BY <1>2
  <2> HIDE DEF x
  <2>2. acc.at = {x}
    BY <2>1 DEF SettledBut
  <2>3. CASE ~Finishable(acc.jobs[x])
    <3>1. FinishLevel(acc) = [acc EXCEPT !.at = {}]
      BY <1>2, <2>3 DEF FinishLevel, x
    <3>2. Settled(acc.jobs[x])
      BY <2>1, <2>3 DEF SettledBut, Settled, Finishable, Open
    <3>3. \A t \in Slots : Settled(acc.jobs[t])
      BY <2>2, <3>2 DEF SettledBut
    <3> QED
      BY <3>1, <3>3 DEF SettledBut
  <2>4. CASE Finishable(acc.jobs[x])
    <3> DEFINE T == Terminate(acc.jobs, x)
               F == Find(acc.jobs, acc.jobs[x].parent)
    <3>1. FinishLevel(acc) = [jobs |-> T, at |-> F]
      BY <1>2, <2>4 DEF FinishLevel, x
    <3>2. acc.jobs[x] \in JobRecord /\ Open(acc.jobs[x])
      BY <2>1, <2>4 DEF Tables, Finishable
    <3>3. T[x].status \in {"failed", "cancelled", "succeeded"}
      <4>1. T[x] = [acc.jobs[x] EXCEPT !.status = FinalStatus(acc.jobs[x])]
        BY <2>1 DEF Terminate
      <4>2. T[x].status = FinalStatus(acc.jobs[x])
        BY <3>2, <4>1 DEF JobRecord
      <4> QED
        BY <4>2 DEF FinalStatus
    <3>4. /\ T[x].count = acc.jobs[x].count /\ T[x].completed = acc.jobs[x].completed
          /\ T[x].bodyDone = acc.jobs[x].bodyDone /\ T[x].id = acc.jobs[x].id
      <4>1. T[x] = [acc.jobs[x] EXCEPT !.status = FinalStatus(acc.jobs[x])]
        BY <2>1 DEF Terminate
      <4> QED
        BY <3>2, <4>1 DEF JobRecord
    <3>5. ASSUME NEW t \in Slots, t # x
          PROVE  /\ T[t].status = acc.jobs[t].status /\ T[t].id = acc.jobs[t].id
                 /\ T[t].executing = acc.jobs[t].executing /\ T[t].bodyDone = acc.jobs[t].bodyDone
                 /\ T[t].count = acc.jobs[t].count /\ T[t].completed = acc.jobs[t].completed
                 /\ t \notin F => T[t].children = acc.jobs[t].children
      <4> DEFINE r == acc.jobs[t].refs - ReferencesTo(acc.jobs[t], acc.jobs[x])
                 c == ChildrenWithout(acc.jobs[t], acc.jobs[x])
                 l == acc.jobs[t].released \/ IsChild(acc.jobs[t], acc.jobs[x])
                 b == acc.jobs[t].cancel \/ Blamed(acc.jobs[t], acc.jobs[x])
                 g == acc.jobs[t].failed \/ (Blamed(acc.jobs[t], acc.jobs[x]) /\ acc.jobs[x].failed)
      <4>1. T[t] = [acc.jobs[t] EXCEPT !.refs = r, !.children = c, !.released = l,
                                       !.cancel = b, !.failed = g]
        BY <3>5 DEF Terminate
      <4>2. acc.jobs[t] \in JobRecord
        BY DEF Tables
      <4>3. t \notin F => c = acc.jobs[t].children
        <5> SUFFICES ASSUME t \notin F PROVE c = acc.jobs[t].children
          OBVIOUS
        <5>1. ~IsOwner(acc.jobs[t], acc.jobs[x])
          BY DEF IsOwner, Find
        <5>2. acc.jobs[t].children \in Nat
          BY <4>2 DEF JobRecord
        <5> QED
          BY <5>1, <5>2 DEF ChildrenWithout, Bit
      <4> HIDE DEF r, c, l, b, g, T, F
      <4> QED
        BY <4>1, <4>2, <4>3 DEF JobRecord
    <3>6. \A t \in F : t \in Slots /\ acc.jobs[t].id # None
      BY DEF Find
    <3>7. \A t, u \in F : t = u
      BY DEF Find, TreeInv, IdsSound
    <3> HIDE DEF T, F
    <3>8. \A t \in Slots : t # x => Settled(acc.jobs[t])
      BY <2>2 DEF SettledBut
    <3>9. acc.jobs[x].count > 0 /\ acc.jobs[x].completed = acc.jobs[x].count => acc.jobs[x].bodyDone
      BY <2>1 DEF SettledBut
    <3>10. Terminal(T[x]) /\ Settled(T[x])
      BY <3>3, <3>4, <3>9 DEF Terminal, Settled
    <3>11. \A t \in Slots : t # x /\ t \notin F => Settled(T[t])
      BY <3>5, <3>8 DEF Settled, Terminal
    <3>12. \A t \in F : /\ T[t].id # None
                        /\ T[t].count > 0 /\ T[t].completed = T[t].count => T[t].bodyDone
      <4> TAKE t \in F
      <4>1. t \in Slots /\ acc.jobs[t].id # None
        BY <3>6
      <4>2. CASE t = x
        BY <3>4, <3>9, <4>1, <4>2
      <4>3. CASE t # x
        BY <3>5, <3>8, <4>1, <4>3 DEF Settled
      <4> QED
        BY <4>2, <4>3
    <3>13. \A t \in Slots : t # x => (Terminal(T[t]) <=> Terminal(acc.jobs[t]))
      BY <3>5 DEF Terminal
    <3>14. Ended(acc.jobs) \subseteq Ended(T) /\ x \in Ended(T) /\ x \notin Ended(acc.jobs)
      BY <2>1, <3>2, <3>10, <3>13 DEF Ended, Open
    <3>15. SettledBut(FinishLevel(acc))
      BY <3>1, <3>7, <3>10, <3>11, <3>12 DEF SettledBut
    <3> QED
      BY <2>1, <3>1, <3>14, <3>15
  <2> QED
    BY <2>3, <2>4
<1> QED
  BY <1>1, <1>2

\* finish leaves nothing that could end, also when it stops at a last ancestor: it takes as many
\* steps as there are slots.
LEMMA FinishSettles ==
    ASSUME NEW js, NEW n, TreeInv(js, n), NEW s \in Slots, js[s].id # None,
           \A t \in Slots : t # s => Settled(js[t]),
           js[s].count > 0 /\ js[s].completed = js[s].count => js[s].bodyDone
    PROVE  /\ AllSettled(Finish(js, s))
           /\ Ended(js) \subseteq Ended(Finish(js, s))
           /\ IF Finishable(js[s]) THEN s \in Ended(Finish(js, s)) ELSE Finish(js, s) = js
<1>1. PICK f : Climbing(f, js, s, n)
  BY FinishClimbs
<1>2. N \in Nat /\ N >= 1 /\ 0 \in 0..N /\ N \in 0..N
  BY NAssumption
<1>3. \A k \in 0..N : f[k] \in [jobs : Tables, at : SUBSET Slots] /\ TreeInv(f[k].jobs, n)
  BY <1>1 DEF Climbing, Finished
<1>4. \A k \in 1..N : k \in 0..N /\ k - 1 \in 0..N /\ f[k] = FinishLevel(f[k - 1])
  <2>1. \A k \in 1..N : k \in 0..N /\ k - 1 \in 0..N
    BY <1>2
  <2>2. \A k \in 1..N : f[k] = FinishLevel(f[k - 1])
    BY <1>1, Zenon DEF Climbing
  <2> QED
    BY <2>1, <2>2
<1>5. f[0] = [jobs |-> js, at |-> {s}] /\ Finish(js, s) = f[N].jobs
  BY <1>1 DEF Climbing
<1>6. SettledBut(f[0])
  BY <1>5 DEF SettledBut
<1> DEFINE Enough(k) == f[k].at = {} \/ Cardinality(Ended(f[k].jobs)) >= k
           First(k) == k >= 1 => IF Finishable(js[s]) THEN s \in Ended(f[k].jobs)
                                 ELSE f[k] = [jobs |-> js, at |-> {}]
           S == {k \in 0..N : /\ SettledBut(f[k]) /\ Ended(js) \subseteq Ended(f[k].jobs)
                              /\ Enough(k) /\ First(k)}
<1>7. \A ks : IsFiniteSet(Ended(ks)) /\ Cardinality(Ended(ks)) \in Nat
  <2> TAKE ks
  <2>1. IsFiniteSet(Slots)
    BY <1>2, FS_Interval DEF Slots
  <2>2. Ended(ks) \in SUBSET Slots
    BY DEF Ended
  <2>3. IsFiniteSet(Ended(ks))
    BY <2>1, <2>2, FS_Subset, Zenon
  <2> QED
    BY <2>3, FS_CardinalityType, Zenon
<1>8. 0 \in S
  <2>1. Ended(js) \subseteq Ended(f[0].jobs)
    BY <1>5
  <2>2. Enough(0)
    BY <1>7
  <2>3. First(0)
    OBVIOUS
  <2> HIDE DEF Enough, First
  <2> QED
    BY <1>2, <1>6, <2>1, <2>2, <2>3
<1>9. ASSUME NEW k \in 1..N, k - 1 \in S PROVE k \in S
  <2> DEFINE acc == f[k - 1]
             E == Ended(acc.jobs)
             D == Ended(f[k].jobs)
  <2>1. /\ acc \in [jobs : Tables, at : SUBSET Slots] /\ TreeInv(acc.jobs, n) /\ SettledBut(acc)
        /\ Ended(js) \subseteq E /\ Enough(k - 1) /\ First(k - 1)
    BY <1>3, <1>4, <1>9
  <2>2. f[k] = FinishLevel(acc)
    BY <1>4
  <2> HIDE DEF acc
  <2>3. /\ SettledBut(f[k]) /\ E \subseteq D
        /\ f[k].at = {} \/ \E x \in Slots \ E : x \in D
    BY <2>1, <2>2, LevelSettles
  <2>4. Enough(k)
    <3> SUFFICES ASSUME f[k].at # {} PROVE Cardinality(D) >= k
      OBVIOUS
    <3>1. PICK x \in Slots \ E : x \in D
      BY <2>3
    <3>2. acc.at # {}
      BY <2>2 DEF FinishLevel
    <3>3. Cardinality(E) >= k - 1
      BY <2>1, <3>2 DEF acc
    <3>4. Cardinality(E \cup {x}) = Cardinality(E) + 1
      BY <1>7, <3>1, FS_AddElement
    <3>5. E \cup {x} \in SUBSET D
      BY <2>3, <3>1
    <3>6. Cardinality(E \cup {x}) <= Cardinality(D)
      BY <1>7, <3>5, FS_Subset, Zenon
    <3>7. Cardinality(E) \in Nat /\ Cardinality(D) \in Nat
      BY <1>7
    <3> HIDE DEF E, D
    <3> QED
      BY <3>3, <3>4, <3>6, <3>7
  <2>5. First(k)
    <3>1. CASE k = 1
      <4>1. acc = [jobs |-> js, at |-> {s}]
        BY <1>5, <3>1 DEF acc
      <4>2. (CHOOSE x \in {s} : TRUE) = s
        OBVIOUS
      <4>3. CASE Finishable(js[s])
        <5>1. f[k].jobs = Terminate(js, s)
          BY <2>2, <4>1, <4>2, <4>3 DEF FinishLevel
        <5>2. Terminate(js, s)[s] = [js[s] EXCEPT !.status = FinalStatus(js[s])]
          BY DEF Terminate
        <5>3. js[s] \in JobRecord
          BY DEF TreeInv, Tables
        <5>4. Terminate(js, s)[s].status = FinalStatus(js[s])
          BY <5>2, <5>3 DEF JobRecord
        <5>5. Terminal(f[k].jobs[s])
          BY <5>1, <5>4 DEF Terminal, FinalStatus
        <5> QED
          BY <4>3, <5>5 DEF Ended
      <4>4. CASE ~Finishable(js[s])
        BY <2>2, <4>1, <4>2, <4>4 DEF FinishLevel
      <4> QED
        BY <4>3, <4>4
    <3>2. CASE k # 1
      <4>1. k - 1 >= 1
        BY <3>2
      <4>2. CASE Finishable(js[s])
        BY <2>1, <2>3, <4>1, <4>2 DEF acc
      <4>3. CASE ~Finishable(js[s])
        <5>1. acc = [jobs |-> js, at |-> {}]
          BY <2>1, <4>1, <4>3 DEF acc
        <5> QED
          BY <2>2, <4>3, <5>1 DEF FinishLevel
      <4> QED
        BY <4>2, <4>3
    <3> QED
      BY <3>1, <3>2
  <2>6. Ended(js) \subseteq D
    BY <2>1, <2>3
  <2>7. k \in 0..N
    BY <1>4
  <2> HIDE DEF Enough, First
  <2> QED
    BY <2>3, <2>4, <2>5, <2>6, <2>7
<1>10. N \in S
  <2> HIDE DEF S
  <2> QED
    BY <1>2, <1>8, <1>9, InductionUpTo
<1>11. SettledBut(f[N]) /\ Ended(js) \subseteq Ended(f[N].jobs) /\ Enough(N) /\ First(N)
  BY <1>10
<1>12. \A t \in Slots : Settled(f[N].jobs[t])
  <2>1. CASE f[N].at = {}
    BY <1>11, <2>1 DEF SettledBut
  <2>2. CASE f[N].at # {}
    <3>1. Cardinality(Ended(f[N].jobs)) >= N
      BY <1>11, <2>2
    <3>2. IsFiniteSet(Slots) /\ Cardinality(Slots) = N
      BY <1>2, FS_Interval DEF Slots
    <3>3. Ended(f[N].jobs) \in SUBSET Slots
      BY DEF Ended
    <3>4. Cardinality(Ended(f[N].jobs)) <= N
      BY <3>2, <3>3, FS_Subset
    <3>5. Cardinality(Ended(f[N].jobs)) = N
      BY <1>2, <1>7, <3>1, <3>4
    <3>6. Ended(f[N].jobs) = Slots
      BY <3>2, <3>3, <3>5, FS_Subset
    <3>7. \A t \in Slots : Terminal(f[N].jobs[t])
      BY <3>6 DEF Ended
    <3> TAKE t \in Slots
    <3>8. CASE t \in f[N].at
      BY <1>11, <3>7, <3>8 DEF SettledBut, Settled
    <3>9. CASE t \notin f[N].at
      BY <1>11, <3>9 DEF SettledBut
    <3> QED
      BY <3>8, <3>9
  <2> QED
    BY <2>1, <2>2
<1>13. AllSettled(Finish(js, s))
  BY <1>5, <1>12 DEF AllSettled
<1>14. IF Finishable(js[s]) THEN s \in Ended(Finish(js, s)) ELSE Finish(js, s) = js
  BY <1>2, <1>5, <1>11
<1> QED
  BY <1>5, <1>11, <1>13, <1>14

-----------------------------------------------------------------------------
(* What a scan that finds nothing has seen.                                *)

\* An open job that waits for another open one.
HeldIn(js, s) ==
    \/ js[s].children > 0
    \/ \E i \in DOMAIN js[s].dependencies, t \in Slots :
         /\ js[s].dependencies[i] # None /\ js[t].id = js[s].dependencies[i] /\ Open(js[t])

\* A job that the scan closes has ended, or waits for its children.
LEMMA CloseSettles ==
    ASSUME NEW js, NEW n, TreeInv(js, n), NEW s \in Slots, AllSettled(js), Open(js[s]),
           NEW c \in BOOLEAN, NEW f \in BOOLEAN
    PROVE  /\ AllSettled(Close(js, s, c, f)) /\ Ended(js) \subseteq Ended(Close(js, s, c, f))
           /\ s \notin Ended(Close(js, s, c, f)) /\ js[s].executing = 0 =>
                Marked(js, Close(js, s, c, f)) /\ HeldIn(js, s)
<1> DEFINE ks == [js EXCEPT ![s].bodyDone = TRUE,
                            ![s].cancel = @ \/ c, ![s].failed = @ \/ f]
           cc == js[s].cancel \/ c
           ff == js[s].failed \/ f
<1>1. js \in Tables /\ js[s] \in JobRecord
  BY DEF TreeInv, Tables
<1>2. ks = MarkAt(js, s, TRUE, cc, ff, js[s].released)
  <2>1. [js[s] EXCEPT !.bodyDone = TRUE, !.cancel = cc, !.failed = ff] =
        [js[s] EXCEPT !.bodyDone = TRUE, !.cancel = cc, !.failed = ff, !.released = js[s].released]
    BY <1>1 DEF JobRecord
  <2> QED
    BY <1>1, <2>1 DEF Tables, MarkAt
<1>3. cc \in BOOLEAN /\ ff \in BOOLEAN /\ js[s].released \in BOOLEAN
  BY <1>1 DEF JobRecord
<1>4. (js[s].cancel => cc) /\ (js[s].released => js[s].released)
  OBVIOUS
<1>5. Close(js, s, c, f) = Finish(ks, s)
  BY DEF Close
<1> HIDE DEF ks, cc, ff
<1>6. Marked(js, ks)
  BY <1>1, <1>2, <1>3, <1>4, MarkOne
<1>7. ks[s].bodyDone /\ \A t \in Slots : t # s => ks[t] = js[t]
  <2>1. ks[s] = [js[s] EXCEPT !.bodyDone = TRUE, !.cancel = cc, !.failed = ff,
                              !.released = js[s].released]
    BY <1>1, <1>2 DEF Tables, MarkAt
  <2>2. ks[s].bodyDone
    BY <1>1, <2>1 DEF JobRecord
  <2> QED
    BY <1>1, <1>2, <2>2 DEF Tables, MarkAt
<1>8. TreeInv(ks, n)
  BY <1>6, MarkedKeeps
<1>9. /\ ks[s].id = js[s].id /\ ks[s].executing = js[s].executing
      /\ ks[s].children = js[s].children /\ Open(ks[s]) /\ ks[s].id # None
  BY <1>6 DEF Marked, Open, Terminal
<1>10. /\ AllSettled(Finish(ks, s)) /\ Ended(ks) \subseteq Ended(Finish(ks, s))
       /\ IF Finishable(ks[s]) THEN s \in Ended(Finish(ks, s)) ELSE Finish(ks, s) = ks
  BY <1>7, <1>8, <1>9, FinishSettles DEF AllSettled
<1>11. Ended(js) = Ended(ks)
  BY <1>6 DEF Marked, Ended, Terminal
<1>12. ASSUME s \notin Ended(Finish(ks, s)), js[s].executing = 0
       PROVE  Marked(js, Finish(ks, s)) /\ HeldIn(js, s)
  <2>1. ~Finishable(ks[s]) /\ Finish(ks, s) = ks
    BY <1>10, <1>12
  <2>2. js[s].children # 0 /\ js[s].children \in Nat
    BY <1>1, <1>7, <1>9, <1>12, <2>1 DEF Finishable, JobRecord
  <2> QED
    BY <1>6, <2>1, <2>2 DEF HeldIn
<1> QED
  BY <1>5, <1>10, <1>11, <1>12

\* The first of some places in a row.
LEMMA FirstPlace ==
    ASSUME NEW P \in SUBSET (1..N), P # {}
    PROVE  Min(P) \in P
<1>1. P \in SUBSET Nat
  BY NAssumption
<1>2. \E x \in P : \A y \in P : x <= y
  BY <1>1, LeastMember
<1> QED
  BY <1>2 DEF Min

\* Nobody is in a body.
AtEase(js) == \A t \in Slots : js[t].executing = 0

\* A slot that a scan visits without running it, and without ending anything, is held.
LEMMA VisitSettles ==
    ASSUME NEW js, NEW n, TreeInv(js, n), NEW s \in Slots, AllSettled(js), Open(js[s])
    PROVE  /\ AllSettled(Visit(js, s)) /\ Ended(js) \subseteq Ended(Visit(js, s))
           /\ Ended(Visit(js, s)) = Ended(js) /\ AtEase(js) /\ ~Runnable(js, s) =>
                Marked(js, Visit(js, s)) /\ HeldIn(js, s)
<1>1. /\ js \in Tables /\ js[s] \in JobRecord /\ s \notin Ended(js)
      /\ AtEase(js) => js[s].executing = 0
  BY DEF TreeInv, Tables, Ended, Open, AtEase
<1>2. \A c, f \in BOOLEAN :
        /\ AllSettled(Close(js, s, c, f)) /\ Ended(js) \subseteq Ended(Close(js, s, c, f))
        /\ Ended(Close(js, s, c, f)) = Ended(js) /\ AtEase(js) =>
             Marked(js, Close(js, s, c, f)) /\ HeldIn(js, s)
  BY <1>1, CloseSettles
<1>3. Marked(js, js)
  BY <1>1 DEF Marked
<1>4. CASE Cancelled(js, s)
  BY <1>2, <1>4 DEF Visit
<1>5. CASE ~Cancelled(js, s) /\ Unmet(js, js[s]) # {}
  <2> DEFINE b == Blocker(js, js[s])
             i == Min(Unmet(js, js[s]))
             id == js[s].dependencies[i]
  <2>1. CASE b \in {"cancelled", "failed"}
    <3>1. Visit(js, s) = Close(js, s, TRUE, b = "failed")
      BY <1>5, <2>1 DEF Visit
    <3>2. (b = "failed") \in BOOLEAN
      OBVIOUS
    <3> HIDE DEF b
    <3> QED
      BY <1>2, <3>1, <3>2
  <2>2. CASE b \notin {"cancelled", "failed"}
    <3>1. Visit(js, s) = js
      BY <1>5, <2>2 DEF Visit
    <3>2. js[s].dependencies \in Rows(0..MaxSerial)
      BY <1>1 DEF JobRecord
    <3>3. DOMAIN js[s].dependencies \in SUBSET (1..N)
      BY <3>2, RowFacts
    <3>4. Unmet(js, js[s]) \in SUBSET (1..N)
      BY <3>3 DEF Unmet
    <3>5. i \in Unmet(js, js[s])
      BY <1>5, <3>4, FirstPlace
    <3>6. i \in DOMAIN js[s].dependencies /\ ~Met(js, id)
      BY <3>5 DEF Unmet
    <3>7. b = IF IsAt(js, id) THEN js[Slot(js, id)].status ELSE "failed"
      BY DEF Blocker
    <3> HIDE DEF b, i, id
    <3>8. id # None /\ \A t \in Find(js, id) : js[t].status # "succeeded"
      BY <3>6 DEF Met
    <3>9. IsAt(js, id) /\ b = js[Slot(js, id)].status
      BY <2>2, <3>7
    <3>10. Slot(js, id) \in Find(js, id)
      BY <3>9 DEF IsAt, Slot
    <3>11. Slot(js, id) \in Slots /\ js[Slot(js, id)].id = id
      BY <3>8, <3>10 DEF Find
    <3>12. Open(js[Slot(js, id)])
      BY <2>2, <3>8, <3>9, <3>10, <3>11 DEF Open, Terminal
    <3>13. HeldIn(js, s)
      BY <3>6, <3>8, <3>11, <3>12 DEF HeldIn, id
    <3> QED
      BY <1>3, <3>1, <3>13
  <2> QED
    BY <2>1, <2>2
<1>6. CASE ~Cancelled(js, s) /\ Unmet(js, js[s]) = {} /\ js[s].count = 0
  BY <1>2, <1>6 DEF Visit
<1>7. CASE ~Cancelled(js, s) /\ Unmet(js, js[s]) = {} /\ js[s].count # 0
  <2>1. Visit(js, s) = js
    BY <1>7 DEF Visit
  <2>2. ASSUME AtEase(js), ~Runnable(js, s) PROVE HeldIn(js, s)
    <3>1. ~(js[s].next < js[s].count)
      BY <1>7, <2>2 DEF Runnable
    <3>2. js[s].completed + js[s].executing = js[s].next /\ js[s].next <= js[s].count
      BY DEF TreeInv, SlotsSound
    <3>3. js[s].count \in Nat /\ js[s].next \in Nat /\ js[s].completed \in Nat
      BY <1>1, CountFacts
    <3>4. js[s].executing = 0
      BY <1>1, <2>2
    <3>5. js[s].completed = js[s].count /\ js[s].count > 0
      BY <1>7, <3>1, <3>2, <3>3, <3>4
    <3>6. js[s].bodyDone
      BY <3>5 DEF AllSettled, Settled
    <3>7. js[s].children # 0
      BY <3>4, <3>6 DEF AllSettled, Settled, Open
    <3>8. js[s].children \in Nat
      BY <1>1 DEF JobRecord
    <3> QED
      BY <3>7, <3>8 DEF HeldIn
  <2> QED
    BY <1>3, <2>1, <2>2
<1> QED
  BY <1>4, <1>5, <1>6, <1>7

\* Marks change nothing of it.
LEMMA MarkedHeld ==
    ASSUME NEW js, NEW ks, Marked(js, ks), NEW s \in Slots
    PROVE  (HeldIn(ks, s) <=> HeldIn(js, s)) /\ (Open(ks[s]) <=> Open(js[s])) /\ Ended(ks) = Ended(js)
BY DEF Marked, HeldIn, Open, Terminal, Ended

\* So it is with one slot of a scan.
LEMMA ScanSlotSettles ==
    ASSUME NEW js, NEW n, NEW acc \in ScanFrom(js, n), NEW s \in Slots, AllSettled(acc.jobs)
    PROVE  LET after == ScanSlot(acc, s) IN
           /\ AllSettled(after.jobs) /\ Ended(acc.jobs) \subseteq Ended(after.jobs)
           /\ after.picked = None => acc.picked = None
           /\ after.picked = None /\ Ended(after.jobs) = Ended(acc.jobs) /\ AtEase(acc.jobs) =>
                Marked(acc.jobs, after.jobs) /\ (Open(acc.jobs[s]) => HeldIn(acc.jobs, s))
<1> DEFINE after == ScanSlot(acc, s)
<1>1. acc.jobs \in Tables /\ acc.picked \in Slots \cup {None} /\ TreeInv(acc.jobs, n)
      /\ acc \in [jobs : Tables, picked : Slots \cup {None}] /\ acc.jobs[s] \in JobRecord
  BY DEF ScanFrom, Tables
<1>2. Marked(acc.jobs, acc.jobs)
  BY <1>1 DEF Marked
<1>3. CASE acc.picked # None \/ ~Open(acc.jobs[s])
  BY <1>2, <1>3 DEF ScanSlot
<1>4. CASE acc.picked = None /\ Open(acc.jobs[s]) /\ Runnable(acc.jobs, s)
  <2> DEFINE B == Begin(acc.jobs, s)
             nx == acc.jobs[s].next + 1
             ex == acc.jobs[s].executing + 1
  <2>1. after = [jobs |-> B, picked |-> s]
    BY <1>4 DEF ScanSlot, Begin
  <2>2. \A t \in Slots : t # s => B[t] = acc.jobs[t]
    BY <1>1 DEF Begin, Tables
  <2>3. B[s] = [acc.jobs[s] EXCEPT !.next = nx, !.executing = ex, !.status = "running"]
    BY <1>1 DEF Begin, Tables
  <2>4. ex # 0
    BY <1>1 DEF JobRecord
  <2> HIDE DEF B, nx, ex
  <2>5. /\ B[s].executing # 0 /\ B[s].count = acc.jobs[s].count
        /\ B[s].completed = acc.jobs[s].completed /\ B[s].bodyDone = acc.jobs[s].bodyDone
    BY <1>1, <2>3, <2>4 DEF JobRecord
  <2>6. Settled(B[s])
    BY <2>5 DEF AllSettled, Settled
  <2>7. AllSettled(B)
    BY <2>2, <2>6 DEF AllSettled
  <2>8. Ended(acc.jobs) \subseteq Ended(B)
    BY <1>4, <2>2 DEF Ended, Open
  <2>9. s # None
    BY DEF Slots, None
  <2> QED
    BY <2>1, <2>7, <2>8, <2>9
<1>5. CASE acc.picked = None /\ Open(acc.jobs[s]) /\ ~Runnable(acc.jobs, s)
  <2> DEFINE V == Visit(acc.jobs, s)
  <2>1. after = [acc EXCEPT !.jobs = V]
    BY <1>5 DEF ScanSlot
  <2>2. /\ AllSettled(V) /\ Ended(acc.jobs) \subseteq Ended(V)
        /\ Ended(V) = Ended(acc.jobs) /\ AtEase(acc.jobs) =>
             Marked(acc.jobs, V) /\ HeldIn(acc.jobs, s)
    BY <1>1, <1>5, VisitSettles
  <2> HIDE DEF V
  <2>3. after.jobs = V /\ after.picked = None
    BY <1>1, <1>5, <2>1
  <2> QED
    BY <1>5, <2>2, <2>3
<1> QED
  BY <1>3, <1>4, <1>5

\* A scan looks at every slot.
LEMMA ScanCovers ==
    ASSUME cursor \in Slots, NEW s \in Slots
    PROVE  \E k \in 1..N : ScanAt(k) = s
<1>1. N \in Nat /\ N >= 1 /\ cursor \in 1..N /\ s \in 1..N
  BY NAssumption DEF Slots
<1>2. \A x \in 0..(N - 1) : x % N = x /\ (x + N) % N = x
  <2> TAKE x \in 0..(N - 1)
  <2>1. x % N = x
    BY <1>1
  <2>2. (x + N) % N = x
    <3> DEFINE q == (x + N) \div N
               r == (x + N) % N
    <3>1. q \in Int /\ r \in 0..(N - 1) /\ x + N = N * q + r
      BY <1>1
    <3> HIDE DEF q, r
    <3>2. CASE q <= 0
      <4>1. N * q <= 0
        BY <1>1, <3>1, <3>2
      <4> QED
        BY <1>1, <3>1, <4>1
    <3>3. CASE q = 1
      BY <1>1, <3>1, <3>3 DEF r
    <3>4. CASE q >= 2
      <4>1. N * q >= N * 2
        BY <1>1, <3>1, <3>4
      <4> QED
        BY <1>1, <3>1, <4>1
    <3> QED
      BY <3>1, <3>2, <3>3, <3>4
  <2> QED
    BY <2>1, <2>2
<1>3. CASE s >= cursor
  <2> DEFINE k == s - cursor + 1
  <2>1. k \in 1..N /\ cursor + k - 2 = s - 1 /\ s - 1 \in 0..(N - 1)
    BY <1>1, <1>3
  <2>2. ((s - 1) % N) + 1 = s
    BY <1>1, <1>2, <2>1
  <2> QED
    BY <2>1, <2>2 DEF ScanAt
<1>4. CASE s < cursor
  <2> DEFINE k == s - cursor + 1 + N
  <2>1. k \in 1..N /\ cursor + k - 2 = (s - 1) + N /\ s - 1 \in 0..(N - 1)
    BY <1>1, <1>4
  <2>2. (((s - 1) + N) % N) + 1 = s
    BY <1>1, <1>2, <2>1
  <2> QED
    BY <2>1, <2>2 DEF ScanAt
<1> QED
  BY <1>1, <1>3, <1>4

\* A scan leaves nothing that could end. One that found nothing while nobody was in a body, and
\* that ended nothing, has seen every open job held.
LEMMA ScanSettles ==
    ASSUME NEW n, TreeInv(jobs, n), cursor \in Slots, AllSettled(jobs)
    PROVE  /\ AllSettled(Scanned.jobs) /\ Ended(jobs) \subseteq Ended(Scanned.jobs)
           /\ Scanned.picked = None /\ Ended(Scanned.jobs) = Ended(jobs) /\ AtEase(jobs) =>
                /\ Marked(jobs, Scanned.jobs)
                /\ \A s \in Slots : Open(jobs[s]) => HeldIn(jobs, s)
<1>1. PICK f : Scanning(f, n)
  BY ScannedSteps
<1>2. /\ \A k \in 0..N : f[k] \in ScanFrom(jobs, n)
      /\ f[0] = [jobs |-> jobs, picked |-> None] /\ Scanned = f[N]
      /\ \A k \in 1..N : ScanAt(k) \in Slots /\ f[k] = ScanSlot(f[k - 1], ScanAt(k))
  BY <1>1 DEF Scanning
<1>3. N \in Nat /\ \A k \in 1..N : k \in 0..N /\ k - 1 \in 0..N /\ k \in Nat
  BY NAssumption
<1> DEFINE Quiet(k) == f[k].picked = None /\ Ended(f[k].jobs) = Ended(jobs) /\ AtEase(jobs)
           Seen(k)  == /\ Marked(jobs, f[k].jobs)
                       /\ \A i \in 1..k : Open(jobs[ScanAt(i)]) => HeldIn(jobs, ScanAt(i))
           S == {k \in 0..N : /\ AllSettled(f[k].jobs) /\ Ended(jobs) \subseteq Ended(f[k].jobs)
                              /\ Quiet(k) => Seen(k)}
<1>4. 0 \in S
  <2>1. jobs \in Tables
    BY DEF TreeInv
  <2>2. Marked(jobs, f[0].jobs)
    BY <1>2, <2>1 DEF Marked
  <2> QED
    BY <1>2, <1>3, <2>2
<1>5. ASSUME NEW k \in 1..N, k - 1 \in S PROVE k \in S
  <2> DEFINE acc == f[k - 1]
             s == ScanAt(k)
  <2>1. /\ acc \in ScanFrom(jobs, n) /\ s \in Slots /\ f[k] = ScanSlot(acc, s)
        /\ AllSettled(acc.jobs) /\ Ended(jobs) \subseteq Ended(acc.jobs)
        /\ Quiet(k - 1) => Seen(k - 1)
    BY <1>2, <1>3, <1>5
  <2> HIDE DEF acc, s
  <2>2. /\ AllSettled(f[k].jobs) /\ Ended(acc.jobs) \subseteq Ended(f[k].jobs)
        /\ f[k].picked = None => acc.picked = None
        /\ f[k].picked = None /\ Ended(f[k].jobs) = Ended(acc.jobs) /\ AtEase(acc.jobs) =>
             Marked(acc.jobs, f[k].jobs) /\ (Open(acc.jobs[s]) => HeldIn(acc.jobs, s))
    BY <2>1, ScanSlotSettles
  <2>3. ASSUME Quiet(k) PROVE Seen(k)
    <3>1. acc.picked = None /\ Ended(acc.jobs) = Ended(jobs) /\ Ended(f[k].jobs) = Ended(acc.jobs)
      BY <2>1, <2>2, <2>3
    <3>2. Marked(jobs, acc.jobs)
          /\ \A i \in 1..(k - 1) : Open(jobs[ScanAt(i)]) => HeldIn(jobs, ScanAt(i))
      BY <2>1, <2>3, <3>1 DEF acc
    <3>3. AtEase(acc.jobs)
      BY <2>3, <3>2 DEF AtEase, Marked
    <3>4. Marked(acc.jobs, f[k].jobs) /\ (Open(acc.jobs[s]) => HeldIn(acc.jobs, s))
      BY <2>2, <2>3, <3>1, <3>3
    <3>5. Open(jobs[s]) => HeldIn(jobs, s)
      BY <2>1, <3>2, <3>4, MarkedHeld
    <3>6. Marked(jobs, f[k].jobs)
      BY <3>2, <3>4, MarkedTwice
    <3>7. \A i \in 1..k : i \in 1..(k - 1) \/ i = k
      BY <1>3
    <3> QED
      BY <3>2, <3>5, <3>6, <3>7 DEF s
  <2>4. k \in 0..N /\ Ended(jobs) \subseteq Ended(f[k].jobs)
    BY <1>3, <2>1, <2>2
  <2> HIDE DEF Quiet, Seen
  <2> QED
    BY <2>2, <2>3, <2>4
<1>6. N \in S
  <2> HIDE DEF S
  <2> QED
    BY <1>3, <1>4, <1>5, InductionUpTo
<1>7. /\ AllSettled(f[N].jobs) /\ Ended(jobs) \subseteq Ended(f[N].jobs)
      /\ Quiet(N) => Seen(N)
  <2> HIDE DEF Quiet, Seen
  <2> QED
    BY <1>6
<1> HIDE DEF S
<1>8. Scanned = f[N]
  BY <1>2
<1>9. ASSUME Quiet(N)
      PROVE  /\ Marked(jobs, f[N].jobs)
             /\ \A s \in Slots : Open(jobs[s]) => HeldIn(jobs, s)
  <2>1. Seen(N)
    BY <1>9, <1>7
  <2>2. ASSUME NEW s \in Slots, Open(jobs[s]) PROVE HeldIn(jobs, s)
    <3>1. PICK k \in 1..N : ScanAt(k) = s
      BY ScanCovers
    <3> QED
      BY <2>1, <2>2, <3>1
  <2> QED
    BY <2>1, <2>2
<1> QED
  BY <1>7, <1>8, <1>9

-----------------------------------------------------------------------------
(* No step leaves a job ready to end.                                      *)

SettledInv == AllSettled(jobs)

\* What is open in ks was so in js, and still waits if it waited.
StillHeld(js, ks) ==
    \A t \in Slots : Open(ks[t]) => Open(js[t]) /\ (HeldIn(js, t) => HeldIn(ks, t))

\* Marks that end no body change nothing of it.
LEMMA FlaggedSettles ==
    ASSUME NEW js, NEW ks, Flagged(js, ks)
    PROVE  (AllSettled(js) => AllSettled(ks)) /\ StillHeld(js, ks)
<1>1. AllSettled(js) => AllSettled(ks)
  BY DEF Flagged, Marked, AllSettled, Settled, Terminal
<1>2. StillHeld(js, ks)
  BY MarkedHeld DEF Flagged, StillHeld
<1> QED
  BY <1>1, <1>2

\* Nor does a collection: what it takes had ended.
LEMMA CollectSettles ==
    ASSUME NEW js
    PROVE  (AllSettled(js) => AllSettled(Collect(js))) /\ StillHeld(js, Collect(js))
<1> DEFINE ks == Collect(js)
<1>1. \A t \in Slots : ks[t] = IF Collectable(js[t]) THEN Vacant ELSE js[t]
  BY DEF Collect
<1>2. Settled(Vacant) /\ ~Open(Vacant)
  BY DEF Vacant, Settled, Open
<1>3. \A t \in Slots : Collectable(js[t]) => ~Open(js[t])
  BY DEF Collectable, Open
<1> HIDE DEF ks
<1>4. AllSettled(js) => AllSettled(ks)
  BY <1>1, <1>2 DEF AllSettled
<1>5. \A t \in Slots : (Open(js[t]) => ks[t] = js[t]) /\ (Open(ks[t]) => ks[t] = js[t])
  BY <1>1, <1>2, <1>3
<1>6. ASSUME NEW t \in Slots, Open(ks[t]), HeldIn(js, t) PROVE HeldIn(ks, t)
  <2>1. ks[t] = js[t]
    BY <1>5, <1>6
  <2>2. CASE js[t].children > 0
    BY <2>1, <2>2 DEF HeldIn
  <2>3. CASE \E i \in DOMAIN js[t].dependencies, u \in Slots :
               js[t].dependencies[i] # None /\ js[u].id = js[t].dependencies[i] /\ Open(js[u])
    BY <1>5, <2>1, <2>3 DEF HeldIn
  <2> QED
    BY <1>6, <2>2, <2>3 DEF HeldIn
<1>7. StillHeld(js, ks)
  BY <1>5, <1>6 DEF StillHeld
<1> QED
  BY <1>4, <1>7 DEF ks

\* A new job has all its iterations in front of it; without a parent it changes no other job.
LEMMA BegunSettles ==
    ASSUME NEW js \in Tables, NEW ks, NEW a, Begun(js, ks, a)
    PROVE  (AllSettled(js) => AllSettled(ks)) /\ (current[a] = None => StillHeld(js, ks))
<1> DEFINE p == current[a]
<1>1. PICK target \in Slots, n \in Counts \cup {0} :
        js[target].id = None /\ Stamps(js, ks, p, args[a], target, n)
  BY DEF Begun
<1>2. /\ ~ks[target].bodyDone /\ ks[target].completed = 0 /\ ks[target].count = n
      /\ ks[target].id = None
  BY <1>1 DEF Stamps
<1>3. ASSUME NEW t \in Slots, t # target
      PROVE  /\ ks[t].id = js[t].id /\ ks[t].status = js[t].status
             /\ ks[t].dependencies = js[t].dependencies /\ ks[t].count = js[t].count
             /\ ks[t].completed = js[t].completed /\ ks[t].executing = js[t].executing
             /\ ks[t].bodyDone = js[t].bodyDone /\ ks[t].children = js[t].children + Bit(t = p)
  BY <1>1, <1>3 DEF Stamps
<1>4. \A t \in Slots : js[t].children \in Nat
  BY DEF Tables, JobRecord
<1> HIDE DEF p
<1>5. ASSUME AllSettled(js), NEW t \in Slots PROVE Settled(ks[t])
  <2>1. CASE t = target
    BY <1>2, <2>1 DEF Settled
  <2>2. CASE t # target
    <3>1. ks[t].children = 0 => js[t].children = 0
      BY <1>3, <1>4, <2>2 DEF Bit
    <3> QED
      BY <1>3, <1>5, <2>2, <3>1 DEF AllSettled, Settled, Terminal
  <2> QED
    BY <2>1, <2>2
<1>6. ASSUME p = None, NEW t \in Slots, Open(ks[t])
      PROVE  Open(js[t]) /\ (HeldIn(js, t) => HeldIn(ks, t))
  <2>1. t # target
    BY <1>2, <1>6 DEF Open
  <2>2. Open(js[t])
    BY <1>3, <1>6, <2>1 DEF Open, Terminal
  <2>3. ks[t].children = js[t].children
    BY <1>3, <1>4, <1>6, <2>1 DEF Bit, Slots, None
  <2>4. \A u \in Slots : Open(js[u]) => ks[u].id = js[u].id /\ Open(ks[u])
    BY <1>1, <1>3 DEF Open, Terminal
  <2>5. ks[t].dependencies = js[t].dependencies
    BY <1>3, <2>1
  <2> QED
    BY <2>2, <2>3, <2>4, <2>5 DEF HeldIn
<1>7. p = None => StillHeld(js, ks)
  BY <1>6 DEF StillHeld
<1> QED
  BY <1>5, <1>7 DEF AllSettled, p

\* The end of an iteration.
LEMMA CompletedSettles ==
    ASSUME NEW js, NEW n, TreeInv(js, n), NEW s \in Slots, js[s].executing > 0, AllSettled(js)
    PROVE  AllSettled(Completed(js, s))
<1> DEFINE ks == Counted(js, s)
<1>1. /\ Completed(js, s) = Finish(ks, s) /\ TreeInv(ks, n) /\ ks[s].id # None
      /\ (\A t \in Slots : t # s => ks[t] = js[t])
      /\ ks[s].completed = ks[s].count => ks[s].bodyDone
  BY CountedKeeps
<1> HIDE DEF ks
<1>2. \A t \in Slots : t # s => Settled(ks[t])
  BY <1>1 DEF AllSettled
<1>3. AllSettled(Finish(ks, s))
  BY <1>1, <1>2, FinishSettles
<1> QED
  BY <1>1, <1>3

\* One after the other.
LEMMA HeldTwice ==
    ASSUME NEW js, NEW ks, NEW ls, StillHeld(js, ks), StillHeld(ks, ls)
    PROVE  StillHeld(js, ls)
BY DEF StillHeld

\* A table that stays.
LEMMA HeldStays == \A js : StillHeld(js, js)
BY DEF StillHeld

\* A step that wakes the workers, or makes nothing ready to run.
Gentle == Signal \/ (fresh' = fresh /\ StillHeld(jobs, jobs'))

\* A call.
LEMMA CallSettles ==
    ASSUME TaskInv, SettledInv, NEW a \in Actors, Call(a)
    PROVE  /\ SettledInv' /\ Gentle
           /\ pc' = pc \/ \E x \in InCall : pc' = [pc EXCEPT ![a] = x]
<1>1. AllSettled(jobs)
  BY DEF SettledInv
<1>2. CASE \E h \in Names(a) \cup {None}, n \in Counts : SubmitCheck(a, h, n)
  <2>1. PICK h \in Names(a) \cup {None}, n \in Counts : SubmitCheck(a, h, n)
    BY <1>2
  <2>2. Flagged(Collect(jobs), jobs')
    BY <2>1, SubmitFlags
  <2>3. AllSettled(jobs') /\ StillHeld(jobs, jobs')
    BY <1>1, <2>2, CollectSettles, FlaggedSettles, HeldTwice
  <2>4. fresh' = fresh /\ (pc' = pc \/ pc' = [pc EXCEPT ![a] = "stamp"])
    BY <2>1 DEF SubmitCheck
  <2> QED
    BY <2>3, <2>4 DEF SettledInv, Gentle, InCall
<1>3. CASE \E n \in Widths : \E hs \in Handles(n, Names(a)) : JoinCheck(a, hs)
  <2>1. PICK n \in Widths : \E hs \in Handles(n, Names(a)) : JoinCheck(a, hs)
    BY <1>3
  <2>2. PICK hs \in [1..n -> Names(a)] : JoinCheck(a, hs)
    BY <2>1 DEF Handles
  <2>3. Flagged(jobs, jobs')
    BY <2>2, JoinKeeps
  <2>4. AllSettled(jobs') /\ StillHeld(jobs, jobs')
    BY <1>1, <2>3, FlaggedSettles
  <2>5. fresh' = fresh /\ (pc' = pc \/ pc' = [pc EXCEPT ![a] = "join"])
    BY <2>2 DEF JoinCheck
  <2> QED
    BY <2>4, <2>5 DEF SettledInv, Gentle, InCall
<1>4. CASE \E h \in Names(a) : Cancel(a, h)
  <2>1. PICK h \in Names(a) : Cancel(a, h)
    BY <1>4
  <2>2. Flagged(jobs, jobs')
    BY <2>1, CancelKeeps
  <2>3. AllSettled(jobs')
    BY <1>1, <2>2, FlaggedSettles
  <2>4. Signal /\ pc' = pc
    BY <2>1 DEF Cancel
  <2> QED
    BY <2>3, <2>4 DEF SettledInv, Gentle
<1>5. CASE \E h \in Names(a) : Release(a, h)
  <2>1. PICK h \in Names(a) : Release(a, h)
    BY <1>5
  <2>2. PICK ks : Flagged(jobs, ks) /\ jobs' = Collect(ks)
    BY <2>1, ReleaseKeeps
  <2>3. AllSettled(jobs')
    BY <1>1, <2>2, FlaggedSettles, CollectSettles
  <2>4. Signal /\ pc' = pc
    BY <2>1 DEF Release
  <2> QED
    BY <2>3, <2>4 DEF SettledInv, Gentle
<1> QED
  BY <1>2, <1>3, <1>4, <1>5 DEF Call

\* A step of a call under way; one of a body may leave a new child, which its body is still over.
LEMMA ContinueSettles ==
    ASSUME TaskInv, SettledInv, NEW a \in Actors, Continue(a)
    PROVE  /\ SettledInv' /\ (a = Host => Gentle)
           /\ \E x \in InCall \cup {IF a = Host THEN "ready" ELSE "body"} : pc' = [pc EXCEPT ![a] = x]
<1> DEFINE X == InCall \cup {IF a = Host THEN "ready" ELSE "body"}
<1>1. /\ AllSettled(jobs) /\ jobs \in Tables /\ (a = Host => current[a] = None)
  BY DEF SettledInv, TaskInv, TypesInv, ControlInv
<1>2. CASE SubmitStamp(a)
  <2>1. Begun(jobs, jobs', a)
    BY <1>2, SubmitStampKeeps
  <2>2. AllSettled(jobs') /\ (a = Host => StillHeld(jobs, jobs'))
    BY <1>1, <2>1, BegunSettles
  <2>3. fresh' = fresh /\ pc' = [pc EXCEPT ![a] = "publish"] /\ "publish" \in X
    BY <1>2 DEF SubmitStamp, Goto, InCall
  <2> QED
    BY <2>2, <2>3 DEF SettledInv, Gentle
<1>3. CASE JoinStamp(a)
  <2> DEFINE js == Collect(jobs)
  <2>1. /\ AllSettled(js) /\ StillHeld(jobs, js)
        /\ Flagged(js, jobs') \/ Begun(js, jobs', a)
    BY <1>1, <1>3, CollectSettles, JoinStampKeeps
  <2>2. js \in Tables
    <3>1. pc[a] \in InCall /\ pc[a] # "publish"
      BY <1>3 DEF JoinStamp, Goto, InCall
    <3>2. TreeInv(jobs, serial) /\ (epoch = 1 => Exact(jobs))
      BY <3>1, MidCallFacts
    <3> QED
      BY <3>2, CollectedTable
  <2> HIDE DEF js
  <2>3. AllSettled(jobs') /\ (a = Host => StillHeld(js, jobs'))
    <3>1. CASE Flagged(js, jobs')
      BY <2>1, <3>1, FlaggedSettles
    <3>2. CASE Begun(js, jobs', a)
      BY <1>1, <2>1, <2>2, <3>2, BegunSettles
    <3> QED
      BY <2>1, <3>1, <3>2
  <2>4. a = Host => StillHeld(jobs, jobs')
    BY <2>1, <2>3, HeldTwice
  <2>5. fresh' = fresh /\ (pc' = [pc EXCEPT ![a] = "publish"] \/ Return(a))
    BY <1>3 DEF JoinStamp, Goto
  <2>6. \E x \in X : pc' = [pc EXCEPT ![a] = x]
    BY <2>5 DEF Return, InCall
  <2> QED
    BY <2>3, <2>4, <2>5, <2>6 DEF SettledInv, Gentle
<1>4. CASE Publish(a)
  <2>1. /\ Signal /\ pc' = [pc EXCEPT ![a] = "recheck"] /\ "recheck" \in X
        /\ jobs' = [jobs EXCEPT ![args[a][1]].id = serial] /\ pc[a] = "publish"
    BY <1>4 DEF Publish, Goto, InCall
  <2>2. ASSUME NEW t \in Slots PROVE Settled(jobs'[t])
    <3>1. jobs[t] \in JobRecord /\ Settled(jobs[t])
      BY <1>1 DEF Tables, AllSettled
    <3>2. jobs'[t] = jobs[t] \/ jobs'[t] = [jobs[t] EXCEPT !.id = serial]
      BY <1>1, <2>1 DEF Tables
    <3>3. CASE jobs'[t] = [jobs[t] EXCEPT !.id = serial]
      <4>1. /\ jobs'[t].bodyDone = jobs[t].bodyDone /\ jobs'[t].executing = jobs[t].executing
            /\ jobs'[t].children = jobs[t].children /\ jobs'[t].status = jobs[t].status
            /\ jobs'[t].count = jobs[t].count /\ jobs'[t].completed = jobs[t].completed
        BY <3>1, <3>3 DEF JobRecord
      <4> QED
        BY <3>1, <4>1 DEF Settled, Terminal
    <3> QED
      BY <3>1, <3>2, <3>3
  <2> QED
    BY <2>1, <2>2 DEF SettledInv, AllSettled, Gentle
<1>5. CASE Recheck(a)
  <2>1. Flagged(jobs, jobs')
    BY <1>5, RecheckKeeps
  <2>2. AllSettled(jobs') /\ StillHeld(jobs, jobs')
    BY <1>1, <2>1, FlaggedSettles
  <2>3. fresh' = fresh /\ Return(a)
    BY <1>5 DEF Recheck
  <2> QED
    BY <2>2, <2>3 DEF SettledInv, Gentle, Return
<1> QED
  BY <1>2, <1>3, <1>4, <1>5 DEF Continue

\* A step of the host moves no worker.
LEMMA HostSettles ==
    ASSUME TaskInv, SettledInv, HostNext
    PROVE  SettledInv' /\ Gentle /\ \A w \in Workers : pc'[w] = pc[w]
<1>0. /\ Host \in Actors /\ \A w \in Workers : w \in Actors /\ w # Host
      /\ pc \in [Actors -> Labels] /\ AllSettled(jobs)
  BY ActorsAssumption DEF Actors, TaskInv, TypesInv, SettledInv
<1>1. ASSUME pc' = pc \/ \E x : pc' = [pc EXCEPT ![Host] = x]
      PROVE  \A w \in Workers : pc'[w] = pc[w]
  BY <1>0, <1>1
<1>2. CASE ResetBegin \/ ResetPass \/ ResetLook \/ ResetEnd
  <2>1. jobs' = jobs /\ (fresh' = fresh \/ Signal)
        /\ (pc' = pc \/ \E x : pc' = [pc EXCEPT ![Host] = x])
    BY <1>2 DEF ResetBegin, ResetPass, ResetLook, ResetEnd, Goto
  <2> QED
    BY <1>0, <1>1, <2>1, HeldStays DEF Gentle, SettledInv
<1>3. CASE ResetMark
  <2>1. Flagged(jobs, jobs')
    BY <1>3, ResetFlags
  <2>2. AllSettled(jobs') /\ StillHeld(jobs, jobs')
    BY <1>0, <2>1, FlaggedSettles
  <2>3. fresh' = fresh /\ \E x : pc' = [pc EXCEPT ![Host] = x]
    BY <1>3 DEF ResetMark, Goto
  <2> QED
    BY <1>1, <2>2, <2>3 DEF Gentle, SettledInv
<1>4. CASE (\E h \in Names(Host) : QueryFind(h)) \/ Query
  <2>1. jobs' = jobs /\ fresh' = fresh /\ \E x : pc' = [pc EXCEPT ![Host] = x]
    BY <1>4 DEF QueryFind, Query, QueryInvalid, QueryCheck, QueryResult, QueryEnd, Goto
  <2> QED
    BY <1>0, <1>1, <2>1, HeldStays DEF Gentle, SettledInv
<1>5. CASE Call(Host)
  BY <1>0, <1>1, <1>5, CallSettles
<1>6. CASE Continue(Host)
  BY <1>0, <1>1, <1>6, ContinueSettles
<1> QED
  BY <1>2, <1>3, <1>4, <1>5, <1>6 DEF HostNext, Reset

\* Nor does a step of a worker.
LEMMA WorkerSettles ==
    ASSUME TaskInv, SettledInv, NEW w \in Workers, WorkerNext(w)
    PROVE  SettledInv'
<1>1. w \in Actors /\ w # Host /\ AllSettled(jobs)
  BY ActorsAssumption DEF Actors, SettledInv
<1>2. CASE Observe(w)
  BY <1>1, <1>2 DEF Observe, SettledInv
<1>3. CASE ScanPick(w) \/ ScanNothing(w)
  <2>1. mutex = Free /\ jobs' = Scanned.jobs /\ cursor \in Slots
    BY <1>3 DEF ScanPick, ScanNothing, TaskInv, TypesInv
  <2>2. TreeInv(jobs, serial)
    BY <2>1, MutexFree
  <2> QED
    BY <1>1, <2>1, <2>2, ScanSettles DEF SettledInv
<1>4. CASE Complete(w)
  <2> DEFINE s == current[w]
  <2>1. /\ mutex = Free /\ pc[w] \in {"body", "thrown"} /\ jobs' = Collect(Completed(jobs, s))
        /\ TypesInv /\ ControlInv /\ ExecInv
    BY <1>4 DEF Complete, TaskInv
  <2>2. TreeInv(jobs, serial)
    BY <2>1, MutexFree
  <2>3. s # None
    BY <2>1 DEF ControlInv
  <2>4. s \in Slots /\ jobs[s].executing > 0
    BY <1>1, <2>1, <2>2, <2>3, RunnersKeepOpen
  <2> HIDE DEF s
  <2>5. AllSettled(Completed(jobs, s))
    BY <1>1, <2>2, <2>4, CompletedSettles
  <2> QED
    BY <2>1, <2>5, CollectSettles DEF SettledInv
<1>5. CASE Continue(w)
  BY <1>1, <1>5, ContinueSettles
<1>6. CASE Call(w)
  BY <1>1, <1>6, CallSettles
<1>7. CASE Body(w)
  <2>1. BodyThrow(w) \/ Checkpoint(w) \/ BodyReject(w)
    BY <1>7 DEF Body
  <2>2. Flagged(jobs, jobs')
    BY <2>1, BodyFlags
  <2> QED
    BY <1>1, <2>2, FlaggedSettles DEF SettledInv
<1> QED
  BY <1>2, <1>3, <1>4, <1>5, <1>6, <1>7 DEF WorkerNext, Loop

\* No job stays open that has nothing left to do: whoever does the last of it, the body, a worker
\* that finds it cancelled or blocked, or its last child, ends it in the same step (finish).
THEOREM SettledInvHolds == Spec => []SettledInv
<1>1. Init => SettledInv
  BY DEF Init, SettledInv, AllSettled, Settled, Vacant
<1>2. TaskInv /\ SettledInv /\ [Next]_vars => SettledInv'
  <2> SUFFICES ASSUME TaskInv, SettledInv, [Next]_vars PROVE SettledInv'
    OBVIOUS
  <2>1. CASE HostNext
    BY <2>1, HostSettles
  <2>2. CASE \E w \in Workers : WorkerNext(w)
    BY <2>2, WorkerSettles
  <2>3. CASE UNCHANGED vars
    BY <2>3 DEF vars, SettledInv
  <2> QED
    BY <2>1, <2>2, <2>3 DEF Next
<1> QED
  BY <1>1, <1>2, TaskInvHolds, PTL DEF Spec

-----------------------------------------------------------------------------
(* No wakeup is lost.                                                      *)

Parked == \A w \in Workers : pc[w] = "park" /\ ~fresh[w]

AllHeld(js) == \A s \in Slots : Open(js[s]) => HeldIn(js, s)

WakeInv == Parked => AllHeld(jobs)

\* Who parks last has seen that every open job waits.
LEMMA LastParks ==
    ASSUME TaskInv, SettledInv, NEW w \in Workers, ScanNothing(w), Parked'
    PROVE  AllHeld(jobs')
<1>1. /\ TypesInv /\ ControlInv /\ ExecInv /\ cursor \in Slots /\ AllSettled(jobs)
      /\ mutex = Free /\ Scanned.picked = None /\ jobs' = Scanned.jobs
      /\ pc[w] = "scan" /\ pc' = [pc EXCEPT ![w] = "park"]
      /\ fresh' = [v \in Workers |-> fresh[v] \/ Wakes(jobs, jobs')]
  BY DEF TaskInv, TypesInv, SettledInv, ScanNothing, Goto, SignalIf
<1>2. TreeInv(jobs, serial)
  BY <1>1, MutexFree
<1>3. /\ Ended(jobs) \subseteq Ended(jobs')
      /\ Ended(jobs') = Ended(jobs) /\ AtEase(jobs) =>
           /\ Marked(jobs, jobs')
           /\ \A s \in Slots : Open(jobs[s]) => HeldIn(jobs, s)
  BY <1>1, <1>2, ScanSettles
<1>4. Ended(jobs') = Ended(jobs)
  <2>1. ~Wakes(jobs, jobs')
    <3>1. fresh'[w] = (fresh[w] \/ Wakes(jobs, jobs')) /\ ~fresh'[w]
      BY <1>1 DEF Parked
    <3> QED
      BY <3>1
  <2>2. Ended(jobs') \subseteq Ended(jobs)
    BY <2>1 DEF Wakes, Ended
  <2> QED
    BY <1>3, <2>2
<1>5. \A v \in Workers : current[v] = None
  <2> TAKE v \in Workers
  <2>1. v \in Actors /\ pc'[v] = "park"
    BY DEF Actors, Parked
  <2>2. pc[v] \in {"park", "scan"}
    BY <1>1, <2>1 DEF TypesInv
  <2> QED
    BY <1>1, <2>2 DEF ControlInv, InCall
<1>6. AtEase(jobs)
  <2>1. ASSUME NEW s \in Slots PROVE jobs[s].executing = 0
    <3>1. Runners(s) = {}
      BY <1>5 DEF Runners, Slots, None
    <3>2. Cardinality({}) = 0
      BY FS_EmptySet
    <3> QED
      BY <1>1, <3>1, <3>2 DEF ExecInv
  <2> QED
    BY <2>1 DEF AtEase
<1>7. Marked(jobs, jobs') /\ \A s \in Slots : Open(jobs[s]) => HeldIn(jobs, s)
  BY <1>3, <1>4, <1>6
<1> QED
  BY <1>7, MarkedHeld DEF AllHeld

\* Nobody else makes work without a signal while all are parked.
LEMMA WakeKeeps ==
    ASSUME Workers # {}, TaskInv, SettledInv, WakeInv, Next
    PROVE  WakeInv'
<1> SUFFICES ASSUME Parked' PROVE AllHeld(jobs')
  BY DEF WakeInv
<1>1. ~Signal
  BY DEF Signal, Parked
<1>2. /\ \A w \in Workers : w \in Actors /\ w # Host /\ pc'[w] = "park"
      /\ pc \in [Actors -> Labels]
  BY ActorsAssumption DEF Actors, Parked, TaskInv, TypesInv
<1>3. CASE HostNext
  <2>1. Gentle /\ \A w \in Workers : pc'[w] = pc[w]
    BY <1>3, HostSettles
  <2>2. fresh' = fresh /\ StillHeld(jobs, jobs')
    BY <1>1, <2>1 DEF Gentle
  <2>3. Parked
    BY <2>1, <2>2 DEF Parked
  <2> QED
    BY <2>2, <2>3 DEF WakeInv, AllHeld, StillHeld
<1>4. ASSUME NEW w \in Workers, WorkerNext(w) PROVE AllHeld(jobs')
  <2>1. \A x : pc' = [pc EXCEPT ![w] = x] => x = "park"
    BY <1>2
  <2>2. "park" \notin InCall
    BY DEF InCall
  <2>3. CASE ScanNothing(w)
    BY <2>3, LastParks
  <2>4. CASE Observe(w) \/ ScanPick(w) \/ Complete(w)
    <3>1. \E x \in {"scan", "body", "idle"} : pc' = [pc EXCEPT ![w] = x]
      BY <2>4 DEF Observe, ScanPick, Complete, Goto
    <3> QED
      BY <2>1, <3>1
  <2>5. CASE Continue(w)
    <3>1. \E x \in InCall \cup {"body"} : pc' = [pc EXCEPT ![w] = x]
      BY <1>2, <2>5, ContinueSettles
    <3> QED
      BY <2>1, <2>2, <3>1
  <2>6. CASE pc[w] = "body" /\ Call(w)
    <3>1. pc' = pc \/ \E x \in InCall : pc' = [pc EXCEPT ![w] = x]
      BY <1>2, <2>6, CallSettles
    <3>2. pc' # pc
      BY <1>2, <2>6
    <3> QED
      BY <2>1, <2>2, <3>1, <3>2
  <2>7. CASE pc[w] = "body" /\ Body(w)
    <3>1. pc' = pc \/ pc' = [pc EXCEPT ![w] = "thrown"]
      BY <2>7 DEF Body, BodyThrow, Checkpoint, BodyReject, Goto
    <3>2. pc' # pc
      BY <1>2, <2>7
    <3> QED
      BY <2>1, <3>1, <3>2
  <2> QED
    BY <1>4, <2>3, <2>4, <2>5, <2>6, <2>7 DEF WorkerNext, Loop
<1> QED
  BY <1>3, <1>4 DEF Next

\* With every worker parked and no signal on its way, each job that is still open waits for
\* another open one, its child or what it depends on: no submission, completion or cancellation
\* between a worker's scan and its wait went unnoticed (worker, signal).
THEOREM NoLostWakeupHolds ==
    ASSUME Workers # {}
    PROVE  Spec => []NoLostWakeup
<1>1. Init => WakeInv
  BY ActorsAssumption DEF Init, WakeInv, Parked, Actors
<1>2. TaskInv /\ SettledInv /\ WakeInv /\ [Next]_vars => WakeInv'
  <2> SUFFICES ASSUME TaskInv, SettledInv, WakeInv, [Next]_vars PROVE WakeInv'
    OBVIOUS
  <2>1. CASE UNCHANGED vars
    BY <2>1 DEF vars, WakeInv, Parked
  <2> QED
    BY <2>1, WakeKeeps
<1>3. WakeInv => NoLostWakeup
  <2> SUFFICES ASSUME WakeInv, Parked, NEW s \in Live, Open(jobs[s]) PROVE Held(s)
    BY DEF NoLostWakeup, Parked
  <2>1. s \in Slots
    BY DEF Live
  <2>2. HeldIn(jobs, s)
    BY <2>1 DEF WakeInv, AllHeld
  <2>3. CASE jobs[s].children > 0
    BY <2>3 DEF Held
  <2>4. CASE \E i \in DOMAIN jobs[s].dependencies, t \in Slots :
               /\ jobs[s].dependencies[i] # None /\ jobs[t].id = jobs[s].dependencies[i]
               /\ Open(jobs[t])
    <3>1. PICK i \in DOMAIN jobs[s].dependencies, t \in Slots :
               /\ jobs[s].dependencies[i] # None /\ jobs[t].id = jobs[s].dependencies[i]
               /\ Open(jobs[t])
      BY <2>4
    <3>2. jobs[s].dependencies[i] \in ToSet(jobs[s].dependencies) \ {None}
      BY <3>1 DEF ToSet
    <3>3. t \in Find(jobs, jobs[s].dependencies[i])
      BY <3>1 DEF Find
    <3> QED
      BY <3>1, <3>2, <3>3 DEF Held
  <2> QED
    BY <2>2, <2>3, <2>4 DEF HeldIn
<1> QED
  BY <1>1, <1>2, <1>3, TaskInvHolds, SettledInvHolds, PTL DEF Spec

===============================================================================

--------------------------- MODULE MessageBus_proofs ---------------------------
(***************************************************************************)
(* Proofs about MessageBus for any number of instances, channels, domains, *)
(* slots and ring entries, and for any history a domain has seen: types,   *)
(* one slot for each instance, whose slot may be taken away, and the order *)
(* in which messages arrive.                                               *)
(***************************************************************************)
EXTENDS MessageBus, FiniteInduction, SequenceTheorems, TLAPS

(***************************************************************************)
(* The inductive invariant.                                                *)
(***************************************************************************)

\* No instance id is in two slots of a table.
SlotsDistinct ==
    \A d \in Domains : \A k, l \in Slots :
      table[d][k].id = table[d][l].id /\ table[d][k].id # None => k = l

\* A call goes to the domain the instance is in; only a removal goes to the one it left.
CallsAreHome ==
    \A i \in Instances : \A p \in 1..Len(calls[i]) :
      /\ calls[i][p].op # "remove" => calls[i][p].domain = domain[i]
      /\ calls[i][p].op = "remove" /\ life[i] = "attached" => calls[i][p].domain # domain[i]

\* The slot of a published record says of the record what it has room for, and when it
\* was heard of.
SlotIsRecord ==
    \A i \in Instances : \A k \in Slots :
      life[i] = "attached" /\ ~unpublished[i] /\ table[domain[i]][k].id = i =>
        table[domain[i]][k].last = heard[i] /\ table[domain[i]][k].subs \in Fitting(subs[i])

RegistryInv == SlotsDistinct /\ CallsAreHome /\ SlotIsRecord /\ ProcessingPeerKeepsSlot

\* The committed sequence counts the messages, each of which has its place as number.
LogNumbered ==
    \A d \in Domains :
      globalSeq[d] = Len(log[d]) /\ \A s \in 1..Len(log[d]) : log[d][s].seq = s

\* m is a message of d's history.
OfLog(d, m) == m.seq \in 1..Len(log[d]) /\ log[d][m.seq] = m

\* What is in a ring or in an inbox was committed as it is.
RingIsLog  == \A d \in Domains : \A k \in 0..(R - 1) : ring[d][k].seq # 0 => OfLog(d, ring[d][k])
InboxIsLog == \A i \in Instances : \A p \in 1..Len(inbox[i]) : OfLog(domain[i], inbox[i][p])

\* An inbox is in the order of the sequence and behind the cursor.
InboxInOrder ==
    \A i \in Instances : \A p, q \in 1..Len(inbox[i]) :
      /\ inbox[i][p].seq <= lastRead[i]
      /\ p < q => inbox[i][p].seq < inbox[i][q].seq

\* A sender's numbers grow along every history, and then along its outbox.
SendersNumber ==
    /\ \A d \in Domains : \A s, t \in 1..Len(log[d]) :
         s < t /\ log[d][s].source = log[d][t].source => log[d][s].n < log[d][t].n
    /\ \A i \in Instances : \A d \in Domains : \A s \in 1..Len(log[d]) :
         log[d][s].source = i =>
           log[d][s].n <= posts[i] /\ \A k \in 1..Len(outbox[i]) : log[d][s].n < outbox[i][k].n
    /\ \A i \in Instances : \A k, l \in 1..Len(outbox[i]) :
         outbox[i][k].n <= posts[i] /\ (k < l => outbox[i][k].n < outbox[i][l].n)

DeliveryInv == LogNumbered /\ RingIsLog /\ InboxIsLog /\ InboxInOrder /\ SendersNumber

BusInv == BusTypeOK /\ RegistryInv /\ DeliveryInv

-----------------------------------------------------------------------------
(* Lemmas about the operators.                                              *)

\* Ring places are in range.
LEMMA RingPlace == \A s \in Nat : s % R \in 0..(R - 1)
BY BusAssumption

\* The least of some slots.
LEMMA LeastSlot ==
    ASSUME NEW S \in SUBSET Slots, S # {}
    PROVE  Min(S) \in S /\ \A y \in S : Min(S) <= y
<1>1. S \in SUBSET Nat
  BY BusAssumption DEF Slots
<1>2. \E x \in S : \A y \in S : x <= y
  BY <1>1, LeastMember
<1> QED
  BY <1>2, Zenon DEF Min

\* A slot says nothing but subscriptions, and of none that there are none.
LEMMA FittingSays ==
    /\ \A S \in SUBSET Channels : Fitting(S) \subseteq SUBSET S
    /\ {} \in Fitting({})
<1>1. Cardinality({}) = 0
  BY FS_EmptySet
<1> QED
  BY <1>1, BusAssumption DEF Fitting

\* Increasing lists any set of positive numbers that has a bound.
LEMMA IncreasingLists ==
    ASSUME NEW n \in Nat, NEW S \in SUBSET (1..n)
    PROVE  Cardinality(S) \in Nat /\ Cardinality(S) <= n /\ Lists(Increasing(S), S)
<1>1. IsFiniteSet(1..n) /\ Cardinality(1..n) = n
  BY FS_Interval
<1>2. IsFiniteSet(S) /\ Cardinality(S) \in Nat /\ Cardinality(S) <= n
  <2>1. IsFiniteSet(S) /\ Cardinality(S) <= Cardinality(1..n)
    BY <1>1, FS_Subset, Zenon
  <2>2. Cardinality(S) \in Nat
    BY <2>1, FS_CardinalityType, Zenon
  <2> QED
    BY <1>1, <2>1, <2>2
<1> DEFINE P(f) == \A p, q \in 1..Cardinality(S) : p < q => f[p] < f[q]
<1>3. PICK g : Lists(g, S)
  BY IncreasingListExists
<1>4. \E f \in [1..Cardinality(S) -> S] : P(f)
  BY <1>3 DEF Lists
<1>5. Increasing(S) \in [1..Cardinality(S) -> S] /\ P(Increasing(S))
  BY <1>4, Zenon DEF Increasing
<1> DEFINE f == Increasing(S)
<1>6. \A p, q \in 1..Cardinality(S) : p # q => f[p] # f[q]
  <2> SUFFICES ASSUME NEW p \in 1..Cardinality(S), NEW q \in 1..Cardinality(S), p # q
               PROVE  f[p] # f[q]
    OBVIOUS
  <2>1. f[p] \in Nat /\ f[q] \in Nat
    <3>1. f \in [1..Cardinality(S) -> S]
      BY <1>5
    <3> HIDE DEF f
    <3>2. f[p] \in S /\ f[q] \in S
      BY <3>1
    <3>3. \A x \in S : x \in Nat
      OBVIOUS
    <3> QED
      BY <3>2, <3>3, Zenon
  <2>2. p < q \/ q < p
    BY <1>2
  <2> HIDE DEF f
  <2> QED
    BY <1>5, <2>1, <2>2 DEF f
<1>7. f \in Injection(1..Cardinality(S), S)
  BY <1>5, <1>6 DEF Injection, IsInjective
<1>8. Cardinality(1..Cardinality(S)) = Cardinality(S)
  BY <1>2, FS_Interval
<1>9. f \in Surjection(1..Cardinality(S), S)
  BY <1>2, <1>7, <1>8, FS_Injection, Zenon
<1> QED
  BY <1>2, <1>5, <1>9 DEF Lists, Surjection

CallSet == [op : {"upsert", "remove", "collect", "recover"}, domain : Domains]
Posted  == [n : Nat, target : Instances \cup {None}, channel : Channels]

\* Taking the first call off a thread's list.
LEMMA FirstCall ==
    ASSUME BusTypeOK, NEW i \in Instances, calls[i] # << >>
    PROVE  /\ Len(calls[i]) \in Nat \ {0} /\ At(i) \in Domains
           /\ calls[i][1].domain = At(i) /\ \A op : Next1(i, op) => calls[i][1].op = op
           /\ Tail(calls[i]) \in Seq(CallSet)
           /\ Len(Tail(calls[i])) = Len(calls[i]) - 1
           /\ \A p \in 1..Len(Tail(calls[i])) : Tail(calls[i])[p] = calls[i][p + 1]
<1>1. calls[i] \in Seq(CallSet)
  BY DEF BusTypeOK, CallSet
<1>2. Head(calls[i]) \in CallSet /\ Head(calls[i]) = calls[i][1]
  BY <1>1, HeadTailProperties
<1>3. Len(calls[i]) \in Nat \ {0}
  BY <1>1, EmptySeq
<1> QED
  BY <1>1, <1>2, <1>3, HeadTailProperties DEF At, Next1, CallSet

\* The slot an instance's publication takes: its own, or an inactive one if it has none.
LEMMA SelectedSlot ==
    ASSUME BusTypeOK, NEW d \in Domains, NEW i \in Instances
    PROVE  /\ Selected(d, i) \in SUBSET Slots
           /\ \A k, l \in Selected(d, i) : k = l
           /\ PlacesOf(d, i) # {} => Selected(d, i) \subseteq PlacesOf(d, i)
           /\ \A k \in Selected(d, i) :
                PlacesOf(d, i) = {} => ~IsActive(table[d][k], globalSeq[d])
<1> DEFINE inactive == {k \in Slots : ~IsActive(table[d][k], globalSeq[d])}
<1>1. CASE PlacesOf(d, i) # {}
  <2>1. Selected(d, i) = {Min(PlacesOf(d, i))}
    BY <1>1 DEF Selected
  <2>2. PlacesOf(d, i) \in SUBSET Slots
    BY DEF PlacesOf
  <2>3. Min(PlacesOf(d, i)) \in PlacesOf(d, i)
    BY <1>1, <2>2, LeastSlot
  <2> QED
    BY <1>1, <2>1, <2>2, <2>3, Zenon
<1>2. CASE PlacesOf(d, i) = {} /\ inactive = {}
  BY <1>2 DEF Selected
<1>3. CASE PlacesOf(d, i) = {} /\ inactive # {}
  <2>1. Selected(d, i) = {Min(inactive)}
    BY <1>3 DEF Selected
  <2>2. Min(inactive) \in inactive
    BY <1>3, LeastSlot
  <2> QED
    BY <1>3, <2>1, <2>2
<1> QED
  BY <1>1, <1>2, <1>3

\* What a collection takes: messages of the ring in the window, in order, and all of those
\* that are still there and for the instance.
LEMMA ReadableFacts ==
    ASSUME BusTypeOK, NEW i \in Instances, NEW d \in Domains,
           NEW first \in Nat \ {0}, NEW newest \in Nat
    PROVE  /\ Readable(d, i, first, newest) \in Seq(Messages)
           /\ \A p \in 1..Len(Readable(d, i, first, newest)) :
                /\ Readable(d, i, first, newest)[p].seq \in first..newest
                /\ \E k \in 0..(R - 1) : Readable(d, i, first, newest)[p] = ring[d][k]
           /\ \A p, q \in 1..Len(Readable(d, i, first, newest)) : p < q =>
                Readable(d, i, first, newest)[p].seq < Readable(d, i, first, newest)[q].seq
           /\ \A s \in first..newest :
                ring[d][s % R].seq = s /\ Targets(ring[d][s % R], i, subs[i]) =>
                  \E p \in 1..Len(Readable(d, i, first, newest)) :
                    Readable(d, i, first, newest)[p] = ring[d][s % R]
<1> DEFINE taken == Readable(d, i, first, newest)
<1> DEFINE wanted == {s \in first..newest : /\ ring[d][s % R].seq = s
                                           /\ Targets(ring[d][s % R], i, subs[i])}
           n == Cardinality(wanted)
           f == Increasing(wanted)
<1>1. taken = [k \in 1..n |-> ring[d][f[k] % R]]
  BY DEF Readable
<1> HIDE DEF taken
<1>2. wanted \in SUBSET (1..newest)
  OBVIOUS
<1>3. n \in Nat /\ Lists(f, wanted)
  BY <1>2, IncreasingLists
<1>4. \A s \in wanted : /\ s \in first..newest /\ s % R \in 0..(R - 1)
                        /\ ring[d][s % R] \in Messages /\ ring[d][s % R].seq = s
  <2>1. \A s \in wanted : s \in first..newest /\ s \in Nat /\ ring[d][s % R].seq = s
    OBVIOUS
  <2>2. \A s \in wanted : s % R \in 0..(R - 1)
    BY <2>1, RingPlace
  <2>3. ring[d] \in [0..(R - 1) -> Messages]
    BY DEF BusTypeOK
  <2> HIDE DEF wanted
  <2> QED
    BY <2>1, <2>2, <2>3
<1>5. \A s \in first..newest :
        ring[d][s % R].seq = s /\ Targets(ring[d][s % R], i, subs[i]) => s \in wanted
  OBVIOUS
<1> HIDE DEF wanted, n, f
<1>6. \A k \in 1..n : f[k] \in wanted
  BY <1>3 DEF Lists, n
<1>7. \A k \in 1..n : taken[k] = ring[d][f[k] % R] /\ taken[k] \in Messages /\ taken[k].seq = f[k]
  BY <1>1, <1>4, <1>6
<1>8. taken \in Seq(Messages) /\ Len(taken) = n
  BY <1>1, <1>3, <1>7
<1>9. \A p, q \in 1..n : p < q => taken[p].seq < taken[q].seq
  BY <1>3, <1>7 DEF Lists, n
<1>10. \A s \in wanted : \E p \in 1..n : taken[p] = ring[d][s % R]
  BY <1>3, <1>7 DEF Lists, n
<1> QED
  BY <1>4, <1>5, <1>6, <1>7, <1>8, <1>9, <1>10 DEF taken

\* What a flush commits: some of the outbox, in order, numbered after the newest.
LEMMA CommittedFacts ==
    ASSUME BusTypeOK, NEW i \in Instances, NEW newest \in Nat,
           NEW wanted \in SUBSET (1..Len(outbox[i]))
    PROVE  /\ Committed(i, newest, wanted) \in Seq(Messages)
           /\ Len(Committed(i, newest, wanted)) = Cardinality(wanted)
           /\ \A p \in 1..Len(Committed(i, newest, wanted)) :
                /\ Committed(i, newest, wanted)[p].seq = newest + p
                /\ Committed(i, newest, wanted)[p].source = i
                /\ \E k \in wanted : Committed(i, newest, wanted)[p].n = outbox[i][k].n
           /\ \A p, q \in 1..Len(Committed(i, newest, wanted)) : p < q =>
                \E k, l \in wanted : /\ k < l
                                     /\ Committed(i, newest, wanted)[p].n = outbox[i][k].n
                                     /\ Committed(i, newest, wanted)[q].n = outbox[i][l].n
<1> DEFINE sent == Committed(i, newest, wanted)
<1> DEFINE n == Cardinality(wanted)
           f == Increasing(wanted)
<1>1. sent = [k \in 1..n |-> [seq |-> newest + k, source |-> i, n |-> outbox[i][f[k]].n,
                target |-> outbox[i][f[k]].target, channel |-> outbox[i][f[k]].channel]]
  BY DEF Committed
<1> HIDE DEF sent
<1>2. outbox[i] \in Seq(Posted) /\ Len(outbox[i]) \in Nat
  <2>1. outbox \in [Instances -> Seq(Posted)]
    BY DEF BusTypeOK, Posted
  <2> QED
    BY <2>1
<1>3. n \in Nat /\ Lists(f, wanted)
  BY <1>2, IncreasingLists
<1> HIDE DEF n, f
<1>4. \A k \in 1..n : f[k] \in wanted
  BY <1>3 DEF Lists, n
<1>5. \A k \in wanted : outbox[i][k] \in Posted
  BY <1>2
<1>6. \A k \in 1..n : outbox[i][f[k]] \in Posted
  BY <1>4, <1>5
<1>7. \A k \in 1..n : sent[k] \in Messages
  BY <1>1, <1>3, <1>6 DEF Messages, Posted
<1>8. sent \in Seq(Messages) /\ Len(sent) = n
  BY <1>1, <1>3, <1>7
<1>9. \A k \in 1..n : sent[k].seq = newest + k /\ sent[k].source = i /\ sent[k].n = outbox[i][f[k]].n
  BY <1>1
<1>10. \A p, q \in 1..n : p < q => f[p] < f[q]
  BY <1>3 DEF Lists, n
<1>11. \A p \in 1..n : \E k \in wanted : sent[p].n = outbox[i][k].n
  BY <1>4, <1>9
<1>12. ASSUME NEW p \in 1..n, NEW q \in 1..n, p < q
       PROVE  \E k, l \in wanted : /\ k < l
                                   /\ sent[p].n = outbox[i][k].n /\ sent[q].n = outbox[i][l].n
  BY <1>4, <1>9, <1>10, <1>12
<1> QED
  BY <1>8, <1>9, <1>11, <1>12 DEF n, sent

\* What a ring holds after a write: what it held, or the last message of the place.
LEMMA WrittenFacts ==
    ASSUME NEW slots \in [0..(R - 1) -> Messages], NEW messages \in Seq(Messages)
    PROVE  /\ Written(slots, messages) \in [0..(R - 1) -> Messages]
           /\ \A k \in 0..(R - 1) :
                \/ /\ Written(slots, messages)[k] = slots[k]
                   /\ \A p \in 1..Len(messages) : messages[p].seq % R # k
                \/ \E p \in 1..Len(messages) :
                     /\ Written(slots, messages)[k] = messages[p] /\ messages[p].seq % R = k
                     /\ \A q \in 1..Len(messages) : messages[q].seq % R = k => q <= p
<1> DEFINE after == Written(slots, messages)
<1> DEFINE here(k) == {p \in 1..Len(messages) : messages[p].seq % R = k}
           last(k) == CHOOSE p \in here(k) : \A q \in here(k) : q <= p
<1>1. after = [k \in 0..(R - 1) |-> IF here(k) = {} THEN slots[k] ELSE messages[last(k)]]
  BY DEF Written
<1>2. Len(messages) \in Nat
  OBVIOUS
<1>3. ASSUME NEW k \in 0..(R - 1)
      PROVE  /\ after[k] \in Messages
             /\ \/ /\ after[k] = slots[k]
                   /\ \A p \in 1..Len(messages) : messages[p].seq % R # k
                \/ \E p \in 1..Len(messages) :
                     /\ after[k] = messages[p] /\ messages[p].seq % R = k
                     /\ \A q \in 1..Len(messages) : messages[q].seq % R = k => q <= p
  <2>1. CASE here(k) = {}
    <3>1. after[k] = slots[k]
      BY <1>1, <2>1
    <3> QED
      BY <2>1, <3>1
  <2>2. CASE here(k) # {}
    <3>1. here(k) \in SUBSET (0..Len(messages))
      BY <1>2
    <3>2. \E p \in here(k) : \A q \in here(k) : q <= p
      BY <1>2, <2>2, <3>1, GreatestMember
    <3>3. last(k) \in here(k) /\ \A q \in here(k) : q <= last(k)
      BY <3>2, Zenon
    <3>4. after[k] = messages[last(k)]
      BY <1>1, <2>2
    <3> DEFINE p == last(k)
    <3> HIDE DEF last
    <3>5. p \in 1..Len(messages) /\ messages[p].seq % R = k
      BY <3>3
    <3>6. \A q \in 1..Len(messages) : messages[q].seq % R = k => q <= p
      BY <3>3
    <3>7. after[k] \in Messages
      BY <3>4, <3>5
    <3> QED
      BY <3>4, <3>5, <3>6, <3>7
  <2> QED
    BY <2>1, <2>2
<1> QED
  BY <1>1, <1>3

\* In short: a ring holds nothing after a write that was not there or written.
LEMMA WrittenFrom ==
    ASSUME NEW slots \in [0..(R - 1) -> Messages], NEW messages \in Seq(Messages),
           NEW k \in 0..(R - 1)
    PROVE  \/ Written(slots, messages)[k] = slots[k]
           \/ \E p \in 1..Len(messages) : Written(slots, messages)[k] = messages[p]
BY WrittenFacts, Zenon

-----------------------------------------------------------------------------
(* Types.                                                                   *)

\* The initial values have their types.
LEMMA InitTypes == Init => BusTypeOK
<1> SUFFICES ASSUME Init PROVE BusTypeOK
  OBVIOUS
<1>0. Topics \subseteq Channels
  BY BusAssumption
<1>1. PICK n \in 0..Earlier, c \in Channels, sleepers \in SUBSET Asleep :
        /\ \E slotOf \in [sleepers -> Slots] :
             /\ \A i, j \in sleepers : slotOf[i] = slotOf[j] => i = j
             /\ table = [d \in Domains |-> [k \in Slots |->
                          IF d = Home /\ \E i \in sleepers : slotOf[i] = k
                          THEN [id |-> CHOOSE i \in sleepers : slotOf[i] = k,
                                last |-> n, subs |-> {}]
                          ELSE Vacant]]
        /\ life = [i \in Instances |-> IF i \in sleepers THEN "attached" ELSE "new"]
        /\ heard = [i \in Instances |-> IF i \in sleepers THEN n ELSE 0]
        /\ log = [d \in Domains |-> IF d = Home THEN History(n, c) ELSE << >>]
        /\ globalSeq = [d \in Domains |-> Len(log[d])]
        /\ ring = [d \in Domains |-> Written([k \in 0..(R - 1) |-> Empty], log[d])]
  BY <1>0 DEF Init
<1>2. n \in Nat
  BY <1>1, BusAssumption
<1>3. table \in [Domains -> [Slots -> [id : Instances \cup {None}, last : Nat,
                                       subs : SUBSET Channels]]]
  <2>1. PICK slotOf \in [sleepers -> Slots] :
             table = [d \in Domains |-> [k \in Slots |->
                        IF d = Home /\ \E i \in sleepers : slotOf[i] = k
                        THEN [id |-> CHOOSE i \in sleepers : slotOf[i] = k,
                              last |-> n, subs |-> {}]
                        ELSE Vacant]]
    BY <1>1
  <2>2. ASSUME NEW k \in Slots, \E i \in sleepers : slotOf[i] = k
        PROVE  (CHOOSE i \in sleepers : slotOf[i] = k) \in Instances
    BY <2>2, BusAssumption
  <2> QED
    BY <1>2, <2>1, <2>2 DEF Vacant
<1>4. History(n, c) \in Seq(Messages) /\ << >> \in Seq(Messages)
  <2>1. \A k \in 1..n : [seq |-> k, source |-> None, n |-> k, target |-> None, channel |-> c]
                         \in Messages
    BY <1>2 DEF Messages
  <2>2. History(n, c) = [k \in 1..n |-> [seq |-> k, source |-> None, n |-> k, target |-> None,
                                         channel |-> c]]
    BY DEF History
  <2> QED
    BY <1>2, <2>1, <2>2
<1>5. log \in [Domains -> Seq(Messages)]
  BY <1>1, <1>4
<1>6. globalSeq \in [Domains -> Nat]
  BY <1>1, <1>5
<1>7. [k \in 0..(R - 1) |-> Empty] \in [0..(R - 1) -> Messages]
  BY DEF Empty, Messages
<1>8. ring \in [Domains -> [0..(R - 1) -> Messages]]
  <2>1. ASSUME NEW d \in Domains
        PROVE  Written([k \in 0..(R - 1) |-> Empty], log[d]) \in [0..(R - 1) -> Messages]
    BY <1>5, <1>7, WrittenFacts
  <2> QED
    BY <1>1, <2>1
<1>9. life \in [Instances -> {"new", "attached", "gone"}] /\ heard \in [Instances -> Nat]
  BY <1>1, <1>2
<1>10. /\ domain \in [Instances -> Domains] /\ subs \in [Instances -> SUBSET Channels]
       /\ unpublished \in [Instances -> BOOLEAN] /\ phase \in [Instances -> {"between", "block"}]
       /\ lastRead \in [Instances -> Nat] /\ dropped \in [Instances -> [Channels -> Nat]]
       /\ posts \in [Instances -> Nat] /\ moves \in Nat
  BY BusAssumption DEF Init
<1>11. /\ calls \in [Instances -> Seq([op : {"upsert", "remove", "collect", "recover"},
                                       domain : Domains])]
       /\ inbox \in [Instances -> Seq(Messages)]
       /\ outbox \in [Instances -> Seq([n : Nat, target : Instances \cup {None},
                                        channel : Channels])]
  BY EmptySeq DEF Init
<1>12. \A i \in Instances : Len(outbox[i]) <= Capacity
  BY BusAssumption DEF Init
<1> QED
  BY <1>3, <1>5, <1>6, <1>8, <1>9, <1>10, <1>11, <1>12 DEF BusTypeOK

\* Calls on the header keep the types.
LEMMA CallTypes ==
    ASSUME BusTypeOK, NEW i \in Instances
    PROVE  /\ Upsert(i) => BusTypeOK'
           /\ Remove(i) => BusTypeOK'
           /\ Lose(i) => BusTypeOK'
           /\ CollectNothing(i) => BusTypeOK'
<1>1. calls \in [Instances -> Seq(CallSet)]
  BY DEF BusTypeOK, CallSet
<1>2. ASSUME calls[i] # << >>, Done(i)
      PROVE  calls' \in [Instances -> Seq(CallSet)] /\ At(i) \in Domains
  BY <1>1, <1>2, FirstCall DEF Done
<1>3. CASE Upsert(i)
  <2> DEFINE places == IF life[i] = "attached" /\ domain[i] = At(i)
                       THEN Selected(At(i), i) ELSE {}
  <2>1. calls[i] # << >> /\ Done(i) /\ Publish(At(i), i, places)
    BY <1>3 DEF Upsert, Next1
  <2>2. /\ table' \in [Domains -> [Slots -> [id : Instances \cup {None}, last : Nat,
                                            subs : SUBSET Channels]]]
        /\ heard' \in [Instances -> Nat] /\ unpublished' \in [Instances -> BOOLEAN]
    <3>1. subs[i] \in SUBSET Channels /\ At(i) \in Domains /\ globalSeq[At(i)] \in Nat
      BY <1>2, <2>1 DEF BusTypeOK
    <3>2. PICK said \in Fitting(subs[i]) :
            table' = [table EXCEPT ![At(i)] = [k \in Slots |->
                        IF k \in places
                        THEN [id |-> i, last |-> globalSeq[At(i)], subs |-> said]
                        ELSE @[k]]]
      BY <2>1 DEF Publish
    <3>3. said \in SUBSET Channels
      BY <3>1, <3>2, FittingSays
    <3> QED
      BY <2>1, <3>1, <3>2, <3>3 DEF BusTypeOK, Publish
  <2> QED
    BY <1>2, <1>3, <2>1, <2>2 DEF BusTypeOK, Upsert, boxVars, CallSet
<1>4. CASE Remove(i)
  <2>1. calls[i] # << >> /\ Done(i)
    BY <1>4 DEF Remove, Next1
  <2>2. PlacesOf(At(i), i) # {} => Min(PlacesOf(At(i), i)) \in Slots
    <3>1. PlacesOf(At(i), i) \in SUBSET Slots
      BY DEF PlacesOf
    <3> QED
      BY <3>1, LeastSlot
  <2>3. table' \in [Domains -> [Slots -> [id : Instances \cup {None}, last : Nat,
                                          subs : SUBSET Channels]]]
    <3>1. Vacant \in [id : Instances \cup {None}, last : Nat, subs : SUBSET Channels]
      BY DEF Vacant
    <3> QED
      BY <1>2, <1>4, <2>1, <2>2, <3>1 DEF BusTypeOK, Remove
  <2> QED
    BY <1>2, <1>4, <2>1, <2>3 DEF BusTypeOK, Remove, boxVars, runtimeVars, CallSet
<1>5. CASE Lose(i)
  BY <1>2, <1>5 DEF BusTypeOK, Lose, boxVars, runtimeVars, headerVars, CallSet
<1>6. CASE CollectNothing(i)
  BY <1>2, <1>6 DEF BusTypeOK, CollectNothing, Next1, boxVars, runtimeVars, headerVars, CallSet
<1> QED
  BY <1>3, <1>4, <1>5, <1>6

\* A collection reads from behind the cursor.
LEMMA FirstFacts ==
    ASSUME BusTypeOK, NEW i \in Instances, NEW newest \in Nat
    PROVE  /\ First(i, newest) \in Nat \ {0} /\ First(i, newest) > lastRead[i]
           /\ Lags(i, newest) \in BOOLEAN /\ newest - First(i, newest) < R
<1>1. lastRead[i] \in Nat /\ R \in Nat \ {0}
  BY BusAssumption DEF BusTypeOK
<1>2. CASE Lags(i, newest)
  BY <1>1, <1>2 DEF First, Lags
<1>3. CASE ~Lags(i, newest)
  BY <1>1, <1>3 DEF First, Lags
<1> QED
  BY <1>2, <1>3 DEF Lags

\* A collection keeps the types.
LEMMA CollectTypes ==
    ASSUME BusTypeOK, NEW i \in Instances, Collect(i)
    PROVE  BusTypeOK'
<1> DEFINE d      == At(i)
           newest == globalSeq[d]
           mine   == PlacesOf(d, i)
           taken  == Readable(d, i, First(i, newest), newest)
<1>1. calls[i] # << >>
  BY DEF Collect, Next1
<1>2. d \in Domains /\ Tail(calls[i]) \in Seq(CallSet)
  BY <1>1, FirstCall
<1>3. newest \in Nat
  BY <1>2 DEF BusTypeOK
<1>4. taken \in Seq(Messages)
  BY <1>2, <1>3, FirstFacts, ReadableFacts, Zenon
<1>5. mine # {} => Min(mine) \in Slots
  <2>1. mine \in SUBSET Slots
    BY DEF PlacesOf
  <2> QED
    BY <2>1, LeastSlot
<1>6. calls' \in [Instances -> Seq(CallSet)]
  <2>1. calls \in [Instances -> Seq(CallSet)]
    BY DEF BusTypeOK, CallSet
  <2>2. (IF mine = {} THEN << Call("recover", d) >> ELSE << >>) \in Seq(CallSet)
    <3>1. Call("recover", d) \in CallSet
      BY <1>2 DEF Call, CallSet
    <3> QED
      BY <3>1
  <2>3. Tail(calls[i]) \o (IF mine = {} THEN << Call("recover", d) >> ELSE << >>) \in Seq(CallSet)
    BY <1>2, <2>2, ConcatProperties, Zenon
  <2> QED
    BY <2>1, <2>3 DEF Collect
<1>7. inbox' \in [Instances -> Seq(Messages)]
  <2>1. inbox \in [Instances -> Seq(Messages)]
    BY DEF BusTypeOK
  <2>2. inbox[i] \o taken \in Seq(Messages)
    BY <1>4, <2>1, ConcatProperties
  <2>3. inbox' = [inbox EXCEPT ![i] = inbox[i] \o taken]
    BY DEF Collect
  <2> HIDE DEF taken
  <2> QED
    BY <2>1, <2>2, <2>3
<1> HIDE DEF taken, mine
<1>8. lastRead' \in [Instances -> Nat]
  BY <1>3 DEF Collect, Cursor, BusTypeOK
<1>9. table' \in [Domains -> [Slots -> [id : Instances \cup {None}, last : Nat,
                                        subs : SUBSET Channels]]]
  <2>1. table' = IF mine = {} THEN table ELSE [table EXCEPT ![d][Min(mine)].last = newest]
    BY DEF Collect, mine
  <2> DEFINE Slot == [id : Instances \cup {None}, last : Nat, subs : SUBSET Channels]
  <2>2. table \in [Domains -> [Slots -> Slot]]
    BY DEF BusTypeOK
  <2> HIDE DEF newest, d
  <2>3. CASE mine # {}
    <3> DEFINE k == Min(mine)
    <3>1. table[d][k] \in Slot
      BY <1>2, <1>5, <2>2, <2>3
    <3>2. [table[d][k] EXCEPT !.last = newest] \in Slot
      BY <1>3, <3>1
    <3>3. table' = [table EXCEPT ![d] = [table[d] EXCEPT ![k] = [table[d][k] EXCEPT !.last = newest]]]
      BY <2>1, <2>3
    <3> HIDE DEF k, Slot
    <3>4. table' \in [Domains -> [Slots -> Slot]]
      BY <1>2, <2>2, <3>2, <3>3
    <3> QED
      BY <3>4 DEF Slot
  <2> QED
    BY <2>1, <2>2, <2>3
<1>10. heard' \in [Instances -> Nat]
  BY <1>3 DEF Collect, BusTypeOK
<1>11. dropped' \in [Instances -> [Channels -> Nat]]
  <2>1. CASE Lags(i, newest)
    <3>1. dropped' = [dropped EXCEPT ![i] =
                       [c \in Channels |-> @[c] + (IF c \in subs[i] THEN 1 ELSE 0)]]
      BY <2>1 DEF Collect
    <3>2. [c \in Channels |-> dropped[i][c] + (IF c \in subs[i] THEN 1 ELSE 0)]
            \in [Channels -> Nat]
      <4>1. \A c \in Channels : dropped[i][c] \in Nat
        BY DEF BusTypeOK
      <4> QED
        BY <4>1
    <3> QED
      BY <3>1, <3>2 DEF BusTypeOK
  <2>2. CASE ~Lags(i, newest)
    BY <2>2 DEF Collect, BusTypeOK
  <2> QED
    BY <2>1, <2>2
<1>12. UNCHANGED << runtimeVars, outbox, ring, globalSeq, log, phase >>
  BY DEF Collect
<1> QED
  BY <1>6, <1>7, <1>8, <1>9, <1>10, <1>11, <1>12 DEF BusTypeOK, CallSet, runtimeVars

\* What a script or the host calls between the header calls keeps the types.
LEMMA ScriptTypes ==
    ASSUME BusTypeOK, NEW i \in Instances
    PROVE  /\ Attach(i) => BusTypeOK'
           /\ Detach(i) => BusTypeOK'
           /\ Reset(i) => BusTypeOK'
           /\ BeginBlock(i) => BusTypeOK'
           /\ \A c \in Channels, subscribed \in BOOLEAN : Subscribe(i, c, subscribed) => BusTypeOK'
           /\ \A d \in Domains : Join(i, d) => BusTypeOK'
<1>1. domain[i] \in Domains /\ calls \in [Instances -> Seq(CallSet)]
  BY DEF BusTypeOK, CallSet
<1>2. \A op \in {"upsert", "remove", "collect", "recover"}, d \in Domains : Call(op, d) \in CallSet
  BY DEF Call, CallSet
<1>3. moves \in Nat /\ \A counted \in BOOLEAN : Counts(counted) => moves' \in Nat
  BY DEF BusTypeOK, Counts
<1>4. CASE Attach(i)
  <2>1. << Call("upsert", domain[i]) >> \in Seq(CallSet)
    BY <1>1, <1>2
  <2> QED
    BY <1>1, <1>4, <2>1 DEF Attach, BusTypeOK, boxVars, headerVars, CallSet
<1>5. CASE Detach(i)
  <2>1. << Call("remove", domain[i]) >> \in Seq(CallSet)
    BY <1>1, <1>2
  <2> QED
    BY <1>1, <1>3, <1>5, <2>1 DEF Detach, BusTypeOK, boxVars, headerVars, CallSet
<1>6. CASE Reset(i)
  <2>1. moves' \in Nat
    BY <1>3, <1>6 DEF Reset
  <2>2. /\ inbox' = [inbox EXCEPT ![i] = << >>] /\ outbox' = [outbox EXCEPT ![i] = << >>]
        /\ dropped' = [dropped EXCEPT ![i] = [c \in Channels |-> 0]]
        /\ lastRead' = [lastRead EXCEPT ![i] = 0]
        /\ UNCHANGED << life, domain, subs, unpublished, posts, headerVars, calls, phase >>
    BY <1>6 DEF Reset
  <2>3. inbox' \in [Instances -> Seq(Messages)] /\ lastRead' \in [Instances -> Nat]
    BY <2>2 DEF BusTypeOK
  <2>4. /\ outbox' \in [Instances -> Seq([n : Nat, target : Instances \cup {None},
                                          channel : Channels])]
        /\ \A j \in Instances : Len(outbox'[j]) <= Capacity
    <3>1. << >> \in Seq(Posted) /\ Len(<< >>) = 0
      OBVIOUS
    <3>2. outbox \in [Instances -> Seq(Posted)]
      BY DEF BusTypeOK, Posted
    <3>3. outbox' \in [Instances -> Seq(Posted)]
      BY <2>2, <3>1, <3>2
    <3>4. \A j \in Instances : Len(outbox'[j]) <= Capacity
      BY <2>2, <3>1, <3>2, BusAssumption DEF BusTypeOK
    <3> QED
      BY <3>3, <3>4 DEF Posted
  <2>5. dropped' \in [Instances -> [Channels -> Nat]]
    BY <2>2 DEF BusTypeOK
  <2> QED
    BY <2>1, <2>2, <2>3, <2>4, <2>5 DEF BusTypeOK, headerVars
<1>7. CASE BeginBlock(i)
  <2>1. (IF unpublished[i] THEN << Call("upsert", domain[i]) >> ELSE << >>) \in Seq(CallSet)
    BY <1>1, <1>2
  <2>2. << Call("collect", domain[i]) >> \in Seq(CallSet)
    BY <1>1, <1>2
  <2>3. (IF unpublished[i] THEN << Call("upsert", domain[i]) >> ELSE << >>)
          \o << Call("collect", domain[i]) >> \in Seq(CallSet)
    BY <2>1, <2>2, ConcatProperties, Zenon
  <2>4. calls' \in [Instances -> Seq(CallSet)]
    BY <1>1, <1>7, <2>3 DEF BeginBlock
  <2> QED
    BY <1>7, <2>4 DEF BeginBlock, BusTypeOK, runtimeVars, boxVars, headerVars, CallSet
<1>8. ASSUME NEW c \in Channels, NEW subscribed \in BOOLEAN, Subscribe(i, c, subscribed)
      PROVE  BusTypeOK'
  <2>1. << Call("upsert", domain[i]) >> \in Seq(CallSet)
    BY <1>1, <1>2
  <2>2. Counts(~subscribed \/ c \notin Topics)
    BY <1>8 DEF Subscribe
  <2>3. moves' \in Nat
    BY <1>3, <2>2
  <2>4. subs' \in [Instances -> SUBSET Channels]
    BY <1>8 DEF Subscribe, BusTypeOK
  <2> QED
    BY <1>1, <1>8, <2>1, <2>3, <2>4 DEF Subscribe, BusTypeOK, boxVars, headerVars, CallSet
<1>9. ASSUME NEW d \in Domains, Join(i, d) PROVE BusTypeOK'
  <2>1. /\ << Call("remove", domain[i]), Call("upsert", d) >> \in Seq(CallSet)
        /\ << Call("upsert", d) >> \in Seq(CallSet)
    BY <1>1, <1>2
  <2>2. moves' \in Nat
    BY <1>3, <1>9 DEF Join
  <2>3. /\ domain' = [domain EXCEPT ![i] = d] /\ unpublished' = [unpublished EXCEPT ![i] = TRUE]
        /\ UNCHANGED << life, subs, posts, outbox, dropped, headerVars, phase >>
    BY <1>9 DEF Join
  <2>4. CASE d = domain[i]
    <3>1. calls' = [calls EXCEPT ![i] = << Call("upsert", d) >>] /\ UNCHANGED << inbox, lastRead >>
      BY <1>9, <2>4 DEF Join
    <3> QED
      BY <1>1, <2>1, <2>2, <2>3, <3>1 DEF BusTypeOK, headerVars, CallSet
  <2>5. CASE d # domain[i]
    <3>1. /\ calls' = [calls EXCEPT ![i] = << Call("remove", domain[i]), Call("upsert", d) >>]
          /\ inbox' = [inbox EXCEPT ![i] = << >>] /\ lastRead' = [lastRead EXCEPT ![i] = 0]
      BY <1>9, <2>5 DEF Join
    <3>2. inbox' \in [Instances -> Seq(Messages)]
      BY <3>1, EmptySeq DEF BusTypeOK
    <3> QED
      BY <1>1, <2>1, <2>2, <2>3, <3>1, <3>2 DEF BusTypeOK, headerVars, CallSet
  <2> QED
    BY <2>4, <2>5
<1> QED
  BY <1>4, <1>5, <1>6, <1>7, <1>8, <1>9

\* A sequence without its p-th element.
Without(s, p) == SubSeq(s, 1, p - 1) \o SubSeq(s, p + 1, Len(s))

\* It has the other elements, in order.
LEMMA WithoutFacts ==
    ASSUME NEW S, NEW s \in Seq(S), NEW p \in 1..Len(s)
    PROVE  /\ Without(s, p) \in Seq(S) /\ Len(Without(s, p)) = Len(s) - 1
           /\ \A k \in 1..(Len(s) - 1) :
                Without(s, p)[k] = IF k < p THEN s[k] ELSE s[k + 1]
<1> DEFINE t == Without(s, p)
           a == SubSeq(s, 1, p - 1)
           b == SubSeq(s, p + 1, Len(s))
<1>1. Len(s) \in Nat /\ p \in Nat /\ p >= 1 /\ p <= Len(s)
  OBVIOUS
<1>2. a \in Seq(S) /\ Len(a) = p - 1 /\ \A k \in 1..(p - 1) : a[k] = s[k]
  <2>1. \A k \in 1..(p - 1) : s[k] \in S
    BY <1>1
  <2> QED
    BY <1>1, <2>1, SubSeqProperties
<1>3. b \in Seq(S) /\ Len(b) = Len(s) - p /\ \A k \in 1..(Len(s) - p) : b[k] = s[p + k]
  <2>1. \A k \in (p + 1)..Len(s) : s[k] \in S
    BY <1>1
  <2>2. /\ b \in Seq(S) /\ Len(b) = IF p + 1 <= Len(s) THEN Len(s) - (p + 1) + 1 ELSE 0
        /\ \A k \in 1..(Len(s) - (p + 1) + 1) : b[k] = s[p + 1 + k - 1]
    BY <1>1, <2>1, SubSeqProperties
  <2> HIDE DEF b
  <2>3. Len(b) = Len(s) - p
    BY <1>1, <2>2
  <2>4. ASSUME NEW k \in 1..(Len(s) - p) PROVE b[k] = s[p + k]
    <3>1. k \in 1..(Len(s) - (p + 1) + 1) /\ p + 1 + k - 1 = p + k
      BY <1>1
    <3> QED
      BY <2>2, <3>1
  <2> QED
    BY <2>2, <2>3, <2>4
<1> HIDE DEF a, b
<1>4. /\ t \in Seq(S) /\ Len(t) = Len(a) + Len(b)
      /\ \A k \in 1..(Len(a) + Len(b)) : t[k] = IF k <= Len(a) THEN a[k] ELSE b[k - Len(a)]
  BY <1>2, <1>3, ConcatProperties DEF Without, a, b
<1> HIDE DEF t
<1>5. Len(t) = Len(s) - 1
  <2>1. Len(t) = (p - 1) + (Len(s) - p)
    BY <1>2, <1>3, <1>4
  <2>2. \A x, y \in Nat : (y - 1) + (x - y) = x - 1
    OBVIOUS
  <2> QED
    BY <1>1, <2>1, <2>2, Zenon
<1>6. ASSUME NEW k \in 1..Len(t) PROVE t[k] = IF k < p THEN s[k] ELSE s[k + 1]
  <2>1. CASE k < p
    <3>1. k \in 1..(p - 1) /\ k <= Len(a)
      BY <1>1, <1>2, <2>1
    <3> QED
      BY <1>2, <1>4, <1>5, <2>1, <3>1
  <2>2. CASE ~(k < p)
    <3>0. k \in Nat /\ k >= p /\ k <= Len(s) - 1
      <4>1. k \in 1..(Len(s) - 1)
        BY <1>5
      <4> QED
        BY <1>1, <4>1, <2>2
    <3>1. k - (p - 1) \in 1..(Len(s) - p) /\ ~(k <= Len(a)) /\ p + (k - (p - 1)) = k + 1
      BY <1>1, <1>2, <3>0
    <3>2. t[k] = b[k - (p - 1)]
      BY <1>2, <1>4, <3>1
    <3> QED
      BY <1>3, <2>2, <3>1, <3>2
  <2> QED
    BY <2>1, <2>2
<1> QED
  BY <1>4, <1>5, <1>6 DEF t

\* Losses are counted in numbers.
LEMMA CountedTypes ==
    ASSUME BusTypeOK, NEW i \in Instances, NEW lost \in SUBSET (1..Len(outbox[i]))
    PROVE  Counted(i, lost) \in [Channels -> Nat]
<1>1. Len(outbox[i]) \in Nat
  BY DEF BusTypeOK
<1>2. IsFiniteSet(1..Len(outbox[i]))
  BY <1>1, FS_Interval
<1>3. ASSUME NEW c \in Channels
      PROVE  dropped[i][c] + Cardinality({k \in lost : outbox[i][k].channel = c}) \in Nat
  <2>1. IsFiniteSet({k \in lost : outbox[i][k].channel = c})
    <3>1. {k \in lost : outbox[i][k].channel = c} \in SUBSET (1..Len(outbox[i]))
      OBVIOUS
    <3> QED
      BY <1>2, <3>1, FS_Subset, Zenon
  <2>2. Cardinality({k \in lost : outbox[i][k].channel = c}) \in Nat
    BY <2>1, FS_CardinalityType, Zenon
  <2>3. dropped[i][c] \in Nat
    BY DEF BusTypeOK
  <2> QED
    BY <2>2, <2>3
<1> QED
  BY <1>3 DEF Counted

\* What a script posts and receives keeps the types.
LEMMA MessageTypes ==
    ASSUME BusTypeOK, NEW i \in Instances
    PROVE  /\ \A c \in Channels : Receive(i, c) => BusTypeOK'
           /\ \A t \in Instances \cup {None}, c \in Channels : Post(i, t, c) => BusTypeOK'
<1>1. outbox \in [Instances -> Seq(Posted)] /\ inbox \in [Instances -> Seq(Messages)]
  BY DEF BusTypeOK, Posted
<1>2. ASSUME NEW c \in Channels, Receive(i, c) PROVE BusTypeOK'
  <2>1. PICK p \in 1..Len(inbox[i]) :
          inbox' = [inbox EXCEPT ![i] = Without(inbox[i], p)]
    BY <1>2 DEF Receive, Without
  <2>2. Without(inbox[i], p) \in Seq(Messages)
    BY <1>1, WithoutFacts, Zenon
  <2>3. inbox' \in [Instances -> Seq(Messages)]
    BY <1>1, <2>1, <2>2
  <2> QED
    BY <1>2, <2>3 DEF Receive, BusTypeOK, runtimeVars, headerVars
<1>3. ASSUME NEW t \in Instances \cup {None}, NEW c \in Channels, Post(i, t, c) PROVE BusTypeOK'
  <2>1. moves' \in Nat /\ posts' \in [Instances -> Nat] /\ posts'[i] \in Nat
    <3>1. Counts(t # None) /\ posts' = [posts EXCEPT ![i] = @ + 1]
      BY <1>3 DEF Post
    <3>2. moves' \in Nat
      BY <3>1 DEF Counts, BusTypeOK
    <3>3. posts \in [Instances -> Nat]
      BY DEF BusTypeOK
    <3> QED
      BY <3>1, <3>2, <3>3
  <2>2. CASE RoomLeft(i)
    <3> DEFINE m == [n |-> posts'[i], target |-> t, channel |-> c]
    <3>1. m \in Posted
      BY <2>1 DEF Posted
    <3>2. outbox' = [outbox EXCEPT ![i] = Append(outbox[i], m)] /\ UNCHANGED dropped
      BY <1>3, <2>2 DEF Post
    <3>3. Append(outbox[i], m) \in Seq(Posted) /\ Len(Append(outbox[i], m)) = Len(outbox[i]) + 1
      BY <1>1, <3>1, AppendProperties
    <3>4. Len(outbox[i]) \in Nat /\ Len(outbox[i]) + 1 <= Capacity
      BY <1>1, <2>2, BusAssumption DEF RoomLeft
    <3> HIDE DEF m
    <3>5. outbox' \in [Instances -> Seq(Posted)]
      BY <1>1, <3>2, <3>3
    <3>6. \A j \in Instances : Len(outbox'[j]) <= Capacity
      BY <1>1, <3>2, <3>3, <3>4 DEF BusTypeOK
    <3> QED
      BY <1>3, <2>1, <3>2, <3>5, <3>6 DEF Post, BusTypeOK, headerVars, Posted
  <2>3. CASE ~RoomLeft(i)
    <3>1. dropped' = [dropped EXCEPT ![i][c] = @ + 1] /\ UNCHANGED outbox
      BY <1>3, <2>3 DEF Post
    <3>2. dropped' \in [Instances -> [Channels -> Nat]]
      BY <3>1 DEF BusTypeOK
    <3> QED
      BY <1>3, <2>1, <3>1, <3>2 DEF Post, BusTypeOK, headerVars
  <2> QED
    BY <2>2, <2>3
<1> QED
  BY <1>2, <1>3

\* What a flush does to the header, in terms of the messages it commits.
LEMMA FlushFacts ==
    ASSUME BusTypeOK, NEW i \in Instances, Flush(i)
    PROVE  \E wanted \in SUBSET (1..Len(outbox[i])), sent \in Seq(Messages) :
             /\ wanted = {k \in 1..Len(outbox[i]) : HasTarget(i, outbox[i][k])}
             /\ sent = Committed(i, globalSeq[domain[i]], wanted)
             /\ ring' = [ring EXCEPT ![domain[i]] = Written(ring[domain[i]], sent)]
             /\ globalSeq' = [globalSeq EXCEPT ![domain[i]] = @ + Len(sent)]
             /\ log' = [log EXCEPT ![domain[i]] = @ \o sent]
             /\ dropped' = [dropped EXCEPT ![i] = Counted(i, (1..Len(outbox[i])) \ wanted)]
<1> DEFINE wanted == {k \in 1..Len(outbox[i]) : HasTarget(i, outbox[i][k])}
           sent   == Committed(i, globalSeq[domain[i]], wanted)
<1>1. domain[i] \in Domains /\ globalSeq[domain[i]] \in Nat
  BY DEF BusTypeOK
<1>2. sent \in Seq(Messages)
  BY <1>1, CommittedFacts
<1>3. /\ ring' = [ring EXCEPT ![domain[i]] = Written(ring[domain[i]], sent)]
      /\ globalSeq' = [globalSeq EXCEPT ![domain[i]] = @ + Len(sent)]
      /\ log' = [log EXCEPT ![domain[i]] = @ \o sent]
      /\ dropped' = [dropped EXCEPT ![i] = Counted(i, (1..Len(outbox[i])) \ wanted)]
  BY DEF Flush
<1> HIDE DEF sent
<1> QED
  BY <1>2, <1>3 DEF sent

\* The end of a block keeps the types.
LEMMA EndTypes ==
    ASSUME BusTypeOK, NEW i \in Instances
    PROVE  /\ EndBlock(i) => BusTypeOK'
           /\ FlushLost(i) => BusTypeOK'
           /\ Flush(i) => BusTypeOK'
<1>1. outbox \in [Instances -> Seq(Posted)] /\ << >> \in Seq(Posted) /\ Len(<< >>) = 0
  <2>1. outbox \in [Instances -> Seq(Posted)]
    BY DEF BusTypeOK, Posted
  <2> QED
    BY <2>1, EmptySeq
<1>2. ASSUME outbox' = [outbox EXCEPT ![i] = << >>]
      PROVE  outbox' \in [Instances -> Seq(Posted)] /\ \A j \in Instances : Len(outbox'[j]) <= Capacity
  BY <1>1, <1>2, BusAssumption DEF BusTypeOK
<1>3. CASE EndBlock(i)
  BY <1>3 DEF EndBlock, BusTypeOK, runtimeVars, boxVars, headerVars
<1>4. CASE FlushLost(i)
  <2>1. outbox' \in [Instances -> Seq(Posted)] /\ \A j \in Instances : Len(outbox'[j]) <= Capacity
    BY <1>2, <1>4 DEF FlushLost
  <2>2. dropped' \in [Instances -> [Channels -> Nat]]
    <3>1. Counted(i, 1..Len(outbox[i])) \in [Channels -> Nat]
      BY CountedTypes
    <3> QED
      BY <1>4, <3>1 DEF FlushLost, BusTypeOK
  <2> QED
    BY <1>4, <2>1, <2>2 DEF FlushLost, BusTypeOK, runtimeVars, headerVars, Posted
<1>5. CASE Flush(i)
  <2>1. PICK wanted \in SUBSET (1..Len(outbox[i])), sent \in Seq(Messages) :
             /\ ring' = [ring EXCEPT ![domain[i]] = Written(ring[domain[i]], sent)]
             /\ globalSeq' = [globalSeq EXCEPT ![domain[i]] = @ + Len(sent)]
             /\ log' = [log EXCEPT ![domain[i]] = @ \o sent]
             /\ dropped' = [dropped EXCEPT ![i] = Counted(i, (1..Len(outbox[i])) \ wanted)]
    BY <1>5, FlushFacts
  <2>2. outbox' \in [Instances -> Seq(Posted)] /\ \A j \in Instances : Len(outbox'[j]) <= Capacity
    BY <1>2, <1>5 DEF Flush
  <2>3. domain[i] \in Domains
    BY DEF BusTypeOK
  <2>4. dropped' \in [Instances -> [Channels -> Nat]]
    <3>1. Counted(i, (1..Len(outbox[i])) \ wanted) \in [Channels -> Nat]
      BY CountedTypes
    <3> QED
      BY <2>1, <3>1 DEF BusTypeOK
  <2>5. ring' \in [Domains -> [0..(R - 1) -> Messages]]
    <3>1. ring[domain[i]] \in [0..(R - 1) -> Messages]
      BY <2>3 DEF BusTypeOK
    <3>2. Written(ring[domain[i]], sent) \in [0..(R - 1) -> Messages]
      BY <3>1, WrittenFacts
    <3> QED
      BY <2>1, <2>3, <3>2 DEF BusTypeOK
  <2>6. globalSeq' \in [Domains -> Nat]
    BY <2>1, <2>3 DEF BusTypeOK
  <2>7. log' \in [Domains -> Seq(Messages)]
    <3>1. log[domain[i]] \o sent \in Seq(Messages)
      BY <2>3, ConcatProperties DEF BusTypeOK
    <3> QED
      BY <2>1, <2>3, <3>1 DEF BusTypeOK
  <2>8. /\ phase' \in [Instances -> {"between", "block"}]
        /\ UNCHANGED << runtimeVars, lastRead, inbox, table, heard, calls >>
    BY <1>5 DEF Flush, BusTypeOK
  <2> QED
    BY <2>2, <2>4, <2>5, <2>6, <2>7, <2>8 DEF BusTypeOK, runtimeVars, Posted
<1> QED
  BY <1>3, <1>4, <1>5

\* Every step keeps the types.
LEMMA NextTypes ==
    ASSUME BusTypeOK, [Next]_vars
    PROVE  BusTypeOK'
<1>1. CASE Next
  BY <1>1, CallTypes, CollectTypes, ScriptTypes, MessageTypes, EndTypes
    DEF Next, Make, Script, Ends
<1>2. CASE UNCHANGED vars
  BY <1>2 DEF BusTypeOK, vars, runtimeVars, boxVars, headerVars
<1> QED
  BY <1>1, <1>2

\* Every variable keeps its type and no outbox outgrows its limit.
THEOREM BusTypesHold == Spec => []BusTypeOK
BY InitTypes, NextTypes, PTL DEF Spec

-----------------------------------------------------------------------------
(* Slots and who holds them.                                                *)

\* What the proofs say of slots, apart from the calls to come.
SlotsInv == SlotsDistinct /\ SlotIsRecord /\ ProcessingPeerKeepsSlot

\* The promise to one instance: its slot, or enough messages to lose it.
Kept(i) ==
    \/ \E k \in Slots : table[domain[i]][k].id = i /\ table[domain[i]][k].subs \in Fitting(subs[i])
    \/ heard[i] # 0 /\ globalSeq[domain[i]] > heard[i] + Stale

\* The promise is made to every published record.
LEMMA KeptIsPromise ==
    ProcessingPeerKeepsSlot <=>
      \A i \in Instances : life[i] = "attached" /\ ~unpublished[i] => Kept(i)
BY DEF ProcessingPeerKeepsSlot, Kept, PlacesOf

\* It holds at first: a sleeper has the slot it took.
LEMMA InitRegistry == Init => RegistryInv
<1> SUFFICES ASSUME Init PROVE RegistryInv
  OBVIOUS
<1>0. PICK n \in 0..Earlier, sleepers \in SUBSET Asleep :
        /\ \E slotOf \in [sleepers -> Slots] :
             /\ \A i, j \in sleepers : slotOf[i] = slotOf[j] => i = j
             /\ table = [d \in Domains |-> [k \in Slots |->
                          IF d = Home /\ \E i \in sleepers : slotOf[i] = k
                          THEN [id |-> CHOOSE i \in sleepers : slotOf[i] = k,
                                last |-> n, subs |-> {}]
                          ELSE Vacant]]
        /\ life = [i \in Instances |-> IF i \in sleepers THEN "attached" ELSE "new"]
        /\ heard = [i \in Instances |-> IF i \in sleepers THEN n ELSE 0]
  BY DEF Init
<1>1. PICK slotOf \in [sleepers -> Slots] :
        /\ \A i, j \in sleepers : slotOf[i] = slotOf[j] => i = j
        /\ table = [d \in Domains |-> [k \in Slots |->
                     IF d = Home /\ \E i \in sleepers : slotOf[i] = k
                     THEN [id |-> CHOOSE i \in sleepers : slotOf[i] = k,
                           last |-> n, subs |-> {}]
                     ELSE Vacant]]
        /\ life = [i \in Instances |-> IF i \in sleepers THEN "attached" ELSE "new"]
        /\ heard = [i \in Instances |-> IF i \in sleepers THEN n ELSE 0]
  BY <1>0
<1>2. /\ domain = [i \in Instances |-> Home] /\ subs = [i \in Instances |-> {}]
      /\ calls = [i \in Instances |-> << >>]
  BY DEF Init
<1>3. ASSUME NEW d \in Domains, NEW k \in Slots, table[d][k].id # None
      PROVE  /\ d = Home /\ table[d][k].id \in sleepers /\ slotOf[table[d][k].id] = k
             /\ table[d][k].last = n /\ table[d][k].subs = {}
  <2>1. d = Home /\ \E i \in sleepers : slotOf[i] = k
    BY <1>1, <1>3 DEF Vacant
  <2>2. table[d][k] = [id |-> CHOOSE i \in sleepers : slotOf[i] = k, last |-> n, subs |-> {}]
    BY <1>1, <2>1
  <2> QED
    BY <2>1, <2>2
<1>4. ASSUME NEW i \in sleepers
      PROVE  i \in Instances /\ i # None /\ table[Home][slotOf[i]].id = i
  <2>1. slotOf[i] \in Slots /\ Home \in Domains /\ i \in Instances /\ i # None
    BY BusAssumption
  <2>2. (CHOOSE j \in sleepers : slotOf[j] = slotOf[i]) = i
    BY <1>1
  <2> QED
    BY <1>1, <2>1, <2>2
<1>5. SlotsDistinct
  BY <1>3 DEF SlotsDistinct
<1>6. CallsAreHome
  BY <1>2 DEF CallsAreHome
<1>7. ASSUME NEW i \in Instances, life[i] = "attached" PROVE i \in sleepers
  BY <1>1, <1>7
<1>8. SlotIsRecord
  <2> SUFFICES ASSUME NEW i \in Instances, NEW k \in Slots, life[i] = "attached",
                      table[domain[i]][k].id = i
               PROVE  /\ table[domain[i]][k].last = heard[i]
                      /\ table[domain[i]][k].subs \in Fitting(subs[i])
    BY DEF SlotIsRecord
  <2>1. i \in sleepers /\ i # None /\ domain[i] = Home /\ Home \in Domains
    BY <1>2, <1>4, <1>7, BusAssumption
  <2>2. table[Home][k].last = n /\ table[Home][k].subs = {}
    BY <1>3, <2>1
  <2> QED
    BY <1>1, <1>2, <2>1, <2>2, FittingSays
<1>9. ProcessingPeerKeepsSlot
  <2> SUFFICES ASSUME NEW i \in Instances, life[i] = "attached" PROVE Kept(i)
    BY KeptIsPromise
  <2>1. i \in sleepers /\ table[Home][slotOf[i]].id = i /\ slotOf[i] \in Slots /\ i # None
    BY <1>4, <1>7
  <2>2. table[Home][slotOf[i]].subs = {}
    BY <1>3, <2>1, BusAssumption
  <2> QED
    <3>1. subs[i] = {} /\ domain[i] = Home
      BY <1>2
    <3>2. table[domain[i]][slotOf[i]].subs \in Fitting(subs[i])
      BY <2>2, <3>1, FittingSays
    <3> QED
      BY <2>1, <3>1, <3>2 DEF Kept
<1> QED
  BY <1>5, <1>6, <1>8, <1>9 DEF RegistryInv

\* Steps that leave table and records alone, while sequences may grow.
LEMMA OthersKeepSlots ==
    ASSUME BusTypeOK, BusTypeOK', SlotsInv,
           UNCHANGED << table, heard, unpublished, subs, domain, life >>,
           \A d \in Domains : globalSeq[d] <= globalSeq'[d]
    PROVE  SlotsInv'
<1>1. SlotsDistinct' /\ SlotIsRecord'
  BY DEF SlotsInv, SlotsDistinct, SlotIsRecord
<1>2. ASSUME NEW i \in Instances, Kept(i) PROVE Kept(i)'
  <2>1. domain[i] \in Domains /\ heard[i] \in Nat
    BY DEF BusTypeOK
  <2>2. globalSeq[domain[i]] \in Nat /\ globalSeq'[domain[i]] \in Nat
    BY <2>1 DEF BusTypeOK
  <2> QED
    BY <1>2, <2>1, <2>2, BusAssumption DEF Kept
<1>3. ProcessingPeerKeepsSlot'
  BY <1>2, KeptIsPromise DEF SlotsInv, ProcessingPeerKeepsSlot, Kept, PlacesOf
<1> QED
  BY <1>1, <1>3 DEF SlotsInv

\* Steps after which a record of one instance is to be published, or is no more.
LEMMA RecordMayChange ==
    ASSUME BusTypeOK, SlotsInv, NEW i \in Instances,
           life'[i] # "attached" \/ unpublished'[i],
           \A j \in Instances \ {i} : /\ life'[j] = life[j] /\ unpublished'[j] = unpublished[j]
                                      /\ domain'[j] = domain[j] /\ subs'[j] = subs[j],
           UNCHANGED << table, heard, globalSeq >>
    PROVE  SlotsInv'
<1>1. SlotsDistinct'
  BY DEF SlotsInv, SlotsDistinct
<1>2. SlotIsRecord'
  BY DEF SlotsInv, SlotIsRecord
<1>3. ProcessingPeerKeepsSlot'
  <2> SUFFICES ASSUME NEW j \in Instances, life'[j] = "attached", ~unpublished'[j]
               PROVE  \/ \E k \in PlacesOf(domain[j], j)' :
                           table'[domain'[j]][k].subs \in Fitting(subs'[j])
                      \/ heard'[j] # 0 /\ globalSeq'[domain'[j]] > heard'[j] + Stale
    BY DEF ProcessingPeerKeepsSlot
  <2>1. j # i
    OBVIOUS
  <2> QED
    BY <2>1 DEF SlotsInv, ProcessingPeerKeepsSlot, PlacesOf
<1> QED
  BY <1>1, <1>2, <1>3 DEF SlotsInv

\* A publication takes a slot only from an instance that lost its claim.
LEMMA UpsertKeepsSlots ==
    ASSUME BusTypeOK, BusTypeOK', SlotsInv, NEW i \in Instances, Upsert(i)
    PROVE  SlotsInv'
<1> DEFINE d == At(i)
           P == IF life[i] = "attached" /\ domain[i] = d THEN Selected(d, i) ELSE {}
<1>1. calls[i] # << >> /\ Publish(d, i, P) /\ UNCHANGED << life, domain, subs, globalSeq >>
  BY DEF Upsert, Next1
<1>2. d \in Domains
  BY <1>1, FirstCall
<1>3. /\ P \in SUBSET Slots /\ \A k, l \in P : k = l
      /\ P # {} => life[i] = "attached" /\ domain[i] = d
      /\ PlacesOf(d, i) # {} => P \subseteq PlacesOf(d, i)
      /\ \A k \in P : PlacesOf(d, i) = {} => ~IsActive(table[d][k], globalSeq[d])
  BY <1>2, SelectedSlot
<1>0. PICK said \in Fitting(subs[i]) :
        table' = [table EXCEPT ![d] = [k \in Slots |->
                    IF k \in P THEN [id |-> i, last |-> globalSeq[d], subs |-> said]
                    ELSE @[k]]]
  BY <1>1 DEF Publish
<1> DEFINE new == [id |-> i, last |-> globalSeq[d], subs |-> said]
<1>4. /\ \A e \in Domains, k \in Slots :
           table'[e][k] = IF e = d /\ k \in P THEN new ELSE table[e][k]
      /\ heard' = IF P = {} THEN heard ELSE [heard EXCEPT ![i] = globalSeq[d]]
      /\ unpublished' = [unpublished EXCEPT ![i] = @ /\ P = {}]
  BY <1>0, <1>1, <1>2 DEF Publish, BusTypeOK
<1>5. /\ i # None /\ globalSeq[d] \in Nat /\ heard \in [Instances -> Nat]
      /\ unpublished \in [Instances -> BOOLEAN] /\ domain \in [Instances -> Domains]
      /\ \A k \in Slots : table[d][k].last \in Nat
  <2>1. /\ globalSeq[d] \in Nat /\ heard \in [Instances -> Nat]
        /\ unpublished \in [Instances -> BOOLEAN] /\ domain \in [Instances -> Domains]
    BY <1>2 DEF BusTypeOK
  <2>2. table[d] \in [Slots -> [id : Instances \cup {None}, last : Nat, subs : SUBSET Channels]]
    BY <1>2 DEF BusTypeOK
  <2> QED
    BY <2>1, <2>2, BusAssumption
<1> HIDE DEF P, d
<1>6. CASE P = {}
  <2>1. \A e \in Domains, k \in Slots : table'[e][k] = table[e][k]
    BY <1>4, <1>6
  <2>2. heard' = heard /\ unpublished' = unpublished
    BY <1>4, <1>5, <1>6
  <2>3. table' = table
    <3>1. /\ table \in [Domains -> [Slots -> [id : Instances \cup {None}, last : Nat,
                                              subs : SUBSET Channels]]]
          /\ table' \in [Domains -> [Slots -> [id : Instances \cup {None}, last : Nat,
                                               subs : SUBSET Channels]]]
      BY DEF BusTypeOK
    <3>2. \A e \in Domains : table'[e] = table[e]
      BY <2>1, <3>1
    <3> QED
      BY <3>1, <3>2
  <2>4. \A e \in Domains : globalSeq[e] <= globalSeq'[e]
    BY <1>1 DEF BusTypeOK
  <2> QED
    BY <1>1, <2>2, <2>3, <2>4, OthersKeepSlots
<1>7. CASE P # {}
  <2>1. PICK q : q \in P
    BY <1>7
  <2>2. /\ q \in Slots /\ life[i] = "attached" /\ domain[i] = d
        /\ \A k \in Slots : k \in P <=> k = q
    BY <1>3, <2>1
  <2>3. /\ table'[d][q] = new
        /\ \A e \in Domains, k \in Slots : e # d \/ k # q => table'[e][k] = table[e][k]
    BY <1>2, <1>4, <2>2
  <2>4. \A k \in Slots : table[d][k].id = i => k = q
    BY <1>2, <1>3, <1>5, <2>1, <2>2 DEF PlacesOf, SlotsInv, SlotsDistinct
  <2>5. SlotsDistinct'
    <3> SUFFICES ASSUME NEW e \in Domains, NEW k \in Slots, NEW l \in Slots,
                        table'[e][k].id = table'[e][l].id, table'[e][k].id # None
                 PROVE  k = l
      BY DEF SlotsDistinct
    <3>1. CASE e # d
      BY <2>3, <3>1 DEF SlotsInv, SlotsDistinct
    <3>2. CASE e = d /\ (k = q \/ l = q)
      <4>1. table'[d][k].id = i /\ table'[d][l].id = i
        BY <2>3, <3>2
      <4> QED
        BY <1>2, <2>3, <2>4, <3>2, <4>1
    <3>3. CASE e = d /\ k # q /\ l # q
      BY <1>2, <2>3, <3>3 DEF SlotsInv, SlotsDistinct
    <3> QED
      BY <3>1, <3>2, <3>3
  <2>6. /\ heard'[i] = globalSeq[d] /\ ~unpublished'[i]
        /\ \A j \in Instances \ {i} : heard'[j] = heard[j] /\ unpublished'[j] = unpublished[j]
    BY <1>4, <1>5, <1>7
  <2>7. SlotIsRecord'
    <3> SUFFICES ASSUME NEW j \in Instances, NEW k \in Slots, life[j] = "attached",
                        ~unpublished'[j], table'[domain[j]][k].id = j
                 PROVE  /\ table'[domain[j]][k].last = heard'[j]
                        /\ table'[domain[j]][k].subs \in Fitting(subs[j])
      BY <1>1 DEF SlotIsRecord
    <3>1. CASE j = i
      <4>1. k = q
        BY <1>2, <2>2, <2>3, <2>4, <3>1
      <4> QED
        BY <1>0, <2>2, <2>3, <2>6, <3>1, <4>1
    <3>2. CASE j # i
      <4>1. table'[domain[j]][k] = table[domain[j]][k]
        BY <1>5, <2>3, <3>2
      <4> QED
        BY <2>6, <3>2, <4>1 DEF SlotsInv, SlotIsRecord
    <3> QED
      BY <3>1, <3>2
  <2>8. ProcessingPeerKeepsSlot'
    <3> SUFFICES ASSUME NEW j \in Instances, life[j] = "attached", ~unpublished'[j]
                 PROVE  Kept(j)'
      BY <1>1 DEF ProcessingPeerKeepsSlot, Kept, PlacesOf
    <3>1. CASE j = i
      BY <1>0, <1>1, <2>2, <2>3, <3>1 DEF Kept
    <3>2. CASE j # i
      <4>1. Kept(j) /\ heard'[j] = heard[j] /\ ~unpublished[j]
        BY <2>6, <3>2 DEF SlotsInv, ProcessingPeerKeepsSlot, Kept, PlacesOf
      <4>2. CASE heard[j] # 0 /\ globalSeq[domain[j]] > heard[j] + Stale
        BY <1>1, <4>1, <4>2 DEF Kept
      <4>3. ASSUME NEW k \in Slots, table[domain[j]][k].id = j,
                   table[domain[j]][k].subs \in Fitting(subs[j])
            PROVE  Kept(j)'
        <5>1. CASE domain[j] = d /\ k = q
          <6>1. PlacesOf(d, i) = {}
            BY <1>3, <2>1, <3>2, <4>3, <5>1 DEF PlacesOf
          <6>2. ~IsActive(table[d][q], globalSeq[d])
            BY <1>3, <2>1, <6>1
          <6>3. table[d][q].last = heard[j] /\ table[d][q].id # None
            BY <3>2, <4>1, <4>3, <5>1, BusAssumption DEF SlotsInv, SlotIsRecord
          <6>4. heard[j] # 0 /\ globalSeq[d] > heard[j] + Stale
            BY <1>5, <6>2, <6>3, BusAssumption DEF IsActive
          <6> QED
            BY <4>2, <5>1, <6>4
        <5>2. CASE ~(domain[j] = d /\ k = q)
          <6>1. table'[domain[j]][k] = table[domain[j]][k]
            BY <1>5, <2>3, <5>2
          <6> QED
            BY <1>1, <4>3, <6>1 DEF Kept
        <5> QED
          BY <5>1, <5>2
      <4> QED
        BY <4>1, <4>2, <4>3 DEF Kept
    <3> QED
      BY <3>1, <3>2
  <2> QED
    BY <2>5, <2>7, <2>8 DEF SlotsInv
<1> QED
  BY <1>6, <1>7

\* A removal empties a slot of an instance that is gone or has moved.
LEMMA RemoveKeepsSlots ==
    ASSUME BusTypeOK, SlotsInv, CallsAreHome, NEW i \in Instances, Remove(i)
    PROVE  SlotsInv'
<1> DEFINE d == At(i)
           q == Min(PlacesOf(d, i))
<1>1. /\ calls[i] # << >> /\ Next1(i, "remove")
      /\ UNCHANGED << runtimeVars, heard, globalSeq >>
      /\ table' = IF PlacesOf(d, i) = {} THEN table ELSE [table EXCEPT ![d][q] = Vacant]
  BY DEF Remove, Next1
<1>2. d \in Domains /\ calls[i][1].op = "remove" /\ calls[i][1].domain = d
      /\ 1 \in 1..Len(calls[i])
  BY <1>1, FirstCall
<1>3. life[i] = "attached" => domain[i] # d
  BY <1>2 DEF CallsAreHome
<1>4. PlacesOf(d, i) # {} => q \in PlacesOf(d, i)
  <2>1. PlacesOf(d, i) \in SUBSET Slots
    BY DEF PlacesOf
  <2> QED
    BY <2>1, LeastSlot
<1>5. \A e \in Domains, k \in Slots :
        \/ table'[e][k] = table[e][k]
        \/ table'[e][k] = Vacant /\ e = d /\ table[e][k].id = i
  <2>1. CASE PlacesOf(d, i) = {}
    BY <1>1, <2>1
  <2>2. CASE PlacesOf(d, i) # {}
    <3>1. q \in Slots /\ table[d][q].id = i
      BY <1>4, <2>2 DEF PlacesOf
    <3>2. table' = [table EXCEPT ![d][q] = Vacant]
      BY <1>1, <2>2
    <3> HIDE DEF q, d
    <3> QED
      BY <1>2, <3>1, <3>2 DEF BusTypeOK
  <2> QED
    BY <2>1, <2>2
<1> HIDE DEF d, q
<1>6. SlotsDistinct'
  BY <1>5 DEF SlotsInv, SlotsDistinct, Vacant
<1>7. domain \in [Instances -> Domains] /\ None \notin Instances
  BY BusAssumption DEF BusTypeOK
<1>8. SlotIsRecord'
  BY <1>1, <1>5, <1>7 DEF SlotsInv, SlotIsRecord, Vacant, runtimeVars
<1>9. ProcessingPeerKeepsSlot'
  <2> SUFFICES ASSUME NEW j \in Instances, life[j] = "attached", ~unpublished[j]
               PROVE  Kept(j)'
    BY <1>1 DEF ProcessingPeerKeepsSlot, Kept, PlacesOf, runtimeVars
  <2>1. Kept(j)
    BY DEF SlotsInv, ProcessingPeerKeepsSlot, Kept, PlacesOf
  <2>2. ASSUME NEW k \in Slots, table[domain[j]][k].id = j PROVE table'[domain[j]][k] = table[domain[j]][k]
    BY <1>3, <1>5, <1>7, <2>2
  <2> QED
    BY <1>1, <2>1, <2>2 DEF Kept, runtimeVars
<1> QED
  BY <1>6, <1>8, <1>9 DEF SlotsInv

\* A collection renews the heartbeat of the instance's own slot.
LEMMA CollectKeepsSlots ==
    ASSUME BusTypeOK, SlotsInv, CallsAreHome, NEW i \in Instances, Collect(i)
    PROVE  SlotsInv'
<1> DEFINE d == At(i)
           mine == PlacesOf(d, i)
           q == Min(mine)
<1>1. /\ calls[i] # << >> /\ Next1(i, "collect") /\ UNCHANGED << runtimeVars, globalSeq >>
      /\ table' = IF mine = {} THEN table ELSE [table EXCEPT ![d][q].last = globalSeq[d]]
      /\ heard' = IF mine = {} THEN heard ELSE [heard EXCEPT ![i] = globalSeq[d]]
  BY DEF Collect, Next1
<1>2. d \in Domains /\ calls[i][1].op = "collect" /\ calls[i][1].domain = d
      /\ 1 \in 1..Len(calls[i])
  BY <1>1, FirstCall
<1>3. domain[i] = d
  BY <1>2 DEF CallsAreHome
<1>4. CASE mine = {}
  BY <1>1, <1>4 DEF SlotsInv, SlotsDistinct, SlotIsRecord, ProcessingPeerKeepsSlot, PlacesOf,
                    runtimeVars
<1>5. CASE mine # {}
  <2>1. q \in mine
    <3>1. mine \in SUBSET Slots
      BY DEF PlacesOf
    <3> QED
      BY <1>5, <3>1, LeastSlot
  <2>2. q \in Slots /\ table[d][q].id = i
    BY <2>1 DEF PlacesOf
  <2>3. table' = [table EXCEPT ![d][q].last = globalSeq[d]] /\ heard' = [heard EXCEPT ![i] = globalSeq[d]]
    BY <1>1, <1>5
  <2> HIDE DEF mine, q, d
  <2>4. \A k \in Slots : table[d][k].id = i => k = q
    BY <1>2, <2>2, BusAssumption DEF SlotsInv, SlotsDistinct
  <2>5. /\ \A e \in Domains, k \in Slots : /\ table'[e][k].id = table[e][k].id
                                           /\ table'[e][k].subs = table[e][k].subs
                                           /\ ~(e = d /\ k = q) => table'[e][k] = table[e][k]
        /\ table'[d][q].last = globalSeq[d]
    <3> DEFINE Slot == [id : Instances \cup {None}, last : Nat, subs : SUBSET Channels]
    <3>1. table \in [Domains -> [Slots -> Slot]]
      BY DEF BusTypeOK
    <3> DEFINE new == [table[d][q] EXCEPT !.last = globalSeq[d]]
    <3>2. table[d][q] \in Slot
      BY <1>2, <2>2, <3>1
    <3>3. new.id = table[d][q].id /\ new.subs = table[d][q].subs /\ new.last = globalSeq[d]
      BY <3>2
    <3>4. table' = [table EXCEPT ![d] = [table[d] EXCEPT ![q] = new]]
      BY <2>3
    <3> HIDE DEF new, Slot
    <3>5. table'[d][q] = new
      BY <1>2, <2>2, <3>1, <3>4
    <3>6. \A e \in Domains, k \in Slots : ~(e = d /\ k = q) => table'[e][k] = table[e][k]
      BY <1>2, <2>2, <3>1, <3>4
    <3> QED
      BY <3>3, <3>5, <3>6
  <2>6. heard'[i] = globalSeq[d] /\ \A j \in Instances \ {i} : heard'[j] = heard[j]
    BY <2>3 DEF BusTypeOK
  <2>7. SlotsDistinct'
    BY <2>5 DEF SlotsInv, SlotsDistinct
  <2>8. domain \in [Instances -> Domains]
    BY DEF BusTypeOK
  <2>9. SlotIsRecord'
    <3> SUFFICES ASSUME NEW j \in Instances, NEW k \in Slots, life[j] = "attached",
                        ~unpublished[j], table'[domain[j]][k].id = j
                 PROVE  /\ table'[domain[j]][k].last = heard'[j]
                        /\ table'[domain[j]][k].subs \in Fitting(subs[j])
      BY <1>1 DEF SlotIsRecord, runtimeVars
    <3>1. table[domain[j]][k].id = j
      BY <2>5, <2>8
    <3>2. table[domain[j]][k].last = heard[j] /\ table[domain[j]][k].subs \in Fitting(subs[j])
      BY <3>1 DEF SlotsInv, SlotIsRecord
    <3>3. table'[domain[j]][k].subs \in Fitting(subs[j])
      BY <2>5, <2>8, <3>2
    <3>4. CASE j = i
      BY <1>3, <2>4, <2>5, <2>6, <3>1, <3>3, <3>4
    <3>5. CASE j # i
      BY <2>2, <2>5, <2>6, <2>8, <3>1, <3>2, <3>3, <3>5
    <3> QED
      BY <3>4, <3>5
  <2>10. ProcessingPeerKeepsSlot'
    <3> SUFFICES ASSUME NEW j \in Instances, life[j] = "attached", ~unpublished[j]
                 PROVE  Kept(j)'
      BY <1>1 DEF ProcessingPeerKeepsSlot, Kept, PlacesOf, runtimeVars
    <3>1. CASE j = i
      <4>1. table[d][q].subs \in Fitting(subs[i])
        BY <1>3, <2>2, <3>1 DEF SlotsInv, SlotIsRecord
      <4> QED
        BY <1>1, <1>2, <1>3, <2>2, <2>5, <3>1, <4>1 DEF Kept, runtimeVars
    <3>2. CASE j # i
      <4>1. Kept(j)
        BY DEF SlotsInv, ProcessingPeerKeepsSlot, Kept, PlacesOf
      <4> QED
        BY <1>1, <2>5, <2>6, <2>8, <3>2, <4>1 DEF Kept, runtimeVars
    <3> QED
      BY <3>1, <3>2
  <2> QED
    BY <2>7, <2>9, <2>10 DEF SlotsInv
<1> QED
  BY <1>4, <1>5

\* The calls of a thread go home after one of them is made.
LEMMA RestIsHome ==
    ASSUME BusTypeOK, CallsAreHome, NEW i \in Instances, calls[i] # << >>, Done(i),
           UNCHANGED << life, domain >>
    PROVE  CallsAreHome'
<1>1. \A j \in Instances : calls'[j] = IF j = i THEN Tail(calls[i]) ELSE calls[j]
  BY DEF Done, BusTypeOK
<1>2. /\ Len(Tail(calls[i])) = Len(calls[i]) - 1 /\ Len(calls[i]) \in Nat \ {0}
      /\ \A p \in 1..Len(Tail(calls[i])) : Tail(calls[i])[p] = calls[i][p + 1]
  BY FirstCall
<1>3. \A p \in 1..Len(Tail(calls[i])) : p + 1 \in 1..Len(calls[i])
  BY <1>2
<1> SUFFICES ASSUME NEW j \in Instances, NEW p \in 1..Len(calls'[j])
             PROVE  /\ calls'[j][p].op # "remove" => calls'[j][p].domain = domain[j]
                    /\ calls'[j][p].op = "remove" /\ life[j] = "attached" =>
                         calls'[j][p].domain # domain[j]
  BY DEF CallsAreHome
<1>4. CASE j = i
  <2>1. p \in 1..Len(Tail(calls[i])) /\ calls'[j][p] = calls[i][p + 1] /\ p + 1 \in 1..Len(calls[i])
    BY <1>1, <1>2, <1>3, <1>4
  <2> QED
    BY <1>4, <2>1 DEF CallsAreHome
<1>5. CASE j # i
  BY <1>1, <1>5 DEF CallsAreHome
<1> QED
  BY <1>4, <1>5

\* What the calls of a list of one or two are.
LEMMA ShortLists ==
    /\ \A x : Len(<< x >>) = 1 /\ << x >>[1] = x
    /\ \A x, y : Len(<< x, y >>) = 2 /\ << x, y >>[1] = x /\ << x, y >>[2] = y
    /\ \A x, y : << x >> \o << y >> = << x, y >> /\ << >> \o << y >> = << y >>
<1>1. /\ \A x : Len(<< x >>) = 1 /\ << x >>[1] = x
      /\ \A x, y : Len(<< x, y >>) = 2 /\ << x, y >>[1] = x /\ << x, y >>[2] = y
  OBVIOUS
<1>2. ASSUME NEW x, NEW y PROVE << x >> \o << y >> = << x, y >> /\ << >> \o << y >> = << y >>
  <2>1. << x >> \in Seq({x, y}) /\ << y >> \in Seq({x, y}) /\ << x, y >> \in Seq({x, y})
    OBVIOUS
  <2>2. << x, y >> = Append(<< x >>, y)
    OBVIOUS
  <2>3. << x, y >> = << x >> \o << y >>
    BY <2>1, <2>2, AppendIsConcat
  <2>4. << >> \o << y >> = << y >>
    BY <2>1, ConcatEmptySeq
  <2> QED
    BY <2>3, <2>4
<1> QED
  BY <1>1, <1>2

\* Steps that give an idle thread calls to make, all of them home.
LEMMA NewCallsAreHome ==
    ASSUME BusTypeOK, CallsAreHome, NEW i \in Instances, NEW list,
           calls' = [calls EXCEPT ![i] = list],
           \A j \in Instances \ {i} : life'[j] = life[j] /\ domain'[j] = domain[j],
           \A p \in 1..Len(list) :
             /\ list[p].op # "remove" => list[p].domain = domain'[i]
             /\ list[p].op = "remove" /\ life'[i] = "attached" => list[p].domain # domain'[i]
    PROVE  CallsAreHome'
<1>1. \A j \in Instances : calls'[j] = IF j = i THEN list ELSE calls[j]
  BY DEF BusTypeOK
<1> SUFFICES ASSUME NEW j \in Instances, NEW p \in 1..Len(calls'[j])
             PROVE  /\ calls'[j][p].op # "remove" => calls'[j][p].domain = domain'[j]
                    /\ calls'[j][p].op = "remove" /\ life'[j] = "attached" =>
                         calls'[j][p].domain # domain'[j]
  BY DEF CallsAreHome
<1>2. CASE j = i
  BY <1>1, <1>2
<1>3. CASE j # i
  BY <1>1, <1>3 DEF CallsAreHome
<1> QED
  BY <1>2, <1>3

\* Calls on the header keep what is said of slots.
LEMMA CallRegistry ==
    ASSUME BusTypeOK, BusTypeOK', RegistryInv, NEW i \in Instances, Make(i) \/ Lose(i)
    PROVE  RegistryInv'
<1>1. SlotsInv /\ CallsAreHome
  BY DEF RegistryInv, SlotsInv
<1>2. \A d \in Domains : globalSeq[d] <= globalSeq[d]
  BY DEF BusTypeOK
<1>3. CASE Upsert(i)
  <2>1. SlotsInv'
    BY <1>1, <1>3, UpsertKeepsSlots
  <2>2. CallsAreHome'
    BY <1>1, <1>3, RestIsHome DEF Upsert, Next1
  <2> QED
    BY <2>1, <2>2 DEF RegistryInv, SlotsInv
<1>4. CASE Remove(i)
  <2>1. SlotsInv'
    BY <1>1, <1>4, RemoveKeepsSlots
  <2>2. CallsAreHome'
    BY <1>1, <1>4, RestIsHome DEF Remove, Next1, runtimeVars
  <2> QED
    BY <2>1, <2>2 DEF RegistryInv, SlotsInv
<1>5. CASE CollectNothing(i) \/ Lose(i)
  <2>1. calls[i] # << >> /\ Done(i) /\ UNCHANGED << runtimeVars, headerVars >>
    BY <1>5 DEF CollectNothing, Lose, Next1
  <2>2. SlotsInv'
    BY <1>1, <1>2, <2>1, OthersKeepSlots DEF runtimeVars, headerVars
  <2>3. CallsAreHome'
    BY <1>1, <2>1, RestIsHome DEF runtimeVars
  <2> QED
    BY <2>2, <2>3 DEF RegistryInv, SlotsInv
<1>6. CASE Collect(i)
  <2>1. SlotsInv'
    BY <1>1, <1>6, CollectKeepsSlots
  <2> DEFINE more == IF PlacesOf(At(i), i) = {} THEN << Call("recover", At(i)) >> ELSE << >>
             list == Tail(calls[i]) \o more
  <2>2. /\ calls[i] # << >> /\ Next1(i, "collect") /\ UNCHANGED << life, domain >>
        /\ calls' = [calls EXCEPT ![i] = list]
    BY <1>6 DEF Collect, Next1, runtimeVars
  <2>3. /\ At(i) = domain[i] /\ Tail(calls[i]) \in Seq(CallSet)
        /\ Len(Tail(calls[i])) = Len(calls[i]) - 1 /\ Len(calls[i]) \in Nat \ {0}
        /\ \A p \in 1..Len(Tail(calls[i])) : Tail(calls[i])[p] = calls[i][p + 1]
    <3>1. calls[i][1].op = "collect" /\ calls[i][1].domain = At(i) /\ Len(calls[i]) \in Nat \ {0}
      BY <2>2, FirstCall
    <3>2. At(i) = domain[i]
      BY <1>1, <3>1 DEF CallsAreHome
    <3> QED
      BY <2>2, <3>2, FirstCall
  <2>4. \A p \in 1..Len(Tail(calls[i])) :
          /\ Tail(calls[i])[p].op # "remove" => Tail(calls[i])[p].domain = domain[i]
          /\ Tail(calls[i])[p].op = "remove" /\ life[i] = "attached" =>
               Tail(calls[i])[p].domain # domain[i]
    <3>1. \A p \in 1..Len(Tail(calls[i])) : p + 1 \in 1..Len(calls[i])
      BY <2>3
    <3> QED
      BY <1>1, <2>3, <3>1 DEF CallsAreHome
  <2>5. /\ more \in Seq(CallSet)
        /\ \A p \in 1..Len(more) : more[p].op = "recover" /\ more[p].domain = domain[i]
    <3>1. Call("recover", At(i)) \in CallSet
      BY <2>2, FirstCall DEF Call, CallSet
    <3> QED
      BY <2>3, <3>1, ShortLists DEF Call
  <2> HIDE DEF more
  <2>6. /\ Len(list) = Len(Tail(calls[i])) + Len(more)
        /\ \A p \in 1..(Len(Tail(calls[i])) + Len(more)) :
             list[p] = IF p <= Len(Tail(calls[i])) THEN Tail(calls[i])[p]
                       ELSE more[p - Len(Tail(calls[i]))]
    BY <2>3, <2>5, ConcatProperties
  <2> HIDE DEF list
  <2>7. ASSUME NEW p \in 1..Len(list)
        PROVE  /\ list[p].op # "remove" => list[p].domain = domain[i]
               /\ list[p].op = "remove" /\ life[i] = "attached" => list[p].domain # domain[i]
    <3>1. Len(Tail(calls[i])) \in Nat /\ Len(more) \in Nat
      BY <2>3, <2>5
    <3>2. CASE p <= Len(Tail(calls[i]))
      <4>1. p \in 1..Len(Tail(calls[i])) /\ list[p] = Tail(calls[i])[p]
        BY <2>6, <3>1, <3>2
      <4> QED
        BY <2>4, <4>1
    <3>3. CASE ~(p <= Len(Tail(calls[i])))
      <4>1. /\ p - Len(Tail(calls[i])) \in 1..Len(more)
            /\ list[p] = more[p - Len(Tail(calls[i]))]
        BY <2>6, <3>1, <3>3
      <4> QED
        BY <2>5, <4>1
    <3> QED
      BY <3>2, <3>3
  <2>8. CallsAreHome'
    BY <1>1, <2>2, <2>7, NewCallsAreHome
  <2> QED
    BY <2>1, <2>8 DEF RegistryInv, SlotsInv
<1> QED
  BY <1>3, <1>4, <1>5, <1>6 DEF Make

\* So do the steps of a block that make no call.
LEMMA BlockRegistry ==
    ASSUME BusTypeOK, BusTypeOK', RegistryInv, NEW i \in Instances,
           \/ \E c \in Channels : Receive(i, c)
           \/ \E t \in Instances \cup {None}, c \in Channels : Post(i, t, c)
           \/ Ends(i) \/ Reset(i) \/ BeginBlock(i)
    PROVE  RegistryInv'
<1>1. SlotsInv /\ CallsAreHome
  BY DEF RegistryInv, SlotsInv
<1>2. \A d \in Domains : globalSeq[d] <= globalSeq[d]
  BY DEF BusTypeOK
<1>3. UNCHANGED << table, heard, unpublished, subs, domain, life >>
  BY DEF Receive, Post, Ends, EndBlock, FlushLost, Flush, Reset, BeginBlock, runtimeVars, headerVars
<1>4. \A d \in Domains : globalSeq[d] <= globalSeq'[d]
  <2>1. CASE Flush(i)
    <3>1. PICK sent \in Seq(Messages) :
            globalSeq' = [globalSeq EXCEPT ![domain[i]] = @ + Len(sent)]
      BY <2>1, FlushFacts
    <3>2. Len(sent) \in Nat
      OBVIOUS
    <3>3. globalSeq \in [Domains -> Nat] /\ domain[i] \in Domains
      BY DEF BusTypeOK
    <3> QED
      BY <3>1, <3>2, <3>3
  <2>2. CASE ~Flush(i)
    <3>1. globalSeq' = globalSeq
      BY <2>2 DEF Receive, Post, Ends, EndBlock, FlushLost, Reset, BeginBlock, headerVars
    <3> QED
      BY <1>2, <3>1
  <2> QED
    BY <2>1, <2>2
<1>5. SlotsInv'
  BY <1>1, <1>3, <1>4, OthersKeepSlots
<1>6. CallsAreHome'
  <2>1. CASE BeginBlock(i)
    <3> DEFINE one == << Call("collect", domain[i]) >>
               two == << Call("upsert", domain[i]), Call("collect", domain[i]) >>
               list == IF unpublished[i] THEN two ELSE one
    <3>1. calls' = [calls EXCEPT ![i] = list]
      BY <2>1, ShortLists, ZenonT(30) DEF BeginBlock
    <3>2. \A p \in 1..Len(list) : list[p].op # "remove" /\ list[p].domain = domain[i]
      BY ShortLists DEF Call
    <3> HIDE DEF list
    <3> QED
      BY <1>1, <1>3, <3>1, <3>2, NewCallsAreHome
  <2>2. CASE ~BeginBlock(i)
    <3>1. calls' = calls
      BY <2>2 DEF Receive, Post, Ends, EndBlock, FlushLost, Flush, Reset
    <3> QED
      BY <1>1, <1>3, <3>1 DEF CallsAreHome
  <2> QED
    BY <2>1, <2>2
<1> QED
  BY <1>5, <1>6 DEF RegistryInv, SlotsInv

\* So do registration, its end, subscriptions and moves.
LEMMA RecordRegistry ==
    ASSUME BusTypeOK, RegistryInv, NEW i \in Instances,
           \/ Attach(i) \/ Detach(i)
           \/ \E c \in Channels, subscribed \in BOOLEAN : Subscribe(i, c, subscribed)
           \/ \E d \in Domains : Join(i, d)
    PROVE  RegistryInv'
<1>1. SlotsInv /\ CallsAreHome
  BY DEF RegistryInv, SlotsInv
<1>2. /\ life \in [Instances -> {"new", "attached", "gone"}] /\ unpublished \in [Instances -> BOOLEAN]
      /\ domain \in [Instances -> Domains] /\ subs \in [Instances -> SUBSET Channels]
  BY DEF BusTypeOK
<1>3. /\ life'[i] # "attached" \/ unpublished'[i]
      /\ \A j \in Instances \ {i} : /\ life'[j] = life[j] /\ unpublished'[j] = unpublished[j]
                                    /\ domain'[j] = domain[j] /\ subs'[j] = subs[j]
      /\ UNCHANGED << table, heard, globalSeq >>
  <2>1. CASE Attach(i)
    BY <1>2, <2>1 DEF Attach, headerVars
  <2>2. CASE Detach(i)
    BY <1>2, <2>2 DEF Detach, headerVars
  <2>3. CASE \E c \in Channels, subscribed \in BOOLEAN : Subscribe(i, c, subscribed)
    BY <1>2, <2>3 DEF Subscribe, headerVars
  <2>4. CASE \E d \in Domains : Join(i, d)
    BY <1>2, <2>4 DEF Join, headerVars
  <2> QED
    BY <2>1, <2>2, <2>3, <2>4
<1>4. SlotsInv'
  BY <1>1, <1>3, RecordMayChange
<1>5. CASE Attach(i) \/ \E c \in Channels, subscribed \in BOOLEAN : Subscribe(i, c, subscribed)
  <2> DEFINE list == << Call("upsert", domain[i]) >>
  <2>1. calls' = [calls EXCEPT ![i] = list] /\ domain' = domain
    BY <1>5 DEF Attach, Subscribe
  <2>2. \A p \in 1..Len(list) : list[p].op # "remove" /\ list[p].domain = domain[i]
    BY ShortLists DEF Call
  <2> HIDE DEF list
  <2>3. CallsAreHome'
    BY <1>1, <1>3, <2>1, <2>2, NewCallsAreHome
  <2> QED
    BY <1>4, <2>3 DEF RegistryInv, SlotsInv
<1>6. CASE Detach(i)
  <2> DEFINE list == << Call("remove", domain[i]) >>
  <2>1. calls' = [calls EXCEPT ![i] = list] /\ domain' = domain /\ life'[i] = "gone"
    BY <1>2, <1>6 DEF Detach
  <2>2. \A p \in 1..Len(list) : list[p].op = "remove"
    BY ShortLists DEF Call
  <2> HIDE DEF list
  <2>3. CallsAreHome'
    BY <1>1, <1>3, <2>1, <2>2, NewCallsAreHome
  <2> QED
    BY <1>4, <2>3 DEF RegistryInv, SlotsInv
<1>7. CASE \E d \in Domains : Join(i, d)
  <2>1. PICK d \in Domains : Join(i, d)
    BY <1>7
  <2>2. domain'[i] = d
    BY <1>2, <2>1 DEF Join
  <2>3. CASE d = domain[i]
    <3> DEFINE list == << Call("upsert", d) >>
    <3>1. calls' = [calls EXCEPT ![i] = list]
      BY <2>1, <2>3 DEF Join
    <3>2. \A p \in 1..Len(list) : list[p].op # "remove" /\ list[p].domain = d
      BY ShortLists DEF Call
    <3> HIDE DEF list
    <3>3. CallsAreHome'
      BY <1>1, <1>3, <2>2, <3>1, <3>2, NewCallsAreHome
    <3> QED
      BY <1>4, <3>3 DEF RegistryInv, SlotsInv
  <2>4. CASE d # domain[i]
    <3> DEFINE list == << Call("remove", domain[i]), Call("upsert", d) >>
    <3>1. calls' = [calls EXCEPT ![i] = list]
      BY <2>1, <2>4 DEF Join
    <3>2. \A p \in 1..Len(list) :
            /\ list[p].op # "remove" => list[p].domain = d
            /\ list[p].op = "remove" => list[p].domain = domain[i]
      BY ShortLists DEF Call
    <3> HIDE DEF list
    <3>3. CallsAreHome'
      BY <1>1, <1>3, <2>2, <2>4, <3>1, <3>2, NewCallsAreHome
    <3> QED
      BY <1>4, <3>3 DEF RegistryInv, SlotsInv
  <2> QED
    BY <2>3, <2>4
<1> QED
  BY <1>5, <1>6, <1>7

\* What is said of slots holds for ever.
LEMMA RegistryHolds == Spec => [](BusTypeOK /\ RegistryInv)
<1>1. Init => BusTypeOK /\ RegistryInv
  BY InitTypes, InitRegistry
<1>2. BusTypeOK /\ RegistryInv /\ [Next]_vars => (BusTypeOK /\ RegistryInv)'
  <2> SUFFICES ASSUME BusTypeOK, RegistryInv, [Next]_vars PROVE BusTypeOK' /\ RegistryInv'
    OBVIOUS
  <2>1. BusTypeOK'
    BY NextTypes
  <2>2. CASE Next
    <3>1. PICK i \in Instances :
            \/ Attach(i) \/ Detach(i) \/ Reset(i)
            \/ BeginBlock(i) \/ Script(i) \/ Ends(i) \/ Make(i) \/ Lose(i)
      BY <2>2 DEF Next
    <3>2. CASE Make(i) \/ Lose(i)
      BY <2>1, <3>2, CallRegistry
    <3>3. CASE Attach(i) \/ Detach(i)
      BY <2>1, <3>3, RecordRegistry
    <3>4. CASE Ends(i) \/ Reset(i) \/ BeginBlock(i)
      BY <2>1, <3>4, BlockRegistry
    <3>5. CASE Script(i)
      <4>1. CASE \/ \E c \in Channels, subscribed \in BOOLEAN : Subscribe(i, c, subscribed)
                 \/ \E d \in Domains : Join(i, d)
        BY <2>1, <4>1, RecordRegistry
      <4>2. CASE \/ \E c \in Channels : Receive(i, c)
                 \/ \E t \in Instances \cup {None}, c \in Channels : Post(i, t, c)
        BY <2>1, <4>2, BlockRegistry
      <4> QED
        BY <3>5, <4>1, <4>2 DEF Script
    <3> QED
      BY <3>1, <3>2, <3>3, <3>4, <3>5
  <2>3. CASE UNCHANGED vars
    <3>1. /\ UNCHANGED << table, heard, unpublished, subs, domain, life >>
          /\ calls' = calls /\ globalSeq' = globalSeq
      BY <2>3 DEF vars, runtimeVars, headerVars
    <3>2. \A d \in Domains : globalSeq[d] <= globalSeq'[d]
      BY <3>1 DEF BusTypeOK
    <3>3. SlotsInv'
      BY <2>1, <3>1, <3>2, OthersKeepSlots DEF RegistryInv, SlotsInv
    <3>4. CallsAreHome'
      BY <3>1 DEF RegistryInv, CallsAreHome
    <3> QED
      BY <2>1, <3>3, <3>4 DEF RegistryInv, SlotsInv
  <2> QED
    BY <2>1, <2>2, <2>3
<1> QED
  BY <1>1, <1>2, PTL DEF Spec

\* An instance has one slot in a domain at most, whoever reclaims stale ones.
THEOREM OneSlotEachHolds == Spec => []OneSlotEach
<1>1. SlotsDistinct => OneSlotEach
  <2> SUFFICES ASSUME SlotsDistinct, NEW d \in Domains, NEW i \in Instances
               PROVE  Cardinality(PlacesOf(d, i)) <= 1
    BY DEF OneSlotEach
  <2>1. CASE PlacesOf(d, i) = {}
    <3>1. Cardinality(PlacesOf(d, i)) = 0
      BY <2>1, FS_EmptySet
    <3> QED
      BY <3>1
  <2>2. CASE PlacesOf(d, i) # {}
    <3>1. PICK k : k \in PlacesOf(d, i)
      BY <2>2
    <3>2. PlacesOf(d, i) = {k}
      BY <3>1, BusAssumption DEF SlotsDistinct, PlacesOf
    <3>3. Cardinality(PlacesOf(d, i)) = 1
      BY <3>2, FS_Singleton
    <3> QED
      BY <3>3
  <2> QED
    BY <2>1, <2>2
<1> QED
  BY <1>1, RegistryHolds, PTL DEF RegistryInv

\* An instance whose record counts as published is in the table with its subscriptions, as
\* many as a slot has channels for, or has let enough messages pass since it last read to
\* lose its slot.
THEOREM ProcessingPeerKeepsSlotHolds == Spec => []ProcessingPeerKeepsSlot
BY RegistryHolds, PTL DEF RegistryInv

-----------------------------------------------------------------------------
(* Messages and their order.                                                *)

\* The lengths the proofs reason about are numbers.
LEMMA Lengths ==
    ASSUME BusTypeOK
    PROVE  /\ \A d \in Domains : Len(log[d]) \in Nat /\ globalSeq[d] \in Nat
           /\ \A i \in Instances : /\ Len(inbox[i]) \in Nat /\ Len(outbox[i]) \in Nat
                                   /\ lastRead[i] \in Nat /\ posts[i] \in Nat
                                   /\ domain[i] \in Domains
           /\ \A d \in Domains : \A s \in 1..Len(log[d]) : log[d][s] \in Messages
           /\ \A i \in Instances : \A p \in 1..Len(inbox[i]) : inbox[i][p] \in Messages
           /\ \A i \in Instances : \A k \in 1..Len(outbox[i]) : outbox[i][k] \in Posted
<1>1. /\ log \in [Domains -> Seq(Messages)] /\ globalSeq \in [Domains -> Nat]
      /\ inbox \in [Instances -> Seq(Messages)] /\ outbox \in [Instances -> Seq(Posted)]
      /\ lastRead \in [Instances -> Nat] /\ posts \in [Instances -> Nat]
      /\ domain \in [Instances -> Domains]
  BY DEF BusTypeOK, Posted
<1> QED
  BY <1>1

\* The order holds at first.
LEMMA InitDelivery == Init => DeliveryInv
<1> SUFFICES ASSUME Init, BusTypeOK PROVE DeliveryInv
  BY InitTypes
<1>1. PICK n \in 0..Earlier, c \in Channels :
        /\ log = [d \in Domains |-> IF d = Home THEN History(n, c) ELSE << >>]
        /\ globalSeq = [d \in Domains |-> Len(log[d])]
        /\ ring = [d \in Domains |-> Written([k \in 0..(R - 1) |-> Empty], log[d])]
  BY BusAssumption DEF Init
<1>2. /\ inbox = [i \in Instances |-> << >>] /\ outbox = [i \in Instances |-> << >>]
  BY DEF Init
<1>3. n \in Nat
  BY BusAssumption
<1>4. /\ Len(History(n, c)) = n
      /\ \A s \in 1..n : History(n, c)[s] = [seq |-> s, source |-> None, n |-> s,
                                            target |-> None, channel |-> c]
  BY <1>3 DEF History
<1>5. ASSUME NEW d \in Domains, NEW s \in 1..Len(log[d])
      PROVE  log[d][s].seq = s /\ log[d][s].n = s /\ log[d][s].source = None
  <2>1. CASE d = Home
    BY <1>1, <1>4, <2>1
  <2>2. CASE d # Home
    BY <1>1, <2>2
  <2> QED
    BY <2>1, <2>2
<1>6. LogNumbered
  BY <1>1, <1>5 DEF LogNumbered
<1>7. RingIsLog
  <2> SUFFICES ASSUME NEW d \in Domains, NEW k \in 0..(R - 1), ring[d][k].seq # 0
               PROVE  OfLog(d, ring[d][k])
    BY DEF RingIsLog
  <2> DEFINE blank == [j \in 0..(R - 1) |-> Empty]
  <2>1. blank \in [0..(R - 1) -> Messages] /\ blank[k].seq = 0
    BY DEF Empty, Messages
  <2>2. log[d] \in Seq(Messages) /\ ring[d] = Written(blank, log[d])
    BY <1>1 DEF BusTypeOK
  <2> HIDE DEF blank
  <2>3. \/ ring[d][k] = blank[k]
        \/ \E p \in 1..Len(log[d]) : ring[d][k] = log[d][p]
    <3>1. \/ Written(blank, log[d])[k] = blank[k]
          \/ \E p \in 1..Len(log[d]) : Written(blank, log[d])[k] = log[d][p]
      BY <2>1, <2>2, WrittenFrom
    <3> QED
      BY <2>2, <3>1
  <2>4. PICK p \in 1..Len(log[d]) : ring[d][k] = log[d][p]
    BY <2>1, <2>3
  <2> QED
    BY <1>5, <2>4 DEF OfLog
<1>8. InboxIsLog /\ InboxInOrder
  BY <1>2 DEF InboxIsLog, InboxInOrder
<1>9. SendersNumber
  <2>1. \A d \in Domains : \A s, t \in 1..Len(log[d]) :
          s < t /\ log[d][s].source = log[d][t].source => log[d][s].n < log[d][t].n
    BY <1>5
  <2>2. \A i \in Instances : \A d \in Domains : \A s \in 1..Len(log[d]) : log[d][s].source # i
    BY <1>5, BusAssumption
  <2>3. \A i \in Instances : outbox[i] = << >>
    BY <1>2
  <2> QED
    BY <2>1, <2>2, <2>3 DEF SendersNumber
<1> QED
  BY <1>6, <1>7, <1>8, <1>9 DEF DeliveryInv

\* Steps that move no message keep the order.
LEMMA OthersKeepOrder ==
    ASSUME DeliveryInv,
           UNCHANGED << log, ring, globalSeq, inbox, lastRead, outbox, posts, domain >>
    PROVE  DeliveryInv'
BY DEF DeliveryInv, LogNumbered, RingIsLog, InboxIsLog, InboxInOrder, SendersNumber, OfLog

\* A receiver that forgets its inbox, and perhaps its outbox, and moves or stays.
LEMMA EmptyBoxesInOrder ==
    ASSUME BusTypeOK, DeliveryInv, NEW i \in Instances,
           UNCHANGED << log, ring, globalSeq, posts >>,
           \A j \in Instances \ {i} : /\ inbox'[j] = inbox[j] /\ lastRead'[j] = lastRead[j]
                                      /\ domain'[j] = domain[j] /\ outbox'[j] = outbox[j],
           inbox'[i] = << >> \/ /\ inbox'[i] = inbox[i] /\ lastRead'[i] = lastRead[i]
                                /\ domain'[i] = domain[i],
           outbox'[i] = << >> \/ outbox'[i] = outbox[i]
    PROVE  DeliveryInv'
<1>1. LogNumbered' /\ RingIsLog'
  BY DEF DeliveryInv, LogNumbered, RingIsLog, OfLog
<1>2. \A j \in Instances : \/ inbox'[j] = << >>
                           \/ /\ inbox'[j] = inbox[j] /\ lastRead'[j] = lastRead[j]
                              /\ domain'[j] = domain[j]
  OBVIOUS
<1>3. \A j \in Instances : outbox'[j] = << >> \/ outbox'[j] = outbox[j]
  OBVIOUS
<1>4. Len(<< >>) = 0
  OBVIOUS
<1>5. InboxIsLog'
  BY <1>2, <1>4 DEF DeliveryInv, InboxIsLog, OfLog
<1>6. InboxInOrder'
  BY <1>2, <1>4 DEF DeliveryInv, InboxInOrder
<1>7. SendersNumber'
  <2>1. \A j \in Instances, k \in Nat : k \in 1..Len(outbox'[j]) =>
          k \in 1..Len(outbox[j]) /\ outbox'[j][k] = outbox[j][k]
    BY <1>3, <1>4
  <2>2. \A j \in Instances : \A k \in 1..Len(outbox'[j]) :
          k \in 1..Len(outbox[j]) /\ outbox'[j][k] = outbox[j][k]
    BY <1>3, <1>4
  <2> QED
    BY <2>2 DEF DeliveryInv, SendersNumber
<1> QED
  BY <1>1, <1>5, <1>6, <1>7 DEF DeliveryInv

\* A message received leaves the others in order.
LEMMA ReceiveKeepsOrder ==
    ASSUME BusTypeOK, DeliveryInv, NEW i \in Instances, NEW c \in Channels, Receive(i, c)
    PROVE  DeliveryInv'
<1>1. PICK p \in 1..Len(inbox[i]) :
        inbox' = [inbox EXCEPT ![i] = Without(inbox[i], p)]
  BY DEF Receive, Without
<1>2. UNCHANGED << log, ring, globalSeq, lastRead, outbox, posts, domain >>
  BY DEF Receive, runtimeVars, headerVars
<1>3. inbox \in [Instances -> Seq(Messages)]
  BY DEF BusTypeOK
<1>4. /\ Len(inbox'[i]) = Len(inbox[i]) - 1
      /\ \A k \in 1..(Len(inbox[i]) - 1) :
           inbox'[i][k] = IF k < p THEN inbox[i][k] ELSE inbox[i][k + 1]
  <2>1. inbox[i] \in Seq(Messages) /\ inbox'[i] = Without(inbox[i], p)
    BY <1>1, <1>3
  <2> QED
    BY <2>1, WithoutFacts
<1>5. Len(inbox[i]) \in Nat
  BY Lengths
<1> DEFINE at(k) == IF k < p THEN k ELSE k + 1
<1>6. /\ \A k \in 1..Len(inbox'[i]) : at(k) \in 1..Len(inbox[i]) /\ inbox'[i][k] = inbox[i][at(k)]
      /\ \A k, l \in 1..Len(inbox'[i]) : k < l => at(k) < at(l)
  <2>1. \A k \in 1..(Len(inbox[i]) - 1) : at(k) \in 1..Len(inbox[i])
    BY <1>5
  <2>2. \A k, l \in 1..(Len(inbox[i]) - 1) : k < l => at(k) < at(l)
    BY <1>5
  <2> QED
    BY <1>4, <2>1, <2>2
<1> HIDE DEF at
<1>7. \A j \in Instances \ {i} : inbox'[j] = inbox[j]
  BY <1>1, <1>3
<1>8. InboxIsLog'
  <2> SUFFICES ASSUME NEW j \in Instances, NEW k \in 1..Len(inbox'[j])
               PROVE  OfLog(domain[j], inbox'[j][k])
    BY <1>2 DEF InboxIsLog, OfLog
  <2>1. CASE j = i
    BY <1>6, <2>1 DEF DeliveryInv, InboxIsLog
  <2>2. CASE j # i
    BY <1>7, <2>2 DEF DeliveryInv, InboxIsLog
  <2> QED
    BY <2>1, <2>2
<1>9. InboxInOrder'
  <2> SUFFICES ASSUME NEW j \in Instances, NEW k \in 1..Len(inbox'[j]), NEW l \in 1..Len(inbox'[j])
               PROVE  /\ inbox'[j][k].seq <= lastRead[j]
                      /\ k < l => inbox'[j][k].seq < inbox'[j][l].seq
    BY <1>2 DEF InboxInOrder
  <2>1. CASE j = i
    BY <1>6, <2>1 DEF DeliveryInv, InboxInOrder
  <2>2. CASE j # i
    BY <1>7, <2>2 DEF DeliveryInv, InboxInOrder
  <2> QED
    BY <2>1, <2>2
<1>10. LogNumbered' /\ RingIsLog' /\ SendersNumber'
  BY <1>2 DEF DeliveryInv, LogNumbered, RingIsLog, SendersNumber, OfLog
<1> QED
  BY <1>8, <1>9, <1>10 DEF DeliveryInv

\* A message posted has the sender's greatest number.
LEMMA PostKeepsOrder ==
    ASSUME BusTypeOK, DeliveryInv, NEW i \in Instances, NEW t \in Instances \cup {None},
           NEW c \in Channels, Post(i, t, c)
    PROVE  DeliveryInv'
<1>1. /\ UNCHANGED << log, ring, globalSeq, inbox, lastRead, domain >>
      /\ posts' = [posts EXCEPT ![i] = @ + 1]
  BY DEF Post, headerVars
<1>2. LogNumbered' /\ RingIsLog' /\ InboxIsLog' /\ InboxInOrder'
  BY <1>1 DEF DeliveryInv, LogNumbered, RingIsLog, InboxIsLog, InboxInOrder, OfLog
<1>3. /\ posts'[i] = posts[i] + 1 /\ posts[i] \in Nat
      /\ \A j \in Instances \ {i} : posts'[j] = posts[j]
  BY <1>1 DEF BusTypeOK
<1>4. \A j \in Instances : posts[j] <= posts'[j] /\ posts[j] \in Nat /\ posts'[j] \in Nat
  BY <1>3, Lengths
<1>5. /\ \A j \in Instances \ {i} : outbox'[j] = outbox[j]
      /\ \A k \in 1..Len(outbox'[i]) :
           \/ k \in 1..Len(outbox[i]) /\ outbox'[i][k] = outbox[i][k]
           \/ k = Len(outbox[i]) + 1 /\ outbox'[i][k].n = posts[i] + 1
  <2>1. outbox \in [Instances -> Seq(Posted)]
    BY DEF BusTypeOK, Posted
  <2>2. CASE RoomLeft(i)
    <3> DEFINE m == [n |-> posts'[i], target |-> t, channel |-> c]
    <3>1. outbox' = [outbox EXCEPT ![i] = Append(outbox[i], m)]
      BY <2>2 DEF Post
    <3>2. m \in Posted /\ m.n = posts[i] + 1
      BY <1>3 DEF Posted
    <3> HIDE DEF m
    <3>3. /\ Len(Append(outbox[i], m)) = Len(outbox[i]) + 1 /\ Len(outbox[i]) \in Nat
          /\ \A k \in 1..Len(outbox[i]) : Append(outbox[i], m)[k] = outbox[i][k]
          /\ Append(outbox[i], m)[Len(outbox[i]) + 1] = m
      BY <2>1, <3>2, AppendProperties
    <3>4. outbox'[i] = Append(outbox[i], m) /\ \A j \in Instances \ {i} : outbox'[j] = outbox[j]
      BY <2>1, <3>1
    <3> QED
      BY <3>2, <3>3, <3>4
  <2>3. CASE ~RoomLeft(i)
    BY <2>3 DEF Post
  <2> QED
    BY <2>2, <2>3
<1>6. \A d \in Domains : \A s \in 1..Len(log[d]) : log[d][s].n \in Nat
  BY Lengths DEF Messages
<1>7. \A j \in Instances : \A k \in 1..Len(outbox[j]) : outbox[j][k].n \in Nat
  BY Lengths DEF Posted
<1>8. \A j \in Instances : Len(outbox[j]) \in Nat
  BY Lengths
<1>9. SendersNumber'
  <2>1. \A d \in Domains : \A s, u \in 1..Len(log'[d]) :
          s < u /\ log'[d][s].source = log'[d][u].source => log'[d][s].n < log'[d][u].n
    BY <1>1 DEF DeliveryInv, SendersNumber
  <2>2. ASSUME NEW j \in Instances, NEW d \in Domains, NEW s \in 1..Len(log'[d]),
               log'[d][s].source = j
        PROVE  /\ log'[d][s].n <= posts'[j]
               /\ \A k \in 1..Len(outbox'[j]) : log'[d][s].n < outbox'[j][k].n
    <3>1. /\ log[d][s].n <= posts[j] /\ log[d][s].n \in Nat /\ log'[d][s] = log[d][s]
          /\ \A k \in 1..Len(outbox[j]) : log[d][s].n < outbox[j][k].n
      BY <1>1, <1>6, <2>2 DEF DeliveryInv, SendersNumber
    <3>2. log[d][s].n < posts[j] + 1
      BY <1>4, <3>1
    <3>3. log'[d][s].n <= posts'[j]
      BY <1>4, <3>1
    <3>4. ASSUME NEW k \in 1..Len(outbox'[j])
          PROVE  log[d][s].n < outbox'[j][k].n
      <4>1. CASE j # i
        BY <1>5, <3>1, <4>1
      <4>2. CASE j = i
        <5>1. CASE k \in 1..Len(outbox[i]) /\ outbox'[i][k] = outbox[i][k]
          BY <3>1, <4>2, <5>1
        <5>2. CASE outbox'[i][k].n = posts[i] + 1
          BY <3>2, <4>2, <5>2
        <5> QED
          BY <1>5, <4>2, <5>1, <5>2
      <4> QED
        BY <4>1, <4>2
    <3> QED
      BY <3>1, <3>3, <3>4
  <2>3. ASSUME NEW j \in Instances, NEW k \in 1..Len(outbox'[j]), NEW l \in 1..Len(outbox'[j])
        PROVE  outbox'[j][k].n <= posts'[j] /\ (k < l => outbox'[j][k].n < outbox'[j][l].n)
    <3>1. \A p, q \in 1..Len(outbox[j]) :
            outbox[j][p].n <= posts[j] /\ (p < q => outbox[j][p].n < outbox[j][q].n)
      BY DEF DeliveryInv, SendersNumber
    <3>2. CASE j # i
      BY <1>3, <1>5, <3>1, <3>2
    <3>3. CASE j = i /\ k \in 1..Len(outbox[i]) /\ outbox'[i][k] = outbox[i][k]
      <4>1. outbox[i][k].n <= posts[i] /\ outbox[i][k].n \in Nat
        BY <1>7, <3>1, <3>3
      <4>2. CASE l \in 1..Len(outbox[i]) /\ outbox'[i][l] = outbox[i][l]
        BY <1>3, <3>1, <3>3, <4>1, <4>2
      <4>3. CASE outbox'[i][l].n = posts[i] + 1
        BY <1>3, <3>3, <4>1, <4>3
      <4> QED
        BY <1>5, <3>3, <4>2, <4>3
    <3>4. CASE j = i /\ k = Len(outbox[i]) + 1 /\ outbox'[i][k].n = posts[i] + 1
      <4>1. ~(k < l)
        BY <1>5, <1>8, <3>4
      <4> QED
        BY <1>3, <3>4, <4>1
    <3> QED
      BY <1>5, <3>2, <3>3, <3>4
  <2> QED
    BY <2>1, <2>2, <2>3 DEF SendersNumber
<1> QED
  BY <1>2, <1>9 DEF DeliveryInv

\* A collection adds later messages of the history, and the cursor passes them.
LEMMA CollectKeepsOrder ==
    ASSUME BusTypeOK, CallsAreHome, DeliveryInv, NEW i \in Instances, Collect(i)
    PROVE  DeliveryInv'
<1> DEFINE d      == domain[i]
           newest == globalSeq[d]
           taken  == Readable(d, i, First(i, newest), newest)
<1>1. /\ calls[i] # << >> /\ Next1(i, "collect") /\ globalSeq[At(i)] > lastRead[i]
      /\ UNCHANGED << log, ring, globalSeq, outbox, posts, domain >>
      /\ inbox' = [inbox EXCEPT ![i] =
                     @ \o Readable(At(i), i, First(i, globalSeq[At(i)]), globalSeq[At(i)])]
      /\ lastRead' = [lastRead EXCEPT ![i] = globalSeq[At(i)]]
  BY DEF Collect, Cursor, Next1, runtimeVars
<1>2. At(i) = d
  <2>1. /\ calls[i][1].op = "collect" /\ calls[i][1].domain = At(i)
        /\ 1 \in 1..Len(calls[i])
    BY <1>1, FirstCall
  <2> QED
    BY <2>1 DEF CallsAreHome
<1>3. /\ d \in Domains /\ newest \in Nat /\ newest > lastRead[i] /\ lastRead[i] \in Nat
      /\ Len(inbox[i]) \in Nat
  BY <1>1, <1>2, Lengths
<1>4. First(i, newest) \in Nat \ {0} /\ First(i, newest) > lastRead[i]
  BY <1>3, FirstFacts
<1>5. /\ taken \in Seq(Messages)
      /\ \A p \in 1..Len(taken) :
           /\ taken[p].seq \in First(i, newest)..newest
           /\ \E k \in 0..(R - 1) : taken[p] = ring[d][k]
      /\ \A p, q \in 1..Len(taken) : p < q => taken[p].seq < taken[q].seq
  BY <1>3, <1>4, ReadableFacts
<1>6. inbox'[i] = inbox[i] \o taken /\ lastRead'[i] = newest
  BY <1>1, <1>2 DEF BusTypeOK
<1>7. \A j \in Instances \ {i} : inbox'[j] = inbox[j] /\ lastRead'[j] = lastRead[j]
  BY <1>1 DEF BusTypeOK
<1> HIDE DEF d, newest, taken
<1>8. /\ Len(inbox'[i]) = Len(inbox[i]) + Len(taken) /\ Len(taken) \in Nat
      /\ \A p \in 1..(Len(inbox[i]) + Len(taken)) :
           inbox'[i][p] = IF p <= Len(inbox[i]) THEN inbox[i][p] ELSE taken[p - Len(inbox[i])]
  <2>1. inbox[i] \in Seq(Messages)
    BY DEF BusTypeOK
  <2> QED
    BY <1>5, <1>6, <2>1, ConcatProperties
<1>9. \A p \in 1..Len(inbox'[i]) :
        \/ p \in 1..Len(inbox[i]) /\ inbox'[i][p] = inbox[i][p]
        \/ /\ p > Len(inbox[i]) /\ p - Len(inbox[i]) \in 1..Len(taken)
           /\ inbox'[i][p] = taken[p - Len(inbox[i])]
  <2> TAKE p \in 1..Len(inbox'[i])
  <2>1. p \in 1..(Len(inbox[i]) + Len(taken))
    BY <1>8
  <2>2. CASE p <= Len(inbox[i])
    BY <1>3, <1>8, <2>1, <2>2
  <2>3. CASE ~(p <= Len(inbox[i]))
    <3>1. p > Len(inbox[i]) /\ p - Len(inbox[i]) \in 1..Len(taken)
      BY <1>3, <1>8, <2>1, <2>3
    <3> QED
      BY <1>8, <2>1, <2>3, <3>1
  <2> QED
    BY <2>2, <2>3
<1>10. \A p \in 1..Len(taken) :
         /\ taken[p].seq \in Nat /\ taken[p].seq > lastRead[i] /\ taken[p].seq <= newest
         /\ OfLog(d, taken[p])
  <2> SUFFICES ASSUME NEW p \in 1..Len(taken)
               PROVE  /\ taken[p].seq \in Nat /\ taken[p].seq > lastRead[i]
                      /\ taken[p].seq <= newest /\ OfLog(d, taken[p])
    OBVIOUS
  <2>1. taken[p].seq \in First(i, newest)..newest
    BY <1>5
  <2>2. taken[p].seq \in Nat /\ taken[p].seq > lastRead[i] /\ taken[p].seq <= newest
    BY <1>3, <1>4, <2>1
  <2>3. taken[p].seq # 0
    BY <1>3, <2>2
  <2>4. PICK k \in 0..(R - 1) : taken[p] = ring[d][k]
    BY <1>5
  <2>5. OfLog(d, taken[p])
    BY <1>3, <2>3, <2>4 DEF DeliveryInv, RingIsLog
  <2> QED
    BY <2>2, <2>5
<1>11. InboxIsLog'
  <2> SUFFICES ASSUME NEW j \in Instances, NEW p \in 1..Len(inbox'[j])
               PROVE  OfLog(domain[j], inbox'[j][p])
    BY <1>1 DEF InboxIsLog, OfLog
  <2>1. CASE j = i
    BY <1>9, <1>10, <2>1 DEF DeliveryInv, InboxIsLog, d
  <2>2. CASE j # i
    BY <1>7, <2>2 DEF DeliveryInv, InboxIsLog
  <2> QED
    BY <2>1, <2>2
<1>12. InboxInOrder'
  <2> SUFFICES ASSUME NEW j \in Instances, NEW p \in 1..Len(inbox'[j]), NEW q \in 1..Len(inbox'[j])
               PROVE  /\ inbox'[j][p].seq <= lastRead'[j]
                      /\ p < q => inbox'[j][p].seq < inbox'[j][q].seq
    BY DEF InboxInOrder
  <2>1. CASE j # i
    BY <1>7, <2>1 DEF DeliveryInv, InboxInOrder
  <2>2. CASE j = i
    <3>1. \A k, l \in 1..Len(inbox[i]) :
            /\ inbox[i][k].seq <= lastRead[i] /\ inbox[i][k].seq \in Nat
            /\ k < l => inbox[i][k].seq < inbox[i][l].seq
      BY Lengths DEF DeliveryInv, InboxInOrder, Messages
    <3>2. CASE p \in 1..Len(inbox[i]) /\ inbox'[i][p] = inbox[i][p]
      <4>1. inbox[i][p].seq <= lastRead[i] /\ inbox[i][p].seq \in Nat
        BY <3>1, <3>2
      <4>2. inbox'[i][p].seq <= lastRead'[i]
        BY <1>3, <1>6, <3>2, <4>1
      <4>3. CASE q \in 1..Len(inbox[i]) /\ inbox'[i][q] = inbox[i][q]
        BY <2>2, <3>1, <3>2, <4>2, <4>3
      <4>4. CASE q - Len(inbox[i]) \in 1..Len(taken) /\ inbox'[i][q] = taken[q - Len(inbox[i])]
        <5>1. inbox'[i][q].seq \in Nat /\ inbox'[i][q].seq > lastRead[i]
          BY <1>10, <4>4
        <5> QED
          BY <1>3, <2>2, <3>2, <4>1, <4>2, <5>1
      <4> QED
        BY <1>9, <2>2, <4>3, <4>4
    <3>3. CASE /\ p > Len(inbox[i]) /\ p - Len(inbox[i]) \in 1..Len(taken)
               /\ inbox'[i][p] = taken[p - Len(inbox[i])]
      <4>1. inbox'[i][p].seq <= lastRead'[i]
        BY <1>6, <1>10, <3>3
      <4>2. ASSUME p < q PROVE inbox'[i][p].seq < inbox'[i][q].seq
        <5>1. /\ q - Len(inbox[i]) \in 1..Len(taken) /\ inbox'[i][q] = taken[q - Len(inbox[i])]
              /\ p - Len(inbox[i]) < q - Len(inbox[i])
          BY <1>3, <1>8, <1>9, <2>2, <3>3, <4>2
        <5> QED
          BY <1>5, <3>3, <5>1
      <4> QED
        BY <2>2, <4>1, <4>2
    <3> QED
      BY <1>9, <2>2, <3>2, <3>3
  <2> QED
    BY <2>1, <2>2
<1>13. LogNumbered' /\ RingIsLog' /\ SendersNumber'
  BY <1>1, SMTT(30) DEF DeliveryInv, LogNumbered, RingIsLog, SendersNumber, OfLog
<1> QED
  BY <1>11, <1>12, <1>13 DEF DeliveryInv

\* A flush numbers what it commits after the history, and no sender's number comes again.
LEMMA FlushKeepsOrder ==
    ASSUME BusTypeOK, DeliveryInv, NEW i \in Instances, Flush(i)
    PROVE  DeliveryInv'
<1> DEFINE d == domain[i]
           L == Len(log[d])
           InLog(e, m) == m.seq \in 1..Len(log'[e]) /\ log'[e][m.seq] = m
<1>1. PICK wanted \in SUBSET (1..Len(outbox[i])), sent \in Seq(Messages) :
        /\ wanted = {k \in 1..Len(outbox[i]) : HasTarget(i, outbox[i][k])}
        /\ sent = Committed(i, globalSeq[domain[i]], wanted)
        /\ ring' = [ring EXCEPT ![domain[i]] = Written(ring[domain[i]], sent)]
        /\ globalSeq' = [globalSeq EXCEPT ![domain[i]] = @ + Len(sent)]
        /\ log' = [log EXCEPT ![domain[i]] = @ \o sent]
        /\ dropped' = [dropped EXCEPT ![i] = Counted(i, (1..Len(outbox[i])) \ wanted)]
  BY FlushFacts, Zenon
<1>2. /\ UNCHANGED << inbox, lastRead, posts, domain >>
      /\ outbox' = [outbox EXCEPT ![i] = << >>]
  BY DEF Flush, runtimeVars
<1>3. d \in Domains /\ L \in Nat /\ globalSeq[d] = L /\ Len(sent) \in Nat
  BY <1>1, Lengths DEF DeliveryInv, LogNumbered
<1>4. /\ \A p \in 1..Len(sent) : /\ sent[p].seq = L + p /\ sent[p].source = i
                                /\ \E k \in wanted : sent[p].n = outbox[i][k].n
      /\ \A p, q \in 1..Len(sent) : p < q =>
           \E k, l \in wanted : /\ k < l
                                /\ sent[p].n = outbox[i][k].n /\ sent[q].n = outbox[i][l].n
  <2> DEFINE G == globalSeq[domain[i]]
  <2>1. G \in Nat
    BY <1>3
  <2>2. G = L
    BY <1>3
  <2> HIDE DEF G
  <2> DEFINE it == Committed(i, G, wanted)
  <2>3. \A p \in 1..Len(it) : it[p].seq = G + p
    BY <2>1, CommittedFacts, ZenonT(30)
  <2>4. \A p \in 1..Len(it) : it[p].source = i
    BY <2>1, CommittedFacts, Zenon
  <2>5. \A p \in 1..Len(it) : \E k \in wanted : it[p].n = outbox[i][k].n
    BY <2>1, CommittedFacts, ZenonT(30)
  <2>6. \A p, q \in 1..Len(it) : p < q =>
             \E k, l \in wanted : /\ k < l
                                  /\ it[p].n = outbox[i][k].n
                                  /\ it[q].n = outbox[i][l].n
    BY <2>1, CommittedFacts, Zenon
  <2>7. sent = it
    BY <1>1 DEF G
  <2> HIDE DEF it
  <2>8. \A p \in 1..Len(sent) : sent[p].seq = L + p
    BY <2>2, <2>3, <2>7
  <2>9. \A p \in 1..Len(sent) : sent[p].source = i /\ \E k \in wanted : sent[p].n = outbox[i][k].n
    BY <2>4, <2>5, <2>7
  <2> QED
    BY <2>6, <2>7, <2>8, <2>9
<1>5. log[d] \in Seq(Messages) /\ ring[d] \in [0..(R - 1) -> Messages]
  BY <1>3 DEF BusTypeOK
<1>6. /\ log'[d] = log[d] \o sent /\ globalSeq'[d] = L + Len(sent)
      /\ ring'[d] = Written(ring[d], sent)
  BY <1>1, <1>3 DEF BusTypeOK
<1>7. \A e \in Domains \ {d} : log'[e] = log[e] /\ globalSeq'[e] = globalSeq[e] /\ ring'[e] = ring[e]
  BY <1>1 DEF BusTypeOK
<1>8. outbox'[i] = << >> /\ \A j \in Instances \ {i} : outbox'[j] = outbox[j]
  BY <1>2 DEF BusTypeOK
<1> HIDE DEF d, L
<1>9. /\ Len(log'[d]) = L + Len(sent)
      /\ \A s \in 1..L : log'[d][s] = log[d][s]
      /\ \A p \in 1..Len(sent) : log'[d][L + p] = sent[p]
  <2>1. /\ Len(log[d] \o sent) = Len(log[d]) + Len(sent)
        /\ \A s \in 1..(Len(log[d]) + Len(sent)) :
             (log[d] \o sent)[s] = IF s <= Len(log[d]) THEN log[d][s] ELSE sent[s - Len(log[d])]
    BY <1>5, ConcatProperties
  <2>2. \A s \in 1..L : log'[d][s] = log[d][s]
    BY <1>3, <1>6, <2>1 DEF L
  <2>3. \A p \in 1..Len(sent) : L + p \in 1..(L + Len(sent)) /\ ~(L + p <= L) /\ (L + p) - L = p
    BY <1>3
  <2>4. \A p \in 1..Len(sent) : log'[d][L + p] = sent[p]
    BY <1>6, <2>1, <2>3 DEF L
  <2> QED
    BY <1>6, <2>1, <2>2, <2>4 DEF L
<1>10. \A s \in 1..Len(log'[d]) :
         \/ s \in 1..L /\ log'[d][s] = log[d][s]
         \/ /\ s - L \in 1..Len(sent) /\ s > L
            /\ log'[d][s] = sent[s - L] /\ log'[d][s].seq = s
  <2> SUFFICES ASSUME NEW s \in 1..Len(log'[d])
               PROVE  \/ s \in 1..L /\ log'[d][s] = log[d][s]
                      \/ /\ s - L \in 1..Len(sent) /\ s > L
                         /\ log'[d][s] = sent[s - L] /\ log'[d][s].seq = s
    OBVIOUS
  <2>1. CASE s <= L
    BY <1>3, <1>9, <2>1
  <2>2. CASE s > L
    <3>1. s - L \in 1..Len(sent) /\ L + (s - L) = s
      BY <1>3, <1>9, <2>2
    <3>2. log'[d][L + (s - L)] = sent[s - L] /\ sent[s - L].seq = L + (s - L)
      BY <1>4, <1>9, <3>1
    <3> QED
      BY <2>2, <3>1, <3>2
  <2> QED
    BY <1>3, <1>9, <2>1, <2>2
<1>11. \A m : \A e \in Domains : OfLog(e, m) => InLog(e, m)
  <2> SUFFICES ASSUME NEW e \in Domains, NEW m, OfLog(e, m)
               PROVE  InLog(e, m)
    OBVIOUS
  <2>1. CASE e = d
    BY <1>3, <1>9, <2>1 DEF OfLog, L
  <2>2. CASE e # d
    BY <1>7, <2>2 DEF OfLog
  <2> QED
    BY <2>1, <2>2
<1>12. LogNumbered'
  <2> SUFFICES ASSUME NEW e \in Domains
               PROVE  /\ globalSeq'[e] = Len(log'[e])
                      /\ \A s \in 1..Len(log'[e]) : log'[e][s].seq = s
    BY DEF LogNumbered
  <2>1. CASE e = d
    BY <1>3, <1>6, <1>9, <1>10, <2>1 DEF DeliveryInv, LogNumbered, L
  <2>2. CASE e # d
    BY <1>7, <2>2 DEF DeliveryInv, LogNumbered
  <2> QED
    BY <2>1, <2>2
<1>13. RingIsLog'
  <2> SUFFICES ASSUME NEW e \in Domains, NEW k \in 0..(R - 1), ring'[e][k].seq # 0
               PROVE  InLog(e, ring'[e][k])
    BY DEF RingIsLog, OfLog
  <2>1. CASE ring'[e][k] = ring[e][k]
    <3>1. OfLog(e, ring[e][k])
      BY <2>1 DEF DeliveryInv, RingIsLog
    <3> QED
      BY <1>11, <2>1, <3>1
  <2>2. CASE e = d /\ \E p \in 1..Len(sent) : ring'[e][k] = sent[p]
    <3>1. PICK p \in 1..Len(sent) : ring'[e][k] = sent[p]
      BY <2>2
    <3>2. sent[p].seq = L + p /\ log'[d][L + p] = sent[p]
      BY <1>4, <1>9
    <3>3. L + p \in 1..Len(log'[d])
      BY <1>3, <1>9
    <3> QED
      BY <2>2, <3>1, <3>2, <3>3
  <2>3. e = d => \/ ring'[e][k] = ring[e][k]
                 \/ \E p \in 1..Len(sent) : ring'[e][k] = sent[p]
    <3>1. \/ Written(ring[d], sent)[k] = ring[d][k]
          \/ \E p \in 1..Len(sent) : Written(ring[d], sent)[k] = sent[p]
      BY <1>5, WrittenFrom
    <3> QED
      BY <1>6, <3>1
  <2> QED
    BY <1>7, <2>1, <2>2, <2>3
<1>14. InboxIsLog' /\ InboxInOrder'
  <2>1. InboxIsLog'
    <3> SUFFICES ASSUME NEW j \in Instances, NEW p \in 1..Len(inbox[j])
                 PROVE  InLog(domain[j], inbox[j][p])
      BY <1>2 DEF InboxIsLog, OfLog
    <3>1. OfLog(domain[j], inbox[j][p]) /\ domain[j] \in Domains
      BY Lengths DEF DeliveryInv, InboxIsLog
    <3> QED
      BY <1>11, <3>1
  <2>2. InboxInOrder'
    BY <1>2 DEF DeliveryInv, InboxInOrder
  <2> QED
    BY <2>1, <2>2
<1>15. \A k \in wanted : k \in 1..Len(outbox[i]) /\ outbox[i][k].n \in Nat /\ outbox[i][k].n <= posts[i]
  BY Lengths DEF Posted, DeliveryInv, SendersNumber
<1>16. \A s \in 1..L : log[d][s].n \in Nat
                       /\ (log[d][s].source = i => \A k \in 1..Len(outbox[i]) : log[d][s].n < outbox[i][k].n)
  BY <1>3, Lengths DEF DeliveryInv, SendersNumber, L, Messages
<1>17. SendersNumber'
  <2>1. ASSUME NEW e \in Domains, NEW s \in 1..Len(log'[e]), NEW t \in 1..Len(log'[e]),
               s < t, log'[e][s].source = log'[e][t].source
        PROVE  log'[e][s].n < log'[e][t].n
    <3>1. CASE e # d
      BY <1>7, <2>1, <3>1 DEF DeliveryInv, SendersNumber
    <3>2. CASE e = d /\ t \in 1..L /\ log'[d][t] = log[d][t]
      <4>1. s \in 1..L /\ log'[d][s] = log[d][s]
        BY <1>3, <1>9, <2>1, <3>2
      <4> QED
        BY <1>3, <2>1, <3>2, <4>1 DEF DeliveryInv, SendersNumber, L
    <3>3. CASE e = d /\ t - L \in 1..Len(sent) /\ log'[d][t] = sent[t - L]
      <4>1. log'[e][t].source = i
        BY <1>4, <3>3
      <4>2. PICK x \in wanted : log'[e][t].n = outbox[i][x].n
        BY <1>4, <3>3
      <4>3. CASE s \in 1..L /\ log'[d][s] = log[d][s]
        BY <1>15, <1>16, <2>1, <3>3, <4>1, <4>2, <4>3
      <4>4. CASE s - L \in 1..Len(sent) /\ log'[d][s] = sent[s - L]
        <5>1. s - L < t - L
          BY <1>3, <1>9, <2>1, <3>3
        <5>2. PICK k1 \in wanted, l1 \in wanted :
                k1 < l1 /\ log'[d][s].n = outbox[i][k1].n /\ log'[d][t].n = outbox[i][l1].n
          <6>1. s - L \in 1..Len(sent) /\ t - L \in 1..Len(sent)
            BY <3>3, <4>4
          <6>2. PICK k \in wanted, l \in wanted :
                  k < l /\ sent[s - L].n = outbox[i][k].n /\ sent[t - L].n = outbox[i][l].n
            BY <1>4, <5>1, <6>1
          <6> QED
            BY <3>3, <4>4, <6>2
        <5>3. outbox[i][k1].n < outbox[i][l1].n
          BY <1>15, <5>2 DEF DeliveryInv, SendersNumber
        <5> QED
          BY <3>3, <5>2, <5>3
      <4> QED
        BY <1>10, <3>3, <4>3, <4>4
    <3> QED
      BY <1>10, <3>1, <3>2, <3>3
  <2>2. ASSUME NEW j \in Instances, NEW e \in Domains, NEW s \in 1..Len(log'[e]),
               log'[e][s].source = j
        PROVE  /\ log'[e][s].n <= posts[j]
               /\ \A k \in 1..Len(outbox'[j]) : log'[e][s].n < outbox'[j][k].n
    <3>1. \A k \in 1..Len(outbox'[j]) : k \in 1..Len(outbox[j]) /\ outbox'[j][k] = outbox[j][k] /\ j # i
      BY <1>8
    <3>2. CASE s \in 1..Len(log[e]) /\ log'[e][s] = log[e][s]
      BY <2>2, <3>1, <3>2 DEF DeliveryInv, SendersNumber
    <3>3. CASE e = d /\ s - L \in 1..Len(sent) /\ log'[d][s] = sent[s - L]
      <4>1. j = i
        BY <1>4, <2>2, <3>3
      <4>2. PICK k \in wanted : log'[e][s].n = outbox[i][k].n
        BY <1>4, <3>3
      <4> QED
        BY <1>15, <3>1, <4>1, <4>2
    <3> QED
      BY <1>7, <1>10, <3>2, <3>3 DEF L
  <2>3. ASSUME NEW j \in Instances, NEW k \in 1..Len(outbox'[j]), NEW l \in 1..Len(outbox'[j])
        PROVE  outbox'[j][k].n <= posts[j] /\ (k < l => outbox'[j][k].n < outbox'[j][l].n)
    BY <1>8 DEF DeliveryInv, SendersNumber
  <2> QED
    BY <1>2, <2>1, <2>2, <2>3 DEF SendersNumber
<1> QED
  BY <1>12, <1>13, <1>14, <1>17 DEF DeliveryInv

\* The order holds throughout.
LEMMA DeliveryHolds == Spec => [](BusTypeOK /\ RegistryInv /\ DeliveryInv)
<1>1. Init => DeliveryInv
  BY InitDelivery
<1>2. BusTypeOK /\ RegistryInv /\ DeliveryInv /\ [Next]_vars => DeliveryInv'
  <2> SUFFICES ASSUME BusTypeOK, RegistryInv, DeliveryInv, [Next]_vars PROVE DeliveryInv'
    OBVIOUS
  <2>1. CASE Next
    <3>1. PICK i \in Instances :
            \/ Attach(i) \/ Detach(i) \/ Reset(i)
            \/ BeginBlock(i) \/ Script(i) \/ Ends(i) \/ Make(i) \/ Lose(i)
      BY <2>1 DEF Next
    <3>2. CASE \/ Attach(i) \/ Detach(i) \/ BeginBlock(i) \/ EndBlock(i) \/ Lose(i)
               \/ Upsert(i) \/ Remove(i) \/ CollectNothing(i)
               \/ \E c \in Channels, subscribed \in BOOLEAN : Subscribe(i, c, subscribed)
      <4>1. UNCHANGED << log, ring, globalSeq, inbox, lastRead, outbox, posts, domain >>
        BY <3>2 DEF Attach, Detach, BeginBlock, EndBlock, Lose, Upsert, Remove, CollectNothing,
                    Subscribe, Publish, runtimeVars, boxVars, headerVars
      <4> QED
        BY <4>1, OthersKeepOrder
    <3>3. CASE Reset(i) \/ FlushLost(i) \/ \E d \in Domains : Join(i, d)
      <4>1. UNCHANGED << log, ring, globalSeq, posts >>
        BY <3>3 DEF Reset, FlushLost, Join, runtimeVars, headerVars
      <4>2. \A j \in Instances \ {i} : /\ inbox'[j] = inbox[j] /\ lastRead'[j] = lastRead[j]
                                      /\ domain'[j] = domain[j] /\ outbox'[j] = outbox[j]
        BY <3>3 DEF Reset, FlushLost, Join, runtimeVars, headerVars, BusTypeOK
      <4>3. inbox'[i] = << >> \/ /\ inbox'[i] = inbox[i] /\ lastRead'[i] = lastRead[i]
                                 /\ domain'[i] = domain[i]
        <5>1. inbox \in [Instances -> Seq(Messages)] /\ domain \in [Instances -> Domains]
          BY DEF BusTypeOK
        <5>2. CASE Reset(i) \/ FlushLost(i)
          BY <5>1, <5>2 DEF Reset, FlushLost, runtimeVars, headerVars
        <5>3. CASE \E d \in Domains : Join(i, d)
          <6>1. PICK d \in Domains : Join(i, d)
            BY <5>3
          <6>2. domain'[i] = d
            BY <5>1, <6>1 DEF Join
          <6>3. d = domain[i] => inbox' = inbox /\ lastRead' = lastRead
            BY <6>1 DEF Join
          <6>4. d # domain[i] => inbox'[i] = << >>
            BY <5>1, <6>1 DEF Join
          <6> QED
            BY <6>2, <6>3, <6>4
        <5> QED
          BY <3>3, <5>2, <5>3
      <4>4. outbox'[i] = << >> \/ outbox'[i] = outbox[i]
        BY <3>3 DEF Reset, FlushLost, Join, BusTypeOK
      <4> QED
        BY <4>1, <4>2, <4>3, <4>4, EmptyBoxesInOrder
    <3>4. CASE Collect(i)
      BY <3>4, CollectKeepsOrder DEF RegistryInv
    <3>5. CASE Flush(i)
      BY <3>5, FlushKeepsOrder
    <3>6. CASE \E c \in Channels : Receive(i, c)
      BY <3>6, ReceiveKeepsOrder
    <3>7. CASE \E t \in Instances \cup {None}, c \in Channels : Post(i, t, c)
      BY <3>7, PostKeepsOrder
    <3> QED
      BY <3>1, <3>2, <3>3, <3>4, <3>5, <3>6, <3>7 DEF Script, Make, Ends
  <2>2. CASE UNCHANGED vars
    <3>1. UNCHANGED << log, ring, globalSeq, inbox, lastRead, outbox, posts, domain >>
      BY <2>2 DEF vars, runtimeVars, boxVars, headerVars
    <3> QED
      BY <3>1, OthersKeepOrder
  <2> QED
    BY <2>1, <2>2
<1> QED
  BY <1>1, <1>2, RegistryHolds, PTL DEF Spec

\* A receiver's messages are in the order they were committed, each sender's in the order it
\* posted them, and none is behind the cursor that a later block reads from.
THEOREM FifoPerSenderHolds == Spec => []FifoPerSender
<1>1. BusTypeOK /\ DeliveryInv => FifoPerSender
  <2> SUFFICES ASSUME BusTypeOK, DeliveryInv,
                      NEW i \in Instances, NEW p \in 1..Len(inbox[i]), NEW q \in 1..Len(inbox[i])
               PROVE  /\ inbox[i][p].seq <= lastRead[i]
                      /\ p < q => inbox[i][p].seq < inbox[i][q].seq
                      /\ (p < q /\ inbox[i][p].source = inbox[i][q].source)
                           => inbox[i][p].n < inbox[i][q].n
    BY DEF FifoPerSender
  <2>1. /\ inbox[i][p].seq <= lastRead[i]
        /\ p < q => inbox[i][p].seq < inbox[i][q].seq
    BY DEF DeliveryInv, InboxInOrder
  <2>2. OfLog(domain[i], inbox[i][p]) /\ OfLog(domain[i], inbox[i][q]) /\ domain[i] \in Domains
    BY Lengths DEF DeliveryInv, InboxIsLog
  <2>3. (p < q /\ inbox[i][p].source = inbox[i][q].source) => inbox[i][p].n < inbox[i][q].n
    BY <2>1, <2>2 DEF OfLog, DeliveryInv, SendersNumber
  <2> QED
    BY <2>1, <2>3
<1> QED
  BY <1>1, DeliveryHolds, PTL

-----------------------------------------------------------------------------
(* Losses.                                                                  *)

\* The ring holds the newest messages of the history.
RingHoldsLast ==
    \A d \in Domains : \A s \in 1..Len(log[d]) :
      s > Len(log[d]) - R => ring[d][s % R] = log[d][s]

\* Two numbers less than a ring apart have different places.
LEMMA PlacesDiffer == \A s, t \in Nat : s < t /\ t < s + R => s % R # t % R
<1> SUFFICES ASSUME NEW s \in Nat, NEW t \in Nat, s < t, t < s + R, s % R = t % R PROVE FALSE
  OBVIOUS
<1> DEFINE p == s \div R
           q == t \div R
           r == s % R
<1>1. p \in Int /\ q \in Int /\ s = R * p + r /\ t = R * q + r /\ r \in 0..(R - 1)
  BY BusAssumption
<1>2. R \in Nat /\ R > 0
  BY BusAssumption
<1> HIDE DEF p, q, r
<1>3. t - s = R * q - R * p
  BY <1>1, <1>2
<1>4. CASE q <= p
  <2>1. R * q <= R * p
    BY <1>1, <1>2, <1>4
  <2> QED
    BY <1>1, <1>2, <1>3, <2>1
<1>5. CASE q >= p + 1
  <2>1. R * q >= R * (p + 1)
    BY <1>1, <1>2, <1>5
  <2>2. R * (p + 1) = R * p + R
    BY <1>1, <1>2
  <2> QED
    BY <1>1, <1>2, <1>3, <2>1, <2>2
<1> QED
  BY <1>1, <1>4, <1>5

\* Messages numbered after a history are written so that the ring holds the newest of both.
LEMMA WrittenHoldsLast ==
    ASSUME NEW slots \in [0..(R - 1) -> Messages], NEW old \in Seq(Messages),
           NEW messages \in Seq(Messages),
           \A s \in 1..Len(old) : s > Len(old) - R => slots[s % R] = old[s],
           \A p \in 1..Len(messages) : messages[p].seq = Len(old) + p
    PROVE  \A s \in 1..Len(old \o messages) :
             s > Len(old \o messages) - R => Written(slots, messages)[s % R] = (old \o messages)[s]
<1> DEFINE L == Len(old)
           M == Len(messages)
           after == Written(slots, messages)
<1>1. L \in Nat /\ M \in Nat /\ R \in Nat \ {0}
  BY BusAssumption
<1>2. /\ Len(old \o messages) = L + M
      /\ \A s \in 1..(L + M) : (old \o messages)[s] = IF s <= L THEN old[s] ELSE messages[s - L]
  BY ConcatProperties
<1>3. \A k \in 0..(R - 1) :
        \/ /\ after[k] = slots[k]
           /\ \A p \in 1..M : messages[p].seq % R # k
        \/ \E p \in 1..M :
             /\ after[k] = messages[p] /\ messages[p].seq % R = k
             /\ \A q \in 1..M : messages[q].seq % R = k => q <= p
  BY WrittenFacts, Zenon
<1>4. \A p \in 1..M : messages[p].seq = L + p
  OBVIOUS
<1>5. \A s \in 1..L : s > L - R => slots[s % R] = old[s]
  OBVIOUS
<1> HIDE DEF L, M, after
<1>6. ASSUME NEW s \in 1..(L + M), s > L + M - R
      PROVE  after[s % R] = IF s <= L THEN old[s] ELSE messages[s - L]
  <2>1. s \in Nat /\ s % R \in 0..(R - 1)
    <3>1. s \in Nat
      BY <1>1
    <3> QED
      BY <3>1, RingPlace
  <2>2. \A p \in 1..M : s < L + p => (L + p) % R # s % R
    <3> SUFFICES ASSUME NEW p \in 1..M, s < L + p PROVE (L + p) % R # s % R
      OBVIOUS
    <3>1. L + p \in Nat /\ L + p < s + R
      BY <1>1, <1>6
    <3> QED
      BY <2>1, <3>1, PlacesDiffer
  <2>3. CASE s <= L
    <3>1. \A p \in 1..M : messages[p].seq % R # s % R
      <4> SUFFICES ASSUME NEW p \in 1..M PROVE messages[p].seq % R # s % R
        OBVIOUS
      <4>1. s < L + p
        BY <1>1, <2>3
      <4> QED
        BY <1>4, <2>2, <4>1
    <3>2. after[s % R] = slots[s % R]
      BY <1>3, <2>1, <3>1
    <3>3. s \in 1..L /\ s > L - R
      BY <1>1, <1>6, <2>3
    <3> QED
      BY <1>5, <2>3, <3>2, <3>3
  <2>4. CASE s > L
    <3> DEFINE p == s - L
    <3>1. p \in 1..M /\ L + p = s
      BY <1>1, <2>4
    <3> HIDE DEF p
    <3>2. messages[p].seq % R = s % R
      BY <1>4, <3>1
    <3>3. PICK q \in 1..M :
            /\ after[s % R] = messages[q] /\ messages[q].seq % R = s % R
            /\ \A u \in 1..M : messages[u].seq % R = s % R => u <= q
      BY <1>3, <2>1, <3>1, <3>2
    <3>4. p <= q
      BY <3>1, <3>2, <3>3
    <3>5. ~(s < L + q)
      BY <1>4, <2>2, <3>3
    <3>6. q = p
      BY <1>1, <3>1, <3>4, <3>5
    <3> QED
      BY <1>1, <2>1, <2>4, <3>3, <3>6 DEF p
  <2> QED
    BY <1>1, <2>3, <2>4
<1> QED
  BY <1>1, <1>2, <1>6 DEF after, L, M

\* What is counted on channels adds up.
LEMMA UnderFacts ==
    ASSUME NEW f \in [Channels -> Nat]
    PROVE  /\ \A x : x \in Under(f) <=> \E c \in Channels, k \in Nat \ {0} :
                                        k <= f[c] /\ x = << c, k >>
           /\ IsFiniteSet(Under(f)) /\ Total(f) \in Nat
<1>1. \A x : x \in Under(f) <=> \E c \in Channels, k \in Nat \ {0} : k <= f[c] /\ x = << c, k >>
  <2>1. \A c \in Channels : 1..f[c] = {k \in Nat \ {0} : k <= f[c]}
    OBVIOUS
  <2>2. \A x : x \in Under(f) <=> \E c \in Channels : x \in {c} \X (1..f[c])
    BY DEF Under
  <2>3. \A x, c : x \in {c} \X (1..f[c]) <=> \E k \in 1..f[c] : x = << c, k >>
    OBVIOUS
  <2> QED
    BY <2>1, <2>2, <2>3
<1> DEFINE part(T) == UNION {{c} \X (1..f[c]) : c \in T}
           F == {T \in SUBSET Channels : IsFiniteSet(part(T))}
<1>2. {} \in F
  <2>1. part({}) = {}
    OBVIOUS
  <2> QED
    BY <2>1, FS_EmptySet
<1>3. ASSUME NEW T \in F, NEW c \in Channels \ T PROVE T \cup {c} \in F
  <2>1. part(T \cup {c}) = part(T) \cup ({c} \X (1..f[c]))
    OBVIOUS
  <2>2. IsFiniteSet({c}) /\ IsFiniteSet(1..f[c])
    <3>1. f[c] \in Nat
      OBVIOUS
    <3>2. IsFiniteSet(1..f[c])
      BY <3>1, FS_Interval
    <3> QED
      BY <3>2, FS_Singleton
  <2>3. IsFiniteSet({c} \X (1..f[c]))
    BY <2>2, FS_Product, Zenon
  <2>4. IsFiniteSet(part(T))
    OBVIOUS
  <2>5. IsFiniteSet(part(T) \cup ({c} \X (1..f[c])))
    BY <2>3, <2>4, FS_Union, Zenon
  <2>6. T \cup {c} \in SUBSET Channels
    OBVIOUS
  <2> HIDE DEF part
  <2> QED
    BY <2>1, <2>5, <2>6
<1>4. Channels \in F
  <2> HIDE DEF F
  <2>1. F \in SUBSET (SUBSET Channels)
    BY DEF F
  <2> QED
    BY <1>2, <1>3, <2>1, BusAssumption, FiniteSetInduction
<1>5. IsFiniteSet(Under(f))
  BY <1>4 DEF Under
<1>6. Total(f) \in Nat
  BY <1>5, FS_CardinalityType, Zenon DEF Total
<1> QED
  BY <1>1, <1>5, <1>6

\* One more on a channel is one more in all.
LEMMA TotalOneMore ==
    ASSUME NEW f \in [Channels -> Nat], NEW g \in [Channels -> Nat], NEW c \in Channels,
           g[c] = f[c] + 1, \A e \in Channels \ {c} : g[e] = f[e]
    PROVE  Total(g) = Total(f) + 1
<1> DEFINE x == << c, f[c] + 1 >>
<1>1. x \notin Under(f)
  <2>1. \A k \in Nat : k <= f[c] => x # << c, k >>
    OBVIOUS
  <2>2. \A e, k : x = << e, k >> => e = c
    OBVIOUS
  <2> HIDE DEF x
  <2> QED
    BY <2>1, <2>2, UnderFacts
<1>2. Under(g) = Under(f) \cup {x}
  <2>1. f[c] \in Nat /\ \A k \in Nat \ {0} : k <= g[c] <=> k <= f[c] \/ k = f[c] + 1
    OBVIOUS
  <2>2. ASSUME NEW y \in Under(g) PROVE y \in Under(f) \cup {x}
    <3>1. PICK e \in Channels, k \in Nat \ {0} : k <= g[e] /\ y = << e, k >>
      BY UnderFacts
    <3>2. CASE e = c
      BY <2>1, <3>1, <3>2, UnderFacts
    <3>3. CASE e # c
      BY <3>1, <3>3, UnderFacts
    <3> QED
      BY <3>2, <3>3
  <2>3. ASSUME NEW y \in Under(f) PROVE y \in Under(g)
    <3>1. PICK e \in Channels, k \in Nat \ {0} : k <= f[e] /\ y = << e, k >>
      BY UnderFacts
    <3>2. k <= g[e]
      BY <3>1
    <3> QED
      BY <3>1, <3>2, UnderFacts
  <2>4. x \in Under(g)
    <3>1. f[c] + 1 \in Nat \ {0} /\ f[c] + 1 <= g[c]
      OBVIOUS
    <3> QED
      BY <3>1, UnderFacts
  <2> QED
    BY <2>2, <2>3, <2>4
<1>3. IsFiniteSet(Under(f))
  BY UnderFacts
<1> HIDE DEF x
<1> QED
  BY <1>1, <1>2, <1>3, FS_AddElement DEF Total

\* Messages lost are counted one by one, each on its channel.
LEMMA TotalCounted ==
    ASSUME BusTypeOK, NEW i \in Instances, NEW lost \in SUBSET (1..Len(outbox[i]))
    PROVE  /\ Total(Counted(i, lost)) = Total(dropped[i]) + Cardinality(lost)
           /\ Total(dropped[i]) \in Nat /\ Cardinality(lost) \in Nat
<1>1. dropped[i] \in [Channels -> Nat] /\ Total(dropped[i]) \in Nat
  <2>1. dropped[i] \in [Channels -> Nat]
    BY DEF BusTypeOK
  <2> QED
    BY <2>1, UnderFacts
<1>2. IsFiniteSet(lost) /\ Cardinality(lost) \in Nat
  <2>1. Len(outbox[i]) \in Nat
    BY Lengths
  <2>2. IsFiniteSet(1..Len(outbox[i]))
    BY <2>1, FS_Interval
  <2>3. IsFiniteSet(lost)
    BY <2>2, FS_Subset, Zenon
  <2> QED
    BY <2>3, FS_CardinalityType, Zenon
<1>3. \A k \in lost : outbox[i][k].channel \in Channels
  BY Lengths DEF Posted
<1>4. \A T \in SUBSET lost : IsFiniteSet(T)
  BY <1>2, FS_Subset, Zenon
<1> DEFINE F == {T \in SUBSET lost : Total(Counted(i, T)) = Total(dropped[i]) + Cardinality(T)}
           on(T, c) == {k \in T : outbox[i][k].channel = c}
<1>5. {} \in F
  <2>1. Cardinality({}) = 0
    BY FS_EmptySet
  <2>2. \A c \in Channels : on({}, c) = {}
    OBVIOUS
  <2>3. \A c \in Channels : Counted(i, {})[c] = dropped[i][c]
    BY <1>1, <2>1, <2>2 DEF Counted
  <2>4. Counted(i, {}) = dropped[i]
    BY <1>1, <2>3 DEF Counted
  <2> QED
    BY <1>1, <2>1, <2>4
<1>6. ASSUME NEW T \in F, NEW k \in lost \ T PROVE T \cup {k} \in F
  <2> DEFINE e == outbox[i][k].channel
             f == Counted(i, T)
             g == Counted(i, T \cup {k})
  <2>1. f \in [Channels -> Nat] /\ g \in [Channels -> Nat] /\ e \in Channels
    BY <1>3, CountedTypes
  <2>2. IsFiniteSet(T) /\ IsFiniteSet(on(T, e)) /\ IsFiniteSet(T \cup {k})
    <3>1. T \in SUBSET lost /\ on(T, e) \in SUBSET lost /\ T \cup {k} \in SUBSET lost
      OBVIOUS
    <3> QED
      BY <1>4, <3>1, Zenon
  <2>3. Cardinality(T \cup {k}) = Cardinality(T) + 1 /\ Cardinality(T) \in Nat
    BY <2>2, FS_AddElement, FS_CardinalityType
  <2>4. g[e] = f[e] + 1
    <3>1. on(T \cup {k}, e) = on(T, e) \cup {k} /\ k \notin on(T, e)
      OBVIOUS
    <3>2. Cardinality(on(T, e) \cup {k}) = Cardinality(on(T, e)) + 1 /\ Cardinality(on(T, e)) \in Nat
      BY <2>2, <3>1, FS_AddElement, FS_CardinalityType
    <3>3. /\ f[e] = dropped[i][e] + Cardinality(on(T, e))
          /\ g[e] = dropped[i][e] + Cardinality(on(T \cup {k}, e))
      BY <2>1 DEF Counted
    <3>4. dropped[i][e] \in Nat
      BY <1>1, <2>1
    <3>5. Cardinality(on(T \cup {k}, e)) = Cardinality(on(T, e)) + 1
      BY <3>1, <3>2
    <3> HIDE DEF f, g, e, on
    <3> QED
      BY <3>2, <3>3, <3>4, <3>5
  <2>5. \A c \in Channels \ {e} : g[c] = f[c]
    <3>1. \A c \in Channels \ {e} : on(T \cup {k}, c) = on(T, c)
      OBVIOUS
    <3> QED
      BY <3>1 DEF Counted
  <2>6. Total(f) = Total(dropped[i]) + Cardinality(T)
    OBVIOUS
  <2> HIDE DEF f, g, e
  <2>7. Total(g) = Total(f) + 1
    BY <2>1, <2>4, <2>5, TotalOneMore
  <2>8. Total(g) = Total(dropped[i]) + Cardinality(T \cup {k})
    BY <1>1, <2>3, <2>6, <2>7
  <2> QED
    BY <2>8 DEF g
<1>7. lost \in F
  <2> HIDE DEF F
  <2>1. F \in SUBSET (SUBSET lost)
    BY DEF F
  <2> QED
    BY <1>2, <1>5, <1>6, <2>1, FiniteSetInduction
<1> QED
  BY <1>1, <1>2, <1>7

\* The ring holds the newest messages at first and after every step.
LEMMA RingHolds == Spec => [](BusTypeOK /\ RegistryInv /\ DeliveryInv /\ RingHoldsLast)
<1>1. Init => RingHoldsLast
  <2> SUFFICES ASSUME Init, BusTypeOK, DeliveryInv,
                      NEW d \in Domains, NEW s \in 1..Len(log[d]), s > Len(log[d]) - R
               PROVE  ring[d][s % R] = log[d][s]
    BY InitTypes, InitDelivery DEF RingHoldsLast
  <2> DEFINE blank == [k \in 0..(R - 1) |-> Empty]
  <2>1. ring[d] = Written(blank, log[d])
    BY DEF Init
  <2>2. blank \in [0..(R - 1) -> Messages]
    BY DEF Empty, Messages
  <2>3. log[d] \in Seq(Messages) /\ << >> \in Seq(Messages) /\ Len(<< >>) = 0 /\ Len(log[d]) \in Nat
    BY EmptySeq DEF BusTypeOK
  <2>4. \A p \in 1..Len(log[d]) : log[d][p].seq = Len(<< >>) + p
    BY <2>3 DEF DeliveryInv, LogNumbered
  <2>5. << >> \o log[d] = log[d]
    BY <2>3, ConcatEmptySeq
  <2> HIDE DEF blank
  <2>6. \A p \in 1..Len(<< >>) : p > Len(<< >>) - R => blank[p % R] = << >>[p]
    BY <2>3
  <2>7. \A p \in 1..Len(<< >> \o log[d]) :
          p > Len(<< >> \o log[d]) - R => Written(blank, log[d])[p % R] = (<< >> \o log[d])[p]
    BY <2>2, <2>3, <2>4, <2>6, WrittenHoldsLast
  <2> QED
    BY <2>1, <2>5, <2>7
<1>2. BusTypeOK /\ RegistryInv /\ DeliveryInv /\ RingHoldsLast /\ [Next]_vars => RingHoldsLast'
  <2> SUFFICES ASSUME BusTypeOK, DeliveryInv, RingHoldsLast, [Next]_vars PROVE RingHoldsLast'
    OBVIOUS
  <2>1. CASE \E i \in Instances : Flush(i)
    <3>1. PICK i \in Instances : Flush(i)
      BY <2>1
    <3> DEFINE d == domain[i]
    <3>2. PICK wanted \in SUBSET (1..Len(outbox[i])), sent \in Seq(Messages) :
            /\ wanted = {k \in 1..Len(outbox[i]) : HasTarget(i, outbox[i][k])}
            /\ sent = Committed(i, globalSeq[domain[i]], wanted)
            /\ ring' = [ring EXCEPT ![domain[i]] = Written(ring[domain[i]], sent)]
            /\ globalSeq' = [globalSeq EXCEPT ![domain[i]] = @ + Len(sent)]
            /\ log' = [log EXCEPT ![domain[i]] = @ \o sent]
            /\ dropped' = [dropped EXCEPT ![i] = Counted(i, (1..Len(outbox[i])) \ wanted)]
      BY <3>1, FlushFacts, Zenon
    <3>3. d \in Domains /\ log[d] \in Seq(Messages) /\ ring[d] \in [0..(R - 1) -> Messages]
      BY DEF BusTypeOK
    <3>4. \A p \in 1..Len(sent) : sent[p].seq = Len(log[d]) + p
      <4>1. globalSeq[d] \in Nat
        BY <3>3, Lengths
      <4> DEFINE G == globalSeq[d]
                 it == Committed(i, G, wanted)
      <4>2. \A p \in 1..Len(it) : it[p].seq = G + p
        BY <4>1, CommittedFacts, ZenonT(30)
      <4>3. sent = it /\ G = Len(log[d])
        BY <3>2, <3>3 DEF DeliveryInv, LogNumbered
      <4> HIDE DEF it, G
      <4> QED
        BY <4>2, <4>3
    <3>5. log'[d] = log[d] \o sent /\ ring'[d] = Written(ring[d], sent)
      BY <3>2, <3>3 DEF BusTypeOK
    <3>6. \A e \in Domains \ {d} : log'[e] = log[e] /\ ring'[e] = ring[e]
      BY <3>2 DEF BusTypeOK
    <3> HIDE DEF d
    <3>7. \A s \in 1..Len(log[d]) : s > Len(log[d]) - R => ring[d][s % R] = log[d][s]
      BY <3>3 DEF RingHoldsLast
    <3>8. \A s \in 1..Len(log[d] \o sent) :
            s > Len(log[d] \o sent) - R => Written(ring[d], sent)[s % R] = (log[d] \o sent)[s]
      BY <3>3, <3>4, <3>7, WrittenHoldsLast
    <3> QED
      BY <3>5, <3>6, <3>8, ZenonT(30) DEF RingHoldsLast
  <2>2. CASE ~ \E i \in Instances : Flush(i)
    <3>1. UNCHANGED << log, ring >>
      <4>1. CASE UNCHANGED vars
        BY <4>1 DEF vars, headerVars
      <4>2. CASE Next
        <5>1. PICK j \in Instances :
                \/ Attach(j) \/ Detach(j) \/ Reset(j)
                \/ BeginBlock(j) \/ Script(j) \/ Ends(j) \/ Make(j) \/ Lose(j)
          BY <4>2 DEF Next
        <5>2. CASE Attach(j) \/ Detach(j) \/ Reset(j) \/ BeginBlock(j) \/ Lose(j)
          BY <5>2 DEF Attach, Detach, Reset, BeginBlock, Lose, headerVars
        <5>3. CASE Script(j)
          BY <5>3 DEF Script, Receive, Subscribe, Join, Post, headerVars
        <5>4. CASE Ends(j)
          BY <2>2, <5>4 DEF Ends, EndBlock, FlushLost, headerVars
        <5>5. CASE Make(j)
          BY <5>5 DEF Make, Upsert, Publish, Remove, CollectNothing, Collect, headerVars
        <5> QED
          BY <5>1, <5>2, <5>3, <5>4, <5>5
      <4> QED
        BY <4>1, <4>2
    <3> QED
      BY <3>1 DEF RingHoldsLast
  <2> QED
    BY <2>1, <2>2
<1> QED
  BY <1>1, <1>2, DeliveryHolds, PTL DEF Spec

\* What a collection moves over is delivered if the ring still has it, and a lag is counted.
LEMMA CollectDelivers ==
    ASSUME BusTypeOK, CallsAreHome, DeliveryInv, RingHoldsLast, NEW i \in Instances, Collect(i)
    PROVE  DeliveredOrCounted(i)
<1> DEFINE d      == domain[i]
           newest == globalSeq[d]
           first  == First(i, newest)
           taken  == Readable(d, i, first, newest)
<1>1. /\ calls[i] # << >> /\ Next1(i, "collect") /\ globalSeq[At(i)] > lastRead[i]
      /\ inbox' = [inbox EXCEPT ![i] =
                     @ \o Readable(At(i), i, First(i, globalSeq[At(i)]), globalSeq[At(i)])]
      /\ lastRead' = [lastRead EXCEPT ![i] = globalSeq[At(i)]]
      /\ dropped' = IF Lags(i, globalSeq[At(i)])
                    THEN [dropped EXCEPT ![i] =
                            [c \in Channels |-> @[c] + (IF c \in subs[i] THEN 1 ELSE 0)]]
                    ELSE dropped
  BY DEF Collect, Cursor, Next1
<1>2. At(i) = d
  <2>1. /\ calls[i][1].op = "collect" /\ calls[i][1].domain = At(i)
        /\ 1 \in 1..Len(calls[i])
    BY <1>1, FirstCall
  <2> QED
    BY <2>1 DEF CallsAreHome
<1>3. /\ d \in Domains /\ newest \in Nat /\ newest > lastRead[i] /\ lastRead[i] \in Nat
      /\ Len(inbox[i]) \in Nat /\ newest = Len(log[d]) /\ R \in Nat \ {0}
  BY <1>1, <1>2, BusAssumption, Lengths DEF DeliveryInv, LogNumbered
<1>4. first \in Nat \ {0}
  BY <1>3, FirstFacts
<1>5. taken \in Seq(Messages)
  BY <1>3, <1>4, ReadableFacts
<1>6. \A s \in first..newest :
        ring[d][s % R].seq = s /\ Targets(ring[d][s % R], i, subs[i]) =>
          \E p \in 1..Len(taken) : taken[p] = ring[d][s % R]
  <2>1. newest \in Nat /\ d \in Domains
    BY <1>3
  <2> HIDE DEF d, newest, first
  <2>2. first \in Nat \ {0}
    BY <1>4
  <2> SUFFICES ASSUME NEW s \in first..newest,
                      ring[d][s % R].seq = s, Targets(ring[d][s % R], i, subs[i])
               PROVE  \E p \in 1..Len(taken) : taken[p] = ring[d][s % R]
    OBVIOUS
  <2> QED
    BY <2>1, <2>2, ReadableFacts
<1>7. inbox'[i] = inbox[i] \o taken /\ lastRead'[i] = newest
  BY <1>1, <1>2 DEF BusTypeOK
<1>8. dropped'[i] = [c \in Channels |->
                       dropped[i][c] + (IF c \in subs[i] /\ Lags(i, newest) THEN 1 ELSE 0)]
  <2>1. dropped' = IF Lags(i, newest)
                   THEN [dropped EXCEPT ![i] =
                           [c \in Channels |-> dropped[i][c] + (IF c \in subs[i] THEN 1 ELSE 0)]]
                   ELSE dropped
    BY <1>1, <1>2
  <2>2. dropped \in [Instances -> [Channels -> Nat]]
    BY DEF BusTypeOK
  <2>3. CASE Lags(i, newest)
    <3>1. dropped'[i] = [c \in Channels |-> dropped[i][c] + (IF c \in subs[i] THEN 1 ELSE 0)]
      BY <2>1, <2>2, <2>3
    <3> QED
      BY <2>3, <3>1
  <2>4. CASE ~Lags(i, newest)
    <3>1. dropped'[i] = dropped[i]
      BY <2>1, <2>4
    <3>2. \A c \in Channels : dropped[i][c] + 0 = dropped[i][c]
      BY <2>2
    <3>3. dropped[i] = [c \in Channels |-> dropped[i][c]]
      BY <2>2
    <3> QED
      BY <2>4, <3>1, <3>2, <3>3
  <2> QED
    BY <2>3, <2>4
<1>9. /\ Lags(i, newest) <=> newest > R /\ lastRead[i] + 1 + R <= newest
      /\ first = IF Lags(i, newest) THEN newest - R + 1 ELSE lastRead[i] + 1
  BY DEF First, Lags
<1> DEFINE moved   == (lastRead[i] + 1)..lastRead'[i]
           kept(s) == s + R > newest
<1> HIDE DEF d, newest, first, taken
<1>10. ASSUME NEW s \in moved, kept(s), Targets(log[d][s], i, subs[i])
       PROVE  \E p \in 1..Len(inbox'[i]) : inbox'[i][p] = log[d][s]
  <2>1. s \in first..newest /\ s \in 1..Len(log[d]) /\ s > Len(log[d]) - R
    BY <1>3, <1>4, <1>7, <1>9, <1>10
  <2>2. ring[d][s % R] = log[d][s] /\ log[d][s].seq = s
    BY <1>3, <2>1 DEF RingHoldsLast, DeliveryInv, LogNumbered
  <2>3. PICK p \in 1..Len(taken) : taken[p] = log[d][s]
    BY <1>6, <1>10, <2>1, <2>2
  <2>4. /\ Len(inbox'[i]) = Len(inbox[i]) + Len(taken) /\ Len(taken) \in Nat
        /\ \A q \in 1..(Len(inbox[i]) + Len(taken)) :
             inbox'[i][q] = IF q <= Len(inbox[i]) THEN inbox[i][q] ELSE taken[q - Len(inbox[i])]
    <3>1. inbox[i] \in Seq(Messages)
      BY DEF BusTypeOK
    <3> QED
      BY <1>5, <1>7, <3>1, ConcatProperties
  <2> HIDE DEF moved, kept
  <2>5. /\ Len(inbox[i]) + p \in 1..(Len(inbox[i]) + Len(taken))
        /\ ~(Len(inbox[i]) + p <= Len(inbox[i])) /\ (Len(inbox[i]) + p) - Len(inbox[i]) = p
    BY <1>3, <2>4
  <2>6. inbox'[i][Len(inbox[i]) + p] = log[d][s]
    BY <2>3, <2>4, <2>5
  <2> QED
    BY <2>4, <2>5, <2>6
<1>11. Lags(i, newest) <=> \E s \in moved : ~kept(s)
  <2>1. lastRead[i] + 1 \in moved
    BY <1>3, <1>7
  <2>2. ASSUME NEW s \in moved, ~kept(s) PROVE newest > R /\ lastRead[i] + 1 + R <= newest
    BY <1>3, <1>7, <2>2
  <2>3. ASSUME lastRead[i] + 1 + R <= newest PROVE ~kept(lastRead[i] + 1)
    BY <1>3, <2>3
  <2> HIDE DEF moved, kept
  <2> QED
    BY <1>9, <2>1, <2>2, <2>3
<1>12. dropped'[i] = [c \in Channels |->
                        dropped[i][c]
                        + (IF c \in subs[i] /\ \E s \in moved : ~kept(s) THEN 1 ELSE 0)]
  <2> HIDE DEF moved, kept
  <2> QED
    BY <1>8, <1>11
<1> QED
  BY <1>10, <1>12, Zenon DEF DeliveredOrCounted, d, newest

\* What ends a block is committed or counted, message by message.
LEMMA EndsCount ==
    ASSUME BusTypeOK, NEW i \in Instances
    PROVE  /\ FlushLost(i) => CommittedOrCounted(i)
           /\ Flush(i) => CommittedOrCounted(i)
<1> DEFINE all == 1..Len(outbox[i])
<1>1. Len(outbox[i]) \in Nat /\ Len(<< >>) = 0 /\ domain[i] \in Domains /\ Len(log[domain[i]]) \in Nat
  BY Lengths
<1>2. IsFiniteSet(all) /\ Cardinality(all) = Len(outbox[i])
  BY <1>1, FS_Interval, SMTT(30)
<1>3. CASE FlushLost(i)
  <2>1. outbox'[i] = << >> /\ log' = log
    BY <1>3 DEF FlushLost, headerVars, BusTypeOK
  <2>2. dropped'[i] = Counted(i, all)
    BY <1>3 DEF FlushLost, BusTypeOK
  <2>3. Total(dropped'[i]) = Total(dropped[i]) + Cardinality(all) /\ Total(dropped[i]) \in Nat
    BY <2>2, TotalCounted
  <2> HIDE DEF all
  <2> QED
    BY <1>1, <1>2, <2>1, <2>3 DEF CommittedOrCounted
<1>4. CASE Flush(i)
  <2>1. PICK wanted \in SUBSET all, sent \in Seq(Messages) :
          /\ wanted = {k \in 1..Len(outbox[i]) : HasTarget(i, outbox[i][k])}
          /\ sent = Committed(i, globalSeq[domain[i]], wanted)
          /\ ring' = [ring EXCEPT ![domain[i]] = Written(ring[domain[i]], sent)]
          /\ globalSeq' = [globalSeq EXCEPT ![domain[i]] = @ + Len(sent)]
          /\ log' = [log EXCEPT ![domain[i]] = @ \o sent]
          /\ dropped' = [dropped EXCEPT ![i] = Counted(i, (1..Len(outbox[i])) \ wanted)]
    BY <1>4, FlushFacts, Zenon
  <2>2. outbox'[i] = << >>
    BY <1>4 DEF Flush, BusTypeOK
  <2>3. dropped'[i] = Counted(i, all \ wanted)
    BY <2>1 DEF BusTypeOK
  <2>4. Total(dropped'[i]) = Total(dropped[i]) + Cardinality(all \ wanted) /\ Total(dropped[i]) \in Nat
    <3>1. all \ wanted \in SUBSET (1..Len(outbox[i]))
      OBVIOUS
    <3> QED
      BY <2>3, <3>1, TotalCounted
  <2>5. Len(sent) = Cardinality(wanted)
    <3>1. globalSeq[domain[i]] \in Nat
      BY <1>1, Lengths
    <3>2. Len(Committed(i, globalSeq[domain[i]], wanted)) = Cardinality(wanted)
      BY <3>1, CommittedFacts, Zenon
    <3> QED
      BY <2>1, <3>2
  <2>6. Len(log'[domain[i]]) = Len(log[domain[i]]) + Len(sent)
    <3>1. log'[domain[i]] = log[domain[i]] \o sent /\ log[domain[i]] \in Seq(Messages)
      BY <1>1, <2>1 DEF BusTypeOK
    <3> QED
      BY <3>1, ConcatProperties
  <2>7. /\ Cardinality(all \ wanted) = Cardinality(all) - Cardinality(wanted)
        /\ Cardinality(wanted) \in Nat
    <3>1. Cardinality(all \ wanted) = Cardinality(all) - Cardinality(all \cap wanted)
      BY <1>2, FS_Difference, Zenon
    <3>2. all \cap wanted = wanted
      OBVIOUS
    <3>3. IsFiniteSet(wanted)
      BY <1>2, FS_Subset, Zenon
    <3>4. Cardinality(wanted) \in Nat
      BY <3>3, FS_CardinalityType, Zenon
    <3> QED
      BY <3>1, <3>2, <3>4
  <2> HIDE DEF all
  <2> QED
    BY <1>1, <1>2, <2>2, <2>4, <2>5, <2>6, <2>7 DEF CommittedOrCounted
<1> QED
  BY <1>3, <1>4

\* A cursor that moves delivers every message for the instance that the ring still has, and
\* counts one drop on each subscribed channel exactly if the ring had lost one it moved
\* over; what leaves an outbox was committed or counted, to the number.
THEOREM LossIsCountedHolds == Spec => LossIsCounted
<1>1. BusTypeOK /\ RegistryInv /\ DeliveryInv /\ RingHoldsLast /\ [Next]_vars =>
        [ \A i \in Instances :
            /\ DeliveredOrCounted(i)
            /\ Len(outbox'[i]) < Len(outbox[i]) /\ phase[i] = "block" => CommittedOrCounted(i) ]_vars
  <2> SUFFICES ASSUME BusTypeOK, RegistryInv, DeliveryInv, RingHoldsLast, Next, NEW i \in Instances
               PROVE  /\ DeliveredOrCounted(i)
                      /\ Len(outbox'[i]) < Len(outbox[i]) /\ phase[i] = "block" => CommittedOrCounted(i)
    OBVIOUS
  <2>1. lastRead[i] \in Nat /\ Len(outbox[i]) \in Nat
    BY Lengths
  <2>2. PICK j \in Instances :
          \/ Attach(j) \/ Detach(j) \/ Reset(j)
          \/ BeginBlock(j) \/ Script(j) \/ Ends(j) \/ Make(j) \/ Lose(j)
    BY DEF Next
  <2>3. DeliveredOrCounted(i)
    <3>1. CASE Collect(i)
      BY <3>1, CollectDelivers DEF RegistryInv
    <3>2. CASE ~Collect(i)
      <4>1. lastRead'[i] = lastRead[i] \/ lastRead'[i] = 0
        <5>1. CASE Reset(j) \/ \E e \in Domains : Join(j, e)
          <6>1. lastRead \in [Instances -> Nat]
            BY DEF BusTypeOK
          <6>2. lastRead' = lastRead \/ lastRead' = [lastRead EXCEPT ![j] = 0]
            BY <5>1 DEF Reset, Join
          <6> QED
            BY <6>1, <6>2
        <5>2. CASE Collect(j)
          BY <3>2, <5>2 DEF Collect, BusTypeOK
        <5>3. CASE ~(Reset(j) \/ (\E e \in Domains : Join(j, e)) \/ Collect(j))
          <6>1. lastRead' = lastRead
            BY <2>2, <5>3 DEF Attach, Detach, BeginBlock, Script, Receive, Subscribe,
                 Post, Ends, EndBlock, FlushLost, Flush, Make, Upsert, Remove, CollectNothing,
                 Lose, runtimeVars, boxVars, headerVars
          <6> QED
            BY <6>1
        <5> QED
          BY <5>1, <5>2, <5>3
      <4>2. (lastRead[i] + 1)..lastRead'[i] = {}
        BY <2>1, <4>1
      <4> QED
        BY <4>2 DEF DeliveredOrCounted
    <3> QED
      BY <3>1, <3>2
  <2>4. ASSUME Len(outbox'[i]) < Len(outbox[i]), phase[i] = "block" PROVE CommittedOrCounted(i)
    <3>1. CASE FlushLost(i) \/ Flush(i)
      BY <3>1, EndsCount
    <3>2. CASE ~(FlushLost(i) \/ Flush(i))
      <4>1. CASE Reset(j) \/ FlushLost(j) \/ Flush(j)
        <5>1. CASE j = i
          BY <2>4, <3>2, <4>1, <5>1 DEF Reset
        <5>2. CASE j # i
          <6>1. outbox'[i] = outbox[i]
            BY <4>1, <5>2 DEF Reset, FlushLost, Flush, BusTypeOK
          <6> QED
            BY <2>1, <2>4, <6>1
        <5> QED
          BY <5>1, <5>2
      <4>2. CASE \E t \in Instances \cup {None}, c \in Channels : Post(j, t, c)
        <5>1. PICK t \in Instances \cup {None}, c \in Channels : Post(j, t, c)
          BY <4>2
        <5>2. outbox \in [Instances -> Seq(Posted)]
          BY DEF BusTypeOK, Posted
        <5>3. CASE RoomLeft(j)
          <6> DEFINE m == [n |-> posts'[j], target |-> t, channel |-> c]
          <6>1. outbox' = [outbox EXCEPT ![j] = Append(outbox[j], m)]
            BY <5>1, <5>3 DEF Post
          <6>2. m \in Posted
            <7>1. posts' = [posts EXCEPT ![j] = @ + 1]
              BY <5>1 DEF Post
            <7>2. posts'[j] \in Nat
              BY <7>1, SMTT(30) DEF BusTypeOK
            <7> QED
              BY <7>2 DEF Posted
          <6> HIDE DEF m
          <6>3. Len(Append(outbox[j], m)) = Len(outbox[j]) + 1
            BY <5>2, <6>2, AppendProperties
          <6> QED
            BY <2>1, <2>4, <5>2, <6>1, <6>3
        <5>4. CASE ~RoomLeft(j)
          <6>1. outbox' = outbox
            BY <5>1, <5>4 DEF Post
          <6> QED
            BY <2>1, <2>4, <6>1
        <5> QED
          BY <5>3, <5>4
      <4>3. CASE /\ ~(Reset(j) \/ FlushLost(j) \/ Flush(j))
                 /\ ~(\E t \in Instances \cup {None}, c \in Channels : Post(j, t, c))
        <5>1. outbox' = outbox
          BY <2>2, <4>3 DEF Attach, Detach, BeginBlock, Script, Receive, Subscribe, Join,
               Ends, EndBlock, Make, Upsert, Remove, CollectNothing, Collect,
               Lose, runtimeVars, boxVars, headerVars
        <5> QED
          BY <2>1, <2>4, <5>1
      <4> QED
        BY <4>1, <4>2, <4>3
    <3> QED
      BY <3>1, <3>2
  <2> QED
    BY <2>3, <2>4
<1> QED
  BY <1>1, RingHolds, PTL DEF Spec, LossIsCounted

================================================================================

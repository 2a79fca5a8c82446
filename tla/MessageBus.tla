------------------------------ MODULE MessageBus ------------------------------
(***************************************************************************)
(* Messages between plug-in instances (src/DspJsfxMessageBus.cpp) and the  *)
(* instance runtime that uses them (src/DspJsfxRuntime.cpp).  A domain is  *)
(* a shared-memory header of all processes: a table of instance slots, a   *)
(* ring of messages and a spin lock that every caller tries a bounded      *)
(* number of times and then does without.                                  *)
(*                                                                         *)
(* An instance runs blocks: it collects its inbox, runs its script, sends  *)
(* its outbox.  A bus call changes the registry of the process and then    *)
(* the shared header; the second part waits in calls and either runs under *)
(* the lock or loses it.  Losing is always possible, whether the holder is *)
(* an instance of this model, of another process, or a process that died   *)
(* with the lock.  A section under the lock is one step: without the lock  *)
(* only globalSeq is looked at, and before a message is committed it is    *)
(* what it was.                                                            *)
(*                                                                         *)
(* Advertised channels, capabilities and names are published after the     *)
(* subscriptions, never in their place, and tell no property apart;        *)
(* payloads and their limits are left out, a message is known by its       *)
(* source and number.                                                      *)
(***************************************************************************)
EXTENDS Integers, Sequences, FiniteSets

CONSTANTS
    Instances,
    Channels,
    Domains,
    Home,       \* domainHash_ of a new runtime
    Asleep,     \* instances that may have registered before and do not process
    None,       \* instance id 0: no instance, or a broadcast
    R,          \* kIpcRingSize
    Stale,      \* kIpcStaleSeqWindow
    Places,     \* kIpcMaxInstances: the number of instance slots
    MaxChannels,\* kIpcMaxChannelsPerInstance: the number of channels of a slot
    Capacity,   \* kMaxOutboxMessages
    Earlier,    \* at most so many messages are of instances gone before
    Topics,     \* the channels on which a run lets messages be posted
    MaxPosts,   \* bound on the messages an instance posts
    MaxMoves,   \* bound on resets, domain changes, direct messages, subscriptions to a
                \* channel not in Topics, ends of subscriptions and destructions, together
    Calls       \* of each instance: what a run lets it do

ASSUME BusAssumption ==
    /\ R \in Nat \ {0} /\ Stale \in Nat /\ Places \in Nat \ {0} /\ Capacity \in Nat \ {0}
    /\ MaxPosts \in Nat /\ MaxMoves \in Nat /\ Earlier \in 0..R
    /\ Home \in Domains /\ None \notin Instances /\ Asleep \subseteq Instances
    /\ R <= Stale /\ IsFiniteSet(Channels) /\ Topics \subseteq Channels /\ MaxChannels \in Nat
    /\ Calls \in [Instances -> SUBSET {"block", "subscribe", "broadcast", "direct",
                                       "join", "reset", "detach"}]

Slots == 1..Places

VARIABLES
    life,       \* of each instance: "new", "attached" or "gone"
    domain,     \* domainHash_
    subs,       \* subscriptions_
    unpublished,\* revision # publishedRevision in the registry
    calls,      \* the header calls its thread still has to make, in order
    phase,      \* where in the block its thread is
    lastRead,   \* ipcLastReadSeq_
    inbox,      \* readyInbox_, all channels in the order they were pushed
    outbox,     \* outbox_
    dropped,    \* droppedByChannel_
    posts,      \* messages posted so far
    moves,      \* how many of these there were
    table,      \* instances of each domain's header
    ring,       \* messages of each domain's header
    globalSeq,  \* globalSeq of each domain's header
    log,        \* history: all messages of a domain ever committed
    heard       \* history: the newest of its instance's heartbeats

runtimeVars == << life, domain, subs, unpublished, posts, moves >>
boxVars     == << lastRead, inbox, outbox, dropped >>
headerVars  == << table, ring, globalSeq, log, heard >>
vars == << runtimeVars, boxVars, headerVars, calls, phase >>

Vacant == [id |-> None, last |-> 0, subs |-> {}]
Empty  == [seq |-> 0, source |-> None, n |-> 0, target |-> None, channel |-> None]

\* Mutant: an instance that was last seen before the first message grows stale too.
IsActiveShort(slot, now) == slot.id # None /\ now <= slot.last + Stale

IsActive(slot, now) == slot.id # None /\ (slot.last = 0 \/ now <= slot.last + Stale)

\* messageTargetsRuntime
Targets(m, i, subscribed) ==
    IF m.target # None THEN m.target = i ELSE m.source # i /\ m.channel \in subscribed

PlacesOf(d, i) == {k \in Slots : table[d][k].id = i}

Min(S) == CHOOSE x \in S : \A y \in S : x <= y

\* The members of a finite set of numbers, in increasing order.
Increasing(S) ==
    CHOOSE f \in [1..Cardinality(S) -> S] :
      \A p, q \in 1..Cardinality(S) : p < q => f[p] < f[q]

-----------------------------------------------------------------------------
(* The calls on the header that a thread makes one after the other.        *)

Call(op, d)  == [op |-> op, domain |-> d]
Next1(i, op) == calls[i] # << >> /\ Head(calls[i]).op = op
At(i)        == Head(calls[i]).domain
Done(i)      == calls' = [calls EXCEPT ![i] = Tail(@)]
Idle(i)      == calls[i] = << >>

\* Mutant: the first inactive slot is taken although the instance has one.
SelectedFirst(d, i) ==
    LET usable == {k \in Slots : ~IsActive(table[d][k], globalSeq[d])} \cup PlacesOf(d, i)
    IN IF usable = {} THEN {} ELSE {Min(usable)}

\* The slot upsertIpcInstance selects: the instance's own, or the first inactive one.
Selected(d, i) ==
    IF PlacesOf(d, i) # {} THEN {Min(PlacesOf(d, i))}
    ELSE LET inactive == {k \in Slots : ~IsActive(table[d][k], globalSeq[d])}
         IN IF inactive = {} THEN {} ELSE {Min(inactive)}

\* What a slot can say of some subscriptions: all of them, or as many as it has
\* channels for, which ones being up to the order of a hash table.
Fitting(subscribed) ==
    IF Cardinality(subscribed) <= MaxChannels THEN {subscribed}
    ELSE {said \in SUBSET subscribed : Cardinality(said) = MaxChannels}

\* The record counts as published although the slot may not have room for all of it.
Publish(d, i, places) ==
    /\ \E said \in Fitting(subs[i]) :
         table' = [table EXCEPT ![d] = [k \in Slots |->
                     IF k \in places THEN [id |-> i, last |-> globalSeq[d], subs |-> said]
                     ELSE @[k]]]
    /\ heard' = IF places = {} THEN heard ELSE [heard EXCEPT ![i] = globalSeq[d]]
    /\ unpublished' = [unpublished EXCEPT ![i] = @ /\ places = {}]

\* upsertIpcInstance under the lock: nothing happens to a record that is gone or
\* has moved, or when all slots are taken.
Upsert(i) ==
    /\ Next1(i, "upsert") \/ Next1(i, "recover")
    /\ Publish(At(i), i,
               IF life[i] = "attached" /\ domain[i] = At(i) THEN Selected(At(i), i) ELSE {})
    /\ Done(i)
    /\ UNCHANGED << life, domain, subs, posts, moves, boxVars, ring, globalSeq, log,
                    phase >>

\* removeIpcInstance under the lock.
Remove(i) ==
    /\ Next1(i, "remove")
    /\ LET places == PlacesOf(At(i), i)
       IN table' = IF places = {} THEN table
                   ELSE [table EXCEPT ![At(i)][Min(places)] = Vacant]
    /\ Done(i)
    /\ UNCHANGED << runtimeVars, boxVars, ring, globalSeq, log, heard, phase >>

\* tryLock spins in vain: the call does nothing, and only a publication is retried,
\* since the record then still differs from what was published.
Lose(i) ==
    /\ calls[i] # << >>
    /\ Done(i)
    /\ UNCHANGED << runtimeVars, boxVars, headerVars, phase >>

-----------------------------------------------------------------------------
(* collectInbox.                                                           *)

\* Mutant: one message too few counts as a lag.
LagsLate(i, newest) == newest > R /\ lastRead[i] + R < newest - 1

\* newestSeq > kIpcRingSize && firstSeq + kIpcRingSize <= newestSeq
Lags(i, newest) == newest > R /\ (lastRead[i] + 1) + R <= newest

First(i, newest) == IF Lags(i, newest) THEN newest - R + 1 ELSE lastRead[i] + 1

\* The ring's messages in the window, oldest first, that are still the ones asked for.
Readable(d, i, first, newest) ==
    LET at(s)  == ring[d][s % R]
        wanted == {s \in first..newest : at(s).seq = s /\ Targets(at(s), i, subs[i])}
    IN [k \in 1..Cardinality(wanted) |-> at(Increasing(wanted)[k])]

\* Mutant: the cursor stays at the last message taken for this instance.
CursorAtTaken(i, newest, taken) ==
    IF taken = << >> THEN lastRead[i] ELSE taken[Len(taken)].seq - 1

Cursor(i, newest, taken) == newest

\* Only the committed sequence is looked at without the lock.
CollectNothing(i) ==
    /\ Next1(i, "collect")
    /\ globalSeq[At(i)] <= lastRead[i]
    /\ Done(i)
    /\ UNCHANGED << runtimeVars, boxVars, headerVars, phase >>

Collect(i) ==
    /\ Next1(i, "collect")
    /\ globalSeq[At(i)] > lastRead[i]
    /\ LET d      == At(i)
           newest == globalSeq[d]
           mine   == PlacesOf(d, i)
           taken  == Readable(d, i, First(i, newest), newest)
       IN /\ table' = IF mine = {} THEN table
                      ELSE [table EXCEPT ![d][Min(mine)].last = newest]
          /\ heard' = IF mine = {} THEN heard ELSE [heard EXCEPT ![i] = newest]
          /\ dropped' = IF Lags(i, newest)
                        THEN [dropped EXCEPT ![i] =
                                [c \in Channels |-> @[c] + (IF c \in subs[i] THEN 1 ELSE 0)]]
                        ELSE dropped
          /\ inbox' = [inbox EXCEPT ![i] = @ \o taken]
          /\ lastRead' = [lastRead EXCEPT ![i] = Cursor(i, newest, taken)]
          /\ calls' = [calls EXCEPT ![i] =
                         Tail(@) \o (IF mine = {} THEN << Call("recover", d) >> ELSE << >>)]
    /\ UNCHANGED << runtimeVars, outbox, ring, globalSeq, log, phase >>

-----------------------------------------------------------------------------
(* The instance runtime: construction and destruction, and what a script   *)
(* may call.  Registration and metadata calls are made in @init, @slider   *)
(* and @block, messages are posted and received in @block only.            *)

\* The bound on what a run does not need often.
Counts(counted) ==
    /\ counted => moves < MaxMoves
    /\ moves' = moves + (IF counted THEN 1 ELSE 0)

Attach(i) ==
    /\ i \notin Asleep
    /\ life[i] = "new"
    /\ life' = [life EXCEPT ![i] = "attached"]
    /\ unpublished' = [unpublished EXCEPT ![i] = TRUE]
    /\ calls' = [calls EXCEPT ![i] = << Call("upsert", domain[i]) >>]
    /\ UNCHANGED << domain, subs, posts, moves, boxVars, headerVars, phase >>

\* The host has stopped processing; unregisterRuntime forgets the record first.
Detach(i) ==
    /\ "detach" \in Calls[i]
    /\ life[i] = "attached" /\ phase[i] = "between" /\ Idle(i)
    /\ Counts(TRUE)
    /\ life' = [life EXCEPT ![i] = "gone"]
    /\ unpublished' = [unpublished EXCEPT ![i] = FALSE]
    /\ calls' = [calls EXCEPT ![i] = << Call("remove", domain[i]) >>]
    /\ UNCHANGED << domain, subs, posts, boxVars, headerVars, phase >>

Configures(i) == life[i] = "attached" /\ Idle(i)

\* subscribe, unsubscribe.
Subscribe(i, c, subscribed) ==
    /\ "subscribe" \in Calls[i]
    /\ Configures(i)
    /\ Counts(~subscribed \/ c \notin Topics)
    /\ (c \in subs[i]) # subscribed
    /\ subs' = [subs EXCEPT ![i] = IF subscribed THEN @ \cup {c} ELSE @ \ {c}]
    /\ unpublished' = [unpublished EXCEPT ![i] = TRUE]
    /\ calls' = [calls EXCEPT ![i] = << Call("upsert", domain[i]) >>]
    /\ UNCHANGED << life, domain, posts, boxVars, headerVars, phase >>

\* joinDomain and updateDomain: the old header first loses the instance.  Joining the
\* domain it is in only publishes its record again.
Join(i, d) ==
    /\ "join" \in Calls[i]
    /\ Configures(i)
    /\ Counts(TRUE)
    /\ domain' = [domain EXCEPT ![i] = d]
    /\ unpublished' = [unpublished EXCEPT ![i] = TRUE]
    /\ IF d = domain[i]
       THEN /\ calls' = [calls EXCEPT ![i] = << Call("upsert", d) >>]
            /\ UNCHANGED << inbox, lastRead >>
       ELSE /\ calls' = [calls EXCEPT ![i] = << Call("remove", domain[i]), Call("upsert", d) >>]
            /\ inbox' = [inbox EXCEPT ![i] = << >>]
            /\ lastRead' = [lastRead EXCEPT ![i] = 0]
    /\ UNCHANGED << life, subs, posts, outbox, dropped, headerVars, phase >>

\* reset, by the host between blocks.
Reset(i) ==
    /\ "reset" \in Calls[i]
    /\ life[i] = "attached" /\ phase[i] = "between" /\ Idle(i)
    /\ Counts(TRUE)
    /\ inbox' = [inbox EXCEPT ![i] = << >>]
    /\ lastRead' = [lastRead EXCEPT ![i] = 0]
    /\ outbox' = [outbox EXCEPT ![i] = << >>]
    /\ dropped' = [dropped EXCEPT ![i] = [c \in Channels |-> 0]]
    /\ UNCHANGED << life, domain, subs, unpublished, posts, headerVars, calls, phase >>

\* Mutant: one message too many.
RoomLeftLate(i) == Len(outbox[i]) <= Capacity

\* enqueueMessage's limit.
RoomLeft(i) == Len(outbox[i]) < Capacity

\* queueScalar and queueScalarTo: an outbox at its limit counts a drop.
Post(i, target, c) ==
    /\ (IF target = None THEN "broadcast" ELSE "direct") \in Calls[i] /\ c \in Topics
    /\ phase[i] = "block" /\ Idle(i)
    /\ posts[i] < MaxPosts
    /\ Counts(target # None)
    /\ posts' = [posts EXCEPT ![i] = @ + 1]
    /\ IF RoomLeft(i)
       THEN /\ outbox' = [outbox EXCEPT ![i] =
                            Append(@, [n |-> posts'[i], target |-> target, channel |-> c])]
            /\ UNCHANGED dropped
       ELSE /\ dropped' = [dropped EXCEPT ![i][c] = @ + 1]
            /\ UNCHANGED outbox
    /\ UNCHANGED << life, domain, subs, unpublished, lastRead, inbox, headerVars,
                    calls, phase >>

\* recvScalar, recvBuffer: the oldest message of the channel.
Receive(i, c) ==
    /\ phase[i] = "block" /\ Idle(i)
    /\ \E p \in 1..Len(inbox[i]) :
         /\ inbox[i][p].channel = c
         /\ \A q \in 1..(p - 1) : inbox[i][q].channel # c
         /\ inbox' = [inbox EXCEPT ![i] = SubSeq(@, 1, p - 1) \o SubSeq(@, p + 1, Len(@))]
    /\ UNCHANGED << runtimeVars, lastRead, outbox, dropped, headerVars, calls, phase >>

-----------------------------------------------------------------------------
(* A block.  One that Smart Idle skips is one whose script does nothing.    *)

\* beginBlock: collectInbox begins by publishing what is still unpublished.
BeginBlock(i) ==
    /\ "block" \in Calls[i]
    /\ life[i] = "attached" /\ phase[i] = "between" /\ Idle(i)
    /\ phase' = [phase EXCEPT ![i] = "block"]
    /\ calls' = [calls EXCEPT ![i] =
                   (IF unpublished[i] THEN << Call("upsert", domain[i]) >> ELSE << >>)
                   \o << Call("collect", domain[i]) >>]
    /\ UNCHANGED << runtimeVars, boxVars, headerVars >>

\* endBlock with an empty outbox.
EndBlock(i) ==
    /\ phase[i] = "block" /\ Idle(i) /\ outbox[i] = << >>
    /\ phase' = [phase EXCEPT ![i] = "between"]
    /\ UNCHANGED << runtimeVars, boxVars, headerVars, calls >>

\* droppedByChannel_ after the outbox's messages at some places were lost.
Counted(i, lost) ==
    [c \in Channels |-> dropped[i][c] + Cardinality({k \in lost : outbox[i][k].channel = c})]

\* flushOutbox without the lock: the whole outbox is counted as dropped.
FlushLost(i) ==
    /\ phase[i] = "block" /\ Idle(i) /\ outbox[i] # << >>
    /\ dropped' = [dropped EXCEPT ![i] = Counted(i, 1..Len(outbox[i]))]
    /\ outbox' = [outbox EXCEPT ![i] = << >>]
    /\ phase' = [phase EXCEPT ![i] = "between"]
    /\ UNCHANGED << runtimeVars, lastRead, inbox, headerVars, calls >>

\* hasTarget: an active slot for a direct message, another one's subscription for a
\* broadcast.
HasTarget(i, m) ==
    \E k \in Slots :
      LET slot == table[domain[i]][k]
      IN /\ IsActive(slot, globalSeq[domain[i]])
         /\ IF m.target # None THEN slot.id = m.target
            ELSE slot.id # i /\ m.channel \in slot.subs

\* The messages of the outbox at some places, numbered in order after newest.
Committed(i, newest, wanted) ==
    LET sent(k) == outbox[i][Increasing(wanted)[k]]
    IN [k \in 1..Cardinality(wanted) |->
          [seq |-> newest + k, source |-> i, n |-> sent(k).n,
           target |-> sent(k).target, channel |-> sent(k).channel]]

\* The ring after messages are written, each in the slot of its sequence number.
Written(slots, messages) ==
    [k \in 0..(R - 1) |->
       LET here == {p \in 1..Len(messages) : messages[p].seq % R = k}
       IN IF here = {} THEN slots[k] ELSE messages[CHOOSE p \in here : \A q \in here : q <= p]]

\* flushOutbox under the lock: a message that has a target is written and committed,
\* the others are counted.  Targets are looked up at the sequence of the beginning,
\* so they do not depend on the messages before.
Flush(i) ==
    /\ phase[i] = "block" /\ Idle(i) /\ outbox[i] # << >>
    /\ LET d        == domain[i]
           wanted   == {k \in 1..Len(outbox[i]) : HasTarget(i, outbox[i][k])}
           messages == Committed(i, globalSeq[d], wanted)
       IN /\ ring' = [ring EXCEPT ![d] = Written(@, messages)]
          /\ globalSeq' = [globalSeq EXCEPT ![d] = @ + Len(messages)]
          /\ log' = [log EXCEPT ![d] = @ \o messages]
          /\ dropped' = [dropped EXCEPT ![i] = Counted(i, (1..Len(outbox[i])) \ wanted)]
    /\ outbox' = [outbox EXCEPT ![i] = << >>]
    /\ phase' = [phase EXCEPT ![i] = "between"]
    /\ UNCHANGED << runtimeVars, lastRead, inbox, table, heard, calls >>

-----------------------------------------------------------------------------

\* The messages a domain may have seen before.
History(n, c) ==
    [k \in 1..n |-> [seq |-> k, source |-> None, n |-> k, target |-> None, channel |-> c]]

\* A domain may have been in use: some messages were sent, and sleepers took slots.
Init ==
    \E n \in 0..Earlier, c \in Topics, sleepers \in SUBSET Asleep :
      /\ \E slotOf \in [sleepers -> Slots] :
           /\ \A i, j \in sleepers : slotOf[i] = slotOf[j] => i = j
           /\ table = [d \in Domains |-> [k \in Slots |->
                        IF d = Home /\ \E i \in sleepers : slotOf[i] = k
                        THEN [id |-> CHOOSE i \in sleepers : slotOf[i] = k,
                              last |-> n, subs |-> {}]
                        ELSE Vacant]]
      /\ life = [i \in Instances |-> IF i \in sleepers THEN "attached" ELSE "new"]
      /\ heard = [i \in Instances |-> IF i \in sleepers THEN n ELSE 0]
      /\ log = [d \in Domains |-> IF d = Home THEN History(n, c) ELSE << >>]
      /\ globalSeq = [d \in Domains |-> Len(log[d])]
      /\ ring = [d \in Domains |-> Written([k \in 0..(R - 1) |-> Empty], log[d])]
      /\ domain = [i \in Instances |-> Home]
      /\ subs = [i \in Instances |-> {}]
      /\ unpublished = [i \in Instances |-> FALSE]
      /\ calls = [i \in Instances |-> << >>]
      /\ phase = [i \in Instances |-> "between"]
      /\ lastRead = [i \in Instances |-> 0]
      /\ inbox = [i \in Instances |-> << >>]
      /\ outbox = [i \in Instances |-> << >>]
      /\ dropped = [i \in Instances |-> [k \in Channels |-> 0]]
      /\ posts = [i \in Instances |-> 0]
      /\ moves = 0

Make(i)  == Upsert(i) \/ Remove(i) \/ CollectNothing(i) \/ Collect(i)

Script(i) ==
    \/ \E c \in Channels : Receive(i, c) \/ \E subscribed \in BOOLEAN : Subscribe(i, c, subscribed)
    \/ \E d \in Domains : Join(i, d)
    \/ \E t \in Instances \cup {None}, c \in Channels : Post(i, t, c)

Ends(i) == EndBlock(i) \/ FlushLost(i) \/ Flush(i)

Next ==
    \E i \in Instances :
      \/ Attach(i) \/ Detach(i) \/ Reset(i)
      \/ BeginBlock(i) \/ Script(i) \/ Ends(i) \/ Make(i) \/ Lose(i)

Spec == Init /\ [][Next]_vars

(* A host keeps calling an attached instance's blocks, a thread inside a   *)
(* call finishes it, and who tries the lock again and again gets it: a     *)
(* publication is not lost for ever, nor is a collection.                  *)
BlocksContinue(i) ==
    /\ WF_vars(BeginBlock(i))
    /\ WF_vars(Ends(i))
    /\ WF_vars(Make(i) \/ Lose(i))
    /\ SF_vars(Upsert(i))
    /\ SF_vars(Collect(i))

FairSpec == Spec /\ \A i \in Instances : BlocksContinue(i)

-----------------------------------------------------------------------------
(* Properties.                                                             *)

Messages == [seq : Nat, source : Instances \cup {None}, n : Nat,
             target : Instances \cup {None}, channel : Channels \cup {None}]

\* Every variable keeps its type and no outbox outgrows its limit.
BusTypeOK ==
    /\ life \in [Instances -> {"new", "attached", "gone"}]
    /\ domain \in [Instances -> Domains]
    /\ subs \in [Instances -> SUBSET Channels]
    /\ unpublished \in [Instances -> BOOLEAN]
    /\ calls \in [Instances -> Seq([op : {"upsert", "remove", "collect", "recover"},
                                    domain : Domains])]
    /\ phase \in [Instances -> {"between", "block"}]
    /\ lastRead \in [Instances -> Nat]
    /\ inbox \in [Instances -> Seq(Messages)]
    /\ outbox \in [Instances -> Seq([n : Nat, target : Instances \cup {None}, channel : Channels])]
    /\ \A i \in Instances : Len(outbox[i]) <= Capacity
    /\ dropped \in [Instances -> [Channels -> Nat]]
    /\ posts \in [Instances -> Nat] /\ moves \in Nat
    /\ table \in [Domains -> [Slots -> [id : Instances \cup {None}, last : Nat,
                                        subs : SUBSET Channels]]]
    /\ ring \in [Domains -> [0..(R - 1) -> Messages]]
    /\ globalSeq \in [Domains -> Nat]
    /\ log \in [Domains -> Seq(Messages)]
    /\ heard \in [Instances -> Nat]

\* A receiver's messages are in the order they were committed, each sender's in the
\* order it posted them, and none is behind the cursor that a later block reads from:
\* within a session nothing is delivered twice (docs: "FIFO per sender and channel").
FifoPerSender ==
    \A i \in Instances : \A p, q \in 1..Len(inbox[i]) :
      /\ inbox[i][p].seq <= lastRead[i]
      /\ p < q => inbox[i][p].seq < inbox[i][q].seq
      /\ (p < q /\ inbox[i][p].source = inbox[i][q].source) => inbox[i][p].n < inbox[i][q].n

\* The sum of a function's values: the number of pairs below its graph.
Under(f) == UNION {{x} \X (1..f[x]) : x \in DOMAIN f}
Total(f) == Cardinality(Under(f))

\* What a cursor moves over and the ring still has is in the inbox if it was for the
\* instance.  If the ring had lost some of it, every subscribed channel counts one drop,
\* however many messages were lost and whoever they were for, and otherwise none does:
\* a direct message on a channel that is not subscribed may be lost uncounted.
DeliveredOrCounted(i) ==
    LET d       == domain[i]
        moved   == (lastRead[i] + 1)..lastRead'[i]
        kept(s) == s + R > globalSeq[d]
    IN /\ \A s \in moved :
            kept(s) /\ Targets(log[d][s], i, subs[i]) =>
              \E p \in 1..Len(inbox'[i]) : inbox'[i][p] = log[d][s]
       /\ moved # {} =>
            dropped'[i] =
              [c \in Channels |->
                 dropped[i][c]
                 + (IF c \in subs[i] /\ \E s \in moved : ~kept(s) THEN 1 ELSE 0)]

\* The messages that leave an outbox are as many as are committed or counted.
CommittedOrCounted(i) ==
    Len(outbox[i]) - Len(outbox'[i]) =
      Len(log'[domain[i]]) - Len(log[domain[i]]) + Total(dropped'[i]) - Total(dropped[i])

\* A cursor that moves delivers what the ring still has, and a lag counts one drop on
\* every subscribed channel; what leaves an outbox was committed or counted, one by one.
LossIsCounted ==
    [][ \A i \in Instances :
          /\ DeliveredOrCounted(i)
          /\ Len(outbox'[i]) < Len(outbox[i]) /\ phase[i] = "block" => CommittedOrCounted(i)
      ]_vars

\* An instance has one slot in a domain at most, whoever reclaims stale ones.
OneSlotEach == \A d \in Domains, i \in Instances : Cardinality(PlacesOf(d, i)) <= 1

\* An instance whose record counts as published is found in the table of its domain
\* with its current subscriptions, all of them or as many as a slot has channels for;
\* a slot is taken away only from one that has let Stale messages pass since it last
\* read, and never from one that was registered before the first message.
ProcessingPeerKeepsSlot ==
    \A i \in Instances :
      (life[i] = "attached" /\ ~unpublished[i]) =>
        \/ \E k \in PlacesOf(domain[i], i) : table[domain[i]][k].subs \in Fitting(subs[i])
        \/ heard[i] # 0 /\ globalSeq[domain[i]] > heard[i] + Stale

Reclaimed(i) == life[i] = "attached" /\ ~unpublished[i] /\ PlacesOf(domain[i], i) = {}

\* A registration that was reclaimed while its instance did not process comes back
\* once it does (the test: "Recover a registration reclaimed while the receiver was
\* not processing", and the comment "Retain retries when registration/metadata
\* publication lost the IPC lock").
ReclaimedIsRecovered == \A i \in Instances : Reclaimed(i) ~> ~Reclaimed(i)

=============================================================================

------------------------------ MODULE JsfxTasks ------------------------------
(***************************************************************************)
(* The scheduler of structured background tasks (src/JsfxTasks.h): a       *)
(* fixed array of job slots, worker threads that pick, run and finish      *)
(* jobs, and the operations a program calls from its audio thread (the     *)
(* host) or from a task body that a worker is running.                     *)
(*                                                                         *)
(* mutex serialises the scheduler, but reset(), the queries and a body's   *)
(* checkpoints and failures take no lock.  Each critical section is one    *)
(* step unless a lock-free access can separate two of its reads: submit    *)
(* and join are a check, a store and a last look at the epoch; reset looks *)
(* at a slot and marks it; a query checks the slot, loads the result and   *)
(* looks again.  Within one such step several atomics are read or written: *)
(* a query sees the id and the epoch again at its end, and only the host   *)
(* changes the epoch that a reset compares.                                *)
(*                                                                         *)
(* A body is whatever a program may do: submit, join, cancel, release,     *)
(* poll, fail or return.  It is given an iteration at a time (the code's   *)
(* chunk of 32 is 1).  Values are abstracted: a result is known by the id  *)
(* of the job that wrote it.  Arena jobs, buffers and the destructor are   *)
(* not modelled here.                                                      *)
(***************************************************************************)
EXTENDS Integers, SequencesExt

CONSTANTS
    N,          \* Slots: the number of job slots
    Workers,    \* threads
    Host,       \* the audio thread
    Counts,     \* iteration counts a submission may ask for
    Widths,     \* numbers of handles a join may name
    Calls,      \* which of the operations a run explores
    MaxSerial,  \* bound on the ids handed out
    MaxEpoch    \* bound on the epoch: MaxEpoch - 1 resets

ASSUME NAssumption == N \in Nat \ {0}
ASSUME ActorsAssumption ==
    IsFiniteSet(Workers) /\ Host \notin Workers /\ "free" \notin Workers \cup {Host}
ASSUME BoundsAreNaturals == MaxSerial \in Nat /\ MaxEpoch \in Nat \ {0}
ASSUME CountsAreNaturals == Counts \subseteq Nat /\ Widths \subseteq 1..N
ASSUME CallsAreOperations ==
    Calls \subseteq {"submit", "join", "cancel", "release", "query", "fail"}

None == 0
Free == "free"

Slots  == 1..N
Actors == Workers \cup {Host}
Ids    == 1..MaxSerial

VARIABLES
    jobs,     \* the slots
    mutex,    \* holder of mutex, or Free
    serial,   \* serial
    epoch,    \* epoch
    cursor,   \* where the next scan starts
    fresh,    \* of each worker: workGeneration differs from what it observed
    pc,       \* where each actor is
    current,  \* currentJob of each actor: a slot, or None
    args,     \* the slots a submission or join in progress names
    asked,    \* the iteration count of a submission in progress, -1 for a join
    walk,     \* the slot reset looks at
    query     \* the host's query in progress

vars == << jobs, mutex, serial, epoch, cursor, fresh, pc, current, args, asked, walk, query >>
callVars == << args, asked >>

NoQuery == [handle |-> None, slot |-> None, generation |-> 0, result |-> None]

Vacant ==
    [ id |-> None, epoch |-> 0, parent |-> None, dependencies |-> << >>, count |-> 0,
      next |-> 0, completed |-> 0, executing |-> 0, children |-> 0, refs |-> 0,
      released |-> FALSE, bodyDone |-> FALSE, cancel |-> FALSE, failed |-> FALSE,
      status |-> "none", result |-> None ]

Terminal(j) == j.status \in {"succeeded", "cancelled", "failed"}
Open(j)     == j.id # None /\ ~Terminal(j)

Find(js, id)   == IF id = None THEN {} ELSE {s \in Slots : js[s].id = id}
IsAt(js, id)   == Find(js, id) # {}
Slot(js, id)   == CHOOSE s \in Find(js, id) : TRUE

\* A slot and those of its ancestors (owner, parent), as far as they are found.
Lineage(js, s) ==
    LET up[n \in 0..(N - 1)] ==
            IF n = 0 THEN {s}
            ELSE LET below == up[n - 1]
                 IN below \cup UNION {Find(js, js[t].parent) : t \in below}
    IN up[N - 1]

Cancelled(js, s) == \E t \in Lineage(js, s) : js[t].cancel

\* Mutant: a child's slot is free as soon as the child has ended.
CollectableChild(j) ==
    j.id # None /\ Terminal(j) /\ ((j.released /\ j.refs = 0) \/ j.parent # None)

\* collect: the slots of released, terminal, unreferenced jobs become free.  The
\* other fields of a free slot are written before its id is, so nothing is lost
\* by forgetting them here.
Collectable(j) == j.id # None /\ Terminal(j) /\ j.released /\ j.refs = 0

Collect(js) == [s \in Slots |-> IF Collectable(js[s]) THEN Vacant ELSE js[s]]

-----------------------------------------------------------------------------
(* finish: a job whose body, iterations and children are done terminates,  *)
(* lets go of its dependencies and children, and may complete its parent.  *)

\* Mutant: a job does not wait for its children.
FinishableEarly(j) == Open(j) /\ j.bodyDone /\ j.executing = 0

Finishable(j) == Open(j) /\ j.bodyDone /\ j.executing = 0 /\ j.children = 0

FinalStatus(j) == IF j.failed THEN "failed" ELSE IF j.cancel THEN "cancelled" ELSE "succeeded"

Occurrences(seq, x) == Cardinality({i \in DOMAIN seq : seq[i] = x})

IsChild(k, j) == k.id # None /\ k.parent = j.id
IsOwner(k, j) == k.id # None /\ k.id = j.parent

Bit(b) == IF b THEN 1 ELSE 0

\* Mutant: dependencies are not let go of.
ReferencesToKin(k, j) == Bit(IsChild(k, j)) + Bit(IsOwner(k, j))

\* What the end of j takes off the refs of k.
ReferencesTo(k, j) ==
    Bit(IsChild(k, j)) + Bit(IsOwner(k, j))
    + (IF k.id = None THEN 0 ELSE Occurrences(j.dependencies, k.id))

\* Mutant: only a success is counted off the parent's children.
ChildrenWithoutSuccess(k, j) ==
    k.children - Bit(IsOwner(k, j) /\ FinalStatus(j) = "succeeded")

ChildrenWithout(k, j) == k.children - Bit(IsOwner(k, j))

\* Mutant: a parent whose body has returned no longer hears of its children.
BlamedWhileRunning(k, j) == IsOwner(k, j) /\ FinalStatus(j) # "succeeded" /\ ~k.bodyDone

Blamed(k, j) == IsOwner(k, j) /\ FinalStatus(j) # "succeeded"

\* One level of finish: slot s terminates in js.
Terminate(js, s) ==
    LET j == js[s] IN
    [t \in Slots |->
       IF t = s THEN [j EXCEPT !.status = FinalStatus(j)]
       ELSE [js[t] EXCEPT !.refs = @ - ReferencesTo(js[t], j),
                          !.children = ChildrenWithout(js[t], j),
                          !.released = @ \/ IsChild(js[t], j),
                          !.cancel = @ \/ Blamed(js[t], j),
                          !.failed = @ \/ (Blamed(js[t], j) /\ j.failed)]]

\* The recursion finish(*parent) climbs the ancestors of s, at most N of them.
FinishLevel(acc) ==
    IF acc.at = {} THEN acc
    ELSE LET s == CHOOSE s \in acc.at : TRUE IN
         IF ~Finishable(acc.jobs[s]) THEN [acc EXCEPT !.at = {}]
         ELSE [jobs |-> Terminate(acc.jobs, s), at |-> Find(acc.jobs, acc.jobs[s].parent)]

Finish(js, s) ==
    LET climb[n \in 0..N] ==
            IF n = 0 THEN [jobs |-> js, at |-> {s}] ELSE FinishLevel(climb[n - 1])
    IN climb[N].jobs

\* Every finish signals, and so wakes both workers.
Wakes(js, after) == \E s \in Slots : ~Terminal(js[s]) /\ Terminal(after[s])

Signal == fresh' = [w \in Workers |-> TRUE]

SignalIf(cond) == fresh' = [w \in Workers |-> fresh[w] \/ cond]

-----------------------------------------------------------------------------
(* The worker's scan: every slot from cursor on, until one can be run.     *)

\* Mutant: a dependency is met by any end.
MetByAnyEnd(js, id) == id = None \/ \E t \in Find(js, id) : Terminal(js[t])

\* ready: the dependencies are looked at in order, up to the first unmet one.
Met(js, id) == id = None \/ \E t \in Find(js, id) : js[t].status = "succeeded"

Unmet(js, j) == {i \in DOMAIN j.dependencies : ~Met(js, j.dependencies[i])}

Blocker(js, j) ==
    LET id == j.dependencies[Min(Unmet(js, j))]
    IN IF IsAt(js, id) THEN js[Slot(js, id)].status ELSE "failed"

Close(js, s, cancel, failed) ==
    Finish([js EXCEPT ![s].bodyDone = TRUE,
                      ![s].cancel = @ \/ cancel, ![s].failed = @ \/ failed], s)

Visit(js, s) ==
    LET j == js[s] IN
    IF Cancelled(js, s) THEN Close(js, s, TRUE, FALSE)
    ELSE IF Unmet(js, j) # {}
      THEN IF Blocker(js, j) \in {"cancelled", "failed"}
             THEN Close(js, s, TRUE, Blocker(js, j) = "failed") ELSE js
    ELSE IF j.count = 0 THEN Close(js, s, FALSE, FALSE) ELSE js

Runnable(js, s) ==
    LET j == js[s] IN
    /\ Open(j) /\ ~Cancelled(js, s) /\ Unmet(js, j) = {} /\ j.next < j.count

ScanSlot(acc, s) ==
    IF acc.picked # None \/ ~Open(acc.jobs[s]) THEN acc
    ELSE IF Runnable(acc.jobs, s)
           THEN [jobs |-> [acc.jobs EXCEPT ![s].next = @ + 1, ![s].executing = @ + 1,
                                           ![s].status = "running"],
                 picked |-> s]
           ELSE [acc EXCEPT !.jobs = Visit(acc.jobs, s)]

Scanned ==
    LET scan[k \in 0..N] ==
            IF k = 0 THEN [jobs |-> jobs, picked |-> None]
            ELSE ScanSlot(scan[k - 1], ((cursor + k - 2) % N) + 1)
    IN scan[N]

-----------------------------------------------------------------------------
(* The worker's loop.                                                      *)

Goto(a, from, to) == pc[a] = from /\ pc' = [pc EXCEPT ![a] = to]

\* workGeneration is loaded before the scan; a parked worker wakes when it has
\* changed since.
Observe(w) ==
    /\ pc[w] = "idle" \/ (pc[w] = "park" /\ fresh[w])
    /\ pc' = [pc EXCEPT ![w] = "scan"]
    /\ fresh' = [fresh EXCEPT ![w] = FALSE]
    /\ UNCHANGED << jobs, mutex, serial, epoch, cursor, current, callVars, walk, query >>

ScanPick(w) ==
    /\ Goto(w, "scan", "body")
    /\ mutex = Free
    /\ LET scan == Scanned IN
       /\ scan.picked # None
       /\ jobs' = scan.jobs
       /\ current' = [current EXCEPT ![w] = scan.picked]
       /\ cursor' = (scan.picked % N) + 1
    /\ SignalIf(Wakes(jobs, jobs'))
    /\ UNCHANGED << mutex, serial, epoch, callVars, walk, query >>

\* Mutant: the generation is observed after the scan, just before the wait.
ScanNothingThenObserve(w) ==
    /\ mutex = Free
    /\ \/ /\ Goto(w, "scan", "park")
          /\ LET scan == Scanned IN scan.picked = None /\ jobs' = scan.jobs
          /\ SignalIf(Wakes(jobs, jobs'))
       \/ /\ pc[w] = "park" /\ fresh[w]
          /\ fresh' = [fresh EXCEPT ![w] = FALSE]
          /\ UNCHANGED << jobs, pc >>
    /\ UNCHANGED << mutex, serial, epoch, cursor, current, callVars, walk, query >>

ScanNothing(w) ==
    /\ Goto(w, "scan", "park")
    /\ mutex = Free
    /\ LET scan == Scanned IN scan.picked = None /\ jobs' = scan.jobs
    /\ SignalIf(Wakes(jobs, jobs'))
    /\ UNCHANGED << mutex, serial, epoch, cursor, current, callVars, walk, query >>

Completed(js, s) ==
    LET ended == js[s].completed + 1 = js[s].count \/ js[s].cancel
        body  == [js EXCEPT ![s].executing = @ - 1, ![s].completed = @ + 1,
                            ![s].bodyDone = @ \/ ended]
    IN Finish(body, s)

\* The body has returned, or was skipped because the job had been cancelled.
Complete(w) ==
    /\ pc[w] \in {"body", "thrown"} /\ pc' = [pc EXCEPT ![w] = "idle"]
    /\ mutex = Free
    /\ jobs' = Collect(Completed(jobs, current[w]))
    /\ SignalIf(Wakes(jobs, Completed(jobs, current[w])))
    /\ current' = [current EXCEPT ![w] = None]
    /\ UNCHANGED << mutex, serial, epoch, cursor, callVars, walk, query >>

-----------------------------------------------------------------------------
(* What a body does by itself.                                             *)

\* The exception ends the body.
BodyThrow(w) ==
    /\ Goto(w, "body", "thrown")
    /\ jobs' = [jobs EXCEPT ![current[w]].failed = TRUE, ![current[w]].cancel = TRUE]
    /\ UNCHANGED << mutex, serial, epoch, cursor, fresh, current, callVars, walk, query >>

Checkpoint(w) ==
    /\ pc[w] = "body"
    /\ Cancelled(jobs, current[w])
    /\ jobs' = [jobs EXCEPT ![current[w]].cancel = TRUE]
    /\ UNCHANGED << mutex, serial, epoch, cursor, fresh, pc, current, callVars, walk, query >>

\* reject: a refused operation fails the body that asked, unless it is cancelled.
Rejected(js, a) ==
    IF current[a] = None THEN js
    ELSE [js EXCEPT ![current[a]].failed = @ \/ ~Cancelled(js, current[a]),
                    ![current[a]].cancel = TRUE]

\* A bad argument, or a result read that is not there.
BodyReject(w) ==
    /\ pc[w] = "body"
    /\ jobs' = Rejected(jobs, w)
    /\ UNCHANGED << mutex, serial, epoch, cursor, fresh, pc, current, callVars, walk, query >>

-----------------------------------------------------------------------------
(* submit and join (api 6), by the host or from a body.                    *)

\* The handles an actor can have got hold of: the host any that was issued, a
\* body those older than its own job and those of its descendants, never those
\* of its own ancestors.
Names(a) ==
    IF a = Host THEN 1..serial
    ELSE LET own == Lineage(jobs, current[a])
         IN {h \in 1..serial : \/ h < jobs[current[a]].id
                               \/ \E t \in Find(jobs, h) : current[a] \in Lineage(jobs, t)}
            \ {jobs[t].id : t \in own}

AtCall(a) == pc[a] = IF a = Host THEN "ready" ELSE "body"
Return(a) == pc' = [pc EXCEPT ![a] = IF a = Host THEN "ready" ELSE "body"]

Usable(js, h) == \E s \in Find(js, h) : ~js[s].released /\ js[s].epoch = epoch

SubmitAllowed(js, a, h) ==
    /\ current[a] # None => ~js[current[a]].cancel /\ js[current[a]].epoch = epoch
    /\ h # None => Usable(js, h) /\ js[Slot(js, h)].status \notin {"cancelled", "failed"}

Vacancies(js) == {s \in Slots : js[s].id = None}

SubmitCheck(a, h, n) ==
    /\ AtCall(a) /\ mutex = Free
    /\ serial < MaxSerial
    /\ LET js == Collect(jobs) IN
       IF ~SubmitAllowed(js, a, h)
         THEN /\ jobs' = Rejected(js, a)
              /\ UNCHANGED << mutex, pc, callVars >>
       ELSE IF Vacancies(js) = {}
         THEN /\ jobs' = IF current[a] = None THEN js
                         ELSE [js EXCEPT ![current[a]].failed = TRUE,
                                         ![current[a]].cancel = TRUE]
              /\ UNCHANGED << mutex, pc, callVars >>
       ELSE /\ jobs' = js
            /\ mutex' = a
            /\ pc' = [pc EXCEPT ![a] = "stamp"]
            /\ asked' = [asked EXCEPT ![a] = n]
            /\ args' = [args EXCEPT ![a] = IF h = None THEN << >> ELSE << Slot(js, h) >>]
    /\ UNCHANGED << serial, epoch, cursor, fresh, current, walk, query >>

JoinCheck(a, hs) ==
    /\ AtCall(a) /\ mutex = Free
    /\ serial < MaxSerial
    /\ IF \E i \in DOMAIN hs : ~Usable(jobs, hs[i])
         THEN /\ jobs' = Rejected(jobs, a)
              /\ UNCHANGED << mutex, pc, callVars >>
         ELSE /\ mutex' = a
              /\ pc' = [pc EXCEPT ![a] = "join"]
              /\ args' = [args EXCEPT ![a] = [i \in DOMAIN hs |-> Slot(jobs, hs[i])]]
              /\ UNCHANGED << jobs, asked >>
    /\ UNCHANGED << serial, epoch, cursor, fresh, current, walk, query >>

\* Mutant: the parent is not referenced by its child.
StampedUnowned(js, a, target, n) ==
    LET p    == current[a]
        new  == [Vacant EXCEPT !.epoch = epoch, !.status = "pending", !.count = n,
                               !.result = serial + 1,
                               !.parent = IF p = None THEN None ELSE js[p].id,
                               !.refs = IF p = None THEN 0 ELSE 1]
        base == [js EXCEPT ![target] = new]
        deps == [i \in DOMAIN args[a] |-> base[args[a][i]].id]
    IN [s \in Slots |->
          [base[s] EXCEPT !.dependencies = IF s = target THEN deps ELSE @,
                          !.children = @ + Bit(s = p),
                          !.refs = @ + Occurrences(args[a], s)]]

\* The new job's fields, everything but its id; its parent and dependencies
\* (by slot, as the code holds them) count it.
Stamped(js, a, target, n) ==
    LET p    == current[a]
        new  == [Vacant EXCEPT !.epoch = epoch, !.status = "pending", !.count = n,
                               !.result = serial + 1,
                               !.parent = IF p = None THEN None ELSE js[p].id,
                               !.refs = IF p = None THEN 0 ELSE 1]
        base == [js EXCEPT ![target] = new]
        deps == [i \in DOMAIN args[a] |-> base[args[a][i]].id]
    IN [s \in Slots |->
          [base[s] EXCEPT !.dependencies = IF s = target THEN deps ELSE @,
                          !.children = @ + Bit(s = p),
                          !.refs = @ + Bit(s = p) + Occurrences(args[a], s)]]

SubmitStamp(a) ==
    /\ Goto(a, "stamp", "publish")
    /\ LET target == Min(Vacancies(jobs)) IN
       /\ jobs' = Stamped(jobs, a, target, asked[a])
       /\ args' = [args EXCEPT ![a] = << target >>]
    /\ serial' = serial + 1
    /\ UNCHANGED << mutex, epoch, cursor, fresh, current, asked, walk, query >>

JoinStamp(a) ==
    /\ LET js == Collect(jobs) IN
       IF Vacancies(js) = {}
         THEN /\ pc[a] = "join" /\ Return(a)
              /\ jobs' = Rejected(js, a)
              /\ mutex' = Free
              /\ args' = [args EXCEPT ![a] = << >>]
              /\ UNCHANGED << serial, asked >>
         ELSE /\ Goto(a, "join", "publish")
              /\ jobs' = Stamped(js, a, Min(Vacancies(js)), 0)
              /\ args' = [args EXCEPT ![a] = << Min(Vacancies(js)) >>]
              /\ asked' = [asked EXCEPT ![a] = -1]
              /\ serial' = serial + 1
              /\ UNCHANGED mutex
    /\ UNCHANGED << epoch, cursor, fresh, current, walk, query >>

\* Mutant: publication wakes nobody.
PublishSilently(a) ==
    /\ Goto(a, "publish", "recheck")
    /\ jobs' = [jobs EXCEPT ![args[a][1]].id = serial]
    /\ UNCHANGED << mutex, serial, epoch, cursor, fresh, current, callVars, walk, query >>

Publish(a) ==
    /\ Goto(a, "publish", "recheck")
    /\ jobs' = [jobs EXCEPT ![args[a][1]].id = serial]
    /\ Signal
    /\ UNCHANGED << mutex, serial, epoch, cursor, current, callVars, walk, query >>

\* Mutant: the epoch is not looked at again.
RecheckNothing(a) ==
    /\ pc[a] = "recheck" /\ Return(a)
    /\ mutex' = Free
    /\ args' = [args EXCEPT ![a] = << >>]
    /\ asked' = [asked EXCEPT ![a] = 0]
    /\ UNCHANGED << jobs, serial, epoch, cursor, fresh, current, walk, query >>

\* A reset since the epoch was read makes the new job stale.
Recheck(a) ==
    /\ pc[a] = "recheck" /\ Return(a)
    /\ mutex' = Free
    /\ LET s     == args[a][1]
           stale == jobs[s].epoch # epoch
           js    == [jobs EXCEPT ![s].cancel = @ \/ stale, ![s].released = @ \/ stale]
       IN jobs' = IF stale /\ asked[a] = -1 THEN Rejected(js, a) ELSE js
    /\ args' = [args EXCEPT ![a] = << >>]
    /\ asked' = [asked EXCEPT ![a] = 0]
    /\ UNCHANGED << serial, epoch, cursor, fresh, current, walk, query >>

-----------------------------------------------------------------------------
(* cancel (api 3) and release (api 4), by the host or from a body.         *)

Addressed(a, h) ==
    {s \in Find(jobs, h) : jobs[s].epoch = epoch /\ (jobs[s].released => a # Host)}

Cancel(a, h) ==
    /\ AtCall(a) /\ mutex = Free
    /\ \E s \in Addressed(a, h) :
         jobs' = [t \in Slots |-> IF jobs[t].id # None /\ s \in Lineage(jobs, t)
                                    THEN [jobs[t] EXCEPT !.cancel = TRUE] ELSE jobs[t]]
    /\ Signal
    /\ UNCHANGED << mutex, serial, epoch, cursor, pc, current, callVars, walk, query >>

Release(a, h) ==
    /\ AtCall(a) /\ mutex = Free
    /\ \E s \in Addressed(a, h) : jobs' = Collect([jobs EXCEPT ![s].released = TRUE])
    /\ Signal
    /\ UNCHANGED << mutex, serial, epoch, cursor, pc, current, callVars, walk, query >>

-----------------------------------------------------------------------------
(* reset, by the host without the lock.                                    *)

ResetBegin ==
    /\ Goto(Host, "ready", "look")
    /\ epoch < MaxEpoch /\ epoch' = epoch + 1
    /\ walk' = 1
    /\ UNCHANGED << jobs, mutex, serial, cursor, fresh, current, callVars, query >>

ResetPass ==
    /\ pc[Host] = "look" /\ walk \in Slots
    /\ jobs[walk].id = None \/ jobs[walk].epoch = epoch
    /\ walk' = walk + 1
    /\ UNCHANGED << jobs, mutex, serial, epoch, cursor, fresh, pc, current, callVars, query >>

ResetLook ==
    /\ Goto(Host, "look", "mark") /\ walk \in Slots
    /\ jobs[walk].id # None /\ jobs[walk].epoch < epoch
    /\ UNCHANGED << jobs, mutex, serial, epoch, cursor, fresh, current, callVars, walk, query >>

ResetMark ==
    /\ Goto(Host, "mark", "look")
    /\ jobs' = [jobs EXCEPT ![walk].cancel = TRUE, ![walk].released = TRUE]
    /\ walk' = walk + 1
    /\ UNCHANGED << mutex, serial, epoch, cursor, fresh, current, callVars, query >>

ResetEnd ==
    /\ Goto(Host, "look", "ready")
    /\ walk = N + 1 /\ walk' = 1
    /\ Signal
    /\ UNCHANGED << jobs, mutex, serial, epoch, cursor, current, callVars, query >>

-----------------------------------------------------------------------------
(* task_result (api 2), by the host without the lock.                       *)

QueryFind(h) ==
    /\ Goto(Host, "ready", "found")
    /\ \E s \in Find(jobs, h) :
         query' = [NoQuery EXCEPT !.handle = h, !.slot = s]
    /\ UNCHANGED << jobs, mutex, serial, epoch, cursor, fresh, current, callVars, walk >>

QueryInvalid ==
    /\ Goto(Host, "found", "ready")
    /\ \/ jobs[query.slot].epoch # epoch
       \/ jobs[query.slot].released
       \/ jobs[query.slot].status # "succeeded"
    /\ query' = NoQuery
    /\ UNCHANGED << jobs, mutex, serial, epoch, cursor, fresh, current, callVars, walk >>

QueryCheck ==
    /\ Goto(Host, "found", "checked")
    /\ jobs[query.slot].epoch = epoch /\ ~jobs[query.slot].released
    /\ jobs[query.slot].status = "succeeded"
    /\ query' = [query EXCEPT !.generation = epoch]
    /\ UNCHANGED << jobs, mutex, serial, epoch, cursor, fresh, current, callVars, walk >>

QueryResult ==
    /\ Goto(Host, "checked", "verify")
    /\ query' = [query EXCEPT !.result = jobs[query.slot].result]
    /\ UNCHANGED << jobs, mutex, serial, epoch, cursor, fresh, current, callVars, walk >>

\* Mutant: the id is not looked at again.
AnsweredByEpoch ==
    /\ jobs[query.slot].epoch = query.generation /\ epoch = query.generation

\* The answer is given only if the slot still is that of the handle.
Answered ==
    /\ jobs[query.slot].id = query.handle
    /\ jobs[query.slot].epoch = query.generation /\ epoch = query.generation

QueryEnd ==
    /\ Goto(Host, "verify", "ready")
    /\ query' = NoQuery
    /\ UNCHANGED << jobs, mutex, serial, epoch, cursor, fresh, current, callVars, walk >>

-----------------------------------------------------------------------------
Init ==
    /\ jobs = [s \in Slots |-> Vacant]
    /\ mutex = Free /\ serial = 0 /\ epoch = 1 /\ cursor = 1
    /\ fresh = [w \in Workers |-> TRUE]
    /\ pc = [a \in Actors |-> IF a = Host THEN "ready" ELSE "idle"]
    /\ current = [a \in Actors |-> None]
    /\ args = [a \in Actors |-> << >>]
    /\ asked = [a \in Actors |-> 0]
    /\ walk = 1
    /\ query = NoQuery

Handles(n, S) == [1..n -> S]

Call(a) ==
    \/ "submit" \in Calls /\ \E h \in Names(a) \cup {None}, n \in Counts : SubmitCheck(a, h, n)
    \/ "join" \in Calls /\ \E n \in Widths : \E hs \in Handles(n, Names(a)) : JoinCheck(a, hs)
    \/ "cancel" \in Calls /\ \E h \in Names(a) : Cancel(a, h)
    \/ "release" \in Calls /\ \E h \in Names(a) : Release(a, h)

Continue(a) == SubmitStamp(a) \/ JoinStamp(a) \/ Publish(a) \/ Recheck(a)

Body(w) ==
    \/ Checkpoint(w)
    \/ "fail" \in Calls /\ (BodyReject(w) \/ BodyThrow(w))

Loop(w) == Observe(w) \/ ScanPick(w) \/ ScanNothing(w) \/ Complete(w)

Reset == ResetPass \/ ResetLook \/ ResetMark \/ ResetEnd

Query == QueryInvalid \/ QueryCheck \/ QueryResult \/ QueryEnd

HostNext ==
    \/ ResetBegin \/ Reset
    \/ "query" \in Calls /\ \E h \in Names(Host) : QueryFind(h)
    \/ Query
    \/ Call(Host) \/ Continue(Host)

WorkerNext(w) ==
    \/ Loop(w) \/ Continue(w)
    \/ pc[w] = "body" /\ (Call(w) \/ Body(w))

Next == HostNext \/ \E w \in Workers : WorkerNext(w)

Spec == Init /\ [][Next]_vars

\* ENABLED Loop(w), ENABLED Continue(a) and ENABLED (Reset \/ Query), spelt out so
\* that TLC need not search for a successor to decide them.
CanLoop(w) ==
    \/ pc[w] = "idle"
    \/ pc[w] = "park" /\ fresh[w]
    \/ pc[w] \in {"scan", "body", "thrown"} /\ mutex = Free

MidCall(a) == pc[a] \in {"stamp", "join", "publish", "recheck"}

MidScan == pc[Host] \in {"look", "mark", "found", "checked", "verify"}

\* The operating system runs the workers, mutex is granted to a worker that
\* keeps asking for it and bodies return (strong fairness of Loop, of which the
\* body's return is a step); whoever has begun a call finishes it (weak fairness).
Fairness ==
    /\ \A w \in Workers : []<>CanLoop(w) => []<><<Loop(w)>>_vars
    /\ \A a \in Actors : <>[]MidCall(a) => []<><<Continue(a)>>_vars
    /\ <>[]MidScan => []<><<Reset \/ Query>>_vars

FairSpec == Spec /\ Fairness

-----------------------------------------------------------------------------
Statuses == {"none", "pending", "running", "succeeded", "cancelled", "failed"}

JobOK(j) ==
    /\ DOMAIN j = DOMAIN Vacant
    /\ j.id \in {None} \cup Ids /\ j.parent \in {None} \cup Ids
    /\ j.epoch \in 0..MaxEpoch /\ j.result \in {None} \cup Ids
    /\ ToSet(j.dependencies) \subseteq {None} \cup Ids
    /\ j.count \in Counts \cup {0}
    /\ j.next \in 0..j.count /\ j.completed \in 0..j.next /\ j.executing \in 0..j.next
    /\ j.children \in Nat /\ j.refs \in Nat
    /\ {j.released, j.bodyDone, j.cancel, j.failed} \subseteq BOOLEAN
    /\ j.status \in Statuses

TasksTypeOK ==
    /\ DOMAIN jobs = Slots /\ \A s \in Slots : JobOK(jobs[s])
    /\ mutex \in Actors \cup {Free}
    /\ serial \in 0..MaxSerial /\ epoch \in 1..MaxEpoch /\ cursor \in Slots
    /\ fresh \in [Workers -> BOOLEAN]
    /\ pc \in [Actors -> {"ready", "look", "mark", "found", "checked", "verify", "idle",
                          "scan", "park", "body", "thrown", "stamp", "join", "publish", "recheck"}]
    /\ current \in [Actors -> Slots \cup {None}]
    /\ \A a \in Actors : ToSet(args[a]) \subseteq Slots
    /\ asked \in [Actors -> Counts \cup {-1, 0}]
    /\ walk \in 1..(N + 1)
    /\ query.slot \in Slots \cup {None} /\ query.result \in {None} \cup Ids

Live == {s \in Slots : jobs[s].id # None}

Children(id) == {s \in Live : jobs[s].parent = id /\ ~Terminal(jobs[s])}

\* refs and children are exactly what still needs the job: its children that
\* have not terminated, the jobs waiting for it, and its own parent until that
\* terminates.  Too few would free a slot somebody points at; too many keep a
\* slot for ever.
CountsExact ==
    mutex = Free =>
        \A s \in Live :
            LET j == jobs[s]
                waiting == {w \in Live \X (1..N) :
                              /\ ~Terminal(jobs[w[1]]) /\ w[2] \in DOMAIN jobs[w[1]].dependencies
                              /\ jobs[w[1]].dependencies[w[2]] = j.id}
                owned == {t \in Find(jobs, j.parent) : ~Terminal(jobs[t])}
            IN /\ j.children = Cardinality(Children(j.id))
               /\ j.refs = j.children + Cardinality(waiting) + Cardinality(owned)

\* "Releasing a completed root task frees its slot once dependencies release
\* their references": no terminal job is referenced when nothing is left that
\* could let go of it.
NothingLeaks ==
    (mutex = Free /\ \A s \in Live : Terminal(jobs[s])) => \A s \in Live : jobs[s].refs = 0

\* "A parent's completion includes all descendants": a terminal job has no child
\* that has not terminated, and a job that has not terminated finds its parent
\* (the owner its cancellation test follows) in its slot.
TreeComplete ==
    \A s \in Live :
        /\ Terminal(jobs[s]) => Children(jobs[s].id) = {}
        /\ Open(jobs[s]) /\ jobs[s].parent # None => IsAt(jobs, jobs[s].parent)

\* No iteration of a job runs before everything it depends on has succeeded, and
\* what it depends on keeps its slot, whoever released it, until the job ends.
DependenciesHold ==
    \A s \in Live : Open(jobs[s]) =>
        \A id \in ToSet(jobs[s].dependencies) \ {None} :
            /\ IsAt(jobs, id)
            /\ jobs[s].executing > 0 => jobs[Slot(jobs, id)].status = "succeeded"

\* A job never succeeds over a child that failed or was cancelled, in whatever
\* order the tree completes.
FailureReachesParent ==
    \A s \in Live : jobs[s].status = "succeeded" =>
        \A t \in Live : jobs[t].parent = jobs[s].id => jobs[t].status = "succeeded"

\* An open job that waits for another open one: for its children, or for what it depends on.
Held(s) ==
    \/ jobs[s].children > 0
    \/ \E id \in ToSet(jobs[s].dependencies) \ {None} : \E t \in Find(jobs, id) : Open(jobs[t])

\* With every worker parked and no signal on its way there is nothing to do: a
\* submission, completion or cancellation between a scan and the wait is noticed.
\* Open jobs that are left wait for each other in a circle, which takes a body that
\* knows the handle of a job newer than its own.
NoLostWakeup ==
    (\A w \in Workers : pc[w] = "park" /\ ~fresh[w]) =>
        \A s \in Live : Open(jobs[s]) => Held(s)

\* The job that created the one in slot s ends in this step.
ParentEnds(s) ==
    \E p \in Slots : Open(jobs[p]) /\ jobs[p].id = jobs[s].parent /\ ~Open(jobs'[p])

\* A terminal job keeps its status and result as long as its handle names it, and
\* loses its slot only in the step that releases the handle or later, or, for a child,
\* in the step in which its parent ends: the end of a parent releases its children,
\* and nothing else gives the slot of a job away.
FinalIsKept ==
    [][\A s \in Live : Terminal(jobs[s]) =>
         IF jobs'[s].id = jobs[s].id
           THEN jobs'[s].status = jobs[s].status /\ jobs'[s].result = jobs[s].result
           ELSE jobs[s].released \/ ParentEnds(s)
                \/ \E a \in Actors : Release(a, jobs[s].id)]_vars

\* A query answers with the result of the job its handle names, never with that
\* of another job that took over the slot while the query was reading it.
QueryHonest == pc[Host] = "verify" /\ Answered => query.result = query.handle

\* When reset has returned, no job of an older epoch goes on unnoticed: each is
\* cancelled and released, however its submission interleaved with the reset.
ResetReachesAll ==
    mutex = Free /\ pc[Host] = "ready" =>
        \A s \in Live : jobs[s].epoch < epoch => jobs[s].cancel /\ jobs[s].released

\* Every job that was accepted ends, given that bodies return.
EveryTaskEnds == \A id \in Ids : IsAt(jobs, id) ~> ~\E s \in Find(jobs, id) : Open(jobs[s])
=============================================================================

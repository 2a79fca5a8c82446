--------------------------- MODULE BankPublication ---------------------------
(***************************************************************************)
(* What the sample pool's storage promises its clients, free of locks,     *)
(* counters and critical sections: whole immutable banks replace one       *)
(* another in the order of their requests, the newest finished bank is     *)
(* installed or stays staged until a newer one replaces it, a reader sees  *)
(* one bank until it looks again, and no bank that is audible, staged or   *)
(* in view is ever freed.                                                  *)
(***************************************************************************)
EXTENDS Integers

CONSTANTS Readers, Requests

VARIABLES
    bank,    \* the audible bank, 0 before the first
    staged,  \* the newest finished bank, while it is not the audible one, or 0
    alive,   \* the banks whose memory exists
    view     \* what each reader has in view, 0 for nothing

bankVars == << bank, staged, alive, view >>

NoBank == 0

Init ==
    /\ bank = NoBank /\ staged = NoBank
    /\ alive = {}
    /\ view = [r \in Readers |-> NoBank]

\* A finished bank is staged: it is newer than every bank before it.
Stage(b) ==
    /\ b > bank /\ b > staged
    /\ alive' = alive \cup {b}
    /\ staged' = b
    /\ UNCHANGED << bank, view >>

\* The staged bank becomes audible; at most the installing reader moves to it.
Install ==
    /\ staged # NoBank
    /\ bank' = staged
    /\ staged' = NoBank
    /\ \/ view' = view
       \/ \E r \in Readers : view' = [view EXCEPT ![r] = staged]
    /\ UNCHANGED alive

\* A reader looks at the audible bank, or inherits what another has in view.
Look(r) ==
    /\ \/ view' = [view EXCEPT ![r] = bank]
       \/ \E q \in Readers : view' = [view EXCEPT ![r] = view[q]]
    /\ UNCHANGED << bank, staged, alive >>

LookAway(r) ==
    /\ view' = [view EXCEPT ![r] = NoBank]
    /\ UNCHANGED << bank, staged, alive >>

\* Memory is freed only when nobody can see it, now or after an installation.
Retire(dead) ==
    /\ bank \notin dead /\ staged \notin dead
    /\ \A r \in Readers : view[r] \notin dead
    /\ alive' = alive \ dead
    /\ UNCHANGED << bank, staged, view >>

Next ==
    \/ \E b \in Requests : Stage(b)
    \/ Install
    \/ \E r \in Readers : Look(r) \/ LookAway(r)
    \/ \E dead \in SUBSET alive : Retire(dead)

Spec == Init /\ [][Next]_bankVars
=============================================================================

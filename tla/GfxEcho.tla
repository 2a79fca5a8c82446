------------------------------- MODULE GfxEcho -------------------------------
(***************************************************************************)
(* What the script that draws sees of its own edits.  It works on a copy   *)
(* of the variables, refreshed from every snapshot; an edit goes through   *)
(* the ring to the audio thread and comes back in a snapshot.              *)
(* renderWorkerFrame holds the refresh back until a newer snapshot than    *)
(* the one the editing frame has read.                                     *)
(*                                                                         *)
(* A copy of the variables is the newest edit in it.                       *)
(***************************************************************************)
EXTENDS GfxWorker

VARIABLES
    vm,         \* the worker's copy
    preserve,   \* preserveVmStateSnapshotSequence, -1 when the flag is clear
    holds       \* the copy in each snapshot

echoVars == << vm, preserve, holds >>

EchoInit ==
    /\ GfxInit
    /\ vm = 0
    /\ preserve = -1
    /\ holds = [s \in Slots |-> 0]

\* The newest edit in the audio thread's variables.
Script == IF applied = << >> THEN 0 ELSE Last(applied)

\* A snapshot of another sequence ends the wait.
Waits == preserve = content[idx[Worker]]

\* The copy is refreshed unless the script waits or a button has changed.
EchoTakeInput ==
    /\ TakeInput
    /\ preserve' = IF Waits THEN preserve ELSE -1
    /\ vm' = IF Waits \/ hand' # 0 THEN vm ELSE holds[idx[Worker]]
    /\ UNCHANGED holds

EchoExecute ==
    /\ Execute
    /\ vm' = IF edit' # 0 THEN edit' ELSE vm
    /\ UNCHANGED << preserve, holds >>

EchoSend ==
    /\ Send
    /\ preserve' = content[idx[Worker]]
    /\ UNCHANGED << vm, holds >>

\* A scalar that was dropped is waited for all the same; a span is not.
EchoSendDropped ==
    /\ SendDropped
    /\ preserve' \in {preserve, content[idx[Worker]]}
    /\ UNCHANGED << vm, holds >>

EchoCopy ==
    /\ Copy
    /\ holds' = [holds EXCEPT ![candidate] = Script]
    /\ UNCHANGED << vm, preserve >>

EchoOther ==
    /\ \/ Message \/ Request
       \/ Acquire \/ AcquireNone \/ PinSnapshot \/ SkipFrame
       \/ ExecuteFails \/ Present \/ FrameEnd
       \/ DrainBegin \/ DrainOne \/ DrainEnd \/ BlockEnd \/ PublishStep
    /\ UNCHANGED echoVars

EchoNext == \/ EchoTakeInput \/ EchoExecute \/ EchoSend \/ EchoSendDropped
            \/ EchoCopy \/ EchoOther

EchoSpec == EchoInit /\ [][EchoNext]_<< gfxVars, echoVars >>

-----------------------------------------------------------------------------

\* "Preserve VM-owned interaction state ... while waiting for the audio snapshot to
\* catch up with UI-authored writes": no snapshot takes an edit that the ring has
\* taken back from the script that made it.
KeepsOwnWrites ==
    [][ \A i \in 1..Len(accepted) : vm >= accepted[i] => vm' >= accepted[i] ]_<< gfxVars, echoVars >>

=============================================================================

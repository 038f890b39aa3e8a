--------------------------- MODULE DurableTraining ---------------------------
(***************************************************************************)
(* What checkpointing promises a training run, with no ranks, files or     *)
(* tracker: the run holds one state, trains it step by step, commits it,   *)
(* and after a crash goes on from exactly the state committed last.  The   *)
(* commit is not atomic: a crash in the middle of it leaves nothing to     *)
(* resume from.                                                            *)
(***************************************************************************)
EXTENDS Integers

CONSTANTS Initial, Unreadable

VARIABLES running, current, committed

durableVars == <<running, current, committed>>

DurableInit ==
    /\ ~running
    /\ current = Initial
    /\ committed = Initial

Begin ==
    /\ ~running
    /\ committed # Unreadable
    /\ running'
    /\ current' = committed
    /\ UNCHANGED committed

Train ==
    /\ running
    /\ current # Unreadable
    /\ running'
    /\ current' # Unreadable
    /\ current'.step = current.step + 1
    /\ UNCHANGED committed

BeginCommit ==
    /\ running /\ running'
    /\ current.step > committed.step
    /\ committed' = Unreadable
    /\ UNCHANGED current

EndCommit ==
    /\ running /\ running'
    /\ committed = Unreadable
    /\ committed' = current
    /\ UNCHANGED current

Halt ==
    /\ running
    /\ ~running'
    /\ current' = Initial
    /\ UNCHANGED committed

DurableNext == Begin \/ Train \/ BeginCommit \/ EndCommit \/ Halt

DurableSpec == DurableInit /\ [][DurableNext]_durableVars

=============================================================================

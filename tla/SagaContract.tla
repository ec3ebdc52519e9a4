---------------------------- MODULE SagaContract ----------------------------
(***************************************************************************)
(* What a saga promises, independent of goroutines, slices and logging:    *)
(* the steps are taken one after the other; either all of them are and the *)
(* saga commits, or after some proper prefix the saga turns round, gives   *)
(* the steps back one by one and aborts holding nothing.  It never turns   *)
(* round twice and never commits a part.                                   *)
(***************************************************************************)
EXTENDS Integers

CONSTANTS Runs, N

VARIABLES
    phase,  \* "idle", "forward", "backward", "committed" or "aborted"
    held    \* how many steps of the run are in effect

cvars == <<phase, held>>

Init ==
    /\ phase = [r \in Runs |-> "idle"]
    /\ held = [r \in Runs |-> 0]

Move(r, from, to) == phase[r] = from /\ phase' = [phase EXCEPT ![r] = to]

Begin(r)  == Move(r, "idle", "forward") /\ UNCHANGED held

Take(r)   == /\ phase[r] = "forward" /\ held[r] < N
             /\ held' = [held EXCEPT ![r] = @ + 1]
             /\ UNCHANGED phase

Commit(r) == held[r] = N /\ Move(r, "forward", "committed") /\ UNCHANGED held

Turn(r)   == held[r] < N /\ Move(r, "forward", "backward") /\ UNCHANGED held

Give(r)   == /\ phase[r] = "backward" /\ held[r] > 0
             /\ held' = [held EXCEPT ![r] = @ - 1]
             /\ UNCHANGED phase

Abort(r)  == held[r] = 0 /\ Move(r, "backward", "aborted") /\ UNCHANGED held

Next == \E r \in Runs :
            Begin(r) \/ Take(r) \/ Commit(r) \/ Turn(r) \/ Give(r) \/ Abort(r)

Spec == Init /\ [][Next]_cvars

=============================================================================

---------------------------- MODULE Orchestrator ----------------------------
(***************************************************************************)
(* The saga engine, internal/coordinator/saga.go: the goroutines that each *)
(* run Orchestrator.Start over a list of steps, roll the completed steps   *)
(* back in reverse order when one fails, and append every transition to    *)
(* the saga log.                                                           *)
(*                                                                         *)
(* A step's Execute and Compensate are remote calls, so each is split into *)
(* the call and its return; every saveLog is an insert of its own, so that *)
(* a crash may fall between a step and the row that reports it.  What the  *)
(* calls do is the business of the module that composes this one           *)
(* (ApiGateway); here their outcome is arbitrary.                          *)
(***************************************************************************)
EXTENDS Integers, Sequences

CONSTANTS
    Runs,       \* executions of Start, one goroutine each
    N,          \* len(o.steps); a step is its index in o.steps
    MaxMissed   \* bound: how many inserts of one run may fail

ASSUME NAssumption == N \in Nat /\ MaxMissed \in Nat

VARIABLES
    pc,         \* where Start, or the rollback it called, stands
    cur,        \* the step the loop of Start is at
    completed,  \* Start's local slice of the steps that succeeded
    errors,     \* Start's local slice of error messages
    rbErrors,   \* rollback's own copy of that slice (parameter errs)
    back,       \* rollback's loop index, counted from 1
    log,        \* the rows each run has inserted into saga_logs, in order
    dead,       \* runs whose process crashed under them
    executed,   \* history: steps whose Execute returned nil, in order
    undone,     \* history: steps whose Compensate was called, in order
    missed      \* history: how many of the run's saveLog calls failed

engine  == <<pc, cur, completed, errors, rbErrors, back, log, dead>>
history == <<executed, undone, missed>>
vars    == <<pc, cur, completed, errors, rbErrors, back, log, dead,
             executed, undone, missed>>

Step   == 1..N
NoStep == 0     \* the empty step name of the STARTED and COMPLETED rows

Status == {"STARTED", "STEP_DONE", "COMPLETED", "COMPENSATING", "FAILED"}
Error  == {"execute", "compensate"} \X Step
Row    == [status : Status, step : Step \cup {NoStep}, errs : Seq(Error)]

PC == {"new", "execute", "executing", "stepDone", "completed",
       "stepFailed", "compensate", "compensating", "failed"}

Ended(r) == pc[r] \in {"completed", "failed"}

-----------------------------------------------------------------------------

Init ==
    /\ pc = [r \in Runs |-> "new"]
    /\ cur = [r \in Runs |-> 1]
    /\ completed = [r \in Runs |-> <<>>]
    /\ errors = [r \in Runs |-> <<>>]
    /\ rbErrors = [r \in Runs |-> <<>>]
    /\ back = [r \in Runs |-> 0]
    /\ log = [r \in Runs |-> <<>>]
    /\ dead = {}
    /\ executed = [r \in Runs |-> <<>>]
    /\ undone = [r \in Runs |-> <<>>]
    /\ missed = [r \in Runs |-> 0]

\* Goroutine r of a process that is still alive moves from one point to another.
Goto(r, from, to) ==
    /\ r \notin dead
    /\ pc[r] = from
    /\ pc' = [pc EXCEPT ![r] = to]

\* saveLog: the row is inserted, or Save fails (or there is no repository) and
\* the saga carries on without it.
SaveLog(r, status, step, errs) ==
    \/ /\ log' = [log EXCEPT ![r] =
                    Append(@, [status |-> status, step |-> step, errs |-> errs])]
       /\ UNCHANGED missed
    \/ /\ missed[r] < MaxMissed
       /\ missed' = [missed EXCEPT ![r] = @ + 1]
       /\ UNCHANGED log

\* Start: the STARTED row, then the loop over the steps.
Start(r) ==
    /\ Goto(r, "new", "execute")
    /\ SaveLog(r, "STARTED", NoStep, <<>>)
    /\ UNCHANGED <<cur, completed, errors, rbErrors, back, dead, executed, undone>>

\* Mutant: the loop runs one step too far.
ExecuteCallPastEnd(r) ==
    /\ cur[r] <= N + 1
    /\ Goto(r, "execute", "executing")
    /\ UNCHANGED <<cur, completed, errors, rbErrors, back, log, dead, history>>

ExecuteCall(r) ==
    /\ cur[r] <= N
    /\ Goto(r, "execute", "executing")
    /\ UNCHANGED <<cur, completed, errors, rbErrors, back, log, dead, history>>

ExecuteOk(r) ==
    /\ Goto(r, "executing", "stepDone")
    /\ executed' = [executed EXCEPT ![r] = Append(@, cur[r])]
    /\ UNCHANGED <<cur, completed, errors, rbErrors, back, log, dead, undone, missed>>

\* Mutant: a finished step is not logged.
SaveStepDoneUnlogged(r) ==
    /\ Goto(r, "stepDone", "execute")
    /\ completed' = [completed EXCEPT ![r] = Append(@, cur[r])]
    /\ cur' = [cur EXCEPT ![r] = @ + 1]
    /\ UNCHANGED <<errors, rbErrors, back, log, dead, history>>

SaveStepDone(r) ==
    /\ Goto(r, "stepDone", "execute")
    /\ SaveLog(r, "STEP_DONE", cur[r], <<>>)
    /\ completed' = [completed EXCEPT ![r] = Append(@, cur[r])]
    /\ cur' = [cur EXCEPT ![r] = @ + 1]
    /\ UNCHANGED <<errors, rbErrors, back, dead, executed, undone>>

SaveCompleted(r) ==
    /\ cur[r] > N
    /\ Goto(r, "execute", "completed")
    /\ SaveLog(r, "COMPLETED", NoStep, <<>>)
    /\ UNCHANGED <<cur, completed, errors, rbErrors, back, dead, executed, undone>>

\* Mutant: the error is noted and the saga goes on.
ExecuteErrIgnored(r) ==
    /\ Goto(r, "executing", "stepDone")
    /\ errors' = [errors EXCEPT ![r] = Append(@, <<"execute", cur[r]>>)]
    /\ UNCHANGED <<cur, completed, rbErrors, back, log, dead, history>>

ExecuteErr(r) ==
    /\ Goto(r, "executing", "stepFailed")
    /\ errors' = [errors EXCEPT ![r] = Append(@, <<"execute", cur[r]>>)]
    /\ UNCHANGED <<cur, completed, rbErrors, back, log, dead, history>>

\* Mutant: off by one, the last completed step is skipped.
RollbackFromLastButOne(r) == IF completed[r] = <<>> THEN 0 ELSE Len(completed[r]) - 1

\* Where rollback starts: the last completed step.
RollbackFrom(r) == Len(completed[r])

\* Mutant: the saga is reported FAILED before it is rolled back.
SaveFailedTooEarly(r) ==
    /\ Goto(r, "stepFailed", "compensate")
    /\ SaveLog(r, "FAILED", cur[r], errors[r])
    /\ back' = [back EXCEPT ![r] = RollbackFrom(r)]
    /\ rbErrors' = [rbErrors EXCEPT ![r] = errors[r]]
    /\ UNCHANGED <<cur, completed, errors, dead, executed, undone>>

\* The COMPENSATING row, then rollback is called with the completed steps and
\* a copy of the errors.
SaveCompensating(r) ==
    /\ Goto(r, "stepFailed", "compensate")
    /\ SaveLog(r, "COMPENSATING", cur[r], errors[r])
    /\ back' = [back EXCEPT ![r] = RollbackFrom(r)]
    /\ rbErrors' = [rbErrors EXCEPT ![r] = errors[r]]
    /\ UNCHANGED <<cur, completed, errors, dead, executed, undone>>

\* Mutant: first in, first out.
CompensateCallFifo(r) ==
    /\ back[r] >= 1
    /\ Goto(r, "compensate", "compensating")
    /\ undone' = [undone EXCEPT ![r] =
                    Append(@, completed[r][Len(completed[r]) + 1 - back[r]])]
    /\ UNCHANGED <<cur, completed, errors, rbErrors, back, log, dead, executed, missed>>

CompensateCall(r) ==
    /\ back[r] >= 1
    /\ Goto(r, "compensate", "compensating")
    /\ undone' = [undone EXCEPT ![r] = Append(@, completed[r][back[r]])]
    /\ UNCHANGED <<cur, completed, errors, rbErrors, back, log, dead, executed, missed>>

\* A failed compensation is noted in rollback's slice and the loop goes on.
CompensateReturn(r, ok) ==
    /\ Goto(r, "compensating", "compensate")
    /\ back' = [back EXCEPT ![r] = @ - 1]
    /\ rbErrors' = [rbErrors EXCEPT ![r] =
                      IF ok THEN @
                      ELSE Append(@, <<"compensate", completed[r][back[r]]>>)]
    /\ UNCHANGED <<cur, completed, errors, log, dead, history>>

\* Mutant: the second row after the failure has the status of the first.
SaveFailedAsCompensating(r) ==
    /\ back[r] = 0
    /\ Goto(r, "compensate", "failed")
    /\ SaveLog(r, "COMPENSATING", cur[r], errors[r])
    /\ UNCHANGED <<cur, completed, errors, rbErrors, back, dead, executed, undone>>

\* Mutant: a saga whose compensation failed is left as it is.
SaveFailedIfClean(r) ==
    /\ back[r] = 0 /\ rbErrors[r] = errors[r]
    /\ Goto(r, "compensate", "failed")
    /\ SaveLog(r, "FAILED", cur[r], errors[r])
    /\ UNCHANGED <<cur, completed, errors, rbErrors, back, dead, executed, undone>>

\* rollback has returned; the FAILED row carries Start's slice of errors.
SaveFailed(r) ==
    /\ back[r] = 0
    /\ Goto(r, "compensate", "failed")
    /\ SaveLog(r, "FAILED", cur[r], errors[r])
    /\ UNCHANGED <<cur, completed, errors, rbErrors, back, dead, executed, undone>>

\* The gateway process dies and is started again.  The saga log survives, but
\* nothing reads it at start-up: the runs that were in flight are gone.
Crash ==
    /\ \E r \in Runs \ dead : pc[r] # "new" /\ ~Ended(r)
    /\ dead' = dead \cup {r \in Runs : pc[r] # "new" /\ ~Ended(r)}
    /\ UNCHANGED <<pc, cur, completed, errors, rbErrors, back, log, history>>

Advance(r) ==
    \/ Start(r)
    \/ ExecuteCall(r)      \/ ExecuteOk(r)     \/ ExecuteErr(r)
    \/ SaveStepDone(r)     \/ SaveCompleted(r)
    \/ SaveCompensating(r) \/ SaveFailed(r)
    \/ CompensateCall(r)   \/ \E ok \in BOOLEAN : CompensateReturn(r, ok)

Next == Crash \/ \E r \in Runs : Advance(r)

Spec == Init /\ [][Next]_vars

\* A live goroutine is scheduled, and every call and insert it makes returns.
FairSpec == Spec /\ \A r \in Runs : WF_vars(Advance(r))

-----------------------------------------------------------------------------

TypeOK ==
    /\ pc \in [Runs -> PC]
    /\ cur \in [Runs -> 1..(N + 1)]
    /\ completed \in [Runs -> Seq(Step)]
    /\ errors \in [Runs -> Seq(Error)]
    /\ rbErrors \in [Runs -> Seq(Error)]
    /\ back \in [Runs -> 0..N]
    /\ log \in [Runs -> Seq(Row)]
    /\ dead \subseteq Runs
    /\ executed \in [Runs -> Seq(Step)]
    /\ undone \in [Runs -> Seq(Step)]
    /\ missed \in [Runs -> Nat]

\* Compensations run in LIFO order and only for steps that succeeded: the j-th
\* step rollback compensates is the j-th from the end of those whose Execute
\* returned nil, at every moment and also in a run that crashed (saga.go:19,
\* "On failure, it triggers compensation in reverse order (LIFO)").
CompensationIsLifo ==
    \A r \in Runs :
        /\ Len(undone[r]) <= Len(executed[r])
        /\ \A j \in 1..Len(undone[r]) :
              undone[r][j] = executed[r][Len(executed[r]) + 1 - j]

\* A run that returns has either executed every step and compensated none, or
\* has called Compensate for each step it executed: Start never returns with a
\* completed step neither kept nor undone.
NothingLeftHalfway ==
    \A r \in Runs :
        /\ pc[r] = "completed" => Len(executed[r]) = N /\ undone[r] = <<>>
        /\ pc[r] = "failed"    => /\ Len(executed[r]) < N
                                  /\ Len(undone[r]) = Len(executed[r])

\* Position of a row in the life of a saga.
Rank(row) == CASE row.status = "STARTED"      -> 0
               [] row.status = "STEP_DONE"    -> row.step
               [] row.status = "COMPLETED"    -> N + 1
               [] row.status = "COMPENSATING" -> N + 2
               [] row.status = "FAILED"       -> N + 3

\* The rows of one run come in the order of its life and none is written
\* twice: steps in ascending order, nothing after COMPLETED or FAILED, no
\* STEP_DONE once compensation has begun, whichever inserts failed.
RowsInOrder ==
    \A r \in Runs : \A m, n \in 1..Len(log[r]) :
        m < n => Rank(log[r][m]) < Rank(log[r][n])

\* A row only claims what had happened: a step reported done was executed, a
\* COMPLETED saga executed every step, the step of a COMPENSATING row is the one
\* that failed, and a FAILED row follows the compensation of every executed step.
RowsAreTrue ==
    \A r \in Runs : \A n \in 1..Len(log[r]) :
        LET row == log[r][n] IN
        /\ row.status = "STEP_DONE"    => row.step <= Len(executed[r])
        /\ row.status = "COMPLETED"    => Len(executed[r]) = N
        /\ row.status = "COMPENSATING" => row.step = Len(executed[r]) + 1
        /\ row.status = "FAILED"       => Len(undone[r]) = Len(executed[r])

\* The log is never more than one step behind: of the steps executed, at most
\* the last is unreported, apart from rows whose insert failed.  So a crash can
\* hide from the log at most one executed step.
LogLagsByOneStep ==
    \A r \in Runs : pc[r] # "new" => Len(executed[r]) <= Len(log[r]) + missed[r]

\* Every saga that starts reaches COMPLETED or FAILED unless its process dies,
\* given that its calls return (saga.go Start and rollback loops end).
EverySagaEnds ==
    \A r \in Runs : pc[r] = "execute" ~> Ended(r) \/ r \in dead

\* sagalog/domain.go:43: "ErrorMessages accumulates failure details, one per
\* failed step", with "compensation of Y failed: ..." as an example: the FAILED
\* row names every compensation that failed.
FailedRowListsEveryError ==
    \A r \in Runs : \A n \in 1..Len(log[r]) :
        log[r][n].status = "FAILED" => log[r][n].errs = rbErrors[r]

-----------------------------------------------------------------------------
(* Start as an implementation of the contract of a saga.  A step is in       *)
(* effect from the return of its Execute to the call of its Compensate; a    *)
(* crash is a run that simply stops.                                         *)

Phase(p) == CASE p = "new"       -> "idle"
              [] p = "completed" -> "committed"
              [] p = "failed"    -> "aborted"
              [] p \in {"execute", "executing", "stepDone"} -> "forward"
              [] OTHER -> "backward"

Contract == INSTANCE SagaContract WITH
                phase <- [r \in Runs |-> Phase(pc[r])],
                held  <- [r \in Runs |-> Len(executed[r]) - Len(undone[r])]

\* Every behaviour of the engine is one SagaContract allows: all steps or none,
\* one turn from executing to compensating, no step taken or given back twice.
ImplementsContract == Contract!Spec

=============================================================================

------------------------ MODULE OrchestratorProofs ------------------------
(***************************************************************************)
(* Proofs about Orchestrator for any number of concurrent runs, any number *)
(* of steps and any number of failed inserts.                              *)
(***************************************************************************)
EXTENDS Orchestrator, TLAPS


-----------------------------------------------------------------------------
(* The inductive invariant.  It says how the slices of Start and rollback,   *)
(* the loop indices and the history belong together at each point.           *)

\* The steps a run has completed are the first ones, in order, and the step it
\* is at is the next one.
CompletedIsPrefix(r) ==
    /\ Len(completed[r]) = cur[r] - 1
    /\ \A i \in 1..Len(completed[r]) : completed[r][i] = i

\* The history agrees: only between the return of Execute and the append to
\* completed is it one step ahead.
ExecutedIsPrefix(r) ==
    /\ Len(executed[r]) = IF pc[r] = "stepDone" THEN cur[r] ELSE cur[r] - 1
    /\ \A i \in 1..Len(executed[r]) : executed[r][i] = i

\* rollback has compensated the steps above its index, the last one first.
UndoneIsSuffix(r) ==
    /\ \A j \in 1..Len(undone[r]) : undone[r][j] = cur[r] - j
    /\ pc[r] = "compensate"   => Len(undone[r]) = cur[r] - 1 - back[r]
    /\ pc[r] = "compensating" => Len(undone[r]) = cur[r] - back[r] /\ back[r] \in 1..(cur[r] - 1)
    /\ pc[r] = "failed"       => Len(undone[r]) = cur[r] - 1
    /\ pc[r] \notin {"compensate", "compensating", "failed"} => undone[r] = <<>>

\* Where the loop of Start stands.
CurAtPc(r) ==
    /\ pc[r] \in {"executing", "stepDone", "stepFailed",
                  "compensate", "compensating", "failed"} => cur[r] <= N
    /\ pc[r] = "completed" => cur[r] = N + 1
    /\ pc[r] = "new" => cur[r] = 1

\* One row, or one failed insert, for STARTED and one for each completed step.
LogKeepsUp(r) == pc[r] # "new" => cur[r] <= Len(log[r]) + missed[r]

RunInv(r) == /\ CompletedIsPrefix(r) /\ ExecutedIsPrefix(r) /\ UndoneIsSuffix(r)
             /\ CurAtPc(r) /\ LogKeepsUp(r)

IInv == TypeOK /\ \A r \in Runs : RunInv(r)

-----------------------------------------------------------------------------

\* Append keeps the elements of a sequence where they are and adds one at its end
\* (the append calls of Start and rollback).
LEMMA AppendFacts ==
    ASSUME NEW S, NEW s \in Seq(S), NEW e \in S
    PROVE  /\ Append(s, e) \in Seq(S)
           /\ Len(Append(s, e)) = Len(s) + 1
           /\ \A i \in 1..Len(s) : Append(s, e)[i] = s[i]
           /\ Append(s, e)[Len(s) + 1] = e
  OBVIOUS

\* SaveLog appends at most one well-formed row.
LEMMA SaveLogType ==
    ASSUME TypeOK, NEW r \in Runs, NEW status \in Status,
           NEW step \in Step \cup {NoStep}, NEW errs \in Seq(Error),
           SaveLog(r, status, step, errs)
    PROVE  /\ log' \in [Runs -> Seq(Row)]
           /\ missed' \in [Runs -> Nat]
<1> DEFINE row == [status |-> status, step |-> step, errs |-> errs]
<1>1. row \in Row
  BY DEF Row
<1>2. Append(log[r], row) \in Seq(Row)
  BY <1>1 DEF TypeOK
<1>3. CASE log' = [log EXCEPT ![r] = Append(@, row)] /\ UNCHANGED missed
  BY <1>2, <1>3 DEF TypeOK
<1>4. CASE missed' = [missed EXCEPT ![r] = @ + 1] /\ UNCHANGED log
  BY <1>4 DEF TypeOK
<1> QED
  BY <1>3, <1>4 DEF SaveLog

\* The invariant holds before any goroutine has entered Start.
LEMMA InitInv == Init => IInv
<1> SUFFICES ASSUME Init PROVE IInv
  OBVIOUS
<1>1. TypeOK
  BY NAssumption DEF Init, TypeOK, PC, Step, Error, Row
<1>2. ASSUME NEW r \in Runs PROVE RunInv(r)
  BY NAssumption DEF Init, RunInv, CompletedIsPrefix, ExecutedIsPrefix, UndoneIsSuffix,
                     CurAtPc, LogKeepsUp
<1> QED
  BY <1>1, <1>2 DEF IInv

-----------------------------------------------------------------------------
(* One lemma per action: the types, the invariant of the run that moves, and *)
(* that the other runs are left alone.                                       *)

\* What a run's own part of the invariant depends on.
SameRun(q) ==
    /\ pc'[q] = pc[q] /\ cur'[q] = cur[q] /\ completed'[q] = completed[q]
    /\ back'[q] = back[q] /\ executed'[q] = executed[q] /\ undone'[q] = undone[q]
    /\ log'[q] = log[q] /\ missed'[q] = missed[q]

\* A step that leaves the variables of run q alone keeps its part of the invariant:
\* the goroutines of Start share nothing but the repository.
LEMMA SameRunInv ==
    ASSUME NEW q \in Runs, RunInv(q), SameRun(q)
    PROVE  RunInv(q)'
  BY DEF SameRun, RunInv, CompletedIsPrefix, ExecutedIsPrefix, UndoneIsSuffix,
         CurAtPc, LogKeepsUp

\* saveLog adds one to the rows and failures of the run that calls it.
LEMMA SaveLogCounts ==
    ASSUME TypeOK, NEW r \in Runs, NEW status \in Status,
           NEW step \in Step \cup {NoStep}, NEW errs \in Seq(Error),
           SaveLog(r, status, step, errs)
    PROVE  /\ Len(log'[r]) + missed'[r] = Len(log[r]) + missed[r] + 1
           /\ Len(log'[r]) \in Nat /\ missed'[r] \in Nat
           /\ \A q \in Runs \ {r} : log'[q] = log[q] /\ missed'[q] = missed[q]
<1> DEFINE row == [status |-> status, step |-> step, errs |-> errs]
<1>1. CASE log' = [log EXCEPT ![r] = Append(@, row)] /\ UNCHANGED missed
  <2>1. log[r] \in Seq(Row) /\ log'[r] = Append(log[r], row) /\ missed'[r] = missed[r]
    BY <1>1 DEF TypeOK
  <2>2. Len(log'[r]) = Len(log[r]) + 1 /\ Len(log[r]) \in Nat /\ missed[r] \in Nat
    BY <2>1 DEF TypeOK
  <2>3. \A q \in Runs \ {r} : log'[q] = log[q] /\ missed'[q] = missed[q]
    BY <1>1 DEF TypeOK
  <2> QED
    BY <2>1, <2>2, <2>3
<1>2. CASE missed' = [missed EXCEPT ![r] = @ + 1] /\ UNCHANGED log
  <2>1. log'[r] = log[r] /\ missed'[r] = missed[r] + 1
    BY <1>2 DEF TypeOK
  <2>2. Len(log[r]) \in Nat /\ missed[r] \in Nat
    BY DEF TypeOK
  <2>3. \A q \in Runs \ {r} : log'[q] = log[q] /\ missed'[q] = missed[q]
    BY <1>2 DEF TypeOK
  <2> QED
    BY <2>1, <2>2, <2>3
<1> QED
  BY <1>1, <1>2 DEF SaveLog

\* The types of one run's share of the state.
LEMMA RunTypes ==
    ASSUME TypeOK, NEW r \in Runs
    PROVE  /\ cur[r] \in Nat /\ cur[r] >= 1 /\ cur[r] <= N + 1
           /\ back[r] \in Nat /\ back[r] <= N
           /\ completed[r] \in Seq(Step) /\ Len(completed[r]) \in Nat
           /\ executed[r] \in Seq(Step) /\ Len(executed[r]) \in Nat
           /\ undone[r] \in Seq(Step) /\ Len(undone[r]) \in Nat
           /\ log[r] \in Seq(Row) /\ Len(log[r]) \in Nat
           /\ errors[r] \in Seq(Error) /\ rbErrors[r] \in Seq(Error)
           /\ missed[r] \in Nat
  BY NAssumption DEF TypeOK

\* Start writes the STARTED row (saga.go:46): the log is ahead of the first step.
LEMMA StartInv ==
    ASSUME IInv, NEW r \in Runs, Start(r)
    PROVE  IInv'
<1> USE NAssumption
<1> TypeOK /\ RunInv(r)
  BY DEF IInv
<1>1. SaveLog(r, "STARTED", NoStep, <<>>)
  BY DEF Start
<1>2. <<>> \in Seq(Error) /\ "STARTED" \in Status /\ NoStep \in Step \cup {NoStep}
  BY DEF Status
<1>3. TypeOK'
  BY <1>1, <1>2, SaveLogType DEF Start, Goto, TypeOK, PC
<1>4. RunInv(r)'
  <2>1. Len(log'[r]) + missed'[r] = Len(log[r]) + missed[r] + 1
    BY <1>1, <1>2, SaveLogCounts
  <2>2. /\ pc[r] = "new" /\ pc'[r] = "execute" /\ cur'[r] = cur[r]
        /\ completed'[r] = completed[r] /\ executed'[r] = executed[r]
        /\ undone'[r] = undone[r]
    BY DEF Start, Goto, TypeOK
  <2>a. CompletedIsPrefix(r)' /\ ExecutedIsPrefix(r)'
    BY <2>1, <2>2, RunTypes DEF RunInv, CompletedIsPrefix, ExecutedIsPrefix
  <2>b. UndoneIsSuffix(r)'
    BY <2>1, <2>2, RunTypes DEF RunInv, UndoneIsSuffix
  <2>c. CurAtPc(r)'
    BY <2>1, <2>2, RunTypes DEF RunInv, CurAtPc
  <2>d. LogKeepsUp(r)'
    BY <2>1, <2>2, RunTypes DEF RunInv, LogKeepsUp, CurAtPc
  <2> QED
    BY <2>a, <2>b, <2>c, <2>d DEF RunInv
<1>5. ASSUME NEW q \in Runs \ {r} PROVE RunInv(q)'
  <2>1. SameRun(q)
    BY <1>1, <1>2, SaveLogCounts DEF Start, Goto, TypeOK, SameRun
  <2> QED
    BY <2>1, SameRunInv DEF IInv
<1> QED
  BY <1>3, <1>4, <1>5 DEF IInv

\* Calling Execute changes nothing but the point of control (saga.go:54).
LEMMA ExecuteCallInv ==
    ASSUME IInv, NEW r \in Runs, ExecuteCall(r)
    PROVE  IInv'
<1> USE NAssumption
<1> TypeOK /\ RunInv(r)
  BY DEF IInv
<1>3. TypeOK'
  BY DEF ExecuteCall, Goto, TypeOK, PC, history
<1>4. RunInv(r)'
  <2>1. /\ pc[r] = "execute" /\ pc'[r] = "executing" /\ cur[r] <= N
        /\ cur' = cur /\ completed' = completed /\ executed' = executed
        /\ undone' = undone /\ log' = log /\ missed' = missed
    BY DEF ExecuteCall, Goto, TypeOK, history
  <2>a. CompletedIsPrefix(r)' /\ ExecutedIsPrefix(r)'
    BY <2>1, RunTypes DEF RunInv, CompletedIsPrefix, ExecutedIsPrefix
  <2>b. UndoneIsSuffix(r)'
    BY <2>1, RunTypes DEF RunInv, UndoneIsSuffix
  <2>c. CurAtPc(r)'
    BY <2>1, RunTypes DEF RunInv, CurAtPc
  <2>d. LogKeepsUp(r)'
    BY <2>1, RunTypes DEF RunInv, LogKeepsUp, CurAtPc
  <2> QED
    BY <2>a, <2>b, <2>c, <2>d DEF RunInv
<1>5. ASSUME NEW q \in Runs \ {r} PROVE RunInv(q)'
  <2>1. SameRun(q)
    BY DEF ExecuteCall, Goto, history, TypeOK, SameRun
  <2> QED
    BY <2>1, SameRunInv DEF IInv
<1> QED
  BY <1>3, <1>4, <1>5 DEF IInv

\* Execute returned nil: the history gets one step ahead of completed (saga.go:54).
LEMMA ExecuteOkInv ==
    ASSUME IInv, NEW r \in Runs, ExecuteOk(r)
    PROVE  IInv'
<1> USE NAssumption
<1> TypeOK /\ RunInv(r)
  BY DEF IInv
<1>3. TypeOK'
  <2>1. cur[r] \in Step
    BY RunTypes DEF ExecuteOk, Goto, RunInv, CurAtPc, Step
  <2> QED
    BY <2>1 DEF ExecuteOk, Goto, TypeOK, PC
<1>4. RunInv(r)'
  <2>1. /\ pc[r] = "executing" /\ pc'[r] = "stepDone"
        /\ executed'[r] = Append(executed[r], cur[r])
        /\ cur' = cur /\ completed' = completed
        /\ undone' = undone /\ log' = log /\ missed' = missed
    BY DEF ExecuteOk, Goto, TypeOK
  <2>2. Len(executed[r]) = cur[r] - 1 /\ \A i \in 1..Len(executed[r]) : executed[r][i] = i
    BY <2>1 DEF RunInv, ExecutedIsPrefix
  <2>3. /\ Len(executed'[r]) = cur[r]
        /\ \A i \in 1..Len(executed[r]) : executed'[r][i] = executed[r][i]
        /\ executed'[r][cur[r]] = cur[r]
    <3>1. executed[r] \in Seq(Step) /\ cur[r] \in Step /\ cur[r] \in Nat
      BY RunTypes DEF ExecuteOk, Goto, RunInv, CurAtPc, Step
    <3> QED
      BY <2>1, <2>2, <3>1, AppendFacts, RunTypes
  <2>4. ExecutedIsPrefix(r)'
    BY <2>1, <2>2, <2>3, RunTypes DEF ExecutedIsPrefix
  <2> QED
    BY <2>1, <2>4, RunTypes DEF RunInv, CompletedIsPrefix, UndoneIsSuffix, CurAtPc, LogKeepsUp
<1>5. ASSUME NEW q \in Runs \ {r} PROVE RunInv(q)'
  <2>1. SameRun(q)
    BY DEF ExecuteOk, Goto, TypeOK, SameRun
  <2> QED
    BY <2>1, SameRunInv DEF IInv
<1> QED
  BY <1>3, <1>4, <1>5 DEF IInv

\* Execute failed: only the error slice grows (saga.go:60).
LEMMA ExecuteErrInv ==
    ASSUME IInv, NEW r \in Runs, ExecuteErr(r)
    PROVE  IInv'
<1> USE NAssumption
<1> TypeOK /\ RunInv(r)
  BY DEF IInv
<1>3. TypeOK'
  <2>1. <<"execute", cur[r]>> \in Error
    BY RunTypes DEF ExecuteErr, Goto, RunInv, CurAtPc, Step, Error
  <2> QED
    <3>1. errors' \in [Runs -> Seq(Error)]
      BY <2>1 DEF ExecuteErr, TypeOK
    <3>2. pc' \in [Runs -> PC]
      BY DEF ExecuteErr, Goto, TypeOK, PC
    <3> QED
      BY <3>1, <3>2 DEF ExecuteErr, TypeOK, history
<1>4. RunInv(r)'
  <2>1. /\ pc[r] = "executing" /\ pc'[r] = "stepFailed"
        /\ cur' = cur /\ completed' = completed /\ executed' = executed
        /\ undone' = undone /\ log' = log /\ missed' = missed
    BY DEF ExecuteErr, Goto, TypeOK, history
  <2>a. CompletedIsPrefix(r)' /\ ExecutedIsPrefix(r)'
    BY <2>1, RunTypes DEF RunInv, CompletedIsPrefix, ExecutedIsPrefix
  <2>b. UndoneIsSuffix(r)'
    BY <2>1, RunTypes DEF RunInv, UndoneIsSuffix
  <2>c. CurAtPc(r)'
    BY <2>1, RunTypes DEF RunInv, CurAtPc
  <2>d. LogKeepsUp(r)'
    BY <2>1, RunTypes DEF RunInv, LogKeepsUp, CurAtPc
  <2> QED
    BY <2>a, <2>b, <2>c, <2>d DEF RunInv
<1>5. ASSUME NEW q \in Runs \ {r} PROVE RunInv(q)'
  <2>1. SameRun(q)
    BY DEF ExecuteErr, Goto, history, TypeOK, SameRun
  <2> QED
    BY <2>1, SameRunInv DEF IInv
<1> QED
  BY <1>3, <1>4, <1>5 DEF IInv

\* The STEP_DONE row and the append to completed close the gap (saga.go:68-69).
LEMMA SaveStepDoneInv ==
    ASSUME IInv, NEW r \in Runs, SaveStepDone(r)
    PROVE  IInv'
<1> USE NAssumption
<1> TypeOK /\ RunInv(r)
  BY DEF IInv
<1>1. SaveLog(r, "STEP_DONE", cur[r], <<>>)
  BY DEF SaveStepDone
<1>2. <<>> \in Seq(Error) /\ "STEP_DONE" \in Status /\ cur[r] \in Step
  BY RunTypes DEF Status, SaveStepDone, Goto, RunInv, CurAtPc, Step
<1>3. TypeOK'
  <2>1. cur[r] + 1 \in 1..(N + 1) /\ Append(completed[r], cur[r]) \in Seq(Step)
    BY <1>2, RunTypes DEF SaveStepDone, Goto, RunInv, CurAtPc
  <2>2. cur' \in [Runs -> 1..(N + 1)] /\ completed' \in [Runs -> Seq(Step)]
    BY <2>1 DEF SaveStepDone, TypeOK
  <2>3. log' \in [Runs -> Seq(Row)] /\ missed' \in [Runs -> Nat]
    BY <1>1, <1>2, SaveLogType
  <2> QED
    BY <2>2, <2>3 DEF SaveStepDone, Goto, TypeOK, PC
<1>4. RunInv(r)'
  <2>1. Len(log'[r]) + missed'[r] = Len(log[r]) + missed[r] + 1
    BY <1>1, <1>2, SaveLogCounts
  <2>2. /\ pc[r] = "stepDone" /\ pc'[r] = "execute" /\ cur'[r] = cur[r] + 1
        /\ completed'[r] = Append(completed[r], cur[r])
        /\ executed' = executed /\ undone' = undone
    BY DEF SaveStepDone, Goto, TypeOK
  <2>3. CompletedIsPrefix(r)'
    BY <2>2, RunTypes DEF RunInv, CompletedIsPrefix
  <2>4. ExecutedIsPrefix(r)' /\ UndoneIsSuffix(r)'
    BY <2>2, RunTypes DEF RunInv, ExecutedIsPrefix, UndoneIsSuffix
  <2>5. CurAtPc(r)' /\ LogKeepsUp(r)'
    BY <2>1, <2>2, RunTypes DEF RunInv, CurAtPc, LogKeepsUp
  <2> QED
    BY <2>3, <2>4, <2>5 DEF RunInv
<1>5. ASSUME NEW q \in Runs \ {r} PROVE RunInv(q)'
  <2>1. SameRun(q)
    BY <1>1, <1>2, SaveLogCounts DEF SaveStepDone, Goto, TypeOK, SameRun
  <2> QED
    BY <2>1, SameRunInv DEF IInv
<1> QED
  BY <1>3, <1>4, <1>5 DEF IInv

\* The COMPLETED row is written after the last step (saga.go:72).
LEMMA SaveCompletedInv ==
    ASSUME IInv, NEW r \in Runs, SaveCompleted(r)
    PROVE  IInv'
<1> USE NAssumption
<1> TypeOK /\ RunInv(r)
  BY DEF IInv
<1>1. SaveLog(r, "COMPLETED", NoStep, <<>>)
  BY DEF SaveCompleted
<1>2. <<>> \in Seq(Error) /\ "COMPLETED" \in Status /\ NoStep \in Step \cup {NoStep}
  BY DEF Status
<1>3. TypeOK'
  BY <1>1, <1>2, SaveLogType DEF SaveCompleted, Goto, TypeOK, PC
<1>4. RunInv(r)'
  <2>1. Len(log'[r]) + missed'[r] = Len(log[r]) + missed[r] + 1
    BY <1>1, <1>2, SaveLogCounts
  <2>2. /\ pc[r] = "execute" /\ pc'[r] = "completed" /\ cur[r] > N
        /\ cur' = cur /\ completed' = completed /\ executed' = executed
        /\ undone' = undone
    BY DEF SaveCompleted, Goto, TypeOK
  <2>3. cur[r] = N + 1
    BY <2>2, RunTypes
  <2>4. CompletedIsPrefix(r)' /\ ExecutedIsPrefix(r)' /\ UndoneIsSuffix(r)'
    BY <2>2 DEF RunInv, CompletedIsPrefix, ExecutedIsPrefix, UndoneIsSuffix
  <2>5. CurAtPc(r)' /\ LogKeepsUp(r)'
    BY <2>1, <2>2, <2>3, RunTypes DEF RunInv, CurAtPc, LogKeepsUp
  <2> QED
    BY <2>4, <2>5 DEF RunInv
<1>5. ASSUME NEW q \in Runs \ {r} PROVE RunInv(q)'
  <2>1. SameRun(q)
    BY <1>1, <1>2, SaveLogCounts DEF SaveCompleted, Goto, TypeOK, SameRun
  <2> QED
    BY <2>1, SameRunInv DEF IInv
<1> QED
  BY <1>3, <1>4, <1>5 DEF IInv

\* The COMPENSATING row; rollback starts at the last completed step (saga.go:61-62).
LEMMA SaveCompensatingInv ==
    ASSUME IInv, NEW r \in Runs, SaveCompensating(r)
    PROVE  IInv'
<1> USE NAssumption
<1> TypeOK /\ RunInv(r)
  BY DEF IInv
<1>1. SaveLog(r, "COMPENSATING", cur[r], errors[r])
  BY DEF SaveCompensating
<1>2. errors[r] \in Seq(Error) /\ "COMPENSATING" \in Status /\ cur[r] \in Step
  BY RunTypes DEF Status, SaveCompensating, Goto, RunInv, CurAtPc, Step
<1>3. TypeOK'
  <2>1. Len(completed[r]) \in 0..N
    BY RunTypes DEF SaveCompensating, Goto, RunInv, CurAtPc, CompletedIsPrefix
  <2> QED
    BY <1>1, <1>2, <2>1, SaveLogType DEF SaveCompensating, Goto, RollbackFrom, TypeOK, PC
<1>4. RunInv(r)'
  <2>1. Len(log'[r]) + missed'[r] = Len(log[r]) + missed[r] + 1
    BY <1>1, <1>2, SaveLogCounts
  <2>2. /\ pc[r] = "stepFailed" /\ pc'[r] = "compensate" /\ back'[r] = Len(completed[r])
        /\ cur' = cur /\ completed' = completed /\ executed' = executed
        /\ undone' = undone
    BY DEF SaveCompensating, Goto, RollbackFrom, TypeOK
  <2>3. Len(completed[r]) = cur[r] - 1 /\ undone[r] = <<>>
    BY <2>2 DEF RunInv, CompletedIsPrefix, UndoneIsSuffix
  <2>a. CompletedIsPrefix(r)' /\ ExecutedIsPrefix(r)'
    BY <2>1, <2>2, <2>3, RunTypes DEF RunInv, CompletedIsPrefix, ExecutedIsPrefix
  <2>b. UndoneIsSuffix(r)'
    BY <2>1, <2>2, <2>3, RunTypes DEF RunInv, UndoneIsSuffix
  <2>c. CurAtPc(r)'
    BY <2>1, <2>2, <2>3, RunTypes DEF RunInv, CurAtPc
  <2>d. LogKeepsUp(r)'
    BY <2>1, <2>2, <2>3, RunTypes DEF RunInv, LogKeepsUp, CurAtPc
  <2> QED
    BY <2>a, <2>b, <2>c, <2>d DEF RunInv
<1>5. ASSUME NEW q \in Runs \ {r} PROVE RunInv(q)'
  <2>1. SameRun(q)
    BY <1>1, <1>2, SaveLogCounts DEF SaveCompensating, Goto, TypeOK, SameRun
  <2> QED
    BY <2>1, SameRunInv DEF IInv
<1> QED
  BY <1>3, <1>4, <1>5 DEF IInv

\* rollback calls Compensate of the step at its index: undone grows by the step
\* below the one before (saga.go:80-83).
LEMMA CompensateCallInv ==
    ASSUME IInv, NEW r \in Runs, CompensateCall(r)
    PROVE  IInv'
<1> USE NAssumption
<1> TypeOK /\ RunInv(r)
  BY DEF IInv
<1>1. completed[r][back[r]] = back[r] /\ back[r] \in Step
  <2>1. pc[r] = "compensate" /\ back[r] >= 1
    BY DEF CompensateCall, Goto
  <2>2. Len(undone[r]) = cur[r] - 1 - back[r]
    BY <2>1 DEF RunInv, UndoneIsSuffix
  <2>3. /\ Len(completed[r]) = cur[r] - 1
        /\ \A i \in 1..Len(completed[r]) : completed[r][i] = i
    BY DEF RunInv, CompletedIsPrefix
  <2>4. back[r] \in 1..Len(completed[r])
    BY <2>1, <2>2, <2>3, RunTypes
  <2>5. cur[r] <= N
    BY <2>1 DEF RunInv, CurAtPc
  <2> QED
    BY <2>3, <2>4, <2>5, RunTypes DEF Step
<1>3. TypeOK'
  BY <1>1 DEF CompensateCall, Goto, TypeOK, PC
<1>4. RunInv(r)'
  <2>1. /\ pc[r] = "compensate" /\ pc'[r] = "compensating" /\ back[r] >= 1
        /\ undone'[r] = Append(undone[r], back[r])
        /\ cur' = cur /\ completed' = completed /\ executed' = executed
        /\ back' = back /\ log' = log /\ missed' = missed
    BY <1>1 DEF CompensateCall, Goto, TypeOK
  <2>2. /\ Len(undone[r]) = cur[r] - 1 - back[r]
        /\ \A j \in 1..Len(undone[r]) : undone[r][j] = cur[r] - j
    BY <2>1 DEF RunInv, UndoneIsSuffix
  <2>3. /\ Len(undone'[r]) = cur[r] - back[r]
        /\ \A j \in 1..Len(undone[r]) : undone'[r][j] = undone[r][j]
        /\ undone'[r][cur[r] - back[r]] = back[r]
    <3>1. undone[r] \in Seq(Step) /\ Len(undone[r]) + 1 = cur[r] - back[r]
      BY <2>2, RunTypes
    <3> QED
      BY <1>1, <2>1, <3>1, AppendFacts
  <2>4. UndoneIsSuffix(r)'
    <3>1. ASSUME NEW j \in 1..Len(undone'[r]) PROVE undone'[r][j] = cur[r] - j
      <4>1. CASE j \in 1..Len(undone[r])
        BY <2>2, <2>3, <4>1
      <4>2. CASE j = cur[r] - back[r]
        BY <2>3, <4>2, RunTypes
      <4> QED
        BY <2>2, <2>3, <4>1, <4>2, RunTypes
    <3>2. back[r] \in 1..(cur[r] - 1)
      BY <2>1, <2>2, RunTypes
    <3> QED
      BY <2>1, <2>3, <3>1, <3>2 DEF UndoneIsSuffix
  <2> QED
    BY <2>1, <2>4, RunTypes DEF RunInv, CompletedIsPrefix, ExecutedIsPrefix, CurAtPc, LogKeepsUp
<1>5. ASSUME NEW q \in Runs \ {r} PROVE RunInv(q)'
  <2>1. SameRun(q)
    BY DEF CompensateCall, Goto, TypeOK, SameRun
  <2> QED
    BY <2>1, SameRunInv DEF IInv
<1> QED
  BY <1>3, <1>4, <1>5 DEF IInv

\* Compensate returned, with or without an error, and the index goes down
\* (saga.go:79, :89).
LEMMA CompensateReturnInv ==
    ASSUME IInv, NEW r \in Runs, NEW ok \in BOOLEAN, CompensateReturn(r, ok)
    PROVE  IInv'
<1> USE NAssumption
<1> TypeOK /\ RunInv(r)
  BY DEF IInv
<1>1. <<"compensate", completed[r][back[r]]>> \in Error
  <2>1. back[r] \in 1..(cur[r] - 1) /\ Len(completed[r]) = cur[r] - 1
    BY DEF CompensateReturn, Goto, RunInv, CompletedIsPrefix, UndoneIsSuffix
  <2>2. completed[r][back[r]] \in Step
    BY <2>1, RunTypes
  <2> QED
    BY <2>2 DEF Error
<1>3. TypeOK'
  <2>1. back[r] - 1 \in 0..N
    BY RunTypes DEF CompensateReturn, Goto, RunInv, UndoneIsSuffix
  <2>2. rbErrors' \in [Runs -> Seq(Error)]
    BY <1>1 DEF CompensateReturn, TypeOK
  <2> QED
    BY <2>1, <2>2 DEF CompensateReturn, Goto, TypeOK, PC, history
<1>4. RunInv(r)'
  <2>1. /\ pc[r] = "compensating" /\ pc'[r] = "compensate" /\ back'[r] = back[r] - 1
        /\ cur' = cur /\ completed' = completed /\ executed' = executed
        /\ undone' = undone /\ log' = log /\ missed' = missed
    BY DEF CompensateReturn, Goto, TypeOK, history
  <2>a. CompletedIsPrefix(r)' /\ ExecutedIsPrefix(r)'
    BY <2>1, RunTypes DEF RunInv, CompletedIsPrefix, ExecutedIsPrefix
  <2>b. UndoneIsSuffix(r)'
    BY <2>1, RunTypes DEF RunInv, UndoneIsSuffix
  <2>c. CurAtPc(r)'
    BY <2>1, RunTypes DEF RunInv, CurAtPc
  <2>d. LogKeepsUp(r)'
    BY <2>1, RunTypes DEF RunInv, LogKeepsUp, CurAtPc
  <2> QED
    BY <2>a, <2>b, <2>c, <2>d DEF RunInv
<1>5. ASSUME NEW q \in Runs \ {r} PROVE RunInv(q)'
  <2>1. SameRun(q)
    BY DEF CompensateReturn, Goto, history, TypeOK, SameRun
  <2> QED
    BY <2>1, SameRunInv DEF IInv
<1> QED
  BY <1>3, <1>4, <1>5 DEF IInv

\* The FAILED row is written when the index has passed the first step (saga.go:63).
LEMMA SaveFailedInv ==
    ASSUME IInv, NEW r \in Runs, SaveFailed(r)
    PROVE  IInv'
<1> USE NAssumption
<1> TypeOK /\ RunInv(r)
  BY DEF IInv
<1>1. SaveLog(r, "FAILED", cur[r], errors[r])
  BY DEF SaveFailed
<1>2. errors[r] \in Seq(Error) /\ "FAILED" \in Status /\ cur[r] \in Step
  BY RunTypes DEF Status, SaveFailed, Goto, RunInv, CurAtPc, Step
<1>3. TypeOK'
  BY <1>1, <1>2, SaveLogType DEF SaveFailed, Goto, TypeOK, PC
<1>4. RunInv(r)'
  <2>1. Len(log'[r]) + missed'[r] = Len(log[r]) + missed[r] + 1
    BY <1>1, <1>2, SaveLogCounts
  <2>2. /\ pc[r] = "compensate" /\ pc'[r] = "failed" /\ back[r] = 0
        /\ cur' = cur /\ completed' = completed /\ executed' = executed
        /\ undone' = undone
    BY DEF SaveFailed, Goto, TypeOK
  <2>a. CompletedIsPrefix(r)' /\ ExecutedIsPrefix(r)'
    BY <2>1, <2>2, RunTypes DEF RunInv, CompletedIsPrefix, ExecutedIsPrefix
  <2>b. UndoneIsSuffix(r)'
    BY <2>1, <2>2, RunTypes DEF RunInv, UndoneIsSuffix
  <2>c. CurAtPc(r)'
    BY <2>1, <2>2, RunTypes DEF RunInv, CurAtPc
  <2>d. LogKeepsUp(r)'
    BY <2>1, <2>2, RunTypes DEF RunInv, LogKeepsUp, CurAtPc
  <2> QED
    BY <2>a, <2>b, <2>c, <2>d DEF RunInv
<1>5. ASSUME NEW q \in Runs \ {r} PROVE RunInv(q)'
  <2>1. SameRun(q)
    BY <1>1, <1>2, SaveLogCounts DEF SaveFailed, Goto, TypeOK, SameRun
  <2> QED
    BY <2>1, SameRunInv DEF IInv
<1> QED
  BY <1>3, <1>4, <1>5 DEF IInv

-----------------------------------------------------------------------------

\* The invariant is inductive: every step of any run, and a crash, preserves it.
LEMMA NextInv == IInv /\ [Next]_vars => IInv'
<1> SUFFICES ASSUME IInv, [Next]_vars PROVE IInv'
  OBVIOUS
<1>1. ASSUME NEW r \in Runs, Advance(r) PROVE IInv'
  BY <1>1, StartInv, ExecuteCallInv, ExecuteOkInv, ExecuteErrInv, SaveStepDoneInv,
     SaveCompletedInv, SaveCompensatingInv, CompensateCallInv, CompensateReturnInv,
     SaveFailedInv DEF Advance
<1>2. CASE Crash
  <2>1. TypeOK'
    BY <1>2 DEF IInv, Crash, TypeOK, history
  <2>2. ASSUME NEW q \in Runs PROVE RunInv(q)'
    <3>1. RunInv(q) /\ SameRun(q)
      BY <1>2 DEF IInv, Crash, SameRun, history
    <3> QED
      BY <3>1, SameRunInv
  <2> QED
    BY <2>1, <2>2 DEF IInv
<1>3. CASE UNCHANGED vars
  <2>1. TypeOK'
    BY <1>3 DEF IInv, vars, TypeOK
  <2>2. ASSUME NEW q \in Runs PROVE RunInv(q)'
    <3>1. RunInv(q) /\ SameRun(q)
      BY <1>3 DEF IInv, vars, SameRun
    <3> QED
      BY <3>1, SameRunInv
  <2> QED
    BY <2>1, <2>2 DEF IInv
<1> QED
  BY <1>1, <1>2, <1>3 DEF Next

\* The invariant holds in every reachable state of the engine.
THEOREM Invariance == Spec => []IInv
  BY InitInv, NextInv, PTL DEF Spec

\* Type correctness (saga.go's locals stay in their ranges: the loop of Start does
\* not run past the last step, the index of rollback not below the first).
THEOREM TypeCorrect == Spec => []TypeOK
<1>1. IInv => TypeOK
  BY DEF IInv
<1> QED
  BY <1>1, Invariance, PTL

\* Compensation is LIFO and only for steps that succeeded (saga.go rollback), for
\* any number of steps and in every interleaving, crashed runs included.
THEOREM Lifo == Spec => []CompensationIsLifo
<1>1. ASSUME IInv, NEW r \in Runs
      PROVE  /\ Len(undone[r]) <= Len(executed[r])
             /\ \A j \in 1..Len(undone[r]) :
                   undone[r][j] = executed[r][Len(executed[r]) + 1 - j]
  <2> TypeOK /\ RunInv(r)
    BY <1>1 DEF IInv
  <2>1. CASE pc[r] \in {"compensate", "compensating", "failed"}
    <3>1. /\ Len(executed[r]) = cur[r] - 1
          /\ \A i \in 1..Len(executed[r]) : executed[r][i] = i
      BY <2>1 DEF RunInv, ExecutedIsPrefix
    <3>2. /\ Len(undone[r]) <= cur[r] - 1
          /\ \A j \in 1..Len(undone[r]) : undone[r][j] = cur[r] - j
      BY <2>1, RunTypes DEF RunInv, UndoneIsSuffix
    <3>3. ASSUME NEW j \in 1..Len(undone[r])
          PROVE  undone[r][j] = executed[r][Len(executed[r]) + 1 - j]
      <4>1. Len(executed[r]) + 1 - j = cur[r] - j /\ cur[r] - j \in 1..Len(executed[r])
        BY <3>1, <3>2, RunTypes
      <4> QED
        BY <3>1, <3>2, <4>1
    <3> QED
      BY <3>1, <3>2, <3>3
  <2>2. CASE pc[r] \notin {"compensate", "compensating", "failed"}
    <3>1. undone[r] = <<>>
      BY <2>2 DEF RunInv, UndoneIsSuffix
    <3>2. Len(undone[r]) = 0
      BY <3>1
    <3> QED
      BY <3>2, RunTypes
  <2> QED
    BY <2>1, <2>2
<1>2. IInv => CompensationIsLifo
  BY <1>1 DEF CompensationIsLifo
<1> QED
  BY <1>2, Invariance, PTL

\* Start never returns with a completed step neither kept nor compensated.
THEOREM AllOrNothing == Spec => []NothingLeftHalfway
<1>1. ASSUME IInv, NEW r \in Runs, pc[r] = "completed"
      PROVE  Len(executed[r]) = N /\ undone[r] = <<>>
  BY <1>1, RunTypes, NAssumption
     DEF IInv, RunInv, ExecutedIsPrefix, UndoneIsSuffix, CurAtPc
<1>2. ASSUME IInv, NEW r \in Runs, pc[r] = "failed"
      PROVE  Len(executed[r]) < N /\ Len(undone[r]) = Len(executed[r])
  BY <1>2, RunTypes, NAssumption
     DEF IInv, RunInv, ExecutedIsPrefix, UndoneIsSuffix, CurAtPc
<1>3. IInv => NothingLeftHalfway
  BY <1>1, <1>2 DEF NothingLeftHalfway
<1> QED
  BY <1>3, Invariance, PTL

\* The saga log is at most one step behind what was executed, inserts that failed
\* apart (saga.go:54 and :68).
THEOREM LogLag == Spec => []LogLagsByOneStep
<1>1. ASSUME IInv, NEW r \in Runs, pc[r] # "new"
      PROVE  Len(executed[r]) <= Len(log[r]) + missed[r]
  BY <1>1, RunTypes DEF IInv, RunInv, ExecutedIsPrefix, LogKeepsUp
<1>2. IInv => LogLagsByOneStep
  BY <1>1 DEF LogLagsByOneStep
<1> QED
  BY <1>2, Invariance, PTL

-----------------------------------------------------------------------------
(* The rows of the log.  RowsInOrder and RowsAreTrue are about rows that were *)
(* written long ago; that no later step contradicts them needs a bound, at    *)
(* each point of control, on the rank of the rows a run has written.          *)

\* The largest rank a row of the run may have.
Level(r) == CASE pc[r] = "new" -> -1
              [] pc[r] \in {"execute", "executing", "stepDone", "stepFailed"} -> cur[r] - 1
              [] pc[r] = "completed" -> N + 1
              [] pc[r] \in {"compensate", "compensating"} -> N + 2
              [] pc[r] = "failed" -> N + 3

RowIsTrue(r, row) ==
    /\ row.status = "STEP_DONE"    => row.step <= Len(executed[r])
    /\ row.status = "COMPLETED"    => Len(executed[r]) = N
    /\ row.status = "COMPENSATING" => row.step = Len(executed[r]) + 1
    /\ row.status = "FAILED"       => Len(undone[r]) = Len(executed[r])

LogInv(r) ==
    /\ \A n \in 1..Len(log[r]) : Rank(log[r][n]) <= Level(r) /\ RowIsTrue(r, log[r][n])
    /\ \A m, n \in 1..Len(log[r]) : m < n => Rank(log[r][m]) < Rank(log[r][n])

\* The ranks of the five kinds of rows.
LEMMA RankFacts ==
    ASSUME NEW row \in Row
    PROVE  /\ Rank(row) \in Int
           /\ row.status = "STARTED"      => Rank(row) = 0
           /\ row.status = "STEP_DONE"    => Rank(row) = row.step
           /\ row.status = "COMPLETED"    => Rank(row) = N + 1
           /\ row.status = "COMPENSATING" => Rank(row) = N + 2
           /\ row.status = "FAILED"       => Rank(row) = N + 3
           /\ row.step \in Nat /\ row.step <= N
  BY NAssumption DEF Rank, Row, Status, Step, NoStep

\* The bound at each point of control.
LEMMA LevelFacts ==
    ASSUME TypeOK, NEW r \in Runs
    PROVE  /\ Level(r) \in Int
           /\ pc[r] = "new" => Level(r) = -1
           /\ pc[r] \in {"execute", "executing", "stepDone", "stepFailed"} => Level(r) = cur[r] - 1
           /\ pc[r] = "completed" => Level(r) = N + 1
           /\ pc[r] \in {"compensate", "compensating"} => Level(r) = N + 2
           /\ pc[r] = "failed" => Level(r) = N + 3
<1>1. pc[r] \in PC
  BY DEF TypeOK
<1> QED
  BY <1>1, RunTypes, NAssumption DEF Level, PC

\* A step that writes no row keeps the log true if it keeps true what rows of a
\* rank up to the bound say.
LEMMA NoRow ==
    ASSUME TypeOK, TypeOK', NEW r \in Runs, LogInv(r), log'[r] = log[r],
           Level(r) <= Level(r)',
           \A row \in Row : Rank(row) <= Level(r) /\ RowIsTrue(r, row) => RowIsTrue(r, row)'
    PROVE  LogInv(r)'
<1>1. \A n \in 1..Len(log[r]) : log[r][n] \in Row
  <2>1. log[r] \in Seq(Row)
    BY DEF TypeOK
  <2> QED
    BY <2>1
<1>2. \A n \in 1..Len(log[r]) : Rank(log[r][n]) \in Int /\ Rank(log[r][n]) <= Level(r)
                                /\ RowIsTrue(r, log[r][n])
  BY <1>1, RankFacts DEF LogInv
<1>3. Level(r) \in Int /\ Level(r)' \in Int
  <2>1. Level(r) \in Int
    BY LevelFacts
  <2>2. TypeOK' => Level(r)' \in Int
    <3>1. pc'[r] \in PC /\ cur'[r] \in Int
      BY NAssumption DEF TypeOK
    <3> QED
      BY <3>1, NAssumption DEF Level, PC
  <2> QED
    BY <2>1, <2>2
<1>4. ASSUME NEW n \in 1..Len(log'[r])
      PROVE  Rank(log'[r][n]) <= Level(r)' /\ RowIsTrue(r, log[r][n])'
  <2>1. n \in 1..Len(log[r]) /\ log'[r][n] = log[r][n]
    OBVIOUS
  <2>2. Rank(log[r][n]) <= Level(r)'
    BY <1>2, <1>3, <2>1
  <2>3. PICK row \in Row : row = log[r][n]
    BY <1>1, <2>1
  <2>4. RowIsTrue(r, row)'
    BY <1>2, <2>1, <2>3
  <2> QED
    BY <2>1, <2>2, <2>3, <2>4 DEF RowIsTrue, Rank
<1>5. \A m, n \in 1..Len(log'[r]) : m < n => Rank(log'[r][m]) < Rank(log'[r][n])
  BY DEF LogInv
<1> QED
  BY <1>4, <1>5 DEF LogInv, Rank

\* A row that ranks above all the others and is true can be added.
LEMMA OneRow ==
    ASSUME TypeOK, TypeOK', NEW r \in Runs, LogInv(r), NEW row \in Row,
           log'[r] = Append(log[r], row), executed'[r] = executed[r], undone'[r] = undone[r],
           Level(r) < Rank(row), Rank(row) <= Level(r)', RowIsTrue(r, row)
    PROVE  LogInv(r)'
<1>1. /\ Len(log'[r]) = Len(log[r]) + 1 /\ Len(log[r]) \in Nat
      /\ \A i \in 1..Len(log[r]) : log'[r][i] = log[r][i] /\ log[r][i] \in Row
      /\ log'[r][Len(log[r]) + 1] = row
  <2>1. log[r] \in Seq(Row)
    BY DEF TypeOK
  <2> QED
    BY <2>1, AppendFacts
<1>2. \A n \in 1..Len(log[r]) : Rank(log[r][n]) \in Int /\ Rank(log[r][n]) < Rank(row)
                                /\ RowIsTrue(r, log[r][n])
  <2>1. Rank(row) \in Int /\ Level(r) \in Int
    BY RankFacts, LevelFacts
  <2> QED
    BY <1>1, <2>1, RankFacts DEF LogInv
<1>3. Level(r)' \in Int /\ Rank(row) \in Int
  <2>1. pc'[r] \in PC /\ cur'[r] \in Int
    BY NAssumption DEF TypeOK
  <2> QED
    BY <2>1, NAssumption, RankFacts DEF Level, PC
<1>4. ASSUME NEW n \in 1..Len(log'[r])
      PROVE  Rank(log'[r][n]) <= Level(r)' /\ RowIsTrue(r, log[r][n])'
  <2>1. CASE n = Len(log[r]) + 1
    <3>1. log'[r][n] = row
      BY <1>1, <2>1
    <3> QED
      BY <3>1 DEF RowIsTrue, Rank
  <2>2. CASE n \in 1..Len(log[r])
    <3>1. log'[r][n] = log[r][n] /\ RowIsTrue(r, log[r][n])
      BY <1>1, <1>2, <2>2
    <3>2. Rank(log[r][n]) <= Level(r)'
      BY <1>2, <1>3, <2>2
    <3> QED
      BY <3>1, <3>2 DEF RowIsTrue, Rank
  <2> QED
    BY <1>1, <2>1, <2>2
<1>5. ASSUME NEW m \in 1..Len(log'[r]), NEW n \in 1..Len(log'[r]), m < n
      PROVE  Rank(log'[r][m]) < Rank(log'[r][n])
  <2>1. m \in 1..Len(log[r]) /\ log'[r][m] = log[r][m]
    BY <1>1, <1>5
  <2>2. CASE n = Len(log[r]) + 1
    BY <1>1, <1>2, <2>1, <2>2
  <2>3. CASE n \in 1..Len(log[r])
    BY <1>1, <1>5, <2>1, <2>3 DEF LogInv
  <2> QED
    BY <1>1, <2>2, <2>3
<1> QED
  BY <1>4, <1>5 DEF LogInv, Rank

\* saveLog: the row is there or it is not.
LEMMA SavesRow ==
    ASSUME TypeOK, TypeOK', NEW r \in Runs, LogInv(r), NEW status \in Status,
           NEW step \in Step \cup {NoStep}, NEW errs \in Seq(Error),
           SaveLog(r, status, step, errs), executed' = executed, undone' = undone,
           Level(r) < Rank([status |-> status, step |-> step, errs |-> errs]),
           Rank([status |-> status, step |-> step, errs |-> errs]) <= Level(r)',
           RowIsTrue(r, [status |-> status, step |-> step, errs |-> errs])
    PROVE  LogInv(r)'
<1> DEFINE row == [status |-> status, step |-> step, errs |-> errs]
<1>1. row \in Row
  BY DEF Row
<1>2. \/ log'[r] = Append(log[r], row)
      \/ log'[r] = log[r]
  BY DEF SaveLog, TypeOK
<1>3. Level(r) < Rank(row) /\ Rank(row) <= Level(r)' /\ RowIsTrue(r, row)
  OBVIOUS
<1> HIDE DEF row
<1>4. CASE log'[r] = Append(log[r], row)
  BY <1>1, <1>3, <1>4, OneRow
<1>5. CASE log'[r] = log[r]
  <2>1. Level(r) <= Level(r)'
    <3>1. pc'[r] \in PC /\ cur'[r] \in Int
      BY NAssumption DEF TypeOK
    <3>2. Level(r)' \in Int
      BY <3>1, NAssumption DEF Level, PC
    <3> QED
      BY <1>1, <1>3, <3>2, RankFacts, LevelFacts
  <2>2. ASSUME NEW x \in Row, RowIsTrue(r, x) PROVE RowIsTrue(r, x)'
    BY <2>2 DEF RowIsTrue
  <2> QED
    BY <1>5, <2>1, <2>2, NoRow
<1> QED
  BY <1>2, <1>4, <1>5

\* A run whose variables do not change keeps its part.
LEMMA SameLog ==
    ASSUME NEW q \in Runs, LogInv(q), SameRun(q)
    PROVE  LogInv(q)'
  BY DEF SameRun, LogInv, Level, RowIsTrue, Rank

\* A run that takes no step of its own does not change.
LEMMA OthersSame ==
    ASSUME IInv, NEW r \in Runs, Advance(r), NEW q \in Runs \ {r}
    PROVE  SameRun(q)
<1> TypeOK
  BY DEF IInv
<1>1. ASSUME NEW status, NEW step, NEW errs, SaveLog(r, status, step, errs)
      PROVE  log'[q] = log[q] /\ missed'[q] = missed[q]
  BY <1>1 DEF SaveLog, TypeOK
<1>2. CASE Start(r)
  BY <1>1, <1>2 DEF Start, Goto, TypeOK, SameRun
<1>3. CASE ExecuteCall(r) \/ ExecuteOk(r) \/ ExecuteErr(r)
  BY <1>3 DEF ExecuteCall, ExecuteOk, ExecuteErr, Goto, history, TypeOK, SameRun
<1>4. CASE SaveStepDone(r)
  BY <1>1, <1>4 DEF SaveStepDone, Goto, TypeOK, SameRun
<1>5. CASE SaveCompleted(r)
  BY <1>1, <1>5 DEF SaveCompleted, Goto, TypeOK, SameRun
<1>6. CASE SaveCompensating(r)
  BY <1>1, <1>6 DEF SaveCompensating, Goto, TypeOK, SameRun
<1>7. CASE SaveFailed(r)
  BY <1>1, <1>7 DEF SaveFailed, Goto, TypeOK, SameRun
<1>8. CASE CompensateCall(r)
  BY <1>8 DEF CompensateCall, Goto, TypeOK, SameRun
<1>9. ASSUME NEW ok \in BOOLEAN, CompensateReturn(r, ok) PROVE SameRun(q)
  BY <1>9 DEF CompensateReturn, Goto, history, TypeOK, SameRun
<1> QED
  BY <1>2, <1>3, <1>4, <1>5, <1>6, <1>7, <1>8, <1>9 DEF Advance

\* A step of a run leaves its log true and in order.
LEMMA AdvanceLog ==
    ASSUME IInv, IInv', NEW r \in Runs, LogInv(r), Advance(r)
    PROVE  LogInv(r)'
<1> USE NAssumption
<1> TypeOK /\ RunInv(r) /\ TypeOK'
  BY DEF IInv
<1>0. /\ cur[r] \in Nat /\ cur[r] >= 1 /\ cur[r] <= N + 1 /\ cur'[r] \in Nat
      /\ Len(executed[r]) \in Nat /\ Len(undone[r]) \in Nat
  <2>1. cur' \in [Runs -> 1..(N + 1)]
    BY DEF TypeOK
  <2> QED
    BY <2>1, RunTypes
<1>a. /\ pc'[r] \in {"execute", "executing", "stepDone", "stepFailed"} => Level(r)' = cur'[r] - 1
      /\ pc'[r] = "completed" => Level(r)' = N + 1
      /\ pc'[r] \in {"compensate", "compensating"} => Level(r)' = N + 2
      /\ pc'[r] = "failed" => Level(r)' = N + 3
  BY DEF Level
<1>b. /\ pc[r] # "stepDone" => Len(executed[r]) = cur[r] - 1
      /\ pc[r] = "stepDone" => Len(executed[r]) = cur[r]
  BY DEF RunInv, ExecutedIsPrefix
<1>1. CASE Start(r)
  <2>1. /\ pc[r] = "new" /\ pc'[r] = "execute" /\ cur' = cur
        /\ SaveLog(r, "STARTED", NoStep, <<>>) /\ executed' = executed /\ undone' = undone
    BY <1>1 DEF Start, Goto, TypeOK
  <2> DEFINE row == [status |-> "STARTED", step |-> NoStep, errs |-> <<>>]
  <2>2. /\ "STARTED" \in Status /\ NoStep \in Step \cup {NoStep} /\ <<>> \in Seq(Error)
        /\ row \in Row
    BY DEF Row, Status
  <2>3. Level(r) < Rank(row) /\ Rank(row) <= Level(r)'
    BY <1>0, <1>a, <2>1, <2>2, RankFacts, LevelFacts
  <2>4. RowIsTrue(r, row)
    BY DEF RowIsTrue
  <2> QED
    BY <2>1, <2>2, <2>3, <2>4, SavesRow
<1>2. CASE ExecuteCall(r)
  <2>1. /\ pc[r] = "execute" /\ pc'[r] = "executing"
        /\ cur' = cur /\ log' = log /\ executed' = executed /\ undone' = undone
    BY <1>2 DEF ExecuteCall, Goto, TypeOK, history
  <2>2. Level(r) <= Level(r)'
    BY <1>0, <1>a, <2>1, LevelFacts
  <2>3. ASSUME NEW x \in Row, RowIsTrue(r, x) PROVE RowIsTrue(r, x)'
    BY <2>1, <2>3 DEF RowIsTrue
  <2> QED
    BY <2>1, <2>2, <2>3, NoRow
<1>3. CASE ExecuteOk(r)
  <2>1. /\ pc[r] = "executing" /\ pc'[r] = "stepDone" /\ cur' = cur /\ log' = log
        /\ executed'[r] = Append(executed[r], cur[r]) /\ undone' = undone
    BY <1>3 DEF ExecuteOk, Goto, TypeOK
  <2>2. Level(r) <= Level(r)' /\ Level(r) < N
    BY <1>0, <1>a, <2>1, LevelFacts DEF RunInv, CurAtPc
  <2>3. Len(executed'[r]) = Len(executed[r]) + 1
    <3>1. executed[r] \in Seq(Step) /\ cur[r] \in Step
      BY <1>0, <2>1, RunTypes DEF RunInv, CurAtPc, Step
    <3> QED
      BY <2>1, <3>1, AppendFacts
  <2>4. ASSUME NEW x \in Row, Rank(x) <= Level(r), RowIsTrue(r, x) PROVE RowIsTrue(r, x)'
    <3>1. x.status \notin {"COMPLETED", "COMPENSATING", "FAILED"}
      BY <2>2, <2>4, RankFacts, LevelFacts
    <3>2. x.status = "STEP_DONE" => x.step <= Len(executed'[r])
      BY <1>0, <2>3, <2>4, RankFacts DEF RowIsTrue
    <3> QED
      BY <3>1, <3>2 DEF RowIsTrue
  <2> QED
    BY <2>1, <2>2, <2>4, NoRow
<1>4. CASE ExecuteErr(r)
  <2>1. /\ pc[r] = "executing" /\ pc'[r] = "stepFailed"
        /\ cur' = cur /\ log' = log /\ executed' = executed /\ undone' = undone
    BY <1>4 DEF ExecuteErr, Goto, TypeOK, history
  <2>2. Level(r) <= Level(r)'
    BY <1>0, <1>a, <2>1, LevelFacts
  <2>3. ASSUME NEW x \in Row, RowIsTrue(r, x) PROVE RowIsTrue(r, x)'
    BY <2>1, <2>3 DEF RowIsTrue
  <2> QED
    BY <2>1, <2>2, <2>3, NoRow
<1>5. CASE SaveStepDone(r)
  <2>1. /\ pc[r] = "stepDone" /\ pc'[r] = "execute" /\ cur'[r] = cur[r] + 1
        /\ SaveLog(r, "STEP_DONE", cur[r], <<>>) /\ executed' = executed /\ undone' = undone
    BY <1>5 DEF SaveStepDone, Goto, TypeOK
  <2> DEFINE row == [status |-> "STEP_DONE", step |-> cur[r], errs |-> <<>>]
  <2>2. /\ "STEP_DONE" \in Status /\ cur[r] \in Step /\ <<>> \in Seq(Error)
        /\ row \in Row
    BY <1>0, <2>1 DEF Row, Status, Step, RunInv, CurAtPc
  <2>3. Level(r) < Rank(row) /\ Rank(row) <= Level(r)'
    BY <1>0, <1>a, <2>1, <2>2, RankFacts, LevelFacts
  <2>4. RowIsTrue(r, row)
    BY <1>0, <1>b, <2>1 DEF RowIsTrue
  <2> QED
    BY <2>1, <2>2, <2>3, <2>4, SavesRow
<1>6. CASE SaveCompleted(r)
  <2>0. cur[r] = N + 1
    <3>1. cur[r] > N
      BY <1>6 DEF SaveCompleted
    <3> QED
      BY <1>0, <3>1
  <2>1. /\ pc[r] = "execute" /\ pc'[r] = "completed"
        /\ SaveLog(r, "COMPLETED", NoStep, <<>>) /\ executed' = executed /\ undone' = undone
    BY <1>6 DEF SaveCompleted, Goto, TypeOK
  <2> DEFINE row == [status |-> "COMPLETED", step |-> NoStep, errs |-> <<>>]
  <2>2. /\ "COMPLETED" \in Status /\ NoStep \in Step \cup {NoStep} /\ <<>> \in Seq(Error)
        /\ row \in Row
    BY DEF Row, Status
  <2>3. Level(r) < Rank(row) /\ Rank(row) <= Level(r)'
    BY <1>0, <1>a, <2>0, <2>1, <2>2, RankFacts, LevelFacts
  <2>4. RowIsTrue(r, row)
    BY <1>0, <1>b, <2>0, <2>1 DEF RowIsTrue
  <2> QED
    BY <2>1, <2>2, <2>3, <2>4, SavesRow
<1>7. CASE SaveCompensating(r)
  <2>1. /\ pc[r] = "stepFailed" /\ pc'[r] = "compensate"
        /\ SaveLog(r, "COMPENSATING", cur[r], errors[r])
        /\ executed' = executed /\ undone' = undone
    BY <1>7 DEF SaveCompensating, Goto, TypeOK
  <2> DEFINE row == [status |-> "COMPENSATING", step |-> cur[r], errs |-> errors[r]]
  <2>2. /\ "COMPENSATING" \in Status /\ cur[r] \in Step /\ errors[r] \in Seq(Error)
        /\ row \in Row
    BY <1>0, <2>1, RunTypes DEF Row, Status, Step, RunInv, CurAtPc
  <2>3. Level(r) < Rank(row) /\ Rank(row) <= Level(r)'
    BY <1>0, <1>a, <2>1, <2>2, RankFacts, LevelFacts
  <2>4. RowIsTrue(r, row)
    BY <1>0, <1>b, <2>1 DEF RowIsTrue
  <2> QED
    BY <2>1, <2>2, <2>3, <2>4, SavesRow
<1>8. CASE SaveFailed(r)
  <2>1. /\ pc[r] = "compensate" /\ pc'[r] = "failed" /\ back[r] = 0
        /\ SaveLog(r, "FAILED", cur[r], errors[r])
        /\ executed' = executed /\ undone' = undone
    BY <1>8 DEF SaveFailed, Goto, TypeOK
  <2> DEFINE row == [status |-> "FAILED", step |-> cur[r], errs |-> errors[r]]
  <2>2. /\ "FAILED" \in Status /\ cur[r] \in Step /\ errors[r] \in Seq(Error)
        /\ row \in Row
    BY <1>0, <2>1, RunTypes DEF Row, Status, Step, RunInv, CurAtPc
  <2>3. Level(r) < Rank(row) /\ Rank(row) <= Level(r)'
    BY <1>0, <1>a, <2>1, <2>2, RankFacts, LevelFacts
  <2>4. RowIsTrue(r, row)
    <3>1. Len(undone[r]) = cur[r] - 1
      BY <1>0, <2>1 DEF RunInv, UndoneIsSuffix
    <3> QED
      BY <1>0, <1>b, <2>1, <3>1 DEF RowIsTrue
  <2> QED
    BY <2>1, <2>2, <2>3, <2>4, SavesRow
<1>9. CASE CompensateCall(r)
  <2>1. /\ pc[r] = "compensate" /\ pc'[r] = "compensating" /\ cur' = cur /\ log' = log
        /\ executed' = executed
    BY <1>9 DEF CompensateCall, Goto, TypeOK
  <2>2. Level(r) <= Level(r)' /\ Level(r) = N + 2
    BY <1>0, <1>a, <2>1, LevelFacts
  <2>3. ASSUME NEW x \in Row, Rank(x) <= Level(r), RowIsTrue(r, x) PROVE RowIsTrue(r, x)'
    <3>1. x.status # "FAILED"
      BY <2>2, <2>3, RankFacts
    <3> QED
      BY <2>1, <2>3, <3>1 DEF RowIsTrue
  <2> QED
    BY <2>1, <2>2, <2>3, NoRow
<1>10. ASSUME NEW ok \in BOOLEAN, CompensateReturn(r, ok) PROVE LogInv(r)'
  <2>1. /\ pc[r] = "compensating" /\ pc'[r] = "compensate"
        /\ cur' = cur /\ log' = log /\ executed' = executed /\ undone' = undone
    BY <1>10 DEF CompensateReturn, Goto, TypeOK, history
  <2>2. Level(r) <= Level(r)'
    BY <1>0, <1>a, <2>1, LevelFacts
  <2>3. ASSUME NEW x \in Row, RowIsTrue(r, x) PROVE RowIsTrue(r, x)'
    BY <2>1, <2>3 DEF RowIsTrue
  <2> QED
    BY <2>1, <2>2, <2>3, NoRow
<1> QED
  BY <1>1, <1>2, <1>3, <1>4, <1>5, <1>6, <1>7, <1>8, <1>9, <1>10 DEF Advance

\* In every reachable state the rows of every run are true and in order, under
\* the bound its point of control sets.
THEOREM LogInvariance == Spec => [](\A r \in Runs : LogInv(r))
<1>1. Init => \A r \in Runs : LogInv(r)
  <2> SUFFICES ASSUME Init, NEW r \in Runs PROVE LogInv(r)
    OBVIOUS
  <2>1. Len(log[r]) = 0
    BY DEF Init
  <2> QED
    BY <2>1 DEF LogInv
<1>2. IInv /\ IInv' /\ (\A r \in Runs : LogInv(r)) /\ [Next]_vars => (\A r \in Runs : LogInv(r))'
  <2> SUFFICES ASSUME IInv, IInv', \A r \in Runs : LogInv(r), [Next]_vars, NEW q \in Runs
               PROVE  LogInv(q)'
    OBVIOUS
  <2>1. ASSUME NEW r \in Runs, Advance(r) PROVE LogInv(q)'
    BY <2>1, AdvanceLog, OthersSame, SameLog
  <2>2. CASE Crash \/ UNCHANGED vars
    <3>1. SameRun(q)
      BY <2>2 DEF Crash, vars, history, SameRun
    <3> QED
      BY <3>1, SameLog
  <2> QED
    BY <2>1, <2>2 DEF Next
<1> QED
  BY <1>1, <1>2, Invariance, PTL DEF Spec

\* The rows of a run are in the order of its life and none is written twice,
\* whichever inserts failed (saga.go saveLog and its callers).
THEOREM LogOrder == Spec => []RowsInOrder
<1>1. (\A r \in Runs : LogInv(r)) => RowsInOrder
  BY DEF LogInv, RowsInOrder
<1> QED
  BY <1>1, LogInvariance, PTL

\* No row claims what had not happened, and none becomes false later.
THEOREM LogTruth == Spec => []RowsAreTrue
<1>1. (\A r \in Runs : LogInv(r)) => RowsAreTrue
  BY DEF LogInv, RowIsTrue, RowsAreTrue
<1> QED
  BY <1>1, LogInvariance, PTL

-----------------------------------------------------------------------------
(* Orchestrator implements SagaContract.                                     *)

\* The phase of the contract at each point of control.
LEMMA PhaseOfPc ==
    /\ Phase("new") = "idle" /\ Phase("completed") = "committed" /\ Phase("failed") = "aborted"
    /\ Phase("execute") = "forward" /\ Phase("executing") = "forward"
    /\ Phase("stepDone") = "forward"
    /\ Phase("stepFailed") = "backward" /\ Phase("compensate") = "backward"
    /\ Phase("compensating") = "backward"
  BY DEF Phase

PhaseOf == [r \in Runs |-> Phase(pc[r])]
HeldOf  == [r \in Runs |-> Len(executed[r]) - Len(undone[r])]

\* How many steps of a run are in effect, read off the program counter.
LEMMA HeldAtPc ==
    ASSUME IInv, NEW r \in Runs
    PROVE  /\ HeldOf[r] = Len(executed[r]) - Len(undone[r])
           /\ HeldOf[r] \in Int
           /\ pc[r] = "execute" => HeldOf[r] = cur[r] - 1
           /\ pc[r] = "executing" => HeldOf[r] = cur[r] - 1 /\ HeldOf[r] < N
           /\ pc[r] = "compensate" => HeldOf[r] = back[r]
<1> USE NAssumption
<1> TypeOK /\ RunInv(r)
  BY DEF IInv
<1>1. HeldOf[r] = Len(executed[r]) - Len(undone[r]) /\ HeldOf[r] \in Int
  BY RunTypes DEF HeldOf
<1>2. ASSUME pc[r] \in {"execute", "executing"}
      PROVE  Len(executed[r]) = cur[r] - 1 /\ Len(undone[r]) = 0
  <2>1. undone[r] = <<>>
    BY <1>2 DEF RunInv, UndoneIsSuffix
  <2> QED
    BY <1>2, <2>1 DEF RunInv, ExecutedIsPrefix
<1>3. ASSUME pc[r] = "compensate"
      PROVE  Len(executed[r]) = cur[r] - 1 /\ Len(undone[r]) = cur[r] - 1 - back[r]
  BY <1>3 DEF RunInv, ExecutedIsPrefix, UndoneIsSuffix
<1>4. pc[r] = "executing" => cur[r] <= N
  BY DEF RunInv, CurAtPc
<1>5. /\ cur[r] \in Nat /\ back[r] \in Nat /\ N \in Nat
      /\ Len(executed[r]) \in Nat /\ Len(undone[r]) \in Nat
  BY RunTypes
<1>6. pc[r] = "execute" => HeldOf[r] = cur[r] - 1
  <2> HAVE pc[r] = "execute"
  <2>1. Len(executed[r]) = cur[r] - 1 /\ Len(undone[r]) = 0
    BY <1>2
  <2> QED
    BY <1>1, <1>5, <2>1
<1>7. pc[r] = "executing" => HeldOf[r] = cur[r] - 1 /\ HeldOf[r] < N
  <2> HAVE pc[r] = "executing"
  <2>1. Len(executed[r]) = cur[r] - 1 /\ Len(undone[r]) = 0
    BY <1>2
  <2> QED
    BY <1>1, <1>4, <1>5, <2>1
<1>8. pc[r] = "compensate" => HeldOf[r] = back[r]
  <2> HAVE pc[r] = "compensate"
  <2>1. Len(executed[r]) = cur[r] - 1 /\ Len(undone[r]) = cur[r] - 1 - back[r]
    BY <1>3
  <2> QED
    BY <1>1, <1>5, <2>1
<1> QED
  BY <1>1, <1>6, <1>7, <1>8

\* A step that leaves a run's program counter within its phase and the history
\* alone is a stutter.
LEMMA Stutter ==
    ASSUME IInv, NEW r \in Runs, NEW from \in PC, NEW to \in PC, Goto(r, from, to),
           Phase(to) = Phase(from), executed' = executed, undone' = undone
    PROVE  UNCHANGED <<PhaseOf, HeldOf>>
  BY DEF IInv, TypeOK, Goto, PhaseOf, HeldOf

\* A step that moves a run to another phase and leaves the history alone.
LEMMA PhaseMove ==
    ASSUME IInv, NEW r \in Runs, NEW from \in PC, NEW to \in PC, Goto(r, from, to),
           executed' = executed, undone' = undone
    PROVE  /\ PhaseOf[r] = Phase(from)
           /\ PhaseOf' = [PhaseOf EXCEPT ![r] = Phase(to)]
           /\ HeldOf' = HeldOf
  BY DEF IInv, TypeOK, Goto, PhaseOf, HeldOf

\* Every step of the engine is a step of SagaContract or leaves what it sees alone.
LEMMA StepSimulation == IInv /\ [Next]_vars => [Contract!Next]_(Contract!cvars)
<1> SUFFICES ASSUME IInv, [Next]_vars
             PROVE  Contract!Next \/ UNCHANGED <<PhaseOf, HeldOf>>
  BY DEF Contract!cvars, PhaseOf, HeldOf
<1> USE NAssumption DEF PC
<1>1. ASSUME NEW r \in Runs, Start(r) PROVE Contract!Begin(r)
  <2>1. /\ PhaseOf[r] = "idle" /\ HeldOf' = HeldOf
        /\ PhaseOf' = [PhaseOf EXCEPT ![r] = "forward"]
    BY <1>1, PhaseMove, PhaseOfPc DEF Start
  <2> QED
    BY <2>1 DEF Contract!Begin, Contract!Move, PhaseOf, HeldOf
<1>2. ASSUME NEW r \in Runs, ExecuteCall(r) PROVE UNCHANGED <<PhaseOf, HeldOf>>
  BY <1>2, Stutter, PhaseOfPc DEF ExecuteCall, history
<1>3. ASSUME NEW r \in Runs, ExecuteOk(r) PROVE Contract!Take(r)
  <2>1. pc[r] = "executing" /\ PhaseOf[r] = "forward" /\ HeldOf[r] < N
    BY <1>3, PhaseOfPc, HeldAtPc DEF ExecuteOk, Goto, PhaseOf
  <2>2. PhaseOf' = PhaseOf
    BY <1>3, PhaseOfPc DEF ExecuteOk, Goto, PhaseOf, IInv, TypeOK
  <2>3. HeldOf' = [HeldOf EXCEPT ![r] = @ + 1]
    <3>1. \A q \in Runs \ {r} : executed'[q] = executed[q] /\ undone' = undone
      BY <1>3 DEF ExecuteOk, IInv, TypeOK
    <3>2. Len(executed'[r]) = Len(executed[r]) + 1 /\ undone' = undone
      <4>1. cur[r] \in Step /\ executed[r] \in Seq(Step)
        BY <2>1, RunTypes DEF IInv, RunInv, CurAtPc, Step
      <4> QED
        BY <1>3, <4>1, AppendFacts DEF ExecuteOk, IInv, TypeOK
    <3>3. Len(executed[r]) \in Nat /\ Len(undone[r]) \in Nat
      BY RunTypes DEF IInv
    <3>4. HeldOf'[r] = HeldOf[r] + 1 /\ \A q \in Runs \ {r} : HeldOf'[q] = HeldOf[q]
      BY <3>1, <3>2, <3>3 DEF HeldOf
    <3> QED
      BY <3>4 DEF HeldOf
  <2> QED
    BY <2>1, <2>2, <2>3 DEF Contract!Take, PhaseOf, HeldOf
<1>4. ASSUME NEW r \in Runs, ExecuteErr(r) PROVE Contract!Turn(r)
  <2>1. HeldOf[r] < N
    BY <1>4, HeldAtPc DEF ExecuteErr, Goto
  <2>2. Goto(r, "executing", "stepFailed") /\ executed' = executed /\ undone' = undone
    BY <1>4 DEF ExecuteErr, history
  <2>3. /\ PhaseOf[r] = "forward" /\ PhaseOf' = [PhaseOf EXCEPT ![r] = "backward"]
        /\ HeldOf' = HeldOf
    BY <2>2, PhaseMove, PhaseOfPc DEF PC
  <2> QED
    BY <2>1, <2>3 DEF Contract!Turn, Contract!Move, PhaseOf, HeldOf
<1>5. ASSUME NEW r \in Runs, SaveStepDone(r) PROVE UNCHANGED <<PhaseOf, HeldOf>>
  BY <1>5, Stutter, PhaseOfPc DEF SaveStepDone
<1>6. ASSUME NEW r \in Runs, SaveCompleted(r) PROVE Contract!Commit(r)
  <2>1. cur[r] = N + 1
    <3>1. cur[r] > N
      BY <1>6 DEF SaveCompleted
    <3>2. cur[r] \in 1..(N + 1)
      BY RunTypes DEF IInv
    <3> QED
      BY <3>1, <3>2, NAssumption
  <2>2. HeldOf[r] = N
    <3>1. pc[r] = "execute"
      BY <1>6 DEF SaveCompleted, Goto
    <3>2. HeldOf[r] = cur[r] - 1
      BY <3>1, HeldAtPc
    <3> QED
      BY <2>1, <3>2
  <2>3. Goto(r, "execute", "completed") /\ executed' = executed /\ undone' = undone
    BY <1>6 DEF SaveCompleted
  <2>4. /\ PhaseOf[r] = "forward" /\ PhaseOf' = [PhaseOf EXCEPT ![r] = "committed"]
        /\ HeldOf' = HeldOf
    BY <2>3, PhaseMove, PhaseOfPc DEF PC
  <2> QED
    BY <2>2, <2>4 DEF Contract!Commit, Contract!Move, PhaseOf, HeldOf
<1>7. ASSUME NEW r \in Runs, SaveCompensating(r) PROVE UNCHANGED <<PhaseOf, HeldOf>>
  BY <1>7, Stutter, PhaseOfPc DEF SaveCompensating
<1>8. ASSUME NEW r \in Runs, CompensateCall(r) PROVE Contract!Give(r)
  <2>1. pc[r] = "compensate" /\ PhaseOf[r] = "backward" /\ HeldOf[r] > 0
    <3>1. pc[r] = "compensate" /\ back[r] >= 1 /\ back[r] \in Nat
      BY <1>8, RunTypes DEF CompensateCall, Goto, IInv
    <3>2. PhaseOf[r] = "backward"
      BY <3>1, PhaseOfPc DEF PhaseOf
    <3>3. HeldOf[r] = back[r]
      BY <3>1, HeldAtPc
    <3> QED
      BY <3>1, <3>2, <3>3
  <2>2. PhaseOf' = PhaseOf
    BY <1>8, PhaseOfPc DEF CompensateCall, Goto, PhaseOf, IInv, TypeOK
  <2>3. HeldOf' = [HeldOf EXCEPT ![r] = @ - 1]
    <3>1. \A q \in Runs \ {r} : undone'[q] = undone[q] /\ executed' = executed
      BY <1>8 DEF CompensateCall, IInv, TypeOK
    <3>2. Len(undone'[r]) = Len(undone[r]) + 1 /\ executed' = executed
      <4>1. completed[r][back[r]] \in Step /\ undone[r] \in Seq(Step)
        <5>1. back[r] \in 1..Len(completed[r])
          BY <1>8, <2>1, RunTypes DEF CompensateCall, IInv, RunInv, CompletedIsPrefix,
             UndoneIsSuffix
        <5> QED
          BY <5>1, RunTypes DEF IInv
      <4> QED
        BY <1>8, <4>1, AppendFacts DEF CompensateCall, IInv, TypeOK
    <3>3. Len(executed[r]) \in Nat /\ Len(undone[r]) \in Nat
      BY RunTypes DEF IInv
    <3>4. HeldOf'[r] = HeldOf[r] - 1
      <4>1. HeldOf'[r] = Len(executed[r]) - Len(undone'[r])
        BY <3>2 DEF HeldOf
      <4>2. HeldOf[r] = Len(executed[r]) - Len(undone[r])
        BY DEF HeldOf
      <4> QED
        BY <3>2, <3>3, <4>1, <4>2
    <3>5. \A q \in Runs \ {r} : HeldOf'[q] = HeldOf[q]
      BY <3>1 DEF HeldOf
    <3> QED
      BY <3>4, <3>5 DEF HeldOf
  <2> QED
    BY <2>1, <2>2, <2>3 DEF Contract!Give, PhaseOf, HeldOf
<1>9. ASSUME NEW r \in Runs, NEW ok \in BOOLEAN, CompensateReturn(r, ok)
      PROVE  UNCHANGED <<PhaseOf, HeldOf>>
  BY <1>9, Stutter, PhaseOfPc DEF CompensateReturn, history
<1>10. ASSUME NEW r \in Runs, SaveFailed(r) PROVE Contract!Abort(r)
  <2>1. HeldOf[r] = 0
    BY <1>10, HeldAtPc DEF SaveFailed, Goto
  <2> QED
    BY <1>10, <2>1, PhaseMove, PhaseOfPc
       DEF SaveFailed, Contract!Abort, Contract!Move, PhaseOf, HeldOf
<1>11. ASSUME Crash \/ UNCHANGED vars PROVE UNCHANGED <<PhaseOf, HeldOf>>
  BY <1>11 DEF Crash, vars, history, PhaseOf, HeldOf
<1>12. ASSUME NEW r \in Runs, Advance(r)
       PROVE  Contract!Next \/ UNCHANGED <<PhaseOf, HeldOf>>
  BY <1>1, <1>2, <1>3, <1>4, <1>5, <1>6, <1>7, <1>8, <1>9, <1>10, <1>12
     DEF Advance, Contract!Next
<1> QED
  BY <1>11, <1>12 DEF Next

\* Every behaviour of the engine is a behaviour of SagaContract: all steps or none,
\* one turn, nothing taken or given back twice.
THEOREM Refinement == Spec => ImplementsContract
<1>1. Init => Contract!Init
  BY PhaseOfPc DEF Init, Contract!Init
<1> QED
  BY <1>1, StepSimulation, Invariance, PTL DEF Spec, ImplementsContract, Contract!Spec

=============================================================================

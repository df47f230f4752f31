--------------------------- MODULE WorkflowEngine ---------------------------
(***************************************************************************)
(* workflow_engine.py: enrolment in a workflow, and the sweeps that move   *)
(* due executions through its steps.                                       *)
(*                                                                         *)
(* A sweep reads up to BatchLimit due WorkflowExecution rows at once and   *)
(* then works through its copies, one after the other.  No row is locked   *)
(* and none is read again, so two sweeps may hold one execution, and each  *)
(* save of a copy overwrites whatever the other did.  A copy is described  *)
(* by the position of its current_step (held); WorkflowStepRun rows are    *)
(* written and never read, and are left out.                               *)
(***************************************************************************)
EXTENDS Naturals, Sequences, FiniteSets

CONSTANTS
    NumExecs,       \* executions, numbered in the order of started_at
    Workers,        \* Celery workers
    Plans,          \* the step kinds of the executions' workflows
    BatchLimit,     \* process_due_executions(limit)
    BeatRuns,       \* is process_workflow_due_steps in beat's schedule?
    KicksMayFail,   \* may the broker refuse a task (logged, and forgotten)?
    MaxTasks,       \* bound: sweep tasks in the broker that are kept apart
    MaxCrashes      \* bound: crashes of workers in one behaviour

StepKinds == {"send", "wait", "end", "other"}

ASSUME WorkflowAssumption ==
    /\ NumExecs \in Nat /\ BatchLimit \in Nat \ {0}
    /\ IsFiniteSet(Workers)
    /\ Plans \subseteq [1..NumExecs -> Seq(StepKinds)]
    /\ BeatRuns \in BOOLEAN /\ KicksMayFail \in BOOLEAN
    /\ MaxTasks \in Nat \ {0} /\ MaxCrashes \in Nat

Execs == 1..NumExecs

VARIABLES
    plan,        \* the steps of an execution's workflow, in their order
    status,      \* WorkflowExecution.status ("absent": no row yet, "creating":
                 \*   row in the transaction of enroll_workflow)
    step,        \* current_step as a position in plan; one past the end is NULL
    nextRun,     \* next_run_at against the clock: "later" or "due"
    enrollment,  \* WorkflowEnrollment.status
    sends,       \* messages that create_templated_message made for a step
    tasks,       \* process_workflow_due_steps tasks ready in the broker
    alarm,       \* executions a task with a countdown waits for
    pc, cur,     \* where a worker is, and the execution it is working on (0: none)
    held,        \* current_step in the worker's copy of a row, 0: not in its batch
    elapsed,     \* history: waiting steps whose next_run_at was reached
    overlapped,  \* history: executions two sweeps held at once
    resent,      \* history: executions whose worker died between send and save
    crashes      \* number of crashes so far

rowVars == <<status, step, nextRun, enrollment>>
brokerVars == <<tasks, alarm>>
workerVars == <<pc, cur, held>>
vars == <<plan, rowVars, sends, brokerVars, workerVars, elapsed, overlapped,
          resent, crashes>>

NoStep(e) == Len(plan[e]) + 1

Ended == {"completed", "failed"}

Pending == {"running", "waiting"}

Idle == [e \in Execs |-> 0]

Init ==
    /\ plan \in Plans
    /\ status = [e \in Execs |-> "absent"]
    /\ step = [e \in Execs |-> 1]
    /\ nextRun = [e \in Execs |-> "due"]
    /\ enrollment = [e \in Execs |-> "active"]
    /\ sends = [e \in Execs |-> [i \in DOMAIN plan[e] |-> 0]]
    /\ tasks = 0
    /\ alarm = {}
    /\ pc = [w \in Workers |-> "idle"]
    /\ cur = [w \in Workers |-> 0]
    /\ held = [w \in Workers |-> Idle]
    /\ elapsed = {}
    /\ overlapped = {}
    /\ resent = {}
    /\ crashes = 0

----------------------------------------------------------------------------
(* Enrolment, and what starts a sweep                                      *)

\* Tasks above MaxTasks are not kept apart: sweeps differ in nothing.
PutTask == tasks' = IF tasks < MaxTasks THEN tasks + 1 ELSE tasks

\* _kick_workflow_sweep_soon: what the broker raises is swallowed.
Kick == PutTask \/ (KicksMayFail /\ UNCHANGED tasks)
KickLater(e) == alarm' = alarm \cup {e} \/ (KicksMayFail /\ UNCHANGED alarm)

\* get_or_create inside the transaction, then the kick, still inside it.  A
\* workflow without steps is a ValueError: the enrolment stays, no execution.
\* Rows get their started_at in the order of their numbers.
EnrollWorkflow(e) ==
    /\ status[e] = "absent" /\ plan[e] # <<>>
    /\ \A f \in Execs : f < e => status[f] # "absent"
    /\ status' = [status EXCEPT ![e] = "creating"]
    /\ Kick
    /\ UNCHANGED <<plan, step, nextRun, enrollment, sends, alarm, workerVars,
                   elapsed, overlapped, resent, crashes>>

\* A web process that dies before leaves an invisible row, as a rollback does.
EnrollCommit(e) ==
    /\ status[e] = "creating"
    /\ status' = [status EXCEPT ![e] = "running"]
    /\ UNCHANGED <<plan, step, nextRun, enrollment, sends, brokerVars, workerVars,
                   elapsed, overlapped, resent, crashes>>

Beat ==
    /\ BeatRuns /\ tasks < MaxTasks
    /\ PutTask
    /\ UNCHANGED <<plan, rowVars, sends, alarm, workerVars, elapsed, overlapped,
                   resent, crashes>>

RunTimeComes(e) ==
    /\ nextRun[e] = "later"
    /\ nextRun' = [nextRun EXCEPT ![e] = "due"]
    /\ elapsed' = elapsed \cup {<<e, step[e]>>}
    /\ UNCHANGED <<plan, status, step, enrollment, sends, brokerVars, workerVars,
                   overlapped, resent, crashes>>

\* apply_async(countdown): counted from after the save, so next_run_at is past.
AlarmRings(e) ==
    /\ e \in alarm /\ nextRun[e] = "due"
    /\ alarm' = alarm \ {e}
    /\ PutTask
    /\ UNCHANGED <<plan, rowVars, sends, workerVars, elapsed, overlapped, resent,
                   crashes>>

----------------------------------------------------------------------------
(* process_due_executions                                                  *)

\* Variant: the status is not looked at.
AnyDue == {e \in Execs : status[e] \notin {"absent", "creating"} /\ nextRun[e] = "due"}

\* Variant: waiting executions are not looked for.
RunningAndDue == {e \in Execs : status[e] = "running" /\ nextRun[e] = "due"}

DueExecutions == {e \in Execs : status[e] \in Pending /\ nextRun[e] = "due"}

\* Meta.ordering is -started_at, so the limit takes the newest ones.
Newest(S) == {e \in S : Cardinality({f \in S : f > e}) < BatchLimit}

\* The rows still to do, and the newest of them as the one being worked on.
Take(w, copies) ==
    /\ held' = [held EXCEPT ![w] = copies]
    /\ \/ /\ copies = Idle
          /\ pc' = [pc EXCEPT ![w] = "idle"]
          /\ cur' = [cur EXCEPT ![w] = 0]
       \/ \E e \in Execs :
          /\ copies[e] # 0 /\ \A f \in Execs : f > e => copies[f] = 0
          /\ pc' = [pc EXCEPT ![w] = "at"]
          /\ cur' = [cur EXCEPT ![w] = e]

\* A sweep with nothing to do ends at once.
SweepNothing(w) ==
    /\ pc[w] = "idle" /\ tasks > 0
    /\ DueExecutions = {}
    /\ tasks' = tasks - 1
    /\ UNCHANGED <<plan, rowVars, sends, alarm, workerVars, elapsed, overlapped,
                   resent, crashes>>

Sweep(w) ==
    /\ pc[w] = "idle" /\ tasks > 0
    /\ DueExecutions # {}
    /\ tasks' = tasks - 1
    /\ Take(w, [e \in Execs |-> IF e \in Newest(DueExecutions) THEN step[e] ELSE 0])
    /\ overlapped' = overlapped \cup {e \in Newest(DueExecutions) :
                                        \E v \in Workers : held[v][e] # 0}
    /\ UNCHANGED <<plan, rowVars, sends, alarm, elapsed, resent, crashes>>

\* The worker is done with its row.
RowDone(w) == Take(w, [held[w] EXCEPT ![cur[w]] = 0])

\* The step its copy of the row names, and the kind of that step.
Here(w) == held[w][cur[w]]
Kind(w) == plan[cur[w]][Here(w)]
AtStep(w, kind) == Here(w) # NoStep(cur[w]) /\ Kind(w) = kind

\* Variant: the step after the next one.
StepAfterNext(w) == IF Here(w) + 2 <= NoStep(cur[w]) THEN Here(w) + 2 ELSE NoStep(cur[w])

\* next_linear_step: the step of the next higher order, or None.
NextStep(w) == Here(w) + 1

----------------------------------------------------------------------------
(* _process_one_execution, one branch after the other                      *)

\* Where it calls _complete without a save of its own before.
IsOver(w) ==
    \/ pc[w] = "at" /\ Here(w) = NoStep(cur[w])
    \/ pc[w] = "at" /\ AtStep(w, "end")
    \/ pc[w] = "at" /\ AtStep(w, "other") /\ NextStep(w) = NoStep(cur[w])
    \/ pc[w] = "sent" /\ NextStep(w) = NoStep(cur[w])

\* _complete, first save: next_run_at keeps its value.
Complete(w) ==
    /\ IsOver(w)
    /\ status' = [status EXCEPT ![cur[w]] = "completed"]
    /\ step' = [step EXCEPT ![cur[w]] = NoStep(cur[w])]
    /\ pc' = [pc EXCEPT ![w] = "closing"]
    /\ UNCHANGED <<plan, nextRun, enrollment, sends, brokerVars, cur, held,
                   elapsed, overlapped, resent, crashes>>

\* _complete, second save.
CloseEnrollment(w) ==
    /\ pc[w] = "closing"
    /\ enrollment' = [enrollment EXCEPT ![cur[w]] = "completed"]
    /\ RowDone(w)
    /\ UNCHANGED <<plan, status, step, nextRun, sends, brokerVars, elapsed,
                   overlapped, resent, crashes>>

\* The save of a new current_step that is due at once, and the recursive call.
MoveOn(w) ==
    /\ step' = [step EXCEPT ![cur[w]] = NextStep(w)]
    /\ nextRun' = [nextRun EXCEPT ![cur[w]] = "due"]
    /\ held' = [held EXCEPT ![w][cur[w]] = NextStep(w)]
    /\ pc' = [pc EXCEPT ![w] = "at"]

\* WAIT_DURATION as the current step: its time has come.
PassWait(w) ==
    /\ pc[w] = "at" /\ AtStep(w, "wait")
    /\ MoveOn(w)
    /\ status' = [status EXCEPT ![cur[w]] = "running"]
    /\ UNCHANGED <<plan, enrollment, sends, brokerVars, cur, elapsed, overlapped,
                   resent, crashes>>

\* A branch, a tag, a conditional unsubscribe: passed over, status not saved.
PassOther(w) ==
    /\ pc[w] = "at" /\ AtStep(w, "other") /\ NextStep(w) # NoStep(cur[w])
    /\ MoveOn(w)
    /\ UNCHANGED <<plan, status, enrollment, sends, brokerVars, cur, elapsed,
                   overlapped, resent, crashes>>

\* create_templated_message committed a message, QUEUED or SUPPRESSED.
SendTemplate(w) ==
    /\ pc[w] = "at" /\ AtStep(w, "send")
    /\ sends' = [sends EXCEPT ![cur[w]][Here(w)] = @ + 1]
    /\ pc' = [pc EXCEPT ![w] = "sent"]
    /\ UNCHANGED <<plan, rowVars, brokerVars, cur, held, elapsed, overlapped,
                   resent, crashes>>

NextIs(w, kind) == NextStep(w) # NoStep(cur[w]) /\ plan[cur[w]][NextStep(w)] = kind

\* Variant: the wait is entered, but next_run_at is left as it was.
WaitWithoutTime(w) ==
    /\ pc[w] = "sent" /\ NextIs(w, "wait")
    /\ step' = [step EXCEPT ![cur[w]] = NextStep(w)]
    /\ status' = [status EXCEPT ![cur[w]] = "waiting"]
    /\ KickLater(cur[w])
    /\ RowDone(w)
    /\ UNCHANGED <<plan, nextRun, enrollment, sends, tasks, elapsed, overlapped,
                   resent, crashes>>

\* The step after a send is a wait: WAITING until now + wait_seconds, which is
\* now when wait_seconds is 0 or NULL, and a task with that countdown.
StartWait(w) ==
    /\ pc[w] = "sent" /\ NextIs(w, "wait")
    /\ step' = [step EXCEPT ![cur[w]] = NextStep(w)]
    /\ \/ /\ nextRun' = [nextRun EXCEPT ![cur[w]] = "later"]
          /\ UNCHANGED elapsed
       \/ /\ nextRun' = [nextRun EXCEPT ![cur[w]] = "due"]
          /\ elapsed' = elapsed \cup {<<cur[w], NextStep(w)>>}
    /\ status' = [status EXCEPT ![cur[w]] = "waiting"]
    /\ KickLater(cur[w])
    /\ RowDone(w)
    /\ UNCHANGED <<plan, enrollment, sends, tasks, overlapped, resent, crashes>>

\* Any other step after a send.
AfterSend(w) ==
    /\ pc[w] = "sent" /\ NextStep(w) # NoStep(cur[w]) /\ ~NextIs(w, "wait")
    /\ MoveOn(w)
    /\ status' = [status EXCEPT ![cur[w]] = "running"]
    /\ UNCHANGED <<plan, enrollment, sends, brokerVars, cur, elapsed, overlapped,
                   resent, crashes>>

\* A missing template, a message that could not be rendered, a failed save:
\* FAILED is saved, whatever the row has become.
MarkFailed(w) ==
    /\ pc[w] \in {"at", "sent", "closing"}
    /\ status' = [status EXCEPT ![cur[w]] = "failed"]
    /\ RowDone(w)
    /\ UNCHANGED <<plan, step, nextRun, enrollment, sends, brokerVars, elapsed,
                   overlapped, resent, crashes>>

\* A worker dies; its task was acknowledged when it was delivered.
Crash(w) ==
    /\ pc[w] # "idle" /\ crashes < MaxCrashes
    /\ crashes' = crashes + 1
    /\ resent' = IF pc[w] = "sent" THEN resent \cup {cur[w]} ELSE resent
    /\ pc' = [pc EXCEPT ![w] = "idle"]
    /\ cur' = [cur EXCEPT ![w] = 0]
    /\ held' = [held EXCEPT ![w] = Idle]
    /\ UNCHANGED <<plan, rowVars, sends, brokerVars, elapsed, overlapped>>

----------------------------------------------------------------------------

StartSweep(w) == SweepNothing(w) \/ Sweep(w)

\* What a worker does once it has a batch, failures apart.
Process(w) ==
    \/ Complete(w) \/ CloseEnrollment(w)
    \/ PassWait(w) \/ PassOther(w)
    \/ SendTemplate(w) \/ StartWait(w) \/ AfterSend(w)

Next ==
    \/ Beat
    \/ \E e \in Execs :
        EnrollWorkflow(e) \/ EnrollCommit(e) \/ RunTimeComes(e) \/ AlarmRings(e)
    \/ \E w \in Workers :
        StartSweep(w) \/ Process(w) \/ MarkFailed(w) \/ Crash(w)

Spec == Init /\ [][Next]_vars

\* Workers go on with what they began, take tasks that are ready, clocks go on,
\* and beat, if it knows the task, never stops queueing it.
Fairness ==
    /\ WF_vars(Beat)
    /\ \A e \in Execs : WF_vars(RunTimeComes(e)) /\ WF_vars(AlarmRings(e))
    /\ \A w \in Workers : WF_vars(Process(w) \/ MarkFailed(w)) /\ WF_vars(StartSweep(w))

FairSpec == Spec /\ Fairness

----------------------------------------------------------------------------
(* Properties                                                              *)

\* Types, and the shape of a worker: it works on a row of its batch, a batch
\* names steps of the workflow, an idle worker holds nothing.
TypeOK ==
    /\ plan \in Plans
    /\ status \in [Execs -> {"absent", "creating"} \cup Pending \cup Ended]
    /\ step \in [Execs -> Nat] /\ \A e \in Execs : step[e] \in 1..NoStep(e)
    /\ nextRun \in [Execs -> {"later", "due"}]
    /\ enrollment \in [Execs -> {"active", "completed"}]
    /\ DOMAIN sends = Execs
    /\ \A e \in Execs : sends[e] \in [DOMAIN plan[e] -> Nat]
    /\ tasks \in 0..MaxTasks /\ alarm \subseteq Execs
    /\ pc \in [Workers -> {"idle", "at", "sent", "closing"}]
    /\ cur \in [Workers -> {0} \cup Execs]
    /\ held \in [Workers -> [Execs -> Nat]]
    /\ \A w \in Workers : \A e \in Execs : held[w][e] \in 0..NoStep(e)
    /\ \A w \in Workers :
        /\ pc[w] = "idle" <=> cur[w] = 0
        /\ pc[w] = "idle" => held[w] = Idle
        /\ cur[w] # 0 => held[w][cur[w]] # 0
        /\ pc[w] = "sent" => AtStep(w, "send")
    /\ overlapped \subseteq Execs /\ resent \subseteq Execs
    /\ elapsed \subseteq Execs \X Nat
    /\ crashes \in 0..MaxCrashes

Reachable(e, i) == \A j \in 1..(i - 1) : plan[e][j] # "end"

\* Steps are taken in their order and none is left out: a message for a step
\* means one for every send step before it, an execution that has passed a send
\* step has made its message, and nothing is sent after an END.  This holds
\* whatever copies of a row are saved over each other.
NothingSkipped ==
    \A e \in Execs : \A i \in DOMAIN plan[e] :
        /\ /\ plan[e][i] = "send" /\ Reachable(e, i)
           /\ \/ i < step[e]
              \/ \E j \in DOMAIN plan[e] : j > i /\ sends[e][j] > 0
           => sends[e][i] > 0
        /\ sends[e][i] > 0 => Reachable(e, i)

\* A step is sent once, unless two sweeps held the execution at the same time or
\* a worker died after the message was committed and before the step was left
\* (neither create_templated_message nor the row can tell).
OneSendPerStep ==
    \A e \in Execs \ (overlapped \cup resent) :
        \A i \in DOMAIN plan[e] : sends[e][i] <= 1

\* A wait that follows a send is kept: the step after it is not sent before the
\* time that was set, also when the wait was entered from an old copy.
WaitIsKept ==
    \A e \in Execs : \A i \in DOMAIN plan[e] :
        i > 2 /\ plan[e][i - 2] = "send" /\ plan[e][i - 1] = "wait" /\ sends[e][i] > 0
            => <<e, i - 1>> \in elapsed

\* An enrolment is closed only by an execution that completed, and that stays
\* so, unless another sweep still saves its copy of the execution.
EnrollmentAgrees ==
    \A e \in Execs \ overlapped :
        enrollment[e] = "completed" => status[e] = "completed"

\* An execution that completed or failed is not taken up again, unless another
\* sweep already held it.
StaysEnded ==
    [][\A e \in Execs \ overlapped' : status[e] \in Ended => status'[e] \in Ended]_vars

\* Every enrolled execution comes to an end and stays there: neither the limit on
\* a batch, nor a lost task, nor a copy saved over a later row, nor a dead worker
\* keeps it from being swept again.
AlwaysEnds ==
    \A e \in Execs : status[e] = "running" ~> [](status[e] \in Ended)
=============================================================================

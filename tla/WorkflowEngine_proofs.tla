----------------------- MODULE WorkflowEngine_proofs -----------------------
(* Proofs about WorkflowEngine, for any number of executions and workers,   *)
(* any workflows, batch limit and number of crashes.                        *)
EXTENDS WorkflowEngine, TLAPS

----------------------------------------------------------------------------
(* Types                                                                   *)

\* What TypeOK says of workers, with the bounds on their copies as a parameter.
Workforce ==
    /\ pc \in [Workers -> {"idle", "at", "sent", "closing"}]
    /\ cur \in [Workers -> {0} \cup Execs]
    /\ held \in [Workers -> [Execs -> Nat]]
    /\ \A w \in Workers :
        /\ pc[w] = "idle" <=> cur[w] = 0
        /\ pc[w] = "idle" => held[w] = Idle
        /\ cur[w] # 0 => held[w][cur[w]] # 0

\* The positions of a workflow's steps, and the one past the end.
LEMMA Positions ==
    ASSUME TypeOK, NEW e \in Execs
    PROVE  /\ NoStep(e) \in Nat \ {0}
           /\ DOMAIN plan[e] = 1..(NoStep(e) - 1)
           /\ plan[e] \in Seq(StepKinds)
           /\ DOMAIN plan[e] = 1..Len(plan[e]) /\ NoStep(e) = Len(plan[e]) + 1
  <1>1. plan[e] \in Seq(StepKinds)
    BY WorkflowAssumption DEF TypeOK, Execs
  <1> QED BY <1>1 DEF NoStep

\* A worker between its rows is well formed.
LEMMA TakeTypes ==
    ASSUME Workforce, NEW w \in Workers, NEW copies \in [Execs -> Nat], Take(w, copies)
    PROVE  Workforce'
  <1>1. held' \in [Workers -> [Execs -> Nat]] /\ held'[w] = copies
    BY DEF Take, Workforce
  <1>2. CASE copies = Idle /\ pc' = [pc EXCEPT ![w] = "idle"] /\ cur' = [cur EXCEPT ![w] = 0]
    BY <1>1, <1>2 DEF Take, Workforce, Idle, Execs
  <1>3. CASE \E e \in Execs : /\ copies[e] # 0
                              /\ pc' = [pc EXCEPT ![w] = "at"]
                              /\ cur' = [cur EXCEPT ![w] = e]
    <2> PICK e \in Execs : /\ copies[e] # 0
                           /\ pc' = [pc EXCEPT ![w] = "at"]
                           /\ cur' = [cur EXCEPT ![w] = e]
      BY <1>3
    <2> QED BY <1>1 DEF Take, Workforce, Idle, Execs
  <1> QED BY <1>2, <1>3 DEF Take

\* The copy a worker is working on, and what a working worker is.
LEMMA Working ==
    ASSUME TypeOK, NEW w \in Workers, pc[w] # "idle"
    PROVE  /\ cur[w] \in Execs
           /\ Here(w) \in 1..NoStep(cur[w])
           /\ held[w][cur[w]] = Here(w)
  <1>1. cur[w] \in Execs
    BY DEF TypeOK
  <1> QED BY <1>1, Positions DEF TypeOK, Here

\* TypeOK is the types of rows and broker, Workforce, and the bounds on copies.
Rows ==
    /\ plan \in Plans
    /\ status \in [Execs -> {"absent", "creating"} \cup Pending \cup Ended]
    /\ step \in [Execs -> Nat] /\ \A e \in Execs : step[e] \in 1..NoStep(e)
    /\ nextRun \in [Execs -> {"later", "due"}]
    /\ enrollment \in [Execs -> {"active", "completed"}]

Rest ==
    /\ DOMAIN sends = Execs
    /\ \A e \in Execs : sends[e] \in [DOMAIN plan[e] -> Nat]
    /\ tasks \in 0..MaxTasks /\ alarm \subseteq Execs
    /\ overlapped \subseteq Execs /\ resent \subseteq Execs
    /\ elapsed \subseteq Execs \X Nat
    /\ crashes \in 0..MaxCrashes

Copies == \A w \in Workers : \A e \in Execs : held[w][e] \in 0..NoStep(e)

JustSent == \A w \in Workers : pc[w] = "sent" => AtStep(w, "send")

\* TypeOK by its parts, so that a step need only look at those it disturbs.
LEMMA TypeParts == TypeOK <=> Rows /\ Rest /\ Workforce /\ Copies /\ JustSent
  BY DEF TypeOK, Rows, Rest, Workforce, Copies, JustSent

\* The same after a step.
LEMMA TypePartsNext == TypeOK' <=> Rows' /\ Rest' /\ Workforce' /\ Copies' /\ JustSent'
  BY DEF TypeOK, Rows, Rest, Workforce, Copies, JustSent

\* No step changes a workflow, so positions keep their meaning.
LEMMA PlanFixed ==
    ASSUME plan' = plan
    PROVE  \A e : NoStep(e)' = NoStep(e)
  BY DEF NoStep

\* Only SendTemplate brings a worker behind a send.
LEMMA StillSent ==
    ASSUME TypeOK, plan' = plan, NEW w \in Workers, pc'[w] # "sent",
           \A v \in Workers \ {w} : pc'[v] = pc[v] /\ cur'[v] = cur[v] /\ held'[v] = held[v]
    PROVE  JustSent'
  <1> SUFFICES ASSUME NEW v \in Workers, pc'[v] = "sent"
               PROVE  AtStep(v, "send")'
    BY DEF JustSent
  <1>1. v # w /\ pc[v] = "sent" /\ cur'[v] = cur[v] /\ held'[v] = held[v]
    OBVIOUS
  <1>2. AtStep(v, "send")
    BY <1>1 DEF TypeOK
  <1> QED BY <1>1, <1>2 DEF AtStep, Here, Kind, NoStep

\* Nor does a step that leaves the workers alone.
LEMMA SentUnchanged ==
    ASSUME TypeOK, plan' = plan, workerVars' = workerVars
    PROVE  JustSent'
  <1>1. pc' = pc /\ cur' = cur /\ held' = held
    BY DEF workerVars
  <1> QED BY <1>1 DEF TypeOK, JustSent, AtStep, Here, Kind, NoStep

\* Taking a row off the batch keeps the copies within the workflow.
LEMMA RowDoneTypes ==
    ASSUME TypeOK, NEW w \in Workers, pc[w] # "idle", RowDone(w), plan' = plan
    PROVE  Workforce' /\ Copies' /\ JustSent'
  <1> DEFINE copies == [held[w] EXCEPT ![cur[w]] = 0]
  <1>1. cur[w] \in Execs /\ copies \in [Execs -> Nat] /\ Workforce /\ Copies
    BY Working, TypeParts DEF Workforce
  <1>2. Take(w, copies)
    BY DEF RowDone
  <1>3. Workforce'
    BY <1>1, <1>2, TakeTypes
  <1>4. held' = [held EXCEPT ![w] = copies]
    BY <1>2 DEF Take
  <1>5. ASSUME NEW v \in Workers, NEW e \in Execs PROVE held'[v][e] \in 0..NoStep(e)
    BY <1>1, <1>4, Positions DEF Copies, Workforce
  <1>6. Copies'
    BY <1>5, PlanFixed DEF Copies
  <1>7. JustSent'
    BY <1>1, <1>2, StillSent DEF Take, Workforce
  <1> QED BY <1>3, <1>6, <1>7

\* The type invariant holds at first.
LEMMA TypedInit == Init => TypeOK
  <1> SUFFICES ASSUME Init PROVE TypeOK
    OBVIOUS
  <1>1. ASSUME NEW e \in Execs PROVE NoStep(e) \in Nat \ {0}
    <2>1. plan[e] \in Seq(StepKinds)
      BY WorkflowAssumption DEF Init, Execs
    <2> QED BY <2>1 DEF NoStep
  <1>2. Rows
    BY <1>1 DEF Init, Rows, Pending, Ended
  <1>3. Rest
    BY WorkflowAssumption DEF Init, Rest
  <1>4. Idle \in [Execs -> Nat]
    BY DEF Idle
  <1>5. Workforce
    BY <1>4 DEF Init, Workforce
  <1>6. Copies
    BY <1>1 DEF Init, Copies, Idle
  <1>7. JustSent
    BY DEF Init, JustSent
  <1> QED BY <1>2, <1>3, <1>5, <1>6, <1>7, TypeParts

\* Every step keeps the types, action by action.
LEMMA TypedStep == TypeOK /\ [Next]_vars => TypeOK'
  <1> SUFFICES ASSUME TypeOK, [Next]_vars PROVE TypeOK'
    OBVIOUS
  <1> USE WorkflowAssumption
  <1>a. Rows /\ Rest /\ Workforce /\ Copies /\ JustSent
    BY TypeParts
  <1>b. \A e \in Execs : NoStep(e) \in Nat \ {0} /\ DOMAIN plan[e] = 1..(NoStep(e) - 1)
    BY Positions
  <1>c. ASSUME plan' = plan,
               status' \in [Execs -> {"absent", "creating"} \cup Pending \cup Ended],
               step' \in [Execs -> Nat], \A e \in Execs : step'[e] \in 1..NoStep(e),
               nextRun' \in [Execs -> {"later", "due"}],
               enrollment' \in [Execs -> {"active", "completed"}]
        PROVE  Rows'
    BY <1>a, <1>c, PlanFixed DEF Rows
  <1>d. plan' = plan /\ held' = held => Copies'
    BY <1>a, PlanFixed DEF Copies
  <1>e. plan' = plan /\ workerVars' = workerVars => Workforce' /\ JustSent'
    BY <1>a, SentUnchanged DEF Workforce, workerVars
  <1>f. ASSUME NEW w \in Workers, pc[w] # "idle"
        PROVE  /\ cur[w] \in Execs /\ Here(w) \in 1..NoStep(cur[w])
               /\ Here(w) # NoStep(cur[w]) => /\ NextStep(w) \in 1..NoStep(cur[w])
                                              /\ Here(w) \in DOMAIN plan[cur[w]]
    BY <1>f, <1>b, Working DEF NextStep
  <1> HIDE DEF TypeOK
  <1> USE DEF Pending, Ended, rowVars, brokerVars, workerVars
  <1>1. ASSUME NEW e \in Execs, EnrollWorkflow(e) PROVE TypeOK'
    <2> USE <1>1 DEF EnrollWorkflow, Kick, PutTask
    <2>1. Rows'  BY <1>a, <1>c DEF Rows
    <2>2. Rest'  BY <1>a DEF Rest
    <2> QED BY <2>1, <2>2, <1>d, <1>e, TypePartsNext
  <1>2. ASSUME NEW e \in Execs, EnrollCommit(e) PROVE TypeOK'
    <2> USE <1>2 DEF EnrollCommit
    <2>1. Rows'  BY <1>a, <1>c DEF Rows
    <2>2. Rest'  BY <1>a DEF Rest
    <2> QED BY <2>1, <2>2, <1>d, <1>e, TypePartsNext
  <1>3. CASE Beat
    <2> USE <1>3 DEF Beat, PutTask
    <2>1. Rows'  BY <1>a, <1>c DEF Rows
    <2>2. Rest'  BY <1>a DEF Rest
    <2> QED BY <2>1, <2>2, <1>d, <1>e, TypePartsNext
  <1>4. ASSUME NEW e \in Execs, RunTimeComes(e) PROVE TypeOK'
    <2> USE <1>4 DEF RunTimeComes
    <2>1. Rows'  BY <1>a, <1>c DEF Rows
    <2>2. Rest'  BY <1>a DEF Rest, Rows
    <2> QED BY <2>1, <2>2, <1>d, <1>e, TypePartsNext
  <1>5. ASSUME NEW e \in Execs, AlarmRings(e) PROVE TypeOK'
    <2> USE <1>5 DEF AlarmRings, PutTask
    <2>1. Rows'  BY <1>a, <1>c DEF Rows
    <2>2. Rest'  BY <1>a DEF Rest
    <2> QED BY <2>1, <2>2, <1>d, <1>e, TypePartsNext
  <1>6. ASSUME NEW w \in Workers, SweepNothing(w) PROVE TypeOK'
    <2> USE <1>6 DEF SweepNothing
    <2>1. Rows'  BY <1>a, <1>c DEF Rows
    <2>2. Rest'  BY <1>a DEF Rest
    <2> QED BY <2>1, <2>2, <1>d, <1>e, TypePartsNext
  <1>7. ASSUME NEW w \in Workers, Sweep(w) PROVE TypeOK'
    <2> DEFINE copies == [e \in Execs |-> IF e \in Newest(DueExecutions) THEN step[e] ELSE 0]
    <2> USE <1>7 DEF Sweep
    <2>1. Rows'  BY <1>a, <1>c DEF Rows
    <2>2. Rest'  BY <1>a DEF Rest, Newest, DueExecutions
    <2>3. copies \in [Execs -> Nat] /\ \A e \in Execs : copies[e] \in 0..NoStep(e)
      BY <1>a, <1>b DEF Rows
    <2>4. Take(w, copies)
      OBVIOUS
    <2> HIDE DEF copies
    <2>5. Workforce'
      BY <2>3, <2>4, <1>a, TakeTypes
    <2>6. held' = [held EXCEPT ![w] = copies]
      BY <2>4 DEF Take
    <2>7. Copies'
      BY <2>3, <2>6, <1>a, PlanFixed DEF Copies, Workforce
    <2>8. JustSent'
      BY <2>4, <1>a, StillSent DEF Take, Workforce
    <2> QED BY <2>1, <2>2, <2>5, <2>7, <2>8, TypePartsNext
  <1>8. ASSUME NEW w \in Workers, Complete(w) PROVE TypeOK'
    <2> USE <1>8 DEF Complete
    <2>0. pc[w] \in {"at", "sent"}
      BY DEF IsOver
    <2>1. Rows'  BY <2>0, <1>a, <1>b, <1>c, <1>f DEF Rows
    <2>2. Rest'  BY <1>a DEF Rest
    <2>3. Workforce'  BY <2>0, <1>a DEF Workforce
    <2>4. JustSent'  BY <1>a, StillSent DEF Workforce
    <2> QED BY <2>1, <2>2, <2>3, <2>4, <1>d, TypePartsNext
  <1>9. ASSUME NEW w \in Workers, CloseEnrollment(w) PROVE TypeOK'
    <2> USE <1>9 DEF CloseEnrollment
    <2>1. Rows'  BY <1>a, <1>c, <1>f DEF Rows
    <2>2. Rest'  BY <1>a DEF Rest
    <2>3. pc[w] # "idle" /\ plan' = plan
      OBVIOUS
    <2> QED BY <2>1, <2>2, <2>3, RowDoneTypes, TypePartsNext
  <1>10. ASSUME NEW w \in Workers, pc[w] # "idle", Here(w) # NoStep(cur[w]), MoveOn(w),
                plan' = plan, UNCHANGED <<enrollment, cur>>,
                status' = status \/ status' = [status EXCEPT ![cur[w]] = "running"],
                UNCHANGED <<sends, brokerVars, elapsed, overlapped, resent, crashes>>
         PROVE  TypeOK'
    <2> USE <1>10 DEF MoveOn
    <2>a. step' \in [Execs -> Nat] /\ \A e \in Execs : step'[e] \in 1..NoStep(e)
      BY <1>a, <1>b, <1>f, step' = [step EXCEPT ![cur[w]] = NextStep(w)] DEF Rows
    <2>b. nextRun' \in [Execs -> {"later", "due"}]
      BY <1>a DEF Rows
    <2>c. status' \in [Execs -> {"absent", "creating"} \cup Pending \cup Ended]
      BY <1>a DEF Rows
    <2>1. Rows'  BY <2>a, <2>b, <2>c, <1>a, <1>c DEF Rows
    <2>2. Rest'  BY <1>a DEF Rest
    <2>3. Workforce'  BY <1>a, <1>f DEF Workforce
    <2>4. held' = [held EXCEPT ![w][cur[w]] = NextStep(w)]
      OBVIOUS
    <2>5. Copies'
      BY <2>4, <1>a, <1>b, <1>f, PlanFixed DEF Copies, Workforce
    <2>6. JustSent'
      BY <1>a, StillSent DEF Workforce
    <2> QED BY <2>1, <2>2, <2>3, <2>5, <2>6, TypePartsNext
  <1>11. ASSUME NEW w \in Workers, PassWait(w) PROVE TypeOK'
    BY <1>10, <1>11 DEF PassWait, AtStep
  <1>12. ASSUME NEW w \in Workers, PassOther(w) PROVE TypeOK'
    BY <1>10, <1>12 DEF PassOther, AtStep
  <1>13. ASSUME NEW w \in Workers, SendTemplate(w) PROVE TypeOK'
    <2> USE <1>13 DEF SendTemplate, AtStep
    <2>1. Rows'  BY <1>a, <1>c DEF Rows
    <2>2. Rest'  BY <1>a, <1>f DEF Rest
    <2>3. Workforce'  BY <1>a DEF Workforce
    <2>4. JustSent'
      BY <1>a DEF JustSent, AtStep, Here, Kind, NoStep, Workforce
    <2> QED BY <2>1, <2>2, <2>3, <2>4, <1>d, TypePartsNext
  <1>14. ASSUME NEW w \in Workers, StartWait(w) PROVE TypeOK'
    <2> USE <1>14 DEF StartWait
    <2>2. NextStep(w) \in 1..NoStep(cur[w])
      BY <1>a, <1>f DEF JustSent, AtStep
    <2>a. step' \in [Execs -> Nat] /\ \A e \in Execs : step'[e] \in 1..NoStep(e)
      BY <1>a, <1>b, <1>f, <2>2, step' = [step EXCEPT ![cur[w]] = NextStep(w)] DEF Rows
    <2>b. nextRun' \in [Execs -> {"later", "due"}]
      BY <1>a DEF Rows
    <2>c. status' \in [Execs -> {"absent", "creating"} \cup Pending \cup Ended]
      BY <1>a DEF Rows
    <2>3. Rows'  BY <2>a, <2>b, <2>c, <1>a, <1>c DEF Rows
    <2>4. Rest'  BY <2>2, <1>a, <1>b, <1>f DEF Rest, KickLater
    <2>5. pc[w] # "idle" /\ plan' = plan /\ RowDone(w)
      OBVIOUS
    <2> QED BY <2>3, <2>4, <2>5, RowDoneTypes, TypePartsNext
  <1>15. ASSUME NEW w \in Workers, AfterSend(w) PROVE TypeOK'
    BY <1>10, <1>15, <1>a DEF AfterSend, JustSent, AtStep
  <1>16. ASSUME NEW w \in Workers, MarkFailed(w) PROVE TypeOK'
    <2> USE <1>16 DEF MarkFailed
    <2>1. Rows'  BY <1>a, <1>c DEF Rows
    <2>2. Rest'  BY <1>a DEF Rest
    <2>3. pc[w] # "idle" /\ plan' = plan /\ RowDone(w)
      OBVIOUS
    <2> QED BY <2>1, <2>2, <2>3, RowDoneTypes, TypePartsNext
  <1>17. ASSUME NEW w \in Workers, Crash(w) PROVE TypeOK'
    <2> USE <1>17 DEF Crash
    <2>1. Rows'  BY <1>a, <1>c DEF Rows
    <2>2. Rest'  BY <1>a, <1>f DEF Rest
    <2>3. Idle \in [Execs -> Nat] /\ \A e \in Execs : Idle[e] = 0
      BY DEF Idle
    <2>4. Workforce'  BY <2>3, <1>a DEF Workforce
    <2>5. Copies'  BY <2>3, <1>a, <1>b, PlanFixed DEF Copies, Workforce
    <2>6. JustSent'  BY <1>a, StillSent DEF Workforce
    <2> QED BY <2>1, <2>2, <2>4, <2>5, <2>6, TypePartsNext
  <1>18. CASE UNCHANGED vars
    BY <1>18 DEF TypeOK, vars, NoStep, AtStep, Here, Kind
  <1> QED
    BY <1>1, <1>2, <1>3, <1>4, <1>5, <1>6, <1>7, <1>8, <1>9, <1>11, <1>12, <1>13,
       <1>14, <1>15, <1>16, <1>17, <1>18
    DEF Next, Process, StartSweep

----------------------------------------------------------------------------
(* What a worker changes besides its row                                   *)

\* A worker that takes a row works on one of its copies, and disturbs nobody.
LEMMA TakeFacts ==
    ASSUME TypeOK, NEW w \in Workers, NEW copies \in [Execs -> Nat], Take(w, copies)
    PROVE  /\ held' = [held EXCEPT ![w] = copies] /\ held'[w] = copies
           /\ pc'[w] \in {"idle", "at"}
           /\ cur'[w] # 0 => cur'[w] \in Execs /\ copies[cur'[w]] # 0
           /\ \A v \in Workers \ {w} :
                pc'[v] = pc[v] /\ cur'[v] = cur[v] /\ held'[v] = held[v]
  <1> QED BY DEF Take, TypeOK, Execs

\* The same of a worker that is done with a row.
LEMMA RowDoneFacts ==
    ASSUME TypeOK, NEW w \in Workers, pc[w] # "idle", RowDone(w)
    PROVE  /\ \A e \in Execs : held'[w][e] = IF e = cur[w] THEN 0 ELSE held[w][e]
           /\ pc'[w] \in {"idle", "at"}
           /\ cur'[w] # 0 => cur'[w] \in Execs /\ cur'[w] # cur[w] /\ held'[w][cur'[w]] # 0
           /\ \A v \in Workers \ {w} :
                pc'[v] = pc[v] /\ cur'[v] = cur[v] /\ held'[v] = held[v]
  <1> DEFINE copies == [held[w] EXCEPT ![cur[w]] = 0]
  <1>1. cur[w] \in Execs /\ held[w] \in [Execs -> Nat]
    BY Working DEF TypeOK
  <1>2. copies \in [Execs -> Nat] /\ Take(w, copies)
    BY <1>1 DEF RowDone
  <1> QED BY <1>1, <1>2, TakeFacts

\* Moving on changes the worker's copy of one row.
LEMMA MoveOnFacts ==
    ASSUME TypeOK, NEW w \in Workers, pc[w] # "idle", MoveOn(w), cur' = cur
    PROVE  /\ held'[w][cur[w]] = NextStep(w)
           /\ \A e \in Execs \ {cur[w]} : held'[w][e] = held[w][e]
           /\ pc'[w] = "at"
           /\ \A v \in Workers \ {w} : pc'[v] = pc[v] /\ held'[v] = held[v]
           /\ step'[cur[w]] = NextStep(w) /\ nextRun'[cur[w]] = "due"
           /\ \A e \in Execs \ {cur[w]} : step'[e] = step[e] /\ nextRun'[e] = nextRun[e]
  <1>1. cur[w] \in Execs
    BY Working
  <1> QED BY <1>1 DEF MoveOn, TypeOK

\* The steps of the environment, and sweeps that find nothing.
Quiet ==
    \/ Beat
    \/ \E e \in Execs :
        EnrollWorkflow(e) \/ EnrollCommit(e) \/ RunTimeComes(e) \/ AlarmRings(e)
    \/ \E w \in Workers : SweepNothing(w)
    \/ UNCHANGED vars

\* The three ways to the next step.
Moves(w) == PassWait(w) \/ PassOther(w) \/ AfterSend(w)

\* The two ways to leave a row as it is.
Leaves(w) == CloseEnrollment(w) \/ MarkFailed(w)

\* The cases of every proof below.
LEMMA NextCases ==
    ASSUME [Next]_vars
    PROVE  \/ Quiet
           \/ \E w \in Workers :
                \/ Sweep(w) \/ Complete(w) \/ Leaves(w) \/ Moves(w)
                \/ SendTemplate(w) \/ StartWait(w) \/ Crash(w)
  BY DEF Next, Process, StartSweep, Quiet, Moves, Leaves

\* What they have in common.
LEMMA QuietFacts ==
    ASSUME Quiet
    PROVE  UNCHANGED <<plan, step, enrollment, sends, pc, cur, held, overlapped, resent>>
  BY DEF Quiet, Beat, EnrollWorkflow, EnrollCommit, RunTimeComes, AlarmRings,
         SweepNothing, rowVars, workerVars, vars

\* A worker that moves on has a next step, and has sent the one it leaves.
LEMMA MovesFacts ==
    ASSUME TypeOK, NEW w \in Workers, Moves(w)
    PROVE  /\ pc[w] # "idle" /\ MoveOn(w)
           /\ UNCHANGED <<plan, enrollment, sends, cur, elapsed, overlapped, resent>>
           /\ Here(w) \in 1..Len(plan[cur[w]])
           /\ \/ Kind(w) = "wait" \/ Kind(w) = "other"
              \/ pc[w] = "sent" /\ Kind(w) = "send" /\ ~NextIs(w, "wait")
  <1>1. pc[w] # "idle" /\ AtStep(w, Kind(w))
    <2>1. CASE PassWait(w) \/ PassOther(w)
      BY <2>1 DEF PassWait, PassOther, AtStep
    <2>2. CASE AfterSend(w)
      <3>1. pc[w] = "sent" /\ AtStep(w, "send")
        BY <2>2 DEF AfterSend, TypeOK
      <3> QED BY <3>1 DEF AtStep
    <2> QED BY <2>1, <2>2 DEF Moves
  <1>2. plan[cur[w]] \in Seq(StepKinds) /\ Here(w) \in 1..NoStep(cur[w])
    <2>1. cur[w] \in Execs /\ Here(w) \in 1..NoStep(cur[w])
      BY <1>1, Working
    <2> QED BY <2>1, WorkflowAssumption DEF TypeOK, Execs
  <1>3. Here(w) \in 1..Len(plan[cur[w]])
    <2>1. Here(w) # Len(plan[cur[w]]) + 1
      BY <1>1 DEF AtStep, NoStep
    <2> QED BY <1>2, <2>1 DEF NoStep
  <1>4. pc[w] = "sent" => Kind(w) = "send"
    BY DEF TypeOK, AtStep
  <1> QED
    BY <1>1, <1>3, <1>4 DEF Moves, PassWait, PassOther, AfterSend, AtStep

----------------------------------------------------------------------------
(* Nothing is skipped                                                      *)

\* Of a workflow p, the messages s made for its steps and a position i.
ReachableIn(p, i) == \A j \in 1..(i - 1) : p[j] # "end"
PassedIn(p, s, i) == \A j \in 1..(i - 1) : p[j] = "send" /\ ReachableIn(p, j) => s[j] > 0
FineIn(p, s, i) == PassedIn(p, s, i) /\ (i = Len(p) + 1 \/ ReachableIn(p, i))

\* Messages are never taken back.
LEMMA FineGrows ==
    ASSUME NEW p, NEW s, NEW t, NEW i \in Nat, FineIn(p, s, i),
           \A j \in 1..(i - 1) : s[j] > 0 => t[j] > 0
    PROVE  FineIn(p, t, i)
  BY DEF FineIn, PassedIn

\* Taking a step.
LEMMA FineNext ==
    ASSUME NEW p \in Seq(StepKinds), NEW s, NEW i \in 1..Len(p), FineIn(p, s, i),
           p[i] # "end", p[i] = "send" => s[i] > 0
    PROVE  FineIn(p, s, i + 1)
  <1>1. ReachableIn(p, i)
    BY DEF FineIn
  <1>2. PassedIn(p, s, i + 1)
    BY DEF FineIn, PassedIn
  <1>3. ReachableIn(p, i + 1)
    BY <1>1 DEF ReachableIn
  <1> QED BY <1>2, <1>3 DEF FineIn

\* An END: nothing behind it can be reached.
LEMMA FineEnd ==
    ASSUME NEW p \in Seq(StepKinds), NEW s, NEW i \in 1..Len(p), FineIn(p, s, i),
           p[i] = "end"
    PROVE  FineIn(p, s, Len(p) + 1)
  <1> SUFFICES ASSUME NEW j \in 1..Len(p), p[j] = "send", ReachableIn(p, j)
               PROVE  s[j] > 0
    BY DEF FineIn, PassedIn
  <1>1. j < i
    BY DEF ReachableIn
  <1> QED BY <1>1 DEF FineIn, PassedIn

\* Rows, copies and messages are all Fine, whoever wrote them: that is why the
\* order of overlapping saves does not matter.
SkipInv ==
    /\ \A e \in Execs : FineIn(plan[e], sends[e], step[e])
    /\ \A w \in Workers : \A e \in Execs :
        held[w][e] # 0 => FineIn(plan[e], sends[e], held[w][e])
    /\ \A w \in Workers : pc[w] = "sent" => sends[cur[w]][Here(w)] > 0
    /\ \A e \in Execs : \A i \in DOMAIN plan[e] :
        sends[e][i] > 0 => ReachableIn(plan[e], i) /\ PassedIn(plan[e], sends[e], i)

\* Nothing is sent or held at first.
LEMMA SkipInit == Init => SkipInv
  <1> SUFFICES ASSUME Init, NEW e \in Execs PROVE FineIn(plan[e], sends[e], 1)
    BY DEF Init, SkipInv, Idle
  <1> QED BY DEF FineIn, PassedIn, ReachableIn

\* The invariant says what NothingSkipped does of rows and messages.
LEMMA SkipImplies == TypeOK /\ SkipInv => NothingSkipped
  <1> SUFFICES ASSUME TypeOK, SkipInv, NEW e \in Execs, NEW i \in DOMAIN plan[e]
               PROVE  /\ /\ plan[e][i] = "send" /\ Reachable(e, i)
                         /\ \/ i < step[e]
                            \/ \E j \in DOMAIN plan[e] : j > i /\ sends[e][j] > 0
                         => sends[e][i] > 0
                      /\ sends[e][i] > 0 => Reachable(e, i)
    BY DEF NothingSkipped
  <1>1. DOMAIN plan[e] = 1..(NoStep(e) - 1) /\ NoStep(e) \in Nat /\ step[e] \in Nat
    BY Positions DEF TypeOK
  <1>2. ReachableIn(plan[e], i) <=> Reachable(e, i)
    BY DEF ReachableIn, Reachable
  <1>3. ASSUME NEW k \in Nat, PassedIn(plan[e], sends[e], k), k > i,
               plan[e][i] = "send", ReachableIn(plan[e], i)
        PROVE  sends[e][i] > 0
    BY <1>1, <1>3 DEF PassedIn
  <1>4. PassedIn(plan[e], sends[e], step[e])
    BY DEF SkipInv, FineIn
  <1>5. \A j \in DOMAIN plan[e] : sends[e][j] > 0 => PassedIn(plan[e], sends[e], j)
    BY DEF SkipInv
  <1>6. sends[e][i] > 0 => Reachable(e, i)
    BY <1>2 DEF SkipInv
  <1>7. ASSUME plan[e][i] = "send", Reachable(e, i), i < step[e] PROVE sends[e][i] > 0
    BY <1>1, <1>2, <1>3, <1>4, <1>7
  <1>8. ASSUME plan[e][i] = "send", Reachable(e, i),
               NEW j \in DOMAIN plan[e], j > i, sends[e][j] > 0
        PROVE  sends[e][i] > 0
    BY <1>1, <1>2, <1>3, <1>5, <1>8
  <1> QED BY <1>6, <1>7, <1>8

\* Every step keeps it: what is saved, held or sent is Fine from the copy held.
LEMMA SkipStep == TypeOK /\ SkipInv /\ [Next]_vars => SkipInv'
  <1> SUFFICES ASSUME TypeOK, SkipInv, [Next]_vars PROVE SkipInv'
    OBVIOUS
  <1>p. \A e \in Execs : /\ plan[e] \in Seq(StepKinds)
                         /\ DOMAIN plan[e] = 1..Len(plan[e]) /\ NoStep(e) = Len(plan[e]) + 1
    BY Positions
  <1>w. ASSUME NEW w \in Workers, pc[w] # "idle"
        PROVE  /\ cur[w] \in Execs /\ Here(w) \in 1..(Len(plan[cur[w]]) + 1)
               /\ FineIn(plan[cur[w]], sends[cur[w]], Here(w))
               /\ held[w][cur[w]] = Here(w)
    BY <1>w, <1>p, Working, SMTT(30) DEF SkipInv, TypeOK
  <1>1. CASE Quiet
    <2>1. UNCHANGED <<plan, step, sends, pc, cur, held>>
      BY <1>1, QuietFacts
    <2> QED BY <2>1 DEF SkipInv, Here
  <1>2. ASSUME NEW w \in Workers, Sweep(w) PROVE SkipInv'
    <2> DEFINE copies == [e \in Execs |-> IF e \in Newest(DueExecutions) THEN step[e] ELSE 0]
    <2>1. UNCHANGED <<plan, step, sends>> /\ Take(w, copies)
      BY <1>2 DEF Sweep, rowVars
    <2>2. copies \in [Execs -> Nat]
      BY DEF TypeOK
    <2>3. \A e \in Execs : copies[e] # 0 => copies[e] = step[e]
      OBVIOUS
    <2> HIDE DEF copies
    <2> QED BY <2>1, <2>2, <2>3, TakeFacts DEF SkipInv, Here
  <1>3. ASSUME NEW w \in Workers, Complete(w) PROVE SkipInv'
    <2>1. UNCHANGED <<plan, sends, cur, held>> /\ IsOver(w) /\ pc[w] # "idle"
          /\ step' = [step EXCEPT ![cur[w]] = NoStep(cur[w])]
          /\ pc' = [pc EXCEPT ![w] = "closing"]
      BY <1>3 DEF Complete, IsOver
    <2>2. FineIn(plan[cur[w]], sends[cur[w]], NoStep(cur[w]))
      <3> DEFINE e == cur[w]
                 i == Here(w)
      <3>1. CASE i = NoStep(e)
        BY <3>1, <2>1, <1>w
      <3>2. CASE AtStep(w, "end")
        <4>1. i \in 1..Len(plan[e]) /\ plan[e][i] = "end"
          BY <3>2, <2>1, <1>w, <1>p DEF AtStep, Kind
        <4> HIDE DEF e, i
        <4> QED BY <4>1, <2>1, <1>w, <1>p, FineEnd DEF e, i
      <3>3. CASE AtStep(w, "other") /\ NextStep(w) = NoStep(e)
        <4>1. i \in 1..Len(plan[e]) /\ plan[e][i] = "other" /\ i + 1 = NoStep(e)
          BY <3>3, <2>1, <1>w, <1>p DEF AtStep, Kind, NextStep
        <4> QED BY <4>1, <2>1, <1>w, <1>p, FineNext
      <3>4. CASE pc[w] = "sent" /\ NextStep(w) = NoStep(e)
        <4>1. i \in 1..Len(plan[e]) /\ plan[e][i] = "send" /\ i + 1 = NoStep(e)
          BY <3>4, <2>1, <1>w, <1>p DEF AtStep, Kind, NextStep, TypeOK
        <4>2. sends[e][i] > 0
          BY <3>4 DEF SkipInv
        <4> QED BY <4>1, <4>2, <2>1, <1>w, <1>p, FineNext
      <3> QED BY <3>1, <3>2, <3>3, <3>4, <2>1 DEF IsOver
    <2>3. \A e \in Execs : FineIn(plan[e], sends[e], step'[e])
      BY <2>1, <2>2 DEF SkipInv, TypeOK
    <2>4. \A v \in Workers : pc'[v] = "sent" => pc[v] = "sent"
      BY <2>1 DEF TypeOK
    <2> QED BY <2>1, <2>3, <2>4 DEF SkipInv, Here
  <1>4. ASSUME NEW w \in Workers, Leaves(w) PROVE SkipInv'
    <2>1. UNCHANGED <<plan, step, sends>> /\ RowDone(w) /\ pc[w] # "idle"
      BY <1>4 DEF Leaves, CloseEnrollment, MarkFailed
    <2> QED BY <2>1, RowDoneFacts DEF SkipInv, Here
  <1>5. ASSUME NEW w \in Workers, Moves(w) PROVE SkipInv'
    <2>1. /\ pc[w] # "idle" /\ MoveOn(w) /\ UNCHANGED <<plan, sends, cur>>
          /\ Here(w) \in 1..Len(plan[cur[w]])
          /\ Kind(w) \in {"wait", "other"} \/ (pc[w] = "sent" /\ Kind(w) = "send")
      BY <1>5, MovesFacts
    <2>2. FineIn(plan[cur[w]], sends[cur[w]], NextStep(w))
      <3>1. plan[cur[w]][Here(w)] # "end"
        BY <2>1 DEF Kind
      <3>2. plan[cur[w]][Here(w)] = "send" => sends[cur[w]][Here(w)] > 0
        BY <2>1 DEF Kind, SkipInv
      <3> QED BY <2>1, <3>1, <3>2, <1>w, <1>p, FineNext DEF NextStep
    <2> QED BY <2>1, <2>2, <1>w, MoveOnFacts DEF SkipInv, Here
  <1>6. ASSUME NEW w \in Workers, SendTemplate(w) PROVE SkipInv'
    <2> DEFINE c == cur[w]
               i == Here(w)
    <2>1. /\ UNCHANGED <<plan, step, cur, held>> /\ pc[w] = "at" /\ AtStep(w, "send")
          /\ sends' = [sends EXCEPT ![c][i] = @ + 1]
          /\ pc' = [pc EXCEPT ![w] = "sent"]
      BY <1>6 DEF SendTemplate, rowVars
    <2>2. c \in Execs /\ i \in 1..Len(plan[c]) /\ FineIn(plan[c], sends[c], i)
      BY <2>1, <1>w, <1>p DEF AtStep
    <2> HIDE DEF c, i
    <2>3. /\ \A e \in Execs : sends[e] \in [1..Len(plan[e]) -> Nat]
          /\ DOMAIN sends = Execs
      BY <1>p DEF TypeOK
    <2>4. /\ sends'[c][i] > 0
          /\ \A e \in Execs : \A j \in DOMAIN plan[e] :
                /\ sends[e][j] > 0 => sends'[e][j] > 0
                /\ sends'[e][j] > 0 => sends[e][j] > 0 \/ (e = c /\ j = i)
      BY <2>1, <2>2, <2>3, <1>p
    <2>5. ASSUME NEW e \in Execs, NEW k \in 1..(Len(plan[e]) + 1), FineIn(plan[e], sends[e], k)
          PROVE  FineIn(plan[e], sends'[e], k)
      BY <2>4, <2>5, <1>p, FineGrows
    <2>6. ASSUME NEW e \in Execs, NEW k \in DOMAIN plan[e], PassedIn(plan[e], sends[e], k)
          PROVE  PassedIn(plan[e], sends'[e], k)
      BY <2>4, <2>6, <1>p DEF PassedIn
    <2>7. \A e \in Execs : FineIn(plan[e], sends'[e], step[e])
      BY <2>5, <1>p DEF SkipInv, TypeOK
    <2>8. \A v \in Workers : \A e \in Execs :
            held[v][e] # 0 => FineIn(plan[e], sends'[e], held[v][e])
      BY <2>5, <1>p DEF SkipInv, TypeOK
    <2>9. \A v \in Workers : pc'[v] = "sent" => sends'[cur[v]][Here(v)] > 0
      <3> SUFFICES ASSUME NEW v \in Workers, pc'[v] = "sent" PROVE sends'[cur[v]][Here(v)] > 0
        OBVIOUS
      <3>1. CASE v = w
        BY <3>1, <2>4 DEF c, i
      <3>2. CASE v # w
        <4>1. pc[v] = "sent" /\ AtStep(v, "send")
          BY <3>2, <2>1 DEF TypeOK
        <4>2. cur[v] \in Execs /\ Here(v) \in DOMAIN plan[cur[v]]
          BY <4>1, <1>w, <1>p DEF AtStep
        <4> QED BY <4>1, <4>2, <2>4 DEF SkipInv
      <3> QED BY <3>1, <3>2
    <2>10. ASSUME NEW e \in Execs, NEW j \in DOMAIN plan[e], sends'[e][j] > 0
           PROVE  ReachableIn(plan[e], j) /\ PassedIn(plan[e], sends'[e], j)
      <3>1. CASE sends[e][j] > 0
        BY <3>1, <2>6 DEF SkipInv
      <3>2. CASE e = c /\ j = i
        BY <3>2, <2>2, <2>6, <1>p DEF FineIn
      <3> QED BY <3>1, <3>2, <2>4, <2>10
    <2> QED BY <2>1, <2>7, <2>8, <2>9, <2>10 DEF SkipInv, Here
  <1>7. ASSUME NEW w \in Workers, StartWait(w) PROVE SkipInv'
    <2>1. /\ UNCHANGED <<plan, sends>> /\ RowDone(w) /\ pc[w] = "sent" /\ AtStep(w, "send")
          /\ step' = [step EXCEPT ![cur[w]] = NextStep(w)]
      BY <1>7 DEF StartWait, TypeOK
    <2>2. FineIn(plan[cur[w]], sends[cur[w]], NextStep(w))
      <3>0. cur[w] \in Execs /\ Here(w) \in 1..(Len(plan[cur[w]]) + 1)
        BY <2>1, <1>w
      <3>1. Here(w) \in 1..Len(plan[cur[w]]) /\ plan[cur[w]][Here(w)] = "send"
        BY <2>1, <3>0, <1>p DEF AtStep, Kind
      <3>2. sends[cur[w]][Here(w)] > 0
        BY <2>1 DEF SkipInv
      <3> QED BY <2>1, <3>1, <3>2, <1>w, <1>p, FineNext DEF NextStep
    <2>3. \A e \in Execs : FineIn(plan[e], sends[e], step'[e])
      BY <2>1, <2>2 DEF SkipInv, TypeOK
    <2> QED BY <2>1, <2>3, RowDoneFacts DEF SkipInv, Here
  <1>8. ASSUME NEW w \in Workers, Crash(w) PROVE SkipInv'
    <2>1. /\ UNCHANGED <<plan, step, sends>>
          /\ pc' = [pc EXCEPT ![w] = "idle"] /\ cur' = [cur EXCEPT ![w] = 0]
          /\ held' = [held EXCEPT ![w] = Idle]
      BY <1>8 DEF Crash, rowVars
    <2>2. \A v \in Workers : pc'[v] = "sent" =>
            pc[v] = "sent" /\ cur'[v] = cur[v] /\ held'[v] = held[v]
      BY <2>1 DEF TypeOK
    <2>3. \A v \in Workers : \A e \in Execs : held'[v][e] # 0 => held'[v][e] = held[v][e]
      BY <2>1 DEF TypeOK, Idle
    <2> QED BY <2>1, <2>2, <2>3 DEF SkipInv, Here
  <1> QED BY <1>1, <1>2, <1>3, <1>4, <1>5, <1>6, <1>7, <1>8, NextCases

----------------------------------------------------------------------------
(* Waits are kept                                                          *)

\* Step i of workflow p is a wait that follows a send: the kind that is kept.
KeptWait(p, i) == i \in 2..Len(p) /\ p[i - 1] = "send" /\ p[i] = "wait"

\* To be at position i as a due row, or past the wait before it.
AtIn(p, el, e, i) == KeptWait(p, i) => <<e, i>> \in el
PastIn(p, el, e, i) == i \in 1..Len(p) /\ KeptWait(p, i - 1) => <<e, i - 1>> \in el

\* Due rows, copies and messages behind a kept wait all have its time behind
\* them.
WaitInv ==
    /\ \A e \in Execs : nextRun[e] = "due" => AtIn(plan[e], elapsed, e, step[e])
    /\ \A e \in Execs : PastIn(plan[e], elapsed, e, step[e])
    /\ \A w \in Workers : \A e \in Execs : held[w][e] # 0 =>
        /\ AtIn(plan[e], elapsed, e, held[w][e])
        /\ PastIn(plan[e], elapsed, e, held[w][e])
    /\ \A e \in Execs : \A i \in DOMAIN plan[e] :
        sends[e][i] > 0 => PastIn(plan[e], elapsed, e, i)

\* Every execution starts at its first step, which no send precedes.
LEMMA WaitInit == Init => WaitInv
  BY DEF Init, WaitInv, AtIn, PastIn, KeptWait, Idle

\* A message behind a wait is the last clause of the invariant.
LEMMA WaitImplies == TypeOK /\ WaitInv => WaitIsKept
  <1> SUFFICES ASSUME TypeOK, WaitInv, NEW e \in Execs, NEW i \in DOMAIN plan[e], i > 2,
                      plan[e][i - 2] = "send", plan[e][i - 1] = "wait", sends[e][i] > 0
               PROVE  <<e, i - 1>> \in elapsed
    BY DEF WaitIsKept
  <1>1. plan[e] \in Seq(StepKinds)
    BY WorkflowAssumption DEF TypeOK, Execs
  <1>2. i \in 1..Len(plan[e]) /\ KeptWait(plan[e], i - 1)
    BY <1>1 DEF KeptWait
  <1> QED BY <1>2 DEF WaitInv, PastIn

\* Time only adds to elapsed.
LEMMA WaitGrows ==
    ASSUME NEW p, NEW el, NEW em, el \subseteq em, NEW e, NEW i
    PROVE  /\ AtIn(p, el, e, i) => AtIn(p, em, e, i)
           /\ PastIn(p, el, e, i) => PastIn(p, em, e, i)
  BY DEF AtIn, PastIn

\* One past the end nothing is claimed.
LEMMA WaitOver ==
    ASSUME NEW p \in Seq(StepKinds), NEW el, NEW e
    PROVE  AtIn(p, el, e, Len(p) + 1) /\ PastIn(p, el, e, Len(p) + 1)
  BY DEF AtIn, PastIn, KeptWait

\* Every step keeps it: a kept wait is entered by StartWait alone, and left by a
\* worker whose copy was read when the row was due.
LEMMA WaitStep == TypeOK /\ WaitInv /\ [Next]_vars => WaitInv'
  <1> SUFFICES ASSUME TypeOK, WaitInv, [Next]_vars PROVE WaitInv'
    OBVIOUS
  <1>p. \A e \in Execs : /\ plan[e] \in Seq(StepKinds)
                         /\ DOMAIN plan[e] = 1..Len(plan[e]) /\ NoStep(e) = Len(plan[e]) + 1
    BY Positions
  <1>w. ASSUME NEW w \in Workers, pc[w] # "idle"
        PROVE  /\ cur[w] \in Execs /\ Here(w) \in 1..(Len(plan[cur[w]]) + 1)
               /\ AtIn(plan[cur[w]], elapsed, cur[w], Here(w))
               /\ PastIn(plan[cur[w]], elapsed, cur[w], Here(w))
               /\ held[w][cur[w]] = Here(w)
    <2>1. cur[w] \in Execs /\ Here(w) \in 1..NoStep(cur[w]) /\ held[w][cur[w]] = Here(w)
      BY <1>w, Working
    <2>2. Here(w) \in 1..(Len(plan[cur[w]]) + 1)
      BY <2>1, <1>p
    <2>3. Here(w) # 0
      BY <2>1, <1>w DEF TypeOK
    <2>4. /\ AtIn(plan[cur[w]], elapsed, cur[w], Here(w))
          /\ PastIn(plan[cur[w]], elapsed, cur[w], Here(w))
      BY <2>1, <2>3 DEF WaitInv
    <2> QED BY <2>1, <2>2, <2>4
  <1>1. CASE Quiet
    <2>1. UNCHANGED <<plan, step, sends, pc, cur, held>> /\ elapsed \subseteq elapsed'
      BY <1>1, QuietFacts DEF Quiet, Beat, EnrollWorkflow, EnrollCommit, RunTimeComes,
         AlarmRings, SweepNothing, vars
    <2>2. \A e \in Execs : nextRun'[e] = "due" => \/ nextRun[e] = "due"
                                                  \/ <<e, step[e]>> \in elapsed'
      BY <1>1 DEF Quiet, Beat, EnrollWorkflow, EnrollCommit, RunTimeComes,
         AlarmRings, SweepNothing, vars, rowVars, TypeOK
    <2>3. \A e \in Execs : nextRun'[e] = "due" => AtIn(plan[e], elapsed', e, step[e])
      BY <2>1, <2>2, WaitGrows DEF WaitInv, AtIn
    <2> QED BY <2>1, <2>3, WaitGrows DEF WaitInv
  <1>2. ASSUME NEW w \in Workers, Sweep(w) PROVE WaitInv'
    <2> DEFINE copies == [e \in Execs |-> IF e \in Newest(DueExecutions) THEN step[e] ELSE 0]
    <2>1. UNCHANGED <<plan, step, nextRun, sends, elapsed>> /\ Take(w, copies)
      BY <1>2 DEF Sweep, rowVars
    <2>2. copies \in [Execs -> Nat]
      BY DEF TypeOK
    <2>3. \A e \in Execs : copies[e] # 0 => copies[e] = step[e] /\ nextRun[e] = "due"
      BY DEF Newest, DueExecutions
    <2> HIDE DEF copies
    <2> QED BY <2>1, <2>2, <2>3, TakeFacts DEF WaitInv
  <1>3. ASSUME NEW w \in Workers, Complete(w) PROVE WaitInv'
    <2>1. UNCHANGED <<plan, nextRun, sends, held, elapsed>> /\ pc[w] # "idle"
          /\ step' = [step EXCEPT ![cur[w]] = NoStep(cur[w])]
      BY <1>3 DEF Complete, IsOver
    <2>2. \A e \in Execs : step'[e] = step[e] \/ step'[e] = Len(plan[e]) + 1
      BY <2>1, <1>p DEF TypeOK
    <2> QED BY <2>1, <2>2, <1>p, WaitOver DEF WaitInv
  <1>4. ASSUME NEW w \in Workers, Leaves(w) PROVE WaitInv'
    <2>1. UNCHANGED <<plan, step, nextRun, sends, elapsed>> /\ RowDone(w) /\ pc[w] # "idle"
      BY <1>4 DEF Leaves, CloseEnrollment, MarkFailed
    <2> QED BY <2>1, RowDoneFacts DEF WaitInv
  <1>5. ASSUME NEW w \in Workers, Moves(w) PROVE WaitInv'
    <2> DEFINE c == cur[w]
               i == Here(w)
    <2>1. /\ pc[w] # "idle" /\ MoveOn(w) /\ UNCHANGED <<plan, sends, cur, elapsed>>
          /\ i \in 1..Len(plan[c])
          /\ \/ Kind(w) \in {"wait", "other"}
             \/ Kind(w) = "send" /\ ~NextIs(w, "wait")
      BY <1>5, MovesFacts
    <2>2. c \in Execs /\ AtIn(plan[c], elapsed, c, i)
      BY <2>1, <1>w
    <2>3. ~KeptWait(plan[c], i + 1)
      BY <2>1, <2>2, <1>p DEF KeptWait, NextIs, NextStep, Kind
    <2>4. AtIn(plan[c], elapsed, c, i + 1) /\ PastIn(plan[c], elapsed, c, i + 1)
      BY <2>1, <2>2, <2>3 DEF AtIn, PastIn
    <2>5. NextStep(w) = i + 1
      BY DEF NextStep
    <2> HIDE DEF c, i
    <2> QED BY <2>1, <2>2, <2>4, <2>5, <1>w, MoveOnFacts, SMTT(30) DEF WaitInv, c
  <1>6. ASSUME NEW w \in Workers, SendTemplate(w) PROVE WaitInv'
    <2>1. /\ UNCHANGED <<plan, step, nextRun, cur, held, elapsed>> /\ pc[w] # "idle"
          /\ sends' = [sends EXCEPT ![cur[w]][Here(w)] = @ + 1]
      BY <1>6 DEF SendTemplate, rowVars
    <2>2. \A e \in Execs : \A i \in DOMAIN plan[e] : sends'[e][i] > 0 =>
            sends[e][i] > 0 \/ (e = cur[w] /\ i = Here(w))
      BY <2>1, <1>w, <1>p DEF TypeOK
    <2> QED BY <2>1, <2>2, <1>w DEF WaitInv
  <1>7. ASSUME NEW w \in Workers, StartWait(w) PROVE WaitInv'
    <2> DEFINE c == cur[w]
               i == Here(w)
    <2>1. /\ UNCHANGED <<plan, sends>> /\ RowDone(w) /\ pc[w] = "sent" /\ AtStep(w, "send")
          /\ step' = [step EXCEPT ![c] = NextStep(w)]
          /\ \/ nextRun' = [nextRun EXCEPT ![c] = "later"] /\ elapsed' = elapsed
             \/ /\ nextRun' = [nextRun EXCEPT ![c] = "due"]
                /\ elapsed' = elapsed \cup {<<c, NextStep(w)>>}
      BY <1>7 DEF StartWait, TypeOK
    <2>2. c \in Execs /\ i \in 1..(Len(plan[c]) + 1) /\ NextStep(w) = i + 1
      BY <2>1, <1>w DEF NextStep
    <2>3. i \in 1..Len(plan[c]) /\ plan[c][i] = "send"
      BY <2>1, <2>2, <1>p DEF AtStep, Kind
    <2>4. PastIn(plan[c], elapsed, c, i + 1)
      BY <2>3 DEF PastIn, KeptWait
    <2>5. elapsed \subseteq elapsed'
      BY <2>1
    <2> HIDE DEF c, i
    <2>6. ASSUME NEW e \in Execs
          PROVE  /\ nextRun'[e] = "due" => AtIn(plan[e], elapsed', e, step'[e])
                 /\ PastIn(plan[e], elapsed', e, step'[e])
      <3>1. CASE e = c
        <4>1. step'[e] = i + 1 /\ (nextRun'[e] = "due" => <<e, i + 1>> \in elapsed')
          BY <3>1, <2>1, <2>2 DEF TypeOK
        <4> QED BY <3>1, <4>1, <2>4, <2>5, WaitGrows DEF AtIn
      <3>2. CASE e # c
        <4>1. step'[e] = step[e] /\ nextRun'[e] = nextRun[e]
          BY <3>2, <2>1, <2>2 DEF TypeOK
        <4> QED BY <4>1, <2>5, WaitGrows DEF WaitInv
      <3> QED BY <3>1, <3>2
    <2>7. \A v \in Workers : \A e \in Execs : held'[v][e] # 0 => held'[v][e] = held[v][e]
      BY <2>1, RowDoneFacts
    <2> QED BY <2>1, <2>5, <2>6, <2>7, WaitGrows DEF WaitInv
  <1>8. ASSUME NEW w \in Workers, Crash(w) PROVE WaitInv'
    <2>1. UNCHANGED <<plan, step, nextRun, sends, elapsed>> /\ held' = [held EXCEPT ![w] = Idle]
      BY <1>8 DEF Crash, rowVars
    <2>2. \A v \in Workers : \A e \in Execs : held'[v][e] # 0 => held'[v][e] = held[v][e]
      BY <2>1 DEF TypeOK, Idle
    <2> QED BY <2>1, <2>2 DEF WaitInv
  <1> QED BY <1>1, <1>2, <1>3, <1>4, <1>5, <1>6, <1>7, <1>8, NextCases

----------------------------------------------------------------------------
(* One sweep at a time                                                     *)

\* While no two sweeps meet over an execution, the one that holds it has an
\* exact copy, of a pending row, until it has completed it.
DupInv ==
    \A e \in Execs \ overlapped :
        /\ \A w, v \in Workers : held[w][e] # 0 /\ held[v][e] # 0 => w = v
        /\ \A w \in Workers : held[w][e] # 0 /\ ~(cur[w] = e /\ pc[w] = "closing") =>
            status[e] \in Pending /\ step[e] = held[w][e]
        /\ \A w \in Workers : cur[w] = e /\ pc[w] = "closing" => status[e] = "completed"
        /\ enrollment[e] = "completed" =>
            status[e] = "completed" /\ \A w \in Workers : held[w][e] = 0

\* Nobody holds an execution at first.
LEMMA DupInit == Init => DupInv
  BY DEF Init, DupInv, Idle

\* What an action does to the executions its worker is not working on.
LEMMA DupStep == TypeOK /\ DupInv /\ [Next]_vars => DupInv'
  <1> SUFFICES ASSUME TypeOK, DupInv, [Next]_vars, NEW e \in Execs \ overlapped'
               PROVE  /\ \A w, v \in Workers : held'[w][e] # 0 /\ held'[v][e] # 0 => w = v
                      /\ \A w \in Workers :
                            held'[w][e] # 0 /\ ~(cur'[w] = e /\ pc'[w] = "closing") =>
                                status'[e] \in Pending /\ step'[e] = held'[w][e]
                      /\ \A w \in Workers :
                            cur'[w] = e /\ pc'[w] = "closing" => status'[e] = "completed"
                      /\ enrollment'[e] = "completed" =>
                            status'[e] = "completed" /\ \A w \in Workers : held'[w][e] = 0
    BY DEF DupInv, Pending
  <1> DEFINE Goal == /\ \A w, v \in Workers : held'[w][e] # 0 /\ held'[v][e] # 0 => w = v
                     /\ \A w \in Workers :
                            held'[w][e] # 0 /\ ~(cur'[w] = e /\ pc'[w] = "closing") =>
                                status'[e] \in Pending /\ step'[e] = held'[w][e]
                     /\ \A w \in Workers :
                            cur'[w] = e /\ pc'[w] = "closing" => status'[e] = "completed"
                     /\ enrollment'[e] = "completed" =>
                            status'[e] = "completed" /\ \A w \in Workers : held'[w][e] = 0
  <1>o. overlapped \subseteq overlapped'
    BY QuietFacts, MovesFacts, NextCases
    DEF Sweep, Complete, Leaves, CloseEnrollment, MarkFailed, SendTemplate, StartWait, Crash
  <1>d. /\ e \in Execs
        /\ \A w, v \in Workers : held[w][e] # 0 /\ held[v][e] # 0 => w = v
        /\ \A w \in Workers : held[w][e] # 0 /\ ~(cur[w] = e /\ pc[w] = "closing") =>
            status[e] \in Pending /\ step[e] = held[w][e]
        /\ \A w \in Workers : cur[w] = e /\ pc[w] = "closing" => status[e] = "completed"
        /\ enrollment[e] = "completed" =>
            status[e] = "completed" /\ \A w \in Workers : held[w][e] = 0
    BY <1>o DEF DupInv
  <1>w. ASSUME NEW w \in Workers, pc[w] # "idle", cur[w] = e
        PROVE  /\ held[w][e] # 0 /\ Here(w) = held[w][e] /\ enrollment[e] # "completed"
               /\ \A v \in Workers \ {w} : held[v][e] = 0 /\ cur[v] # e
    BY <1>w, <1>d DEF TypeOK, Here
  <1>1. ASSUME Quiet PROVE Goal
    <2>1. UNCHANGED <<step, enrollment, pc, cur, held>>
      BY <1>1, QuietFacts
    <2>2. status'[e] = status[e] \/ status[e] \in {"absent", "creating"}
      BY <1>1 DEF Quiet, Beat, EnrollWorkflow, EnrollCommit, RunTimeComes,
         AlarmRings, SweepNothing, vars, rowVars, TypeOK
    <2>3. status[e] \in {"absent", "creating"} =>
            enrollment[e] # "completed"
              /\ \A w \in Workers : held[w][e] = 0 /\ ~(cur[w] = e /\ pc[w] = "closing")
      BY <1>d DEF Pending
    <2> QED BY <2>1, <2>2, <2>3, <1>d
  <1>2. ASSUME NEW w \in Workers, Sweep(w) PROVE Goal
    <2> DEFINE copies == [f \in Execs |-> IF f \in Newest(DueExecutions) THEN step[f] ELSE 0]
    <2>1. UNCHANGED <<status, step, enrollment>> /\ Take(w, copies) /\ pc[w] = "idle"
      BY <1>2 DEF Sweep, rowVars
    <2>2. copies \in [Execs -> Nat]
      BY DEF TypeOK
    <2>3. copies[e] # 0 => /\ copies[e] = step[e] /\ status[e] \in Pending
                           /\ \A v \in Workers : held[v][e] = 0
      BY <1>2, <1>d DEF Newest, DueExecutions, Sweep
    <2>4. \A v \in Workers \ {w} :
            held'[v][e] = held[v][e] /\ cur'[v] = cur[v] /\ pc'[v] = pc[v]
      BY <2>1, <2>2, TakeFacts
    <2>5. held'[w][e] = copies[e] /\ pc'[w] # "closing"
      <3> HIDE DEF copies
      <3> QED BY <2>1, <2>2, TakeFacts
    <2> HIDE DEF copies
    <2>6. \A v \in Workers : cur[v] = e => held[v][e] # 0
      BY <1>d DEF TypeOK, Execs
    <2>7. CASE copies[e] = 0
      BY <2>1, <2>4, <2>5, <2>7, <1>d
    <2>8. CASE copies[e] # 0
      <3>1. status'[e] \in Pending /\ step'[e] = copies[e] /\ enrollment'[e] # "completed"
        BY <2>1, <2>3, <2>8, <1>d DEF Pending
      <3>2. \A v \in Workers \ {w} : held'[v][e] = 0 /\ cur'[v] # e
        BY <2>3, <2>4, <2>6, <2>8
      <3> QED BY <2>5, <3>1, <3>2
    <2> QED BY <2>7, <2>8
  <1>3. ASSUME NEW w \in Workers, Complete(w) PROVE Goal
    <2>1. /\ UNCHANGED <<enrollment, cur, held>> /\ pc[w] # "idle"
          /\ status' = [status EXCEPT ![cur[w]] = "completed"]
          /\ step' = [step EXCEPT ![cur[w]] = NoStep(cur[w])]
          /\ pc' = [pc EXCEPT ![w] = "closing"]
      BY <1>3 DEF Complete, IsOver
    <2>2. \A v \in Workers : pc'[v] = IF v = w THEN "closing" ELSE pc[v]
      BY <2>1 DEF TypeOK
    <2>3. CASE cur[w] = e
      <3>1. status'[e] = "completed"
        BY <2>1, <2>3 DEF TypeOK
      <3>2. \A v \in Workers : held[v][e] # 0 => v = w
        BY <2>1, <2>3, <1>w
      <3> QED BY <2>1, <2>2, <2>3, <3>1, <3>2, <1>w
    <2>4. CASE cur[w] # e
      <3>1. status'[e] = status[e] /\ step'[e] = step[e]
        BY <2>1, <2>4 DEF TypeOK
      <3> QED BY <2>1, <2>2, <2>4, <3>1, <1>d
    <2> QED BY <2>3, <2>4
  <1>4. ASSUME NEW w \in Workers, Leaves(w) PROVE Goal
    <2>1. /\ RowDone(w) /\ pc[w] # "idle" /\ UNCHANGED step
          /\ \/ /\ UNCHANGED status /\ pc[w] = "closing"
                /\ enrollment' = [enrollment EXCEPT ![cur[w]] = "completed"]
             \/ UNCHANGED enrollment /\ status' = [status EXCEPT ![cur[w]] = "failed"]
      BY <1>4 DEF Leaves, CloseEnrollment, MarkFailed
    <2>2. /\ held'[w][e] = IF e = cur[w] THEN 0 ELSE held[w][e]
          /\ pc'[w] # "closing"
          /\ \A v \in Workers \ {w} :
                held'[v][e] = held[v][e] /\ cur'[v] = cur[v] /\ pc'[v] = pc[v]
      BY <2>1, RowDoneFacts
    <2>3. CASE cur[w] = e
      <3>1. \A v \in Workers : held'[v][e] = 0
        BY <2>1, <2>2, <2>3, <1>w
      <3>2. \A v \in Workers : ~(cur'[v] = e /\ pc'[v] = "closing")
        BY <2>1, <2>2, <2>3, <1>w
      <3>3. enrollment'[e] = "completed" => status'[e] = "completed"
        BY <2>1, <2>3, <1>w, <1>d
      <3> QED BY <3>1, <3>2, <3>3
    <2>4. CASE cur[w] # e
      <3>1. status'[e] = status[e] /\ step'[e] = step[e] /\ enrollment'[e] = enrollment[e]
        BY <2>1, <2>4 DEF TypeOK
      <3>2. held'[w][e] = held[w][e]
        BY <2>2, <2>4
      <3> QED BY <2>2, <2>4, <3>1, <3>2, <1>d
    <2> QED BY <2>3, <2>4
  <1>5. ASSUME NEW w \in Workers, Moves(w) PROVE Goal
    <2>1. /\ pc[w] # "idle" /\ MoveOn(w) /\ UNCHANGED <<enrollment, cur>>
      BY <1>5, MovesFacts
    <2>2. /\ status'[e] = status[e] \/ (cur[w] = e /\ status'[e] = "running")
          /\ pc[w] # "closing"
      BY <1>5 DEF Moves, PassWait, PassOther, AfterSend, TypeOK
    <2>3. CASE cur[w] = e
      <3>1. status[e] \in Pending
        BY <2>1, <2>2, <2>3, <1>w, <1>d
      <3>2. status'[e] \in Pending
        BY <3>1, <2>2 DEF Pending
      <3>3. \A v \in Workers : held'[v][e] # 0 => v = w
        BY <2>1, <2>3, <1>w, MoveOnFacts
      <3>4. step'[e] = held'[w][e] /\ pc'[w] = "at"
        BY <2>1, <2>3, MoveOnFacts
      <3> QED BY <2>1, <2>3, <3>2, <3>3, <3>4, <1>w
    <2>4. CASE cur[w] # e
      <3>1. status'[e] = status[e] /\ step'[e] = step[e]
        BY <2>1, <2>2, <2>4, MoveOnFacts
      <3>2. \A v \in Workers : held'[v][e] = held[v][e] /\ cur'[v] = cur[v]
                               /\ (pc'[v] = pc[v] \/ v = w)
        BY <2>1, <2>4, MoveOnFacts
      <3> QED BY <2>1, <2>4, <3>1, <3>2, <1>d
    <2> QED BY <2>3, <2>4
  <1>6. ASSUME NEW w \in Workers, SendTemplate(w) PROVE Goal
    <2>1. /\ UNCHANGED <<status, step, enrollment, cur, held>> /\ pc[w] = "at"
          /\ pc' = [pc EXCEPT ![w] = "sent"]
      BY <1>6 DEF SendTemplate, rowVars
    <2>2. \A v \in Workers : pc'[v] = "closing" <=> pc[v] = "closing"
      BY <2>1 DEF TypeOK
    <2> QED BY <2>1, <2>2, <1>d
  <1>7. ASSUME NEW w \in Workers, StartWait(w) PROVE Goal
    <2>1. /\ RowDone(w) /\ pc[w] = "sent" /\ UNCHANGED enrollment
          /\ status' = [status EXCEPT ![cur[w]] = "waiting"]
          /\ step' = [step EXCEPT ![cur[w]] = NextStep(w)]
      BY <1>7 DEF StartWait
    <2>2. /\ held'[w][e] = IF e = cur[w] THEN 0 ELSE held[w][e]
          /\ pc'[w] # "closing"
          /\ \A v \in Workers \ {w} :
                held'[v][e] = held[v][e] /\ cur'[v] = cur[v] /\ pc'[v] = pc[v]
      BY <2>1, RowDoneFacts
    <2>3. CASE cur[w] = e
      <3>1. \A v \in Workers : held'[v][e] = 0
        BY <2>1, <2>2, <2>3, <1>w
      <3>2. \A v \in Workers : ~(cur'[v] = e /\ pc'[v] = "closing")
        BY <2>1, <2>2, <2>3, <1>w
      <3>3. enrollment'[e] # "completed"
        BY <2>1, <2>3, <1>w
      <3> QED BY <3>1, <3>2, <3>3
    <2>4. CASE cur[w] # e
      <3>1. status'[e] = status[e] /\ step'[e] = step[e]
        BY <2>1, <2>4 DEF TypeOK
      <3>2. held'[w][e] = held[w][e]
        BY <2>2, <2>4
      <3> QED BY <2>1, <2>2, <2>4, <3>1, <3>2, <1>d
    <2> QED BY <2>3, <2>4
  <1>8. ASSUME NEW w \in Workers, Crash(w) PROVE Goal
    <2>1. /\ UNCHANGED <<status, step, enrollment>>
          /\ pc' = [pc EXCEPT ![w] = "idle"] /\ cur' = [cur EXCEPT ![w] = 0]
          /\ held' = [held EXCEPT ![w] = Idle]
      BY <1>8 DEF Crash, rowVars
    <2>2. /\ held'[w][e] = 0 /\ pc'[w] = "idle"
          /\ \A v \in Workers \ {w} :
                held'[v][e] = held[v][e] /\ cur'[v] = cur[v] /\ pc'[v] = pc[v]
      BY <2>1 DEF TypeOK, Idle
    <2> QED BY <2>1, <2>2, <1>d
  <1> HIDE DEF Goal
  <1>9. Goal
    BY <1>1, <1>2, <1>3, <1>4, <1>5, <1>6, <1>7, <1>8, NextCases
  <1> QED BY <1>9 DEF Goal

----------------------------------------------------------------------------
(* A step is sent once                                                     *)

\* An execution nothing happened to has sent no step twice; a pending one has
\* sent nothing at or after its step, but for what a worker has just sent.
OnceInv ==
    \A e \in Execs \ (overlapped \cup resent) : \A i \in DOMAIN plan[e] :
        /\ sends[e][i] <= 1
        /\ status[e] \notin Ended /\ i >= step[e] /\ sends[e][i] > 0 =>
            i = step[e] /\ \E w \in Workers : cur[w] = e /\ pc[w] = "sent"

\* Nothing is sent at first.
LEMMA OnceInit == Init => OnceInv
  BY DEF Init, OnceInv

\* Every step keeps it: a lone sweep sends from the row's own step and leaves
\* that step behind, unless it dies or fails.
LEMMA OnceStep == TypeOK /\ DupInv /\ OnceInv /\ [Next]_vars => OnceInv'
  <1> SUFFICES ASSUME TypeOK, DupInv, OnceInv, [Next]_vars PROVE OnceInv'
    OBVIOUS
  <1>c. plan' = plan
    BY QuietFacts, MovesFacts, NextCases
    DEF Sweep, Complete, Leaves, CloseEnrollment, MarkFailed, SendTemplate, StartWait, Crash
  <1> SUFFICES ASSUME NEW e \in Execs \ (overlapped' \cup resent'), NEW i \in DOMAIN plan[e]
               PROVE  /\ sends'[e][i] <= 1
                      /\ status'[e] \notin Ended /\ i >= step'[e] /\ sends'[e][i] > 0 =>
                            i = step'[e] /\ \E w \in Workers : cur'[w] = e /\ pc'[w] = "sent"
    BY <1>c DEF OnceInv, Ended
  <1> DEFINE Goal == /\ sends'[e][i] <= 1
                     /\ status'[e] \notin Ended /\ i >= step'[e] /\ sends'[e][i] > 0 =>
                            i = step'[e] /\ \E w \in Workers : cur'[w] = e /\ pc'[w] = "sent"
  <1>o. overlapped \subseteq overlapped' /\ resent \subseteq resent'
    BY QuietFacts, MovesFacts, NextCases
    DEF Sweep, Complete, Leaves, CloseEnrollment, MarkFailed, SendTemplate, StartWait, Crash
  <1>p. /\ e \in Execs /\ i \in Nat /\ sends[e][i] \in Nat /\ step[e] \in Nat
        /\ i \in 1..(NoStep(e) - 1) /\ NoStep(e) \in Nat
    <2>1. DOMAIN plan[e] = 1..(NoStep(e) - 1) /\ NoStep(e) \in Nat \ {0}
      BY Positions
    <2>2. step[e] \in Nat /\ sends[e] \in [DOMAIN plan[e] -> Nat]
      BY DEF TypeOK
    <2> QED BY <2>1, <2>2
  <1>d. /\ \A w \in Workers : held[w][e] # 0 /\ ~(cur[w] = e /\ pc[w] = "closing") =>
            status[e] \in Pending /\ step[e] = held[w][e]
        /\ \A w, v \in Workers : held[w][e] # 0 /\ held[v][e] # 0 => w = v
        /\ \A w \in Workers : cur[w] = e => held[w][e] # 0
    BY <1>o, <1>p DEF DupInv, TypeOK, Execs
  <1>n. /\ sends[e][i] <= 1
        /\ status[e] \notin Ended /\ i >= step[e] /\ sends[e][i] > 0 =>
            i = step[e] /\ \E w \in Workers : cur[w] = e /\ pc[w] = "sent"
    BY <1>o DEF OnceInv
  <1>w. ASSUME NEW w \in Workers, cur[w] = e, pc[w] \in {"at", "sent"}
        PROVE  Here(w) = step[e] /\ status[e] \notin Ended
    BY <1>w, <1>d DEF Here, Pending, Ended
  <1>1. ASSUME Quiet PROVE Goal
    <2>1. UNCHANGED <<step, sends, pc, cur>>
      BY <1>1, QuietFacts
    <2>2. status[e] \in Ended => status'[e] \in Ended
      BY <1>1, <1>p DEF Quiet, Beat, EnrollWorkflow, EnrollCommit, RunTimeComes,
         AlarmRings, SweepNothing, vars, rowVars, TypeOK, Ended
    <2> QED BY <2>1, <2>2, <1>n
  <1>2. ASSUME NEW w \in Workers, Sweep(w) PROVE Goal
    <2> DEFINE copies == [f \in Execs |-> IF f \in Newest(DueExecutions) THEN step[f] ELSE 0]
    <2>1. UNCHANGED <<status, step, sends>> /\ Take(w, copies) /\ pc[w] = "idle"
      BY <1>2 DEF Sweep, rowVars
    <2>2. copies \in [Execs -> Nat]
      BY DEF TypeOK
    <2> HIDE DEF copies
    <2>3. \A v \in Workers : pc[v] = "sent" => pc'[v] = pc[v] /\ cur'[v] = cur[v]
      BY <2>1, <2>2, TakeFacts
    <2> QED BY <2>1, <2>3, <1>n
  <1>3. ASSUME NEW w \in Workers, Complete(w) PROVE Goal
    <2>1. /\ UNCHANGED <<sends, cur>> /\ pc[w] # "idle"
          /\ status' = [status EXCEPT ![cur[w]] = "completed"]
          /\ step' = [step EXCEPT ![cur[w]] = NoStep(cur[w])]
          /\ pc' = [pc EXCEPT ![w] = "closing"]
      BY <1>3 DEF Complete, IsOver
    <2>2. CASE cur[w] = e
      BY <2>1, <2>2, <1>n, <1>p DEF TypeOK, Ended
    <2>3. CASE cur[w] # e
      <3>1. status'[e] = status[e] /\ step'[e] = step[e]
        BY <2>1, <2>3 DEF TypeOK
      <3>2. \A v \in Workers : cur[v] = e => pc'[v] = pc[v]
        BY <2>1, <2>3 DEF TypeOK
      <3> QED BY <2>1, <3>1, <3>2, <1>n
    <2> QED BY <2>2, <2>3
  <1>4. ASSUME NEW w \in Workers, Leaves(w) PROVE Goal
    <2>1. /\ RowDone(w) /\ UNCHANGED <<step, sends>>
          /\ \/ UNCHANGED status /\ pc[w] = "closing"
             \/ status' = [status EXCEPT ![cur[w]] = "failed"] /\ pc[w] # "idle"
      BY <1>4 DEF Leaves, CloseEnrollment, MarkFailed
    <2>2. \A v \in Workers \ {w} : cur'[v] = cur[v] /\ pc'[v] = pc[v]
      BY <2>1, RowDoneFacts
    <2>3. CASE pc[w] = "closing" /\ UNCHANGED status
      BY <2>1, <2>2, <2>3, <1>n
    <2>4. CASE cur[w] = e /\ status' = [status EXCEPT ![cur[w]] = "failed"]
      BY <2>1, <2>4, <1>n, <1>p DEF TypeOK, Ended
    <2>5. CASE cur[w] # e /\ status' = [status EXCEPT ![cur[w]] = "failed"]
      <3>1. status'[e] = status[e]
        BY <2>5, <1>p DEF TypeOK
      <3> QED BY <2>1, <2>2, <2>5, <3>1, <1>n
    <2> QED BY <2>1, <2>3, <2>4, <2>5
  <1>5. ASSUME NEW w \in Workers, Moves(w) PROVE Goal
    <2>1. /\ pc[w] # "idle" /\ MoveOn(w) /\ UNCHANGED <<sends, cur>>
      BY <1>5, MovesFacts
    <2>2. /\ status'[e] = status[e] \/ cur[w] = e
          /\ pc[w] \in {"at", "sent"}
      BY <1>5, <1>p DEF Moves, PassWait, PassOther, AfterSend, TypeOK
    <2>3. CASE cur[w] = e
      <3>1. step'[e] = step[e] + 1 /\ status[e] \notin Ended
        BY <2>1, <2>2, <2>3, <1>w, MoveOnFacts DEF NextStep
      <3>2. i >= step'[e] => sends[e][i] = 0
        BY <3>1, <1>n, <1>p
      <3> QED BY <2>1, <3>2, <1>n
    <2>4. CASE cur[w] # e
      <3>1. status'[e] = status[e] /\ step'[e] = step[e]
        BY <2>1, <2>2, <2>4, <1>p, MoveOnFacts
      <3>2. \A v \in Workers : cur[v] = e => pc'[v] = pc[v]
        BY <2>1, <2>4, MoveOnFacts
      <3> QED BY <2>1, <3>1, <3>2, <1>n
    <2> QED BY <2>3, <2>4
  <1>6. ASSUME NEW w \in Workers, SendTemplate(w) PROVE Goal
    <2>1. /\ UNCHANGED <<status, step, cur>> /\ pc[w] = "at"
          /\ sends' = [sends EXCEPT ![cur[w]][Here(w)] = @ + 1]
          /\ pc' = [pc EXCEPT ![w] = "sent"]
      BY <1>6 DEF SendTemplate, rowVars
    <2>2. \A v \in Workers : pc'[v] = IF v = w THEN "sent" ELSE pc[v]
      BY <2>1 DEF TypeOK
    <2>3. sends[e] \in [DOMAIN plan[e] -> Nat] /\ DOMAIN sends = Execs
      BY <1>p DEF TypeOK
    <2>4. CASE cur[w] = e
      <3>1. Here(w) = step[e] /\ status[e] \notin Ended
        BY <2>1, <2>4, <1>w
      <3>2. \A v \in Workers : cur[v] = e => v = w
        BY <2>4, <1>d
      <3>3. i >= step[e] => sends[e][i] = 0
        BY <2>1, <3>1, <3>2, <1>n, <1>p
      <3>4. sends'[e][i] = IF i = step[e] THEN sends[e][i] + 1 ELSE sends[e][i]
        BY <2>1, <2>3, <2>4, <3>1, <1>p
      <3>5. sends'[e][i] <= 1
        BY <3>3, <3>4, <1>n, <1>p
      <3>6. i >= step[e] /\ sends'[e][i] > 0 => i = step[e]
        BY <3>3, <3>4, <1>p
      <3> QED BY <2>1, <2>2, <2>4, <3>5, <3>6
    <2>5. CASE cur[w] # e
      <3>1. sends'[e] = sends[e]
        BY <2>1, <2>3, <2>5, <1>p
      <3> QED BY <2>1, <2>2, <3>1, <1>n
    <2> QED BY <2>4, <2>5
  <1>7. ASSUME NEW w \in Workers, StartWait(w) PROVE Goal
    <2>1. /\ RowDone(w) /\ pc[w] = "sent" /\ UNCHANGED sends
          /\ status' = [status EXCEPT ![cur[w]] = "waiting"]
          /\ step' = [step EXCEPT ![cur[w]] = NextStep(w)]
      BY <1>7 DEF StartWait
    <2>2. \A v \in Workers \ {w} : cur'[v] = cur[v] /\ pc'[v] = pc[v]
      BY <2>1, RowDoneFacts
    <2>3. CASE cur[w] = e
      <3>1. step'[e] = step[e] + 1 /\ status[e] \notin Ended
        BY <2>1, <2>3, <1>w, <1>p DEF NextStep, TypeOK
      <3>2. i >= step'[e] => sends[e][i] = 0
        BY <3>1, <1>n, <1>p
      <3> QED BY <2>1, <3>2, <1>n
    <2>4. CASE cur[w] # e
      <3>1. status'[e] = status[e] /\ step'[e] = step[e]
        BY <2>1, <2>4, <1>p DEF TypeOK
      <3>2. \A v \in Workers : cur[v] = e => pc'[v] = pc[v] /\ cur'[v] = cur[v]
        BY <2>2, <2>4
      <3> QED BY <2>1, <3>1, <3>2, <1>n
    <2> QED BY <2>3, <2>4
  <1>8. ASSUME NEW w \in Workers, Crash(w) PROVE Goal
    <2>1. /\ UNCHANGED <<status, step, sends>>
          /\ pc' = [pc EXCEPT ![w] = "idle"] /\ cur' = [cur EXCEPT ![w] = 0]
          /\ ~(pc[w] = "sent" /\ cur[w] = e)
      BY <1>8 DEF Crash, rowVars
    <2>2. \A v \in Workers : cur[v] = e /\ pc[v] = "sent" => pc'[v] = pc[v] /\ cur'[v] = cur[v]
      BY <2>1 DEF TypeOK
    <2> QED BY <2>1, <2>2, <1>n
  <1> HIDE DEF Goal
  <1>9. Goal
    BY <1>1, <1>2, <1>3, <1>4, <1>5, <1>6, <1>7, <1>8, NextCases
  <1> QED BY <1>9 DEF Goal

----------------------------------------------------------------------------
(* Theorems                                                                *)

IInv == TypeOK /\ SkipInv /\ WaitInv /\ DupInv /\ OnceInv

\* The inductive invariant holds in every reachable state.
THEOREM Inductive == Spec => []IInv
  <1>1. Init => IInv
    BY TypedInit, SkipInit, WaitInit, DupInit, OnceInit DEF IInv
  <1>2. IInv /\ [Next]_vars => IInv'
    BY TypedStep, SkipStep, WaitStep, DupStep, OnceStep DEF IInv
  <1> QED BY <1>1, <1>2, PTL DEF Spec

\* Type correctness, and the shape of a worker.
THEOREM TypeCorrect == Spec => []TypeOK
  <1>1. IInv => TypeOK
    BY DEF IInv
  <1> QED BY <1>1, Inductive, PTL

\* No save of an old copy makes an execution leave out a step or pass its END.
THEOREM StepsInOrder == Spec => []NothingSkipped
  <1>1. IInv => NothingSkipped
    BY SkipImplies DEF IInv
  <1> QED BY <1>1, Inductive, PTL

\* A wait that follows a send is kept.
THEOREM WaitsAreKept == Spec => []WaitIsKept
  <1>1. IInv => WaitIsKept
    BY WaitImplies DEF IInv
  <1> QED BY <1>1, Inductive, PTL

\* A step is sent twice only after an overlap, or a death in the one bad moment.
THEOREM StepsAreSentOnce == Spec => []OneSendPerStep
  <1>1. IInv => OneSendPerStep
    BY DEF IInv, OnceInv, OneSendPerStep
  <1> QED BY <1>1, Inductive, PTL

\* A closed enrolment has a completed execution.
THEOREM EnrollmentsAgree == Spec => []EnrollmentAgrees
  <1>1. IInv => EnrollmentAgrees
    BY DEF IInv, DupInv, EnrollmentAgrees
  <1> QED BY <1>1, Inductive, PTL

\* What has ended is not taken up again by a later sweep.
THEOREM EndedIsFinal == Spec => StaysEnded
  <1>1. IInv /\ [Next]_vars =>
          [\A e \in Execs \ overlapped' : status[e] \in Ended => status'[e] \in Ended]_vars
    <2> SUFFICES ASSUME IInv, [Next]_vars, NEW e \in Execs \ overlapped', status[e] \in Ended
                 PROVE  status'[e] \in Ended
      OBVIOUS
    <2>1. TypeOK /\ DupInv
      BY DEF IInv
    <2>2. e \notin overlapped
      BY <2>1, QuietFacts, MovesFacts, NextCases
      DEF Sweep, Complete, Leaves, CloseEnrollment, MarkFailed, SendTemplate, StartWait, Crash
    <2>3. ASSUME NEW w \in Workers, pc[w] \in {"at", "sent"} PROVE cur[w] # e
      BY <2>1, <2>2, <2>3 DEF DupInv, TypeOK, Pending, Ended
    <2>4. CASE Quiet
      BY <2>1, <2>4 DEF Quiet, Beat, EnrollWorkflow, EnrollCommit, RunTimeComes,
         AlarmRings, SweepNothing, vars, rowVars, TypeOK, Ended
    <2>5. ASSUME NEW w \in Workers, Sweep(w) \/ SendTemplate(w) \/ Crash(w)
          PROVE  status'[e] \in Ended
      BY <2>5 DEF Sweep, SendTemplate, Crash, rowVars
    <2>6. ASSUME NEW w \in Workers, Complete(w) \/ Leaves(w)
          PROVE  status'[e] \in Ended
      BY <2>1, <2>6 DEF Complete, Leaves, CloseEnrollment, MarkFailed, TypeOK, Ended
    <2>7. ASSUME NEW w \in Workers, Moves(w) \/ StartWait(w)
          PROVE  status'[e] \in Ended
      BY <2>1, <2>3, <2>7
      DEF Moves, PassWait, PassOther, AfterSend, StartWait, TypeOK
    <2> QED BY <2>4, <2>5, <2>6, <2>7, NextCases
  <1> QED BY <1>1, Inductive, PTL DEF Spec, StaysEnded
=============================================================================

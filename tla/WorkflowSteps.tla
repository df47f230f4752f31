---------------------------- MODULE WorkflowSteps ----------------------------
(***************************************************************************)
(* One workflow of the tenant of TemplateStudio: adding, editing, moving   *)
(* and deleting its steps (portal_automation.py, workflow_steps.py) while  *)
(* enrolled recipients go through them and the template their send steps   *)
(* name is edited and deleted.                                             *)
(*                                                                         *)
(* WorkflowEngine has the sweeps over steps that stay as they are, with    *)
(* their clock, batches and tasks.  Here the steps change under them: any  *)
(* running execution may be due, and a copy of it that a sweep has loaded  *)
(* goes through workflow_engine.py statement by statement.                 *)
(***************************************************************************)
EXTENDS TemplateStudio, Sequences, SequencesExt

CONSTANTS
    MaxSteps,    \* bound: step ids
    MaxOrder,    \* bound: the position a form may ask for
    Execs,       \* enrolments
    Copies       \* bound: copies of executions in the hands of sweeps, of one or several

ASSUME StepsAssumption == MaxSteps \in Nat /\ MaxOrder \in Nat /\ IsFiniteSet(Execs)

VARIABLES
    steps,    \* WorkflowStep rows
    exec,     \* an enrolment and its WorkflowExecution
    sweep,    \* what a sweep does with a copy: the execution, the step in hand, the next
    sent,     \* history: the steps an execution has sent mail for
    raced,    \* history: send steps saved between a deletion's guard and its DELETE
    unkeyed,  \* history: send steps saved with neither a template nor a key
    orphaned, \* history: executions whose current step was deleted
    overtaken,\* history: executions whose last sweep met an edit of the steps or another
              \* sweep of the execution
    collided  \* history: what the last step request met: "", or a unique constraint

editVars == <<raced, unkeyed, collided>>
sweepVars == <<sweep, sent, overtaken>>
stepVars == <<steps, exec, orphaned, editVars, sweepVars>>
vars == <<tplVars, job, left, stepVars>>

Types == {"send", "wait", "end"}

StepRows == [id : 1 .. MaxSteps, order : Nat, type : Types, tpl : {None} \cup Nat, key : Nat]

\* A start is a state the system gets to: places are not shared, links hold, and a send
\* step has a template or a key.
StartOK(s) ==
    /\ TplStartOK(s) /\ s.steps \subseteq StepRows
    /\ \A x \in s.steps :
        /\ x.tpl = None \/ (s.tpl # None /\ x.tpl = 1)
        /\ IF x.type = "send" THEN x.tpl # None \/ x.key > (IF s.tpl = None THEN 0 ELSE 1)
           ELSE x.tpl = None /\ x.key = 0
        /\ \A y \in s.steps : x.id = y.id \/ x.order = y.order => x = y

ASSUME StartAssumption == \A s \in Start : StartOK(s)

Init ==
    /\ \E s \in Start : TplInit(s) /\ steps = s.steps
    /\ exec = [e \in Execs |-> [state |-> "absent"]]
    /\ sweep = [c \in Copies |-> Idle] /\ sent = [e \in Execs |-> {}] /\ overtaken = {}
    /\ raced = {} /\ unkeyed = {} /\ orphaned = {} /\ collided = ""

Row(id) == CHOOSE s \in steps : s.id = id
HasRow(id) == \E s \in steps : s.id = id
Ordered(S) == [i \in 1 .. Cardinality(S) |-> CHOOSE s \in S : Cardinality({t \in S : t.order <= s.order}) = i]
First(S) == CHOOSE s \in S : \A t \in S : s.order <= t.order

\* The executions sweeps have in hand, and an edit of the steps under them.
Swept == {sweep[c].exec : c \in {d \in Copies : sweep[d] # Idle}}
Edited == overtaken' = overtaken \cup Swept /\ UNCHANGED <<sweep, sent>>

----------------------------------------------------------------------------
(* The template of a step                                                  *)

\* The key is there or not; its number tells the next template that can have it.
Keyed(s) == s.type = "send" /\ s.key # 0

\* Variant: steps that only hold the key are not looked for.
LinksReferenceTemplate == \E s \in steps : s.tpl = tpl.id

\* workflow_steps_reference_template: by foreign key, or by key.
StepsReferenceTemplate == \E s \in steps : s.tpl = tpl.id \/ Keyed(s)

\* What _process_one_execution finds for a send step, by link or else by key; a link read
\* before its template was deleted is a DoesNotExist.
Resolves(s) == IF s.tpl # None THEN Exists(s.tpl) ELSE tpl # None /\ s.key # 0

\* template_delete looks at the steps, and deletes in a later statement.
TemplateDelete(p) ==
    /\ tpl # None /\ ~StepsReferenceTemplate
    /\ Begin(p, [pc |-> "delete", tpl |-> tpl.id])
    /\ UNCHANGED <<tplVars, stepVars>>

\* SET_NULL on the steps that came to name it since.
RemoveTemplate(p) ==
    /\ job[p].pc = "delete"
    /\ Deleted(job[p].tpl)
    /\ steps' = {IF s.tpl = job[p].tpl THEN [s EXCEPT !.tpl = None] ELSE s : s \in steps}
    /\ Answer(p)
    /\ UNCHANGED <<made, mail, page, cut, exec, orphaned, editVars, sweepVars>>

OperatorTemplateDelete(p) == TemplateDelete(p)

\* A step is saved after the guard of a deletion looked and before it deletes.
GuardLooked == \E p \in Procs : job[p].pc = "delete"

----------------------------------------------------------------------------
(* Adding and editing                                                      *)

NoTarget == [tpl |-> None, key |-> FALSE]

\* What the lookup by key gives a form: the link, or the key kept for later.
Target(type) ==
    IF type # "send" THEN NoTarget
    ELSE IF tpl # None THEN [tpl |-> tpl.id, key |-> FALSE]
    ELSE [tpl |-> None, key |-> TRUE]

\* Rows, there or gone, that a request or a sweep refers to.  (Ids are UUIDs: none is given
\* again while it could be told from the old one.)
RefersTo(j) ==
    (IF j.pc \in {"create", "move", "save"} THEN {j.step} ELSE {}) \cup
    (IF j.pc \in {"move", "renumber"} THEN {x.id : x \in Range(j.list)} ELSE {})
Holds(h) == IF h = Idle THEN {} ELSE {x.id : x \in {h.step} \cup h.next}

UnusedIds ==
    {i \in 1..MaxSteps : ~HasRow(i) /\ (\A p \in Procs : i \notin RefersTo(job[p]))
                                   /\ (\A c \in Copies : i \notin Holds(sweep[c]))}

AddStep(p, type, order, target) ==
    /\ UnusedIds # {}
    /\ Request(p, "steps", [pc |-> "create", step |-> Min(UnusedIds), type |-> type, order |-> order,
                 target |-> target])
    /\ UNCHANGED <<tplVars, stepVars>>

\* The portal refuses a key no template has.
PortalAddStep(p, type, order) ==
    /\ type = "send" => tpl # None
    /\ AddStep(p, type, order, Target(type))

\* The operator UI keeps it for later, and asks for none.
OperatorAddStep(p, type, order) ==
    \E target \in {Target(type), NoTarget} : AddStep(p, type, order, target)

Taken(order) == \E s \in steps : s.order = order
LinkHolds(target) == target.tpl = None \/ Exists(target.tpl)

Made(j, order) == [id |-> j.step, order |-> order, type |-> j.type,
                   tpl |-> j.target.tpl,
                   key |-> IF j.target.key THEN made + 1 ELSE 0]

\* Of the save of a step.
Noted(j) ==
    LET Marks(ids, yes) == IF j.type = "send" /\ yes THEN ids \cup {j.step} ELSE ids \ {j.step}
    IN  raced' = Marks(raced, GuardLooked) /\ unkeyed' = Marks(unkeyed, j.target = NoTarget)

CreateStep(p) ==
    /\ job[p].pc = "create" /\ ~Taken(job[p].order) /\ LinkHolds(job[p].target)
    /\ steps' = steps \cup {Made(job[p], job[p].order)}
    /\ Noted(job[p])
    /\ collided' = ""
    /\ Edited
    /\ Answer(p)
    /\ UNCHANGED <<tplVars, exec, orphaned>>

\* uniq_step_order_per_workflow, or a template that is gone.
CreateFails(p) ==
    /\ job[p].pc = "create" /\ (Taken(job[p].order) \/ ~LinkHolds(job[p].target))
    /\ Answer(p)
    /\ UNCHANGED <<tplVars, stepVars>>

\* workflow_step_update: an order other than the step's makes it move first, by
\* the list of the steps as they are now.
UpdateStep(p, id, type, order) ==
    /\ HasRow(id)
    /\ type = "send" => tpl # None
    /\ Request(p, "steps", [pc |-> IF order = Row(id).order THEN "save" ELSE "move",
                 step |-> id, type |-> type, order |-> order, target |-> Target(type),
                 list |-> IF order = Row(id).order THEN <<>> ELSE Ordered(steps)])
    /\ UNCHANGED <<tplVars, stepVars>>

\* The moving step at its 1-based place among the rest.
Rearranged(list, id, order) ==
    LET place == IF order < 1 THEN 1 ELSE IF order > Len(list) THEN Len(list) ELSE order
        from == CHOOSE i \in DOMAIN list : list[i].id = id
    IN InsertAt(RemoveAt(list, from), place, list[from])

\* One UPDATE for each row whose order, as it was read, is not its place.
Updates(list, i, s) == list[i].id = s.id /\ list[i].order # i

\* The order of a row before the i-th UPDATE.
OrderBefore(i, s, list) ==
    LET own == {k \in DOMAIN list : k < i /\ Updates(list, k, s)}
    IN IF own = {} THEN s.order ELSE CHOOSE k \in own : TRUE

Clash == {[id |-> 0]}

\* The constraint is checked at each UPDATE.  A row that is gone is not updated.
Renumbered(rows, list) ==
    IF \E i \in DOMAIN list, s, t \in rows :
           Updates(list, i, s) /\ t # s /\ OrderBefore(i, t, list) = i
    THEN Clash
    ELSE {[s EXCEPT !.order = OrderBefore(Len(list) + 1, s, list)] : s \in rows}

\* A step that another transaction has deleted, but not committed, is waited for.
Free(id) == \A p \in Procs : job[p].pc = "renumber" => job[p].step # id

\* apply_step_order, one transaction; its list was read in it.
MoveStep(p) ==
    LET j == job[p]
        list == Rearranged(j.list, j.step, j.order)
        moved == Renumbered(steps, list)
    IN /\ j.pc = "move" /\ moved # Clash
       /\ \A i \in DOMAIN list : list[i].order # i => Free(list[i].id)
       /\ steps' = moved
       /\ collided' = ""
       /\ Edited
       /\ Goto(p, "save")
       /\ UNCHANGED <<tplVars, exec, raced, unkeyed, orphaned>>

\* An IntegrityError: nothing of the request is saved.
MoveFails(p) ==
    /\ job[p].pc = "move"
    /\ Renumbered(steps, Rearranged(job[p].list, job[p].step, job[p].order)) = Clash
    /\ collided' = "move"
    /\ Answer(p)
    /\ UNCHANGED <<tplVars, steps, exec, raced, unkeyed, orphaned, sweepVars>>

\* The other fields, with whatever order the row has now.
SaveStep(p) ==
    /\ job[p].pc = "save" /\ HasRow(job[p].step) /\ Free(job[p].step)
    /\ LinkHolds(job[p].target)
    /\ steps' = (steps \ {Row(job[p].step)}) \cup {Made(job[p], Row(job[p].step).order)}
    /\ Noted(job[p])
    /\ Edited
    /\ Answer(p)
    /\ UNCHANGED <<tplVars, exec, orphaned, collided>>

SaveFails(p) ==
    /\ job[p].pc = "save"
    /\ ~HasRow(job[p].step) \/ ~LinkHolds(job[p].target)
    /\ Answer(p)
    /\ UNCHANGED <<tplVars, stepVars>>

----------------------------------------------------------------------------
(* delete_step_and_renumber                                                *)

\* The DELETE, which others wait for and do not see, and the list of the rest.
DeleteStep(p, id) ==
    /\ HasRow(id) /\ Free(id)
    /\ Request(p, "steps", [pc |-> "renumber", step |-> id, list |-> Ordered(steps \ {Row(id)})])
    /\ UNCHANGED <<tplVars, stepVars>>

\* Variant: DO_NOTHING, executions keep the deleted step.
Keeping(id) == {}

\* WorkflowExecution.current_step, SET_NULL.
At(id) == {e \in Execs : exec[e].state \in {"running", "failed"} /\ exec[e].at = id}

\* The rest is moved up and all is committed; executions lose their step.
RenumberSteps(p) ==
    LET j == job[p] IN
    /\ j.pc = "renumber" /\ Renumbered(steps \ {Row(j.step)}, j.list) # Clash
    /\ steps' = Renumbered(steps \ {Row(j.step)}, j.list)
    /\ exec' = [e \in Execs |-> IF e \in At(j.step) THEN [exec[e] EXCEPT !.at = 0] ELSE exec[e]]
    /\ orphaned' = orphaned \cup At(j.step)
    /\ collided' = ""
    /\ Edited
    /\ Answer(p)
    /\ UNCHANGED <<tplVars, raced, unkeyed>>

\* A position that is still taken: the step is not deleted either.
RenumberFails(p) ==
    /\ job[p].pc = "renumber" /\ Renumbered(steps \ {Row(job[p].step)}, job[p].list) = Clash
    /\ collided' = "delete"
    /\ Answer(p)
    /\ UNCHANGED <<tplVars, steps, exec, raced, unkeyed, orphaned, sweepVars>>

----------------------------------------------------------------------------
(* Enrolments                                                              *)

\* required_template_context_keys: what the templates of the send steps declare,
\* and the variables of their approved texts.
ContextKeys ==
    IF \E s \in steps : s.type = "send" /\ Resolves(s)
    THEN tpl.declared \cup (IF CurrentNum(tpl.id) = 0 THEN {}
                            ELSE Uses(BodyOf(tpl.id, CurrentNum(tpl.id))))
    ELSE {}

\* The enrolment is saved by itself.
WorkflowEnroll(p, e, context) ==
    /\ exec[e].state = "absent"
    /\ Request(p, "steps", [pc |-> "enroll", enrollment |-> e])
    /\ exec' = [exec EXCEPT ![e] = [state |-> "enrolled", context |-> context]]
    /\ UNCHANGED <<tplVars, steps, orphaned, editVars, sweepVars>>

\* PortalWorkflowEnrollForm: no key may be missing or empty.
Complete(context) == ContextKeys \subseteq context

PortalEnroll(p, e, context) == Complete(context) /\ WorkflowEnroll(p, e, context)

\* The operator UI and the API take what they are given.
OperatorEnroll(p, e, context) == WorkflowEnroll(p, e, context)
ApiEnroll(p, e, context) == WorkflowEnroll(p, e, context)

\* enroll_workflow: an execution at the first step, or a ValueError.
StartExecution(p) ==
    /\ job[p].pc = "enroll"
    /\ LET e == job[p].enrollment IN
        exec' = IF steps = {} THEN exec
                ELSE [exec EXCEPT ![e] = [state |-> "running", at |-> First(steps).id,
                                          context |-> @.context]]
    /\ Answer(p)
    /\ UNCHANGED <<tplVars, steps, orphaned, editVars, sweepVars>>

\* Variant: the step whose order is one higher.
StepAfter(s) == {t \in steps : t.order = s.order + 1}

\* next_linear_step, as a set of at most one.
NextLinearStep(s) ==
    LET later == {t \in steps : t.order > s.order} IN IF later = {} THEN {} ELSE {First(later)}

\* create_templated_message with the context of the enrolment, in one step.
Sendable(context) ==
    /\ CurrentNum(tpl.id) # 0 /\ Valid(context)
    /\ RenderEmailVersion(BodyOf(tpl.id, CurrentNum(tpl.id)), context)
    /\ tpl.footer \subseteq context

----------------------------------------------------------------------------
(* _process_one_execution, of a copy                                       *)

\* current_step is NULL: that completes an execution, as an END does.
Nowhere == [id |-> 0, order |-> 0, type |-> "end", tpl |-> None, key |-> 0]

\* The first thing to do with a step.
Stage(s) == CASE s.type = "send" -> "send" [] s.type = "wait" -> "next" [] s.type = "end" -> "complete"

InHand(e, s) == [pc |-> Stage(s), exec |-> e, step |-> s, next |-> {}]

Continues(c, copy) == sweep' = [sweep EXCEPT ![c] = copy]

\* The copy is loaded with its current step, long before it is its turn.
SweepLoad(c, e) ==
    /\ sweep[c] = Idle /\ exec[e].state = "running"
    /\ Continues(c, InHand(e, IF exec[e].at = 0 THEN Nowhere ELSE Row(exec[e].at)))
    /\ overtaken' = IF e \in Swept THEN overtaken \cup {e} ELSE overtaken \ {e}
    /\ UNCHANGED <<tplVars, job, left, steps, exec, orphaned, editVars, sent>>

SweepSend(c) ==
    LET h == sweep[c] IN
    /\ h.pc = "send" /\ Resolves(h.step) /\ Sendable(exec[h.exec].context)
    /\ sent' = [sent EXCEPT ![h.exec] = @ \cup {h.step.id}]
    /\ Continues(c, [h EXCEPT !.pc = "sent"])
    /\ UNCHANGED <<tplVars, job, left, steps, exec, orphaned, editVars, overtaken>>

NextRow(h) == CHOOSE t \in h.next : TRUE

\* The WorkflowStepRun of a step that was sent, or of a wait that is over.
SweepLog(c) ==
    LET h == sweep[c] IN
    /\ h.pc \in {"sent", "waited"} /\ HasRow(h.step.id) /\ Free(h.step.id)
    /\ Continues(c, IF h.pc = "sent" THEN [h EXCEPT !.pc = "next"]
                    ELSE IF h.next = {} THEN [h EXCEPT !.pc = "complete"]
                    ELSE InHand(h.exec, NextRow(h)))
    /\ UNCHANGED <<tplVars, job, left, steps, exec, orphaned, editVars, sent, overtaken>>

\* The next step is looked for behind the order the step in hand had when it was loaded.
SweepNext(c) ==
    LET h == sweep[c]
        next == NextLinearStep(h.step)
    IN  /\ h.pc = "next"
        /\ Continues(c, [h EXCEPT !.next = next,
                    !.pc = IF h.step.type = "send" /\ next = {} THEN "complete" ELSE "save"])
        /\ UNCHANGED <<tplVars, job, left, steps, exec, orphaned, editVars, sent, overtaken>>

\* The save of the columns, whatever they are now.  After a wait, current_step may be NULL;
\* a sweep that sent mail stops before a wait, else it goes on.
SweepSave(c) ==
    LET h == sweep[c] IN
    /\ h.pc = "save" /\ \A t \in h.next : HasRow(t.id) /\ Free(t.id)
    /\ exec' = [exec EXCEPT ![h.exec] =
                   [@ EXCEPT !.state = "running", !.at = IF h.next = {} THEN 0 ELSE NextRow(h).id]]
    /\ orphaned' = orphaned \ {h.exec}
    /\ Continues(c, IF h.step.type = "wait" THEN [h EXCEPT !.pc = "waited"]
                    ELSE IF NextRow(h).type = "wait" THEN Idle
                    ELSE InHand(h.exec, NextRow(h)))
    /\ UNCHANGED <<tplVars, job, left, steps, editVars, sent, overtaken>>

\* _complete
SweepComplete(c) ==
    LET h == sweep[c] IN
    /\ h.pc = "complete"
    /\ exec' = [exec EXCEPT ![h.exec] = [@ EXCEPT !.state = "completed", !.at = 0]]
    /\ Continues(c, Idle)
    /\ UNCHANGED <<tplVars, job, left, steps, orphaned, editVars, sent, overtaken>>

\* Nothing to send, or not like that; a row that a WorkflowStepRun or the execution would
\* reference is gone.
Raises(h) ==
    \/ h.pc = "send" /\ ~(Resolves(h.step) /\ Sendable(exec[h.exec].context))
    \/ h.pc \in {"sent", "waited"} /\ ~HasRow(h.step.id)
    \/ h.pc = "save" /\ \E t \in h.next : ~HasRow(t.id)

\* process_due_executions catches whatever a step raises.
SweepFails(c) ==
    LET h == sweep[c] IN
    /\ Raises(h)
    /\ exec' = [exec EXCEPT ![h.exec].state = "failed"]
    /\ Continues(c, Idle)
    /\ UNCHANGED <<tplVars, job, left, steps, orphaned, editVars, sent, overtaken>>

\* The worker is stopped.  A wait that was over before the last step was saved as NULL.
SweepDies(c) ==
    LET h == sweep[c] IN
    /\ h # Idle
    /\ orphaned' = IF h.pc \in {"waited", "complete"} /\ exec[h.exec].at = 0
                   THEN orphaned \cup {h.exec} ELSE orphaned
    /\ Continues(c, Idle)
    /\ UNCHANGED <<tplVars, job, left, steps, exec, editVars, sent, overtaken>>

----------------------------------------------------------------------------

\* A web process is stopped; what it had not committed is rolled back.
Die(p) ==
    /\ job[p] # Idle
    /\ Answer(p)
    /\ cut' = IF job[p].pc = "mark" THEN cut \cup {job[p].tpl} ELSE cut
    /\ UNCHANGED <<tpl, made, versions, logs, mail, page, stepVars>>

StepRequests(p) ==
    \/ \E type \in Types, order \in 0..MaxOrder :
        \/ PortalAddStep(p, type, order) \/ OperatorAddStep(p, type, order)
        \/ \E s \in steps : UpdateStep(p, s.id, type, order)
    \/ \E s \in steps : DeleteStep(p, s.id)
    \/ \E e \in Execs, context \in SUBSET Vars :
        PortalEnroll(p, e, context) \/ OperatorEnroll(p, e, context) \/ ApiEnroll(p, e, context)

StepJobs(p) ==
    \/ CreateStep(p) \/ CreateFails(p) \/ MoveStep(p) \/ MoveFails(p)
    \/ SaveStep(p) \/ SaveFails(p) \/ RenumberSteps(p) \/ RenumberFails(p)
    \/ StartExecution(p)

Next ==
    \/ \E p \in Procs :
        \/ TplActions(p) /\ UNCHANGED stepVars
        \/ StepRequests(p) \/ StepJobs(p)
        \/ TemplateDelete(p) \/ OperatorTemplateDelete(p) \/ RemoveTemplate(p) \/ Die(p)
    \/ \E c \in Copies :
        \/ \E e \in Execs : SweepLoad(c, e)
        \/ SweepSend(c) \/ SweepLog(c) \/ SweepNext(c) \/ SweepSave(c)
        \/ SweepComplete(c) \/ SweepFails(c) \/ SweepDies(c)

Spec == Init /\ [][Next]_vars

----------------------------------------------------------------------------
(* Properties                                                              *)

\* Types; a step links to the template there is, positions are not shared, and
\* an execution stands at a step of the workflow.
TypeOK ==
    /\ TplTypeOK
    /\ \A s \in steps :
        /\ s.id \in 1..MaxSteps /\ s.order \in Nat /\ s.type \in Types
        /\ s.tpl = None \/ Exists(s.tpl)
        /\ \A t \in steps : t.id = s.id \/ t.order = s.order => t = s
    /\ \A e \in Execs :
        /\ exec[e].state \in {"absent", "enrolled", "running", "completed", "failed"}
        /\ exec[e].state = "running" => exec[e].at = 0 \/ HasRow(exec[e].at)
        /\ sent[e] \subseteq 1..MaxSteps
    /\ \A c \in Copies : sweep[c] = Idle \/
        /\ sweep[c].pc \in {"send", "sent", "next", "save", "waited", "complete"}
        /\ sweep[c].exec \in Execs /\ sweep[c].step.id \in 0..MaxSteps
    /\ raced \cup unkeyed \subseteq 1..MaxSteps /\ orphaned \cup overtaken \subseteq Execs
    /\ collided \in {"", "move", "delete"}

\* No send step is left without a template it can find, however editing steps and
\* deleting and making templates meet: the guard of template_delete sees links and keys.
\* Left out are a step saved between that guard and its DELETE, a step for which the
\* operator UI was given no key, and a key it kept for a template that never came.
SendStepsResolve ==
    \A s \in steps : s.type = "send" /\ ~Resolves(s) => s.id \in raced \cup unkeyed \/ s.key > made

\* An execution completes only at an END or when nothing lies behind its step, whatever
\* gaps adding, moving and deleting left in the order; or else because its current step
\* was deleted or lost (orphaned), which ends it wherever it was, or because the step was
\* judged by a copy that was no longer so: the steps were edited, or another sweep had the
\* execution too, between the load of the copy and its end (overtaken).
DripsRunOut ==
    [][\A e \in Execs : exec[e].state = "running" /\ exec'[e].state = "completed" =>
        \/ e \in orphaned \cup overtaken
        \/ \E c \in Copies :
            /\ sweep[c] # Idle /\ sweep[c].exec = e /\ HasRow(sweep[c].step.id)
            /\ LET s == Row(sweep[c].step.id)
               IN  s.type = "end" \/ \A t \in steps : t.order <= s.order]_vars

\* Renumbering does not run into its own unique constraint: a step can be moved
\* to a position among the steps of its workflow, and any step deleted.
StepsCanBeRearranged == collided = ""
=============================================================================

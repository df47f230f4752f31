--------------------------- MODULE TemplateStudio ---------------------------
(***************************************************************************)
(* One template key of a tenant: its versions, by hand and by LLM, their   *)
(* approval and previews, and the messages made from them.                 *)
(*                                                                         *)
(* The views of the portal, the operator UI and the API differ in whom     *)
(* they let in and in how they answer, not in what they do.  A request is  *)
(* a job of a web process; every action is one statement, or a transaction *)
(* no other statement sees a part of, and the requests of Procs interleave.*)
(* WorkflowSteps adds the workflow whose steps send the template.          *)
(***************************************************************************)
EXTENDS TemplateBodies, Naturals, FiniteSets

CONSTANTS
    None,
    Procs,          \* the web processes, each with a browser
    Start,          \* the rows to start from, and the requests of each kind that
                    \* come (a bound): [tpl, versions, steps, left]
    Edits,          \* HTML bodies a user may type
    Texts,          \* plain texts a user may type
    Drafts,         \* what the LLM may answer: [body, vars, required]
    Footers,        \* variables the tenant's compliance footer may have for a category
    MaxTemplates    \* bound: EmailTemplate rows, one after the other

ASSUME StudioAssumption ==
    /\ IsFiniteSet(Procs)
    /\ MaxTemplates \in Nat
    /\ \A s \in Start : s.left.tpl \in Nat /\ s.left.steps \in Nat
    /\ Footers \subseteq SUBSET Vars
    /\ \A d \in Drafts : d.required \subseteq d.vars /\ d.vars \subseteq Vars
    /\ None \notin Nat

\* EmailTemplate rows, with the variables they declare.
TplRows == [id : Nat \ {0}, active : BOOLEAN, declared : SUBSET Vars,
            required : SUBSET Vars, footer : Footers]

ASSUME NoneAssumption == None \notin TplRows

ASSUME BodiesAssumption ==
    /\ Edits \subseteq HtmlBodies /\ Texts \subseteq PlainTexts
    /\ \A d \in Drafts : d.body \in StoredBodies

VARIABLES
    tpl,        \* the EmailTemplate row of the key, or None
    made,       \* EmailTemplate rows ever made; the last has this id
    versions,   \* EmailTemplateVersion rows
    logs,       \* TemplateRenderLog rows
    mail,       \* messages: the version they name, and the one they carry
    page,       \* the template page in a process's browser, or None
    job,        \* the request a process is serving
    cut,        \* history: templates an approval of which died half way
    left        \* requests still to come

tplVars == <<tpl, made, versions, logs, mail, page, cut>>

Idle == [pc |-> "idle"]

\* The rows of a start are rows the system gets to: versions are numbered from 1, one of
\* them is current once one was approved.
TplStartOK(s) ==
    /\ s.tpl = None \/ (s.tpl \in TplRows /\ s.tpl.id = 1 /\ s.tpl.required \subseteq s.tpl.declared
                       /\ MaxTemplates > 0)
    /\ IsFiniteSet(s.versions) /\ {v.num : v \in s.versions} = 1 .. Cardinality(s.versions)
    /\ \A v \in s.versions :
        /\ v = [tpl |-> 1, num |-> v.num, body |-> v.body,
                approved |-> v.approved, current |-> v.current]
        /\ s.tpl # None /\ v.body \in StoredBodies /\ v.approved \in BOOLEAN /\ v.current \in BOOLEAN
        /\ v.current => v.approved
        /\ v.approved => \E w \in s.versions : w.current
        /\ \A w \in s.versions : v.num = w.num \/ (v.current /\ w.current) => v = w
    /\ s.left \in [{"tpl", "steps"} -> Nat]

TplInit(s) ==
    /\ tpl = s.tpl /\ versions = s.versions /\ left = s.left
    /\ made = IF s.tpl = None THEN 0 ELSE 1
    /\ logs = {} /\ mail = {} /\ cut = {}
    /\ page = [p \in Procs |-> None]
    /\ job = [p \in Procs |-> Idle]

Exists(id) == tpl # None /\ tpl.id = id
VersionsOf(id) == {v \in versions : v.tpl = id}
Latest(id) == CHOOSE v \in VersionsOf(id) : \A w \in VersionsOf(id) : w.num <= v.num

\* Max("version_number") or 0, and the bodies to compare a posted form with.
MaxNum(id) == IF VersionsOf(id) = {} THEN 0 ELSE Latest(id).num
LatestBody(id) == IF VersionsOf(id) = {} THEN Empty ELSE Latest(id).body

\* Variant: the latest version is sent.
LatestNum(id) == MaxNum(id)

\* EmailTemplate.current_approved_version, 0 where there is none.
CurrentNum(id) ==
    IF \E v \in VersionsOf(id) : v.current
    THEN (CHOOSE v \in VersionsOf(id) : v.current).num ELSE 0

BodyOf(id, num) == (CHOOSE v \in VersionsOf(id) : v.num = num).body

Request(p, kind, request) ==
    /\ job[p] = Idle /\ left[kind] > 0
    /\ left' = [left EXCEPT ![kind] = @ - 1]
    /\ job' = [job EXCEPT ![p] = request]

Begin(p, request) == Request(p, "tpl", request)

Goto(p, pc) == job' = [job EXCEPT ![p].pc = pc] /\ UNCHANGED left
Answer(p) == job' = [job EXCEPT ![p] = Idle] /\ UNCHANGED left

----------------------------------------------------------------------------
(* The template and its pages                                              *)

Shell(footer) ==
    [id |-> made + 1, active |-> FALSE, declared |-> {}, required |-> {}, footer |-> footer]

CreateTemplate ==
    /\ tpl = None /\ made < MaxTemplates
    /\ made' = made + 1
    /\ \E footer \in Footers : tpl' = Shell(footer)

\* A draft without versions; a key that is taken is an IntegrityError.
TemplateNew(p) ==
    /\ CreateTemplate
    /\ Begin(p, Idle)
    /\ UNCHANGED <<versions, logs, mail, page, cut>>

\* The form of the template page holds the latest version.
VersionForm(id) == [tpl |-> id, num |-> MaxNum(id), body |-> LatestBody(id)]

TemplateDetail(p) ==
    /\ tpl # None /\ job[p] = Idle
    /\ page' = [page EXCEPT ![p] = VersionForm(tpl.id)]
    /\ UNCHANGED <<tpl, made, versions, logs, mail, job, cut, left>>

----------------------------------------------------------------------------
(* Versions                                                                *)

\* The numbered version about to be inserted.  typed is the plain text of a form
\* in which it is the only field edited since the version that is still latest.
Inserting(id, body, draft, typed) ==
    [pc |-> "insert", tpl |-> id, num |-> MaxNum(id) + 1, body |-> body,
     vars |-> draft.vars, required |-> draft.required, typed |-> typed]

ByHand == [vars |-> {}, required |-> {}]

\* What a form with the body old can come back with: HTML is required.
Posted(old) ==
    {form \in [html : Edits \cup {old.html}, text : Texts \cup {old.text}] : form.html.nodes # <<>>}

\* template_version_create reads the latest version, whatever the form was made
\* from.  (A version that comes between its two reads is one more collision.)
VersionCreate(p) ==
    /\ page[p] # None /\ Exists(page[p].tpl)
    /\ \E form \in Posted(page[p].body) :
        Begin(p, Inserting(tpl.id, ReconcileTemplateBodies(LatestBody(tpl.id), form), ByHand,
                IF /\ page[p].num = MaxNum(tpl.id)
                   /\ form.html = page[p].body.html /\ form.text # page[p].body.text
                THEN form.text ELSE <<>>))
    /\ UNCHANGED tplVars

Asked(id, fresh) == [pc |-> "llm", tpl |-> id, fresh |-> fresh]

\* generate_draft_version after the get_or_create of the API and of the studio:
\* the template is there even when the LLM fails.
TemplateGenerate(p) ==
    /\ CreateTemplate \/ (tpl # None /\ UNCHANGED <<tpl, made>>)
    /\ Begin(p, Asked(tpl'.id, TRUE))
    /\ UNCHANGED <<versions, logs, mail, page, cut>>

\* template_setup: only while there is no version, by the LLM or in an empty form.
TemplateSetup(p) ==
    /\ tpl # None /\ VersionsOf(tpl.id) = {}
    /\ \/ Begin(p, Asked(tpl.id, TRUE))
       \/ \E form \in Posted(Empty) :
            Begin(p, Inserting(tpl.id, ReconcileTemplateBodies(Empty, form), ByHand, <<>>))
    /\ UNCHANGED tplVars

\* template_revise: the prompt holds what is the latest version now.
TemplateRevise(p) ==
    /\ tpl # None /\ VersionsOf(tpl.id) # {}
    /\ Begin(p, Asked(tpl.id, FALSE))
    /\ UNCHANGED tplVars

\* The LLM answered, and the transaction reads the highest number.
DraftArrives(p) ==
    /\ job[p].pc = "llm" /\ job[p].fresh
    /\ \E d \in Drafts :
        job' = [job EXCEPT ![p] = [Inserting(job[p].tpl, d.body, d, <<>>) EXCEPT !.pc = "generate"]]
    /\ UNCHANGED <<tplVars, left>>

RevisionArrives(p) ==
    /\ job[p].pc = "llm" /\ ~job[p].fresh
    /\ \E d \in Drafts :
        job' = [job EXCEPT ![p] = Inserting(job[p].tpl, d.body, ByHand, <<>>)]
    /\ UNCHANGED <<tplVars, left>>

\* An exception of the client, or an answer that is not valid.
LlmFails(p) ==
    /\ job[p].pc = "llm"
    /\ Answer(p)
    /\ UNCHANGED tplVars

NewVersion(j) ==
    [tpl |-> j.tpl, num |-> j.num, body |-> j.body, approved |-> FALSE, current |-> FALSE]

\* Variant: no constraint on (template, version_number), the later one stays.
InsertOver(p) ==
    /\ job[p].pc = "insert" /\ Exists(job[p].tpl)
    /\ versions' = {v \in versions : v.tpl # job[p].tpl \/ v.num # job[p].num}
                        \cup {NewVersion(job[p])}
    /\ Answer(p)
    /\ UNCHANGED <<tpl, made, logs, mail, page, cut>>

\* uniq_version_number_per_template, and the template's row.
Accepted(j) == Exists(j.tpl) /\ \A v \in VersionsOf(j.tpl) : v.num # j.num

InsertVersion(p) ==
    /\ job[p].pc = "insert" /\ Accepted(job[p])
    /\ versions' = versions \cup {NewVersion(job[p])}
    /\ Answer(p)
    /\ UNCHANGED <<tpl, made, logs, mail, page, cut>>

\* With a generated version its variables: update_or_create sets is_required
\* anew, for the template and not for the version.
InsertDraft(p) ==
    /\ job[p].pc = "generate" /\ Accepted(job[p])
    /\ versions' = versions \cup {NewVersion(job[p])}
    /\ tpl' = [tpl EXCEPT !.declared = @ \cup job[p].vars,
                          !.required = (@ \ job[p].vars) \cup job[p].required]
    /\ Answer(p)
    /\ UNCHANGED <<made, logs, mail, page, cut>>

\* An IntegrityError: the version, and what the LLM was paid for, is lost.
InsertFails(p) ==
    /\ job[p].pc \in {"insert", "generate"} /\ ~Accepted(job[p])
    /\ Answer(p)
    /\ UNCHANGED tplVars

----------------------------------------------------------------------------
(* approve_latest_version: three statements, each its own transaction      *)

Approve(p) ==
    /\ tpl # None /\ VersionsOf(tpl.id) # {}
    /\ Begin(p, [pc |-> "clear", tpl |-> tpl.id, num |-> MaxNum(tpl.id)])
    /\ UNCHANGED tplVars

ClearCurrent(p) ==
    /\ job[p].pc = "clear"
    /\ versions' = {IF v.tpl = job[p].tpl THEN [v EXCEPT !.current = FALSE] ELSE v : v \in versions}
    /\ Goto(p, "mark")
    /\ UNCHANGED <<tpl, made, logs, mail, page, cut>>

Marked(j) == {v \in versions : v.tpl = j.tpl /\ v.num = j.num}

\* Variant: the version is approved, the flag is left for later.
MarkApproved(p) ==
    /\ job[p].pc = "mark" /\ Marked(job[p]) # {}
    /\ \A v \in VersionsOf(job[p].tpl) : v.current => v.num = job[p].num
    /\ versions' = {IF v \in Marked(job[p]) THEN [v EXCEPT !.approved = TRUE] ELSE v : v \in versions}
    /\ Goto(p, "activate")
    /\ UNCHANGED <<tpl, made, logs, mail, page, cut>>

MarkCurrent(p) ==
    /\ job[p].pc = "mark" /\ Marked(job[p]) # {}
    /\ \A v \in VersionsOf(job[p].tpl) : v.current => v.num = job[p].num
    /\ versions' = {IF v \in Marked(job[p])
                    THEN [v EXCEPT !.approved = TRUE, !.current = TRUE] ELSE v : v \in versions}
    /\ Goto(p, "activate")
    /\ UNCHANGED <<tpl, made, logs, mail, page, cut>>

\* Another version is current (uniq_current_approved_per_template), or the row
\* is gone.
MarkFails(p) ==
    /\ job[p].pc = "mark"
    /\ Marked(job[p]) = {} \/ \E v \in VersionsOf(job[p].tpl) : v.current /\ v.num # job[p].num
    /\ Answer(p)
    /\ UNCHANGED tplVars

\* The save of a template that was deleted is a DatabaseError.
Activate(p) ==
    /\ job[p].pc = "activate"
    /\ tpl' = IF Exists(job[p].tpl) THEN [tpl EXCEPT !.active = TRUE] ELSE tpl
    /\ Answer(p)
    /\ UNCHANGED <<made, versions, logs, mail, page, cut>>

----------------------------------------------------------------------------
(* Rendering                                                               *)

\* TemplateValidationService.validate_context
Valid(context) == tpl.required \subseteq context

\* Variant: the lenient environment of the draft preview.
PreviewLeniently(p, context) ==
    /\ tpl # None /\ VersionsOf(tpl.id) # {}
    /\ Valid(context)
    /\ logs' = logs \cup {[tpl |-> tpl.id, num |-> MaxNum(tpl.id), context |-> context]}
    /\ Begin(p, Idle)
    /\ UNCHANGED <<tpl, made, versions, mail, page, cut>>

\* template_preview renders the latest version and logs what it rendered.
Preview(p, context) ==
    /\ tpl # None /\ VersionsOf(tpl.id) # {}
    /\ Valid(context) /\ RenderEmailVersion(LatestBody(tpl.id), context)
    /\ logs' = logs \cup {[tpl |-> tpl.id, num |-> MaxNum(tpl.id), context |-> context]}
    /\ Begin(p, Idle)
    /\ UNCHANGED <<tpl, made, versions, mail, page, cut>>

\* create_templated_message: the version the message will name; none is an error.
SendTemplate(p, context) ==
    /\ tpl # None /\ CurrentNum(tpl.id) # 0
    /\ Begin(p, [pc |-> "validate", tpl |-> tpl.id, context |-> context,
                 names |-> CurrentNum(tpl.id)])
    /\ UNCHANGED tplVars

Message(j, tried, why) ==
    [tpl |-> j.tpl, names |-> j.names, context |-> j.context, tried |-> tried, why |-> why]

Validate(p) ==
    /\ job[p].pc = "validate"
    /\ \/ Valid(job[p].context) /\ Goto(p, "render") /\ UNCHANGED mail
       \/ /\ ~Valid(job[p].context)
          /\ mail' = mail \cup {Message(job[p], 0, "variables")}
          /\ Answer(p)
    /\ UNCHANGED <<tpl, made, versions, logs, page, cut>>

\* render_message_body reads the current version again, and appends the footer,
\* which no preview shows.
Render(p) ==
    /\ job[p].pc = "render"
    /\ LET num == CurrentNum(job[p].tpl)
           why == IF num = 0 THEN "unapproved"
                  ELSE IF ~RenderEmailVersion(BodyOf(job[p].tpl, num), job[p].context)
                  THEN "render"
                  ELSE IF ~(tpl.footer \subseteq job[p].context) THEN "footer" ELSE "rendered"
       IN mail' = mail \cup {Message(job[p], num, why)}
    /\ Answer(p)
    /\ UNCHANGED <<tpl, made, versions, logs, page, cut>>

----------------------------------------------------------------------------
(* Deletion                                                                *)

\* A message that is being made holds a share of its template's row.
Unlocked(id) == \A p \in Procs : job[p].pc \in {"validate", "render"} => job[p].tpl # id

\* The cascade: versions, variables and logs go with the template.
Deleted(id) ==
    /\ Unlocked(id)
    /\ tpl' = IF Exists(id) THEN None ELSE tpl
    /\ versions' = versions \ VersionsOf(id)
    /\ logs' = {l \in logs : l.tpl # id}

----------------------------------------------------------------------------
(* The same handlers in the operator UI and in the API                     *)

OperatorTemplateNew(p) == TemplateNew(p)
OperatorTemplateDetail(p) == TemplateDetail(p)
OperatorVersionCreate(p) == VersionCreate(p)
StudioGenerate(p) == TemplateGenerate(p)
OperatorRevise(p) == TemplateRevise(p)
ApiRevise(p) == TemplateRevise(p)
OperatorApprove(p) == Approve(p)
ApiApprove(p) == Approve(p)
OperatorPreview(p, context) == Preview(p, context)
ApiPreview(p, context) == Preview(p, context)

TplActions(p) ==
    \/ TemplateNew(p) \/ OperatorTemplateNew(p)
    \/ TemplateDetail(p) \/ OperatorTemplateDetail(p)
    \/ VersionCreate(p) \/ OperatorVersionCreate(p)
    \/ TemplateGenerate(p) \/ StudioGenerate(p) \/ TemplateSetup(p)
    \/ TemplateRevise(p) \/ OperatorRevise(p) \/ ApiRevise(p)
    \/ DraftArrives(p) \/ RevisionArrives(p) \/ LlmFails(p)
    \/ InsertVersion(p) \/ InsertDraft(p) \/ InsertFails(p)
    \/ Approve(p) \/ OperatorApprove(p) \/ ApiApprove(p)
    \/ ClearCurrent(p) \/ MarkCurrent(p) \/ MarkFails(p) \/ Activate(p)
    \/ \E context \in SUBSET Vars :
        \/ Preview(p, context) \/ OperatorPreview(p, context) \/ ApiPreview(p, context)
        \/ SendTemplate(p, context)
    \/ Validate(p) \/ Render(p)

----------------------------------------------------------------------------
(* Properties                                                              *)

TplTypeOK ==
    /\ tpl = None \/ (tpl.id = made /\ tpl.active \in BOOLEAN /\ tpl.required \subseteq tpl.declared /\ tpl.footer \in Footers)
    /\ made \in 0..MaxTemplates
    /\ \A v \in versions : Exists(v.tpl) /\ v.num \in Nat \ {0} /\ (v.current => v.approved)
    /\ \A l \in logs : \E v \in versions : v.tpl = l.tpl /\ v.num = l.num
    /\ cut \subseteq 1..made /\ left \in [{"tpl", "steps"} -> Nat]
    /\ DOMAIN page = Procs /\ DOMAIN job = Procs

\* What goes out is text somebody approved: a rendered message carries a version
\* that was approved, also when approvals and new drafts come between the
\* statements that make it ("sends use approved content only").
OnlyApprovedIsSent ==
    \A m \in mail : m.why = "rendered" =>
        \A v \in versions : v.tpl = m.tpl /\ v.num = m.tried => v.approved

SameVersion(v, w) == v.tpl = w.tpl /\ v.num = w.num /\ v.body = w.body

\* A version number is given once: while the template exists no version goes or
\* changes its text, and a new one is the next in number, whoever else saves,
\* generates or revises at the time.
VersionsAreAppended ==
    [][/\ \A v \in versions : Exists(v.tpl)' => \E w \in versions' : SameVersion(v, w)
       /\ \A w \in versions' : (\E v \in versions : SameVersion(v, w)) \/ w.num = MaxNum(w.tpl) + 1
      ]_versions

\* A plain text edited in a form that is up to date, with the HTML left alone, is
\* the text of the new version, whether or not it had a place in the HTML.
TextEditIsSaved ==
    [][\A p \in Procs : \A v \in versions' \ versions :
        /\ job[p].pc = "insert" /\ job[p].tpl = v.tpl /\ job[p].num = v.num
        /\ job[p].typed # <<>> /\ job'[p] = Idle
        => Collapsed(v.body.text) = Collapsed(job[p].typed)]_versions

\* Once a version was approved the template has one to send, except while an
\* approval is between its first two statements, or after one died there: two
\* approvals of different versions cannot leave it without.
ApprovedVersionStays ==
    \A v \in versions : v.approved /\ v.tpl \notin cut =>
        \/ CurrentNum(v.tpl) # 0
        \/ \E p \in Procs : job[p].pc = "mark" /\ job[p].tpl = v.tpl

\* A message made from a version, with a context in which a preview of that
\* version was shown, does not fail to render: of all that differs between the
\* two, only the footer can make it fail.
PreviewPredictsSend ==
    \A m \in mail : \A l \in logs :
        m.tpl = l.tpl /\ m.tried = l.num /\ m.context = l.context => m.why # "render"
=============================================================================

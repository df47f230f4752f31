--------------------------- MODULE MCWorkflowSteps ---------------------------
(* The studio of a tenant: a template "welcome" with the variable {{ name }} *)
(* and workflows that send it.                                               *)
EXTENDS WorkflowSteps, TLC

MCVars == {"name"}

MCRich == [layout |-> "rich", nodes |-> <<<<"hello">>, <<"name">>>>]
MCPlain == [layout |-> "rich", nodes |-> <<<<"hello">>>>]

MCEdits == {MCPlain}
MCTexts == {<<"hi", "name">>, <<"hi">>}
MCDrafts == {[body |-> Stored(MCRich), vars |-> {"name"}, required |-> {"name"}],
             [body |-> Stored(MCPlain), vars |-> {"name"}, required |-> {}]}

MCVersion(n, approved) ==
    [tpl |-> 1, num |-> n, body |-> Stored(IF n = 1 THEN MCRich ELSE MCPlain),
     approved |-> approved, current |-> approved]

MCTpl == [id |-> 1, active |-> TRUE, declared |-> {}, required |-> {}, footer |-> {}]

MCFooters == {{}, {"name"}}

MCNone == [tpl |-> None, versions |-> {}]
MCApproved == [tpl |-> MCTpl, versions |-> {MCVersion(1, TRUE)}]
MCMarketing == [MCApproved EXCEPT !.tpl.footer = {"name"},
                          !.versions = {[MCVersion(1, TRUE) EXCEPT !.body = Stored(MCPlain)]}]
MCDraft == [tpl |-> MCTpl, versions |-> {MCVersion(1, TRUE), MCVersion(2, FALSE)}]

MCStep(id, order, type) ==
    [id |-> id, order |-> order, type |-> type, key |-> 0,
     tpl |-> IF type = "send" THEN 1 ELSE None]

\* Orders as the forms give them: from 1, from 0, with gaps; a drip; nothing.
MCCompact == {MCStep(1, 1, "wait"), MCStep(2, 2, "wait"), MCStep(3, 3, "end")}
MCGaps == {MCStep(1, 0, "wait"), MCStep(2, 1, "wait"), MCStep(3, 4, "wait")}
MCDrip == {MCStep(1, 1, "send"), MCStep(2, 2, "wait"), MCStep(3, 3, "send")}

MCFrom(rows, rowsOfSteps, t, s) ==
    [tpl |-> rows.tpl, versions |-> rows.versions, steps |-> rowsOfSteps,
     left |-> [tpl |-> t, steps |-> s]]

MCStart == {MCFrom(MCDraft, {}, 3, 0), MCFrom(MCNone, {}, 2, 1), MCFrom(MCApproved, {}, 1, 1),
            MCFrom(MCNone, MCCompact, 0, 2), MCFrom(MCNone, MCGaps, 0, 2),
            MCFrom(MCApproved, MCDrip, 0, 2), MCFrom(MCDraft, MCDrip, 1, 1), MCFrom(MCApproved, {}, 2, 0),
            MCFrom(MCMarketing, {}, 2, 0)}

\* One editor who rearranges a workflow of three steps.
MCAlone == {MCFrom(MCNone, MCCompact, 0, 2)}

MCSymmetry == Permutations(Procs) \cup Permutations(Copies)
=============================================================================

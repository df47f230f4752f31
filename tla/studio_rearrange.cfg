CONSTANTS
    None = None
    Procs = {p1}
    Vars <- MCVars
    Start <- MCAlone
    Edits <- MCEdits
    Texts <- MCTexts
    Drafts <- MCDrafts
    Footers <- MCFooters
    MaxTemplates = 2
    MaxSteps = 4
    MaxOrder = 3
    Execs = {e1}
    Copies = {c1}
SPECIFICATION Spec
INVARIANT StepsCanBeRearranged
CHECK_DEADLOCK FALSE

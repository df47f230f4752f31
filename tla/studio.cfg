CONSTANTS
    None = None
    Procs = {p1, p2}
    Vars <- MCVars
    Start <- MCStart
    Edits <- MCEdits
    Texts <- MCTexts
    Drafts <- MCDrafts
    Footers <- MCFooters
    MaxTemplates = 2
    MaxSteps = 4
    MaxOrder = 3
    Execs = {e1}
    Copies = {c1, c2}
SPECIFICATION Spec
SYMMETRY MCSymmetry
INVARIANTS TypeOK OnlyApprovedIsSent ApprovedVersionStays PreviewPredictsSend SendStepsResolve
PROPERTIES VersionsAreAppended TextEditIsSaved DripsRunOut
CHECK_DEADLOCK FALSE

SPECIFICATION Spec
CONSTANTS
    Msgs = {m1}
    Workers = {w1, w2}
    Clients = {c1}
    None = None
    WebhookKinds = {"delivered", "hard_bounce", "soft_bounce", "complained", "failed_terminal", "failed_transient"}
    MaxRetries = 1
    MaxCopies = 2
    MaxSlots = 2
    MaxCrashes = 1
SYMMETRY WorkerSymmetry
INVARIANTS
    EverySendHasASlot
    ReportedMeansAccepted
    NeverSentEarly
    DuplicateNeedsExposure
PROPERTIES
    CancelSticks
    ImplementsContract
CHECK_DEADLOCK FALSE

SPECIFICATION UnstarvedSpec
CONSTANTS
    Msgs = {m1}
    Workers = {w1, w2}
    Clients = {c1}
    None = None
    WebhookKinds = {"delivered", "hard_bounce", "soft_bounce", "complained", "failed_terminal", "failed_transient"}
    MaxRetries = 1
    MaxCopies = 1
    MaxSlots = 1
    MaxCrashes = 1
PROPERTIES
    QueuedIsTaken
    DueDeferralEnds
    EventuallyReserved
CHECK_DEADLOCK FALSE

CONSTANTS
    None = None
    m1 = m1
    m2 = m2
    e1 = e1
    u1 = u1
    u2 = u2
    Procs = {p1, p2}
    Messages = {m1, m2}
    Emails = {e1}
    ToEmail <- MCToEmail
    TypeOf <- MCTypeOf
    SentBefore = {m1}
    Payloads <- MCPayloads
    PrevSent = 0
    PrevRecipients = 0
    MaxWebhooks = 2
    MaxActs = 1
SPECIFICATION Spec
SYMMETRY Interchangeable
INVARIANTS TypeOK FeedbackKeepsOut FeedbackIsHeeded StatusEventOnce
PROPERTIES ManualPauseSurvives
CHECK_DEADLOCK FALSE

--------------------------- MODULE MCWebhookIngest ---------------------------
(* WebhookIngest with two messages to one address and the bodies Postal posts. *)
EXTENDS WebhookIngest, TLC

CONSTANTS m1, m2, e1, u1, u2

Interchangeable == Permutations(Procs)

MCTypeOf == [m \in Messages |-> IF m = m1 THEN "transactional" ELSE "marketing"]

MCToEmail == [m \in Messages |-> e1]

Postal == Body("postal")

\* {"event": ..., "uuid": ..., "payload": {"message": {...}, "status": ...}}
Status(m, event, words, uuid) ==
    [Postal EXCEPT !.wrapped = TRUE, !.event = event, !.status = words, !.message = TRUE,
                   !.blob = m, !.uuid = uuid]

Bounce(m, marker, uuid) ==
    [Postal EXCEPT !.original = TRUE, !.bounce = marker, !.blob = m, !.uuid = uuid]

MCPayloads ==
    { Bounce(m1, "hard", u1), Bounce(m2, "hard", u2),
      [Bounce(m1, "vague", None) EXCEPT !.bounce_id = u1],
      Status(m1, {"sent"}, {"sent"}, u2), Status(m1, {"delay"}, {"fail"}, u2),
      [Status(m1, {}, {"fail", "hardfail"}, None) EXCEPT !.wrapped = FALSE],
      [Status(m1, {}, {}, u1) EXCEPT !.tracked = "url"],
      [Postal EXCEPT !.json = FALSE],
      [Body("other") EXCEPT !.event = {"complaint"}, !.id = m1] }
=============================================================================

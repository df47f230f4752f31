--------------------------- MODULE ProviderEvents ---------------------------
(***************************************************************************)
(* normalizers.py: what a provider's webhook body is taken to say.         *)
(*                                                                         *)
(* A body is a record of the facts the normaliser looks at.  A text it     *)
(* searches for words is the set of the words found in it (event, status), *)
(* and the text of a bounce is the kind of marker found in it; an absent   *)
(* id is None.  In a wrapped body event and uuid are outside the wrapping, *)
(* the rest inside.  The name of a flat event has the word "sent" when that *)
(* is all it says.                                                         *)
(***************************************************************************)
EXTENDS Sequences

CONSTANT None       \* an id or an address that is not there

Body(provider) ==
    [json |-> TRUE, provider |-> provider, wrapped |-> FALSE, event |-> {}, status |-> {},
     original |-> FALSE, bounce |-> "none", message |-> FALSE, spam |-> FALSE,
     tracked |-> "none", message_id |-> None, id |-> None, blob |-> None,
     bounce_id |-> None, uuid |-> None, to |-> None]

Unwrap(raw) ==
    IF ~raw.wrapped THEN raw
    ELSE IF raw.message \/ raw.original \/ raw.status # {} \/ raw.bounce # "none"
    THEN [raw EXCEPT !.wrapped = FALSE]
    ELSE [Body(raw.provider) EXCEPT !.event = raw.event, !.uuid = raw.uuid]

\* The first of a sequence of ids that is there.
FirstId(ids) ==
    LET there == SelectSeq(ids, LAMBDA id : id # None)
    IN  IF there = <<>> THEN None ELSE Head(there)

ProviderMessageId(raw) == FirstId(<<raw.message_id, raw.id, raw.blob>>)

\* Without an id of its own an event is known by its contents.
ProviderEventId(raw) ==
    LET id == FirstId(<<raw.uuid, raw.id>>) IN
    IF id # None THEN <<"id", id>>
    ELSE IF raw.bounce_id # None THEN <<"bounce", raw.bounce_id>>
    ELSE IF raw.original /\ raw.blob # None THEN <<"orig", raw.blob>>
    ELSE IF ProviderMessageId(raw) # None \/ raw.status \cup raw.event # {}
    THEN <<"hash", ProviderMessageId(raw), raw.status, raw.event>>
    ELSE <<>>

Classified(type, bounce, terminal) == [type |-> type, bounce |-> bounce, terminal |-> terminal]

Unknown == Classified("unknown", "none", TRUE)

\* The outcome of the first rule whose condition holds.
FirstRule(rules) ==
    LET hit == SelectSeq(rules, LAMBDA r : r[1])
    IN  IF hit = <<>> THEN Unknown ELSE Head(hit)[2]

\* Ambiguous bounces are soft.
BounceType(bounce) == IF bounce = "hard" THEN "hard" ELSE "soft"

\* The words of an event name alone; each provider has its own list.
NamedType(words, extra) ==
    LET says(w) == w \in words
        is(type) == Classified(type, IF type = "bounced" THEN "soft" ELSE "none", TRUE)
    IN  FirstRule(<< <<says("deliver") \/ says("sent"), is("delivered")>>,
                     <<says("bounce"), is("bounced")>>,
                     <<says("complaint") \/ says("spam"), is("complained")>>,
                     <<says("fail"), is("failed")>>,
                     <<says("open") \/ (says("load") /\ extra), is("opened")>>,
                     <<says("click"), is("clicked")>> >>)

StatusType(raw) ==
    LET all == raw.event \cup raw.status
        has(w) == w \in raw.status
    IN  FirstRule(<< <<has("sent") \/ has("deliver"), Classified("delivered", "none", TRUE)>>,
                     <<"delay" \in all, Classified("failed", "none", FALSE)>>,
                     <<has("held") \/ "hold" \in all, Classified("failed", "none", FALSE)>>,
                     <<has("fail") \/ has("error") \/ "hardfail" \in all,
                       Classified("failed", "none", TRUE)>>,
                     <<has("bounce") /\ "messagebounced" \notin all,
                       Classified("bounced", BounceType(raw.bounce), TRUE)>> >>)

PostalType(raw) ==
    LET all == raw.event \cup raw.status
        status == IF raw.message \/ raw.status # {} THEN StatusType(raw) ELSE Unknown
        named == IF ProviderMessageId(raw) # None
                 THEN NamedType(IF raw.event # {} THEN raw.event ELSE raw.status, TRUE)
                 ELSE Unknown
    IN  FirstRule(<< <<raw.original /\ raw.bounce # "none",
                       Classified("bounced", BounceType(raw.bounce), TRUE)>>,
                     <<(raw.spam \/ {"complaint", "abuse"} \cap all # {})
                         /\ "bounce" \notin all /\ raw.bounce = "none",
                       Classified("complained", "none", TRUE)>>,
                     <<raw.message /\ raw.tracked = "url", Classified("clicked", "none", TRUE)>>,
                     <<raw.message /\ raw.tracked = "agent" /\ raw.status = {},
                       Classified("opened", "none", TRUE)>>,
                     <<status # Unknown, status>>,
                     <<TRUE, named>> >>)

Normalized(what, mid, eid, to) ==
    [type |-> what.type, bounce |-> what.bounce, terminal |-> what.terminal,
     mid |-> mid, eid |-> eid, to |-> to]

NormalizePostal(raw) ==
    LET r == Unwrap(raw)
    IN  Normalized(PostalType(r), ProviderMessageId(r), ProviderEventId(r), r.to)

NormalizeGeneric(raw) ==
    LET id == FirstId(<<raw.uuid, raw.id>>)
    IN  Normalized(NamedType(IF raw.event # {} THEN raw.event ELSE raw.status, FALSE),
                   ProviderMessageId(raw), IF id = None THEN <<>> ELSE <<"id", id>>, raw.to)

\* A body that is no JSON object says nothing.
NormalizeProviderWebhook(raw) ==
    IF ~raw.json THEN Normalized(Unknown, None, <<>>, None)
    ELSE IF raw.provider = "postal" THEN NormalizePostal(raw) ELSE NormalizeGeneric(raw)
=============================================================================

--------------------------- MODULE IdempotentSend ---------------------------
(***************************************************************************)
(* The idempotency key of POST .../messages/send-template/ and send-raw/:  *)
(* SendTemplateView.post and SendRawView.post, for one tenant.  A request  *)
(* looks the key up, creates the message in a transaction of its own (the  *)
(* dispatch task is queued with it), and only then writes the              *)
(* IdempotencyKeyRecord.  Nothing is locked across the three steps.        *)
(***************************************************************************)
EXTENDS Naturals, FiniteSets

CONSTANTS
    Requests,   \* HTTP requests carrying an idempotency key, each handled once
    Keys,       \* hash_idempotency_key(tenant, key)
    None        \* no record, no reply

ASSUME IdempotencyAssumption == None \notin Requests

VARIABLES
    key,        \* the key of each request
    pc,         \* where each request is
    messages,   \* OutboundMessage rows, named by the request that created them
    record,     \* IdempotencyKeyRecord: the message of each key
    reply       \* the message a request was answered with

vars == <<key, pc, messages, record, reply>>

Pcs == {"new", "missed", "created", "recorded", "answered", "rejected", "dead"}

Init ==
    /\ key \in [Requests -> Keys]
    /\ pc = [r \in Requests |-> "new"]
    /\ messages = {}
    /\ record = [k \in Keys |-> None]
    /\ reply = [r \in Requests |-> None]

\* The lookup finds a record: 200 with its message.
Replay(r) ==
    /\ pc[r] = "new" /\ record[key[r]] # None
    /\ reply' = [reply EXCEPT ![r] = record[key[r]]]
    /\ pc' = [pc EXCEPT ![r] = "answered"]
    /\ UNCHANGED <<key, messages, record>>

Miss(r) ==
    /\ pc[r] = "new" /\ record[key[r]] = None
    /\ pc' = [pc EXCEPT ![r] = "missed"]
    /\ UNCHANGED <<key, messages, record, reply>>

\* PolicyError, or a ValueError of the pipeline: rolled back, no record, an error.
Reject(r) ==
    /\ pc[r] = "missed"
    /\ pc' = [pc EXCEPT ![r] = "rejected"]
    /\ UNCHANGED <<key, messages, record, reply>>

\* create_templated_message or create_raw_message commits: queued, suppressed or,
\* for a template that does not render, failed.
CreateMessage(r) ==
    /\ pc[r] = "missed"
    /\ messages' = messages \cup {r}
    /\ pc' = [pc EXCEPT ![r] = "created"]
    /\ UNCHANGED <<key, record, reply>>

\* Variant: the record follows the latest message.
OverwriteRecord(r) ==
    /\ pc[r] = "created"
    /\ record' = [record EXCEPT ![key[r]] = r]
    /\ pc' = [pc EXCEPT ![r] = "recorded"]
    /\ UNCHANGED <<key, messages, reply>>

\* Variant: no record for this request.
SkipRecord(r) ==
    /\ pc[r] = "created"
    /\ pc' = [pc EXCEPT ![r] = "recorded"]
    /\ UNCHANGED <<key, messages, record, reply>>

\* get_or_create under uniq_idempotency_per_tenant: the first record stays, and
\* the one it returns is not looked at.
GetOrCreateRecord(r) ==
    /\ pc[r] = "created"
    /\ record' = [record EXCEPT ![key[r]] = IF @ = None THEN r ELSE @]
    /\ pc' = [pc EXCEPT ![r] = "recorded"]
    /\ UNCHANGED <<key, messages, reply>>

\* 201 (or 400 for a failed render), with the message this request created.
Answer(r) ==
    /\ pc[r] = "recorded"
    /\ reply' = [reply EXCEPT ![r] = r]
    /\ pc' = [pc EXCEPT ![r] = "answered"]
    /\ UNCHANGED <<key, messages, record>>

\* The web process dies; what was committed stays.
Crash(r) ==
    /\ pc[r] \in {"missed", "created", "recorded"}
    /\ pc' = [pc EXCEPT ![r] = "dead"]
    /\ UNCHANGED <<key, messages, record, reply>>

Next ==
    \E r \in Requests :
        \/ Replay(r) \/ Miss(r) \/ Reject(r) \/ CreateMessage(r)
        \/ GetOrCreateRecord(r) \/ Answer(r) \/ Crash(r)

Spec == Init /\ [][Next]_vars

----------------------------------------------------------------------------
(* Properties                                                              *)

TypeOK ==
    /\ key \in [Requests -> Keys]
    /\ pc \in [Requests -> Pcs]
    /\ messages \subseteq Requests
    /\ record \in [Keys -> Requests \cup {None}]
    /\ reply \in [Requests -> Requests \cup {None}]

SameKey(r, s) == key[r] = key[s]

\* A client that repeats a request after any answer to its key never causes another
\* message: once one request of a key was answered, every request of that key that
\* has not looked the key up yet will be a replay.
AnsweredKeyIsRecorded ==
    \A r \in Requests : pc[r] = "answered" => record[key[r]] # None

\* All replays of one key name one message, and it is a message of that key: a record
\* never moves to a later message.
ReplaysAgree ==
    \A r, s \in Requests :
        /\ pc[r] = "answered" /\ reply[r] # r
        /\ pc[s] = "answered" /\ reply[s] # s
        /\ SameKey(r, s)
        => reply[r] = reply[s] /\ SameKey(reply[r], r) /\ reply[r] \in messages

\* A message that is on no record of its key was never reported to anybody, unless
\* another message of the key is on record: an orphan's creator is between the two
\* writes or died there, and a retry of its request is the only way to learn of it.
OrphanUnreported ==
    \A m \in messages :
        record[key[m]] = None =>
            pc[m] \in {"created", "dead"} /\ \A r \in Requests : reply[r] # m
=============================================================================

----------------------- MODULE IdempotentSend_proofs -----------------------
(* What the idempotency key does guarantee, for any number of requests and  *)
(* keys, although nothing is locked between its lookup and its record.      *)
EXTENDS IdempotentSend, TLAPS

\* A request past its get_or_create, or answered, has a record for its key.
PastIsRecorded ==
    \A r \in Requests : pc[r] \in {"recorded", "answered"} => record[key[r]] # None

\* A record names a committed message of its own key.
RecordsAreOfKey ==
    \A k \in Keys : record[k] # None => record[k] \in messages /\ key[record[k]] = k

\* An answer names the request's own message or the one on record.
RepliesKnown ==
    \A r \in Requests : reply[r] # None =>
        /\ pc[r] = "answered"
        /\ reply[r] = r \/ reply[r] = record[key[r]]

AnsweredHasReply == \A r \in Requests : pc[r] = "answered" => reply[r] # None

\* Messages come from requests past their transaction, and each such request has one.
MessagesHaveCreators ==
    /\ \A m \in messages : pc[m] \in {"created", "recorded", "answered", "dead"}
    /\ \A r \in Requests : pc[r] \in {"created", "recorded"} => r \in messages

IInv == /\ TypeOK
        /\ PastIsRecorded
        /\ RecordsAreOfKey
        /\ RepliesKnown
        /\ AnsweredHasReply
        /\ MessagesHaveCreators

\* The first state satisfies the inductive invariant.
LEMMA IInvInit == Init => IInv
  BY IdempotencyAssumption
  DEF Init, IInv, TypeOK, Pcs, PastIsRecorded, RecordsAreOfKey, RepliesKnown,
      AnsweredHasReply, MessagesHaveCreators

\* Every step of a request keeps it.  The record column is written once per key, and
\* only with the request that wrote it.
LEMMA IInvStep == IInv /\ [Next]_vars => IInv'
  <1> SUFFICES ASSUME IInv, [Next]_vars PROVE IInv'
    OBVIOUS
  <1> USE IdempotencyAssumption
      DEF IInv, TypeOK, Pcs, PastIsRecorded, RecordsAreOfKey, RepliesKnown,
          AnsweredHasReply, MessagesHaveCreators
  <1>1. ASSUME NEW r \in Requests, Replay(r) PROVE IInv'
    BY <1>1 DEF Replay
  <1>2. ASSUME NEW r \in Requests, Miss(r) PROVE IInv'
    BY <1>2 DEF Miss
  <1>3. ASSUME NEW r \in Requests, Reject(r) PROVE IInv'
    BY <1>3 DEF Reject
  <1>4. ASSUME NEW r \in Requests, CreateMessage(r) PROVE IInv'
    BY <1>4 DEF CreateMessage
  <1>5. ASSUME NEW r \in Requests, GetOrCreateRecord(r) PROVE IInv'
    BY <1>5 DEF GetOrCreateRecord
  <1>6. ASSUME NEW r \in Requests, Answer(r) PROVE IInv'
    BY <1>6 DEF Answer
  <1>7. ASSUME NEW r \in Requests, Crash(r) PROVE IInv'
    BY <1>7 DEF Crash
  <1>8. CASE UNCHANGED vars
    BY <1>8 DEF vars
  <1> QED BY ONLY [Next]_vars, <1>1, <1>2, <1>3, <1>4, <1>5, <1>6, <1>7, <1>8 DEF Next

\* IInv holds in every reachable state.
THEOREM Inductive == Spec => []IInv
  BY IInvInit, IInvStep, PTL DEF Spec

\* TypeOK: the columns and the requests stay within their types.
THEOREM TypeCorrect == Spec => []TypeOK
  <1>1. IInv => TypeOK
    BY DEF IInv
  <1> QED BY <1>1, Inductive, PTL

\* AnsweredKeyIsRecorded: after any answer to a key, a repetition is a replay.
THEOREM AnswersAreRecorded == Spec => []AnsweredKeyIsRecorded
  <1>1. IInv => AnsweredKeyIsRecorded
    BY DEF IInv, PastIsRecorded, AnsweredKeyIsRecorded
  <1> QED BY <1>1, Inductive, PTL

\* ReplaysAgree: all replays of a key name one message, created under that key.
THEOREM ReplaysNameOneMessage == Spec => []ReplaysAgree
  <1>1. IInv => ReplaysAgree
    BY IdempotencyAssumption
    DEF IInv, TypeOK, RepliesKnown, RecordsAreOfKey, AnsweredHasReply, ReplaysAgree, SameKey
  <1> QED BY <1>1, Inductive, PTL

\* OrphanUnreported: a message that no record of its key knows was told to nobody.
THEOREM OrphansAreUnknown == Spec => []OrphanUnreported
  <1>1. ASSUME IInv PROVE OrphanUnreported
    <2> SUFFICES ASSUME NEW m \in messages, record[key[m]] = None
                 PROVE  pc[m] \in {"created", "dead"} /\ \A r \in Requests : reply[r] # m
      BY DEF OrphanUnreported
    <2>1. m \in Requests /\ m # None /\ key[m] \in Keys
      BY <1>1, IdempotencyAssumption DEF IInv, TypeOK
    <2>2. pc[m] \in {"created", "dead"}
      BY <1>1, <2>1 DEF IInv, PastIsRecorded, MessagesHaveCreators
    <2>3. ASSUME NEW r \in Requests, reply[r] = m PROVE FALSE
      <3>1. r = m \/ record[key[r]] = m
        BY <1>1, <2>1, <2>3 DEF IInv, RepliesKnown
      <3>2. CASE r = m
        BY <1>1, <2>1, <2>2, <2>3, <3>2 DEF IInv, RepliesKnown
      <3>3. CASE record[key[r]] = m
        BY <1>1, <2>1, <3>3 DEF IInv, TypeOK, RecordsAreOfKey
      <3> QED BY <3>1, <3>2, <3>3
    <2> QED BY <2>2, <2>3
  <1> QED BY <1>1, Inductive, PTL
=============================================================================

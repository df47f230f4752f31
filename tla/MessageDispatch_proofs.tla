----------------------- MODULE MessageDispatch_proofs -----------------------
(* Proofs about MessageDispatch, for any number of messages, workers, web   *)
(* processes, crashes, retries and task copies.                             *)
EXTENDS MessageDispatch, FiniteSetTheorems, TLAPS

Broker == [Msgs -> [0..MaxRetries -> 0..MaxCopies]]

\* delay() keeps the broker a table of bounded counts.
LEMMA PutType ==
    ASSUME NEW b \in Broker, NEW m \in Msgs, NEW r \in 0..MaxRetries
    PROVE  Put(b, m, r) \in Broker
  <1> USE DispatchAssumption
  <1>1. b[m] \in [0..MaxRetries -> 0..MaxCopies] /\ b[m][r] \in 0..MaxCopies
    BY DEF Broker
  <1>2. (IF b[m][r] < MaxCopies THEN b[m][r] + 1 ELSE b[m][r]) \in 0..MaxCopies
    BY <1>1
  <1>3. QED BY <1>1, <1>2 DEF Put, Broker

\* So does taking a task that is there.
LEMMA TakeType ==
    ASSUME NEW b \in Broker, NEW m \in Msgs, NEW r \in 0..MaxRetries, b[m][r] > 0
    PROVE  Take(b, m, r) \in Broker
  <1> USE DispatchAssumption
  <1>1. b[m] \in [0..MaxRetries -> 0..MaxCopies] /\ b[m][r] \in 0..MaxCopies
    BY DEF Broker
  <1>2. b[m][r] - 1 \in 0..MaxCopies
    BY <1>1
  <1>3. QED BY <1>1, <1>2 DEF Take, Broker

(* Types, and which process can be where: only an idle process or one between  *)
(* two rows of its batch holds no message.                                     *)
Shape ==
    /\ \A p \in Procs : cur[p] = None <=> pc[p] \in {"idle", "requeue"}
    /\ \A w \in Workers : pc[w] \in WorkerPcs
    /\ \A c \in Clients : pc[c] \in ClientPcs

Typed == TypeOK /\ Shape

\* Initially every variable has its type.
LEMMA TypedInit == Init => Typed
  BY DispatchAssumption
  DEF Init, Typed, TypeOK, Shape, Statuses, Instants, WorkerPcs, ClientPcs, Procs

\* A process that is done holds nothing.
LEMMA FinishTypes ==
    ASSUME Typed, NEW p \in Procs, Finish(p)
    PROVE  /\ pc' \in [Procs -> WorkerPcs \cup ClientPcs]
           /\ cur' \in [Procs -> Msgs \cup {None}]
           /\ tries' \in [Procs -> 0..MaxRetries]
           /\ answer' \in [Procs -> Nat]
           /\ batch' \in [Procs -> SUBSET Msgs]
           /\ Shape'
  <1> USE DispatchAssumption DEF Typed, TypeOK, Finish
  <1>1. pc' \in [Procs -> WorkerPcs \cup ClientPcs]
    BY DEF WorkerPcs
  <1>2. cur' \in [Procs -> Msgs \cup {None}]
    OBVIOUS
  <1>3. tries' \in [Procs -> 0..MaxRetries] /\ answer' \in [Procs -> Nat]
    OBVIOUS
  <1>4. Shape'
    BY DEF Shape, Procs, WorkerPcs, ClientPcs
  <1> QED BY <1>1, <1>2, <1>3, <1>4

\* Every step keeps the types, action by action.
LEMMA TypedStep == Typed /\ [Next]_vars => Typed'
  <1> SUFFICES ASSUME Typed, [Next]_vars PROVE Typed'
    OBVIOUS
  <1> USE DispatchAssumption
      DEF Typed, TypeOK, Shape, Procs, Statuses, Instants, WorkerPcs, ClientPcs,
          Dispatching, SendSection, Finish, Goto, Broker, vars, rowVars, procVars, histVars
  <1>1. ASSUME NEW c \in Clients, NEW m \in Msgs, NEW when \in Instants, CreateSuppressed(c, m, when)
        PROVE  Typed'
    <2>1. TypeOK'
      BY <1>1 DEF CreateSuppressed, Scheduled
    <2>2. Shape'
      BY <1>1 DEF CreateSuppressed, Scheduled
    <2> QED BY <2>1, <2>2
  <1>2. ASSUME NEW c \in Clients, NEW m \in Msgs, NEW when \in Instants, CreateUnrendered(c, m, when)
        PROVE  Typed'
    <2>1. TypeOK'
      BY <1>2 DEF CreateUnrendered, Scheduled
    <2>2. Shape'
      BY <1>2 DEF CreateUnrendered, Scheduled
    <2> QED BY <2>1, <2>2
  <1>3. ASSUME NEW c \in Clients, NEW m \in Msgs, NEW when \in Instants, CreateQueued(c, m, when)
        PROVE  Typed'
    <2>1. 0 \in 0..MaxRetries
      OBVIOUS
    <2>2. Put(broker, m, 0) \in Broker
      BY PutType, <2>1
    <2>3. sendAfter' \in [Msgs -> Instants] /\ scheduledFor' \in [Msgs -> Instants]
      BY <1>3 DEF CreateQueued, Scheduled
    <2>4. TypeOK'
      BY <1>3, <2>1, <2>2, <2>3 DEF CreateQueued, Scheduled
    <2>5. Shape'
      BY <1>3 DEF CreateQueued, Scheduled
    <2> QED BY <2>4, <2>5
  <1>4. ASSUME NEW c \in Clients, CreateCommit(c)
        PROVE  Typed'
    <2>1. cur[c] \in Msgs
      BY <1>4 DEF CreateCommit
    <2>2. status' \in [Msgs -> Statuses]
      BY <1>4, <2>1 DEF CreateCommit
    <2>3. TypeOK' /\ Shape'
      BY ONLY <1>4, <2>2, FinishTypes, Typed, DispatchAssumption
      DEF CreateCommit, Typed, TypeOK, Procs, rowVars, histVars
    <2> QED BY <2>3
  <1>5. ASSUME NEW w \in Workers, NEW m \in Msgs, NEW r \in 0..MaxRetries, FetchDropped(w, m, r)
        PROVE  Typed'
    <2>1. Take(broker, m, r) \in Broker
      BY TakeType, <1>5 DEF FetchDropped
    <2>2. TypeOK'
      BY <1>5, <2>1 DEF FetchDropped
    <2>3. Shape'
      BY <1>5, <2>1 DEF FetchDropped
    <2> QED BY <2>2, <2>3
  <1>6. ASSUME NEW w \in Workers, NEW m \in Msgs, NEW r \in 0..MaxRetries, FetchTooEarly(w, m, r)
        PROVE  Typed'
    <2>1. Take(broker, m, r) \in Broker
      BY TakeType, <1>6 DEF FetchTooEarly
    <2>2. 0 \in 0..MaxRetries
      OBVIOUS
    <2>3. Put(Take(broker, m, r), m, 0) \in Broker
      BY PutType, <2>1, <2>2
    <2>4. TypeOK'
      BY <1>6, <2>1, <2>2, <2>3 DEF FetchTooEarly
    <2>5. Shape'
      BY <1>6, <2>1, <2>2, <2>3 DEF FetchTooEarly
    <2> QED BY <2>4, <2>5
  <1>7. ASSUME NEW w \in Workers, NEW m \in Msgs, NEW r \in 0..MaxRetries, FetchReady(w, m, r)
        PROVE  Typed'
    <2>1. Take(broker, m, r) \in Broker
      BY TakeType, <1>7 DEF FetchReady
    <2>2. TypeOK'
      BY <1>7, <2>1 DEF FetchReady
    <2>3. w \in Procs /\ pc'[w] = "fetched" /\ cur'[w] = m
      BY <1>7 DEF FetchReady
    <2>4. \A p \in Procs \ {w} : pc'[p] = pc[p] /\ cur'[p] = cur[p]
      BY <1>7 DEF FetchReady
    <2>5. Shape'
      BY ONLY <2>3, <2>4, Shape, DispatchAssumption
      DEF Shape, Procs, WorkerPcs, ClientPcs, Dispatching
    <2> QED BY <2>2, <2>5
  <1>8. ASSUME NEW w \in Workers, Throttled(w)
        PROVE  Typed'
    <2>1. cur[w] \in Msgs
      BY <1>8 DEF Throttled
    <2>2. status' \in [Msgs -> Statuses] /\ nextRetry' \in [Msgs -> Instants]
      BY <1>8, <2>1 DEF Throttled
    <2>3. TypeOK' /\ Shape'
      BY ONLY <1>8, <2>2, FinishTypes, Typed, DispatchAssumption
      DEF Throttled, Typed, TypeOK, Procs, rowVars, histVars
    <2> QED BY <2>3
  <1>9. ASSUME NEW w \in Workers, Reserve(w)
        PROVE  Typed'
    <2>1. cur[w] \in Msgs
      BY <1>9 DEF Reserve
    <2>2. slots[cur[w]] + 1 \in 0..MaxSlots
      BY <1>9, <2>1 DEF Reserve
    <2>3. slots' \in [Msgs -> 0..MaxSlots]
      BY <1>9, <2>1, <2>2 DEF Reserve
    <2>4. TypeOK'
      BY <1>9, <2>3 DEF Reserve
    <2>5. Shape'
      BY <1>9, <2>1 DEF Reserve
    <2> QED BY <2>4, <2>5
  <1>10. ASSUME NEW w \in Workers, Blocked(w)
        PROVE  Typed'
    <2>1. cur[w] \in Msgs
      BY <1>10 DEF Blocked
    <2>2. TypeOK'
      BY <1>10, <2>1 DEF Blocked
    <2>3. Shape'
      BY <1>10, <2>1 DEF Blocked
    <2> QED BY <2>2, <2>3
  <1>11. ASSUME NEW w \in Workers, BeginSend(w)
        PROVE  Typed'
    <2>1. cur[w] \in Msgs
      BY <1>11 DEF BeginSend
    <2>2. TypeOK'
      BY <1>11, <2>1 DEF BeginSend
    <2>3. Shape'
      BY <1>11, <2>1 DEF BeginSend
    <2> QED BY <2>2, <2>3
  <1>12. ASSUME NEW w \in Workers, ProviderAccepts(w)
        PROVE  Typed'
    <2>1. cur[w] \in Msgs
      BY <1>12 DEF ProviderAccepts
    <2>2. accepted[cur[w]] + 1 \in Nat
      BY <2>1
    <2>3. accepted' \in [Msgs -> Nat]
      BY <1>12, <2>2 DEF ProviderAccepts
    <2>4. TypeOK'
      BY <1>12, <2>1, <2>2, <2>3 DEF ProviderAccepts
    <2>5. Shape'
      BY <1>12, <2>1 DEF ProviderAccepts
    <2> QED BY <2>4, <2>5
  <1>13. ASSUME NEW w \in Workers, ProviderAnswerLost(w)
        PROVE  Typed'
    <2>1. cur[w] \in Msgs
      BY <1>13 DEF ProviderAnswerLost
    <2>2. accepted[cur[w]] + 1 \in Nat
      BY <2>1
    <2>3. accepted' \in [Msgs -> Nat]
      BY <1>13, <2>2 DEF ProviderAnswerLost
    <2>4. TypeOK'
      BY <1>13, <2>1, <2>2, <2>3 DEF ProviderAnswerLost
    <2>5. Shape'
      BY <1>13, <2>1 DEF ProviderAnswerLost
    <2> QED BY <2>4, <2>5
  <1>14. ASSUME NEW w \in Workers, ProviderRefuses(w)
        PROVE  Typed'
    <2>1. cur[w] \in Msgs
      BY <1>14 DEF ProviderRefuses
    <2>2. TypeOK'
      BY <1>14, <2>1 DEF ProviderRefuses
    <2>3. Shape'
      BY <1>14, <2>1 DEF ProviderRefuses
    <2> QED BY <2>2, <2>3
  <1>15. ASSUME NEW w \in Workers, SaveSent(w)
        PROVE  Typed'
    <2>1. cur[w] \in Msgs
      BY <1>15 DEF SaveSent
    <2>2. TypeOK'
      BY <1>15, <2>1 DEF SaveSent
    <2>3. Shape'
      BY <1>15, <2>1 DEF SaveSent
    <2> QED BY <2>2, <2>3
  <1>16. ASSUME NEW w \in Workers, SaveFailed(w)
        PROVE  Typed'
    <2>1. cur[w] \in Msgs
      BY <1>16 DEF SaveFailed
    <2>2. TypeOK'
      BY <1>16, <2>1 DEF SaveFailed
    <2>3. Shape'
      BY <1>16, <2>1 DEF SaveFailed
    <2> QED BY <2>2, <2>3
  <1>17. ASSUME NEW w \in Workers, RecordEvent(w)
        PROVE  Typed'
    <2>1. TypeOK' /\ Shape'
      BY ONLY <1>17, FinishTypes, Typed, DispatchAssumption
      DEF RecordEvent, Typed, TypeOK, Procs, rowVars, histVars
    <2> QED BY <2>1
  <1>18. ASSUME NEW w \in Workers, DispatchRaises(w)
        PROVE  Typed'
    <2>1. cur[w] \in Msgs
      BY <1>18 DEF DispatchRaises
    <2>2. tries[w] < MaxRetries => tries[w] + 1 \in 0..MaxRetries
      OBVIOUS
    <2>3. tries[w] < MaxRetries => Put(broker, cur[w], tries[w] + 1) \in Broker
      BY PutType, <2>1, <2>2
    <2>4. broker' \in Broker
      BY <1>18, <2>3 DEF DispatchRaises
    <2>5. exposed' \subseteq Msgs
      BY <1>18, <2>1 DEF DispatchRaises
    <2>6. status' \in [Msgs -> Statuses] /\ nextRetry' \in [Msgs -> Instants]
      BY <1>18, <2>1 DEF DispatchRaises
    <2>7. TypeOK' /\ Shape'
      BY ONLY <1>18, <2>4, <2>5, <2>6, FinishTypes, Typed, DispatchAssumption
      DEF DispatchRaises, Typed, TypeOK, Procs, Broker
    <2> QED BY <2>7
  <1>19. ASSUME NEW w \in Workers, SweepDispatchQueue(w)
        PROVE  Typed'
    <2>1. 0 \in 0..MaxRetries
      OBVIOUS
    <2>2. ASSUME NEW m \in Msgs
          PROVE  Put(broker, m, 0)[m] \in [0..MaxRetries -> 0..MaxCopies]
      <3>1. Put(broker, m, 0) \in Broker
        BY PutType, <2>1
      <3> QED BY <3>1
    <2>3. TypeOK'
      BY <1>19, <2>1, <2>2 DEF SweepDispatchQueue, SweepQuerySet
    <2>4. Shape'
      BY <1>19, <2>1, <2>2 DEF SweepDispatchQueue, SweepQuerySet
    <2> QED BY <2>3, <2>4
  <1>20. ASSUME NEW w \in Workers, RetryDueDeferred(w)
        PROVE  Typed'
    <2>1. TypeOK'
      BY <1>20 DEF RetryDueDeferred, DueDeferred
    <2>2. Shape'
      BY <1>20 DEF RetryDueDeferred, DueDeferred
    <2> QED BY <2>1, <2>2
  <1>21. ASSUME NEW w \in Workers, RequeueSave(w)
        PROVE  Typed'
    <2>1. PICK m \in batch[w] : /\ status' = [status EXCEPT ![m] = "queued"]
                               /\ batch' = [batch EXCEPT ![w] = @ \ {m}]
                               /\ cur' = [cur EXCEPT ![w] = m]
      BY <1>21 DEF RequeueSave
    <2>2. m \in Msgs /\ batch[w] \ {m} \in SUBSET Msgs
      OBVIOUS
    <2>3. TypeOK'
      BY <1>21, <2>1, <2>2 DEF RequeueSave
    <2>4. Shape'
      BY <1>21, <2>1, <2>2 DEF RequeueSave
    <2> QED BY <2>3, <2>4
  <1>22. ASSUME NEW w \in Workers, RequeueDelay(w)
        PROVE  Typed'
    <2>1. cur[w] \in Msgs
      BY <1>22 DEF RequeueDelay
    <2>2. 0 \in 0..MaxRetries
      OBVIOUS
    <2>3. Put(broker, cur[w], 0) \in Broker
      BY PutType, <2>1, <2>2
    <2>4. TypeOK'
      BY <1>22, <2>1, <2>2, <2>3 DEF RequeueDelay
    <2>5. Shape'
      BY <1>22, <2>1, <2>2, <2>3 DEF RequeueDelay
    <2> QED BY <2>4, <2>5
  <1>23. ASSUME NEW c \in Clients, NEW m \in Msgs, ReadForRetry(c, m)
        PROVE  Typed'
    <2>1. TypeOK'
      BY <1>23 DEF ReadForRetry
    <2>2. Shape'
      BY <1>23 DEF ReadForRetry
    <2> QED BY <2>1, <2>2
  <1>24. ASSUME NEW c \in Clients, SaveRetry(c)
        PROVE  Typed'
    <2>1. cur[c] \in Msgs
      BY <1>24 DEF SaveRetry
    <2>2. TypeOK'
      BY <1>24, <2>1 DEF SaveRetry
    <2>3. Shape'
      BY <1>24, <2>1 DEF SaveRetry
    <2> QED BY <2>2, <2>3
  <1>25. ASSUME NEW c \in Clients, DelayRetry(c)
        PROVE  Typed'
    <2>1. cur[c] \in Msgs
      BY <1>25 DEF DelayRetry
    <2>2. 0 \in 0..MaxRetries
      OBVIOUS
    <2>3. Put(broker, cur[c], 0) \in Broker
      BY PutType, <2>1, <2>2
    <2>4. TypeOK' /\ Shape'
      BY ONLY <1>25, <2>3, FinishTypes, Typed, DispatchAssumption
      DEF DelayRetry, Typed, TypeOK, Procs, Broker, rowVars, histVars
    <2> QED BY <2>4
  <1>26. ASSUME NEW c \in Clients, NEW m \in Msgs, ReadForCancel(c, m)
        PROVE  Typed'
    <2>1. TypeOK'
      BY <1>26 DEF ReadForCancel
    <2>2. Shape'
      BY <1>26 DEF ReadForCancel
    <2> QED BY <2>1, <2>2
  <1>27. ASSUME NEW c \in Clients, SaveCancel(c)
        PROVE  Typed'
    <2>1. cur[c] \in Msgs
      BY <1>27 DEF SaveCancel
    <2>2. status' \in [Msgs -> Statuses]
      BY <1>27, <2>1 DEF SaveCancel
    <2>3. TypeOK' /\ Shape'
      BY ONLY <1>27, <2>2, FinishTypes, Typed, DispatchAssumption
      DEF SaveCancel, Typed, TypeOK, Procs, rowVars, histVars
    <2> QED BY <2>3
  <1>28. ASSUME NEW m \in Msgs, NEW kind \in WebhookKinds, Webhook(m, kind)
        PROVE  Typed'
    <2>1. WebhookStatus(kind, status[m]) \in Statuses
      BY DEF WebhookStatus, AllWebhookKinds, Statuses
    <2>2. status' \in [Msgs -> Statuses] /\ exposed' \subseteq Msgs
      BY ONLY <1>28, <2>1, Typed, DispatchAssumption DEF Webhook, Typed, TypeOK
    <2>3. TypeOK'
      BY ONLY <1>28, <2>2, Typed DEF Webhook, Typed, TypeOK, procVars
    <2>4. Shape'
      BY <1>28 DEF Webhook
    <2> QED BY <2>3, <2>4
  <1>29. ASSUME NEW m \in Msgs, ScheduleComes(m)
        PROVE  Typed'
    <2>1. TypeOK'
      BY <1>29 DEF ScheduleComes
    <2>2. Shape'
      BY <1>29 DEF ScheduleComes
    <2> QED BY <2>1, <2>2
  <1>30. ASSUME NEW m \in Msgs, RetryTimeComes(m)
        PROVE  Typed'
    <2>1. TypeOK'
      BY <1>30 DEF RetryTimeComes
    <2>2. Shape'
      BY <1>30 DEF RetryTimeComes
    <2> QED BY <2>1, <2>2
  <1>31. ASSUME NEW m \in Msgs, Redeliver(m)
        PROVE  Typed'
    <2>1. 0 \in 0..MaxRetries
      OBVIOUS
    <2>2. Put(broker, m, 0) \in Broker
      BY PutType, <2>1
    <2>3. TypeOK'
      BY <1>31, <2>1, <2>2 DEF Redeliver
    <2>4. Shape'
      BY <1>31, <2>1, <2>2 DEF Redeliver
    <2> QED BY <2>3, <2>4
  <1>32. ASSUME NEW p \in Procs, Crash(p)
        PROVE  Typed'
    <2>1. TypeOK'
      BY <1>32 DEF Crash
    <2>2. Shape'
      BY <1>32 DEF Crash
    <2> QED BY <2>1, <2>2
  <1>33. CASE UNCHANGED vars
    BY <1>33
  <1> QED BY ONLY [Next]_vars, <1>1, <1>2, <1>3, <1>4, <1>5, <1>6, <1>7, <1>8, <1>9, <1>10, <1>11, <1>12, <1>13, <1>14, <1>15, <1>16, <1>17, <1>18, <1>19, <1>20, <1>21, <1>22, <1>23, <1>24, <1>25, <1>26, <1>27, <1>28, <1>29, <1>30, <1>31, <1>32, <1>33
    DEF Next, WorkerTake, WorkerStep, ClientStep, Environment, Fetch

\* TypeOK: every column, queue and process stays within its type.
THEOREM TypeCorrect == Spec => []TypeOK
  <1>1. Spec => []Typed
    BY TypedInit, TypedStep, PTL DEF Spec
  <1>2. Typed => TypeOK
    BY DEF Typed
  <1> QED BY <1>1, <1>2, PTL

----------------------------------------------------------------------------
(* The safety invariants of MessageDispatch, each from the inductive        *)
(* invariant it is a part of or follows from.                               *)

(* What the leaves below need to know of the types.                         *)
LEMMA TypedFacts ==
    ASSUME Typed
    PROVE  /\ status \in [Msgs -> Statuses]
           /\ scheduledFor \in [Msgs -> Instants]
           /\ sendAfter \in [Msgs -> Instants]
           /\ providerId \in [Msgs -> Nat]
           /\ slots \in [Msgs -> Nat]
           /\ accepted \in [Msgs -> Nat]
           /\ pc \in [Procs -> WorkerPcs \cup ClientPcs]
           /\ cur \in [Procs -> Msgs \cup {None}]
           /\ answer \in [Procs -> Nat]
           /\ batch \in [Procs -> SUBSET Msgs]
           /\ \A p \in Procs : pc[p] \notin {"idle", "requeue"} => cur[p] \in Msgs
           /\ \A p \in Procs : pc[p] \in {"idle", "requeue"} => cur[p] = None
           /\ \A w \in Workers : w \in Procs /\ pc[w] \in WorkerPcs
           /\ \A c \in Clients : c \in Procs /\ pc[c] \in ClientPcs
  BY DispatchAssumption DEF Typed, TypeOK, Shape, Procs

----------------------------------------------------------------------------
(* ReportedMeansAccepted: a worker that is about to save SENT holds an      *)
(* answer the provider has really given for its message.                    *)

ReportInv ==
    /\ ReportedMeansAccepted
    /\ \A w \in Workers : pc[w] = "accepted" => answer[w] \in 1..accepted[cur[w]]

\* Every step keeps what the reported statuses and ids rest on.
LEMMA ReportStep == Typed /\ ReportInv /\ [Next]_vars => ReportInv'
  <1> SUFFICES ASSUME Typed, ReportInv, [Next]_vars PROVE ReportInv'
    OBVIOUS
  <1> USE DispatchAssumption, TypedFacts
      DEF ReportInv, ReportedMeansAccepted, Reported, Finish, Goto, vars, rowVars, procVars, histVars
  <1>1. ASSUME NEW c \in Clients, NEW m \in Msgs, NEW when \in Instants, CreateSuppressed(c, m, when)
        PROVE  ReportInv'
    BY <1>1 DEF CreateSuppressed
  <1>2. ASSUME NEW c \in Clients, NEW m \in Msgs, NEW when \in Instants, CreateUnrendered(c, m, when)
        PROVE  ReportInv'
    BY <1>2 DEF CreateUnrendered
  <1>3. ASSUME NEW c \in Clients, NEW m \in Msgs, NEW when \in Instants, CreateQueued(c, m, when)
        PROVE  ReportInv'
    BY <1>3 DEF CreateQueued
  <1>4. ASSUME NEW c \in Clients, CreateCommit(c)
        PROVE  ReportInv'
    BY <1>4 DEF CreateCommit
  <1>5. ASSUME NEW w \in Workers, NEW m \in Msgs, NEW r \in 0..MaxRetries, FetchDropped(w, m, r)
        PROVE  ReportInv'
    BY <1>5 DEF FetchDropped
  <1>6. ASSUME NEW w \in Workers, NEW m \in Msgs, NEW r \in 0..MaxRetries, FetchTooEarly(w, m, r)
        PROVE  ReportInv'
    BY <1>6 DEF FetchTooEarly
  <1>7. ASSUME NEW w \in Workers, NEW m \in Msgs, NEW r \in 0..MaxRetries, FetchReady(w, m, r)
        PROVE  ReportInv'
    BY <1>7 DEF FetchReady
  <1>8. ASSUME NEW w \in Workers, Throttled(w)
        PROVE  ReportInv'
    BY <1>8 DEF Throttled
  <1>9. ASSUME NEW w \in Workers, Reserve(w)
        PROVE  ReportInv'
    BY <1>9 DEF Reserve
  <1>10. ASSUME NEW w \in Workers, Blocked(w)
        PROVE  ReportInv'
    BY <1>10 DEF Blocked
  <1>11. ASSUME NEW w \in Workers, BeginSend(w)
        PROVE  ReportInv'
    BY <1>11 DEF BeginSend
  <1>12. ASSUME NEW w \in Workers, ProviderAccepts(w)
        PROVE  ReportInv'
    BY <1>12 DEF ProviderAccepts
  <1>13. ASSUME NEW w \in Workers, ProviderAnswerLost(w)
        PROVE  ReportInv'
    BY <1>13 DEF ProviderAnswerLost
  <1>14. ASSUME NEW w \in Workers, ProviderRefuses(w)
        PROVE  ReportInv'
    BY <1>14 DEF ProviderRefuses
  <1>15. ASSUME NEW w \in Workers, SaveSent(w)
        PROVE  ReportInv'
    BY <1>15 DEF SaveSent
  <1>16. ASSUME NEW w \in Workers, SaveFailed(w)
        PROVE  ReportInv'
    BY <1>16 DEF SaveFailed
  <1>17. ASSUME NEW w \in Workers, RecordEvent(w)
        PROVE  ReportInv'
    BY <1>17 DEF RecordEvent
  <1>18. ASSUME NEW w \in Workers, DispatchRaises(w)
        PROVE  ReportInv'
    BY <1>18 DEF DispatchRaises
  <1>19. ASSUME NEW w \in Workers, SweepDispatchQueue(w)
        PROVE  ReportInv'
    BY <1>19 DEF SweepDispatchQueue
  <1>20. ASSUME NEW w \in Workers, RetryDueDeferred(w)
        PROVE  ReportInv'
    BY <1>20 DEF RetryDueDeferred
  <1>21. ASSUME NEW w \in Workers, RequeueSave(w)
        PROVE  ReportInv'
    BY <1>21 DEF RequeueSave
  <1>22. ASSUME NEW w \in Workers, RequeueDelay(w)
        PROVE  ReportInv'
    BY <1>22 DEF RequeueDelay
  <1>23. ASSUME NEW c \in Clients, NEW m \in Msgs, ReadForRetry(c, m)
        PROVE  ReportInv'
    BY <1>23 DEF ReadForRetry
  <1>24. ASSUME NEW c \in Clients, SaveRetry(c)
        PROVE  ReportInv'
    BY <1>24 DEF SaveRetry
  <1>25. ASSUME NEW c \in Clients, DelayRetry(c)
        PROVE  ReportInv'
    BY <1>25 DEF DelayRetry
  <1>26. ASSUME NEW c \in Clients, NEW m \in Msgs, ReadForCancel(c, m)
        PROVE  ReportInv'
    BY <1>26 DEF ReadForCancel
  <1>27. ASSUME NEW c \in Clients, SaveCancel(c)
        PROVE  ReportInv'
    BY <1>27 DEF SaveCancel
  <1>28. ASSUME NEW m \in Msgs, NEW kind \in WebhookKinds, Webhook(m, kind)
        PROVE  ReportInv'
    BY <1>28 DEF Webhook, Matched, WebhookStatus, AllWebhookKinds
  <1>29. ASSUME NEW m \in Msgs, ScheduleComes(m)
        PROVE  ReportInv'
    BY <1>29 DEF ScheduleComes
  <1>30. ASSUME NEW m \in Msgs, RetryTimeComes(m)
        PROVE  ReportInv'
    BY <1>30 DEF RetryTimeComes
  <1>31. ASSUME NEW m \in Msgs, Redeliver(m)
        PROVE  ReportInv'
    BY <1>31 DEF Redeliver
  <1>32. ASSUME NEW p \in Procs, Crash(p)
        PROVE  ReportInv'
    BY <1>32 DEF Crash
  <1>33. CASE UNCHANGED vars
    BY <1>33
  <1> QED BY ONLY [Next]_vars, <1>1, <1>2, <1>3, <1>4, <1>5, <1>6, <1>7, <1>8,
             <1>9, <1>10, <1>11, <1>12, <1>13, <1>14, <1>15, <1>16, <1>17,
             <1>18, <1>19, <1>20, <1>21, <1>22, <1>23, <1>24, <1>25, <1>26,
             <1>27, <1>28, <1>29, <1>30, <1>31, <1>32, <1>33
    DEF Next, WorkerTake, WorkerStep, ClientStep, Environment, Fetch
----------------------------------------------------------------------------
(* SendingHasAWorker is inductive as it stands.                             *)

\* Every step leaves a SENDING row its worker, unless the worker dies.
LEMMA SendingStep == Typed /\ SendingHasAWorker /\ [Next]_vars => SendingHasAWorker'
  <1> SUFFICES ASSUME Typed, SendingHasAWorker, [Next]_vars PROVE SendingHasAWorker'
    OBVIOUS
  <1> USE DispatchAssumption, TypedFacts
      DEF SendingHasAWorker, SendSection, Finish, Goto, vars, rowVars, procVars, histVars
  <1>1. ASSUME NEW c \in Clients, NEW m \in Msgs, NEW when \in Instants, CreateSuppressed(c, m, when)
        PROVE  SendingHasAWorker'
    BY <1>1 DEF CreateSuppressed
  <1>2. ASSUME NEW c \in Clients, NEW m \in Msgs, NEW when \in Instants, CreateUnrendered(c, m, when)
        PROVE  SendingHasAWorker'
    BY <1>2 DEF CreateUnrendered
  <1>3. ASSUME NEW c \in Clients, NEW m \in Msgs, NEW when \in Instants, CreateQueued(c, m, when)
        PROVE  SendingHasAWorker'
    BY <1>3 DEF CreateQueued
  <1>4. ASSUME NEW c \in Clients, CreateCommit(c)
        PROVE  SendingHasAWorker'
    BY <1>4 DEF CreateCommit
  <1>5. ASSUME NEW w \in Workers, NEW m \in Msgs, NEW r \in 0..MaxRetries, FetchDropped(w, m, r)
        PROVE  SendingHasAWorker'
    BY <1>5 DEF FetchDropped
  <1>6. ASSUME NEW w \in Workers, NEW m \in Msgs, NEW r \in 0..MaxRetries, FetchTooEarly(w, m, r)
        PROVE  SendingHasAWorker'
    BY <1>6 DEF FetchTooEarly
  <1>7. ASSUME NEW w \in Workers, NEW m \in Msgs, NEW r \in 0..MaxRetries, FetchReady(w, m, r)
        PROVE  SendingHasAWorker'
    BY <1>7 DEF FetchReady
  <1>8. ASSUME NEW w \in Workers, Throttled(w)
        PROVE  SendingHasAWorker'
    BY <1>8 DEF Throttled
  <1>9. ASSUME NEW w \in Workers, Reserve(w)
        PROVE  SendingHasAWorker'
    BY <1>9 DEF Reserve
  <1>10. ASSUME NEW w \in Workers, Blocked(w)
        PROVE  SendingHasAWorker'
    BY <1>10 DEF Blocked
  <1>11. ASSUME NEW w \in Workers, BeginSend(w)
        PROVE  SendingHasAWorker'
    BY <1>11 DEF BeginSend
  <1>12. ASSUME NEW w \in Workers, ProviderAccepts(w)
        PROVE  SendingHasAWorker'
    BY <1>12 DEF ProviderAccepts
  <1>13. ASSUME NEW w \in Workers, ProviderAnswerLost(w)
        PROVE  SendingHasAWorker'
    BY <1>13 DEF ProviderAnswerLost
  <1>14. ASSUME NEW w \in Workers, ProviderRefuses(w)
        PROVE  SendingHasAWorker'
    BY <1>14 DEF ProviderRefuses
  <1>15. ASSUME NEW w \in Workers, SaveSent(w)
        PROVE  SendingHasAWorker'
    BY <1>15 DEF SaveSent
  <1>16. ASSUME NEW w \in Workers, SaveFailed(w)
        PROVE  SendingHasAWorker'
    BY <1>16 DEF SaveFailed
  <1>17. ASSUME NEW w \in Workers, RecordEvent(w)
        PROVE  SendingHasAWorker'
    BY <1>17 DEF RecordEvent
  <1>18. ASSUME NEW w \in Workers, DispatchRaises(w)
        PROVE  SendingHasAWorker'
    BY <1>18 DEF DispatchRaises, Dispatching
  <1>19. ASSUME NEW w \in Workers, SweepDispatchQueue(w)
        PROVE  SendingHasAWorker'
    BY <1>19 DEF SweepDispatchQueue
  <1>20. ASSUME NEW w \in Workers, RetryDueDeferred(w)
        PROVE  SendingHasAWorker'
    BY <1>20 DEF RetryDueDeferred
  <1>21. ASSUME NEW w \in Workers, RequeueSave(w)
        PROVE  SendingHasAWorker'
    BY <1>21 DEF RequeueSave
  <1>22. ASSUME NEW w \in Workers, RequeueDelay(w)
        PROVE  SendingHasAWorker'
    BY <1>22 DEF RequeueDelay
  <1>23. ASSUME NEW c \in Clients, NEW m \in Msgs, ReadForRetry(c, m)
        PROVE  SendingHasAWorker'
    BY <1>23 DEF ReadForRetry
  <1>24. ASSUME NEW c \in Clients, SaveRetry(c)
        PROVE  SendingHasAWorker'
    BY <1>24 DEF SaveRetry
  <1>25. ASSUME NEW c \in Clients, DelayRetry(c)
        PROVE  SendingHasAWorker'
    BY <1>25 DEF DelayRetry
  <1>26. ASSUME NEW c \in Clients, NEW m \in Msgs, ReadForCancel(c, m)
        PROVE  SendingHasAWorker'
    BY <1>26 DEF ReadForCancel
  <1>27. ASSUME NEW c \in Clients, SaveCancel(c)
        PROVE  SendingHasAWorker'
    BY <1>27 DEF SaveCancel
  <1>28. ASSUME NEW m \in Msgs, NEW kind \in WebhookKinds, Webhook(m, kind)
        PROVE  SendingHasAWorker'
    BY <1>28 DEF Webhook, WebhookStatus, AllWebhookKinds
  <1>29. ASSUME NEW m \in Msgs, ScheduleComes(m)
        PROVE  SendingHasAWorker'
    BY <1>29 DEF ScheduleComes
  <1>30. ASSUME NEW m \in Msgs, RetryTimeComes(m)
        PROVE  SendingHasAWorker'
    BY <1>30 DEF RetryTimeComes
  <1>31. ASSUME NEW m \in Msgs, Redeliver(m)
        PROVE  SendingHasAWorker'
    BY <1>31 DEF Redeliver
  <1>32. ASSUME NEW p \in Procs, Crash(p)
        PROVE  SendingHasAWorker'
    BY <1>32 DEF Crash
  <1>33. CASE UNCHANGED vars
    BY <1>33
  <1> QED BY ONLY [Next]_vars, <1>1, <1>2, <1>3, <1>4, <1>5, <1>6, <1>7, <1>8,
             <1>9, <1>10, <1>11, <1>12, <1>13, <1>14, <1>15, <1>16, <1>17,
             <1>18, <1>19, <1>20, <1>21, <1>22, <1>23, <1>24, <1>25, <1>26,
             <1>27, <1>28, <1>29, <1>30, <1>31, <1>32, <1>33
    DEF Next, WorkerTake, WorkerStep, ClientStep, Environment, Fetch

----------------------------------------------------------------------------
(* What a process holds, and what was ever reserved or handed over, is a    *)
(* committed row that is not suppressed; a row being created belongs to one *)
(* client.  This is what makes NeverSentEarly and the refinement inductive: *)
(* send_after is set to a later time only on a row nobody holds yet.        *)

Visible(m) == status[m] \notin {"absent", "creating", "suppressed"}

LiveInv ==
    /\ \A p \in Procs : pc[p] \in Dispatching \cup {"requeued", "retry", "retried", "cancel"}
                        => Visible(cur[p])
    /\ \A p \in Procs, m \in Msgs : m \in batch[p] => Visible(m)
    /\ \A m \in Msgs : providerId[m] # 0 \/ accepted[m] # 0 \/ slots[m] # 0 => Visible(m)
    /\ \A c \in Clients : pc[c] = "creating" => status[cur[c]] = "creating"
    /\ \A c, d \in Clients :
         pc[c] = "creating" /\ pc[d] = "creating" /\ cur[c] = cur[d] => c = d

\* Every step keeps the messages a process holds visible and not suppressed.
LEMMA LiveStep == Typed /\ LiveInv /\ [Next]_vars => LiveInv'
  <1> SUFFICES ASSUME Typed, LiveInv, [Next]_vars PROVE LiveInv'
    OBVIOUS
  <1> USE DispatchAssumption, TypedFacts
      DEF LiveInv, Visible, Dispatching, SendSection, WorkerPcs, ClientPcs, Finish, Goto,
          vars, rowVars, procVars, histVars
  <1>1. ASSUME NEW c \in Clients, NEW m \in Msgs, NEW when \in Instants, CreateSuppressed(c, m, when)
        PROVE  LiveInv'
    BY <1>1 DEF CreateSuppressed
  <1>2. ASSUME NEW c \in Clients, NEW m \in Msgs, NEW when \in Instants, CreateUnrendered(c, m, when)
        PROVE  LiveInv'
    BY <1>2 DEF CreateUnrendered
  <1>3. ASSUME NEW c \in Clients, NEW m \in Msgs, NEW when \in Instants, CreateQueued(c, m, when)
        PROVE  LiveInv'
    BY <1>3 DEF CreateQueued
  <1>4. ASSUME NEW c \in Clients, CreateCommit(c)
        PROVE  LiveInv'
    BY <1>4 DEF CreateCommit
  <1>5. ASSUME NEW w \in Workers, NEW m \in Msgs, NEW r \in 0..MaxRetries, FetchDropped(w, m, r)
        PROVE  LiveInv'
    BY <1>5 DEF FetchDropped
  <1>6. ASSUME NEW w \in Workers, NEW m \in Msgs, NEW r \in 0..MaxRetries, FetchTooEarly(w, m, r)
        PROVE  LiveInv'
    BY <1>6 DEF FetchTooEarly
  <1>7. ASSUME NEW w \in Workers, NEW m \in Msgs, NEW r \in 0..MaxRetries, FetchReady(w, m, r)
        PROVE  LiveInv'
    BY <1>7 DEF FetchReady, Dispatchable
  <1>8. ASSUME NEW w \in Workers, Throttled(w)
        PROVE  LiveInv'
    BY <1>8 DEF Throttled
  <1>9. ASSUME NEW w \in Workers, Reserve(w)
        PROVE  LiveInv'
    BY <1>9 DEF Reserve
  <1>10. ASSUME NEW w \in Workers, Blocked(w)
        PROVE  LiveInv'
    BY <1>10 DEF Blocked
  <1>11. ASSUME NEW w \in Workers, BeginSend(w)
        PROVE  LiveInv'
    BY <1>11 DEF BeginSend
  <1>12. ASSUME NEW w \in Workers, ProviderAccepts(w)
        PROVE  LiveInv'
    BY <1>12 DEF ProviderAccepts
  <1>13. ASSUME NEW w \in Workers, ProviderAnswerLost(w)
        PROVE  LiveInv'
    BY <1>13 DEF ProviderAnswerLost
  <1>14. ASSUME NEW w \in Workers, ProviderRefuses(w)
        PROVE  LiveInv'
    BY <1>14 DEF ProviderRefuses
  <1>15. ASSUME NEW w \in Workers, SaveSent(w)
        PROVE  LiveInv'
    BY <1>15 DEF SaveSent
  <1>16. ASSUME NEW w \in Workers, SaveFailed(w)
        PROVE  LiveInv'
    BY <1>16 DEF SaveFailed
  <1>17. ASSUME NEW w \in Workers, RecordEvent(w)
        PROVE  LiveInv'
    BY <1>17 DEF RecordEvent
  <1>18. ASSUME NEW w \in Workers, DispatchRaises(w)
        PROVE  LiveInv'
    BY <1>18 DEF DispatchRaises
  <1>19. ASSUME NEW w \in Workers, SweepDispatchQueue(w)
        PROVE  LiveInv'
    BY <1>19 DEF SweepDispatchQueue
  <1>20. ASSUME NEW w \in Workers, RetryDueDeferred(w)
        PROVE  LiveInv'
    BY <1>20 DEF RetryDueDeferred, DueDeferred
  <1>21. ASSUME NEW w \in Workers, RequeueSave(w)
        PROVE  LiveInv'
    BY <1>21 DEF RequeueSave
  <1>22. ASSUME NEW w \in Workers, RequeueDelay(w)
        PROVE  LiveInv'
    BY <1>22 DEF RequeueDelay
  <1>23. ASSUME NEW c \in Clients, NEW m \in Msgs, ReadForRetry(c, m)
        PROVE  LiveInv'
    BY <1>23 DEF ReadForRetry, Retryable
  <1>24. ASSUME NEW c \in Clients, SaveRetry(c)
        PROVE  LiveInv'
    BY <1>24 DEF SaveRetry
  <1>25. ASSUME NEW c \in Clients, DelayRetry(c)
        PROVE  LiveInv'
    BY <1>25 DEF DelayRetry
  <1>26. ASSUME NEW c \in Clients, NEW m \in Msgs, ReadForCancel(c, m)
        PROVE  LiveInv'
    BY <1>26 DEF ReadForCancel, Cancellable
  <1>27. ASSUME NEW c \in Clients, SaveCancel(c)
        PROVE  LiveInv'
    BY <1>27 DEF SaveCancel
  <1>28. ASSUME NEW m \in Msgs, NEW kind \in WebhookKinds, Webhook(m, kind)
        PROVE  LiveInv'
    BY <1>28 DEF Webhook, Matched, WebhookStatus, AllWebhookKinds
  <1>29. ASSUME NEW m \in Msgs, ScheduleComes(m)
        PROVE  LiveInv'
    BY <1>29 DEF ScheduleComes
  <1>30. ASSUME NEW m \in Msgs, RetryTimeComes(m)
        PROVE  LiveInv'
    BY <1>30 DEF RetryTimeComes
  <1>31. ASSUME NEW m \in Msgs, Redeliver(m)
        PROVE  LiveInv'
    BY <1>31 DEF Redeliver
  <1>32. ASSUME NEW p \in Procs, Crash(p)
        PROVE  LiveInv'
    BY <1>32 DEF Crash
  <1>33. CASE UNCHANGED vars
    BY <1>33
  <1> QED BY ONLY [Next]_vars, <1>1, <1>2, <1>3, <1>4, <1>5, <1>6, <1>7, <1>8,
             <1>9, <1>10, <1>11, <1>12, <1>13, <1>14, <1>15, <1>16, <1>17,
             <1>18, <1>19, <1>20, <1>21, <1>22, <1>23, <1>24, <1>25, <1>26,
             <1>27, <1>28, <1>29, <1>30, <1>31, <1>32, <1>33
    DEF Next, WorkerTake, WorkerStep, ClientStep, Environment, Fetch

(* NeverSentEarly: send_after holds the scheduled time of every row that was *)
(* rendered, and a worker that has passed the schedule check keeps its right *)
(* to send, because neither column becomes later again.                      *)

EarlyInv ==
    /\ NeverSentEarly
    /\ \A m \in Msgs : scheduledFor[m] = "later" =>
         sendAfter[m] = "later" \/ m \in unrendered \/ status[m] = "suppressed"
    /\ \A w \in Workers : pc[w] \in Dispatching =>
         scheduledFor[cur[w]] # "later" \/ cur[w] \in unrendered

\* Every step keeps scheduled messages out of the workers' hands.
LEMMA EarlyStep == Typed /\ LiveInv /\ EarlyInv /\ [Next]_vars => EarlyInv'
  <1> SUFFICES ASSUME Typed, LiveInv, EarlyInv, [Next]_vars PROVE EarlyInv'
    OBVIOUS
  <1> USE DispatchAssumption, TypedFacts
      DEF EarlyInv, NeverSentEarly, LiveInv, Visible, Dispatching, SendSection, WorkerPcs, ClientPcs,
          Finish, Goto, vars, rowVars, procVars, histVars
  <1>1. ASSUME NEW c \in Clients, NEW m \in Msgs, NEW when \in Instants, CreateSuppressed(c, m, when)
        PROVE  EarlyInv'
    BY <1>1 DEF CreateSuppressed, Scheduled
  <1>2. ASSUME NEW c \in Clients, NEW m \in Msgs, NEW when \in Instants, CreateUnrendered(c, m, when)
        PROVE  EarlyInv'
    BY <1>2 DEF CreateUnrendered, Scheduled
  <1>3. ASSUME NEW c \in Clients, NEW m \in Msgs, NEW when \in Instants, CreateQueued(c, m, when)
        PROVE  EarlyInv'
    BY <1>3 DEF CreateQueued, Scheduled
  <1>4. ASSUME NEW c \in Clients, CreateCommit(c)
        PROVE  EarlyInv'
    BY <1>4 DEF CreateCommit
  <1>5. ASSUME NEW w \in Workers, NEW m \in Msgs, NEW r \in 0..MaxRetries, FetchDropped(w, m, r)
        PROVE  EarlyInv'
    BY <1>5 DEF FetchDropped
  <1>6. ASSUME NEW w \in Workers, NEW m \in Msgs, NEW r \in 0..MaxRetries, FetchTooEarly(w, m, r)
        PROVE  EarlyInv'
    BY <1>6 DEF FetchTooEarly
  <1>7. ASSUME NEW w \in Workers, NEW m \in Msgs, NEW r \in 0..MaxRetries, FetchReady(w, m, r)
        PROVE  EarlyInv'
    BY <1>7 DEF FetchReady, TooEarly, Dispatchable
  <1>8. ASSUME NEW w \in Workers, Throttled(w)
        PROVE  EarlyInv'
    BY <1>8 DEF Throttled
  <1>9. ASSUME NEW w \in Workers, Reserve(w)
        PROVE  EarlyInv'
    BY <1>9 DEF Reserve
  <1>10. ASSUME NEW w \in Workers, Blocked(w)
        PROVE  EarlyInv'
    BY <1>10 DEF Blocked
  <1>11. ASSUME NEW w \in Workers, BeginSend(w)
        PROVE  EarlyInv'
    BY <1>11 DEF BeginSend
  <1>12. ASSUME NEW w \in Workers, ProviderAccepts(w)
        PROVE  EarlyInv'
    BY <1>12 DEF ProviderAccepts
  <1>13. ASSUME NEW w \in Workers, ProviderAnswerLost(w)
        PROVE  EarlyInv'
    BY <1>13 DEF ProviderAnswerLost
  <1>14. ASSUME NEW w \in Workers, ProviderRefuses(w)
        PROVE  EarlyInv'
    BY <1>14 DEF ProviderRefuses
  <1>15. ASSUME NEW w \in Workers, SaveSent(w)
        PROVE  EarlyInv'
    BY <1>15 DEF SaveSent
  <1>16. ASSUME NEW w \in Workers, SaveFailed(w)
        PROVE  EarlyInv'
    BY <1>16 DEF SaveFailed
  <1>17. ASSUME NEW w \in Workers, RecordEvent(w)
        PROVE  EarlyInv'
    BY <1>17 DEF RecordEvent
  <1>18. ASSUME NEW w \in Workers, DispatchRaises(w)
        PROVE  EarlyInv'
    BY <1>18 DEF DispatchRaises
  <1>19. ASSUME NEW w \in Workers, SweepDispatchQueue(w)
        PROVE  EarlyInv'
    BY <1>19 DEF SweepDispatchQueue
  <1>20. ASSUME NEW w \in Workers, RetryDueDeferred(w)
        PROVE  EarlyInv'
    BY <1>20 DEF RetryDueDeferred
  <1>21. ASSUME NEW w \in Workers, RequeueSave(w)
        PROVE  EarlyInv'
    BY <1>21 DEF RequeueSave
  <1>22. ASSUME NEW w \in Workers, RequeueDelay(w)
        PROVE  EarlyInv'
    BY <1>22 DEF RequeueDelay
  <1>23. ASSUME NEW c \in Clients, NEW m \in Msgs, ReadForRetry(c, m)
        PROVE  EarlyInv'
    BY <1>23 DEF ReadForRetry
  <1>24. ASSUME NEW c \in Clients, SaveRetry(c)
        PROVE  EarlyInv'
    BY <1>24 DEF SaveRetry
  <1>25. ASSUME NEW c \in Clients, DelayRetry(c)
        PROVE  EarlyInv'
    BY <1>25 DEF DelayRetry
  <1>26. ASSUME NEW c \in Clients, NEW m \in Msgs, ReadForCancel(c, m)
        PROVE  EarlyInv'
    BY <1>26 DEF ReadForCancel
  <1>27. ASSUME NEW c \in Clients, SaveCancel(c)
        PROVE  EarlyInv'
    BY <1>27 DEF SaveCancel
  <1>28. ASSUME NEW m \in Msgs, NEW kind \in WebhookKinds, Webhook(m, kind)
        PROVE  EarlyInv'
    BY <1>28 DEF Webhook, Matched
  <1>29. ASSUME NEW m \in Msgs, ScheduleComes(m)
        PROVE  EarlyInv'
    BY <1>29 DEF ScheduleComes
  <1>30. ASSUME NEW m \in Msgs, RetryTimeComes(m)
        PROVE  EarlyInv'
    BY <1>30 DEF RetryTimeComes
  <1>31. ASSUME NEW m \in Msgs, Redeliver(m)
        PROVE  EarlyInv'
    BY <1>31 DEF Redeliver
  <1>32. ASSUME NEW p \in Procs, Crash(p)
        PROVE  EarlyInv'
    BY <1>32 DEF Crash
  <1>33. CASE UNCHANGED vars
    BY <1>33
  <1> QED BY ONLY [Next]_vars, <1>1, <1>2, <1>3, <1>4, <1>5, <1>6, <1>7, <1>8,
             <1>9, <1>10, <1>11, <1>12, <1>13, <1>14, <1>15, <1>16, <1>17,
             <1>18, <1>19, <1>20, <1>21, <1>22, <1>23, <1>24, <1>25, <1>26,
             <1>27, <1>28, <1>29, <1>30, <1>31, <1>32, <1>33
    DEF Next, WorkerTake, WorkerStep, ClientStep, Environment, Fetch
----------------------------------------------------------------------------
(* EverySendHasASlot: the reservations of m cover its hand-overs so far and *)
(* those that workers past the throttle may still make.                     *)

InFlight(m) == {w \in Workers : cur[w] = m /\ pc[w] \in {"reserved", "sending"}}

SlotInv == \A m \in Msgs : accepted[m] + Cardinality(InFlight(m)) <= slots[m]

\* All but three actions: nobody gets past the throttle or hands a message over.
Quiet ==
    /\ UNCHANGED <<slots, accepted>>
    /\ \A m \in Msgs : InFlight(m)' \subseteq InFlight(m)

Moves == \E w \in Workers : Reserve(w) \/ ProviderAccepts(w) \/ ProviderAnswerLost(w)

\* A step leaves slots, acceptances and hand-overs in flight alone, or makes exactly
\* one of the moves that SlotStep counts.
LEMMA QuietOrMoves == Typed /\ [Next]_vars => Quiet \/ Moves
  <1> SUFFICES ASSUME Typed, [Next]_vars PROVE Quiet \/ Moves
    OBVIOUS
  <1> USE DispatchAssumption, TypedFacts
      DEF InFlight, Quiet, Finish, Goto, vars, rowVars, procVars, histVars
  <1>1. ASSUME NEW c \in Clients, NEW m \in Msgs, NEW when \in Instants, CreateSuppressed(c, m, when)
        PROVE  Quiet \/ Moves
    BY <1>1 DEF CreateSuppressed
  <1>2. ASSUME NEW c \in Clients, NEW m \in Msgs, NEW when \in Instants, CreateUnrendered(c, m, when)
        PROVE  Quiet \/ Moves
    BY <1>2 DEF CreateUnrendered
  <1>3. ASSUME NEW c \in Clients, NEW m \in Msgs, NEW when \in Instants, CreateQueued(c, m, when)
        PROVE  Quiet \/ Moves
    BY <1>3 DEF CreateQueued
  <1>4. ASSUME NEW c \in Clients, CreateCommit(c)
        PROVE  Quiet \/ Moves
    BY <1>4 DEF CreateCommit
  <1>5. ASSUME NEW w \in Workers, NEW m \in Msgs, NEW r \in 0..MaxRetries, FetchDropped(w, m, r)
        PROVE  Quiet \/ Moves
    BY <1>5 DEF FetchDropped
  <1>6. ASSUME NEW w \in Workers, NEW m \in Msgs, NEW r \in 0..MaxRetries, FetchTooEarly(w, m, r)
        PROVE  Quiet \/ Moves
    BY <1>6 DEF FetchTooEarly
  <1>7. ASSUME NEW w \in Workers, NEW m \in Msgs, NEW r \in 0..MaxRetries, FetchReady(w, m, r)
        PROVE  Quiet \/ Moves
    BY <1>7 DEF FetchReady
  <1>8. ASSUME NEW w \in Workers, Throttled(w)
        PROVE  Quiet \/ Moves
    BY <1>8 DEF Throttled
  <1>9. ASSUME NEW w \in Workers, Reserve(w)
        PROVE  Quiet \/ Moves
    BY <1>9 DEF Moves
  <1>10. ASSUME NEW w \in Workers, Blocked(w)
        PROVE  Quiet \/ Moves
    BY <1>10 DEF Blocked
  <1>11. ASSUME NEW w \in Workers, BeginSend(w)
        PROVE  Quiet \/ Moves
    BY <1>11 DEF BeginSend
  <1>12. ASSUME NEW w \in Workers, ProviderAccepts(w)
        PROVE  Quiet \/ Moves
    BY <1>12 DEF Moves
  <1>13. ASSUME NEW w \in Workers, ProviderAnswerLost(w)
        PROVE  Quiet \/ Moves
    BY <1>13 DEF Moves
  <1>14. ASSUME NEW w \in Workers, ProviderRefuses(w)
        PROVE  Quiet \/ Moves
    BY <1>14 DEF ProviderRefuses
  <1>15. ASSUME NEW w \in Workers, SaveSent(w)
        PROVE  Quiet \/ Moves
    BY <1>15 DEF SaveSent
  <1>16. ASSUME NEW w \in Workers, SaveFailed(w)
        PROVE  Quiet \/ Moves
    BY <1>16 DEF SaveFailed
  <1>17. ASSUME NEW w \in Workers, RecordEvent(w)
        PROVE  Quiet \/ Moves
    BY <1>17 DEF RecordEvent
  <1>18. ASSUME NEW w \in Workers, DispatchRaises(w)
        PROVE  Quiet \/ Moves
    BY <1>18 DEF DispatchRaises, Dispatching
  <1>19. ASSUME NEW w \in Workers, SweepDispatchQueue(w)
        PROVE  Quiet \/ Moves
    BY <1>19 DEF SweepDispatchQueue
  <1>20. ASSUME NEW w \in Workers, RetryDueDeferred(w)
        PROVE  Quiet \/ Moves
    BY <1>20 DEF RetryDueDeferred
  <1>21. ASSUME NEW w \in Workers, RequeueSave(w)
        PROVE  Quiet \/ Moves
    BY <1>21 DEF RequeueSave
  <1>22. ASSUME NEW w \in Workers, RequeueDelay(w)
        PROVE  Quiet \/ Moves
    BY <1>22 DEF RequeueDelay
  <1>23. ASSUME NEW c \in Clients, NEW m \in Msgs, ReadForRetry(c, m)
        PROVE  Quiet \/ Moves
    BY <1>23 DEF ReadForRetry
  <1>24. ASSUME NEW c \in Clients, SaveRetry(c)
        PROVE  Quiet \/ Moves
    BY <1>24 DEF SaveRetry
  <1>25. ASSUME NEW c \in Clients, DelayRetry(c)
        PROVE  Quiet \/ Moves
    BY <1>25 DEF DelayRetry
  <1>26. ASSUME NEW c \in Clients, NEW m \in Msgs, ReadForCancel(c, m)
        PROVE  Quiet \/ Moves
    BY <1>26 DEF ReadForCancel
  <1>27. ASSUME NEW c \in Clients, SaveCancel(c)
        PROVE  Quiet \/ Moves
    BY <1>27 DEF SaveCancel
  <1>28. ASSUME NEW m \in Msgs, NEW kind \in WebhookKinds, Webhook(m, kind)
        PROVE  Quiet \/ Moves
    BY <1>28 DEF Webhook
  <1>29. ASSUME NEW m \in Msgs, ScheduleComes(m)
        PROVE  Quiet \/ Moves
    BY <1>29 DEF ScheduleComes
  <1>30. ASSUME NEW m \in Msgs, RetryTimeComes(m)
        PROVE  Quiet \/ Moves
    BY <1>30 DEF RetryTimeComes
  <1>31. ASSUME NEW m \in Msgs, Redeliver(m)
        PROVE  Quiet \/ Moves
    BY <1>31 DEF Redeliver
  <1>32. ASSUME NEW p \in Procs, Crash(p)
        PROVE  Quiet \/ Moves
    BY <1>32 DEF Crash
  <1>33. CASE UNCHANGED vars
    BY <1>33
  <1> QED BY ONLY [Next]_vars, <1>1, <1>2, <1>3, <1>4, <1>5, <1>6, <1>7, <1>8,
             <1>9, <1>10, <1>11, <1>12, <1>13, <1>14, <1>15, <1>16, <1>17,
             <1>18, <1>19, <1>20, <1>21, <1>22, <1>23, <1>24, <1>25, <1>26,
             <1>27, <1>28, <1>29, <1>30, <1>31, <1>32, <1>33
    DEF Next, WorkerTake, WorkerStep, ClientStep, Environment, Fetch

\* The workers that hold an unused reservation can be counted.
LEMMA FlightIsFinite == \A m \in Msgs : IsFiniteSet(InFlight(m))
  BY FS_Subset, DispatchAssumption DEF InFlight

\* Every step keeps reservations at least acceptances plus hand-overs in flight.
LEMMA SlotStep == Typed /\ Typed' /\ SlotInv /\ [Next]_vars => SlotInv'
  <1> SUFFICES ASSUME Typed, Typed', SlotInv, [Next]_vars, NEW m \in Msgs
               PROVE  (accepted[m] + Cardinality(InFlight(m)) <= slots[m])'
    BY DEF SlotInv
  <1> USE DispatchAssumption
  <1> DEFINE F == InFlight(m)
             G == InFlight(m)'
  <1>1. IsFiniteSet(F) /\ Cardinality(F) \in Nat
    BY FlightIsFinite, FS_CardinalityType
  <1>2. accepted[m] + Cardinality(F) <= slots[m]
    BY DEF SlotInv
  <1>3. /\ slots[m] \in Nat /\ slots'[m] \in Nat
        /\ accepted[m] \in Nat /\ accepted'[m] \in Nat
    BY DEF Typed, TypeOK
  <1>4. CASE Quiet
    <2>1. G \subseteq F
      BY <1>4 DEF Quiet
    <2>2. Cardinality(G) \in Nat /\ Cardinality(G) <= Cardinality(F)
      BY <2>1, <1>1, FS_Subset, FS_CardinalityType
    <2>3. accepted'[m] = accepted[m] /\ slots'[m] = slots[m]
      BY <1>4 DEF Quiet
    <2> QED BY <2>2, <2>3, <1>1, <1>2, <1>3
  <1>5. ASSUME NEW w \in Workers, Reserve(w) PROVE accepted'[m] + Cardinality(G) <= slots'[m]
    <2>1. CASE cur[w] = m
      <3>1. G \subseteq F \cup {w}
        BY <1>5, <2>1, TypedFacts DEF Reserve, InFlight, Goto
      <3>2. /\ IsFiniteSet(F \cup {w})
            /\ Cardinality(F \cup {w}) <= Cardinality(F) + 1
            /\ Cardinality(F \cup {w}) \in Nat
        <4>1. IsFiniteSet(F \cup {w})
          BY <1>1, FS_AddElement
        <4>2. Cardinality(F \cup {w}) = IF w \in F THEN Cardinality(F) ELSE Cardinality(F) + 1
          BY <1>1, FS_AddElement
        <4> QED BY <4>1, <4>2, <1>1
      <3>3. Cardinality(G) \in Nat /\ Cardinality(G) <= Cardinality(F \cup {w})
        BY <3>1, <3>2, FS_Subset, FS_CardinalityType
      <3>4. accepted'[m] = accepted[m] /\ slots'[m] = slots[m] + 1
        BY <1>5, <2>1, TypedFacts DEF Reserve
      <3> QED BY <3>2, <3>3, <3>4, <1>1, <1>2, <1>3
    <2>2. CASE cur[w] # m
      <3>1. G = F
        BY <1>5, <2>2, TypedFacts DEF Reserve, InFlight, Goto
      <3>2. accepted'[m] = accepted[m] /\ slots'[m] = slots[m]
        BY <1>5, <2>2, TypedFacts DEF Reserve
      <3> QED BY <3>1, <3>2, <1>2
    <2> QED BY <2>1, <2>2
  <1>6. ASSUME NEW w \in Workers, ProviderAccepts(w) \/ ProviderAnswerLost(w)
        PROVE  accepted'[m] + Cardinality(G) <= slots'[m]
    <2>1. CASE cur[w] = m
      <3>1. G = F \ {w} /\ w \in F
        BY <1>6, <2>1, TypedFacts DEF ProviderAccepts, ProviderAnswerLost, InFlight, Goto
      <3>2. Cardinality(G) = Cardinality(F) - 1
        BY <3>1, <1>1, FS_RemoveElement
      <3>3. accepted'[m] = accepted[m] + 1 /\ slots'[m] = slots[m]
        BY <1>6, <2>1, TypedFacts DEF ProviderAccepts, ProviderAnswerLost
      <3> QED BY <3>2, <3>3, <1>1, <1>2, <1>3
    <2>2. CASE cur[w] # m
      <3>1. G = F
        BY <1>6, <2>2, TypedFacts DEF ProviderAccepts, ProviderAnswerLost, InFlight, Goto
      <3>2. accepted'[m] = accepted[m] /\ slots'[m] = slots[m]
        BY <1>6, <2>2, TypedFacts DEF ProviderAccepts, ProviderAnswerLost
      <3> QED BY <3>1, <3>2, <1>2
    <2> QED BY <2>1, <2>2
  <1> QED BY <1>4, <1>5, <1>6, QuietOrMoves DEF Moves

----------------------------------------------------------------------------
(* The refinement.  Creation maps to Suppress or Accept, the throttle's     *)
(* reservation to Reserve, an acceptance to HandOver; everything else, crash *)
(* and webhook included, is a stutter of the contract.                      *)

Idle == /\ \A m \in Msgs : Phase(m)' = Phase(m)
        /\ UNCHANGED <<slots, accepted>>

\* A step that touches neither phase, slots nor acceptances is a stutter of the contract.
LEMMA IdleStutters == Idle => UNCHANGED Contract!vars
  BY DEF Idle, Contract!vars

\* An acceptance always finds a reservation that is not used up.
LEMMA HandOverIsCovered ==
    ASSUME Typed, SlotInv, NEW m \in Msgs, NEW w \in InFlight(m)
    PROVE  accepted[m] < slots[m]
  <1>1. IsFiniteSet(InFlight(m))
    BY FlightIsFinite
  <1>2. Cardinality(InFlight(m)) \in Nat /\ Cardinality(InFlight(m)) # 0
    BY <1>1, FS_CardinalityType, FS_EmptySet
  <1>3. accepted[m] \in Nat /\ slots[m] \in Nat
    BY DEF Typed, TypeOK
  <1> QED BY <1>2, <1>3 DEF SlotInv

\* Initial states map to initial states of the contract.
LEMMA ContractInit == Init => Contract!Init
  BY DEF Init, Contract!Init, Phase

\* Every step maps to a step of the contract or a stutter.
LEMMA ContractStep == Typed /\ LiveInv /\ SlotInv /\ [Next]_vars => [Contract!Next]_Contract!vars
  <1> SUFFICES ASSUME Typed, LiveInv, SlotInv, [Next]_vars
               PROVE  Contract!Next \/ UNCHANGED Contract!vars
    OBVIOUS
  <1> USE DispatchAssumption
  <1>1. ASSUME NEW c \in Clients, NEW m \in Msgs, NEW when \in Instants, CreateSuppressed(c, m, when)
        PROVE  Contract!Next \/ UNCHANGED Contract!vars
    <2>1. Contract!Suppress(m)
      BY <1>1, TypedFacts DEF CreateSuppressed, Contract!Suppress, Phase
    <2> QED BY <2>1 DEF Contract!Next
  <1>2. ASSUME NEW c \in Clients, NEW m \in Msgs, NEW when \in Instants, CreateUnrendered(c, m, when)
        PROVE  Contract!Next \/ UNCHANGED Contract!vars
    <2>1. Contract!Accept(m)
      BY <1>2, TypedFacts DEF CreateUnrendered, Contract!Accept, Phase
    <2> QED BY <2>1 DEF Contract!Next
  <1>3. ASSUME NEW c \in Clients, NEW m \in Msgs, NEW when \in Instants, CreateQueued(c, m, when)
        PROVE  Contract!Next \/ UNCHANGED Contract!vars
    <2>1. Idle
      BY <1>3, TypedFacts DEF CreateQueued,
         Idle, Phase, Finish, Goto, rowVars, procVars, histVars
    <2> QED BY <2>1, IdleStutters
  <1>4. ASSUME NEW c \in Clients, CreateCommit(c)
        PROVE  Contract!Next \/ UNCHANGED Contract!vars
    <2>1. cur[c] \in Msgs /\ status[cur[c]] = "creating"
      BY <1>4, TypedFacts DEF CreateCommit, LiveInv
    <2>2. Contract!Accept(cur[c])
      BY <1>4, <2>1, TypedFacts DEF CreateCommit, Contract!Accept, Phase
    <2> QED BY <2>1, <2>2 DEF Contract!Next
  <1>5. ASSUME NEW w \in Workers, NEW m \in Msgs, NEW r \in 0..MaxRetries, FetchDropped(w, m, r)
        PROVE  Contract!Next \/ UNCHANGED Contract!vars
    <2>1. Idle
      BY <1>5, TypedFacts DEF FetchDropped,
         Idle, Phase, Finish, Goto, rowVars, procVars, histVars
    <2> QED BY <2>1, IdleStutters
  <1>6. ASSUME NEW w \in Workers, NEW m \in Msgs, NEW r \in 0..MaxRetries, FetchTooEarly(w, m, r)
        PROVE  Contract!Next \/ UNCHANGED Contract!vars
    <2>1. Idle
      BY <1>6, TypedFacts DEF FetchTooEarly,
         Idle, Phase, Finish, Goto, rowVars, procVars, histVars
    <2> QED BY <2>1, IdleStutters
  <1>7. ASSUME NEW w \in Workers, NEW m \in Msgs, NEW r \in 0..MaxRetries, FetchReady(w, m, r)
        PROVE  Contract!Next \/ UNCHANGED Contract!vars
    <2>1. Idle
      BY <1>7, TypedFacts DEF FetchReady,
         Idle, Phase, Finish, Goto, rowVars, procVars, histVars
    <2> QED BY <2>1, IdleStutters
  <1>8. ASSUME NEW w \in Workers, Throttled(w)
        PROVE  Contract!Next \/ UNCHANGED Contract!vars
    <2>1. Idle
      BY <1>8, TypedFacts DEF Throttled, LiveInv, Visible, Dispatching, SendSection,
         Idle, Phase, Finish, Goto, rowVars, procVars, histVars
    <2> QED BY <2>1, IdleStutters
  <1>9. ASSUME NEW w \in Workers, Reserve(w)
        PROVE  Contract!Next \/ UNCHANGED Contract!vars
    <2>1. cur[w] \in Msgs /\ Phase(cur[w]) = "live"
      BY <1>9, TypedFacts DEF Reserve, LiveInv, Visible, Dispatching, Phase
    <2>2. Contract!Reserve(cur[w])
      BY <1>9, <2>1, TypedFacts DEF Reserve, rowVars, Contract!Reserve, Phase
    <2> QED BY <2>1, <2>2 DEF Contract!Next
  <1>10. ASSUME NEW w \in Workers, Blocked(w)
        PROVE  Contract!Next \/ UNCHANGED Contract!vars
    <2>1. Idle
      BY <1>10, TypedFacts DEF Blocked, LiveInv, Visible, Dispatching, SendSection,
         Idle, Phase, Finish, Goto, rowVars, procVars, histVars
    <2> QED BY <2>1, IdleStutters
  <1>11. ASSUME NEW w \in Workers, BeginSend(w)
        PROVE  Contract!Next \/ UNCHANGED Contract!vars
    <2>1. Idle
      BY <1>11, TypedFacts DEF BeginSend, LiveInv, Visible, Dispatching, SendSection,
         Idle, Phase, Finish, Goto, rowVars, procVars, histVars
    <2> QED BY <2>1, IdleStutters
  <1>12. ASSUME NEW w \in Workers, ProviderAccepts(w)
        PROVE  Contract!Next \/ UNCHANGED Contract!vars
    <2>1. cur[w] \in Msgs /\ Phase(cur[w]) = "live"
      BY <1>12, TypedFacts DEF ProviderAccepts, LiveInv, Visible, Dispatching, SendSection, Phase
    <2>2. accepted[cur[w]] < slots[cur[w]]
      BY <1>12, <2>1, HandOverIsCovered DEF ProviderAccepts, InFlight
    <2>3. Contract!HandOver(cur[w])
      BY <1>12, <2>1, <2>2, TypedFacts DEF ProviderAccepts, rowVars, Contract!HandOver, Phase
    <2> QED BY <2>1, <2>3 DEF Contract!Next
  <1>13. ASSUME NEW w \in Workers, ProviderAnswerLost(w)
        PROVE  Contract!Next \/ UNCHANGED Contract!vars
    <2>1. cur[w] \in Msgs /\ Phase(cur[w]) = "live"
      BY <1>13, TypedFacts DEF ProviderAnswerLost, LiveInv, Visible, Dispatching, SendSection, Phase
    <2>2. accepted[cur[w]] < slots[cur[w]]
      BY <1>13, <2>1, HandOverIsCovered DEF ProviderAnswerLost, InFlight
    <2>3. Contract!HandOver(cur[w])
      BY <1>13, <2>1, <2>2, TypedFacts DEF ProviderAnswerLost, rowVars, Contract!HandOver, Phase
    <2> QED BY <2>1, <2>3 DEF Contract!Next
  <1>14. ASSUME NEW w \in Workers, ProviderRefuses(w)
        PROVE  Contract!Next \/ UNCHANGED Contract!vars
    <2>1. Idle
      BY <1>14, TypedFacts DEF ProviderRefuses,
         Idle, Phase, Finish, Goto, rowVars, procVars, histVars
    <2> QED BY <2>1, IdleStutters
  <1>15. ASSUME NEW w \in Workers, SaveSent(w)
        PROVE  Contract!Next \/ UNCHANGED Contract!vars
    <2>1. Idle
      BY <1>15, TypedFacts DEF SaveSent, LiveInv, Visible, Dispatching, SendSection,
         Idle, Phase, Finish, Goto, rowVars, procVars, histVars
    <2> QED BY <2>1, IdleStutters
  <1>16. ASSUME NEW w \in Workers, SaveFailed(w)
        PROVE  Contract!Next \/ UNCHANGED Contract!vars
    <2>1. Idle
      BY <1>16, TypedFacts DEF SaveFailed, LiveInv, Visible, Dispatching, SendSection,
         Idle, Phase, Finish, Goto, rowVars, procVars, histVars
    <2> QED BY <2>1, IdleStutters
  <1>17. ASSUME NEW w \in Workers, RecordEvent(w)
        PROVE  Contract!Next \/ UNCHANGED Contract!vars
    <2>1. Idle
      BY <1>17, TypedFacts DEF RecordEvent,
         Idle, Phase, Finish, Goto, rowVars, procVars, histVars
    <2> QED BY <2>1, IdleStutters
  <1>18. ASSUME NEW w \in Workers, DispatchRaises(w)
        PROVE  Contract!Next \/ UNCHANGED Contract!vars
    <2>1. Idle
      BY <1>18, TypedFacts DEF DispatchRaises, LiveInv, Visible, Dispatching, SendSection,
         Idle, Phase, Finish, Goto, rowVars, procVars, histVars
    <2> QED BY <2>1, IdleStutters
  <1>19. ASSUME NEW w \in Workers, SweepDispatchQueue(w)
        PROVE  Contract!Next \/ UNCHANGED Contract!vars
    <2>1. Idle
      BY <1>19, TypedFacts DEF SweepDispatchQueue,
         Idle, Phase, Finish, Goto, rowVars, procVars, histVars
    <2> QED BY <2>1, IdleStutters
  <1>20. ASSUME NEW w \in Workers, RetryDueDeferred(w)
        PROVE  Contract!Next \/ UNCHANGED Contract!vars
    <2>1. Idle
      BY <1>20, TypedFacts DEF RetryDueDeferred,
         Idle, Phase, Finish, Goto, rowVars, procVars, histVars
    <2> QED BY <2>1, IdleStutters
  <1>21. ASSUME NEW w \in Workers, RequeueSave(w)
        PROVE  Contract!Next \/ UNCHANGED Contract!vars
    <2>1. Idle
      BY <1>21, TypedFacts DEF RequeueSave, LiveInv, Visible,
         Idle, Phase, Finish, Goto, rowVars, procVars, histVars
    <2> QED BY <2>1, IdleStutters
  <1>22. ASSUME NEW w \in Workers, RequeueDelay(w)
        PROVE  Contract!Next \/ UNCHANGED Contract!vars
    <2>1. Idle
      BY <1>22, TypedFacts DEF RequeueDelay,
         Idle, Phase, Finish, Goto, rowVars, procVars, histVars
    <2> QED BY <2>1, IdleStutters
  <1>23. ASSUME NEW c \in Clients, NEW m \in Msgs, ReadForRetry(c, m)
        PROVE  Contract!Next \/ UNCHANGED Contract!vars
    <2>1. Idle
      BY <1>23, TypedFacts DEF ReadForRetry,
         Idle, Phase, Finish, Goto, rowVars, procVars, histVars
    <2> QED BY <2>1, IdleStutters
  <1>24. ASSUME NEW c \in Clients, SaveRetry(c)
        PROVE  Contract!Next \/ UNCHANGED Contract!vars
    <2>1. Idle
      BY <1>24, TypedFacts DEF SaveRetry, LiveInv, Visible, Dispatching, SendSection,
         Idle, Phase, Finish, Goto, rowVars, procVars, histVars
    <2> QED BY <2>1, IdleStutters
  <1>25. ASSUME NEW c \in Clients, DelayRetry(c)
        PROVE  Contract!Next \/ UNCHANGED Contract!vars
    <2>1. Idle
      BY <1>25, TypedFacts DEF DelayRetry,
         Idle, Phase, Finish, Goto, rowVars, procVars, histVars
    <2> QED BY <2>1, IdleStutters
  <1>26. ASSUME NEW c \in Clients, NEW m \in Msgs, ReadForCancel(c, m)
        PROVE  Contract!Next \/ UNCHANGED Contract!vars
    <2>1. Idle
      BY <1>26, TypedFacts DEF ReadForCancel,
         Idle, Phase, Finish, Goto, rowVars, procVars, histVars
    <2> QED BY <2>1, IdleStutters
  <1>27. ASSUME NEW c \in Clients, SaveCancel(c)
        PROVE  Contract!Next \/ UNCHANGED Contract!vars
    <2>1. Idle
      BY <1>27, TypedFacts DEF SaveCancel, LiveInv, Visible, Dispatching, SendSection,
         Idle, Phase, Finish, Goto, rowVars, procVars, histVars
    <2> QED BY <2>1, IdleStutters
  <1>28. ASSUME NEW m \in Msgs, NEW kind \in WebhookKinds, Webhook(m, kind)
        PROVE  Contract!Next \/ UNCHANGED Contract!vars
    <2>1. Visible(m)
      BY <1>28 DEF Webhook, Matched, LiveInv
    <2>2. WebhookStatus(kind, status[m]) \notin {"absent", "creating", "suppressed"}
      BY <2>1 DEF WebhookStatus, AllWebhookKinds, Visible
    <2>3. Idle
      BY <1>28, <2>1, <2>2, TypedFacts DEF Webhook, Idle, Phase, Visible, procVars
    <2> QED BY <2>3, IdleStutters
  <1>29. ASSUME NEW m \in Msgs, ScheduleComes(m)
        PROVE  Contract!Next \/ UNCHANGED Contract!vars
    <2>1. Idle
      BY <1>29, TypedFacts DEF ScheduleComes,
         Idle, Phase, Finish, Goto, rowVars, procVars, histVars
    <2> QED BY <2>1, IdleStutters
  <1>30. ASSUME NEW m \in Msgs, RetryTimeComes(m)
        PROVE  Contract!Next \/ UNCHANGED Contract!vars
    <2>1. Idle
      BY <1>30, TypedFacts DEF RetryTimeComes,
         Idle, Phase, Finish, Goto, rowVars, procVars, histVars
    <2> QED BY <2>1, IdleStutters
  <1>31. ASSUME NEW m \in Msgs, Redeliver(m)
        PROVE  Contract!Next \/ UNCHANGED Contract!vars
    <2>1. Idle
      BY <1>31, TypedFacts DEF Redeliver,
         Idle, Phase, Finish, Goto, rowVars, procVars, histVars
    <2> QED BY <2>1, IdleStutters
  <1>32. ASSUME NEW p \in Procs, Crash(p)
        PROVE  Contract!Next \/ UNCHANGED Contract!vars
    <2>1. Idle
      BY <1>32, TypedFacts DEF Crash,
         Idle, Phase, Finish, Goto, rowVars, procVars, histVars
    <2> QED BY <2>1, IdleStutters
  <1>33. CASE UNCHANGED vars
    <2>1. Idle
      BY <1>33 DEF Idle, Phase, vars, rowVars
    <2> QED BY <2>1, IdleStutters
  <1> QED BY ONLY [Next]_vars, <1>1, <1>2, <1>3, <1>4, <1>5, <1>6, <1>7, <1>8,
             <1>9, <1>10, <1>11, <1>12, <1>13, <1>14, <1>15, <1>16, <1>17,
             <1>18, <1>19, <1>20, <1>21, <1>22, <1>23, <1>24, <1>25, <1>26,
             <1>27, <1>28, <1>29, <1>30, <1>31, <1>32, <1>33
    DEF Next, WorkerTake, WorkerStep, ClientStep, Environment, Fetch
----------------------------------------------------------------------------
(* CancelSticks: no action takes up a cancelled message that nobody holds.  *)

CancelHolds == \A m \in Msgs : CancelledAtRest(m) => CancelledAtRest(m)'

\* No step takes up a message that was cancelled at rest.
LEMMA CancelStep == Typed /\ [Next]_vars => CancelHolds
  <1> SUFFICES ASSUME Typed, [Next]_vars PROVE CancelHolds
    OBVIOUS
  <1> USE DispatchAssumption, TypedFacts
      DEF CancelHolds, CancelledAtRest, Finish, Goto, vars, rowVars, procVars, histVars
  <1>1. ASSUME NEW c \in Clients, NEW m \in Msgs, NEW when \in Instants, CreateSuppressed(c, m, when)
        PROVE  CancelHolds
    BY <1>1 DEF CreateSuppressed
  <1>2. ASSUME NEW c \in Clients, NEW m \in Msgs, NEW when \in Instants, CreateUnrendered(c, m, when)
        PROVE  CancelHolds
    BY <1>2 DEF CreateUnrendered
  <1>3. ASSUME NEW c \in Clients, NEW m \in Msgs, NEW when \in Instants, CreateQueued(c, m, when)
        PROVE  CancelHolds
    BY <1>3 DEF CreateQueued
  <1>4. ASSUME NEW c \in Clients, CreateCommit(c)
        PROVE  CancelHolds
    BY <1>4 DEF CreateCommit
  <1>5. ASSUME NEW w \in Workers, NEW m \in Msgs, NEW r \in 0..MaxRetries, FetchDropped(w, m, r)
        PROVE  CancelHolds
    BY <1>5 DEF FetchDropped
  <1>6. ASSUME NEW w \in Workers, NEW m \in Msgs, NEW r \in 0..MaxRetries, FetchTooEarly(w, m, r)
        PROVE  CancelHolds
    BY <1>6 DEF FetchTooEarly
  <1>7. ASSUME NEW w \in Workers, NEW m \in Msgs, NEW r \in 0..MaxRetries, FetchReady(w, m, r)
        PROVE  CancelHolds
    BY <1>7 DEF FetchReady, Dispatchable
  <1>8. ASSUME NEW w \in Workers, Throttled(w)
        PROVE  CancelHolds
    BY <1>8 DEF Throttled
  <1>9. ASSUME NEW w \in Workers, Reserve(w)
        PROVE  CancelHolds
    BY <1>9 DEF Reserve
  <1>10. ASSUME NEW w \in Workers, Blocked(w)
        PROVE  CancelHolds
    BY <1>10 DEF Blocked
  <1>11. ASSUME NEW w \in Workers, BeginSend(w)
        PROVE  CancelHolds
    BY <1>11 DEF BeginSend
  <1>12. ASSUME NEW w \in Workers, ProviderAccepts(w)
        PROVE  CancelHolds
    BY <1>12 DEF ProviderAccepts
  <1>13. ASSUME NEW w \in Workers, ProviderAnswerLost(w)
        PROVE  CancelHolds
    BY <1>13 DEF ProviderAnswerLost
  <1>14. ASSUME NEW w \in Workers, ProviderRefuses(w)
        PROVE  CancelHolds
    BY <1>14 DEF ProviderRefuses
  <1>15. ASSUME NEW w \in Workers, SaveSent(w)
        PROVE  CancelHolds
    BY <1>15 DEF SaveSent
  <1>16. ASSUME NEW w \in Workers, SaveFailed(w)
        PROVE  CancelHolds
    BY <1>16 DEF SaveFailed
  <1>17. ASSUME NEW w \in Workers, RecordEvent(w)
        PROVE  CancelHolds
    BY <1>17 DEF RecordEvent
  <1>18. ASSUME NEW w \in Workers, DispatchRaises(w)
        PROVE  CancelHolds
    BY <1>18 DEF DispatchRaises
  <1>19. ASSUME NEW w \in Workers, SweepDispatchQueue(w)
        PROVE  CancelHolds
    BY <1>19 DEF SweepDispatchQueue
  <1>20. ASSUME NEW w \in Workers, RetryDueDeferred(w)
        PROVE  CancelHolds
    BY <1>20 DEF RetryDueDeferred, DueDeferred
  <1>21. ASSUME NEW w \in Workers, RequeueSave(w)
        PROVE  CancelHolds
    BY <1>21 DEF RequeueSave
  <1>22. ASSUME NEW w \in Workers, RequeueDelay(w)
        PROVE  CancelHolds
    BY <1>22 DEF RequeueDelay
  <1>23. ASSUME NEW c \in Clients, NEW m \in Msgs, ReadForRetry(c, m)
        PROVE  CancelHolds
    BY <1>23 DEF ReadForRetry, Retryable
  <1>24. ASSUME NEW c \in Clients, SaveRetry(c)
        PROVE  CancelHolds
    BY <1>24 DEF SaveRetry
  <1>25. ASSUME NEW c \in Clients, DelayRetry(c)
        PROVE  CancelHolds
    BY <1>25 DEF DelayRetry
  <1>26. ASSUME NEW c \in Clients, NEW m \in Msgs, ReadForCancel(c, m)
        PROVE  CancelHolds
    BY <1>26 DEF ReadForCancel, Cancellable
  <1>27. ASSUME NEW c \in Clients, SaveCancel(c)
        PROVE  CancelHolds
    BY <1>27 DEF SaveCancel
  <1>28. ASSUME NEW m \in Msgs, NEW kind \in WebhookKinds, Webhook(m, kind)
        PROVE  CancelHolds
    BY <1>28 DEF Webhook, Matched
  <1>29. ASSUME NEW m \in Msgs, ScheduleComes(m)
        PROVE  CancelHolds
    BY <1>29 DEF ScheduleComes
  <1>30. ASSUME NEW m \in Msgs, RetryTimeComes(m)
        PROVE  CancelHolds
    BY <1>30 DEF RetryTimeComes
  <1>31. ASSUME NEW m \in Msgs, Redeliver(m)
        PROVE  CancelHolds
    BY <1>31 DEF Redeliver
  <1>32. ASSUME NEW p \in Procs, Crash(p)
        PROVE  CancelHolds
    BY <1>32 DEF Crash
  <1>33. CASE UNCHANGED vars
    BY <1>33
  <1> QED BY ONLY [Next]_vars, <1>1, <1>2, <1>3, <1>4, <1>5, <1>6, <1>7, <1>8,
             <1>9, <1>10, <1>11, <1>12, <1>13, <1>14, <1>15, <1>16, <1>17,
             <1>18, <1>19, <1>20, <1>21, <1>22, <1>23, <1>24, <1>25, <1>26,
             <1>27, <1>28, <1>29, <1>30, <1>31, <1>32, <1>33
    DEF Next, WorkerTake, WorkerStep, ClientStep, Environment, Fetch

----------------------------------------------------------------------------
(* DuplicateNeedsExposure.  While none of the hazards has happened to m, at *)
(* most one process is about to write its row for another send, and once    *)
(* the provider has taken m its status can only be one that no task, sweep  *)
(* or operator picks up, held at most by the worker with the answer.        *)

Settled == {"sending", "sent", "delivered", "bounced", "complained", "cancelled"}

OneContender(m) == \A p, q \in Procs : Contends(p, m) /\ Contends(q, m) => p = q

TakenOnce(m) ==
    accepted[m] # 0 =>
        /\ accepted[m] = 1
        /\ status[m] \in Settled
        /\ \A p \in Procs : Contends(p, m) =>
              /\ m \notin batch[p]
              /\ pc[p] \in {"accepted", "recorded"}
              /\ answer[p] # 0

SendingIsSettled(m) ==
    \A w \in Workers : cur[w] = m /\ pc[w] = "sending" => status[m] \in {"sending", "cancelled"}

DupInv ==
    /\ \A p \in Procs : batch[p] # {} => pc[p] \in {"requeue", "requeued"}
    /\ \A m \in Msgs : m \notin exposed =>
         OneContender(m) /\ TakenOnce(m) /\ SendingIsSettled(m)

\* Every step keeps a second acceptance out of reach of messages nothing happened to.
LEMMA DupStep == Typed /\ LiveInv /\ ReportInv /\ DupInv /\ [Next]_vars => DupInv'
  <1> SUFFICES ASSUME Typed, LiveInv, ReportInv, DupInv, [Next]_vars PROVE DupInv'
    OBVIOUS
  <1> USE DispatchAssumption, TypedFacts
      DEF DupInv, OneContender, TakenOnce, SendingIsSettled, Settled, Contends, Contended,
          Dispatching, SendSection, WorkerPcs, ClientPcs, Finish, Goto,
          vars, rowVars, procVars, histVars
  <1>1. ASSUME NEW c \in Clients, NEW m \in Msgs, NEW when \in Instants, CreateSuppressed(c, m, when)
        PROVE  DupInv'
    BY <1>1 DEF CreateSuppressed, LiveInv, Visible
  <1>2. ASSUME NEW c \in Clients, NEW m \in Msgs, NEW when \in Instants, CreateUnrendered(c, m, when)
        PROVE  DupInv'
    BY <1>2 DEF CreateUnrendered, LiveInv, Visible
  <1>3. ASSUME NEW c \in Clients, NEW m \in Msgs, NEW when \in Instants, CreateQueued(c, m, when)
        PROVE  DupInv'
    BY <1>3 DEF CreateQueued, LiveInv, Visible
  <1>4. ASSUME NEW c \in Clients, CreateCommit(c)
        PROVE  DupInv'
    BY <1>4 DEF CreateCommit, LiveInv, Visible
  <1>5. ASSUME NEW w \in Workers, NEW m \in Msgs, NEW r \in 0..MaxRetries, FetchDropped(w, m, r)
        PROVE  DupInv'
    BY <1>5 DEF FetchDropped
  <1>6. ASSUME NEW w \in Workers, NEW m \in Msgs, NEW r \in 0..MaxRetries, FetchTooEarly(w, m, r)
        PROVE  DupInv'
    BY <1>6 DEF FetchTooEarly
  <1>7. ASSUME NEW w \in Workers, NEW m \in Msgs, NEW r \in 0..MaxRetries, FetchReady(w, m, r)
        PROVE  DupInv'
    BY <1>7 DEF FetchReady, Dispatchable
  <1>8. ASSUME NEW w \in Workers, Throttled(w)
        PROVE  DupInv'
    <2>1. \A p \in Procs : batch[p] # {} => pc'[p] \in {"requeue", "requeued"}
      BY <1>8 DEF Throttled
    <2>2. ASSUME NEW m \in Msgs, m \notin exposed
          PROVE  OneContender(m)'
      BY <1>8, <2>2 DEF Throttled
    <2>3. ASSUME NEW m \in Msgs, m \notin exposed
          PROVE  TakenOnce(m)'
      <3>1. CASE cur[w] = m
        BY <1>8, <2>3, <3>1 DEF Throttled
      <3>2. CASE cur[w] # m
        BY <1>8, <2>3, <3>2 DEF Throttled
      <3> QED BY <3>1, <3>2
    <2>4. ASSUME NEW m \in Msgs, m \notin exposed
          PROVE  SendingIsSettled(m)'
      BY <1>8, <2>4 DEF Throttled
    <2> QED BY <1>8, <2>1, <2>2, <2>3, <2>4 DEF Throttled
  <1>9. ASSUME NEW w \in Workers, Reserve(w)
        PROVE  DupInv'
    BY <1>9 DEF Reserve
  <1>10. ASSUME NEW w \in Workers, Blocked(w)
        PROVE  DupInv'
    BY <1>10 DEF Blocked
  <1>11. ASSUME NEW w \in Workers, BeginSend(w)
        PROVE  DupInv'
    BY <1>11 DEF BeginSend
  <1>12. ASSUME NEW w \in Workers, ProviderAccepts(w)
        PROVE  DupInv'
    BY <1>12 DEF ProviderAccepts
  <1>13. ASSUME NEW w \in Workers, ProviderAnswerLost(w)
        PROVE  DupInv'
    BY <1>13 DEF ProviderAnswerLost
  <1>14. ASSUME NEW w \in Workers, ProviderRefuses(w)
        PROVE  DupInv'
    BY <1>14 DEF ProviderRefuses
  <1>15. ASSUME NEW w \in Workers, SaveSent(w)
        PROVE  DupInv'
    BY <1>15 DEF SaveSent
  <1>16. ASSUME NEW w \in Workers, SaveFailed(w)
        PROVE  DupInv'
    BY <1>16 DEF SaveFailed
  <1>17. ASSUME NEW w \in Workers, RecordEvent(w)
        PROVE  DupInv'
    BY <1>17 DEF RecordEvent
  <1>18. ASSUME NEW w \in Workers, DispatchRaises(w)
        PROVE  DupInv'
    BY <1>18 DEF DispatchRaises
  <1>19. ASSUME NEW w \in Workers, SweepDispatchQueue(w)
        PROVE  DupInv'
    BY <1>19 DEF SweepDispatchQueue
  <1>20. ASSUME NEW w \in Workers, RetryDueDeferred(w)
        PROVE  DupInv'
    BY <1>20 DEF RetryDueDeferred, DueDeferred
  <1>21. ASSUME NEW w \in Workers, RequeueSave(w)
        PROVE  DupInv'
    BY <1>21 DEF RequeueSave
  <1>22. ASSUME NEW w \in Workers, RequeueDelay(w)
        PROVE  DupInv'
    BY <1>22 DEF RequeueDelay
  <1>23. ASSUME NEW c \in Clients, NEW m \in Msgs, ReadForRetry(c, m)
        PROVE  DupInv'
    BY <1>23 DEF ReadForRetry, Retryable
  <1>24. ASSUME NEW c \in Clients, SaveRetry(c)
        PROVE  DupInv'
    BY <1>24 DEF SaveRetry
  <1>25. ASSUME NEW c \in Clients, DelayRetry(c)
        PROVE  DupInv'
    BY <1>25 DEF DelayRetry
  <1>26. ASSUME NEW c \in Clients, NEW m \in Msgs, ReadForCancel(c, m)
        PROVE  DupInv'
    BY <1>26 DEF ReadForCancel
  <1>27. ASSUME NEW c \in Clients, SaveCancel(c)
        PROVE  DupInv'
    BY <1>27 DEF SaveCancel
  <1>28. ASSUME NEW m \in Msgs, NEW kind \in WebhookKinds, Webhook(m, kind)
        PROVE  DupInv'
    BY <1>28 DEF Webhook, Matched, WebhookStatus, AllWebhookKinds, ReportInv, ReportedMeansAccepted
  <1>29. ASSUME NEW m \in Msgs, ScheduleComes(m)
        PROVE  DupInv'
    BY <1>29 DEF ScheduleComes
  <1>30. ASSUME NEW m \in Msgs, RetryTimeComes(m)
        PROVE  DupInv'
    BY <1>30 DEF RetryTimeComes
  <1>31. ASSUME NEW m \in Msgs, Redeliver(m)
        PROVE  DupInv'
    BY <1>31 DEF Redeliver
  <1>32. ASSUME NEW p \in Procs, Crash(p)
        PROVE  DupInv'
    BY <1>32 DEF Crash
  <1>33. CASE UNCHANGED vars
    BY <1>33
  <1> QED BY ONLY [Next]_vars, <1>1, <1>2, <1>3, <1>4, <1>5, <1>6, <1>7, <1>8,
             <1>9, <1>10, <1>11, <1>12, <1>13, <1>14, <1>15, <1>16, <1>17,
             <1>18, <1>19, <1>20, <1>21, <1>22, <1>23, <1>24, <1>25, <1>26,
             <1>27, <1>28, <1>29, <1>30, <1>31, <1>32, <1>33
    DEF Next, WorkerTake, WorkerStep, ClientStep, Environment, Fetch
----------------------------------------------------------------------------
(* The inductive invariant and the theorems.                                *)

IInv == /\ Typed
        /\ ReportInv
        /\ SendingHasAWorker
        /\ LiveInv
        /\ EarlyInv
        /\ SlotInv
        /\ DupInv

\* The inductive invariant holds initially.
LEMMA IInvInit == Init => IInv
  <1> SUFFICES ASSUME Init PROVE IInv
    OBVIOUS
  <1>1. Typed
    BY TypedInit
  <1>2. ReportInv /\ SendingHasAWorker /\ LiveInv /\ EarlyInv /\ DupInv
    BY DispatchAssumption
    DEF Init, ReportInv, ReportedMeansAccepted, Reported, SendingHasAWorker, LiveInv,
        EarlyInv, NeverSentEarly, DupInv, OneContender, TakenOnce, SendingIsSettled,
        Contends, Dispatching, SendSection, Visible, Procs
  <1>3. SlotInv
    <2> SUFFICES ASSUME NEW m \in Msgs PROVE accepted[m] + Cardinality(InFlight(m)) <= slots[m]
      BY DEF SlotInv
    <2>1. InFlight(m) = {}
      BY DEF Init, InFlight, Procs
    <2>2. Cardinality(InFlight(m)) = 0
      BY <2>1, FS_EmptySet
    <2> QED BY <2>2 DEF Init
  <1> QED BY <1>1, <1>2, <1>3 DEF IInv

\* And every step keeps it.
LEMMA IInvStep == IInv /\ [Next]_vars => IInv'
  <1> SUFFICES ASSUME IInv, [Next]_vars PROVE IInv'
    OBVIOUS
  <1>1. Typed'
    BY TypedStep DEF IInv
  <1> QED BY <1>1, ReportStep, SendingStep, LiveStep, EarlyStep, SlotStep, DupStep DEF IInv

\* The inductive invariant of MessageDispatch: types, and the facts about rows, processes
\* and reservations that the safety theorems below read off.
THEOREM Inductive == Spec => []IInv
  BY IInvInit, IInvStep, PTL DEF Spec

\* EverySendHasASlot: whatever tasks, retries, sweeps and crashes a message goes
\* through, the provider takes it at most once per DispatchRateSlot written for it.
THEOREM SendsAreReserved == Spec => []EverySendHasASlot
  <1>1. ASSUME IInv PROVE EverySendHasASlot
    <2> SUFFICES ASSUME NEW m \in Msgs PROVE accepted[m] <= slots[m]
      BY DEF EverySendHasASlot
    <2>1. Typed /\ SlotInv
      BY <1>1 DEF IInv
    <2>2. Cardinality(InFlight(m)) \in Nat
      BY FlightIsFinite, FS_CardinalityType
    <2>3. accepted[m] \in Nat /\ slots[m] \in Nat
      BY <2>1, TypedFacts
    <2> QED BY <2>1, <2>2, <2>3 DEF SlotInv
  <1> QED BY <1>1, Inductive, PTL

\* ReportedMeansAccepted: a row that says the mail left carries the id of an
\* acceptance the provider really gave.
THEOREM ReportsAreTrue == Spec => []ReportedMeansAccepted
  <1>1. IInv => ReportedMeansAccepted
    BY DEF IInv, ReportInv
  <1> QED BY <1>1, Inductive, PTL

\* SendingHasAWorker: only the death of its worker leaves a row in SENDING.
THEOREM SendingIsHeld == Spec => []SendingHasAWorker
  <1>1. IInv => SendingHasAWorker
    BY DEF IInv
  <1> QED BY <1>1, Inductive, PTL

\* NeverSentEarly: no path around dispatch_message_task's send_after check, which
\* fails to see the time of a message whose rendering failed, and of no other.
THEOREM ScheduleIsKept == Spec => []NeverSentEarly
  <1>1. IInv => NeverSentEarly
    BY DEF IInv, EarlyInv
  <1> QED BY <1>1, Inductive, PTL

\* DuplicateNeedsExposure: the four named hazards are the only ways to send twice.
THEOREM DuplicatesAreExposed == Spec => []DuplicateNeedsExposure
  <1>1. ASSUME IInv PROVE DuplicateNeedsExposure
    <2> SUFFICES ASSUME NEW m \in Msgs, accepted[m] > 1, m \notin exposed PROVE FALSE
      BY DEF DuplicateNeedsExposure
    <2>1. TakenOnce(m) /\ accepted[m] \in Nat
      BY <1>1, TypedFacts DEF IInv, DupInv
    <2> QED BY <2>1 DEF TakenOnce
  <1> QED BY <1>1, Inductive, PTL

\* CancelSticks: a cancelled message that nobody holds is never taken up again.
THEOREM CancelIsFinal == Spec => CancelSticks
  <1>1. IInv /\ [Next]_vars => CancelHolds
    BY CancelStep DEF IInv
  <1>2. IInv /\ [Next]_vars => [\A m \in Msgs : CancelledAtRest(m) => CancelledAtRest(m)']_vars
    BY <1>1 DEF CancelHolds
  <1> QED BY <1>2, Inductive, PTL DEF Spec, CancelSticks

\* ImplementsContract: the pipeline refines DeliveryContract.
THEOREM Refinement == Spec => ImplementsContract
  <1>1. Init => Contract!Init
    BY ContractInit
  <1>2. IInv /\ [Next]_vars => [Contract!Next]_Contract!vars
    BY ContractStep DEF IInv
  <1> QED BY <1>1, <1>2, Inductive, PTL DEF Spec, ImplementsContract, Contract!Spec

=============================================================================

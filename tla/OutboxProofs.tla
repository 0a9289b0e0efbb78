---------------------------- MODULE OutboxProofs ----------------------------
(***************************************************************************)
(* Proofs about Outbox, for every number of events, workers and faults and *)
(* every value of the limits.                                              *)
(***************************************************************************)
EXTENDS Outbox, SequenceTheorems, TLAPS

(* A worker between two claims: the record is well typed. *)
LEMMA IdleTask == Idle \in Task
  BY EventsAssumption DEF Idle, Task, Pcs, Replies

(* Writing the row of the claim in hand keeps the history well formed, and *)
(* neither its length nor the history of another event changes.            *)
LEMMA SetRowType ==
  ASSUME TypeOK, ClaimsDistinct, NEW w \in Workers, work[w].pc # "idle",
         NEW s \in RowStatuses, NEW a \in BOOLEAN
  PROVE  /\ SetRow(w, s, a) \in [Events -> Seq(Row)]
         /\ \A e \in Events : Len(SetRow(w, s, a)[e]) = Len(rows[e])
         /\ \A e \in Events : e # work[w].event => SetRow(w, s, a)[e] = rows[e]
  <1> DEFINE f == work[w].event
             g == work[w].gen
             r == [mode |-> Mode(w), status |-> s, absent |-> a]
  <1>1. f \in Events /\ g \in 1 .. Len(rows[f]) /\ rows[f] \in Seq(Row)
    BY DEF TypeOK, ClaimsDistinct, Gen, Task
  <1>2. r \in Row
    BY DEF Row, Mode
  <1> DEFINE q == [rows[f] EXCEPT ![g] = r]
  <1>3. q \in Seq(Row) /\ Len(q) = Len(rows[f])
    BY <1>1, <1>2, ExceptSeq
  <1>4. SetRow(w, s, a) = [rows EXCEPT ![f] = q]
    BY <1>1 DEF SetRow, TypeOK
  <1>5. f = work[w].event
    OBVIOUS
  <1> HIDE DEF f, q
  <1>6. QED
    BY <1>1, <1>3, <1>4, <1>5 DEF TypeOK

(* Closing the attempt of the previous owner keeps the history well formed. *)
LEMMA ExpireAttemptType ==
  ASSUME TypeOK, NEW e \in Events
  PROVE  ExpireAttempt(e) \in Seq(Row) /\ Len(ExpireAttempt(e)) = Gen(e)
  <1>1. rows[e] \in Seq(Row) /\ Gen(e) \in Nat
    BY DEF TypeOK, Gen
  <1>2. CASE Gen(e) > 0
    <2>1. Gen(e) \in 1 .. Len(rows[e])
      BY <1>1, <1>2 DEF Gen
    <2> DEFINE last == rows[e][Gen(e)]
    <2>a. last \in Row
      BY <1>1, <2>1, ElementOfSeq
    <2> HIDE DEF last
    <2>2. [last EXCEPT !.status = "lease_expired"] \in Row
      BY <2>a DEF Row, RowStatuses
    <2> USE DEF last
    <2>3. /\ [rows[e] EXCEPT ![Gen(e)] = [rows[e][Gen(e)] EXCEPT !.status = "lease_expired"]] \in Seq(Row)
          /\ Len([rows[e] EXCEPT ![Gen(e)] = [rows[e][Gen(e)] EXCEPT !.status = "lease_expired"]]) = Len(rows[e])
      BY <1>1, <2>1, <2>2, ExceptSeq
    <2>4. QED
      BY <1>1, <2>3 DEF ExpireAttempt, Gen
  <1>3. CASE ~(Gen(e) > 0)
    BY <1>1, <1>3 DEF ExpireAttempt, Gen
  <1>4. QED
    BY <1>2, <1>3

(* Well-typed updates of a worker and of an event. *)
LEMMA TaskType ==
  ASSUME TypeOK, NEW w \in Workers, NEW p \in Pcs, NEW r \in Replies
  PROVE  /\ [work EXCEPT ![w].pc = p] \in [Workers -> Task]
         /\ [work EXCEPT ![w].pc = p, ![w].reply = r] \in [Workers -> Task]
         /\ [work EXCEPT ![w] = Idle] \in [Workers -> Task]
  BY IdleTask DEF TypeOK, Task

(* Moving an event to another status, delivery state or lease keeps it     *)
(* well typed.                                                             *)
LEMMA EventType ==
  ASSUME TypeOK, NEW e \in Events, NEW s \in Statuses, NEW d \in Deliveries,
         NEW l \in BOOLEAN
  PROVE  /\ [evt EXCEPT ![e].status = s, ![e].delivery = d, ![e].leased = l]
              \in [Events -> Event]
         /\ [evt EXCEPT ![e].status = s, ![e].delivery = d] \in [Events -> Event]
         /\ [evt EXCEPT ![e].delivery = d] \in [Events -> Event]
         /\ [evt EXCEPT ![e].leased = l] \in [Events -> Event]
  BY DEF TypeOK, Event

(* Noting what a remote call returned keeps the worker well typed. *)
LEMMA ReplyType ==
  ASSUME TypeOK, NEW w \in Workers, NEW r \in Replies, Reply(w, r)
  PROVE  work' \in [Workers -> Task]
  BY TaskType DEF Reply, Pcs

(* Ending a claim (clear_claim) keeps event, history and worker well typed. *)
LEMMA SettleType ==
  ASSUME TypeOK, ClaimsDistinct, NEW w \in Workers, work[w].pc # "idle",
         NEW s \in Statuses, NEW d \in Deliveries, NEW r \in RowStatuses,
         Settle(w, s, d, r), run' \in [Events -> RunStatuses]
  PROVE  TypeOK'
  <1>1. work[w].event \in Events
    BY DEF TypeOK, Task
  <1>2. evt' \in [Events -> Event]
    BY <1>1, EventType DEF Settle
  <1>3. rows' \in [Events -> Seq(Row)]
    BY SetRowType DEF Settle
  <1>4. work' \in [Workers -> Task]
    BY TaskType DEF Settle, Pcs, Replies
  <1>5. QED
    BY <1>2, <1>3, <1>4 DEF Settle, TypeOK

(* The types are preserved by every step. *)
LEMMA TypeStep ==
  ASSUME TypeOK, ClaimsDistinct, [Next]_vars
  PROVE  TypeOK'
  <1>a. \A w \in Workers : work[w].event \in Events
    BY DEF TypeOK, Task
  <1>1. ASSUME NEW e \in Events, Enqueue(e) PROVE TypeOK'
    <2> DEFINE s == IF Kind[e] = "release" THEN "blocked" ELSE "pending"
               d == IF Kind[e] = "release" THEN "confirmed" ELSE "ready"
    <2>1. s \in Statuses /\ d \in Deliveries
      BY DEF Statuses, Deliveries
    <2>2. evt' = [evt EXCEPT ![e].status = s, ![e].delivery = d]
      BY <1>1 DEF Enqueue
    <2> HIDE DEF s, d
    <2>3. evt' \in [Events -> Event]
      BY <2>1, <2>2, EventType
    <2>4. run' \in [Events -> RunStatuses]
      BY <1>1 DEF Enqueue, RunStatuses, TypeOK
    <2>5. QED
      BY <1>1, <2>3, <2>4 DEF Enqueue, TypeOK
  <1>2. ASSUME NEW e \in Events, CancelPending(e) PROVE TypeOK'
    <2>1. evt' \in [Events -> Event]
      BY <1>2, EventType DEF CancelPending, Statuses, Deliveries
    <2>2. QED
      BY <1>2, <2>1 DEF CancelPending, TypeOK, RunStatuses
  <1>3. ASSUME NEW e \in Events, CancelCompletion(e) PROVE TypeOK'
    BY <1>3 DEF CancelCompletion, TypeOK, RunStatuses
  <1>4. ASSUME NEW e \in Events, NEW approve \in BOOLEAN, Decide(e, approve) PROVE TypeOK'
    <2> DEFINE s == IF approve THEN "pending" ELSE "cancelled"
               d == IF approve THEN "ready" ELSE "confirmed"
    <2>1. s \in Statuses /\ d \in Deliveries
      BY DEF Statuses, Deliveries
    <2>2. evt' = [evt EXCEPT ![e].status = s, ![e].delivery = d, ![e].leased = FALSE]
      BY <1>4 DEF Decide
    <2> HIDE DEF s, d
    <2>3. evt' \in [Events -> Event]
      BY <2>1, <2>2, EventType
    <2>4. run' \in [Events -> RunStatuses]
      BY <1>4 DEF Decide, RunStatuses, TypeOK
    <2>5. gate' \in [Events -> Gate]
      BY <1>4 DEF Decide, Gate, TypeOK
    <2>6. flips' \in Nat
      BY <1>4 DEF Decide, TypeOK
    <2>7. QED
      BY <1>4, <2>3, <2>4, <2>5, <2>6 DEF Decide, TypeOK
  <1>5. ASSUME NEW e \in Events, Drift(e) PROVE TypeOK'
    <2>1. gate' \in [Events -> Gate]
      BY <1>5 DEF Drift, Gate, TypeOK
    <2>2. QED
      BY <1>5, <2>1 DEF Drift, TypeOK
  <1>6. ASSUME NEW e \in Events, LeaseLapse(e) PROVE TypeOK'
    <2>1. evt' \in [Events -> Event]
      BY <1>6, EventType DEF LeaseLapse, Statuses, Deliveries
    <2>2. QED
      BY <1>6, <2>1 DEF LeaseLapse, TypeOK
  <1>7. ASSUME NEW e \in Events, LeaseExpire(e) PROVE TypeOK'
    <2>1. evt' \in [Events -> Event]
      BY <1>7, EventType DEF LeaseExpire, Statuses, Deliveries
    <2>2. QED
      BY <1>7, <2>1 DEF LeaseExpire, TypeOK
  <1>8. ASSUME NEW e \in Events, LateEffect(e) PROVE TypeOK'
    BY <1>8 DEF LateEffect, TakeEffect, TypeOK
  <1>9. ASSUME NEW w \in Workers, NEW e \in Events, Claim(w, e) PROVE TypeOK'
    <2>1. evt' \in [Events -> Event]
      BY <1>9 DEF Claim, Event, Statuses, Deliveries, TypeOK
    <2>2. NoRow \in Row
      BY DEF NoRow, Row, RowStatuses
    <2>3. Append(ExpireAttempt(e), NoRow) \in Seq(Row)
      BY <2>2, ExpireAttemptType, AppendProperties
    <2>4. rows' \in [Events -> Seq(Row)]
      BY <1>9, <2>3 DEF Claim, TypeOK
    <2>5. Gen(e) + 1 \in Nat /\ NeedsReconciliation(e) \in BOOLEAN
      BY DEF TypeOK, Gen, NeedsReconciliation
    <2>6. work' \in [Workers -> Task]
      BY <1>9, <2>5 DEF Claim, Task, Pcs, Replies, TypeOK
    <2>7. QED
      BY <1>9, <2>1, <2>4, <2>6 DEF Claim, TypeOK
  <1>10. ASSUME NEW w \in Workers, Crash(w) PROVE TypeOK'
    <2>1. work' \in [Workers -> Task]
      BY <1>10, TaskType DEF Crash, Pcs, Replies
    <2>2. QED
      BY <1>10, <2>1 DEF Crash, TypeOK
  <1>11. ASSUME NEW w \in Workers, Fenced(w) PROVE TypeOK'
    <2>1. work' \in [Workers -> Task]
      BY <1>11, TaskType DEF Fenced, Pcs, Replies
    <2>2. QED
      BY <1>11, <2>1 DEF Fenced, TypeOK
  <1>12. ASSUME NEW w \in Workers, PrepareRefused(w) PROVE TypeOK'
    <2>1. work' \in [Workers -> Task]
      BY <1>12, TaskType DEF PrepareRefused, Pcs, Replies
    <2>2. QED
      BY <1>12, <2>1 DEF PrepareRefused, TypeOK
  <1>13. ASSUME NEW w \in Workers, PrepareAuditMissing(w) PROVE TypeOK'
    <2>1. work' \in [Workers -> Task]
      BY <1>13, TaskType DEF PrepareAuditMissing, Pcs, Replies
    <2>2. QED
      BY <1>13, <2>1 DEF PrepareAuditMissing, TypeOK
  <1>14. ASSUME NEW w \in Workers, PrepareBlocked(w) PROVE TypeOK'
    <2>1. work' \in [Workers -> Task]
      BY <1>14, TaskType DEF PrepareBlocked, Pcs, Replies
    <2>2. rows' \in [Events -> Seq(Row)]
      BY <1>14, SetRowType DEF PrepareBlocked, RowStatuses
    <2>3. run' \in [Events -> RunStatuses]
      BY <1>14, <1>a DEF PrepareBlocked, RunStatuses, TypeOK
    <2>4. QED
      BY <1>14, <2>1, <2>2, <2>3 DEF PrepareBlocked, TypeOK
  <1>15. ASSUME NEW w \in Workers, PrepareReady(w) PROVE TypeOK'
    <2>1. work' \in [Workers -> Task]
      BY <1>15, TaskType DEF PrepareReady, Pcs, Replies
    <2>2. rows' \in [Events -> Seq(Row)]
      BY <1>15, SetRowType DEF PrepareReady, RowStatuses
    <2>3. run' \in [Events -> RunStatuses]
      BY <1>15, <1>a DEF PrepareReady, RunStatuses, TypeOK
    <2>4. QED
      BY <1>15, <2>1, <2>2, <2>3 DEF PrepareReady, TypeOK
  <1>16. ASSUME NEW w \in Workers, FinalizeBlocked(w) PROVE TypeOK'
    BY <1>16, SettleType DEF FinalizeBlocked, Statuses, Deliveries, RowStatuses, TypeOK
  <1>17. ASSUME NEW w \in Workers, MarkRemoteStarted(w) PROVE TypeOK'
    <2> DEFINE d == IF work[w].exhausted THEN "reconciling" ELSE "outcome_unknown"
               s == IF work[w].exhausted THEN "reconcile_started"
                                         ELSE "remote_call_started"
    <2>1. d \in Deliveries /\ s \in RowStatuses
      BY DEF Deliveries, RowStatuses
    <2>2. evt' = [evt EXCEPT ![work[w].event].delivery = d] /\ rows' = SetRow(w, s, FALSE)
      BY <1>17 DEF MarkRemoteStarted
    <2>3. work[w].pc # "idle"
      BY <1>17 DEF MarkRemoteStarted
    <2>4. work' \in [Workers -> Task]
      BY <1>17, TaskType DEF MarkRemoteStarted, Pcs, Replies
    <2> HIDE DEF d, s
    <2>5. evt' \in [Events -> Event]
      BY <1>a, <2>1, <2>2, EventType DEF Statuses
    <2>6. rows' \in [Events -> Seq(Row)]
      BY <2>1, <2>2, <2>3, SetRowType
    <2>7. QED
      BY <1>17, <2>4, <2>5, <2>6 DEF MarkRemoteStarted, TypeOK
  <1>18. ASSUME NEW w \in Workers, DispatchTakesEffect(w) PROVE TypeOK'
    <2>1. \E r \in Replies : Reply(w, r)
      BY <1>18 DEF DispatchTakesEffect, Replies
    <2>2. work' \in [Workers -> Task]
      BY <2>1, ReplyType
    <2>3. remote' \in [Events -> Nat]
      BY <1>18, <1>a DEF DispatchTakesEffect, TakeEffect, TypeOK
    <2>4. QED
      BY <1>18, <2>2, <2>3 DEF DispatchTakesEffect, TypeOK
  <1>19. ASSUME NEW w \in Workers, DispatchFails(w) PROVE TypeOK'
    <2>1. \E r \in Replies : Reply(w, r)
      BY <1>19 DEF DispatchFails, Replies
    <2>2. work' \in [Workers -> Task]
      BY <2>1, ReplyType
    <2>3. QED
      BY <1>19, <2>2 DEF DispatchFails, TypeOK
  <1>20. ASSUME NEW w \in Workers, DispatchTimesOut(w) PROVE TypeOK'
    <2>1. \E r \in Replies : Reply(w, r)
      BY <1>20 DEF DispatchTimesOut, Replies
    <2>2. work' \in [Workers -> Task]
      BY <2>1, ReplyType
    <2>3. late' \in [Events -> Nat]
      BY <1>20, <1>a DEF DispatchTimesOut, TypeOK
    <2>4. QED
      BY <1>20, <2>2, <2>3 DEF DispatchTimesOut, TypeOK
  <1>21. ASSUME NEW w \in Workers, Reconcile(w) PROVE TypeOK'
    <2>1. \E r \in Replies : Reply(w, r)
      BY <1>21 DEF Reconcile, Replies, Reconciled
    <2>2. work' \in [Workers -> Task]
      BY <2>1, ReplyType
    <2>3. QED
      BY <1>21, <2>2 DEF Reconcile, TypeOK
  <1>22. ASSUME NEW w \in Workers, DispatchLocally(w) PROVE TypeOK'
    <2>1. \E r \in Replies : Reply(w, r)
      BY <1>22 DEF DispatchLocally, Replies
    <2>2. work' \in [Workers -> Task]
      BY <2>1, ReplyType
    <2>3. QED
      BY <1>22, <2>2 DEF DispatchLocally, TypeOK
  <1>23. ASSUME NEW w \in Workers, FinalizeRaises(w) PROVE TypeOK'
    <2>1. \E r \in Replies : Reply(w, r)
      BY <1>23 DEF FinalizeRaises, Replies
    <2>2. work' \in [Workers -> Task]
      BY <2>1, ReplyType
    <2>3. QED
      BY <1>23, <2>2 DEF FinalizeRaises, TypeOK
  <1>24. ASSUME NEW w \in Workers, FinalizeSuccess(w) PROVE TypeOK'
    <2>1. run' \in [Events -> RunStatuses]
      BY <1>24, <1>a DEF FinalizeSuccess, RunStatuses, TypeOK, CompletionStatus
    <2>2. QED
      BY <1>24, <2>1, SettleType DEF FinalizeSuccess, Statuses, Deliveries, RowStatuses
  <1>25. ASSUME NEW w \in Workers, FinalizeGateClosed(w) PROVE TypeOK'
    <2>1. run' \in [Events -> RunStatuses]
      BY <1>25, <1>a DEF FinalizeGateClosed, RunStatuses, TypeOK
    <2>2. QED
      BY <1>25, <2>1, SettleType DEF FinalizeGateClosed, Statuses, Deliveries, RowStatuses
  <1>26. ASSUME NEW w \in Workers, Redispatch(w) PROVE TypeOK'
    BY <1>26, SettleType DEF Redispatch, Statuses, Deliveries, RowStatuses, TypeOK
  <1>27. ASSUME NEW w \in Workers, DeadLetter(w) PROVE TypeOK'
    <2> DEFINE d == IF RequiresReconciliation(w) THEN "unresolved" ELSE "failed"
    <2>1. d \in Deliveries
      BY DEF Deliveries
    <2>2. Settle(w, "dead_letter", d, "dead_letter") /\ work[w].pc # "idle"
      BY <1>27 DEF DeadLetter
    <2>3. run' \in [Events -> RunStatuses]
      BY <1>27, <1>a DEF DeadLetter, RunStatuses, TypeOK
    <2> HIDE DEF d
    <2>4. QED
      BY <2>1, <2>2, <2>3, SettleType DEF Statuses, RowStatuses
  <1>28. ASSUME NEW w \in Workers, ScheduleRetry(w) PROVE TypeOK'
    <2> DEFINE d == IF RequiresReconciliation(w) THEN "outcome_unknown" ELSE "ready"
               r == IF RequiresReconciliation(w) THEN "reconcile_retry_scheduled"
                                                 ELSE "retry_scheduled"
    <2>1. d \in Deliveries /\ r \in RowStatuses
      BY DEF Deliveries, RowStatuses
    <2>2. Settle(w, "pending", d, r) /\ work[w].pc # "idle"
      BY <1>28 DEF ScheduleRetry
    <2>3. run' \in [Events -> RunStatuses]
      BY <1>28, <1>a DEF ScheduleRetry, RunStatuses, TypeOK
    <2> HIDE DEF d, r
    <2>4. QED
      BY <2>1, <2>2, <2>3, SettleType DEF Statuses
  <1>29. CASE UNCHANGED vars
    BY <1>29 DEF TypeOK, vars
  <1>30. QED
    BY <1>1, <1>2, <1>3, <1>4, <1>5, <1>6, <1>7, <1>8, <1>9, <1>10,
       <1>11, <1>12, <1>13, <1>14, <1>15, <1>16, <1>17, <1>18,
       <1>19, <1>20, <1>21, <1>22, <1>23, <1>24, <1>25, <1>26,
       <1>27, <1>28, <1>29
       DEF Next, WorkerStep

-----------------------------------------------------------------------------
(* What a step of worker w leaves alone: every other worker and every      *)
(* other event, the length of all histories, and, unless w owns its claim, *)
(* its own event too.  w goes on under its claim or becomes idle.          *)
Frame(w) ==
  /\ work[w].pc # "idle"
  /\ work[w].event \in Events
  /\ \A v \in Workers : v # w => work'[v] = work[v]
  /\ \/ work'[w] = Idle
     \/ /\ work'[w].event = work[w].event
        /\ work'[w].gen = work[w].gen
        /\ work'[w].exhausted = work[w].exhausted
  /\ \A e \in Events : Len(rows'[e]) = Len(rows[e])
  /\ \A e \in Events : e # work[w].event =>
       evt'[e] = evt[e] /\ rows'[e] = rows[e] /\ run'[e] = run[e] /\ remote'[e] = remote[e]
  /\ ~Owns(w) => evt' = evt /\ rows' = rows /\ run' = run

(* A reply is kept in the memory of its worker alone. *)
LEMMA ReplyFrame ==
  ASSUME TypeOK, NEW w \in Workers, work[w].pc # "idle", NEW r, Reply(w, r),
         UNCHANGED <<evt, rows, run>>,
         \A e \in Events : e # work[w].event => remote'[e] = remote[e]
  PROVE  Frame(w)
  <1>1. /\ work[w].event \in Events
        /\ work'[w] = [work[w] EXCEPT !.pc = "replied", !.reply = r]
        /\ \A v \in Workers : v # w => work'[v] = work[v]
    BY DEF Reply, TypeOK, Task
  <1>2. /\ work'[w].event = work[w].event
        /\ work'[w].gen = work[w].gen
        /\ work'[w].exhausted = work[w].exhausted
    BY <1>1 DEF TypeOK, Task
  <1>3. QED
    BY <1>1, <1>2 DEF Frame

(* Ending a claim touches the event and the newest row of its owner alone. *)
LEMMA SettleFrame ==
  ASSUME TypeOK, ClaimsDistinct, NEW w \in Workers, work[w].pc # "idle", Owns(w),
         NEW s, NEW d, NEW r \in RowStatuses, Settle(w, s, d, r),
         \A e \in Events : e # work[w].event => run'[e] = run[e]
  PROVE  Frame(w)
  <1>1. /\ work[w].event \in Events
        /\ work'[w] = Idle
        /\ \A v \in Workers : v # w => work'[v] = work[v]
        /\ \A e \in Events : e # work[w].event => evt'[e] = evt[e] /\ remote'[e] = remote[e]
    BY DEF Settle, TypeOK, Task
  <1>2. /\ \A e \in Events : Len(rows'[e]) = Len(rows[e])
        /\ \A e \in Events : e # work[w].event => rows'[e] = rows[e]
    BY SetRowType DEF Settle
  <1>3. QED
    BY <1>1, <1>2 DEF Frame

(* Every step of a worker is confined to its own event and its own claim,  *)
(* and writes to the database only under the fence of lock_owned_claim.    *)
LEMMA WorkerFrame ==
  ASSUME TypeOK, ClaimsDistinct, NEW w \in Workers, WorkerStep(w)
  PROVE  Frame(w)
  <1>a. work[w].event \in Events /\ work[w] \in Task
    BY DEF TypeOK, Task
  <1>1. CASE Fenced(w)
    BY <1>a, <1>1 DEF Fenced, Frame, TypeOK
  <1>2. CASE PrepareRefused(w)
    BY <1>a, <1>2 DEF PrepareRefused, Frame, TypeOK, Task
  <1>3. CASE PrepareAuditMissing(w)
    BY <1>a, <1>3 DEF PrepareAuditMissing, Frame, TypeOK, Task
  <1>4. CASE PrepareBlocked(w)
    <2>1. PICK s \in RowStatuses : rows' = SetRow(w, s, FALSE)
      BY <1>4 DEF PrepareBlocked, RowStatuses
    <2>2. work[w].pc # "idle"
      BY <1>4 DEF PrepareBlocked
    <2>3. /\ \A e \in Events : Len(rows'[e]) = Len(rows[e])
          /\ \A e \in Events : e # work[w].event => rows'[e] = rows[e]
      BY <2>1, <2>2, SetRowType
    <2>4. QED
      BY <1>a, <1>4, <2>3 DEF PrepareBlocked, Frame, TypeOK, Task
  <1>5. CASE PrepareReady(w)
    <2>1. PICK s \in RowStatuses : rows' = SetRow(w, s, FALSE)
      BY <1>5 DEF PrepareReady, RowStatuses
    <2>2. work[w].pc # "idle"
      BY <1>5 DEF PrepareReady
    <2>3. /\ \A e \in Events : Len(rows'[e]) = Len(rows[e])
          /\ \A e \in Events : e # work[w].event => rows'[e] = rows[e]
      BY <2>1, <2>2, SetRowType
    <2>4. QED
      BY <1>a, <1>5, <2>3 DEF PrepareReady, Frame, TypeOK, Task
  <1>6. CASE MarkRemoteStarted(w)
    <2>1. PICK s \in RowStatuses : rows' = SetRow(w, s, FALSE)
      BY <1>6 DEF MarkRemoteStarted, RowStatuses
    <2>2. work[w].pc # "idle"
      BY <1>6 DEF MarkRemoteStarted
    <2>3. /\ \A e \in Events : Len(rows'[e]) = Len(rows[e])
          /\ \A e \in Events : e # work[w].event => rows'[e] = rows[e]
      BY <2>1, <2>2, SetRowType
    <2>4. QED
      BY <1>a, <1>6, <2>3 DEF MarkRemoteStarted, Frame, TypeOK, Task
  <1>7. CASE DispatchTakesEffect(w)
    BY <1>a, <1>7, ReplyFrame DEF DispatchTakesEffect, TakeEffect, TypeOK
  <1>8. CASE DispatchFails(w)
    BY <1>a, <1>8, ReplyFrame DEF DispatchFails
  <1>9. CASE DispatchTimesOut(w)
    BY <1>a, <1>9, ReplyFrame DEF DispatchTimesOut
  <1>10. CASE Reconcile(w)
    BY <1>a, <1>10, ReplyFrame DEF Reconcile
  <1>11. CASE DispatchLocally(w)
    BY <1>a, <1>11, ReplyFrame DEF DispatchLocally
  <1>12. CASE FinalizeRaises(w)
    BY <1>a, <1>12, ReplyFrame DEF FinalizeRaises
  <1>13. CASE FinalizeBlocked(w)
    BY <1>a, <1>13, SettleFrame DEF FinalizeBlocked, RowStatuses, TypeOK
  <1>14. CASE FinalizeSuccess(w)
    BY <1>a, <1>14, SettleFrame DEF FinalizeSuccess, RowStatuses, TypeOK
  <1>15. CASE FinalizeGateClosed(w)
    BY <1>a, <1>15, SettleFrame DEF FinalizeGateClosed, RowStatuses, TypeOK
  <1>16. CASE Redispatch(w)
    BY <1>a, <1>16, SettleFrame DEF Redispatch, RowStatuses, TypeOK
  <1>17. CASE DeadLetter(w)
    BY <1>a, <1>17, SettleFrame DEF DeadLetter, RowStatuses, TypeOK
  <1>18. CASE ScheduleRetry(w)
    <2> DEFINE d == IF RequiresReconciliation(w) THEN "outcome_unknown" ELSE "ready"
               r == IF RequiresReconciliation(w) THEN "reconcile_retry_scheduled"
                                                 ELSE "retry_scheduled"
    <2>1. r \in RowStatuses
      BY DEF RowStatuses
    <2>2. Settle(w, "pending", d, r) /\ work[w].pc # "idle" /\ Owns(w)
      BY <1>18 DEF ScheduleRetry
    <2>3. \A e \in Events : e # work[w].event => run'[e] = run[e]
      BY <1>a, <1>18 DEF ScheduleRetry, TypeOK
    <2> HIDE DEF d, r
    <2>4. QED
      BY <2>1, <2>2, <2>3, SettleFrame
  <1>19. QED
    BY <1>1, <1>2, <1>3, <1>4, <1>5, <1>6, <1>7, <1>8, <1>9, <1>10,
       <1>11, <1>12, <1>13, <1>14, <1>15, <1>16, <1>17, <1>18
       DEF WorkerStep

-----------------------------------------------------------------------------
(* What a claim does, event by event and worker by worker. *)
LEMMA ClaimEffect ==
  ASSUME TypeOK, NEW w \in Workers, NEW e \in Events, Claim(w, e)
  PROVE  /\ work[w].pc = "idle"
         /\ \A v \in Workers : v # w => work'[v] = work[v]
         /\ work'[w].pc = "claimed" /\ work'[w].event = e /\ work'[w].gen = Gen(e) + 1
         /\ work'[w].exhausted = NeedsReconciliation(e) /\ work'[w].reply = "none"
         /\ \A f \in Events : f # e => evt'[f] = evt[f] /\ rows'[f] = rows[f]
         /\ Len(rows'[e]) = Len(rows[e]) + 1
         /\ evt'[e].status = "processing"
         /\ evt'[e].delivery = IF NeedsReconciliation(e) THEN "reconciling" ELSE "dispatching"
         /\ evt'[e].attempts = IF NeedsReconciliation(e) THEN evt[e].attempts
                                                        ELSE evt[e].attempts + 1
  <1>1. rows' = [rows EXCEPT ![e] = Append(ExpireAttempt(e), NoRow)]
    BY DEF Claim
  <1>2. ExpireAttempt(e) \in Seq(Row) /\ Len(ExpireAttempt(e)) = Gen(e) /\ NoRow \in Row
    BY ExpireAttemptType DEF NoRow, Row, RowStatuses
  <1>3. Len(rows'[e]) = Len(rows[e]) + 1 /\ \A f \in Events : f # e => rows'[f] = rows[f]
    BY <1>1, <1>2, AppendProperties DEF TypeOK, Gen
  <1>4. QED
    BY <1>3 DEF Claim, TypeOK

(* No claim is ever held twice. *)
LEMMA ClaimsStep ==
  ASSUME TypeOK, ClaimsDistinct, [Next]_vars
  PROVE  ClaimsDistinct'
  <1>1. ASSUME NEW w \in Workers, WorkerStep(w) PROVE ClaimsDistinct'
    <2>1. Frame(w)
      BY <1>1, WorkerFrame
    <2>2. \A v \in Workers : work'[v].pc # "idle" =>
            /\ work[v].pc # "idle"
            /\ work'[v].event = work[v].event
            /\ work'[v].gen = work[v].gen
      BY <2>1 DEF Frame, Idle
    <2>3. \A v \in Workers : work[v].event \in Events
      BY DEF TypeOK, Task
    <2>4. QED
      BY <2>1, <2>2, <2>3 DEF ClaimsDistinct, Gen, Frame
  <1>2. ASSUME NEW w \in Workers, NEW e \in Events, Claim(w, e) PROVE ClaimsDistinct'
    <2>1. \A v \in Workers : work[v].event \in Events /\ Gen(work[v].event) \in Nat
      BY DEF TypeOK, Task, Gen
    <2>2. Gen(e) \in Nat
      BY DEF TypeOK, Gen
    <2>3. \A v \in Workers : v # w /\ work[v].pc # "idle" => work[v].gen \in 1 .. Gen(work[v].event)
      BY DEF ClaimsDistinct
    <2>4. /\ \A v \in Workers : v # w => work'[v] = work[v]
          /\ work'[w].event = e /\ work'[w].gen = Gen(e) + 1
      BY <1>2, ClaimEffect
    <2>5. \A f \in Events : Gen(f)' = IF f = e THEN Gen(f) + 1 ELSE Gen(f)
      BY <1>2, ClaimEffect DEF Gen
    <2>6. \A v \in Workers : work'[v].pc # "idle" => work'[v].gen \in 1 .. Gen(work[v].event)'
      BY <2>1, <2>2, <2>3, <2>4, <2>5
    <2>7. \A v \in Workers : v # w /\ work'[v].pc # "idle" /\ work'[v].event = e
            => work'[v].gen # Gen(e) + 1
      BY <2>1, <2>2, <2>3, <2>4
    <2>8. QED
      BY <2>4, <2>6, <2>7 DEF ClaimsDistinct
  <1>3. ASSUME NEW w \in Workers, Crash(w) PROVE ClaimsDistinct'
    BY <1>3 DEF Crash, ClaimsDistinct, Gen, TypeOK, Idle
  <1>4. CASE UNCHANGED <<work, rows>>
    BY <1>4 DEF ClaimsDistinct, Gen
  <1>5. QED
    BY <1>1, <1>2, <1>3, <1>4
       DEF Next, vars, Enqueue, CancelPending, CancelCompletion, Decide, Drift,
           LeaseLapse, LeaseExpire, LateEffect

(* Type correctness: claims, leases, histories and counters stay well      *)
(* formed, and every lease generation has one holder at most.              *)
THEOREM TypeCorrect == Spec => [](TypeOK /\ ClaimsDistinct)
  <1>1. Init => TypeOK /\ ClaimsDistinct
    <2> SUFFICES ASSUME Init PROVE TypeOK /\ ClaimsDistinct
      OBVIOUS
    <2>1. NoEvent \in Event
      BY DEF NoEvent, Event, Statuses, Deliveries
    <2>2. \A w \in Workers : work[w].pc = "idle"
      BY DEF Init, Idle
    <2>3. TypeOK
      BY <2>1, IdleTask DEF Init, TypeOK, RunStatuses, Gate
    <2>4. ClaimsDistinct
      BY <2>2 DEF ClaimsDistinct
    <2>5. QED
      BY <2>3, <2>4
  <1>2. TypeOK /\ ClaimsDistinct /\ [Next]_vars => (TypeOK /\ ClaimsDistinct)'
    BY TypeStep, ClaimsStep
  <1>3. QED
    BY <1>1, <1>2, PTL DEF Spec

(* A worker that lost its claim writes nothing any more: fencing by        *)
(* lock_owned_claim is enough, whatever the worker was about to commit.    *)
THEOREM StaleWorkerIsHarmless == Spec => StaleWorkerHarmless
  <1> DEFINE Harmless == \A w \in Workers :
        LET e == work[w].event IN
        work[w].pc # "idle" /\ work[w].gen < Gen(e) /\ work'[w] # work[w]
          => evt'[e] = evt[e] /\ rows'[e] = rows[e] /\ run'[e] = run[e]
  <1>1. TypeOK /\ ClaimsDistinct /\ [Next]_vars => Harmless
    <2> SUFFICES ASSUME TypeOK, ClaimsDistinct, [Next]_vars, NEW w \in Workers,
                        work[w].pc # "idle", work[w].gen < Gen(work[w].event),
                        work'[w] # work[w]
                 PROVE  /\ evt'[work[w].event] = evt[work[w].event]
                        /\ rows'[work[w].event] = rows[work[w].event]
                        /\ run'[work[w].event] = run[work[w].event]
      OBVIOUS
    <2>1. ~Owns(w)
      BY DEF Owns, Gen, TypeOK, Task
    <2>2. ASSUME NEW v \in Workers, WorkerStep(v) PROVE v = w
      BY <2>2, WorkerFrame DEF Frame
    <2>3. ASSUME NEW v \in Workers, NEW e \in Events, Claim(v, e) PROVE FALSE
      BY <2>3, ClaimEffect
    <2>4. CASE WorkerStep(w)
      BY <2>1, <2>4, WorkerFrame DEF Frame
    <2>5. CASE UNCHANGED <<evt, rows, run>>
      BY <2>5
    <2>6. CASE UNCHANGED work
      BY <2>6
    <2>7. QED
      BY <2>2, <2>3, <2>4, <2>5, <2>6
         DEF Next, vars, Enqueue, CancelPending, CancelCompletion, Decide, Drift,
             LeaseLapse, LeaseExpire, LateEffect, Crash
  <1>2. QED
    BY <1>1, TypeCorrect, PTL DEF Spec, StaleWorkerHarmless

-----------------------------------------------------------------------------
(* The effect of settling a claim and of a reply, field by field. *)
LEMMA SettleEffect ==
  ASSUME TypeOK, NEW w \in Workers, NEW s, NEW d, NEW r, Settle(w, s, d, r)
  PROVE  /\ evt'[work[w].event].status = s
         /\ evt'[work[w].event].delivery = d
         /\ evt'[work[w].event].attempts = evt[work[w].event].attempts
         /\ work'[w].pc = "idle"
         /\ remote' = remote /\ late' = late
  <1>1. work[w].event \in Events /\ evt[work[w].event] \in Event
    BY DEF TypeOK, Task
  <1>2. QED
    BY <1>1 DEF Settle, TypeOK, Event, Idle

(* A reply, field by field. *)
LEMMA ReplyEffect ==
  ASSUME TypeOK, NEW w \in Workers, NEW r, Reply(w, r)
  PROVE  work'[w].pc = "replied" /\ work'[w].reply = r
  BY DEF Reply, TypeOK, Task

(* A worker going on to its next step, field by field. *)
LEMMA MoveEffect ==
  ASSUME TypeOK, NEW w \in Workers, NEW p, work' = [work EXCEPT ![w].pc = p]
  PROVE  work'[w].pc = p
  BY DEF TypeOK, Task

(* Success is only ever reported of an effect, and only a reported success *)
(* marks an event processed.  No timing assumption is needed.              *)
LEMMA SuccessStep ==
  ASSUME TypeOK, ClaimsDistinct, SuccessIsReal, ProcessedWasDelivered, [Next]_vars
  PROVE  SuccessIsReal' /\ ProcessedWasDelivered'
  <1>a. \A w \in Workers : work[w].event \in Events
    BY DEF TypeOK, Task
  <1>1. ASSUME NEW w \in Workers, WorkerStep(w)
        PROVE  SuccessIsReal' /\ ProcessedWasDelivered'
    <2> DEFINE e == work[w].event
    <2>f. Frame(w)
      BY <1>1, WorkerFrame
    <2>1. \A f \in Events : remote[f] > 0 => remote'[f] > 0
      <3>1. CASE TakeEffect(e)
        BY <1>a, <3>1 DEF TakeEffect, TypeOK
      <3>2. CASE remote' = remote
        BY <3>2
      <3>3. QED
        BY <1>1, <3>1, <3>2
           DEF WorkerStep, Fenced, PrepareRefused, PrepareAuditMissing, PrepareBlocked,
               PrepareReady, FinalizeBlocked, MarkRemoteStarted, DispatchTakesEffect,
               DispatchFails, DispatchTimesOut, Reconcile, DispatchLocally,
               FinalizeSuccess, FinalizeGateClosed, FinalizeRaises, Redispatch,
               DeadLetter, ScheduleRetry, Settle
    <2>2. ASSUME work'[w].pc = "replied", work'[w].reply = "success", Kind[e] \in RemoteKinds
          PROVE  remote'[e] > 0
      <3>1. CASE DispatchTakesEffect(w)
        BY <1>a, <3>1 DEF DispatchTakesEffect, TakeEffect, TypeOK
      <3>2. CASE Reconcile(w)
        BY <1>a, <2>2, <3>2, ReplyEffect DEF Reconcile, Reconciled
      <3>3. CASE PrepareRefused(w) \/ PrepareAuditMissing(w)
        BY <2>2, <3>3 DEF PrepareRefused, PrepareAuditMissing, TypeOK, Task
      <3>4. CASE PrepareBlocked(w) \/ PrepareReady(w) \/ MarkRemoteStarted(w)
        BY <2>2, <3>4, MoveEffect DEF PrepareBlocked, PrepareReady, MarkRemoteStarted
      <3>5. CASE DispatchFails(w) \/ DispatchTimesOut(w) \/ FinalizeRaises(w)
        BY <2>2, <3>5, ReplyEffect DEF DispatchFails, DispatchTimesOut, FinalizeRaises
      <3>6. CASE DispatchLocally(w)
        BY <2>2, <3>6 DEF DispatchLocally
      <3>7. CASE work'[w] = Idle
        BY <2>2, <3>7 DEF Idle
      <3>8. QED
        BY <1>1, <3>1, <3>2, <3>3, <3>4, <3>5, <3>6, <3>7
           DEF WorkerStep, Fenced, FinalizeBlocked, FinalizeSuccess, FinalizeGateClosed,
               Redispatch, DeadLetter, ScheduleRetry, Settle, TypeOK
    <2>3. SuccessIsReal'
      BY <1>a, <2>f, <2>1, <2>2 DEF Frame, SuccessIsReal, Idle
    <2>4. evt'[e].status = "processed" /\ evt[e].status # "processed" => FinalizeSuccess(w)
      <3>1. CASE FinalizeBlocked(w) \/ FinalizeGateClosed(w) \/ Redispatch(w)
                   \/ DeadLetter(w) \/ ScheduleRetry(w)
        BY <3>1, SettleEffect
           DEF FinalizeBlocked, FinalizeGateClosed, Redispatch, DeadLetter, ScheduleRetry
      <3>2. CASE MarkRemoteStarted(w)
        BY <1>a, <3>2 DEF MarkRemoteStarted, TypeOK, Event
      <3>3. CASE evt' = evt
        BY <3>3
      <3>4. QED
        BY <1>1, <3>1, <3>2, <3>3
           DEF WorkerStep, Fenced, PrepareRefused, PrepareAuditMissing, PrepareBlocked,
               PrepareReady, DispatchTakesEffect, DispatchFails, DispatchTimesOut,
               Reconcile, DispatchLocally, FinalizeRaises
    <2>5. FinalizeSuccess(w) /\ Kind[e] \in RemoteKinds => remote[e] > 0
      BY DEF FinalizeSuccess, SuccessIsReal
    <2>6. ProcessedWasDelivered'
      BY <2>f, <2>1, <2>4, <2>5 DEF Frame, ProcessedWasDelivered
    <2>7. QED
      BY <2>3, <2>6
  <1>2. ASSUME NEW w \in Workers, NEW e \in Events, Claim(w, e)
        PROVE  SuccessIsReal' /\ ProcessedWasDelivered'
    BY <1>2, ClaimEffect DEF Claim, SuccessIsReal, ProcessedWasDelivered
  <1>3. ASSUME NEW w \in Workers, Crash(w)
        PROVE  SuccessIsReal' /\ ProcessedWasDelivered'
    BY <1>3 DEF Crash, SuccessIsReal, ProcessedWasDelivered, TypeOK, Idle
  <1>4. ASSUME NEW e \in Events, LateEffect(e)
        PROVE  SuccessIsReal' /\ ProcessedWasDelivered'
    BY <1>a, <1>4 DEF LateEffect, TakeEffect, SuccessIsReal, ProcessedWasDelivered, TypeOK
  <1>5. ASSUME NEW e \in Events,
               \/ Enqueue(e) \/ CancelPending(e) \/ LeaseLapse(e) \/ LeaseExpire(e)
               \/ \E approve \in BOOLEAN : Decide(e, approve)
        PROVE  SuccessIsReal' /\ ProcessedWasDelivered'
    <2>1. \A f \in Events : evt'[f].status = "processed" => evt[f].status = "processed"
      <3>1. CASE Enqueue(e)
        BY <3>1 DEF Enqueue, TypeOK, Event
      <3>2. CASE CancelPending(e)
        BY <3>2 DEF CancelPending, TypeOK, Event
      <3>3. CASE LeaseLapse(e) \/ LeaseExpire(e)
        BY <3>3 DEF LeaseLapse, LeaseExpire, TypeOK, Event
      <3>4. ASSUME NEW approve \in BOOLEAN, Decide(e, approve)
            PROVE  \A f \in Events : evt'[f].status = "processed" => evt[f].status = "processed"
        BY <3>4 DEF Decide, TypeOK, Event
      <3>5. QED
        BY <1>5, <3>1, <3>2, <3>3, <3>4
    <2>2. work' = work /\ remote' = remote
      BY <1>5 DEF Enqueue, CancelPending, LeaseLapse, LeaseExpire, Decide
    <2>3. QED
      BY <2>1, <2>2 DEF SuccessIsReal, ProcessedWasDelivered
  <1>6. CASE UNCHANGED <<evt, work, remote>>
    BY <1>6 DEF SuccessIsReal, ProcessedWasDelivered
  <1>7. QED
    BY <1>1, <1>2, <1>3, <1>4, <1>5, <1>6
       DEF Next, vars, CancelCompletion, Drift

(* An event is marked processed only after the remote side has carried it  *)
(* out, even if requests arrive late and errors lie.                       *)
THEOREM ProcessedDelivered == Spec => []ProcessedWasDelivered
  <1>1. Init => SuccessIsReal /\ ProcessedWasDelivered
    <2> SUFFICES ASSUME Init PROVE SuccessIsReal /\ ProcessedWasDelivered
      OBVIOUS
    <2>1. \A w \in Workers : work[w].pc = "idle"
      BY DEF Init, Idle
    <2>2. \A e \in Events : evt[e].status = "absent"
      BY DEF Init, NoEvent
    <2>3. QED
      BY <2>1, <2>2 DEF SuccessIsReal, ProcessedWasDelivered
  <1>2. /\ TypeOK /\ ClaimsDistinct /\ SuccessIsReal /\ ProcessedWasDelivered /\ [Next]_vars
        => (SuccessIsReal /\ ProcessedWasDelivered)'
    BY SuccessStep
  <1>3. QED
    BY <1>1, <1>2, TypeCorrect, PTL DEF Spec

-----------------------------------------------------------------------------
(* The safety invariants that relate an event to its run, event by event. *)
SafeAt(e) ==
  /\ EventInStep(e)
  /\ evt[e].status \in {"processed", "dead_letter", "cancelled", "blocked"} =>
       run[e] \notin {"pending", "running", "completion_pending"}
  /\ run[e] = "blocked" => evt[e].status \in {"blocked", "processing"}
  /\ Kind[e] # "release" =>
       evt[e].attempts <= IF MaxAttempts < ClaimMaxAttempts THEN ClaimMaxAttempts
                                                            ELSE MaxAttempts

SafetyInv == \A e \in Events : SafeAt(e) /\ \A w \in Workers : ClaimInStep(w, e)

(* A step of worker w disturbs nothing but its own event and claim: what   *)
(* the other workers know remains true, for none of them is current.       *)
LEMMA OthersNotCurrent ==
  ASSUME TypeOK, ClaimsDistinct, NEW w \in Workers, Frame(w), Owns(w),
         NEW e \in Events, e = work[w].event, NEW v \in Workers, v # w
  PROVE  ~Current(v, e)'
  BY DEF Frame, Owns, Current, Holds, ClaimsDistinct, Gen

(* The claims of other events are out of reach of a step of worker w. *)
LEMMA OtherEvents ==
  ASSUME TypeOK, NEW w \in Workers, Frame(w), NEW v \in Workers, NEW e \in Events,
         Current(v, e)', e # work[w].event
  PROVE  v # w /\ Current(v, e) /\ work'[v] = work[v]
  BY DEF Frame, Current, Holds, Gen, Idle

(* It is enough to look at the event and the worker that take the step:    *)
(* every other event and claim stays as much in step as it was.            *)
LEMMA SafetyLocal ==
  ASSUME TypeOK, ClaimsDistinct, SafetyInv, NEW w \in Workers, Frame(w),
         NEW e \in Events, e = work[w].event, SafeAt(e)', ClaimInStep(w, e)'
  PROVE  SafetyInv'
  <1>1. ASSUME NEW f \in Events, f # e PROVE SafeAt(f)'
    BY <1>1 DEF Frame, SafetyInv, SafeAt, EventInStep
  <1>2. ASSUME NEW f \in Events, f # e, NEW v \in Workers PROVE ClaimInStep(v, f)'
    BY <1>2, OtherEvents DEF Frame, SafetyInv, ClaimInStep
  <1>3. ASSUME NEW v \in Workers, v # w, Owns(w) PROVE ClaimInStep(v, e)'
    BY <1>3, OthersNotCurrent DEF ClaimInStep
  <1>4. ASSUME NEW v \in Workers, v # w, ~Owns(w) PROVE ClaimInStep(v, e)'
    <2>1. work'[v] = work[v] /\ evt' = evt /\ run' = run /\ e \in Events
      BY <1>4 DEF Frame
    <2>2. Current(v, e)' => Current(v, e)
      BY <1>4, <2>1 DEF Frame, Current, Holds, Gen
    <2>3. QED
      BY <2>1, <2>2 DEF SafetyInv, ClaimInStep
  <1>5. QED
    BY <1>1, <1>2, <1>3, <1>4 DEF SafetyInv

(* Each step of a worker keeps its own event and claim in step. *)
LEMMA SafetyWorker ==
  ASSUME TypeOK, ClaimsDistinct, SafetyInv, NEW w \in Workers, WorkerStep(w)
  PROVE  SafetyInv'
  <1>a. Frame(w)
    BY WorkerFrame
  <1> SUFFICES ASSUME NEW e \in Events, e = work[w].event
               PROVE  SafeAt(e)' /\ ClaimInStep(w, e)'
    BY <1>a, SafetyLocal DEF TypeOK, Task
  <1>b. SafeAt(e) /\ ClaimInStep(w, e)
    BY DEF SafetyInv
  <1>c. Owns(w) => Current(w, e) /\ evt[e].status = "processing"
    BY <1>a DEF Owns, Current, Holds, Frame
  <1>d. evt[e].attempts \in Nat /\ MaxAttempts \in Nat /\ ClaimMaxAttempts \in Nat
    BY BoundAssumption DEF TypeOK, Event
  <1>i. ASSUME work'[w].pc = "idle" PROVE ClaimInStep(w, e)'
    BY <1>i DEF ClaimInStep, Current, Holds
  <1>s. ASSUME NEW s, NEW d, NEW r, Settle(w, s, d, r), s # "absent", s # "processing",
               s = "pending" => d \in {"ready", "outcome_unknown"},
               s = "pending" /\ d = "ready" => evt[e].attempts < MaxAttempts,
               run'[e] = "completion_pending" => Kind[e] = "materialization",
               s \in {"processed", "dead_letter", "cancelled", "blocked"} =>
                 run'[e] \notin {"pending", "running", "completion_pending"},
               run'[e] = "blocked" => s = "blocked"
        PROVE  SafeAt(e)' /\ ClaimInStep(w, e)'
    <2>1. /\ evt'[e].status = s /\ evt'[e].delivery = d
          /\ evt'[e].attempts = evt[e].attempts /\ work'[w].pc = "idle"
      BY <1>s, SettleEffect
    <2>2. SafeAt(e)'
      BY <1>b, <1>s, <2>1 DEF SafeAt, EventInStep
    <2>3. QED
      BY <1>i, <2>1, <2>2
  <1>1. CASE Fenced(w)
    <2>1. evt' = evt /\ run' = run /\ work'[w].pc = "idle"
      BY <1>1 DEF Fenced, Idle, TypeOK
    <2>2. QED
      BY <1>b, <1>i, <2>1 DEF SafeAt, EventInStep
  <1>2. CASE PrepareRefused(w) \/ PrepareAuditMissing(w)
    <2>1. evt' = evt /\ run' = run /\ work'[w].pc = "replied" /\ run[e] # "blocked"
      BY <1>2 DEF PrepareRefused, PrepareAuditMissing, Dispatchable, TypeOK, Task
    <2>2. QED
      BY <1>b, <2>1 DEF SafeAt, EventInStep, ClaimInStep
  <1>3. CASE PrepareBlocked(w)
    <2>1. evt' = evt /\ run'[e] = "blocked" /\ work'[w].pc = "blocking" /\ Owns(w)
      BY <1>3, MoveEffect DEF PrepareBlocked, TypeOK
    <2>2. QED
      BY <1>b, <1>c, <2>1 DEF SafeAt, EventInStep, ClaimInStep
  <1>4. CASE PrepareReady(w)
    <2>1. /\ evt' = evt /\ Owns(w) /\ work'[w].pc = "prepared"
          /\ run[e] # "blocked"
          /\ run'[e] = IF run[e] = "pending" THEN "running" ELSE run[e]
      BY <1>4, MoveEffect DEF PrepareReady, TypeOK
    <2>2. QED
      BY <1>b, <1>c, <2>1 DEF SafeAt, EventInStep, ClaimInStep
  <1>5. CASE FinalizeBlocked(w)
    <2>1. /\ Settle(w, "blocked", "confirmed", "blocked")
          /\ run' = run /\ run[e] = "blocked"
      BY <1>5, <1>b, <1>c DEF FinalizeBlocked, ClaimInStep
    <2>2. QED
      BY <1>s, <2>1
  <1>6. CASE MarkRemoteStarted(w)
    <2>1. /\ evt'[e].status = "processing"
          /\ evt'[e].delivery \in {"reconciling", "outcome_unknown"}
          /\ evt'[e].attempts = evt[e].attempts
      BY <1>6, <1>c DEF MarkRemoteStarted, TypeOK, Event
    <2>2. run' = run /\ run[e] # "blocked" /\ work'[w].pc = "started"
      BY <1>6, <1>b, <1>c, MoveEffect DEF MarkRemoteStarted, ClaimInStep
    <2>3. QED
      BY <1>b, <2>1, <2>2 DEF SafeAt, EventInStep, ClaimInStep
  <1>7. ASSUME evt' = evt, run' = run, NEW r, Reply(w, r),
               work[w].pc \in {"started", "replied"}
        PROVE  SafeAt(e)' /\ ClaimInStep(w, e)'
    <2>1. Current(w, e)' => Current(w, e)
      BY <1>7, <1>a DEF Current, Holds, Frame, Gen, Idle
    <2>2. SafeAt(e)'
      BY <1>b, <1>7 DEF SafeAt, EventInStep
    <2>3. Current(w, e)' => run[e] # "blocked" /\ work'[w].pc = "replied"
      BY <1>b, <1>7, <2>1, ReplyEffect DEF ClaimInStep
    <2>4. QED
      BY <1>7, <2>2, <2>3 DEF ClaimInStep
  <1>8. CASE \/ DispatchTakesEffect(w) \/ DispatchFails(w) \/ DispatchTimesOut(w)
             \/ Reconcile(w) \/ DispatchLocally(w) \/ FinalizeRaises(w)
    BY <1>7, <1>8
       DEF DispatchTakesEffect, DispatchFails, DispatchTimesOut, Reconcile,
           DispatchLocally, FinalizeRaises
  <1>9. CASE FinalizeSuccess(w)
    <2>1. /\ Settle(w, "processed", "confirmed", "succeeded")
          /\ run'[e] \in {"none", "submitted", "success"}
      BY <1>9 DEF FinalizeSuccess, CompletionStatus, TypeOK
    <2>2. QED
      BY <1>s, <2>1
  <1>10. CASE FinalizeGateClosed(w)
    <2>1. Settle(w, "blocked", "confirmed", "blocked") /\ run'[e] = "blocked"
      BY <1>10 DEF FinalizeGateClosed, TypeOK
    <2>2. QED
      BY <1>s, <2>1
  <1>11. CASE Redispatch(w)
    <2>1. /\ Settle(w, "pending", "ready", "dagster_redispatch_scheduled")
          /\ evt[e].attempts < MaxAttempts
          /\ run' = run /\ run[e] # "blocked"
      BY <1>11, <1>b, <1>c DEF Redispatch, ClaimInStep
    <2>2. QED
      BY <1>b, <1>s, <2>1 DEF SafeAt, EventInStep
  <1>12. CASE DeadLetter(w)
    <2>1. PICK d : Settle(w, "dead_letter", d, "dead_letter")
      BY <1>12 DEF DeadLetter
    <2>2. run[e] # "blocked"
      BY <1>12, <1>b, <1>c DEF DeadLetter, ClaimInStep
    <2>3. run'[e] \notin {"pending", "running", "completion_pending", "blocked"}
      BY <1>12, <1>b, <2>2 DEF DeadLetter, SafeAt, EventInStep, TypeOK
    <2>4. QED
      BY <1>s, <2>1, <2>3
  <1>13. CASE ScheduleRetry(w)
    <2>1. PICK d, r : /\ Settle(w, "pending", d, r)
                      /\ d = IF RequiresReconciliation(w) THEN "outcome_unknown" ELSE "ready"
      BY <1>13 DEF ScheduleRetry
    <2>2. d = "ready" => evt[e].attempts < MaxAttempts
      BY <1>13, <1>d, <2>1 DEF ScheduleRetry, GivesUp, AttemptsUsed, AttemptLimit
    <2>3. run[e] # "blocked"
      BY <1>13, <1>b, <1>c DEF ScheduleRetry, ClaimInStep
    <2>4. run'[e] \in {run[e], "running"}
      BY <1>13 DEF ScheduleRetry, TypeOK
    <2>5. QED
      BY <1>b, <1>s, <2>1, <2>2, <2>3, <2>4 DEF SafeAt, EventInStep
  <1>14. QED
    BY <1>1, <1>2, <1>3, <1>4, <1>5, <1>6, <1>8, <1>9, <1>10, <1>11, <1>12, <1>13
       DEF WorkerStep

(* Every step of the system keeps events, runs and claims in step. *)
LEMMA SafetyStep ==
  ASSUME TypeOK, ClaimsDistinct, SafetyInv, [Next]_vars
  PROVE  SafetyInv'
  <1>a. \A e \in Events : evt[e].attempts \in Nat
    BY DEF TypeOK, Event
  <1>b. MaxAttempts \in Nat \ {0} /\ ClaimMaxAttempts \in Nat
    BY BoundAssumption
  <1>c. ASSUME NEW e \in Events, work' = work, rows' = rows,
               \A f \in Events : f # e => evt'[f] = evt[f] /\ run'[f] = run[f],
               evt'[e].status # "processing" \/ run'[e] = run[e],
               evt'[e].status = "processing" => evt[e].status = "processing",
               SafeAt(e)'
        PROVE  SafetyInv'
    <2>1. \A f \in Events : SafeAt(f)'
      BY <1>c DEF SafetyInv, SafeAt, EventInStep
    <2>2. \A f \in Events, w \in Workers :
            Current(w, f)' => Current(w, f) /\ run'[f] = run[f]
      BY <1>c DEF Current, Holds, Gen
    <2>3. QED
      BY <1>c, <2>1, <2>2 DEF SafetyInv, ClaimInStep
  <1>1. ASSUME NEW e \in Events, Enqueue(e) PROVE SafetyInv'
    <2>1. /\ \A f \in Events : f # e => evt'[f] = evt[f] /\ run'[f] = run[f]
          /\ evt'[e].attempts = evt[e].attempts
          /\ Kind[e] = "release" => evt'[e].status = "blocked" /\ run'[e] = "blocked"
          /\ Kind[e] # "release" =>
               evt'[e].status = "pending" /\ evt'[e].delivery = "ready" /\ run'[e] # "blocked"
          /\ run'[e] = "completion_pending" => Kind[e] = "materialization"
      BY <1>1 DEF Enqueue, TypeOK, Event
    <2>2. SafeAt(e) /\ evt[e].status = "absent"
      BY <1>1 DEF SafetyInv, Enqueue
    <2>3. SafeAt(e)'
      BY <1>a, <1>b, <2>1, <2>2 DEF SafeAt, EventInStep
    <2>4. QED
      BY <1>1, <1>c, <2>1, <2>3 DEF Enqueue
  <1>2. ASSUME NEW e \in Events, CancelPending(e) PROVE SafetyInv'
    <2>1. /\ \A f \in Events : f # e => evt'[f] = evt[f] /\ run'[f] = run[f]
          /\ evt'[e].attempts = evt[e].attempts
          /\ evt'[e].status = "cancelled" /\ run'[e] = "cancelled"
      BY <1>2 DEF CancelPending, TypeOK, Event
    <2>2. SafeAt(e)'
      BY <2>1 DEF SafetyInv, SafeAt, EventInStep
    <2>3. QED
      BY <1>2, <1>c, <2>1, <2>2 DEF CancelPending
  <1>3. ASSUME NEW e \in Events, CancelCompletion(e) PROVE SafetyInv'
    <2>1. \A f \in Events : run'[f] = IF f = e THEN "cancelling" ELSE run[f]
      BY <1>3 DEF CancelCompletion, TypeOK
    <2>2. evt' = evt /\ work' = work /\ rows' = rows /\ run[e] # "blocked"
      BY <1>3 DEF CancelCompletion
    <2>3. \A f \in Events : SafeAt(f)'
      BY <2>1, <2>2 DEF SafetyInv, SafeAt, EventInStep
    <2>4. \A f \in Events, w \in Workers : Current(w, f)' => Current(w, f)
      BY <2>2 DEF Current, Holds, Gen
    <2>5. QED
      BY <2>1, <2>2, <2>3, <2>4 DEF SafetyInv, ClaimInStep
  <1>4. ASSUME NEW e \in Events, NEW approve \in BOOLEAN, Decide(e, approve)
        PROVE  SafetyInv'
    <2>1. /\ \A f \in Events : f # e => evt'[f] = evt[f] /\ run'[f] = run[f]
          /\ evt'[e].attempts = evt[e].attempts
          /\ \/ /\ evt'[e].status = "pending" /\ evt'[e].delivery = "ready"
                /\ run'[e] = "pending"
             \/ evt'[e].status = "cancelled" /\ run'[e] = "cancelled"
      BY <1>4 DEF Decide, TypeOK, Event
    <2>2. SafeAt(e)'
      BY <1>4, <2>1 DEF Decide, SafetyInv, SafeAt, EventInStep
    <2>3. QED
      BY <1>4, <1>c, <2>1, <2>2 DEF Decide
  <1>5. ASSUME NEW e \in Events, LeaseLapse(e) \/ LeaseExpire(e) PROVE SafetyInv'
    <2>1. /\ \A f \in Events : f # e => evt'[f] = evt[f]
          /\ evt'[e].status = evt[e].status /\ evt'[e].delivery = evt[e].delivery
          /\ evt'[e].attempts = evt[e].attempts
          /\ run' = run
      BY <1>5 DEF LeaseLapse, LeaseExpire, TypeOK, Event
    <2>2. SafeAt(e)'
      BY <2>1 DEF SafetyInv, SafeAt, EventInStep
    <2>3. QED
      BY <1>5, <1>c, <2>1, <2>2 DEF LeaseLapse, LeaseExpire
  <1>6. ASSUME NEW w \in Workers, NEW e \in Events, Claim(w, e) PROVE SafetyInv'
    <2>1. run' = run /\ Claimable(e)
      BY <1>6 DEF Claim
    <2>2. \A f \in Events : f # e => SafeAt(f)'
      BY <1>6, <2>1, ClaimEffect DEF SafetyInv, SafeAt, EventInStep
    <2>3. SafeAt(e)'
      <3>1. SafeAt(e)
        BY DEF SafetyInv
      <3>2. /\ evt'[e].status = "processing"
            /\ evt'[e].delivery \in {"reconciling", "dispatching"}
            /\ evt'[e].attempts = IF NeedsReconciliation(e) THEN evt[e].attempts
                                                            ELSE evt[e].attempts + 1
        BY <1>6, ClaimEffect
      <3>3. ~NeedsReconciliation(e) /\ Kind[e] # "release" =>
              evt[e].attempts < MaxAttempts \/ evt[e].attempts < ClaimMaxAttempts
        BY <1>a, <1>b, <2>1, <3>1
           DEF NeedsReconciliation, Claimable, SafeAt, EventInStep
      <3>4. QED
        BY <1>a, <1>b, <2>1, <3>1, <3>2, <3>3 DEF SafeAt, EventInStep
    <2>4. ASSUME NEW f \in Events, NEW v \in Workers PROVE ClaimInStep(v, f)'
      <3>1. CASE v = w
        BY <1>6, <3>1, ClaimEffect DEF ClaimInStep
      <3>2. CASE v # w /\ f = e
        <4>1. work'[v] = work[v] /\ Len(rows'[e]) = Len(rows[e]) + 1 /\ Len(rows[e]) \in Nat
          BY <1>6, <3>2, ClaimEffect DEF TypeOK
        <4>2. ~Current(v, f)'
          BY <3>2, <4>1 DEF Current, Holds, Gen, ClaimsDistinct
        <4>3. QED
          BY <4>2 DEF ClaimInStep
      <3>3. CASE v # w /\ f # e
        <4>1. work'[v] = work[v] /\ evt'[f] = evt[f] /\ rows'[f] = rows[f]
          BY <1>6, <3>3, ClaimEffect
        <4>2. QED
          BY <2>1, <4>1 DEF SafetyInv, ClaimInStep, Current, Holds, Gen
      <3>4. QED
        BY <3>1, <3>2, <3>3
    <2>5. QED
      BY <2>2, <2>3, <2>4 DEF SafetyInv
  <1>7. ASSUME NEW w \in Workers, Crash(w) PROVE SafetyInv'
    <2>1. /\ evt' = evt /\ run' = run /\ rows' = rows /\ work'[w].pc = "idle"
          /\ \A v \in Workers : v # w => work'[v] = work[v]
      BY <1>7 DEF Crash, TypeOK, Idle
    <2>2. QED
      BY <2>1 DEF SafetyInv, SafeAt, EventInStep, ClaimInStep, Current, Holds, Gen
  <1>8. CASE UNCHANGED <<evt, rows, run, work>>
    BY <1>8 DEF SafetyInv, SafeAt, EventInStep, ClaimInStep, Current, Holds, Gen
  <1>9. ASSUME NEW w \in Workers, WorkerStep(w) PROVE SafetyInv'
    BY <1>9, SafetyWorker
  <1>10. QED
    BY <1>1, <1>2, <1>3, <1>4, <1>5, <1>6, <1>7, <1>8, <1>9
       DEF Next, vars, Drift, LateEffect

(* Events, runs and claims are always in step. *)
LEMMA SafetyInvariant == Spec => []SafetyInv
  <1>1. Init => SafetyInv
    <2> SUFFICES ASSUME Init PROVE SafetyInv
      OBVIOUS
    <2>1. /\ \A w \in Workers : work[w].pc = "idle"
          /\ \A e \in Events : /\ run[e] = "none" /\ evt[e].status = "absent"
                               /\ evt[e].delivery = "ready" /\ evt[e].attempts = 0
      BY DEF Init, Idle, NoEvent
    <2>2. ASSUME NEW e \in Events PROVE SafeAt(e)
      BY <2>1, BoundAssumption DEF SafeAt, EventInStep
    <2>3. ASSUME NEW e \in Events, NEW w \in Workers PROVE ClaimInStep(w, e)
      BY <2>1 DEF ClaimInStep, Current, Holds
    <2>4. QED
      BY <2>2, <2>3 DEF SafetyInv
  <1>2. TypeOK /\ ClaimsDistinct /\ SafetyInv /\ [Next]_vars => SafetyInv'
    BY SafetyStep
  <1>3. QED
    BY <1>1, <1>2, TypeCorrect, PTL DEF Spec

(* A settled event leaves no run waiting for a dispatch that nobody makes  *)
(* any more, for every number of workers, faults and attempts.             *)
THEOREM SettledLeavesNoneWaiting == Spec => []SettledRunMovedOn
  <1>1. SafetyInv => SettledRunMovedOn
    BY DEF SafetyInv, SafeAt, SettledRunMovedOn
  <1>2. QED
    BY <1>1, SafetyInvariant, PTL

(* A blocked run always has an event that is blocked with it or still in   *)
(* the hands of a claim, so that the gate's decision reaches both.         *)
THEOREM BlockedRunIsFound == Spec => []BlockedTogether
  <1>1. SafetyInv => BlockedTogether
    BY DEF SafetyInv, SafeAt, BlockedTogether
  <1>2. QED
    BY <1>1, SafetyInvariant, PTL

(* Retries are bounded by the larger of the worker's limit and the claim's, *)
(* whichever of errors, crashes and expired leases consumes them.           *)
THEOREM RetriesAreBounded == Spec => []AttemptsBounded
  <1>1. SafetyInv => AttemptsBounded
    BY DEF SafetyInv, SafeAt, AttemptsBounded
  <1>2. QED
    BY <1>1, SafetyInvariant, PTL

-----------------------------------------------------------------------------
(* The part of the environment under which no effect stays hidden.         *)
Orderly == Timely /\ HonestErrors

(* It is enough to look at the event and the worker that take the step:    *)
(* what is known of every other remote effect stays known.                 *)
LEMMA EffectLocal ==
  ASSUME TypeOK, ClaimsDistinct, NoHiddenEffect, NEW w \in Workers, Frame(w),
         late' = late, ~Owns(w) => remote' = remote,
         NEW e \in Events, e = work[w].event,
         EffectKnown(e)', ClaimKnowsEffect(w, e)'
  PROVE  NoHiddenEffect'
  <1>1. ASSUME NEW f \in Events, f # e PROVE EffectKnown(f)'
    BY <1>1 DEF Frame, NoHiddenEffect, EffectKnown
  <1>2. ASSUME NEW f \in Events, f # e, NEW v \in Workers PROVE ClaimKnowsEffect(v, f)'
    BY <1>2, OtherEvents DEF Frame, NoHiddenEffect, ClaimKnowsEffect
  <1>3. ASSUME NEW v \in Workers, v # w, Owns(w) PROVE ClaimKnowsEffect(v, e)'
    BY <1>3, OthersNotCurrent DEF ClaimKnowsEffect
  <1>4. ASSUME NEW v \in Workers, v # w, ~Owns(w) PROVE ClaimKnowsEffect(v, e)'
    <2>1. work'[v] = work[v] /\ evt' = evt /\ remote' = remote
      BY <1>4 DEF Frame
    <2>2. Current(v, e)' => Current(v, e)
      BY <1>4, <2>1 DEF Frame, Current, Holds, Gen
    <2>3. QED
      BY <2>1, <2>2 DEF NoHiddenEffect, ClaimKnowsEffect
  <1>5. QED
    BY <1>1, <1>2, <1>3, <1>4 DEF NoHiddenEffect

(* Each step of a worker leaves no effect that its claim does not know of. *)
LEMMA EffectWorker ==
  ASSUME Orderly, TypeOK, ClaimsDistinct, NoHiddenEffect, NEW w \in Workers, WorkerStep(w)
  PROVE  NoHiddenEffect'
  <1>a. Frame(w)
    BY WorkerFrame
  <1>b. late' = late
    BY DEF Orderly, WorkerStep, Fenced, PrepareRefused, PrepareAuditMissing, PrepareBlocked,
           PrepareReady, FinalizeBlocked, MarkRemoteStarted, DispatchTakesEffect,
           DispatchFails, DispatchTimesOut, Reconcile, DispatchLocally, FinalizeSuccess,
           FinalizeGateClosed, FinalizeRaises, Redispatch, DeadLetter, ScheduleRetry, Settle
  <1>c. (DispatchTakesEffect(w) /\ Owns(w)) \/ remote' = remote
    BY DEF Orderly, WorkerStep, Fenced, PrepareRefused, PrepareAuditMissing, PrepareBlocked,
           PrepareReady, FinalizeBlocked, MarkRemoteStarted, DispatchTakesEffect,
           DispatchFails, DispatchTimesOut, Reconcile, DispatchLocally, FinalizeSuccess,
           FinalizeGateClosed, FinalizeRaises, Redispatch, DeadLetter, ScheduleRetry, Settle
  <1> SUFFICES ASSUME NEW e \in Events, e = work[w].event
               PROVE  EffectKnown(e)' /\ ClaimKnowsEffect(w, e)'
    BY <1>a, <1>b, <1>c, EffectLocal DEF TypeOK, Task
  <1>d. EffectKnown(e) /\ ClaimKnowsEffect(w, e)
    BY DEF NoHiddenEffect
  <1>e. Owns(w) => Current(w, e)
    BY <1>a DEF Owns, Current, Holds, Frame
  <1>f. Current(w, e)' => work'[w].exhausted = work[w].exhausted
    BY <1>a DEF Frame, Current, Holds, Idle
  <1>g. evt'[e].status = evt[e].status => (Current(w, e)' => Current(w, e))
    BY <1>a DEF Frame, Current, Holds, Gen, Idle
  <1>i. ASSUME work'[w].pc = "idle" PROVE ClaimKnowsEffect(w, e)'
    BY <1>i DEF ClaimKnowsEffect, Current, Holds
  <1>s. ASSUME NEW s, NEW d, NEW r, Settle(w, s, d, r),
               d \in {"ready", "dispatching", "failed"} => remote[e] = 0
        PROVE  EffectKnown(e)' /\ ClaimKnowsEffect(w, e)'
    <2>1. evt'[e].delivery = d /\ work'[w].pc = "idle" /\ remote' = remote
      BY <1>s, SettleEffect
    <2>2. EffectKnown(e)'
      BY <1>b, <1>d, <1>s, <2>1 DEF EffectKnown
    <2>3. QED
      BY <1>i, <2>1, <2>2
  <1>k. ASSUME evt' = evt, remote' = remote PROVE EffectKnown(e)'
    BY <1>b, <1>d, <1>k DEF EffectKnown
  <1>1. CASE Fenced(w)
    <2>1. evt' = evt /\ remote' = remote /\ work'[w].pc = "idle"
      BY <1>1 DEF Fenced, Idle, TypeOK
    <2>2. QED
      BY <1>i, <1>k, <2>1
  <1>2. CASE PrepareRefused(w) \/ PrepareAuditMissing(w)
    <2>1. /\ evt' = evt /\ remote' = remote /\ Owns(w) /\ work[w].pc = "claimed"
          /\ work'[w].pc = "replied" /\ work'[w].reply \in {"retryable", "rejected"}
      BY <1>2 DEF PrepareRefused, PrepareAuditMissing, TypeOK, Task
    <2>2. ~work[w].exhausted => remote[e] = 0
      BY <1>d, <1>e, <2>1 DEF ClaimKnowsEffect, EffectKnown
    <2>3. QED
      BY <1>f, <1>k, <2>1, <2>2 DEF ClaimKnowsEffect
  <1>3. CASE PrepareBlocked(w) \/ PrepareReady(w)
    <2>1. /\ evt' = evt /\ remote' = remote /\ Owns(w) /\ work[w].pc = "claimed"
          /\ work'[w].pc \in {"blocking", "prepared"}
      BY <1>3, MoveEffect DEF PrepareBlocked, PrepareReady
    <2>2. QED
      BY <1>d, <1>e, <1>f, <1>k, <2>1 DEF ClaimKnowsEffect
  <1>4. CASE MarkRemoteStarted(w)
    <2>1. /\ Owns(w) /\ work[w].pc = "prepared" /\ work'[w].pc = "started"
          /\ remote' = remote
      BY <1>4, MoveEffect DEF MarkRemoteStarted
    <2>2. evt'[e].delivery = IF work[w].exhausted THEN "reconciling" ELSE "outcome_unknown"
      BY <1>4 DEF MarkRemoteStarted, TypeOK, Event
    <2>3. ~work[w].exhausted => remote[e] = 0
      BY <1>d, <1>e, <2>1 DEF ClaimKnowsEffect, EffectKnown
    <2>4. EffectKnown(e)'
      BY <1>b, <1>d, <2>1, <2>2 DEF EffectKnown
    <2>5. QED
      BY <1>f, <2>1, <2>2, <2>3, <2>4 DEF ClaimKnowsEffect
  <1>5. CASE DispatchTakesEffect(w)
    <2>1. Owns(w) /\ evt' = evt /\ Kind[e] \in RemoteKinds /\ ~work[w].exhausted
      BY <1>5 DEF DispatchTakesEffect, Orderly
    <2>2. evt[e].delivery = "outcome_unknown" /\ remote[e] = 0
      BY <1>5, <1>d, <1>e, <2>1 DEF DispatchTakesEffect, ClaimKnowsEffect
    <2>3. remote'[e] = 1
      BY <1>5, <2>2 DEF DispatchTakesEffect, TakeEffect, TypeOK
    <2>4. EffectKnown(e)'
      BY <1>b, <1>d, <2>1, <2>2, <2>3 DEF EffectKnown
    <2>5. work'[w].pc = "replied" /\ work'[w].reply \in {"success", "unknown"}
      BY <1>5, ReplyEffect DEF DispatchTakesEffect, Orderly
    <2>6. QED
      BY <2>4, <2>5 DEF ClaimKnowsEffect
  <1>6. CASE DispatchFails(w) \/ DispatchTimesOut(w)
    <2>1. /\ evt' = evt /\ remote' = remote /\ work[w].pc = "started" /\ ~work[w].exhausted
          /\ work'[w].pc = "replied" /\ work'[w].reply \in {"unknown", "retryable", "rejected"}
      BY <1>6, ReplyEffect DEF DispatchFails, DispatchTimesOut, Orderly
    <2>2. Current(w, e) => remote[e] = 0
      BY <1>d, <2>1 DEF ClaimKnowsEffect
    <2>3. QED
      BY <1>g, <1>k, <2>1, <2>2 DEF ClaimKnowsEffect
  <1>7. CASE Reconcile(w)
    <2>1. /\ evt' = evt /\ remote' = remote /\ work[w].exhausted
          /\ work'[w].pc = "replied" /\ work'[w].reply # "none"
          /\ work'[w].reply = "absent" => remote[e] = 0
      BY <1>7, ReplyEffect DEF Reconcile, Reconciled
    <2>2. QED
      BY <1>f, <1>k, <2>1 DEF ClaimKnowsEffect
  <1>8. CASE DispatchLocally(w)
    <2>1. /\ evt' = evt /\ remote' = remote
          /\ work'[w].pc = "replied" /\ work'[w].reply = "success"
      BY <1>8, ReplyEffect DEF DispatchLocally
    <2>2. QED
      BY <1>k, <2>1 DEF ClaimKnowsEffect
  <1>9. CASE FinalizeRaises(w)
    <2>1. /\ evt' = evt /\ remote' = remote /\ work'[w].pc = "replied"
          /\ \/ work'[w].reply = "unknown"
             \/ work'[w].reply = "retryable" /\ Kind[e] = "materialization"
      BY <1>9, ReplyEffect DEF FinalizeRaises
    <2>2. Kind[e] = "materialization" => remote[e] = 0
      BY <1>d DEF EffectKnown, RemoteKinds
    <2>3. QED
      BY <1>k, <2>1, <2>2 DEF ClaimKnowsEffect
  <1>10. CASE FinalizeBlocked(w) \/ FinalizeSuccess(w) \/ FinalizeGateClosed(w)
    <2>1. PICK s, r : Settle(w, s, "confirmed", r)
      BY <1>10 DEF FinalizeBlocked, FinalizeSuccess, FinalizeGateClosed
    <2>2. QED
      BY <1>s, <2>1
  <1>11. CASE Redispatch(w)
    <2>1. remote[e] = 0
      BY <1>11, <1>d, <1>e DEF Redispatch, ConsecutiveAbsence, ClaimKnowsEffect
    <2>2. QED
      BY <1>11, <1>s, <2>1 DEF Redispatch
  <1>12. ASSUME work[w].pc = "replied", work[w].reply # "success", Owns(w),
                ~RequiresReconciliation(w)
         PROVE  remote[e] = 0
    <2>1. work[w].reply \in Replies
      BY DEF TypeOK, Task
    <2>2. QED
      BY <1>12, <1>d, <1>e, <2>1 DEF ClaimKnowsEffect, RequiresReconciliation, Replies
  <1>13. CASE DeadLetter(w) \/ ScheduleRetry(w)
    <2>1. PICK s, d, r :
            /\ Settle(w, s, d, r)
            /\ RequiresReconciliation(w) => d \in {"unresolved", "outcome_unknown"}
      BY <1>13 DEF DeadLetter, ScheduleRetry
    <2>2. ~RequiresReconciliation(w) => remote[e] = 0
      BY <1>12, <1>13 DEF DeadLetter, ScheduleRetry
    <2>3. QED
      BY <1>s, <2>1, <2>2
  <1>14. QED
    BY <1>1, <1>2, <1>3, <1>4, <1>5, <1>6, <1>7, <1>8, <1>9, <1>10, <1>11, <1>13
       DEF WorkerStep

(* Every step of the system leaves no hidden remote effect, if requests    *)
(* are timely and errors honest.                                           *)
LEMMA EffectStep ==
  ASSUME Orderly, TypeOK, ClaimsDistinct, SafetyInv, NoHiddenEffect, [Next]_vars
  PROVE  NoHiddenEffect'
  <1>c. ASSUME work' = work, rows' = rows, remote' = remote, late' = late,
               \A f \in Events :
                 \/ evt'[f].delivery = evt[f].delivery /\ evt'[f].status = evt[f].status
                 \/ /\ evt'[f].status # "processing"
                    /\ evt'[f].delivery \in {"ready", "dispatching", "failed"} =>
                         remote[f] = 0
        PROVE  NoHiddenEffect'
    <2>1. \A f \in Events : EffectKnown(f)'
      BY <1>c DEF NoHiddenEffect, EffectKnown
    <2>2. \A f \in Events, w \in Workers :
            Current(w, f)' => Current(w, f) /\ evt'[f].delivery = evt[f].delivery
      BY <1>c DEF Current, Holds, Gen
    <2>3. QED
      BY <1>c, <2>1, <2>2 DEF NoHiddenEffect, ClaimKnowsEffect
  <1>1. ASSUME NEW e \in Events, Enqueue(e) PROVE NoHiddenEffect'
    <2>1. evt[e].delivery = "ready"
      BY <1>1 DEF Enqueue, SafetyInv, SafeAt, EventInStep
    <2>2. remote[e] = 0
      BY <2>1 DEF NoHiddenEffect, EffectKnown
    <2>3. /\ \A f \in Events : f # e => evt'[f] = evt[f]
          /\ evt'[e].status # "processing"
      BY <1>1 DEF Enqueue, TypeOK, Event
    <2>4. QED
      BY <1>1, <1>c, <2>2, <2>3 DEF Enqueue
  <1>2. ASSUME NEW e \in Events, CancelPending(e) PROVE NoHiddenEffect'
    <2>1. /\ \A f \in Events : f # e => evt'[f] = evt[f]
          /\ evt'[e].status = "cancelled" /\ evt'[e].delivery = "confirmed"
      BY <1>2 DEF CancelPending, TypeOK, Event
    <2>2. QED
      BY <1>2, <1>c, <2>1 DEF CancelPending
  <1>3. ASSUME NEW e \in Events, NEW approve \in BOOLEAN, Decide(e, approve)
        PROVE  NoHiddenEffect'
    <2>1. remote[e] = 0
      BY <1>3 DEF Decide, NoHiddenEffect, EffectKnown, RemoteKinds
    <2>2. /\ \A f \in Events : f # e => evt'[f] = evt[f]
          /\ evt'[e].status # "processing"
      BY <1>3 DEF Decide, TypeOK, Event
    <2>3. QED
      BY <1>3, <1>c, <2>1, <2>2 DEF Decide
  <1>4. ASSUME NEW e \in Events, LeaseLapse(e) \/ LeaseExpire(e) PROVE NoHiddenEffect'
    <2>1. /\ \A f \in Events : f # e => evt'[f] = evt[f]
          /\ evt'[e].status = evt[e].status /\ evt'[e].delivery = evt[e].delivery
      BY <1>4 DEF LeaseLapse, LeaseExpire, TypeOK, Event
    <2>2. QED
      BY <1>4, <1>c, <2>1 DEF LeaseLapse, LeaseExpire
  <1>5. ASSUME NEW e \in Events, LateEffect(e) PROVE NoHiddenEffect'
    BY <1>5 DEF LateEffect, NoHiddenEffect, EffectKnown
  <1>6. ASSUME NEW w \in Workers, NEW e \in Events, Claim(w, e) PROVE NoHiddenEffect'
    <2>1. remote' = remote /\ late' = late /\ Claimable(e)
      BY <1>6 DEF Claim
    <2>2. ~NeedsReconciliation(e) => remote[e] = 0
      <3>1. EventInStep(e) /\ EffectKnown(e)
        BY DEF SafetyInv, SafeAt, NoHiddenEffect
      <3>2. QED
        BY <2>1, <3>1 DEF NeedsReconciliation, Claimable, EventInStep, EffectKnown
    <2>3. evt'[e].delivery = IF NeedsReconciliation(e) THEN "reconciling" ELSE "dispatching"
      BY <1>6, ClaimEffect
    <2>4. ASSUME NEW f \in Events PROVE EffectKnown(f)'
      <3>1. CASE f # e
        BY <1>6, <2>1, <3>1, ClaimEffect DEF NoHiddenEffect, EffectKnown
      <3>2. CASE f = e
        BY <2>1, <2>2, <2>3, <3>2 DEF NoHiddenEffect, EffectKnown
      <3>3. QED
        BY <3>1, <3>2
    <2>5. ASSUME NEW f \in Events, NEW v \in Workers PROVE ClaimKnowsEffect(v, f)'
      <3>1. CASE v = w
        <4>1. /\ work'[w].pc = "claimed" /\ work'[w].event = e
              /\ work'[w].exhausted = NeedsReconciliation(e)
          BY <1>6, ClaimEffect
        <4>2. Current(w, f)' => f = e
          BY <4>1 DEF Current, Holds
        <4>3. QED
          BY <2>3, <3>1, <4>1, <4>2 DEF ClaimKnowsEffect
      <3>2. CASE v # w /\ f = e
        <4>1. work'[v] = work[v] /\ Len(rows'[e]) = Len(rows[e]) + 1 /\ Len(rows[e]) \in Nat
          BY <1>6, <3>2, ClaimEffect DEF TypeOK
        <4>2. ~Current(v, f)'
          BY <3>2, <4>1 DEF Current, Holds, Gen, ClaimsDistinct
        <4>3. QED
          BY <4>2 DEF ClaimKnowsEffect
      <3>3. CASE v # w /\ f # e
        <4>1. work'[v] = work[v] /\ evt'[f] = evt[f] /\ rows'[f] = rows[f]
          BY <1>6, <3>3, ClaimEffect
        <4>2. QED
          BY <2>1, <4>1 DEF NoHiddenEffect, ClaimKnowsEffect, Current, Holds, Gen
      <3>4. QED
        BY <3>1, <3>2, <3>3
    <2>6. QED
      BY <2>4, <2>5 DEF NoHiddenEffect
  <1>7. ASSUME NEW w \in Workers, Crash(w) PROVE NoHiddenEffect'
    <2>1. /\ evt' = evt /\ remote' = remote /\ late' = late /\ rows' = rows
          /\ work'[w].pc = "idle"
          /\ \A v \in Workers : v # w => work'[v] = work[v]
      BY <1>7 DEF Crash, TypeOK, Idle
    <2>2. QED
      BY <2>1 DEF NoHiddenEffect, EffectKnown, ClaimKnowsEffect, Current, Holds, Gen
  <1>8. CASE UNCHANGED <<evt, rows, work, remote, late>>
    BY <1>8 DEF NoHiddenEffect, EffectKnown, ClaimKnowsEffect, Current, Holds, Gen
  <1>9. ASSUME NEW w \in Workers, WorkerStep(w) PROVE NoHiddenEffect'
    BY <1>9, EffectWorker
  <1>10. QED
    BY <1>1, <1>2, <1>3, <1>4, <1>5, <1>6, <1>7, <1>8, <1>9
       DEF Next, vars, CancelCompletion, Drift

(* Where no effect stays hidden, what the event says is known of it.       *)
LEMMA EffectInvariant == ASSUME Orderly PROVE Spec => [](TypeOK /\ NoHiddenEffect)
  <1>1. Init => NoHiddenEffect
    <2> SUFFICES ASSUME Init PROVE NoHiddenEffect
      OBVIOUS
    <2>1. /\ \A w \in Workers : work[w].pc = "idle"
          /\ \A e \in Events : remote[e] = 0 /\ late[e] = 0
      BY DEF Init, Idle
    <2>2. ASSUME NEW e \in Events PROVE EffectKnown(e)
      <3>1. remote[e] = 0 /\ late[e] = 0
        BY <2>1
      <3>2. remote[e] <= 1
        BY <3>1
      <3>3. QED
        BY <3>1, <3>2 DEF EffectKnown
    <2>3. ASSUME NEW e \in Events, NEW w \in Workers PROVE ClaimKnowsEffect(w, e)
      BY <2>1 DEF ClaimKnowsEffect, Current, Holds
    <2>4. QED
      BY <2>2, <2>3 DEF NoHiddenEffect
  <1>2. /\ TypeOK /\ ClaimsDistinct /\ SafetyInv /\ NoHiddenEffect /\ [Next]_vars
        => NoHiddenEffect'
    BY EffectStep
  <1>3. QED
    BY <1>1, <1>2, TypeCorrect, SafetyInvariant, PTL DEF Spec

(* Where requests are timely and errors honest, no interleaving of claims, *)
(* crashes, expired leases, reconciliations and re-dispatches starts two   *)
(* Dagster runs for one event.                                             *)
THEOREM AtMostOnce ==
  ASSUME Timely, HonestErrors
  PROVE  Spec => []AtMostOneRun
  <1>1. Orderly
    BY DEF Orderly
  <1>2. TypeOK /\ NoHiddenEffect => AtMostOneRun
    BY DEF NoHiddenEffect, EffectKnown, AtMostOneRun, TypeOK
  <1>3. QED
    BY <1>1, <1>2, EffectInvariant, PTL

(* Under the same assumptions an event filed as failed left no effect      *)
(* behind, and none is on its way.                                         *)
THEOREM FailureLeavesNothing ==
  ASSUME Timely, HonestErrors
  PROVE  Spec => []FailedLeftNothing
  <1>1. Orderly
    BY DEF Orderly
  <1>2. TypeOK /\ NoHiddenEffect => FailedLeftNothing
    BY DEF NoHiddenEffect, EffectKnown, FailedLeftNothing, TypeOK
  <1>3. QED
    BY <1>1, <1>2, EffectInvariant, PTL

-----------------------------------------------------------------------------
(* However decisions, drifts of the target and workers interleave, a       *)
(* release commits only while its approval is valid for the target.        *)
THEOREM ReleaseNeedsOpenGate == Spec => ReleasedUnderOpenGate
  <1>1. ASSUME TypeOK, ClaimsDistinct, [Next]_vars, NEW e \in Events,
               Kind[e] = "release", run[e] # "success", run'[e] = "success"
        PROVE  gate[e].approved /\ ~gate[e].drifted
    <2>1. ASSUME NEW w \in Workers, WorkerStep(w)
          PROVE  gate[e].approved /\ ~gate[e].drifted
      <3>1. work[w].event = e
        BY <1>1, <2>1, WorkerFrame DEF Frame
      <3>2. CASE FinalizeSuccess(w)
        BY <1>1, <3>1, <3>2 DEF FinalizeSuccess, GateOpen
      <3>3. CASE \/ PrepareBlocked(w) \/ PrepareReady(w) \/ FinalizeGateClosed(w)
                 \/ DeadLetter(w) \/ ScheduleRetry(w)
        BY <1>1, <3>1, <3>3
           DEF PrepareBlocked, PrepareReady, FinalizeGateClosed, DeadLetter,
               ScheduleRetry, TypeOK
      <3>4. CASE run' = run
        BY <1>1, <3>4
      <3>5. QED
        BY <2>1, <3>2, <3>3, <3>4
           DEF WorkerStep, Fenced, PrepareRefused, PrepareAuditMissing, FinalizeBlocked,
               MarkRemoteStarted, DispatchTakesEffect, DispatchFails, DispatchTimesOut,
               Reconcile, DispatchLocally, FinalizeRaises, Redispatch
    <2>2. ASSUME NEW f \in Events,
                 \/ Enqueue(f) \/ CancelPending(f) \/ CancelCompletion(f)
                 \/ \E approve \in BOOLEAN : Decide(f, approve)
          PROVE  FALSE
      BY <1>1, <2>2 DEF Enqueue, CancelPending, CancelCompletion, Decide, TypeOK
    <2>3. CASE run' = run
      BY <1>1, <2>3
    <2>4. QED
      BY <1>1, <2>1, <2>2, <2>3
         DEF Next, vars, Drift, LeaseLapse, LeaseExpire, LateEffect, Claim, Crash
  <1>2. TypeOK /\ ClaimsDistinct /\ [Next]_vars =>
          \A e \in Events : Kind[e] = "release" /\ run[e] # "success" /\ run'[e] = "success"
            => gate[e].approved /\ ~gate[e].drifted
    BY <1>1
  <1>3. QED
    BY <1>2, TypeCorrect, PTL DEF Spec, ReleasedUnderOpenGate
=============================================================================

------------------------------- MODULE Outbox -------------------------------
(***************************************************************************)
(* The transactional outbox of Auris Flow: several worker processes claim  *)
(* rows of outbox_events under a database lease, call a remote system and  *)
(* record the outcome.  Every database step of the worker is a transaction *)
(* of its own that first locks the row it claimed (lock_owned_claim), so a *)
(* step is either fenced off or atomic; the remote call lies between two   *)
(* such transactions and is atomic with neither.                           *)
(*                                                                         *)
(* Time is abstract: a lease is live or expired, and expiry may come at    *)
(* any moment.  A claim is identified by its lease generation: the claim   *)
(* token is drawn afresh in the same statement that increments the         *)
(* generation, so the two always agree.  A worker that claims a batch is   *)
(* as many workers here as its batch has claims.  Which event a worker     *)
(* claims and when an event becomes available again are left open.         *)
(***************************************************************************)
EXTENDS Naturals, Sequences, FiniteSets

CONSTANTS
  Events,            \* outbox rows, each with its dispatch idempotency key
  Workers,           \* concurrent claims
  Kind,              \* what an event asks for, see Kinds
  MaxAttempts,       \* _effective_max_attempts
  ClaimMaxAttempts,  \* effective_max_attempts as claim_events computes it
  MaxReconcile,      \* _effective_max_reconcile_attempts
  MaxEvents,         \* bound on events enqueued
  MaxFaults,         \* bound on crashes and premature lease expiries
  MaxFlips,          \* bound on decisions and drifts of a release gate
  Timely,            \* requests take effect at once, and under a held lease
  HonestErrors       \* an error reply means that nothing took effect

(* launch: a Dagster run request.  write: object storage or a signed       *)
(* callback.  index: a Qdrant upsert.  projection: an event recorded       *)
(* locally, without a run.  materialization: the business results of a     *)
(* completed run.  release: a publication guarded by a release gate.       *)
Kinds == {"launch", "write", "index", "projection", "materialization", "release"}
RemoteKinds == {"launch", "write", "index"}

ASSUME EventsAssumption == Events # {}
ASSUME KindAssumption == Kind \in [Events -> Kinds]
ASSUME BoundAssumption ==
  /\ MaxAttempts \in Nat \ {0}
  /\ ClaimMaxAttempts \in Nat \ {0}
  /\ MaxReconcile \in Nat \ {0}
  /\ MaxEvents \in Nat
  /\ MaxFaults \in Nat
  /\ MaxFlips \in Nat
ASSUME EnvironmentAssumption == Timely \in BOOLEAN /\ HonestErrors \in BOOLEAN

VARIABLES
  evt,     \* outbox_events: status, delivery state, counters, lease
  rows,    \* outbox_delivery_attempts, indexed by lease generation
  run,     \* status of the run the event belongs to
  gate,    \* release gate of a release run
  work,    \* what each worker is doing, in its own memory
  remote,  \* how often the remote side has carried the event out
  late,    \* requests on their way that have not taken effect yet
  faults,  \* crashes and premature expiries so far
  flips    \* gate decisions and target drifts so far

vars == <<evt, rows, run, gate, work, remote, late, faults, flips>>

Statuses == {"absent", "pending", "processing", "processed", "blocked",
             "dead_letter", "cancelled"}
Deliveries == {"ready", "dispatching", "outcome_unknown", "reconciling",
               "confirmed", "failed", "unresolved"}
RowStatuses == {"none", "prepared", "blocked", "remote_call_started",
                "reconcile_started", "lease_expired", "succeeded",
                "retry_scheduled", "reconcile_retry_scheduled",
                "dagster_redispatch_scheduled", "dead_letter"}
RunStatuses == {"none", "pending", "running", "blocked", "submitted",
                "completion_pending", "success", "failed", "cancelling",
                "cancelled"}
(* A reply is what the worker makes of a call: success, a failure whose    *)
(* remote outcome is unknown, a retryable and a final failure, and the     *)
(* proof that Dagster holds no run with the event's tag.                   *)
Replies == {"none", "success", "unknown", "retryable", "rejected", "absent"}
Pcs == {"idle", "claimed", "prepared", "blocking", "started", "replied"}

Event == [status: Statuses, delivery: Deliveries, attempts: Nat,
          reconciles: Nat, leased: BOOLEAN]
Row == [mode: {"dispatch", "reconcile"}, status: RowStatuses, absent: BOOLEAN]
Gate == [approved: BOOLEAN, drifted: BOOLEAN]
Task == [pc: Pcs, event: Events, gen: Nat, exhausted: BOOLEAN, reply: Replies]

NoEvent == [status |-> "absent", delivery |-> "ready", attempts |-> 0,
            reconciles |-> 0, leased |-> FALSE]
NoRow == [mode |-> "dispatch", status |-> "none", absent |-> FALSE]
Idle == [pc |-> "idle", event |-> CHOOSE e \in Events : TRUE, gen |-> 0,
         exhausted |-> FALSE, reply |-> "none"]

Init ==
  /\ evt = [e \in Events |-> NoEvent]
  /\ rows = [e \in Events |-> <<>>]
  /\ run = [e \in Events |-> "none"]
  /\ gate = [e \in Events |-> [approved |-> FALSE, drifted |-> FALSE]]
  /\ work = [w \in Workers |-> Idle]
  /\ remote = [e \in Events |-> 0]
  /\ late = [e \in Events |-> 0]
  /\ faults = 0
  /\ flips = 0

-----------------------------------------------------------------------------
(***************************************************************************)
(* Producers.                                                              *)
(***************************************************************************)

Room == Cardinality({e \in Events : evt[e].status # "absent"}) < MaxEvents

(* Slip: the event of a blocked run is left claimable before its decision. *)
EnqueueClaimable(e) ==
  /\ Room /\ evt[e].status = "absent"
  /\ evt' = [evt EXCEPT ![e].status = "pending"]
  /\ run' = [run EXCEPT ![e] = IF Kind[e] = "release" THEN "blocked" ELSE "pending"]
  /\ UNCHANGED <<rows, gate, work, remote, late, faults, flips>>

(* enqueue_event in the transaction that creates the run.  A release run   *)
(* is created blocked and its event is born settled, so that no worker can *)
(* claim it before the decision.                                           *)
Enqueue(e) ==
  /\ Room /\ evt[e].status = "absent"
  /\ evt' = [evt EXCEPT ![e].status = IF Kind[e] = "release" THEN "blocked" ELSE "pending",
                        ![e].delivery = IF Kind[e] = "release" THEN "confirmed" ELSE "ready"]
  /\ run' = [run EXCEPT ![e] = CASE Kind[e] = "projection" -> "none"
                                 [] Kind[e] = "materialization" -> "completion_pending"
                                 [] Kind[e] = "release" -> "blocked"
                                 [] OTHER -> "pending"]
  /\ UNCHANGED <<rows, gate, work, remote, late, faults, flips>>

(* cancel_pending_task_run_dispatch: a run that no worker has prepared is  *)
(* cancelled together with its still pending event.                        *)
CancelPending(e) ==
  /\ Kind[e] = "launch"
  /\ run[e] = "pending"
  /\ evt[e].status = "pending"
  /\ evt' = [evt EXCEPT ![e].status = "cancelled", ![e].delivery = "confirmed"]
  /\ run' = [run EXCEPT ![e] = "cancelled"]
  /\ UNCHANGED <<rows, gate, work, remote, late, faults, flips>>

(* A cancellation that overtakes the materialization of a completed run.   *)
CancelCompletion(e) ==
  /\ Kind[e] = "materialization"
  /\ run[e] = "completion_pending"
  /\ run' = [run EXCEPT ![e] = "cancelling"]
  /\ UNCHANGED <<evt, rows, gate, work, remote, late, faults, flips>>

(* decide_release_gate: refused while the run is not blocked, while the    *)
(* event is not settled as blocked, and while the target has drifted.  The *)
(* attempt counter survives the reset of the event.                        *)
Decide(e, approve) ==
  /\ flips < MaxFlips
  /\ Kind[e] = "release"
  /\ run[e] = "blocked"
  /\ evt[e].status = "blocked"
  /\ evt[e].delivery = "confirmed"
  /\ ~gate[e].drifted
  /\ gate' = [gate EXCEPT ![e].approved = approve]
  /\ run' = [run EXCEPT ![e] = IF approve THEN "pending" ELSE "cancelled"]
  /\ evt' = [evt EXCEPT ![e].status = IF approve THEN "pending" ELSE "cancelled",
                        ![e].delivery = IF approve THEN "ready" ELSE "confirmed",
                        ![e].leased = FALSE]
  /\ flips' = flips + 1
  /\ UNCHANGED <<rows, work, remote, late, faults>>

(* The published target changes behind the gate, or changes back.          *)
Drift(e) ==
  /\ flips < MaxFlips
  /\ Kind[e] = "release"
  /\ gate' = [gate EXCEPT ![e].drifted = ~@]
  /\ flips' = flips + 1
  /\ UNCHANGED <<evt, rows, run, work, remote, late, faults>>

(* Slip: an approval counts although its target has changed since. *)
GateOpenOnceApproved(e) == Kind[e] = "release" => gate[e].approved

GateOpen(e) == Kind[e] = "release" => gate[e].approved /\ ~gate[e].drifted

-----------------------------------------------------------------------------
(***************************************************************************)
(* Claims and leases.                                                      *)
(***************************************************************************)

Gen(e) == Len(rows[e])

(* Slip: any claim of a row that is being processed passes the fence. *)
OwnsAnyClaim(w) == evt[work[w].event].status = "processing" /\ evt[work[w].event].leased

(* lock_owned_claim: the row is still processing under this generation and *)
(* its lease has not run out.                                              *)
Owns(w) ==
  LET e == work[w].event IN
  /\ evt[e].status = "processing"
  /\ evt[e].leased
  /\ Gen(e) = work[w].gen

(* Slip: a call whose outcome is unknown is repeated. *)
NeedsReconciliationBlind(e) ==
  evt[e].status = "processing" /\ evt[e].attempts >= ClaimMaxAttempts

(* Slip: expired leases do not count against the attempts. *)
NeedsReconciliationUnlimited(e) == evt[e].delivery \in {"outcome_unknown", "reconciling"}

NeedsReconciliation(e) ==
  \/ evt[e].delivery \in {"outcome_unknown", "reconciling"}
  \/ evt[e].status = "processing" /\ evt[e].attempts >= ClaimMaxAttempts

(* Slip: a status that the table does not know. *)
ExpireAttemptUnknown(e) ==
  IF evt[e].status = "processing" /\ Gen(e) > 0
  THEN [rows[e] EXCEPT ![Gen(e)].status = "expired"] ELSE rows[e]

(* A reclaim closes the attempt of the previous owner, if it has a row.    *)
ExpireAttempt(e) ==
  IF /\ evt[e].status = "processing"
     /\ Gen(e) > 0
     /\ rows[e][Gen(e)].status \in {"prepared", "remote_call_started", "reconcile_started"}
  THEN [rows[e] EXCEPT ![Gen(e)].status = "lease_expired"]
  ELSE rows[e]

(* Slip: expired leases are never reclaimed. *)
ClaimableOnce(e) == evt[e].status = "pending"

Claimable(e) ==
  \/ evt[e].status = "pending"
  \/ evt[e].status = "processing" /\ ~evt[e].leased

(* claim_events, for one row. *)
Claim(w, e) ==
  LET reconcile == NeedsReconciliation(e) IN
  /\ work[w].pc = "idle"
  /\ Claimable(e)
  /\ evt' = [evt EXCEPT ![e] =
       [status |-> "processing",
        delivery |-> IF reconcile THEN "reconciling" ELSE "dispatching",
        attempts |-> IF reconcile THEN @.attempts ELSE @.attempts + 1,
        reconciles |-> IF reconcile THEN @.reconciles + 1 ELSE @.reconciles,
        leased |-> TRUE]]
  /\ rows' = [rows EXCEPT ![e] = Append(ExpireAttempt(e), NoRow)]
  /\ work' = [work EXCEPT ![w] =
       [pc |-> "claimed", event |-> e, gen |-> Gen(e) + 1,
        exhausted |-> reconcile, reply |-> "none"]]
  /\ UNCHANGED <<run, gate, remote, late, faults, flips>>

Holds(w, e) == work[w].pc # "idle" /\ work[w].event = e /\ work[w].gen = Gen(e)

(* The lease of a worker that is gone runs out, nobody renews it. *)
LeaseLapse(e) ==
  /\ evt[e].status = "processing"
  /\ evt[e].leased
  /\ \A w \in Workers : ~Holds(w, e)
  /\ evt' = [evt EXCEPT ![e].leased = FALSE]
  /\ UNCHANGED <<rows, run, gate, work, remote, late, faults, flips>>

(* A lease runs out under a worker that still works on it: it waited too   *)
(* long in its batch, was suspended, or its heartbeat failed.  The worker  *)
(* does not notice before its next fenced transaction.                     *)
LeaseExpire(e) ==
  /\ faults < MaxFaults
  /\ evt[e].status = "processing"
  /\ evt[e].leased
  /\ \E w \in Workers : Holds(w, e)
  /\ evt' = [evt EXCEPT ![e].leased = FALSE]
  /\ faults' = faults + 1
  /\ UNCHANGED <<rows, run, gate, work, remote, late, flips>>

(* A worker dies, or gives the claim up after an unexpected exception. *)
Crash(w) ==
  /\ faults < MaxFaults
  /\ work[w].pc # "idle"
  /\ work' = [work EXCEPT ![w] = Idle]
  /\ faults' = faults + 1
  /\ UNCHANGED <<evt, rows, run, gate, remote, late, flips>>

(* Any fenced transaction of a worker that lost its claim changes nothing. *)
Fenced(w) ==
  /\ work[w].pc \in {"claimed", "prepared", "blocking", "replied"}
  /\ ~Owns(w)
  /\ work' = [work EXCEPT ![w] = Idle]
  /\ UNCHANGED <<evt, rows, run, gate, remote, late, faults, flips>>

-----------------------------------------------------------------------------
(***************************************************************************)
(* Preparation: _prepare_claim.                                            *)
(***************************************************************************)

Mode(w) == IF work[w].exhausted THEN "reconcile" ELSE "dispatch"

Dispatchable(e) ==
  run[e] \in {"none", "pending", "running", "blocked"}
    \union (IF Kind[e] = "materialization" THEN {"completion_pending"} ELSE {})

SetRow(w, status, absent) ==
  [rows EXCEPT ![work[w].event][work[w].gen] =
     [mode |-> Mode(w), status |-> status, absent |-> absent]]

(* The claim ends (clear_claim) and the event and its row take their next  *)
(* status.                                                                 *)
Settle(w, status, delivery, row) ==
  LET e == work[w].event IN
  /\ evt' = [evt EXCEPT ![e].status = status, ![e].delivery = delivery,
                        ![e].leased = FALSE]
  /\ rows' = SetRow(w, row, work[w].reply = "absent")
  /\ work' = [work EXCEPT ![w] = Idle]
  /\ UNCHANGED <<gate, remote, late, faults, flips>>

(* The run may no longer be dispatched; the transaction rolls back and the *)
(* failure is recorded by _finalize_failure.                               *)
PrepareRefused(w) ==
  /\ work[w].pc = "claimed"
  /\ Owns(w)
  /\ ~Dispatchable(work[w].event)
  /\ work' = [work EXCEPT ![w].pc = "replied", ![w].reply = "rejected"]
  /\ UNCHANGED <<evt, rows, run, gate, remote, late, faults, flips>>

(* The gate is open but the audit proof of the approval is not visible to  *)
(* this snapshot yet: a retryable error.  A run that an earlier claim has  *)
(* blocked is seen one lease after the approval at the earliest.           *)
PrepareAuditMissing(w) ==
  /\ work[w].pc = "claimed"
  /\ Owns(w)
  /\ Kind[work[w].event] = "release"
  /\ run[work[w].event] \in {"pending", "running"}
  /\ GateOpen(work[w].event)
  /\ work' = [work EXCEPT ![w].pc = "replied", ![w].reply = "retryable"]
  /\ UNCHANGED <<evt, rows, run, gate, remote, late, faults, flips>>

(* The gate is closed, or the run was already blocked by it. *)
PrepareBlocked(w) ==
  LET e == work[w].event IN
  /\ work[w].pc = "claimed"
  /\ Owns(w)
  /\ Dispatchable(e)
  /\ run[e] = "blocked" \/ ~GateOpen(e)
  /\ run' = [run EXCEPT ![e] = "blocked"]
  /\ rows' = SetRow(w, "blocked", FALSE)
  /\ work' = [work EXCEPT ![w].pc = "blocking"]
  /\ UNCHANGED <<evt, gate, remote, late, faults, flips>>

PrepareReady(w) ==
  LET e == work[w].event IN
  /\ work[w].pc = "claimed"
  /\ Owns(w)
  /\ Dispatchable(e)
  /\ run[e] # "blocked"
  /\ GateOpen(e)
  /\ run' = [run EXCEPT ![e] = IF @ = "pending" THEN "running" ELSE @]
  /\ rows' = SetRow(w, "prepared", FALSE)
  /\ work' = [work EXCEPT ![w].pc = "prepared"]
  /\ UNCHANGED <<evt, gate, remote, late, faults, flips>>

(* _finalize_blocked *)
FinalizeBlocked(w) ==
  /\ work[w].pc = "blocking"
  /\ Owns(w)
  /\ Settle(w, "blocked", "confirmed", "blocked")
  /\ UNCHANGED run

-----------------------------------------------------------------------------
(***************************************************************************)
(* The remote operation.                                                   *)
(***************************************************************************)

(* _mark_remote_operation_started: committed before the call, so that a    *)
(* crash from here on leads to a query and not to a second call.           *)
MarkRemoteStarted(w) ==
  /\ work[w].pc = "prepared"
  /\ Owns(w)
  /\ evt' = [evt EXCEPT ![work[w].event].delivery =
               IF work[w].exhausted THEN "reconciling" ELSE "outcome_unknown"]
  /\ rows' = SetRow(w, IF work[w].exhausted THEN "reconcile_started"
                                            ELSE "remote_call_started", FALSE)
  /\ work' = [work EXCEPT ![w].pc = "started"]
  /\ UNCHANGED <<run, gate, remote, late, faults, flips>>

Reply(w, reply) == work' = [work EXCEPT ![w].pc = "replied", ![w].reply = reply]

(* One more request takes effect.  Dagster does not recognise a launch it  *)
(* has seen before; the other remotes write under the dispatch key.        *)
TakeEffect(e) ==
  remote' = [remote EXCEPT ![e] = IF Kind[e] = "launch" THEN @ + 1 ELSE 1]

(* The request reaches the remote side, which carries it out; the worker   *)
(* learns so, or its connection breaks or times out, or the reply it gets  *)
(* is an error all the same.                                               *)
DispatchTakesEffect(w) ==
  /\ work[w].pc = "started"
  /\ ~work[w].exhausted
  /\ Kind[work[w].event] \in RemoteKinds
  /\ Timely => Owns(w)
  /\ TakeEffect(work[w].event)
  /\ \/ Reply(w, "success")
     \/ Reply(w, "unknown")
     \/ ~HonestErrors /\ Reply(w, "retryable")
  /\ UNCHANGED <<evt, rows, run, gate, late, faults, flips>>

(* The request fails without an effect: lost, refused for now, refused. *)
DispatchFails(w) ==
  /\ work[w].pc = "started"
  /\ ~work[w].exhausted
  /\ Kind[work[w].event] \in RemoteKinds
  /\ \E reply \in {"unknown", "retryable", "rejected"} : Reply(w, reply)
  /\ UNCHANGED <<evt, rows, run, gate, remote, late, faults, flips>>

(* The client gives up after its timeout while the request is under way. *)
DispatchTimesOut(w) ==
  /\ ~Timely
  /\ work[w].pc = "started"
  /\ ~work[w].exhausted
  /\ Kind[work[w].event] \in RemoteKinds
  /\ late' = [late EXCEPT ![work[w].event] = @ + 1]
  /\ Reply(w, "unknown")
  /\ UNCHANGED <<evt, rows, run, gate, remote, faults, flips>>

LateEffect(e) ==
  /\ late[e] > 0
  /\ late' = [late EXCEPT ![e] = @ - 1]
  /\ TakeEffect(e)
  /\ UNCHANGED <<evt, rows, run, gate, work, faults, flips>>

(* Slip: a query without a finding confirms the call. *)
ReconciledTrusting(e) == IF remote[e] <= 1 THEN "success" ELSE "rejected"

(* reconcile_event: what the remote side knows under the event's key.  No  *)
(* Dagster run is a retryable proof of absence, several are ambiguous; the *)
(* other remotes report a missing receipt as a final error.  The query may *)
(* fail, or be answered with something malformed or of another key, which  *)
(* is final too.                                                           *)
Reconciled(e) ==
  CASE remote[e] = 1 -> "success"
    [] remote[e] = 0 /\ Kind[e] = "launch" -> "absent"
    [] OTHER -> "rejected"

Reconcile(w) ==
  /\ work[w].pc = "started"
  /\ work[w].exhausted
  /\ Kind[work[w].event] \in RemoteKinds
  /\ \E reply \in {Reconciled(work[w].event), "retryable", "rejected"} : Reply(w, reply)
  /\ UNCHANGED <<evt, rows, run, gate, remote, late, faults, flips>>

(* Projections, releases and materializations need no remote call. *)
DispatchLocally(w) ==
  /\ work[w].pc = "started"
  /\ Kind[work[w].event] \notin RemoteKinds
  /\ Reply(w, "success")
  /\ UNCHANGED <<evt, rows, run, gate, remote, late, faults, flips>>

-----------------------------------------------------------------------------
(***************************************************************************)
(* Recording the outcome.                                                  *)
(***************************************************************************)

(* Slip: a run that is dispatched stays where it was. *)
CompletionStatusKept(e) == run[e]

(* _dispatch_completion_state, and the end of a materialization. *)
CompletionStatus(e) ==
  CASE Kind[e] = "projection" -> "none"
    [] Kind[e] \in {"launch", "write"} -> "submitted"
    [] OTHER -> "success"

(* _finalize_dispatch with _finalize_success *)
FinalizeSuccess(w) ==
  LET e == work[w].event IN
  /\ work[w].pc = "replied"
  /\ work[w].reply = "success"
  /\ Owns(w)
  /\ GateOpen(e)
  /\ Kind[e] = "materialization" => run[e] = "completion_pending"
  /\ Settle(w, "processed", "confirmed", "succeeded")
  /\ run' = [run EXCEPT ![e] = CompletionStatus(e)]

(* Slip: the event is blocked and its run is forgotten. *)
FinalizeGateClosedAlone(w) ==
  /\ work[w].pc = "replied"
  /\ work[w].reply = "success"
  /\ Owns(w)
  /\ ~GateOpen(work[w].event)
  /\ Settle(w, "blocked", "confirmed", "blocked")
  /\ UNCHANGED run

(* The gate closed between preparation and commit. *)
FinalizeGateClosed(w) ==
  LET e == work[w].event IN
  /\ work[w].pc = "replied"
  /\ work[w].reply = "success"
  /\ Owns(w)
  /\ ~GateOpen(e)
  /\ Settle(w, "blocked", "confirmed", "blocked")
  /\ run' = [run EXCEPT ![e] = "blocked"]

(* The finalizing transaction raises and rolls back.  Only a               *)
(* materialization, being local, is retried as an ordinary failure.        *)
FinalizeRaises(w) ==
  LET e == work[w].event IN
  /\ work[w].pc = "replied"
  /\ work[w].reply = "success"
  /\ Owns(w)
  /\ Reply(w, IF Kind[e] = "materialization" THEN "retryable" ELSE "unknown")
  /\ UNCHANGED <<evt, rows, run, gate, remote, late, faults, flips>>

(* Slip: only a failed query is known to need another query. *)
RequiresReconciliationLate(w) == work[w].exhausted

RequiresReconciliation(w) == work[w].exhausted \/ work[w].reply = "unknown"

AttemptsUsed(w) ==
  IF RequiresReconciliation(w) THEN evt[work[w].event].reconciles
                               ELSE evt[work[w].event].attempts
AttemptLimit(w) == IF RequiresReconciliation(w) THEN MaxReconcile ELSE MaxAttempts

(* _previous_attempt_is_exact_dagster_absence: the last attempt before     *)
(* this one that left a row at all.                                        *)
PreviousAttemptIsAbsence(e, g) ==
  \E h \in 1 .. (g - 1) :
    /\ rows[e][h] = [mode |-> "reconcile", status |-> "reconcile_retry_scheduled",
                     absent |-> TRUE]
    /\ \A i \in (h + 1) .. (g - 1) : rows[e][i].status = "none"

ConsecutiveAbsence(w) ==
  /\ work[w].exhausted
  /\ work[w].reply = "absent"
  /\ PreviousAttemptIsAbsence(work[w].event, work[w].gen)

(* _mark_retry_or_dead_letter: two consecutive proofs of absence make a    *)
(* launch safe to repeat.                                                  *)
Redispatch(w) ==
  LET e == work[w].event IN
  /\ work[w].pc = "replied"
  /\ Owns(w)
  /\ ConsecutiveAbsence(w)
  /\ evt[e].attempts < MaxAttempts
  /\ Settle(w, "pending", "ready", "dagster_redispatch_scheduled")
  /\ UNCHANGED run

GivesUp(w) ==
  \/ ConsecutiveAbsence(w)
  \/ work[w].reply = "rejected"
  \/ AttemptsUsed(w) >= AttemptLimit(w)

DeadLetter(w) ==
  LET e == work[w].event IN
  /\ work[w].pc = "replied"
  /\ work[w].reply # "success"
  /\ Owns(w)
  /\ ~(ConsecutiveAbsence(w) /\ evt[e].attempts < MaxAttempts)
  /\ GivesUp(w)
  /\ Settle(w, "dead_letter",
            IF RequiresReconciliation(w) THEN "unresolved" ELSE "failed",
            "dead_letter")
  /\ run' = [run EXCEPT ![e] =
       IF \/ @ \in {"pending", "running"}
          \/ @ = "completion_pending" /\ Kind[e] = "materialization"
       THEN "failed" ELSE @]

(* An adapter's error shows that the dispatch began; any other leaves the  *)
(* run as it was.                                                          *)
ScheduleRetry(w) ==
  LET e == work[w].event IN
  /\ work[w].pc = "replied"
  /\ work[w].reply # "success"
  /\ Owns(w)
  /\ ~GivesUp(w)
  /\ Settle(w, "pending",
            IF RequiresReconciliation(w) THEN "outcome_unknown" ELSE "ready",
            IF RequiresReconciliation(w) THEN "reconcile_retry_scheduled"
                                         ELSE "retry_scheduled")
  /\ \E adapterError \in BOOLEAN :
       run' = [run EXCEPT ![e] = IF adapterError /\ @ = "pending" THEN "running" ELSE @]

-----------------------------------------------------------------------------
WorkerStep(w) ==
  \/ Fenced(w)
  \/ PrepareRefused(w) \/ PrepareAuditMissing(w) \/ PrepareBlocked(w) \/ PrepareReady(w)
  \/ FinalizeBlocked(w)
  \/ MarkRemoteStarted(w)
  \/ DispatchTakesEffect(w) \/ DispatchFails(w) \/ DispatchTimesOut(w)
  \/ Reconcile(w) \/ DispatchLocally(w)
  \/ FinalizeSuccess(w) \/ FinalizeGateClosed(w) \/ FinalizeRaises(w)
  \/ Redispatch(w) \/ DeadLetter(w) \/ ScheduleRetry(w)

Next ==
  \/ \E e \in Events :
       \/ Enqueue(e) \/ CancelPending(e) \/ CancelCompletion(e)
       \/ \E approve \in BOOLEAN : Decide(e, approve)
       \/ Drift(e)
       \/ LeaseLapse(e) \/ LeaseExpire(e) \/ LateEffect(e)
       \/ \E w \in Workers : Claim(w, e)
  \/ \E w \in Workers : Crash(w) \/ WorkerStep(w)

Spec == Init /\ [][Next]_vars

(* Workers poll for ever (run_forever), every step of theirs is bounded by *)
(* a timeout, and a lease nobody renews expires.                           *)
Fairness ==
  /\ \A w \in Workers : WF_vars(WorkerStep(w))
  /\ \A e \in Events : WF_vars(LeaseLapse(e)) /\ WF_vars(\E w \in Workers : Claim(w, e))

FairSpec == Spec /\ Fairness

-----------------------------------------------------------------------------
(***************************************************************************)
(* Properties.                                                             *)
(***************************************************************************)

(* The rows, counters and worker states the transactions above can write.  *)
TypeOK ==
  /\ evt \in [Events -> Event]
  /\ rows \in [Events -> Seq(Row)]
  /\ run \in [Events -> RunStatuses]
  /\ gate \in [Events -> Gate]
  /\ work \in [Workers -> Task]
  /\ remote \in [Events -> Nat]
  /\ late \in [Events -> Nat]
  /\ faults \in Nat
  /\ flips \in Nat

(* However claims, crashes, expired leases, lost replies and re-dispatches *)
(* interleave, Dagster is never made to start two runs for one event       *)
(* (_mark_remote_operation_started, _mark_retry_or_dead_letter).           *)
AtMostOneRun ==
  \A e \in Events : Kind[e] = "launch" => remote[e] + late[e] <= 1

(* An event marked processed was really carried out by the remote side,    *)
(* whichever worker recorded it and by whatever detour of reconciliations. *)
ProcessedWasDelivered ==
  \A e \in Events :
    Kind[e] \in RemoteKinds /\ evt[e].status = "processed" => remote[e] > 0

(* A dead letter filed as failed, not as unresolved, left nothing behind   *)
(* on the remote side: an operator may start the run again.                *)
FailedLeftNothing ==
  \A e \in Events : evt[e].delivery = "failed" => remote[e] + late[e] = 0

(* A settled event never leaves its run waiting for a dispatch that nobody *)
(* will make any more: the run is not pending, running or, for a           *)
(* materialization, completion_pending once its event is settled.          *)
SettledRunMovedOn ==
  \A e \in Events :
    evt[e].status \in {"processed", "dead_letter", "cancelled", "blocked"} =>
      run[e] \notin {"pending", "running", "completion_pending"}

(* A run blocked by its gate and its event agree, so that a decision finds *)
(* a settled event: while they differ, a claim is still being processed.   *)
BlockedTogether ==
  \A e \in Events : run[e] = "blocked" => evt[e].status \in {"blocked", "processing"}

(* Retries are bounded whatever mixture of errors and expired leases       *)
(* consumes them: no event is dispatched more often than the larger of the *)
(* two limits the worker and the claim apply.  A release is exempt: each   *)
(* decision makes its event pending again and keeps the attempts it had.   *)
AttemptsBounded ==
  \A e \in Events : Kind[e] # "release" =>
    evt[e].attempts <= IF MaxAttempts < ClaimMaxAttempts THEN ClaimMaxAttempts
                                                         ELSE MaxAttempts

(* A worker whose claim was taken over changes neither the event, nor its  *)
(* attempts, nor the run, however late it wakes up (lock_owned_claim).     *)
StaleWorkerHarmless ==
  [][\A w \in Workers :
       LET e == work[w].event IN
       work[w].pc # "idle" /\ work[w].gen < Gen(e) /\ work'[w] # work[w]
         => evt'[e] = evt[e] /\ rows'[e] = rows[e] /\ run'[e] = run[e]]_vars

(* A release takes effect only under an approval that is still valid for   *)
(* the unchanged target at the moment of the commit.                       *)
ReleasedUnderOpenGate ==
  [][\A e \in Events :
       Kind[e] = "release" /\ run[e] # "success" /\ run'[e] = "success"
         => gate[e].approved /\ ~gate[e].drifted]_vars

(* No request is sent again while an earlier one may have taken effect and *)
(* nobody has asked the remote side since.                                 *)
NoBlindRepeat ==
  [][\A e \in Events :
       Kind[e] = "launch" /\ remote[e] > 0 => remote'[e] = remote[e]]_vars

(* Every event that waits for delivery is settled in the end: crashes,     *)
(* expired leases and retries cannot keep it going round for ever.         *)
EventuallySettled ==
  \A e \in Events :
    evt[e].status \in {"pending", "processing"} ~>
      evt[e].status \in {"processed", "dead_letter", "blocked", "cancelled"}
-----------------------------------------------------------------------------
(***************************************************************************)
(* What the safety properties rest on: inductive invariants.               *)
(***************************************************************************)

(* The worker holds the newest claim of an event that is being processed,  *)
(* whether or not the lease has run out in the meantime.                   *)
Current(w, e) == Holds(w, e) /\ evt[e].status = "processing"

(* A lease generation is handed out once: no two workers ever act under    *)
(* the same claim of the same event (claim_events, FOR UPDATE SKIP LOCKED).*)
ClaimsDistinct ==
  /\ \A w \in Workers :
       work[w].pc # "idle" => work[w].gen \in 1 .. Gen(work[w].event)
  /\ \A v, w \in Workers :
       /\ v # w
       /\ work[v].pc # "idle"
       /\ work[w].pc # "idle"
       /\ work[v].event = work[w].event
       => work[v].gen # work[w].gen

(* The event, its counters, its run and the claim in progress move in      *)
(* step: what the status of the event says of each of the others.          *)
EventInStep(e) ==
  /\ evt[e].status = "absent" => evt[e].delivery = "ready" /\ evt[e].attempts = 0
  /\ evt[e].status = "pending" => evt[e].delivery \in {"ready", "outcome_unknown"}
  /\ evt[e].status = "processing" =>
       evt[e].delivery \in {"dispatching", "outcome_unknown", "reconciling"}
  /\ evt[e].status = "pending" /\ evt[e].delivery = "ready" /\ Kind[e] # "release"
       => evt[e].attempts < MaxAttempts
  /\ run[e] = "completion_pending" => Kind[e] = "materialization"

ClaimInStep(w, e) ==
  Current(w, e) =>
    /\ work[w].pc = "blocking" => run[e] = "blocked"
    /\ work[w].pc \in {"prepared", "started", "replied"} => run[e] # "blocked"

InStep == \A e \in Events : EventInStep(e) /\ \A w \in Workers : ClaimInStep(w, e)

(* Where an effect on the remote side can have come from, provided that    *)
(* requests are timely and errors honest: while the event is about to be   *)
(* dispatched there is none, and a failure that is not "unknown" left none.*)
EffectKnown(e) ==
  /\ late[e] = 0
  /\ remote[e] <= 1
  /\ Kind[e] \notin RemoteKinds => remote[e] = 0
  /\ evt[e].delivery \in {"ready", "dispatching", "failed"} => remote[e] = 0

ClaimKnowsEffect(w, e) ==
  Current(w, e) =>
    /\ work[w].pc \in {"claimed", "prepared", "blocking"} =>
         evt[e].delivery = IF work[w].exhausted THEN "reconciling" ELSE "dispatching"
    /\ work[w].pc = "started" /\ ~work[w].exhausted =>
         evt[e].delivery = "outcome_unknown" /\ remote[e] = 0
    /\ work[w].pc = "replied" => work[w].reply # "none"
    /\ work[w].pc = "replied" /\ work[w].reply = "absent" => remote[e] = 0
    /\ /\ work[w].pc = "replied"
       /\ ~work[w].exhausted
       /\ work[w].reply \in {"retryable", "rejected"}
       => remote[e] = 0

NoHiddenEffect ==
  \A e \in Events : EffectKnown(e) /\ \A w \in Workers : ClaimKnowsEffect(w, e)

(* A worker that reports success has a reason to. *)
SuccessIsReal ==
  \A w \in Workers :
    /\ work[w].pc = "replied"
    /\ work[w].reply = "success"
    /\ Kind[work[w].event] \in RemoteKinds
    => remote[work[w].event] > 0
=============================================================================

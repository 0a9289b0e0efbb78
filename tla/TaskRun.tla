------------------------------ MODULE TaskRun ------------------------------
(***************************************************************************)
(* One task run of Auris Flow, from its creation to its terminal state:    *)
(* its launch in Dagster, the cancellations and status queries that the    *)
(* API and the monitor ask for, the signed completion receipt the Dagster  *)
(* job sends back, and the materialization of its business results.        *)
(*                                                                         *)
(* Every action below is one database transaction or one remote call.  The *)
(* delivery of an event under a lease is the subject of module Outbox;     *)
(* here a delivery attempt succeeds, is repeated, or is given up, and how  *)
(* many attempts there are is left open.                                   *)
(*                                                                         *)
(* The fence of a control is the pair (status_version, monitor_generation) *)
(* it captured when it was created.  Both only grow, and they are compared *)
(* for equality with those of the run and for nothing else, so the set     *)
(* fresh of the controls whose fence still holds stands for all of them.   *)
(***************************************************************************)
EXTENDS Naturals, Sequences

CONSTANTS
  Controls,  \* slots for control runs that are not finished yet
  Contract,  \* the run has an execution contract to be materialized
  Strays     \* a second Dagster run may exist, see Outbox!AtMostOneRun

ASSUME ControlsAssumption == Controls # {}
ASSUME FlagAssumption == Contract \in BOOLEAN /\ Strays \in BOOLEAN

VARIABLES
  status,     \* status of the run
  dispatch,   \* payload.dispatch: none, of a failed call, or the binding
  launch,     \* status of the event task_run.requested
  engine,     \* the Dagster run
  told,       \* the job knows that its success receipt was accepted
  asked,      \* the engine was asked to terminate the run
  receipt,    \* the completion receipt of the run
  mat,        \* status of the event execution.materialization.requested
  ctl,        \* the controls
  fresh,      \* the controls whose fence matches the run
  overdue,    \* the deadline has passed
  deadlines,  \* deadline controls created so far, up to DeadlineCap
  finished    \* the terminal events emitted so far

runVars == <<status, dispatch, finished>>
engineVars == <<engine, told, asked>>
controlVars == <<ctl, fresh>>
clockVars == <<overdue, deadlines>>
vars == <<runVars, launch, engineVars, receipt, mat, controlVars, clockVars>>

Terminal == {"success", "failed", "cancelled"}
Statuses == {"pending", "running", "submitted", "completion_pending", "cancelling"}
              \union Terminal
EngineAlive == {"queued", "started", "canceling"}
EngineEnded == {"success", "failure", "canceled"}
EngineStatuses == {"absent"} \union EngineAlive \union EngineEnded
ReceiptStates == {"none", "pending_binding", "pending_cancel", "materializing",
                  "completed", "rejected"}
Receipt == [state: ReceiptStates, outcome: {"success", "failed"}, own: BOOLEAN]
Control == [state: {"free", "pending", "prepared", "started", "replied"},
            action: {"cancel", "status_sync"}, local: BOOLEAN,
            reconcile: BOOLEAN, observed: EngineStatuses]

Free == [state |-> "free", action |-> "cancel", local |-> FALSE,
         reconcile |-> FALSE, observed |-> "absent"]
NewControl(action, local) ==
  [Free EXCEPT !.state = "pending", !.action = action, !.local = local]

DeadlineCap == 2

(* create_run, for a task run *)
Init ==
  /\ status = "pending"
  /\ dispatch = "none"
  /\ launch = "pending"
  /\ engine = "absent"
  /\ told = FALSE
  /\ asked = FALSE
  /\ receipt = [state |-> "none", outcome |-> "success", own |-> TRUE]
  /\ mat = "none"
  /\ ctl = [c \in Controls |-> Free]
  /\ fresh = {}
  /\ overdue = FALSE
  /\ deadlines = 0
  /\ finished = <<>>

-----------------------------------------------------------------------------
(***************************************************************************)
(* Status transitions.                                                     *)
(***************************************************************************)

(* RUN_STATUS_TRANSITIONS, without the statuses a task run never takes *)
Transitions ==
  [s \in Statuses |->
     CASE s = "pending" -> {"running", "submitted", "success", "failed", "cancelling", "cancelled"}
       [] s \in {"running", "submitted"} ->
            {"running", "submitted", "completion_pending", "success", "failed",
             "cancelling", "cancelled"} \ {s}
       [] s = "completion_pending" -> {"success", "failed", "cancelling", "cancelled"}
       [] s = "cancelling" -> {"completion_pending", "failed", "cancelled"}
       [] OTHER -> {}]

(* transition_run raises the status version, so that no fence captured     *)
(* before matches any more.                                                *)
Become(new) ==
  /\ new = status \/ new \in Transitions[status]
  /\ status' = new

FreshAfter(new) == IF new = status THEN fresh ELSE {}

(* Slip: an event for every transition, and one more for a run that ended. *)
EmitAlways(new) == finished' = IF new # status THEN Append(finished, new) ELSE finished
EmitAgain(new) == finished' = IF new \in Terminal THEN Append(finished, new) ELSE finished

(* emit_task_run_terminal_event, called by whoever ends the run *)
Emit(new) ==
  finished' = IF new \in Terminal /\ new # status THEN Append(finished, new) ELSE finished

Bound == dispatch = "bound"

Active(c) == ctl[c].state # "free"

-----------------------------------------------------------------------------
(***************************************************************************)
(* Cancellations and status queries: create_task_run_control for the API,  *)
(* monitor_task_runs_once for the monitor.                                 *)
(***************************************************************************)

(* The monitor holds back while any control is under way.  The identifier  *)
(* of a deadline control names the fence of the run, which the control     *)
(* itself changes, so an earlier control never has the same identifier.    *)
DeadlineDue ==
  /\ overdue
  /\ status \in {"pending", "running", "submitted", "completion_pending"}
  /\ \A c \in Controls : ~Active(c)

NoteDeadline(due) ==
  deadlines' = IF due /\ deadlines < DeadlineCap THEN deadlines + 1 ELSE deadlines

Create(c, action, local, before) ==
  /\ ctl[c].state = "free"
  /\ ctl' = [ctl EXCEPT ![c] = NewControl(action, local)]
  /\ fresh' = before \union {c}

(* The launch event is still pending: run and event are cancelled at once. *)
CancelLocally(c, due) ==
  /\ due => DeadlineDue
  /\ ~Bound
  /\ status = "pending"
  /\ launch = "pending"
  /\ launch' = "cancelled"
  /\ Become("cancelled")
  /\ Emit("cancelled")
  /\ Create(c, "cancel", TRUE, {})
  /\ NoteDeadline(due)
  /\ UNCHANGED <<dispatch, engineVars, receipt, mat, overdue>>

(* The run is bound to a Dagster run: a control has to terminate it. *)
CancelBound(c, due) ==
  /\ due => DeadlineDue
  /\ Bound
  /\ status \in {"running", "submitted", "completion_pending"}
  /\ Become("cancelling")
  /\ Create(c, "cancel", FALSE, {})
  /\ NoteDeadline(due)
  /\ UNCHANGED <<dispatch, finished, launch, engineVars, receipt, mat, overdue>>

(* The API reuses a status query that is under way. *)
RequestSync(c) ==
  /\ status \notin Terminal
  /\ Bound
  /\ \A d \in Controls : Active(d) => ctl[d].action # "status_sync"
  /\ Create(c, "status_sync", FALSE, fresh)
  /\ UNCHANGED <<runVars, launch, engineVars, receipt, mat, clockVars>>

(* Slip: a run that is being cancelled is not queried. *)
ScheduleSyncUncancelled(c) ==
  /\ status \in {"running", "submitted", "completion_pending"}
  /\ ~overdue
  /\ Bound
  /\ \A d \in Controls : ~Active(d)
  /\ Create(c, "status_sync", FALSE, {})
  /\ UNCHANGED <<runVars, launch, engineVars, receipt, mat, clockVars>>

(* The monitor's own query opens a new monitor generation. *)
ScheduleSync(c) ==
  /\ status \in {"running", "submitted", "completion_pending", "cancelling"}
  /\ overdue => status = "cancelling"
  /\ Bound
  /\ \A d \in Controls : ~Active(d)
  /\ Create(c, "status_sync", FALSE, {})
  /\ UNCHANGED <<runVars, launch, engineVars, receipt, mat, clockVars>>

DeadlinePasses ==
  /\ ~overdue
  /\ overdue' = TRUE
  /\ UNCHANGED <<runVars, launch, engineVars, receipt, mat, controlVars, deadlines>>

-----------------------------------------------------------------------------
(***************************************************************************)
(* The completion receipt.                                                 *)
(***************************************************************************)

(* What becomes of a receipt and of its run, which is in status base: the  *)
(* common part of complete_run_from_receipt and apply_staged.              *)
Outcome(new, state, event) == [status |-> new, receipt |-> state, mat |-> event]

(* Slip: an early receipt is applied without comparing the binding. *)
AppliedUnbound(base, r, valid) ==
  CASE ~valid -> Outcome(base, "rejected", mat)
    [] valid /\ r.outcome = "failed" -> Outcome("failed", "completed", mat)
    [] OTHER -> IF Contract THEN Outcome("completion_pending", "materializing", "pending")
                            ELSE Outcome("success", "completed", mat)

Acceptable(base, r, valid) ==
  r.own /\ valid /\ base \in {"running", "submitted", "completion_pending"}

Applied(base, r, valid) ==
  CASE ~Acceptable(base, r, valid) -> Outcome(base, "rejected", mat)
    [] Acceptable(base, r, valid) /\ r.outcome = "failed" -> Outcome("failed", "completed", mat)
    [] OTHER -> IF Contract THEN Outcome("completion_pending", "materializing", "pending")
                            ELSE Outcome("success", "completed", mat)

(* The transaction ends with this outcome. *)
Commit(outcome, r) ==
  /\ status' = outcome.status
  /\ Emit(outcome.status)
  /\ receipt' = [r EXCEPT !.state = outcome.receipt]
  /\ mat' = outcome.mat

(* Who sends receipts: the job itself, towards its end, or the job of a    *)
(* second Dagster run of the same request.                                 *)
Sends(outcome, own) ==
  /\ receipt.state = "none"
  /\ IF own THEN engine \in {"started", "canceling"} /\ ~told
            ELSE Strays /\ engine # "absent"
  /\ told' = (told \/ (own /\ outcome = "success"))

(* Before the launch is recorded there is nothing to compare the receipt   *)
(* with (_stageable_early_dagster_completion).                             *)
StageEarly(outcome, own) ==
  /\ status \in {"pending", "running"}
  /\ dispatch = "none"
  /\ Sends(outcome, own)
  /\ receipt' = [state |-> "pending_binding", outcome |-> outcome, own |-> own]
  /\ UNCHANGED <<runVars, launch, engine, asked, mat, controlVars, clockVars>>

(* While a cancellation is undecided a success has to wait; a failure is   *)
(* refused (_stageable_cancelling_dagster_completion).                     *)
StageDuringCancellation ==
  /\ status = "cancelling"
  /\ Bound
  /\ Sends("success", TRUE)
  /\ receipt' = [state |-> "pending_cancel", outcome |-> "success", own |-> TRUE]
  /\ UNCHANGED <<runVars, launch, engine, asked, mat, controlVars, clockVars>>

(* complete_run_from_receipt: a receipt that does not match the binding or *)
(* the contract is refused and leaves no trace.                            *)
AcceptReceipt(outcome) ==
  LET r == [state |-> "none", outcome |-> outcome, own |-> TRUE]
      result == Applied(status, r, TRUE) IN
  /\ status \in {"running", "submitted", "completion_pending"}
  /\ Bound
  /\ Sends(outcome, TRUE)
  /\ Commit(result, r)
  /\ fresh' = FreshAfter(result.status)
  /\ UNCHANGED <<dispatch, launch, engine, asked, ctl, clockVars>>

-----------------------------------------------------------------------------
(***************************************************************************)
(* The launch event.                                                       *)
(***************************************************************************)

(* _prepare_claim; the first attempt moves the run on. *)
LaunchPrepare ==
  /\ launch = "pending"
  /\ status \in {"pending", "running"}
  /\ launch' = "processing"
  /\ status' = "running"
  /\ fresh' = FreshAfter("running")
  /\ UNCHANGED <<dispatch, finished, engineVars, receipt, mat, ctl, clockVars>>

(* submit_run_request takes effect, whether or not the worker learns so *)
LaunchCall ==
  /\ launch = "processing"
  /\ engine = "absent"
  /\ engine' = "queued"
  /\ UNCHANGED <<runVars, launch, told, asked, receipt, mat, controlVars, clockVars>>

(* _finalize_success: the binding is stored, and a receipt that came early *)
(* is compared with it and applied in the same transaction.                *)
LaunchConfirm(valid) ==
  /\ launch = "processing"
  /\ engine # "absent"
  /\ status = "running"
  /\ launch' = "processed"
  /\ dispatch' = "bound"
  /\ Commit(IF receipt.state = "pending_binding" THEN Applied("submitted", receipt, valid)
            ELSE Outcome("submitted", receipt.state, mat), receipt)
  /\ fresh' = {}
  /\ UNCHANGED <<engineVars, ctl, clockVars>>

(* A failed call is noted in the run before the next attempt; a crash of   *)
(* the worker leaves no note.                                              *)
LaunchRetry(noted) ==
  /\ launch = "processing"
  /\ launch' = "pending"
  /\ dispatch' = IF noted THEN "failed" ELSE dispatch
  /\ UNCHANGED <<status, finished, engineVars, receipt, mat, controlVars, clockVars>>

LaunchDeadLetter ==
  /\ launch = "processing"
  /\ status = "running"
  /\ launch' = "dead_letter"
  /\ dispatch' = "failed"
  /\ Become("failed")
  /\ Emit("failed")
  /\ fresh' = {}
  /\ UNCHANGED <<engineVars, receipt, mat, ctl, clockVars>>

-----------------------------------------------------------------------------
(***************************************************************************)
(* The Dagster run, seen from outside.  The job ends well only after its   *)
(* success receipt was accepted (runtime.py); a receipt that is refused or *)
(* lost too often fails the job.                                           *)
(***************************************************************************)

EngineStarts ==
  /\ engine = "queued"
  /\ engine' = "started"
  /\ UNCHANGED <<runVars, launch, told, asked, receipt, mat, controlVars, clockVars>>

EngineEnds(end) ==
  /\ engine \in EngineAlive
  /\ end = "success" => told /\ engine # "queued"
  /\ end = "canceled" => engine = "canceling"
  /\ engine' = end
  /\ UNCHANGED <<runVars, launch, told, asked, receipt, mat, controlVars, clockVars>>

-----------------------------------------------------------------------------
(***************************************************************************)
(* Delivery of a control.  Its fence is checked three times.               *)
(***************************************************************************)

(* _confirm_superseded_task_run_control, or the end of _finalize_success *)
Release(c) == ctl' = [ctl EXCEPT ![c] = Free]

(* Slip: no fence. *)
FenceAlwaysMatches(c) == TRUE

FenceMatches(c) == c \in fresh

Advance(c, state) ==
  ctl' = IF FenceMatches(c) THEN [ctl EXCEPT ![c].state = state] ELSE [ctl EXCEPT ![c] = Free]

(* _prepare_claim and _mark_remote_operation_started *)
ControlPrepare(c) ==
  /\ ctl[c].state = "pending"
  /\ Advance(c, "prepared")
  /\ UNCHANGED <<runVars, launch, engineVars, receipt, mat, fresh, clockVars>>

ControlStart(c) ==
  /\ ctl[c].state = "prepared"
  /\ Advance(c, "started")
  /\ UNCHANGED <<runVars, launch, engineVars, receipt, mat, fresh, clockVars>>

(* Slip: an accepted termination is taken for a finished one. *)
RepliedHastily(c, observed) ==
  ctl' = [ctl EXCEPT ![c].state = "replied",
                     ![c].observed = IF observed = "canceling" THEN "canceled" ELSE observed]

Replied(c, observed) ==
  ctl' = [ctl EXCEPT ![c].state = "replied", ![c].observed = observed]

(* A local cancellation asks nobody. *)
ControlLocal(c) ==
  /\ ctl[c].state = "started"
  /\ ctl[c].local
  /\ Replied(c, "canceled")
  /\ UNCHANGED <<runVars, launch, engineVars, receipt, mat, fresh, clockVars>>

(* cancel_run: Dagster starts to terminate a live run. *)
ControlTerminate(c) ==
  /\ ctl[c].state = "started"
  /\ ctl[c].action = "cancel"
  /\ ~ctl[c].local
  /\ ~ctl[c].reconcile
  /\ engine \in EngineAlive
  /\ engine' = "canceling"
  /\ asked' = TRUE
  /\ Replied(c, "canceling")
  /\ UNCHANGED <<runVars, launch, told, receipt, mat, fresh, clockVars>>

(* cancel_run: Dagster refuses, in particular to terminate a run that has  *)
(* ended.  The control ends as a dead letter and the run is left alone.    *)
ControlRefused(c) ==
  /\ ctl[c].state = "started"
  /\ ctl[c].action = "cancel"
  /\ ~ctl[c].local
  /\ ~ctl[c].reconcile
  /\ asked' = TRUE
  /\ Release(c)
  /\ fresh' = fresh \ {c}
  /\ UNCHANGED <<runVars, launch, engine, told, receipt, mat, clockVars>>

(* get_run_status, which is also how an uncertain cancellation is settled *)
ControlObserve(c) ==
  /\ ctl[c].state = "started"
  /\ ~ctl[c].local
  /\ ctl[c].action = "status_sync" \/ ctl[c].reconcile
  /\ Replied(c, engine)
  /\ UNCHANGED <<runVars, launch, engineVars, receipt, mat, fresh, clockVars>>

(* An error that may be retried, or a crash; after a crash the outcome of  *)
(* the call counts as unknown.                                             *)
ControlRetry(c, unknown) ==
  /\ ctl[c].state \in {"started", "replied"}
  /\ ctl[c].state = "replied" => unknown
  /\ ctl' = [ctl EXCEPT ![c].state = "pending", ![c].observed = "absent",
                        ![c].reconcile = @ \/ unknown]
  /\ UNCHANGED <<runVars, launch, engineVars, receipt, mat, fresh, clockVars>>

(* The attempts are used up; the run is left alone. *)
ControlDeadLetter(c) ==
  /\ ctl[c].state = "started"
  /\ Release(c)
  /\ fresh' = fresh \ {c}
  /\ UNCHANGED <<runVars, launch, engineVars, receipt, mat, clockVars>>

(* What an observation makes of the run, see _finalize_task_run_control.   *)
Target(action, observed) ==
  CASE status \in Terminal -> status
    [] status \notin Terminal /\ observed = "canceled" -> "cancelled"
    [] status \notin Terminal /\ observed = "failure" -> "failed"
    [] status \notin Terminal /\ observed = "success"
         /\ \/ status \in {"submitted", "running", "cancelling"}
            \/ action = "cancel" -> "completion_pending"
    [] action = "status_sync" /\ observed = "queued" /\ status = "running" -> "submitted"
    [] action = "status_sync" /\ observed = "started" /\ status = "submitted" -> "running"
    [] OTHER -> status

(* Slip: a receipt that lost the race is forgotten. *)
ResolvedOnSuccess(new, observed, valid) ==
  IF receipt.state = "pending_cancel" /\ observed = "success"
  THEN Applied(new, receipt, valid) ELSE Outcome(new, receipt.state, mat)

(* resolve_cancellation_race_dagster_completion *)
Resolved(new, observed, valid) ==
  IF receipt.state # "pending_cancel" \/ observed \notin EngineEnded
  THEN Outcome(new, receipt.state, mat)
  ELSE IF observed = "success" THEN Applied(new, receipt, valid)
                               ELSE Outcome(new, "rejected", mat)

ControlFinalize(c, valid) ==
  LET new == Target(ctl[c].action, ctl[c].observed)
      result == Resolved(new, ctl[c].observed, valid) IN
  /\ ctl[c].state = "replied"
  /\ FenceMatches(c)
  /\ new = status \/ new \in Transitions[status]
  /\ Commit(result, receipt)
  /\ Release(c)
  /\ fresh' = FreshAfter(result.status) \ {c}
  /\ UNCHANGED <<dispatch, launch, engineVars, clockVars>>

(* _supersede_task_run_control *)
ControlSuperseded(c) ==
  /\ ctl[c].state = "replied"
  /\ ~FenceMatches(c)
  /\ Release(c)
  /\ UNCHANGED <<runVars, launch, engineVars, receipt, mat, fresh, clockVars>>

-----------------------------------------------------------------------------
(***************************************************************************)
(* The materialization event.                                              *)
(***************************************************************************)

(* _prepare_claim.  A run that no longer waits for its results ends the    *)
(* delivery for good, but in a transaction of its own.                     *)
MaterializePrepare ==
  /\ mat = "pending"
  /\ mat' = IF status \in {"pending", "running", "completion_pending"}
            THEN "processing" ELSE "refused"
  /\ UNCHANGED <<runVars, launch, engineVars, receipt, controlVars, clockVars>>

(* materialize_staged_execution_completion *)
Materialize(new) ==
  /\ mat = "processing"
  /\ receipt.state = "materializing"
  /\ status = "completion_pending"
  /\ Commit(Outcome(new, "completed", "processed"), receipt)
  /\ fresh' = FreshAfter(new)
  /\ UNCHANGED <<dispatch, launch, engineVars, ctl, clockVars>>

(* The materializer raised, the run was not completion_pending any more,   *)
(* or the worker is gone.                                                  *)
MaterializeRetry ==
  /\ mat \in {"processing", "refused"}
  /\ mat' = "pending"
  /\ UNCHANGED <<runVars, launch, engineVars, receipt, controlVars, clockVars>>

(* fail_staged_execution_materialization, if the run still waits *)
MaterializeDeadLetter ==
  LET new == IF status = "completion_pending" THEN "failed" ELSE status
      state == IF status = "completion_pending" THEN "completed" ELSE receipt.state IN
  /\ mat \in {"processing", "refused"}
  /\ Commit(Outcome(new, state, "dead_letter"), receipt)
  /\ fresh' = FreshAfter(new)
  /\ UNCHANGED <<dispatch, launch, engineVars, ctl, clockVars>>

-----------------------------------------------------------------------------
LaunchStep ==
  \/ LaunchPrepare \/ LaunchCall \/ LaunchDeadLetter
  \/ \E valid \in BOOLEAN : LaunchConfirm(valid)
  \/ \E noted \in BOOLEAN : LaunchRetry(noted)

ReceiptStep ==
  \/ \E outcome \in {"success", "failed"} :
       AcceptReceipt(outcome) \/ \E own \in BOOLEAN : StageEarly(outcome, own)
  \/ StageDuringCancellation

MaterializeStep ==
  \/ MaterializePrepare \/ MaterializeRetry \/ MaterializeDeadLetter
  \/ \E new \in {"success", "failed"} : Materialize(new)

CreateControl(c) ==
  \/ \E due \in BOOLEAN : CancelLocally(c, due) \/ CancelBound(c, due)
  \/ RequestSync(c)
  \/ ScheduleSync(c)

DeliverControl(c) ==
  \/ ControlPrepare(c) \/ ControlStart(c)
  \/ ControlLocal(c) \/ ControlTerminate(c) \/ ControlRefused(c) \/ ControlObserve(c)
  \/ \E unknown \in BOOLEAN : ControlRetry(c, unknown)
  \/ ControlDeadLetter(c)
  \/ \E valid \in BOOLEAN : ControlFinalize(c, valid)
  \/ ControlSuperseded(c)

EngineStep == EngineStarts \/ \E end \in EngineEnded : EngineEnds(end)

Next ==
  \/ LaunchStep \/ ReceiptStep \/ MaterializeStep \/ EngineStep \/ DeadlinePasses
  \/ \E c \in Controls : CreateControl(c) \/ DeliverControl(c)

Spec == Init /\ [][Next]_vars

(* The monitor and the workers run for ever, a Dagster run ends sooner or  *)
(* later, attempts are bounded (_mark_retry_or_dead_letter), and queries   *)
(* that are made for ever succeed now and then.                            *)
Fairness ==
  /\ WF_vars(EngineStep)
  /\ SF_vars(\E c \in Controls : ScheduleSync(c))
  /\ \A c \in Controls :
       /\ WF_vars(ControlPrepare(c) \/ ControlStart(c))
       /\ SF_vars(ControlLocal(c) \/ ControlRefused(c) \/ ControlDeadLetter(c))
       /\ SF_vars(ControlObserve(c))
       /\ SF_vars((\E valid \in BOOLEAN : ControlFinalize(c, valid)) \/ ControlSuperseded(c))

FairSpec == Spec /\ Fairness

-----------------------------------------------------------------------------
(***************************************************************************)
(* Properties.                                                             *)
(***************************************************************************)

(* The records, flags and statuses the transactions above can write. *)
TypeOK ==
  /\ status \in Statuses
  /\ dispatch \in {"none", "failed", "bound"}
  /\ launch \in {"pending", "processing", "processed", "dead_letter", "cancelled"}
  /\ engine \in EngineStatuses
  /\ told \in BOOLEAN
  /\ asked \in BOOLEAN
  /\ receipt \in Receipt
  /\ mat \in {"none", "pending", "processing", "refused", "processed", "dead_letter"}
  /\ ctl \in [Controls -> Control]
  /\ fresh \in SUBSET Controls
  /\ overdue \in BOOLEAN
  /\ deadlines \in 0 .. DeadlineCap
  /\ finished \in Seq(Terminal)

(* However cancellation, completion, launch failures and observations of   *)
(* the engine race, the run ends once: exactly one terminal event is       *)
(* emitted, and it names the status the run has for good                   *)
(* (emit_task_run_terminal_event).                                         *)
OneTerminalEvent ==
  finished = IF status \in Terminal THEN <<status>> ELSE <<>>

(* Success takes the accepted receipt of the very Dagster run the launch   *)
(* is bound to; no engine status and no receipt of another run replaces it *)
(* (apply_staged_dagster_completion, materialize_staged).                  *)
SuccessIsProven ==
  status = "success" =>
    /\ receipt = [state |-> "completed", outcome |-> "success", own |-> TRUE]
    /\ launch = "processed"
    /\ engine # "absent"

(* A run shown as cancelled has stopped: nothing of it runs in the engine  *)
(* and nothing will start it later (cancel_pending_task_run_dispatch,      *)
(* _finalize_task_run_control).                                            *)
CancelledIsStopped ==
  status = "cancelled" =>
    /\ engine \in {"absent", "canceled"}
    /\ launch \in {"cancelled", "processed"}

(* A success receipt that arrived during a cancellation is decided with    *)
(* it: it never outlives the status cancelling                             *)
(* (resolve_cancellation_race_dagster_completion).                         *)
DecidedWithCancellation ==
  receipt.state = "pending_cancel" => status = "cancelling"

(* A control that was overtaken by another transition leaves run and       *)
(* receipt alone when it is finalized (_task_run_control_fence).           *)
StaleControlHarmless ==
  [][\A c \in Controls :
       ctl[c].state = "replied" /\ c \notin fresh /\ ctl'[c] # ctl[c]
         => UNCHANGED <<status, receipt, mat, finished>>]_vars

(* A cancellation is decided in the end: some observation of the engine    *)
(* takes the run out of cancelling (monitor_task_runs_once).               *)
CancellationDecided == status = "cancelling" ~> status # "cancelling"

(* One deadline leads to one cancellation control. *)
OneDeadlineControl == deadlines <= 1

(* A receipt that waits for the binding or for the end of a cancellation   *)
(* is rejected when the run ends without it.                               *)
EndedRunHoldsNoReceipt ==
  status \in Terminal => receipt.state \notin {"pending_binding", "pending_cancel"}

(* A cancellation control that is recorded as successful has reached the   *)
(* engine, unless the Dagster run had ended by itself.                     *)
ConfirmedCancelWasRequested ==
  [][\A c \in fresh :
       /\ ctl[c].state = "replied"
       /\ ctl[c].action = "cancel"
       /\ ~ctl[c].local
       /\ ctl'[c] = Free
       => asked \/ engine \in EngineEnded]_vars

(* A run that waits in completion_pending, and is not being materialized,  *)
(* waits for a receipt that is missing.                                    *)
WaitsForReceipt ==
  status = "completion_pending" /\ mat \notin {"pending", "processing", "refused"}
    => receipt.state # "materializing"
=============================================================================

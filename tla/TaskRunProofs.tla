---------------------------- MODULE TaskRunProofs ----------------------------
(***************************************************************************)
(* Proofs about TaskRun, for every number of controls, with and without a  *)
(* contract and stray Dagster runs: the safety properties of the run.      *)
(*                                                                         *)
(* The argument.  Until the launch is recorded nobody but the launch moves *)
(* the run (LaunchInv): every control that asks Dagster is created for a   *)
(* bound run, and a receipt is only parked.  A receipt that can still end  *)
(* the run well is the bound run's own (ReceiptInv).  What a control has   *)
(* observed for good stays true, since a Dagster run that has ended never  *)
(* lives again (ControlInv).                                               *)
(***************************************************************************)
EXTENDS TaskRun, SequenceTheorems, TLAPS

(* How far the launch is, seen from the run, its binding and the engine. *)
LaunchInv ==
  /\ Bound <=> launch = "processed"
  /\ launch = "processed" => engine # "absent"
  /\ launch = "pending" => status \in {"pending", "running"}
  /\ launch = "processing" => status = "running"
  /\ launch = "dead_letter" => status = "failed"
  /\ launch = "cancelled" => status = "cancelled" /\ engine = "absent"
  /\ status = "pending" => launch = "pending" /\ engine = "absent"

(* A receipt that waits for the end of a cancellation or for the business  *)
(* results is the success of the very run the launch is bound to.          *)
ReceiptInv ==
  receipt.state \in {"pending_cancel", "materializing"} =>
    receipt.outcome = "success" /\ receipt.own /\ Bound

(* A local control belongs to a run that was cancelled before its launch;  *)
(* any other to a bound run.  A cancellation that was seen has happened.   *)
ControlInv ==
  \A c \in Controls :
    /\ ctl[c].local => status = "cancelled"
    /\ Active(c) => ctl[c].local \/ Bound
    /\ ctl[c].observed = "canceled" => ctl[c].local \/ engine = "canceled"

RunInv == /\ OneTerminalEvent /\ SuccessIsProven /\ CancelledIsStopped
          /\ DecidedWithCancellation /\ LaunchInv /\ ReceiptInv

Inv == TypeOK /\ RunInv /\ ControlInv

-----------------------------------------------------------------------------
(***************************************************************************)
(* What steps have in common.                                              *)
(***************************************************************************)

(* What a control has been built on is never taken back. *)
Lasting == /\ status = "cancelled" => status' = "cancelled"
           /\ Bound => Bound'
           /\ engine = "canceled" => engine' = "canceled"

LEMMA ControlsKept ==
  ASSUME ControlInv, ctl' = ctl, Lasting
  PROVE  ControlInv'
  BY DEF ControlInv, Lasting, Active

(* A step may write one control. *)
LEMMA ControlWritten ==
  ASSUME TypeOK, ControlInv, Lasting, NEW c \in Controls, NEW k \in Control,
         ctl' = [ctl EXCEPT ![c] = k],
         k.local => status' = "cancelled",
         k.state # "free" => k.local \/ Bound',
         k.observed = "canceled" => k.local \/ engine' = "canceled"
  PROVE  ControlInv' /\ ctl' \in [Controls -> Control]
  <1>1. ctl \in [Controls -> Control]
    BY DEF TypeOK
  <1>2. ctl'[c] = k /\ \A d \in Controls \ {c} : ctl'[d] = ctl[d]
    BY <1>1
  <1>3. ctl' \in [Controls -> Control]
    BY <1>1
  <1>4. ASSUME NEW d \in Controls
        PROVE  /\ ctl'[d].local => status' = "cancelled"
               /\ ctl'[d].state # "free" => ctl'[d].local \/ Bound'
               /\ ctl'[d].observed = "canceled" => ctl'[d].local \/ engine' = "canceled"
    <2>1. CASE d = c
      BY <1>2, <2>1
    <2>2. CASE d # c
      BY <1>2, <2>2 DEF ControlInv, Lasting, Active
    <2> QED
      BY <2>1, <2>2
  <1> QED
    BY <1>3, <1>4 DEF ControlInv, Active

(* A run that has ended keeps its status, so its one event is not repeated. *)
LEMMA EmitOnce ==
  ASSUME TypeOK, OneTerminalEvent, NEW new \in Statuses,
         status \in Terminal => new = status, status' = new, Emit(new)
  PROVE  OneTerminalEvent' /\ finished' \in Seq(Terminal)
  <1>1. finished' = IF new \in Terminal THEN <<new>> ELSE <<>>
    <2>1. CASE status \in Terminal
      BY <2>1 DEF Emit, OneTerminalEvent
    <2>2. CASE status \notin Terminal
      <3>1. finished = <<>>
        BY <2>2 DEF OneTerminalEvent
      <3>2. Append(<<>>, new) = <<new>>
        OBVIOUS
      <3> QED
        BY <2>2, <3>1, <3>2 DEF Emit
    <2> QED
      BY <2>1, <2>2
  <1> QED
    BY <1>1 DEF OneTerminalEvent

(* The four ways a receipt can go. *)
LEMMA AppliedCases ==
  ASSUME NEW base, NEW r \in Receipt, NEW valid \in BOOLEAN
  PROVE  \/ Applied(base, r, valid) = Outcome(base, "rejected", mat)
         \/ /\ base \in {"running", "submitted", "completion_pending"}
            /\ \/ Applied(base, r, valid) = Outcome("failed", "completed", mat)
               \/ /\ r.outcome = "success" /\ r.own
                  /\ \/ Applied(base, r, valid) = Outcome("completion_pending", "materializing", "pending")
                     \/ Applied(base, r, valid) = Outcome("success", "completed", mat)
  BY DEF Applied, Acceptable, Receipt

(* What a transaction that decides on a receipt leaves behind. *)
MatStatuses == {"none", "pending", "processing", "refused", "processed", "dead_letter"}

LEMMA Committed ==
  ASSUME TypeOK, OneTerminalEvent, NEW new \in Statuses, NEW st \in ReceiptStates,
         NEW ev, NEW r \in Receipt, Commit(Outcome(new, st, ev), r),
         status \in Terminal => new = status
  PROVE  /\ status' = new /\ mat' = ev
         /\ receipt' \in Receipt /\ receipt'.state = st
         /\ receipt'.outcome = r.outcome /\ receipt'.own = r.own
         /\ OneTerminalEvent' /\ finished' \in Seq(Terminal)
  <1>1. status' = new /\ mat' = ev /\ Emit(new) /\ receipt' = [r EXCEPT !.state = st]
    BY DEF Commit, Outcome
  <1>2. /\ receipt' \in Receipt /\ receipt'.state = st
        /\ receipt'.outcome = r.outcome /\ receipt'.own = r.own
    BY <1>1 DEF Receipt
  <1> QED
    BY <1>1, <1>2, EmitOnce

(* A receipt equals a record of this form when its fields do. *)
LEMMA ReceiptIs ==
  ASSUME NEW r \in Receipt, r.state = "completed", r.outcome = "success", r.own
  PROVE  r = [state |-> "completed", outcome |-> "success", own |-> TRUE]
  BY DEF Receipt

-----------------------------------------------------------------------------
(***************************************************************************)
(* The launch.                                                             *)
(***************************************************************************)

LEMMA LaunchPreserves ==
  ASSUME Inv, LaunchStep
  PROVE  Inv'
  <1> USE DEF Inv
  <1>1. CASE LaunchPrepare
    <2>1. /\ launch = "pending" /\ status \in {"pending", "running"}
          /\ launch' = "processing" /\ status' = "running"
          /\ fresh' \in {fresh, {}}
          /\ UNCHANGED <<dispatch, finished, engine, told, asked, receipt, mat, ctl, overdue, deadlines>>
      BY <1>1 DEF LaunchPrepare, FreshAfter, engineVars, clockVars
    <2>2. TypeOK'
      BY <2>1 DEF TypeOK, Statuses
    <2>3. RunInv'
      BY <2>1 DEF RunInv, OneTerminalEvent, SuccessIsProven, CancelledIsStopped,
                  DecidedWithCancellation, LaunchInv, ReceiptInv, Bound, Terminal, TypeOK
    <2>4. ControlInv'
      BY <2>1, ControlsKept DEF Lasting, Bound
    <2> QED
      BY <2>2, <2>3, <2>4
  <1>2. CASE LaunchCall
    <2>1. /\ launch = "processing" /\ engine = "absent" /\ engine' = "queued"
          /\ UNCHANGED <<status, dispatch, finished, launch, told, asked, receipt, mat,
                         ctl, fresh, overdue, deadlines>>
      BY <1>2 DEF LaunchCall, runVars, controlVars, clockVars
    <2>2. TypeOK'
      BY <2>1 DEF TypeOK, EngineStatuses, EngineAlive
    <2>3. RunInv'
      BY <2>1 DEF RunInv, OneTerminalEvent, SuccessIsProven, CancelledIsStopped,
                  DecidedWithCancellation, LaunchInv, ReceiptInv, Bound
    <2>4. ControlInv'
      BY <2>1, ControlsKept DEF Lasting, Bound
    <2> QED
      BY <2>2, <2>3, <2>4
  <1>3. CASE LaunchDeadLetter
    <2>1. /\ launch = "processing" /\ status = "running" /\ status' = "failed"
          /\ launch' = "dead_letter" /\ dispatch' = "failed" /\ fresh' = {} /\ Emit("failed")
          /\ UNCHANGED <<engine, told, asked, receipt, mat, ctl, overdue, deadlines>>
      BY <1>3 DEF LaunchDeadLetter, Become, engineVars, clockVars
    <2>2. OneTerminalEvent' /\ finished' \in Seq(Terminal)
      BY <2>1, EmitOnce DEF RunInv, Statuses, Terminal
    <2>3. TypeOK'
      BY <2>1, <2>2 DEF TypeOK, Statuses, Terminal
    <2>4. ~Bound
      BY <2>1 DEF RunInv, LaunchInv
    <2>5. RunInv'
      BY <2>1, <2>2, <2>4 DEF RunInv, SuccessIsProven, CancelledIsStopped,
                  DecidedWithCancellation, LaunchInv, ReceiptInv, Bound
    <2>6. ControlInv'
      BY <2>1, <2>4, ControlsKept DEF Lasting
    <2> QED
      BY <2>3, <2>5, <2>6
  <1>4. ASSUME NEW noted \in BOOLEAN, LaunchRetry(noted) PROVE Inv'
    <2>1. /\ launch = "processing" /\ launch' = "pending" /\ dispatch' \in {"failed", dispatch}
          /\ UNCHANGED <<status, finished, engine, told, asked, receipt, mat, ctl, fresh,
                         overdue, deadlines>>
      BY <1>4 DEF LaunchRetry, engineVars, controlVars, clockVars
    <2>2. TypeOK'
      BY <2>1 DEF TypeOK
    <2>3. ~Bound /\ ~Bound' /\ status = "running"
      BY <2>1 DEF RunInv, LaunchInv, Bound
    <2>4. RunInv'
      BY <2>1, <2>3 DEF RunInv, OneTerminalEvent, SuccessIsProven, CancelledIsStopped,
                  DecidedWithCancellation, LaunchInv, ReceiptInv
    <2>5. ControlInv'
      BY <2>1, <2>3, ControlsKept DEF Lasting
    <2> QED
      BY <2>2, <2>4, <2>5
  <1>5. ASSUME NEW valid \in BOOLEAN, LaunchConfirm(valid) PROVE Inv'
    <2>1. /\ launch = "processing" /\ engine # "absent" /\ status = "running"
          /\ launch' = "processed" /\ dispatch' = "bound" /\ fresh' = {}
          /\ UNCHANGED <<engine, told, asked, ctl, overdue, deadlines>>
      BY <1>5 DEF LaunchConfirm, engineVars, clockVars
    <2>2. \E new \in Statuses, st \in ReceiptStates, ev \in MatStatuses :
            /\ Commit(Outcome(new, st, ev), receipt)
            /\ \/ new \in {"submitted", "failed"} /\ st \notin {"pending_cancel", "materializing"}
               \/ /\ new \in {"completion_pending", "success"}
                  /\ st = IF new = "success" THEN "completed" ELSE "materializing"
                  /\ receipt.outcome = "success" /\ receipt.own
      <3>1. mat \in MatStatuses /\ receipt \in Receipt /\ receipt.state \in ReceiptStates
        BY DEF TypeOK, MatStatuses, Receipt
      <3>2. CASE receipt.state # "pending_binding"
        <4>1. Commit(Outcome("submitted", receipt.state, mat), receipt)
          BY <1>5, <3>2 DEF LaunchConfirm
        <4>2. receipt.state \notin {"pending_cancel", "materializing"}
          BY <2>1 DEF RunInv, LaunchInv, ReceiptInv
        <4> QED
          BY <3>1, <4>1, <4>2 DEF Statuses
      <3>3. CASE receipt.state = "pending_binding"
        <4>1. Commit(Applied("submitted", receipt, valid), receipt)
          BY <1>5, <3>3 DEF LaunchConfirm
        <4>2. \/ Applied("submitted", receipt, valid) = Outcome("submitted", "rejected", mat)
              \/ Applied("submitted", receipt, valid) = Outcome("failed", "completed", mat)
              \/ /\ receipt.outcome = "success" /\ receipt.own
                 /\ \/ Applied("submitted", receipt, valid)
                         = Outcome("completion_pending", "materializing", "pending")
                    \/ Applied("submitted", receipt, valid) = Outcome("success", "completed", mat)
          BY <3>1, AppliedCases
        <4> HIDE DEF Inv
        <4> QED
          BY <3>1, <4>1, <4>2 DEF Statuses, Terminal, ReceiptStates, MatStatuses
      <3> QED
        BY <3>2, <3>3
    <2>3. PICK new \in Statuses, st \in ReceiptStates, ev \in MatStatuses :
            /\ Commit(Outcome(new, st, ev), receipt)
            /\ \/ new \in {"submitted", "failed"} /\ st \notin {"pending_cancel", "materializing"}
               \/ /\ new \in {"completion_pending", "success"}
                  /\ st = IF new = "success" THEN "completed" ELSE "materializing"
                  /\ receipt.outcome = "success" /\ receipt.own
      BY <2>2
    <2>4. /\ status' = new /\ mat' = ev /\ receipt' \in Receipt /\ receipt'.state = st
          /\ receipt'.outcome = receipt.outcome /\ receipt'.own = receipt.own
          /\ OneTerminalEvent' /\ finished' \in Seq(Terminal)
      BY <2>1, <2>3, Committed DEF RunInv, TypeOK, Terminal
    <2>5. TypeOK'
      BY <2>1, <2>4 DEF TypeOK, MatStatuses
    <2>6. RunInv'
      <3>1. SuccessIsProven'
        BY <2>1, <2>3, <2>4, ReceiptIs DEF SuccessIsProven
      <3>2. ReceiptInv' /\ LaunchInv' /\ CancelledIsStopped' /\ DecidedWithCancellation'
        BY <2>1, <2>3, <2>4 DEF ReceiptInv, LaunchInv, CancelledIsStopped,
                                DecidedWithCancellation, Bound
      <3> QED
        BY <2>4, <3>1, <3>2 DEF RunInv
    <2>7. ControlInv'
      BY <2>1, ControlsKept DEF Lasting, Bound
    <2> QED
      BY <2>5, <2>6, <2>7
  <1> QED
    BY <1>1, <1>2, <1>3, <1>4, <1>5 DEF LaunchStep

-----------------------------------------------------------------------------
(***************************************************************************)
(* Receipts and the materialization.                                       *)
(***************************************************************************)

LEMMA ReceiptPreserves ==
  ASSUME Inv, ReceiptStep
  PROVE  Inv'
  <1> USE DEF Inv
  <1>1. ASSUME NEW outcome \in {"success", "failed"}, NEW own \in BOOLEAN,
               StageEarly(outcome, own)
        PROVE  Inv'
    <2>1. /\ status \in {"pending", "running"} /\ dispatch = "none"
          /\ told' = (told \/ (own /\ outcome = "success"))
          /\ receipt' = [state |-> "pending_binding", outcome |-> outcome, own |-> own]
          /\ UNCHANGED <<status, dispatch, finished, launch, engine, asked, mat, ctl, fresh,
                         overdue, deadlines>>
      BY <1>1 DEF StageEarly, Sends, runVars, controlVars, clockVars
    <2>2. TypeOK'
      BY <2>1 DEF TypeOK, Receipt, ReceiptStates
    <2>3. RunInv'
      BY <2>1 DEF RunInv, OneTerminalEvent, SuccessIsProven, CancelledIsStopped,
                  DecidedWithCancellation, LaunchInv, ReceiptInv, Bound
    <2>4. ControlInv'
      BY <2>1, ControlsKept DEF Lasting, Bound
    <2> QED
      BY <2>2, <2>3, <2>4
  <1>2. CASE StageDuringCancellation
    <2>1. /\ status = "cancelling" /\ Bound /\ told' = TRUE
          /\ receipt' = [state |-> "pending_cancel", outcome |-> "success", own |-> TRUE]
          /\ UNCHANGED <<status, dispatch, finished, launch, engine, asked, mat, ctl, fresh,
                         overdue, deadlines>>
      BY <1>2 DEF StageDuringCancellation, Sends, runVars, controlVars, clockVars, TypeOK
    <2>2. TypeOK'
      BY <2>1 DEF TypeOK, Receipt, ReceiptStates
    <2>3. RunInv'
      BY <2>1 DEF RunInv, OneTerminalEvent, SuccessIsProven, CancelledIsStopped,
                  DecidedWithCancellation, LaunchInv, ReceiptInv, Bound
    <2>4. ControlInv'
      BY <2>1, ControlsKept DEF Lasting, Bound
    <2> QED
      BY <2>2, <2>3, <2>4
  <1>3. ASSUME NEW outcome \in {"success", "failed"}, AcceptReceipt(outcome) PROVE Inv'
    <2> DEFINE r == [state |-> "none", outcome |-> outcome, own |-> TRUE]
               result == Applied(status, r, TRUE)
    <2>1. /\ status \in {"running", "submitted", "completion_pending"} /\ Bound
          /\ told' = (told \/ outcome = "success") /\ fresh' \in {fresh, {}}
          /\ UNCHANGED <<dispatch, launch, engine, asked, ctl, overdue, deadlines>>
      BY <1>3 DEF AcceptReceipt, Sends, FreshAfter, clockVars
    <2>2. Commit(result, r)
      BY <1>3 DEF AcceptReceipt
    <2>3. r \in Receipt /\ r.outcome = outcome /\ r.own
      BY DEF Receipt, ReceiptStates
    <2>4. \/ result = Outcome(status, "rejected", mat)
          \/ result = Outcome("failed", "completed", mat)
          \/ /\ r.outcome = "success"
             /\ \/ result = Outcome("completion_pending", "materializing", "pending")
                \/ result = Outcome("success", "completed", mat)
      BY <2>3, AppliedCases
    <2>5. mat \in MatStatuses
      BY DEF TypeOK, MatStatuses
    <2> HIDE DEF result, r
    <2>6. PICK new \in Statuses, st \in ReceiptStates, ev \in MatStatuses :
            /\ Commit(Outcome(new, st, ev), r)
            /\ \/ new \in {status, "failed"} /\ st \in {"rejected", "completed"}
               \/ /\ new \in {"completion_pending", "success"} /\ r.outcome = "success"
                  /\ st = IF new = "success" THEN "completed" ELSE "materializing"
      BY <2>1, <2>2, <2>4, <2>5 DEF Statuses, Terminal, ReceiptStates, MatStatuses
    <2>7. /\ status' = new /\ mat' = ev /\ receipt' \in Receipt /\ receipt'.state = st
          /\ receipt'.outcome = r.outcome /\ receipt'.own
          /\ OneTerminalEvent' /\ finished' \in Seq(Terminal)
      BY <2>1, <2>3, <2>6, Committed DEF RunInv, Terminal
    <2>8. TypeOK'
      BY <2>1, <2>7 DEF TypeOK, MatStatuses
    <2>9. RunInv'
      <3>1. SuccessIsProven'
        BY <2>1, <2>6, <2>7, ReceiptIs DEF SuccessIsProven, RunInv, LaunchInv
      <3>2. ReceiptInv' /\ LaunchInv' /\ CancelledIsStopped' /\ DecidedWithCancellation'
        BY <2>1, <2>6, <2>7 DEF ReceiptInv, LaunchInv, CancelledIsStopped, RunInv,
                                DecidedWithCancellation, Bound
      <3> QED
        BY <2>7, <3>1, <3>2 DEF RunInv
    <2>10. ControlInv'
      BY <2>1, ControlsKept DEF Lasting, Bound
    <2> QED
      BY <2>8, <2>9, <2>10
  <1> QED
    BY <1>1, <1>2, <1>3 DEF ReceiptStep

LEMMA MaterializePreserves ==
  ASSUME Inv, MaterializeStep
  PROVE  Inv'
  <1> USE DEF Inv
  <1>1. CASE MaterializePrepare \/ MaterializeRetry
    <2>1. /\ mat' \in MatStatuses
          /\ UNCHANGED <<status, dispatch, finished, launch, engine, told, asked, receipt, ctl,
                         fresh, overdue, deadlines>>
      BY <1>1 DEF MaterializePrepare, MaterializeRetry, MatStatuses, runVars, engineVars,
                  controlVars, clockVars
    <2>2. TypeOK'
      BY <2>1 DEF TypeOK, MatStatuses
    <2>3. RunInv'
      BY <2>1 DEF RunInv, OneTerminalEvent, SuccessIsProven, CancelledIsStopped,
                  DecidedWithCancellation, LaunchInv, ReceiptInv, Bound
    <2>4. ControlInv'
      BY <2>1, ControlsKept DEF Lasting, Bound
    <2> QED
      BY <2>2, <2>3, <2>4
  <1>2. ASSUME NEW new \in Statuses, NEW st \in ReceiptStates,
               NEW ev \in {"processed", "dead_letter"},
               Commit(Outcome(new, st, ev), receipt), fresh' \in {fresh, {}},
               UNCHANGED <<dispatch, launch, engine, told, asked, ctl, overdue, deadlines>>,
               \/ new = status /\ st = receipt.state
               \/ status = "completion_pending" /\ new = "failed" /\ st = "completed"
               \/ /\ status = "completion_pending" /\ new = "success" /\ st = "completed"
                  /\ receipt.state = "materializing"
        PROVE  Inv'
    <2>1. /\ status' = new /\ mat' = ev /\ receipt' \in Receipt /\ receipt'.state = st
          /\ receipt'.outcome = receipt.outcome /\ receipt'.own = receipt.own
          /\ OneTerminalEvent' /\ finished' \in Seq(Terminal)
      BY <1>2, Committed DEF RunInv, TypeOK, Terminal
    <2>2. TypeOK'
      BY <1>2, <2>1 DEF TypeOK
    <2>3. SuccessIsProven'
      BY <1>2, <2>1, ReceiptIs DEF RunInv, SuccessIsProven, ReceiptInv, LaunchInv
    <2>4. ReceiptInv' /\ LaunchInv' /\ CancelledIsStopped' /\ DecidedWithCancellation'
      BY <1>2, <2>1 DEF RunInv, ReceiptInv, LaunchInv, CancelledIsStopped,
                        DecidedWithCancellation, Bound
    <2>5. ControlInv'
      BY <1>2, <2>1, ControlsKept DEF Lasting, Bound
    <2> QED
      BY <2>1, <2>2, <2>3, <2>4, <2>5 DEF RunInv
  <1>3. CASE MaterializeDeadLetter
    <2> DEFINE new == IF status = "completion_pending" THEN "failed" ELSE status
               st == IF status = "completion_pending" THEN "completed" ELSE receipt.state
    <2>1. /\ Commit(Outcome(new, st, "dead_letter"), receipt) /\ fresh' \in {fresh, {}}
          /\ UNCHANGED <<dispatch, launch, engine, told, asked, ctl, overdue, deadlines>>
      BY <1>3 DEF MaterializeDeadLetter, FreshAfter, engineVars, clockVars
    <2>2. new \in Statuses /\ st \in ReceiptStates
      BY DEF TypeOK, Statuses, Terminal, Receipt, ReceiptStates
    <2>3. \/ new = status /\ st = receipt.state
          \/ status = "completion_pending" /\ new = "failed" /\ st = "completed"
      OBVIOUS
    <2> HIDE DEF new, st, Inv
    <2> QED
      BY <1>2, <2>1, <2>2, <2>3
  <1>4. ASSUME NEW new \in {"success", "failed"}, Materialize(new) PROVE Inv'
    <2>1. /\ Commit(Outcome(new, "completed", "processed"), receipt) /\ fresh' \in {fresh, {}}
          /\ receipt.state = "materializing" /\ status = "completion_pending"
          /\ UNCHANGED <<dispatch, launch, engine, told, asked, ctl, overdue, deadlines>>
      BY <1>4 DEF Materialize, FreshAfter, engineVars, clockVars
    <2>2. new \in Statuses /\ "completed" \in ReceiptStates
      BY DEF Statuses, Terminal, ReceiptStates
    <2> HIDE DEF Inv
    <2> QED
      BY <1>2, <2>1, <2>2
  <1> QED
    BY <1>1, <1>3, <1>4 DEF MaterializeStep

-----------------------------------------------------------------------------
(***************************************************************************)
(* The engine and the clock.                                               *)
(***************************************************************************)

LEMMA WorldPreserves ==
  ASSUME Inv, EngineStep \/ DeadlinePasses
  PROVE  Inv'
  <1> USE DEF Inv
  <1>1. CASE EngineStep
    <2>1. /\ engine \in EngineAlive /\ engine' \in EngineStatuses \ {"absent"}
          /\ UNCHANGED <<status, dispatch, finished, launch, told, asked, receipt, mat,
                         ctl, fresh, overdue, deadlines>>
      BY <1>1 DEF EngineStep, EngineStarts, EngineEnds, EngineAlive, EngineEnded,
                  EngineStatuses, runVars, controlVars, clockVars
    <2>2. TypeOK'
      BY <2>1 DEF TypeOK
    <2>3. RunInv'
      BY <2>1 DEF RunInv, OneTerminalEvent, SuccessIsProven, CancelledIsStopped,
                  DecidedWithCancellation, LaunchInv, ReceiptInv, Bound, EngineAlive
    <2>4. ControlInv'
      BY <2>1, ControlsKept DEF Lasting, Bound, EngineAlive
    <2> QED
      BY <2>2, <2>3, <2>4
  <1>2. CASE DeadlinePasses
    <2>1. /\ overdue' = TRUE
          /\ UNCHANGED <<status, dispatch, finished, launch, engine, told, asked, receipt, mat,
                         ctl, fresh, deadlines>>
      BY <1>2 DEF DeadlinePasses, runVars, engineVars, controlVars
    <2>2. TypeOK'
      BY <2>1 DEF TypeOK
    <2>3. RunInv'
      BY <2>1 DEF RunInv, OneTerminalEvent, SuccessIsProven, CancelledIsStopped,
                  DecidedWithCancellation, LaunchInv, ReceiptInv, Bound
    <2>4. ControlInv'
      BY <2>1, ControlsKept DEF Lasting, Bound
    <2> QED
      BY <2>2, <2>3, <2>4
  <1> QED
    BY <1>1, <1>2

-----------------------------------------------------------------------------
(***************************************************************************)
(* Controls.                                                               *)
(***************************************************************************)

LEMMA NewControlType ==
  ASSUME NEW a \in {"cancel", "status_sync"}, NEW l \in BOOLEAN
  PROVE  /\ NewControl(a, l) \in Control
         /\ NewControl(a, l).state = "pending" /\ NewControl(a, l).local = l
         /\ NewControl(a, l).observed = "absent"
  BY DEF NewControl, Free, Control, EngineStatuses

LEMMA FreeType ==
  Free \in Control /\ Free.state = "free" /\ ~Free.local /\ Free.observed = "absent"
  BY DEF Free, Control, EngineStatuses

LEMMA CreatePreserves ==
  ASSUME Inv, NEW c \in Controls, CreateControl(c)
  PROVE  Inv'
  <1> USE DEF Inv
  <1>1. ASSUME NEW due \in BOOLEAN, CancelLocally(c, due) PROVE Inv'
    <2>1. /\ ~Bound /\ status = "pending" /\ launch = "pending" /\ launch' = "cancelled"
          /\ status' = "cancelled" /\ Emit("cancelled")
          /\ ctl' = [ctl EXCEPT ![c] = NewControl("cancel", TRUE)] /\ fresh' = {c}
          /\ deadlines' \in 0 .. DeadlineCap
          /\ UNCHANGED <<dispatch, engine, told, asked, receipt, mat, overdue>>
      BY <1>1 DEF CancelLocally, Become, Create, NoteDeadline, engineVars, TypeOK, DeadlineCap
    <2>2. OneTerminalEvent' /\ finished' \in Seq(Terminal)
      BY <2>1, EmitOnce DEF RunInv, Statuses, Terminal
    <2>3. engine = "absent"
      BY <2>1 DEF RunInv, LaunchInv
    <2>4. RunInv'
      BY <2>1, <2>2, <2>3 DEF RunInv, SuccessIsProven, CancelledIsStopped,
                  DecidedWithCancellation, LaunchInv, ReceiptInv, Bound
    <2>5. ControlInv' /\ ctl' \in [Controls -> Control]
      <3>1. Lasting
        BY <2>1 DEF Lasting, Bound
      <3> QED
        BY <2>1, <3>1, NewControlType, ControlWritten
    <2>6. TypeOK'
      BY <2>1, <2>2, <2>5 DEF TypeOK, Statuses, Terminal
    <2> QED
      BY <2>4, <2>5, <2>6
  <1>2. ASSUME NEW due \in BOOLEAN, CancelBound(c, due) PROVE Inv'
    <2>1. /\ Bound /\ status \in {"running", "submitted", "completion_pending"}
          /\ status' = "cancelling"
          /\ ctl' = [ctl EXCEPT ![c] = NewControl("cancel", FALSE)] /\ fresh' = {c}
          /\ deadlines' \in 0 .. DeadlineCap
          /\ UNCHANGED <<dispatch, finished, launch, engine, told, asked, receipt, mat, overdue>>
      BY <1>2 DEF CancelBound, Become, Create, NoteDeadline, engineVars, TypeOK, DeadlineCap
    <2>2. RunInv'
      BY <2>1 DEF RunInv, OneTerminalEvent, SuccessIsProven, CancelledIsStopped,
                  DecidedWithCancellation, LaunchInv, ReceiptInv, Bound, Terminal
    <2>3. ControlInv' /\ ctl' \in [Controls -> Control]
      <3>1. Lasting /\ Bound'
        BY <2>1 DEF Lasting, Bound
      <3> QED
        BY <2>1, <3>1, NewControlType, ControlWritten
    <2>4. TypeOK'
      BY <2>1, <2>3 DEF TypeOK, Statuses
    <2> QED
      BY <2>2, <2>3, <2>4
  <1>3. CASE RequestSync(c) \/ ScheduleSync(c)
    <2>1. /\ Bound
          /\ ctl' = [ctl EXCEPT ![c] = NewControl("status_sync", FALSE)]
          /\ fresh' \in SUBSET Controls
          /\ UNCHANGED <<status, dispatch, finished, launch, engine, told, asked, receipt, mat,
                         overdue, deadlines>>
      BY <1>3 DEF RequestSync, ScheduleSync, Create, runVars, engineVars, clockVars, TypeOK
    <2>2. RunInv'
      BY <2>1 DEF RunInv, OneTerminalEvent, SuccessIsProven, CancelledIsStopped,
                  DecidedWithCancellation, LaunchInv, ReceiptInv, Bound
    <2>3. ControlInv' /\ ctl' \in [Controls -> Control]
      <3>1. Lasting /\ Bound'
        BY <2>1 DEF Lasting, Bound
      <3> QED
        BY <2>1, <3>1, NewControlType, ControlWritten
    <2>4. TypeOK'
      BY <2>1, <2>3 DEF TypeOK
    <2> QED
      BY <2>2, <2>3, <2>4
  <1> QED
    BY <1>1, <1>2, <1>3 DEF CreateControl

(* A step of a control that leaves the run alone. *)
LEMMA ControlAlone ==
  ASSUME Inv, NEW c \in Controls, NEW k \in Control,
         ctl' = [ctl EXCEPT ![c] = k], fresh' \in SUBSET Controls,
         engine' = engine \/ (engine \in EngineAlive /\ engine' = "canceling"),
         asked' \in BOOLEAN,
         UNCHANGED <<status, dispatch, finished, launch, told, receipt, mat, overdue, deadlines>>,
         k.local => ctl[c].local,
         k.state # "free" => ctl[c].state # "free" /\ k.local = ctl[c].local,
         \/ k.observed # "canceled" \/ k.local \/ engine = "canceled"
         \/ k.observed = ctl[c].observed /\ k.local = ctl[c].local
  PROVE  Inv'
  <1> USE DEF Inv
  <1>1. RunInv'
    BY DEF RunInv, OneTerminalEvent, SuccessIsProven, CancelledIsStopped,
           DecidedWithCancellation, LaunchInv, ReceiptInv, Bound, EngineAlive
  <1>2. Lasting
    BY DEF Lasting, Bound, EngineAlive
  <1>3. /\ ctl[c].local => status = "cancelled"
        /\ ctl[c].state # "free" => ctl[c].local \/ Bound
        /\ ctl[c].observed = "canceled" => ctl[c].local \/ engine = "canceled"
    BY DEF ControlInv, Active
  <1>4. k.local => status' = "cancelled"
    BY <1>2, <1>3 DEF Lasting
  <1>5. k.state # "free" => k.local \/ Bound'
    BY <1>2, <1>3 DEF Lasting
  <1>6. k.observed = "canceled" => k.local \/ engine' = "canceled"
    BY <1>2, <1>3 DEF Lasting
  <1>7. ControlInv' /\ ctl' \in [Controls -> Control]
    <2> HIDE DEF Inv
    <2>1. TypeOK /\ ControlInv
      BY DEF Inv
    <2> QED
      BY <2>1, <1>2, <1>4, <1>5, <1>6, ControlWritten
  <1>8. TypeOK'
    BY <1>7 DEF TypeOK, EngineStatuses, EngineAlive
  <1> QED
    BY <1>1, <1>7, <1>8

(* A control that is given up, or recorded as done without effect. *)
LEMMA Freed ==
  ASSUME Inv, NEW c \in Controls, Release(c), fresh' \in SUBSET Controls, asked' \in BOOLEAN,
         UNCHANGED <<status, dispatch, finished, launch, engine, told, receipt, mat,
                     overdue, deadlines>>
  PROVE  Inv'
  <1> DEFINE k == Free
  <1>1. k \in Control /\ k.state = "free" /\ k.local = FALSE /\ k.observed = "absent"
    BY FreeType
  <1>2. ctl' = [ctl EXCEPT ![c] = k]
    BY DEF Release
  <1>3. /\ k.local => ctl[c].local
        /\ k.state # "free" => ctl[c].state # "free" /\ k.local = ctl[c].local
        /\ \/ k.observed # "canceled" \/ k.local \/ engine = "canceled"
           \/ k.observed = ctl[c].observed /\ k.local = ctl[c].local
    BY <1>1
  <1>4. /\ engine' = engine \/ (engine \in EngineAlive /\ engine' = "canceling")
        /\ UNCHANGED <<status, dispatch, finished, launch, told, receipt, mat, overdue, deadlines>>
    OBVIOUS
  <1> HIDE DEF k
  <1> QED
    BY <1>1, <1>2, <1>3, <1>4, ControlAlone

(* A control that goes on. *)
Moved(k, state, observed, reconcile) ==
  [k EXCEPT !.state = state, !.observed = observed, !.reconcile = reconcile]

LEMMA Moving ==
  ASSUME Inv, NEW c \in Controls, NEW st \in {"pending", "prepared", "started", "replied"},
         NEW ob \in EngineStatuses, NEW re \in BOOLEAN,
         ctl' = [ctl EXCEPT ![c] = Moved(ctl[c], st, ob, re)],
         ctl[c].state # "free",
         \/ ob # "canceled" \/ ctl[c].local \/ engine = "canceled" \/ ob = ctl[c].observed,
         engine' = engine \/ (engine \in EngineAlive /\ engine' = "canceling"),
         asked' \in BOOLEAN,
         UNCHANGED <<status, dispatch, finished, launch, told, receipt, mat, fresh,
                     overdue, deadlines>>
  PROVE  Inv'
  <1> DEFINE k == Moved(ctl[c], st, ob, re)
  <1>1. ctl[c] \in Control /\ fresh \in SUBSET Controls
    BY DEF Inv, TypeOK
  <1>2. k \in Control /\ k.state = st /\ k.observed = ob /\ k.local = ctl[c].local
    BY <1>1 DEF Moved, Control
  <1>3. ctl' = [ctl EXCEPT ![c] = k] /\ fresh' \in SUBSET Controls
    BY <1>1
  <1> HIDE DEF k
  <1>4. /\ k.local => ctl[c].local
        /\ k.state # "free" => ctl[c].state # "free" /\ k.local = ctl[c].local
        /\ \/ k.observed # "canceled" \/ k.local \/ engine = "canceled"
           \/ k.observed = ctl[c].observed /\ k.local = ctl[c].local
    BY <1>2
  <1>5. UNCHANGED <<status, dispatch, finished, launch, told, receipt, mat, overdue, deadlines>>
    OBVIOUS
  <1> QED
    BY <1>2, <1>3, <1>4, <1>5, ControlAlone

(* A control that is advanced stays the same but for its state, or is freed. *)
LEMMA Advanced ==
  ASSUME Inv, NEW c \in Controls, NEW st \in {"prepared", "started"}, Advance(c, st),
         ctl[c].state # "free",
         UNCHANGED <<status, dispatch, finished, launch, engine, told, asked, receipt, mat,
                     fresh, overdue, deadlines>>
  PROVE  Inv'
  <1>0. ctl[c] \in Control /\ fresh \in SUBSET Controls /\ asked \in BOOLEAN
    BY DEF Inv, TypeOK
  <1>1. CASE FenceMatches(c)
    <2>1. ctl' = [ctl EXCEPT ![c].state = st]
      BY <1>1 DEF Advance
    <2>2. [ctl[c] EXCEPT !.state = st] = Moved(ctl[c], st, ctl[c].observed, ctl[c].reconcile)
      BY <1>0 DEF Moved, Control
    <2>3. ctl' = [ctl EXCEPT ![c] = Moved(ctl[c], st, ctl[c].observed, ctl[c].reconcile)]
      BY <2>1, <2>2
    <2>4. ctl[c].observed \in EngineStatuses /\ ctl[c].reconcile \in BOOLEAN
      BY <1>0 DEF Control
    <2> QED
      BY <1>0, <2>3, <2>4, Moving
  <1>2. CASE ~FenceMatches(c)
    <2>1. Release(c)
      BY <1>2 DEF Advance, Release
    <2> QED
      BY <1>0, <2>1, Freed
  <1> QED
    BY <1>1, <1>2

LEMMA Replying ==
  ASSUME Inv, NEW c \in Controls, NEW ob \in EngineStatuses, Replied(c, ob),
         ctl[c].state # "free",
         ob # "canceled" \/ ctl[c].local \/ engine = "canceled",
         engine' = engine \/ (engine \in EngineAlive /\ engine' = "canceling"),
         asked' \in BOOLEAN,
         UNCHANGED <<status, dispatch, finished, launch, told, receipt, mat, fresh,
                     overdue, deadlines>>
  PROVE  Inv'
  <1>0. ctl[c] \in Control
    BY DEF Inv, TypeOK
  <1>1. [ctl[c] EXCEPT !.state = "replied", !.observed = ob]
          = Moved(ctl[c], "replied", ob, ctl[c].reconcile)
    BY <1>0 DEF Moved, Control
  <1>2. ctl' = [ctl EXCEPT ![c] = Moved(ctl[c], "replied", ob, ctl[c].reconcile)]
    BY <1>1 DEF Replied
  <1>3. ctl[c].reconcile \in BOOLEAN
    BY <1>0 DEF Control
  <1> QED
    BY <1>2, <1>3, Moving

LEMMA DeliverPreserves ==
  ASSUME Inv, NEW c \in Controls, DeliverControl(c),
         ~ \E valid \in BOOLEAN : ControlFinalize(c, valid)
  PROVE  Inv'
  <1>0. /\ ctl[c] \in Control /\ fresh \in SUBSET Controls /\ asked \in BOOLEAN
        /\ engine \in EngineStatuses
    BY DEF Inv, TypeOK
  <1>1. CASE ControlPrepare(c) \/ ControlStart(c)
    BY <1>1, Advanced DEF ControlPrepare, ControlStart, runVars, engineVars, clockVars
  <1>2. CASE ControlLocal(c)
    BY <1>0, <1>2, Replying DEF ControlLocal, runVars, engineVars, clockVars, EngineStatuses, EngineEnded
  <1>3. CASE ControlTerminate(c)
    BY <1>0, <1>3, Replying DEF ControlTerminate, runVars, clockVars, EngineStatuses, EngineAlive
  <1>4. CASE ControlRefused(c) \/ ControlDeadLetter(c) \/ ControlSuperseded(c)
    <2>1. /\ Release(c) /\ fresh' \in SUBSET Controls /\ asked' \in BOOLEAN
          /\ UNCHANGED <<status, dispatch, finished, launch, engine, told, receipt, mat,
                         overdue, deadlines>>
      BY <1>0, <1>4 DEF ControlRefused, ControlDeadLetter, ControlSuperseded, runVars, engineVars,
                        clockVars
    <2> QED
      BY <2>1, Freed
  <1>5. CASE ControlObserve(c)
    BY <1>0, <1>5, Replying DEF ControlObserve, runVars, engineVars, clockVars
  <1>6. ASSUME NEW unknown \in BOOLEAN, ControlRetry(c, unknown) PROVE Inv'
    <2> DEFINE re == ctl[c].reconcile \/ unknown
    <2>1. /\ ctl[c].state # "free"
          /\ UNCHANGED <<status, dispatch, finished, launch, engine, told, asked, receipt, mat,
                         fresh, overdue, deadlines>>
      BY <1>6 DEF ControlRetry, runVars, engineVars, clockVars
    <2>2. ctl' = [ctl EXCEPT ![c].state = "pending", ![c].observed = "absent",
                             ![c].reconcile = @ \/ unknown]
      BY <1>6 DEF ControlRetry
    <2>3. re \in BOOLEAN /\ "absent" \in EngineStatuses
      BY DEF EngineStatuses
    <2>4. [ctl[c] EXCEPT !.state = "pending", !.observed = "absent", !.reconcile = @ \/ unknown]
            = Moved(ctl[c], "pending", "absent", re)
      BY <1>0, <2>3 DEF Moved, Control
    <2>5. ctl' = [ctl EXCEPT ![c] = Moved(ctl[c], "pending", "absent", re)]
      BY <2>2, <2>4
    <2> HIDE DEF re
    <2> QED
      BY <1>0, <2>1, <2>3, <2>5, Moving
  <1> QED
    BY <1>1, <1>2, <1>3, <1>4, <1>5, <1>6 DEF DeliverControl

(* What an observation can make of the status. *)
LEMMA TargetCases ==
  ASSUME TypeOK, NEW k \in Control
  PROVE  LET new == Target(k.action, k.observed) IN
         /\ new \in Statuses
         /\ status \in Terminal => new = status
         /\ new \in {"pending", "success"} => new = status
         /\ new = "cancelled" => status = "cancelled" \/ k.observed = "canceled"
         /\ status = "cancelling" /\ new # "cancelling" => k.observed \in EngineEnded
  BY DEF Target, TypeOK, Statuses, Terminal, EngineEnded, Control

(* A control that is finalized while its fence holds decides on the status *)
(* and, if the cancellation ends here, on the receipt that waited for it.  *)
LEMMA FinalizePreserves ==
  ASSUME Inv, NEW c \in Controls, NEW valid \in BOOLEAN, ControlFinalize(c, valid)
  PROVE  Inv'
  <1> DEFINE o == ctl[c].observed
             new == Target(ctl[c].action, o)
             result == Resolved(new, o, valid)
  <1>1. /\ TypeOK /\ RunInv /\ ControlInv /\ ctl[c] \in Control /\ fresh \in SUBSET Controls
        /\ receipt \in Receipt /\ receipt.state \in ReceiptStates /\ mat \in MatStatuses
    BY DEF Inv, TypeOK, MatStatuses, Receipt
  <1>2. /\ ctl[c].state = "replied" /\ Commit(result, receipt)
        /\ ctl' = [ctl EXCEPT ![c] = Free] /\ fresh' \in SUBSET Controls
        /\ UNCHANGED <<dispatch, launch, engine, told, asked, overdue, deadlines>>
    BY <1>1 DEF ControlFinalize, Release, FreshAfter, engineVars, clockVars
  <1>3. /\ new \in Statuses
        /\ status \in Terminal => new = status
        /\ new \in {"pending", "success"} => new = status
        /\ new = "cancelled" => status = "cancelled" \/ o = "canceled"
        /\ status = "cancelling" /\ new # "cancelling" => o \in EngineEnded
    BY <1>1, TargetCases
  <1>4. /\ status = "cancelled" \/ (Bound /\ launch = "processed" /\ engine # "absent")
        /\ new = "cancelled" => status = "cancelled" \/ engine = "canceled"
    BY <1>1, <1>2, <1>3 DEF ControlInv, Active, RunInv, LaunchInv
  <1>5. receipt.state = "pending_cancel" =>
          status = "cancelling" /\ receipt.outcome = "success" /\ receipt.own
    BY <1>1 DEF RunInv, DecidedWithCancellation, ReceiptInv
  <1>6. \E n \in Statuses, st \in ReceiptStates, ev \in MatStatuses :
          /\ result = Outcome(n, st, ev)
          /\ \/ n = new /\ st = receipt.state /\ (receipt.state = "pending_cancel" => o \notin EngineEnded)
             \/ n = new /\ st = "rejected" /\ receipt.state = "pending_cancel"
             \/ n = "failed" /\ st = "completed" /\ receipt.state = "pending_cancel"
             \/ /\ n \in {"completion_pending", "success"} /\ receipt.state = "pending_cancel"
                /\ st = IF n = "success" THEN "completed" ELSE "materializing"
    <2>1. CASE receipt.state # "pending_cancel" \/ o \notin EngineEnded
      <3>1. result = Outcome(new, receipt.state, mat)
        BY <2>1 DEF Resolved
      <3> HIDE DEF result, new, o
      <3> QED
        BY <1>1, <1>3, <2>1, <3>1
    <2>2. CASE receipt.state = "pending_cancel" /\ o \in EngineEnded /\ o # "success"
      <3>1. result = Outcome(new, "rejected", mat)
        BY <2>2 DEF Resolved
      <3>2. "rejected" \in ReceiptStates
        BY DEF ReceiptStates
      <3> HIDE DEF result, new, o
      <3> QED
        BY <1>1, <1>3, <2>2, <3>1, <3>2
    <2>3. CASE receipt.state = "pending_cancel" /\ o \in EngineEnded /\ o = "success"
      <3>1. result = Applied(new, receipt, valid)
        BY <2>3 DEF Resolved
      <3> HIDE DEF result, new, o
      <3>2. \/ result = Outcome(new, "rejected", mat)
            \/ result = Outcome("failed", "completed", mat)
            \/ result = Outcome("completion_pending", "materializing", "pending")
            \/ result = Outcome("success", "completed", mat)
        BY <1>1, <3>1, AppliedCases
      <3>3. /\ {"failed", "completion_pending", "success"} \subseteq Statuses
            /\ {"rejected", "completed", "materializing"} \subseteq ReceiptStates
            /\ "pending" \in MatStatuses
        BY DEF Statuses, Terminal, ReceiptStates, MatStatuses
      <3> QED
        BY <1>1, <1>3, <2>3, <3>2, <3>3
    <2> QED
      BY <2>1, <2>2, <2>3
  <1> HIDE DEF result
  <1>7. PICK n \in Statuses, st \in ReceiptStates, ev \in MatStatuses :
          /\ result = Outcome(n, st, ev)
          /\ \/ n = new /\ st = receipt.state /\ (receipt.state = "pending_cancel" => o \notin EngineEnded)
             \/ n = new /\ st = "rejected" /\ receipt.state = "pending_cancel"
             \/ n = "failed" /\ st = "completed" /\ receipt.state = "pending_cancel"
             \/ /\ n \in {"completion_pending", "success"} /\ receipt.state = "pending_cancel"
                /\ st = IF n = "success" THEN "completed" ELSE "materializing"
    BY <1>6
  <1> HIDE DEF new, o
  <1>8. status \in Terminal => n = status
    BY <1>3, <1>5, <1>7 DEF Terminal
  <1>9. Commit(Outcome(n, st, ev), receipt)
    BY <1>2, <1>7
  <1>10. /\ status' = n /\ mat' = ev /\ receipt' \in Receipt /\ receipt'.state = st
         /\ receipt'.outcome = receipt.outcome /\ receipt'.own = receipt.own
         /\ OneTerminalEvent' /\ finished' \in Seq(Terminal)
    BY <1>1, <1>8, <1>9, Committed DEF RunInv
  <1>11. SuccessIsProven'
    BY <1>1, <1>2, <1>3, <1>4, <1>5, <1>7, <1>10, ReceiptIs DEF RunInv, SuccessIsProven
  <1>12. CancelledIsStopped' /\ LaunchInv'
    BY <1>1, <1>2, <1>3, <1>4, <1>5, <1>7, <1>8, <1>10
       DEF RunInv, CancelledIsStopped, LaunchInv, Bound, Terminal
  <1>13. ReceiptInv' /\ DecidedWithCancellation'
    BY <1>1, <1>2, <1>3, <1>5, <1>7, <1>10
       DEF RunInv, ReceiptInv, DecidedWithCancellation, Bound
  <1>14. ControlInv' /\ ctl' \in [Controls -> Control]
    <2>1. Lasting
      BY <1>2, <1>8, <1>10 DEF Lasting, Bound, Terminal
    <2>2. PICK k \in Control : k = Free
      BY FreeType
    <2>3. k.state = "free" /\ ~k.local /\ k.observed # "canceled"
      BY <2>2, FreeType
    <2>4. ctl' = [ctl EXCEPT ![c] = k]
      BY <1>2, <2>2
    <2> QED
      BY <1>1, <2>1, <2>3, <2>4, ControlWritten
  <1>15. TypeOK'
    BY <1>1, <1>2, <1>10, <1>14 DEF TypeOK, MatStatuses
  <1> QED
    BY <1>10, <1>11, <1>12, <1>13, <1>14, <1>15 DEF Inv, RunInv

-----------------------------------------------------------------------------
(***************************************************************************)
(* The theorems.                                                           *)
(***************************************************************************)

LEMMA InitInv == Init => Inv
  <1> SUFFICES ASSUME Init PROVE Inv
    OBVIOUS
  <1>1. /\ status = "pending" /\ dispatch = "none" /\ launch = "pending" /\ engine = "absent"
        /\ told = FALSE /\ asked = FALSE /\ mat = "none" /\ fresh = {} /\ overdue = FALSE
        /\ deadlines = 0 /\ finished = <<>>
        /\ receipt = [state |-> "none", outcome |-> "success", own |-> TRUE]
        /\ ctl = [c \in Controls |-> Free]
    BY DEF Init
  <1>2. ctl \in [Controls -> Control] /\ \A c \in Controls : ctl[c] = Free
    BY <1>1, FreeType
  <1>3. ControlInv
    BY <1>2, FreeType DEF ControlInv, Active
  <1>4. TypeOK
    <2>1. finished \in Seq(Terminal)
      BY <1>1
    <2>2. receipt \in Receipt
      BY <1>1 DEF Receipt, ReceiptStates
    <2>3. /\ status \in Statuses /\ engine \in EngineStatuses /\ fresh \in SUBSET Controls
          /\ told \in BOOLEAN /\ asked \in BOOLEAN /\ overdue \in BOOLEAN
      BY <1>1 DEF Statuses, EngineStatuses
    <2>4. deadlines \in 0 .. DeadlineCap
      BY <1>1 DEF DeadlineCap
    <2>5. /\ dispatch \in {"none", "failed", "bound"}
          /\ launch \in {"pending", "processing", "processed", "dead_letter", "cancelled"}
          /\ mat \in {"none", "pending", "processing", "refused", "processed", "dead_letter"}
      BY <1>1
    <2> QED
      BY <1>2, <2>1, <2>2, <2>3, <2>4, <2>5 DEF TypeOK
  <1>5. RunInv
    BY <1>1 DEF RunInv, OneTerminalEvent, SuccessIsProven, CancelledIsStopped,
                DecidedWithCancellation, LaunchInv, ReceiptInv, Bound, Terminal
  <1> QED
    BY <1>3, <1>4, <1>5 DEF Inv

LEMMA NextInv == Inv /\ [Next]_vars => Inv'
  <1> SUFFICES ASSUME Inv, [Next]_vars PROVE Inv'
    OBVIOUS
  <1>1. ASSUME NEW c \in Controls, DeliverControl(c) PROVE Inv'
    <2>1. CASE \E valid \in BOOLEAN : ControlFinalize(c, valid)
      BY <2>1, FinalizePreserves
    <2>2. CASE ~ \E valid \in BOOLEAN : ControlFinalize(c, valid)
      BY <1>1, <2>2, DeliverPreserves
    <2> QED
      BY <2>1, <2>2
  <1>2. CASE UNCHANGED vars
    BY <1>2 DEF vars, runVars, engineVars, controlVars, clockVars, Inv, TypeOK, RunInv, ControlInv,
                OneTerminalEvent, SuccessIsProven, CancelledIsStopped, DecidedWithCancellation,
                LaunchInv, ReceiptInv, Bound, Active
  <1> QED
    BY <1>1, <1>2, LaunchPreserves, ReceiptPreserves, MaterializePreserves, WorldPreserves,
       CreatePreserves DEF Next

LEMMA Invariance == Spec => []Inv
  BY InitInv, NextInv, PTL DEF Spec

(* Every run, whatever the interleaving of its launch, receipts, controls  *)
(* and materialization, stays within the statuses and rows of TypeOK.      *)
THEOREM TypeCorrect == Spec => []TypeOK
  <1>1. Inv => TypeOK
    BY DEF Inv
  <1> QED
    BY <1>1, Invariance, PTL

(* Exactly one terminal event is emitted, when the run ends, and it names  *)
(* the status the run keeps (emit_task_run_terminal_event).                *)
THEOREM RunEndsOnce == Spec => []OneTerminalEvent
  <1>1. Inv => OneTerminalEvent
    BY DEF Inv, RunInv
  <1> QED
    BY <1>1, Invariance, PTL

(* No run is shown as successful without the accepted success receipt of   *)
(* the Dagster run its launch is bound to (apply_staged_dagster_completion,*)
(* materialize_staged_execution_completion).                               *)
THEOREM SuccessNeedsProof == Spec => []SuccessIsProven
  <1>1. Inv => SuccessIsProven
    BY DEF Inv, RunInv
  <1> QED
    BY <1>1, Invariance, PTL

(* Nothing of a run that is shown as cancelled runs in the engine, now or  *)
(* later (cancel_pending_task_run_dispatch, _finalize_task_run_control).   *)
THEOREM CancelledHasStopped == Spec => []CancelledIsStopped
  <1>1. Inv => CancelledIsStopped
    BY DEF Inv, RunInv
  <1> QED
    BY <1>1, Invariance, PTL

(* The success receipt that waits for the end of a cancellation is decided *)
(* in the transaction that ends it                                         *)
(* (resolve_cancellation_race_dagster_completion).                         *)
THEOREM DecidedTogether == Spec => []DecidedWithCancellation
  <1>1. Inv => DecidedWithCancellation
    BY DEF Inv, RunInv
  <1> QED
    BY <1>1, Invariance, PTL

(* A control whose fence no longer holds is finalized without a trace in   *)
(* the run, its receipt, its materialization and its events                *)
(* (_task_run_control_fence): the only step that takes it out of replied   *)
(* and writes one of these is ControlFinalize, which needs the fence.      *)
THEOREM StaleControlIsHarmless == Spec => StaleControlHarmless
  <1>1. ASSUME Inv, [Next]_vars, NEW c \in Controls,
               ctl[c].state = "replied", c \notin fresh, ctl'[c] # ctl[c]
        PROVE  UNCHANGED <<status, receipt, mat, finished>>
    <2>1. ctl \in [Controls -> Control]
      BY <1>1 DEF Inv, TypeOK
    <2>2. ctl' # ctl
      BY <1>1
    <2>3. ~ (LaunchStep \/ ReceiptStep \/ MaterializeStep \/ EngineStep \/ DeadlinePasses)
      BY <2>2 DEF LaunchStep, LaunchPrepare, LaunchCall, LaunchDeadLetter, LaunchConfirm, LaunchRetry,
           ReceiptStep, AcceptReceipt, StageEarly, StageDuringCancellation, MaterializeStep,
           MaterializePrepare, MaterializeRetry, MaterializeDeadLetter, Materialize,
           EngineStep, EngineStarts, EngineEnds, DeadlinePasses, controlVars
    <2>4. ~ UNCHANGED vars
      BY <2>2 DEF vars, controlVars
    <2>5. PICK d \in Controls : CreateControl(d) \/ DeliverControl(d)
      BY <1>1, <2>3, <2>4 DEF Next
    <2>6. \A k : ctl' = [ctl EXCEPT ![d] = k] => d = c
      BY <1>1, <2>1
    <2>7. CASE CreateControl(d)
      <3>1. ctl[d].state = "free" /\ \E k : ctl' = [ctl EXCEPT ![d] = k]
        BY <2>7 DEF CreateControl, CancelLocally, CancelBound, RequestSync, ScheduleSync, Create
      <3> QED
        BY <1>1, <2>6, <3>1
    <2>8. ASSUME NEW valid \in BOOLEAN, ControlFinalize(d, valid) PROVE FALSE
      <3>1. d \in fresh /\ \E k : ctl' = [ctl EXCEPT ![d] = k]
        BY <2>8 DEF ControlFinalize, Release, FenceMatches
      <3> QED
        BY <1>1, <2>6, <3>1
    <2>9. CASE /\ DeliverControl(d)
               /\ ~ \E valid \in BOOLEAN : ControlFinalize(d, valid)
      BY <2>9 DEF DeliverControl, ControlPrepare, ControlStart, ControlLocal, ControlTerminate,
           ControlRefused, ControlObserve, ControlRetry, ControlDeadLetter, ControlSuperseded, runVars
    <2> QED
      BY <2>5, <2>7, <2>8, <2>9
  <1>2. Inv /\ [Next]_vars
          => [\A c \in Controls :
                ctl[c].state = "replied" /\ c \notin fresh /\ ctl'[c] # ctl[c]
                  => UNCHANGED <<status, receipt, mat, finished>>]_vars
    BY <1>1
  <1> QED
    BY <1>2, Invariance, PTL DEF Spec, StaleControlHarmless
=============================================================================

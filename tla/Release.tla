------------------------------ MODULE Release -------------------------------
(***************************************************************************)
(* Releases of prompt bundles to one environment.  A deployment moves only *)
(* in two phases: a request freezes a command together with the head it    *)
(* was decided against, an executor carries the command out, and the       *)
(* trusted receipt of the executor revalidates everything and moves the    *)
(* deployment, and for promote and rollback the environment's active head, *)
(* if the head is still the frozen one.  Every request and every receipt   *)
(* is one transaction that locks the deployment, its command and the head. *)
(*                                                                         *)
(* The stage of a deployment is left out: wherever the code decides on it, *)
(* it equals the status.  A bundle, once stored, is immutable; what may    *)
(* change under it are the facts it was locked against (label, prompt      *)
(* approval, policy, data set, evaluation result, scene), one bit here.    *)
(***************************************************************************)
EXTENDS Naturals, Sequences

CONSTANTS
  Deployments,   \* release_deployments of one environment
  None,          \* no deployment
  Production,    \* whether the environment is production
  MaxCommands,   \* bound on commands issued
  MaxDrifts      \* bound on changes of locked facts

ASSUME DeploymentsAssumption == Deployments # {} /\ None \notin Deployments
ASSUME ReleaseBoundAssumption ==
  Production \in BOOLEAN /\ MaxCommands \in Nat /\ MaxDrifts \in Nat

VARIABLES
  dep,      \* release_deployments
  cmd,      \* the latest release_commands row of each deployment, and its run
  head,     \* release_bundle_heads, generation 0 while there is none
  ledger,   \* release_bundle_head_events, oldest first
  facts,    \* deployments whose locked facts hold
  issued,   \* commands issued so far
  drifts    \* changes of locked facts so far

vars == <<dep, cmd, head, ledger, facts, issued, drifts>>

Statuses == {"absent", "blocked", "pending", "materializing", "shadowing",
             "gray-releasing", "monitoring", "completed", "superseded",
             "rolled-back"}
Actions == {"publish", "approve-gray", "promote", "rollback"}
Open == {"pending", "materializing"}
Observed == {"shadowing", "gray-releasing", "monitoring"}
(* good: every gate of promotion is met.  weak: a gate is missed, no hard  *)
(* threshold is.  hard: a hard threshold is crossed.                       *)
Samples == {"none", "good", "weak", "hard"}
Reasons == {"drift", "target required", "head required", "target not stable",
            "target not head", "command"}
(* A run is handed over (submitted), carried out or not (applied, broken)  *)
(* and closed by its receipt; dead when its delivery was given up.  The    *)
(* last sample is the metrics; gray and regressed are what status_history  *)
(* and monitor_samples remember for good.                                  *)
NoneOr(S) == S \cup {None}

Deployment == [status : Statuses, rollout : {0, 10, 100},
               target : NoneOr(Deployments), reasons : SUBSET Reasons,
               sample : Samples, gray : BOOLEAN, regressed : BOOLEAN]
Command == [action : Actions, status : Open \cup {"none", "completed", "blocked", "failed"},
            target : NoneOr(Deployments), gen : Nat, base : NoneOr(Deployments),
            run : {"none", "pending", "submitted", "applied", "broken", "dead", "closed"}]
HeadEvent == [gen : Nat, action : {"bootstrap", "activate", "promote", "rollback"},
              old : NoneOr(Deployments), new : Deployments, open : BOOLEAN]

Init ==
  /\ dep = [d \in Deployments |->
              [status |-> "absent", rollout |-> 0, target |-> None,
               reasons |-> {}, sample |-> "none", gray |-> FALSE,
               regressed |-> FALSE]]
  /\ cmd = [d \in Deployments |->
              [action |-> "publish", status |-> "none", target |-> None,
               gen |-> 0, base |-> None, run |-> "none"]]
  /\ head = [gen |-> 0, dep |-> None]
  /\ ledger = <<>>
  /\ facts = Deployments
  /\ issued = 0
  /\ drifts = 0

-----------------------------------------------------------------------------
(***************************************************************************)
(* Gates.                                                                  *)
(***************************************************************************)

(* _rollback_target_blockers finds nothing *)
Stable(t, allowSuperseded) ==
  \/ dep[t].status = "completed" /\ dep[t].rollout = 100
  \/ allowSuperseded /\ dep[t].status = "superseded" /\ dep[t].rollout = 0

(* _release_blockers *)
Blockers(d, t, requireRollback) ==
  {r \in Reasons :
    \/ r = "drift" /\ d \notin facts
    \/ r = "target not stable" /\ t # None /\ ~Stable(t, FALSE)
    \/ Production /\ requireRollback /\
         \/ r = "target required" /\ t = None
         \/ r = "head required" /\ head.gen = 0
         \/ r = "target not head" /\ head.gen # 0 /\ t # None /\ head.dep # t}

Revalidated(d) == Blockers(d, dep[d].target, TRUE) = {}

(* Slip: only the deployment is compared, not the generation. *)
HeadUnchangedLoose(c) == head.dep = c.base

(* _head_cas_blockers, and the WHERE of the conditional update *)
HeadUnchanged(c) == head.gen = c.gen /\ head.dep = c.base

-----------------------------------------------------------------------------
(***************************************************************************)
(* Requests.                                                               *)
(***************************************************************************)

(* _create_release_command: rec is the deployment as the request left it *)
OpenCommand(d, action, t, rec) ==
  /\ cmd[d].status \notin Open
  /\ issued < MaxCommands
  /\ issued' = issued + 1
  /\ cmd' = [cmd EXCEPT ![d] =
       [action |-> action, status |-> "pending", target |-> t,
        gen |-> head.gen, base |-> head.dep, run |-> "pending"]]
  /\ dep' = [dep EXCEPT ![d] =
       [rec EXCEPT !.status = IF action = "publish" THEN "pending" ELSE "materializing",
                   !.rollout = IF action = "rollback" THEN 0 ELSE @]]

(* create_release_deployment *)
Create(d, t) ==
  LET blockers == Blockers(d, t, TRUE)
      rec == [dep[d] EXCEPT !.status = IF blockers = {} THEN "pending" ELSE "blocked",
                            !.target = t, !.reasons = blockers]
  IN /\ dep[d].status = "absent"
     /\ t # None => dep[t].status # "absent"
     /\ \/ blockers = {} /\ OpenCommand(d, "publish", None, rec)
        \/ /\ blockers # {}
           /\ dep' = [dep EXCEPT ![d] = rec]
           /\ UNCHANGED <<cmd, issued>>
     /\ UNCHANGED <<head, ledger, facts, drifts>>

(* transition_release_deployment, action approve-gray *)
ApproveGray(d) ==
  /\ dep[d].status \in {"shadowing", "monitoring"}
  /\ Revalidated(d)
  /\ OpenCommand(d, "approve-gray", None, dep[d])
  /\ UNCHANGED <<head, ledger, facts, drifts>>

(* transition_release_deployment, action promote: _monitor_blockers reads  *)
(* the metrics merged from every sample so far, each of which carries all  *)
(* of them, so the last one counts                                         *)
Promote(d) ==
  /\ dep[d].status \in {"gray-releasing", "monitoring"}
  /\ Revalidated(d)
  /\ dep[d].sample = "good"
  /\ OpenCommand(d, "promote", None, dep[d])
  /\ UNCHANGED <<head, ledger, facts, drifts>>

(* transition_release_deployment, action rollback *)
Rollback(d) ==
  /\ dep[d].status \notin {"absent", "rolled-back"}
  /\ dep[d].target # None
  /\ Stable(dep[d].target, TRUE)
  /\ OpenCommand(d, "rollback", dep[d].target, dep[d])
  /\ UNCHANGED <<head, ledger, facts, drifts>>

(* Slip: the safe stop takes the traffic away but leaves the status. *)
SampleUnheeded(d, s) ==
  LET rec == [dep[d] EXCEPT !.sample = s, !.regressed = @ \/ s = "hard"]
  IN /\ dep[d].status \in Observed
     /\ dep' = [dep EXCEPT ![d] =
          IF s = "hard" THEN [rec EXCEPT !.rollout = 0] ELSE [rec EXCEPT !.status = "monitoring"]]
     /\ UNCHANGED <<cmd, issued, head, ledger, facts, drifts>>

(* ingest_release_monitor_sample: a healthy sample continues monitoring, a *)
(* hard regression takes the traffic away at once and requests a rollback, *)
(* or stops the deployment where there is nothing stable to go back to     *)
Sample(d, s) ==
  LET t == dep[d].target
      rec == [dep[d] EXCEPT !.sample = s, !.regressed = @ \/ s = "hard"]
      stopped == [rec EXCEPT !.rollout = 0, !.reasons = {"command"}]
      restorable == t # None /\ Stable(t, TRUE)
  IN /\ dep[d].status \in Observed
     /\ \/ /\ s # "hard"
           /\ dep' = [dep EXCEPT ![d] = [rec EXCEPT !.status = "monitoring"]]
           /\ UNCHANGED <<cmd, issued>>
        \/ s = "hard" /\ restorable /\ OpenCommand(d, "rollback", t, stopped)
        \/ /\ s = "hard" /\ ~restorable
           /\ dep' = [dep EXCEPT ![d] = [stopped EXCEPT !.status = "blocked"]]
           /\ UNCHANGED <<cmd, issued>>
     /\ UNCHANGED <<head, ledger, facts, drifts>>

-----------------------------------------------------------------------------
(***************************************************************************)
(* The active head and its ledger.                                         *)
(***************************************************************************)

(* _ensure_release_head_ledger_anchor: a head that disagrees with its      *)
(* ledger is never moved                                                   *)
Anchored ==
  head.gen # 0 => /\ ledger # <<>>
                  /\ LET last == ledger[Len(ledger)]
                     IN last.gen = head.gen /\ last.new = head.dep

(* Slip: the entry is written from the deployment's rollback target. *)
RecordHeadTarget(d, action) ==
  ledger' = Append(ledger, [gen |-> head.gen + 1, action |-> action,
                            old |-> head.dep, new |-> dep[d].target, open |-> TRUE])

(* Slip: the interval of the previous head is left open. *)
RecordHeadOpen(d, action) ==
  ledger' = Append(ledger, [gen |-> head.gen + 1, action |-> action,
                            old |-> head.dep, new |-> d, open |-> TRUE])

(* _append_release_head_event: close the interval of the previous head and *)
(* open the one of d                                                       *)
RecordHead(d, action) ==
  LET closed == [i \in DOMAIN ledger |->
                   IF ledger[i].gen = head.gen THEN [ledger[i] EXCEPT !.open = FALSE]
                   ELSE ledger[i]]
  IN ledger' = Append(closed, [gen |-> head.gen + 1, action |-> action,
                               old |-> head.dep, new |-> d, open |-> TRUE])

(* _activate_release_head *)
ActivateHead(d, action) ==
  /\ Anchored
  /\ head' = [gen |-> head.gen + 1, dep |-> d]
  /\ RecordHead(d, action)

(* bootstrap_release_bundle_head: the one activation without a command *)
Bootstrap(d) ==
  /\ Production
  /\ head.gen = 0
  /\ cmd[d].status \notin Open
  /\ dep[d].status = "blocked"
  /\ dep[d].reasons \subseteq {"target required", "head required"}
  /\ Blockers(d, dep[d].target, FALSE) = {}
  /\ \A o \in Deployments \ {d} : ~Stable(o, FALSE)
  /\ dep' = [dep EXCEPT ![d].status = "completed", ![d].rollout = 100,
                        ![d].reasons = {}]
  /\ ActivateHead(d, "bootstrap")
  /\ UNCHANGED <<cmd, facts, issued, drifts>>

-----------------------------------------------------------------------------
(***************************************************************************)
(* The run of a command: delivery and receipts.                            *)
(***************************************************************************)

(* mark_release_command_dispatched, in the transaction that records the    *)
(* delivery of the run; the deployment is marked whatever it has become    *)
Dispatch(d) ==
  /\ cmd[d].run = "pending"
  /\ cmd' = [cmd EXCEPT ![d].status = "materializing", ![d].run = "submitted"]
  /\ dep' = [dep EXCEPT ![d].status = "materializing"]
  /\ UNCHANGED <<head, ledger, facts, issued, drifts>>

(* The outbox gives the delivery up: the run fails, the command is not     *)
(* told and keeps its slot.                                                *)
DeadLetter(d) ==
  /\ cmd[d].run = "pending"
  /\ cmd' = [cmd EXCEPT ![d].run = "dead"]
  /\ UNCHANGED <<dep, head, ledger, facts, issued, drifts>>

(* The executor carries a delivered command out, or fails to. *)
Execute(d, outcome) ==
  /\ cmd[d].run = "submitted"
  /\ cmd' = [cmd EXCEPT ![d].run = outcome]
  /\ UNCHANGED <<dep, head, ledger, facts, issued, drifts>>

(* A receipt is taken only once the delivery is on record, and echoes the  *)
(* frozen command.                                                         *)
Receivable(d, outcome) == cmd[d].status \in Open /\ cmd[d].run = outcome

CloseCommand(d, status) ==
  cmd' = [cmd EXCEPT ![d].status = status, ![d].run = "closed"]

BlockDeployment(d) ==
  dep' = [dep EXCEPT ![d].status = "blocked", ![d].rollout = 0, ![d].reasons = {"command"}]

(* What a successful receipt finds in its way. *)
Obstructed(d) ==
  \/ ~HeadUnchanged(cmd[d])
  \/ cmd[d].action # "rollback" /\ ~Revalidated(d)
  \/ cmd[d].action = "rollback" /\ ~Stable(cmd[d].target, TRUE)

(* Slip: an obstructed receipt is refused and the command left open. *)
CompleteBlockedRefused(d) ==
  /\ Receivable(d, "applied")
  /\ Obstructed(d)
  /\ UNCHANGED vars

(* materialize_release_command_completion, ending in _block_release_command *)
CompleteBlocked(d) ==
  /\ Receivable(d, "applied")
  /\ Obstructed(d)
  /\ CloseCommand(d, "blocked")
  /\ BlockDeployment(d)
  /\ UNCHANGED <<head, ledger, facts, issued, drifts>>

(* materialize_release_command_completion of publish and approve-gray *)
CompleteStage(d) ==
  /\ Receivable(d, "applied")
  /\ ~Obstructed(d)
  /\ \/ /\ cmd[d].action = "publish"
        /\ dep' = [dep EXCEPT ![d].status = "shadowing", ![d].rollout = 0]
     \/ /\ cmd[d].action = "approve-gray"
        /\ dep' = [dep EXCEPT ![d].status = "gray-releasing", ![d].rollout = 10,
                              ![d].gray = TRUE]
  /\ CloseCommand(d, "completed")
  /\ UNCHANGED <<head, ledger, facts, issued, drifts>>

(* Slip: the deployment that served so far is not retired. *)
CompletePromoteTwice(d) ==
  /\ Receivable(d, "applied")
  /\ cmd[d].action = "promote"
  /\ ~Obstructed(d)
  /\ dep' = [dep EXCEPT ![d].status = "completed", ![d].rollout = 100]
  /\ ActivateHead(d, "promote")
  /\ CloseCommand(d, "completed")
  /\ UNCHANGED <<facts, issued, drifts>>

(* materialize_release_command_completion of promote *)
CompletePromote(d) ==
  /\ Receivable(d, "applied")
  /\ cmd[d].action = "promote"
  /\ ~Obstructed(d)
  /\ dep' = [o \in Deployments |->
       IF o = d THEN [dep[o] EXCEPT !.status = "completed", !.rollout = 100]
       ELSE IF o = head.dep THEN [dep[o] EXCEPT !.status = "superseded", !.rollout = 0]
       ELSE dep[o]]
  /\ ActivateHead(d, IF head.gen = 0 THEN "activate" ELSE "promote")
  /\ CloseCommand(d, "completed")
  /\ UNCHANGED <<facts, issued, drifts>>

(* Slip: the restored deployment gets its status back, not its traffic. *)
CompleteRollbackDark(d) ==
  LET t == cmd[d].target
  IN /\ Receivable(d, "applied")
     /\ cmd[d].action = "rollback"
     /\ ~Obstructed(d)
     /\ dep' = [o \in Deployments |->
          IF o = t THEN [dep[o] EXCEPT !.status = "completed"]
          ELSE IF o = d THEN [dep[o] EXCEPT !.status = "rolled-back", !.rollout = 0]
          ELSE IF o = head.dep THEN [dep[o] EXCEPT !.status = "superseded", !.rollout = 0]
          ELSE dep[o]]
     /\ ActivateHead(t, IF head.gen = 0 THEN "activate" ELSE "rollback")
     /\ CloseCommand(d, "completed")
     /\ UNCHANGED <<facts, issued, drifts>>

(* materialize_release_command_completion of rollback *)
CompleteRollback(d) ==
  LET t == cmd[d].target
  IN /\ Receivable(d, "applied")
     /\ cmd[d].action = "rollback"
     /\ ~Obstructed(d)
     /\ dep' = [o \in Deployments |->
          IF o = t THEN [dep[o] EXCEPT !.status = "completed", !.rollout = 100]
          ELSE IF o = d THEN [dep[o] EXCEPT !.status = "rolled-back", !.rollout = 0]
          ELSE IF o = head.dep THEN [dep[o] EXCEPT !.status = "superseded", !.rollout = 0]
          ELSE dep[o]]
     /\ ActivateHead(t, IF head.gen = 0 THEN "activate" ELSE "rollback")
     /\ CloseCommand(d, "completed")
     /\ UNCHANGED <<facts, issued, drifts>>

(* materialize_release_command_failure *)
CommandFailure(d) ==
  /\ Receivable(d, "broken")
  /\ CloseCommand(d, "failed")
  /\ BlockDeployment(d)
  /\ UNCHANGED <<head, ledger, facts, issued, drifts>>

(* Something a bundle was locked against changes, or is put right again:   *)
(* the project is bound to another scene and back, say.                    *)
Drift(d) ==
  /\ drifts < MaxDrifts
  /\ drifts' = drifts + 1
  /\ facts' = IF d \in facts THEN facts \ {d} ELSE facts \cup {d}
  /\ UNCHANGED <<dep, cmd, head, ledger, issued>>

-----------------------------------------------------------------------------
Receipt(d) == CompleteBlocked(d) \/ CompleteStage(d) \/ CompletePromote(d)
              \/ CompleteRollback(d) \/ CommandFailure(d)

Next == \E d \in Deployments :
  \/ \E t \in NoneOr(Deployments) : Create(d, t)
  \/ ApproveGray(d) \/ Promote(d) \/ Rollback(d)
  \/ \E s \in Samples \ {"none"} : Sample(d, s)
  \/ Bootstrap(d)
  \/ Dispatch(d) \/ DeadLetter(d)
  \/ \E outcome \in {"applied", "broken"} : Execute(d, outcome)
  \/ Receipt(d)
  \/ Drift(d)

(* The worker keeps polling and the executor answers what it was handed:   *)
(* a delivered command gets its receipt.                                   *)
Spec == /\ Init /\ [][Next]_vars
        /\ \A d \in Deployments :
             /\ WF_vars(Dispatch(d))
             /\ WF_vars(\E outcome \in {"applied", "broken"} : Execute(d, outcome))
             /\ WF_vars(Receipt(d))

-----------------------------------------------------------------------------
(***************************************************************************)
(* Properties.                                                             *)
(***************************************************************************)

TypeOK ==
  /\ dep \in [Deployments -> Deployment]
  /\ cmd \in [Deployments -> Command]
  /\ head \in [gen : Nat, dep : NoneOr(Deployments)]
  /\ ledger \in Seq(HeadEvent)
  /\ facts \subseteq Deployments

(* A deployment has all the traffic only as the active head, so never two  *)
(* of them: whatever order promotions, rollbacks and late dispatches come  *)
(* in (materialize_release_command_completion).                            *)
TrafficFollowsHead ==
  \A d \in Deployments :
    (dep[d].rollout = 100 \/ dep[d].status = "completed") => head.dep = d

(* The ledger is the history of the head without a gap: generations count  *)
(* up from one, each entry starts where the last one ended, only the last  *)
(* interval is open and it is the head's (_append_release_head_event).     *)
LedgerIsHistory ==
  /\ Len(ledger) = head.gen
  /\ \A i \in DOMAIN ledger :
       /\ ledger[i].gen = i
       /\ ledger[i].old = IF i = 1 THEN None ELSE ledger[i - 1].new
       /\ ledger[i].open <=> i = Len(ledger)
  /\ ledger # <<>> => ledger[Len(ledger)].new = head.dep

(* The environment does not lose its service to a move that was never      *)
(* asked for: the active head has all the traffic until a rollback of that *)
(* very deployment is requested.  Receipts that are late, obstructed or    *)
(* broken, samples and bootstraps of the others do not take it away.       *)
HeadServes ==
  head.dep # None =>
    \/ dep[head.dep].status = "completed" /\ dep[head.dep].rollout = 100
    \/ cmd[head.dep].action = "rollback" /\ cmd[head.dep].status # "completed"

(* The head moves only by a command frozen against this very head, and a   *)
(* production promotion replaces the deployment it would roll back to: of  *)
(* two commands decided against one head, at most one moves it.            *)
StaleCommandHarmless ==
  [][head'.gen # head.gen =>
       \/ head.gen = 0 /\ head'.gen = 1
       \/ \E d \in Deployments :
            /\ cmd[d].status \in Open /\ cmd'[d].status = "completed"
            /\ cmd[d].gen = head.gen /\ head'.gen = head.gen + 1
            /\ \/ cmd[d].action = "rollback" /\ head'.dep = cmd[d].target
               \/ /\ cmd[d].action = "promote" /\ head'.dep = d
                  /\ Production => dep[d].target = head.dep]_vars

(* The environment behaves as ActiveBundle says: in particular no          *)
(* deployment with a hard regression on record ever starts to serve.       *)
Bundle == INSTANCE ActiveBundle WITH
  current <- head.dep,
  served <- {ledger[i].new : i \in DOMAIN ledger},
  unfit <- {d \in Deployments : dep[d].regressed}
ImplementsActiveBundle == Bundle!Spec

(* A command that was not dead-lettered is closed: whatever happened to    *)
(* the head meanwhile, the deployment does not wait for ever.              *)
CommandSettles ==
  \A d \in Deployments :
    cmd[d].status \in Open ~> (cmd[d].status \notin Open \/ cmd[d].run = "dead")

(* A delivery that failed for good closes the command and gives its slot   *)
(* back, as every other failure of a command does.  A dead letter does not *)
(* tell the command.                                                       *)
GivenUpIsClosed ==
  \A d \in Deployments : cmd[d].run = "dead" => cmd[d].status \notin Open

(* The path the documents fix: a deployment is promoted only after it has  *)
(* been at ten percent.  A healthy sample in shadow leads past it.         *)
PromotedAfterGray ==
  \A d \in Deployments :
    (cmd[d].action = "promote" /\ cmd[d].status = "completed") => dep[d].gray
=============================================================================

------------------------- MODULE LabelOptimization -------------------------
(***************************************************************************)
(* The automatic optimization of one label version: a schedule whose clock *)
(* falls due, sessions of at most MaxRounds rounds, and in each round one  *)
(* run that generates prompt candidates and one evaluation per candidate.  *)
(* A tick of the scheduler is one transaction, held together by the update *)
(* that claims the schedule's row: it reconciles the open session, then    *)
(* scans for a trigger if the clock is due.  What it knows of the runs it  *)
(* read when it began; the engine's receipts and requests of users commit  *)
(* meanwhile.  An exception anywhere in a tick undoes all of it.           *)
(*                                                                         *)
(* A bundle is what the schedule locks: model, policy and dataset, and the *)
(* prompt its first round improves on.  A later round improves on the      *)
(* prompt that the rounds before it arrived at.  Every generation offers   *)
(* prompts of its own, so a prompt is named by the round that selected it. *)
(*                                                                         *)
(* The clock counts intervals of the threshold scan.  The rounds kept are  *)
(* those of the newest session.  There is at most one live run of the      *)
(* scope at a time that belongs to no round.                               *)
(***************************************************************************)
EXTENDS Naturals, Sequences

CONSTANTS
  Candidates,   \* the places of the prompt versions a generation run offers
  Bundles,      \* prompt, model, policy and dataset versions of the schedule
  First,        \* the bundle of the schedule when it was created
  MaxRounds,    \* max_rounds of the budget
  MaxFailures,  \* max_consecutive_failed_rounds
  Limit,        \* max_elapsed
  Cooldown,     \* TRIGGER_COOLDOWN
  Horizon,      \* bound on the clock, and on when a session may begin
  Registered,   \* an execution contract exists for agent_run.requested
  None

ASSUME OptimizationAssumption ==
  /\ Candidates # {} /\ First \in Bundles /\ None \notin Candidates
  /\ MaxRounds \in Nat \ {0} /\ MaxFailures \in Nat \ {0} /\ Limit \in Nat \ {0}
  /\ Cooldown \in Nat /\ Limit < Cooldown /\ Horizon \in Nat /\ Cooldown < Horizon
  /\ Registered \in BOOLEAN

VARIABLES
  now,
  schedule,  \* label_optimization_schedules: status, active_run_id, clock, bundle
  rounds,    \* label_optimization_rounds of the newest session, with their runs
  tick,      \* the transaction of the scheduler: when it began and what it read
  loose,     \* a label_optimization run that no round waits for is live
  last       \* created_at of the scope's newest label_optimization run

vars == <<now, schedule, rounds, tick, loose, last>>

RoundStatuses == {"generating-candidates", "evaluating", "completed", "failed", "blocked",
                  "awaiting-review"}
(* A generation run succeeds with the number of candidates it owes or with *)
(* another.  An evaluation that reported passed every gate, or missed one  *)
(* but gains enough, lowers the critical recall, or gains too little; only *)
(* the first is a success, the others are blocked runs with a result.      *)
Generations == {"live", "success", "miscounted", "failed", "blocked"}
Reports == {"passed", "promising", "harmful", "weak"}
Evals == {"none", "live", "failed", "blocked"} \cup Reports
Stops == {"none", "time", "resource", "quality", "candidates", "generation"}
(* base: the round whose selected candidate is this round's prompt, 0 when *)
(* it is still the one the session began with.                             *)
Round == [status : RoundStatuses, bundle : Bundles, base : Nat, started : Nat, failures : Nat,
          generation : Generations,
          evals : [Candidates -> Evals], selected : Candidates \cup {None}, stop : Stops]
Schedule == [status : {"active", "paused"}, active : BOOLEAN, due : BOOLEAN, bundle : Bundles]
Idle == [at |-> 0, due |-> FALSE, seen |-> <<>>]

Init ==
  /\ now = Cooldown
  /\ schedule = [status |-> "active", active |-> FALSE, due |-> TRUE, bundle |-> First]
  /\ rounds = <<>> /\ tick = Idle /\ loose = FALSE /\ last = 0

-----------------------------------------------------------------------------
Later(s, t) == IF s > t THEN s ELSE t
Current == rounds[Len(rounds)]
Seen == tick.seen[1]
Left(r) == [rounds EXCEPT ![Len(rounds)] = r]
Live(r) == r.generation = "live" \/ \E c \in Candidates : r.evals[c] = "live"
Generating == \E n \in DOMAIN rounds : rounds[n].generation = "live"

(* create_round, with the run that generates its candidates: the prompt is *)
(* handed in, the rest of the bundle comes from the schedule.              *)
Opened(time, failures, base) ==
  [status |-> "generating-candidates", bundle |-> schedule.bundle, base |-> base,
   started |-> time, failures |-> failures, generation |-> "live",
   evals |-> [c \in Candidates |-> "none"], selected |-> None, stop |-> "none"]

(* The requests.  One that changes the schedule locks its row, so a tick   *)
(* is over or has not begun; it may not change the bundle of a session.    *)
(* Slip: it may.                                                           *)
UpdateUnlocked(b, status) ==
  /\ tick = Idle
  /\ schedule' = [schedule EXCEPT !.bundle = b, !.status = status, !.due = TRUE]
  /\ UNCHANGED <<now, rounds, tick, loose, last>>
Update(b, status) ==
  /\ tick = Idle
  /\ schedule.active => b = schedule.bundle
  /\ \E immediately \in BOOLEAN :
       schedule' = [schedule EXCEPT !.bundle = b, !.status = status,
                                    !.due = @ \/ immediately \/ b # schedule.bundle]
  /\ UNCHANGED <<now, rounds, tick, loose, last>>

Rested(time) == last + Cooldown <= time

(* The trigger scan over the API locks the scope's runs.                   *)
Scan ==
  /\ Registered
  /\ ~schedule.active /\ ~Generating /\ ~loose /\ Rested(now)
  /\ loose' = TRUE /\ last' = now
  /\ UNCHANGED <<now, schedule, rounds, tick>>

(* A retry copies a run that failed and checks nothing of the scope.       *)
Retry ==
  /\ Registered /\ ~loose
  /\ \E n \in DOMAIN rounds : rounds[n].generation = "failed"
  /\ loose' = TRUE /\ last' = now
  /\ UNCHANGED <<now, schedule, rounds, tick>>

-----------------------------------------------------------------------------
(* The engine's receipts.                                                  *)
Generated(outcome) ==
  /\ rounds # <<>> /\ Current.generation = "live"
  /\ rounds' = Left([Current EXCEPT !.generation = outcome])
  /\ UNCHANGED <<now, schedule, tick, loose, last>>

Evaluated(c, report) ==
  /\ rounds # <<>> /\ Current.evals[c] = "live"
  /\ rounds' = Left([Current EXCEPT !.evals[c] = report])
  /\ UNCHANGED <<now, schedule, tick, loose, last>>

LooseOver ==
  /\ loose /\ loose' = FALSE
  /\ UNCHANGED <<now, schedule, rounds, tick, last>>

-----------------------------------------------------------------------------
(* The tick: run_once claims a schedule that is due or has a session.      *)
Begin ==
  /\ tick = Idle /\ schedule.status = "active"
  /\ schedule.active \/ schedule.due
  /\ tick' = [at |-> now, due |-> schedule.due,
              seen |-> IF schedule.active THEN <<Current>> ELSE <<>>]
  /\ UNCHANGED <<now, schedule, rounds, loose, last>>

Abort ==
  /\ tick # Idle /\ tick' = Idle
  /\ UNCHANGED <<now, schedule, rounds, loose, last>>

(* The second half of a tick, after the reconciliation made the rounds rs  *)
(* and left the session open or not: the scan, whose metrics may or may    *)
(* not trigger, the clock, the claim given back.                           *)
Finish(rs, open, newest) ==
  LET busy == open \/ loose \/ \E n \in DOMAIN rs : rs[n].generation = "live"
      mayStart == tick.due /\ ~busy /\ newest + Cooldown <= tick.at /\ tick.at + Limit <= Horizon
  IN /\ tick.due => Registered
     /\ \E start \in {FALSE, mayStart} :
          /\ rounds' = IF start THEN <<Opened(tick.at, 0, 0)>> ELSE rs
          /\ schedule' = [schedule EXCEPT !.active = open \/ start,
                                          !.due = IF tick.due THEN tick.at < now ELSE @]
          /\ last' = IF start THEN tick.at ELSE newest
     /\ tick' = Idle
     /\ UNCHANGED <<now, loose>>

InSession == schedule.active /\ tick # Idle
OutOfTime == rounds[1].started + Limit <= tick.at
(* Slip: the two fields swapped.                                           *)
ClosedSwapped(status, stop) ==
  Left([Current EXCEPT !.status = stop, !.stop = status])
Closed(status, stop) ==
  Left([Current EXCEPT !.status = status, !.stop = stop])
(* _create_next_generation, after the current round was left as in rs.     *)
(* Slip: every round starts from the prompt the session began with.        *)
FollowFromFirst(rs, failures, base) ==
  Finish(Append(rs, Opened(tick.at, failures, 0)), TRUE, Later(last, tick.at))
Follow(rs, failures, base) ==
  Finish(Append(rs, Opened(tick.at, failures, base)), TRUE, Later(last, tick.at))

(* Nothing to reconcile: no session, or runs that have not ended.          *)
Wait ==
  /\ tick # Idle
  /\ schedule.active =>
       /\ ~OutOfTime
       /\ IF Seen.status = "evaluating" THEN Live(Seen) ELSE Seen.generation = "live"
  /\ Finish(rounds, schedule.active, last)

(* At the limit every run of the round that had not ended when it was read *)
(* is blocked.  Slips: the limit looked at only when the runs have ended;  *)
(* the round closed and its runs left.                                     *)
HardStopEnded ==
  /\ InSession /\ OutOfTime /\ ~Live(Seen)
  /\ Finish(Closed("blocked", "time"), FALSE, last)
HardStopRoundOnly ==
  /\ InSession /\ OutOfTime
  /\ Finish(Closed("blocked", "time"), FALSE, last)
HardStop ==
  /\ InSession /\ OutOfTime
  /\ Finish(Left([Current EXCEPT
                    !.status = "blocked", !.stop = "time",
                    !.generation = IF Seen.generation = "live" THEN "blocked" ELSE @,
                    !.evals = [c \in Candidates |->
                                 IF Seen.evals[c] = "live" THEN "blocked" ELSE @[c]]]),
            FALSE, last)

(* A generation that succeeded must have offered enough, at a known cost.  *)
RefuseCandidates ==
  /\ InSession /\ ~OutOfTime
  /\ Seen.status = "generating-candidates"
  /\ \/ /\ Seen.generation = "miscounted"
        /\ Finish(Closed("blocked", "candidates"), FALSE, last)
     \/ /\ Seen.generation = "success"
        /\ Finish(Closed("blocked", "resource"), FALSE, last)

CreateEvals ==
  /\ InSession /\ ~OutOfTime
  /\ Seen.status = "generating-candidates" /\ Seen.generation = "success"
  /\ Finish(Left([Current EXCEPT !.status = "evaluating",
                                 !.evals = [c \in Candidates |-> "live"]]), TRUE, last)

(* One that did not succeed counts against the budget, then the next round *)
(* begins from the same prompt.                                            *)
(* Slip: without a look at the number of rounds.                           *)
GenerationLostUnbounded(costKept) ==
  LET failures == Seen.failures + 1
      lost == [Current EXCEPT !.failures = failures]
  IN /\ InSession /\ ~OutOfTime
     /\ Seen.status = "generating-candidates" /\ Seen.generation \in {"failed", "blocked"}
     /\ IF costKept /\ failures < MaxFailures
        THEN Follow(Left([lost EXCEPT !.status = "failed"]), failures, Current.base)
        ELSE Finish(Left([lost EXCEPT !.status = "blocked", !.stop = "generation"]), FALSE, last)
GenerationLost(costKept) ==
  LET failures == Seen.failures + 1
      lost == [Current EXCEPT !.failures = failures]
  IN /\ InSession /\ ~OutOfTime
     /\ Seen.status = "generating-candidates" /\ Seen.generation \in {"failed", "blocked"}
     /\ IF costKept /\ failures < MaxFailures /\ Len(rounds) < MaxRounds
        THEN Follow(Left([lost EXCEPT !.status = "failed"]), failures, Current.base)
        ELSE Finish(Left([lost EXCEPT !.status = "blocked", !.stop = "generation"]), FALSE, last)

(* The best candidate: one that passed, else the one that gained most.     *)
(* Slip: the one that gained most.                                         *)
Reported(r) == {c \in Candidates : r.evals[c] \in Reports}
Passed(r) == {c \in Candidates : r.evals[c] = "passed"}
Gainful(r) == {c \in Reported(r) : r.evals[c] # "weak"}
BestByGain(r) == IF Gainful(r) # {} THEN Gainful(r) ELSE Reported(r)
Best(r) == IF Passed(r) # {} THEN Passed(r) ELSE BestByGain(r)

(* All evaluations have ended: review, stop, or another round, from the    *)
(* best candidate of this one if any reported.                             *)
JudgeRound(best, costKept) ==
  LET n == Len(rounds)
      report == IF best = None THEN "none" ELSE Seen.evals[best]
      failures == Seen.failures + (IF best = None THEN 1 ELSE 0)
      judged == [Current EXCEPT !.selected = best, !.failures = failures]
      stop == n >= MaxRounds \/ report \in {"harmful", "weak"} \/ failures >= MaxFailures
  IN /\ InSession /\ ~OutOfTime /\ Seen.status = "evaluating" /\ ~Live(Seen)
     /\ best \in IF Best(Seen) = {} THEN {None} ELSE Best(Seen)
     /\ \/ /\ Passed(Seen) # {} /\ costKept
           /\ Finish(Left([judged EXCEPT !.status = "awaiting-review"]), FALSE, last)
        \/ /\ Passed(Seen) = {} \/ ~costKept
           /\ stop \/ ~costKept
           /\ Finish(Left([judged EXCEPT !.status = "blocked",
                                         !.stop = IF costKept THEN "quality" ELSE "resource"]),
                     FALSE, last)
        \/ /\ Passed(Seen) = {} /\ costKept /\ ~stop
           /\ Follow(Left([judged EXCEPT !.status = "completed"]), failures,
                     IF best = None THEN Current.base ELSE n)

Pass ==
  /\ now < Horizon /\ now' = now + 1
  /\ schedule' = [schedule EXCEPT !.due = TRUE]
  /\ UNCHANGED <<rounds, tick, loose, last>>

-----------------------------------------------------------------------------
Commit ==
  \/ Wait \/ HardStop \/ RefuseCandidates \/ CreateEvals
  \/ \E costKept \in BOOLEAN : GenerationLost(costKept)
  \/ \E best \in Candidates \cup {None}, costKept \in BOOLEAN : JudgeRound(best, costKept)
Users ==
  \/ \E b \in Bundles, status \in {"active", "paused"} : Update(b, status)
  \/ Scan \/ Retry
Engine ==
  \/ \E outcome \in {"success", "miscounted", "failed"} : Generated(outcome)
  \/ \E c \in Candidates, report \in Reports \cup {"failed"} : Evaluated(c, report)
  \/ LooseOver
Next == Begin \/ Abort \/ Commit \/ Users \/ Engine \/ Pass

(* The scheduler keeps ticking and some tick commits; time passes.  The    *)
(* engine owes nothing.                                                    *)
Spec == Init /\ [][Next]_vars /\ WF_vars(Begin) /\ SF_vars(Commit) /\ WF_vars(Pass)

-----------------------------------------------------------------------------
TypeOK ==
  /\ now \in Cooldown .. Horizon /\ last \in Nat
  /\ schedule \in Schedule /\ rounds \in Seq(Round)
  /\ tick.at \in 0 .. now /\ tick.due \in BOOLEAN /\ tick.seen \in Seq(Round)
  /\ loose \in BOOLEAN

(* The schedule points at a session exactly while that session's last      *)
(* round is open; every earlier round was left for the next, and there are *)
(* no more than the budget has.  A pointer without an open round would     *)
(* hold the scope for ever, as no tick finds anything to reconcile.        *)
OpenRounds == {n \in DOMAIN rounds : rounds[n].status \in {"generating-candidates", "evaluating"}}
SessionIsItsLastRound ==
  /\ OpenRounds = IF schedule.active THEN {Len(rounds)} ELSE {}
  /\ \A n \in DOMAIN rounds : n < Len(rounds) => rounds[n].status \in {"completed", "failed"}
  /\ Len(rounds) <= MaxRounds

(* When a session has ended, whatever ended it, no run of it is left for   *)
(* the engine; nor is one of an earlier round.                             *)
NothingOutlives ==
  \A n \in DOMAIN rounds : Live(rounds[n]) => schedule.active /\ n = Len(rounds)

(* What is put to the reviewers passed every gate, and a session stops for *)
(* want of quality only if no candidate passed, however well another did.  *)
ReviewIsEarned ==
  \A n \in DOMAIN rounds :
    /\ rounds[n].status = "awaiting-review" => rounds[n].evals[rounds[n].selected] = "passed"
    /\ rounds[n].stop = "quality" => Passed(rounds[n]) = {}

(* A session is one line of improvement on one locked bundle: every round  *)
(* starts from the newest prompt that a round before it selected, rounds   *)
(* whose generation was lost or whose evaluations all failed between them  *)
(* or not, and never from one that lowered the critical recall or gained   *)
(* too little; and the schedule keeps the versions its open session began  *)
(* with.                                                                   *)
OneLineage ==
  /\ schedule.active => \A n \in DOMAIN rounds : rounds[n].bundle = schedule.bundle
  /\ \A n \in DOMAIN rounds :
       LET b == rounds[n].base
       IN /\ b < n
          /\ b # 0 => /\ rounds[b].selected # None
                      /\ rounds[b].evals[rounds[b].selected] = "promising"
          /\ \A m \in b + 1 .. n - 1 : rounds[m].selected = None

(* An open session ends, even if the engine never answers, unless the      *)
(* schedule is paused.                                                     *)
SessionEnds ==
  schedule.active ~> (~schedule.active \/ schedule.status = "paused")

(* Two generation runs of one scope are never live together: the request   *)
(* for a run, the scan and the schedule each refuse a second one.  A retry *)
(* does not.                                                               *)
OneActiveRun == ~(loose /\ Generating)
=============================================================================

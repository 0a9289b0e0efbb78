---------------------------- MODULE ReleaseProofs ----------------------------
(***************************************************************************)
(* Proofs about Release, for every number of deployments and every bound:  *)
(* type correctness, the head, its ledger and the traffic, the commands    *)
(* that a moved head makes stale, and the refinement of ActiveBundle.      *)
(*                                                                         *)
(* The argument.  The ledger grows with the head, so generation and length *)
(* agree (LedgerInv), and whatever serves is the last entry of the ledger. *)
(* A command in flight pins its deployment: while it is open the           *)
(* deployment is not observed, so no sample condemns what a promotion      *)
(* under way is about to put in service; and once a deployment has served  *)
(* or is condemned, the only command that can still be open for it is a    *)
(* rollback (Spent).  So nothing but a rollback can take the traffic from  *)
(* the head (Serving).                                                     *)
(***************************************************************************)
EXTENDS Release, SequenceTheorems, TLAPS

-----------------------------------------------------------------------------
(***************************************************************************)
(* The inductive invariant.                                                *)
(***************************************************************************)

(* Every deployment that has ever served, and every condemned one. *)
Served == {ledger[i].new : i \in DOMAIN ledger}
Condemned == {d \in Deployments : dep[d].regressed}

(* No head, no deployment; the last entry of the ledger is the head's. *)
LedgerInv ==
  /\ LedgerIsHistory
  /\ head.gen = 0 => head.dep = None
  /\ head.dep # None => head.dep \in Served

(* What a deployment, in record r, and its latest command k have in        *)
(* common.  A run waits only for a command that is open, a rollback knows  *)
(* where to go back to, and while a command is open the deployment is      *)
(* neither observed nor absent.                                            *)
InStep(r, k) ==
  /\ r.status \in Open => k.status \in Open
  /\ k.run = "pending" => k.status \in Open
  /\ k.action = "rollback" => k.target \in Deployments
  /\ r.status \in Observed \cup {"absent"} => k.status \notin Open

(* A deployment that is out of the way up for good: it is not observed any *)
(* more, and all that can still be under way for it is a rollback.         *)
Spent(r, k) ==
  /\ r.status \notin Observed \cup {"absent"}
  /\ k.status \in Open => k.action = "rollback"

(* The head keeps its traffic until it is asked to give it back. *)
Serving(r, k) ==
  \/ r.status = "completed" /\ r.rollout = 100
  \/ k.action = "rollback" /\ k.status # "completed"

(* What has served, and what is condemned, is spent, and nothing is both.  *)
(* Only what has served is ever shown as stable, only what serves has the  *)
(* traffic, and the head does serve.                                       *)
Lived(d, r, k) ==
  /\ d \in Served => Spent(r, k) /\ ~r.regressed
  /\ r.regressed => Spent(r, k) /\ "command" \in r.reasons
  /\ r.status \in {"completed", "superseded"} => d \in Served
  /\ r.rollout = 100 \/ r.status = "completed" => head.dep = d
  /\ head.dep = d => Serving(r, k)

Sound(d, r, k) == InStep(r, k) /\ Lived(d, r, k)

Inv == TypeOK /\ LedgerInv /\ \A d \in Deployments : Sound(d, dep[d], cmd[d])

-----------------------------------------------------------------------------
(***************************************************************************)
(* The ledger.                                                             *)
(***************************************************************************)

(* An activation adds one entry to the ledger, closes the one before, and  *)
(* the deployment that takes over is all that is new among the served.     *)
LEMMA LedgerGrows ==
  ASSUME TypeOK, LedgerInv, NEW d \in Deployments,
         NEW a \in {"bootstrap", "activate", "promote", "rollback"}, ActivateHead(d, a)
  PROVE  /\ head' = [gen |-> head.gen + 1, dep |-> d]
         /\ ledger' \in Seq(HeadEvent)
         /\ Served' = Served \cup {d}
         /\ LedgerInv'
  <1> DEFINE n == head.gen
             closed == [i \in DOMAIN ledger |->
                          IF ledger[i].gen = head.gen THEN [ledger[i] EXCEPT !.open = FALSE]
                          ELSE ledger[i]]
             e == [gen |-> n + 1, action |-> a, old |-> head.dep, new |-> d, open |-> TRUE]
  <1>1. n \in Nat /\ head.dep \in NoneOr(Deployments) /\ ledger \in Seq(HeadEvent) /\ Len(ledger) = n
    BY DEF TypeOK, LedgerInv, LedgerIsHistory
  <1>2. \A i \in 1 .. n : ledger[i] \in HeadEvent
    BY <1>1, ElementOfSeq
  <1>3. closed \in Seq(HeadEvent) /\ Len(closed) = n
    <2>1. DOMAIN ledger = 1 .. n
      BY <1>1
    <2>2. \A i \in 1 .. n : closed[i] \in HeadEvent
      BY <1>2, <2>1 DEF HeadEvent
    <2>3. closed = [i \in 1 .. n |-> closed[i]] /\ DOMAIN closed = 1 .. n
      BY <2>1
    <2> HIDE DEF closed
    <2>4. [i \in 1 .. n |-> closed[i]] \in Seq(HeadEvent)
      BY <1>1, <2>2, IsASeq
    <2>5. closed \in Seq(HeadEvent)
      BY <2>3, <2>4
    <2>6. Len(closed) \in Nat /\ 1 .. n = 1 .. Len(closed)
      BY <2>3, <2>5, LenProperties
    <2> QED
      BY <1>1, <2>5, <2>6
  <1>4. \A i \in 1 .. n : /\ closed[i].gen = i
                          /\ closed[i].old = ledger[i].old
                          /\ closed[i].new = ledger[i].new
                          /\ closed[i].open = FALSE
    BY <1>1, <1>2 DEF LedgerInv, LedgerIsHistory, HeadEvent
  <1>5. e \in HeadEvent
    BY <1>1 DEF HeadEvent
  <1>6. head' = [gen |-> n + 1, dep |-> d] /\ ledger' = Append(closed, e)
    BY DEF ActivateHead, RecordHead
  <1> HIDE DEF closed
  <1>7. /\ ledger' \in Seq(HeadEvent)
        /\ Len(ledger') = n + 1
        /\ ledger'[n + 1] = e
        /\ \A i \in 1 .. n : ledger'[i] = closed[i]
    BY <1>3, <1>5, <1>6, AppendProperties
  <1>8. DOMAIN ledger = 1 .. n /\ DOMAIN ledger' = 1 .. n + 1
    BY <1>1, <1>7
  <1>9. Served' = Served \cup {d}
    BY <1>1, <1>4, <1>7, <1>8 DEF Served
  <1>10. LedgerIsHistory'
    <2>1. ASSUME NEW i \in 1 .. n + 1
          PROVE  /\ ledger'[i].gen = i
                 /\ ledger'[i].old = IF i = 1 THEN None ELSE ledger'[i - 1].new
                 /\ ledger'[i].open <=> i = n + 1
      <3>1. CASE i \in 1 .. n
        <4>1. ledger'[i] = closed[i] /\ (i # 1 => ledger'[i - 1] = closed[i - 1])
          <5>1. i # 1 => i - 1 \in 1 .. n
            BY <1>1, <3>1
          <5> QED
            BY <1>7, <3>1, <5>1
        <4>2. closed[i].old = IF i = 1 THEN None ELSE ledger[i - 1].new
          BY <1>1, <1>4, <1>8, <3>1 DEF LedgerInv, LedgerIsHistory
        <4>3. i # 1 => closed[i - 1].new = ledger[i - 1].new
          BY <1>1, <1>4, <3>1
        <4> QED
          BY <1>1, <1>4, <3>1, <4>1, <4>2, <4>3
      <3>2. CASE i = n + 1
        <4>1. ledger'[i] = e
          BY <1>7, <3>2
        <4>2. i # 1 => ledger'[n] = closed[n] /\ closed[n].new = ledger[n].new
          BY <1>1, <1>4, <1>7, <3>2
        <4>3. head.dep = IF i = 1 THEN None ELSE ledger[n].new
          BY <1>1, <3>2 DEF LedgerInv, LedgerIsHistory
        <4> QED
          BY <1>1, <3>2, <4>1, <4>2, <4>3
      <3> QED
        BY <1>1, <3>1, <3>2
    <2> QED
      BY <1>1, <1>6, <1>7, <1>8, <2>1 DEF LedgerIsHistory
  <1>11. d # None
    BY DeploymentsAssumption
  <1> QED
    BY <1>1, <1>6, <1>7, <1>9, <1>10, <1>11 DEF LedgerInv

-----------------------------------------------------------------------------
(***************************************************************************)
(* Steps that leave the head alone.                                        *)
(***************************************************************************)

(* A step that writes one deployment and its command, and does not move    *)
(* the head, is safe if what it writes is.                                 *)
LEMMA LocalStep ==
  ASSUME Inv, NEW d \in Deployments, NEW r \in Deployment, NEW k \in Command,
         dep' = [dep EXCEPT ![d] = r], cmd' = [cmd EXCEPT ![d] = k],
         UNCHANGED <<head, ledger>>, facts' \subseteq Deployments, Sound(d, r, k)
  PROVE  Inv'
  <1>1. TypeOK'
    BY DEF Inv, TypeOK
  <1>2. LedgerInv'
    BY DEF Inv, LedgerInv, LedgerIsHistory, Served
  <1>3. ASSUME NEW o \in Deployments PROVE Sound(o, dep[o], cmd[o])'
    <2>1. CASE o = d
      <3>1. dep'[o] = r /\ cmd'[o] = k
        BY <2>1 DEF Inv, TypeOK
      <3> QED
        BY <2>1, <3>1 DEF Sound, InStep, Lived, Spent, Served, Serving
    <2>2. CASE o # d
      <3>1. dep'[o] = dep[o] /\ cmd'[o] = cmd[o] /\ Sound(o, dep[o], cmd[o])
        BY <2>2 DEF Inv, TypeOK
      <3> QED
        BY <3>1 DEF Sound, InStep, Lived, Spent, Served, Serving
    <2> QED
      BY <2>1, <2>2
  <1> QED
    BY <1>1, <1>2, <1>3 DEF Inv

(* What the invariant says of one deployment and its command. *)
LEMMA RowTypes ==
  ASSUME Inv, NEW d \in Deployments
  PROVE  /\ dep[d] \in Deployment /\ cmd[d] \in Command /\ Sound(d, dep[d], cmd[d])
         /\ head.gen \in Nat /\ head.dep \in NoneOr(Deployments)
         /\ head.dep = d => d \in Served
         /\ facts \subseteq Deployments
         /\ dep = [dep EXCEPT ![d] = dep[d]] /\ cmd = [cmd EXCEPT ![d] = cmd[d]]
  BY DeploymentsAssumption DEF Inv, TypeOK, LedgerInv

(* A request that opens a command does so for a deployment with none in    *)
(* flight, and anything but a rollback only for one that is not spent.     *)
LEMMA OpenStep ==
  ASSUME Inv, NEW d \in Deployments, NEW a \in Actions, NEW t \in NoneOr(Deployments),
         NEW r \in Deployment, OpenCommand(d, a, t, r),
         UNCHANGED <<head, ledger, facts>>,
         a = "rollback" => t \in Deployments,
         a # "rollback" => d \notin Served /\ ~r.regressed,
         d \in Served => ~r.regressed,
         r.regressed => "command" \in r.reasons,
         r.rollout # 100 \/ a = "rollback" \/ head.dep = d
  PROVE  Inv'
  <1> DEFINE rec == [r EXCEPT !.status = IF a = "publish" THEN "pending" ELSE "materializing",
                              !.rollout = IF a = "rollback" THEN 0 ELSE @]
             k == [action |-> a, status |-> "pending", target |-> t,
                   gen |-> head.gen, base |-> head.dep, run |-> "pending"]
  <1>1. dep' = [dep EXCEPT ![d] = rec] /\ cmd' = [cmd EXCEPT ![d] = k]
    BY DEF OpenCommand
  <1>2. rec \in Deployment /\ k \in Command
    BY DEF Deployment, Command, Statuses, Actions, Open, Inv, TypeOK
  <1>3. /\ rec.status \in {"pending", "materializing"} /\ rec.regressed = r.regressed
        /\ rec.reasons = r.reasons /\ rec.rollout = IF a = "rollback" THEN 0 ELSE r.rollout
    BY DEF Deployment
  <1>4. k.action = a /\ k.status = "pending" /\ k.target = t
    OBVIOUS
  <1> HIDE DEF rec, k
  <1>5. Sound(d, rec, k)
    <2>1. head.dep = d => d \in Served
      BY RowTypes
    <2> QED
      BY <1>3, <1>4, <2>1 DEF Sound, InStep, Lived, Spent, Serving, Open, Observed
  <1>6. facts' \subseteq Deployments
    BY DEF Inv, TypeOK
  <1> QED
    BY <1>1, <1>2, <1>5, <1>6, LocalStep

LEMMA RequestStep ==
  ASSUME Inv, NEW d \in Deployments,
         \/ \E t \in NoneOr(Deployments) : Create(d, t)
         \/ ApproveGray(d) \/ Promote(d) \/ Rollback(d)
  PROVE  Inv'
  <1>0. /\ dep[d] \in Deployment /\ cmd[d] \in Command /\ Sound(d, dep[d], cmd[d])
        /\ dep = [dep EXCEPT ![d] = dep[d]] /\ cmd = [cmd EXCEPT ![d] = cmd[d]]
        /\ facts \subseteq Deployments
        /\ head.dep = d => d \in Served
    BY RowTypes
  <1>1. ASSUME NEW t \in NoneOr(Deployments), Create(d, t) PROVE Inv'
    <2> DEFINE blockers == Blockers(d, t, TRUE)
               rec == [dep[d] EXCEPT !.status = IF blockers = {} THEN "pending" ELSE "blocked",
                                     !.target = t, !.reasons = blockers]
    <2>1. blockers \subseteq Reasons
      BY DEF Blockers
    <2> HIDE DEF blockers
    <2>2. rec \in Deployment
      BY <1>0, <2>1 DEF Deployment, Statuses
    <2>3. dep[d].status = "absent" /\ UNCHANGED <<head, ledger, facts>>
      BY <1>1 DEF Create
    <2>4. /\ rec.regressed = dep[d].regressed /\ rec.rollout = dep[d].rollout
          /\ rec.status = IF blockers = {} THEN "pending" ELSE "blocked"
      BY <1>0 DEF Deployment
    <2>5. d \notin Served /\ ~dep[d].regressed /\ (dep[d].rollout = 100 => head.dep = d)
      BY <1>0, <2>3 DEF Sound, Lived, Spent
    <2>6. CASE OpenCommand(d, "publish", None, rec)
      <3> HIDE DEF rec
      <3> QED
        BY <2>2, <2>3, <2>4, <2>5, <2>6, OpenStep DEF Actions, NoneOr
    <2>7. CASE blockers # {} /\ dep' = [dep EXCEPT ![d] = rec] /\ UNCHANGED <<cmd, issued>>
      <3> HIDE DEF rec
      <3>1. Sound(d, rec, cmd[d])
        BY <1>0, <2>3, <2>4, <2>5, <2>7 DEF Sound, InStep, Lived, Spent, Open, Observed
      <3>2. facts' \subseteq Deployments
        BY <1>0, <2>3
      <3>3. cmd' = [cmd EXCEPT ![d] = cmd[d]]
        BY <1>0, <2>7
      <3> QED
        BY <1>0, <2>2, <2>3, <2>7, <3>1, <3>2, <3>3, LocalStep
    <2> QED
      BY <1>1, <2>6, <2>7 DEF Create, blockers
  <1>2. CASE ApproveGray(d)
    <2>1. /\ dep[d].status \in Observed
          /\ OpenCommand(d, "approve-gray", None, dep[d]) /\ UNCHANGED <<head, ledger, facts>>
      BY <1>2 DEF ApproveGray, Observed
    <2>2. d \notin Served /\ ~dep[d].regressed /\ (dep[d].rollout = 100 => head.dep = d)
      BY <1>0, <2>1 DEF Sound, Lived, Spent
    <2> QED
      BY <1>0, <2>1, <2>2, OpenStep DEF Actions, NoneOr
  <1>3. CASE Promote(d)
    <2>1. /\ dep[d].status \in Observed
          /\ OpenCommand(d, "promote", None, dep[d]) /\ UNCHANGED <<head, ledger, facts>>
      BY <1>3 DEF Promote, Observed
    <2>2. d \notin Served /\ ~dep[d].regressed /\ (dep[d].rollout = 100 => head.dep = d)
      BY <1>0, <2>1 DEF Sound, Lived, Spent
    <2> QED
      BY <1>0, <2>1, <2>2, OpenStep DEF Actions, NoneOr
  <1>4. CASE Rollback(d)
    <2> DEFINE t == dep[d].target
    <2>1. /\ t # None /\ OpenCommand(d, "rollback", t, dep[d]) /\ UNCHANGED <<head, ledger, facts>>
      BY <1>4 DEF Rollback
    <2>2. t \in Deployments
      BY <1>0, <2>1 DEF Deployment, NoneOr
    <2>3. /\ d \in Served => ~dep[d].regressed
          /\ dep[d].regressed => "command" \in dep[d].reasons
      BY <1>0 DEF Sound, Lived
    <2> HIDE DEF t
    <2> QED
      BY <1>0, <2>1, <2>2, <2>3, OpenStep DEF Actions, NoneOr
  <1> QED
    BY <1>1, <1>2, <1>3, <1>4

LEMMA SampleStep ==
  ASSUME Inv, NEW d \in Deployments, NEW s \in Samples \ {"none"}, Sample(d, s)
  PROVE  Inv'
  <1> DEFINE t == dep[d].target
             rec == [dep[d] EXCEPT !.sample = s, !.regressed = @ \/ s = "hard"]
             stopped == [rec EXCEPT !.rollout = 0, !.reasons = {"command"}]
             healthy == [rec EXCEPT !.status = "monitoring"]
             blocked == [stopped EXCEPT !.status = "blocked"]
  <1>0. /\ dep[d] \in Deployment /\ cmd[d] \in Command /\ Sound(d, dep[d], cmd[d])
        /\ cmd = [cmd EXCEPT ![d] = cmd[d]]
        /\ facts \subseteq Deployments
        /\ head.dep = d => d \in Served
    BY RowTypes
  <1>1. dep[d].status \in Observed /\ UNCHANGED <<head, ledger, facts>>
    BY DEF Sample
  <1>2. /\ d \notin Served /\ ~dep[d].regressed /\ (dep[d].rollout = 100 => head.dep = d)
        /\ cmd[d].status \notin Open /\ head.dep # d
    BY <1>0, <1>1 DEF Sound, InStep, Lived, Spent
  <1>3. stopped \in Deployment /\ healthy \in Deployment /\ blocked \in Deployment
    BY <1>0 DEF Deployment, Statuses, Samples, Reasons
  <1>4. /\ stopped.rollout = 0 /\ stopped.reasons = {"command"}
        /\ blocked.rollout = 0 /\ blocked.reasons = {"command"} /\ blocked.status = "blocked"
        /\ healthy.rollout = dep[d].rollout /\ healthy.status = "monitoring"
        /\ s # "hard" => healthy.regressed = dep[d].regressed
    BY <1>0, <1>2 DEF Deployment
  <1>5. \/ s # "hard" /\ dep' = [dep EXCEPT ![d] = healthy] /\ cmd' = cmd
        \/ s = "hard" /\ t # None /\ OpenCommand(d, "rollback", t, stopped)
        \/ s = "hard" /\ dep' = [dep EXCEPT ![d] = blocked] /\ cmd' = cmd
    BY DEF Sample
  <1>6. t # None => t \in Deployments
    BY <1>0 DEF Deployment, NoneOr
  <1>7. facts' \subseteq Deployments
    BY <1>0, <1>1
  <1> HIDE DEF t, rec, stopped, healthy, blocked
  <1>8. CASE s # "hard" /\ dep' = [dep EXCEPT ![d] = healthy] /\ cmd' = cmd
    <2>1. Sound(d, healthy, cmd[d])
      BY <1>0, <1>2, <1>4, <1>8 DEF Sound, InStep, Lived, Open, Observed
    <2> QED
      BY <1>0, <1>1, <1>3, <1>7, <1>8, <2>1, LocalStep
  <1>9. CASE s = "hard" /\ t # None /\ OpenCommand(d, "rollback", t, stopped)
    BY <1>1, <1>2, <1>3, <1>4, <1>6, <1>9, OpenStep DEF Actions, NoneOr
  <1>10. CASE s = "hard" /\ dep' = [dep EXCEPT ![d] = blocked] /\ cmd' = cmd
    <2>1. Sound(d, blocked, cmd[d])
      BY <1>0, <1>2, <1>4 DEF Sound, InStep, Lived, Spent, Open, Observed
    <2> QED
      BY <1>0, <1>1, <1>3, <1>7, <1>10, <2>1, LocalStep
  <1> QED
    BY <1>5, <1>8, <1>9, <1>10

(* Delivery, the executor, and the receipts that do not move the head. *)
LEMMA DeliveryStep ==
  ASSUME Inv, NEW d \in Deployments,
         \/ Dispatch(d) \/ DeadLetter(d)
         \/ \E outcome \in {"applied", "broken"} : Execute(d, outcome)
         \/ CompleteBlocked(d) \/ CompleteStage(d) \/ CommandFailure(d)
         \/ Drift(d)
  PROVE  Inv'
  <1>0. /\ dep[d] \in Deployment /\ cmd[d] \in Command /\ Sound(d, dep[d], cmd[d])
        /\ dep = [dep EXCEPT ![d] = dep[d]] /\ cmd = [cmd EXCEPT ![d] = cmd[d]]
        /\ facts \subseteq Deployments
        /\ head.dep = d => d \in Served
    BY RowTypes
  <1>1. CASE Dispatch(d)
    <2> DEFINE r == [dep[d] EXCEPT !.status = "materializing"]
               k == [cmd[d] EXCEPT !.status = "materializing", !.run = "submitted"]
    <2>1. dep' = [dep EXCEPT ![d] = r] /\ cmd' = [cmd EXCEPT ![d] = k]
      BY <1>1 DEF Dispatch, Inv, TypeOK
    <2>2. r \in Deployment /\ k \in Command
      BY <1>0 DEF Deployment, Command, Statuses, Open
    <2>3. cmd[d].status \in Open
      BY <1>0, <1>1 DEF Dispatch, Sound, InStep
    <2>4. Sound(d, r, k)
      BY <1>0, <2>3 DEF Sound, InStep, Lived, Spent, Serving, Open, Observed, Deployment, Command
    <2>5. UNCHANGED <<head, ledger, facts>>
      BY <1>1 DEF Dispatch
    <2> HIDE DEF r, k
    <2> QED
      BY <1>0, <2>1, <2>2, <2>4, <2>5, LocalStep
  <1>2. ASSUME NEW o \in {"dead", "applied", "broken"},
               cmd[d].run \in {"pending", "submitted"},
               cmd' = [cmd EXCEPT ![d].run = o],
               UNCHANGED <<dep, head, ledger, facts>>
        PROVE  Inv'
    <2> DEFINE k == [cmd[d] EXCEPT !.run = o]
    <2>1. cmd' = [cmd EXCEPT ![d] = k] /\ k \in Command
      BY <1>0, <1>2 DEF Command, Inv, TypeOK
    <2>2. Sound(d, dep[d], k)
      BY <1>0 DEF Sound, InStep, Lived, Spent, Serving, Command
    <2> HIDE DEF k
    <2> QED
      BY <1>0, <1>2, <2>1, <2>2, LocalStep
  <1>3. ASSUME NEW s \in {"blocked", "failed"}, cmd[d].status \in Open,
               CloseCommand(d, s), BlockDeployment(d), UNCHANGED <<head, ledger, facts>>
        PROVE  Inv'
    <2> DEFINE r == [dep[d] EXCEPT !.status = "blocked", !.rollout = 0, !.reasons = {"command"}]
               k == [cmd[d] EXCEPT !.status = s, !.run = "closed"]
    <2>1. dep' = [dep EXCEPT ![d] = r] /\ cmd' = [cmd EXCEPT ![d] = k]
      BY <1>3 DEF CloseCommand, BlockDeployment, Inv, TypeOK
    <2>2. r \in Deployment /\ k \in Command
      BY <1>0 DEF Deployment, Command, Statuses, Reasons
    <2>3. Sound(d, r, k)
      BY <1>0, <1>3 DEF Sound, InStep, Lived, Spent, Serving, Open, Observed, Deployment, Command
    <2> HIDE DEF r, k
    <2> QED
      BY <1>0, <1>3, <2>1, <2>2, <2>3, LocalStep
  <1>4. CASE CompleteStage(d)
    <2> DEFINE k == [cmd[d] EXCEPT !.status = "completed", !.run = "closed"]
    <2>1. k \in Command
      BY <1>0 DEF Command
    <2>2. cmd' = [cmd EXCEPT ![d] = k] /\ UNCHANGED <<head, ledger, facts>>
      BY <1>4 DEF CompleteStage, CloseCommand, Inv, TypeOK
    <2>3. d \notin Served /\ ~dep[d].regressed
      BY <1>0, <1>4 DEF CompleteStage, Receivable, Sound, Lived, Spent
    <2>4. ASSUME NEW r \in Deployment, dep' = [dep EXCEPT ![d] = r],
                 r.status \in Observed, r.rollout # 100, r.regressed = dep[d].regressed
          PROVE  Inv'
      <3>1. k.status = "completed" /\ k.run = "closed" /\ k.action = cmd[d].action
            /\ k.target = cmd[d].target
        BY <1>0 DEF Command
      <3> HIDE DEF k
      <3>2. Sound(d, r, k)
        BY <1>0, <2>3, <2>4, <3>1 DEF Sound, InStep, Lived, Open, Observed
      <3> QED
        BY <1>0, <2>1, <2>2, <2>4, <3>2, LocalStep
    <2> DEFINE shadow == [dep[d] EXCEPT !.status = "shadowing", !.rollout = 0]
               gray == [dep[d] EXCEPT !.status = "gray-releasing", !.rollout = 10,
                                      !.gray = TRUE]
    <2>5. dep' = [dep EXCEPT ![d] = shadow] \/ dep' = [dep EXCEPT ![d] = gray]
      BY <1>4 DEF CompleteStage, Inv, TypeOK
    <2>6. shadow \in Deployment /\ gray \in Deployment
      BY <1>0 DEF Deployment, Statuses
    <2>7. /\ shadow.status = "shadowing" /\ shadow.rollout = 0
          /\ shadow.regressed = dep[d].regressed
          /\ gray.status = "gray-releasing" /\ gray.rollout = 10
          /\ gray.regressed = dep[d].regressed
      BY <1>0 DEF Deployment
    <2> HIDE DEF shadow, gray
    <2> QED
      BY <2>4, <2>5, <2>6, <2>7 DEF Observed
  <1>5. CASE Drift(d)
    <2>1. facts' \subseteq Deployments /\ UNCHANGED <<dep, cmd, head, ledger>>
      BY <1>0, <1>5 DEF Drift
    <2> QED
      BY <1>0, <2>1, LocalStep
  <1> QED
    BY <1>1, <1>2, <1>3, <1>4, <1>5
       DEF DeadLetter, Execute, CompleteBlocked, CommandFailure, Receivable

-----------------------------------------------------------------------------
(***************************************************************************)
(* Steps that move the head.                                               *)
(***************************************************************************)

(* The head moves to d: whoever served before is spent already, and keeps  *)
(* neither traffic nor status; nobody else had them.                       *)
LEMMA HeadStep ==
  ASSUME Inv, NEW d \in Deployments,
         NEW a \in {"bootstrap", "activate", "promote", "rollback"}, ActivateHead(d, a),
         dep' \in [Deployments -> Deployment], cmd' \in [Deployments -> Command],
         facts' = facts,
         \A o \in Deployments : InStep(dep'[o], cmd'[o]),
         dep'[d].status = "completed", dep'[d].rollout = 100,
         ~dep'[d].regressed, Spent(dep'[d], cmd'[d]),
         \A o \in Deployments \ {d} :
           /\ dep'[o].regressed = dep[o].regressed /\ dep'[o].reasons = dep[o].reasons
           /\ Spent(dep[o], cmd[o]) => Spent(dep'[o], cmd'[o])
           /\ dep'[o].rollout # 100 /\ dep'[o].status # "completed"
           /\ dep'[o].status = "superseded" => dep[o].status = "superseded" \/ o = head.dep
  PROVE  Inv'
  <1>1. /\ head' = [gen |-> head.gen + 1, dep |-> d] /\ ledger' \in Seq(HeadEvent)
        /\ Served' = Served \cup {d} /\ LedgerInv'
    BY LedgerGrows DEF Inv
  <1>2. TypeOK'
    BY <1>1 DEF Inv, TypeOK, NoneOr
  <1>3. Sound(d, dep[d], cmd[d])'
    BY <1>1 DEF Sound, Lived, Serving
  <1>4. ASSUME NEW o \in Deployments \ {d} PROVE Sound(o, dep[o], cmd[o])'
    <2>1. Sound(o, dep[o], cmd[o]) /\ (o \in Served' <=> o \in Served)
      BY <1>1 DEF Inv
    <2>2. o = head.dep => o \in Served
      BY DeploymentsAssumption DEF Inv, LedgerInv
    <2>3. InStep(dep'[o], cmd'[o])
      OBVIOUS
    <2> QED
      BY <1>1, <2>1, <2>2, <2>3 DEF Sound, Lived
  <1> QED
    BY <1>1, <1>2, <1>3, <1>4 DEF Inv

(* Giving a deployment another status and share of the traffic changes     *)
(* nothing else of it.                                                     *)
Restate(r, s, x) == [r EXCEPT !.status = s, !.rollout = x]

LEMMA Restated ==
  ASSUME NEW r \in Deployment, NEW s \in Statuses, NEW x \in {0, 10, 100}
  PROVE  /\ Restate(r, s, x) \in Deployment
         /\ Restate(r, s, x).status = s /\ Restate(r, s, x).rollout = x
         /\ Restate(r, s, x).regressed = r.regressed /\ Restate(r, s, x).reasons = r.reasons
  BY DEF Deployment, Restate

(* Closing a command leaves the others alone, and what was asked for as it *)
(* was.                                                                    *)
LEMMA Closed ==
  ASSUME Inv, NEW d \in Deployments, NEW s \in {"completed", "blocked", "failed"},
         CloseCommand(d, s)
  PROVE  /\ cmd' \in [Deployments -> Command]
         /\ cmd'[d].status = s /\ cmd'[d].run = "closed"
         /\ cmd'[d].action = cmd[d].action /\ cmd'[d].target = cmd[d].target
         /\ \A o \in Deployments \ {d} : cmd'[o] = cmd[o]
  <1> DEFINE k == [cmd[d] EXCEPT !.status = s, !.run = "closed"]
  <1>1. cmd \in [Deployments -> Command] /\ cmd[d] \in Command
    BY DEF Inv, TypeOK
  <1>2. cmd' = [cmd EXCEPT ![d] = k]
    BY <1>1 DEF CloseCommand
  <1>3. /\ k \in Command /\ k.status = s /\ k.run = "closed"
        /\ k.action = cmd[d].action /\ k.target = cmd[d].target
    BY <1>1 DEF Command
  <1> HIDE DEF k
  <1> QED
    BY <1>1, <1>2, <1>3

LEMMA BootstrapStep ==
  ASSUME Inv, NEW d \in Deployments, Bootstrap(d)
  PROVE  Inv'
  <1>1. /\ head.gen = 0 /\ cmd[d].status \notin Open /\ cmd' = cmd /\ facts' = facts
        /\ dep[d].reasons \subseteq {"target required", "head required"}
        /\ dep' = [dep EXCEPT ![d].status = "completed", ![d].rollout = 100, ![d].reasons = {}]
        /\ ActivateHead(d, "bootstrap")
    BY DEF Bootstrap
  <1> DEFINE r == [dep[d] EXCEPT !.status = "completed", !.rollout = 100, !.reasons = {}]
  <1>a. dep \in [Deployments -> Deployment] /\ dep[d] \in Deployment
    BY DEF Inv, TypeOK
  <1>b. dep' = [dep EXCEPT ![d] = r]
    BY <1>1, <1>a
  <1>c. /\ r \in Deployment /\ r.status = "completed" /\ r.rollout = 100
        /\ r.regressed = dep[d].regressed
    BY <1>a DEF Deployment, Statuses
  <1> HIDE DEF r
  <1>2. dep' \in [Deployments -> Deployment] /\ cmd' \in [Deployments -> Command]
    <2>1. cmd \in [Deployments -> Command] /\ cmd' = cmd
      BY <1>1 DEF Inv, TypeOK
    <2> QED
      BY <1>a, <1>b, <1>c, <2>1
  <1>3. /\ dep'[d].status = "completed" /\ dep'[d].rollout = 100
        /\ dep'[d].regressed = dep[d].regressed
        /\ \A o \in Deployments \ {d} : dep'[o] = dep[o]
    BY <1>a, <1>b, <1>c
  <1>4. ~dep[d].regressed
    BY <1>1 DEF Inv, Sound, Lived
  <1>5. Spent(dep'[d], cmd'[d])
    BY <1>1, <1>3 DEF Spent, Observed
  <1>6. ASSUME NEW o \in Deployments PROVE InStep(dep'[o], cmd'[o])
    <2>1. InStep(dep[o], cmd[o])
      BY DEF Inv, Sound
    <2> QED
      BY <1>1, <1>3, <2>1 DEF InStep, Open, Observed
  <1>7. ASSUME NEW o \in Deployments \ {d}
        PROVE  dep[o].rollout # 100 /\ dep[o].status # "completed"
    BY <1>1, DeploymentsAssumption DEF Inv, Sound, Lived, LedgerInv
  <1>8. ASSUME NEW o \in Deployments \ {d}
        PROVE  /\ dep'[o].regressed = dep[o].regressed /\ dep'[o].reasons = dep[o].reasons
               /\ Spent(dep[o], cmd[o]) => Spent(dep'[o], cmd'[o])
               /\ dep'[o].rollout # 100 /\ dep'[o].status # "completed"
               /\ dep'[o].status = "superseded" => dep[o].status = "superseded" \/ o = head.dep
    <2>1. dep'[o] = dep[o] /\ cmd'[o] = cmd[o]
      BY <1>1, <1>3
    <2> QED
      BY <1>7, <2>1
  <1>9. ~dep'[d].regressed /\ dep'[d].status = "completed" /\ dep'[d].rollout = 100
    BY <1>3, <1>4
  <1>10. "bootstrap" \in {"bootstrap", "activate", "promote", "rollback"}
    OBVIOUS
  <1> QED
    BY <1>1, <1>2, <1>5, <1>6, <1>8, <1>9, <1>10, HeadStep

(* What a receipt that moves the head has found: the command was frozen    *)
(* against this very head.                                                 *)
LEMMA PromoteStep ==
  ASSUME Inv, NEW d \in Deployments, CompletePromote(d)
  PROVE  Inv' /\ d \notin Served /\ ~dep[d].regressed
  <1> DEFINE a == IF head.gen = 0 THEN "activate" ELSE "promote"
  <1>0. /\ cmd[d].status \in Open /\ cmd[d].action = "promote"
        /\ facts' = facts /\ ActivateHead(d, a)
        /\ CloseCommand(d, "completed")
    BY DEF CompletePromote, Receivable
  <1>1. dep' = [o \in Deployments |->
          IF o = d THEN [dep[o] EXCEPT !.status = "completed", !.rollout = 100]
          ELSE IF o = head.dep THEN [dep[o] EXCEPT !.status = "superseded", !.rollout = 0]
          ELSE dep[o]]
    BY DEF CompletePromote
  <1>2. d \notin Served /\ ~dep[d].regressed
    BY <1>0 DEF Inv, Sound, Lived, Spent
  <1>3. /\ cmd' \in [Deployments -> Command]
        /\ cmd'[d].status = "completed" /\ cmd'[d].run = "closed"
        /\ cmd'[d].action = cmd[d].action /\ cmd'[d].target = cmd[d].target
        /\ \A o \in Deployments \ {d} : cmd'[o] = cmd[o]
    BY <1>0, Closed
  <1>4. ASSUME NEW o \in Deployments
        PROVE  /\ dep'[o] \in Deployment
               /\ dep'[o].regressed = dep[o].regressed /\ dep'[o].reasons = dep[o].reasons
               /\ o = d => dep'[o].status = "completed" /\ dep'[o].rollout = 100
               /\ \/ o = d
                  \/ o = head.dep /\ dep'[o].status = "superseded" /\ dep'[o].rollout = 0
                  \/ o # head.dep /\ dep'[o] = dep[o]
    <2>1. dep[o] \in Deployment
      BY DEF Inv, TypeOK
    <2>2. CASE o = d
      <3>1. dep'[o] = Restate(dep[o], "completed", 100)
        BY <1>1, <2>2 DEF Restate
      <3> QED
        BY <2>1, <2>2, <3>1, Restated DEF Statuses
    <2>3. CASE o # d /\ o = head.dep
      <3>1. dep'[o] = Restate(dep[o], "superseded", 0)
        BY <1>1, <2>3 DEF Restate
      <3> QED
        BY <2>1, <2>3, <3>1, Restated DEF Statuses
    <2>4. CASE o # d /\ o # head.dep
      BY <1>1, <2>1, <2>4
    <2> QED
      BY <2>2, <2>3, <2>4
  <1>5. dep' \in [Deployments -> Deployment]
    BY <1>1, <1>4
  <1>8. ASSUME NEW o \in Deployments \ {d}
        PROVE  /\ dep'[o].rollout # 100 /\ dep'[o].status # "completed"
               /\ Spent(dep[o], cmd[o]) => Spent(dep'[o], cmd'[o])
               /\ dep'[o].status = "superseded" => dep[o].status = "superseded" \/ o = head.dep
    BY <1>3, <1>4 DEF Inv, Sound, Lived, Spent, Observed
  <1>9. ASSUME NEW o \in Deployments PROVE InStep(dep'[o], cmd'[o])
    <2>1. InStep(dep[o], cmd[o])
      BY DEF Inv, Sound
    <2>2. CASE o = d
      BY <1>0, <1>3, <1>4, <2>1, <2>2 DEF InStep, Open, Observed
    <2>3. CASE o # d
      BY <1>3, <1>4, <2>1, <2>3 DEF InStep, Open, Observed
    <2> QED
      BY <2>2, <2>3
  <1>10. Spent(dep'[d], cmd'[d])
    BY <1>3, <1>4 DEF Spent, Open, Observed
  <1>11. a \in {"activate", "promote"}
    OBVIOUS
  <1> HIDE DEF a
  <1>12. Inv'
    BY <1>0, <1>2, <1>3, <1>4, <1>5, <1>8, <1>9, <1>10, <1>11, HeadStep
  <1> QED
    BY <1>2, <1>12

LEMMA RollbackStep ==
  ASSUME Inv, NEW d \in Deployments, CompleteRollback(d)
  PROVE  Inv' /\ cmd[d].target \in Served
  <1> DEFINE t == cmd[d].target
             a == IF head.gen = 0 THEN "activate" ELSE "rollback"
  <1>0. /\ cmd[d].status \in Open /\ cmd[d].action = "rollback" /\ Stable(t, TRUE)
        /\ facts' = facts /\ ActivateHead(t, a)
        /\ CloseCommand(d, "completed")
    BY DEF CompleteRollback, Receivable, Obstructed
  <1>1. dep' = [o \in Deployments |->
          IF o = t THEN [dep[o] EXCEPT !.status = "completed", !.rollout = 100]
          ELSE IF o = d THEN [dep[o] EXCEPT !.status = "rolled-back", !.rollout = 0]
          ELSE IF o = head.dep THEN [dep[o] EXCEPT !.status = "superseded", !.rollout = 0]
          ELSE dep[o]]
    BY DEF CompleteRollback
  <1>2. t \in Deployments
    BY <1>0 DEF Inv, Sound, InStep
  <1>3. t \in Served /\ ~dep[t].regressed /\ Spent(dep[t], cmd[t])
    BY <1>0, <1>2 DEF Inv, Sound, Lived, Stable
  <1> HIDE DEF t
  <1>4. /\ cmd' \in [Deployments -> Command]
        /\ cmd'[d].status = "completed" /\ cmd'[d].run = "closed"
        /\ cmd'[d].action = cmd[d].action /\ cmd'[d].target = cmd[d].target
        /\ \A o \in Deployments \ {d} : cmd'[o] = cmd[o]
    BY <1>0, Closed
  <1>5. ASSUME NEW o \in Deployments
        PROVE  /\ dep'[o] \in Deployment
               /\ dep'[o].regressed = dep[o].regressed /\ dep'[o].reasons = dep[o].reasons
               /\ o = t => dep'[o].status = "completed" /\ dep'[o].rollout = 100
               /\ \/ o = t
                  \/ o = d /\ dep'[o].status = "rolled-back" /\ dep'[o].rollout = 0
                  \/ o = head.dep /\ dep'[o].status = "superseded" /\ dep'[o].rollout = 0
                  \/ o # d /\ o # head.dep /\ dep'[o] = dep[o]
    <2>1. dep[o] \in Deployment
      BY DEF Inv, TypeOK
    <2>2. CASE o = t
      <3>1. dep'[o] = Restate(dep[o], "completed", 100)
        BY <1>1, <2>2 DEF Restate
      <3> QED
        BY <2>1, <2>2, <3>1, Restated DEF Statuses
    <2>3. CASE o # t /\ o = d
      <3>1. dep'[o] = Restate(dep[o], "rolled-back", 0)
        BY <1>1, <2>3 DEF Restate
      <3> QED
        BY <2>1, <2>3, <3>1, Restated DEF Statuses
    <2>4. CASE o # t /\ o # d /\ o = head.dep
      <3>1. dep'[o] = Restate(dep[o], "superseded", 0)
        BY <1>1, <2>4 DEF Restate
      <3> QED
        BY <2>1, <2>4, <3>1, Restated DEF Statuses
    <2>5. CASE o # t /\ o # d /\ o # head.dep
      BY <1>1, <2>1, <2>5
    <2> QED
      BY <2>2, <2>3, <2>4, <2>5
  <1>6. dep' \in [Deployments -> Deployment]
    BY <1>1, <1>5
  <1>10. ASSUME NEW o \in Deployments \ {t}
         PROVE  /\ dep'[o].rollout # 100 /\ dep'[o].status # "completed"
                /\ Spent(dep[o], cmd[o]) => Spent(dep'[o], cmd'[o])
                /\ dep'[o].status = "superseded" => dep[o].status = "superseded" \/ o = head.dep
    <2>1. cmd'[o].status \in Open => cmd'[o].action = cmd[o].action /\ cmd[o].status \in Open
      BY <1>4 DEF Open
    <2> QED
      BY <1>5, <2>1 DEF Inv, Sound, Lived, Spent, Observed
  <1>11. ASSUME NEW o \in Deployments PROVE InStep(dep'[o], cmd'[o])
    <2>1. InStep(dep[o], cmd[o])
      BY DEF Inv, Sound
    <2>2. CASE o = t
      BY <1>0, <1>4, <1>5, <2>1, <2>2 DEF InStep, Open, Observed
    <2>3. CASE o # t
      BY <1>0, <1>4, <1>5, <2>1, <2>3 DEF InStep, Open, Observed
    <2> QED
      BY <2>2, <2>3
  <1>12. Spent(dep'[t], cmd'[t])
    <2>1. dep'[t].status = "completed"
      BY <1>2, <1>5
    <2>2. cmd'[t].status \in Open => cmd'[t] = cmd[t]
      BY <1>2, <1>4 DEF Open
    <2> QED
      BY <1>3, <2>1, <2>2 DEF Spent, Observed
  <1>13. a \in {"activate", "rollback"}
    OBVIOUS
  <1> HIDE DEF a
  <1>14. Inv'
    BY <1>0, <1>2, <1>3, <1>4, <1>5, <1>6, <1>10, <1>11, <1>12, <1>13, HeadStep
  <1> QED
    BY <1>3, <1>14 DEF t

-----------------------------------------------------------------------------
(***************************************************************************)
(* Results.                                                                *)
(***************************************************************************)

LEMMA InitInv == Init => Inv
  <1> SUFFICES ASSUME Init PROVE Inv
    OBVIOUS
  <1> DEFINE r == [status |-> "absent", rollout |-> 0, target |-> None, reasons |-> {},
                   sample |-> "none", gray |-> FALSE, regressed |-> FALSE]
             k == [action |-> "publish", status |-> "none", target |-> None,
                   gen |-> 0, base |-> None, run |-> "none"]
  <1>1. r \in Deployment /\ k \in Command
    BY DEF Deployment, Command, Statuses, Samples, Actions, NoneOr
  <1>2. /\ dep = [d \in Deployments |-> r] /\ cmd = [d \in Deployments |-> k]
        /\ head = [gen |-> 0, dep |-> None] /\ ledger = <<>> /\ facts = Deployments
    BY DEF Init
  <1>3. ledger \in Seq(HeadEvent) /\ Len(ledger) = 0 /\ Served = {}
    BY <1>2 DEF Served
  <1>4. InStep(r, k) /\ r.regressed = FALSE /\ r.status = "absent" /\ r.rollout = 0
    BY DEF InStep, Open
  <1> HIDE DEF r, k
  <1>5. TypeOK
    BY <1>1, <1>2, <1>3 DEF TypeOK, NoneOr
  <1>6. LedgerInv /\ head.dep \notin Deployments
    BY <1>2, <1>3, DeploymentsAssumption DEF LedgerInv, LedgerIsHistory
  <1>7. ASSUME NEW d \in Deployments PROVE Sound(d, dep[d], cmd[d])
    <2>1. dep[d] = r /\ cmd[d] = k
      BY <1>2
    <2>2. Sound(d, r, k)
      BY <1>3, <1>4, <1>6 DEF Sound, Lived
    <2> QED
      BY <2>1, <2>2
  <1> QED
    BY <1>5, <1>6, <1>7 DEF Inv

LEMMA NextInv == Inv /\ [Next]_vars => Inv'
  <1> SUFFICES ASSUME Inv, [Next]_vars PROVE Inv'
    OBVIOUS
  <1>1. CASE UNCHANGED vars
    BY <1>1 DEF vars, Inv, TypeOK, LedgerInv, LedgerIsHistory, Served,
                Sound, InStep, Lived, Spent, Serving
  <1>2. CASE Next
    BY <1>2, RequestStep, SampleStep, BootstrapStep, DeliveryStep, PromoteStep, RollbackStep
       DEF Next, Receipt
  <1> QED
    BY <1>1, <1>2

LEMMA Invariance == Spec => []Inv
  BY InitInv, NextInv, PTL DEF Spec

(* Whatever is requested, sampled, delivered late, given up or received:   *)
(* the tables hold what their columns allow.                               *)
THEOREM TypeCorrect == Spec => []TypeOK
  <1>1. Inv => TypeOK
    BY DEF Inv
  <1> QED
    BY <1>1, Invariance, PTL

(* No deployment but the head's has all the traffic or is completed, in    *)
(* every order of promotions, rollbacks, late dispatches and regressions.  *)
THEOREM TrafficIsTheHeads == Spec => []TrafficFollowsHead
  <1>1. Inv => TrafficFollowsHead
    BY DEF Inv, TrafficFollowsHead, LedgerInv, Sound, Lived
  <1> QED
    BY <1>1, Invariance, PTL

(* The ledger of rollbacks and promotions is the history of the head,      *)
(* without a gap, one generation after the other.                          *)
THEOREM LedgerHasNoGap == Spec => []LedgerIsHistory
  <1>1. Inv => LedgerIsHistory
    BY DEF Inv, LedgerInv, Sound, Lived
  <1> QED
    BY <1>1, Invariance, PTL

(* The environment is never left without its service by a move that was    *)
(* not asked for: whatever receipts come late, are obstructed or broken,   *)
(* and whatever is sampled, the head has all the traffic until a rollback  *)
(* of it is requested.                                                     *)
THEOREM HeadKeepsItsService == Spec => []HeadServes
  <1>1. ASSUME Inv PROVE HeadServes
    <2>1. ASSUME head.dep # None
          PROVE  head.dep \in Deployments /\ Serving(dep[head.dep], cmd[head.dep])
      BY <1>1, <2>1 DEF Inv, TypeOK, NoneOr, Sound, Lived
    <2> QED
      BY <2>1 DEF HeadServes, Serving
  <1> QED
    BY <1>1, Invariance, PTL

(* A step that does not complete a promotion or a rollback, and is no      *)
(* bootstrap, leaves head and ledger as they are.                          *)
LEMMA HeadMovers ==
  ASSUME [Next]_vars
  PROVE  \/ UNCHANGED <<head, ledger>>
         \/ \E d \in Deployments : Bootstrap(d) \/ CompletePromote(d) \/ CompleteRollback(d)
  BY DEF Next, vars, Receipt, Create, ApproveGray, Promote, Rollback, Sample, Dispatch,
         DeadLetter, Execute, CompleteBlocked, CompleteStage, CommandFailure, Drift

(* However long a command was under way, it moves the head only if the     *)
(* head is still the one it was decided against; of two commands decided   *)
(* against one head, at most one moves it.                                 *)
THEOREM StaleCommandsAreHarmless == Spec => StaleCommandHarmless
  <1> DEFINE Moves(d) ==
        /\ cmd[d].status \in Open /\ cmd'[d].status = "completed"
        /\ cmd[d].gen = head.gen /\ head'.gen = head.gen + 1
        /\ \/ cmd[d].action = "rollback" /\ head'.dep = cmd[d].target
           \/ /\ cmd[d].action = "promote" /\ head'.dep = d
              /\ Production => dep[d].target = head.dep
  <1>1. ASSUME Inv, [Next]_vars, head'.gen # head.gen
        PROVE  \/ head.gen = 0 /\ head'.gen = 1
               \/ \E d \in Deployments : Moves(d)
    <2>1. PICK d \in Deployments : Bootstrap(d) \/ CompletePromote(d) \/ CompleteRollback(d)
      BY <1>1, HeadMovers
    <2>2. CASE Bootstrap(d)
      <3>1. head.gen = 0 /\ head' = [gen |-> head.gen + 1, dep |-> d]
        BY <2>2 DEF Bootstrap, ActivateHead
      <3> QED
        BY <3>1
    <2>3. CASE CompletePromote(d)
      <3>1. /\ cmd[d].status \in Open /\ cmd[d].action = "promote"
            /\ CloseCommand(d, "completed") /\ head' = [gen |-> head.gen + 1, dep |-> d]
            /\ HeadUnchanged(cmd[d]) /\ Revalidated(d)
        BY <2>3 DEF CompletePromote, Receivable, Obstructed, ActivateHead
      <3>2. cmd'[d].status = "completed"
        BY <1>1, <3>1, Closed
      <3>3. Production => dep[d].target = head.dep
        <4>1. ASSUME Production PROVE dep[d].target = head.dep
          <5>1. \A r \in Reasons : r \notin Blockers(d, dep[d].target, TRUE)
            BY <3>1 DEF Revalidated
          <5>2. dep[d].target # None /\ head.gen # 0
            BY <4>1, <5>1 DEF Blockers, Reasons
          <5> QED
            BY <4>1, <5>1, <5>2 DEF Blockers, Reasons
        <4> QED
          BY <4>1
      <3> QED
        BY <3>1, <3>2, <3>3 DEF HeadUnchanged
    <2>4. CASE CompleteRollback(d)
      <3>1. /\ cmd[d].status \in Open /\ cmd[d].action = "rollback"
            /\ CloseCommand(d, "completed")
            /\ head' = [gen |-> head.gen + 1, dep |-> cmd[d].target]
            /\ HeadUnchanged(cmd[d])
        BY <2>4 DEF CompleteRollback, Receivable, Obstructed, ActivateHead
      <3>2. cmd'[d].status = "completed"
        BY <1>1, <3>1, Closed
      <3> QED
        BY <3>1, <3>2 DEF HeadUnchanged
    <2> QED
      BY <2>1, <2>2, <2>3, <2>4
  <1> HIDE DEF Moves
  <1>2. Inv /\ [Next]_vars =>
          (head'.gen # head.gen => \/ head.gen = 0 /\ head'.gen = 1
                                  \/ \E d \in Deployments : Moves(d))
    BY <1>1
  <1> USE DEF Moves
  <1> QED
    BY <1>2, Invariance, PTL DEF Spec, StaleCommandHarmless

-----------------------------------------------------------------------------
(***************************************************************************)
(* The refinement: served and unfit of ActiveBundle are Served and         *)
(* Condemned.                                                              *)
(***************************************************************************)

(* Only a hard sample adds to the condemned.                               *)
LEMMA WhoCondemns ==
  ASSUME Inv, [Next]_vars
  PROVE  \/ Condemned' = Condemned
         \/ \E d \in Deployments :
              /\ d \notin Served /\ Condemned' = Condemned \cup {d}
              /\ UNCHANGED <<head, ledger>>
  <1> DEFINE Kept == \A o \in Deployments : dep'[o].regressed = dep[o].regressed
  <1>0. /\ dep \in [Deployments -> Deployment]
        /\ \A o \in Deployments : dep[o] \in Deployment
    BY DEF Inv, TypeOK
  <1>1. Kept => Condemned' = Condemned
    BY DEF Condemned
  <1>2. ASSUME NEW d \in Deployments, NEW r, dep' = [dep EXCEPT ![d] = r],
               r.regressed = dep[d].regressed
        PROVE  Kept
    BY <1>0, <1>2
  <1>3. ASSUME NEW d \in Deployments, NEW a, NEW t, NEW r \in Deployment,
               OpenCommand(d, a, t, r)
        PROVE  \E n : dep' = [dep EXCEPT ![d] = n] /\ n.regressed = r.regressed
    <2> DEFINE n == [r EXCEPT !.status = IF a = "publish" THEN "pending" ELSE "materializing",
                              !.rollout = IF a = "rollback" THEN 0 ELSE @]
    <2>1. dep' = [dep EXCEPT ![d] = n]
      BY <1>3 DEF OpenCommand
    <2>2. n.regressed = r.regressed
      BY DEF Deployment
    <2> QED
      BY <2>1, <2>2
  <1>4. ASSUME NEW d \in Deployments, NEW t \in NoneOr(Deployments), Create(d, t) PROVE Kept
    <2> DEFINE blockers == Blockers(d, t, TRUE)
               rec == [dep[d] EXCEPT !.status = IF blockers = {} THEN "pending" ELSE "blocked",
                                     !.target = t, !.reasons = blockers]
    <2>1. blockers \subseteq Reasons
      BY DEF Blockers
    <2>2. OpenCommand(d, "publish", None, rec) \/ dep' = [dep EXCEPT ![d] = rec]
      BY <1>4 DEF Create
    <2> HIDE DEF blockers, Kept
    <2>a. dep[d] \in Deployment
      BY <1>0
    <2>3. rec \in Deployment /\ rec.regressed = dep[d].regressed
      BY <2>1, <2>a DEF Deployment, Statuses
    <2> HIDE DEF rec
    <2> QED
      BY <1>2, <1>3, <2>2, <2>3
  <1>5. ASSUME NEW d \in Deployments, ApproveGray(d) \/ Promote(d) \/ Rollback(d) PROVE Kept
    <2>1. PICK a, t : OpenCommand(d, a, t, dep[d])
      BY <1>5 DEF ApproveGray, Promote, Rollback
    <2> QED
      BY <1>0, <1>2, <1>3, <2>1
  <1>6. ASSUME NEW d \in Deployments, NEW s \in Samples \ {"none"}, Sample(d, s)
        PROVE  \/ Kept
               \/ /\ d \notin Served /\ Condemned' = Condemned \cup {d}
                  /\ UNCHANGED <<head, ledger>>
    <2> DEFINE t == dep[d].target
               rec == [dep[d] EXCEPT !.sample = s, !.regressed = @ \/ s = "hard"]
               stopped == [rec EXCEPT !.rollout = 0, !.reasons = {"command"}]
               healthy == [rec EXCEPT !.status = "monitoring"]
               blocked == [stopped EXCEPT !.status = "blocked"]
    <2>1. \/ s # "hard" /\ dep' = [dep EXCEPT ![d] = healthy]
          \/ s = "hard" /\ OpenCommand(d, "rollback", t, stopped)
          \/ s = "hard" /\ dep' = [dep EXCEPT ![d] = blocked]
      BY <1>6 DEF Sample
    <2>a. dep[d] \in Deployment
      BY <1>0
    <2>2. stopped \in Deployment
      BY <2>a DEF Deployment, Samples, Reasons
    <2>3. /\ s # "hard" => healthy.regressed = dep[d].regressed
          /\ s = "hard" => stopped.regressed /\ blocked.regressed
      BY <2>a DEF Deployment
    <2> HIDE DEF t, rec, stopped, healthy, blocked
    <2>4. CASE s # "hard"
      BY <1>2, <2>1, <2>3, <2>4
    <2>5. CASE s = "hard"
      <3>1. PICK n : dep' = [dep EXCEPT ![d] = n] /\ n.regressed
        BY <1>3, <2>1, <2>2, <2>3, <2>5
      <3>2. Condemned' = Condemned \cup {d}
        BY <1>0, <3>1 DEF Condemned
      <3>3. d \notin Served /\ UNCHANGED <<head, ledger>>
        BY <1>6 DEF Sample, Inv, Sound, Lived, Spent
      <3> QED
        BY <3>2, <3>3
    <2> QED
      BY <2>4, <2>5
  <1>7. ASSUME NEW d \in Deployments,
               \/ Dispatch(d) \/ CompleteBlocked(d) \/ CompleteStage(d) \/ CommandFailure(d)
               \/ Bootstrap(d)
        PROVE  Kept
    <2> DEFINE R == {[dep[d] EXCEPT !.status = "materializing"],
                     [dep[d] EXCEPT !.status = "blocked", !.rollout = 0, !.reasons = {"command"}],
                     [dep[d] EXCEPT !.status = "shadowing", !.rollout = 0],
                     [dep[d] EXCEPT !.status = "gray-releasing", !.rollout = 10, !.gray = TRUE],
                     [dep[d] EXCEPT !.status = "completed", !.rollout = 100, !.reasons = {}]}
    <2>1. \E r \in R : dep' = [dep EXCEPT ![d] = r]
      <3>1. CASE Dispatch(d)
        BY <1>0, <3>1 DEF Dispatch
      <3>2. CASE CompleteBlocked(d)
        BY <1>0, <3>2 DEF CompleteBlocked, BlockDeployment
      <3>3. CASE CompleteStage(d)
        BY <1>0, <3>3 DEF CompleteStage, BlockDeployment
      <3>4. CASE CommandFailure(d)
        BY <1>0, <3>4 DEF CommandFailure, BlockDeployment
      <3>5. CASE Bootstrap(d)
        BY <1>0, <3>5 DEF Bootstrap
      <3> QED
        BY <1>7, <3>1, <3>2, <3>3, <3>4, <3>5
    <2>2. \A r \in R : r.regressed = dep[d].regressed
      <3>1. dep[d] \in Deployment
        BY <1>0
      <3> QED
        BY <3>1 DEF Deployment
    <2> HIDE DEF R
    <2> QED
      BY <1>2, <2>1, <2>2
  <1>8. ASSUME NEW d \in Deployments, CompletePromote(d) \/ CompleteRollback(d) PROVE Kept
    <2>1. ASSUME NEW o \in Deployments PROVE dep'[o].regressed = dep[o].regressed
      <3>1. \/ dep'[o] = dep[o]
            \/ \E s \in Statuses, x \in {0, 10, 100} : dep'[o] = Restate(dep[o], s, x)
        BY <1>8 DEF CompletePromote, CompleteRollback, Restate, Statuses
      <3> QED
        BY <1>0, <3>1, Restated
    <2> QED
      BY <2>1
  <1>9. CASE dep' = dep
    BY <1>9 DEF Condemned
  <1> HIDE DEF Kept
  <1> QED
    BY <1>1, <1>4, <1>5, <1>6, <1>7, <1>8, <1>9
       DEF Next, vars, Receipt, DeadLetter, Execute, Drift

(* Commands, receipts, samples and drifts in any order: a deployment       *)
(* starts to serve only when nothing is known against it, and what a       *)
(* rollback brings back has served before.                                 *)
THEOREM ReleaseImplementsActiveBundle == Spec => ImplementsActiveBundle
  <1>1. Init => Bundle!Init
    BY DEF Init, Bundle!Init
  <1>2. ASSUME Inv, [Next]_vars PROVE [Bundle!Next]_(Bundle!vars)
    <2>1. CASE UNCHANGED <<head, ledger>>
      <3>1. CASE Condemned' = Condemned
        BY <2>1, <3>1 DEF Bundle!vars, Condemned
      <3>2. ASSUME NEW d \in Deployments, d \notin Served, Condemned' = Condemned \cup {d}
            PROVE  Bundle!Condemn(d)
        BY <2>1, <3>2 DEF Bundle!Condemn, Served, Condemned
      <3> QED
        BY <1>2, <3>1, <3>2, WhoCondemns DEF Bundle!Next
    <2>2. ASSUME NEW d \in Deployments, NEW t \in Deployments,
                 NEW a \in {"bootstrap", "activate", "promote", "rollback"},
                 ActivateHead(t, a),
                 ~ UNCHANGED <<head, ledger>>,
                 \/ t \in Served
                 \/ t \notin Served /\ ~dep[t].regressed
          PROVE  Bundle!Next
      <3>1. head'.dep = t /\ Served' = Served \cup {t}
        BY <1>2, <2>2, LedgerGrows DEF Inv
      <3>2. Condemned' = Condemned
        BY <1>2, <2>2, WhoCondemns
      <3>3. CASE t \in Served
        <4>1. Bundle!Restore(t)
          BY <3>1, <3>2, <3>3 DEF Bundle!Restore, Served, Condemned
        <4> QED
          BY <4>1 DEF Bundle!Next
      <3>4. CASE t \notin Served /\ ~dep[t].regressed
        <4>1. Bundle!Activate(t)
          BY <3>1, <3>2, <3>4 DEF Bundle!Activate, Served, Condemned
        <4> QED
          BY <4>1 DEF Bundle!Next
      <3> QED
        BY <2>2, <3>3, <3>4
    <2>3. ASSUME NEW d \in Deployments, Bootstrap(d), ~ UNCHANGED <<head, ledger>>
          PROVE  Bundle!Next
      <3>1. Served = {}
        <4>1. ledger \in Seq(HeadEvent) /\ Len(ledger) = 0
          BY <1>2, <2>3 DEF Bootstrap, Inv, LedgerInv, LedgerIsHistory, TypeOK
        <4>2. DOMAIN ledger = {}
          BY <4>1, LenProperties
        <4> QED
          BY <4>2 DEF Served
      <3>2. ~dep[d].regressed /\ ActivateHead(d, "bootstrap")
        BY <1>2, <2>3 DEF Bootstrap, Inv, Sound, Lived
      <3> QED
        BY <2>2, <2>3, <3>1, <3>2
    <2>4. ASSUME NEW d \in Deployments, CompletePromote(d), ~ UNCHANGED <<head, ledger>>
          PROVE  Bundle!Next
      <3>1. ActivateHead(d, "activate") \/ ActivateHead(d, "promote")
        BY <2>4 DEF CompletePromote
      <3> QED
        BY <1>2, <2>2, <2>4, <3>1, PromoteStep
    <2>5. ASSUME NEW d \in Deployments, CompleteRollback(d), ~ UNCHANGED <<head, ledger>>
          PROVE  Bundle!Next
      <3>1. ActivateHead(cmd[d].target, "activate") \/ ActivateHead(cmd[d].target, "rollback")
        BY <2>5 DEF CompleteRollback
      <3>2. cmd[d].target \in Deployments
        BY <1>2, <2>5 DEF CompleteRollback, Inv, Sound, InStep
      <3> QED
        BY <1>2, <2>2, <2>5, <3>1, <3>2, RollbackStep
    <2> QED
      BY <1>2, <2>1, <2>3, <2>4, <2>5, HeadMovers
  <1> QED
    BY <1>1, <1>2, Invariance, PTL DEF Spec, ImplementsActiveBundle, Bundle!Spec

(* What the proofs about ActiveBundle say of the environment.              *)
Promise == INSTANCE ActiveBundleProofs WITH
  current <- head.dep,
  served <- {ledger[i].new : i \in DOMAIN ledger},
  unfit <- {d \in Deployments : dep[d].regressed}

(* A deployment with a hard regression on record does not serve and is not *)
(* in the ledger: no promotion that was under way when the sample came in, *)
(* and no late receipt, has put it there.                                  *)
THEOREM RegressedNeverServes ==
  Spec => [](\A d \in Deployments : dep[d].regressed =>
               d # head.dep /\ \A i \in DOMAIN ledger : ledger[i].new # d)
  <1>1. Promise!OnlyTheFitServe =>
          \A d \in Deployments : dep[d].regressed =>
            d # head.dep /\ \A i \in DOMAIN ledger : ledger[i].new # d
    BY DeploymentsAssumption DEF Promise!OnlyTheFitServe
  <1>2. Bundle!Spec => Promise!Spec
    BY DEF Bundle!Spec, Bundle!Init, Bundle!Next, Bundle!vars, Bundle!Activate,
           Bundle!Restore, Bundle!Condemn, Promise!Spec, Promise!Init, Promise!Next,
           Promise!vars, Promise!Activate, Promise!Restore, Promise!Condemn
  <1> QED
    BY <1>1, <1>2, ReleaseImplementsActiveBundle, Promise!PromiseKept, PTL
       DEF ImplementsActiveBundle
=============================================================================

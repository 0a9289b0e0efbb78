------------------------------ MODULE FactSets ------------------------------
(***************************************************************************)
(* Sets of label facts, the head that makes one of them visible in an      *)
(* environment, and the recomputation runs that fill them.  A run reserves *)
(* an empty candidate set in a namespace of its own and splits the work    *)
(* into partitions; each partition is executed, perhaps in several         *)
(* attempts, and its receipt writes the facts.  Facts are append-only and  *)
(* their logical keys unique in a namespace.  A set is validated, approved *)
(* and promoted only while what it froze is still true, which is looked up *)
(* again each time.  Every request is one transaction.                     *)
(*                                                                         *)
(* A fact is its logical key here, a manifest is what it is the digest of. *)
(* A request names the head it was decided on; one that names another is   *)
(* refused, so requests are modelled with the head as it is.               *)
(***************************************************************************)
EXTENDS Naturals, Sequences, FiniteSets

CONSTANTS
  FactSetIds,   \* label_fact_sets
  Recomputed,   \* those that a recomputation run fills
  Spaces,       \* fact namespaces
  SpaceOf,      \* the namespace of a set
  Partitions,   \* partition_scope of every run
  Keys,         \* logical keys of facts
  Budget,       \* budget_units of every run
  MaxAttempts,  \* bound on the attempts at one partition
  MaxGeneration,  \* bound on the moves of a head
  None

ASSUME FactSetsAssumption ==
  /\ FactSetIds # {} /\ None \notin FactSetIds /\ Recomputed \subseteq FactSetIds
  /\ SpaceOf \in [FactSetIds -> Spaces]
ASSUME RecomputeAssumption ==
  /\ IsFiniteSet(Partitions) /\ Partitions # {} /\ IsFiniteSet(Keys)
  /\ Budget \in Nat \ {0} /\ MaxAttempts \in Nat \ {0} /\ MaxGeneration \in Nat

VARIABLES
  status,    \* label_fact_sets.status
  anchored,  \* sets whose target label version is as it was when frozen
  run,       \* label_recompute_runs.status, of the run that fills a set
  item,      \* label_recompute_run_items
  facts,     \* label_facts, by set and partition
  manifest,  \* partition_manifest of a set, empty while it is reserved
  head,      \* label_fact_set_heads, generation 0 while there is none
  ledger     \* label_fact_set_head_events, oldest first

vars == <<status, anchored, run, item, facts, manifest, head, ledger>>

Statuses == {"absent", "candidate", "validated", "approved", "published"}
RunStatuses == {"none", "requested", "running", "partial-failed", "failed", "candidate-complete"}
Executions == {"none", "submitted", "success", "failed"}
(* exec is the run that executes the current attempt; recorded is the      *)
(* manifest of the item.                                                   *)
Item == [status : {"none", "queued", "succeeded", "failed"}, attempt : 0 .. MaxAttempts,
         exec : Executions, retryable : BOOLEAN, recorded : SUBSET Keys]
NoItem == [status |-> "none", attempt |-> 0, exec |-> "none", retryable |-> FALSE,
           recorded |-> {}]
NoneOr(S) == S \cup {None}
HeadRow == [gen : Nat, current : NoneOr(FactSetIds), previous : NoneOr(FactSetIds)]
HeadEvent == [action : {"bootstrap", "promote", "rollback"},
              old : NoneOr(FactSetIds), new : FactSetIds]

Init ==
  /\ status = [s \in FactSetIds |-> "absent"]
  /\ anchored = FactSetIds
  /\ run = [s \in FactSetIds |-> "none"]
  /\ item = [s \in FactSetIds |-> [p \in Partitions |-> NoItem]]
  /\ facts = [s \in FactSetIds |-> [p \in Partitions |-> {}]]
  /\ manifest = facts
  /\ head = [n \in Spaces |-> [gen |-> 0, current |-> None, previous |-> None]]
  /\ ledger = [n \in Spaces |-> <<>>]

HeadOf(s) == head[SpaceOf[s]]
Written(n) == UNION {facts[s][p] : s \in {x \in FactSetIds : SpaceOf[x] = n}, p \in Partitions}

Items(s) == {item[s][p] : p \in Partitions}

-----------------------------------------------------------------------------
(***************************************************************************)
(* Filling a set.                                                          *)
(***************************************************************************)

(* create_label_fact_set: a set whose facts come with it *)
CreateFactSet(s) ==
  /\ s \notin Recomputed
  /\ status[s] = "absent"
  /\ status' = [status EXCEPT ![s] = "candidate"]
  /\ UNCHANGED <<anchored, run, item, facts, manifest, head, ledger>>

(* create_label_recompute_run: reserves the set and hands every partition  *)
(* to an execution; the source is a visible set of another namespace       *)
CreateRun(s) ==
  /\ s \in Recomputed
  /\ status[s] = "absent"
  /\ \E n \in Spaces \ {SpaceOf[s]} :
       head[n].gen # 0 /\ status[head[n].current] = "published"
  /\ status' = [status EXCEPT ![s] = "candidate"]
  /\ run' = [run EXCEPT ![s] = "requested"]
  /\ item' = [item EXCEPT ![s] =
       [p \in Partitions |-> [NoItem EXCEPT !.status = "queued", !.attempt = 1,
                                            !.exec = "submitted"]]]
  /\ UNCHANGED <<anchored, facts, manifest, head, ledger>>

(* The execution of an attempt ends with a trusted receipt. *)
Execute(s, p, outcome) ==
  /\ item[s][p].exec = "submitted"
  /\ item' = [item EXCEPT ![s][p].exec = outcome]
  /\ UNCHANGED <<status, anchored, run, facts, manifest, head, ledger>>

(* The receipt of the r-th execution: what ended before the current one    *)
(* failed.                                                                 *)
ReceiptOf(s, p, r) == IF r = item[s][p].attempt THEN item[s][p].exec ELSE "failed"

(* The worker reports the end of attempt a and names receipt r.  The       *)
(* attempt must be the current one, reported for the first time; the       *)
(* receipt is looked up under the item's execution run, where only its own *)
(* is found, and must say the same.                                        *)
Reportable(s, p, a, r, outcome) ==
  /\ item[s][p].status = "queued"
  /\ a = item[s][p].attempt
  /\ r = item[s][p].attempt
  /\ ReceiptOf(s, p, r) = outcome

(* Slip: the receipt is looked up by its id alone. *)
CompleteFailedLate(s, p, a, r, retryable) ==
  /\ item[s][p].status = "queued"
  /\ a = item[s][p].attempt
  /\ ReceiptOf(s, p, r) = "failed"
  /\ item' = [item EXCEPT ![s][p].status = "failed", ![s][p].retryable = retryable]
  /\ run' = [run EXCEPT ![s] =
       IF \E i \in Items(s) : i.status = "succeeded" THEN "partial-failed" ELSE "failed"]
  /\ UNCHANGED <<status, anchored, facts, manifest, head, ledger>>

(* complete_label_recompute_run_item, status failed *)
CompleteFailed(s, p, a, r, retryable) ==
  /\ Reportable(s, p, a, r, "failed")
  /\ item' = [item EXCEPT ![s][p].status = "failed", ![s][p].retryable = retryable]
  /\ run' = [run EXCEPT ![s] =
       IF \E i \in Items(s) : i.status = "succeeded" THEN "partial-failed" ELSE "failed"]
  /\ UNCHANGED <<status, anchored, facts, manifest, head, ledger>>

(* complete_label_recompute_run_item, status success, with                 *)
(* _materialize_facts and, after the last partition, _complete_fact_set.   *)
(* A key that the namespace has already, or a set that outgrows its        *)
(* budget, rolls everything back.                                          *)
CompleteSucceeded(s, p, a, r, F) ==
  LET done == [item[s] EXCEPT ![p].status = "succeeded", ![p].recorded = F]
      whole == \A q \in Partitions : done[q].status = "succeeded"
      written == [facts[s] EXCEPT ![p] = @ \cup F]
  IN /\ Reportable(s, p, a, r, "success")
     /\ F \cap Written(SpaceOf[s]) = {}
     /\ whole => Cardinality(UNION {{q} \X written[q] : q \in Partitions}) <= Budget
     /\ item' = [item EXCEPT ![s] = done]
     /\ facts' = [facts EXCEPT ![s] = written]
     /\ manifest' = IF whole THEN [manifest EXCEPT ![s] = written] ELSE manifest
     /\ run' = [run EXCEPT ![s] =
          IF whole THEN "candidate-complete"
          ELSE IF \E i \in Items(s) : i.status = "failed" THEN "partial-failed"
          ELSE "running"]
     /\ UNCHANGED <<status, anchored, head, ledger>>

(* The item starts over, as retry_label_recompute_run_item leaves it. *)
Again(i) == [NoItem EXCEPT !.status = "queued", !.attempt = i.attempt + 1,
                           !.exec = "submitted"]

(* Slip: any attempt that has ended may be repeated. *)
RetryEnded(s, p) ==
  /\ item[s][p].status \in {"failed", "succeeded"}
  /\ item[s][p].attempt < MaxAttempts
  /\ item' = [item EXCEPT ![s][p] = Again(@)]
  /\ run' = [run EXCEPT ![s] = "running"]
  /\ UNCHANGED <<status, anchored, facts, manifest, head, ledger>>

(* retry_label_recompute_run_item *)
Retry(s, p) ==
  /\ item[s][p].status = "failed" /\ item[s][p].retryable
  /\ item[s][p].attempt < MaxAttempts
  /\ item' = [item EXCEPT ![s][p] = Again(@)]
  /\ run' = [run EXCEPT ![s] = "running"]
  /\ UNCHANGED <<status, anchored, facts, manifest, head, ledger>>

-----------------------------------------------------------------------------
(***************************************************************************)
(* Making a set visible.                                                   *)
(***************************************************************************)

(* Slip: the run is taken at its word. *)
MaterializedByStatus(s) == run[s] # "requested"

(* assert_recompute_fact_set_materialized: run, items, rows and manifest   *)
(* are compared again                                                      *)
Materialized(s) ==
  /\ run[s] = "candidate-complete"
  /\ \A p \in Partitions :
       /\ item[s][p].status = "succeeded"
       /\ item[s][p].recorded = facts[s][p]
  /\ manifest[s] = facts[s]

(* Slip: the label version is not looked up again. *)
IntactUnanchored(s) == s \in Recomputed => Materialized(s)

(* _assert_fact_set_integrity *)
Intact(s) == s \in anchored /\ (s \in Recomputed => Materialized(s))

(* validate_label_fact_set *)
Validate(s) ==
  /\ status[s] = "candidate" /\ Intact(s)
  /\ status' = [status EXCEPT ![s] = "validated"]
  /\ UNCHANGED <<anchored, run, item, facts, manifest, head, ledger>>

(* approve_label_fact_set, by a human *)
Approve(s) ==
  /\ status[s] = "validated" /\ Intact(s)
  /\ status' = [status EXCEPT ![s] = "approved"]
  /\ UNCHANGED <<anchored, run, item, facts, manifest, head, ledger>>

(* Slip: the frozen previous set is not kept up. *)
SwitchForgetful(s, action) ==
  LET n == SpaceOf[s]
  IN /\ head' = [head EXCEPT ![n].gen = @ + 1, ![n].current = s]
     /\ ledger' = [ledger EXCEPT ![n] =
          Append(@, [action |-> action, old |-> head[n].current, new |-> s])]

(* Slip: the entry names the set that was replaced. *)
SwitchSwapped(s, action) ==
  LET n == SpaceOf[s]
  IN /\ head' = [head EXCEPT ![n] = [gen |-> @.gen + 1, current |-> s, previous |-> @.current]]
     /\ ledger' = [ledger EXCEPT ![n] =
          Append(@, [action |-> action, old |-> s, new |-> head[n].current])]

(* The head moves on and its ledger with it. *)
Switch(s, action) ==
  LET n == SpaceOf[s]
  IN /\ head' = [head EXCEPT ![n] = [gen |-> @.gen + 1, current |-> s, previous |-> @.current]]
     /\ ledger' = [ledger EXCEPT ![n] =
          Append(@, [action |-> action, old |-> head[n].current, new |-> s])]

(* promote_label_fact_set without a head *)
Bootstrap(s) ==
  /\ status[s] = "approved" /\ Intact(s)
  /\ HeadOf(s).gen = 0 /\ ledger[SpaceOf[s]] = <<>>
  /\ Switch(s, "bootstrap")
  /\ status' = [status EXCEPT ![s] = "published"]
  /\ UNCHANGED <<anchored, run, item, facts, manifest>>

(* _verify_head_chain, and the checks of the set that is to be replaced *)
Movable(n) ==
  /\ head[n].gen # 0 /\ Len(ledger[n]) = head[n].gen
  /\ ledger[n][head[n].gen].new = head[n].current
  /\ ledger[n][head[n].gen].old = head[n].previous
  /\ Intact(head[n].current) /\ status[head[n].current] = "published"

(* promote_label_fact_set, action promote *)
Promote(s) ==
  /\ status[s] = "approved" /\ Intact(s)
  /\ Movable(SpaceOf[s])
  /\ s # HeadOf(s).current
  /\ Switch(s, "promote")
  /\ status' = [status EXCEPT ![s] = "published"]
  /\ UNCHANGED <<anchored, run, item, facts, manifest>>

(* promote_label_fact_set, action rollback *)
Rollback(s) ==
  /\ status[s] = "published" /\ Intact(s)
  /\ Movable(SpaceOf[s])
  /\ s = HeadOf(s).previous
  /\ HeadOf(s).gen < MaxGeneration
  /\ Switch(s, "rollback")
  /\ UNCHANGED <<status, anchored, run, item, facts, manifest>>

(* The target label version of a set changes: it is published, deprecated  *)
(* or edited.  Its resource version only grows, so there is no way back.   *)
Drift(s) ==
  /\ status[s] # "absent" /\ s \in anchored
  /\ anchored' = anchored \ {s}
  /\ UNCHANGED <<status, run, item, facts, manifest, head, ledger>>

-----------------------------------------------------------------------------
Report(s, p) == \E a, r \in 1 .. item[s][p].attempt :
  \/ \E retryable \in BOOLEAN : CompleteFailed(s, p, a, r, retryable)
  \/ \E F \in SUBSET Keys : CompleteSucceeded(s, p, a, r, F)

Next == \E s \in FactSetIds :
  \/ CreateFactSet(s) \/ CreateRun(s)
  \/ \E p \in Partitions :
       \/ \E outcome \in {"success", "failed"} : Execute(s, p, outcome)
       \/ Report(s, p) \/ Retry(s, p)
  \/ Validate(s) \/ Approve(s)
  \/ Bootstrap(s) \/ Promote(s) \/ Rollback(s)
  \/ Drift(s)

Spec == Init /\ [][Next]_vars

-----------------------------------------------------------------------------
(***************************************************************************)
(* Properties.                                                             *)
(***************************************************************************)

TypeOK ==
  /\ status \in [FactSetIds -> Statuses]
  /\ anchored \subseteq FactSetIds
  /\ run \in [FactSetIds -> RunStatuses]
  /\ item \in [FactSetIds -> [Partitions -> Item]]
  /\ facts \in [FactSetIds -> [Partitions -> SUBSET Keys]]
  /\ manifest \in [FactSetIds -> [Partitions -> SUBSET Keys]]
  /\ head \in [Spaces -> HeadRow]
  /\ ledger \in [Spaces -> Seq(HeadEvent)]

Vetted == {s \in FactSetIds : status[s] \in {"validated", "approved", "published"}}

(* Whatever a head can point to, now or after a rollback, is whole: every  *)
(* partition contributed the facts of one successful execution, nothing    *)
(* was added to them, together they are what the manifest says and stay    *)
(* within the budget (complete_label_recompute_run_item,                   *)
(* assert_recompute_fact_set_materialized).                                *)
WholeWhenVisible ==
  \A n \in Spaces : \A s \in {head[n].current, head[n].previous} \ {None} :
    s \in Recomputed =>
      /\ s \in Vetted
      /\ \A p \in Partitions :
           /\ item[s][p].status = "succeeded" /\ item[s][p].exec = "success"
           /\ item[s][p].recorded = facts[s][p]
      /\ manifest[s] = facts[s]
      /\ Cardinality(UNION {{p} \X facts[s][p] : p \in Partitions}) <= Budget

(* From validation on nothing reaches the set any more: no late receipt,   *)
(* no retry and no other run changes its facts, items or manifest.         *)
FrozenOnceVetted ==
  [][\A s \in Vetted :
       /\ facts'[s] = facts[s] /\ manifest'[s] = manifest[s]
       /\ item'[s] = item[s] /\ run'[s] = run[s]]_vars

(* An item ends as the execution of its current attempt ended: a report of *)
(* an earlier attempt, repeated or late, does not end a later one.         *)
ReceiptIsOfThisAttempt ==
  \A s \in FactSetIds, p \in Partitions :
    /\ item[s][p].status = "succeeded" => item[s][p].exec = "success"
    /\ item[s][p].status = "failed" => item[s][p].exec = "failed"

(* The ledger is the history of the head, without a gap, and the previous  *)
(* set, to which a rollback returns, is the one that the last move         *)
(* replaced and that was visible before (promote_label_fact_set).          *)
HeadIsLedger ==
  \A n \in Spaces :
    /\ Len(ledger[n]) = head[n].gen
    /\ \A i \in DOMAIN ledger[n] :
         ledger[n][i].old = IF i = 1 THEN None ELSE ledger[n][i - 1].new
    /\ head[n].gen > 0 => /\ head[n].current = ledger[n][head[n].gen].new
                          /\ head[n].previous = ledger[n][head[n].gen].old

(* Every set that the head of a namespace has ever pointed to. *)
ServedIn(n) == {ledger[n][i].new : i \in DOMAIN ledger[n]}
=============================================================================

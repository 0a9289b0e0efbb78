---------------------------- MODULE FactSetsProofs ---------------------------
(***************************************************************************)
(* Proofs about FactSets, for any sets, namespaces, partitions, keys,      *)
(* budgets and bounds: its safety properties, that a vetted set is frozen, *)
(* and that every namespace implements ActiveBundle.                       *)
(*                                                                         *)
(* The argument.  A run has work only while its set is reserved for it     *)
(* (WorkIsReserved), and a run that is complete has none left and kept     *)
(* within the budget (CompleteIsDone).  A set is vetted only when it is    *)
(* intact, and a vetted set of a run stays materialized because a complete *)
(* run offers no step any more (VettedIsWhole).  A head and its previous   *)
(* set are published sets of the namespace (HeadIsPublished), so that they *)
(* are vetted.                                                             *)
(***************************************************************************)
EXTENDS FactSets, SequenceTheorems, TLAPS

WorkIsReserved ==
  \A s \in FactSetIds :
    s \notin Recomputed \/ status[s] = "absent" =>
      run[s] = "none" /\ \A p \in Partitions : item[s][p] = NoItem

Filled(s) == UNION {{p} \X facts[s][p] : p \in Partitions}

CompleteIsDone ==
  \A s \in FactSetIds : run[s] = "candidate-complete" =>
    /\ \A p \in Partitions : item[s][p].status = "succeeded"
    /\ Cardinality(Filled(s)) <= Budget

VettedIsWhole == \A s \in Vetted : s \in Recomputed => Materialized(s)

(* What a namespace shows, now or after a rollback. *)
Shown(n) == {head[n].current, head[n].previous} \ {None}

HeadIsPublished ==
  \A n \in Spaces :
    /\ \A s \in Shown(n) : status[s] = "published" /\ SpaceOf[s] = n
    /\ head[n].gen = 0 <=> head[n].current = None
    /\ head[n].gen = 0 => head[n].previous = None

(* What the current set of a namespace and its previous one have been. *)
HeadServed == \A n \in Spaces : Shown(n) \subseteq ServedIn(n)

FillInv == WorkIsReserved /\ CompleteIsDone /\ VettedIsWhole /\ ReceiptIsOfThisAttempt
HeadInv == HeadIsPublished /\ HeadIsLedger /\ HeadServed
Inv == TypeOK /\ FillInv /\ HeadInv

-----------------------------------------------------------------------------
(***************************************************************************)
(* Steps that leave the heads alone.                                       *)
(***************************************************************************)

LEMMA HeadKept ==
  ASSUME HeadInv, UNCHANGED <<head, ledger>>,
         \A s \in FactSetIds : status[s] = "published" => status'[s] = "published",
         TypeOK
  PROVE  HeadInv'
  <1>1. \A n \in Spaces : head[n] \in HeadRow /\ Shown(n) \subseteq FactSetIds
    BY DEF TypeOK, HeadRow, Shown, NoneOr
  <1>2. \A n \in Spaces : Shown(n)' = Shown(n) /\ ServedIn(n)' = ServedIn(n)
    BY DEF Shown, ServedIn
  <1>3. HeadIsPublished'
    BY <1>1, <1>2 DEF HeadInv, HeadIsPublished
  <1>4. HeadIsLedger'
    BY DEF HeadInv, HeadIsLedger
  <1>5. HeadServed'
    BY <1>2 DEF HeadInv, HeadServed
  <1> QED
    BY <1>3, <1>4, <1>5 DEF HeadInv

(* A run that has still work to do writes its set, which nobody has vetted *)
(* yet.                                                                    *)
LEMMA FillStep ==
  ASSUME Inv, NEW s \in FactSetIds, s \in Recomputed, status[s] # "absent",
         run[s] # "candidate-complete",
         NEW r \in RunStatuses, NEW i \in [Partitions -> Item],
         run' = [run EXCEPT ![s] = r], item' = [item EXCEPT ![s] = i],
         facts' \in [FactSetIds -> [Partitions -> SUBSET Keys]],
         manifest' \in [FactSetIds -> [Partitions -> SUBSET Keys]],
         \A t \in FactSetIds \ {s} : facts'[t] = facts[t] /\ manifest'[t] = manifest[t],
         UNCHANGED <<status, anchored, head, ledger>>,
         \A p \in Partitions : /\ i[p].status = "succeeded" => i[p].exec = "success"
                               /\ i[p].status = "failed" => i[p].exec = "failed",
         r = "candidate-complete" =>
           /\ \A p \in Partitions : i[p].status = "succeeded"
           /\ Cardinality(Filled(s)') <= Budget
  PROVE  Inv' /\ s \notin Vetted
  <1>1. /\ run'[s] = r /\ item'[s] = i
        /\ \A t \in FactSetIds \ {s} : /\ run'[t] = run[t] /\ item'[t] = item[t]
                                      /\ facts'[t] = facts[t] /\ manifest'[t] = manifest[t]
    BY DEF Inv, TypeOK
  <1>2. TypeOK'
    BY DEF Inv, TypeOK
  <1>3. s \notin Vetted
    BY DEF Inv, FillInv, VettedIsWhole, Materialized
  <1>4. WorkIsReserved'
    BY <1>1 DEF Inv, FillInv, WorkIsReserved
  <1>5. CompleteIsDone'
    <2>1. ASSUME NEW t \in FactSetIds, run'[t] = "candidate-complete"
          PROVE  /\ \A p \in Partitions : item'[t][p].status = "succeeded"
                 /\ Cardinality(Filled(t)') <= Budget
      <3>1. CASE t = s
        BY <1>1, <2>1, <3>1
      <3>2. CASE t # s
        <4>1. Filled(t)' = Filled(t)
          BY <1>1, <3>2 DEF Filled
        <4> QED
          BY <1>1, <2>1, <3>2, <4>1 DEF Inv, FillInv, CompleteIsDone
      <3> QED
        BY <3>1, <3>2
    <2> QED
      BY <2>1 DEF CompleteIsDone
  <1>6. VettedIsWhole'
    <2>1. ASSUME NEW t \in Vetted', t \in Recomputed PROVE Materialized(t)'
      <3>1. t \in Vetted /\ t \in FactSetIds
        BY <2>1 DEF Vetted
      <3>2. t # s /\ Materialized(t)
        BY <1>3, <2>1, <3>1 DEF Inv, FillInv, VettedIsWhole
      <3> QED
        BY <1>1, <3>1, <3>2 DEF Materialized
    <2> QED
      BY <2>1 DEF VettedIsWhole
  <1>7. ReceiptIsOfThisAttempt'
    <2>1. ASSUME NEW t \in FactSetIds, NEW p \in Partitions
          PROVE  /\ item'[t][p].status = "succeeded" => item'[t][p].exec = "success"
                 /\ item'[t][p].status = "failed" => item'[t][p].exec = "failed"
      <3>1. CASE t = s
        BY <1>1, <3>1
      <3>2. CASE t # s
        BY <1>1, <3>2 DEF Inv, FillInv, ReceiptIsOfThisAttempt
      <3> QED
        BY <3>1, <3>2
    <2> QED
      BY <2>1 DEF ReceiptIsOfThisAttempt
  <1>8. HeadInv'
    BY HeadKept DEF Inv
  <1> QED
    BY <1>2, <1>3, <1>4, <1>5, <1>6, <1>7, <1>8 DEF Inv, FillInv

(* A step that changes the status of a set, or loses its anchor. *)
LEMMA StatusStep ==
  ASSUME TypeOK, FillInv, NEW s \in FactSetIds, NEW x \in Statuses \ {"absent"},
         status[s] = "absent" => s \notin Recomputed,
         x \in {"validated", "approved", "published"} => (s \in Recomputed => Materialized(s)),
         status' = [status EXCEPT ![s] = x],
         UNCHANGED <<run, item, facts, manifest>>
  PROVE  FillInv' /\ status' \in [FactSetIds -> Statuses]
  <1>1. /\ status'[s] = x /\ \A t \in FactSetIds \ {s} : status'[t] = status[t]
        /\ status' \in [FactSetIds -> Statuses]
    BY DEF TypeOK
  <1>2. WorkIsReserved'
    BY <1>1 DEF FillInv, WorkIsReserved
  <1>3. CompleteIsDone'
    <2>1. \A t : Filled(t)' = Filled(t)
      BY DEF Filled
    <2> QED
      BY <2>1 DEF FillInv, CompleteIsDone
  <1>4. VettedIsWhole'
    <2>1. \A t : Materialized(t)' <=> Materialized(t)
      BY DEF Materialized
    <2>2. ASSUME NEW t \in Vetted', t \in Recomputed PROVE Materialized(t)
      <3>1. t \in FactSetIds /\ status'[t] \in {"validated", "approved", "published"}
        BY <2>2 DEF Vetted
      <3>2. CASE t = s
        BY <1>1, <2>2, <3>1, <3>2
      <3>3. CASE t # s
        BY <1>1, <2>2, <3>1, <3>3 DEF FillInv, VettedIsWhole, Vetted
      <3> QED
        BY <3>2, <3>3
    <2> QED
      BY <2>1, <2>2 DEF VettedIsWhole
  <1>5. ReceiptIsOfThisAttempt'
    BY DEF FillInv, ReceiptIsOfThisAttempt
  <1> QED
    BY <1>1, <1>2, <1>3, <1>4, <1>5 DEF FillInv

-----------------------------------------------------------------------------
(***************************************************************************)
(* Runs.                                                                   *)
(***************************************************************************)

(* A partition that is under way, or failed, belongs to a run that is not  *)
(* complete.                                                               *)
LEMMA UnderWay ==
  ASSUME Inv, NEW s \in FactSetIds, NEW p \in Partitions,
         \/ item[s][p].exec = "submitted"
         \/ item[s][p].status \in {"queued", "failed"}
  PROVE  /\ s \in Recomputed /\ status[s] # "absent" /\ run[s] # "candidate-complete"
         /\ item[s][p].status # "succeeded"
         /\ item[s] \in [Partitions -> Item] /\ item[s][p] \in Item
         /\ facts[s] \in [Partitions -> SUBSET Keys]
         /\ manifest[s] \in [Partitions -> SUBSET Keys]
         /\ run[s] \in RunStatuses
  <1>1. /\ item[s] \in [Partitions -> Item] /\ item[s][p] \in Item
        /\ facts[s] \in [Partitions -> SUBSET Keys]
        /\ manifest[s] \in [Partitions -> SUBSET Keys]
        /\ run[s] \in RunStatuses
    BY DEF Inv, TypeOK
  <1>2. item[s][p] # NoItem
    BY DEF NoItem
  <1>3. s \in Recomputed /\ status[s] # "absent"
    BY <1>2 DEF Inv, FillInv, WorkIsReserved
  <1>4. item[s][p].status # "succeeded"
    BY DEF Inv, FillInv, ReceiptIsOfThisAttempt
  <1>5. run[s] # "candidate-complete"
    BY <1>4 DEF Inv, FillInv, CompleteIsDone
  <1> QED
    BY <1>1, <1>3, <1>4, <1>5

LEMMA AgainType ==
  ASSUME NEW i \in Item, i.attempt < MaxAttempts
  PROVE  Again(i) \in Item /\ Again(i).status = "queued"
  <1>1. i.attempt + 1 \in 0 .. MaxAttempts
    BY RecomputeAssumption DEF Item
  <1>2. PICK n \in 0 .. MaxAttempts : n = i.attempt + 1
    BY <1>1
  <1>3. NoItem \in Item
    BY RecomputeAssumption DEF NoItem, Item, Executions
  <1>4. Again(i) = [NoItem EXCEPT !.status = "queued", !.attempt = n, !.exec = "submitted"]
    BY <1>2 DEF Again
  <1> QED
    BY <1>3, <1>4 DEF Item, Executions

(* A step that writes one item of a run, which is not over with it. *)
LEMMA ItemStep ==
  ASSUME Inv, NEW s \in FactSetIds, NEW p \in Partitions, NEW r \in RunStatuses, NEW j \in Item,
         \/ item[s][p].exec = "submitted"
         \/ item[s][p].status \in {"queued", "failed"},
         r # "candidate-complete",
         run' = [run EXCEPT ![s] = r], item' = [item EXCEPT ![s][p] = j],
         UNCHANGED <<facts, manifest, status, anchored, head, ledger>>,
         j.status # "succeeded",
         j.status = "failed" => j.exec = "failed"
  PROVE  Inv' /\ s \notin Vetted
  <1> DEFINE i == [item[s] EXCEPT ![p] = j]
  <1>1. /\ s \in Recomputed /\ status[s] # "absent" /\ run[s] # "candidate-complete"
        /\ item[s] \in [Partitions -> Item]
    BY UnderWay
  <1>2. i \in [Partitions -> Item] /\ i[p] = j /\ \A q \in Partitions \ {p} : i[q] = item[s][q]
    BY <1>1
  <1>3. item' = [item EXCEPT ![s] = i]
    OBVIOUS
  <1>4. /\ facts' \in [FactSetIds -> [Partitions -> SUBSET Keys]]
        /\ manifest' \in [FactSetIds -> [Partitions -> SUBSET Keys]]
        /\ \A t \in FactSetIds \ {s} : facts'[t] = facts[t] /\ manifest'[t] = manifest[t]
    BY DEF Inv, TypeOK
  <1>5. \A q \in Partitions : /\ i[q].status = "succeeded" => i[q].exec = "success"
                              /\ i[q].status = "failed" => i[q].exec = "failed"
    BY <1>2 DEF Inv, FillInv, ReceiptIsOfThisAttempt
  <1>6. UNCHANGED <<status, anchored, head, ledger>>
    OBVIOUS
  <1> HIDE DEF i
  <1> QED
    BY <1>1, <1>2, <1>3, <1>4, <1>5, <1>6, FillStep

LEMMA ExecuteStep ==
  ASSUME Inv, NEW s \in FactSetIds, NEW p \in Partitions, NEW o \in {"success", "failed"},
         Execute(s, p, o)
  PROVE  Inv' /\ s \notin Vetted
  <1> DEFINE j == [item[s][p] EXCEPT !.exec = o]
  <1>1. /\ item[s][p].exec = "submitted"
        /\ item' = [item EXCEPT ![s][p] = j]
        /\ UNCHANGED <<status, anchored, run, facts, manifest, head, ledger>>
    BY DEF Execute
  <1>2. /\ run[s] # "candidate-complete" /\ item[s][p].status # "succeeded"
        /\ item[s][p] \in Item /\ run[s] \in RunStatuses
    BY <1>1, UnderWay
  <1>3. item[s][p].status # "failed"
    BY <1>1 DEF Inv, FillInv, ReceiptIsOfThisAttempt
  <1>4. j \in Item /\ j.status = item[s][p].status
    BY <1>2 DEF Item, Executions
  <1>5. run' = [run EXCEPT ![s] = run[s]]
    BY <1>1 DEF Inv, TypeOK
  <1> HIDE DEF j
  <1>6. UNCHANGED <<facts, manifest, status, anchored, head, ledger>>
    BY <1>1
  <1> QED
    BY <1>1, <1>2, <1>3, <1>4, <1>5, <1>6, ItemStep

LEMMA FailedStep ==
  ASSUME Inv, NEW s \in FactSetIds, NEW p \in Partitions, NEW a, NEW c,
         NEW b \in BOOLEAN, CompleteFailed(s, p, a, c, b)
  PROVE  Inv' /\ s \notin Vetted
  <1> DEFINE j == [item[s][p] EXCEPT !.status = "failed", !.retryable = b]
  <1>1. /\ item[s][p].status = "queued" /\ item[s][p].exec = "failed"
        /\ item' = [item EXCEPT ![s][p].status = "failed", ![s][p].retryable = b]
        /\ UNCHANGED <<status, anchored, facts, manifest, head, ledger>>
    BY DEF CompleteFailed, Reportable, ReceiptOf
  <1>2. PICK r \in {"partial-failed", "failed"} : run' = [run EXCEPT ![s] = r]
    BY DEF CompleteFailed
  <1>3. item[s][p] \in Item
    BY <1>1, UnderWay
  <1>4. j \in Item /\ j.status = "failed" /\ j.exec = "failed"
    BY <1>1, <1>3 DEF Item
  <1>5. item' = [item EXCEPT ![s][p] = j]
    BY <1>1
  <1>6. r \in RunStatuses /\ r # "candidate-complete"
    BY DEF RunStatuses
  <1> HIDE DEF j
  <1>7. UNCHANGED <<facts, manifest, status, anchored, head, ledger>>
    BY <1>1
  <1> QED
    BY <1>1, <1>2, <1>4, <1>5, <1>6, <1>7, ItemStep

LEMMA RetryStep ==
  ASSUME Inv, NEW s \in FactSetIds, NEW p \in Partitions, Retry(s, p)
  PROVE  Inv' /\ s \notin Vetted
  <1> DEFINE j == Again(item[s][p])
  <1>1. /\ item[s][p].status = "failed" /\ item[s][p].attempt < MaxAttempts
        /\ item' = [item EXCEPT ![s][p] = j]
        /\ run' = [run EXCEPT ![s] = "running"]
        /\ UNCHANGED <<status, anchored, facts, manifest, head, ledger>>
    BY DEF Retry
  <1>2. item[s][p] \in Item
    BY <1>1, UnderWay
  <1>3. j \in Item /\ j.status = "queued"
    BY <1>1, <1>2, AgainType
  <1>4. "running" \in RunStatuses
    BY DEF RunStatuses
  <1> HIDE DEF j
  <1>5. UNCHANGED <<facts, manifest, status, anchored, head, ledger>>
    BY <1>1
  <1> QED
    BY <1>1, <1>3, <1>4, <1>5, ItemStep

(* The last success completes the run: all items have succeeded, and what  *)
(* they wrote is within the budget.                                        *)
LEMMA SucceededStep ==
  ASSUME Inv, NEW s \in FactSetIds, NEW p \in Partitions, NEW a, NEW c,
         NEW F \in SUBSET Keys, CompleteSucceeded(s, p, a, c, F)
  PROVE  Inv' /\ s \notin Vetted
  <1> DEFINE i == [item[s] EXCEPT ![p].status = "succeeded", ![p].recorded = F]
             whole == \A q \in Partitions : i[q].status = "succeeded"
             f == [facts[s] EXCEPT ![p] = @ \cup F]
             m == IF whole THEN f ELSE manifest[s]
  <1>1. /\ item[s][p].status = "queued" /\ item[s][p].exec = "success"
        /\ whole => Cardinality(UNION {{q} \X f[q] : q \in Partitions}) <= Budget
        /\ item' = [item EXCEPT ![s] = i]
        /\ facts' = [facts EXCEPT ![s] = f]
        /\ manifest' = IF whole THEN [manifest EXCEPT ![s] = f] ELSE manifest
        /\ UNCHANGED <<status, anchored, head, ledger>>
    BY DEF CompleteSucceeded, Reportable, ReceiptOf
  <1>2. PICK r \in {"candidate-complete", "partial-failed", "running"} :
          run' = [run EXCEPT ![s] = r] /\ (r = "candidate-complete" => whole)
    BY DEF CompleteSucceeded
  <1>3. /\ s \in Recomputed /\ status[s] # "absent" /\ run[s] # "candidate-complete"
        /\ item[s] \in [Partitions -> Item] /\ item[s][p] \in Item
        /\ facts[s] \in [Partitions -> SUBSET Keys]
        /\ manifest[s] \in [Partitions -> SUBSET Keys]
    BY <1>1, UnderWay
  <1>4. PICK j \in Item : j = [item[s][p] EXCEPT !.status = "succeeded", !.recorded = F]
    BY <1>3 DEF Item
  <1>5. j.status = "succeeded" /\ j.exec = "success"
    BY <1>1, <1>3, <1>4 DEF Item
  <1>6. i = [item[s] EXCEPT ![p] = j]
    BY <1>4
  <1>7. i \in [Partitions -> Item] /\ i[p] = j /\ \A q \in Partitions \ {p} : i[q] = item[s][q]
    BY <1>3, <1>6
  <1>8. f \in [Partitions -> SUBSET Keys]
    BY <1>3
  <1>9. m \in [Partitions -> SUBSET Keys]
    BY <1>3, <1>8
  <1>10. manifest' = [manifest EXCEPT ![s] = m]
    BY <1>1 DEF Inv, TypeOK
  <1>11. \A q \in Partitions : /\ i[q].status = "succeeded" => i[q].exec = "success"
                               /\ i[q].status = "failed" => i[q].exec = "failed"
    BY <1>5, <1>7 DEF Inv, FillInv, ReceiptIsOfThisAttempt
  <1>12. r = "candidate-complete" =>
           /\ \A q \in Partitions : i[q].status = "succeeded"
           /\ Cardinality(UNION {{q} \X f[q] : q \in Partitions}) <= Budget
    BY <1>1, <1>2
  <1>13. r \in RunStatuses
    BY DEF RunStatuses
  <1>14. /\ facts'[s] = f
         /\ facts' \in [FactSetIds -> [Partitions -> SUBSET Keys]]
         /\ manifest' \in [FactSetIds -> [Partitions -> SUBSET Keys]]
         /\ \A t \in FactSetIds \ {s} : facts'[t] = facts[t] /\ manifest'[t] = manifest[t]
    <2> HIDE DEF f, m, whole, i
    <2> QED
      BY <1>1, <1>8, <1>9, <1>10 DEF Inv, TypeOK
  <1>15. Filled(s)' = UNION {{q} \X f[q] : q \in Partitions}
    <2> HIDE DEF f, m, whole, i
    <2> QED
      BY <1>14 DEF Filled
  <1> HIDE DEF i, f, m, whole
  <1> QED
    BY <1>1, <1>2, <1>3, <1>7, <1>11, <1>12, <1>13, <1>14, <1>15, FillStep

-----------------------------------------------------------------------------
(***************************************************************************)
(* Sets.                                                                   *)
(***************************************************************************)

LEMMA CreateRunStep ==
  ASSUME Inv, NEW s \in FactSetIds, CreateRun(s)
  PROVE  Inv' /\ s \notin Vetted
  <1> DEFINE j == [NoItem EXCEPT !.status = "queued", !.attempt = 1, !.exec = "submitted"]
             i == [p \in Partitions |-> j]
  <1>1. /\ s \in Recomputed /\ status[s] = "absent"
        /\ status' = [status EXCEPT ![s] = "candidate"]
        /\ run' = [run EXCEPT ![s] = "requested"]
        /\ item' = [item EXCEPT ![s] = i]
        /\ UNCHANGED <<anchored, facts, manifest, head, ledger>>
    BY DEF CreateRun
  <1>2. NoItem \in Item
    BY RecomputeAssumption DEF NoItem, Item, Executions
  <1>3. j \in Item /\ j.status = "queued"
    <2>1. PICK n \in 0 .. MaxAttempts : n = 1
      BY RecomputeAssumption
    <2>2. j = [NoItem EXCEPT !.status = "queued", !.attempt = n, !.exec = "submitted"]
      BY <2>1
    <2> QED
      BY <1>2, <2>2 DEF Item, Executions
  <1> HIDE DEF j
  <1>4. i \in [Partitions -> Item] /\ \A p \in Partitions : i[p].status = "queued"
    BY <1>3
  <1> HIDE DEF i
  <1>5. /\ status'[s] = "candidate" /\ run'[s] = "requested" /\ item'[s] = i
        /\ \A t \in FactSetIds \ {s} :
             status'[t] = status[t] /\ run'[t] = run[t] /\ item'[t] = item[t]
    BY <1>1 DEF Inv, TypeOK
  <1>6. TypeOK'
    BY <1>1, <1>4 DEF Inv, TypeOK, Statuses, RunStatuses
  <1>7. s \notin Vetted /\ Vetted' \subseteq Vetted
    BY <1>1, <1>5 DEF Vetted
  <1>8. WorkIsReserved'
    BY <1>1, <1>5 DEF Inv, FillInv, WorkIsReserved
  <1>9. CompleteIsDone'
    <2>1. \A t : Filled(t)' = Filled(t)
      BY <1>1 DEF Filled
    <2> QED
      BY <1>5, <2>1 DEF Inv, FillInv, CompleteIsDone
  <1>10. VettedIsWhole'
    <2>1. ASSUME NEW t \in Vetted', t \in Recomputed PROVE Materialized(t)'
      <3>1. t \in Vetted /\ t # s /\ t \in FactSetIds
        BY <1>7, <2>1 DEF Vetted
      <3>2. Materialized(t)
        BY <2>1, <3>1 DEF Inv, FillInv, VettedIsWhole
      <3> QED
        BY <1>1, <1>5, <3>1, <3>2 DEF Materialized
    <2> QED
      BY <2>1 DEF VettedIsWhole
  <1>11. ReceiptIsOfThisAttempt'
    <2>1. ASSUME NEW t \in FactSetIds, NEW p \in Partitions
          PROVE  /\ item'[t][p].status = "succeeded" => item'[t][p].exec = "success"
                 /\ item'[t][p].status = "failed" => item'[t][p].exec = "failed"
      <3>1. CASE t = s
        BY <1>4, <1>5, <3>1
      <3>2. CASE t # s
        BY <1>5, <3>2 DEF Inv, FillInv, ReceiptIsOfThisAttempt
      <3> QED
        BY <3>1, <3>2
    <2> QED
      BY <2>1 DEF ReceiptIsOfThisAttempt
  <1>12. HeadInv'
    BY <1>1, <1>5, HeadKept DEF Inv
  <1> QED
    BY <1>6, <1>7, <1>8, <1>9, <1>10, <1>11, <1>12 DEF Inv, FillInv

LEMMA ReviewStep ==
  ASSUME Inv, NEW s \in FactSetIds, CreateFactSet(s) \/ Validate(s) \/ Approve(s)
  PROVE  Inv'
  <1>1. PICK x \in {"candidate", "validated", "approved"} :
          /\ status' = [status EXCEPT ![s] = x]
          /\ x # "candidate" => (s \in Recomputed => Materialized(s))
          /\ status[s] = "absent" => s \notin Recomputed
          /\ status[s] # "published"
    BY DEF CreateFactSet, Validate, Approve, Intact
  <1>2. UNCHANGED <<run, item, facts, manifest>> /\ UNCHANGED <<anchored, head, ledger>>
    BY DEF CreateFactSet, Validate, Approve
  <1>3. x \in Statuses \ {"absent"} /\ TypeOK /\ FillInv /\ HeadInv
    BY DEF Statuses, Inv
  <1>4. FillInv' /\ status' \in [FactSetIds -> Statuses]
    BY <1>1, <1>2, <1>3, StatusStep
  <1>5. \A t \in FactSetIds : status[t] = "published" => status'[t] = "published"
    BY <1>1, <1>3 DEF TypeOK
  <1>6. HeadInv'
    BY <1>2, <1>3, <1>5, HeadKept
  <1> QED
    BY <1>2, <1>3, <1>4, <1>6 DEF Inv, TypeOK

LEMMA DriftStep ==
  ASSUME Inv, NEW s \in FactSetIds, Drift(s)
  PROVE  Inv'
  <1>1. /\ anchored' = anchored \ {s}
        /\ UNCHANGED <<status, run, item, facts, manifest, head, ledger>>
    BY DEF Drift
  <1>2. TypeOK'
    BY <1>1 DEF Inv, TypeOK
  <1>3. FillInv'
    <2>1. \A t : /\ Filled(t)' = Filled(t) /\ (Materialized(t)' <=> Materialized(t))
      BY <1>1 DEF Filled, Materialized
    <2>2. Vetted' = Vetted
      BY <1>1 DEF Vetted
    <2>3. WorkIsReserved' /\ ReceiptIsOfThisAttempt'
      BY <1>1 DEF Inv, FillInv, WorkIsReserved, ReceiptIsOfThisAttempt
    <2>4. CompleteIsDone' /\ VettedIsWhole'
      BY <1>1, <2>1, <2>2 DEF Inv, FillInv, CompleteIsDone, VettedIsWhole
    <2> QED
      BY <2>3, <2>4 DEF FillInv
  <1>4. HeadInv'
    BY <1>1, HeadKept DEF Inv
  <1> QED
    BY <1>2, <1>3, <1>4 DEF Inv

-----------------------------------------------------------------------------
(***************************************************************************)
(* Heads.                                                                  *)
(***************************************************************************)

(* A ledger that grows by the head's next move stays its history.          *)
LEMMA LedgerGrows ==
  ASSUME TypeOK, HeadIsPublished, HeadIsLedger, NEW s \in FactSetIds,
         NEW a \in {"bootstrap", "promote", "rollback"}, Switch(s, a)
  PROVE  /\ head' \in [Spaces -> HeadRow] /\ ledger' \in [Spaces -> Seq(HeadEvent)]
         /\ HeadIsLedger'
         /\ head'[SpaceOf[s]] = [gen |-> HeadOf(s).gen + 1, current |-> s,
                                 previous |-> HeadOf(s).current]
         /\ \A n \in Spaces \ {SpaceOf[s]} : head'[n] = head[n] /\ ServedIn(n)' = ServedIn(n)
         /\ ServedIn(SpaceOf[s])' = ServedIn(SpaceOf[s]) \cup {s}
  <1> DEFINE n == SpaceOf[s]
             g == head[n].gen
             row == [gen |-> g + 1, current |-> s, previous |-> head[n].current]
             e == [action |-> a, old |-> head[n].current, new |-> s]
             l == ledger[n]
  <1>1. /\ n \in Spaces /\ g \in Nat /\ head[n].current \in NoneOr(FactSetIds)
        /\ l \in Seq(HeadEvent) /\ Len(l) = g /\ DOMAIN l = 1 .. g
    <2>1. n \in Spaces
      BY FactSetsAssumption
    <2>2. head[n] \in HeadRow /\ l \in Seq(HeadEvent) /\ Len(l) = g
      BY <2>1 DEF TypeOK, HeadIsLedger
    <2>3. DOMAIN l = 1 .. Len(l)
      BY <2>2, LenProperties
    <2> QED
      BY <2>1, <2>2, <2>3 DEF HeadRow
  <1>2. row \in HeadRow /\ e \in HeadEvent
    BY <1>1 DEF HeadRow, HeadEvent, NoneOr
  <1>3. head' = [head EXCEPT ![n] = row] /\ ledger' = [ledger EXCEPT ![n] = Append(l, e)]
    BY DEF Switch
  <1>4. /\ Append(l, e) \in Seq(HeadEvent) /\ Len(Append(l, e)) = g + 1
        /\ Append(l, e)[g + 1] = e
        /\ \A i \in 1 .. g : Append(l, e)[i] = l[i]
    BY <1>1, <1>2, AppendProperties
  <1>5. DOMAIN Append(l, e) = 1 .. g + 1
    BY <1>4, LenProperties
  <1>6. PICK k \in Seq(HeadEvent) : k = Append(l, e)
    BY <1>4
  <1>7. /\ Len(k) = g + 1 /\ k[g + 1] = e /\ DOMAIN k = 1 .. g + 1
        /\ \A i \in 1 .. g : k[i] = l[i]
    BY <1>4, <1>5, <1>6
  <1>8. row.gen = g + 1 /\ row.current = s /\ row.previous = head[n].current
    OBVIOUS
  <1>9. e.old = head[n].current /\ e.new = s
    OBVIOUS
  <1>10. row = [gen |-> HeadOf(s).gen + 1, current |-> s, previous |-> HeadOf(s).current]
    BY DEF HeadOf
  <1>11. l = ledger[n] /\ g = head[n].gen /\ n = SpaceOf[s]
    OBVIOUS
  <1> HIDE DEF row, e, l, g, n
  <1>12. /\ head'[n] = row /\ ledger'[n] = k
         /\ \A m \in Spaces \ {n} : head'[m] = head[m] /\ ledger'[m] = ledger[m]
         /\ head' \in [Spaces -> HeadRow] /\ ledger' \in [Spaces -> Seq(HeadEvent)]
    BY <1>1, <1>2, <1>3, <1>6 DEF TypeOK
  <1>13. HeadIsLedger'
    <2>1. ASSUME NEW i \in DOMAIN k PROVE k[i].old = IF i = 1 THEN None ELSE k[i - 1].new
      <3>1. CASE i \in 1 .. g
        <4>1. k[i] = l[i] /\ (i # 1 => k[i - 1] = l[i - 1])
          <5>1. i # 1 => i - 1 \in 1 .. g
            BY <1>1, <3>1
          <5> QED
            BY <1>7, <3>1, <5>1
        <4>2. l[i].old = IF i = 1 THEN None ELSE l[i - 1].new
          BY <1>1, <1>11, <3>1 DEF HeadIsLedger
        <4> QED
          BY <4>1, <4>2
      <3>2. CASE i = g + 1
        <4>1. CASE g = 0
          <5>1. head[n].current = None
            BY <1>1, <1>11, <4>1 DEF HeadIsPublished
          <5> QED
            BY <1>7, <1>9, <3>2, <4>1, <5>1
        <4>2. CASE g # 0
          <5>1. head[n].current = l[g].new /\ g \in 1 .. g /\ i # 1 /\ i - 1 = g
            BY <1>1, <1>11, <3>2, <4>2 DEF HeadIsLedger
          <5> QED
            BY <1>7, <1>9, <3>2, <5>1
        <4> QED
          BY <4>1, <4>2
      <3> QED
        BY <1>1, <1>7, <3>1, <3>2
    <2>2. ASSUME NEW m \in Spaces
          PROVE  /\ Len(ledger'[m]) = head'[m].gen
                 /\ \A i \in DOMAIN ledger'[m] :
                      ledger'[m][i].old = IF i = 1 THEN None ELSE ledger'[m][i - 1].new
                 /\ head'[m].gen > 0 => /\ head'[m].current = ledger'[m][head'[m].gen].new
                                        /\ head'[m].previous = ledger'[m][head'[m].gen].old
      <3>1. CASE m = n
        BY <1>7, <1>8, <1>9, <1>12, <2>1, <3>1
      <3>2. CASE m # n
        BY <1>12, <3>2 DEF HeadIsLedger
      <3> QED
        BY <3>1, <3>2
    <2> QED
      BY <2>2 DEF HeadIsLedger
  <1>14. ServedIn(n)' = ServedIn(n) \cup {s}
    <2>1. \A i \in 1 .. g : k[i].new = l[i].new
      BY <1>7
    <2>2. ServedIn(n)' = {k[i].new : i \in 1 .. g + 1}
      BY <1>7, <1>12 DEF ServedIn
    <2>3. ServedIn(n) = {l[i].new : i \in 1 .. g}
      BY <1>1, <1>11 DEF ServedIn
    <2> QED
      BY <1>1, <1>7, <1>9, <2>1, <2>2, <2>3
  <1>15. \A m \in Spaces \ {n} : ServedIn(m)' = ServedIn(m)
    BY <1>12 DEF ServedIn
  <1> QED
    BY <1>10, <1>11, <1>12, <1>13, <1>14, <1>15

(* Whoever takes over the head is published and of the namespace.          *)
LEMMA SwitchStep ==
  ASSUME Inv, NEW s \in FactSetIds, NEW a \in {"bootstrap", "promote", "rollback"},
         Switch(s, a), status[s] \in {"approved", "published"},
         s \in Recomputed => Materialized(s),
         status' = [status EXCEPT ![s] = "published"],
         UNCHANGED <<anchored, run, item, facts, manifest>>
  PROVE  Inv'
  <1> DEFINE n == SpaceOf[s]
  <1>1. TypeOK /\ FillInv /\ HeadIsPublished /\ HeadIsLedger /\ HeadServed /\ n \in Spaces
    BY FactSetsAssumption DEF Inv, HeadInv
  <1>2. /\ head' \in [Spaces -> HeadRow] /\ ledger' \in [Spaces -> Seq(HeadEvent)]
        /\ HeadIsLedger'
        /\ head'[n] = [gen |-> HeadOf(s).gen + 1, current |-> s, previous |-> HeadOf(s).current]
        /\ \A m \in Spaces \ {n} : head'[m] = head[m] /\ ServedIn(m)' = ServedIn(m)
        /\ ServedIn(n)' = ServedIn(n) \cup {s}
    BY <1>1, LedgerGrows
  <1>3. "published" \in Statuses \ {"absent"}
    BY DEF Statuses
  <1>4. FillInv' /\ status' \in [FactSetIds -> Statuses]
    BY <1>1, <1>3, StatusStep
  <1>5. TypeOK'
    BY <1>1, <1>2, <1>4 DEF TypeOK
  <1>6. \A t \in FactSetIds : status[t] = "published" \/ t = s => status'[t] = "published"
    BY <1>1 DEF TypeOK
  <1>7. /\ HeadOf(s).gen \in Nat /\ HeadOf(s).current \in NoneOr(FactSetIds)
        /\ HeadOf(s) = head[n] /\ s # None
    BY <1>1, FactSetsAssumption DEF TypeOK, HeadRow, HeadOf
  <1>8. head'[n].gen = HeadOf(s).gen + 1 /\ head'[n].current = s /\ head'[n].previous = HeadOf(s).current
    BY <1>2
  <1>9. /\ Shown(n)' \subseteq Shown(n) \cup {s} /\ Shown(n) \subseteq FactSetIds
        /\ \A m \in Spaces \ {n} : Shown(m)' = Shown(m) /\ Shown(m) \subseteq FactSetIds
    <2>1. \A m \in Spaces : Shown(m) \subseteq FactSetIds
      BY <1>1 DEF TypeOK, HeadRow, Shown, NoneOr
    <2>2. \A m \in Spaces \ {n} : Shown(m)' = Shown(m)
      BY <1>2 DEF Shown
    <2>3. Shown(n)' \subseteq Shown(n) \cup {s}
      BY <1>7, <1>8 DEF Shown
    <2> QED
      BY <1>1, <2>1, <2>2, <2>3
  <1>10. n = SpaceOf[s]
    OBVIOUS
  <1> HIDE DEF n
  <1>11. HeadIsPublished'
    <2>1. ASSUME NEW m \in Spaces
          PROVE  /\ \A t \in Shown(m)' : status'[t] = "published" /\ SpaceOf[t] = m
                 /\ head'[m].gen = 0 <=> head'[m].current = None
                 /\ head'[m].gen = 0 => head'[m].previous = None
      <3>1. CASE m = n
        <4>1. \A t \in Shown(m)' : status'[t] = "published" /\ SpaceOf[t] = m
          BY <1>1, <1>6, <1>9, <1>10, <3>1 DEF HeadIsPublished
        <4> QED
          BY <1>7, <1>8, <3>1, <4>1
      <3>2. CASE m # n
        BY <1>1, <1>2, <1>6, <1>9, <3>2 DEF HeadIsPublished
      <3> QED
        BY <3>1, <3>2
    <2> QED
      BY <2>1 DEF HeadIsPublished
  <1>12. HeadServed'
    BY <1>1, <1>2, <1>9 DEF HeadServed
  <1> QED
    BY <1>2, <1>4, <1>5, <1>11, <1>12 DEF Inv, HeadInv

LEMMA BootstrapStep ==
  ASSUME Inv, NEW s \in FactSetIds, Bootstrap(s) \/ Promote(s)
  PROVE  Inv'
  <1>1. PICK a \in {"bootstrap", "promote"} : Switch(s, a)
    BY DEF Bootstrap, Promote
  <1>2. /\ status[s] = "approved" /\ Intact(s)
        /\ status' = [status EXCEPT ![s] = "published"]
        /\ UNCHANGED <<anchored, run, item, facts, manifest>>
    BY DEF Bootstrap, Promote
  <1> QED
    BY <1>1, <1>2, SwitchStep DEF Intact

LEMMA RollbackStep ==
  ASSUME Inv, NEW s \in FactSetIds, Rollback(s)
  PROVE  Inv'
  <1>1. /\ status[s] = "published" /\ Intact(s) /\ Switch(s, "rollback")
        /\ UNCHANGED <<status, anchored, run, item, facts, manifest>>
    BY DEF Rollback
  <1>2. status' = [status EXCEPT ![s] = "published"]
    BY <1>1 DEF Inv, TypeOK
  <1> QED
    BY <1>1, <1>2, SwitchStep DEF Intact

-----------------------------------------------------------------------------
(***************************************************************************)
(* The theorems.                                                           *)
(***************************************************************************)

LEMMA InitInv == Init => Inv
  <1> SUFFICES ASSUME Init PROVE Inv
    OBVIOUS
  <1>1. /\ status = [s \in FactSetIds |-> "absent"] /\ anchored = FactSetIds
        /\ run = [s \in FactSetIds |-> "none"]
        /\ item = [s \in FactSetIds |-> [p \in Partitions |-> NoItem]]
        /\ facts = [s \in FactSetIds |-> [p \in Partitions |-> {}]]
        /\ manifest = facts
        /\ head = [n \in Spaces |-> [gen |-> 0, current |-> None, previous |-> None]]
        /\ ledger = [n \in Spaces |-> <<>>]
    BY DEF Init
  <1>2. NoItem \in Item /\ NoItem.status = "none"
    BY RecomputeAssumption DEF NoItem, Item, Executions
  <1>3. \A n \in Spaces : /\ head[n].gen = 0 /\ head[n].current = None /\ head[n].previous = None
                          /\ head[n] \in HeadRow /\ ledger[n] = <<>>
    BY <1>1 DEF HeadRow, NoneOr
  <1>4. TypeOK
    <2>1. ledger \in [Spaces -> Seq(HeadEvent)]
      BY <1>1
    <2>2. head \in [Spaces -> HeadRow]
      BY <1>1 DEF HeadRow, NoneOr
    <2>3. item \in [FactSetIds -> [Partitions -> Item]]
      BY <1>1, <1>2
    <2> QED
      BY <1>1, <2>1, <2>2, <2>3 DEF TypeOK, Statuses, RunStatuses
  <1>5. Vetted = {}
    BY <1>1 DEF Vetted
  <1>6. FillInv
    BY <1>1, <1>2, <1>5 DEF FillInv, WorkIsReserved, CompleteIsDone, VettedIsWhole,
                            ReceiptIsOfThisAttempt
  <1>7. \A n \in Spaces : Shown(n) = {}
    BY <1>3 DEF Shown
  <1>8. HeadIsPublished /\ HeadServed
    BY <1>3, <1>7 DEF HeadIsPublished, HeadServed
  <1>9. HeadIsLedger
    BY <1>3 DEF HeadIsLedger
  <1> QED
    BY <1>4, <1>6, <1>8, <1>9 DEF Inv, HeadInv

(* The steps of a run, all of a set that nobody has vetted.                *)
FillStepOf(s) ==
  \/ CreateRun(s)
  \/ \E p \in Partitions :
       \/ \E outcome \in {"success", "failed"} : Execute(s, p, outcome)
       \/ Report(s, p) \/ Retry(s, p)

LEMMA RunSteps ==
  ASSUME Inv, NEW s \in FactSetIds, FillStepOf(s)
  PROVE  Inv' /\ s \notin Vetted
  BY CreateRunStep, ExecuteStep, FailedStep, SucceededStep, RetryStep DEF FillStepOf, Report

LEMMA NextInv == Inv /\ [Next]_vars => Inv'
  <1> SUFFICES ASSUME Inv, [Next]_vars PROVE Inv'
    OBVIOUS
  <1>1. CASE UNCHANGED vars
    <2>1. UNCHANGED <<status, anchored, run, item, facts, manifest, head, ledger>>
      BY <1>1 DEF vars
    <2>2. \A t : /\ Filled(t)' = Filled(t) /\ (Materialized(t)' <=> Materialized(t))
                 /\ Shown(t)' = Shown(t) /\ ServedIn(t)' = ServedIn(t)
      BY <2>1 DEF Filled, Materialized, Shown, ServedIn
    <2>3. Vetted' = Vetted
      BY <2>1 DEF Vetted
    <2>4. TypeOK' /\ WorkIsReserved' /\ ReceiptIsOfThisAttempt' /\ HeadIsLedger'
      BY <2>1 DEF Inv, FillInv, HeadInv, TypeOK, WorkIsReserved, ReceiptIsOfThisAttempt, HeadIsLedger
    <2>5. CompleteIsDone' /\ VettedIsWhole' /\ HeadIsPublished' /\ HeadServed'
      BY <2>1, <2>2, <2>3 DEF Inv, FillInv, HeadInv, CompleteIsDone, VettedIsWhole, HeadIsPublished,
                              HeadServed
    <2> QED
      BY <2>4, <2>5 DEF Inv, FillInv, HeadInv
  <1>2. CASE Next
    <2>1. PICK s \in FactSetIds :
            \/ FillStepOf(s)
            \/ CreateFactSet(s) \/ Validate(s) \/ Approve(s)
            \/ Bootstrap(s) \/ Promote(s) \/ Rollback(s) \/ Drift(s)
      BY <1>2 DEF Next, FillStepOf
    <2> QED
      BY <2>1, RunSteps, ReviewStep, BootstrapStep, RollbackStep, DriftStep
  <1> QED
    BY <1>1, <1>2

LEMMA Invariance == Spec => []Inv
  BY InitInv, NextInv, PTL DEF Spec

(* Whatever the order of requests, receipts, reports and drifts, rows and  *)
(* histories keep the form of TypeOK.                                      *)
THEOREM TypeCorrect == Spec => []TypeOK
  <1>1. Inv => TypeOK
    BY DEF Inv
  <1> QED
    BY <1>1, Invariance, PTL

(* What a head points to, now or after a rollback, is complete, unchanged  *)
(* and within its budget, for any number of partitions, attempts and late  *)
(* receipts (complete_label_recompute_run_item,                            *)
(* assert_recompute_fact_set_materialized).                                *)
THEOREM VisibleIsWhole == Spec => []WholeWhenVisible
  <1>1. ASSUME Inv, NEW n \in Spaces, NEW s \in Shown(n), s \in Recomputed
        PROVE  /\ s \in Vetted
               /\ \A p \in Partitions :
                    /\ item[s][p].status = "succeeded" /\ item[s][p].exec = "success"
                    /\ item[s][p].recorded = facts[s][p]
               /\ manifest[s] = facts[s]
               /\ Cardinality(Filled(s)) <= Budget
    <2>1. s \in FactSetIds /\ status[s] = "published"
      BY <1>1 DEF Inv, TypeOK, HeadInv, HeadIsPublished, Shown, HeadRow, NoneOr
    <2>2. s \in Vetted
      BY <2>1 DEF Vetted
    <2>3. Materialized(s)
      BY <1>1, <2>2 DEF Inv, FillInv, VettedIsWhole
    <2>4. Cardinality(Filled(s)) <= Budget
      BY <1>1, <2>1, <2>3 DEF Inv, FillInv, CompleteIsDone, Materialized
    <2> QED
      BY <1>1, <2>1, <2>2, <2>3, <2>4 DEF Materialized, Inv, FillInv, ReceiptIsOfThisAttempt
  <1>2. Inv => WholeWhenVisible
    BY <1>1 DEF WholeWhenVisible, Shown, Filled
  <1> QED
    BY <1>2, Invariance, PTL

(* No item ends otherwise than the execution of its current attempt did,   *)
(* however often and late the earlier attempts are reported                *)
(* (complete_label_recompute_run_item).                                    *)
THEOREM ItemEndsAsItsAttempt == Spec => []ReceiptIsOfThisAttempt
  <1>1. Inv => ReceiptIsOfThisAttempt
    BY DEF Inv, FillInv
  <1> QED
    BY <1>1, Invariance, PTL

(* The ledger of every namespace is the gapless history of its head, and a *)
(* rollback returns to the set that the last move replaced                 *)
(* (promote_label_fact_set).                                               *)
THEOREM HeadHasItsLedger == Spec => []HeadIsLedger
  <1>1. Inv => HeadIsLedger
    BY DEF Inv, HeadInv
  <1> QED
    BY <1>1, Invariance, PTL

(* A step of a run writes its own set only, the others write no set.       *)
LEMMA OneSetWritten ==
  ASSUME Inv, NEW t \in FactSetIds, NEW s \in FactSetIds \ {t}, FillStepOf(t)
  PROVE  /\ facts'[s] = facts[s] /\ manifest'[s] = manifest[s]
         /\ item'[s] = item[s] /\ run'[s] = run[s]
  <1>1. CASE CreateRun(t)
    BY <1>1 DEF CreateRun, Inv, TypeOK
  <1>2. ASSUME NEW p \in Partitions, NEW o, Execute(t, p, o)
        PROVE  /\ facts'[s] = facts[s] /\ manifest'[s] = manifest[s]
               /\ item'[s] = item[s] /\ run'[s] = run[s]
    BY <1>2 DEF Execute, Inv, TypeOK
  <1>3. ASSUME NEW p \in Partitions, NEW a, NEW r, NEW b, CompleteFailed(t, p, a, r, b)
        PROVE  /\ facts'[s] = facts[s] /\ manifest'[s] = manifest[s]
               /\ item'[s] = item[s] /\ run'[s] = run[s]
    BY <1>3 DEF CompleteFailed, Inv, TypeOK
  <1>4. ASSUME NEW p \in Partitions, NEW a, NEW r, NEW F, CompleteSucceeded(t, p, a, r, F)
        PROVE  /\ facts'[s] = facts[s] /\ manifest'[s] = manifest[s]
               /\ item'[s] = item[s] /\ run'[s] = run[s]
    BY <1>4 DEF CompleteSucceeded, Inv, TypeOK
  <1>5. ASSUME NEW p \in Partitions, Retry(t, p)
        PROVE  /\ facts'[s] = facts[s] /\ manifest'[s] = manifest[s]
               /\ item'[s] = item[s] /\ run'[s] = run[s]
    BY <1>5 DEF Retry, Inv, TypeOK
  <1> QED
    BY <1>1, <1>2, <1>3, <1>4, <1>5 DEF FillStepOf, Report

(* From validation on, no receipt, retry or other run changes anything of  *)
(* a set (complete_label_recompute_run_item, retry_label_recompute_run_    *)
(* item): a vetted set of a run is materialized, and a complete run has no *)
(* partition that could still be executed, reported or retried.            *)
THEOREM VettedIsFrozen == Spec => FrozenOnceVetted
  <1>1. ASSUME Inv, [Next]_vars, NEW s \in Vetted
        PROVE  /\ facts'[s] = facts[s] /\ manifest'[s] = manifest[s]
               /\ item'[s] = item[s] /\ run'[s] = run[s]
    <2>1. s \in FactSetIds
      BY DEF Vetted
    <2>2. CASE UNCHANGED <<run, item, facts, manifest>>
      BY <2>2
    <2>3. ASSUME NEW t \in FactSetIds, FillStepOf(t)
          PROVE  /\ facts'[s] = facts[s] /\ manifest'[s] = manifest[s]
                 /\ item'[s] = item[s] /\ run'[s] = run[s]
      <3>1. t # s
        BY <1>1, <2>3, RunSteps
      <3> QED
        BY <1>1, <2>1, <2>3, <3>1, OneSetWritten
    <2>4. ASSUME NEW t \in FactSetIds,
                 \/ CreateFactSet(t) \/ Validate(t) \/ Approve(t)
                 \/ Bootstrap(t) \/ Promote(t) \/ Rollback(t) \/ Drift(t)
          PROVE  UNCHANGED <<run, item, facts, manifest>>
      BY <2>4 DEF CreateFactSet, Validate, Approve, Bootstrap, Promote, Rollback, Drift
    <2>5. \/ UNCHANGED <<run, item, facts, manifest>>
          \/ \E t \in FactSetIds : FillStepOf(t)
      BY <1>1, <2>4 DEF Next, FillStepOf, vars
    <2> QED
      BY <2>2, <2>3, <2>5
  <1>2. Inv /\ [Next]_vars
          => [\A s \in Vetted :
                /\ facts'[s] = facts[s] /\ manifest'[s] = manifest[s]
                /\ item'[s] = item[s] /\ run'[s] = run[s]]_vars
    BY <1>1
  <1> QED
    BY <1>2, Invariance, PTL DEF Spec, FrozenOnceVetted

-----------------------------------------------------------------------------
(***************************************************************************)
(* The refinement.                                                         *)
(***************************************************************************)

(* What ActiveBundle shows of the namespace n. *)
Lost(n) == (FactSetIds \ anchored) \ ServedIn(n)
Visible(n) == INSTANCE ActiveBundle WITH
  Deployments <- FactSetIds,
  current <- head[n].current,
  served <- ServedIn(n),
  unfit <- Lost(n)

(* Filling and reviewing a set touches neither heads nor anchors.          *)
LEMMA Aside ==
  ASSUME NEW s \in FactSetIds,
         FillStepOf(s) \/ CreateFactSet(s) \/ Validate(s) \/ Approve(s)
  PROVE  UNCHANGED <<anchored, head, ledger>>
  <1>1. CASE CreateRun(s)
    BY <1>1 DEF CreateRun
  <1>2. ASSUME NEW p \in Partitions, NEW o, Execute(s, p, o)
        PROVE  UNCHANGED <<anchored, head, ledger>>
    BY <1>2 DEF Execute
  <1>3. ASSUME NEW p \in Partitions, Report(s, p)
        PROVE  UNCHANGED <<anchored, head, ledger>>
    BY <1>3 DEF Report, CompleteFailed, CompleteSucceeded
  <1>4. ASSUME NEW p \in Partitions, Retry(s, p)
        PROVE  UNCHANGED <<anchored, head, ledger>>
    BY <1>4 DEF Retry
  <1>5. CASE CreateFactSet(s) \/ Validate(s) \/ Approve(s)
    BY <1>5 DEF CreateFactSet, Validate, Approve
  <1> QED
    BY <1>1, <1>2, <1>3, <1>4, <1>5 DEF FillStepOf

LEMMA WhatHappens ==
  ASSUME [Next]_vars
  PROVE  \/ UNCHANGED <<anchored, head, ledger>>
         \/ \E s \in FactSetIds : Bootstrap(s) \/ Promote(s) \/ Rollback(s) \/ Drift(s)
  BY Aside DEF Next, FillStepOf, vars

(* A step that does not move heads loses the anchor of one set at most.    *)
LEMMA WhoDrifts ==
  ASSUME Inv, [Next]_vars, UNCHANGED <<head, ledger>>, NEW n \in Spaces
  PROVE  [Visible(n)!Next]_(Visible(n)!vars)
  <1>1. ServedIn(n)' = ServedIn(n) /\ head'[n] = head[n]
    BY DEF ServedIn
  <1>2. CASE anchored' = anchored
    <2>1. Lost(n)' = Lost(n)
      BY <1>1, <1>2 DEF Lost
    <2> QED
      BY <1>1, <2>1 DEF Visible!vars
  <1>3. CASE anchored' # anchored
    <2>1. PICK s \in FactSetIds : Drift(s)
      BY <1>3, WhatHappens DEF Bootstrap, Promote, Rollback
    <2>2. anchored' = anchored \ {s}
      BY <2>1 DEF Drift
    <2>3. CASE s \in ServedIn(n)
      <3>1. Lost(n)' = Lost(n)
        BY <1>1, <2>2, <2>3 DEF Lost
      <3> QED
        BY <1>1, <3>1 DEF Visible!vars
    <2>4. CASE s \notin ServedIn(n)
      <3>1. Lost(n)' = Lost(n) \cup {s}
        BY <1>1, <2>2, <2>4 DEF Lost
      <3>2. Visible(n)!Condemn(s)
        BY <1>1, <2>4, <3>1 DEF Visible!Condemn
      <3> QED
        BY <3>2 DEF Visible!Next
    <2> QED
      BY <2>3, <2>4
  <1> QED
    BY <1>2, <1>3

(* A move of the head of one namespace is no step of the others, and shows *)
(* a set that is either anchored or was visible before.                    *)
LEMMA WhoMoves ==
  ASSUME Inv, NEW s \in FactSetIds, NEW a \in {"bootstrap", "promote", "rollback"},
         Switch(s, a), anchored' = anchored, s \in anchored, NEW n \in Spaces
  PROVE  [Visible(n)!Next]_(Visible(n)!vars)
  <1>1. /\ head'[SpaceOf[s]] = [gen |-> HeadOf(s).gen + 1, current |-> s,
                                 previous |-> HeadOf(s).current]
        /\ \A m \in Spaces \ {SpaceOf[s]} : head'[m] = head[m] /\ ServedIn(m)' = ServedIn(m)
        /\ ServedIn(SpaceOf[s])' = ServedIn(SpaceOf[s]) \cup {s}
    BY LedgerGrows DEF Inv, HeadInv
  <1>2. CASE n # SpaceOf[s]
    <2>1. head'[n] = head[n] /\ ServedIn(n)' = ServedIn(n)
      BY <1>1, <1>2
    <2>2. Lost(n)' = Lost(n)
      BY <2>1 DEF Lost
    <2> QED
      BY <2>1, <2>2 DEF Visible!vars
  <1>3. CASE n = SpaceOf[s]
    <2>1. head'[n].current = s /\ ServedIn(n)' = ServedIn(n) \cup {s}
      BY <1>1, <1>3
    <2>2. Lost(n)' = Lost(n) /\ s \notin Lost(n)
      BY <2>1 DEF Lost
    <2>3. CASE s \in ServedIn(n)
      <3>1. ServedIn(n)' = ServedIn(n)
        BY <2>1, <2>3
      <3>2. Visible(n)!Restore(s)
        BY <2>1, <2>2, <2>3, <3>1 DEF Visible!Restore
      <3> QED
        BY <3>2 DEF Visible!Next
    <2>4. CASE s \notin ServedIn(n)
      <3>1. Visible(n)!Activate(s)
        BY <2>1, <2>2, <2>4 DEF Visible!Activate
      <3> QED
        BY <3>1 DEF Visible!Next
    <2> QED
      BY <2>3, <2>4
  <1> QED
    BY <1>2, <1>3

(* Every namespace implements ActiveBundle: a set whose label version had  *)
(* changed before it was ever visible never becomes visible, and what a    *)
(* rollback brings back was visible before (promote_label_fact_set,        *)
(* _assert_fact_set_integrity).                                            *)
THEOREM NamespaceImplementsActiveBundle ==
  ASSUME NEW n \in Spaces
  PROVE  Spec => Visible(n)!Spec
  <1>1. Init => Visible(n)!Init
    <2> SUFFICES ASSUME Init PROVE Visible(n)!Init
      OBVIOUS
    <2>1. head[n].current = None /\ ledger[n] = <<>> /\ anchored = FactSetIds
      BY DEF Init
    <2>2. ServedIn(n) = {} /\ Lost(n) = {}
      BY <2>1 DEF ServedIn, Lost
    <2> QED
      BY <2>1, <2>2 DEF Visible!Init
  <1>2. ASSUME Inv, [Next]_vars PROVE [Visible(n)!Next]_(Visible(n)!vars)
    <2>1. CASE UNCHANGED <<head, ledger>>
      BY <1>2, <2>1, WhoDrifts
    <2>2. CASE ~ UNCHANGED <<head, ledger>>
      <3>1. PICK s \in FactSetIds : Bootstrap(s) \/ Promote(s) \/ Rollback(s)
        BY <1>2, <2>2, WhatHappens DEF Drift
      <3>2. PICK a \in {"bootstrap", "promote", "rollback"} : Switch(s, a)
        BY <3>1 DEF Bootstrap, Promote, Rollback
      <3>3. anchored' = anchored /\ s \in anchored
        BY <3>1 DEF Bootstrap, Promote, Rollback, Intact
      <3> QED
        BY <1>2, <3>2, <3>3, WhoMoves
    <2> QED
      BY <2>1, <2>2
  <1> QED
    BY <1>1, <1>2, Invariance, PTL DEF Spec, Visible!Spec
=============================================================================

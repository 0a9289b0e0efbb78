-------------------------- MODULE IdempotencyProofs --------------------------
(***************************************************************************)
(* Proofs about Idempotency, for any callers, keys, request bodies and     *)
(* numbers of attempts and faults: its safety properties.                  *)
(*                                                                         *)
(* The argument.  The unique index is a lock: the attempts that are at     *)
(* work under a key are the one that holds its uncommitted row (Locked),   *)
(* and a row is held only while none is committed (HeldIsOpen).  So a      *)
(* committed row is never written again, and whatever was answered from    *)
(* it, on the way to the caller or arrived, remains what it says           *)
(* (AnswersStand, ToldWhatStands).                                         *)
(***************************************************************************)
EXTENDS Idempotency, TLAPS

AtWork(a) == pc[a] \in {"reserved", "worked", "refused"}

Locked == \A k \in Keys, a \in Attempts : holder[k] = a <=> AtWork(a) /\ KeyOf(a) = k

HeldIsOpen == \A k \in Keys : holder[k] # None => saved[k] = None

AnswersStand ==
  \A a \in Attempts : answer[a].by # None =>
    saved[KeyOf(a)] = [body |-> BodyOf(a), answer |-> answer[a]]

(* An attempt that its caller has not made yet is nowhere in the server. *)
NoneAhead == \A a \in Attempts : a[2] > caller[a[1]].sent => pc[a] = "unsent"

Inv == /\ TypeOK /\ Locked /\ HeldIsOpen /\ AnswersStand /\ NoneAhead
       /\ ExecutedOnce /\ ToldWhatStands

-----------------------------------------------------------------------------
(***************************************************************************)
(* Attempts, rows and answers.                                             *)
(***************************************************************************)

LEMMA AttemptIs ==
  ASSUME NEW a \in Attempts
  PROVE  /\ a[1] \in Callers /\ a[2] \in 1 .. MaxAttempts /\ a = <<a[1], a[2]>>
         /\ KeyOf(a) \in Keys /\ KeyOf(a) = Key[a[1]]
         /\ BodyOf(a) \in {Body[c] : c \in Callers} /\ BodyOf(a) = Body[a[1]]
  BY DEF Attempts, KeyOf, BodyOf, Keys

LEMMA UnstoredIs ==
  ASSUME NEW kind \in Kinds
  PROVE  Unstored(kind) \in Answer /\ Unstored(kind).by = None
  BY DEF Unstored, Answer

LEMMA SilenceIs == Silence \in Answer /\ Silence.by = None
  BY UnstoredIs DEF Silence, Kinds

-----------------------------------------------------------------------------
(***************************************************************************)
(* The committed rows, and who was told of them.                           *)
(***************************************************************************)

(* A step that commits no row. *)
LEMMA RowsKept ==
  ASSUME Inv, saved' = saved, effects' = effects,
         \A a \in Attempts : answer'[a] = answer[a] \/ answer'[a].by = None
                               \/ saved[KeyOf(a)] = [body |-> BodyOf(a), answer |-> answer'[a]],
         \A c \in Callers : caller'[c].last = caller[c].last \/ caller'[c].last.by = None
                               \/ saved[Key[c]] = [body |-> Body[c], answer |-> caller'[c].last]
  PROVE  ExecutedOnce' /\ AnswersStand' /\ ToldWhatStands'
  <1>1. ExecutedOnce'
    BY DEF Inv, ExecutedOnce
  <1>2. AnswersStand'
    BY DEF Inv, AnswersStand
  <1>3. ToldWhatStands'
    BY DEF Inv, ToldWhatStands
  <1> QED
    BY <1>1, <1>2, <1>3

(* The lock, seen from one attempt that moves. *)
LEMMA LockMoves ==
  ASSUME TypeOK, Locked, NEW a \in Attempts, NEW new, NEW p,
         pc' = [pc EXCEPT ![a] = p],
         holder' = [holder EXCEPT ![KeyOf(a)] = new],
         \/ new = a /\ holder[KeyOf(a)] \in {None, a}
         \/ new = None /\ holder[KeyOf(a)] \in {None, a}
         \/ new = holder[KeyOf(a)] /\ new # a,
         p \in {"reserved", "worked", "refused"} <=> new = a
  PROVE  Locked'
  <1>1. /\ pc \in [Attempts -> Pcs] /\ holder \in [Keys -> Attempts \cup {None}]
        /\ KeyOf(a) \in Keys /\ None \notin Attempts
    BY AttemptIs, NoneAssumption DEF TypeOK
  <1>2. ASSUME NEW k \in Keys, NEW b \in Attempts
        PROVE  holder'[k] = b <=> pc'[b] \in {"reserved", "worked", "refused"} /\ KeyOf(b) = k
    <2>0. holder[k] = b <=> pc[b] \in {"reserved", "worked", "refused"} /\ KeyOf(b) = k
      BY DEF Locked, AtWork
    <2>00. holder[KeyOf(a)] = a <=> pc[a] \in {"reserved", "worked", "refused"}
      BY <1>1 DEF Locked, AtWork
    <2>1. CASE b = a
      BY <1>1, <2>0, <2>00, <2>1
    <2>2. CASE b # a /\ k # KeyOf(a)
      BY <1>1, <2>0, <2>2
    <2>3. CASE b # a /\ k = KeyOf(a)
      BY <1>1, <2>0, <2>00, <2>3
    <2> QED
      BY <2>1, <2>2, <2>3
  <1> QED
    BY <1>2 DEF Locked, AtWork, KeyOf

LEMMA HeldKept ==
  ASSUME TypeOK, HeldIsOpen, NEW k \in Keys, NEW new,
         holder' = [holder EXCEPT ![k] = new], saved' = saved,
         new = None \/ saved[k] = None
  PROVE  HeldIsOpen'
  BY DEF TypeOK, HeldIsOpen

LEMMA LastWritten ==
  ASSUME TypeOK, NEW c \in Callers, NEW l \in Answer,
         caller' = [caller EXCEPT ![c].last = l]
  PROVE  /\ caller' \in [Callers -> [sent : 0 .. MaxAttempts, last : Answer]]
         /\ \A d \in Callers : caller'[d].sent = caller[d].sent
         /\ \A d \in Callers : caller'[d].last = IF d = c THEN l ELSE caller[d].last
  BY DEF TypeOK

(* A step of the server with one attempt, short of a commit. *)
LEMMA ServerStep ==
  ASSUME Inv, NEW a \in Attempts, NEW p \in Pcs, NEW new \in Attempts \cup {None},
         NEW ans \in Answer, NEW l \in Answer,
         pc[a] # "unsent",
         pc' = [pc EXCEPT ![a] = p],
         holder' = [holder EXCEPT ![KeyOf(a)] = new],
         \/ new = a /\ holder[KeyOf(a)] \in {None, a}
         \/ new = None /\ holder[KeyOf(a)] \in {None, a}
         \/ new = holder[KeyOf(a)] /\ new # a,
         p \in {"reserved", "worked", "refused"} <=> new = a,
         new = None \/ saved[KeyOf(a)] = None,
         answer' = [answer EXCEPT ![a] = ans],
         ans.by = None \/ saved[KeyOf(a)] = [body |-> BodyOf(a), answer |-> ans],
         caller' = caller \/ caller' = [caller EXCEPT ![a[1]].last = l],
         \/ l = caller[a[1]].last
         \/ l.by = None \/ saved[KeyOf(a)] = [body |-> BodyOf(a), answer |-> l],
         faults' \in 0 .. MaxFaults, saved' = saved, effects' = effects
  PROVE  Inv'
  <1>1. /\ TypeOK /\ Locked /\ HeldIsOpen /\ NoneAhead
        /\ KeyOf(a) \in Keys /\ a[1] \in Callers
        /\ KeyOf(a) = Key[a[1]] /\ BodyOf(a) = Body[a[1]]
    BY AttemptIs DEF Inv
  <1>2. /\ pc' \in [Attempts -> Pcs] /\ answer' \in [Attempts -> Answer]
        /\ holder' \in [Keys -> Attempts \cup {None}]
    BY <1>1 DEF TypeOK
  <1>3. /\ caller' \in [Callers -> [sent : 0 .. MaxAttempts, last : Answer]]
        /\ \A d \in Callers : caller'[d].sent = caller[d].sent
        /\ \A d \in Callers : caller'[d].last = caller[d].last \/ (d = a[1] /\ caller'[d].last = l)
    <2>1. CASE caller' = caller
      BY <1>1, <2>1 DEF TypeOK
    <2>2. CASE caller' = [caller EXCEPT ![a[1]].last = l]
      <3>1. PICK c \in Callers : c = a[1]
        BY <1>1
      <3>2. caller' = [caller EXCEPT ![c].last = l]
        BY <2>2, <3>1
      <3>3. /\ caller' \in [Callers -> [sent : 0 .. MaxAttempts, last : Answer]]
            /\ \A d \in Callers : caller'[d].sent = caller[d].sent
            /\ \A d \in Callers : caller'[d].last = IF d = c THEN l ELSE caller[d].last
        BY <1>1, <3>2, LastWritten
      <3> QED
        BY <3>1, <3>3
    <2> QED
      BY <2>1, <2>2
  <1>4. TypeOK'
    BY <1>1, <1>2, <1>3 DEF TypeOK
  <1>5. Locked'
    BY <1>1, LockMoves
  <1>6. HeldIsOpen'
    BY <1>1, HeldKept
  <1>7. NoneAhead'
    <2>1. ASSUME NEW b \in Attempts PROVE pc'[b] = IF b = a THEN p ELSE pc[b]
      BY <1>1 DEF TypeOK
    <2> QED
      BY <1>1, <1>3, <2>1, AttemptIs DEF NoneAhead
  <1>8. \A b \in Attempts : answer'[b] = answer[b] \/ answer'[b].by = None
                              \/ saved[KeyOf(b)] = [body |-> BodyOf(b), answer |-> answer'[b]]
    BY <1>1 DEF TypeOK
  <1>9. \A d \in Callers : caller'[d].last = caller[d].last \/ caller'[d].last.by = None
                             \/ saved[Key[d]] = [body |-> Body[d], answer |-> caller'[d].last]
    BY <1>1, <1>3
  <1>10. ExecutedOnce' /\ AnswersStand' /\ ToldWhatStands'
    BY <1>8, <1>9, RowsKept
  <1> QED
    BY <1>4, <1>5, <1>6, <1>7, <1>10 DEF Inv

-----------------------------------------------------------------------------
(***************************************************************************)
(* The steps.                                                              *)
(***************************************************************************)

LEMMA CallerStep ==
  ASSUME Inv, NEW c \in Callers, Send(c) \/ TimeOut(c)
  PROVE  Inv'
  <1>1. /\ TypeOK /\ Locked /\ HeldIsOpen /\ NoneAhead
        /\ caller[c] \in [sent : 0 .. MaxAttempts, last : Answer]
        /\ Silence \in Answer /\ Silence.by = None
        /\ Unstored("error") \in Answer /\ Unstored("error").by = None
    BY SilenceIs, UnstoredIs DEF Inv, TypeOK, Kinds
  <1>2. CASE Send(c)
    <2> DEFINE a == <<c, caller[c].sent + 1>>
    <2>1. /\ caller[c].sent < MaxAttempts
          /\ caller' = [caller EXCEPT ![c].sent = caller[c].sent + 1, ![c].last = Silence]
          /\ pc' = [pc EXCEPT ![a] = "sent"]
          /\ UNCHANGED <<saved, holder, answer, effects, faults>>
      BY <1>2 DEF Send
    <2>2. a \in Attempts /\ a[1] = c /\ a[2] = caller[c].sent + 1
      BY <1>1, <2>1, AttemptsAssumption DEF Attempts
    <2>3. pc[a] = "unsent"
      BY <1>1, <2>2 DEF NoneAhead
    <2>4. /\ caller' \in [Callers -> [sent : 0 .. MaxAttempts, last : Answer]]
          /\ \A d \in Callers : caller'[d].sent = IF d = c THEN caller[c].sent + 1 ELSE caller[d].sent
          /\ \A d \in Callers : caller'[d].last = IF d = c THEN Silence ELSE caller[d].last
      <3>1. PICK n \in 0 .. MaxAttempts : n = caller[c].sent + 1
        BY <1>1, <2>1, AttemptsAssumption
      <3> DEFINE k == [caller[c] EXCEPT !.sent = n, !.last = Silence]
      <3>2. k \in [sent : 0 .. MaxAttempts, last : Answer] /\ k.sent = n /\ k.last = Silence
        BY <1>1
      <3>3. caller' = [caller EXCEPT ![c] = k]
        BY <2>1, <3>1
      <3> HIDE DEF k
      <3> QED
        BY <1>1, <3>1, <3>2, <3>3 DEF TypeOK
    <2> HIDE DEF a
    <2>5. TypeOK'
      BY <1>1, <2>1, <2>2, <2>4 DEF TypeOK, Pcs
    <2>6. \A b \in Attempts : AtWork(b)' <=> AtWork(b)
      BY <1>1, <2>1, <2>2, <2>3 DEF TypeOK, AtWork
    <2>7. Locked' /\ HeldIsOpen'
      BY <1>1, <2>1, <2>6 DEF Locked, HeldIsOpen, KeyOf
    <2>8. NoneAhead'
      <3>1. ASSUME NEW b \in Attempts, b[2] > caller'[b[1]].sent PROVE pc'[b] = "unsent"
        <4>1. b[1] \in Callers /\ b[2] \in Nat /\ caller[b[1]].sent \in Nat
          BY <1>1, AttemptIs DEF TypeOK
        <4>2. b # a /\ b[2] > caller[b[1]].sent
          BY <1>1, <2>2, <2>4, <3>1, <4>1
        <4> QED
          BY <1>1, <2>1, <4>2 DEF TypeOK, NoneAhead
      <3> QED
        BY <3>1 DEF NoneAhead
    <2>9. ExecutedOnce' /\ AnswersStand' /\ ToldWhatStands'
      BY <1>1, <2>1, <2>4, RowsKept
    <2> QED
      BY <2>5, <2>7, <2>8, <2>9 DEF Inv
  <1>3. CASE TimeOut(c)
    <2>1. /\ faults < MaxFaults /\ faults' = faults + 1
          /\ caller' = [caller EXCEPT ![c].last = Unstored("error")]
          /\ UNCHANGED <<saved, holder, pc, answer, effects>>
      BY <1>3 DEF TimeOut
    <2>2. /\ caller' \in [Callers -> [sent : 0 .. MaxAttempts, last : Answer]]
          /\ \A d \in Callers : caller'[d].sent = caller[d].sent
          /\ \A d \in Callers : caller'[d].last = IF d = c THEN Unstored("error") ELSE caller[d].last
      BY <1>1, <2>1, LastWritten
    <2>3. TypeOK'
      BY <1>1, <2>1, <2>2, AttemptsAssumption DEF TypeOK
    <2>4. Locked' /\ HeldIsOpen'
      BY <1>1, <2>1 DEF Locked, HeldIsOpen, AtWork, KeyOf
    <2>5. NoneAhead'
      BY <1>1, <2>1, <2>2, AttemptIs DEF NoneAhead
    <2>6. ExecutedOnce' /\ AnswersStand' /\ ToldWhatStands'
      BY <1>1, <2>1, <2>2, RowsKept
    <2> QED
      BY <2>3, <2>4, <2>5, <2>6 DEF Inv
  <1> QED
    BY <1>2, <1>3

LEMMA ServeStep ==
  ASSUME Inv, NEW a \in Attempts, Serve(a) \/ Abort(a) \/ Lose(a), ~Commit(a)
  PROVE  Inv'
  <1> DEFINE k == KeyOf(a)
             l0 == caller[a[1]].last
  <1>1. /\ TypeOK /\ Locked /\ HeldIsOpen /\ k \in Keys /\ a[1] \in Callers
        /\ Silence \in Answer /\ Silence.by = None
        /\ Unstored("error") \in Answer /\ Unstored("error").by = None
        /\ Unstored("conflict") \in Answer /\ Unstored("conflict").by = None
        /\ Unstored("invalid") \in Answer /\ Unstored("invalid").by = None
        /\ faults \in 0 .. MaxFaults /\ MaxFaults \in Nat
    BY SilenceIs, UnstoredIs, AttemptIs, AttemptsAssumption DEF Inv, TypeOK, Kinds
  <1>2. /\ l0 \in Answer /\ answer[a] \in Answer /\ holder[k] \in Attempts \cup {None}
        /\ saved[k] \in Row \cup {None}
        /\ holder = [holder EXCEPT ![k] = holder[k]]
        /\ answer = [answer EXCEPT ![a] = answer[a]]
    BY <1>1 DEF TypeOK
  <1>3. /\ AtWork(a) <=> holder[k] = a
        /\ holder[k] # None => saved[k] = None
        /\ answer[a].by = None \/ saved[k] = [body |-> BodyOf(a), answer |-> answer[a]]
        /\ None # a
    BY <1>1, NoneAssumption DEF Inv, Locked, HeldIsOpen, AnswersStand
  <1> HIDE DEF k, l0
  <1>4. ASSUME NEW p \in Pcs, NEW new \in Attempts \cup {None}, NEW ans \in Answer, NEW l \in Answer,
               pc[a] # "unsent", pc' = [pc EXCEPT ![a] = p], holder' = [holder EXCEPT ![k] = new],
               \/ new = a /\ holder[k] \in {None, a}
               \/ new = None /\ holder[k] \in {None, a}
               \/ new = holder[k] /\ new # a,
               p \in {"reserved", "worked", "refused"} <=> new = a,
               new = None \/ saved[k] = None,
               answer' = [answer EXCEPT ![a] = ans],
               ans.by = None \/ saved[k] = [body |-> BodyOf(a), answer |-> ans],
               caller' = caller \/ caller' = [caller EXCEPT ![a[1]].last = l],
               l \in {l0, answer[a], Unstored("error")},
               faults' \in {faults, faults + 1}, faults' = faults \/ faults < MaxFaults,
               saved' = saved, effects' = effects
        PROVE  Inv'
    <2>1. /\ holder' = [holder EXCEPT ![KeyOf(a)] = new]
          /\ \/ new = a /\ holder[KeyOf(a)] \in {None, a}
             \/ new = None /\ holder[KeyOf(a)] \in {None, a}
             \/ new = holder[KeyOf(a)] /\ new # a
          /\ new = None \/ saved[KeyOf(a)] = None
          /\ ans.by = None \/ saved[KeyOf(a)] = [body |-> BodyOf(a), answer |-> ans]
      BY <1>4 DEF k
    <2>2. \/ l = caller[a[1]].last
          \/ l.by = None \/ saved[KeyOf(a)] = [body |-> BodyOf(a), answer |-> l]
      BY <1>1, <1>3, <1>4 DEF k, l0
    <2>3. faults' \in 0 .. MaxFaults
      BY <1>1, <1>4
    <2> QED
      BY <1>4, <2>1, <2>2, <2>3, ServerStep
  <1>5. CASE Reserve(a)
    <2>1. /\ pc[a] = "sent" /\ holder[k] = None
          /\ UNCHANGED <<saved, caller, effects, faults>>
      BY <1>5 DEF Reserve, k
    <2>2. CASE /\ saved[k] = None
               /\ holder' = [holder EXCEPT ![k] = a]
               /\ pc' = [pc EXCEPT ![a] = "reserved"]
               /\ UNCHANGED answer
      <3>1. answer' = [answer EXCEPT ![a] = answer[a]] /\ "reserved" \in Pcs
        BY <1>2, <2>2 DEF Pcs
      <3> QED
        BY <1>2, <1>3, <1>4, <2>1, <2>2, <3>1
    <2>3. CASE saved[k] # None /\ saved[k].body # BodyOf(a)
               /\ Finish(a, Unstored("conflict")) /\ UNCHANGED holder
      <3>1. /\ holder' = [holder EXCEPT ![k] = holder[k]] /\ "saved" \in Pcs
            /\ pc' = [pc EXCEPT ![a] = "saved"]
            /\ answer' = [answer EXCEPT ![a] = Unstored("conflict")]
        BY <1>2, <2>3 DEF Pcs, Finish
      <3> QED
        BY <1>1, <1>2, <1>3, <1>4, <2>1, <3>1
    <2>4. CASE saved[k] # None /\ saved[k].body = BodyOf(a)
               /\ Finish(a, saved[k].answer) /\ UNCHANGED holder
      <3>1. /\ holder' = [holder EXCEPT ![k] = holder[k]] /\ "saved" \in Pcs
            /\ pc' = [pc EXCEPT ![a] = "saved"]
            /\ answer' = [answer EXCEPT ![a] = saved[k].answer]
        BY <1>2, <2>4 DEF Pcs, Finish
      <3>2. saved[k] \in Row
        BY <1>2, <2>4
      <3>3. saved[k] = [body |-> BodyOf(a), answer |-> saved[k].answer] /\ saved[k].answer \in Answer
        BY <2>4, <3>2 DEF Row, Answer, Kinds
      <3> QED
        BY <1>1, <1>2, <1>3, <1>4, <2>1, <3>1, <3>3
    <2> QED
      BY <1>5, <2>2, <2>3, <2>4 DEF Reserve, k
  <1>6. CASE Work(a)
    <2>1. pc[a] = "reserved" /\ UNCHANGED <<saved, holder, answer, caller, effects, faults>>
      BY <1>6 DEF Work
    <2>2. PICK p \in {"worked", "refused"} : pc' = [pc EXCEPT ![a] = p]
      BY <1>6 DEF Work
    <2>3. holder[k] = a /\ saved[k] = None
      BY <1>3, <2>1 DEF AtWork
    <2>4. /\ p \in Pcs /\ holder' = [holder EXCEPT ![k] = a]
          /\ answer' = [answer EXCEPT ![a] = answer[a]]
      BY <1>2, <2>1, <2>3 DEF Pcs
    <2> QED
      BY <1>2, <1>3, <1>4, <2>1, <2>2, <2>3, <2>4
  <1>7. CASE Refuse(a)
    <2>1. /\ pc[a] = "reserved" /\ holder' = Released(a) /\ pc' = [pc EXCEPT ![a] = "saved"]
          /\ answer' = [answer EXCEPT ![a] = Unstored("invalid")]
          /\ UNCHANGED <<saved, caller, effects, faults>>
      BY <1>7 DEF Refuse, Finish
    <2>2. holder[k] = a
      BY <1>3, <2>1 DEF AtWork
    <2>3. holder' = [holder EXCEPT ![k] = None] /\ "saved" \in Pcs
      BY <2>1, <2>2 DEF Released, k, Pcs
    <2> QED
      BY <1>1, <1>2, <1>3, <1>4, <2>1, <2>2, <2>3
  <1>8. CASE Abort(a)
    <2>1. /\ faults < MaxFaults /\ faults' = faults + 1 /\ holder' = Released(a)
          /\ pc[a] \in {"sent", "reserved", "worked", "refused"} /\ pc' = [pc EXCEPT ![a] = "saved"]
          /\ answer' = [answer EXCEPT ![a] = Unstored("error")]
          /\ UNCHANGED <<saved, caller, effects>>
      BY <1>8 DEF Abort, Finish
    <2>2. CASE holder[k] = a
      <3>1. holder' = [holder EXCEPT ![k] = None] /\ "saved" \in Pcs
        BY <2>1, <2>2 DEF Released, k, Pcs
      <3> QED
        BY <1>1, <1>2, <1>3, <1>4, <2>1, <2>2, <3>1
    <2>3. CASE holder[k] # a
      <3>1. holder' = [holder EXCEPT ![k] = holder[k]] /\ "saved" \in Pcs
        BY <2>1, <2>3 DEF Released, k, Pcs
      <3> QED
        BY <1>1, <1>2, <1>3, <1>4, <2>1, <2>3, <3>1
    <2> QED
      BY <2>2, <2>3
  <1>9. CASE Reply(a) \/ Lose(a)
    <2>1. /\ pc[a] = "saved" /\ pc' = [pc EXCEPT ![a] = "closed"]
          /\ answer' = [answer EXCEPT ![a] = Silence]
          /\ faults' \in {faults, faults + 1} /\ (faults' = faults \/ faults < MaxFaults)
          /\ UNCHANGED <<saved, holder, effects>>
      BY <1>9 DEF Reply, Lose
    <2>2. PICK l \in {l0, answer[a], Unstored("error")} : caller' = [caller EXCEPT ![a[1]].last = l]
      BY <1>9 DEF Reply, Lose, l0
    <2>3. holder[k] # a
      BY <1>3, <2>1 DEF AtWork
    <2>4. holder' = [holder EXCEPT ![k] = holder[k]] /\ "closed" \in Pcs /\ l \in Answer
      BY <1>1, <1>2, <2>1, <2>2 DEF Pcs
    <2> QED
      BY <1>1, <1>2, <1>3, <1>4, <2>1, <2>2, <2>3, <2>4
  <1> QED
    BY <1>5, <1>6, <1>7, <1>8, <1>9 DEF Serve

(* The commit of the attempt that holds the key. *)
LEMMA CommitStep ==
  ASSUME Inv, NEW a \in Attempts, Commit(a)
  PROVE  Inv'
  <1> DEFINE k == KeyOf(a)
             ans == [kind |-> IF pc[a] = "worked" THEN "done" ELSE "rejected", by |-> a]
             row == [body |-> BodyOf(a), answer |-> ans]
  <1>1. /\ TypeOK /\ Locked /\ HeldIsOpen /\ NoneAhead /\ k \in Keys
        /\ ExecutedOnce /\ AnswersStand /\ ToldWhatStands
        /\ BodyOf(a) \in {Body[c] : c \in Callers}
    BY AttemptIs DEF Inv
  <1>2. /\ pc[a] \in {"worked", "refused"}
        /\ saved' = [saved EXCEPT ![k] = row]
        /\ effects' = IF pc[a] = "worked" THEN effects \cup {a} ELSE effects
        /\ holder' = Released(a)
        /\ pc' = [pc EXCEPT ![a] = "saved"] /\ answer' = [answer EXCEPT ![a] = ans]
        /\ UNCHANGED <<caller, faults>>
    BY DEF Commit, Finish
  <1>3. /\ ans \in Answer /\ row \in Row /\ row.answer = ans
        /\ pc[a] = "worked" => ans = [kind |-> "done", by |-> a]
    BY <1>1 DEF Answer, Kinds, Row
  <1>4. holder[k] = a /\ saved[k] = None /\ a # None
    BY <1>1, <1>2, NoneAssumption DEF Locked, AtWork, HeldIsOpen
  <1>5. holder' = [holder EXCEPT ![k] = None]
    BY <1>2, <1>4 DEF Released
  <1>6. \A b \in Attempts, x \in Answer : [body |-> BodyOf(b), answer |-> x] # None
    BY NoneAssumption, AttemptIs
  <1>7. \A c \in Callers, x \in Answer : [body |-> Body[c], answer |-> x] # None
    BY NoneAssumption
  <1>8. /\ saved'[k] = row /\ \A j \in Keys \ {k} : saved'[j] = saved[j]
        /\ saved' \in [Keys -> Row \cup {None}]
    BY <1>1, <1>2, <1>3 DEF TypeOK
  <1>9. /\ answer'[a] = ans /\ \A b \in Attempts \ {a} : answer'[b] = answer[b]
        /\ answer' \in [Attempts -> Answer]
    BY <1>1, <1>2, <1>3 DEF TypeOK
  <1>10. row = [body |-> BodyOf(a), answer |-> ans]
    OBVIOUS
  <1>11. k = KeyOf(a)
    OBVIOUS
  <1> HIDE DEF ans, row, k
  <1>12. TypeOK'
    <2>1. pc' \in [Attempts -> Pcs] /\ holder' \in [Keys -> Attempts \cup {None}]
      BY <1>1, <1>2, <1>5 DEF TypeOK, Pcs
    <2>2. effects' \subseteq Attempts /\ caller' = caller /\ faults' = faults
      BY <1>1, <1>2 DEF TypeOK
    <2> QED
      BY <1>1, <1>8, <1>9, <2>1, <2>2 DEF TypeOK
  <1>13. Locked'
    BY <1>1, <1>2, <1>4, <1>5, <1>11, LockMoves, NoneAssumption
  <1>14. HeldIsOpen'
    BY <1>1, <1>5, <1>8 DEF HeldIsOpen, TypeOK
  <1>15. NoneAhead'
    <2>1. \A b \in Attempts : pc'[b] = IF b = a THEN "saved" ELSE pc[b]
      BY <1>1, <1>2 DEF TypeOK
    <2> QED
      BY <1>1, <1>2, <2>1 DEF NoneAhead
  <1>16. \A b \in Attempts : KeyOf(b) \in Keys
    BY AttemptIs
  <1>17. AnswersStand'
    <2>1. ASSUME NEW b \in Attempts, answer'[b].by # None
          PROVE  saved'[KeyOf(b)] = [body |-> BodyOf(b), answer |-> answer'[b]]
      <3>1. CASE b = a
        BY <1>8, <1>9, <1>10, <1>11, <3>1
      <3>2. CASE b # a
        <4>1. answer'[b] = answer[b] /\ answer[b] \in Answer
          BY <1>1, <1>9, <3>2 DEF TypeOK
        <4>2. saved[KeyOf(b)] = [body |-> BodyOf(b), answer |-> answer[b]]
          BY <1>1, <2>1, <4>1 DEF AnswersStand
        <4>3. KeyOf(b) # k
          BY <1>4, <1>6, <4>1, <4>2
        <4> QED
          BY <1>8, <1>16, <4>1, <4>2, <4>3
      <3> QED
        BY <3>1, <3>2
    <2> QED
      BY <2>1 DEF AnswersStand, KeyOf, BodyOf
  <1>18. ToldWhatStands'
    <2>1. ASSUME NEW c \in Callers, caller[c].last.by # None
          PROVE  saved'[Key[c]] = [body |-> Body[c], answer |-> caller[c].last]
      <3>1. saved[Key[c]] = [body |-> Body[c], answer |-> caller[c].last] /\ Key[c] \in Keys
        BY <1>1, <2>1 DEF ToldWhatStands, Keys
      <3>2. Key[c] # k
        BY <1>1, <1>4, <1>7, <3>1 DEF TypeOK
      <3> QED
        BY <1>8, <3>1, <3>2
    <2> QED
      BY <1>2, <2>1 DEF ToldWhatStands
  <1>19. ExecutedOnce'
    <2>1. ASSUME NEW b \in effects PROVE /\ b \in Attempts /\ KeyOf(b) # k /\ KeyOf(b) \in Keys
                                        /\ saved'[KeyOf(b)] = saved[KeyOf(b)]
      <3>1. b \in Attempts
        BY <1>1, <2>1 DEF TypeOK
      <3>2. saved[KeyOf(b)] = [body |-> BodyOf(b), answer |-> [kind |-> "done", by |-> b]]
        BY <1>1, <2>1 DEF ExecutedOnce
      <3>3. [kind |-> "done", by |-> b] \in Answer
        BY <3>1 DEF Answer, Kinds
      <3>4. KeyOf(b) # k
        BY <1>4, <1>6, <3>1, <3>2, <3>3
      <3> QED
        BY <1>8, <1>16, <3>1, <3>4
    <2>2. ASSUME NEW b \in effects'
          PROVE  /\ \A d \in effects' : KeyOf(b) = KeyOf(d) => b = d
                 /\ saved'[KeyOf(b)] = [body |-> BodyOf(b), answer |-> [kind |-> "done", by |-> b]]
      <3>1. CASE b \in effects
        <4>1. saved'[KeyOf(b)] = [body |-> BodyOf(b), answer |-> [kind |-> "done", by |-> b]]
          BY <1>1, <2>1, <3>1 DEF ExecutedOnce
        <4>2. ASSUME NEW d \in effects', KeyOf(b) = KeyOf(d) PROVE b = d
          BY <1>1, <1>2, <1>11, <2>1, <3>1, <4>2 DEF ExecutedOnce
        <4> QED
          BY <4>1, <4>2
      <3>2. CASE b \notin effects
        <4>1. b = a /\ pc[a] = "worked"
          BY <1>2, <2>2, <3>2
        <4>2. saved'[KeyOf(b)] = [body |-> BodyOf(b), answer |-> [kind |-> "done", by |-> b]]
          BY <1>3, <1>8, <1>10, <1>11, <4>1
        <4>3. ASSUME NEW d \in effects', KeyOf(b) = KeyOf(d) PROVE b = d
          BY <1>2, <1>11, <2>1, <4>1, <4>3
        <4> QED
          BY <4>2, <4>3
      <3> QED
        BY <3>1, <3>2
    <2> QED
      BY <2>2 DEF ExecutedOnce, KeyOf, BodyOf
  <1> QED
    BY <1>12, <1>13, <1>14, <1>15, <1>17, <1>18, <1>19 DEF Inv

-----------------------------------------------------------------------------
(***************************************************************************)
(* The theorems.                                                           *)
(***************************************************************************)

LEMMA InitInv == Init => Inv
  <1> SUFFICES ASSUME Init PROVE Inv
    OBVIOUS
  <1>1. /\ saved = [k \in Keys |-> None] /\ holder = [k \in Keys |-> None]
        /\ pc = [a \in Attempts |-> "unsent"] /\ answer = [a \in Attempts |-> Silence]
        /\ caller = [c \in Callers |-> [sent |-> 0, last |-> Silence]]
        /\ effects = {} /\ faults = 0
    BY DEF Init
  <1>2. Silence \in Answer /\ Silence.by = None
    BY SilenceIs
  <1>3. \A c \in Callers : caller[c].sent = 0 /\ caller[c].last = Silence
    BY <1>1
  <1>4. TypeOK
    <2>1. caller \in [Callers -> [sent : 0 .. MaxAttempts, last : Answer]]
      BY <1>1, <1>2, AttemptsAssumption
    <2>2. faults \in 0 .. MaxFaults
      BY <1>1, AttemptsAssumption
    <2> QED
      BY <1>1, <1>2, <2>1, <2>2 DEF TypeOK, Pcs
  <1>5. Locked /\ HeldIsOpen
    BY <1>1, NoneAssumption DEF Locked, HeldIsOpen, AtWork
  <1>6. AnswersStand /\ NoneAhead /\ ExecutedOnce /\ ToldWhatStands
    BY <1>1, <1>2, <1>3 DEF AnswersStand, NoneAhead, ExecutedOnce, ToldWhatStands
  <1> QED
    BY <1>4, <1>5, <1>6 DEF Inv

LEMMA NextInv == Inv /\ [Next]_vars => Inv'
  <1> SUFFICES ASSUME Inv, [Next]_vars PROVE Inv'
    OBVIOUS
  <1>1. ASSUME NEW a \in Attempts, Serve(a) \/ Abort(a) \/ Lose(a) PROVE Inv'
    BY <1>1, CommitStep, ServeStep
  <1>2. CASE UNCHANGED vars
    BY <1>2 DEF vars, Inv, TypeOK, Locked, AtWork, HeldIsOpen, AnswersStand, NoneAhead,
                ExecutedOnce, ToldWhatStands, KeyOf, BodyOf
  <1> QED
    BY <1>1, <1>2, CallerStep DEF Next

LEMMA Invariance == Spec => []Inv
  BY InitInv, NextInv, PTL DEF Spec

(* Requests, rows and answers stay within TypeOK whoever sends, repeats    *)
(* and fails; in particular no row without an answer is ever committed.    *)
THEOREM TypeCorrect == Spec => []TypeOK
  <1>1. Inv => TypeOK
    BY DEF Inv
  <1> QED
    BY <1>1, Invariance, PTL

(* For any number of callers and attempts, one key has one effect, and the *)
(* row of the key holds its answer (replay_or_conflict,                    *)
(* save_idempotency_result).                                               *)
THEOREM OneKeyOneEffect == Spec => []ExecutedOnce
  <1>1. Inv => ExecutedOnce
    BY DEF Inv
  <1> QED
    BY <1>1, Invariance, PTL

(* Whatever a caller was told of its request is what the database holds of *)
(* it, through retries, late replies and other users of its key            *)
(* (replay_or_conflict).                                                   *)
THEOREM AnswersAreTrue == Spec => []ToldWhatStands
  <1>1. Inv => ToldWhatStands
    BY DEF Inv
  <1> QED
    BY <1>1, Invariance, PTL
=============================================================================

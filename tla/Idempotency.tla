---------------------------- MODULE Idempotency -----------------------------
(***************************************************************************)
(* Idempotent writes.  Every write endpoint reserves a row for its         *)
(* Idempotency-Key, does its work and stores its answer in that row, all   *)
(* in one transaction; a caller that got no answer, or one it may retry,   *)
(* sends the same request again under the same key.  Several requests with *)
(* one key may be in the server at once.  They meet at the unique index of *)
(* idempotency_records: an insert waits while another transaction holds an *)
(* uncommitted row of the key, and then finds the row committed, or gone.  *)
(*                                                                         *)
(* An attempt is one HTTP request.  What a handler computes is abstract:   *)
(* each execution produces an answer of its own (identifiers are drawn     *)
(* afresh), so two executions never agree by chance.  A row in progress is *)
(* visible only to its own transaction: every handler commits after it has *)
(* saved, so a committed row is a completed one.                           *)
(***************************************************************************)
EXTENDS Naturals, FiniteSets

CONSTANTS
  Callers,      \* clients, each with one logical request
  Key,          \* the Idempotency-Key of a caller's request
  Body,         \* its request hash
  None,
  MaxAttempts,  \* max_attempts of the caller
  MaxFaults     \* bound on crashes, lock timeouts and lost replies

ASSUME CallersAssumption == Callers # {} /\ IsFiniteSet(Callers)
ASSUME AttemptsAssumption == MaxAttempts \in Nat \ {0} /\ MaxFaults \in Nat

Attempts == Callers \X (1 .. MaxAttempts)
Keys == {Key[c] : c \in Callers}
KeyOf(a) == Key[a[1]]
BodyOf(a) == Body[a[1]]

VARIABLES
  saved,    \* committed idempotency_records, None where there is no row
  holder,   \* the attempt whose transaction holds an uncommitted row of a key
  pc,       \* where each attempt is
  answer,   \* what the server answered to an attempt, while it is under way
  caller,   \* what each caller knows: its attempts so far, its last answer
  effects,  \* attempts whose work has been committed
  faults

vars == <<saved, holder, pc, answer, caller, effects, faults>>

(* done: a stored or fresh success.  rejected: a refusal that was stored   *)
(* (save_idempotency_result of an api_error_result).  invalid: a refusal   *)
(* raised before anything was stored.  conflict: the key belongs to        *)
(* another request.  error: no usable answer.  none: no answer yet.        *)
Kinds == {"none", "done", "rejected", "invalid", "conflict", "error"}
Answer == [kind : Kinds, by : Attempts \cup {None}]
Pcs == {"unsent", "sent", "reserved", "worked", "refused", "saved", "closed"}
Row == [body : {Body[c] : c \in Callers}, answer : [kind : {"done", "rejected"}, by : Attempts]]
Unstored(kind) == [kind |-> kind, by |-> None]
Silence == Unstored("none")

ASSUME NoneAssumption ==
  None \notin Attempts /\ None \notin [body : {Body[c] : c \in Callers}, answer : Answer]

Init ==
  /\ saved = [k \in Keys |-> None]
  /\ holder = [k \in Keys |-> None]
  /\ pc = [a \in Attempts |-> "unsent"]
  /\ answer = [a \in Attempts |-> Silence]
  /\ caller = [c \in Callers |-> [sent |-> 0, last |-> Silence]]
  /\ effects = {}
  /\ faults = 0

-----------------------------------------------------------------------------
(***************************************************************************)
(* The caller (CompletionCallbackClient._post_signed).                     *)
(***************************************************************************)

(* No answer yet, or one that is worth another attempt: every failure but  *)
(* a 4xx other than 408, 409, 425 and 429.                                 *)
Retries(c) == caller[c].last.kind \in {"none", "error", "conflict", "rejected"}

(* The next attempt: the same body under the same key.  The one before may *)
(* still be in the server: its reply was lost or timed out.                *)
Send(c) ==
  LET a == <<c, caller[c].sent + 1>>
  IN /\ caller[c].sent < MaxAttempts
     /\ Retries(c)
     /\ caller[c].sent > 0 => caller[c].last # Silence
     /\ caller' = [caller EXCEPT ![c].sent = @ + 1, ![c].last = Silence]
     /\ pc' = [pc EXCEPT ![a] = "sent"]
     /\ UNCHANGED <<saved, holder, answer, effects, faults>>

(* The request times out at the caller while the server works on it. *)
TimeOut(c) ==
  /\ faults < MaxFaults
  /\ caller[c].sent > 0 /\ caller[c].last = Silence
  /\ faults' = faults + 1
  /\ caller' = [caller EXCEPT ![c].last = Unstored("error")]
  /\ UNCHANGED <<saved, holder, pc, answer, effects>>

-----------------------------------------------------------------------------
(***************************************************************************)
(* The server.                                                             *)
(***************************************************************************)

Finish(a, ans) ==
  /\ pc' = [pc EXCEPT ![a] = "saved"]
  /\ answer' = [answer EXCEPT ![a] = ans]

(* Slip: the reservation is looked up and does not wait for the index. *)
ReserveUnlocked(a) ==
  LET k == KeyOf(a)
  IN /\ pc[a] = "sent"
     /\ \/ /\ saved[k] = None
           /\ holder' = [holder EXCEPT ![k] = a]
           /\ pc' = [pc EXCEPT ![a] = "reserved"]
           /\ UNCHANGED answer
        \/ saved[k] # None /\ Finish(a, saved[k].answer) /\ UNCHANGED holder
     /\ UNCHANGED <<saved, caller, effects, faults>>

(* Slip: a stored answer is given to whoever presents its key. *)
ReserveAnyBody(a) ==
  LET k == KeyOf(a)
  IN /\ pc[a] = "sent"
     /\ holder[k] = None
     /\ \/ /\ saved[k] = None
           /\ holder' = [holder EXCEPT ![k] = a]
           /\ pc' = [pc EXCEPT ![a] = "reserved"]
           /\ UNCHANGED answer
        \/ saved[k] # None /\ Finish(a, saved[k].answer) /\ UNCHANGED holder
     /\ UNCHANGED <<saved, caller, effects, faults>>

(* replay_or_conflict: insert if absent, then lock and read the row.  It   *)
(* is ours, or another request's, or the stored answer of this one.        *)
Reserve(a) ==
  LET k == KeyOf(a)
  IN /\ pc[a] = "sent"
     /\ holder[k] = None
     /\ \/ /\ saved[k] = None
           /\ holder' = [holder EXCEPT ![k] = a]
           /\ pc' = [pc EXCEPT ![a] = "reserved"]
           /\ UNCHANGED answer
        \/ /\ saved[k] # None /\ saved[k].body # BodyOf(a)
           /\ Finish(a, Unstored("conflict"))
           /\ UNCHANGED holder
        \/ /\ saved[k] # None /\ saved[k].body = BodyOf(a)
           /\ Finish(a, saved[k].answer)
           /\ UNCHANGED holder
     /\ UNCHANGED <<saved, caller, effects, faults>>

(* The handler does its work, or refuses for a reason it wants replayed. *)
Work(a) ==
  /\ pc[a] = "reserved"
  /\ \/ pc' = [pc EXCEPT ![a] = "worked"]
     \/ pc' = [pc EXCEPT ![a] = "refused"]
  /\ UNCHANGED <<saved, holder, answer, caller, effects, faults>>

Released(a) ==
  [holder EXCEPT ![KeyOf(a)] = IF @ = a THEN None ELSE @]

(* save_idempotency_result and the handler's commit: the work, if any, and *)
(* the answer become visible together and the key is free for its waiters. *)
Commit(a) ==
  LET ans == [kind |-> IF pc[a] = "worked" THEN "done" ELSE "rejected", by |-> a]
  IN /\ pc[a] \in {"worked", "refused"}
     /\ saved' = [saved EXCEPT ![KeyOf(a)] = [body |-> BodyOf(a), answer |-> ans]]
     /\ effects' = IF pc[a] = "worked" THEN effects \cup {a} ELSE effects
     /\ holder' = Released(a)
     /\ Finish(a, ans)
     /\ UNCHANGED <<caller, faults>>

(* Slip: the session of a failed request stays open. *)
RefuseOpen(a) ==
  /\ pc[a] = "reserved"
  /\ Finish(a, Unstored("invalid"))
  /\ UNCHANGED <<saved, holder, caller, effects, faults>>

(* Slip: the refusal is committed with the reservation. *)
RefuseStored(a) ==
  /\ pc[a] = "reserved"
  /\ saved' = [saved EXCEPT ![KeyOf(a)] = [body |-> BodyOf(a), answer |-> Unstored("invalid")]]
  /\ holder' = Released(a)
  /\ Finish(a, Unstored("invalid"))
  /\ UNCHANGED <<caller, effects, faults>>

(* The handler raises: get_session closes the session, which rolls back    *)
(* the work and the reservation.                                           *)
Refuse(a) ==
  /\ pc[a] = "reserved"
  /\ holder' = Released(a)
  /\ Finish(a, Unstored("invalid"))
  /\ UNCHANGED <<saved, caller, effects, faults>>

(* A crash, a deadlock or a lock timeout anywhere before the commit. *)
Abort(a) ==
  /\ faults < MaxFaults
  /\ pc[a] \in {"sent", "reserved", "worked", "refused"}
  /\ faults' = faults + 1
  /\ holder' = Released(a)
  /\ Finish(a, Unstored("error"))
  /\ UNCHANGED <<saved, caller, effects>>

(* The answer reaches a caller that still waits for it. *)
Reply(a) ==
  LET c == a[1]
  IN /\ pc[a] = "saved"
     /\ pc' = [pc EXCEPT ![a] = "closed"]
     /\ answer' = [answer EXCEPT ![a] = Silence]
     /\ caller' = [caller EXCEPT ![c].last =
          IF caller[c].sent = a[2] /\ @ = Silence THEN answer[a] ELSE @]
     /\ UNCHANGED <<saved, holder, effects, faults>>

(* The answer is lost, after the commit. *)
Lose(a) ==
  LET c == a[1]
  IN /\ faults < MaxFaults
     /\ pc[a] = "saved"
     /\ faults' = faults + 1
     /\ pc' = [pc EXCEPT ![a] = "closed"]
     /\ answer' = [answer EXCEPT ![a] = Silence]
     /\ caller' = [caller EXCEPT ![c].last =
          IF caller[c].sent = a[2] /\ @ = Silence THEN Unstored("error") ELSE @]
     /\ UNCHANGED <<saved, holder, effects>>

-----------------------------------------------------------------------------
Serve(a) == Reserve(a) \/ Work(a) \/ Commit(a) \/ Refuse(a) \/ Reply(a)

Next ==
  \/ \E c \in Callers : Send(c) \/ TimeOut(c)
  \/ \E a \in Attempts : Serve(a) \/ Abort(a) \/ Lose(a)

(* A caller sends and repeats; a request in the server gets its turn, also *)
(* when it waits for the index: the one it waits for ends, and locks are   *)
(* granted in turn.                                                        *)
Spec == /\ Init /\ [][Next]_vars
        /\ \A c \in Callers : WF_vars(Send(c))
        /\ \A a \in Attempts : SF_vars(Reserve(a)) /\ WF_vars(Serve(a))

-----------------------------------------------------------------------------
(***************************************************************************)
(* Properties.                                                             *)
(***************************************************************************)

TypeOK ==
  /\ saved \in [Keys -> Row \cup {None}]
  /\ holder \in [Keys -> Attempts \cup {None}]
  /\ pc \in [Attempts -> Pcs]
  /\ answer \in [Attempts -> Answer]
  /\ caller \in [Callers -> [sent : 0 .. MaxAttempts, last : Answer]]
  /\ effects \subseteq Attempts
  /\ faults \in 0 .. MaxFaults

(* One key, one execution: however many requests carry a key, at once or   *)
(* after each other, at most one of them has an effect, and it is the one  *)
(* whose answer is stored (replay_or_conflict, save_idempotency_result).   *)
ExecutedOnce ==
  \A a \in effects :
    /\ \A b \in effects : KeyOf(a) = KeyOf(b) => a = b
    /\ saved[KeyOf(a)] = [body |-> BodyOf(a), answer |-> [kind |-> "done", by |-> a]]

(* A caller that was told its request is done, or rejected for good, was   *)
(* told what the database holds of exactly that request, also when another *)
(* caller uses the key for something else.                                 *)
ToldWhatStands ==
  \A c \in Callers :
    caller[c].last.by # None =>
      saved[Key[c]] = [body |-> Body[c], answer |-> caller[c].last]

(* Nobody waits for ever: every caller gets an answer it need not repeat,  *)
(* or has used up its attempts and been answered.                          *)
CallersFinish ==
  \A c \in Callers :
    <>[](caller[c].last # Silence /\ (~Retries(c) \/ caller[c].sent = MaxAttempts))
=============================================================================

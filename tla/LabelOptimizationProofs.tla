----------------------- MODULE LabelOptimizationProofs -----------------------
(***************************************************************************)
(* Proofs about LabelOptimization, for any candidates, bundles, budget,    *)
(* limit, cooldown and horizon: its safety properties.                     *)
(*                                                                         *)
(* The argument.  A tick writes the last round from what it read of it,    *)
(* and the engine may have answered since.  So a tick must know that what  *)
(* it read is still true except where a run was live (SeenStands); with    *)
(* that, a round it closes has no live run left, and the gates it judged   *)
(* are those the round keeps.  RoundOK relates the status of a round to    *)
(* its runs, its selection and the reason of its stop, SessionOK the       *)
(* rounds of a session to the pointer of the schedule and to one another.  *)
(* A round takes over the base of the one before it unless that one        *)
(* selected a candidate; so what Lineage says of the round that was left   *)
(* carries over to the round that follows (NextAppended).                  *)
(***************************************************************************)
EXTENDS LabelOptimization, SequenceTheorems, TLAPS

Open == {"generating-candidates", "evaluating"}

RoundOK(r) ==
  /\ r.status = "generating-candidates" => \A c \in Candidates : r.evals[c] = "none"
  /\ r.status = "evaluating" => r.generation # "live"
  /\ r.status \in Open => r.stop = "none"
  /\ r.status \in Open \cup {"failed"} => r.selected = None
  /\ r.status = "awaiting-review" => r.evals[r.selected] = "passed"
  /\ r.stop = "quality" => Passed(r) = {}

(* A round that was left for the next one, and the last round of a session *)
(* that is open or not.                                                    *)
Past(r) ==
  /\ RoundOK(r) /\ r.status \in {"completed", "failed"} /\ ~Live(r)
  /\ r.selected # None => r.evals[r.selected] = "promising"
Final(r, open) == RoundOK(r) /\ (open <=> r.status \in Open) /\ (Live(r) => open)

(* The base of round n is the newest selection before it.                  *)
Lineage(rs, n) ==
  LET b == rs[n].base
  IN /\ b < n
     /\ b # 0 => /\ rs[b].selected # None
                 /\ rs[b].evals[rs[b].selected] = "promising"
     /\ \A m \in b + 1 .. n - 1 : rs[m].selected = None

SessionOK(rs, open, b) ==
  /\ \A n \in DOMAIN rs : /\ n # Len(rs) => Past(rs[n])
                          /\ open => rs[n].bundle = b
                          /\ Lineage(rs, n)
  /\ open => rs # <<>>
  /\ rs # <<>> => Final(rs[Len(rs)], open)
  /\ Len(rs) <= MaxRounds

(* What was read of a round against the round as it is.                    *)
Stands(seen, r) ==
  /\ seen.status = r.status /\ seen.failures = r.failures
  /\ seen.generation # "live" => r.generation = seen.generation
  /\ \A c \in Candidates : seen.evals[c] # "live" => r.evals[c] = seen.evals[c]
SeenStands ==
  tick # Idle /\ schedule.active => tick.seen # <<>> /\ Stands(Seen, Current)

Inv == TypeOK /\ SessionOK(rounds, schedule.active, schedule.bundle) /\ SeenStands

-----------------------------------------------------------------------------
(***************************************************************************)
(* The rounds of a session: the last one, one written in its place, one    *)
(* appended.                                                               *)
(***************************************************************************)

LEMMA CurrentIsRound ==
  ASSUME TypeOK, rounds # <<>>
  PROVE  /\ Len(rounds) \in Nat \ {0} /\ Len(rounds) \in DOMAIN rounds
         /\ Current \in Round
  <1>1. rounds \in Seq(Round)
    BY DEF TypeOK
  <1>2. Len(rounds) \in Nat \ {0} /\ DOMAIN rounds = 1 .. Len(rounds)
    BY <1>1, LenProperties, EmptySeq
  <1>3. Len(rounds) \in 1 .. Len(rounds)
    BY <1>2
  <1>4. rounds[Len(rounds)] \in Round
    BY <1>1, <1>3, ElementOfSeq
  <1> QED
    BY <1>2, <1>3, <1>4 DEF Current

LEMMA SeenIsRound ==
  ASSUME Inv, InSession
  PROVE  /\ Seen \in Round /\ Stands(Seen, Current)
         /\ rounds # <<>> /\ Current \in Round
  <1>1. tick.seen # <<>> /\ Stands(Seen, Current)
    BY DEF Inv, SeenStands, InSession
  <1>2. tick.seen \in Seq(Round)
    BY DEF Inv, TypeOK
  <1>3. 1 \in 1 .. Len(tick.seen)
    BY <1>1, <1>2, EmptySeq
  <1>4. Seen \in Round
    BY <1>2, <1>3, ElementOfSeq DEF Seen
  <1>5. rounds # <<>>
    BY DEF Inv, SessionOK, InSession
  <1> QED
    BY <1>1, <1>4, <1>5, CurrentIsRound DEF Inv

(* What Left leaves.                                                       *)
LEMMA LeftProperties ==
  ASSUME TypeOK, rounds # <<>>, NEW r \in Round
  PROVE  /\ Left(r) \in Seq(Round) /\ Len(Left(r)) = Len(rounds)
         /\ DOMAIN Left(r) = 1 .. Len(rounds) /\ DOMAIN rounds = 1 .. Len(rounds)
         /\ Left(r) # <<>>
         /\ Left(r)[Len(rounds)] = r
         /\ \A n \in 1 .. Len(rounds) : n # Len(rounds) => Left(r)[n] = rounds[n]
  <1>1. rounds \in Seq(Round)
    BY DEF TypeOK
  <1>2. Len(rounds) \in Nat \ {0} /\ Len(rounds) \in 1 .. Len(rounds)
    BY CurrentIsRound
  <1>3. /\ [rounds EXCEPT ![Len(rounds)] = r] \in Seq(Round)
        /\ Len([rounds EXCEPT ![Len(rounds)] = r]) = Len(rounds)
        /\ \A n \in 1 .. Len(rounds) :
             [rounds EXCEPT ![Len(rounds)] = r][n] = IF n = Len(rounds) THEN r ELSE rounds[n]
    BY <1>1, <1>2, ExceptSeq
  <1>4. /\ Left(r) \in Seq(Round) /\ Len(Left(r)) = Len(rounds)
        /\ \A n \in 1 .. Len(rounds) : Left(r)[n] = IF n = Len(rounds) THEN r ELSE rounds[n]
    BY <1>3 DEF Left
  <1>5. DOMAIN Left(r) = 1 .. Len(rounds) /\ DOMAIN rounds = 1 .. Len(rounds)
    BY <1>1, <1>4, LenProperties
  <1>6. Left(r) # <<>>
    BY <1>2, <1>4, EmptySeq
  <1> QED
    BY <1>2, <1>4, <1>5, <1>6

(* Where a round comes from depends on the rounds before it only.          *)
LEMMA LineageOfPrefix ==
  ASSUME NEW rs, NEW ts, NEW n \in Nat \ {0}, rs[n].base \in Nat, Lineage(rs, n),
         ts[n].base = rs[n].base, \A m \in 1 .. n - 1 : ts[m] = rs[m]
  PROVE  Lineage(ts, n)
  <1> DEFINE b == rs[n].base
  <1>1. b \in Nat /\ b < n /\ ts[n].base = b
    BY DEF Lineage
  <1>2. b # 0 => ts[b] = rs[b]
    BY <1>1
  <1>3. \A m \in b + 1 .. n - 1 : ts[m] = rs[m]
    BY <1>1
  <1> QED
    BY <1>1, <1>2, <1>3 DEF Lineage

(* The last round rewritten, the session open or over.                     *)
LEMMA LastWritten ==
  ASSUME TypeOK, rounds # <<>>, SessionOK(rounds, schedule.active, schedule.bundle),
         schedule.active, NEW r \in Round, r.bundle = Current.bundle,
         r.base = Current.base, NEW open \in BOOLEAN, Final(r, open)
  PROVE  Left(r) \in Seq(Round) /\ SessionOK(Left(r), open, schedule.bundle)
  <1>1. /\ Left(r) \in Seq(Round) /\ Len(Left(r)) = Len(rounds)
        /\ DOMAIN Left(r) = 1 .. Len(rounds) /\ DOMAIN rounds = 1 .. Len(rounds)
        /\ Left(r) # <<>>
        /\ Left(r)[Len(rounds)] = r
        /\ \A n \in 1 .. Len(rounds) : n # Len(rounds) => Left(r)[n] = rounds[n]
    BY LeftProperties
  <1>2. Current = rounds[Len(rounds)] /\ Len(rounds) \in 1 .. Len(rounds)
    BY CurrentIsRound DEF Current
  <1>3. ASSUME NEW n \in DOMAIN Left(r)
        PROVE  /\ n # Len(Left(r)) => Past(Left(r)[n])
               /\ open => Left(r)[n].bundle = schedule.bundle
               /\ Lineage(Left(r), n)
    <2>1. /\ n # Len(Left(r)) => Past(Left(r)[n])
          /\ open => Left(r)[n].bundle = schedule.bundle
      BY <1>1, <1>2, <1>3 DEF SessionOK
    <2>2. n \in 1 .. Len(rounds) /\ n \in Nat \ {0} /\ Len(rounds) \in Nat
      <3>1. n \in 1 .. Len(rounds)
        BY <1>1, <1>3
      <3>2. Len(rounds) \in Nat
        BY CurrentIsRound
      <3> QED
        BY ONLY <3>1, <3>2
    <2>3. Left(r)[n].base = rounds[n].base
      BY <1>1, <1>2, <2>2
    <2>4. rounds[n].base \in Nat
      <3>1. rounds[n] \in Round
        BY <2>2, ElementOfSeq DEF TypeOK
      <3> QED
        BY <3>1 DEF Round
    <2>5. \A m \in 1 .. n - 1 : Left(r)[m] = rounds[m]
      <3>1. \A m \in 1 .. n - 1 : m \in 1 .. Len(rounds) /\ m # Len(rounds)
        BY ONLY <2>2
      <3> QED
        BY ONLY <1>1, <3>1
    <2>6. Lineage(rounds, n)
      BY <1>1, <2>2 DEF SessionOK
    <2>7. Lineage(Left(r), n)
      BY <2>2, <2>3, <2>4, <2>5, <2>6, LineageOfPrefix
    <2> QED
      BY <2>1, <2>7
  <1>4. Len(Left(r)) <= MaxRounds
    BY <1>1 DEF SessionOK
  <1> QED
    BY <1>1, <1>3, <1>4 DEF SessionOK

(* The last round left for the next one.                                   *)
LEMMA NextAppended ==
  ASSUME TypeOK, rounds # <<>>, SessionOK(rounds, schedule.active, schedule.bundle),
         schedule.active, NEW r \in Round, r.bundle = Current.bundle,
         r.base = Current.base, Past(r), Len(rounds) < MaxRounds,
         NEW q \in Round, q.bundle = schedule.bundle, Final(q, TRUE),
         q.base = IF r.selected = None THEN r.base ELSE Len(rounds)
  PROVE  /\ Append(Left(r), q) \in Seq(Round)
         /\ SessionOK(Append(Left(r), q), TRUE, schedule.bundle)
  <1>1. /\ Left(r) \in Seq(Round) /\ Len(Left(r)) = Len(rounds)
        /\ DOMAIN rounds = 1 .. Len(rounds)
        /\ Left(r)[Len(rounds)] = r
        /\ \A n \in 1 .. Len(rounds) : n # Len(rounds) => Left(r)[n] = rounds[n]
    BY LeftProperties
  <1>2. /\ Current = rounds[Len(rounds)] /\ Len(rounds) \in Nat \ {0}
        /\ Len(rounds) \in 1 .. Len(rounds)
    BY CurrentIsRound DEF Current
  <1> DEFINE rs == Append(Left(r), q)
  <1>3. /\ rs \in Seq(Round) /\ rs # <<>> /\ Len(rs) = Len(rounds) + 1
        /\ \A n \in 1 .. Len(rounds) : rs[n] = Left(r)[n]
        /\ rs[Len(rounds) + 1] = q
    BY <1>1, AppendProperties
  <1>4. DOMAIN rs = 1 .. Len(rs)
    BY <1>3, LenProperties
  <1>a. SessionOK(Left(r), FALSE, schedule.bundle)
    <2>1. Final(r, FALSE)
      BY DEF Past, Final, Open
    <2> QED
      BY <2>1, LastWritten
  <1>b. DOMAIN Left(r) = 1 .. Len(rounds)
    BY <1>1, LenProperties
  <1> HIDE DEF rs
  <1>c. ASSUME NEW n \in 1 .. Len(rounds) PROVE Lineage(rs, n) /\ rs[n].base \in Nat
    <2>1. Lineage(Left(r), n) /\ n \in Nat \ {0}
      BY <1>2, <1>a, <1>b, <1>c DEF SessionOK
    <2>2. Left(r)[n] \in Round
      BY <1>1, <1>c, ElementOfSeq
    <2>3. Left(r)[n].base \in Nat
      BY <2>2 DEF Round
    <2>4. rs[n].base = Left(r)[n].base /\ \A m \in 1 .. n - 1 : rs[m] = Left(r)[m]
      BY <1>2, <1>3, <1>c
    <2> QED
      BY <2>1, <2>3, <2>4, LineageOfPrefix
  <1>d. Lineage(rs, Len(rounds) + 1)
    <2>1. Lineage(rs, Len(rounds)) /\ rs[Len(rounds)] = r /\ r.base \in Nat
      BY <1>1, <1>2, <1>3, <1>c
    <2>2. CASE r.selected = None
      <3>1. rs[Len(rounds) + 1].base = r.base /\ r.base < Len(rounds)
        BY <1>3, <2>1, <2>2 DEF Lineage
      <3>2. ASSUME NEW m \in r.base + 1 .. Len(rounds) PROVE rs[m].selected = None
        <4>1. CASE m = Len(rounds)
          BY <2>1, <2>2, <4>1
        <4>2. CASE m # Len(rounds)
          <5>1. m \in r.base + 1 .. Len(rounds) - 1
            BY <1>2, <2>1, <3>2, <4>2
          <5> QED
            BY <2>1, <5>1 DEF Lineage
        <4> QED
          BY <4>1, <4>2
      <3>3. r.base # 0 => /\ rs[r.base].selected # None
                          /\ rs[r.base].evals[rs[r.base].selected] = "promising"
        BY <2>1 DEF Lineage
      <3>4. r.base < Len(rounds) + 1 /\ (Len(rounds) + 1) - 1 = Len(rounds)
        BY <1>2, <2>1, <3>1
      <3> QED
        BY <3>1, <3>2, <3>3, <3>4 DEF Lineage
    <2>3. CASE r.selected # None
      <3>1. rs[Len(rounds) + 1].base = Len(rounds)
        BY <1>3, <2>3
      <3>2. r.evals[r.selected] = "promising"
        BY <2>3 DEF Past
      <3>3. \A m \in Len(rounds) + 1 .. (Len(rounds) + 1) - 1 : FALSE
        BY <1>2
      <3>4. Len(rounds) < Len(rounds) + 1
        BY <1>2
      <3> QED
        BY <2>1, <2>3, <3>1, <3>2, <3>3, <3>4 DEF Lineage
    <2> QED
      BY <2>2, <2>3
  <1>5. ASSUME NEW n \in DOMAIN rs
        PROVE  /\ n # Len(rs) => Past(rs[n])
               /\ rs[n].bundle = schedule.bundle /\ Lineage(rs, n)
    <2>1. n \in 1 .. Len(rounds) \/ n = Len(rounds) + 1
      BY <1>2, <1>3, <1>4, <1>5
    <2>2. CASE n \in 1 .. Len(rounds)
      <3>1. Past(rs[n])
        BY <1>1, <1>3, <2>2 DEF SessionOK
      <3>2. rs[n].bundle = schedule.bundle
        BY <1>1, <1>2, <1>3, <2>2 DEF SessionOK
      <3> QED
        BY <1>c, <2>2, <3>1, <3>2
    <2>3. CASE n = Len(rounds) + 1
      BY <1>3, <1>d, <2>3
    <2> QED
      BY <2>1, <2>2, <2>3
  <1>6. Len(rs) <= MaxRounds
    BY <1>2, <1>3, OptimizationAssumption
  <1>7. SessionOK(rs, TRUE, schedule.bundle)
    BY <1>3, <1>5, <1>6 DEF SessionOK
  <1> QED
    BY <1>3, <1>7 DEF rs

(* A round that begins.                                                    *)
LEMMA OpenedProperties ==
  ASSUME TypeOK, NEW time \in Nat, NEW failures \in Nat, NEW base \in Nat
  PROVE  /\ Opened(time, failures, base) \in Round
         /\ Opened(time, failures, base).bundle = schedule.bundle
         /\ Opened(time, failures, base).base = base
         /\ Final(Opened(time, failures, base), TRUE)
  <1>1. Opened(time, failures, base) \in Round
    BY DEF TypeOK, Opened, Round, Schedule, RoundStatuses, Generations, Evals, Stops
  <1>2. RoundOK(Opened(time, failures, base))
    BY DEF Opened, RoundOK, Open
  <1>3. Opened(time, failures, base).status \in Open
    BY DEF Opened, Open
  <1> QED
    BY <1>1, <1>2, <1>3 DEF Final, Opened

-----------------------------------------------------------------------------
(***************************************************************************)
(* The steps.  A tick commits with Finish, from rounds that are in order.  *)
(***************************************************************************)

LEMMA FinishStep ==
  ASSUME Inv, tick # Idle, NEW rs \in Seq(Round), NEW open \in BOOLEAN, NEW newest \in Nat,
         SessionOK(rs, open, schedule.bundle), Finish(rs, open, newest)
  PROVE  Inv'
  <1>1. PICK start \in BOOLEAN :
          /\ start => ~open
          /\ rounds' = IF start THEN <<Opened(tick.at, 0, 0)>> ELSE rs
          /\ schedule' = [schedule EXCEPT !.active = open \/ start,
                                          !.due = IF tick.due THEN tick.at < now ELSE @]
          /\ last' = IF start THEN tick.at ELSE newest
    BY DEF Finish
  <1>2. tick' = Idle /\ now' = now /\ loose' = loose
    BY DEF Finish
  <1>3. tick.at \in Nat /\ now \in Nat /\ schedule \in Schedule /\ loose \in BOOLEAN
    BY OptimizationAssumption DEF Inv, TypeOK
  <1>4. /\ schedule' \in Schedule /\ schedule'.active = (open \/ start)
        /\ schedule'.bundle = schedule.bundle
    <2> DEFINE due == IF tick.due THEN tick.at < now ELSE schedule.due
               active == open \/ start
    <2>1. due \in BOOLEAN /\ active \in BOOLEAN
      <3>1. schedule.due \in BOOLEAN /\ tick.due \in BOOLEAN
        BY <1>3 DEF Schedule, Inv, TypeOK
      <3>2. (tick.at < now) \in BOOLEAN /\ (open \/ start) \in BOOLEAN
        OBVIOUS
      <3>3. due \in BOOLEAN
        <4>1. CASE tick.due
          BY <3>2, <4>1
        <4>2. CASE ~tick.due
          BY <3>1, <4>2
        <4> QED
          BY <4>1, <4>2
      <3> QED
        BY <3>2, <3>3
    <2>2. schedule' = [schedule EXCEPT !.active = active, !.due = due]
      BY <1>1
    <2> HIDE DEF due, active
    <2>3. schedule' \in Schedule /\ schedule'.active = active
          /\ schedule'.bundle = schedule.bundle
      BY <1>3, <2>1, <2>2 DEF Schedule
    <2> QED
      BY <2>3 DEF active
  <1>5. rounds' \in Seq(Round) /\ SessionOK(rounds', open \/ start, schedule.bundle)
    <2>1. CASE start
      <3> DEFINE q == Opened(tick.at, 0, 0)
      <3>1. q \in Round /\ q.bundle = schedule.bundle /\ q.base = 0 /\ Final(q, TRUE)
        <4>1. TypeOK /\ tick.at \in Nat /\ 0 \in Nat
          BY <1>3 DEF Inv
        <4> QED
          BY ONLY <4>1, OpenedProperties
      <3> HIDE DEF q
      <3>2. rounds' = <<q>> /\ (open \/ start) = TRUE
        BY <1>1, <2>1 DEF q
      <3>3. <<q>> \in Seq(Round) /\ <<q>> # <<>> /\ Len(<<q>>) = 1 /\ <<q>>[1] = q
            /\ DOMAIN <<q>> = 1 .. 1
        BY <3>1
      <3>4. Len(<<q>>) <= MaxRounds
        BY <3>3, OptimizationAssumption
      <3>5. \A n \in DOMAIN <<q>> : n = Len(<<q>>) /\ <<q>>[n] = q
        BY <3>3
      <3>6. Lineage(<<q>>, 1)
        BY <3>1, <3>3 DEF Lineage
      <3>7. SessionOK(<<q>>, TRUE, schedule.bundle)
        BY <3>1, <3>3, <3>4, <3>5, <3>6 DEF SessionOK
      <3> QED
        BY <3>2, <3>3, <3>7
    <2>2. CASE ~start
      <3>1. rounds' = rs /\ (open \/ start) = open
        BY <1>1, <2>2
      <3> QED
        BY <3>1
    <2> QED
      BY <2>1, <2>2
  <1>6. TypeOK'
    BY <1>1, <1>2, <1>3, <1>4, <1>5 DEF Inv, TypeOK, Idle
  <1>7. SessionOK(rounds, schedule.active, schedule.bundle)'
    BY <1>4, <1>5 DEF SessionOK
  <1>8. SeenStands'
    BY <1>2 DEF SeenStands
  <1> QED
    BY <1>6, <1>7, <1>8 DEF Inv

(* The tick closes the session with its last round written as r.           *)
LEMMA CloseStep ==
  ASSUME Inv, InSession, NEW r \in Round, r.bundle = Current.bundle, r.base = Current.base,
         RoundOK(r), r.status \notin Open, ~Live(r), Finish(Left(r), FALSE, last)
  PROVE  Inv'
  <1>1. rounds # <<>> /\ TypeOK /\ SessionOK(rounds, schedule.active, schedule.bundle)
        /\ schedule.active /\ tick # Idle /\ last \in Nat
    BY SeenIsRound DEF Inv, InSession, TypeOK
  <1>2. Final(r, FALSE)
    BY DEF Final
  <1>3. Left(r) \in Seq(Round) /\ SessionOK(Left(r), FALSE, schedule.bundle)
    BY <1>1, <1>2, LastWritten
  <1> QED
    BY <1>1, <1>3, FinishStep

(* It leaves the last round as r and begins another.                       *)
LEMMA FollowStep ==
  ASSUME Inv, InSession, NEW r \in Round, r.bundle = Current.bundle, r.base = Current.base,
         Past(r), Len(rounds) < MaxRounds, NEW failures \in Nat,
         NEW base, base = IF r.selected = None THEN r.base ELSE Len(rounds),
         Follow(Left(r), failures, base)
  PROVE  Inv'
  <1>1. rounds # <<>> /\ TypeOK /\ SessionOK(rounds, schedule.active, schedule.bundle)
        /\ schedule.active /\ tick # Idle /\ last \in Nat /\ tick.at \in Nat
    BY SeenIsRound DEF Inv, InSession, TypeOK
  <1>a. base \in Nat
    BY <1>1, CurrentIsRound DEF Round
  <1> DEFINE q == Opened(tick.at, failures, base)
             newest == Later(last, tick.at)
  <1>2. q \in Round /\ q.bundle = schedule.bundle /\ q.base = base /\ Final(q, TRUE)
    <2>1. TypeOK /\ tick.at \in Nat /\ failures \in Nat /\ base \in Nat
      BY <1>1, <1>a
    <2> QED
      BY ONLY <2>1, OpenedProperties
  <1>3. newest \in Nat
    BY <1>1 DEF Later
  <1>4. Finish(Append(Left(r), q), TRUE, newest)
    BY DEF Follow
  <1> HIDE DEF q, newest
  <1>5. /\ Append(Left(r), q) \in Seq(Round)
        /\ SessionOK(Append(Left(r), q), TRUE, schedule.bundle)
    BY <1>1, <1>2, NextAppended
  <1> QED
    BY <1>1, <1>3, <1>4, <1>5, FinishStep

(* A round whose runs had all ended when it was read has none live.        *)
LEMMA EndedStaysEnded ==
  ASSUME NEW seen \in Round, NEW r \in Round, Stands(seen, r), ~Live(seen)
  PROVE  ~Live(r) /\ r.generation = seen.generation /\ r.evals = seen.evals
  <1>1. r.generation = seen.generation /\ r.generation # "live"
    BY DEF Stands, Live
  <1>2. \A c \in Candidates : r.evals[c] = seen.evals[c] /\ r.evals[c] # "live"
    BY DEF Stands, Live
  <1>3. r.evals = seen.evals
    BY <1>2 DEF Round
  <1> QED
    BY <1>1, <1>2, <1>3 DEF Live

LEMMA OpenRound ==
  ASSUME Inv, schedule.active
  PROVE  /\ rounds # <<>> /\ Current \in Round
         /\ Final(Current, TRUE) /\ Current.bundle = schedule.bundle
  <1>1. rounds # <<>>
    BY DEF Inv, SessionOK
  <1>2. Current \in Round /\ Len(rounds) \in DOMAIN rounds
    BY <1>1, CurrentIsRound DEF Inv
  <1> QED
    BY <1>1, <1>2 DEF Inv, SessionOK, Final, Current

LEMMA WaitStep == ASSUME Inv, Wait PROVE Inv'
  <1>1. /\ tick # Idle /\ Finish(rounds, schedule.active, last)
        /\ rounds \in Seq(Round) /\ last \in Nat
        /\ SessionOK(rounds, schedule.active, schedule.bundle)
    BY DEF Wait, Inv, TypeOK
  <1>2. schedule.active \in BOOLEAN
    BY DEF Inv, TypeOK, Schedule
  <1> QED
    BY <1>1, <1>2, FinishStep

LEMMA HardStopStep == ASSUME Inv, HardStop PROVE Inv'
  <1> DEFINE g == IF Seen.generation = "live" THEN "blocked" ELSE Current.generation
             e == [c \in Candidates |->
                     IF Seen.evals[c] = "live" THEN "blocked" ELSE Current.evals[c]]
             r == [Current EXCEPT !.status = "blocked", !.stop = "time",
                                  !.generation = g, !.evals = e]
  <1>1. InSession /\ Finish(Left(r), FALSE, last)
    BY DEF HardStop
  <1>2. Seen \in Round /\ Stands(Seen, Current) /\ Current \in Round
    BY <1>1, SeenIsRound
  <1>3. g \in Generations /\ g # "live"
    BY <1>2 DEF Stands, Round, Generations
  <1>4. e \in [Candidates -> Evals] /\ \A c \in Candidates : e[c] # "live"
    BY <1>2 DEF Stands, Round, Evals
  <1> HIDE DEF g, e
  <1>5. /\ r \in Round /\ r.status = "blocked" /\ r.stop = "time" /\ r.generation = g
        /\ r.evals = e /\ r.bundle = Current.bundle /\ r.base = Current.base
    BY <1>2, <1>3, <1>4 DEF Round, RoundStatuses, Stops
  <1> HIDE DEF r
  <1>6. ~Live(r)
    BY <1>3, <1>4, <1>5 DEF Live
  <1>7. RoundOK(r) /\ r.status \notin Open
    BY <1>5 DEF RoundOK, Open
  <1> QED
    BY <1>1, <1>5, <1>6, <1>7, CloseStep

(* A session whose candidates are not live and whose generation has ended  *)
(* can be closed without touching a run.                                   *)
LEMMA GenerationOver ==
  ASSUME Inv, InSession, Seen.status = "generating-candidates", Seen.generation # "live"
  PROVE  /\ Current \in Round /\ Seen \in Round /\ Current.generation = Seen.generation
         /\ Current.stop = "none" /\ Current.selected = None /\ ~Live(Current) /\ rounds # <<>> /\ schedule.active
  <1>1. /\ Seen \in Round /\ Stands(Seen, Current) /\ Current \in Round
        /\ Final(Current, TRUE) /\ rounds # <<>> /\ schedule.active
    BY SeenIsRound, OpenRound DEF InSession
  <1>2. Current.status = "generating-candidates" /\ Current.generation = Seen.generation
    BY <1>1 DEF Stands
  <1>3. /\ Current.stop = "none" /\ Current.selected = None
        /\ \A c \in Candidates : Current.evals[c] = "none"
    BY <1>1, <1>2 DEF Final, RoundOK, Open
  <1> QED
    BY <1>1, <1>2, <1>3 DEF Live

LEMMA RefuseCandidatesStep == ASSUME Inv, RefuseCandidates PROVE Inv'
  <1>1. PICK stop \in {"candidates", "resource"} : Finish(Closed("blocked", stop), FALSE, last)
    BY DEF RefuseCandidates
  <1>2. InSession /\ Seen.status = "generating-candidates" /\ Seen.generation # "live"
    BY DEF RefuseCandidates
  <1>3. Current \in Round /\ ~Live(Current)
    BY <1>2, GenerationOver
  <1> DEFINE r == [Current EXCEPT !.status = "blocked", !.stop = stop]
  <1>4. Finish(Left(r), FALSE, last)
    BY <1>1 DEF Closed
  <1>5. /\ r \in Round /\ r.status = "blocked" /\ r.stop = stop
        /\ r.bundle = Current.bundle /\ r.base = Current.base
        /\ r.generation = Current.generation /\ r.evals = Current.evals
    BY <1>3 DEF Round, RoundStatuses, Stops
  <1> HIDE DEF r
  <1>6. ~Live(r) /\ RoundOK(r) /\ r.status \notin Open
    BY <1>3, <1>5 DEF Live, RoundOK, Open
  <1> QED
    BY <1>2, <1>4, <1>5, <1>6, CloseStep

LEMMA CreateEvalsStep == ASSUME Inv, CreateEvals PROVE Inv'
  <1>1. InSession /\ Seen.status = "generating-candidates" /\ Seen.generation = "success"
    BY DEF CreateEvals
  <1>2. /\ Current \in Round /\ Current.generation = "success" /\ Current.stop = "none"
        /\ Current.selected = None /\ rounds # <<>> /\ schedule.active
    BY <1>1, GenerationOver
  <1> DEFINE e == [c \in Candidates |-> "live"]
             r == [Current EXCEPT !.status = "evaluating", !.evals = e]
  <1>3. Finish(Left(r), TRUE, last)
    BY DEF CreateEvals
  <1>4. e \in [Candidates -> Evals]
    BY DEF Evals
  <1> HIDE DEF e
  <1>5. /\ r \in Round /\ r.status = "evaluating" /\ r.stop = "none" /\ r.selected = None
        /\ r.generation = "success" /\ r.bundle = Current.bundle /\ r.base = Current.base
    BY <1>2, <1>4 DEF Round, RoundStatuses
  <1> HIDE DEF r
  <1>6. Final(r, TRUE)
    BY <1>5 DEF Final, RoundOK, Open
  <1>7. /\ TypeOK /\ SessionOK(rounds, schedule.active, schedule.bundle)
        /\ last \in Nat /\ tick # Idle
    BY <1>1 DEF Inv, TypeOK, InSession
  <1>8. Left(r) \in Seq(Round) /\ SessionOK(Left(r), TRUE, schedule.bundle)
    BY <1>2, <1>5, <1>6, <1>7, LastWritten
  <1> QED
    BY <1>3, <1>7, <1>8, FinishStep

LEMMA GenerationLostStep ==
  ASSUME Inv, NEW costKept \in BOOLEAN, GenerationLost(costKept)
  PROVE  Inv'
  <1>1. /\ InSession /\ Seen.status = "generating-candidates"
        /\ Seen.generation \in {"failed", "blocked"}
    BY DEF GenerationLost
  <1>2. /\ Current \in Round /\ Seen \in Round /\ Current.stop = "none" /\ ~Live(Current)
        /\ Current.selected = None
    BY <1>1, GenerationOver
  <1> DEFINE failures == Seen.failures + 1
             lost == [Current EXCEPT !.failures = failures]
  <1>3. failures \in Nat
    BY <1>2 DEF Round
  <1>4. \/ /\ Len(rounds) < MaxRounds
           /\ Follow(Left([lost EXCEPT !.status = "failed"]), failures, Current.base)
        \/ Finish(Left([lost EXCEPT !.status = "blocked", !.stop = "generation"]), FALSE, last)
    BY DEF GenerationLost
  <1> HIDE DEF failures
  <1>5. CASE Len(rounds) < MaxRounds
             /\ Follow(Left([lost EXCEPT !.status = "failed"]), failures, Current.base)
    <2> DEFINE r == [lost EXCEPT !.status = "failed"]
    <2>1. /\ r \in Round /\ r.status = "failed" /\ r.stop = "none" /\ r.selected = None
          /\ r.bundle = Current.bundle /\ r.base = Current.base
          /\ r.generation = Current.generation /\ r.evals = Current.evals
      BY <1>2, <1>3 DEF Round, RoundStatuses
    <2>2. Len(rounds) < MaxRounds /\ Follow(Left(r), failures, r.base)
      BY <1>5, <2>1
    <2> HIDE DEF r
    <2>3. Past(r)
      BY <1>2, <2>1 DEF Past, RoundOK, Live, Open
    <2> QED
      BY <1>1, <1>3, <2>1, <2>2, <2>3, FollowStep
  <1>6. CASE Finish(Left([lost EXCEPT !.status = "blocked", !.stop = "generation"]), FALSE, last)
    <2> DEFINE r == [lost EXCEPT !.status = "blocked", !.stop = "generation"]
    <2>1. /\ r \in Round /\ r.status = "blocked" /\ r.stop = "generation"
          /\ r.bundle = Current.bundle /\ r.base = Current.base
          /\ r.generation = Current.generation /\ r.evals = Current.evals
      BY <1>2, <1>3 DEF Round, RoundStatuses, Stops
    <2>2. Finish(Left(r), FALSE, last)
      BY <1>6
    <2> HIDE DEF r
    <2>3. RoundOK(r) /\ ~Live(r) /\ r.status \notin Open
      BY <1>2, <2>1 DEF RoundOK, Live, Open
    <2> QED
      BY <1>1, <2>1, <2>2, <2>3, CloseStep
  <1> QED
    BY <1>4, <1>5, <1>6

LEMMA JudgeRoundStep ==
  ASSUME Inv, NEW best \in Candidates \cup {None}, NEW costKept \in BOOLEAN,
         JudgeRound(best, costKept)
  PROVE  Inv'
  <1>1. InSession /\ Seen.status = "evaluating" /\ ~Live(Seen)
    BY DEF JudgeRound
  <1>2. /\ Seen \in Round /\ Stands(Seen, Current) /\ Current \in Round /\ rounds # <<>>
        /\ Final(Current, TRUE)
    BY <1>1, SeenIsRound, OpenRound DEF InSession
  <1>3. ~Live(Current) /\ Current.evals = Seen.evals
    BY <1>1, <1>2, EndedStaysEnded
  <1>4. Current.stop = "none"
    BY <1>1, <1>2 DEF Final, RoundOK, Stands, Open
  <1>5. Passed(Seen) # {} => Current.evals[best] = "passed"
    BY <1>3 DEF JudgeRound, Best, Passed
  <1>6. Len(rounds) \in Nat /\ MaxRounds \in Nat
    BY <1>2, CurrentIsRound, OptimizationAssumption DEF Inv
  <1> DEFINE failures == Seen.failures + (IF best = None THEN 1 ELSE 0)
             judged == [Current EXCEPT !.selected = best, !.failures = failures]
             stop == IF costKept THEN "quality" ELSE "resource"
             report == IF best = None THEN "none" ELSE Seen.evals[best]
             base == IF best = None THEN Current.base ELSE Len(rounds)
  <1>7. failures \in Nat
    BY <1>2 DEF Round
  <1>8. \/ /\ Passed(Seen) # {}
           /\ Finish(Left([judged EXCEPT !.status = "awaiting-review"]), FALSE, last)
        \/ /\ stop = "quality" => Passed(Seen) = {}
           /\ Finish(Left([judged EXCEPT !.status = "blocked", !.stop = stop]), FALSE, last)
        \/ /\ ~(Len(rounds) >= MaxRounds) /\ Passed(Seen) = {} /\ report \notin {"harmful", "weak"}
           /\ Follow(Left([judged EXCEPT !.status = "completed"]), failures, base)
    BY DEF JudgeRound
  <1>9. stop \in {"quality", "resource"}
    OBVIOUS
  <1>d. best # None => best \in Reported(Seen)
    BY DEF JudgeRound, Best, BestByGain, Gainful, Passed, Reported, Reports
  <1> HIDE DEF failures, stop
  <1>a. CASE /\ Passed(Seen) # {}
             /\ Finish(Left([judged EXCEPT !.status = "awaiting-review"]), FALSE, last)
    <2> DEFINE r == [judged EXCEPT !.status = "awaiting-review"]
    <2>1. /\ r \in Round /\ r.status = "awaiting-review" /\ r.stop = "none"
          /\ r.bundle = Current.bundle /\ r.base = Current.base /\ r.selected = best
          /\ r.generation = Current.generation /\ r.evals = Current.evals
      BY <1>2, <1>4, <1>7 DEF Round, RoundStatuses
    <2>2. Finish(Left(r), FALSE, last)
      BY <1>a
    <2> HIDE DEF r
    <2>3. RoundOK(r) /\ ~Live(r) /\ r.status \notin Open
      BY <1>3, <1>5, <1>a, <2>1 DEF RoundOK, Live, Open
    <2> QED
      BY <1>1, <2>1, <2>2, <2>3, CloseStep
  <1>b. CASE /\ stop = "quality" => Passed(Seen) = {}
             /\ Finish(Left([judged EXCEPT !.status = "blocked", !.stop = stop]), FALSE, last)
    <2> DEFINE r == [judged EXCEPT !.status = "blocked", !.stop = stop]
    <2>1. /\ r \in Round /\ r.status = "blocked" /\ r.stop = stop
          /\ r.bundle = Current.bundle /\ r.base = Current.base
          /\ r.generation = Current.generation /\ r.evals = Current.evals
      BY <1>2, <1>7, <1>9 DEF Round, RoundStatuses, Stops
    <2>2. Finish(Left(r), FALSE, last)
      BY <1>b
    <2> HIDE DEF r
    <2>3. Passed(r) = Passed(Seen)
      BY <1>3, <2>1 DEF Passed
    <2>4. RoundOK(r) /\ ~Live(r) /\ r.status \notin Open
      BY <1>3, <1>b, <2>1, <2>3 DEF RoundOK, Live, Open
    <2> QED
      BY <1>1, <2>1, <2>2, <2>4, CloseStep
  <1>c. CASE /\ ~(Len(rounds) >= MaxRounds) /\ Passed(Seen) = {}
             /\ report \notin {"harmful", "weak"}
             /\ Follow(Left([judged EXCEPT !.status = "completed"]), failures, base)
    <2> DEFINE r == [judged EXCEPT !.status = "completed"]
    <2>1. /\ r \in Round /\ r.status = "completed" /\ r.stop = "none" /\ r.selected = best
          /\ r.bundle = Current.bundle /\ r.base = Current.base
          /\ r.generation = Current.generation /\ r.evals = Current.evals
      BY <1>2, <1>4, <1>7 DEF Round, RoundStatuses
    <2>2. Len(rounds) < MaxRounds /\ Follow(Left(r), failures, base)
      BY <1>6, <1>c
    <2>3. base = IF r.selected = None THEN r.base ELSE Len(rounds)
      BY <2>1
    <2>4. best # None => Current.evals[best] = "promising"
      BY <1>3, <1>c, <1>d DEF Reported, Reports, Passed
    <2> HIDE DEF r, base
    <2>5. Past(r)
      BY <1>3, <2>1, <2>4 DEF Past, RoundOK, Live, Open
    <2> QED
      BY <1>1, <1>7, <2>1, <2>2, <2>3, <2>5, FollowStep
  <1> QED
    BY <1>8, <1>a, <1>b, <1>c

(* An answer of the engine is written into the open round whose run it is. *)
LEMMA AnswerStep ==
  ASSUME Inv, NEW r \in Round, rounds # <<>>, Live(Current),
         rounds' = Left(r), UNCHANGED <<now, schedule, tick, loose, last>>,
         Final(r, TRUE), r.bundle = Current.bundle, r.base = Current.base,
         \A seen \in Round : Stands(seen, Current) => Stands(seen, r)
  PROVE  Inv'
  <1>1. Len(rounds) \in DOMAIN rounds
    BY CurrentIsRound DEF Inv
  <1>2. schedule.active
    BY <1>1 DEF Inv, SessionOK, Final, Current
  <1>3. Left(r) \in Seq(Round) /\ SessionOK(Left(r), TRUE, schedule.bundle)
    BY <1>2, LastWritten DEF Inv
  <1>4. Len(Left(r)) = Len(rounds) /\ Left(r)[Len(rounds)] = r
    BY LeftProperties DEF Inv
  <1>5. TypeOK'
    BY <1>3 DEF Inv, TypeOK
  <1>6. SessionOK(rounds, schedule.active, schedule.bundle)'
    <2>1. schedule.active = TRUE
      BY <1>2 DEF Inv, TypeOK, Schedule
    <2> QED
      BY <1>3, <2>1 DEF SessionOK
  <1>7. SeenStands'
    <2>1. Current' = r
      BY <1>4 DEF Current
    <2>2. ASSUME tick # Idle PROVE tick.seen # <<>> /\ Stands(Seen, r)
      BY <1>2, <2>2, SeenIsRound DEF InSession, Inv, SeenStands
    <2>3. Seen' = Seen
      BY DEF Seen
    <2> QED
      BY <2>1, <2>2, <2>3 DEF SeenStands, Stands
  <1> QED
    BY <1>5, <1>6, <1>7 DEF Inv

LEMMA GeneratedStep ==
  ASSUME Inv, NEW outcome \in {"success", "miscounted", "failed"}, Generated(outcome)
  PROVE  Inv'
  <1>1. /\ rounds # <<>> /\ Current.generation = "live"
        /\ rounds' = Left([Current EXCEPT !.generation = outcome])
        /\ UNCHANGED <<now, schedule, tick, loose, last>>
    BY DEF Generated
  <1>2. Live(Current) /\ Current \in Round /\ Len(rounds) \in DOMAIN rounds
    BY <1>1, CurrentIsRound DEF Inv, Live
  <1>3. schedule.active
    BY <1>1, <1>2 DEF Inv, SessionOK, Final, Current
  <1>4. Final(Current, TRUE)
    BY <1>3, OpenRound
  <1> DEFINE r == [Current EXCEPT !.generation = outcome]
  <1>5. /\ r \in Round /\ r.generation = outcome /\ r.status = Current.status
        /\ r.evals = Current.evals /\ r.stop = Current.stop /\ r.bundle = Current.bundle
        /\ r.failures = Current.failures /\ r.selected = Current.selected
        /\ r.base = Current.base
    BY <1>2 DEF Round, Generations
  <1>6. rounds' = Left(r)
    BY <1>1
  <1> HIDE DEF r
  <1>7. Final(r, TRUE)
    BY <1>1, <1>4, <1>5 DEF Final, RoundOK, Open, Passed
  <1>8. \A seen \in Round : Stands(seen, Current) => Stands(seen, r)
    BY <1>1, <1>5 DEF Stands
  <1> QED
    BY <1>1, <1>2, <1>5, <1>6, <1>7, <1>8, AnswerStep

LEMMA EvaluatedStep ==
  ASSUME Inv, NEW c \in Candidates, NEW report \in Reports \cup {"failed"},
         Evaluated(c, report)
  PROVE  Inv'
  <1>1. /\ rounds # <<>> /\ Current.evals[c] = "live"
        /\ rounds' = Left([Current EXCEPT !.evals[c] = report])
        /\ UNCHANGED <<now, schedule, tick, loose, last>>
    BY DEF Evaluated
  <1>2. Live(Current) /\ Current \in Round /\ Len(rounds) \in DOMAIN rounds
    BY <1>1, CurrentIsRound DEF Inv, Live
  <1>3. schedule.active
    BY <1>1, <1>2 DEF Inv, SessionOK, Final, Current
  <1>4. Final(Current, TRUE)
    BY <1>3, OpenRound
  <1> DEFINE e == [Current.evals EXCEPT ![c] = report]
             r == [Current EXCEPT !.evals = e]
  <1>5. /\ e \in [Candidates -> Evals] /\ e[c] = report
        /\ \A d \in Candidates \ {c} : e[d] = Current.evals[d]
    BY <1>2 DEF Round, Evals
  <1>6. rounds' = Left(r)
    BY <1>1
  <1> HIDE DEF e
  <1>7. /\ r \in Round /\ r.generation = Current.generation /\ r.status = Current.status
        /\ r.evals = e /\ r.stop = Current.stop /\ r.bundle = Current.bundle
        /\ r.failures = Current.failures /\ r.selected = Current.selected
        /\ r.base = Current.base
    BY <1>2, <1>5 DEF Round
  <1> HIDE DEF r
  <1>8. Current.status = "evaluating"
    BY <1>1, <1>4 DEF Final, RoundOK, Open
  <1>9. Final(r, TRUE)
    BY <1>4, <1>7, <1>8 DEF Final, RoundOK, Open
  <1>10. ASSUME NEW seen \in Round, Stands(seen, Current) PROVE Stands(seen, r)
    <2>1. \A d \in Candidates : seen.evals[d] # "live" => e[d] = seen.evals[d]
      BY <1>1, <1>5, <1>10 DEF Stands
    <2> QED
      BY <1>7, <1>10, <2>1 DEF Stands
  <1> QED
    BY <1>1, <1>2, <1>6, <1>7, <1>9, <1>10, AnswerStep

(* A step that leaves the rounds, the pointer and the tick alone.          *)
LEMMA RoundsKept ==
  ASSUME Inv, UNCHANGED <<rounds, tick>>, TypeOK',
         schedule'.active = schedule.active, schedule'.bundle = schedule.bundle
  PROVE  Inv'
  <1>1. SessionOK(rounds, schedule.active, schedule.bundle)'
    BY DEF Inv, SessionOK
  <1>2. SeenStands'
    BY DEF Inv, SeenStands, Stands, Seen, Current
  <1> QED
    BY <1>1, <1>2 DEF Inv

LEMMA UpdateStep ==
  ASSUME Inv, NEW b \in Bundles, NEW status \in {"active", "paused"}, Update(b, status)
  PROVE  Inv'
  <1>1. /\ tick = Idle /\ (schedule.active => b = schedule.bundle)
        /\ UNCHANGED <<now, rounds, tick, loose, last>>
    BY DEF Update
  <1>2. PICK immediately \in BOOLEAN :
          schedule' = [schedule EXCEPT !.bundle = b, !.status = status,
                                       !.due = @ \/ immediately \/ b # schedule.bundle]
    BY DEF Update
  <1> DEFINE due == schedule.due \/ immediately \/ b # schedule.bundle
  <1>3. due \in BOOLEAN /\ schedule \in Schedule
    BY DEF Inv, TypeOK
  <1>4. schedule' = [schedule EXCEPT !.bundle = b, !.status = status, !.due = due]
    BY <1>2
  <1> HIDE DEF due
  <1>5. /\ schedule' \in Schedule /\ schedule'.active = schedule.active
        /\ schedule'.bundle = b
    BY <1>3, <1>4 DEF Schedule
  <1>6. TypeOK'
    BY <1>1, <1>5 DEF Inv, TypeOK
  <1>7. SessionOK(rounds, schedule.active, schedule.bundle)'
    BY <1>1, <1>5 DEF Inv, SessionOK
  <1>8. SeenStands'
    BY <1>1 DEF SeenStands
  <1> QED
    BY <1>6, <1>7, <1>8 DEF Inv

LEMMA BeginStep == ASSUME Inv, Begin PROVE Inv'
  <1> DEFINE seen == IF schedule.active THEN <<Current>> ELSE <<>>
  <1>1. /\ tick' = [at |-> now, due |-> schedule.due, seen |-> seen]
        /\ UNCHANGED <<now, schedule, rounds, loose, last>>
    BY DEF Begin
  <1>2. now \in Nat /\ schedule.due \in BOOLEAN
    BY OptimizationAssumption DEF Inv, TypeOK, Schedule
  <1>3. schedule.active => seen = <<Current>> /\ Current \in Round
    BY OpenRound
  <1>4. seen \in Seq(Round)
    <2>1. CASE schedule.active
      BY <1>3, <2>1
    <2>2. CASE ~schedule.active
      BY <2>2
    <2> QED
      BY <2>1, <2>2
  <1> HIDE DEF seen
  <1>5. tick'.at = now /\ tick'.due = schedule.due /\ tick'.seen = seen
    BY <1>1
  <1>6. TypeOK'
    <2>1. now \in 0 .. now
      BY <1>2
    <2> QED
      BY <1>1, <1>2, <1>4, <1>5, <2>1 DEF Inv, TypeOK
  <1>7. SessionOK(rounds, schedule.active, schedule.bundle)'
    BY <1>1 DEF Inv, SessionOK
  <1>8. SeenStands'
    <2>1. ASSUME schedule.active
          PROVE  tick'.seen # <<>> /\ Stands(Seen, Current)'
      <3>1. tick'.seen = <<Current>> /\ Current' = Current
        BY <1>1, <1>3, <1>5, <2>1 DEF Current
      <3>2. tick'.seen # <<>> /\ tick'.seen[1] = Current
        BY <3>1
      <3> QED
        BY <3>1, <3>2 DEF Stands, Seen
    <2> QED
      BY <1>1, <2>1 DEF SeenStands
  <1> QED
    BY <1>6, <1>7, <1>8 DEF Inv

LEMMA AbortStep == ASSUME Inv, Abort PROVE Inv'
  <1>1. tick' = Idle /\ UNCHANGED <<now, schedule, rounds, loose, last>>
    BY DEF Abort
  <1>2. 0 \in 0 .. now
    BY OptimizationAssumption DEF Inv, TypeOK
  <1>3. TypeOK'
    BY <1>1, <1>2 DEF Inv, TypeOK, Idle
  <1>4. SessionOK(rounds, schedule.active, schedule.bundle)'
    BY <1>1 DEF Inv, SessionOK
  <1>5. SeenStands'
    BY <1>1 DEF SeenStands
  <1> QED
    BY <1>3, <1>4, <1>5 DEF Inv

LEMMA LooseStep ==
  ASSUME Inv, Scan \/ Retry \/ LooseOver
  PROVE  Inv'
  <1>1. /\ UNCHANGED <<now, schedule, rounds, tick>>
        /\ loose' \in BOOLEAN /\ last' \in {last, now}
    BY DEF Scan, Retry, LooseOver
  <1>2. now \in Nat /\ last \in Nat
    BY OptimizationAssumption DEF Inv, TypeOK
  <1>3. TypeOK'
    BY <1>1, <1>2 DEF Inv, TypeOK
  <1> QED
    BY <1>1, <1>3, RoundsKept

LEMMA PassStep == ASSUME Inv, Pass PROVE Inv'
  <1>1. /\ now < Horizon /\ now' = now + 1 /\ schedule' = [schedule EXCEPT !.due = TRUE]
        /\ UNCHANGED <<rounds, tick, loose, last>>
    BY DEF Pass
  <1>2. schedule \in Schedule
    BY DEF Inv, TypeOK
  <1>3. /\ schedule' \in Schedule /\ schedule'.active = schedule.active
        /\ schedule'.bundle = schedule.bundle
    BY <1>1, <1>2 DEF Schedule
  <1>4. now' \in Cooldown .. Horizon /\ tick.at \in 0 .. now'
    BY <1>1, OptimizationAssumption DEF Inv, TypeOK
  <1>5. TypeOK'
    BY <1>1, <1>3, <1>4 DEF Inv, TypeOK
  <1> QED
    BY <1>1, <1>3, <1>5, RoundsKept

-----------------------------------------------------------------------------
(***************************************************************************)
(* The inductive invariant.                                                *)
(***************************************************************************)

LEMMA InitInv == ASSUME Init PROVE Inv
  <1>1. <<>> \in Seq(Round) /\ Len(<<>>) = 0 /\ DOMAIN <<>> = {}
    BY EmptySeq
  <1>2. /\ tick.at = 0 /\ tick.due = FALSE /\ tick.seen = <<>>
        /\ now = Cooldown /\ rounds = <<>> /\ loose = FALSE /\ last = 0
        /\ schedule.active = FALSE /\ schedule \in Schedule
    BY OptimizationAssumption DEF Init, Idle, Schedule
  <1>3. now \in Cooldown .. Horizon /\ 0 \in 0 .. now
    BY <1>2, OptimizationAssumption
  <1>4. TypeOK
    BY <1>1, <1>2, <1>3 DEF TypeOK
  <1>5. SessionOK(rounds, schedule.active, schedule.bundle)
    BY <1>1, <1>2, OptimizationAssumption DEF SessionOK
  <1> QED
    BY <1>2, <1>4, <1>5 DEF Inv, SeenStands

LEMMA NextInv == ASSUME Inv, [Next]_vars PROVE Inv'
  <1>1. CASE Begin
    BY <1>1, BeginStep
  <1>2. CASE Abort
    BY <1>2, AbortStep
  <1>3. CASE Commit
    <2>1. CASE Wait
      BY <2>1, WaitStep
    <2>2. CASE HardStop
      BY <2>2, HardStopStep
    <2>3. CASE RefuseCandidates
      BY <2>3, RefuseCandidatesStep
    <2>4. CASE CreateEvals
      BY <2>4, CreateEvalsStep
    <2>5. CASE \E costKept \in BOOLEAN : GenerationLost(costKept)
      BY <2>5, GenerationLostStep
    <2>6. CASE \E best \in Candidates \cup {None}, costKept \in BOOLEAN :
                 JudgeRound(best, costKept)
      BY <2>6, JudgeRoundStep
    <2> QED
      BY <1>3, <2>1, <2>2, <2>3, <2>4, <2>5, <2>6 DEF Commit
  <1>4. CASE Users
    <2>1. CASE \E b \in Bundles, status \in {"active", "paused"} : Update(b, status)
      BY <2>1, UpdateStep
    <2>2. CASE Scan \/ Retry
      BY <2>2, LooseStep
    <2> QED
      BY <1>4, <2>1, <2>2 DEF Users
  <1>5. CASE Engine
    <2>1. CASE \E outcome \in {"success", "miscounted", "failed"} : Generated(outcome)
      BY <2>1, GeneratedStep
    <2>2. CASE \E c \in Candidates, report \in Reports \cup {"failed"} : Evaluated(c, report)
      BY <2>2, EvaluatedStep
    <2>3. CASE LooseOver
      BY <2>3, LooseStep
    <2> QED
      BY <1>5, <2>1, <2>2, <2>3 DEF Engine
  <1>6. CASE Pass
    BY <1>6, PassStep
  <1>7. CASE UNCHANGED vars
    <2>1. UNCHANGED <<now, schedule, rounds, tick, loose, last>>
      BY <1>7 DEF vars
    <2>2. TypeOK'
      BY <2>1 DEF Inv, TypeOK
    <2> QED
      BY <2>1, <2>2, RoundsKept
  <1> QED
    BY <1>1, <1>2, <1>3, <1>4, <1>5, <1>6, <1>7 DEF Next

LEMMA SpecInv == Spec => []Inv
  <1>1. Init => Inv
    BY InitInv
  <1>2. Inv /\ [Next]_vars => Inv'
    BY NextInv
  <1> QED
    BY <1>1, <1>2, PTL DEF Spec

-----------------------------------------------------------------------------
(* The clock, the schedule, its rounds and what a tick read are of their   *)
(* types in every state: the columns of label_optimization_schedules and   *)
(* label_optimization_rounds.                                              *)
THEOREM TypeCorrect == Spec => []TypeOK
  <1>1. Inv => TypeOK
    BY DEF Inv
  <1> QED
    BY <1>1, SpecInv, PTL

(* The schedule points at a session exactly while the session's last round *)
(* is open, whatever reconciliation wrote it, and no session has more      *)
(* rounds than max_rounds.                                                 *)
THEOREM PointerFollowsSession == Spec => []SessionIsItsLastRound
  <1>1. Inv => SessionIsItsLastRound
    <2> SUFFICES ASSUME Inv PROVE SessionIsItsLastRound
      OBVIOUS
    <2>1. rounds # <<>> => Len(rounds) \in DOMAIN rounds
      BY CurrentIsRound DEF Inv
    <2>2. ASSUME NEW n \in DOMAIN rounds
          PROVE  rounds # <<>>
      BY <2>2
    <2>3. \A n \in DOMAIN rounds :
            /\ n # Len(rounds) => rounds[n].status \in {"completed", "failed"}
            /\ n = Len(rounds) => (schedule.active <=> rounds[n].status \in Open)
      BY <2>2 DEF Inv, SessionOK, Past, Final
    <2>4. OpenRounds = IF schedule.active THEN {Len(rounds)} ELSE {}
      <3>1. CASE schedule.active
        <4>1. rounds # <<>>
          BY <3>1 DEF Inv, SessionOK
        <4> QED
          BY <2>1, <2>3, <3>1, <4>1 DEF OpenRounds, Open
      <3>2. CASE ~schedule.active
        BY <2>3, <3>2 DEF OpenRounds, Open
      <3> QED
        BY <3>1, <3>2
    <2>5. \A n \in DOMAIN rounds : n < Len(rounds) => n # Len(rounds)
      <3>1. rounds \in Seq(Round)
        BY DEF Inv, TypeOK
      <3>2. Len(rounds) \in Nat /\ DOMAIN rounds = 1 .. Len(rounds)
        BY <3>1, LenProperties
      <3> QED
        BY <3>2
    <2>6. Len(rounds) <= MaxRounds
      BY DEF Inv, SessionOK
    <2> QED
      BY <2>3, <2>4, <2>5, <2>6 DEF SessionIsItsLastRound
  <1> QED
    BY <1>1, SpecInv, PTL

(* A session that has ended, by its limit, its budget or its verdict,      *)
(* leaves no run to the engine: a hard stop blocks every run it read as    *)
(* live, the other closings follow the end of all of them.                 *)
THEOREM NoRunOutlivesItsSession == Spec => []NothingOutlives
  <1>1. Inv => NothingOutlives
    <2> SUFFICES ASSUME Inv, NEW n \in DOMAIN rounds, Live(rounds[n])
                 PROVE  schedule.active /\ n = Len(rounds)
      BY DEF NothingOutlives
    <2>1. n = Len(rounds)
      BY DEF Inv, SessionOK, Past
    <2>2. rounds # <<>>
      OBVIOUS
    <2>3. schedule.active
      BY <2>1, <2>2 DEF Inv, SessionOK, Final
    <2> QED
      BY <2>1, <2>3
  <1> QED
    BY <1>1, SpecInv, PTL

(* Only a candidate that passed every gate is put to the reviewers, and a  *)
(* session stops for want of quality only if none did, for any number of   *)
(* candidates and whatever the engine reported while the tick decided.     *)
THEOREM ReviewersSeeWhatPassed == Spec => []ReviewIsEarned
  <1>1. Inv => ReviewIsEarned
    <2> SUFFICES ASSUME Inv, NEW n \in DOMAIN rounds PROVE RoundOK(rounds[n])
      BY DEF ReviewIsEarned, RoundOK
    <2>1. rounds # <<>>
      OBVIOUS
    <2>2. CASE n = Len(rounds)
      BY <2>1, <2>2 DEF Inv, SessionOK, Final
    <2>3. CASE n # Len(rounds)
      BY <2>3 DEF Inv, SessionOK, Past
    <2> QED
      BY <2>2, <2>3
  <1> QED
    BY <1>1, SpecInv, PTL

(* Every round of a session starts from the newest prompt that a round     *)
(* before it selected, by whatever losses the two are parted, and never    *)
(* from a harmful or a weak candidate; an open session stays on the        *)
(* versions its schedule holds: an update may not change them under it.    *)
(* For any number of rounds and candidates.                                *)
THEOREM SessionIsOneLine == Spec => []OneLineage
  <1>1. Inv => OneLineage
    BY DEF Inv, SessionOK, Lineage, OneLineage
  <1> QED
    BY <1>1, SpecInv, PTL
=============================================================================

---------------------------- MODULE ActiveBundle ----------------------------
(***************************************************************************)
(* What the release service promises of one environment, whatever commands *)
(* it runs to get there: at any time at most one deployment serves, a      *)
(* deployment enters service for the first time only while nothing is      *)
(* known against it, and whatever serves later by way of a rollback has    *)
(* served before.                                                          *)
(***************************************************************************)
CONSTANTS Deployments, None

VARIABLES
  current,   \* the deployment that serves, None before the first
  served,    \* every deployment that has ever served
  unfit      \* deployments with a hard regression on record

vars == <<current, served, unfit>>

Init == current = None /\ served = {} /\ unfit = {}

(* A deployment takes over for the first time. *)
Activate(d) ==
  /\ d \notin served \cup unfit
  /\ current' = d
  /\ served' = served \cup {d}
  /\ UNCHANGED unfit

(* Service goes back to a deployment that had it before. *)
Restore(d) ==
  /\ d \in served
  /\ current' = d
  /\ UNCHANGED <<served, unfit>>

(* A regression is observed before the deployment ever served. *)
Condemn(d) ==
  /\ d \notin served
  /\ unfit' = unfit \cup {d}
  /\ UNCHANGED <<current, served>>

Next == \E d \in Deployments : Activate(d) \/ Restore(d) \/ Condemn(d)
Spec == Init /\ [][Next]_vars

(* What follows for whoever looks on: what serves has entered service, and *)
(* nothing that was condemned ever did.                                    *)
OnlyTheFitServe == current \in served \cup {None} /\ served \cap unfit = {}
=============================================================================

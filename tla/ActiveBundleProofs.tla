------------------------- MODULE ActiveBundleProofs -------------------------
(***************************************************************************)
(* What ActiveBundle promises, proved once for all that implements it.     *)
(***************************************************************************)
EXTENDS ActiveBundle, TLAPS

(* Nothing condemned before it served is ever put in service, and what     *)
(* serves has entered service: _append_release_head_event and              *)
(* promote_label_fact_set are the two places that implement it.            *)
THEOREM PromiseKept == Spec => []OnlyTheFitServe
  <1>1. Init => OnlyTheFitServe
    BY DEF Init, OnlyTheFitServe
  <1>2. ASSUME OnlyTheFitServe, [Next]_vars PROVE OnlyTheFitServe'
    <2>1. ASSUME NEW d \in Deployments, Activate(d) PROVE OnlyTheFitServe'
      BY <1>2, <2>1 DEF Activate, OnlyTheFitServe
    <2>2. ASSUME NEW d \in Deployments, Restore(d) PROVE OnlyTheFitServe'
      BY <1>2, <2>2 DEF Restore, OnlyTheFitServe
    <2>3. ASSUME NEW d \in Deployments, Condemn(d) PROVE OnlyTheFitServe'
      BY <1>2, <2>3 DEF Condemn, OnlyTheFitServe
    <2>4. CASE UNCHANGED vars
      BY <1>2, <2>4 DEF vars, OnlyTheFitServe
    <2> QED
      BY <1>2, <2>1, <2>2, <2>3, <2>4 DEF Next
  <1> QED
    BY <1>1, <1>2, PTL DEF Spec
=============================================================================

----------------------------- MODULE MCFactSets -----------------------------
(* Small instances of FactSets for TLC. *)
EXTENDS FactSets, TLC
CONSTANTS none, base, r1, r2, native, derived, p1, p2, k1, k2
TwoSpaces == (base :> native) @@ (r1 :> derived) @@ (r2 :> derived)
Interchangeable == Permutations({p1, p2}) \cup Permutations({k1, k2}) \cup Permutations({r1, r2})

(* A namespace behaves as ActiveBundle says: a set whose label version     *)
(* changed before it was ever visible never becomes visible, and what a    *)
(* rollback brings back has been visible before (promote_label_fact_set).  *)
Visible == INSTANCE ActiveBundle WITH
  Deployments <- FactSetIds, None <- None,
  current <- head[derived].current,
  served <- ServedIn(derived),
  unfit <- (FactSetIds \ anchored) \ ServedIn(derived)
ImplementsActiveBundle == Visible!Spec
=============================================================================

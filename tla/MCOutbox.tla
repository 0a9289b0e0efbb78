------------------------------ MODULE MCOutbox ------------------------------
(* Small instances of Outbox for TLC. *)
EXTENDS Outbox, TLC
CONSTANTS l, q, m, w1, w2
OneLaunch == (l :> "launch")
Several == (l :> "launch") @@ (q :> "release") @@ (m :> "materialization")
SymWorkers == Permutations(Workers)
=============================================================================

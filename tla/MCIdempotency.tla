--------------------------- MODULE MCIdempotency ----------------------------
(* Small instances of Idempotency for TLC. *)
EXTENDS Idempotency, TLC
CONSTANTS none, c1, c2, c3, key
SharedKey == (c1 :> key) @@ (c2 :> key) @@ (c3 :> key)
TwoBodies == (c1 :> "body") @@ (c2 :> "body") @@ (c3 :> "other")
=============================================================================

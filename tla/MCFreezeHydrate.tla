--------------------------- MODULE MCFreezeHydrate ---------------------------
(* Instances of FreezeHydrate for TLC. *)
EXTENDS LeaseProofs, TLC

CONSTANTS h1, h2, h3

NoSkew == [h \in Host |-> 0]

(* h1's clock is a second ahead. *)
OneAhead == [h \in Host |-> IF h = h1 THEN 1 ELSE 0]
==============================================================================

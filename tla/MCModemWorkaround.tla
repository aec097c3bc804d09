-------------------------- MODULE MCModemWorkaround --------------------------
(* Instances of ModemWorkaround for TLC. *)
EXTENDS ModemWorkaround, TLC

\* Sessions are interchangeable.
Swaps == Permutations(Sessions)
=============================================================================

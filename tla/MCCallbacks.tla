----------------------------- MODULE MCCallbacks -----------------------------
(* One call of every kind.                                                  *)
EXTENDS Callbacks
==============================================================================

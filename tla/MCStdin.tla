------------------------------- MODULE MCStdin -------------------------------
(* Small instances of Stdin.                                                *)
EXTENDS Stdin
==============================================================================

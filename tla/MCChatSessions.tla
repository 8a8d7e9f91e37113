--------------------------- MODULE MCChatSessions ----------------------------
(* Small instances of ChatSessions: sessions and starts are interchangeable. *)
EXTENDS ChatSessions, TLC

Symmetry == Permutations(Keys) \cup Permutations(Owners)
==============================================================================

--------------------------- MODULE MCLongCommands ---------------------------
(* Small instances of a run with long commands. *)
EXTENDS LongCommands

MCSettings == {1, Unset, Invalid}

\* Out of range and in it.
MCTimeouts == {3, 9}
=============================================================================

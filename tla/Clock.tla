------------------------------- MODULE Clock -------------------------------
(***************************************************************************)
(* The time that the timers of one ToolFlow process go by.  It is discrete *)
(* and counts from the creation of the run; a callback that is due runs    *)
(* before time goes on.                                                    *)
(***************************************************************************)
EXTENDS Integers

CONSTANTS
    MaxTime,   \* bound: how long the run is watched
    None       \* absent

VARIABLE now
=============================================================================

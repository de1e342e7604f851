--------------------------- MODULE VersionHistory ---------------------------
(***************************************************************************)
(* What internal/versioning promises about configuration versions,         *)
(* whatever the layout that keeps them: a first-in first-out window over   *)
(* the last "Retention" configurations, numbered consecutively from 1.     *)
(* Loading appends a configuration; restoring appends once more one that   *)
(* is still in the window, under a new number.                             *)
(***************************************************************************)
EXTENDS Integers, Sequences

CONSTANTS
  Retention,   \* how many versions stay available
  Config       \* the configurations

VARIABLES
  window,      \* the retained configurations, oldest first
  total        \* how many versions there have been

vars == <<window, total>>

(* The window after one more configuration.                                *)
Slide(c) ==
  /\ window' = IF Len(window) < Retention
                 THEN Append(window, c)
                 ELSE Append(Tail(window), c)
  /\ total' = total + 1

Init ==
  /\ window = <<>>
  /\ total = 0

Load == \E c \in Config : Slide(c)

Restore == \E i \in DOMAIN window : Slide(window[i])

Next == Load \/ Restore

Spec == Init /\ [][Next]_vars
=============================================================================

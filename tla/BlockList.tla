----------------------------- MODULE BlockList -----------------------------
(***************************************************************************)
(* What the router daemon promises about its block list, seen from the     *)
(* outside: commands change the set one MAC at a time, the published view  *)
(* only ever becomes the set as it is, and a reboot empties the set (not   *)
(* the view, which the broker retains).                                    *)
(***************************************************************************)
EXTENDS Mac

VARIABLES
    set,        \* the MACs the kernel drops
    shown       \* the MACs the retained snapshot marks as blocked

vars == <<set, shown>>

Init == set = {} /\ shown = {}

Block(m) == set' = set \cup {m} /\ UNCHANGED shown
Unblock(m) == set' = set \ {m} /\ UNCHANGED shown
Show == shown' = set /\ UNCHANGED set
Lose == set' = {} /\ UNCHANGED shown

Next == (\E m \in Macs : Block(m) \/ Unblock(m)) \/ Show \/ Lose

Spec == Init /\ [][Next]_vars
=============================================================================

------------------------------ MODULE MCSystem ------------------------------
(***************************************************************************)
(* One device, with a lease, blocked or not.                               *)
(***************************************************************************)
EXTENDS System

CONSTANTS m1, x

MCDev(b) == [m \in {m1} |-> [ip |-> x, host |-> None, blocked |-> b]]
MCTables == {MCDev(FALSE), MCDev(TRUE)}
=============================================================================

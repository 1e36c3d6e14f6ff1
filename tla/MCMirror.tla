------------------------------ MODULE MCMirror ------------------------------
(***************************************************************************)
(* Lists of one or two devices, of which one changes.                      *)
(***************************************************************************)
EXTENDS Mirror

CONSTANTS m1, m2, x, y

Dev(ip, blocked) == [ip |-> ip, host |-> None, blocked |-> blocked]
MCTables ==
    {EmptyTable, [m \in {m1} |-> Dev(x, FALSE)], [m \in {m1} |-> Dev(x, TRUE)],
     [m \in {m1, m2} |-> Dev(x, FALSE)]}
=============================================================================

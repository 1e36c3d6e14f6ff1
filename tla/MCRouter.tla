------------------------------ MODULE MCRouter ------------------------------
(***************************************************************************)
(* The lease files and the bounds the runs of Router use.                  *)
(***************************************************************************)
EXTENDS Router

CONSTANTS m1, m2, x, y

\* Files that differ in one field, in a MAC, in their size, and in nothing the
\* size tells; one with a line that does not parse and a MAC given twice.
L(m, ip, host) == [mac |-> m, ip |-> ip, host |-> host]
MCLeaseFiles ==
    {<<L(m1, x, None)>>,
     <<L(m1, x, y)>>,
     <<L(m2, y, None)>>,
     <<L(NoMac, x, x), L(m1, x, y), L(m1, y, None)>>,
     <<L(m1, x, None), L(m2, y, x)>>}

\* Without the lines that do not parse and the MACs that are given twice.
MCFewFiles ==
    {<<L(m1, x, None)>>, <<L(m1, x, y)>>, <<L(m1, x, None), L(m2, y, x)>>}
=============================================================================

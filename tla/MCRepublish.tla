---------------------------- MODULE MCRepublish ----------------------------
(***************************************************************************)
(* Lease files of up to two lines, some of three, over three MACs with a   *)
(* line that does not parse; listings in and out of order; room for two.   *)
(***************************************************************************)
EXTENDS RepublishLoops

CONSTANTS x, y

At(m, ip, host) == [mac |-> m, ip |-> ip, host |-> host]
MCLines == {At(NoMac, x, x), At(1, x, y), At(1, y, None), At(2, x, None), At(3, y, y)}
MCLeaseFiles == UNION {[1..n -> MCLines] : n \in 0..2}
                    \cup {<<At(3, x, None), a, b>> : a, b \in MCLines}
MCListings == {<<>>, <<1>>, <<3, 1>>, <<2, 3, 1>>}
MCMarkSets == {{}, {1, 3}}
=============================================================================

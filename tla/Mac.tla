-------------------------------- MODULE Mac --------------------------------
(***************************************************************************)
(* Device addresses, the values every part of the router daemon passes     *)
(* around.  A MAC is the canonical lower-case form np_mac_normalize        *)
(* writes; NoMac stands for every text it refuses.                         *)
(***************************************************************************)
EXTENDS Naturals, FiniteSets

CONSTANTS
    Macs,       \* normalised device addresses
    NoMac       \* a text that np_mac_normalize does not accept

ASSUME MacAssumption == IsFiniteSet(Macs) /\ NoMac \notin Macs

\* The subsets of S that fill a buffer of n places.
Fit(S, n) ==
    {T \in SUBSET S :
        Cardinality(T) = IF Cardinality(S) <= n THEN Cardinality(S) ELSE n}
=============================================================================

------------------------------ MODULE DiffLoop ------------------------------
(***************************************************************************)
(* The merge loop of diff_and_emit() of src/src/leases.c: two strictly     *)
(* sorted arrays walked by the indices i and j.  RepublishLoops runs it    *)
(* after rebuild().                                                        *)
(*                                                                         *)
(* MACs are numbers (the order of strcmp), and a device is the pair of its *)
(* MAC and all its other fields that devs_differ compares.                 *)
(***************************************************************************)
EXTENDS Naturals, Sequences

VARIABLES
    prev,       \* prev[0 .. prev_count - 1]
    list,       \* list[0 .. count - 1], as rebuild() left it
    i,          \* the next entry of prev
    j,          \* the next entry of list
    events      \* what emit_event has published, in order

Added(d) == [event |-> "added", mac |-> d.mac, info |-> {d.info}]
Changed(d) == [event |-> "changed", mac |-> d.mac, info |-> {d.info}]
Removed(d) == [event |-> "removed", mac |-> d.mac, info |-> {}]

----------------------------------------------------------------------------

MoreOf(s, n) == n <= Len(s)

\* Mutant: the entries are compared by address alone.
SameMacSilent ==
    /\ MoreOf(prev, i) /\ MoreOf(list, j)
    /\ prev[i].mac = list[j].mac
    /\ i' = i + 1
    /\ j' = j + 1
    /\ UNCHANGED <<prev, list, events>>

SameMac ==
    /\ MoreOf(prev, i) /\ MoreOf(list, j)
    /\ prev[i].mac = list[j].mac
    /\ events' = IF prev[i] # list[j] THEN Append(events, Changed(list[j])) ELSE events
    /\ i' = i + 1
    /\ j' = j + 1
    /\ UNCHANGED <<prev, list>>

\* Mutant: the sign of strcmp is not looked at, only that it is not zero.
OnlyInPrevUnsigned ==
    /\ MoreOf(prev, i)
    /\ MoreOf(list, j) => prev[i].mac # list[j].mac
    /\ events' = Append(events, Removed(prev[i]))
    /\ i' = i + 1
    /\ UNCHANGED <<prev, list, j>>

\* In the first loop and in the loop over what is left of prev.
OnlyInPrev ==
    /\ MoreOf(prev, i)
    /\ MoreOf(list, j) => prev[i].mac < list[j].mac
    /\ events' = Append(events, Removed(prev[i]))
    /\ i' = i + 1
    /\ UNCHANGED <<prev, list, j>>

\* In the first loop and in the loop over what is left of list.
OnlyInList ==
    /\ MoreOf(list, j)
    /\ MoreOf(prev, i) => list[j].mac < prev[i].mac
    /\ events' = Append(events, Added(list[j]))
    /\ j' = j + 1
    /\ UNCHANGED <<prev, list, i>>

Finished == ~MoreOf(prev, i) /\ ~MoreOf(list, j)

----------------------------------------------------------------------------
(* What the properties of RepublishLoops say of the loop.                  *)

\* Entry n of s among the entries of t.
Missing(s, n, t) == \A b \in DOMAIN t : t[b].mac # s[n].mac
Altered(s, n, t) == \E b \in DOMAIN t : t[b].mac = s[n].mac /\ t[b] # s[n]

\* The events owed for the entries of prev before m and those of list before n.
Owed(m, n) ==
    {Removed(prev[a]) : a \in {c \in DOMAIN prev : c < m /\ Missing(prev, c, list)}}
    \cup {Added(list[b]) : b \in {c \in DOMAIN list : c < n /\ Missing(list, c, prev)}}
    \cup {Changed(list[b]) : b \in {c \in DOMAIN list : c < n /\ Altered(list, c, prev)}}

\* The events name each device once, in the order of the MACs.
Ordered == \A a, b \in DOMAIN events : a < b => events[a].mac < events[b].mac
=============================================================================

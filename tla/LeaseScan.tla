----------------------------- MODULE LeaseScan -----------------------------
(***************************************************************************)
(* rebuild() of src/src/leases.c as it runs: the array `list` filled line  *)
(* by line from the lease file, then MAC by MAC from np_nft_list, marked   *)
(* device by device with np_nft_is_blocked and sorted.  The properties say *)
(* that the array never overflows and that it ends up as the table that    *)
(* DeviceTable defines, which is what Leases takes rebuild() for.          *)
(* RepublishLoops puts it into its round.                                  *)
(*                                                                         *)
(* MACs are numbers here: < is the order of strcmp on the canonical form.  *)
(***************************************************************************)
EXTENDS DeviceTable

CONSTANTS
    LeaseFiles, \* the contents of the lease file
    Listings,   \* what np_nft_list may report: sequences of distinct MACs
    MarkSets    \* the MACs np_nft_is_blocked may call blocked

ASSUME ScanAssumption ==
    /\ Macs \subseteq Nat
    /\ LeaseFiles \subseteq Seq(Line)
    /\ Listings \subseteq Seq(Macs)
    /\ MarkSets \subseteq SUBSET Macs

VARIABLES
    pc,         \* the loop that runs: "read", "merge", "mark", "sort"; "done"
    k,          \* its next line, MAC or device
    list,       \* list[0 .. count - 1]
    lines,      \* input: the lease file
    listed,     \* input: np_nft_list's report
    marked      \* input: np_nft_is_blocked's answers

inputs == <<lines, listed, marked>>
scanVars == <<pc, k, list, inputs>>

Entry == [mac : Macs, ip : Fields \cup {None}, host : Fields \cup {None},
          blocked : BOOLEAN]

LineEntry(l) == [mac |-> l.mac, ip |-> l.ip, host |-> l.host, blocked |-> FALSE]
BlockedEntry(m) == [mac |-> m, ip |-> None, host |-> None, blocked |-> TRUE]

\* The fields of d that are not empty overwrite those of e.
Merge(e, d) ==
    [mac     |-> e.mac,
     ip      |-> IF d.ip # None THEN d.ip ELSE e.ip,
     host    |-> IF d.host # None THEN d.host ELSE e.host,
     blocked |-> e.blocked \/ d.blocked]

\* The first entry of l for the MAC m.
FindsAt(l, m, i) == l[i].mac = m /\ \A n \in 1..i - 1 : l[n].mac # m

\* Mutant: the bound is checked against one entry too many.
add_or_merge_off_by_one(l, d) ==
    IF \E i \in DOMAIN l : l[i].mac = d.mac
    THEN [i \in DOMAIN l |-> IF FindsAt(l, d.mac, i) THEN Merge(l[i], d) ELSE l[i]]
    ELSE IF Len(l) > MaxDevices THEN l ELSE Append(l, d)

\* Mutant: an entry that exists is kept as it is.
add_or_keep(l, d) ==
    IF \E i \in DOMAIN l : l[i].mac = d.mac THEN l
    ELSE IF Len(l) >= MaxDevices THEN l ELSE Append(l, d)

add_or_merge(l, d) ==
    IF \E i \in DOMAIN l : l[i].mac = d.mac
    THEN [i \in DOMAIN l |-> IF FindsAt(l, d.mac, i) THEN Merge(l[i], d) ELSE l[i]]
    ELSE IF Len(l) >= MaxDevices THEN l ELSE Append(l, d)

----------------------------------------------------------------------------

ScanInit ==
    /\ pc = "read"
    /\ k = 1
    /\ list = <<>>
    /\ lines \in LeaseFiles
    /\ listed \in Listings
    /\ marked \in MarkSets

\* The loop is at its end and the next one begins.
Enter(loop, next, size) ==
    /\ pc = loop
    /\ k > size
    /\ pc' = next
    /\ k' = 1
    /\ UNCHANGED <<list, inputs>>

\* fgets, parse_lease_line: a line that does not parse is skipped.
ReadLine ==
    /\ pc = "read"
    /\ k <= Len(lines)
    /\ list' = IF lines[k].mac = NoMac THEN list
               ELSE add_or_merge(list, LineEntry(lines[k]))
    /\ k' = k + 1
    /\ UNCHANGED <<pc, inputs>>

\* add_blocked_cb.
MergeBlocked ==
    /\ pc = "merge"
    /\ k <= Len(listed)
    /\ list' = add_or_merge(list, BlockedEntry(listed[k]))
    /\ k' = k + 1
    /\ UNCHANGED <<pc, inputs>>

MarkDevice ==
    /\ pc = "mark"
    /\ k <= Len(list)
    /\ list' = [list EXCEPT ![k].blocked = @ \/ list[k].mac \in marked]
    /\ k' = k + 1
    /\ UNCHANGED <<pc, inputs>>

Reorderings(n) ==
    {p \in [1..n -> 1..n] : \A a, b \in 1..n : a # b => p[a] # p[b]}

\* qsort: not stable, so any order devcmp allows.
Sort ==
    /\ pc = "sort"
    /\ \E p \in Reorderings(Len(list)) :
          /\ \A a, b \in 1..Len(list) : a < b => list[p[a]].mac <= list[p[b]].mac
          /\ list' = [a \in 1..Len(list) |-> list[p[a]]]
    /\ pc' = "done"
    /\ UNCHANGED <<k, inputs>>

ScanNext ==
    \/ ReadLine
    \/ Enter("read", "merge", Len(lines))
    \/ MergeBlocked
    \/ Enter("merge", "mark", Len(listed))
    \/ MarkDevice
    \/ Enter("mark", "sort", Len(list))
    \/ Sort

----------------------------------------------------------------------------
(* Properties.                                                             *)

\* add_or_merge never writes past list[MAX_DEVICES], which leases.c:119 guards.
ListFits == Len(list) <= MaxDevices

\* A MAC has one entry, whatever mix of lines and listed MACs named it: the diff
\* and the web application's map take that for granted.
OneEntryPerMac ==
    \A a, b \in DOMAIN list : list[a].mac = list[b].mac => a = b

\* When rebuild() returns, the entries are strictly sorted (diff_and_emit's
\* merge loop relies on it) and are the table that DeviceTable defines.
ScanExact ==
    pc = "done" =>
        /\ \A a, b \in DOMAIN list : a < b => list[a].mac < list[b].mac
        /\ LET reported == {listed[n] : n \in DOMAIN listed}
           IN  \E S \in KeptOrListed(lines, reported) :
                  /\ S = {list[a].mac : a \in DOMAIN list}
                  /\ \A a \in DOMAIN list :
                        TableOf(lines, S, reported, marked)[list[a].mac] =
                            [ip      |-> list[a].ip,
                             host    |-> list[a].host,
                             blocked |-> list[a].blocked]
=============================================================================

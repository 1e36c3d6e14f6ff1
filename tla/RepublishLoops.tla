--------------------------- MODULE RepublishLoops ---------------------------
(***************************************************************************)
(* np_leases_republish() of src/src/leases.c as it runs: the loops of      *)
(* rebuild() (LeaseScan), then the merge loop of diff_and_emit()           *)
(* (DiffLoop) against the list of the round before, then the snapshot.     *)
(* Leases takes a round for one step (its action Republish); RoundExact    *)
(* says that the loops together come to that step.                         *)
(***************************************************************************)
EXTENDS LeaseScan

VARIABLES
    prev,       \* prev[0 .. prev_count - 1]
    firstRun,   \* first_run
    i, j,       \* the next entry of prev and of list
    events,     \* what emit_event has published in this round
    snapshot    \* the list this incarnation published last

diffState == <<prev, i, j, events>>
roundVars == <<scanVars, firstRun, diffState, snapshot>>

\* devs_differ compares everything but the MAC and last_seen.
Info(e) == [ip |-> e.ip, host |-> e.host, blocked |-> e.blocked]
Pairs(l) == [n \in DOMAIN l |-> [mac |-> l[n].mac, info |-> Info(l[n])]]

Diff == INSTANCE DiffLoop WITH prev <- Pairs(prev), list <- Pairs(list)

RoundInit ==
    /\ ScanInit
    /\ prev = <<>>
    /\ firstRun = TRUE
    /\ i = 1 /\ j = 1
    /\ events = <<>>
    /\ snapshot = <<>>

Rebuild ==
    /\ ScanNext
    /\ UNCHANGED <<firstRun, diffState, snapshot>>

\* diff_and_emit begins.  The first list of an incarnation is copied to prev
\* without a word.
DiffBegin ==
    /\ pc = "done"
    /\ prev' = IF firstRun THEN list ELSE prev
    /\ pc' = IF firstRun THEN "first" ELSE "diff"
    /\ firstRun' = FALSE
    /\ UNCHANGED <<k, list, inputs, i, j, events, snapshot>>

DiffStep ==
    /\ pc = "diff"
    /\ UNCHANGED <<scanVars, prev, firstRun, snapshot>>
    /\ Diff!SameMac \/ Diff!OnlyInPrev \/ Diff!OnlyInList

\* Mutant: the copy is as long as the list was the round before.
DiffEndOldCount ==
    /\ pc = "diff" /\ Diff!Finished
    /\ prev' = SubSeq(list, 1, IF Len(prev) < Len(list) THEN Len(prev) ELSE Len(list))
    /\ pc' = "publish"
    /\ UNCHANGED <<k, list, inputs, firstRun, i, j, events, snapshot>>

\* memcpy of list to prev, and prev_count.
DiffEnd ==
    /\ pc = "diff" /\ Diff!Finished
    /\ prev' = list
    /\ pc' = "publish"
    /\ UNCHANGED <<k, list, inputs, firstRun, i, j, events, snapshot>>

\* publish_snapshot, and the next call of np_leases_republish with what file
\* and set are then; i, j and what was emitted belong to the call.
PublishList ==
    /\ pc \in {"first", "publish"}
    /\ snapshot' = list
    /\ pc' = "read"
    /\ k' = 1
    /\ list' = <<>>
    /\ lines' \in LeaseFiles
    /\ listed' \in Listings
    /\ marked' \in MarkSets
    /\ i' = 1 /\ j' = 1
    /\ events' = <<>>
    /\ UNCHANGED <<firstRun, prev>>

\* The daemon ends and starts again: calloc in np_leases_create.
RestartRounds ==
    /\ pc = "read" /\ k = 1
    /\ ~firstRun
    /\ firstRun' = TRUE
    /\ prev' = <<>>
    /\ snapshot' = <<>>
    /\ UNCHANGED <<scanVars, i, j, events>>

RoundNext == Rebuild \/ DiffBegin \/ DiffStep \/ DiffEnd \/ PublishList \/ RestartRounds

RoundSpec == RoundInit /\ [][RoundNext]_roundVars

----------------------------------------------------------------------------
(* Properties.                                                             *)

\* While diff_and_emit runs it has announced, of the entries behind it, exactly
\* those that differ; when it ends, all of them: none is lost where one list
\* ends before the other.
DiffExact == pc = "diff" => {events[n] : n \in DOMAIN events} = Diff!Owed(i, j)

\* A device is announced at most once in a round and in the order of the MACs,
\* so a subscriber may apply the events one by one.
AnnouncedOnce == Diff!Ordered

\* An array of unique MACs as the table it stands for.
AsTable(l) ==
    [m \in {l[n].mac : n \in DOMAIN l} |-> Info(l[CHOOSE n \in DOMAIN l : l[n].mac = m])]

AsEvent(e) ==
    [event  |-> e.event,
     mac    |-> e.mac,
     device |-> IF e.info = {} THEN None ELSE CHOOSE d \in e.info : TRUE]

\* When the snapshot is about to be published, a round has done what Leases
\* takes it for: the list is one that rebuild() may come to, and the events
\* lead from the snapshot before to this one.
RoundExact ==
    pc \in {"first", "publish"} =>
        LET reported == {listed[n] : n \in DOMAIN listed}
        IN  /\ \E S \in KeptOrListed(lines, reported) :
                  AsTable(list) = TableOf(lines, S, reported, marked)
            /\ pc = "publish" =>
                  {AsEvent(events[n]) : n \in DOMAIN events} =
                      Events(AsTable(snapshot), AsTable(list))
=============================================================================

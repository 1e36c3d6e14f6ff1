------------------------------- MODULE Leases ------------------------------
(***************************************************************************)
(* The lease watcher of the router daemon (src/src/leases.c): it polls the *)
(* lease file dnsmasq writes, rebuilds the device list from the file and   *)
(* the blocked set, announces the differences to the last list as events   *)
(* and publishes the list as the retained snapshot.                        *)
(*                                                                         *)
(* The file belongs to another process: it may change between any two      *)
(* steps of the watcher, so stat() and the reading of the file are two     *)
(* actions.  The operations do not constrain the rest of the daemon: the   *)
(* module Router composes them with the command handler.                   *)
(***************************************************************************)
EXTENDS Nft, DeviceTable

CONSTANTS
    LeaseFiles, \* the contents dnsmasq may write: sequences of lines
    MaxMtime,   \* bound: the last second in which it writes
    SameSecond  \* TRUE: it may write twice in a second without changing the size

ASSUME LeasesAssumption ==
    /\ LeaseFiles \subseteq Seq(Line)
    /\ MaxMtime \in Nat
    /\ SameSecond \in BOOLEAN

VARIABLES
    file,       \* /tmp/dhcp.leases: [exists, lines, mtime]
    lastStat,   \* <<last_mtime, last_size>>
    firstRun,   \* first_run
    prev,       \* prev[0 .. prev_count - 1]
    republishing, \* inside np_leases_republish, rebuild() not yet run
    snapshot,   \* the devices payload published last, by any incarnation
    feed        \* history: this incarnation's first snapshot and the events since

watcherVars == <<lastStat, firstRun, prev, republishing>>
leaseVars == <<file, watcherVars, snapshot, feed>>

\* The number of lines stands for st_size: files may differ and have one size.
StatOf(f) == <<f.mtime, Len(f.lines)>>

LeasesTypeOK ==
    /\ file \in [exists : BOOLEAN, lines : LeaseFiles \cup {<<>>}, mtime : Nat]
    /\ lastStat \in Nat \X Nat
    /\ firstRun \in BOOLEAN
    /\ prev \in Table
    /\ republishing \in BOOLEAN
    /\ snapshot \in Table
    /\ feed \in Table

LeasesInit ==
    /\ file = [exists |-> FALSE, lines |-> <<>>, mtime |-> 0]
    /\ lastStat = <<0, 0>>
    /\ firstRun = TRUE
    /\ prev = EmptyTable
    /\ republishing = FALSE
    /\ snapshot = EmptyTable
    /\ feed = EmptyTable

----------------------------------------------------------------------------
(* dnsmasq.                                                                *)

LeaseWrite ==
    /\ \E lines \in LeaseFiles, mtime \in {file.mtime, file.mtime + 1} :
          /\ mtime \in 1..MaxMtime
          /\ file' = [exists |-> TRUE, lines |-> lines, mtime |-> mtime]
    /\ SameSecond \/ StatOf(file') # lastStat
    /\ UNCHANGED <<watcherVars, snapshot, feed>>

LeaseRemove ==
    /\ file.exists
    /\ file' = [exists |-> FALSE, lines |-> <<>>, mtime |-> file.mtime]
    /\ UNCHANGED <<watcherVars, snapshot, feed>>

----------------------------------------------------------------------------
(* The watcher.                                                            *)

\* The end of the process: np_leases_create will start from calloc.
WatcherReset ==
    /\ lastStat' = <<0, 0>>
    /\ firstRun' = TRUE
    /\ prev' = EmptyTable
    /\ republishing' = FALSE
    /\ feed' = EmptyTable

\* Mutant: the stat is recorded in any case, and a change is one of the size.
PollStatSizeOnly ==
    /\ ~republishing
    /\ LET changed == file.exists /\ Len(file.lines) # lastStat[2]
       IN  /\ lastStat' = IF file.exists THEN StatOf(file) ELSE lastStat
           /\ republishing' = (changed \/ firstRun)
    /\ UNCHANGED <<file, firstRun, prev, snapshot, feed>>

\* Mutant: the new stat is recorded, `changed` is not set.
PollStatRecordOnly ==
    /\ ~republishing
    /\ lastStat' = IF file.exists THEN StatOf(file) ELSE lastStat
    /\ republishing' = firstRun
    /\ UNCHANGED <<file, firstRun, prev, snapshot, feed>>

\* np_leases_poll up to its call of np_leases_republish.  A file that cannot
\* be stat()ed counts as unchanged.
PollStat ==
    /\ ~republishing
    /\ LET changed == file.exists /\ StatOf(file) # lastStat
       IN  /\ lastStat' = IF changed THEN StatOf(file) ELSE lastStat
           /\ republishing' = (changed \/ firstRun)
    /\ UNCHANGED <<file, firstRun, prev, snapshot, feed>>

\* The devices np_nft_is_blocked may report as blocked, asked one by one.
Marks ==
    {M \in SUBSET Macs :
        \A m \in Macs : \E s \in np_nft_is_blocked(m) : m \in M <=> s > 0}

\* The lists rebuild() may come to.
Rebuilds ==
    UNION {{TableOf(file.lines, S, listed, marked) :
               S \in KeptOrListed(file.lines, listed), marked \in Marks}
           : listed \in np_nft_list}

\* Mutant: diff_and_emit does not copy the list to prev.
RepublishKeepingPrev ==
    /\ republishing
    /\ \E list \in Rebuilds :
          /\ feed' = IF firstRun THEN list ELSE ApplyEvents(feed, Events(prev, list))
          /\ prev' = IF firstRun THEN list ELSE prev
          /\ snapshot' = list
    /\ firstRun' = FALSE
    /\ republishing' = FALSE
    /\ UNCHANGED <<file, lastStat>>

\* np_leases_republish: rebuild, diff_and_emit, publish_snapshot.  The first
\* list of an incarnation is announced by the snapshot alone.
Republish ==
    /\ republishing
    /\ \E list \in Rebuilds :
          /\ feed' = IF firstRun THEN list ELSE ApplyEvents(feed, Events(prev, list))
          /\ prev' = list
          /\ snapshot' = list
    /\ firstRun' = FALSE
    /\ republishing' = FALSE
    /\ UNCHANGED <<file, lastStat>>
=============================================================================

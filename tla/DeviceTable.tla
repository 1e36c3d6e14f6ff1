---------------------------- MODULE DeviceTable ----------------------------
(***************************************************************************)
(* The device list of the router (src/src/leases.c) as a value: what       *)
(* rebuild() makes of a lease file and the blocked set, and what           *)
(* diff_and_emit() says about two such lists.  LeaseScan and DiffLoop      *)
(* model the loops that compute them.                                      *)
(*                                                                         *)
(* A device table is a function from MACs to devices.  Of a device's       *)
(* fields, `ip` stands for the one every lease line has and `host` for the *)
(* ones that may be empty (hostname, lease_expires); last_seen, which no   *)
(* comparison reads, is left out.                                          *)
(***************************************************************************)
EXTENDS Mac, Sequences

CONSTANTS
    Fields,     \* the values of ip and host
    None,       \* the empty field
    MaxDevices  \* MAX_DEVICES, the room in np_leases.list

ASSUME DeviceAssumption ==
    /\ None \notin Fields
    /\ MaxDevices \in Nat

Device == [ip : Fields \cup {None}, host : Fields \cup {None}, blocked : BOOLEAN]

\* A line that parse_lease_line refuses has NoMac.
Line == [mac : Macs \cup {NoMac}, ip : Fields, host : Fields \cup {None}]
Table == UNION {[S -> Device] : S \in SUBSET Macs}
EmptyTable == [m \in {} |-> None]

BlockedIn(t) == {m \in DOMAIN t : t[m].blocked}

----------------------------------------------------------------------------
(* rebuild().                                                              *)

\* Mutant: the result of np_mac_normalize is not looked at.
SeenUnchecked(lines) == {lines[i].mac : i \in DOMAIN lines}

\* The MACs of the lines that parse.
Seen(lines) == {lines[i].mac : i \in DOMAIN lines} \ {NoMac}

FirstLine(lines, m) ==
    CHOOSE i \in DOMAIN lines :
        lines[i].mac = m /\ \A j \in 1..i - 1 : lines[j].mac # m

\* The first MaxDevices MACs of the file: add_or_merge drops the others.
Kept(lines) ==
    {m \in Seen(lines) :
        Cardinality({n \in Seen(lines) : FirstLine(lines, n) < FirstLine(lines, m)})
            < MaxDevices}

\* Field f of m: a later line of the same MAC overwrites it unless empty there.
LastField(lines, m, f) ==
    LET informed == {i \in DOMAIN lines : lines[i].mac = m /\ lines[i][f] # None}
        last == {i \in informed : \A j \in informed : j <= i}
    IN  IF last = {} THEN None ELSE lines[CHOOSE i \in last : TRUE][f]

\* Mutant: only the lease file is looked at, as if step 2 were missing.
KeptOrListedFileOnly(lines, listed) == {Kept(lines)}

\* The possible sets of MACs of the list: the MACs np_nft_list reported fill
\* the room the lease file leaves, in an order nft decides.
KeptOrListed(lines, listed) ==
    {Kept(lines) \cup extra :
        extra \in Fit(listed \ Kept(lines), MaxDevices - Cardinality(Kept(lines)))}

\* The list with the MACs S, when np_nft_list reported `listed` and
\* np_nft_is_blocked said 1 of `marked`.
TableOf(lines, S, listed, marked) ==
    [m \in S |-> [ip      |-> LastField(lines, m, "ip"),
                  host    |-> LastField(lines, m, "host"),
                  blocked |-> m \in listed \cup marked]]

----------------------------------------------------------------------------
(* diff_and_emit().                                                        *)

Added(m, dev) == [event |-> "added", mac |-> m, device |-> dev]
Changed(m, dev) == [event |-> "changed", mac |-> m, device |-> dev]
Removed(m) == [event |-> "removed", mac |-> m, device |-> None]

Events(prev, list) ==
    {Added(m, list[m]) : m \in DOMAIN list \ DOMAIN prev}
        \cup {Changed(m, list[m]) :
                 m \in {n \in DOMAIN list \cap DOMAIN prev : prev[n] # list[n]}}
        \cup {Removed(m) : m \in DOMAIN prev \ DOMAIN list}

\* What a consumer that follows the live feed makes of a batch of events.
Gone(evs) == {e.mac : e \in {x \in evs : x.event = "removed"}}
Told(evs) == {e.mac : e \in {x \in evs : x.event # "removed"}}
ApplyEvents(view, evs) ==
    [m \in (DOMAIN view \ Gone(evs)) \cup Told(evs) |->
        IF m \in Told(evs)
        THEN (CHOOSE e \in evs : e.event # "removed" /\ e.mac = m).device
        ELSE view[m]]
=============================================================================

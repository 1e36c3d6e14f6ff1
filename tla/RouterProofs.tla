---------------------------- MODULE RouterProofs ----------------------------
(***************************************************************************)
(* Theorems about the router daemon, for every set of MACs and fields, all *)
(* buffer sizes and all lease files.  The last part is about a daemon      *)
(* whose nft works and whose buffers have room for every MAC: what cannot  *)
(* be said of one whose nft may fail.                                      *)
(***************************************************************************)
EXTENDS Router, FiniteSetTheorems, TLAPS

----------------------------------------------------------------------------
(* Facts about device tables.                                              *)

\* The device a batch of events tells of m is the one in the new list: no MAC
\* is told of twice, since added and changed are disjoint.
LEMMA ToldDevice ==
    ASSUME NEW prv, NEW lst, NEW e \in Events(prv, lst), e.event # "removed"
    PROVE  e.mac \in DOMAIN lst /\ e.device = lst[e.mac]
BY DEF Events, Added, Changed, Removed

\* A subscriber that holds the old list and applies the events diff_and_emit
\* makes of the old and the new one holds the new list.
LEMMA EventsTransform ==
    ASSUME NEW S, NEW T, NEW D, NEW prv \in [S -> D], NEW lst \in [T -> D]
    PROVE  ApplyEvents(prv, Events(prv, lst)) = lst
<1> DEFINE evs == Events(prv, lst)
<1> DEFINE new == {m \in T : m \notin S}
<1> DEFINE altered == {m \in T : m \in S /\ prv[m] # lst[m]}
<1>0. evs = {Added(m, lst[m]) : m \in new} \cup {Changed(m, lst[m]) : m \in altered}
               \cup {Removed(m) : m \in S \ T}
  BY DEF Events
<1> HIDE DEF evs
<1>1. Gone(evs) = S \ T
  <2>1. ASSUME NEW m \in S \ T PROVE m \in Gone(evs)
    <3>1. Removed(m) \in {x \in evs : x.event = "removed"}
      BY <1>0, <2>1 DEF Removed
    <3>2. Removed(m).mac = m
      BY DEF Removed
    <3>3. QED
      BY <3>1, <3>2 DEF Gone
  <2>2. ASSUME NEW m \in Gone(evs) PROVE m \in S \ T
    BY <1>0, <2>2 DEF Gone, Added, Changed, Removed
  <2>3. QED
    BY <2>1, <2>2
<1>2. Told(evs) = {m \in T : m \notin S \/ prv[m] # lst[m]}
  <2>1. ASSUME NEW m \in T, m \notin S \/ prv[m] # lst[m] PROVE m \in Told(evs)
    <3>1. CASE m \notin S
      <4>1. Added(m, lst[m]) \in {x \in evs : x.event # "removed"}
        BY <1>0, <3>1 DEF Added
      <4>2. QED
        BY <4>1 DEF Told, Added
    <3>2. CASE m \in S
      <4>1. Changed(m, lst[m]) \in {x \in evs : x.event # "removed"}
        BY <1>0, <2>1, <3>2 DEF Changed
      <4>2. QED
        BY <4>1 DEF Told, Changed
    <3>3. QED
      BY <3>1, <3>2
  <2>2. ASSUME NEW m \in Told(evs) PROVE m \in T /\ (m \notin S \/ prv[m] # lst[m])
    BY <1>0, <2>2 DEF Told, Added, Changed, Removed
  <2>3. QED
    BY <2>1, <2>2
<1>3. (DOMAIN prv \ Gone(evs)) \cup Told(evs) = T
  BY <1>1, <1>2
<1>4. ASSUME NEW m \in Told(evs)
      PROVE  (CHOOSE e \in evs : e.event # "removed" /\ e.mac = m).device = lst[m]
  <2>1. \E e \in evs : e.event # "removed" /\ e.mac = m
    BY <1>4 DEF Told
  <2>2. QED
    BY <2>1, ToldDevice DEF evs
<1>5. ApplyEvents(prv, evs) = [m \in T |-> lst[m]]
  BY <1>2, <1>3, <1>4 DEF ApplyEvents
<1>6. QED
  BY <1>5 DEF evs

----------------------------------------------------------------------------
(* What a command may do.                                                  *)

Accepted(m, action) ==
    /\ republishing' = TRUE
    /\ acked' = [acked EXCEPT ![m] = action]

\* A command leaves the watcher and the rules alone.  It is refused or only
\* asks, and then changes nothing; or it is a block or an unblock of a MAC
\* that is accepted and starts a republish.
LEMMA CommandEffect ==
    ASSUME RouterTypeOK, Commands
    PROVE  /\ Handling
           /\ HandlerFrame
           /\ \/ UNCHANGED <<blocked, republishing, acked>>
              \/ \E m \in Macs : np_nft_block(m, 0) /\ Accepted(m, "block")
              \/ \E m \in Macs : np_nft_unblock(m, 0) /\ Accepted(m, "unblock")
<1>1. ASSUME NEW req \in ReqIds, NEW m \in MacArgs, HandleBlock(m, req)
      PROVE  /\ Handling /\ HandlerFrame
             /\ \/ UNCHANGED <<blocked, republishing, acked>>
                \/ m \in Macs /\ np_nft_block(m, 0) /\ Accepted(m, "block")
  <2>1. CASE MacRequired("block", req)
    BY <1>1, <2>1 DEF HandleBlock, MacRequired
  <2>2. ASSUME NEW ret \in {-1, 0, 1}, np_nft_block(m, ret), Answer("block", m, req, ret)
        PROVE  \/ UNCHANGED <<blocked, republishing, acked>>
               \/ m \in Macs /\ np_nft_block(m, 0) /\ Accepted(m, "block")
    <3>1. CASE ret = 0
      <4>1. m \in Macs /\ np_nft_block(m, 0)
        BY <2>2, <3>1 DEF np_nft_block, AddElement
      <4>2. republishing' = TRUE
        BY <2>2, <3>1 DEF Answer
      <4>3. QED
        BY <2>2, <3>1, <4>1, <4>2 DEF Answer, Accepted
    <3>2. CASE ret # 0
      <4>1. UNCHANGED blocked
        BY <2>2, <3>2 DEF np_nft_block, AddElement
      <4>2. UNCHANGED acked /\ ~republishing' /\ republishing' \in BOOLEAN
        BY <2>2, <3>2 DEF Answer
      <4>3. ~republishing /\ republishing \in BOOLEAN
        BY <1>1 DEF HandleBlock, Handling, RouterTypeOK, LeasesTypeOK
      <4>4. QED
        BY <4>1, <4>2, <4>3
    <3>3. QED
      BY <3>1, <3>2
  <2>3. QED
    BY <1>1, <2>1, <2>2 DEF HandleBlock
<1>2. ASSUME NEW req \in ReqIds, NEW m \in MacArgs, HandleUnblock(m, req)
      PROVE  /\ Handling /\ HandlerFrame
             /\ \/ UNCHANGED <<blocked, republishing, acked>>
                \/ m \in Macs /\ np_nft_unblock(m, 0) /\ Accepted(m, "unblock")
  <2>1. CASE MacRequired("unblock", req)
    BY <1>2, <2>1 DEF HandleUnblock, MacRequired
  <2>2. ASSUME NEW ret \in {-1, 0, 1}, np_nft_unblock(m, ret),
               Answer("unblock", m, req, ret)
        PROVE  \/ UNCHANGED <<blocked, republishing, acked>>
               \/ m \in Macs /\ np_nft_unblock(m, 0) /\ Accepted(m, "unblock")
    <3>1. CASE ret = 0
      <4>1. m \in Macs /\ np_nft_unblock(m, 0)
        BY <2>2, <3>1 DEF np_nft_unblock
      <4>2. republishing' = TRUE
        BY <2>2, <3>1 DEF Answer
      <4>3. QED
        BY <2>2, <3>1, <4>1, <4>2 DEF Answer, Accepted
    <3>2. CASE ret # 0
      <4>1. UNCHANGED blocked
        BY <2>2, <3>2 DEF np_nft_unblock
      <4>2. UNCHANGED acked /\ ~republishing' /\ republishing' \in BOOLEAN
        BY <2>2, <3>2 DEF Answer
      <4>3. ~republishing /\ republishing \in BOOLEAN
        BY <1>2 DEF HandleUnblock, Handling, RouterTypeOK, LeasesTypeOK
      <4>4. QED
        BY <4>1, <4>2, <4>3
    <3>3. QED
      BY <3>1, <3>2
  <2>3. QED
    BY <1>2, <2>1, <2>2 DEF HandleUnblock
<1>3. ASSUME NEW req \in ReqIds,
             \/ \E m \in MacArgs : HandleStatus(m, req)
             \/ HandleList(req) \/ HandlePing(req) \/ HandleUnknown(req)
      PROVE  Handling /\ HandlerFrame /\ UNCHANGED <<blocked, republishing, acked>>
  BY <1>3 DEF HandleStatus, HandleList, HandlePing, HandleUnknown, MacRequired
<1>4. QED
  BY <1>1, <1>2, <1>3 DEF Commands

----------------------------------------------------------------------------
(* Types.                                                                  *)

\* What rebuild() keeps of a lease file are MACs, and the fields it stores come
\* from the lines or are empty.
LEMMA LinesType ==
    ASSUME NEW lines \in Seq(Line)
    PROVE  /\ Kept(lines) \subseteq Macs
           /\ \A m, f : f \in {"ip", "host"} => LastField(lines, m, f) \in Fields \cup {None}
<1>1. \A i \in DOMAIN lines : lines[i] \in Line
  OBVIOUS
<1>2. Seen(lines) \subseteq Macs
  BY <1>1 DEF Seen, Line
<1>3. ASSUME NEW m, NEW f \in {"ip", "host"}
      PROVE  LastField(lines, m, f) \in Fields \cup {None}
  <2> DEFINE informed == {i \in DOMAIN lines : lines[i].mac = m /\ lines[i][f] # None}
             last == {i \in informed : \A j \in informed : j <= i}
  <2>1. CASE last = {}
    BY <2>1 DEF LastField
  <2>2. CASE last # {}
    <3>1. PICK i \in DOMAIN lines : LastField(lines, m, f) = lines[i][f]
      BY <2>2 DEF LastField
    <3>2. lines[i][f] \in Fields \cup {None}
      BY <1>1 DEF Line
    <3>3. QED
      BY <3>1, <3>2
  <2>3. QED
    BY <2>1, <2>2
<1>4. QED
  BY <1>2, <1>3 DEF Kept

\* Every list rebuild() may come to is a device table.
LEMMA RebuildsType ==
    ASSUME RouterTypeOK, NEW list \in Rebuilds
    PROVE  list \in Table /\ BlockedIn(list) \subseteq blocked
<1> USE MacAssumption, DeviceAssumption, LeasesAssumption
<1>0. PICK listed \in np_nft_list :
        list \in {TableOf(file.lines, S, listed, marked) :
                    S \in KeptOrListed(file.lines, listed), marked \in Marks}
  BY DEF Rebuilds
<1>1. PICK S \in KeptOrListed(file.lines, listed), marked \in Marks :
        list = TableOf(file.lines, S, listed, marked)
  BY <1>0
<1>2. listed \subseteq blocked
  BY <1>1 DEF np_nft_list, Fit
<1>3. marked \subseteq blocked
  BY <1>1 DEF Marks, np_nft_is_blocked
<1>4. blocked \subseteq Macs
  BY DEF RouterTypeOK, NftTypeOK
<1>5. file.lines \in Seq(Line)
  <2>1. file.lines \in LeaseFiles \cup {<<>>}
    BY DEF RouterTypeOK, LeasesTypeOK
  <2>2. <<>> \in Seq(Line)
    OBVIOUS
  <2>3. QED
    BY <2>1, <2>2
<1>6. Kept(file.lines) \subseteq Macs
  BY <1>5, LinesType
<1>7. S \subseteq Macs
  BY <1>1, <1>2, <1>4, <1>6 DEF KeptOrListed, Fit
<1>8. ASSUME NEW m \in S
      PROVE  /\ LastField(file.lines, m, "ip") \in Fields \cup {None}
             /\ LastField(file.lines, m, "host") \in Fields \cup {None}
  BY <1>5, LinesType
<1>9. list \in [S -> Device]
  BY <1>1, <1>8 DEF TableOf, Device
<1>10. list \in Table
  BY <1>7, <1>9 DEF Table
<1>11. BlockedIn(list) \subseteq blocked
  BY <1>1, <1>2, <1>3 DEF BlockedIn, TableOf
<1>12. QED
  BY <1>10, <1>11

\* What reply() publishes is a response, or nothing without a req_id.
LEMMA RespondType ==
    ASSUME NEW req, NEW action \in Actions, NEW m \in MacArgs, NEW ok \in BOOLEAN,
           NEW macs \in SUBSET Macs, Respond(req, action, m, ok, macs)
    PROVE  reply' \in Replies
BY DEF Respond, Replies, Reply

\* Every branch of np_handle_message leaves a response or none.
LEMMA CommandReply ==
    ASSUME RouterTypeOK, Commands
    PROVE  reply' \in Replies
<1> USE DEF Actions, MacArgs
<1>1. blocked \in SUBSET Macs
  BY DEF RouterTypeOK, NftTypeOK
<1>2. ASSUME NEW req, NEW action \in {"block", "unblock", "status"},
             MacRequired(action, req)
      PROVE  reply' \in Replies
  BY <1>2 DEF MacRequired, Respond, Reply, Replies
<1>3. ASSUME NEW req, NEW action \in {"block", "unblock"}, NEW m \in MacArgs, NEW ret,
             Answer(action, m, req, ret)
      PROVE  reply' \in Replies
  <2>1. (ret = 0) \in BOOLEAN
    OBVIOUS
  <2>2. Respond(req, action, m, ret = 0, {})
    BY <1>3 DEF Answer
  <2>3. QED
    BY <2>1, <2>2 DEF Respond, Reply, Replies
<1>4. ASSUME NEW req \in ReqIds, NEW m \in MacArgs,
             HandleBlock(m, req) \/ HandleUnblock(m, req)
      PROVE  reply' \in Replies
  BY <1>2, <1>3, <1>4 DEF HandleBlock, HandleUnblock
<1>5. ASSUME NEW req \in ReqIds, NEW m \in MacArgs, HandleStatus(m, req)
      PROVE  reply' \in Replies
  <2>1. ASSUME m # Absent, NEW s \in np_nft_is_blocked(m),
               Respond(req, "status", m, s >= 0, IF s > 0 THEN {m} ELSE {})
        PROVE  reply' \in Replies
    <3>1. s \in Int /\ (s > 0 => m \in Macs)
      BY <2>1 DEF np_nft_is_blocked
    <3>2. (IF s > 0 THEN {m} ELSE {}) \in SUBSET Macs /\ (s >= 0) \in BOOLEAN
      BY <3>1
    <3>3. QED
      BY <2>1, <3>2, RespondType
  <2>2. QED
    BY <1>2, <1>5, <2>1 DEF HandleStatus
<1>6. ASSUME NEW req \in ReqIds, HandleList(req)
      PROVE  reply' \in Replies
  <2>1. PICK listed \in np_nft_list :
          Respond(IF req = "empty" THEN "id" ELSE req, "list", Absent, TRUE, listed)
    BY <1>6 DEF HandleList
  <2>2. listed \in SUBSET Macs
    BY <1>1 DEF np_nft_list, Fit
  <2>3. QED
    BY <2>1, <2>2, RespondType
<1>7. ASSUME NEW req \in ReqIds, HandlePing(req) \/ HandleUnknown(req)
      PROVE  reply' \in Replies
  <2>1. CASE HandlePing(req)
    BY <2>1 DEF HandlePing, Respond, Reply, Replies
  <2>2. CASE HandleUnknown(req)
    BY <2>2 DEF HandleUnknown, Respond, Reply, Replies
  <2>3. QED
    BY <1>7, <2>1, <2>2
<1>8. QED
  BY <1>4, <1>5, <1>6, <1>7 DEF Commands

----------------------------------------------------------------------------
(* The inductive invariant.                                                *)

\* What np_nft_ensure has achieved when it reaches its last invocation.
SetupInv ==
    /\ phase = "daddr" => hasTable /\ "saddr" \in rules
    /\ ServingEnforced

\* The watcher lives as long as the process, and `prev`, the snapshot and what
\* the events add up to are one list.
WatcherInv ==
    /\ phase # "serving" => firstRun /\ ~republishing
    /\ ~firstRun => prev = snapshot
    /\ FeedMatches
    /\ SnapshotNeverOverstates

RouterInv == RouterTypeOK /\ SetupInv /\ WatcherInv

\* The list of a watcher fresh from calloc is a device table.
LEMMA EmptyTableType == EmptyTable \in Table
<1>1. EmptyTable \in [{} -> Device]
  BY DEF EmptyTable
<1>2. QED
  BY <1>1 DEF Table

\* The invariant holds after boot, before the daemon is started.
LEMMA InitInv == RouterInit => RouterInv
<1> SUFFICES ASSUME RouterInit PROVE RouterInv
  OBVIOUS
<1>1. EmptyTable \in Table
  BY EmptyTableType
<1>2. RouterTypeOK
  BY <1>1 DEF RouterInit, NftInit, LeasesInit, RouterTypeOK, NftTypeOK, LeasesTypeOK,
              Phases, Replies
<1>3. SetupInv /\ WatcherInv
  BY DEF RouterInit, NftInit, LeasesInit, SetupInv, WatcherInv, ServingEnforced,
         FeedMatches, SnapshotNeverOverstates, Settled
<1>4. QED
  BY <1>2, <1>3 DEF RouterInv

\* np_nft_ensure keeps the invariant: a rule that is in place stays until the
\* flush, and the daemon serves only after both have been added.
LEMMA SetupStep == RouterInv /\ Setup => RouterInv'
<1> SUFFICES ASSUME RouterInv, Setup PROVE RouterInv'
  OBVIOUS
<1> USE DEF RouterInv, RouterTypeOK, NftTypeOK, LeasesTypeOK, SetupInv, WatcherInv, Phases,
            Directions, ServingEnforced
<1>1. /\ UNCHANGED <<file, lastStat, firstRun, prev, republishing, snapshot, feed, acked>>
      /\ reply' \in Replies
  BY DEF Setup, leaseVars, watcherVars, Replies
<1>2. ASSUME phase # "serving", NftTypeOK', SetupInv'
      PROVE  RouterInv'
  BY <1>1, <1>2 DEF FeedMatches, SnapshotNeverOverstates, Settled
<1>3. CASE Start
  BY <1>2, <1>3 DEF Start
<1>4. CASE EnsureScript
  BY <1>2, <1>4 DEF EnsureScript
<1>5. CASE EnsureFlush
  BY <1>2, <1>5 DEF EnsureFlush
<1>6. CASE EnsureSaddr
  BY <1>2, <1>6 DEF EnsureSaddr, EnsureRule
<1>7. CASE EnsureDaddr
  BY <1>2, <1>7 DEF EnsureDaddr, EnsureRule
<1>8. QED
  BY <1>3, <1>4, <1>5, <1>6, <1>7 DEF Setup

\* np_handle_message keeps the invariant: a command that changes the set
\* leaves the watcher republishing, so nothing is settled.
LEMMA CommandStep == RouterInv /\ Commands => RouterInv'
<1> SUFFICES ASSUME RouterInv, Commands PROVE RouterInv'
  OBVIOUS
<1> USE DEF RouterInv
<1>1. RouterTypeOK /\ SetupInv /\ WatcherInv
  OBVIOUS
<1>2. Handling /\ HandlerFrame /\ reply' \in Replies
  BY <1>1, CommandEffect, CommandReply
<1>3. SetupInv'
  BY <1>1, <1>2 DEF HandlerFrame, SetupInv, ServingEnforced
<1>4. ASSUME blocked' \in SUBSET Macs, republishing' \in BOOLEAN,
             acked' \in [Macs -> {"none", "block", "unblock"}]
      PROVE  RouterTypeOK'
  BY <1>1, <1>2, <1>4 DEF HandlerFrame, RouterTypeOK, NftTypeOK, LeasesTypeOK
<1>5. CASE UNCHANGED <<blocked, republishing, acked>>
  <2>1. RouterTypeOK'
    BY <1>1, <1>4, <1>5 DEF RouterTypeOK, NftTypeOK, LeasesTypeOK
  <2>2. WatcherInv'
    BY <1>1, <1>2, <1>5 DEF HandlerFrame, WatcherInv, FeedMatches, SnapshotNeverOverstates,
                            Settled, BlockedIn
  <2>3. QED
    BY <1>3, <2>1, <2>2
<1>6. ASSUME NEW m \in Macs, NEW action \in {"block", "unblock"}, Accepted(m, action),
             blocked' \in SUBSET Macs
      PROVE  RouterInv'
  <2>1. RouterTypeOK'
    BY <1>1, <1>4, <1>6 DEF RouterTypeOK, Accepted
  <2>2. WatcherInv'
    BY <1>1, <1>2, <1>6 DEF Handling, HandlerFrame, WatcherInv, FeedMatches,
                            SnapshotNeverOverstates, Settled, Accepted
  <2>3. QED
    BY <1>3, <2>1, <2>2
<1>7. ASSUME NEW m \in Macs, np_nft_block(m, 0) \/ np_nft_unblock(m, 0)
      PROVE  blocked' \in SUBSET Macs
  <2>1. blocked \in SUBSET Macs
    BY <1>1 DEF RouterTypeOK, NftTypeOK
  <2>2. QED
    BY <1>7, <2>1 DEF np_nft_block, np_nft_unblock, AddElement, DeleteElement
<1>8. QED
  BY <1>1, <1>5, <1>6, <1>7, CommandEffect

\* np_leases_republish keeps the invariant: prev and the snapshot are the same
\* list, and the events lead from the list before to it.
LEMMA PublishStep == RouterInv /\ Publish => RouterInv'
<1> SUFFICES ASSUME RouterInv, Publish PROVE RouterInv'
  OBVIOUS
<1> USE DEF RouterInv
<1>1. /\ phase = "serving"
      /\ UNCHANGED <<phase, hasTable, blocked, rules, armed, file, lastStat, acked>>
      /\ firstRun' = FALSE /\ republishing' = FALSE
      /\ reply' \in Replies
  BY DEF Publish, Republish, nftVars, Replies
<1>2. PICK list \in Rebuilds :
        /\ feed' = IF firstRun THEN list ELSE ApplyEvents(feed, Events(prev, list))
        /\ prev' = list
        /\ snapshot' = list
  BY DEF Publish, Republish
<1>3. list \in Table /\ BlockedIn(list) \subseteq blocked
  BY <1>2, RebuildsType
<1>4. feed' = list
  <2>1. CASE firstRun
    BY <1>2, <2>1
  <2>2. CASE ~firstRun
    <3>1. feed = prev
      BY <2>2 DEF WatcherInv, FeedMatches
    <3>2. PICK S \in SUBSET Macs : prev \in [S -> Device]
      BY DEF RouterTypeOK, LeasesTypeOK, Table
    <3>3. PICK T \in SUBSET Macs : list \in [T -> Device]
      BY <1>3 DEF Table
    <3>4. ApplyEvents(prev, Events(prev, list)) = list
      BY <3>2, <3>3, EventsTransform
    <3>5. QED
      BY <1>2, <2>2, <3>1, <3>4
  <2>3. QED
    BY <2>1, <2>2
<1>5. RouterTypeOK'
  BY <1>1, <1>2, <1>3, <1>4 DEF RouterTypeOK, NftTypeOK, LeasesTypeOK
<1>6. SetupInv'
  BY <1>1 DEF SetupInv, ServingEnforced
<1>7. WatcherInv'
  BY <1>1, <1>2, <1>3, <1>4 DEF WatcherInv, FeedMatches, SnapshotNeverOverstates, Settled
<1>8. QED
  BY <1>5, <1>6, <1>7

\* np_leases_poll up to the republish keeps the invariant: it changes neither
\* prev nor the snapshot.
LEMMA PollStep == RouterInv /\ Poll => RouterInv'
<1> SUFFICES ASSUME RouterInv, Poll PROVE RouterInv'
  OBVIOUS
<1> USE DEF RouterInv
<1>1. /\ phase = "serving"
      /\ UNCHANGED <<nftVars, acked, file, firstRun, prev, snapshot, feed>>
      /\ reply' \in Replies
  BY DEF Poll, PollStat, Replies
<1>2. StatOf(file) \in Nat \X Nat
  <2>1. file.mtime \in Nat /\ file.lines \in Seq(Line)
    <3>1. file.mtime \in Nat /\ file.lines \in LeaseFiles \cup {<<>>}
      BY DEF RouterTypeOK, LeasesTypeOK
    <3>2. <<>> \in Seq(Line)
      OBVIOUS
    <3>3. QED
      BY <3>1, <3>2, LeasesAssumption
  <2>2. Len(file.lines) \in Nat
    BY <2>1
  <2>3. QED
    BY <2>1, <2>2 DEF StatOf
<1>3. lastStat' \in Nat \X Nat
  BY <1>2 DEF Poll, PollStat, RouterTypeOK, LeasesTypeOK
<1>4. republishing' \in BOOLEAN /\ ~republishing
  BY DEF Poll, PollStat, RouterTypeOK, LeasesTypeOK
<1>5. RouterTypeOK'
  BY <1>1, <1>3, <1>4 DEF RouterTypeOK, NftTypeOK, LeasesTypeOK, nftVars
<1>6. SetupInv'
  BY <1>1 DEF SetupInv, ServingEnforced, nftVars
<1>7. WatcherInv'
  BY <1>1, <1>4 DEF WatcherInv, FeedMatches, SnapshotNeverOverstates, Settled, nftVars,
                    BlockedIn
<1>8. QED
  BY <1>5, <1>6, <1>7

\* dnsmasq writing or removing the lease file keeps the invariant.
LEMMA DnsmasqStep == RouterInv /\ Dnsmasq => RouterInv'
<1> SUFFICES ASSUME RouterInv, Dnsmasq PROVE RouterInv'
  OBVIOUS
<1> USE DEF RouterInv
<1>1. /\ UNCHANGED <<nftVars, acked, lastStat, firstRun, prev, republishing, snapshot, feed>>
      /\ reply' \in Replies
  BY DEF Dnsmasq, LeaseWrite, LeaseRemove, watcherVars, Replies
<1>2. file' \in [exists : BOOLEAN, lines : LeaseFiles \cup {<<>>}, mtime : Nat]
  <2>1. CASE LeaseWrite
    BY <2>1, LeasesAssumption DEF LeaseWrite
  <2>2. CASE LeaseRemove
    BY <2>2 DEF LeaseRemove, RouterTypeOK, LeasesTypeOK
  <2>3. QED
    BY <2>1, <2>2 DEF Dnsmasq
<1>3. RouterTypeOK'
  BY <1>1, <1>2 DEF RouterTypeOK, NftTypeOK, LeasesTypeOK, nftVars
<1>4. SetupInv' /\ WatcherInv'
  BY <1>1 DEF SetupInv, ServingEnforced, WatcherInv, FeedMatches, SnapshotNeverOverstates,
              Settled, nftVars
<1>5. QED
  BY <1>3, <1>4

\* The end of the process and a reboot keep the invariant: the next watcher
\* starts from nothing and is not settled before its first publication.
LEMMA EndStep == RouterInv /\ (Die \/ PowerCycle) => RouterInv'
<1> SUFFICES ASSUME RouterInv, Die \/ PowerCycle PROVE RouterInv'
  OBVIOUS
<1> USE DEF RouterInv
<1>1. phase' = "off" /\ WatcherReset /\ reply' \in Replies /\ UNCHANGED <<snapshot, acked>>
  BY DEF Die, Exit, PowerCycle, Reboot, Replies
<1>2. EmptyTable \in Table
  BY EmptyTableType
<1>3. NftTypeOK'
  <2>1. CASE Die
    BY <2>1 DEF Die, Exit, kernel, RouterTypeOK, NftTypeOK, Phases
  <2>2. CASE PowerCycle
    BY <2>2 DEF PowerCycle, Reboot, NftTypeOK, Phases
  <2>3. QED
    BY <2>1, <2>2
<1>4. file' \in [exists : BOOLEAN, lines : LeaseFiles \cup {<<>>}, mtime : Nat]
  <2>1. CASE Die
    BY <2>1 DEF Die, RouterTypeOK, LeasesTypeOK
  <2>2. CASE PowerCycle
    BY <2>2 DEF PowerCycle, RouterTypeOK, LeasesTypeOK
  <2>3. QED
    BY <2>1, <2>2
<1>5. RouterTypeOK'
  BY <1>1, <1>2, <1>3, <1>4 DEF RouterTypeOK, LeasesTypeOK, WatcherReset
<1>6. SetupInv' /\ WatcherInv'
  BY <1>1 DEF WatcherReset, SetupInv, ServingEnforced, WatcherInv, FeedMatches,
              SnapshotNeverOverstates, Settled
<1>7. QED
  BY <1>5, <1>6

\* A message np_handle_message drops changes nothing.
LEMMA StutterStep == RouterInv /\ UNCHANGED routerVars => RouterInv'
BY DEF RouterInv, RouterTypeOK, NftTypeOK, LeasesTypeOK, SetupInv, ServingEnforced,
       WatcherInv, FeedMatches, SnapshotNeverOverstates, Settled, BlockedIn,
       routerVars, nftVars, leaseVars, watcherVars

\* RouterInv is an inductive invariant of the daemon: the setup and the
\* watcher stay consistent whatever nft, dnsmasq, the broker and crashes do.
THEOREM Invariance == RouterSpec => []RouterInv
<1>1. RouterInit => RouterInv
  BY InitInv
<1>2. RouterInv /\ [RouterNext]_routerVars => RouterInv'
  BY SetupStep, CommandStep, PublishStep, PollStep, DnsmasqStep, EndStep, StutterStep
  DEF RouterNext
<1>3. QED
  BY <1>1, <1>2, PTL DEF RouterSpec

----------------------------------------------------------------------------
(* The properties of the daemon.                                           *)

\* Every variable keeps its type.
THEOREM TypeCorrect == RouterSpec => []RouterTypeOK
<1>1. RouterInv => RouterTypeOK
  BY DEF RouterInv
<1>2. QED
  BY <1>1, Invariance, PTL

\* Commands are only served behind both drop rules, however nft fails and
\* wherever an earlier start was cut off (np_nft_ensure, main.c:65-69).
THEOREM ServingIsEnforced == RouterSpec => []ServingEnforced
<1>1. RouterInv => ServingEnforced
  BY DEF RouterInv, SetupInv
<1>2. QED
  BY <1>1, Invariance, PTL

\* The settled snapshot never calls a MAC blocked that is not, for every size
\* of the two buffers and whatever nft fails at.
THEOREM SnapshotSound == RouterSpec => []SnapshotNeverOverstates
<1>1. RouterInv => SnapshotNeverOverstates
  BY DEF RouterInv, WatcherInv
<1>2. QED
  BY <1>1, Invariance, PTL

\* Snapshot and events agree: applying diff_and_emit's events to the list
\* published before gives the list published after.
THEOREM FeedFollows == RouterSpec => []FeedMatches
<1>1. RouterInv => FeedMatches
  BY DEF RouterInv, WatcherInv
<1>2. QED
  BY <1>1, Invariance, PTL

\* A MAC that was accepted for blocking stays in the set until an unblock of it
\* is accepted: across every death and restart of the daemon at any step of
\* np_nft_ensure, and whatever nft fails at, as long as the router is not
\* rebooted.
THEOREM BlockIsKept == ASSUME ~Reboots PROVE RouterSpec => []AckedBlock
<1>1. RouterInit => AckedBlock
  BY DEF RouterInit, AckedBlock
<1>2. RouterTypeOK /\ AckedBlock /\ [RouterNext]_routerVars => AckedBlock'
  <2> SUFFICES ASSUME RouterTypeOK, AckedBlock, [RouterNext]_routerVars PROVE AckedBlock'
    OBVIOUS
  <2>1. CASE UNCHANGED <<blocked, acked>>
    BY <2>1 DEF AckedBlock
  <2>2. CASE Commands
    <3>1. ASSUME NEW m \in Macs, np_nft_block(m, 0), Accepted(m, "block")
          PROVE  AckedBlock'
      BY <3>1 DEF np_nft_block, AddElement, Accepted, AckedBlock, RouterTypeOK
    <3>2. ASSUME NEW m \in Macs, np_nft_unblock(m, 0), Accepted(m, "unblock")
          PROVE  AckedBlock'
      BY <3>2 DEF np_nft_unblock, DeleteElement, Accepted, AckedBlock, RouterTypeOK
    <3>3. QED
      BY <2>1, <2>2, <3>1, <3>2, CommandEffect
  <2>3. CASE Setup \/ Poll \/ Publish \/ Dnsmasq \/ Die
    BY <2>1, <2>3 DEF Setup, Start, EnsureScript, EnsureFlush, EnsureSaddr, EnsureDaddr,
                      EnsureRule, Poll, Publish, Dnsmasq, Die, Exit, kernel, nftVars
  <2>4. CASE UNCHANGED routerVars
    BY <2>1, <2>4 DEF routerVars, nftVars
  <2>5. ~PowerCycle
    BY DEF PowerCycle
  <2>6. QED
    BY <2>2, <2>3, <2>4, <2>5 DEF RouterNext
<1>3. QED
  BY <1>1, <1>2, TypeCorrect, PTL DEF RouterSpec

\* When nft answers, a MAC accepted for unblocking is out of the set until a
\* block of it is accepted, also across reboots.
THEOREM UnblockIsKept == ASSUME ~NftFaults PROVE RouterSpec => []AckedUnblock
<1>1. RouterInit => AckedUnblock
  BY DEF RouterInit, AckedUnblock
<1>2. RouterTypeOK /\ AckedUnblock /\ [RouterNext]_routerVars => AckedUnblock'
  <2> SUFFICES ASSUME RouterTypeOK, AckedUnblock, [RouterNext]_routerVars
               PROVE  AckedUnblock'
    OBVIOUS
  <2>1. CASE UNCHANGED <<blocked, acked>>
    BY <2>1 DEF AckedUnblock
  <2>2. CASE Commands
    <3>1. ASSUME NEW m \in Macs, np_nft_block(m, 0), Accepted(m, "block")
          PROVE  AckedUnblock'
      BY <3>1 DEF np_nft_block, AddElement, Accepted, AckedUnblock, RouterTypeOK
    <3>2. ASSUME NEW m \in Macs, np_nft_unblock(m, 0), Accepted(m, "unblock")
          PROVE  AckedUnblock'
      BY <3>2 DEF np_nft_unblock, DeleteElement, Accepted, AckedUnblock, RouterTypeOK
    <3>3. QED
      BY <2>1, <2>2, <3>1, <3>2, CommandEffect
  <2>3. CASE Setup \/ Poll \/ Publish \/ Dnsmasq \/ Die
    BY <2>1, <2>3 DEF Setup, Start, EnsureScript, EnsureFlush, EnsureSaddr, EnsureDaddr,
                      EnsureRule, Poll, Publish, Dnsmasq, Die, Exit, kernel, nftVars
  <2>4. CASE PowerCycle
    BY <2>4 DEF PowerCycle, Reboot, AckedUnblock
  <2>5. CASE UNCHANGED routerVars
    BY <2>1, <2>5 DEF routerVars, nftVars
  <2>6. QED
    BY <2>2, <2>3, <2>4, <2>5 DEF RouterNext
<1>3. QED
  BY <1>1, <1>2, TypeCorrect, PTL DEF RouterSpec

\* When dnsmasq's writes show in mtime or size, a settled watcher whose last
\* stat is the file's has published what the file says now, although it reads
\* the file after the stat and both change in between.
THEOREM SnapshotIsCurrent == ASSUME ~SameSecond PROVE RouterSpec => []SnapshotCurrent
<1>1. RouterInit => SnapshotCurrent
  BY DEF RouterInit, NftInit, SnapshotCurrent, Settled
<1>2. RouterInv /\ SnapshotCurrent /\ [RouterNext]_routerVars => SnapshotCurrent'
  <2> SUFFICES ASSUME RouterInv, SnapshotCurrent, [RouterNext]_routerVars
               PROVE  SnapshotCurrent'
    OBVIOUS
  <2>1. UNCHANGED <<file, blocked>> => UNCHANGED Rebuilds
    BY DEF Rebuilds, np_nft_list, Marks, np_nft_is_blocked
  <2>2. CASE UNCHANGED <<phase, republishing, firstRun, file, blocked, lastStat, snapshot>>
    BY <2>1, <2>2 DEF SnapshotCurrent, Settled, StatOf
  <2>3. CASE Setup
    BY <2>3 DEF Setup, SnapshotCurrent, Settled, leaseVars, watcherVars, RouterInv,
                WatcherInv, Start, EnsureScript, EnsureFlush, EnsureSaddr, EnsureDaddr,
                EnsureRule
  <2>4. CASE Commands
    <3>1. HandlerFrame
      BY <2>4, CommandEffect DEF RouterInv
    <3>2. CASE UNCHANGED <<blocked, republishing, acked>>
      BY <2>2, <3>1, <3>2 DEF HandlerFrame
    <3>3. CASE republishing'
      BY <3>3 DEF SnapshotCurrent, Settled
    <3>4. QED
      BY <2>4, <3>2, <3>3, CommandEffect DEF Accepted, RouterInv
  <2>5. CASE Poll
    <3>1. CASE republishing'
      BY <3>1 DEF SnapshotCurrent, Settled
    <3>2. CASE ~republishing'
      <4>1. lastStat' = lastStat /\ ~republishing
        BY <2>5, <3>2 DEF Poll, PollStat
      <4>2. UNCHANGED <<phase, firstRun, file, blocked, snapshot>>
        BY <2>5 DEF Poll, PollStat, nftVars
      <4>3. QED
        BY <2>1, <3>2, <4>1, <4>2 DEF SnapshotCurrent, Settled, StatOf
    <3>3. QED
      BY <3>1, <3>2
  <2>6. CASE Publish
    BY <2>1, <2>6 DEF Publish, Republish, nftVars, SnapshotCurrent
  <2>7. CASE Dnsmasq
    <3>1. CASE LeaseWrite
      BY <3>1 DEF LeaseWrite, watcherVars, SnapshotCurrent, StatOf
    <3>2. CASE LeaseRemove
      BY <3>2 DEF LeaseRemove, SnapshotCurrent
    <3>3. QED
      BY <2>7, <3>1, <3>2 DEF Dnsmasq
  <2>8. CASE Die \/ PowerCycle
    BY <2>8 DEF Die, Exit, PowerCycle, Reboot, SnapshotCurrent, Settled
  <2>9. CASE UNCHANGED routerVars
    BY <2>2, <2>9 DEF routerVars, nftVars, leaseVars, watcherVars
  <2>10. QED
    BY <2>3, <2>4, <2>5, <2>6, <2>7, <2>8, <2>9 DEF RouterNext
<1>3. QED
  BY <1>1, <1>2, Invariance, PTL DEF RouterSpec

----------------------------------------------------------------------------
(* A working nft and buffers with room.                                    *)

Roomy == Cardinality(Macs) <= ListRoom /\ Cardinality(Macs) <= MaxDevices

(* Buffers with room.                                                      *)

\* A buffer with room for S holds all of S.
LEMMA FitsWhole ==
    ASSUME NEW S, IsFiniteSet(S), NEW n, Cardinality(S) <= n
    PROVE  Fit(S, n) = {S}
<1>1. \A T \in SUBSET S : Cardinality(T) = Cardinality(S) => T = S
  BY FS_Subset
<1> QED BY <1>1 DEF Fit

\* np_nft_list names the whole set.
LEMMA ListingWhole ==
    ASSUME ~NftFaults, Roomy, RouterTypeOK
    PROVE  np_nft_list = {blocked}
<1>1. IsFiniteSet(Macs) /\ blocked \in SUBSET Macs
  BY MacAssumption DEF RouterTypeOK, NftTypeOK
<1>2. IsFiniteSet(blocked) /\ Cardinality(blocked) <= Cardinality(Macs)
  BY <1>1, FS_Subset
<1>3. Cardinality(blocked) \in Nat /\ Cardinality(Macs) \in Nat
  BY <1>1, <1>2, FS_CardinalityType
<1>4. Cardinality(blocked) <= ListRoom
  BY <1>2, <1>3, NftAssumption DEF Roomy
<1> QED BY <1>2, <1>4, FitsWhole DEF np_nft_list

\* Every list rebuild() may come to marks exactly the kernel's set: what the
\* lease file does not name finds room behind it.
LEMMA RebuildsExact ==
    ASSUME ~NftFaults, Roomy, RouterTypeOK, NEW list \in Rebuilds
    PROVE  BlockedIn(list) = blocked
<1> DEFINE K == Kept(file.lines)
<1>1. np_nft_list = {blocked}
  BY ListingWhole
<1>2. PICK S \in KeptOrListed(file.lines, blocked), marked \in Marks :
        list = TableOf(file.lines, S, blocked, marked)
  BY <1>1 DEF Rebuilds
<1>3. marked \subseteq blocked
  BY <1>2 DEF Marks, np_nft_is_blocked
<1>4. K \subseteq Macs /\ blocked \subseteq Macs /\ IsFiniteSet(Macs)
  <2>1. file.lines \in LeaseFiles \cup {<<>>}
    BY DEF RouterTypeOK, LeasesTypeOK
  <2>2. <<>> \in Seq(Line)
    OBVIOUS
  <2>3. file.lines \in Seq(Line)
    BY <2>1, <2>2, LeasesAssumption
  <2> QED BY <2>3, LinesType, MacAssumption DEF RouterTypeOK, NftTypeOK
<1> HIDE DEF K
<1>5. Fit(blocked \ K, MaxDevices - Cardinality(K)) = {blocked \ K}
  <2>1. IsFiniteSet(K) /\ IsFiniteSet(blocked \ K) /\ IsFiniteSet(K \cup (blocked \ K))
    BY <1>4, FS_Subset
  <2>2. Cardinality(K \cup (blocked \ K)) <= Cardinality(Macs)
    BY <1>4, FS_Subset
  <2>3. K \cap (blocked \ K) = {}
    OBVIOUS
  <2>4. Cardinality(K \cup (blocked \ K))
           = Cardinality(K) + Cardinality(blocked \ K) - Cardinality(K \cap (blocked \ K))
    BY <2>1, FS_Union
  <2>5. /\ Cardinality(K) \in Nat /\ Cardinality(blocked \ K) \in Nat
        /\ Cardinality(Macs) \in Nat
    BY <1>4, <2>1, FS_CardinalityType
  <2>6. Cardinality({}) = 0
    BY FS_EmptySet
  <2>7. Cardinality(blocked \ K) <= MaxDevices - Cardinality(K)
    BY <2>2, <2>3, <2>4, <2>5, <2>6, DeviceAssumption DEF Roomy
  <2> QED BY <2>1, <2>7, FitsWhole
<1>6. S = K \cup (blocked \ K)
  BY <1>2, <1>5 DEF KeptOrListed, K
<1> QED BY <1>2, <1>3, <1>6 DEF BlockedIn, TableOf

----------------------------------------------------------------------------
(* The results.                                                            *)

\* A restart puts the rules in place again, wherever the run before was cut
\* off: without faults flush and the two rules only run behind the script.
THEOREM RulesStay == ASSUME ~NftFaults PROVE RouterSpec => []StaysEnforced
<1> DEFINE Inv == (phase \in {"flush", "saddr", "daddr"} => hasTable) /\ StaysEnforced
<1>1. RouterInit => Inv
  BY DEF RouterInit, NftInit, StaysEnforced
<1>2. RouterInv /\ Inv /\ [RouterNext]_routerVars => Inv'
  <2> SUFFICES ASSUME RouterInv, Inv, [RouterNext]_routerVars PROVE Inv'
    OBVIOUS
  <2> USE DEF StaysEnforced, Directions
  <2>1. RouterTypeOK /\ rules \in SUBSET Directions
    BY DEF RouterInv, RouterTypeOK, NftTypeOK
  <2>2. CASE Setup
    <3>1. CASE Start
      BY <3>1 DEF Start
    <3>2. CASE EnsureScript
      BY <3>2 DEF EnsureScript
    <3>3. CASE EnsureFlush
      BY <3>3 DEF EnsureFlush
    <3>4. CASE EnsureSaddr
      BY <3>4 DEF EnsureSaddr, EnsureRule
    <3>5. CASE EnsureDaddr
      <4>1. hasTable /\ "saddr" \in rules
        BY <3>5 DEF EnsureDaddr, EnsureRule, RouterInv, SetupInv
      <4> QED BY <2>1, <3>5, <4>1 DEF EnsureDaddr, EnsureRule
    <3> QED BY <2>2, <3>1, <3>2, <3>3, <3>4, <3>5 DEF Setup
  <2>3. CASE Commands
    BY <2>1, <2>3, CommandEffect DEF HandlerFrame
  <2>4. CASE Poll \/ Publish \/ Dnsmasq \/ UNCHANGED routerVars
    BY <2>4 DEF Poll, Publish, Dnsmasq, routerVars, nftVars
  <2>5. CASE Die
    BY <2>5 DEF Die, Exit, kernel
  <2>6. CASE PowerCycle
    BY <2>6 DEF PowerCycle, Reboot
  <2> QED BY <2>2, <2>3, <2>4, <2>5, <2>6 DEF RouterNext
<1>3. Inv => StaysEnforced
  OBVIOUS
<1> QED BY <1>1, <1>2, <1>3, Invariance, PTL DEF RouterSpec

\* The settled snapshot marks exactly the kernel's set: a command that changes
\* the set has a republish ahead of it, which reads the whole set.
THEOREM SnapshotIsExact == ASSUME ~NftFaults, Roomy PROVE RouterSpec => []SnapshotAccurate
<1>1. RouterInit => SnapshotAccurate
  BY DEF RouterInit, NftInit, SnapshotAccurate, Settled
<1>2. RouterInv /\ SnapshotAccurate /\ [RouterNext]_routerVars => SnapshotAccurate'
  <2> SUFFICES ASSUME RouterInv, SnapshotAccurate, [RouterNext]_routerVars
               PROVE  SnapshotAccurate'
    OBVIOUS
  <2> USE DEF SnapshotAccurate, Settled
  <2>1. RouterTypeOK
    BY DEF RouterInv
  <2>2. CASE Setup
    BY <2>2 DEF Setup, leaseVars, watcherVars, RouterInv, WatcherInv, Start, EnsureScript,
                EnsureFlush, EnsureSaddr, EnsureDaddr, EnsureRule
  <2>3. CASE Commands
    <3>1. HandlerFrame
      BY <2>1, <2>3, CommandEffect
    <3>2. CASE UNCHANGED <<blocked, republishing, acked>>
      BY <3>1, <3>2 DEF HandlerFrame, BlockedIn
    <3>3. CASE republishing'
      BY <3>3
    <3> QED BY <2>1, <2>3, <3>2, <3>3, CommandEffect DEF Accepted
  <2>4. CASE Poll
    BY <2>4 DEF Poll, PollStat, nftVars, BlockedIn
  <2>5. CASE Publish
    <3>1. snapshot' \in Rebuilds /\ blocked' = blocked
      BY <2>5 DEF Publish, Republish, nftVars
    <3>2. BlockedIn(snapshot') = blocked
      BY <2>1, <3>1, RebuildsExact
    <3> QED BY <3>1, <3>2 DEF BlockedIn
  <2>6. CASE Dnsmasq
    BY <2>6 DEF Dnsmasq, LeaseWrite, LeaseRemove, watcherVars, nftVars, BlockedIn
  <2>7. CASE Die \/ PowerCycle
    BY <2>7 DEF Die, Exit, PowerCycle, Reboot
  <2>8. CASE UNCHANGED routerVars
    BY <2>8 DEF routerVars, nftVars, leaseVars, watcherVars, BlockedIn
  <2> QED BY <2>2, <2>3, <2>4, <2>5, <2>6, <2>7, <2>8 DEF RouterNext
<1> QED BY <1>1, <1>2, Invariance, PTL DEF RouterSpec

\* The daemon implements BlockList: who watches the set and the retained
\* snapshot sees one MAC change at a time, and the snapshot only ever become
\* the set as it is.
THEOREM RouterShowsBlockList == ASSUME ~NftFaults, Roomy PROVE RouterSpec => ShowsBlockList
<1>1. RouterInit => BlockListSeen!Init
  BY DEF RouterInit, NftInit, LeasesInit, BlockListSeen!Init, BlockedIn, EmptyTable
<1>2. RouterTypeOK /\ [RouterNext]_routerVars => [BlockListSeen!Next]_(BlockListSeen!vars)
  <2> SUFFICES ASSUME RouterTypeOK, [RouterNext]_routerVars
               PROVE  BlockListSeen!Next \/ UNCHANGED BlockListSeen!vars
    OBVIOUS
  <2>1. UNCHANGED <<blocked, snapshot>> => UNCHANGED BlockListSeen!vars
    BY DEF BlockListSeen!vars, BlockedIn
  <2>2. CASE Setup
    BY <2>1, <2>2 DEF Setup, leaseVars, Start, EnsureScript, EnsureFlush, EnsureSaddr,
                      EnsureDaddr, EnsureRule
  <2>3. CASE Commands
    <3>1. snapshot' = snapshot
      BY <2>3, CommandEffect DEF HandlerFrame
    <3>2. BlockedIn(snapshot') = BlockedIn(snapshot)
      BY <3>1
    <3>3. CASE UNCHANGED blocked
      BY <2>1, <3>1, <3>3
    <3>4. ASSUME NEW m \in Macs, np_nft_block(m, 0) PROVE BlockListSeen!Next
      <4>1. blocked' = blocked \cup {m}
        BY <3>4, MacAssumption DEF np_nft_block, AddElement
      <4>2. BlockListSeen!Block(m)
        BY <3>2, <4>1 DEF BlockListSeen!Block, BlockedIn
      <4> QED BY <4>2 DEF BlockListSeen!Next
    <3>5. ASSUME NEW m \in Macs, np_nft_unblock(m, 0) PROVE BlockListSeen!Next
      <4>1. blocked' = blocked \ {m}
        BY <3>5, MacAssumption DEF np_nft_unblock, DeleteElement
      <4>2. BlockListSeen!Unblock(m)
        BY <3>2, <4>1 DEF BlockListSeen!Unblock, BlockedIn
      <4> QED BY <4>2 DEF BlockListSeen!Next
    <3> QED BY <2>3, <3>3, <3>4, <3>5, CommandEffect
  <2>4. CASE Publish
    <3>1. snapshot' \in Rebuilds /\ blocked' = blocked
      BY <2>4 DEF Publish, Republish, nftVars
    <3>2. BlockedIn(snapshot') = blocked
      BY <3>1, RebuildsExact
    <3>3. BlockListSeen!Show
      BY <3>1, <3>2 DEF BlockListSeen!Show, BlockedIn
    <3> QED BY <3>3 DEF BlockListSeen!Next
  <2>5. CASE Poll \/ Dnsmasq \/ Die
    BY <2>1, <2>5 DEF Poll, PollStat, Dnsmasq, LeaseWrite, LeaseRemove, Die, Exit, kernel, nftVars
  <2>6. CASE PowerCycle
    <3>1. snapshot' = snapshot /\ blocked' = {}
      BY <2>6 DEF PowerCycle, Reboot
    <3>2. BlockListSeen!Lose
      BY <3>1 DEF BlockListSeen!Lose, BlockedIn
    <3> QED BY <3>2 DEF BlockListSeen!Next
  <2>7. CASE UNCHANGED routerVars
    BY <2>1, <2>7 DEF routerVars, nftVars, leaseVars
  <2> QED BY <2>2, <2>3, <2>4, <2>5, <2>6, <2>7 DEF RouterNext
<1> QED BY <1>1, <1>2, TypeCorrect, PTL DEF RouterSpec, ShowsBlockList, BlockListSeen!Spec
=============================================================================

------------------------------- MODULE Router ------------------------------
(***************************************************************************)
(* The router daemon: the command handler (src/src/handler.c) on top of    *)
(* nftables (Nft) and the lease watcher (Leases), driven by the single     *)
(* thread of np_mqtt_run (src/src/mqtt.c).                                 *)
(*                                                                         *)
(* A command is one action up to the call of np_leases_republish; that     *)
(* call is the action Republish, so the daemon may die, and the lease file *)
(* may change, between a reply and the snapshot that follows it.           *)
(* Messages np_handle_message drops (another topic, a payload that is not  *)
(* JSON) change nothing and are stuttering steps.                          *)
(***************************************************************************)
EXTENDS Leases

CONSTANTS
    Reboots     \* TRUE: the router may reboot

ASSUME RouterAssumption == Reboots \in BOOLEAN

VARIABLES
    reply,      \* the response this step published, or NoReply
    acked       \* history: the command on each MAC that was answered last with
                \* ok:true, or would have been had it carried a req_id

routerVars == <<nftVars, leaseVars, reply, acked>>

\* The mac member of a command: absent (or not a string), not a MAC, or a MAC
\* in any notation np_mac_normalize accepts.
Absent == "absent"
MacArgs == Macs \cup {NoMac, Absent}

\* The req_id member: absent, the empty string, or an id.
ReqIds == {"absent", "empty", "id"}

\* A response: its req_id tells the caller which command (action, mac) it
\* answers; `macs` are the MACs it calls blocked.
Actions == {"block", "unblock", "status", "list", "ping", "unknown"}
Reply(action, m, ok, macs) == [action |-> action, mac |-> m, ok |-> ok, macs |-> macs]
NoReply == Reply("none", Absent, FALSE, {})
Replies == [action : Actions, mac : MacArgs, ok : BOOLEAN, macs : SUBSET Macs]
               \cup {NoReply}

\* reply(): nothing is published without a req_id.
Respond(req, action, m, ok, macs) ==
    reply' = IF req = "id" THEN Reply(action, m, ok, macs) ELSE NoReply

RouterTypeOK ==
    /\ NftTypeOK
    /\ LeasesTypeOK
    /\ reply \in Replies
    /\ acked \in [Macs -> {"none", "block", "unblock"}]

RouterInit ==
    /\ NftInit
    /\ LeasesInit
    /\ reply = NoReply
    /\ acked = [m \in Macs |-> "none"]

----------------------------------------------------------------------------
(* The command handler.                                                    *)

\* np_mqtt_run has called on_message and nothing else is under way.
Handling == phase = "serving" /\ ~republishing

\* Kernel and watcher are left alone; republishing is for the caller.
HandlerFrame ==
    UNCHANGED <<phase, hasTable, rules, armed, file, lastStat, firstRun, prev,
                snapshot, feed>>

\* The three answers of block and unblock; `ret` is what np_nft_... returned.
Answer(action, m, req, ret) ==
    /\ Respond(req, action, m, ret = 0, {})
    /\ republishing' = (ret = 0)
    /\ acked' = IF ret = 0 THEN [acked EXCEPT ![m] = action] ELSE acked

MacRequired(action, req) ==
    /\ Respond(req, action, Absent, FALSE, {})
    /\ UNCHANGED <<blocked, republishing, acked>>

HandleBlock(m, req) ==
    /\ Handling
    /\ \/ m = Absent /\ MacRequired("block", req)
       \/ m # Absent /\ \E ret \in {-1, 0, 1} :
             np_nft_block(m, ret) /\ Answer("block", m, req, ret)
    /\ HandlerFrame

\* Mutant: np_nft_block is called, as in the branch it was copied from.
HandleUnblockCopied(m, req) ==
    /\ Handling
    /\ \/ m = Absent /\ MacRequired("unblock", req)
       \/ m # Absent /\ \E ret \in {-1, 0, 1} :
             np_nft_block(m, ret) /\ Answer("unblock", m, req, ret)
    /\ HandlerFrame

\* Mutant: the command is answered and the snapshot is left to the next poll.
HandleUnblockNoRepublish(m, req) ==
    /\ Handling
    /\ \/ m = Absent /\ MacRequired("unblock", req)
       \/ m # Absent /\ \E ret \in {-1, 0, 1} :
             /\ np_nft_unblock(m, ret)
             /\ Respond(req, "unblock", m, ret = 0, {})
             /\ acked' = IF ret = 0 THEN [acked EXCEPT ![m] = "unblock"] ELSE acked
             /\ UNCHANGED republishing
    /\ HandlerFrame

HandleUnblock(m, req) ==
    /\ Handling
    /\ \/ m = Absent /\ MacRequired("unblock", req)
       \/ m # Absent /\ \E ret \in {-1, 0, 1} :
             np_nft_unblock(m, ret) /\ Answer("unblock", m, req, ret)
    /\ HandlerFrame

HandleStatus(m, req) ==
    /\ Handling
    /\ \/ m = Absent /\ MacRequired("status", req)
       \/ /\ m # Absent
          /\ \E s \in np_nft_is_blocked(m) :
                Respond(req, "status", m, s >= 0, IF s > 0 THEN {m} ELSE {})
          /\ UNCHANGED <<blocked, republishing, acked>>
    /\ HandlerFrame

\* The one command that answers an empty req_id too, and is never in error.
HandleList(req) ==
    /\ Handling
    /\ \E listed \in np_nft_list :
          Respond(IF req = "empty" THEN "id" ELSE req, "list", Absent, TRUE, listed)
    /\ UNCHANGED <<blocked, republishing, acked>>
    /\ HandlerFrame

HandlePing(req) ==
    /\ Handling
    /\ Respond(req, "ping", Absent, TRUE, {})
    /\ UNCHANGED <<blocked, republishing, acked>>
    /\ HandlerFrame

HandleUnknown(req) ==
    /\ Handling
    /\ Respond(req, "unknown", Absent, FALSE, {})
    /\ UNCHANGED <<blocked, republishing, acked>>
    /\ HandlerFrame

----------------------------------------------------------------------------
(* The daemon and its environment.                                         *)

Setup ==
    /\ Start \/ EnsureScript \/ EnsureFlush \/ EnsureSaddr \/ EnsureDaddr
    /\ reply' = NoReply
    /\ UNCHANGED <<leaseVars, acked>>

\* The tick of np_mqtt_run.
Poll ==
    /\ phase = "serving"
    /\ PollStat
    /\ reply' = NoReply
    /\ UNCHANGED <<nftVars, acked>>

Publish ==
    /\ phase = "serving"
    /\ Republish
    /\ reply' = NoReply
    /\ UNCHANGED <<nftVars, acked>>

Dnsmasq ==
    /\ LeaseWrite \/ LeaseRemove
    /\ reply' = NoReply
    /\ UNCHANGED <<nftVars, acked>>

\* Mutant: main() flushes the chain on its way out.
DieCleaning ==
    /\ phase # "off"
    /\ phase' = "off"
    /\ rules' = {}
    /\ armed' = (armed /\ phase = "serving")
    /\ WatcherReset
    /\ reply' = NoReply
    /\ UNCHANGED <<hasTable, blocked, file, snapshot, acked>>

\* The daemon ends; the kernel, the lease file and the retained snapshot stay.
Die ==
    /\ Exit
    /\ WatcherReset
    /\ reply' = NoReply
    /\ UNCHANGED <<file, snapshot, acked>>

\* /tmp is gone as well.  Only the broker's copy of the snapshot survives.
PowerCycle ==
    /\ Reboots
    /\ Reboot
    /\ WatcherReset
    /\ file' = [exists |-> FALSE, lines |-> <<>>, mtime |-> file.mtime]
    /\ reply' = NoReply
    /\ UNCHANGED <<snapshot, acked>>

Commands ==
    \E req \in ReqIds :
        \/ \E m \in MacArgs :
              HandleBlock(m, req) \/ HandleUnblock(m, req) \/ HandleStatus(m, req)
        \/ HandleList(req) \/ HandlePing(req) \/ HandleUnknown(req)

RouterNext == Setup \/ Commands \/ Poll \/ Publish \/ Dnsmasq \/ Die \/ PowerCycle

RouterSpec == RouterInit /\ [][RouterNext]_routerVars

\* mosquitto_loop returns after a bounded number of packets, so the tick runs
\* again and again however many commands arrive; a republish that was started
\* goes on.
RouterFairness == SF_routerVars(Poll) /\ WF_routerVars(Publish)

RouterFairSpec == RouterSpec /\ RouterFairness

----------------------------------------------------------------------------
(* Properties.                                                             *)

\* The watcher has nothing left to do for what it has seen.
Settled == phase = "serving" /\ ~republishing /\ ~firstRun

\* A MAC whose last accepted command was `block` is in the kernel's set, also
\* after the daemon died and started again at any moment in between: neither
\* np_nft_ensure nor a command on another MAC takes it out, and a failed
\* unblock changes neither.  README.md:21 promises it across reboots as well.
AckedBlock == \A m \in Macs : acked[m] = "block" => m \in blocked

\* A MAC whose last accepted command was `unblock` is not in the set.  It needs
\* nft not to fail: np_nft_unblock returns 0 whatever nft said (nft.c:176-180).
AckedUnblock == \A m \in Macs : acked[m] = "unblock" => m \notin blocked

\* What the dashboard shows as blocked is blocked: once the watcher is settled
\* the retained snapshot never calls a MAC blocked that the kernel lets
\* through, even if nft fails or one of the two buffers is too small.
SnapshotNeverOverstates == Settled => BlockedIn(snapshot) \subseteq blocked

\* leases.h:22-23, "so the cached snapshot stays accurate": when nft answers and
\* the list has room, the settled snapshot marks exactly the kernel's set.
SnapshotAccurate == Settled => BlockedIn(snapshot) = blocked

\* Whoever took the first snapshot of an incarnation and applied every event
\* since has the snapshot published last: diff_and_emit leaves nothing out.
FeedMatches == ~firstRun => feed = snapshot

\* leases.h:17-19: the watcher that compares equal with the file's stat has
\* published what a rebuild of the file as it is now would give, although it
\* reads the file some time after the stat and the file may change in between.
SnapshotCurrent ==
    Settled /\ file.exists /\ lastStat = StatOf(file) => snapshot \in Rebuilds

\* The snapshots show a block list that changes one MAC at a time, never a mix
\* of two sets: BlockList is what a subscriber of the devices topic sees.
BlockListSeen == INSTANCE BlockList WITH set <- blocked, shown <- BlockedIn(snapshot)
ShowsBlockList == BlockListSeen!Spec

\* While the daemon stays up and the file there, a snapshot of the file as it
\* is comes again and again, so a file that has stopped changing is published.
SnapshotCatchesUp ==
    <>[](phase = "serving" /\ file.exists) => []<>(snapshot \in Rebuilds)
=============================================================================

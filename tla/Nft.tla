-------------------------------- MODULE Nft --------------------------------
(***************************************************************************)
(* The nftables side of the router daemon (src/src/nft.c) and the start-up *)
(* of the daemon that depends on it (src/src/main.c).                      *)
(*                                                                         *)
(* The kernel's ruleset outlives the daemon: it is lost only when the      *)
(* router reboots.  The daemon changes it by running the nft binary, one   *)
(* atomic netlink transaction per invocation, so every invocation is an    *)
(* action and the daemon may die between any two of them.                  *)
(***************************************************************************)
EXTENDS Mac, Integers

CONSTANTS
    NftFaults,  \* TRUE: popen/nft may fail although the request is valid
    ListRoom    \* how many MACs of nft's listing fit the buffer of np_nft_list

ASSUME NftAssumption == NftFaults \in BOOLEAN /\ ListRoom \in Nat

VARIABLES
    phase,      \* where the daemon is in main(): see Phases
    hasTable,   \* the table, its set and the chain netparent_fwd exist
    blocked,    \* the elements of the set `blocked_macs`
    rules,      \* the drop rules present in the chain
    armed       \* history: a setup has completed since boot, none was killed since

kernel == <<hasTable, blocked, rules>>
nftVars == <<phase, hasTable, blocked, rules, armed>>

\* "off": not running.  The next four: the invocation of np_nft_ensure that
\* runs next.  "serving": np_nft_ensure has returned 0 and the daemon is on
\* its way to, or in, the loop of np_mqtt_run.
Phases == {"off", "script", "flush", "saddr", "daddr", "serving"}

\* A packet is dropped by its source and by its destination.
Directions == {"saddr", "daddr"}

NftTypeOK ==
    /\ phase \in Phases
    /\ hasTable \in BOOLEAN
    /\ blocked \in SUBSET Macs
    /\ rules \in SUBSET Directions
    /\ armed \in BOOLEAN

NftInit ==
    /\ phase = "off"
    /\ hasTable = FALSE
    /\ blocked = {}
    /\ rules = {}
    /\ armed = FALSE

----------------------------------------------------------------------------
(* np_nft_ensure, one action per nft invocation.                           *)

\* procd starts the daemon; main() reaches np_nft_ensure.
Start ==
    /\ phase = "off"
    /\ phase' = "script"
    /\ UNCHANGED <<hasTable, blocked, rules, armed>>

\* nft -f: add table, set and chain, all or nothing; `add` keeps what is
\* already there.  A failure of nft is only logged, a failure of popen is not.
EnsureScript ==
    /\ phase = "script"
    /\ \/ hasTable' = TRUE /\ phase' = "flush"
       \/ NftFaults /\ phase' = "flush" /\ UNCHANGED hasTable
       \/ NftFaults /\ phase' = "off" /\ UNCHANGED hasTable
    /\ UNCHANGED <<blocked, rules, armed>>

\* flush chain: its failure is only logged.
EnsureFlush ==
    /\ phase = "flush"
    /\ \/ hasTable /\ rules' = {}
       \/ (NftFaults \/ ~hasTable) /\ UNCHANGED rules
    /\ phase' = "saddr"
    /\ UNCHANGED <<hasTable, blocked, armed>>

\* add rule ... drop: its failure ends the daemon ("refusing to start").
EnsureRule(direction, next) ==
    /\ phase = direction
    /\ \/ hasTable /\ rules' = rules \cup {direction} /\ phase' = next
       \/ (NftFaults \/ ~hasTable) /\ phase' = "off" /\ UNCHANGED rules
    /\ armed' = (armed \/ phase' = "serving")
    /\ UNCHANGED <<hasTable, blocked>>

\* Mutant: the result of the second add rule is not looked at.
EnsureDaddrUnchecked ==
    /\ phase = "daddr"
    /\ \/ hasTable /\ rules' = rules \cup {"daddr"}
       \/ (NftFaults \/ ~hasTable) /\ UNCHANGED rules
    /\ phase' = "serving"
    /\ armed' = TRUE
    /\ UNCHANGED <<hasTable, blocked>>

EnsureSaddr == EnsureRule("saddr", "daddr")
EnsureDaddr == EnsureRule("daddr", "serving")

----------------------------------------------------------------------------
(* np_nft_block, np_nft_unblock: ret is what the function returns.         *)

\* nft add element, delete element: rc is nft's exit status.
AddElement(m, rc) ==
    \/ rc = 0 /\ blocked' = blocked \cup {m}
    \/ rc = 1 /\ NftFaults /\ UNCHANGED blocked

DeleteElement(m, rc) ==
    \/ rc = 0 /\ m \in blocked /\ blocked' = blocked \ {m}
    \/ rc = 1 /\ (NftFaults \/ m \notin blocked) /\ UNCHANGED blocked

\* Mutant: the exit status is treated as np_nft_unblock treats it.
np_nft_block_lenient(m, ret) ==
    \/ m = NoMac /\ ret = -1 /\ UNCHANGED blocked
    \/ m \in Macs /\ ret = 0 /\ \E rc \in {0, 1} : AddElement(m, rc)

np_nft_block(m, ret) ==
    \/ m = NoMac /\ ret = -1 /\ UNCHANGED blocked
    \/ m \in Macs /\ AddElement(m, ret)

\* Every exit status of nft counts as success.
np_nft_unblock(m, ret) ==
    \/ m = NoMac /\ ret = -1 /\ UNCHANGED blocked
    \/ m \in Macs /\ ret = 0 /\ \E rc \in {0, 1} : DeleteElement(m, rc)

----------------------------------------------------------------------------
(* np_nft_is_blocked and np_nft_list read the set.                         *)

\* What np_nft_is_blocked may return: every exit status of nft but 0 counts
\* as "not blocked", only a failing system() is an error.
np_nft_is_blocked(m) ==
    IF m = NoMac THEN {-1}
    ELSE {IF m \in blocked THEN 1 ELSE 0} \cup (IF NftFaults THEN {0, -1} ELSE {})

\* The MACs np_nft_list may report: what fits its buffer, nothing when nft
\* fails.  Its own result is ignored by both callers.
np_nft_list ==
    Fit(blocked, ListRoom) \cup (IF NftFaults THEN {{}} ELSE {})

----------------------------------------------------------------------------
(* The life of the process and of the machine.                             *)

\* The daemon ends: a signal, a crash, or np_mqtt_run returning.
Exit ==
    /\ phase # "off"
    /\ phase' = "off"
    /\ armed' = (armed /\ phase = "serving")
    /\ UNCHANGED kernel

\* The router reboots: the kernel starts with an empty ruleset.
Reboot ==
    /\ phase' = "off"
    /\ hasTable' = FALSE
    /\ blocked' = {}
    /\ rules' = {}
    /\ armed' = FALSE

----------------------------------------------------------------------------
(* Properties.                                                             *)

\* A daemon that serves commands has both drop rules in place, so a MAC it
\* reports as blocked is really cut off (nft.c returns -1 and main.c refuses
\* to start when a rule cannot be added).
ServingEnforced == phase = "serving" => hasTable /\ rules = Directions

\* nft.h:13 calls np_nft_ensure idempotent: once a run of it has installed the
\* rules they are there whenever the daemon serves or is away, so a blocked
\* device stays cut off without the daemon.  It needs nft not to fail: a run
\* that flushes the chain and cannot add the rules again leaves it open, as
\* does one that is killed in between (armed becomes false then).
StaysEnforced == armed /\ phase \in {"off", "serving"} => rules = Directions
=============================================================================

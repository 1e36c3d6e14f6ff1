------------------------------- MODULE System -------------------------------
(***************************************************************************)
(* From the administrator's click to what the page shows: the commands the *)
(* web application publishes (publishCmd of web/internal/mqttbus/bus.go),  *)
(* the daemon that carries them out and publishes its device list, and the *)
(* way of that list back to the store, which is Mirror.                    *)
(*                                                                         *)
(* One MAC, Target, is blocked and unblocked.  Of the daemon there is what *)
(* Router and Link establish: a command changes the kernel's set, unless   *)
(* nft fails, and ends with a round, unless it is answered with an error;  *)
(* a clean session is subscribed while it serves.  The application's MQTT  *)
(* client (paho) is external: it keeps a QoS 1 message until the           *)
(* acknowledgement and sends messages in the order of their Publish, but   *)
(* on a new connection those it has in store, taken down without one or    *)
(* sent and not acknowledged, in any order and beside those of new calls.  *)
(***************************************************************************)
EXTENDS Mirror

CONSTANTS
    Target,      \* the MAC the commands are about
    MaxCommands, \* bound: how many commands are given
    MaxUpsets    \* bound: how often a session ends, of the daemon or the application,
                 \* the router reboots, a failure of nft tells or the lease file changes

ASSUME SystemAssumption ==
    /\ Target \in Macs
    /\ MaxCommands \in Nat /\ MaxUpsets \in Nat

VARIABLES
    blocked,    \* the kernel's set has Target
    serving,    \* the daemon's session is there, with its subscription
    toRouter,   \* the commands on their way to the daemon: TRUE for block
    pending,    \* the messages the client keeps: [block, sent, stored];
                \* stored: it is to go out of the store, on a new connection
    lastWord,   \* history: <<the last command given>>, or <<>>
    disturbed,  \* history: a command was or may be lost, repeated, overtaken or
                \* undone since the last time there was none on its way
    blind,      \* history: nft failed, or its listing or the device list was cut
                \* off, while the list of the last round was made
    given, upsets \* counters

commands == <<pending, lastWord, given>>
commandVars == <<blocked, serving, toRouter, commands, disturbed, blind, upsets>>
systemVars == <<mirrorVars, commandVars>>

SystemInit ==
    /\ MirrorInit
    /\ blocked = FALSE
    /\ serving = FALSE
    /\ toRouter = <<>>
    /\ pending = <<>>
    /\ lastWord = <<>>
    /\ disturbed = FALSE
    /\ blind = FALSE
    /\ given = 0 /\ upsets = 0

----------------------------------------------------------------------------
(* The daemon.                                                             *)

\* What rebuild makes of the set: Target is marked as the kernel has it, or missed
\* although it is blocked, for nft failed or its listing or the list was cut off
\* (np_nft_list and np_nft_is_blocked of Nft).  None is made up.
TablesOf(b, missed) == {t \in Tables : Target \in BlockedIn(t) <=> b /\ ~missed}

\* np_leases_republish: a round on the kernel's set as it is then.
Round(b) ==
    /\ toTell = {} /\ ~toShow
    /\ blind' \in {FALSE, b}
    /\ list' \in TablesOf(b, blind')
    /\ toTell' = IF firstRun THEN {} ELSE Events(list, list')
    /\ firstRun' = FALSE
    /\ toShow' = TRUE
    /\ UNCHANGED <<retained, midRound, appSide, counters>>

\* A failure of nft, or the cut of a list, that makes a difference.
NftFailed(failed) ==
    /\ upsets' = IF failed THEN upsets + 1 ELSE upsets
    /\ upsets' <= MaxUpsets

\* np_nft_block and np_nft_unblock on a valid MAC, which is all the application
\* sends (server.go:162): the set after it and what the function returns.  Every
\* run of nft may fail; of a delete that is not noticed.
NftRun(block, ret) ==
    \/ blocked' = block /\ ret = 0
    \/ blocked' = blocked /\ ret = (IF block THEN -1 ELSE 0)

\* Mutant: the list is made before the command is carried out.
ServeAfterRound ==
    /\ serving /\ toRouter # <<>>
    /\ \E ret \in {0, -1} :
          /\ NftRun(Head(toRouter), ret)
          /\ IF ret = 0 THEN Round(blocked)
             ELSE UNCHANGED <<mirrorVars, blind>>
    /\ toRouter' = Tail(toRouter)
    /\ disturbed' = (disturbed \/ blocked' # Head(toRouter))
    /\ NftFailed(blind' \/ blocked' # Head(toRouter))
    /\ UNCHANGED <<serving, commands>>

\* Mutant: the command is carried out and nothing published.
ServeSilently ==
    /\ serving /\ toRouter # <<>>
    /\ \E ret \in {0, -1} : NftRun(Head(toRouter), ret)
    /\ toRouter' = Tail(toRouter)
    /\ disturbed' = (disturbed \/ blocked' # Head(toRouter))
    /\ NftFailed(blocked' # Head(toRouter))
    /\ UNCHANGED <<mirrorVars, serving, commands, blind>>

\* np_handle_message with "block" or "unblock": an error ends it without a round.
ServeCommand ==
    /\ serving /\ toRouter # <<>>
    /\ \E ret \in {0, -1} :
          /\ NftRun(Head(toRouter), ret)
          /\ IF ret = 0 THEN Round(blocked')
             ELSE UNCHANGED <<mirrorVars, blind>>
    /\ toRouter' = Tail(toRouter)
    /\ disturbed' = (disturbed \/ blocked' # Head(toRouter))
    /\ NftFailed(blind' \/ blocked' # Head(toRouter))
    /\ UNCHANGED <<serving, commands>>

\* np_leases_poll: a round at the first tick of the daemon.
FirstRound ==
    /\ firstRun
    /\ Round(blocked)
    /\ NftFailed(blind')
    /\ UNCHANGED <<blocked, serving, toRouter, commands, disturbed>>

\* np_leases_poll: a round when the lease file has changed.
LeaseRound ==
    /\ ~firstRun
    /\ upsets < MaxUpsets
    /\ upsets' = upsets + 1
    /\ Round(blocked)
    /\ UNCHANGED <<blocked, serving, toRouter, commands, disturbed>>

PublishRound ==
    /\ serving
    /\ PublishEvent \/ PublishSnapshot
    /\ UNCHANGED commandVars

\* The daemon connects and subscribes.
Serve ==
    /\ ~serving
    /\ serving' = TRUE
    /\ UNCHANGED <<mirrorVars, blocked, toRouter, commands, disturbed, blind, upsets>>

\* Its clean session ends, by a lost connection or with the daemon, and with it
\* what the broker had for it.
Outage ==
    /\ serving
    /\ upsets < MaxUpsets
    /\ upsets' = upsets + 1
    /\ serving' = FALSE
    /\ toRouter' = <<>>
    /\ disturbed' = (disturbed \/ toRouter # <<>>)
    /\ RouterDies \/ UNCHANGED mirrorVars
    /\ UNCHANGED <<blocked, commands, blind>>

\* The router reboots: the set is empty, and no block is kept anywhere else.
RouterReboots ==
    /\ upsets < MaxUpsets
    /\ upsets' = upsets + 1
    /\ serving' = FALSE
    /\ toRouter' = <<>>
    /\ blocked' = FALSE
    /\ disturbed' = (disturbed \/ toRouter # <<>> \/ blocked)
    /\ IF firstRun THEN UNCHANGED mirrorVars ELSE RouterDies
    /\ UNCHANGED <<commands, blind>>

----------------------------------------------------------------------------
(* The application.                                                        *)

\* Messages that the client has yet to send out of its store.
InStore == \E n \in DOMAIN pending : pending[n].stored /\ ~pending[n].sent

\* Mutant: Publish is called from a goroutine of its own.
publishCmdAsync ==
    /\ given < MaxCommands
    /\ sessions > 0
    /\ \E b \in BOOLEAN :
          /\ pending' = Append(pending, [block |-> b, sent |-> FALSE, stored |-> TRUE])
          /\ lastWord' = <<b>>
    /\ disturbed' = (disturbed /\ (pending # <<>> \/ toRouter # <<>>))
    /\ given' = given + 1
    /\ UNCHANGED <<mirrorVars, blocked, serving, toRouter, blind, upsets>>

\* publishCmd: the client takes the message, or only stores it if it has no
\* connection.  The caller waits for the acknowledgement, but no longer than five
\* seconds (502), and the client keeps the message: so the next command may be
\* given at any time.
publishCmd ==
    /\ given < MaxCommands
    /\ sessions > 0
    /\ \E b \in BOOLEAN :
          /\ pending' = Append(pending, [block |-> b, sent |-> FALSE, stored |-> ~connected])
          /\ lastWord' = <<b>>
    /\ disturbed' = (InStore \/ (disturbed /\ (pending # <<>> \/ toRouter # <<>>)))
    /\ given' = given + 1
    /\ UNCHANGED <<mirrorVars, blocked, serving, toRouter, blind, upsets>>

\* A message reaches the broker, which passes it to the daemon's session or, if
\* there is none, drops it.
SendCommand ==
    /\ connected
    /\ \E n \in DOMAIN pending :
          /\ ~pending[n].sent
          /\ pending[n].stored \/ \A k \in 1..n - 1 : pending[k].sent \/ pending[k].stored
          /\ pending' = [pending EXCEPT ![n].sent = TRUE]
          /\ toRouter' = IF serving THEN Append(toRouter, pending[n].block) ELSE toRouter
    /\ disturbed' = (disturbed \/ ~serving)
    /\ UNCHANGED <<mirrorVars, blocked, serving, lastWord, blind, given, upsets>>

\* PUBACK: the client forgets the message; a caller that still waits answers 200.
Acknowledge ==
    /\ connected
    /\ \E n \in DOMAIN pending : pending[n].sent /\ pending' = RemoveAt(pending, n)
    /\ UNCHANGED <<mirrorVars, blocked, serving, toRouter, lastWord, disturbed, blind, given,
                   upsets>>

\* The client stores what was not acknowledged until the next connection.  Then
\* what was sent is sent again, and two messages may swap.
LoseConnection ==
    /\ ConnectionLost
    /\ upsets < MaxUpsets
    /\ upsets' = upsets + 1
    /\ pending' = [n \in DOMAIN pending |-> [pending[n] EXCEPT !.sent = FALSE, !.stored = TRUE]]
    /\ disturbed' = (disturbed \/ Len(pending) > 1 \/ \E n \in DOMAIN pending : pending[n].sent)
    /\ UNCHANGED <<blocked, serving, toRouter, lastWord, blind, given>>

MirrorStep ==
    /\ Connect \/ Subscribe \/ Receive \/ Handle
    /\ UNCHANGED commandVars

Daemon == ServeCommand \/ FirstRound \/ LeaseRound \/ PublishRound \/ Serve \/ Outage
              \/ RouterReboots
Client == publishCmd \/ SendCommand \/ Acknowledge \/ LoseConnection

SystemNext == Daemon \/ Client \/ MirrorStep

SystemSpec == SystemInit /\ [][SystemNext]_systemVars

\* The daemon does not stop while it has something to do, nor do the client that
\* sends and is acknowledged to, and the goroutines of the application.
\* Reconnects are owed by nobody.
SystemFairSpec ==
    /\ SystemSpec
    /\ WF_systemVars(ServeCommand \/ FirstRound \/ PublishRound)
    /\ WF_systemVars(SendCommand \/ Acknowledge)
    /\ WF_systemVars((Subscribe \/ Receive \/ Handle) /\ UNCHANGED commandVars)

----------------------------------------------------------------------------
(* Properties.                                                             *)

NoneOnTheWay == pending = <<>> /\ toRouter = <<>>

\* When no command is on its way the kernel is as the administrator said last,
\* also when the API had given up on a command (502) and it got through later,
\* and whatever was disturbed before.  Excepted are a command that was dropped
\* for want of a session, a command that was sent again or that shared the
\* client's store with another, which may swap, one whose run of nft failed,
\* and the empty set of a reboot.
LastWordHolds == NoneOnTheWay /\ ~disturbed => \A n \in DOMAIN lastWord : blocked = lastWord[n]

ShownBlocked == Target \in BlockedIn(store.devices)

\* The page shows no block that the kernel does not have, and every block it
\* has but one that the daemon itself failed to see.
ShownRight == (ShownBlocked => blocked) /\ (blocked => ShownBlocked \/ blind)

\* The daemon has published its round and the application has read it, its last
\* handlers in the order they have to follow each other.
Settled == Idle /\ "devices" \in subscribed \ overtaken /\ ~firstRun /\ ~toShow

\* As soon as the daemon's last list is out and the application has nothing left
\* to read, the page shows what the kernel does, whatever commands, failures of
\* nft, reboots, connections and subscriptions came between: a command is carried
\* out before the list is made (handler.c), the snapshot goes after the events of
\* its round (leases.c), and it replaces what the store had (store.go).
PageTruthful == Settled => ShownRight

\* Once the application and the daemon stay connected, no command remains on its
\* way and the page shows the kernel's state of the device, unless handlers ran at
\* a time and an older snapshot or event reached the store last.  bus.go:190-191:
\* the response updates "the store via the devices snapshot".
PageShowsKernel ==
    <>[](connected /\ serving) =>
        <>[](NoneOnTheWay /\ ("devices" \in overtaken \/ ShownRight))
=============================================================================

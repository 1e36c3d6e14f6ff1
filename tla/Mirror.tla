------------------------------- MODULE Mirror -------------------------------
(***************************************************************************)
(* The web application's picture of one router: what the router publishes  *)
(* reaches the broker, the broker passes it to the application's session,  *)
(* and the MQTT callbacks of web/internal/mqttbus/bus.go write it to the   *)
(* in-memory store of web/internal/store/store.go.                         *)
(*                                                                         *)
(* The client is made with SetOrderMatters(false): every message starts a  *)
(* goroutine of its own, so the store's mutex is all that orders handlers. *)
(* The broker is external: it keeps the last message of the two retained   *)
(* topics, delivers to a session in order, sends the retained message to   *)
(* every new subscription and forgets a clean session with its connection. *)
(***************************************************************************)
EXTENDS DeviceTable, SequencesExt

CONSTANTS
    Tables,      \* the device lists the router may come to
    MaxRounds,   \* bound: how many lists it publishes
    MaxStatus,   \* bound: how many status messages it publishes
    MaxSessions, \* bound: how many connections the application makes
    MaxHandlers, \* bound: how many handler goroutines run at a time
    SubFaults    \* TRUE: the broker may refuse a subscription

ASSUME MirrorAssumption ==
    /\ Tables \subseteq Table
    /\ {MaxRounds, MaxStatus, MaxSessions, MaxHandlers} \subseteq Nat
    /\ SubFaults \in BOOLEAN

VARIABLES
    \* the router
    list,       \* the device list of the last round
    firstRun,   \* no round yet since the daemon started
    toTell,     \* the events of the round the broker has yet to receive
    toShow,     \* the snapshot of the round is yet to be received
    \* the broker
    retained,   \* topic -> <<the retained message>>, or <<>>
    midRound,   \* history: an event has come in since the last snapshot
    \* the application
    connected,  \* it has a connection
    toSubscribe, \* the topics onConnect has not come to yet
    subscribed, \* the topics of its session
    refused,    \* the topics the broker has refused it
    wire,       \* the messages on their way to it, in order
    handlers,   \* the messages whose handler has not reached the store yet
    store,      \* store.routers[id]: [known, online, devices]
    overtaken,  \* history: the parts of the store for which a handler has gone
                \* before one it has to follow, since there was last none running
    \* counters of the bounds
    rounds, statuses, sessions

routerSide == <<list, firstRun, toTell, toShow>>
appSide == <<connected, toSubscribe, subscribed, refused, wire, handlers, store,
             overtaken>>
counters == <<rounds, statuses, sessions>>
mirrorVars == <<routerSide, retained, midRound, appSide, counters>>

Topics == {"status", "devices", "event"}

StatusMsg(online) == [topic |-> "status", body |-> online]
DevicesMsg(table) == [topic |-> "devices", body |-> table]
EventMsg(e) == [topic |-> "event", body |-> e]

NoRouter == [known |-> FALSE, online |-> FALSE, devices |-> EmptyTable]

MirrorInit ==
    /\ list = EmptyTable
    /\ firstRun = TRUE
    /\ toTell = {}
    /\ toShow = FALSE
    /\ retained = [t \in Topics |-> <<>>]
    /\ midRound = FALSE
    /\ connected = FALSE
    /\ toSubscribe = {}
    /\ subscribed = {}
    /\ refused = {}
    /\ wire = <<>>
    /\ handlers = <<>>
    /\ store = NoRouter
    /\ overtaken = {}
    /\ rounds = 0 /\ statuses = 0 /\ sessions = 0

----------------------------------------------------------------------------
(* The router and the broker.                                              *)

\* The broker receives a message: it retains it and passes it to the session.
Incoming(msg) ==
    /\ retained' = IF msg.topic = "event" THEN retained
                   ELSE [retained EXCEPT ![msg.topic] = <<msg>>]
    /\ wire' = IF msg.topic \in subscribed THEN Append(wire, msg) ELSE wire
    /\ UNCHANGED <<connected, toSubscribe, subscribed, refused, handlers, store, overtaken,
                   sessions>>

\* np_leases_republish of the router: a new round, once the last one is out.
NewRound ==
    /\ toTell = {} /\ ~toShow
    /\ rounds < MaxRounds
    /\ \E table \in Tables :
          /\ list' = table
          /\ toTell' = IF firstRun THEN {} ELSE Events(list, table)
    /\ firstRun' = FALSE
    /\ toShow' = TRUE
    /\ rounds' = rounds + 1
    /\ UNCHANGED <<retained, midRound, appSide, statuses, sessions>>

PublishEvent ==
    /\ \E e \in toTell :
          /\ Incoming(EventMsg(e))
          /\ toTell' = toTell \ {e}
    /\ midRound' = TRUE
    /\ UNCHANGED <<list, firstRun, toShow, rounds, statuses>>

PublishSnapshot ==
    /\ toTell = {} /\ toShow
    /\ Incoming(DevicesMsg(list))
    /\ toShow' = FALSE
    /\ midRound' = FALSE
    /\ UNCHANGED <<list, firstRun, toTell, rounds, statuses>>

\* The router's own status messages and its will.
PublishStatus ==
    /\ statuses < MaxStatus
    /\ \E online \in BOOLEAN : Incoming(StatusMsg(online))
    /\ statuses' = statuses + 1
    /\ UNCHANGED <<routerSide, midRound, rounds>>

\* What the daemon had not handed to the broker dies with it.
RouterDies ==
    /\ ~firstRun
    /\ list' = EmptyTable
    /\ firstRun' = TRUE
    /\ toTell' = {}
    /\ toShow' = FALSE
    /\ UNCHANGED <<retained, midRound, appSide, counters>>

----------------------------------------------------------------------------
(* The session of the application (bus.go).                                *)

\* Mutant: the subscriptions are made once, as if the session outlived the
\* connection.
ConnectOnce ==
    /\ ~connected
    /\ sessions < MaxSessions
    /\ connected' = TRUE
    /\ toSubscribe' = IF sessions = 0 THEN Topics ELSE {}
    /\ sessions' = sessions + 1
    /\ UNCHANGED <<routerSide, retained, midRound, subscribed, refused, wire, handlers,
                   store, overtaken, rounds, statuses>>

\* Connect, and every automatic reconnect: onConnect begins.
Connect ==
    /\ ~connected
    /\ sessions < MaxSessions
    /\ connected' = TRUE
    /\ toSubscribe' = Topics
    /\ sessions' = sessions + 1
    /\ UNCHANGED <<routerSide, retained, midRound, subscribed, refused, wire, handlers,
                   store, overtaken, rounds, statuses>>

\* The connection is lost and the clean session with it; handlers go on.
ConnectionLost ==
    /\ connected
    /\ connected' = FALSE
    /\ toSubscribe' = {}
    /\ subscribed' = {}
    /\ refused' = {}
    /\ wire' = <<>>
    /\ UNCHANGED <<routerSide, retained, midRound, handlers, store, overtaken, counters>>

\* onConnect goes through its map of topics, in no particular order, and waits
\* for each.  A refused subscription is only logged.
Subscribe ==
    /\ \E t \in toSubscribe :
          /\ toSubscribe' = toSubscribe \ {t}
          /\ \/ /\ subscribed' = subscribed \cup {t}
                /\ wire' = wire \o retained[t]
                /\ UNCHANGED refused
             \/ /\ SubFaults
                /\ refused' = refused \cup {t}
                /\ UNCHANGED <<subscribed, wire>>
    /\ UNCHANGED <<routerSide, retained, midRound, connected, handlers, store, overtaken,
                   counters>>

\* The part of the store a message is for.
Part(msg) == IF msg.topic = "status" THEN "status" ELSE "devices"

\* The client takes a message off the wire and starts its handler.
Receive ==
    /\ wire # <<>>
    /\ Len(handlers) < MaxHandlers
    /\ handlers' = Append(handlers, Head(wire))
    /\ wire' = Tail(wire)
    /\ overtaken' = IF \E k \in DOMAIN handlers : Part(handlers[k]) = Part(Head(wire))
                    THEN overtaken ELSE overtaken \ {Part(Head(wire))}
    /\ UNCHANGED <<routerSide, retained, midRound, connected, toSubscribe, subscribed,
                   refused, store, counters>>

----------------------------------------------------------------------------
(* The store (store.go), under its mutex.                                  *)

SetOnline(online) == [store EXCEPT !.known = TRUE, !.online = online]

\* Mutant: the devices are written over the map that is there.
ReplaceDevicesMerging(devices) ==
    [store EXCEPT !.known = TRUE,
                  !.devices = [m \in DOMAIN devices \cup DOMAIN @ |->
                                  IF m \in DOMAIN devices THEN devices[m] ELSE @[m]]]

ReplaceDevices(devices) == [store EXCEPT !.known = TRUE, !.devices = devices]

\* UpsertDevice creates a router it does not know, RemoveDevice does not.
ApplyEvent(e) ==
    IF e.event = "removed" /\ ~store.known THEN store
    ELSE [store EXCEPT !.known = TRUE, !.devices = ApplyEvents(@, {e})]

\* A status message has to be stored after the one before it, a snapshot after
\* all that came before it.  Events are free: a snapshot follows them.
Follows(later, earlier) ==
    \/ later.topic = "status" /\ earlier.topic = "status"
    \/ later.topic = "devices" /\ earlier.topic \in {"devices", "event"}

\* handleStatus, handleDevices, handleDeviceEvent: any handler that runs may be
\* the next to get the mutex.
Handle ==
    /\ \E n \in DOMAIN handlers :
          LET msg == handlers[n]
          IN  /\ store' = CASE msg.topic = "status"  -> SetOnline(msg.body)
                            [] msg.topic = "devices" -> ReplaceDevices(msg.body)
                            [] msg.topic = "event"   -> ApplyEvent(msg.body)
              /\ handlers' = RemoveAt(handlers, n)
              /\ overtaken' = IF \E k \in 1..n - 1 : Follows(msg, handlers[k])
                              THEN overtaken \cup {Part(msg)} ELSE overtaken
    /\ UNCHANGED <<routerSide, retained, midRound, connected, toSubscribe, subscribed,
                   refused, wire, counters>>

\* The process ends, and starts with an empty store.
AppRestart ==
    /\ store # NoRouter
    /\ connected' = FALSE
    /\ toSubscribe' = {}
    /\ subscribed' = {}
    /\ refused' = {}
    /\ wire' = <<>>
    /\ handlers' = <<>>
    /\ store' = NoRouter
    /\ overtaken' = {}
    /\ UNCHANGED <<routerSide, retained, midRound, counters>>

MirrorNext ==
    \/ NewRound \/ PublishEvent \/ PublishSnapshot \/ PublishStatus \/ RouterDies
    \/ Connect \/ ConnectionLost \/ Subscribe \/ Receive \/ Handle \/ AppRestart

MirrorSpec == MirrorInit /\ [][MirrorNext]_mirrorVars

\* The goroutines of the application run: onConnect, the client's reader, the
\* handlers.  Nothing is assumed of the router or the network.
MirrorFairSpec ==
    MirrorSpec /\ WF_mirrorVars(Subscribe) /\ WF_mirrorVars(Receive) /\ WF_mirrorVars(Handle)

----------------------------------------------------------------------------
(* Properties.                                                             *)

\* The application has nothing left to do.
Idle == connected /\ toSubscribe = {} /\ wire = <<>> /\ handlers = <<>>

\* Once idle, the store shows the status and the device list the broker retains,
\* whatever was lost while it was away, in which order it subscribed and where
\* it was cut off.  Excepted is a part of the store for which handlers that ran
\* at a time came to the mutex in the wrong order, until a message comes in that
\* finds none of them running.  (A daemon that died after the events of a round
\* and before its snapshot has told of a list that nothing retains.)
MirrorAccurate ==
    Idle =>
        /\ "status" \in subscribed \ overtaken =>
              \A n \in DOMAIN retained.status : store.online = retained.status[n].body
        /\ "devices" \in subscribed \ overtaken /\ ~midRound =>
              \A n \in DOMAIN retained.devices : store.devices = retained.devices[n].body

\* An application that stays connected ends up subscribed to everything it was
\* not refused and in line with what is retained, after any number of
\* reconnects and restarts.
MirrorCatchesUp ==
    <>[]connected => <>[](Idle /\ subscribed \cup refused = Topics /\ MirrorAccurate)

\* README.md:22-23: "Last-Will-and-Testament so the broker (and your web app)
\* always know the router's online state."  Once idle, the store has the router's
\* last status, without the exception above.
OnlineKnown ==
    Idle /\ "status" \in subscribed =>
        \A n \in DOMAIN retained.status : store.online = retained.status[n].body
=============================================================================

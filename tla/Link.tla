-------------------------------- MODULE Link --------------------------------
(***************************************************************************)
(* The router daemon's MQTT session (src/src/mqtt.c) over a network that   *)
(* breaks: connecting and reconnecting, subscribing to the commands, the   *)
(* retained status with its last will, and the commands the web            *)
(* application publishes (publishCmd of web/internal/mqttbus/bus.go).      *)
(*                                                                         *)
(* Broker and libmosquitto are external.  A connection carries packets in  *)
(* order both ways until it breaks, which each side notices on its own; a  *)
(* broker that reads a CONNECT drops the session it has under that client  *)
(* id; libmosquitto keeps a QoS 1 message until it is acknowledged, sends  *)
(* no more than Window of them at a time and sends them again over the     *)
(* next connection.                                                        *)
(***************************************************************************)
EXTENDS Naturals, FiniteSets, SequencesExt

CONSTANTS
    Window,      \* libmosquitto's max_inflight_messages (20)
    MaxStarts,   \* bound: how often the daemon is started
    MaxBreaks,   \* bound: how often a connection breaks
    MaxCommands, \* bound: how many commands the application sends
    LocalFaults  \* TRUE: mosquitto_subscribe may return an error

ASSUME LinkAssumption ==
    /\ Window \in Nat \ {0}
    /\ {MaxStarts, MaxBreaks, MaxCommands} \subseteq Nat
    /\ LocalFaults \in BOOLEAN

VARIABLES
    \* the daemon
    running,    \* it is in the loop of np_mqtt_run
    conn,       \* its connection, or 0
    out,        \* the QoS 1 messages that are not acknowledged yet
    deaf,       \* history: the connections on which on_connect gave up
    \* the network
    broken,     \* the connections that carry nothing any more
    toBroker,   \* connection -> the packets on their way
    toRouter,
    \* the broker
    session,    \* the connection of the router's session, or 0
    subscribed, \* the session has the command subscription
    retained,   \* the retained status: "none", "online" or "offline"
    \* counters
    starts, breaks, conns, commands

routerSide == <<running, conn, out, deaf>>
network == <<broken, toBroker, toRouter>>
brokerSide == <<session, subscribed, retained>>
linkCounters == <<starts, breaks, conns, commands>>
linkVars == <<routerSide, network, brokerSide, linkCounters>>

\* A session that a belated CONNECT of an earlier connection takes over is made
\* anew, so there may be two connections for each start and each break.
Conns == 1..2 * (MaxStarts + MaxBreaks)

\* Packets to the router: the acknowledgement of a CONNECT or of a message, or
\* a command.
Connack == [type |-> "connack", msg |-> "none"]
Ack(msg) == [type |-> "ack", msg |-> msg]
Command == [type |-> "cmd", msg |-> "none"]

LinkInit ==
    /\ running = FALSE
    /\ conn = 0
    /\ out = <<>>
    /\ deaf = {}
    /\ broken = {}
    /\ toBroker = [c \in Conns |-> <<>>]
    /\ toRouter = [c \in Conns |-> <<>>]
    /\ session = 0
    /\ subscribed = FALSE
    /\ retained = "none"
    /\ starts = 0 /\ breaks = 0 /\ conns = 0 /\ commands = 0

----------------------------------------------------------------------------
(* The daemon.                                                             *)

Send(packets) == toBroker' = [toBroker EXCEPT ![conn] = @ \o packets]

\* The packets of a QoS 1 message that is published while `before` are
\* unacknowledged: none when the window is full.
Now(msg, before) == IF Len(before) < Window THEN <<msg>> ELSE <<>>

\* The messages of a queue that are in the window.
InFlight(queue) == SubSeq(queue, 1, IF Len(queue) < Window THEN Len(queue) ELSE Window)

Daemon ==
    /\ ~running
    /\ starts < MaxStarts
    /\ running' = TRUE
    /\ starts' = starts + 1
    /\ UNCHANGED <<conn, out, deaf, network, brokerSide, breaks, conns, commands>>

\* Mutant: the connection is made once; mosquitto_loop's result is not looked at.
ReconnectNever ==
    /\ running /\ conn = 0
    /\ conns = 0
    /\ conns' = conns + 1
    /\ conn' = conns + 1
    /\ toBroker' = [toBroker EXCEPT ![conns + 1] = <<"connect">>]
    /\ UNCHANGED <<running, out, deaf, broken, toRouter, brokerSide,
                   starts, breaks, commands>>

\* mosquitto_connect_async, and mosquitto_reconnect_async whenever
\* mosquitto_loop says that there is no connection.  An attempt that fails
\* leaves everything as it is.
Reconnect ==
    /\ running /\ conn = 0
    /\ conns < Cardinality(Conns)
    /\ conns' = conns + 1
    /\ conn' = conns + 1
    /\ toBroker' = [toBroker EXCEPT ![conns + 1] = <<"connect">>]
    /\ UNCHANGED <<running, out, deaf, broken, toRouter, brokerSide,
                   starts, breaks, commands>>

\* Mutant: the status is published before the subscription is made.
on_connect_status_first ==
    /\ Send(Now("online", out) \o <<"subscribe">> \o InFlight(out))
    /\ out' = Append(out, "online")
    /\ UNCHANGED deaf

\* on_connect, then libmosquitto sends again what it has in its window.
on_connect ==
    \/ /\ Send(<<"subscribe">> \o Now("online", out) \o InFlight(out))
       /\ out' = Append(out, "online")
       /\ UNCHANGED deaf
    \/ /\ LocalFaults
       /\ Send(InFlight(out))
       /\ deaf' = deaf \cup {conn}
       /\ UNCHANGED out

\* The acknowledged message leaves the queue and the next one enters the window.
on_ack(msg) ==
    /\ out' = RemoveFirst(out, msg)
    /\ Send(IF Len(out) > Window THEN <<out[Window + 1]>> ELSE <<>>)

\* np_handle_message answers the command (QoS 1).
on_message ==
    /\ Send(Now("data", out))
    /\ out' = Append(out, "data")

\* mosquitto_loop takes a packet from the socket.
LoopRead ==
    /\ running /\ conn # 0
    /\ toRouter[conn] # <<>>
    /\ LET p == Head(toRouter[conn])
       IN  \/ p.type = "connack" /\ on_connect
           \/ p.type = "ack" /\ on_ack(p.msg) /\ UNCHANGED deaf
           \/ p.type = "cmd" /\ on_message /\ UNCHANGED deaf
    /\ toRouter' = [toRouter EXCEPT ![conn] = Tail(@)]
    /\ UNCHANGED <<running, conn, broken, brokerSide, linkCounters>>

\* The loop finds the connection gone (on_disconnect only logs it).
LoopLost ==
    /\ conn \in broken
    /\ conn' = 0
    /\ toRouter' = [toRouter EXCEPT ![conn] = <<>>]
    /\ UNCHANGED <<running, out, deaf, broken, toBroker, brokerSide, linkCounters>>

\* The process is gone.
Gone ==
    /\ running' = FALSE
    /\ conn' = 0
    /\ out' = <<>>
    /\ toRouter' = [c \in Conns |-> <<>>]
    /\ UNCHANGED <<deaf, brokerSide, linkCounters>>

Crash ==
    /\ running
    /\ broken' = broken \cup ({conn} \cap Conns)
    /\ UNCHANGED toBroker
    /\ Gone

\* Mutant: the daemon disconnects without a word.
StopSilently ==
    /\ running
    /\ toBroker' = [c \in Conns |->
                       IF c = conn THEN toBroker[c] \o <<"disconnect">> ELSE toBroker[c]]
    /\ UNCHANGED broken
    /\ Gone

\* The end of np_mqtt_run: offline, mosquitto_disconnect, a second of draining.
\* A message outside the window stays behind; DISCONNECT does not wait for it.
Stop ==
    /\ running
    /\ toBroker' = [c \in Conns |->
                       IF c = conn THEN toBroker[c] \o Now("offline", out) \o <<"disconnect">>
                       ELSE toBroker[c]]
    /\ UNCHANGED broken
    /\ Gone

----------------------------------------------------------------------------
(* The network, the broker and the application.                            *)

Break ==
    /\ breaks < MaxBreaks
    /\ breaks' = breaks + 1
    /\ \E c \in Conns \ broken :
          /\ c \in {conn, session} \/ toBroker[c] # <<>>
          /\ broken' = broken \cup {c}
    /\ UNCHANGED <<routerSide, toBroker, toRouter, brokerSide, starts, conns, commands>>

\* What becomes of the retained status when a session ends without DISCONNECT.
\* (np_mqtt_create goes on without a will if mosquitto_will_set finds no memory for
\* it; that daemon is left out.)
Will == "offline"

\* CONNECT makes a session; the connection the broker has for this client is
\* closed, and its will is due.
BrokerConnect(c) ==
    /\ toBroker' = [d \in Conns |-> IF d = c THEN Tail(toBroker[c])
                                    ELSE IF d = session THEN <<>> ELSE toBroker[d]]
    /\ session' = c
    /\ subscribed' = FALSE
    /\ retained' = IF session = 0 THEN retained ELSE Will
    /\ broken' = broken \cup ({session} \cap Conns)
    /\ toRouter' = [toRouter EXCEPT ![c] = IF c = conn THEN Append(@, Connack) ELSE @]

BrokerPublish(c, msg) ==
    /\ retained' = IF msg = "data" THEN retained ELSE msg
    /\ toRouter' = [toRouter EXCEPT ![c] = IF c = conn THEN Append(@, Ack(msg)) ELSE @]
    /\ UNCHANGED <<session, subscribed, broken>>

BrokerTakes(c) == toBroker' = [toBroker EXCEPT ![c] = Tail(@)]

BrokerRead ==
    /\ \E c \in Conns :
          /\ toBroker[c] # <<>>
          /\ LET p == Head(toBroker[c])
             IN  \/ p = "connect" /\ BrokerConnect(c)
                 \/ /\ c = session /\ p = "subscribe"
                    /\ subscribed' = TRUE
                    /\ BrokerTakes(c)
                    /\ UNCHANGED <<session, retained, broken, toRouter>>
                 \/ /\ c = session /\ p \in {"online", "offline", "data"}
                    /\ BrokerPublish(c, p)
                    /\ BrokerTakes(c)
                 \/ /\ c = session /\ p = "disconnect"
                    /\ session' = 0
                    /\ subscribed' = FALSE
                    /\ BrokerTakes(c)
                    /\ UNCHANGED <<retained, broken, toRouter>>
    /\ UNCHANGED <<routerSide, linkCounters>>

\* The broker finds a connection gone: by its end, or by the keepalive.
BrokerLost ==
    /\ \E c \in broken :
          /\ c = session \/ toBroker[c] # <<>>
          /\ toBroker' = [toBroker EXCEPT ![c] = <<>>]
          /\ IF c = session
             THEN session' = 0 /\ subscribed' = FALSE /\ retained' = Will
             ELSE UNCHANGED brokerSide
    /\ UNCHANGED <<routerSide, broken, toRouter, linkCounters>>

\* The application publishes a command and is told that it did.  The session is
\* clean, so the broker keeps nothing for a router without one.
publishCmd ==
    /\ commands < MaxCommands
    /\ commands' = commands + 1
    /\ toRouter' = IF subscribed /\ session = conn
                   THEN [toRouter EXCEPT ![conn] = Append(@, Command)]
                   ELSE toRouter
    /\ UNCHANGED <<routerSide, broken, toBroker, brokerSide, starts, breaks, conns>>

LinkNext ==
    \/ Daemon \/ Reconnect \/ LoopRead \/ LoopLost \/ Crash \/ Stop
    \/ Break \/ BrokerRead \/ BrokerLost
    \/ publishCmd

LinkSpec == LinkInit /\ [][LinkNext]_linkVars

\* The daemon's loop goes round and tries again, both keepalives expire, the
\* broker reads what arrives.  Nothing makes the daemon start, stop or crash.
LinkFairSpec ==
    /\ LinkSpec
    /\ WF_linkVars(Reconnect) /\ WF_linkVars(LoopRead) /\ WF_linkVars(LoopLost)
    /\ WF_linkVars(BrokerRead) /\ WF_linkVars(BrokerLost)

----------------------------------------------------------------------------
(* Properties.                                                             *)

\* Router and broker agree on the connection and nothing is on its way.
LinkQuiet ==
    /\ conn = session
    /\ conn \notin broken
    /\ conn \in Conns => toBroker[conn] = <<>> /\ toRouter[conn] = <<>>
    /\ ~running => \A c \in Conns : toBroker[c] = <<>>

\* Whatever crashed, broke, was taken over or was stopped: when things have
\* calmed down a router that is away is not shown as online, and one that takes
\* commands is.  README.md:22-23: broker and web application "always know the
\* router's online state".
StatusRight ==
    LinkQuiet =>
        /\ retained = "online" => conn # 0
        /\ conn # 0 /\ subscribed => retained = "online"

\* A router shown as online while it has a session is subscribed to its
\* commands: on_connect subscribes first.  When mosquitto_subscribe fails it
\* gives up, but an online of the connection before may still be sent.
OnlineListens ==
    retained = "online" /\ session # 0 => subscribed \/ session \in deaf

\* A daemon that stays up ends up online and subscribed, whatever became of its
\* connections before, unless on_connect gave up on the one it has: nothing
\* tries to subscribe again.
ComesOnline ==
    <>[](running /\ conn \notin deaf) => <>[](retained = "online" /\ subscribed)

\* A daemon that stays down does not stay online: the broker notices, or has
\* been told.
GoesOffline == <>[]~running => <>[](retained # "online")
=============================================================================

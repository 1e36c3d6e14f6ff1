------------------------------ MODULE Process ------------------------------
(***************************************************************************)
(* main() of src/src/main.c from its arguments to its exit, with           *)
(* np_mqtt_create and np_mqtt_run of src/src/mqtt.c and np_log_init of     *)
(* src/src/log.c, and the signals that may come at any point of it.        *)
(*                                                                         *)
(* What happens inside of the loop is the subject of Router and Link.      *)
(* libmosquitto is external: mosquitto_tls_set wants a readable CA file    *)
(* and a certificate with its key or neither, mosquitto_connect_async a    *)
(* port up to PortMax, a keepalive from MinKeepalive, and a broker name    *)
(* that resolves.                                                          *)
(***************************************************************************)
EXTENDS Config

CONSTANTS
    Options,      \* what the section may say
    PortMax,      \* UINT16_MAX
    MinKeepalive, \* the least keepalive libmosquitto takes
    MaxSignals    \* bound: how many SIGINT and SIGTERM arrive

ASSUME ProcessAssumption ==
    /\ PortMax \in Nat /\ PortMax < IntMax
    /\ {MinKeepalive, MaxSignals} \subseteq Nat
    /\ \A o \in Options :
          {o.broker_port, o.keepalive, o.log_level} \subseteq Int \cup {None, Empty, Junk}

VARIABLES
    pc,         \* the step main is at
    found,      \* /etc/config/netparent has the section
    opts,       \* its options
    foreground, \* -f
    cfg,        \* struct np_config
    log,        \* g_use_syslog and g_level
    rules,      \* np_nft_ensure has succeeded
    client,     \* the struct np_mqtt that g_mqtt points to
    caught,     \* SIGINT and SIGTERM go to on_signal
    stop,       \* m->stop
    rc,         \* what np_mqtt_run has returned
    goodbye,    \* offline and DISCONNECT were handed to libmosquitto
    status,     \* of the process, for who started it
    asked,      \* history: on_signal has told a live client to stop
    dangling,   \* history: on_signal has written to a freed client
    signals     \* counter

inputs == <<found, opts>>
setup == <<foreground, cfg, log, rules>>
history == <<asked, dangling, signals>>
processVars == <<pc, inputs, setup, client, caught, stop, rc, goodbye, status, history>>

ProcessInit ==
    /\ pc = "args"
    /\ found \in BOOLEAN
    /\ opts \in Options
    /\ foreground = FALSE
    /\ cfg = Blank
    /\ log = [syslog |-> FALSE, level |-> InfoLevel]
    /\ rules = FALSE
    /\ client = "none"
    /\ caught = FALSE
    /\ stop = FALSE
    /\ rc = 0
    /\ goodbye = FALSE
    /\ status = "running"
    /\ asked = FALSE
    /\ dangling = FALSE
    /\ signals = 0

ExitWith(code) ==
    /\ pc' = "exited"
    /\ status' = code
Goto(step) ==
    /\ pc' = step
    /\ UNCHANGED status

----------------------------------------------------------------------------
(* The steps of main.                                                      *)

\* getopt: -f, -h, or an option it does not know.
Args ==
    /\ pc = "args"
    /\ \/ foreground' \in BOOLEAN /\ Goto("load")
       \/ ExitWith("0") /\ UNCHANGED foreground
       \/ ExitWith("2") /\ UNCHANGED foreground
    /\ UNCHANGED <<inputs, cfg, log, rules, client, caught, stop, rc, goodbye, history>>

\* np_config_load; uci_alloc_context may fail.
LoadConfig ==
    /\ pc = "load"
    /\ LET load == np_config_load(found, opts)
       IN  \/ load.ok /\ cfg' = load.cfg /\ Goto("log")
           \/ ~load.ok /\ cfg' = load.cfg /\ ExitWith("1")
           \/ UNCHANGED cfg /\ ExitWith("1")
    /\ UNCHANGED <<inputs, foreground, log, rules, client, caught, stop, rc, goodbye, history>>

np_log_init ==
    /\ pc = "log"
    /\ log' = [syslog |-> ~foreground /\ cfg.log_syslog, level |-> cfg.log_level]
    /\ Goto("nft")
    /\ UNCHANGED <<inputs, foreground, cfg, rules, client, caught, stop, rc, goodbye, history>>

EnsureRules ==
    /\ pc = "nft"
    /\ \/ rules' = TRUE /\ Goto("create")
       \/ UNCHANGED rules /\ ExitWith("1")
    /\ UNCHANGED <<inputs, foreground, cfg, log, client, caught, stop, rc, goodbye, history>>

TlsAccepted ==
    /\ cfg.tls_ca_file \notin {None, Empty}
    /\ (cfg.tls_cert_file = None) <=> (cfg.tls_key_file = None)

\* np_mqtt_create; its allocations may fail.  Then g_mqtt and the watcher.
CreateClient ==
    /\ pc = "create"
    /\ \/ /\ cfg.tls_enabled => TlsAccepted
          /\ client' = "live"
          /\ Goto("signals")
       \/ UNCHANGED client /\ ExitWith("1")
    /\ UNCHANGED <<inputs, setup, caught, stop, rc, goodbye, history>>

InstallHandlers ==
    /\ pc = "signals"
    /\ caught' = TRUE
    /\ Goto("run")
    /\ UNCHANGED <<inputs, setup, client, stop, rc, goodbye, history>>

BrokerAccepted == cfg.broker_port <= PortMax /\ cfg.keepalive >= MinKeepalive

\* Mutant: the flag is cleared before the loop.
ConnectClearing ==
    /\ pc = "run"
    /\ \/ BrokerAccepted /\ rc' = 0 /\ stop' = FALSE /\ Goto("loop")
       \/ rc' = -1 /\ UNCHANGED stop /\ Goto("destroy")
    /\ UNCHANGED <<inputs, setup, client, caught, goodbye, history>>

\* np_mqtt_run up to its loop: mosquitto_connect_async.
ConnectAsync ==
    /\ pc = "run"
    /\ \/ BrokerAccepted /\ rc' = 0 /\ Goto("loop")
       \/ rc' = -1 /\ Goto("destroy")
    /\ UNCHANGED <<inputs, setup, client, caught, stop, goodbye, history>>

\* Mutant: an error of mosquitto_loop ends the loop.
LeaveLoopOnError ==
    /\ pc = "loop"
    /\ goodbye' = TRUE
    /\ Goto("destroy")
    /\ UNCHANGED <<inputs, setup, client, caught, stop, rc, history>>

\* The loop goes on until the flag is set, whatever mosquitto_loop returns; then
\* offline, DISCONNECT and the draining.
LeaveLoop ==
    /\ pc = "loop"
    /\ stop
    /\ goodbye' = TRUE
    /\ Goto("destroy")
    /\ UNCHANGED <<inputs, setup, client, caught, stop, rc, history>>

\* np_leases_destroy and np_mqtt_destroy.  g_mqtt keeps its value.
DestroyClient ==
    /\ pc = "destroy"
    /\ client' = "freed"
    /\ Goto("free")
    /\ UNCHANGED <<inputs, setup, caught, stop, rc, goodbye, history>>

\* Mutant: the result of np_mqtt_run is not looked at.
ReturnZero ==
    /\ pc = "free"
    /\ ExitWith("0")
    /\ UNCHANGED <<inputs, setup, client, caught, stop, rc, goodbye, history>>

\* np_config_free, np_log_close, and the end of main.
Return ==
    /\ pc = "free"
    /\ ExitWith(IF rc = 0 THEN "0" ELSE "1")
    /\ UNCHANGED <<inputs, setup, client, caught, stop, rc, goodbye, history>>

\* SIGINT or SIGTERM: the default action before sigaction, on_signal after it.
Signal ==
    /\ status = "running" /\ signals < MaxSignals
    /\ signals' = signals + 1
    /\ \/ /\ ~caught
          /\ ExitWith("killed")
          /\ UNCHANGED <<stop, asked, dangling>>
       \/ /\ caught /\ client = "live"
          /\ stop' = TRUE
          /\ asked' = TRUE
          /\ UNCHANGED <<pc, status, dangling>>
       \/ /\ caught /\ client = "freed"
          /\ dangling' = TRUE
          /\ UNCHANGED <<pc, status, stop, asked>>
    /\ UNCHANGED <<inputs, setup, client, caught, rc, goodbye>>

Main ==
    \/ Args \/ LoadConfig \/ np_log_init \/ EnsureRules \/ CreateClient
    \/ InstallHandlers \/ ConnectAsync \/ LeaveLoop \/ DestroyClient \/ Return

ProcessNext == Main \/ Signal

ProcessSpec == ProcessInit /\ [][ProcessNext]_processVars

\* The process is scheduled, and mosquitto_loop returns after at most 500 ms.
ProcessFairSpec == ProcessSpec /\ WF_processVars(Main)

----------------------------------------------------------------------------
(* Properties.                                                             *)

Connected == pc = "loop" \/ goodbye

\* What the section asks for.  A number that no int holds, which the cast of
\* uci_get_int wraps where long is wider than int, asks for nothing in particular.
PortGiven == found /\ opts.broker_port \in 1..PortMax
PortWraps == found /\ opts.broker_port \in Int \ (-IntMax - 1..IntMax)
PlainAsked == found /\ opts.tls_enabled = No

\* The daemon connects without TLS only when told so in as many words, with TLS
\* only when it has a CA file, and to the port the option gives or else to the
\* default of the transport: a port out of range is refused, never replaced.
\* Excepted is a number beyond an int, which may become a port of its own.
ConnectsAsAsked ==
    Connected =>
        /\ cfg.tls_enabled <=> ~PlainAsked
        /\ cfg.tls_enabled => cfg.tls_ca_file \notin {None, Empty}
        /\ ~PortWraps =>
              cfg.broker_port = IF PortGiven THEN opts.broker_port
                                ELSE IF PlainAsked THEN PlainPort ELSE TlsPort

\* From np_log_init on errors are written, whatever log_level says: the reason
\* for every refusal to start is on record.
ErrorsHeard == log.level >= 0

\* Who started the daemon sees 0 only when it was told to stop and has said
\* goodbye to the broker, or was only asked for its usage.
ZeroMeansStopped == status = "0" => (asked /\ goodbye) \/ ~caught

\* np_mqtt_stop is "signal-safe" (mqtt.h:34) for the signal that stops the
\* daemon, since nothing else ends the loop.  A second one, and any after a
\* failed mosquitto_connect_async, may find the client freed.
FirstSignalSafe == signals <= 1 /\ rc = 0 => ~dangling

\* A daemon that was told to stop ends, also when it was told before its loop
\* had begun.
StopHonoured == asked ~> status \in {"0", "1"}
=============================================================================

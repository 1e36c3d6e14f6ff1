--------------------------- MODULE ProcessProofs ---------------------------
(***************************************************************************)
(* For every section of options and every width of the integers: what the  *)
(* daemon connects with, what its exit status means, and that the signal   *)
(* which stops it finds a live client.                                     *)
(***************************************************************************)
EXTENDS Process, TLAPS

load == np_config_load(found, opts)

Inputs == found \in BOOLEAN /\ opts \in Options

\* What main knows of its configuration at each step.
Loaded ==
    /\ pc \in {"log", "nft", "create", "signals", "run", "loop", "destroy", "free"}
          \/ goodbye => load.ok /\ cfg = load.cfg
    /\ pc \in {"signals", "run", "loop", "destroy", "free"} \/ goodbye =>
          (cfg.tls_enabled => TlsAccepted)
    /\ Connected => BrokerAccepted

\* Where the client and the handlers exist.
Order ==
    /\ caught => pc \in {"run", "loop", "destroy", "free", "exited"}
    /\ goodbye => pc \in {"destroy", "free", "exited"}
    /\ client = "live" => pc \in {"signals", "run", "loop", "destroy", "exited"}
    /\ client = "freed" => pc \in {"free", "exited"}
    /\ pc = "free" => client = "freed"
    /\ status = "running" <=> pc # "exited"

\* What the signals have done.
Told ==
    /\ signals \in Nat
    /\ stop => asked /\ signals > 0
    /\ pc \in {"destroy", "free"} /\ rc = 0 => goodbye /\ stop
    /\ client = "freed" /\ rc = 0 => signals > 0
    /\ dangling => client = "freed"
    /\ dangling /\ rc = 0 => signals > 1

PInv == Inputs /\ Loaded /\ Order /\ Told /\ ErrorsHeard /\ ZeroMeansStopped

\* uci_get_int yields an integer, whatever the option says.
LEMMA IntOption ==
    ASSUME NEW v \in Int \cup {None, Empty, Junk}, NEW d \in Int
    PROVE  uci_get_int(v, d) \in Int
<1> USE ConfigAssumption
<1>1. CASE v \in {None, Empty}
  BY <1>1 DEF uci_get_int
<1>2. CASE v \in Int /\ v \notin {None, Empty}
  <2>1. strtol(v) \in Int
    BY <1>2 DEF strtol
  <2>2. AsInt(strtol(v)) \in Int
    BY <2>1 DEF AsInt
  <2> QED BY <1>2, <2>2 DEF uci_get_int
<1>3. CASE v \notin Int /\ v \notin {None, Empty}
  BY <1>3 DEF uci_get_int
<1> QED BY <1>1, <1>2, <1>3

\* struct np_config with its strings in S.
Configs(S) ==
    [device_id : S, broker_port : Int, keepalive : Int, tls_enabled : BOOLEAN,
     tls_ca_file : S, tls_cert_file : S, tls_key_file : S,
     log_level : Int, log_syslog : BOOLEAN]

\* apply_defaults field by field.
LEMMA Defaulted ==
    ASSUME NEW S, NEW c \in Configs(S)
    PROVE  LET d == apply_defaults(c)
           IN  /\ d.broker_port = IF c.broker_port <= 0
                                  THEN (IF c.tls_enabled THEN TlsPort ELSE PlainPort)
                                  ELSE c.broker_port
               /\ d.tls_enabled = c.tls_enabled
               /\ d.log_level = IF c.log_level < 0 THEN InfoLevel ELSE c.log_level
BY DEF apply_defaults, Configs

LEMMA BlankConfig ==
    /\ Blank \in Configs({None})
    /\ Blank.broker_port = 0 /\ Blank.log_level = -1 /\ Blank.tls_enabled = TRUE
BY DEF Blank, Configs

\* Without a section the configuration is the defaults.
LEMMA LoadedBlank ==
    ~found => /\ load.cfg.log_level = InfoLevel
              /\ load.cfg.tls_enabled = TRUE
              /\ load.cfg.broker_port = TlsPort
<1> SUFFICES ASSUME ~found
             PROVE  /\ load.cfg.log_level = InfoLevel
                    /\ load.cfg.tls_enabled = TRUE
                    /\ load.cfg.broker_port = TlsPort
  OBVIOUS
<1>1. load.cfg = apply_defaults(Blank)
  BY DEF load, np_config_load
<1> QED BY <1>1, BlankConfig, Defaulted

\* With a section the configuration before its defaults keeps its types.
LEMMA OptionConfig ==
    Inputs => FromOptions(opts) \in Configs({None, opts.device_id, opts.tls_ca_file,
                                             opts.tls_cert_file, opts.tls_key_file})
<1> SUFFICES ASSUME Inputs
             PROVE  FromOptions(opts) \in Configs({None, opts.device_id, opts.tls_ca_file,
                                                   opts.tls_cert_file, opts.tls_key_file})
  OBVIOUS
<1> DEFINE Number == Int \cup {None, Empty, Junk}
<1>1. opts.broker_port \in Number /\ opts.keepalive \in Number /\ opts.log_level \in Number
  BY ProcessAssumption DEF Inputs
<1>2. 0 \in Int /\ -1 \in Int
  OBVIOUS
<1>3. /\ uci_get_int(opts.broker_port, 0) \in Int
      /\ uci_get_int(opts.keepalive, 0) \in Int
      /\ uci_get_int(opts.log_level, -1) \in Int
  BY ONLY <1>1, <1>2, IntOption
<1>4. /\ uci_get_bool(opts.tls_enabled, TRUE) \in BOOLEAN
      /\ uci_get_bool(opts.log_syslog, TRUE) \in BOOLEAN
  BY DEF uci_get_bool
<1> QED BY <1>3, <1>4 DEF FromOptions, Blank, Configs

\* The level np_config_load settles on is one of enum np_log_level or above it.
LEMMA LevelSettled == Inputs => load.cfg.log_level \in Int /\ load.cfg.log_level >= 0
<1> SUFFICES ASSUME Inputs PROVE load.cfg.log_level \in Int /\ load.cfg.log_level >= 0
  OBVIOUS
<1>1. CASE ~found
  BY <1>1, LoadedBlank, ConfigAssumption
<1>2. CASE found
  <2> DEFINE c == FromOptions(opts)
             T == {None, opts.device_id, opts.tls_ca_file, opts.tls_cert_file,
                   opts.tls_key_file}
  <2>1. load.cfg = apply_defaults(c)
    BY <1>2 DEF load, np_config_load
  <2>2. c \in Configs(T)
    BY OptionConfig
  <2>3. c.log_level \in Int
    BY <2>2 DEF Configs
  <2> HIDE DEF c, T
  <2>4. load.cfg.log_level = IF c.log_level < 0 THEN InfoLevel ELSE c.log_level
    BY <2>1, <2>2, Defaulted
  <2> QED BY <2>3, <2>4, ConfigAssumption
<1> QED BY <1>1, <1>2

LEMMA ProcessInitially == ProcessInit => PInv
BY ConfigAssumption
   DEF ProcessInit, PInv, Inputs, Loaded, Order, Told, ErrorsHeard, ZeroMeansStopped, Connected

LEMMA ProcessStep == PInv /\ [ProcessNext]_processVars => PInv'
<1> SUFFICES ASSUME PInv, [ProcessNext]_processVars PROVE PInv'
  OBVIOUS
<1> USE DEF PInv, Inputs, Order, Told, ErrorsHeard, ZeroMeansStopped, Connected,
            inputs, setup, history, ExitWith, Goto
<1>1. CASE Args
  BY <1>1 DEF Args, Loaded, load
<1>2. CASE LoadConfig
  BY <1>2 DEF LoadConfig, Loaded, load
<1>3. CASE np_log_init
  <2>1. load.cfg.log_level >= 0 /\ cfg = load.cfg
    BY <1>3, LevelSettled DEF np_log_init, Loaded
  <2> QED BY <1>3, <2>1 DEF np_log_init, Loaded, load
<1>4. CASE EnsureRules
  BY <1>4 DEF EnsureRules, Loaded, load
<1>5. CASE CreateClient
  BY <1>5 DEF CreateClient, Loaded, load, TlsAccepted
<1>6. CASE InstallHandlers
  BY <1>6 DEF InstallHandlers, Loaded, load, TlsAccepted
<1>7. CASE ConnectAsync
  BY <1>7 DEF ConnectAsync, Loaded, load, TlsAccepted, BrokerAccepted
<1>8. CASE LeaveLoop
  BY <1>8 DEF LeaveLoop, Loaded, load, TlsAccepted, BrokerAccepted
<1>9. CASE DestroyClient
  BY <1>9 DEF DestroyClient, Loaded, load, TlsAccepted, BrokerAccepted
<1>10. CASE Return
  BY <1>10 DEF Return, Loaded, load, TlsAccepted, BrokerAccepted
<1>11. CASE Signal
  BY <1>11 DEF Signal, Loaded, load, TlsAccepted, BrokerAccepted
<1>12. CASE UNCHANGED processVars
  BY <1>12 DEF processVars, Loaded, load, TlsAccepted, BrokerAccepted
<1> QED
  BY <1>1, <1>2, <1>3, <1>4, <1>5, <1>6, <1>7, <1>8, <1>9, <1>10, <1>11, <1>12
     DEF ProcessNext, Main

LEMMA ProcessInvariant == ProcessSpec => []PInv
BY ProcessInitially, ProcessStep, PTL DEF ProcessSpec

----------------------------------------------------------------------------
\* Errors are written from np_log_init on, for every log_level in the file.
THEOREM ErrorsAreHeard == ProcessSpec => []ErrorsHeard
<1>1. PInv => ErrorsHeard
  BY DEF PInv
<1> QED BY <1>1, ProcessInvariant, PTL

\* An exit status of 0 means told to stop and said goodbye, or a usage request.
THEOREM ZeroIsAGoodEnd == ProcessSpec => []ZeroMeansStopped
<1>1. PInv => ZeroMeansStopped
  BY DEF PInv
<1> QED BY <1>1, ProcessInvariant, PTL

\* The signal that stops a connected daemon finds its client alive.
THEOREM StoppingSignalSafe == ProcessSpec => []FirstSignalSafe
<1>1. PInv => FirstSignalSafe
  BY DEF PInv, Told, FirstSignalSafe
<1> QED BY <1>1, ProcessInvariant, PTL

----------------------------------------------------------------------------
(* The connection, whatever the widths of int and long are.                *)

\* A number that fits an int goes through the cast unchanged.
LEMMA CastKeeps == ASSUME NEW n \in -IntMax - 1..IntMax PROVE AsInt(n) = n
<1>1. n + IntMax + 1 \in 0..2 * (IntMax + 1) - 1
  BY ConfigAssumption
<1>2. \A a, b \in Int : 0 <= a /\ a < b => a % b = a
  BY SMT
<1>3. (n + IntMax + 1) % (2 * (IntMax + 1)) = n + IntMax + 1
  BY <1>1, <1>2, ConfigAssumption
<1> QED BY <1>3, ConfigAssumption DEF AsInt

\* The port of the configuration is the option's when that is a port; otherwise
\* the default, or one mosquitto_connect_async refuses, or wrapped.
LEMMA PortSettled ==
    ASSUME Inputs, ~PortWraps, load.cfg.broker_port <= PortMax
    PROVE  load.cfg.broker_port =
              IF PortGiven THEN opts.broker_port
              ELSE IF load.cfg.tls_enabled THEN TlsPort ELSE PlainPort
<1> DEFINE v == opts.broker_port
           p == uci_get_int(v, 0)
<1> USE ConfigAssumption, ProcessAssumption
<1>1. CASE ~found
  BY <1>1, LoadedBlank DEF PortGiven
<1>2. CASE found
  <2>1. load.cfg.broker_port = IF p <= 0
                               THEN (IF load.cfg.tls_enabled THEN TlsPort ELSE PlainPort)
                               ELSE p
    BY <1>2 DEF load, np_config_load, apply_defaults, FromOptions, Blank
  <2>2. CASE v \notin Int
    <3>1. p = 0
      BY <2>2 DEF uci_get_int
    <3> QED BY <2>1, <2>2, <3>1 DEF PortGiven
  <2>3. CASE v \in Int
    <3>1. v \in -IntMax - 1..IntMax
      BY <1>2, <2>3 DEF PortWraps
    <3>2. strtol(v) = v
      BY <3>1 DEF strtol
    <3>3. p = v
      <4>1. p = AsInt(strtol(v))
        BY <2>3 DEF uci_get_int
      <4> QED BY <3>1, <3>2, <4>1, CastKeeps
    <3>4. load.cfg.broker_port = IF v <= 0
                                 THEN (IF load.cfg.tls_enabled THEN TlsPort ELSE PlainPort)
                                 ELSE v
      BY <2>1, <3>3
    <3> QED BY <1>2, <2>3, <3>4 DEF PortGiven
  <2> QED BY <2>2, <2>3
<1> QED BY <1>1, <1>2 DEF Inputs

\* TLS is left out only for a section that says so.
LEMMA TlsSettled == Inputs => (load.cfg.tls_enabled <=> ~PlainAsked)
<1>1. CASE ~found
  BY <1>1 DEF load, np_config_load, apply_defaults, Blank, PlainAsked
<1>2. CASE found
  BY <1>2, ConfigAssumption
     DEF load, np_config_load, apply_defaults, FromOptions, Blank, uci_get_bool, PlainAsked
<1> QED BY <1>1, <1>2 DEF Inputs

\* For every section and all widths: the transport and the CA file of a connection
\* are the ones asked for, and so is the port, unless its number passes an int.
THEOREM ConnectionAsAsked == ProcessSpec => []ConnectsAsAsked
<1>1. PInv => ConnectsAsAsked
  <2> SUFFICES ASSUME PInv, Connected
               PROVE  /\ cfg.tls_enabled <=> ~PlainAsked
                      /\ cfg.tls_enabled => cfg.tls_ca_file \notin {None, Empty}
                      /\ ~PortWraps =>
                            cfg.broker_port = IF PortGiven THEN opts.broker_port
                                              ELSE IF PlainAsked THEN PlainPort ELSE TlsPort
    BY DEF ConnectsAsAsked
  <2>1. Inputs /\ cfg = load.cfg /\ BrokerAccepted /\ (cfg.tls_enabled => TlsAccepted)
    BY DEF PInv, Loaded, Connected
  <2>2. cfg.tls_enabled <=> ~PlainAsked
    BY <2>1, TlsSettled
  <2>3. ~PortWraps => cfg.broker_port = IF PortGiven THEN opts.broker_port
                                        ELSE IF cfg.tls_enabled THEN TlsPort ELSE PlainPort
    BY <2>1, PortSettled DEF BrokerAccepted
  <2> QED BY <2>1, <2>2, <2>3 DEF TlsAccepted
<1> QED BY <1>1, ProcessInvariant, PTL
=============================================================================

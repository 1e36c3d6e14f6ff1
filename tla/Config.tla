------------------------------- MODULE Config -------------------------------
(***************************************************************************)
(* np_config_load() of src/src/config.c: what becomes of the options of    *)
(* /etc/config/netparent.                                                  *)
(*                                                                         *)
(* The text of an option is a value of its own, a number, which stands for *)
(* every text that begins with it (strtol stops behind the digits), or one *)
(* of the classes the code tells apart: None (no such option, or a list),  *)
(* Empty, Yes and No (any spelling uci_get_bool knows) and Junk (anything  *)
(* else, in which strtol finds no digits).                                 *)
(***************************************************************************)
EXTENDS Integers

CONSTANTS
    None, Empty, Yes, No, Junk,
    IntMax,           \* INT_MAX
    LongMax,          \* LONG_MAX, which strtol does not pass
    TlsPort,          \* 8883
    PlainPort,        \* 1883
    DefaultKeepalive, \* 30
    InfoLevel         \* NP_LOG_INFO

ASSUME ConfigAssumption ==
    /\ IntMax \in Nat /\ LongMax \in Nat /\ IntMax <= LongMax
    /\ {TlsPort, PlainPort, DefaultKeepalive} \subseteq 1..IntMax
    /\ InfoLevel \in 0..IntMax
    /\ {None, Empty, Yes, No, Junk} \cap Int = {}
    /\ Yes # No

\* strtol(v, NULL, 10), which saturates, and the cast to int, which wraps.
strtol(n) == IF n > LongMax THEN LongMax ELSE IF n < -LongMax - 1 THEN -LongMax - 1 ELSE n
AsInt(n) == ((n + IntMax + 1) % (2 * (IntMax + 1))) - IntMax - 1

uci_get_int(v, defval) ==
    IF v \in {None, Empty} THEN defval ELSE IF v \in Int THEN AsInt(strtol(v)) ELSE 0

\* Mutant: whatever is not a yes is a no.
uci_get_bool_strict(v, defval) == IF v \in {None, Empty} THEN defval ELSE v = Yes

uci_get_bool(v, defval) == (v = Yes) \/ (defval /\ v # No)

\* Mutant: only the value that stands for "no option" is replaced.
apply_defaults_unset_only(cfg) ==
    [cfg EXCEPT
        !.device_id   = IF @ = None THEN "router-1" ELSE @,
        !.broker_port = IF @ = 0 THEN (IF cfg.tls_enabled THEN TlsPort ELSE PlainPort) ELSE @,
        !.keepalive   = IF @ = 0 THEN DefaultKeepalive ELSE @,
        !.log_level   = IF @ = -1 THEN InfoLevel ELSE @]

apply_defaults(cfg) ==
    [cfg EXCEPT
        !.device_id   = IF @ = None THEN "router-1" ELSE @,
        !.broker_port = IF @ <= 0 THEN (IF cfg.tls_enabled THEN TlsPort ELSE PlainPort) ELSE @,
        !.keepalive   = IF @ <= 0 THEN DefaultKeepalive ELSE @,
        !.log_level   = IF @ < 0 THEN InfoLevel ELSE @]

\* The configuration after the memset and the three assignments behind it.
Blank ==
    [device_id   |-> None,
     broker_port |-> 0,
     keepalive   |-> 0,
     tls_enabled |-> TRUE,
     tls_ca_file |-> None, tls_cert_file |-> None, tls_key_file |-> None,
     log_level   |-> -1,
     log_syslog  |-> TRUE]

FromOptions(o) ==
    [Blank EXCEPT
        !.device_id     = o.device_id,
        !.broker_port   = uci_get_int(o.broker_port, 0),
        !.keepalive     = uci_get_int(o.keepalive, 0),
        !.tls_enabled   = uci_get_bool(o.tls_enabled, TRUE),
        !.tls_ca_file   = o.tls_ca_file,
        !.tls_cert_file = o.tls_cert_file,
        !.tls_key_file  = o.tls_key_file,
        !.log_level     = uci_get_int(o.log_level, -1),
        !.log_syslog    = uci_get_bool(o.log_syslog, TRUE)]

\* found: the package is there and has a section of name or type "main".  The
\* last check is made of a section only.
np_config_load(found, o) ==
    IF ~found THEN [ok |-> TRUE, cfg |-> apply_defaults(Blank)]
    ELSE LET cfg == apply_defaults(FromOptions(o))
         IN  [ok |-> ~(cfg.tls_enabled /\ cfg.tls_ca_file = None), cfg |-> cfg]
=============================================================================

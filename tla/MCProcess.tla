----------------------------- MODULE MCProcess -----------------------------
(***************************************************************************)
(* Widths scaled down: an int of 4 bits, a long of 6, ports up to 5.       *)
(* Sections that vary the numbers, and sections that vary the files.       *)
(***************************************************************************)
EXTENDS Process

Section ==
    [device_id |-> None, broker_port |-> None, keepalive |-> None,
     tls_enabled |-> None, tls_ca_file |-> "ca", tls_cert_file |-> None,
     tls_key_file |-> None, log_level |-> None, log_syslog |-> None]

Switches == {None, Empty, Yes, No, Junk}
Numbers == {None, Empty, Junk, -40, -20, -12, -3, 0, 1, 4, 6, 7, 9, 20, 40}

MCOptions ==
    {[Section EXCEPT !.broker_port = p, !.tls_enabled = t] : p \in Numbers, t \in Switches}
    \cup {[Section EXCEPT !.keepalive = k, !.log_level = n] :
             k \in {None, -3, 1, 2, 9, 20}, n \in {None, Junk, -20, -3, 3, 6, 9, 40}}
    \cup {[Section EXCEPT !.tls_enabled = t, !.tls_ca_file = ca, !.tls_cert_file = c,
                          !.tls_key_file = k, !.log_syslog = t] :
             t \in Switches, ca \in {None, Empty, "ca"}, c \in {None, "cert"}, k \in {None, "key"}}
=============================================================================

----------------------------- MODULE MCTransport -----------------------------
(* Model-checking instances of Transport. *)
EXTENDS Transport

CONSTANTS parent, child

Family == {parent, child}

Config(type, tls) ==
    [type |-> type, tls |-> tls, faults |-> FALSE, forks |-> FALSE, taken |-> {}, baseMax |-> 1, jitter |-> {0}]

\* System calls fail and the application has a descriptor of the range.
Troubled(c) == [c EXCEPT !.faults = TRUE, !.taken = {1}, !.baseMax = 4, !.jitter = {0, 1}]

TlsUdpFile == {Troubled(Config("CFG_TCP", TRUE)), Troubled(Config("CFG_UDP", FALSE)),
               Troubled(Config("CFG_FILE", FALSE))}
Forking == {[Config("CFG_TCP", FALSE) EXCEPT !.forks = TRUE]}
All == TlsUdpFile \cup Forking

\* Without faults, but with the descriptor.
PlainTaken == {[Config("CFG_TCP", FALSE) EXCEPT !.taken = {1}]}
UnixTaken == {[Config("CFG_UNIX", FALSE) EXCEPT !.taken = {1}]}
=============================================================================

----------------------------- MODULE MCHttpScan -----------------------------
EXTENDS HttpScan

Clen(n) == [k |-> "clen", v |-> n]
Text(n) == [i \in 1 .. n |-> Tok("x")]
Fake == HTTP_START

\* Messages with and without content, whose content may look like a header; one
\* header just fits and another just does not.
Messages ==
    {Message(TRUE, <<>>, <<>>),
     Message(FALSE, <<Clen(2)>>, Fake),
     Message(FALSE, <<Tok("other"), Clen(3)>>, Fake \o Text(1)),
     Message(TRUE, <<Clen(0)>>, <<>>),
     Message(TRUE, <<Tok("other"), Clen(1)>>, Text(1)),
     Message(FALSE, <<>>, Text(2))}

One == {[RX |-> <<>>, TX |-> <<m, n>>, isSsl |-> s, turns |-> FALSE] :
            m \in Messages, n \in Messages, s \in BOOLEAN}

H(n) == Frame(HEADERS, [i \in 1 .. n |-> [k |-> "data", v |-> i]])
D(n) == Frame(0, [i \in 1 .. n |-> [k |-> "data", v |-> i]])

Two == {[RX |-> <<Magic, D(0), H(2), H(1)>>, TX |-> <<H(3), D(1), H(0)>>, isSsl |-> s, turns |-> FALSE] :
            s \in BOOLEAN}

Upgraded ==
    {[RX |-> <<Message(TRUE, <<Tok("upgrade")>>, <<>>), Magic, H(0), H(1)>>,
      TX |-> <<Message(FALSE, <<Tok("upgrade")>>, <<>>), D(1), H(1)>>, isSsl |-> FALSE, turns |-> TRUE]}

MCSessions == One \cup Two \cup Upgraded
=============================================================================

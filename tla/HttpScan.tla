------------------------------ MODULE HttpScan ------------------------------
(***************************************************************************)
(* How HTTP headers are found in the buffers an application reads and      *)
(* writes on a connection: protocol detection (doProtocol in state.c), the *)
(* HTTP/1 scanner and the reassembly of HTTP/2 frames (httpstate.c).  The  *)
(* application cuts the two byte streams into buffers as it likes; the     *)
(* parsers keep what they need between calls in net->http.                 *)
(*                                                                         *)
(* A byte is a token [k, v].  Tokens stand for as many bytes as can not be *)
(* told apart by a cut: "HTTP/" is two of them, the magic of HTTP/2 is two *)
(* and the header of a frame is three (the length, most significant first, *)
(* in two of them, and the type).                                          *)
(***************************************************************************)
EXTENDS Integers, Sequences, FiniteSets, FiniteSetsExt, SequencesExt

CONSTANTS
    Sessions,   \* what the two sides say to each other
    MaxHdr,     \* MAX_HDR_ALLOC
    MaxRaw      \* bound on buffers of encrypted data that are seen as well

VARIABLES
    session,    \* the session
    pos,        \* per direction: how much of it went by
    net,        \* detection: tlsDetect, protoDetect and the version
    http,       \* per direction: http_state_t
    reports,    \* per direction, history: the headers that were posted
    raw,        \* how many buffers of encrypted data were seen
    rough,      \* history: a cut, or a detection, the scanner does not claim to survive
    doubled     \* history: the magic was skipped twice

httpScanVars == <<session, pos, net, http, reports, raw, rough, doubled>>

Directions == {"RX", "TX"}
TokenKinds == {"GET", "HTTP", "/", "CR", "LF", "NUL", "PRI", "SM", "clen", "upgrade", "other", "x",
               "byte", "data", "hello", "record", "enc"}
Token == [k : TokenKinds, v : Nat]

----------------------------------------------------------------------------
(* External: what is said.  A unit is a message of HTTP/1, the magic, or a *)
(* frame of HTTP/2; the reference for the scanner is the list of units.    *)

Tok(k) == [k |-> k, v |-> 0]
HTTP_START == <<Tok("HTTP"), Tok("/")>>
HTTP_END == <<Tok("CR"), Tok("LF")>>
HTTP2_MAGIC == <<Tok("PRI"), Tok("SM")>>
FrameHdr == 3
Radix == 2
HEADERS == 1

\* lines of a header: "clen" with a value, "upgrade"
Message(isRequest, lines, body) ==
    LET first == (IF isRequest THEN <<Tok("GET")>> ELSE <<>>) \o HTTP_START
        hdr == first \o HTTP_END \o FlattenSeq([i \in DOMAIN lines |-> <<lines[i]>> \o HTTP_END])
    IN  [kind |-> "message", toks |-> hdr \o HTTP_END \o body, hdr |-> hdr,
         start |-> Len(first), skipped |-> \E i \in DOMAIN lines : lines[i].k = "clen" /\ lines[i].v > 0]
Magic == [kind |-> "magic", toks |-> HTTP2_MAGIC, hdr |-> <<>>, start |-> Len(HTTP2_MAGIC), skipped |-> FALSE]
Frame(type, data) ==
    LET toks == <<[k |-> "byte", v |-> Len(data) \div Radix], [k |-> "byte", v |-> Len(data) % Radix],
                  [k |-> "byte", v |-> type]>> \o data
    IN  [kind |-> "frame", toks |-> toks, hdr |-> IF type = HEADERS THEN toks ELSE <<>>,
         start |-> 0, skipped |-> FALSE]

StreamOf(s, d) == FlattenSeq([i \in DOMAIN s[d] |-> s[d][i].toks])
Stream(d) == StreamOf(session, d)
UnitStart(d, i) == Len(FlattenSeq([j \in 1 .. i - 1 |-> session[d][j].toks]))
UnitEnd(d, i) == UnitStart(d, i + 1)
HdrEnd(d, i) ==
    LET u == session[d][i]
    IN  CASE u.kind = "message" -> UnitStart(d, i) + Len(u.hdr) + Len(HTTP_END)
          [] OTHER -> UnitEnd(d, i)

ASSUME HttpScanAssumption ==
    /\ MaxHdr \in Nat \ {0} /\ MaxRaw \in Nat
    /\ \A s \in Sessions : s.isSsl \in BOOLEAN /\ \A d \in Directions : StreamOf(s, d) \in Seq(Token)

----------------------------------------------------------------------------
(* httpstate.c                                                             *)

Matches(pattern, s) ==
    {i \in 1 .. Len(s) - Len(pattern) + 1 : SubSeq(s, i, i + Len(pattern) - 1) = pattern}
StartsWith(s, pattern) == Len(s) >= Len(pattern) /\ SubSeq(s, 1, Len(pattern)) = pattern
From(s, i) == SubSeq(s, i, Len(s))

HTTP_NONE == [state |-> "NONE", hdr |-> <<>>, clen |-> 0, isSsl |-> FALSE, stash |-> <<>>]

\* Mutant of appendHeader: there is no limit.
appendHeaderAnyLen(st, s) == [st EXCEPT !.hdr = @ \o s]

\* setHttpState(HTTP_NONE) when there is more than is allocated for a header.
appendHeader(st, s) ==
    IF Len(st.hdr) + Len(s) > MaxHdr THEN HTTP_NONE ELSE [st EXCEPT !.hdr = @ \o s]

\* -1 without the field, and for a zero
getContentLength(hdr) ==
    LET at == {i \in DOMAIN hdr : hdr[i].k = "clen" /\ i - 2 \in Matches(HTTP_END, hdr)}
    IN  IF at = {} \/ hdr[Min(at)].v = 0 THEN -1 ELSE hdr[Min(at)].v

hasUpgrade(hdr) == \E i \in DOMAIN hdr : hdr[i].k = "upgrade" /\ i - 2 \in Matches(HTTP_END, hdr)

\* What a call leaves: the state, the headers posted, and whether the version
\* changes to 2.
Nothing(st) == [st |-> st, posted |-> <<>>, upgrade |-> FALSE]

\* parseHttp1 at the end of all headers: NUL is appended, the header is posted
\* and the content is skipped as far as it is announced.
Http1End(st, content) ==
    LET done == appendHeader(st, <<Tok("NUL")>>)
        clen == getContentLength(done.hdr)
    IN  [st      |-> IF clen # -1 /\ clen >= content
                     THEN [done EXCEPT !.state = "DATA", !.hdr = <<>>, !.clen = clen - content]
                     ELSE HTTP_NONE,
         posted  |-> IF done.hdr = <<>> THEN <<>> ELSE <<st.hdr>>,
         upgrade |-> StartsWith(done.hdr, HTTP_START) /\ hasUpgrade(done.hdr)]

\* Mutant of BlankLines: a line at the start of a buffer is not the end.
BlankLinesInBuf(st, buf) == {p \in Matches(HTTP_END, buf) : p - 2 \in Matches(HTTP_END, buf)}

\* Where the loop of parseHttp1 sees a line end right after a line end.
BlankLines(st, buf) ==
    {p \in Matches(HTTP_END, buf) : p - 2 \in Matches(HTTP_END, buf) \/ (p = 1 /\ st.state = "HDREND")}

Http1Lines(st, buf) ==
    LET blank == BlankLines(st, buf)
        all == appendHeader(st, buf)
        part == appendHeader(st, SubSeq(buf, 1, Min(blank) - 1))
    IN  IF blank = {}
        THEN Nothing(IF all = HTTP_NONE THEN all
                     ELSE [all EXCEPT !.state = IF Len(buf) - 1 \in Matches(HTTP_END, buf)
                                                THEN "HDREND" ELSE "HDR"])
        ELSE IF part = HTTP_NONE THEN Nothing(part)
        ELSE Http1End(part, Len(buf) - Min(blank) - 1)

\* Look for the start of a header.
Http1Start(st, buf, isSsl) ==
    IF st.state = "NONE" /\ Matches(HTTP_START, buf) = {} THEN Nothing(st)
    ELSE Http1Lines(IF st.state = "NONE" THEN [st EXCEPT !.state = "HDR", !.isSsl = isSsl] ELSE st, buf)

\* Data of the other kind is not part of a capture in progress, and content is
\* skipped.
parseHttp1(st, buf, isSsl) ==
    IF st.state # "NONE" /\ st.isSsl # isSsl THEN Nothing(st)
    ELSE IF st.state # "DATA" THEN Http1Start(st, buf, isSsl)
    ELSE IF st.clen >= Len(buf) THEN Nothing([st EXCEPT !.clen = @ - Len(buf)])
    ELSE Http1Start(HTTP_NONE, From(buf, st.clen + 1), isSsl)

FrameLen(s) == s[1].v * Radix + s[2].v

\* The magic is looked for at the start of the buffer, before each frame.
MagicLen(buf, left) ==
    IF StartsWith(buf, HTTP2_MAGIC) /\ left >= Len(HTTP2_MAGIC) THEN Len(HTTP2_MAGIC) ELSE 0

\* What is left from position p: a frame is taken off it, and what follows it
\* is handled by next; less than a frame is stashed.
FrameAt(st, buf, all, p, next) ==
    LET q == p + MagicLen(buf, Len(all) - p)
        rest == From(all, q + 1)
        n == FrameHdr + FrameLen(rest)
    IN  IF Len(rest) < FrameHdr \/ Len(rest) < n
        THEN [Nothing(st) EXCEPT !.st.stash = rest]
        ELSE IF rest[FrameHdr].v = HEADERS
        THEN [next[q + n] EXCEPT !.posted = <<SubSeq(rest, 1, n)>> \o @]
        ELSE next[q + n]

\* Frames are taken off what is stashed and the buffer; the rest is stashed.
\* A buffer that starts with the magic finds nothing stashed.
parseHttp2(st, buf) ==
    LET all == st.stash \o buf
        frames[p \in 0 .. Len(all)] == FrameAt(st, buf, all, p, frames)
    IN  frames[0]

\* doHttpBuffer: version detection first.
DetectVersion(buf) ==
    IF StartsWith(buf, HTTP2_MAGIC) THEN 2
    ELSE IF Matches(HTTP_START, buf) # {} THEN 1 ELSE 0

\* A call's effect on [net, st, posted], for one buffer.
doHttpBuffer(r, buf, isSsl) ==
    LET detected == IF r.version = 0 THEN DetectVersion(buf) ELSE r.version
        rest == IF r.version = 0 /\ detected = 2 THEN From(buf, Len(HTTP2_MAGIC) + 1) ELSE buf
        parsed == IF rest = <<>> \/ detected = 0 THEN Nothing(r.st)
                  ELSE IF detected = 1 THEN parseHttp1(r.st, rest, isSsl)
                  ELSE parseHttp2(r.st, rest)
    IN  [version |-> IF parsed.upgrade THEN 2 ELSE detected,
         st |-> parsed.st,
         posted |-> r.posted \o parsed.posted]

\* The buffers of a vector in turn.
doHttpBuffers(r, bufs, isSsl) ==
    LET first == doHttpBuffer(r, bufs[1], isSsl)
    IN  IF Len(bufs) = 1 THEN first ELSE doHttpBuffer(first, bufs[2], isSsl)

----------------------------------------------------------------------------
(* doProtocol in state.c                                                   *)

HttpRegex(buf) == Matches(HTTP_START, buf) # {} \/ Matches(HTTP2_MAGIC, buf) # {}

\* detectTLS, on the first buffer whatever it is
DetectTls(bufs) ==
    IF net.tls # "pending" THEN net.tls
    ELSE IF Head(Head(bufs)).k = "hello" THEN "true" ELSE "false"

\* detectProtocol: any of the vectors may match, the first call decides.
DetectProto(bufs) ==
    IF net.proto # "pending" THEN net.proto
    ELSE IF \E i \in DOMAIN bufs : HttpRegex(bufs[i]) THEN "true" ELSE "false"

\* One read or write of the application, of one buffer or a vector of two.
doProtocol(d, bufs, isSsl) ==
    LET tls == DetectTls(bufs)
        ours == tls = "false" \/ isSsl
        proto == IF ours THEN DetectProto(bufs) ELSE net.proto
        before == [version |-> net.version, st |-> http[d], posted |-> <<>>]
        after == IF ours /\ proto = "true"
                 THEN doHttpBuffers(before, bufs, isSsl)
                 ELSE before
    IN  /\ net' = [tls |-> tls, proto |-> proto, version |-> after.version]
        /\ http' = [http EXCEPT ![d] = after.st]
        /\ reports' = [reports EXCEPT ![d] = @ \o after.posted]

----------------------------------------------------------------------------
(* Cuts that the scanner is not made for.                                  *)

\* The unit does not begin where a scan begins: at the start of a buffer, or
\* where the content that is being skipped ends.
BadStart(d, i, a, b) ==
    LET s == UnitStart(d, i)
        u == session[d][i]
        skipping == session[d][i - 1].skipped /\ a >= HdrEnd(d, i - 1)
    IN  /\ a <= s /\ s < b
        /\ \/ u.kind # "frame" /\ b < s + u.start
           \/ i > 1 /\ a < s /\ ~(IF u.kind = "frame" THEN session[d][i - 1].kind # "message"
                                  ELSE u.kind = "message" /\ skipping)

\* A cut inside one of the two line ends at the end of a header, or a header
\* that is too long.
BadEnd(d, i, b) ==
    LET u == session[d][i]
    IN  /\ u.kind = "message" /\ b > UnitStart(d, i)
        /\ HdrEnd(d, i) - b \in {1, 3} \/ Len(u.hdr) + 1 > MaxHdr

BadCut(d, a, b) == \E i \in DOMAIN session[d] : BadStart(d, i, a, b) \/ BadEnd(d, i, b)

\* The first call has to show what the protocol is.
BadFirst(bufs) == net.proto = "pending" /\ ~\E i \in DOMAIN bufs : HttpRegex(bufs[i])

\* After an upgrade: the magic, a frame, and room for another magic.
SkipsTwice(d, a, b) ==
    /\ net.version = 2
    /\ \E i \in DOMAIN session[d] :
          /\ session[d][i].kind = "magic" /\ UnitStart(d, i) = a
          /\ i < Len(session[d]) /\ b - UnitEnd(d, i + 1) >= Len(HTTP2_MAGIC)

----------------------------------------------------------------------------
HttpScanInit ==
    /\ session \in Sessions
    /\ pos = [d \in Directions |-> 0]
    /\ net = [tls |-> "pending", proto |-> "pending", version |-> 0]
    /\ http = [d \in Directions |-> HTTP_NONE]
    /\ reports = [d \in Directions |-> <<>>]
    /\ raw = 0 /\ rough = FALSE /\ doubled = FALSE

\* The request is answered before either side goes on.
InTurn(d, b) ==
    session.turns =>
        CASE d = "RX" -> b <= UnitEnd("RX", 1) \/ pos["TX"] >= UnitEnd("TX", 1)
          [] d = "TX" -> pos["RX"] >= UnitEnd("RX", 1)

\* A read or a write: one buffer, or two in a vector.
Deliver(d) ==
    \E m \in pos[d] + 1 .. Len(Stream(d)), b \in pos[d] + 1 .. Len(Stream(d)) :
        LET a == pos[d]
            bufs == IF m < b THEN <<SubSeq(Stream(d), a + 1, m), SubSeq(Stream(d), m + 1, b)>>
                             ELSE <<SubSeq(Stream(d), a + 1, b)>>
        IN  /\ m <= b /\ InTurn(d, b)
            /\ doProtocol(d, bufs, session.isSsl)
            /\ pos' = [pos EXCEPT ![d] = b]
            /\ rough' = (rough \/ BadFirst(bufs) \/ BadCut(d, a, m) \/ (m < b /\ BadCut(d, m, b)))
            /\ doubled' = (doubled \/ SkipsTwice(d, a, m) \/ (m < b /\ SkipsTwice(d, m, b)))
            /\ UNCHANGED <<session, raw>>

\* The encrypted data of a TLS connection is read and written as well.
DeliverRaw(d) ==
    \E k \in {"hello", "record"} :
        /\ session.isSsl /\ raw < MaxRaw
        /\ doProtocol(d, <<<<Tok(k), Tok("enc")>>>>, FALSE)
        /\ raw' = raw + 1
        /\ rough' = (rough \/ (net'.tls = "false" /\ (net.proto = "pending" \/ net.version = 2)))
        /\ UNCHANGED <<session, pos, doubled>>

HttpScanNext == \E d \in Directions : Deliver(d) \/ DeliverRaw(d)

HttpScanSpec == HttpScanInit /\ [][HttpScanNext]_httpScanVars

----------------------------------------------------------------------------
(* Properties.                                                             *)

\* The headers in what went by, in order.
Headers(d) ==
    LET seen == {i \in DOMAIN session[d] : session[d][i].hdr # <<>> /\ HdrEnd(d, i) <= pos[d]}
    IN  [i \in 1 .. Cardinality(seen) |->
            session[d][CHOOSE j \in seen : Cardinality({h \in seen : h <= j}) = i].hdr]

\* However a connection's data is cut into buffers and vectors, as long as the
\* scanner can find where a message starts and ends: each header is posted once,
\* whole and as soon as it is complete, and nothing else is, be it content that
\* looks like a header, the end of a message and the start of the next in one
\* buffer, a frame whose length is cut in two, or encrypted data in between.
HeadersFound == ~rough /\ ~doubled => \A d \in Directions : reports[d] = Headers(d)

\* The same with the magic of HTTP/2 after an upgrade.
MagicSkippedOnce == ~rough => \A d \in Directions : reports[d] = Headers(d)

\* Whatever the cuts, what is kept for a header stays within MAX_HDR_ALLOC, and
\* what is stashed is less than a frame.
StoreBounded ==
    \A d \in Directions :
        /\ Len(http[d].hdr) <= MaxHdr
        /\ ~(Len(http[d].stash) >= FrameHdr /\ Len(http[d].stash) >= FrameHdr + FrameLen(http[d].stash))
=============================================================================

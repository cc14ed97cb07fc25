-------------------------------- MODULE Http --------------------------------
(***************************************************************************)
(* HttpContext and HttpServer::OnMessage of common/muduo.hpp on the Buffer *)
(* of Framing: requests of a line, headers, a blank line and a body, cut   *)
(* by TCP anywhere and several of them at a time, and the replies to them. *)
(*                                                                         *)
(* The peer sends parts: each is a line, or a body of the length that the  *)
(* request's headers gave.  Of a line's text its length counts, whether it *)
(* parses, and whether it is one of the two headers the server reads.  Of  *)
(* what a request asks for it counts whether some handler or file has it.  *)
(*                                                                         *)
(* A definition X_Y beside X is X with a plausible bug: README.md says     *)
(* which property notices it.                                              *)
(***************************************************************************)
EXTENDS Framing

CONSTANTS MaxLine,      \* MAX_LINE_LENGTH
          RequestLines, \* the parts the peer may send: records of a size
          Headers,      \* and a kind
          Body,         \* bytes of a body
          MaxParts      \* bound

Lines == {"line", "nowhere", "badline"}
Bad == {"badline", "badfield"}

ASSUME HttpAssumption ==
    /\ MaxLine \in Nat /\ Body \in Nat \ {0} /\ MaxParts \in Nat
    /\ \A p \in RequestLines :
        p.size \in Nat \ {0} /\ p.kind \in Lines
    /\ \A p \in Headers :
        p.size \in Nat \ {0} /\ p.kind \in {"keep", "length", "field", "badfield"}

VARIABLES context,  \* HttpContext: status, response code, what it has read
          replies   \* what was sent to the peer (history)

httpVars == <<context, replies>>

NewContext == [status |-> "line", code |-> "200", path |-> "", keep |-> FALSE,
               length |-> 0]

\* What Reset leaves of a context.
Reset_KeepsHeaders(x) == [x EXCEPT !.status = "line", !.code = "200"]
Reset(x) == NewContext

HttpInit ==
    /\ FramingInit
    /\ context = NewContext
    /\ replies = <<>>

-----------------------------------------------------------------------------
(* The peer.                                                               *)

\* How many requests were begun; the parts of the k-th, and its first one.
Requests == IF sent = <<>> THEN 0 ELSE sent[Len(sent)].request
PartsOf(k) == {j \in DOMAIN sent : sent[j].request = k}
StartOf(k) == CHOOSE j \in PartsOf(k) : sent[j].kind \in Lines

HasBody(k) == \E j \in PartsOf(k) : sent[j].kind = "length"
Whole(k) == \E j \in PartsOf(k) :
    sent[j].kind = "body" \/ (sent[j].kind = "blank" /\ ~HasBody(k))

Blank == [size |-> 1, kind |-> "blank"]

\* The parts that may come next.
MayFollow ==
    IF sent = <<>> \/ Whole(Requests) THEN RequestLines
    ELSE IF sent[Len(sent)].kind = "blank"
    THEN {[size |-> Body, kind |-> "body"]}
    ELSE Headers \cup {Blank}

\* Bound: it sends the next one when the last has arrived; where the stream is
\* cut and what is read at once is as free as without.
PeerSendsPart ==
    /\ ~Framed
    /\ delivered = Total /\ stage = "idle"
    /\ Len(sent) < MaxParts
    /\ \E p \in MayFollow : sent' = Append(sent,
            [from |-> Total, size |-> p.size, kind |-> p.kind,
             request |-> IF p.kind \in Lines THEN Requests + 1 ELSE Requests])
    /\ UNCHANGED <<role, delivered, taken, buffer, stage, given, refused, open,
                   httpVars>>

-----------------------------------------------------------------------------
(* RecvHttpRequest, a line or a body at a time.                            *)

Decoding(status) == ~Framed /\ stage = "decode" /\ context.status = status

\* ReadLineAndPop finds a line.
HasLine == First # {} /\ ReadableSize(buffer) >= Part.size

\* Too long: the line, or what is there of it.
LongLine ==
    (IF HasLine THEN Part.size ELSE ReadableSize(buffer)) > MaxLine

GoodLine == HasLine /\ ~LongLine /\ Part.kind \notin Bad

\* The code a line that is not good is refused with.
LineCode(long) == IF LongLine THEN long ELSE "400"

\* HttpRequest::Close, from which the reply gets its Connection header.
Short(x) == ~x.keep

ReplyWith(x) == replies' = Append(replies, [code |-> x.code, short |-> Short(x)])

\* RECV_HTTP_ERROR: what the buffer holds is dropped and a Shutdown queued.
Refuse(x) ==
    /\ ReplyWith(x)
    /\ context' = x
    /\ buffer' = [buffer EXCEPT !.read = 0, !.write = 0]
    /\ refused' = TRUE
    /\ stage' = "idle"

Unparsed == UNCHANGED <<role, sent, delivered, taken, given, open>>

\* A bad or long line ends the parsing for good.
RefuseLine(status, long) ==
    /\ Decoding(status)
    /\ LongLine \/ (HasLine /\ ~GoodLine)
    /\ Refuse([context EXCEPT !.status = "error", !.code = LineCode(long)])
    /\ Unparsed

\* What comes after an error finds the status unchanged and is refused again.
RefuseAgain ==
    /\ Decoding("error")
    /\ ReadableSize(buffer) > 0
    /\ Refuse(context)
    /\ Unparsed

\* Where the switch goes on after the request line: it falls through.
AfterLine_Break == "idle"
AfterLine == "decode"

RecvHttpLine ==
    /\ Decoding("line")
    /\ GoodLine
    /\ buffer' = Popped(buffer, Part.size)
    /\ context' = [context EXCEPT !.status = "header", !.path = Part.kind]
    /\ stage' = AfterLine
    /\ UNCHANGED <<refused, replies>>
    /\ Unparsed

\* AddHeader, as far as ContentLength and Close look at the headers.
AddHeader(x) == [x EXCEPT
    !.keep = @ \/ Part.kind = "keep",
    !.length = IF Part.kind = "length" THEN Body ELSE @]

\* A header; the blank line ends them.
RecvHttpHeader ==
    /\ Decoding("header")
    /\ GoodLine
    /\ buffer' = Popped(buffer, Part.size)
    /\ context' = IF Part.kind = "blank" THEN [context EXCEPT !.status = "body"]
                  ELSE AddHeader(context)
    /\ UNCHANGED <<refused, replies, stage>>
    /\ Unparsed

\* Nothing is found at a path that no route matches and that is no file.
Route(x) == IF x.path = "nowhere" THEN [x EXCEPT !.code = "404"] ELSE x

\* The request is over: Route, the reply, Reset; the connection stays open.
RecvHttpBody ==
    /\ Decoding("body")
    /\ ReadableSize(buffer) >= context.length
    /\ buffer' = Popped(buffer, context.length)
    /\ ReplyWith(Route(context))
    /\ context' = Reset(context)
    /\ stage' = IF ReadableSize(buffer') > 0 THEN "decode" ELSE "idle"
    /\ UNCHANGED refused
    /\ Unparsed

\* OnMessage returns when the context needs more than the buffer holds.
NeedsMore ==
    IF context.status = "error" THEN ReadableSize(buffer) = 0
    ELSE IF context.status = "body" THEN ReadableSize(buffer) < context.length
    ELSE ~HasLine /\ ~LongLine

AwaitMore ==
    /\ ~Framed
    /\ stage = "decode"
    /\ NeedsMore
    /\ stage' = "idle"
    /\ UNCHANGED <<buffer, refused, httpVars>>
    /\ Unparsed

HttpStep ==
    \/ RecvHttpLine
    \/ RecvHttpHeader
    \/ RecvHttpBody
    \/ RefuseLine("line", "414")
    \/ RefuseLine("header", "431")
    \/ RefuseAgain
    \/ AwaitMore

HttpNext ==
    \/ FramingNext /\ UNCHANGED httpVars
    \/ PeerSendsPart
    \/ HttpStep

allVars == <<framingVars, httpVars>>

HttpSpec == HttpInit /\ [][HttpNext]_allVars

\* As in Framing; the thread that runs OnMessage is scheduled.
HttpFairness ==
    /\ WF_allVars((BytesArrive \/ ReadSome) /\ UNCHANGED httpVars)
    /\ WF_allVars(stage = "reading" /\ ReadEnds /\ UNCHANGED httpVars)
    /\ WF_allVars((StopDecoding \/ Dispatch \/ DispatchStray) /\ UNCHANGED httpVars)
    /\ WF_allVars(HttpStep)

FairHttpSpec == HttpSpec /\ HttpFairness

-----------------------------------------------------------------------------
(* Properties.                                                             *)

HttpTypeOK ==
    /\ context.status \in {"line", "header", "body", "error"}
    /\ context.code \in {"200", "400", "414", "431"}
    /\ context.path \in {"", "line", "nowhere"}
    /\ context.keep \in BOOLEAN /\ context.length \in {0, Body}

\* The j-th part is refused, once enough of it was read, and with what code.
Long(j) == sent[j].kind # "body" /\ sent[j].size > MaxLine
Offends(j) == Long(j) \/ sent[j].kind \in Bad
Noticed(j) ==
    taken >= sent[j].from + (IF Long(j) THEN MaxLine + 1 ELSE sent[j].size)
CodeOf(j) == IF ~Long(j) THEN "400" ELSE IF sent[j].kind \in Lines THEN "414" ELSE "431"

\* The codes after which the server reads the next request.
Served == {"200", "404"}

\* The reply that the k-th request calls for, judged by what was read of it:
\* none yet, or one.
ReplyTo(k) ==
    LET bad == {j \in PartsOf(k) : Offends(j)}
        short(n) == \A j \in PartsOf(k) : j < n => sent[j].kind # "keep"
    IN IF bad # {}
       THEN {[code |-> CodeOf(j), short |-> short(j)] :
                j \in {j \in bad : Noticed(j) /\ \A i \in bad : j <= i}}
       ELSE IF Whole(k) /\ \A j \in PartsOf(k) : Noticed(j)
       THEN {[code |-> IF sent[StartOf(k)].kind = "nowhere" THEN "404" ELSE "200",
              short |-> short(Len(sent) + 1)]}
       ELSE {}

\* The k-th request calls for a reply, and those before it were not refused.
Due(k) == \A l \in 1..k :
    /\ ReplyTo(l) # {}
    /\ l < k => \A x \in ReplyTo(l) : x.code \in Served

\* Requests are answered once, in their order, each by its own headers and as
\* soon as it was read, however the stream was cut and however many came at
\* once; the first one refused is the last one answered, though it may be
\* refused again when more comes before the connection closes.
RepliesExact ==
    HttpTypeOK /\ (~Framed =>
       /\ \A k \in DOMAIN replies :
            IF k <= Requests /\ Due(k) THEN replies[k] \in ReplyTo(k)
            ELSE /\ k > 1 /\ replies[k] = replies[k - 1]
                 /\ replies[k].code \notin Served
       /\ stage = "idle" => \A k \in 1..Requests : Due(k) => k <= Len(replies))

\* "Without a Connection field, or with the value close, it is a short
\* connection": such a connection is shut down after the reply.
ShortClosed ==
    (\E k \in DOMAIN replies : replies[k].short) ~> (refused \/ ~open)
=============================================================================

----------------------------- MODULE Connection -----------------------------
(***************************************************************************)
(* A Connection and its Channel (common/muduo.hpp) in their loop thread,   *)
(* the threads that use it, and the socket's other end.  What EventLoop    *)
(* shows of a loop is taken for granted: the tasks of other threads run    *)
(* one by one, in the order they were queued, between events.              *)
(*                                                                         *)
(* Bytes are counted where only their number matters; those sent are named *)
(* by their sender and their number.  The connection's fields are the      *)
(* record conn, so that a handler reads as the composition of what it      *)
(* calls.                                                                  *)
(*                                                                         *)
(* A definition X_Y beside X is X with a plausible bug: README.md says     *)
(* which property notices it.                                              *)
(***************************************************************************)
EXTENDS Naturals, Sequences

CONSTANTS Users,      \* threads other than the loop's
          Loop,       \* the loop thread
          Kinds,      \* "server": made by TcpServer; "timed": by a TcpServer
                      \* that releases inactive connections; "client": by
                      \* TcpClient
          Timeout,    \* ticks after which a connection is inactive
          MaxSends,   \* bound: bytes sent by each thread
          MaxArrive,  \* bound: bytes the peer sends
          MaxCalls    \* bound: calls of Shutdown, Release and of the timer's
                      \* switches, ticks that find a timer

ASSUME ConnectionAssumption ==
    /\ Loop \notin Users
    /\ Kinds \subseteq {"server", "timed", "client"}
    /\ Timeout \in Nat \ {0}
    /\ MaxSends \in Nat /\ MaxArrive \in Nat /\ MaxCalls \in Nat

Senders == Users \cup {Loop}
NoTimer == 0

VARIABLES kind,     \* who made the connection
          conn,     \* the Connection's fields, and the loop's tasks for it
          setup,    \* what NewConnection or Connect has still to do
          peer,     \* the other end: none before Connect, up, fin, rst
          arrived,  \* bytes in the socket's receive buffer
          room,     \* the socket's send buffer takes bytes
          due,      \* how many tasks run for sure before the next event
          written,  \* bytes given to the socket (history)
          sends,    \* how many bytes each thread has sent
          calls,    \* calls and ticks so far (bound)
          got,      \* bytes the peer has sent (bound)
          aborted   \* the assertion of EstablishInLoop failed

vars == <<kind, conn, setup, peer, arrived, room, due, written, sends, calls, got,
          aborted>>

Fresh == [status |-> "CONNECTING", polled |-> FALSE, events |-> {}, in |-> 0,
          out |-> <<>>, inactive |-> FALSE, timer |-> NoTimer, tasks |-> <<>>,
          connects |-> 0, closes |-> 0, cut |-> FALSE]

Init ==
    /\ kind \in Kinds
    /\ conn = Fresh
    /\ setup = CASE kind = "server" -> "establish"
                 [] kind = "timed" -> "enable"
                 [] kind = "client" -> "connect"
    /\ peer = IF kind = "client" THEN "none" ELSE "up"
    /\ arrived = 0
    /\ room = TRUE
    /\ due = 0
    /\ written = <<>>
    /\ sends = [u \in Senders |-> 0]
    /\ calls = 0
    /\ got = 0
    /\ aborted = FALSE

-----------------------------------------------------------------------------
(* The functions that run in the loop thread, on the fields k.             *)

Queued(k, task) == [k EXCEPT !.tasks = Append(@, task)]

Listening(k, event) == [k EXCEPT !.events = @ \cup {event}, !.polled = TRUE]

\* CancelInactiveReleaseInLoop.
Cancelled(k) == IF k.inactive THEN [k EXCEPT !.inactive = FALSE, !.timer = NoTimer]
                ELSE k

\* What is left of a connection: DISCONNECTED, the Channel out of the poller,
\* the timer cancelled, the close callbacks called.
Gone(k) == [Cancelled(k) EXCEPT !.status = "DISCONNECTED", !.polled = FALSE,
                                !.closes = @ + 1]

\* ReleaseInLoop.
Released_Again(k) == Gone(k)
Released(k) == IF k.status = "DISCONNECTED" THEN k ELSE Gone(k)

\* ReleaseInLoop, on an error or on request: what is not written is dropped.
CutOff(k) == [Released(k) EXCEPT !.cut = @ \/ k.status # "DISCONNECTED"]

\* ShutdownInLoop: what is not written is written first.
ShutDown_AtOnce(k) == Released(k)
ShutDown(k) ==
    IF k.status \in {"DISCONNECTING", "DISCONNECTED"} THEN k
    ELSE IF k.out = <<>> THEN Released(k)
    ELSE Listening([k EXCEPT !.status = "DISCONNECTING"], "out")

\* SendInLoop.
Sent(k, x) ==
    IF k.status = "DISCONNECTED" THEN k
    ELSE Listening([k EXCEPT !.out = Append(@, x)], "out")

\* HandleEvent, TimerRefresh.
Refreshed(k) ==
    IF k.inactive /\ k.timer # NoTimer THEN [k EXCEPT !.timer = Timeout] ELSE k

\* EnableInactiveReleaseInLoop.
Enabled(k) == [k EXCEPT !.inactive = TRUE, !.timer = Timeout]

\* The message callback leaves some bytes in the buffer; it may send one, and
\* may ask for a shutdown.
Callbacks == [left : 0..MaxArrive, reply : BOOLEAN, shut : BOOLEAN]
Reply == <<Loop, sends[Loop] + 1>>

Called(k, cb) ==
    LET taken == [k EXCEPT !.in = IF cb.left < @ THEN cb.left ELSE @]
        answered == IF cb.reply THEN Sent(taken, Reply) ELSE taken
    IN IF cb.shut THEN Queued(answered, [op |-> "shutdown"]) ELSE answered

\* HandleRead: everything is read, the callback is called, and then an error
\* releases the connection, the end of the stream shuts it down.
Filled(k) == [k EXCEPT !.in = @ + arrived]

HasRead(k, cb) ==
    LET full == Filled(k)
        called == IF full.in > 0 THEN Called(full, cb) ELSE full
    IN IF peer = "rst" THEN CutOff(called)
       ELSE IF peer = "fin" THEN ShutDown(called)
       ELSE called

\* HandleWrite after the socket has taken n bytes.
Rest_None(k, n) == <<>>
Rest(k, n) == SubSeq(k.out, n + 1, Len(k.out))

Wrote_Lingers(k, n) ==
    [k EXCEPT !.out = Rest(k, n),
              !.events = IF Rest(k, n) = <<>> THEN @ \ {"out"} ELSE @]
Wrote(k, n) ==
    LET rest == Rest(k, n) IN
    IF rest # <<>> THEN [k EXCEPT !.out = rest]
    ELSE IF k.status = "DISCONNECTING"
    THEN Released([k EXCEPT !.out = rest, !.events = @ \ {"out"}])
    ELSE [k EXCEPT !.out = rest, !.events = @ \ {"out"}]

\* HandleClose, also HandleError.
ClosedBy(k, cb) ==
    Queued(IF k.in > 0 THEN Called(k, cb) ELSE k, [op |-> "release"])

-----------------------------------------------------------------------------
(* Channel::HandleEvent for what epoll reports of the socket.              *)

Readable == peer \in {"fin", "rst"} \/ ("in" \in conn.events /\ arrived > 0)
Writable == "out" \in conn.events /\ room

\* What the loop thread has sent after the callbacks cbs.
Replying(cbs) ==
    /\ (\E cb \in cbs : cb.reply) => sends[Loop] < MaxSends
    /\ sends' = [sends EXCEPT ![Loop] =
                    IF \E cb \in cbs : cb.reply THEN @ + 1 ELSE @]

\* Whether HandleRead calls back: there are bytes.
Calling(cb) == IF Filled(conn).in > 0 THEN {cb} ELSE {}

\* EPOLLHUP alone: a socket that is not connected.
HangUp(cb) ==
    /\ conn.polled
    /\ peer = "none"
    /\ conn' = ClosedBy(Refreshed(conn), cb)
    /\ Replying(IF conn.in > 0 THEN {cb} ELSE {})
    /\ UNCHANGED <<peer, arrived, room, written>>

\* EPOLLIN or EPOLLRDHUP with EPOLLERR.
ReadError(cb, cb2) ==
    /\ conn.polled
    /\ peer = "rst"
    /\ conn' = ClosedBy(HasRead(Refreshed(conn), cb), cb2)
    /\ Replying(Calling(cb))
    /\ arrived' = 0
    /\ UNCHANGED <<peer, room, written>>

Read(cb) ==
    /\ conn.polled
    /\ peer \in {"up", "fin"}
    /\ Readable
    /\ ~Writable
    /\ conn' = HasRead(Refreshed(conn), cb)
    /\ Replying(Calling(cb))
    /\ arrived' = 0
    /\ UNCHANGED <<peer, room, written>>

\* The socket takes some of what k has to write.
Taking(k) ==
    \E n \in 1..Len(k.out) :
        /\ conn' = Wrote(k, n)
        /\ written' = written \o SubSeq(k.out, 1, n)
        /\ room' \in IF n = Len(k.out) THEN BOOLEAN ELSE {FALSE}

\* EPOLLOUT: bytes are taken, or the peer resets the connection just now.
Write ==
    /\ conn.polled
    /\ peer \in {"up", "fin"}
    /\ ~Readable
    /\ Writable
    /\ \/ Taking(Refreshed(conn)) /\ UNCHANGED peer
       \/ /\ conn' = CutOff(Refreshed(conn))
          /\ peer' = "rst"
          /\ UNCHANGED <<written, room>>
    /\ UNCHANGED <<arrived, sends>>

\* EPOLLIN and EPOLLOUT at once: the write comes after the read, on what the
\* read has left.
ReadWrite(cb) ==
    LET k == HasRead(Refreshed(conn), cb) IN
    /\ conn.polled
    /\ peer \in {"up", "fin"}
    /\ Readable
    /\ Writable
    /\ IF k.status = "DISCONNECTED"
       THEN conn' = k /\ UNCHANGED <<written, room>>
       ELSE Taking(k)
    /\ Replying(Calling(cb))
    /\ arrived' = 0
    /\ UNCHANGED peer

\* The tasks queued before the end of a round of events run in that round.
HandleEvent ==
    /\ due = 0
    /\ \/ \E cb \in Callbacks :
            \/ HangUp(cb)
            \/ Read(cb)
            \/ ReadWrite(cb)
            \/ \E cb2 \in Callbacks : ReadError(cb, cb2)
       \/ Write
    /\ due' = Len(conn'.tasks)
    /\ UNCHANGED <<kind, setup, calls, got, aborted>>

-----------------------------------------------------------------------------
(* The tasks other threads queue, run in their order.                      *)

\* EstablishInLoop, but for its assertion.
Established(k) ==
    Listening([k EXCEPT !.status = "CONNECTED", !.connects = @ + 1], "in")

Task(k, task) ==
    CASE task.op = "establish" -> Established(k)
      [] task.op = "send" -> Sent(k, task.byte)
      [] task.op = "shutdown" -> ShutDown(k)
      [] task.op = "release" -> CutOff(k)
      [] task.op = "enable" -> Enabled(k)
      [] task.op = "cancel" -> Cancelled(k)

RunTask ==
    LET task == Head(conn.tasks) IN
    /\ conn.tasks # <<>>
    /\ IF task.op = "establish" /\ conn.status # "CONNECTING"
       THEN aborted' = TRUE /\ UNCHANGED conn
       ELSE /\ conn' = Task([conn EXCEPT !.tasks = Tail(@)], task)
            /\ UNCHANGED aborted
    /\ due' = IF due = 0 THEN 0 ELSE due - 1
    /\ UNCHANGED <<kind, setup, peer, arrived, room, written, sends, calls,
                   got>>

-----------------------------------------------------------------------------
(* Other threads.                                                          *)

\* NewConnection in the base loop, or a Connect that succeeds: two tasks, one
\* after the other.
SetUp ==
    /\ setup \in {"enable", "establish", "connect"}
    /\ conn' = Queued(conn, [op |-> IF setup = "connect" THEN "establish" ELSE setup])
    /\ setup' = IF setup = "enable" THEN "establish" ELSE "done"
    /\ peer' = IF setup = "connect" THEN "up" ELSE peer
    /\ UNCHANGED <<kind, arrived, room, due, written, sends, calls, got,
                   aborted>>

ConnectFails ==
    /\ setup = "connect"
    /\ setup' = "done"
    /\ UNCHANGED <<kind, conn, peer, arrived, room, due, written, sends, calls,
                   got, aborted>>

\* A TcpClient hands out its connection before Connect and after one that
\* fails, a TcpServer when the connection is established.
Reachable == kind = "client" \/ conn.connects > 0

Send(u) ==
    /\ Reachable
    /\ sends[u] < MaxSends
    /\ sends' = [sends EXCEPT ![u] = @ + 1]
    /\ conn' = Queued(conn, [op |-> "send", byte |-> <<u, sends[u] + 1>>])
    /\ UNCHANGED <<kind, setup, peer, arrived, room, due, written, calls, got,
                   aborted>>

\* Shutdown, Release, EnableInactiveRelease and CancelInactiveRelease.
Call(op) ==
    /\ Reachable
    /\ calls < MaxCalls
    /\ calls' = calls + 1
    /\ conn' = Queued(conn, [op |-> op])
    /\ UNCHANGED <<kind, setup, peer, arrived, room, due, written, sends, got,
                   aborted>>

\* The wheel's tick, and Release when the timer is due.
Tick ==
    /\ conn.timer # NoTimer
    /\ calls < MaxCalls
    /\ calls' = calls + 1
    /\ conn' = IF conn.timer = 1
               THEN Queued([conn EXCEPT !.timer = NoTimer], [op |-> "release"])
               ELSE [conn EXCEPT !.timer = @ - 1]
    /\ UNCHANGED <<kind, setup, peer, arrived, room, due, written, sends, got,
                   aborted>>

\* The other end sends, makes room by reading, closes its side, resets.
PeerSends ==
    /\ peer = "up"
    /\ got < MaxArrive
    /\ got' = got + 1
    /\ arrived' = arrived + 1
    /\ UNCHANGED <<kind, conn, setup, peer, room, due, written, sends, calls,
                   aborted>>

PeerReads ==
    /\ peer \in {"up", "fin"}
    /\ ~room
    /\ room' = TRUE
    /\ UNCHANGED <<kind, conn, setup, peer, arrived, due, written, sends, calls,
                   got, aborted>>

PeerCloses ==
    /\ \/ peer = "up" /\ peer' = "fin"
       \/ peer \in {"up", "fin"} /\ peer' = "rst"
    /\ UNCHANGED <<kind, conn, setup, arrived, room, due, written, sends, calls,
                   got, aborted>>

Next ==
    /\ ~aborted
    /\ \/ HandleEvent
       \/ RunTask
       \/ SetUp
       \/ ConnectFails
       \/ \E u \in Users : Send(u)
       \/ \E op \in {"shutdown", "release", "enable", "cancel"} : Call(op)
       \/ Tick
       \/ PeerSends
       \/ PeerReads
       \/ PeerCloses

Spec == Init /\ [][Next]_vars

\* The loop runs; the other end goes on reading unless it closes.
Fairness ==
    /\ WF_vars(~aborted /\ RunTask)
    /\ WF_vars(~aborted /\ HandleEvent)
    /\ WF_vars(~aborted /\ PeerReads)

FairSpec == Spec /\ Fairness

-----------------------------------------------------------------------------
(* Properties.                                                             *)

Statuses == {"CONNECTING", "CONNECTED", "DISCONNECTING", "DISCONNECTED"}
Operations == {"establish", "send", "shutdown", "release", "enable", "cancel"}
Bytes == Senders \X (1..MaxSends)

TypeOK ==
    /\ conn.status \in Statuses
    /\ conn.polled \in BOOLEAN
    /\ conn.events \subseteq {"in", "out"}
    /\ conn.in \in 0..MaxArrive
    /\ conn.out \in Seq(Bytes)
    /\ conn.inactive \in BOOLEAN
    /\ conn.timer \in {NoTimer} \cup 1..Timeout
    /\ \A i \in DOMAIN conn.tasks : conn.tasks[i].op \in Operations
    /\ peer \in {"none", "up", "fin", "rst"}
    /\ due \in 0..Len(conn.tasks)
    /\ written \in Seq(Bytes)

\* A connection connects at most once and is closed at most once, never the
\* one after the other the wrong way round, and its Channel is in the poller
\* only while its socket is open: epoll never reports a descriptor that was
\* closed and perhaps given to another connection.
ClosedOnce ==
    /\ TypeOK
    /\ conn.connects <= 1
    /\ conn.closes = IF conn.status = "DISCONNECTED" THEN 1 ELSE 0
    /\ conn.polled => conn.status # "DISCONNECTED"

\* Writing is asked for exactly while there is something to write, so output
\* is never left behind and the loop never spins; a connection that shuts
\* down has output left, and nothing but its last byte ends it in good order.
OutputWatched ==
    /\ conn.status # "DISCONNECTED" =>
        (conn.out # <<>> <=> ("out" \in conn.events /\ conn.polled))
    /\ conn.status = "DISCONNECTING" => conn.out # <<>>

\* Unless it is cut off by an error or by Release, a connection has written
\* everything that was sent on it when it is closed.
GracefulFlush ==
    /\ OutputWatched
    /\ conn.status = "DISCONNECTED" /\ ~conn.cut => conn.out = <<>>

\* Each byte of s comes after the one its sender sent before it, and after no
\* later one.
InSendOrder(s) ==
    \A i \in 1..Len(s) :
        /\ \A j \in 1..i - 1 : s[j][1] = s[i][1] => s[j][2] < s[i][2]
        /\ s[i][2] > 1 => \E j \in 1..i - 1 : s[j] = <<s[i][1], s[i][2] - 1>>

\* What the other end reads of one thread's sends is their beginning: no byte
\* is lost, doubled or out of order before the point where the rest is
\* dropped, whatever was written at once and whatever only in part.
SendsKeepOrder == InSendOrder(written \o conn.out)

\* A connection that shuts down, or that the other end has closed or never
\* accepted, is closed at last, if the other end reads what is left for it.
Ending ==
    /\ conn.polled
    /\ \/ conn.status = "DISCONNECTING"
       \/ peer \in {"fin", "rst"}
       \/ peer = "none" /\ setup = "done"

DrainEnds == Ending ~> (conn.status = "DISCONNECTED" \/ aborted)

\* muduo.hpp:1477, assert(_status == CONNECTING): a connection is established
\* before anything else happens to it.
EstablishedFirst == ~aborted
=============================================================================

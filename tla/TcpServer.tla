------------------------------ MODULE TcpServer ------------------------------
(***************************************************************************)
(* TcpServer, LoopThreadPool, LoopThread and Acceptor of common/muduo.hpp  *)
(* with the connection table that MuduoServer (common/net.hpp) keeps       *)
(* beside TcpServer's own: how the worker threads start, how a connection  *)
(* is handed to one of them, how it leaves both tables, and Stop().        *)
(*                                                                         *)
(* An event loop is abstracted to what EventLoop shows of it: it runs      *)
(* queued functors in their order, the events of its connections between   *)
(* two batches, and it ends after the batch that held Stop()'s functor.    *)
(* Loop 0 is the base loop, run by the thread that calls Start().  What a  *)
(* connection sends and receives is left to Connection.                    *)
(*                                                                         *)
(* A definition X_Y beside X is X with a plausible bug: README.md says     *)
(* which property notices it.                                              *)
(***************************************************************************)
EXTENDS Naturals, Sequences

CONSTANTS MaxWorkers,  \* SetThreadCount is given 0..MaxWorkers
          MaxConns,    \* bound: connections accepted
          MaxStops     \* bound: calls of Stop()

ASSUME ServerAssumption == {MaxWorkers, MaxConns, MaxStops} \subseteq Nat

Base == 0
Loops == 0..MaxWorkers
Workers == 1..MaxWorkers
Conns == 1..MaxConns

VARIABLES count,    \* _thread_count
          phase,    \* where the base thread is
          turn,     \* the worker that Create or Stop is busy with
          threads,  \* the workers that _threads holds
          life,     \* of each loop's thread
          stop,     \* _stop of each loop
          queue,    \* _tasks_queue of each loop
          batch,    \* what is left of RunAllTask's local queue
          next,     \* _next_idx
          serial,   \* _next_id
          open,     \* the acceptor listens
          status,   \* _status of each connection
          loop,     \* the loop it was given
          conns,    \* TcpServer::_conns
          known,    \* MuduoServer::_conns
          stops,    \* calls of Stop() so far
          crashed   \* a thread has used a destroyed loop, and the process died

poolVars == <<count, turn, threads, life, next>>
loopVars == <<stop, queue, batch>>
connVars == <<serial, status, loop, conns, known>>
vars == <<poolVars, loopVars, connVars, phase, open, stops, crashed>>

\* A base thread in StopInLoop releases connections, joins workers; "insert"
\* is NewConnection between Establish and the insertion.
Phases == {"new", "create", "wait", "loop", "insert", "release", "stop", "join",
           "done"}

Init ==
    /\ count \in 0..MaxWorkers
    /\ phase = "new" /\ turn = 0 /\ threads = {} /\ next = 0
    /\ life = [l \in Loops |-> "none"]
    /\ stop = [l \in Loops |-> FALSE]
    /\ queue = [l \in Loops |-> <<>>]
    /\ batch = [l \in Loops |-> <<>>]
    /\ open = TRUE
    /\ serial = 0 /\ stops = 0
    /\ status = [c \in Conns |-> "none"]
    /\ loop = [c \in Conns |-> Base]
    /\ conns = {} /\ known = {}
    /\ crashed = FALSE

-----------------------------------------------------------------------------
(* Functors.                                                               *)

Functor(do, c) == [do |-> do, conn |-> c]
ServerStop == Functor("StopInLoop", 0)
LoopStop == Functor("stop", 0)
Queued(l, f) == [queue EXCEPT ![l] = Append(@, f)]
Pending(l) == queue[l] \o batch[l]
HasFunctor(l, do, c) == \E i \in DOMAIN Pending(l) : Pending(l)[i] = Functor(do, c)

\* The thread of l runs functors and handles events.
Running(l) == life[l] = "running" /\ (l = Base => phase = "loop")

-----------------------------------------------------------------------------
(* Start: LoopThreadPool::Create, then the base loop.                      *)

Start ==
    /\ phase = "new"
    /\ phase' = "create"
    /\ UNCHANGED <<poolVars, loopVars, connVars, open, stops>>

\* new LoopThread: the thread exists, its loop does not yet.
NewLoopThread ==
    /\ phase = "create"
    /\ turn < count
    /\ turn' = turn + 1
    /\ threads' = threads \cup {turn'}
    /\ life' = [life EXCEPT ![turn'] = "starting"]
    /\ phase' = "wait"
    /\ UNCHANGED <<count, next, loopVars, connVars, open, stops>>

\* Entry: the loop is published under the mutex and started.
Entry(w) ==
    /\ life[w] = "starting"
    /\ life' = [life EXCEPT ![w] = "running"]
    /\ UNCHANGED <<count, turn, threads, next, loopVars, connVars, phase, open, stops>>

\* GetLoop waits until the loop is published.
LoopReady_NoWait == TRUE
LoopReady == life[turn] # "starting"

GetLoop ==
    /\ phase = "wait"
    /\ LoopReady
    /\ phase' = "create"
    /\ UNCHANGED <<poolVars, loopVars, connVars, open, stops>>

StartBaseLoop ==
    /\ phase = "create"
    /\ turn = count
    /\ phase' = "loop"
    /\ life' = [life EXCEPT ![Base] = "running"]
    /\ UNCHANGED <<count, turn, threads, next, loopVars, connVars, open, stops>>

-----------------------------------------------------------------------------
(* A new connection, in the base thread.                                   *)

NextIdx == IF count = 0 THEN 0 ELSE (next + 1) % count

\* The loop NextLoop returns: the base loop when there are no workers.
NextLoop == IF count = 0 THEN Base ELSE NextIdx + 1

\* Acceptor::HandleRead and NewConnection up to Establish, which RunInLoop runs
\* at once when the connection lives in the base loop.
NewConnection ==
    /\ Running(Base) /\ batch[Base] = <<>> /\ ~stop[Base]
    /\ open
    /\ serial < MaxConns
    /\ serial' = serial + 1
    /\ next' = NextIdx
    /\ loop' = [loop EXCEPT ![serial'] = NextLoop]
    /\ IF NextLoop = Base
       THEN /\ status' = [status EXCEPT ![serial'] = "CONNECTED"]
            /\ known' = known \cup {serial'}
            /\ UNCHANGED queue
       ELSE /\ status' = [status EXCEPT ![serial'] = "CONNECTING"]
            /\ queue' = Queued(NextLoop, Functor("Establish", serial'))
            /\ UNCHANGED known
    /\ phase' = "insert"
    /\ UNCHANGED <<count, turn, threads, life, stop, batch, conns, open, stops>>

InsertConnection ==
    /\ phase = "insert"
    /\ conns' = conns \cup {serial}
    /\ phase' = "loop"
    /\ UNCHANGED <<poolVars, loopVars, serial, status, loop, known, open, stops>>

-----------------------------------------------------------------------------
(* A connection's end, in its own loop's thread.                           *)

\* RemoveConnection: the table belongs to the base thread, which erases the
\* entry later.
Unlisted_AtOnce(c, q) == conns' = conns \ {c} /\ queue' = q
Unlisted(c, q) ==
    /\ queue' = [q EXCEPT ![Base] = Append(@, Functor("erase", c))]
    /\ UNCHANGED conns

\* ReleaseInLoop with MuduoServer::OnClose and RemoveConnection.
ReleaseInLoop(c) ==
    IF status[c] = "DISCONNECTED" THEN UNCHANGED <<status, known, conns, queue>>
    ELSE /\ status' = [status EXCEPT ![c] = "DISCONNECTED"]
         /\ known' = known \ {c}
         /\ Unlisted(c, queue)

\* Between two batches the loop handles the events of its connections.
MayHandle(c) ==
    /\ status[c] = "CONNECTED"
    /\ Running(loop[c])
    /\ batch[loop[c]] = <<>> /\ ~stop[loop[c]]

\* A read or write fails, or a Shutdown has flushed its data.
Disconnect(c) ==
    /\ MayHandle(c)
    /\ ReleaseInLoop(c)
    /\ UNCHANGED <<poolVars, stop, batch, serial, loop, phase, open, stops>>

\* Release, Shutdown or Send by HandleClose, a callback, or any other thread that
\* was given the connection, live or closed: the functor goes to the loop of the
\* connection.  A worker's loop is a local of Entry, so once that has returned
\* the call is undefined behaviour: nobody runs what it queued, or the process
\* dies.  Bound: one such functor of c at a time.
UseConnection(c) ==
    /\ ~crashed
    /\ status[c] \in {"CONNECTED", "DISCONNECTED"}
    /\ ~HasFunctor(loop[c], "Use", c)
    /\ queue' = Queued(loop[c], Functor("Use", c))
    /\ crashed' \in {FALSE, loop[c] # Base /\ life[loop[c]] = "ended"}
    /\ UNCHANGED <<poolVars, stop, batch, connVars, phase, open, stops>>

-----------------------------------------------------------------------------
(* The loops.                                                              *)

SwapTasks(l) ==
    /\ Running(l) /\ batch[l] = <<>> /\ ~stop[l]
    /\ queue[l] # <<>>
    /\ batch' = [batch EXCEPT ![l] = queue[l]]
    /\ queue' = [queue EXCEPT ![l] = <<>>]
    /\ UNCHANGED <<poolVars, stop, connVars, phase, open, stops>>

\* One functor of the batch f is the head of.
Run(l, f) ==
    \/ /\ f.do = "Establish"
       /\ status' = [status EXCEPT ![f.conn] = "CONNECTED"]
       /\ known' = known \cup {f.conn}
       /\ UNCHANGED <<stop, queue, conns, phase, turn, open>>
    \/ /\ f.do = "Release"
       /\ ReleaseInLoop(f.conn)
       /\ UNCHANGED <<stop, phase, turn, open>>
    \/ /\ f.do = "Use"    \* a Send, or a Shutdown with output left, changes no table
       /\ ReleaseInLoop(f.conn) \/ UNCHANGED <<status, known, conns, queue>>
       /\ UNCHANGED <<stop, phase, turn, open>>
    \/ /\ f.do = "erase"
       /\ conns' = conns \ {f.conn}
       /\ UNCHANGED <<stop, queue, status, known, phase, turn, open>>
    \/ /\ f.do = "stop"
       /\ stop' = [stop EXCEPT ![l] = TRUE]
       /\ UNCHANGED <<queue, status, known, conns, phase, turn, open>>
    \/ /\ f.do = "StopInLoop"
       /\ open' = FALSE
       /\ phase' = "release"
       /\ UNCHANGED <<stop, queue, status, known, conns, turn>>

RunTask(l) ==
    /\ Running(l)
    /\ batch[l] # <<>>
    /\ batch' = [batch EXCEPT ![l] = Tail(@)]
    /\ Run(l, Head(batch[l]))
    /\ UNCHANGED <<count, threads, life, next, serial, loop, stops>>

\* EventLoop::Start returns; with it a worker's thread and its loop end.
LoopEnds(l) ==
    /\ Running(l)
    /\ stop[l] /\ batch[l] = <<>>
    /\ life' = [life EXCEPT ![l] = "ended"]
    /\ phase' = IF l = Base THEN "done" ELSE phase
    /\ UNCHANGED <<count, turn, threads, next, loopVars, connVars, open, stops>>

-----------------------------------------------------------------------------
(* Stop().                                                                 *)

\* From any thread, also before Start and after an earlier Stop.
Stop ==
    /\ stops < MaxStops
    /\ stops' = stops + 1
    /\ queue' = Queued(Base, ServerStop)
    /\ UNCHANGED <<poolVars, stop, batch, connVars, phase, open>>

\* StopInLoop once the acceptor is closed: every connection in the table is
\* told to release itself, in any order, before the table is cleared.
ReleaseConnection(c) ==
    /\ phase = "release"
    /\ c \in conns
    /\ queue' = Queued(loop[c], Functor("Release", c))
    /\ conns' = conns \ {c}
    /\ UNCHANGED <<poolVars, stop, batch, serial, status, loop, known, phase, open, stops>>

\* When StopInLoop goes on to the pool.
AllReleased_Never == TRUE
AllReleased == conns = {}

StopPool ==
    /\ phase = "release"
    /\ AllReleased
    /\ phase' = "stop"
    /\ UNCHANGED <<poolVars, loopVars, connVars, open, stops>>

\* LoopThread::Stop, first half, for the first of _threads: the loop's Stop() is
\* queued if GetLoop's caller has seen it published.
StopThread(w) ==
    /\ phase = "stop"
    /\ w \in threads /\ \A v \in threads : w <= v
    /\ turn' = w
    /\ queue' = IF life[w] = "starting" THEN queue ELSE Queued(w, LoopStop)
    /\ phase' = "join"
    /\ UNCHANGED <<count, threads, life, next, stop, batch, connVars, open, stops>>

\* What a join leaves in _threads.
Forgotten_Kept == IF \E v \in threads : v > turn THEN {v \in threads : v > turn} ELSE {turn}
Forgotten == threads \ {turn}

JoinThread ==
    /\ phase = "join"
    /\ life[turn] = "ended"
    /\ threads' = Forgotten
    /\ phase' = "stop"
    /\ UNCHANGED <<count, turn, life, next, loopVars, connVars, open, stops>>

\* The pool is empty: the base loop's own Stop() is queued.
StopBaseLoop ==
    /\ phase = "stop"
    /\ threads = {}
    /\ queue' = Queued(Base, LoopStop)
    /\ phase' = "loop"
    /\ UNCHANGED <<poolVars, stop, batch, connVars, open, stops>>

-----------------------------------------------------------------------------
BaseStep ==
    \/ NewLoopThread
    \/ GetLoop
    \/ StartBaseLoop
    \/ InsertConnection
    \/ \E c \in Conns : ReleaseConnection(c)
    \/ StopPool
    \/ \E w \in Workers : StopThread(w)
    \/ JoinThread
    \/ StopBaseLoop

LoopStep(l) == SwapTasks(l) \/ RunTask(l) \/ LoopEnds(l)

ServerStep ==
    \/ Start
    \/ NewConnection
    \/ \E c \in Conns : Disconnect(c)
    \/ Stop
    \/ BaseStep
    \/ \E w \in Workers : Entry(w)
    \/ \E l \in Loops : LoopStep(l)

Going(A) == ~crashed /\ A /\ UNCHANGED crashed

Next == Going(ServerStep) \/ \E c \in Conns : UseConnection(c)

Spec == Init /\ [][Next]_vars

\* Threads are scheduled, and a loop with queued work wakes (EventLoop's
\* QueuedRuns).  Nobody has to connect, disconnect, start or stop.
Fairness ==
    /\ WF_vars(Going(BaseStep))
    /\ \A w \in Workers : WF_vars(Going(Entry(w)))
    /\ \A l \in Loops : WF_vars(Going(LoopStep(l)))

FairSpec == Spec /\ Fairness

-----------------------------------------------------------------------------
(* Properties.                                                             *)

TypeOK ==
    /\ phase \in Phases
    /\ turn \in 0..count
    /\ threads \subseteq 1..count
    /\ life \in [Loops -> {"none", "starting", "running", "ended"}]
    /\ stop \in [Loops -> BOOLEAN]
    /\ status \in [Conns -> {"none", "CONNECTING", "CONNECTED", "DISCONNECTED"}]
    /\ loop \in [Conns -> 0..count]
    /\ conns \subseteq 1..serial /\ known \subseteq 1..serial

Inserting(c) == phase = "insert" /\ c = serial

\* The two tables agree with the connections, whatever a worker does between
\* Establish and the insertion: a live connection is listed, about to be, or
\* has its Release queued; a dead one is about to be erased; and MuduoServer
\* knows exactly those whose callback said connected.
TablesExact ==
    /\ TypeOK
    /\ \A c \in 1..serial :
        IF status[c] = "DISCONNECTED"
        THEN c \in conns => HasFunctor(Base, "erase", c)
        ELSE c \in conns \/ Inserting(c) \/ HasFunctor(loop[c], "Release", c)
    /\ known = {c \in Conns : status[c] = "CONNECTED"}

\* When Start returns every connection was closed through its callbacks, no
\* table holds one, and every worker thread has ended.
StopClean ==
    phase = "done" =>
        /\ \A c \in 1..serial : status[c] = "DISCONNECTED"
        /\ conns = {} /\ known = {}
        /\ \A w \in 1..count : life[w] = "ended"

\* What the server gives a worker's loop (a connection's Establish and Release,
\* the loop's stop) is run before the worker's thread ends.  Only what other
\* threads ask of a connection may come too late.
NothingLeft ==
    \A w \in Workers : life[w] = "ended" =>
        \A i \in DOMAIN queue[w] : queue[w][i].do = "Use"

\* Start returns after Stop(), also one that was called before Start, or twice,
\* or while workers start and connections come and go, unless a thread's use of
\* a connection whose loop has ended brings the process down.
StopReturns == stops > 0 /\ phase # "new" ~> phase = "done" \/ crashed
=============================================================================

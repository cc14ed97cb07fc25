------------------------------ MODULE EventLoop ------------------------------
(***************************************************************************)
(* EventLoop of common/muduo.hpp: one thread that blocks in epoll_wait,    *)
(* dispatches the ready channels and then runs the functors other threads  *)
(* (and its own callbacks) queued.  A functor is queued under a mutex and  *)
(* the eventfd is written after the mutex is released, so the loop may     *)
(* swap the queue between the two steps; the loop empties the eventfd      *)
(* before it swaps.                                                        *)
(*                                                                         *)
(* The eventfd counter is abstracted to signalled: whether it is above 0.  *)
(* The other descriptors (timerfd, sockets) are Sources: any of them may   *)
(* become ready at any time, and nothing promises that one ever does.      *)
(*                                                                         *)
(* A definition X_Y beside X is X with a plausible bug: README.md says     *)
(* which property notices it.                                              *)
(***************************************************************************)
EXTENDS Sequences, FiniteSets

CONSTANTS Threads,     \* threads that use the loop and are not its own
          Loop,        \* the loop's own thread
          Tasks,       \* functors; each one is handed to the loop at most once
          StopTasks,   \* the functors that Stop() queues
          Sources,     \* channels other than the eventfd's
          Eventfd      \* the eventfd's channel

ASSUME LoopAssumption ==
    /\ Loop \notin Threads
    /\ StopTasks \subseteq Tasks
    /\ Eventfd \notin Sources

VARIABLES queue,      \* _tasks_queue
          batch,      \* RunAllTask's local queue: what is left of it
          signalled,  \* the eventfd counter is above 0
          waking,     \* threads in QueueInLoop between unlock and eventfd write
          ready,      \* channels that Poll returned and Start has not handled
          pc,         \* where the loop's thread is
          stop,       \* _stop
          ran         \* functors executed, in order (history)

vars == <<queue, batch, signalled, waking, ready, pc, stop, ran>>

Channels == Sources \cup {Eventfd}
Actors == Threads \cup {Loop}

\* The places of the loop's thread: at the while condition, blocked in Poll,
\* between two channels, inside a channel's handler, about to swap the queue,
\* between two functors, inside a functor, returned from Start.
Places == {"while", "poll", "dispatch", "handler", "swap", "drain", "task",
           "done"}

Elements(s) == {s[i] : i \in DOMAIN s}

Unseen(k) == k \notin Elements(queue) \cup Elements(batch) \cup Elements(ran)

TypeOK ==
    /\ queue \in Seq(Tasks)
    /\ batch \in Seq(Tasks)
    /\ signalled \in BOOLEAN
    /\ waking \in SUBSET Actors
    /\ ready \in SUBSET Channels
    /\ pc \in Places
    /\ stop \in BOOLEAN
    /\ ran \in Seq(Tasks)

Init ==
    /\ queue = <<>>
    /\ batch = <<>>
    /\ signalled = FALSE
    /\ waking = {}
    /\ ready = {}
    /\ pc = "while"
    /\ stop = FALSE
    /\ ran = <<>>

-----------------------------------------------------------------------------
(* Handing functors to the loop.                                           *)

\* The loop's own thread calls these only from a handler or a functor.
MayCall(a) ==
    /\ a \notin waking
    /\ a = Loop => pc \in {"handler", "task"}

\* The queue after push_back.
Pushed_Front(k) == <<k>> \o queue
Pushed(k) == Append(queue, k)

\* QueueInLoop, first half: push under the mutex.  Stop() is this with one of
\* StopTasks, and RunInLoop by another thread is this too.
QueueInLoop(a, k) ==
    /\ MayCall(a)
    /\ Unseen(k)
    /\ queue' = Pushed(k)
    /\ waking' = waking \cup {a}
    /\ UNCHANGED <<batch, signalled, ready, pc, stop, ran>>

\* Whether the eventfd is readable after the write.
Woken_Lost == signalled
Woken == TRUE

\* QueueInLoop, second half: WakeUpEventfd after the mutex is released.
WakeUpEventfd(a) ==
    /\ a \in waking
    /\ waking' = waking \ {a}
    /\ signalled' = Woken
    /\ UNCHANGED <<queue, batch, ready, pc, stop, ran>>

\* RunInLoop by the loop's own thread: the functor runs at once, ahead of
\* everything queued.  Stop() never takes this way.
RunInLoopInline(k) ==
    /\ MayCall(Loop)
    /\ k \notin StopTasks
    /\ Unseen(k)
    /\ ran' = Append(ran, k)
    /\ UNCHANGED <<queue, batch, signalled, waking, ready, pc, stop>>

-----------------------------------------------------------------------------
(* The loop's thread.  It writes the eventfd itself when its own callback   *)
(* queues a functor, and does nothing else between push and write.          *)

LoopFree == Loop \notin waking

CheckStop ==
    /\ pc = "while"
    /\ pc' = IF stop THEN "done" ELSE "poll"
    /\ UNCHANGED <<queue, batch, signalled, waking, ready, stop, ran>>

\* epoll_wait without timeout returns every ready descriptor; it blocks while
\* there is none.
Poll(sources) ==
    /\ pc = "poll"
    /\ ready' = sources \cup (IF signalled THEN {Eventfd} ELSE {})
    /\ ready' # {}
    /\ pc' = "dispatch"
    /\ UNCHANGED <<queue, batch, signalled, waking, stop, ran>>

\* epoll_wait interrupted by a signal: no channels, the queue is run anyway.
PollInterrupted ==
    /\ pc = "poll"
    /\ pc' = "swap"
    /\ UNCHANGED <<queue, batch, signalled, waking, ready, stop, ran>>

\* The eventfd's handler is ReadEventfd: the counter drops to 0.
HandleEventfd ==
    /\ pc = "dispatch"
    /\ Eventfd \in ready
    /\ ready' = ready \ {Eventfd}
    /\ signalled' = FALSE
    /\ UNCHANGED <<queue, batch, waking, pc, stop, ran>>

\* Another channel's handler begins; it may queue functors before it returns.
HandleSource(c) ==
    /\ pc = "dispatch"
    /\ c \in ready \ {Eventfd}
    /\ ready' = ready \ {c}
    /\ pc' = "handler"
    /\ UNCHANGED <<queue, batch, signalled, waking, stop, ran>>

HandlerReturns ==
    /\ pc = "handler"
    /\ LoopFree
    /\ pc' = "dispatch"
    /\ UNCHANGED <<queue, batch, signalled, waking, ready, stop, ran>>

DispatchDone ==
    /\ pc = "dispatch"
    /\ ready = {}
    /\ pc' = "swap"
    /\ UNCHANGED <<queue, batch, signalled, waking, ready, stop, ran>>

\* What the swap leaves in _tasks_queue.
Swapped == batch

\* RunAllTask, first half: swap the queue with an empty local one.
SwapTasks ==
    /\ pc = "swap"
    /\ batch' = queue
    /\ queue' = Swapped
    /\ pc' = "drain"
    /\ UNCHANGED <<signalled, waking, ready, stop, ran>>

\* RunAllTask, second half: the next functor begins; Stop's sets _stop.
RunTask ==
    /\ pc = "drain"
    /\ batch # <<>>
    /\ batch' = Tail(batch)
    /\ ran' = Append(ran, Head(batch))
    /\ stop' = (stop \/ Head(batch) \in StopTasks)
    /\ pc' = "task"
    /\ UNCHANGED <<queue, signalled, waking, ready>>

TaskReturns ==
    /\ pc = "task"
    /\ LoopFree
    /\ pc' = "drain"
    /\ UNCHANGED <<queue, batch, signalled, waking, ready, stop, ran>>

\* The for loop of RunAllTask ends, and with it one round of Start.
RoundOver_Early == stop \/ batch = <<>>
RoundOver == batch = <<>>

DrainDone ==
    /\ pc = "drain"
    /\ RoundOver
    /\ pc' = "while"
    /\ UNCHANGED <<queue, batch, signalled, waking, ready, stop, ran>>

-----------------------------------------------------------------------------
Users ==
    \E a \in Threads, k \in Tasks : QueueInLoop(a, k)

Callbacks ==
    \E k \in Tasks : QueueInLoop(Loop, k) \/ RunInLoopInline(k)

Wakers == \E a \in Actors : WakeUpEventfd(a)

LoopStep ==
    \/ CheckStop
    \/ \E sources \in SUBSET Sources : Poll(sources)
    \/ PollInterrupted
    \/ HandleEventfd
    \/ \E c \in Sources : HandleSource(c)
    \/ HandlerReturns
    \/ DispatchDone
    \/ SwapTasks
    \/ RunTask
    \/ TaskReturns
    \/ DrainDone

Next == Users \/ Callbacks \/ Wakers \/ LoopStep

Spec == Init /\ [][Next]_vars

\* The scheduler runs every thread, and epoll_wait returns when the eventfd is
\* readable.  No descriptor of Sources is assumed ever to become ready, and no
\* signal ever to arrive.
Fairness ==
    /\ \A a \in Actors : WF_vars(WakeUpEventfd(a))
    /\ WF_vars(CheckStop)
    /\ WF_vars(signalled /\ \E sources \in SUBSET Sources : Poll(sources))
    /\ WF_vars(HandleEventfd)
    /\ WF_vars(\E c \in Sources : HandleSource(c))
    /\ WF_vars(HandlerReturns)
    /\ WF_vars(DispatchDone)
    /\ WF_vars(SwapTasks)
    /\ WF_vars(RunTask)
    /\ WF_vars(TaskReturns)
    /\ WF_vars(DrainDone)

FairSpec == Spec /\ Fairness

-----------------------------------------------------------------------------
(* Properties.                                                             *)

\* The loop never sleeps on queued work: when its thread is about to block in
\* epoll_wait and the queue is not empty, the eventfd is readable or some
\* thread is on its way to write it (QueueInLoop writes after the unlock,
\* ReadEventfd empties before RunAllTask swaps).
NoLostWakeup ==
    pc \in {"while", "poll"} /\ queue # <<>> => signalled \/ waking # {}

\* Queued work is announced, or the loop has yet to swap the queue in this
\* round: NoLostWakeup for every place of the loop's thread.
SwapAhead == pc \in {"dispatch", "handler", "swap"}
WorkAnnounced == queue # <<>> => signalled \/ waking # {} \/ SwapAhead

\* The round's own state: a batch exists only while it is drained, a list of
\* ready channels only while it is dispatched, the loop's thread is between
\* push and write only inside one of its callbacks, and it leaves Start or
\* sets _stop only by a functor of Stop().
RoundInv ==
    /\ batch # <<>> => pc \in {"drain", "task"}
    /\ ready # {} => pc \in {"dispatch", "handler"}
    /\ Loop \in waking => pc \in {"handler", "task"}
    /\ stop => Elements(ran) \cap StopTasks # {}
    /\ pc = "done" => stop

\* What every step of the loop, its callbacks and its users preserves.
IInv == TypeOK /\ RoundInv /\ WorkAnnounced

\* The loop is an executor that runs accepted functors once and in order, and
\* stops only after everything accepted before Stop() has run.
Executor == INSTANCE SerialExecutor
    WITH todo <- batch \o queue, open <- (pc # "done")

ImplementsExecutor == Executor!ExecSpec

\* A queued functor is eventually executed unless the loop stops first, with
\* no help from any other descriptor or signal.
QueuedRuns ==
    \A k \in Tasks : k \in Elements(queue) ~> (k \in Elements(ran) \/ pc = "done")

\* Stop() is honoured: once its functor is queued the thread leaves Start, so
\* the join in LoopThread::Stop returns.
StopHonoured == Elements(queue) \cap StopTasks # {} ~> pc = "done"

\* Both promises to those who queue.
LoopServes == QueuedRuns /\ StopHonoured
=============================================================================

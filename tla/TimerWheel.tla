----------------------------- MODULE TimerWheel -----------------------------
(***************************************************************************)
(* TimerWheel and TimerTask (common/muduo.hpp): buckets of tasks, one      *)
(* visited at each tick.  Refreshing a timer leaves its task in the bucket *)
(* it is in; cancelling and replacing leave the dead task there.  The      *)
(* timers' callbacks may add, refresh and cancel timers themselves.  All   *)
(* of it runs in the loop thread.                                          *)
(*                                                                         *)
(* A definition X_Y beside X is X with a plausible bug: README.md says     *)
(* which property notices it.                                              *)
(***************************************************************************)
EXTENDS Naturals, Sequences

CONSTANTS Ids,        \* timer ids
          Capacity,   \* buckets of the wheel
          MaxDelay,   \* bound: the longest delay, which may exceed Capacity
          MaxTicks,   \* bound
          MaxTasks    \* bound: TimerAdds

ASSUME WheelAssumption ==
    /\ Capacity \in Nat \ {0}
    /\ MaxDelay \in Nat \ {0}
    /\ MaxTicks \in Nat /\ MaxTasks \in Nat

NoTask == 0
Tasks == 1..MaxTasks
Buckets == 0..(Capacity - 1)

VARIABLES tick,     \* _tick
          wheel,    \* _wheel: the tasks in each bucket
          timers,   \* _timers: the task of each id
          tasks,    \* the TimerTask objects, by the order they were made
          visit,    \* the swapped-out tasks RunTimerTask has still to handle
          calling,  \* a task's callback is running
          fired,    \* the task that ran last (history)
          ran       \* at which tick each timer ran last (history)

vars == <<tick, wheel, timers, tasks, visit, calling, fired, ran>>

Task == [id : Ids, timeout : 1..MaxDelay, expire : Nat, cancelled : BOOLEAN]

TypeOK ==
    /\ tick \in 0..MaxTicks
    /\ wheel \in [Buckets -> Seq(DOMAIN tasks)]
    /\ timers \in [Ids -> {NoTask} \cup DOMAIN tasks]
    /\ tasks \in Seq(Task) /\ Len(tasks) <= MaxTasks
    /\ visit \in Seq(DOMAIN tasks)
    /\ calling \in BOOLEAN
    /\ fired \in {NoTask} \cup DOMAIN tasks
    /\ ran \in [Ids -> 0..MaxTicks]

Init ==
    /\ tick = 0
    /\ wheel = [b \in Buckets |-> <<>>]
    /\ timers = [i \in Ids |-> NoTask]
    /\ tasks = <<>>
    /\ visit = <<>>
    /\ calling = FALSE
    /\ fired = NoTask
    /\ ran = [i \in Ids |-> 0]

-----------------------------------------------------------------------------
\* The wheel is used between two visits and by the callback of a task.
InUse == calling \/ visit = <<>>

Put(t, expire) == [wheel EXCEPT ![expire % Capacity] = Append(@, t)]

\* What is left of the tasks when the timer of i is cancelled.
Cancelled(i) ==
    IF timers[i] = NoTask THEN tasks
    ELSE [tasks EXCEPT ![timers[i]].cancelled = TRUE]

\* A delay of 0 counts as 1.  A timer that is there is replaced.
TimerAdd(i, delay) ==
    LET timeout == IF delay = 0 THEN 1 ELSE delay
        t == Len(tasks) + 1
    IN
    /\ InUse
    /\ t <= MaxTasks
    /\ tasks' = Append(Cancelled(i), [id |-> i, timeout |-> timeout,
                                      expire |-> tick + timeout, cancelled |-> FALSE])
    /\ timers' = [timers EXCEPT ![i] = t]
    /\ wheel' = Put(t, tick + timeout)
    /\ UNCHANGED <<tick, visit, calling, fired, ran>>

TimerRefresh(i) ==
    /\ InUse
    /\ timers[i] # NoTask
    /\ tasks' = [tasks EXCEPT ![timers[i]].expire = tick + tasks[timers[i]].timeout]
    /\ UNCHANGED <<tick, wheel, timers, visit, calling, fired, ran>>

TimerCancel(i) ==
    /\ InUse
    /\ tasks' = Cancelled(i)
    /\ timers' = [timers EXCEPT ![i] = NoTask]
    /\ UNCHANGED <<tick, wheel, visit, calling, fired, ran>>

-----------------------------------------------------------------------------
(* RunTimerTask, once for every tick the timerfd reports.                  *)

\* The bucket a tick visits.
Visited_Before(n) == (n - 1) % Capacity
Visited(n) == n % Capacity

Tick ==
    /\ visit = <<>>
    /\ ~calling
    /\ tick < MaxTicks
    /\ tick' = tick + 1
    /\ visit' = wheel[Visited(tick + 1)]
    /\ wheel' = [wheel EXCEPT ![Visited(tick + 1)] = <<>>]
    /\ UNCHANGED <<timers, tasks, calling, fired, ran>>

\* Whether a task in a visited bucket is still its timer's.
Live_Unchecked(t) == TRUE
Live(t) == ~tasks[t].cancelled /\ timers[tasks[t].id] = t

\* Whether a task is due.
Due(t) == tasks[t].expire <= tick

SkipTask ==
    /\ visit # <<>> /\ ~calling
    /\ ~Live(Head(visit))
    /\ visit' = Tail(visit)
    /\ UNCHANGED <<tick, wheel, timers, tasks, calling, fired, ran>>

\* The timer is erased before its callback is called.
RunTask ==
    LET t == Head(visit) IN
    /\ visit # <<>> /\ ~calling
    /\ Live(t)
    /\ Due(t)
    /\ timers' = [timers EXCEPT ![tasks[t].id] = NoTask]
    /\ calling' = TRUE
    /\ fired' = t
    /\ ran' = [ran EXCEPT ![tasks[t].id] = tick]
    /\ visit' = Tail(visit)
    /\ UNCHANGED <<tick, wheel, tasks>>

CallbackReturns ==
    /\ calling
    /\ calling' = FALSE
    /\ UNCHANGED <<tick, wheel, timers, tasks, visit, fired, ran>>

\* A task that was refreshed is put where it belongs now.
MoveTask ==
    LET t == Head(visit) IN
    /\ visit # <<>> /\ ~calling
    /\ Live(t)
    /\ ~Due(t)
    /\ wheel' = Put(t, tasks[t].expire)
    /\ visit' = Tail(visit)
    /\ UNCHANGED <<tick, timers, tasks, calling, fired, ran>>

Next ==
    \/ \E i \in Ids : \/ \E delay \in 0..MaxDelay : TimerAdd(i, delay)
                      \/ TimerRefresh(i)
                      \/ TimerCancel(i)
    \/ Tick
    \/ SkipTask
    \/ RunTask
    \/ CallbackReturns
    \/ MoveTask

Spec == Init /\ [][Next]_vars

-----------------------------------------------------------------------------
(* Properties.                                                             *)

Elements(s) == {s[j] : j \in DOMAIN s}

\* Every timer's task lies in exactly one place, and that is visited no later
\* than its deadline: a task among those being visited, or in a bucket that
\* comes round in time, wherever refreshing has left it.
TaskInReach ==
    /\ TypeOK
    /\ \A i \in Ids : timers[i] # NoTask =>
        LET t == timers[i]
            places == {b \in Buckets : t \in Elements(wheel[b])}
        IN
        /\ tasks[t].id = i /\ ~tasks[t].cancelled
        /\ \/ t \in Elements(visit) /\ places = {} /\ tasks[t].expire >= tick
           \/ t \notin Elements(visit) /\ \E n \in (tick + 1)..tasks[t].expire :
                places = {Visited(n)}

\* The wheel keeps every deadline to the tick: it implements Deadlines.
DeadlineOf(i) == IF timers[i] = NoTask THEN 0 ELSE tasks[timers[i]].expire
Deadline == INSTANCE Deadlines
                WITH now <- tick, deadline <- [i \in Ids |-> DeadlineOf(i)]
KeepsDeadlines == Deadline!DeadlineSpec
=============================================================================

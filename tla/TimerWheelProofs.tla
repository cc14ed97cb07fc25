--------------------------- MODULE TimerWheelProofs ---------------------------
(***************************************************************************)
(* Proofs about TimerWheel, for any capacity, delays and timers: no timer  *)
(* is ever out of reach of its deadline, and the wheel keeps deadlines to  *)
(* the tick, whatever refreshing, replacing, cancelling and the timers'    *)
(* own callbacks leave in the buckets.                                     *)
(***************************************************************************)
EXTENDS TimerWheel, SequenceTheorems, TLAPS

-----------------------------------------------------------------------------
(* The inductive invariant.                                                *)

Distinct(s) == \A i, j \in DOMAIN s : s[i] = s[j] => i = j

\* No task lies in two places, dead ones included.
OnePlace ==
    /\ Distinct(visit)
    /\ \A b \in Buckets :
        /\ Distinct(wheel[b])
        /\ Elements(wheel[b]) \cap Elements(visit) = {}
        /\ \A d \in Buckets : b # d => Elements(wheel[b]) \cap Elements(wheel[d]) = {}

\* Where the task of a timer lies: the ticks at which it may be found there.
InVisit(t) == t \in Elements(visit) /\ tasks[t].expire >= tick
InWheel(t) ==
    \E n \in Nat : tick < n /\ n <= tasks[t].expire /\ t \in Elements(wheel[Visited(n)])

\* The task of a timer is its own, alive and in reach.
InReach ==
    \A i \in Ids, t \in DOMAIN tasks : timers[i] = t =>
        /\ tasks[t].id = i /\ ~tasks[t].cancelled
        /\ InVisit(t) \/ InWheel(t)

\* Deadlines are positive, so that none looks like NoDeadline, and refreshing
\* never brings one forward.
ExpireOK ==
    \A t \in DOMAIN tasks :
        tasks[t].expire > 0 /\ tasks[t].expire <= tick + tasks[t].timeout

IInv == TypeOK /\ OnePlace /\ InReach /\ ExpireOK

-----------------------------------------------------------------------------
(* Sequences of tasks.                                                     *)

\* The elements of a sequence, and that they are distinct, when one is appended.
LEMMA AppendElements ==
    ASSUME NEW S, NEW s \in Seq(S), NEW e \in S
    PROVE  /\ Elements(Append(s, e)) = Elements(s) \cup {e}
           /\ Distinct(s) /\ e \notin Elements(s) => Distinct(Append(s, e))
<1>1. /\ Len(Append(s, e)) = Len(s) + 1 /\ Append(s, e) \in Seq(S)
      /\ \A i \in 1..Len(s) : Append(s, e)[i] = s[i]
      /\ Append(s, e)[Len(s) + 1] = e
  BY AppendProperties
<1>2. /\ DOMAIN s = 1..Len(s) /\ Len(s) \in Nat
      /\ DOMAIN Append(s, e) = 1..(Len(s) + 1)
  BY <1>1, LenProperties
<1>3. \A i \in 1..(Len(s) + 1) : i \in 1..Len(s) \/ i = Len(s) + 1
  BY <1>2
<1>4. Elements(Append(s, e)) = Elements(s) \cup {e}
  BY <1>1, <1>2, <1>3 DEF Elements
<1>5. Distinct(s) /\ e \notin Elements(s) => Distinct(Append(s, e))
  BY <1>1, <1>2, <1>3 DEF Elements, Distinct
<1> QED BY <1>4, <1>5

\* What is left of distinct elements behind the first.
LEMMA TailElements ==
    ASSUME NEW S, NEW s \in Seq(S), s # <<>>, Distinct(s)
    PROVE  /\ Head(s) \in Elements(s)
           /\ Elements(Tail(s)) = Elements(s) \ {Head(s)}
           /\ Distinct(Tail(s))
<1>1. /\ Tail(s) \in Seq(S) /\ Len(Tail(s)) = Len(s) - 1
      /\ \A i \in 1..Len(Tail(s)) : Tail(s)[i] = s[i + 1]
  BY HeadTailProperties
<1>2. /\ DOMAIN s = 1..Len(s) /\ Len(s) \in Nat /\ Len(s) > 0
      /\ DOMAIN Tail(s) = 1..(Len(s) - 1)
  BY <1>1, LenProperties, EmptySeq
<1>3. Head(s) = s[1]
  OBVIOUS
<1>4. \A i \in 1..Len(s) : i = 1 \/ (i - 1 \in 1..(Len(s) - 1) /\ Tail(s)[i - 1] = s[i])
  BY <1>1, <1>2
<1>5. Elements(Tail(s)) \subseteq Elements(s) \ {Head(s)}
  BY <1>1, <1>2, <1>3 DEF Elements, Distinct
<1>6. Elements(s) \ {Head(s)} \subseteq Elements(Tail(s))
  BY <1>2, <1>3, <1>4 DEF Elements
<1>7. Distinct(Tail(s))
  BY <1>1, <1>2 DEF Distinct
<1> QED BY <1>2, <1>3, <1>5, <1>6, <1>7 DEF Elements

\* The empty sequence.
LEMMA NoElements == Elements(<<>>) = {} /\ Distinct(<<>>)
BY DEF Elements, Distinct

\* A bucket for every tick.
LEMMA VisitedBucket == \A n \in Nat : Visited(n) \in Buckets
BY WheelAssumption DEF Visited, Buckets

\* Cancelling the timer of i marks its task and changes nothing else.
LEMMA CancelledTasks ==
    ASSUME TypeOK, NEW i \in Ids
    PROVE  /\ Cancelled(i) \in Seq(Task) /\ Len(Cancelled(i)) = Len(tasks)
           /\ \A t \in DOMAIN tasks :
                /\ Cancelled(i)[t].id = tasks[t].id
                /\ Cancelled(i)[t].timeout = tasks[t].timeout
                /\ Cancelled(i)[t].expire = tasks[t].expire
                /\ t # timers[i] => Cancelled(i)[t] = tasks[t]
<1>1. DOMAIN tasks = 1..Len(tasks) /\ Len(tasks) \in Nat
  BY LenProperties DEF TypeOK
<1>2. \A t \in DOMAIN tasks : tasks[t] \in Task
  BY <1>1, ElementOfSeq DEF TypeOK
<1>3. CASE timers[i] = NoTask
  BY <1>3 DEF Cancelled, TypeOK
<1>4. CASE timers[i] # NoTask
  <2> DEFINE u == timers[i]
             e == [tasks[u] EXCEPT !.cancelled = TRUE]
  <2>1. u \in 1..Len(tasks) /\ Cancelled(i) = [tasks EXCEPT ![u] = e]
    BY <1>1, <1>4 DEF TypeOK, Cancelled
  <2>2. e \in Task /\ e.id = tasks[u].id /\ e.timeout = tasks[u].timeout
            /\ e.expire = tasks[u].expire
    BY <1>1, <1>2, <2>1 DEF Task
  <2>3. /\ [tasks EXCEPT ![u] = e] \in Seq(Task)
        /\ Len([tasks EXCEPT ![u] = e]) = Len(tasks)
        /\ \A j \in 1..Len(tasks) : [tasks EXCEPT ![u] = e][j] = IF j = u THEN e ELSE tasks[j]
    <3> HIDE DEF e
    <3> QED BY <2>1, <2>2, ExceptSeq DEF TypeOK
  <2> QED BY <1>1, <2>1, <2>2, <2>3
<1> QED BY <1>3, <1>4

-----------------------------------------------------------------------------
(* One lemma for each action.                                              *)

LEMMA InitIInv == Init => IInv
<1> SUFFICES ASSUME Init PROVE IInv
  OBVIOUS
<1>1. TypeOK
  <2>1. tasks \in Seq(Task) /\ Len(tasks) = 0 /\ visit \in Seq(DOMAIN tasks)
    BY EmptySeq DEF Init
  <2>2. wheel \in [Buckets -> Seq(DOMAIN tasks)]
    BY EmptySeq DEF Init
  <2>3. tick \in 0..MaxTicks /\ ran \in [Ids -> 0..MaxTicks]
    BY WheelAssumption DEF Init
  <2>4. timers \in [Ids -> {NoTask} \cup DOMAIN tasks] /\ calling \in BOOLEAN
            /\ fired \in {NoTask} \cup DOMAIN tasks
    BY DEF Init
  <2> QED BY <2>1, <2>2, <2>3, <2>4, WheelAssumption DEF TypeOK
<1>2. OnePlace
  BY NoElements DEF Init, OnePlace
<1>3. InReach /\ ExpireOK
  BY DEF Init, InReach, ExpireOK
<1> QED BY <1>1, <1>2, <1>3 DEF IInv

\* What lies in the wheel are tasks.
LEMMA Places ==
    ASSUME TypeOK
    PROVE  /\ DOMAIN tasks = 1..Len(tasks) /\ Len(tasks) \in Nat
           /\ Elements(visit) \subseteq DOMAIN tasks
           /\ \A b \in Buckets : /\ wheel[b] \in Seq(DOMAIN tasks)
                               /\ Elements(wheel[b]) \subseteq DOMAIN tasks
           /\ \A t \in DOMAIN tasks : tasks[t] \in Task
           /\ tick \in Nat
<1>1. DOMAIN tasks = 1..Len(tasks) /\ Len(tasks) \in Nat
  BY LenProperties DEF TypeOK
<1>2. \A t \in DOMAIN tasks : tasks[t] \in Task
  BY <1>1, ElementOfSeq DEF TypeOK
<1>3. ASSUME NEW s \in Seq(DOMAIN tasks) PROVE Elements(s) \subseteq DOMAIN tasks
  BY LenProperties, ElementOfSeq DEF Elements
<1>4. \A b \in Buckets : wheel[b] \in Seq(DOMAIN tasks)
  BY DEF TypeOK
<1> QED BY <1>1, <1>2, <1>3, <1>4, WheelAssumption DEF TypeOK

LEMMA AddKeepsIInv ==
    ASSUME IInv, NEW i \in Ids, NEW delay \in 0..MaxDelay, TimerAdd(i, delay)
    PROVE  IInv'
<1> DEFINE timeout == IF delay = 0 THEN 1 ELSE delay
           t == Len(tasks) + 1
           task == [id |-> i, timeout |-> timeout, expire |-> tick + timeout,
                    cancelled |-> FALSE]
           b == Visited(tick + timeout)
<1>1. TypeOK /\ OnePlace /\ InReach /\ ExpireOK
  BY DEF IInv
<1>2. timeout \in 1..MaxDelay /\ tick \in Nat /\ task \in Task /\ b \in Buckets
  BY <1>1, Places, WheelAssumption, VisitedBucket DEF Task
<1>3. /\ tasks' = Append(Cancelled(i), task) /\ timers' = [timers EXCEPT ![i] = t]
      /\ wheel' = [wheel EXCEPT ![b] = Append(@, t)] /\ t <= MaxTasks
      /\ UNCHANGED <<tick, visit, calling, fired, ran>>
  BY DEF TimerAdd, Put, Visited
<1> HIDE DEF timeout, task, b
<1>4. /\ tasks' \in Seq(Task) /\ Len(tasks') = t /\ tasks'[t] = task
      /\ DOMAIN tasks' = DOMAIN tasks \cup {t} /\ t \notin DOMAIN tasks
      /\ \A u \in DOMAIN tasks :
            /\ tasks'[u].expire = tasks[u].expire
            /\ tasks'[u].timeout = tasks[u].timeout
            /\ u # timers[i] => tasks'[u] = tasks[u]
  BY <1>1, <1>2, <1>3, CancelledTasks, AppendProperties, LenProperties, Places
<1>5. ASSUME NEW d \in Buckets
      PROVE  /\ wheel'[d] \in Seq(DOMAIN tasks')
             /\ Elements(wheel'[d]) = IF d = b THEN Elements(wheel[d]) \cup {t}
                                      ELSE Elements(wheel[d])
             /\ Distinct(wheel'[d])
  <2>1. wheel[d] \in Seq(DOMAIN tasks') /\ t \notin Elements(wheel[d])
    BY <1>1, <1>4, Places, SeqMonotonic
  <2>2. wheel'[d] = IF d = b THEN Append(wheel[d], t) ELSE wheel[d]
    BY <1>1, <1>2, <1>3 DEF TypeOK
  <2>3. Distinct(wheel[d])
    BY <1>1 DEF OnePlace
  <2>4. CASE d = b
    BY <1>4, <2>1, <2>2, <2>3, <2>4, AppendElements, AppendProperties
  <2>5. CASE d # b
    BY <2>1, <2>2, <2>3, <2>5
  <2> QED BY <2>4, <2>5
<1>6. TypeOK'
  <2>1. visit' \in Seq(DOMAIN tasks')
    BY <1>1, <1>3, <1>4, SeqMonotonic DEF TypeOK
  <2>2. wheel' \in [Buckets -> Seq(DOMAIN tasks')]
    BY <1>1, <1>3, <1>5 DEF TypeOK
  <2> QED BY <1>1, <1>3, <1>4, <2>1, <2>2 DEF TypeOK
<1>7. OnePlace'
  <2>1. t \notin Elements(visit) /\ \A d \in Buckets : t \notin Elements(wheel[d])
    BY <1>1, <1>4, Places
  <2>2. ASSUME NEW c \in Buckets
        PROVE  Elements(wheel'[c]) \cap Elements(visit) = {}
    BY <1>1, <1>5, <2>1 DEF OnePlace
  <2>3. ASSUME NEW c \in Buckets, NEW d \in Buckets, c # d
        PROVE  Elements(wheel'[c]) \cap Elements(wheel'[d]) = {}
    <3>1. Elements(wheel[c]) \cap Elements(wheel[d]) = {}
      BY <1>1, <2>3 DEF OnePlace
    <3> QED BY <1>5, <2>1, <2>3, <3>1
  <2> QED BY <1>1, <1>3, <1>5, <2>2, <2>3 DEF OnePlace
<1>8. InReach'
  <2> SUFFICES ASSUME NEW j \in Ids, NEW u \in DOMAIN tasks', timers'[j] = u
               PROVE  /\ tasks'[u].id = j /\ ~tasks'[u].cancelled
                      /\ InVisit(u)' \/ InWheel(u)'
    BY DEF InReach
  <2>1. CASE j = i
    <3>1. u = t
      BY <1>1, <1>3, <2>1 DEF TypeOK
    <3>2. tick + timeout \in Nat /\ tick < tick + timeout /\ t \in Elements(wheel'[b])
      <4>1. tick + timeout \in Nat /\ tick < tick + timeout
        BY <1>2, WheelAssumption
      <4>2. Elements(wheel'[b]) = Elements(wheel[b]) \cup {t}
        BY <1>2, <1>5
      <4> QED BY <4>1, <4>2
    <3>3. tasks'[t].id = i /\ ~tasks'[t].cancelled /\ tasks'[t].expire = tick + timeout
      BY <1>4 DEF task
    <3> QED BY <1>3, <2>1, <3>1, <3>2, <3>3 DEF InWheel, b
  <2>2. CASE j # i
    <3>0. timers[j] = u /\ u # NoTask
      <4>1. timers[j] = u
        BY <1>1, <1>3, <2>2 DEF TypeOK
      <4>2. u # NoTask
        BY <1>1, <1>4, Places DEF NoTask
      <4> QED BY <4>1, <4>2
    <3>1. timers[j] = u /\ u \in DOMAIN tasks /\ tasks[u].id = j
      BY <1>1, <3>0 DEF TypeOK, InReach
    <3>2. u # timers[i]
      BY <1>1, <2>2, <3>1 DEF InReach
    <3>3. tasks'[u] = tasks[u]
      BY <1>4, <3>1, <3>2
    <3>4. InVisit(u) => InVisit(u)'
      BY <1>3, <3>3 DEF InVisit
    <3>5. InWheel(u) => InWheel(u)'
      <4>1. \A d \in Buckets : Elements(wheel[d]) \subseteq Elements(wheel'[d])
        BY <1>5
      <4> QED BY <1>3, <3>3, <4>1, VisitedBucket DEF InWheel
    <3> QED BY <1>1, <3>1, <3>3, <3>4, <3>5 DEF InReach
  <2> QED BY <2>1, <2>2
<1>9. ExpireOK'
  <2> SUFFICES ASSUME NEW u \in DOMAIN tasks'
               PROVE  tasks'[u].expire > 0 /\ tasks'[u].expire <= tick + tasks'[u].timeout
    BY <1>3 DEF ExpireOK
  <2>1. CASE u = t
    BY <1>2, <1>4, <2>1, WheelAssumption DEF task
  <2>2. CASE u \in DOMAIN tasks
    BY <1>1, <1>4, <2>2 DEF ExpireOK
  <2> QED BY <1>4, <2>1, <2>2
<1> QED BY <1>6, <1>7, <1>8, <1>9 DEF IInv

LEMMA RefreshKeepsIInv ==
    ASSUME IInv, NEW i \in Ids, TimerRefresh(i)
    PROVE  IInv'
<1> DEFINE u == timers[i]
           task == [tasks[u] EXCEPT !.expire = tick + tasks[u].timeout]
<1>1. TypeOK /\ OnePlace /\ InReach /\ ExpireOK
  BY DEF IInv
<1>2. u \in DOMAIN tasks /\ tasks[u] \in Task /\ tick \in Nat
  BY <1>1, Places DEF TimerRefresh, TypeOK
<1>3. /\ task \in Task /\ task.id = tasks[u].id /\ task.timeout = tasks[u].timeout
      /\ task.expire = tick + tasks[u].timeout /\ task.cancelled = tasks[u].cancelled
  BY <1>2, WheelAssumption DEF Task
<1>4. tasks' = [tasks EXCEPT ![u] = task]
  BY DEF TimerRefresh
<1>5. UNCHANGED <<tick, wheel, timers, visit, calling, fired, ran>>
  BY DEF TimerRefresh
<1> HIDE DEF task
<1>6. /\ tasks' \in Seq(Task) /\ Len(tasks') = Len(tasks) /\ DOMAIN tasks' = DOMAIN tasks
      /\ \A t \in DOMAIN tasks : tasks'[t] = IF t = u THEN task ELSE tasks[t]
  BY <1>1, <1>2, <1>3, <1>4, ExceptSeq, Places DEF TypeOK
<1>7. TypeOK'
  BY <1>1, <1>5, <1>6 DEF TypeOK
<1>8. OnePlace'
  BY <1>1, <1>5 DEF OnePlace
<1>9. \A t \in DOMAIN tasks : /\ tasks'[t].expire >= tasks[t].expire
                             /\ tasks'[t].expire \in Nat /\ tasks[t].expire \in Nat
  <2> SUFFICES ASSUME NEW t \in DOMAIN tasks
               PROVE  /\ tasks'[t].expire >= tasks[t].expire
                      /\ tasks'[t].expire \in Nat /\ tasks[t].expire \in Nat
    OBVIOUS
  <2>1. tasks[t].expire \in Nat /\ tasks[t].expire <= tick + tasks[t].timeout
    BY <1>1, Places DEF ExpireOK, Task
  <2>2. CASE t = u
    <3>1. tasks'[t].expire = tick + tasks[t].timeout /\ tasks'[t].expire \in Nat
      BY <1>2, <1>3, <1>6, <2>2 DEF Task
    <3> QED BY <2>1, <3>1
  <2>3. CASE t # u
    BY <1>6, <2>1, <2>3
  <2> QED BY <2>2, <2>3
<1>10. InReach'
  <2> SUFFICES ASSUME NEW j \in Ids, NEW t \in DOMAIN tasks, timers[j] = t
               PROVE  /\ tasks'[t].id = j /\ ~tasks'[t].cancelled
                      /\ InVisit(t)' \/ InWheel(t)'
    BY <1>5, <1>6 DEF InReach
  <2>1. tasks'[t].id = j /\ ~tasks'[t].cancelled
    BY <1>1, <1>3, <1>6 DEF InReach
  <2>2. InVisit(t) => InVisit(t)'
    BY <1>2, <1>5, <1>9 DEF InVisit
  <2>3. InWheel(t) => InWheel(t)'
    BY <1>2, <1>5, <1>9 DEF InWheel
  <2> QED BY <1>1, <2>1, <2>2, <2>3 DEF InReach
<1>11. ExpireOK'
  <2> SUFFICES ASSUME NEW t \in DOMAIN tasks
               PROVE  tasks'[t].expire > 0 /\ tasks'[t].expire <= tick + tasks'[t].timeout
    BY <1>5, <1>6 DEF ExpireOK
  <2>1. CASE t = u
    <3>1. tasks[u].timeout \in Nat /\ tasks[u].timeout > 0
      BY <1>2, WheelAssumption DEF Task
    <3> QED BY <1>2, <1>3, <1>6, <2>1, <3>1
  <2>2. CASE t # u
    BY <1>1, <1>6, <2>2 DEF ExpireOK
  <2> QED BY <2>1, <2>2
<1> QED BY <1>7, <1>8, <1>10, <1>11 DEF IInv

LEMMA CancelKeepsIInv ==
    ASSUME IInv, NEW i \in Ids, TimerCancel(i)
    PROVE  IInv'
<1>1. TypeOK /\ OnePlace /\ InReach /\ ExpireOK
  BY DEF IInv
<1>2. /\ timers' = [timers EXCEPT ![i] = NoTask]
      /\ UNCHANGED <<tick, wheel, visit, calling, fired, ran>>
  BY DEF TimerCancel
<1>3. /\ tasks' \in Seq(Task) /\ Len(tasks') = Len(tasks) /\ DOMAIN tasks' = DOMAIN tasks
      /\ \A t \in DOMAIN tasks :
            /\ tasks'[t].expire = tasks[t].expire
            /\ tasks'[t].timeout = tasks[t].timeout
            /\ t # timers[i] => tasks'[t] = tasks[t]
  BY <1>1, CancelledTasks, Places, LenProperties DEF TimerCancel
<1>4. TypeOK'
  BY <1>1, <1>2, <1>3 DEF TypeOK
<1>5. OnePlace'
  BY <1>1, <1>2 DEF OnePlace
<1>6. InReach'
  <2> SUFFICES ASSUME NEW j \in Ids, NEW t \in DOMAIN tasks, timers'[j] = t
               PROVE  /\ tasks'[t].id = j /\ ~tasks'[t].cancelled
                      /\ InVisit(t)' \/ InWheel(t)'
    BY <1>3 DEF InReach
  <2>1. j # i
    BY <1>1, <1>2, Places DEF TypeOK, NoTask
  <2>2. timers[j] = t
    BY <1>1, <1>2, <2>1 DEF TypeOK
  <2>3. t # timers[i]
    BY <1>1, <2>1, <2>2 DEF InReach
  <2>4. tasks'[t] = tasks[t]
    BY <1>3, <2>3
  <2> QED BY <1>1, <1>2, <2>2, <2>4 DEF InReach, InVisit, InWheel
<1>7. ExpireOK'
  BY <1>1, <1>2, <1>3 DEF ExpireOK
<1> QED BY <1>4, <1>5, <1>6, <1>7 DEF IInv

LEMMA TickKeepsIInv == ASSUME IInv, Tick PROVE IInv'
<1> DEFINE b == Visited(tick + 1)
<1>1. TypeOK /\ OnePlace /\ InReach /\ ExpireOK /\ tick \in Nat /\ b \in Buckets
  BY Places, VisitedBucket DEF IInv
<1>2. /\ visit = <<>> /\ tick < MaxTicks /\ tick' = tick + 1 /\ visit' = wheel[b]
      /\ wheel' = [wheel EXCEPT ![b] = <<>>]
      /\ UNCHANGED <<timers, tasks, calling, fired, ran>>
  BY DEF Tick
<1> HIDE DEF b
<1>3. \A d \in Buckets : wheel'[d] = IF d = b THEN <<>> ELSE wheel[d]
  BY <1>1, <1>2 DEF TypeOK
<1>4. TypeOK'
  <2>1. visit' \in Seq(DOMAIN tasks) /\ <<>> \in Seq(DOMAIN tasks)
    BY <1>1, <1>2, EmptySeq DEF TypeOK
  <2>2. wheel' \in [Buckets -> Seq(DOMAIN tasks)]
    BY <1>1, <1>2, <2>1 DEF TypeOK
  <2>3. tick' \in 0..MaxTicks
    BY <1>1, <1>2, WheelAssumption
  <2> QED BY <1>1, <1>2, <2>1, <2>2, <2>3 DEF TypeOK
<1>5. OnePlace'
  BY <1>1, <1>2, <1>3, NoElements DEF OnePlace
<1>6. InReach'
  <2> SUFFICES ASSUME NEW j \in Ids, NEW t \in DOMAIN tasks, timers[j] = t
               PROVE  InVisit(t)' \/ InWheel(t)'
    BY <1>1, <1>2 DEF InReach
  <2>1. PICK n \in Nat : /\ tick < n /\ n <= tasks[t].expire
                         /\ t \in Elements(wheel[Visited(n)])
    BY <1>1, <1>2, NoElements DEF InReach, InVisit, InWheel
  <2>2. tasks[t].expire \in Nat
    BY <1>1, Places DEF Task
  <2>3. CASE Visited(n) = b
    BY <1>1, <1>2, <2>1, <2>2, <2>3 DEF InVisit
  <2>4. CASE Visited(n) # b
    <3>1. tick + 1 < n
      BY <1>1, <2>1, <2>4 DEF b
    <3>2. wheel'[Visited(n)] = wheel[Visited(n)]
      BY <1>3, <2>4, VisitedBucket
    <3> QED BY <1>2, <2>1, <3>1, <3>2 DEF InWheel
  <2> QED BY <2>3, <2>4
<1>7. ExpireOK'
  BY <1>1, <1>2, Places, WheelAssumption DEF ExpireOK, Task
<1> QED BY <1>4, <1>5, <1>6, <1>7 DEF IInv

LEMMA SkipKeepsIInv == ASSUME IInv, SkipTask PROVE IInv'
<1>1. TypeOK /\ OnePlace /\ InReach /\ ExpireOK
  BY DEF IInv
<1>2. /\ visit # <<>> /\ ~Live(Head(visit)) /\ visit' = Tail(visit)
      /\ UNCHANGED <<tick, wheel, timers, tasks, calling, fired, ran>>
  BY DEF SkipTask
<1>3. /\ visit' \in Seq(DOMAIN tasks) /\ Distinct(visit')
      /\ Elements(visit') = Elements(visit) \ {Head(visit)}
  <2>1. visit \in Seq(DOMAIN tasks) /\ Distinct(visit)
    BY <1>1 DEF TypeOK, OnePlace
  <2> QED BY <1>2, <2>1, TailElements, HeadTailProperties
<1>4. TypeOK'
  BY <1>1, <1>2, <1>3 DEF TypeOK
<1>5. OnePlace'
  BY <1>1, <1>2, <1>3 DEF OnePlace
<1>6. InReach'
  BY <1>1, <1>2, <1>3 DEF InReach, InVisit, InWheel, Live
<1>7. ExpireOK'
  BY <1>1, <1>2 DEF ExpireOK
<1> QED BY <1>4, <1>5, <1>6, <1>7 DEF IInv

LEMMA RunKeepsIInv == ASSUME IInv, RunTask PROVE IInv'
<1> DEFINE t == Head(visit)
<1>1. TypeOK /\ OnePlace /\ InReach /\ ExpireOK
  BY DEF IInv
<1>2. /\ visit # <<>> /\ Live(t) /\ visit' = Tail(visit) /\ calling' = TRUE /\ fired' = t
      /\ timers' = [timers EXCEPT ![tasks[t].id] = NoTask]
      /\ ran' = [ran EXCEPT ![tasks[t].id] = tick]
      /\ UNCHANGED <<tick, wheel, tasks>>
  BY DEF RunTask
<1>3. /\ visit' \in Seq(DOMAIN tasks) /\ Distinct(visit') /\ t \in DOMAIN tasks
      /\ Elements(visit') = Elements(visit) \ {t}
  <2>1. visit \in Seq(DOMAIN tasks) /\ Distinct(visit)
    BY <1>1 DEF TypeOK, OnePlace
  <2> QED BY <1>2, <2>1, TailElements, HeadTailProperties
<1> HIDE DEF t
<1>4. TypeOK'
  <2>1. tasks[t].id \in Ids
    BY <1>1, <1>3, Places DEF Task
  <2> QED BY <1>1, <1>2, <1>3, <2>1 DEF TypeOK
<1>5. OnePlace'
  BY <1>1, <1>2, <1>3 DEF OnePlace
<1>6. InReach'
  <2> SUFFICES ASSUME NEW j \in Ids, NEW u \in DOMAIN tasks, timers'[j] = u
               PROVE  /\ tasks[u].id = j /\ ~tasks[u].cancelled
                      /\ InVisit(u)' \/ InWheel(u)'
    BY <1>2 DEF InReach
  <2>1. timers[j] = u /\ j # tasks[t].id
    <3>1. u # NoTask
      BY <1>1, Places DEF NoTask
    <3> QED BY <1>1, <1>2, <3>1 DEF TypeOK
  <2>2. u # t
    BY <1>1, <2>1 DEF InReach
  <2> QED BY <1>1, <1>2, <1>3, <2>1, <2>2 DEF InReach, InVisit, InWheel
<1>7. ExpireOK'
  BY <1>1, <1>2 DEF ExpireOK
<1> QED BY <1>4, <1>5, <1>6, <1>7 DEF IInv

LEMMA ReturnKeepsIInv == ASSUME IInv, CallbackReturns PROVE IInv'
<1>1. TypeOK /\ OnePlace /\ InReach /\ ExpireOK
  BY DEF IInv
<1>2. calling' = FALSE /\ UNCHANGED <<tick, wheel, timers, tasks, visit, fired, ran>>
  BY DEF CallbackReturns
<1>3. TypeOK' /\ OnePlace' /\ ExpireOK'
  BY <1>1, <1>2 DEF TypeOK, OnePlace, ExpireOK
<1>4. InReach'
  BY <1>1, <1>2 DEF InReach, InVisit, InWheel
<1> QED BY <1>3, <1>4 DEF IInv

\* A task that is not due leaves the visit for the bucket of its deadline.
LEMMA MoveKeepsIInv == ASSUME IInv, MoveTask PROVE IInv'
<1> DEFINE t == Head(visit)
           b == Visited(tasks[t].expire)
<1>1. TypeOK /\ OnePlace /\ InReach /\ ExpireOK
  BY DEF IInv
<1>2. /\ visit # <<>> /\ ~Due(t) /\ visit' = Tail(visit)
      /\ wheel' = [wheel EXCEPT ![b] = Append(@, t)]
      /\ UNCHANGED <<tick, timers, tasks, calling, fired, ran>>
  BY DEF MoveTask, Put, Visited
<1>3. /\ visit' \in Seq(DOMAIN tasks) /\ Distinct(visit') /\ t \in DOMAIN tasks
      /\ t \in Elements(visit)
      /\ Elements(visit') = Elements(visit) \ {t}
  <2>1. visit \in Seq(DOMAIN tasks) /\ Distinct(visit)
    BY <1>1 DEF TypeOK, OnePlace
  <2> QED BY <1>2, <2>1, TailElements, HeadTailProperties
<1>4. tasks[t].expire \in Nat /\ tick < tasks[t].expire /\ tick \in Nat /\ b \in Buckets
  <2>1. tasks[t].expire \in Nat /\ tick \in Nat
    BY <1>1, <1>3, Places DEF Task
  <2> QED BY <1>2, <2>1, VisitedBucket DEF Due
<1> HIDE DEF t, b
<1>5. ASSUME NEW d \in Buckets
      PROVE  /\ wheel'[d] \in Seq(DOMAIN tasks)
             /\ Elements(wheel'[d]) = IF d = b THEN Elements(wheel[d]) \cup {t}
                                      ELSE Elements(wheel[d])
             /\ Distinct(wheel'[d])
  <2>1. wheel[d] \in Seq(DOMAIN tasks) /\ t \notin Elements(wheel[d]) /\ Distinct(wheel[d])
    BY <1>1, <1>3, Places DEF OnePlace
  <2>2. wheel'[d] = IF d = b THEN Append(wheel[d], t) ELSE wheel[d]
    BY <1>1, <1>2, <1>4 DEF TypeOK
  <2>3. CASE d = b
    BY <1>3, <2>1, <2>2, <2>3, AppendElements, AppendProperties
  <2>4. CASE d # b
    BY <2>1, <2>2, <2>4
  <2> QED BY <2>3, <2>4
<1>6. TypeOK'
  <2>1. wheel' \in [Buckets -> Seq(DOMAIN tasks)]
    BY <1>1, <1>2, <1>5 DEF TypeOK
  <2> QED BY <1>1, <1>2, <1>3, <2>1 DEF TypeOK
<1>7. OnePlace'
  <2>1. \A d \in Buckets : t \notin Elements(wheel[d])
    BY <1>1, <1>3 DEF OnePlace
  <2>2. ASSUME NEW c \in Buckets
        PROVE  Elements(wheel'[c]) \cap Elements(visit') = {}
    BY <1>1, <1>3, <1>5 DEF OnePlace
  <2>3. ASSUME NEW c \in Buckets, NEW d \in Buckets, c # d
        PROVE  Elements(wheel'[c]) \cap Elements(wheel'[d]) = {}
    <3>1. Elements(wheel[c]) \cap Elements(wheel[d]) = {}
      BY <1>1, <2>3 DEF OnePlace
    <3> QED BY <1>5, <2>1, <2>3, <3>1
  <2> QED BY <1>3, <1>5, <2>2, <2>3 DEF OnePlace
<1>8. InReach'
  <2> SUFFICES ASSUME NEW j \in Ids, NEW u \in DOMAIN tasks, timers[j] = u
               PROVE  InVisit(u)' \/ InWheel(u)'
    BY <1>1, <1>2 DEF InReach
  <2>1. CASE u = t
    <3>1. t \in Elements(wheel'[b])
      <4>1. Elements(wheel'[b]) = Elements(wheel[b]) \cup {t}
        BY <1>4, <1>5
      <4> QED BY <4>1
    <3>2. tasks[t].expire <= tasks[t].expire
      BY <1>4
    <3> QED BY <1>2, <1>4, <2>1, <3>1, <3>2 DEF InWheel, b
  <2>2. CASE u # t
    <3>1. InVisit(u) => InVisit(u)'
      BY <1>2, <1>3, <2>2 DEF InVisit
    <3>2. InWheel(u) => InWheel(u)'
      <4>1. \A d \in Buckets : Elements(wheel[d]) \subseteq Elements(wheel'[d])
        BY <1>5
      <4> QED BY <1>2, <4>1, VisitedBucket DEF InWheel
    <3> QED BY <1>1, <3>1, <3>2 DEF InReach
  <2> QED BY <2>1, <2>2
<1>9. ExpireOK'
  BY <1>1, <1>2 DEF ExpireOK
<1> QED BY <1>6, <1>7, <1>8, <1>9 DEF IInv

-----------------------------------------------------------------------------
(* The theorems.                                                           *)

\* Whatever TimerAdd, TimerRefresh and TimerCancel, called between visits or by
\* a callback, and RunTimerTask do, the inductive invariant holds.
THEOREM Invariance == Spec => []IInv
<1>1. IInv /\ [Next]_vars => IInv'
  <2> SUFFICES ASSUME IInv, [Next]_vars PROVE IInv'
    OBVIOUS
  <2>1. ASSUME NEW i \in Ids, NEW delay \in 0..MaxDelay, TimerAdd(i, delay) PROVE IInv'
    BY <2>1, AddKeepsIInv
  <2>2. ASSUME NEW i \in Ids, TimerRefresh(i) PROVE IInv'
    BY <2>2, RefreshKeepsIInv
  <2>3. ASSUME NEW i \in Ids, TimerCancel(i) PROVE IInv'
    BY <2>3, CancelKeepsIInv
  <2>4. CASE Tick
    BY <2>4, TickKeepsIInv
  <2>5. CASE SkipTask
    BY <2>5, SkipKeepsIInv
  <2>6. CASE RunTask
    BY <2>6, RunKeepsIInv
  <2>7. CASE CallbackReturns
    BY <2>7, ReturnKeepsIInv
  <2>8. CASE MoveTask
    BY <2>8, MoveKeepsIInv
  <2>9. CASE UNCHANGED vars
    <3>1. TypeOK' /\ OnePlace' /\ ExpireOK'
      BY <2>9 DEF vars, IInv, TypeOK, OnePlace, ExpireOK
    <3>2. InReach'
      BY <2>9 DEF vars, IInv, InReach, InVisit, InWheel
    <3> QED BY <3>1, <3>2 DEF IInv
  <2> QED BY <2>1, <2>2, <2>3, <2>4, <2>5, <2>6, <2>7, <2>8, <2>9 DEF Next
<1> QED BY <1>1, InitIInv, PTL DEF Spec

\* TimerWheel: the task of every timer lies in exactly one place, and the wheel
\* visits that place no later than the timer's deadline.
THEOREM NoTimerOutOfReach == Spec => []TaskInReach
<1>1. IInv => TaskInReach
  <2> SUFFICES ASSUME IInv, NEW i \in Ids, timers[i] # NoTask
               PROVE  LET t == timers[i]
                          places == {b \in Buckets : t \in Elements(wheel[b])}
                      IN
                      /\ tasks[t].id = i /\ ~tasks[t].cancelled
                      /\ \/ t \in Elements(visit) /\ places = {} /\ tasks[t].expire >= tick
                         \/ t \notin Elements(visit) /\ \E n \in (tick + 1)..tasks[t].expire :
                              places = {Visited(n)}
    BY DEF TaskInReach, IInv
  <2> DEFINE t == timers[i]
             places == {b \in Buckets : t \in Elements(wheel[b])}
  <2>1. TypeOK /\ OnePlace /\ InReach
    BY DEF IInv
  <2>2. t \in DOMAIN tasks /\ tick \in Nat /\ tasks[t].expire \in Nat
    BY <2>1, Places DEF TypeOK, Task
  <2>3. tasks[t].id = i /\ ~tasks[t].cancelled /\ (InVisit(t) \/ InWheel(t))
    BY <2>1, <2>2 DEF InReach
  <2>4. CASE InVisit(t)
    BY <2>1, <2>3, <2>4 DEF InVisit, OnePlace
  <2>5. CASE InWheel(t)
    <3>1. PICK n \in Nat : /\ tick < n /\ n <= tasks[t].expire
                           /\ t \in Elements(wheel[Visited(n)])
      BY <2>5 DEF InWheel
    <3>2. n \in (tick + 1)..tasks[t].expire
      BY <2>2, <3>1
    <3>3. Visited(n) \in Buckets
      BY VisitedBucket
    <3>4. t \notin Elements(visit) /\ places = {Visited(n)}
      BY <2>1, <3>1, <3>3 DEF OnePlace
    <3> QED BY <2>3, <3>2, <3>4
  <2> QED BY <2>3, <2>4, <2>5
<1> QED BY <1>1, Invariance, PTL

-----------------------------------------------------------------------------
(* The wheel implements Deadlines.                                         *)

LEMMA InitDeadlines == Init => Deadline!Init
BY DEF Init, Deadline!Init, DeadlineOf, Deadline!NoDeadline

\* The deadline of a timer is its task's, and never looks like none.
LEMMA Deadlined ==
    ASSUME IInv, NEW i \in Ids, timers[i] # NoTask
    PROVE  /\ timers[i] \in DOMAIN tasks /\ tasks[timers[i]].id = i
           /\ DeadlineOf(i) = tasks[timers[i]].expire
           /\ DeadlineOf(i) \in Nat /\ DeadlineOf(i) # 0
<1>1. timers[i] \in DOMAIN tasks
  BY DEF IInv, TypeOK
<1>2. tasks[timers[i]] \in Task
  BY <1>1, Places DEF IInv
<1>3. tasks[timers[i]].expire \in Nat /\ tasks[timers[i]].expire > 0
  BY <1>1, <1>2 DEF IInv, ExpireOK, Task
<1> QED BY <1>1, <1>3 DEF DeadlineOf, IInv, InReach

\* TimerAdd gives its timer a deadline and leaves the others alone.
LEMMA AddSets ==
    ASSUME IInv, NEW i \in Ids, NEW delay \in 0..MaxDelay, TimerAdd(i, delay)
    PROVE  Deadline!Set(i)
<1> DEFINE timeout == IF delay = 0 THEN 1 ELSE delay
           t == Len(tasks) + 1
           task == [id |-> i, timeout |-> timeout, expire |-> tick + timeout,
                    cancelled |-> FALSE]
<1>1. TypeOK /\ InReach /\ tick \in Nat
  BY Places DEF IInv
<1>2. timeout \in 1..MaxDelay /\ task \in Task
  BY <1>1, WheelAssumption DEF Task
<1>3. /\ tasks' = Append(Cancelled(i), task) /\ timers' = [timers EXCEPT ![i] = t]
      /\ tick' = tick /\ ran' = ran
  BY DEF TimerAdd
<1> HIDE DEF timeout, task
<1>4. /\ tasks'[t] = task /\ t # NoTask
      /\ \A u \in DOMAIN tasks : tasks'[u].expire = tasks[u].expire
  BY <1>1, <1>2, <1>3, CancelledTasks, AppendProperties, LenProperties, Places DEF NoTask
<1>5. timers'[i] = t /\ \A j \in Ids : j # i => timers'[j] = timers[j]
  BY <1>1, <1>3 DEF TypeOK
<1>6. DeadlineOf(i)' = tick + timeout
  BY <1>4, <1>5 DEF DeadlineOf, task
<1>7. \A j \in Ids : j # i => DeadlineOf(j)' = DeadlineOf(j)
  BY <1>1, <1>4, <1>5 DEF DeadlineOf, TypeOK
<1>8. [j \in Ids |-> DeadlineOf(j)]' = [[j \in Ids |-> DeadlineOf(j)] EXCEPT ![i] = tick + timeout]
  BY <1>6, <1>7
<1> QED BY <1>2, <1>3, <1>8 DEF Deadline!Set

LEMMA RefreshSets == ASSUME IInv, NEW i \in Ids, TimerRefresh(i) PROVE Deadline!Set(i)
<1> DEFINE u == timers[i]
           task == [tasks[u] EXCEPT !.expire = tick + tasks[u].timeout]
<1>1. TypeOK /\ InReach /\ tick \in Nat
  BY Places DEF IInv
<1>2. u # NoTask /\ u \in DOMAIN tasks /\ tasks[u] \in Task
  BY <1>1, Places DEF TimerRefresh, TypeOK
<1>3. tasks' = [tasks EXCEPT ![u] = task] /\ UNCHANGED <<tick, timers, ran>>
  BY DEF TimerRefresh
<1>4. task.expire = tick + tasks[u].timeout /\ tasks[u].timeout \in 1..MaxDelay
  BY <1>2 DEF Task
<1> HIDE DEF task
<1>5. \A t \in DOMAIN tasks : tasks'[t] = IF t = u THEN task ELSE tasks[t]
  BY <1>1, <1>2, <1>3, LenProperties DEF TypeOK
<1>6. DeadlineOf(i)' = tick + tasks[u].timeout
  BY <1>2, <1>3, <1>4, <1>5 DEF DeadlineOf
<1>7. ASSUME NEW j \in Ids, j # i PROVE DeadlineOf(j)' = DeadlineOf(j)
  <2>1. CASE timers[j] = NoTask
    BY <1>3, <2>1 DEF DeadlineOf
  <2>2. CASE timers[j] # NoTask
    <3>1. timers[j] \in DOMAIN tasks /\ tasks[timers[j]].id = j
      BY <2>2, Deadlined
    <3>2. timers[j] # u
      BY <1>2, <1>7, <3>1, Deadlined
    <3>3. tasks'[timers[j]] = tasks[timers[j]]
      BY <1>5, <3>1, <3>2
    <3> QED BY <1>3, <3>3 DEF DeadlineOf
  <2> QED BY <2>1, <2>2
<1>8. [j \in Ids |-> DeadlineOf(j)]'
        = [[j \in Ids |-> DeadlineOf(j)] EXCEPT ![i] = tick + tasks[u].timeout]
  BY <1>6, <1>7
<1> QED BY <1>3, <1>4, <1>8 DEF Deadline!Set

LEMMA CancelCancels == ASSUME IInv, NEW i \in Ids, TimerCancel(i) PROVE Deadline!Cancel(i)
<1>1. TypeOK
  BY DEF IInv
<1>2. /\ timers' = [timers EXCEPT ![i] = NoTask] /\ tick' = tick /\ ran' = ran
      /\ tasks' = Cancelled(i)
  BY DEF TimerCancel
<1>3. \A t \in DOMAIN tasks : tasks'[t].expire = tasks[t].expire
  BY <1>1, <1>2, CancelledTasks
<1>4. DeadlineOf(i)' = Deadline!NoDeadline
  BY <1>1, <1>2 DEF DeadlineOf, TypeOK, Deadline!NoDeadline
<1>5. \A j \in Ids : j # i => DeadlineOf(j)' = DeadlineOf(j)
  BY <1>1, <1>2, <1>3 DEF DeadlineOf, TypeOK
<1>6. [j \in Ids |-> DeadlineOf(j)]'
        = [[j \in Ids |-> DeadlineOf(j)] EXCEPT ![i] = Deadline!NoDeadline]
  BY <1>4, <1>5
<1> QED BY <1>2, <1>6 DEF Deadline!Cancel

\* Nothing is left to visit, so every timer's task lies in a bucket of a later tick.
LEMMA TickTicks == ASSUME IInv, Tick PROVE Deadline!Tick
<1>1. visit = <<>> /\ tick' = tick + 1 /\ UNCHANGED <<timers, tasks, ran>> /\ tick \in Nat
  BY Places DEF Tick, IInv
<1>2. ASSUME NEW i \in Ids, DeadlineOf(i) # Deadline!NoDeadline PROVE DeadlineOf(i) > tick
  <2>1. timers[i] # NoTask
    BY <1>2 DEF DeadlineOf, Deadline!NoDeadline
  <2>2. timers[i] \in DOMAIN tasks /\ DeadlineOf(i) = tasks[timers[i]].expire
        /\ DeadlineOf(i) \in Nat
    BY <2>1, Deadlined
  <2>3. InWheel(timers[i])
    BY <1>1, <2>2, NoElements DEF IInv, InReach, InVisit
  <2> QED BY <1>1, <2>2, <2>3 DEF InWheel
<1>3. [i \in Ids |-> DeadlineOf(i)]' = [i \in Ids |-> DeadlineOf(i)]
  BY <1>1 DEF DeadlineOf
<1> QED BY <1>1, <1>2, <1>3 DEF Deadline!Tick

\* A task that runs is due, and being visited it is not overdue.
LEMMA RunRuns == ASSUME IInv, RunTask PROVE \E i \in Ids : Deadline!Run(i)
<1> DEFINE t == Head(visit)
           i == tasks[t].id
<1>1. TypeOK /\ OnePlace /\ InReach /\ tick \in Nat
  BY Places DEF IInv
<1>2. /\ visit # <<>> /\ Live(t) /\ Due(t)
      /\ timers' = [timers EXCEPT ![i] = NoTask] /\ ran' = [ran EXCEPT ![i] = tick]
      /\ UNCHANGED <<tick, tasks>>
  BY DEF RunTask
<1>3. t \in Elements(visit) /\ t \in DOMAIN tasks
  <2>1. visit \in Seq(DOMAIN tasks) /\ Distinct(visit)
    BY <1>1 DEF TypeOK, OnePlace
  <2> QED BY <1>2, <2>1, TailElements, Places, <1>1
<1>4. tasks[t] \in Task
  BY <1>1, <1>3, Places
<1>5. i \in Ids /\ timers[i] = t /\ tasks[t].expire \in Nat /\ tasks[t].expire <= tick
  BY <1>2, <1>4 DEF Task, Live, Due
<1>6. timers[i] # NoTask
  BY <1>1, <1>3, <1>5, Places DEF NoTask
<1>7. DeadlineOf(i) = tasks[t].expire /\ DeadlineOf(i) # 0
  BY <1>5, <1>6, Deadlined
<1>8. tasks[t].expire >= tick
  <2>1. ~InWheel(t)
    BY <1>1, <1>3, VisitedBucket DEF InWheel, OnePlace
  <2> QED BY <1>1, <1>3, <1>5, <2>1 DEF InReach, InVisit
<1>9. DeadlineOf(i) = tick
  BY <1>1, <1>5, <1>7, <1>8
<1> HIDE DEF i, t
<1>10. [j \in Ids |-> DeadlineOf(j)]'
         = [[j \in Ids |-> DeadlineOf(j)] EXCEPT ![i] = Deadline!NoDeadline]
  <2> SUFFICES ASSUME NEW j \in Ids
               PROVE  DeadlineOf(j)' = IF j = i THEN Deadline!NoDeadline ELSE DeadlineOf(j)
    BY <1>5
  <2> QED BY <1>1, <1>2, <1>5 DEF DeadlineOf, TypeOK, Deadline!NoDeadline
<1>11. Deadline!Run(i)
  BY <1>2, <1>5, <1>7, <1>9, <1>10 DEF Deadline!Run, Deadline!NoDeadline
<1> QED BY <1>5, <1>11

\* TimerWheel: every timer runs once, at the very tick of its deadline, unless
\* it is cancelled, put off or replaced before.
THEOREM DeadlinesKept == Spec => KeepsDeadlines
<1> DEFINE dvars == <<tick, [i \in Ids |-> DeadlineOf(i)], ran>>
<1>1. IInv /\ [Next]_vars => [Deadline!Next]_dvars
  <2> SUFFICES ASSUME IInv, [Next]_vars PROVE [Deadline!Next]_dvars
    OBVIOUS
  <2>1. ASSUME UNCHANGED <<tick, timers, tasks, ran>> PROVE UNCHANGED dvars
    BY <2>1 DEF DeadlineOf
  <2>2. ASSUME NEW i \in Ids, NEW delay \in 0..MaxDelay, TimerAdd(i, delay)
        PROVE  Deadline!Next
    BY <2>2, AddSets DEF Deadline!Next
  <2>3. ASSUME NEW i \in Ids, TimerRefresh(i) PROVE Deadline!Next
    BY <2>3, RefreshSets DEF Deadline!Next
  <2>4. ASSUME NEW i \in Ids, TimerCancel(i) PROVE Deadline!Next
    BY <2>4, CancelCancels DEF Deadline!Next
  <2>5. CASE Tick
    BY <2>5, TickTicks DEF Deadline!Next
  <2>6. CASE RunTask
    BY <2>6, RunRuns DEF Deadline!Next
  <2>7. CASE SkipTask \/ CallbackReturns \/ MoveTask \/ UNCHANGED vars
    BY <2>1, <2>7 DEF SkipTask, CallbackReturns, MoveTask, vars
  <2> QED BY <2>2, <2>3, <2>4, <2>5, <2>6, <2>7 DEF Next
<1> QED BY <1>1, InitDeadlines, Invariance, PTL DEF Spec, KeepsDeadlines, Deadline!DeadlineSpec
=============================================================================

--------------------------- MODULE EventLoopProofs ---------------------------
(***************************************************************************)
(* Proofs about EventLoop, for any number of threads, functors and         *)
(* channels: the inductive invariant IInv, the absence of lost wakeups,    *)
(* and the refinement of SerialExecutor.                                   *)
(***************************************************************************)
EXTENDS EventLoop, SequenceTheorems, TLAPS

-----------------------------------------------------------------------------
(* Sequences of functors.                                                  *)

\* The elements of a sequence to which one is appended.
LEMMA ElementsAppend ==
    ASSUME NEW S, NEW s \in Seq(S), NEW e \in S
    PROVE  Elements(Append(s, e)) = Elements(s) \cup {e}
<1>1. /\ Len(Append(s, e)) = Len(s) + 1
      /\ \A i \in 1..Len(s) : Append(s, e)[i] = s[i]
      /\ Append(s, e)[Len(s) + 1] = e
      /\ Append(s, e) \in Seq(S)
  BY AppendProperties
<1>2. DOMAIN s = 1..Len(s) /\ Len(s) \in Nat
  BY LenProperties
<1>3. DOMAIN Append(s, e) = 1..(Len(s) + 1)
  BY <1>1, LenProperties
<1>4. Elements(s) \cup {e} \subseteq Elements(Append(s, e))
  <2>1. ASSUME NEW i \in DOMAIN s PROVE s[i] \in Elements(Append(s, e))
    BY <1>1, <1>2, <1>3 DEF Elements
  <2>2. e \in Elements(Append(s, e))
    BY <1>1, <1>2, <1>3 DEF Elements
  <2> QED BY <2>1, <2>2 DEF Elements
<1>5. Elements(Append(s, e)) \subseteq Elements(s) \cup {e}
  <2>1. ASSUME NEW i \in DOMAIN Append(s, e)
        PROVE  Append(s, e)[i] \in Elements(s) \cup {e}
    <3>1. CASE i \in 1..Len(s) BY <3>1, <1>1, <1>2 DEF Elements
    <3>2. CASE i = Len(s) + 1 BY <3>2, <1>1
    <3> QED BY <3>1, <3>2, <1>2, <1>3
  <2> QED BY <2>1 DEF Elements
<1> QED BY <1>4, <1>5

\* The elements of two sequences put together.
LEMMA ElementsConcat ==
    ASSUME NEW S, NEW s \in Seq(S), NEW t \in Seq(S)
    PROVE  Elements(s \o t) = Elements(s) \cup Elements(t)
<1>1. /\ s \o t \in Seq(S)
      /\ Len(s \o t) = Len(s) + Len(t)
      /\ \A i \in 1..(Len(s) + Len(t)) :
            (s \o t)[i] = IF i <= Len(s) THEN s[i] ELSE t[i - Len(s)]
  BY ConcatProperties
<1>2. /\ DOMAIN s = 1..Len(s) /\ Len(s) \in Nat
      /\ DOMAIN t = 1..Len(t) /\ Len(t) \in Nat
      /\ DOMAIN (s \o t) = 1..(Len(s) + Len(t))
  BY <1>1, LenProperties
<1>3. ASSUME NEW i \in DOMAIN s PROVE s[i] \in Elements(s \o t)
  <2>1. i \in DOMAIN (s \o t) /\ (s \o t)[i] = s[i]
    BY <1>1, <1>2
  <2> QED BY <2>1 DEF Elements
<1>4. ASSUME NEW i \in DOMAIN t PROVE t[i] \in Elements(s \o t)
  <2>1. i + Len(s) \in DOMAIN (s \o t) /\ (s \o t)[i + Len(s)] = t[i]
    BY <1>1, <1>2
  <2> QED BY <2>1 DEF Elements
<1>5. ASSUME NEW i \in DOMAIN (s \o t)
      PROVE  (s \o t)[i] \in Elements(s) \cup Elements(t)
  <2>1. CASE i <= Len(s) BY <2>1, <1>1, <1>2 DEF Elements
  <2>2. CASE i > Len(s)
    <3>1. i - Len(s) \in DOMAIN t /\ (s \o t)[i] = t[i - Len(s)]
      BY <2>2, <1>1, <1>2
    <3> QED BY <3>1 DEF Elements
  <2> QED BY <2>1, <2>2, <1>2
<1> QED BY <1>3, <1>4, <1>5 DEF Elements

-----------------------------------------------------------------------------
(* The inductive invariant.                                                *)

LEMMA InitIInv == Init => IInv
<1> SUFFICES ASSUME Init PROVE IInv
  OBVIOUS
<1>1. TypeOK BY EmptySeq DEF Init, TypeOK, Places
<1>2. RoundInv BY DEF Init, RoundInv
<1>3. WorkAnnounced BY DEF Init, WorkAnnounced
<1> QED BY <1>1, <1>2, <1>3 DEF IInv

\* Every step keeps the variables in their types.
LEMMA NextTypeOK == TypeOK /\ [Next]_vars => TypeOK'
<1> SUFFICES ASSUME TypeOK, [Next]_vars PROVE TypeOK'
  OBVIOUS
<1> USE DEF TypeOK, Places, Channels
<1>1. ASSUME NEW a \in Actors, NEW k \in Tasks, QueueInLoop(a, k)
      PROVE  TypeOK'
  BY <1>1 DEF QueueInLoop, Pushed
<1>2. ASSUME NEW k \in Tasks, RunInLoopInline(k) PROVE TypeOK'
  BY <1>2 DEF RunInLoopInline
<1>3. ASSUME NEW a \in Actors, WakeUpEventfd(a) PROVE TypeOK'
  BY <1>3 DEF WakeUpEventfd, Woken
<1>4. CASE CheckStop BY <1>4 DEF CheckStop
<1>5. ASSUME NEW sources \in SUBSET Sources, Poll(sources) PROVE TypeOK'
  BY <1>5 DEF Poll
<1>6. CASE PollInterrupted BY <1>6 DEF PollInterrupted
<1>7. CASE HandleEventfd BY <1>7 DEF HandleEventfd
<1>8. ASSUME NEW c \in Sources, HandleSource(c) PROVE TypeOK'
  BY <1>8 DEF HandleSource
<1>9. CASE HandlerReturns BY <1>9 DEF HandlerReturns
<1>10. CASE DispatchDone BY <1>10 DEF DispatchDone
<1>11. CASE SwapTasks BY <1>11 DEF SwapTasks, Swapped
<1>12. CASE RunTask
  <2>1. Head(batch) \in Tasks /\ Tail(batch) \in Seq(Tasks)
    BY <1>12, HeadTailProperties DEF RunTask
  <2> QED BY <1>12, <2>1 DEF RunTask
<1>13. CASE TaskReturns BY <1>13 DEF TaskReturns
<1>14. CASE DrainDone BY <1>14 DEF DrainDone
<1>15. CASE UNCHANGED vars BY <1>15 DEF vars
<1> QED
  BY <1>1, <1>2, <1>3, <1>4, <1>5, <1>6, <1>7, <1>8, <1>9, <1>10, <1>11,
     <1>12, <1>13, <1>14, <1>15
     DEF Next, Users, Callbacks, Wakers, LoopStep, Actors

\* The round's own state, one step per action.
LEMMA NextRoundInv == TypeOK /\ RoundInv /\ [Next]_vars => RoundInv'
<1> SUFFICES ASSUME TypeOK, RoundInv, [Next]_vars PROVE RoundInv'
  OBVIOUS
<1> USE DEF RoundInv
<1>1. ASSUME NEW a \in Actors, NEW k \in Tasks, QueueInLoop(a, k)
      PROVE  RoundInv'
  BY <1>1 DEF QueueInLoop, MayCall
<1>2. ASSUME NEW k \in Tasks, RunInLoopInline(k) PROVE RoundInv'
  <2>1. Elements(ran') = Elements(ran) \cup {k}
    BY <1>2, ElementsAppend DEF RunInLoopInline, TypeOK
  <2> QED BY <1>2, <2>1 DEF RunInLoopInline
<1>3. ASSUME NEW a \in Actors, WakeUpEventfd(a) PROVE RoundInv'
  BY <1>3 DEF WakeUpEventfd
<1>4. CASE CheckStop BY <1>4 DEF CheckStop
<1>5. ASSUME NEW sources \in SUBSET Sources, Poll(sources) PROVE RoundInv'
  BY <1>5 DEF Poll
<1>6. CASE PollInterrupted BY <1>6 DEF PollInterrupted
<1>7. CASE HandleEventfd BY <1>7 DEF HandleEventfd
<1>8. ASSUME NEW c \in Sources, HandleSource(c) PROVE RoundInv'
  BY <1>8 DEF HandleSource
<1>9. CASE HandlerReturns BY <1>9 DEF HandlerReturns, LoopFree
<1>10. CASE DispatchDone BY <1>10 DEF DispatchDone
<1>11. CASE SwapTasks BY <1>11 DEF SwapTasks
<1>12. CASE RunTask
  <2>1. Head(batch) \in Tasks
    BY <1>12, HeadTailProperties DEF RunTask, TypeOK
  <2>2. Elements(ran') = Elements(ran) \cup {Head(batch)}
    BY <1>12, <2>1, ElementsAppend DEF RunTask, TypeOK
  <2>3. stop' => Elements(ran') \cap StopTasks # {}
    BY <1>12, <2>2 DEF RunTask
  <2> QED BY <1>12, <2>3 DEF RunTask
<1>13. CASE TaskReturns BY <1>13 DEF TaskReturns, LoopFree
<1>14. CASE DrainDone BY <1>14 DEF DrainDone, RoundOver
<1>15. CASE UNCHANGED vars BY <1>15 DEF vars
<1> QED
  BY <1>1, <1>2, <1>3, <1>4, <1>5, <1>6, <1>7, <1>8, <1>9, <1>10, <1>11,
     <1>12, <1>13, <1>14, <1>15
     DEF Next, Users, Callbacks, Wakers, LoopStep, Actors

\* Queued work stays announced.  The two steps that could break it are
\* ReadEventfd, which is followed by the swap, and the swap, which leaves
\* nothing queued.
LEMMA NextWorkAnnounced ==
    TypeOK /\ RoundInv /\ WorkAnnounced /\ [Next]_vars => WorkAnnounced'
<1> SUFFICES ASSUME TypeOK, RoundInv, WorkAnnounced, [Next]_vars
             PROVE  WorkAnnounced'
  OBVIOUS
<1> USE DEF WorkAnnounced, SwapAhead
<1>1. ASSUME NEW a \in Actors, NEW k \in Tasks, QueueInLoop(a, k)
      PROVE  WorkAnnounced'
  BY <1>1 DEF QueueInLoop
<1>2. ASSUME NEW k \in Tasks, RunInLoopInline(k) PROVE WorkAnnounced'
  BY <1>2 DEF RunInLoopInline
<1>3. ASSUME NEW a \in Actors, WakeUpEventfd(a) PROVE WorkAnnounced'
  BY <1>3 DEF WakeUpEventfd, Woken
<1>4. CASE CheckStop BY <1>4 DEF CheckStop
<1>5. ASSUME NEW sources \in SUBSET Sources, Poll(sources)
      PROVE  WorkAnnounced'
  BY <1>5 DEF Poll
<1>6. CASE PollInterrupted BY <1>6 DEF PollInterrupted
<1>7. CASE HandleEventfd BY <1>7 DEF HandleEventfd
<1>8. ASSUME NEW c \in Sources, HandleSource(c) PROVE WorkAnnounced'
  BY <1>8 DEF HandleSource
<1>9. CASE HandlerReturns BY <1>9 DEF HandlerReturns
<1>10. CASE DispatchDone BY <1>10 DEF DispatchDone
<1>11. CASE SwapTasks BY <1>11 DEF SwapTasks, Swapped, RoundInv
<1>12. CASE RunTask BY <1>12 DEF RunTask
<1>13. CASE TaskReturns BY <1>13 DEF TaskReturns
<1>14. CASE DrainDone BY <1>14 DEF DrainDone
<1>15. CASE UNCHANGED vars BY <1>15 DEF vars
<1> QED
  BY <1>1, <1>2, <1>3, <1>4, <1>5, <1>6, <1>7, <1>8, <1>9, <1>10, <1>11,
     <1>12, <1>13, <1>14, <1>15
     DEF Next, Users, Callbacks, Wakers, LoopStep, Actors

\* The loop of muduo.hpp keeps its inductive invariant under every
\* interleaving of its rounds with the threads that queue functors.
THEOREM Invariance == Spec => []IInv
<1>1. Init => IInv
  BY InitIInv
<1>2. IInv /\ [Next]_vars => IInv'
  BY NextTypeOK, NextRoundInv, NextWorkAnnounced DEF IInv
<1> QED BY <1>1, <1>2, PTL DEF Spec

\* The loop never blocks in epoll_wait on queued functors nobody will announce.
THEOREM WakeupNeverLost == Spec => []NoLostWakeup
<1>1. IInv => NoLostWakeup
  BY DEF IInv, WorkAnnounced, SwapAhead, NoLostWakeup
<1> QED BY <1>1, Invariance, PTL

-----------------------------------------------------------------------------
(* Refinement of SerialExecutor.                                           *)

\* Taking the batch's first functor takes the first of all that is pending.
LEMMA PendingHeadTail ==
    ASSUME NEW S, NEW b \in Seq(S), NEW q \in Seq(S), b # <<>>
    PROVE  /\ b \o q # <<>>
           /\ Head(b \o q) = Head(b)
           /\ Tail(b \o q) = Tail(b) \o q
OBVIOUS

\* A functor pushed to the queue is the last of all that is pending.
LEMMA PendingAppend ==
    ASSUME NEW S, NEW b \in Seq(S), NEW q \in Seq(S), NEW e \in S
    PROVE  b \o Append(q, e) = Append(b \o q, e)
OBVIOUS

\* The swap moves the whole queue into an empty batch: the same is pending.
LEMMA PendingSwap ==
    ASSUME NEW S, NEW q \in Seq(S)
    PROVE  <<>> \o q = q \o <<>>
OBVIOUS

\* Both modules mean the same by the elements of a sequence.
LEMMA SameElements == \A s : Executor!Elements(s) = Elements(s)
BY DEF Executor!Elements, Elements

\* A functor that is new to the loop is new to the executor.
LEMMA SameUnseen ==
    ASSUME TypeOK, NEW k, Unseen(k)
    PROVE  Executor!Unseen(k)
<1>1. Elements(batch \o queue) = Elements(batch) \cup Elements(queue)
  BY ElementsConcat DEF TypeOK
<1> QED BY <1>1, SameElements DEF Unseen, Executor!Unseen

\* Each step of the loop is a step of the executor or changes nothing of it.
LEMMA StepSimulation ==
    IInv /\ [Next]_vars => [Executor!ExecNext]_(Executor!execVars)
<1> SUFFICES ASSUME IInv, [Next]_vars
             PROVE  Executor!ExecNext \/ UNCHANGED Executor!execVars
  OBVIOUS
<1> USE DEF Executor!execVars
<1>0. /\ TypeOK
      /\ RoundInv
      /\ queue \in Seq(Tasks) /\ batch \in Seq(Tasks)
  BY DEF IInv, TypeOK
<1>1. ASSUME NEW a \in Actors, NEW k \in Tasks, QueueInLoop(a, k)
      PROVE  Executor!ExecNext
  <2>1. batch' \o queue' = Append(batch \o queue, k)
    BY <1>0, <1>1, PendingAppend DEF QueueInLoop, Pushed
  <2>2. Executor!Accept(k)
    BY <1>0, <1>1, <2>1, SameUnseen DEF QueueInLoop, Executor!Accept
  <2> QED BY <2>2 DEF Executor!ExecNext
<1>2. ASSUME NEW k \in Tasks, RunInLoopInline(k) PROVE Executor!ExecNext
  <2>1. pc # "done"
    BY <1>2 DEF RunInLoopInline, MayCall
  <2>2. Executor!ExecuteAtOnce(k)
    BY <1>0, <1>2, <2>1, SameUnseen
       DEF RunInLoopInline, Executor!ExecuteAtOnce
  <2> QED BY <2>2 DEF Executor!ExecNext
<1>3. ASSUME NEW a \in Actors, WakeUpEventfd(a)
      PROVE  UNCHANGED Executor!execVars
  BY <1>3 DEF WakeUpEventfd
<1>4. CASE CheckStop
  <2>1. CASE stop
    <3>1. Executor!Elements(ran) \cap StopTasks # {}
      BY <1>0, <2>1, SameElements DEF RoundInv
    <3>2. Executor!Close
      BY <1>4, <2>1, <3>1 DEF CheckStop, Executor!Close
    <3> QED BY <3>2 DEF Executor!ExecNext
  <2>2. CASE ~stop
    BY <1>4, <2>2 DEF CheckStop
  <2> QED BY <2>1, <2>2
<1>5. ASSUME NEW sources \in SUBSET Sources, Poll(sources)
      PROVE  UNCHANGED Executor!execVars
  BY <1>5 DEF Poll
<1>6. CASE PollInterrupted BY <1>6 DEF PollInterrupted
<1>7. CASE HandleEventfd BY <1>7 DEF HandleEventfd
<1>8. ASSUME NEW c \in Sources, HandleSource(c)
      PROVE  UNCHANGED Executor!execVars
  BY <1>8 DEF HandleSource
<1>9. CASE HandlerReturns BY <1>9 DEF HandlerReturns
<1>10. CASE DispatchDone BY <1>10 DEF DispatchDone
<1>11. CASE SwapTasks
  <2>1. batch = <<>>
    BY <1>0, <1>11 DEF SwapTasks, RoundInv
  <2>2. batch' \o queue' = batch \o queue
    BY <1>0, <1>11, <2>1, PendingSwap DEF SwapTasks, Swapped
  <2> QED BY <1>11, <2>2 DEF SwapTasks
<1>12. CASE RunTask
  <2>1. /\ batch \o queue # <<>>
        /\ Head(batch \o queue) = Head(batch)
        /\ Tail(batch \o queue) = Tail(batch) \o queue
    BY <1>0, <1>12, PendingHeadTail DEF RunTask
  <2>2. Executor!Execute
    BY <1>12, <2>1 DEF RunTask, Executor!Execute
  <2> QED BY <2>2 DEF Executor!ExecNext
<1>13. CASE TaskReturns BY <1>13 DEF TaskReturns
<1>14. CASE DrainDone BY <1>14 DEF DrainDone
<1>15. CASE UNCHANGED vars BY <1>15 DEF vars
<1> QED
  BY <1>1, <1>2, <1>3, <1>4, <1>5, <1>6, <1>7, <1>8, <1>9, <1>10, <1>11,
     <1>12, <1>13, <1>14, <1>15
     DEF Next, Users, Callbacks, Wakers, LoopStep, Actors

\* The event loop executes every functor handed to it at most once and in the
\* order in which it was queued, and stops only by a functor of Stop(), after
\* all that was queued before it.
THEOREM Refinement == Spec => ImplementsExecutor
<1>1. Init => Executor!ExecInit
  BY DEF Init, Executor!ExecInit
<1>2. IInv /\ [Next]_vars => [Executor!ExecNext]_(Executor!execVars)
  BY StepSimulation
<1> QED
  BY <1>1, <1>2, Invariance, PTL DEF Spec, ImplementsExecutor, Executor!ExecSpec
=============================================================================

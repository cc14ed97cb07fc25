----------------------------- MODULE RpcCallProofs -----------------------------
(***************************************************************************)
(* Proofs about RpcCall, for any threads, connections and calls, any mix   *)
(* of call modes, and any order of sends, responses, callbacks, closed     *)
(* connections and the application's steps.                                *)
(***************************************************************************)
EXTENDS RpcCall, SequenceTheorems, TLAPS

-----------------------------------------------------------------------------
(* The inductive invariant: where a call is, and what is recorded of it.   *)

\* A call that was not made has left no trace; one that was made stays in
\* _requests until it is answered, and is answered with its own execution.
Recorded ==
    \A c \in Calls :
        /\ conn[c] = None => c \notin requests /\ executed[c] = <<>>
        /\ conn[c] # None /\ c \notin requests => outcome[c] # <<>>
        /\ executed[c] = <<>> \/ \E k \in Kinds : executed[c] = <<k>>
        /\ outcome[c] = <<>> \/ \E k \in Reported : executed[c] = <<k>> /\ outcome[c] = <<k>>

\* A call that is still to be sent is sent by one thread and nowhere else.
SendersOK ==
    \A a \in Actors, c \in Calls : stage[a] = "send" /\ making[a] = c =>
        /\ conn[c] # None
        /\ executed[c] = <<>>
        /\ \A n \in Conns : c \notin Elements(queued[n]) /\ c \notin Elements(wire[n])
        /\ \A b \in Actors : stage[b] = "send" /\ making[b] = c => a = b

Distinct(s) == \A i, j \in DOMAIN s : s[i] = s[j] => i = j

\* A call that is queued or on the wire lies there once, and was not executed.
QueuesOK ==
    \A n \in Conns :
        /\ Distinct(queued[n]) /\ Distinct(wire[n])
        /\ \A c \in Elements(queued[n]) :
            conn[c] = n /\ executed[c] = <<>> /\ c \notin Elements(wire[n])
        /\ \A c \in Elements(wire[n]) : conn[c] = n /\ executed[c] = <<>>

Once(s) == \A i, j \in DOMAIN s : s[i].id = s[j].id /\ s[i].id # None => i = j

\* A response is the only one to its call, which still waits for it.
AnswersOK ==
    \A n \in Conns :
        /\ Once(answers[n])
        /\ \A r \in Elements(answers[n]) :
            /\ r.id # None => /\ r.id \in requests /\ conn[r.id] = n
                              /\ executed[r.id] = <<r.kind>> /\ outcome[r.id] = <<>>
            /\ r.id = None => \E c \in IllFormed : conn[c] = n

\* A loop thread handles a call of its own connection: its response is still
\* the first, or the call was given it.
HandledOK ==
    \A n \in Conns, c \in Calls : handling[n] = c =>
        /\ c \in requests /\ conn[c] = n
        /\ stage[n] = "deliver" =>
            /\ answers[n] # <<>>
            /\ Head(answers[n]).id = c /\ Head(answers[n]).kind \in Reported
        /\ stage[n] # "deliver" => outcome[c] # <<>>

\* RegisterService returns when the service is in the table.
ServiceOK == service = "done" => services

\* All of it but the types.
CallsOK ==
    /\ Recorded /\ SendersOK /\ QueuesOK /\ AnswersOK /\ HandledOK
    /\ PendingInTransit /\ ShutdownForCause

IInv == TypeInv /\ CallsOK /\ ServiceOK

-----------------------------------------------------------------------------
(* Sequences of requests and of responses.                                 *)

LEMMA Appended ==
    ASSUME NEW S, NEW s \in Seq(S), NEW e \in S
    PROVE  /\ Append(s, e) \in Seq(S) /\ Append(s, e) # <<>>
           /\ s # <<>> => Head(Append(s, e)) = Head(s)
           /\ Elements(Append(s, e)) = Elements(s) \cup {e}
           /\ Distinct(s) /\ e \notin Elements(s) => Distinct(Append(s, e))
           /\ Once(s) /\ (\A r \in Elements(s) : r.id # e.id) => Once(Append(s, e))
           /\ Once(s) /\ e.id = None => Once(Append(s, e))
<1>1. /\ Len(Append(s, e)) = Len(s) + 1 /\ Append(s, e) \in Seq(S)
      /\ \A i \in 1..Len(s) : Append(s, e)[i] = s[i]
      /\ Append(s, e)[Len(s) + 1] = e
  BY AppendProperties
<1>2. /\ DOMAIN s = 1..Len(s) /\ Len(s) \in Nat
      /\ DOMAIN Append(s, e) = 1..(Len(s) + 1)
  BY <1>1, LenProperties
<1>3. \A i \in 1..(Len(s) + 1) : i \in 1..Len(s) \/ i = Len(s) + 1
  BY <1>2
<1>4. Elements(Append(s, e)) = Elements(s) \cup {e}
  BY <1>1, <1>2, <1>3 DEF Elements
<1>5. Distinct(s) /\ e \notin Elements(s) => Distinct(Append(s, e))
  BY <1>1, <1>2, <1>3 DEF Elements, Distinct
<1>6. Once(s) /\ (\A r \in Elements(s) : r.id # e.id) => Once(Append(s, e))
  BY <1>1, <1>2, <1>3 DEF Elements, Once
<1>7. Once(s) /\ e.id = None => Once(Append(s, e))
  BY <1>1, <1>2, <1>3 DEF Elements, Once
<1>8. Append(s, e) # <<>> /\ (s # <<>> => Head(Append(s, e)) = Head(s))
  BY <1>1, <1>2, EmptySeq
<1> QED BY <1>1, <1>4, <1>5, <1>6, <1>7, <1>8

LEMMA Taken ==
    ASSUME NEW S, NEW s \in Seq(S), s # <<>>
    PROVE  /\ Head(s) \in S /\ Tail(s) \in Seq(S)
           /\ Elements(s) = Elements(Tail(s)) \cup {Head(s)}
           /\ Distinct(s) => Head(s) \notin Elements(Tail(s)) /\ Distinct(Tail(s))
           /\ Once(s) => /\ Once(Tail(s))
                         /\ \A r \in Elements(Tail(s)) : r.id = Head(s).id => r.id = None
<1>1. /\ Head(s) \in S /\ Tail(s) \in Seq(S) /\ Len(Tail(s)) = Len(s) - 1
      /\ \A i \in 1..Len(Tail(s)) : Tail(s)[i] = s[i + 1]
  BY HeadTailProperties
<1>2. /\ DOMAIN s = 1..Len(s) /\ Len(s) \in Nat /\ Len(s) > 0
      /\ DOMAIN Tail(s) = 1..(Len(s) - 1)
  BY <1>1, LenProperties, EmptySeq
<1>3. Head(s) = s[1]
  OBVIOUS
<1>4. \A i \in 1..Len(s) : i = 1 \/ (i - 1 \in 1..(Len(s) - 1) /\ Tail(s)[i - 1] = s[i])
  BY <1>1, <1>2
<1>5. Elements(Tail(s)) \cup {Head(s)} \subseteq Elements(s)
  BY <1>1, <1>2, <1>3 DEF Elements
<1>6. Elements(s) \subseteq Elements(Tail(s)) \cup {Head(s)}
  BY <1>2, <1>3, <1>4 DEF Elements
<1>7. Distinct(s) => Head(s) \notin Elements(Tail(s)) /\ Distinct(Tail(s))
  BY <1>1, <1>2, <1>3 DEF Distinct, Elements
<1>8. Once(s) => Once(Tail(s))
  BY <1>1, <1>2 DEF Once
<1>9. Once(s) => \A r \in Elements(Tail(s)) : r.id = Head(s).id => r.id = None
  BY <1>1, <1>2, <1>3 DEF Once, Elements
<1> QED BY <1>1, <1>5, <1>6, <1>7, <1>8, <1>9

LEMMA Nothing == Elements(<<>>) = {} /\ Distinct(<<>>) /\ Once(<<>>)
BY DEF Elements, Distinct, Once

\* The elements of the queues have their types.
LEMMA Contents ==
    ASSUME TypeOK, NEW n \in Conns
    PROVE  /\ Elements(queued[n]) \subseteq Calls /\ Elements(wire[n]) \subseteq Calls
           /\ Elements(answers[n]) \subseteq Messages
<1>1. ASSUME NEW S, NEW s \in Seq(S) PROVE Elements(s) \subseteq S
  BY LenProperties, ElementOfSeq DEF Elements
<1> QED BY <1>1 DEF TypeOK

-----------------------------------------------------------------------------
(* One lemma for each action.                                              *)

LEMMA InitIInv == Init => IInv
<1> SUFFICES ASSUME Init PROVE IInv
  OBVIOUS
<1>1. TypeInv
  <2>1. <<>> \in Seq(Calls) /\ <<>> \in Seq(Messages) /\ <<>> \in Seq(Kinds)
    BY EmptySeq
  <2>2. TypeOK
    BY <2>1 DEF Init, TypeOK, Actors, UserStages, LoopStages, Modes
  <2>3. ThreadInv
    BY DEF Init, ThreadInv, Actors
  <2> QED BY <2>2, <2>3 DEF TypeInv
<1>2. Recorded /\ SendersOK /\ QueuesOK /\ AnswersOK
  BY Nothing DEF Init, Recorded, SendersOK, QueuesOK, AnswersOK
<1>3. HandledOK /\ PendingInTransit /\ ShutdownForCause
  BY CallAssumption DEF Init, HandledOK, PendingInTransit, ShutdownForCause
<1>4. ServiceOK
  BY DEF Init, ServiceOK
<1> QED BY <1>1, <1>2, <1>3, <1>4 DEF IInv, CallsOK

\* A step that moves no call: Return, a callback's return, the application's.
LEMMA CallsRest ==
    ASSUME CallsOK, TypeOK,
           UNCHANGED <<requests, conn, handling, queued, wire, answers, open, shutting,
                       executed, outcome>>,
           \A a \in Actors : stage[a] = "send" <=> stage'[a] = "send",
           \A a \in Actors : stage[a] = "send" => making'[a] = making[a],
           \A n \in Conns : stage[n] = "deliver" <=> stage'[n] = "deliver"
    PROVE  CallsOK'
<1>1. Recorded' /\ QueuesOK' /\ AnswersOK' /\ ShutdownForCause'
  BY DEF CallsOK, Recorded, QueuesOK, AnswersOK, ShutdownForCause
<1>2. SendersOK' /\ HandledOK'
  BY DEF CallsOK, SendersOK, HandledOK, Actors
<1>3. PendingInTransit'
  BY DEF CallsOK, PendingInTransit, InTransit
<1> QED BY <1>1, <1>2, <1>3 DEF CallsOK

LEMMA ReturnKeepsIInv == ASSUME IInv, NEW a \in Actors, Return(a) PROVE IInv'
<1>1. /\ stage[a] = "wait" /\ stage' = [stage EXCEPT ![a] = AfterCall(a)]
      /\ making' = [making EXCEPT ![a] = None]
      /\ UNCHANGED <<requests, mode, conn, handling, queued, wire, answers, open,
                     shutting, executed, outcome, service, services, serving>>
  BY DEF Return, callVars, serverVars
<1>2. AfterCall(a) = IF a \in Threads THEN "free" ELSE "callback"
  BY DEF AfterCall
<1>3. TypeOK /\ ThreadInv /\ CallsOK /\ ServiceOK
  BY DEF IInv, TypeInv
<1>4. TypeOK'
  BY <1>1, <1>2, <1>3 DEF TypeOK, UserStages, LoopStages, Actors
<1>5. ThreadInv'
  BY <1>1, <1>2, <1>3, CallAssumption DEF ThreadInv, TypeOK, Actors
<1>6. CallsOK'
  BY <1>1, <1>2, <1>3, CallsRest DEF TypeOK, Actors
<1> QED BY <1>1, <1>3, <1>4, <1>5, <1>6 DEF IInv, TypeInv, ServiceOK

LEMMA CallbackReturnsKeepsIInv ==
    ASSUME IInv, NEW n \in Conns, CallbackReturns(n) PROVE IInv'
<1>1. /\ stage[n] = "callback" /\ stage' = [stage EXCEPT ![n] = "remove"]
      /\ UNCHANGED <<requests, mode, conn, making, handling, queued, wire, answers, open,
                     shutting, executed, outcome, service, services, serving>>
  BY DEF CallbackReturns, callVars, serverVars
<1>2. TypeOK /\ ThreadInv /\ CallsOK /\ ServiceOK
  BY DEF IInv, TypeInv
<1>3. TypeOK'
  BY <1>1, <1>2, CallAssumption DEF TypeOK, LoopStages, Actors
<1>4. ThreadInv'
  BY <1>1, <1>2 DEF ThreadInv, TypeOK, Actors
<1>5. CallsOK'
  BY <1>1, <1>2, CallsRest DEF TypeOK, Actors
<1> QED BY <1>1, <1>2, <1>3, <1>4, <1>5 DEF IInv, TypeInv, ServiceOK

LEMMA ApplicationKeepsIInv == ASSUME IInv, ApplicationStep PROVE IInv'
<1>1. UNCHANGED <<requests, mode, conn, stage, making, handling, queued, wire, answers,
                  open, shutting, executed, outcome>>
  BY DEF ApplicationStep, callVars
<1>2. TypeOK /\ ThreadInv /\ CallsOK /\ ServiceOK
  BY DEF IInv, TypeInv
<1>3. /\ service' \in {"none", "announced", "local", "done"}
      /\ services' \in BOOLEAN /\ serving' \in BOOLEAN
      /\ ServiceOK'
  BY <1>2 DEF ApplicationStep, Announce, Insert, Start, Entered, TypeOK, ServiceOK
<1>4. TypeOK' /\ ThreadInv'
  BY <1>1, <1>2, <1>3 DEF TypeOK, ThreadInv
<1>5. CallsOK'
  BY <1>1, <1>2, CallsRest
<1> QED BY <1>3, <1>4, <1>5 DEF IInv, TypeInv

LEMMA NewRequestKeepsIInv ==
    ASSUME IInv, NEW a \in Actors, NEW c \in Calls, NEW m \in Modes, NEW n \in Conns,
           NewRequest(a, c, m, n)
    PROVE  IInv'
<1>1. /\ conn[c] = None /\ requests' = requests \cup {c}
      /\ mode' = [mode EXCEPT ![c] = m] /\ conn' = [conn EXCEPT ![c] = n]
      /\ stage' = [stage EXCEPT ![a] = "send"] /\ making' = [making EXCEPT ![a] = c]
      /\ UNCHANGED <<handling, queued, wire, answers, open, shutting, executed, outcome,
                     service, services, serving>>
  BY DEF NewRequest, Registered, serverVars
<1>2. \/ a \in Threads /\ stage[a] = "free"
      \/ a \in Conns /\ stage[a] = "callback"
  BY DEF NewRequest, MayMake
<1>3. TypeOK /\ ThreadInv /\ CallsOK /\ ServiceOK /\ None \notin Conns
  BY CallAssumption DEF IInv, TypeInv
<1>4. /\ \A b \in Actors : b # a => stage'[b] = stage[b] /\ making'[b] = making[b]
      /\ stage'[a] = "send" /\ making'[a] = c
      /\ \A d \in Calls : d # c => conn'[d] = conn[d]
      /\ conn'[c] = n
  BY <1>1, <1>3 DEF TypeOK
<1>5. TypeOK'
  <2>1. /\ requests' \in SUBSET Calls /\ mode' \in [Calls -> Modes]
        /\ conn' \in [Calls -> Conns \cup {None}] /\ making' \in [Actors -> Calls \cup {None}]
    BY <1>1, <1>3 DEF TypeOK
  <2>2. /\ stage' \in [Actors -> UserStages \cup LoopStages]
        /\ \A t \in Threads : stage'[t] \in UserStages
    BY <1>1, <1>3 DEF TypeOK, UserStages, Actors
  <2> QED BY <1>1, <1>3, <2>1, <2>2 DEF TypeOK
<1>6. ThreadInv'
  BY <1>1, <1>2, <1>3, <1>4, CallAssumption DEF ThreadInv, Actors
<1>7. Recorded'
  <2>1. outcome[c] = <<>> /\ executed[c] = <<>>
    BY <1>1, <1>3 DEF CallsOK, Recorded
  <2> QED BY <1>1, <1>3, <1>4, <2>1 DEF CallsOK, Recorded
<1>8. \A l \in Conns : c \notin Elements(queued[l]) /\ c \notin Elements(wire[l])
  BY <1>1, <1>3 DEF CallsOK, QueuesOK
<1>9. SendersOK'
  <2>1. \A b \in Actors : stage[b] = "send" => making[b] # c
    BY <1>1, <1>3 DEF CallsOK, SendersOK
  <2>2. executed[c] = <<>>
    BY <1>1, <1>3 DEF CallsOK, Recorded
  <2> QED BY <1>1, <1>2, <1>3, <1>4, <1>8, <2>1, <2>2 DEF CallsOK, SendersOK
<1>10. QueuesOK'
  <2>1. \A l \in Conns : Elements(queued[l]) \subseteq Calls /\ Elements(wire[l]) \subseteq Calls
    BY <1>3, Contents
  <2> QED BY <1>1, <1>3, <1>4, <1>8, <2>1 DEF CallsOK, QueuesOK
<1>11. AnswersOK'
  <2> SUFFICES ASSUME NEW l \in Conns, NEW r \in Elements(answers[l])
               PROVE  /\ r.id # None => /\ r.id \in requests' /\ conn'[r.id] = l
                                        /\ executed[r.id] = <<r.kind>> /\ outcome[r.id] = <<>>
                      /\ r.id = None => \E d \in IllFormed : conn'[d] = l
    BY <1>1, <1>3 DEF CallsOK, AnswersOK
  <2>1. r \in Messages /\ r.id \in Calls \cup {None}
    BY <1>3, Contents DEF Messages
  <2>2. r.id # c
    BY <1>1, <1>3, CallAssumption DEF CallsOK, AnswersOK
  <2>3. ASSUME NEW d \in IllFormed, conn[d] = l PROVE conn'[d] = l
    BY <1>1, <1>3, <1>4, <2>3, CallAssumption
  <2> QED BY <1>1, <1>3, <1>4, <2>1, <2>2, <2>3 DEF CallsOK, AnswersOK
<1>12. HandledOK'
  <2> SUFFICES ASSUME NEW l \in Conns, NEW d \in Calls, handling[l] = d
               PROVE  /\ d \in requests' /\ conn'[d] = l
                      /\ stage'[l] = "deliver" => stage[l] = "deliver"
                      /\ stage'[l] # "deliver" => stage[l] # "deliver"
    BY <1>1, <1>3 DEF CallsOK, HandledOK
  <2>1. d # c
    BY <1>1, <1>3 DEF CallsOK, HandledOK
  <2> QED BY <1>1, <1>2, <1>3, <1>4, <2>1, CallAssumption DEF CallsOK, HandledOK, Actors
<1>13. PendingInTransit'
  <2> SUFFICES ASSUME NEW d \in requests'
               PROVE  InTransit(d)' \/ ~open[conn'[d]] \/ shutting[conn'[d]]
    BY <1>1 DEF PendingInTransit
  <2>1. CASE d = c
    BY <1>4, <2>1 DEF InTransit
  <2>2. CASE d # c
    <3>1. d \in requests /\ d \in Calls /\ conn'[d] = conn[d]
      BY <1>1, <1>3, <1>4, <2>2 DEF TypeOK
    <3>2. ASSUME NEW b \in Actors, stage[b] = "send", making[b] = d
          PROVE  stage'[b] = "send" /\ making'[b] = d
      BY <1>2, <1>4, <3>2
    <3>3. InTransit(d) => InTransit(d)'
      BY <1>1, <3>2 DEF InTransit
    <3> QED BY <1>3, <3>1, <3>3 DEF CallsOK, PendingInTransit
  <2> QED BY <2>1, <2>2
<1>14. ShutdownForCause'
  <2> SUFFICES ASSUME NEW l \in Conns, shutting[l]
               PROVE  \E d \in Calls : conn'[d] = l /\ (d \in IllFormed \/ executed[d] = <<"null">>)
    BY <1>1 DEF ShutdownForCause
  <2>1. PICK d \in Calls : conn[d] = l /\ (d \in IllFormed \/ executed[d] = <<"null">>)
    BY <1>3 DEF CallsOK, ShutdownForCause
  <2> QED BY <1>1, <1>3, <1>4, <2>1
<1> QED BY <1>1, <1>3, <1>5, <1>6, <1>7, <1>9, <1>10, <1>11, <1>12, <1>13, <1>14
        DEF IInv, TypeInv, CallsOK, ServiceOK

\* A request that joins the wire of a connection, coming from its sender.
LEMMA SendKeepsIInv == ASSUME IInv, NEW a \in Actors, Send(a) PROVE IInv'
<1> DEFINE c == making[a]
           n == conn[c]
<1>1. TypeOK /\ ThreadInv /\ CallsOK /\ ServiceOK
  BY DEF IInv, TypeInv
<1>2. /\ stage[a] = "send" /\ c \in Calls /\ n \in Conns
      /\ executed[c] = <<>>
      /\ \A l \in Conns : c \notin Elements(queued[l]) /\ c \notin Elements(wire[l])
      /\ \A b \in Actors : stage[b] = "send" /\ making[b] = c => a = b
  <2>1. stage[a] = "send" /\ c \in Calls
    BY <1>1 DEF Send, TypeOK, ThreadInv
  <2> QED BY <1>1, <2>1 DEF CallsOK, SendersOK, TypeOK
<1>3. PICK s \in {"wait", "free", "callback"}, x \in {c, None} :
        /\ stage' = [stage EXCEPT ![a] = s] /\ making' = [making EXCEPT ![a] = x]
        /\ s = "wait" => x = c
        /\ s # "wait" => x = None
        /\ s = "free" => a \in Threads
        /\ s = "callback" => a \in Conns
  BY DEF Send, AfterSend, AfterCall, Actors
<1>4. UNCHANGED <<requests, mode, conn, handling, answers, open, shutting, executed, outcome,
                  service, services, serving>>
  BY DEF Send, callVars, serverVars
<1>5. \/ /\ wire' = [wire EXCEPT ![n] = IF open[n] THEN Append(@, c) ELSE @]
         /\ UNCHANGED queued
      \/ /\ queued' = [queued EXCEPT ![n] = Append(@, c)]
         /\ UNCHANGED wire
  BY DEF Send, OnWire
<1> HIDE DEF c, n
<1>6. /\ queued' \in [Conns -> Seq(Calls)] /\ wire' \in [Conns -> Seq(Calls)]
      /\ \A l \in Conns :
            /\ Elements(queued[l]) \subseteq Elements(queued'[l])
            /\ Elements(wire[l]) \subseteq Elements(wire'[l])
            /\ Elements(queued'[l]) \subseteq Elements(queued[l]) \cup {c}
            /\ Elements(wire'[l]) \subseteq Elements(wire[l]) \cup {c}
            /\ l # n => queued'[l] = queued[l] /\ wire'[l] = wire[l]
            /\ Distinct(queued'[l]) /\ Distinct(wire'[l])
            /\ queued'[l] = queued[l] \/ wire'[l] = wire[l]
      /\ ~open[n] \/ c \in Elements(queued'[n]) \/ c \in Elements(wire'[n])
  <2>1. \A l \in Conns : /\ queued[l] \in Seq(Calls) /\ wire[l] \in Seq(Calls)
                         /\ Distinct(queued[l]) /\ Distinct(wire[l])
    BY <1>1 DEF TypeOK, CallsOK, QueuesOK
  <2>2. CASE /\ wire' = [wire EXCEPT ![n] = IF open[n] THEN Append(@, c) ELSE @]
             /\ UNCHANGED queued
    <3>1. \A l \in Conns : wire'[l] = IF l = n /\ open[n] THEN Append(wire[l], c) ELSE wire[l]
      BY <1>1, <1>2, <2>2 DEF TypeOK
    <3>2. /\ Append(wire[n], c) \in Seq(Calls) /\ Distinct(Append(wire[n], c))
          /\ Elements(Append(wire[n], c)) = Elements(wire[n]) \cup {c}
      BY <1>2, <2>1, Appended
    <3>3. wire' \in [Conns -> Seq(Calls)]
      BY <1>1, <1>2, <2>2, <3>2 DEF TypeOK
    <3> QED BY <1>1, <1>2, <2>1, <2>2, <3>1, <3>2, <3>3 DEF TypeOK
  <2>3. CASE /\ queued' = [queued EXCEPT ![n] = Append(@, c)]
             /\ UNCHANGED wire
    <3>1. \A l \in Conns : queued'[l] = IF l = n THEN Append(queued[l], c) ELSE queued[l]
      BY <1>1, <1>2, <2>3 DEF TypeOK
    <3>2. /\ Append(queued[n], c) \in Seq(Calls) /\ Distinct(Append(queued[n], c))
          /\ Elements(Append(queued[n], c)) = Elements(queued[n]) \cup {c}
      BY <1>2, <2>1, Appended
    <3>3. queued' \in [Conns -> Seq(Calls)]
      BY <1>1, <1>2, <2>3, <3>2 DEF TypeOK
    <3> QED BY <1>1, <1>2, <2>1, <2>3, <3>1, <3>2, <3>3 DEF TypeOK
  <2> QED BY <1>5, <2>2, <2>3
<1>7. /\ \A b \in Actors : b # a => stage'[b] = stage[b] /\ making'[b] = making[b]
      /\ stage'[a] = s /\ making'[a] = x
  BY <1>1, <1>3 DEF TypeOK
<1>8. TypeOK'
  <2>1. /\ stage' \in [Actors -> UserStages \cup LoopStages]
        /\ \A t \in Threads : stage'[t] \in UserStages
    BY <1>1, <1>3, CallAssumption DEF TypeOK, UserStages, LoopStages, Actors
  <2>2. making' \in [Actors -> Calls \cup {None}]
    BY <1>1, <1>2, <1>3 DEF TypeOK
  <2> QED BY <1>1, <1>4, <1>6, <2>1, <2>2 DEF TypeOK
<1>9. ThreadInv'
  <2>1. \A b \in Actors : making'[b] # None <=> stage'[b] \in {"send", "wait"}
    BY <1>1, <1>2, <1>3, <1>7, CallAssumption DEF ThreadInv
  <2>2. \A l \in Conns : handling'[l] # None <=> stage'[l] # "free"
    BY <1>1, <1>2, <1>3, <1>4, <1>7, CallAssumption DEF ThreadInv, Actors
  <2> QED BY <2>1, <2>2 DEF ThreadInv
<1>10. Recorded' /\ AnswersOK' /\ ShutdownForCause'
  <2>1. Recorded' /\ ShutdownForCause'
    BY <1>1, <1>4 DEF CallsOK, Recorded, ShutdownForCause
  <2>2. AnswersOK'
    BY <1>1, <1>4 DEF CallsOK, AnswersOK
  <2> QED BY <2>1, <2>2
<1>11. \A b \in Actors : stage'[b] = "send" => b # a /\ stage[b] = "send"
  BY <1>3, <1>7
<1>12. SendersOK'
  <2> SUFFICES ASSUME NEW b \in Actors, NEW d \in Calls, stage'[b] = "send", making'[b] = d
               PROVE  /\ conn[d] # None
                      /\ executed[d] = <<>>
                      /\ \A l \in Conns : d \notin Elements(queued'[l]) /\ d \notin Elements(wire'[l])
                      /\ \A e \in Actors : stage'[e] = "send" /\ making'[e] = d => b = e
    BY <1>4 DEF SendersOK
  <2>1. b # a /\ stage[b] = "send" /\ making[b] = d /\ d # c
    BY <1>2, <1>7, <1>11 DEF c
  <2>2. /\ conn[d] # None /\ executed[d] = <<>>
        /\ \A l \in Conns : d \notin Elements(queued[l]) /\ d \notin Elements(wire[l])
        /\ \A e \in Actors : stage[e] = "send" /\ making[e] = d => b = e
    BY <1>1, <2>1 DEF CallsOK, SendersOK
  <2>3. \A l \in Conns : d \notin Elements(queued'[l]) /\ d \notin Elements(wire'[l])
    BY <1>6, <2>1, <2>2
  <2> QED BY <1>7, <1>11, <2>2, <2>3
<1>13. QueuesOK'
  <2> SUFFICES ASSUME NEW l \in Conns
               PROVE  /\ Distinct(queued'[l]) /\ Distinct(wire'[l])
                      /\ \A d \in Elements(queued'[l]) :
                            conn[d] = l /\ executed[d] = <<>> /\ d \notin Elements(wire'[l])
                      /\ \A d \in Elements(wire'[l]) : conn[d] = l /\ executed[d] = <<>>
    BY <1>4 DEF QueuesOK
  <2>1. /\ \A d \in Elements(queued[l]) :
              conn[d] = l /\ executed[d] = <<>> /\ d \notin Elements(wire[l])
        /\ \A d \in Elements(wire[l]) : conn[d] = l /\ executed[d] = <<>>
    BY <1>1 DEF CallsOK, QueuesOK
  <2>2. CASE l # n
    BY <1>6, <2>1, <2>2
  <2>3. CASE l = n
    <3>1. /\ \A d \in Elements(queued'[l]) : conn[d] = l /\ executed[d] = <<>>
          /\ \A d \in Elements(wire'[l]) : conn[d] = l /\ executed[d] = <<>>
      BY <1>2, <1>6, <2>1, <2>3 DEF n
    <3>2. c \notin Elements(queued[l]) /\ c \notin Elements(wire[l])
      BY <1>2, <2>3
    <3>3. CASE queued'[l] = queued[l]
      BY <1>6, <2>1, <2>3, <3>1, <3>2, <3>3
    <3>4. CASE wire'[l] = wire[l]
      BY <1>6, <2>1, <2>3, <3>1, <3>2, <3>4
    <3> QED BY <1>6, <2>3, <3>3, <3>4
  <2> QED BY <2>2, <2>3
<1>14. HandledOK'
  BY <1>1, <1>2, <1>3, <1>4, <1>7 DEF CallsOK, HandledOK, Actors
<1>15. PendingInTransit'
  <2> SUFFICES ASSUME NEW d \in requests
               PROVE  InTransit(d)' \/ ~open[conn[d]] \/ shutting[conn[d]]
    BY <1>4 DEF PendingInTransit
  <2>1. CASE d = c
    BY <1>2, <1>6, <2>1 DEF InTransit, n
  <2>2. CASE d # c
    <3>1. \A b \in Actors : stage[b] = "send" /\ making[b] = d
            => stage'[b] = "send" /\ making'[b] = d
      BY <1>7, <2>2 DEF c
    <3>2. InTransit(d) => InTransit(d)'
      BY <1>4, <1>6, <3>1 DEF InTransit
    <3> QED BY <1>1, <3>2 DEF CallsOK, PendingInTransit
  <2> QED BY <2>1, <2>2
<1> QED BY <1>1, <1>4, <1>8, <1>9, <1>10, <1>12, <1>13, <1>14, <1>15
        DEF IInv, TypeInv, CallsOK, ServiceOK

LEMMA SendInLoopKeepsIInv == ASSUME IInv, NEW n \in Conns, SendInLoop(n) PROVE IInv'
<1> DEFINE c == Head(queued[n])
<1>1. TypeOK /\ ThreadInv /\ CallsOK /\ ServiceOK
  BY DEF IInv, TypeInv
<1>2. /\ stage[n] = "free" /\ queued[n] # <<>>
      /\ queued' = [queued EXCEPT ![n] = Tail(@)]
      /\ wire' = [wire EXCEPT ![n] = IF open[n] THEN Append(@, c) ELSE @]
      /\ UNCHANGED <<requests, mode, conn, stage, making, handling, answers, open, shutting,
                     executed, outcome, service, services, serving>>
  BY DEF SendInLoop, OnWire, callVars, serverVars
<1>3. /\ c \in Calls /\ conn[c] = n /\ executed[c] = <<>>
      /\ c \notin Elements(wire[n]) /\ c \notin Elements(Tail(queued[n]))
      /\ Tail(queued[n]) \in Seq(Calls) /\ Distinct(Tail(queued[n])) /\ Distinct(wire[n])
      /\ Elements(queued[n]) = Elements(Tail(queued[n])) \cup {c}
  <2>1. queued[n] \in Seq(Calls) /\ Distinct(queued[n]) /\ Distinct(wire[n])
    BY <1>1 DEF TypeOK, CallsOK, QueuesOK
  <2>2. /\ c \in Calls /\ Tail(queued[n]) \in Seq(Calls) /\ Distinct(Tail(queued[n]))
        /\ Elements(queued[n]) = Elements(Tail(queued[n])) \cup {c}
        /\ c \notin Elements(Tail(queued[n]))
    BY <1>2, <2>1, Taken
  <2> QED BY <1>1, <2>1, <2>2 DEF CallsOK, QueuesOK
<1> HIDE DEF c
<1>4. /\ Append(wire[n], c) \in Seq(Calls) /\ Distinct(Append(wire[n], c))
      /\ Elements(Append(wire[n], c)) = Elements(wire[n]) \cup {c}
  <2>1. wire[n] \in Seq(Calls)
    BY <1>1 DEF TypeOK
  <2> QED BY <1>3, <2>1, Appended
<1>5. /\ \A l \in Conns : l # n => queued'[l] = queued[l] /\ wire'[l] = wire[l]
      /\ queued'[n] = Tail(queued[n])
      /\ wire'[n] = IF open[n] THEN Append(wire[n], c) ELSE wire[n]
  BY <1>1, <1>2 DEF TypeOK
<1>6. TypeOK' /\ ThreadInv'
  <2>1. queued' \in [Conns -> Seq(Calls)] /\ wire' \in [Conns -> Seq(Calls)]
    BY <1>1, <1>2, <1>3, <1>4 DEF TypeOK
  <2>2. TypeOK'
    BY <1>1, <1>2, <2>1 DEF TypeOK
  <2>3. ThreadInv'
    BY <1>1, <1>2 DEF ThreadInv
  <2> QED BY <2>2, <2>3
<1>7. Recorded' /\ AnswersOK' /\ ShutdownForCause' /\ HandledOK'
  <2>1. Recorded' /\ ShutdownForCause'
    BY <1>1, <1>2 DEF CallsOK, Recorded, ShutdownForCause
  <2>2. AnswersOK'
    BY <1>1, <1>2 DEF CallsOK, AnswersOK
  <2>3. HandledOK'
    BY <1>1, <1>2 DEF CallsOK, HandledOK
  <2> QED BY <2>1, <2>2, <2>3
<1>8. SendersOK'
  <2> SUFFICES ASSUME NEW d \in Calls, NEW l \in Conns, d \in Elements(queued'[l]) \cup Elements(wire'[l])
               PROVE  d \in Elements(queued[l]) \cup Elements(wire[l])
    BY <1>1, <1>2 DEF CallsOK, SendersOK
  <2> QED BY <1>3, <1>4, <1>5
<1>9. QueuesOK'
  <2> SUFFICES ASSUME NEW l \in Conns
               PROVE  /\ Distinct(queued'[l]) /\ Distinct(wire'[l])
                      /\ \A d \in Elements(queued'[l]) :
                            conn[d] = l /\ executed[d] = <<>> /\ d \notin Elements(wire'[l])
                      /\ \A d \in Elements(wire'[l]) : conn[d] = l /\ executed[d] = <<>>
    BY <1>2 DEF QueuesOK
  <2>1. /\ Distinct(queued[l]) /\ Distinct(wire[l])
        /\ \A d \in Elements(queued[l]) :
              conn[d] = l /\ executed[d] = <<>> /\ d \notin Elements(wire[l])
        /\ \A d \in Elements(wire[l]) : conn[d] = l /\ executed[d] = <<>>
    BY <1>1 DEF CallsOK, QueuesOK
  <2>2. CASE l # n
    BY <1>5, <2>1, <2>2
  <2>3. CASE l = n
    BY <1>3, <1>4, <1>5, <2>1, <2>3
  <2> QED BY <2>2, <2>3
<1>10. PendingInTransit'
  <2> SUFFICES ASSUME NEW d \in requests
               PROVE  InTransit(d)' \/ ~open[conn[d]] \/ shutting[conn[d]]
    BY <1>2 DEF PendingInTransit
  <2>1. CASE d = c
    BY <1>3, <1>4, <1>5, <2>1 DEF InTransit
  <2>2. CASE d # c
    <3>1. \A l \in Conns : d \in Elements(queued[l]) \cup Elements(wire[l])
                            => d \in Elements(queued'[l]) \cup Elements(wire'[l])
      BY <1>3, <1>4, <1>5, <2>2
    <3>2. InTransit(d) => InTransit(d)'
      BY <1>2, <3>1 DEF InTransit
    <3> QED BY <1>1, <3>2 DEF CallsOK, PendingInTransit
  <2> QED BY <2>1, <2>2
<1> QED BY <1>1, <1>2, <1>6, <1>7, <1>8, <1>9, <1>10 DEF IInv, TypeInv, CallsOK, ServiceOK

LEMMA GetRequestKeepsIInv == ASSUME IInv, NEW n \in Conns, GetRequest(n) PROVE IInv'
<1> DEFINE r == Head(answers[n])
<1>1. TypeOK /\ ThreadInv /\ CallsOK /\ ServiceOK
  BY DEF IInv, TypeInv
<1>2. /\ stage[n] = "free" /\ answers[n] # <<>> /\ r.kind \in Reported /\ r.id \in requests
      /\ stage' = [stage EXCEPT ![n] = "deliver"]
      /\ handling' = [handling EXCEPT ![n] = r.id]
      /\ UNCHANGED <<requests, mode, conn, making, queued, wire, answers, open, shutting,
                     executed, outcome, service, services, serving>>
  BY DEF GetRequest, Accepted, Matched, callVars, serverVars
<1>3. r.id \in Calls /\ r.id # None /\ conn[r.id] = n /\ n \in Actors /\ n \notin Threads
  <2>1. answers[n] \in Seq(Messages) /\ r.id \in Calls
    BY <1>1, <1>2 DEF TypeOK
  <2>2. r \in Elements(answers[n])
    BY <1>2, <2>1, Taken
  <2> QED BY <1>1, <2>1, <2>2, CallAssumption DEF CallsOK, AnswersOK, Actors
<1> HIDE DEF r
<1>4. /\ \A b \in Actors : b # n => stage'[b] = stage[b]
      /\ \A l \in Conns : l # n => handling'[l] = handling[l]
      /\ stage'[n] = "deliver" /\ handling'[n] = r.id /\ handling[n] = None
  BY <1>1, <1>2, <1>3 DEF TypeOK, ThreadInv
<1>5. TypeOK'
  BY <1>1, <1>2, <1>3 DEF TypeOK, LoopStages
<1>6. ThreadInv'
  <2>1. \A b \in Actors : making'[b] # None <=> stage'[b] \in {"send", "wait"}
    BY <1>1, <1>2, <1>4 DEF ThreadInv
  <2>2. \A l \in Conns : handling'[l] # None <=> stage'[l] # "free"
    BY <1>1, <1>3, <1>4 DEF ThreadInv, Actors
  <2> QED BY <2>1, <2>2 DEF ThreadInv
<1>7. Recorded' /\ AnswersOK' /\ ShutdownForCause' /\ QueuesOK'
  <2>1. Recorded' /\ ShutdownForCause' /\ QueuesOK'
    BY <1>1, <1>2 DEF CallsOK, Recorded, ShutdownForCause, QueuesOK
  <2>2. AnswersOK'
    BY <1>1, <1>2 DEF CallsOK, AnswersOK
  <2> QED BY <2>1, <2>2
<1>8. SendersOK'
  BY <1>1, <1>2, <1>4 DEF CallsOK, SendersOK
<1>9. HandledOK'
  BY <1>1, <1>2, <1>3, <1>4 DEF CallsOK, HandledOK, r, Actors
<1>10. PendingInTransit'
  <2> SUFFICES ASSUME NEW d \in requests, InTransit(d) PROVE InTransit(d)'
    BY <1>1, <1>2 DEF CallsOK, PendingInTransit
  <2>1. d # None
    BY <1>1, CallAssumption DEF TypeOK
  <2>2. \A l \in Conns : handling[l] = d => handling'[l] = d
    BY <1>4, <2>1
  <2>3. \A b \in Actors : stage[b] = "send" => stage'[b] = "send"
    BY <1>2, <1>4
  <2> QED BY <1>2, <2>2, <2>3 DEF InTransit
<1> QED BY <1>1, <1>2, <1>5, <1>6, <1>7, <1>8, <1>9, <1>10 DEF IInv, TypeInv, CallsOK, ServiceOK

\* A response that is refused has no describe only if it has no identifier.
LEMMA RefuseKeepsIInv == ASSUME IInv, NEW n \in Conns, Refuse(n) PROVE IInv'
<1> DEFINE r == Head(answers[n])
<1>1. TypeOK /\ ThreadInv /\ CallsOK /\ ServiceOK
  BY DEF IInv, TypeInv
<1>2. /\ stage[n] = "free" /\ answers[n] # <<>> /\ ~(r.kind \in Reported /\ r.id \in requests)
      /\ answers' = [answers EXCEPT ![n] = Tail(@)]
      /\ shutting' = [shutting EXCEPT ![n] = TRUE]
      /\ UNCHANGED <<requests, mode, conn, stage, making, handling, queued, wire, open,
                     executed, outcome, service, services, serving>>
  BY DEF Refuse, Accepted, Matched, callVars, serverVars
<1>3. /\ r \in Messages /\ r \in Elements(answers[n])
      /\ Tail(answers[n]) \in Seq(Messages) /\ Once(Tail(answers[n]))
      /\ Elements(answers[n]) = Elements(Tail(answers[n])) \cup {r}
  <2>1. answers[n] \in Seq(Messages) /\ Once(answers[n])
    BY <1>1 DEF TypeOK, CallsOK, AnswersOK
  <2> QED BY <1>2, <2>1, Taken
<1> HIDE DEF r
<1>4. /\ \A l \in Conns : l # n => answers'[l] = answers[l] /\ shutting'[l] = shutting[l]
      /\ answers'[n] = Tail(answers[n]) /\ shutting'[n]
  BY <1>1, <1>2 DEF TypeOK
<1>5. TypeOK' /\ ThreadInv'
  <2>1. answers' \in [Conns -> Seq(Messages)] /\ shutting' \in [Conns -> BOOLEAN]
    BY <1>1, <1>2, <1>3 DEF TypeOK
  <2>2. TypeOK'
    BY <1>1, <1>2, <2>1 DEF TypeOK
  <2>3. ThreadInv'
    BY <1>1, <1>2 DEF ThreadInv
  <2> QED BY <2>2, <2>3
<1>6. Recorded' /\ QueuesOK' /\ SendersOK'
  BY <1>1, <1>2 DEF CallsOK, Recorded, QueuesOK, SendersOK
<1>7. AnswersOK'
  <2>1. \A l \in Conns : Once(answers'[l])
    BY <1>1, <1>3, <1>4 DEF CallsOK, AnswersOK
  <2>2. \A l \in Conns : Elements(answers'[l]) \subseteq Elements(answers[l])
    BY <1>3, <1>4
  <2> QED BY <1>1, <1>2, <2>1, <2>2 DEF CallsOK, AnswersOK
<1>8. HandledOK'
  <2>1. handling[n] = None
    BY <1>1, <1>2 DEF ThreadInv
  <2>2. None \notin Calls
    BY CallAssumption
  <2> QED BY <1>1, <1>2, <1>4, <2>1, <2>2 DEF CallsOK, HandledOK
<1>9. PendingInTransit'
  <2> SUFFICES ASSUME NEW d \in requests
               PROVE  InTransit(d)' \/ ~open[conn[d]] \/ shutting'[conn[d]]
    BY <1>2 DEF PendingInTransit
  <2>1. d \in Calls /\ d # None /\ conn[d] \in Conns
    BY <1>1, CallAssumption DEF TypeOK, CallsOK, Recorded
  <2>2. CASE conn[d] = n
    BY <1>4, <2>2
  <2>3. CASE conn[d] # n
    <3>1. \A l \in Conns : (\E x \in Elements(answers[l]) : x.id = d) => l # n
      BY <1>1, <2>1, <2>3 DEF CallsOK, AnswersOK
    <3>2. InTransit(d) => InTransit(d)'
      BY <1>2, <1>4, <3>1 DEF InTransit
    <3> QED BY <1>1, <1>4, <2>1, <2>3, <3>2 DEF CallsOK, PendingInTransit
  <2> QED BY <2>2, <2>3
<1>10. ShutdownForCause'
  <2>1. \E c \in Calls : conn[c] = n /\ (c \in IllFormed \/ executed[c] = <<"null">>)
    <3>1. CASE r.id = None
      BY <1>1, <1>3, <3>1, CallAssumption DEF CallsOK, AnswersOK
    <3>2. CASE r.id # None
      <4>1. /\ r.id \in requests /\ r.id \in Calls /\ conn[r.id] = n
            /\ executed[r.id] = <<r.kind>>
        BY <1>1, <1>3, <3>2 DEF CallsOK, AnswersOK, TypeOK
      <4>2. r.kind = "null"
        BY <1>2, <1>3, <4>1 DEF Messages, Kinds, Reported
      <4> QED BY <4>1, <4>2
    <3> QED BY <3>1, <3>2
  <2> QED BY <1>1, <1>2, <1>4, <2>1 DEF CallsOK, ShutdownForCause
<1> QED BY <1>1, <1>2, <1>5, <1>6, <1>7, <1>8, <1>9, <1>10 DEF IInv, TypeInv, CallsOK, ServiceOK

LEMMA DeliverKeepsIInv == ASSUME IInv, NEW n \in Conns, Deliver(n) PROVE IInv'
<1> DEFINE r == Head(answers[n])
           c == handling[n]
<1>1. TypeOK /\ ThreadInv /\ CallsOK /\ ServiceOK /\ None \notin Calls
  BY CallAssumption DEF IInv, TypeInv
<1>2. PICK s \in {"callback", "remove"} :
      /\ stage[n] = "deliver"
      /\ outcome' = [outcome EXCEPT ![c] = Append(@, r.kind)]
      /\ answers' = [answers EXCEPT ![n] = Tail(@)]
      /\ stage' = [stage EXCEPT ![n] = s]
      /\ UNCHANGED <<requests, mode, conn, making, handling, queued, wire, open, shutting,
                     executed, service, services, serving>>
  BY DEF Deliver, Recipient, callVars, serverVars
<1>3. /\ c \in Calls /\ c \in requests /\ conn[c] = n
      /\ answers[n] # <<>> /\ r.id = c /\ r.kind \in Reported
  <2>1. c \in Calls
    BY <1>1, <1>2 DEF TypeOK, ThreadInv
  <2> QED BY <1>1, <1>2, <2>1 DEF CallsOK, HandledOK
<1>4. /\ r \in Messages /\ r \in Elements(answers[n])
      /\ Tail(answers[n]) \in Seq(Messages) /\ Once(Tail(answers[n]))
      /\ Elements(answers[n]) = Elements(Tail(answers[n])) \cup {r}
      /\ \A x \in Elements(Tail(answers[n])) : x.id # c
  <2>1. answers[n] \in Seq(Messages) /\ Once(answers[n])
    BY <1>1 DEF TypeOK, CallsOK, AnswersOK
  <2>2. /\ r \in Messages /\ r \in Elements(answers[n])
        /\ Tail(answers[n]) \in Seq(Messages) /\ Once(Tail(answers[n]))
        /\ Elements(answers[n]) = Elements(Tail(answers[n])) \cup {r}
        /\ \A x \in Elements(Tail(answers[n])) : x.id = r.id => x.id = None
    BY <1>3, <2>1, Taken
  <2> QED BY <1>1, <1>3, <2>2
<1> HIDE DEF r, c
<1>5. executed[c] = <<r.kind>> /\ outcome[c] = <<>>
  <2>1. r.id # None
    BY <1>1, <1>3
  <2>2. executed[r.id] = <<r.kind>> /\ outcome[r.id] = <<>>
    BY <1>1, <1>4, <2>1 DEF CallsOK, AnswersOK
  <2> QED BY <1>3, <2>2
<1>6. /\ \A l \in Conns : l # n => answers'[l] = answers[l]
      /\ answers'[n] = Tail(answers[n])
      /\ \A b \in Actors : b # n => stage'[b] = stage[b]
      /\ stage'[n] = s
      /\ \A d \in Calls : d # c => outcome'[d] = outcome[d]
      /\ outcome'[c] = <<r.kind>>
  BY <1>1, <1>2, <1>3, <1>5 DEF TypeOK, Actors
<1>7. TypeOK'
  <2>1. answers' \in [Conns -> Seq(Messages)]
    BY <1>1, <1>2, <1>4 DEF TypeOK
  <2>2. outcome' \in [Calls -> Seq(Kinds)]
    <3>1. <<r.kind>> \in Seq(Kinds)
      BY <1>4 DEF Messages
    <3>2. outcome' = [outcome EXCEPT ![c] = <<r.kind>>]
      BY <1>1, <1>2, <1>3, <1>5 DEF TypeOK
    <3> QED BY <1>1, <3>1, <3>2 DEF TypeOK
  <2>3. /\ stage' \in [Actors -> UserStages \cup LoopStages]
        /\ \A t \in Threads : stage'[t] \in UserStages
    BY <1>1, <1>2, CallAssumption DEF TypeOK, LoopStages, Actors
  <2> QED BY <1>1, <1>2, <2>1, <2>2, <2>3 DEF TypeOK
<1>8. ThreadInv'
  <2>1. \A b \in Actors : making'[b] # None <=> stage'[b] \in {"send", "wait"}
    BY <1>1, <1>2, <1>6 DEF ThreadInv
  <2>2. \A l \in Conns : handling'[l] # None <=> stage'[l] # "free"
    BY <1>1, <1>2, <1>6 DEF ThreadInv, Actors
  <2> QED BY <2>1, <2>2 DEF ThreadInv
<1>9. Recorded'
  BY <1>1, <1>2, <1>3, <1>5, <1>6 DEF CallsOK, Recorded
<1>10. QueuesOK' /\ ShutdownForCause'
  BY <1>1, <1>2 DEF CallsOK, QueuesOK, ShutdownForCause
<1>11. SendersOK'
  BY <1>1, <1>2, <1>6 DEF CallsOK, SendersOK
<1>12. AnswersOK'
  <2> SUFFICES ASSUME NEW l \in Conns
               PROVE  /\ Once(answers'[l])
                      /\ \A x \in Elements(answers'[l]) :
                            x \in Elements(answers[l]) /\ (x.id # None => outcome'[x.id] = outcome[x.id])
    BY <1>1, <1>2 DEF CallsOK, AnswersOK
  <2>1. \A x \in Elements(answers[l]) : x.id \in Calls \cup {None}
    BY <1>1, Contents DEF Messages
  <2>2. CASE l = n
    BY <1>4, <1>6, <2>1, <2>2
  <2>3. CASE l # n
    <3>1. \A x \in Elements(answers[l]) : x.id # c
      BY <1>1, <1>3, <2>3 DEF CallsOK, AnswersOK
    <3> QED BY <1>1, <1>6, <2>1, <2>3, <3>1 DEF CallsOK, AnswersOK
  <2> QED BY <2>2, <2>3
<1>13. HandledOK'
  BY <1>1, <1>2, <1>3, <1>6 DEF CallsOK, HandledOK, Actors, c
<1>14. PendingInTransit'
  <2> SUFFICES ASSUME NEW d \in requests, InTransit(d) PROVE InTransit(d)'
    BY <1>1, <1>2 DEF CallsOK, PendingInTransit
  <2>1. CASE d = c
    BY <1>2, <2>1 DEF InTransit, c
  <2>2. CASE d # c
    <3>1. ASSUME NEW l \in Conns, NEW x \in Elements(answers[l]), x.id = d
          PROVE  x \in Elements(answers'[l])
      BY <1>3, <1>4, <1>6, <2>2, <3>1
    <3>2. \A b \in Actors : stage[b] = "send" => stage'[b] = "send"
      BY <1>2, <1>6
    <3> QED BY <1>2, <3>1, <3>2 DEF InTransit
  <2> QED BY <2>1, <2>2
<1> QED BY <1>1, <1>2, <1>7, <1>8, <1>9, <1>10, <1>11, <1>12, <1>13, <1>14
        DEF IInv, TypeInv, CallsOK, ServiceOK

\* What was answered is removed, and nothing else.
LEMMA RemoveRequestKeepsIInv == ASSUME IInv, NEW n \in Conns, RemoveRequest(n) PROVE IInv'
<1> DEFINE c == handling[n]
<1>1. TypeOK /\ ThreadInv /\ CallsOK /\ ServiceOK /\ None \notin Calls
  BY CallAssumption DEF IInv, TypeInv
<1>2. /\ stage[n] = "remove" /\ requests' = requests \ {c}
      /\ stage' = [stage EXCEPT ![n] = "free"]
      /\ handling' = [handling EXCEPT ![n] = None]
      /\ UNCHANGED <<mode, conn, making, queued, wire, answers, open, shutting,
                     executed, outcome, service, services, serving>>
  BY DEF RemoveRequest, Remaining, callVars, serverVars
<1>3. c \in Calls /\ c \in requests /\ conn[c] = n /\ outcome[c] # <<>>
  <2>1. c \in Calls
    BY <1>1, <1>2 DEF TypeOK, ThreadInv
  <2> QED BY <1>1, <1>2, <2>1 DEF CallsOK, HandledOK
<1> HIDE DEF c
<1>4. /\ \A l \in Conns : l # n => handling'[l] = handling[l]
      /\ \A b \in Actors : b # n => stage'[b] = stage[b]
      /\ stage'[n] = "free" /\ handling'[n] = None
  BY <1>1, <1>2 DEF TypeOK, Actors
<1>5. TypeOK'
  BY <1>1, <1>2, CallAssumption DEF TypeOK, LoopStages, UserStages, Actors
<1>6. ThreadInv'
  <2>1. \A b \in Actors : making'[b] # None <=> stage'[b] \in {"send", "wait"}
    BY <1>1, <1>2, <1>4 DEF ThreadInv
  <2>2. \A l \in Conns : handling'[l] # None <=> stage'[l] # "free"
    BY <1>1, <1>2, <1>4 DEF ThreadInv, Actors
  <2> QED BY <2>1, <2>2 DEF ThreadInv
<1>7. Recorded'
  BY <1>1, <1>2, <1>3 DEF CallsOK, Recorded
<1>8. QueuesOK' /\ ShutdownForCause'
  BY <1>1, <1>2 DEF CallsOK, QueuesOK, ShutdownForCause
<1>9. SendersOK'
  BY <1>1, <1>2, <1>4 DEF CallsOK, SendersOK
<1>10. AnswersOK'
  <2>1. \A l \in Conns : \A r \in Elements(answers[l]) : r.id # c
    BY <1>1, <1>3 DEF CallsOK, AnswersOK
  <2> QED BY <1>1, <1>2, <2>1 DEF CallsOK, AnswersOK
<1>11. HandledOK'
  <2> SUFFICES ASSUME NEW l \in Conns, NEW d \in Calls, handling'[l] = d
               PROVE  l # n /\ handling[l] = d /\ d # c
    BY <1>1, <1>2, <1>4 DEF CallsOK, HandledOK, Actors
  <2> QED BY <1>1, <1>3, <1>4 DEF CallsOK, HandledOK
<1>12. PendingInTransit'
  <2> SUFFICES ASSUME NEW d \in requests, d # c, InTransit(d) PROVE InTransit(d)'
    BY <1>1, <1>2 DEF CallsOK, PendingInTransit
  <2>1. \A l \in Conns : handling[l] = d => handling'[l] = d
    BY <1>4 DEF c
  <2>2. \A b \in Actors : stage[b] = "send" => stage'[b] = "send"
    BY <1>2, <1>4
  <2> QED BY <1>2, <2>1, <2>2 DEF InTransit
<1> QED BY <1>1, <1>2, <1>5, <1>6, <1>7, <1>8, <1>9, <1>10, <1>11, <1>12
        DEF IInv, TypeInv, CallsOK, ServiceOK

LEMMA ReleaseKeepsIInv == ASSUME IInv, NEW n \in Conns, Release(n) PROVE IInv'
<1>1. TypeOK /\ ThreadInv /\ CallsOK /\ ServiceOK /\ None \notin Calls
  BY CallAssumption DEF IInv, TypeInv
<1>2. /\ stage[n] = "free"
      /\ open' = [open EXCEPT ![n] = FALSE]
      /\ answers' = [answers EXCEPT ![n] = <<>>]
      /\ UNCHANGED <<requests, mode, conn, stage, making, handling, queued, wire, shutting,
                     executed, outcome, service, services, serving>>
  BY DEF Release, callVars, serverVars
<1>3. /\ \A l \in Conns : l # n => answers'[l] = answers[l] /\ open'[l] = open[l]
      /\ answers'[n] = <<>> /\ ~open'[n]
  BY <1>1, <1>2 DEF TypeOK
<1>4. TypeOK' /\ ThreadInv'
  <2>1. answers' \in [Conns -> Seq(Messages)] /\ open' \in [Conns -> BOOLEAN]
    BY <1>1, <1>2, EmptySeq DEF TypeOK
  <2>2. TypeOK'
    BY <1>1, <1>2, <2>1 DEF TypeOK
  <2>3. ThreadInv'
    BY <1>1, <1>2 DEF ThreadInv
  <2> QED BY <2>2, <2>3
<1>5. Recorded' /\ QueuesOK' /\ SendersOK' /\ ShutdownForCause'
  BY <1>1, <1>2 DEF CallsOK, Recorded, QueuesOK, SendersOK, ShutdownForCause
<1>6. AnswersOK'
  <2>1. \A l \in Conns : Once(answers'[l]) /\ Elements(answers'[l]) \subseteq Elements(answers[l])
    BY <1>1, <1>3, Nothing DEF CallsOK, AnswersOK
  <2> QED BY <1>1, <1>2, <2>1 DEF CallsOK, AnswersOK
<1>7. HandledOK'
  <2>1. handling[n] = None
    BY <1>1, <1>2 DEF ThreadInv
  <2> QED BY <1>1, <1>2, <1>3, <2>1 DEF CallsOK, HandledOK
<1>8. PendingInTransit'
  <2> SUFFICES ASSUME NEW d \in requests
               PROVE  InTransit(d)' \/ ~open'[conn[d]] \/ shutting[conn[d]]
    BY <1>2 DEF PendingInTransit
  <2>1. d \in Calls /\ d # None /\ conn[d] \in Conns
    BY <1>1 DEF TypeOK, CallsOK, Recorded
  <2>2. CASE conn[d] = n
    BY <1>3, <2>2
  <2>3. CASE conn[d] # n
    <3>1. \A l \in Conns : (\E x \in Elements(answers[l]) : x.id = d) => l # n
      BY <1>1, <2>1, <2>3 DEF CallsOK, AnswersOK
    <3>2. InTransit(d) => InTransit(d)'
      BY <1>2, <1>3, <3>1 DEF InTransit
    <3> QED BY <1>1, <1>3, <2>1, <2>3, <3>2 DEF CallsOK, PendingInTransit
  <2> QED BY <2>2, <2>3
<1> QED BY <1>1, <1>2, <1>4, <1>5, <1>6, <1>7, <1>8 DEF IInv, TypeInv, CallsOK, ServiceOK

\* The router's answer, and what it leaves behind.
LEMMA AnswerIsKind == ASSUME NEW param, NEW result PROVE Answer(param, result) \in Kinds
BY DEF Answer, Kinds

LEMMA OnRpcRequestKeepsIInv ==
    ASSUME IInv, NEW n \in Conns, NEW param, NEW result, OnRpcRequest(n, param, result)
    PROVE  IInv'
<1> DEFINE c == Head(wire[n])
           k == Answer(param, result)
           r == [id |-> IF WellFormed(c) THEN c ELSE None, kind |-> k]
<1>1. TypeOK /\ ThreadInv /\ CallsOK /\ ServiceOK /\ None \notin Calls
  BY CallAssumption DEF IInv, TypeInv
<1>2. /\ wire[n] # <<>> /\ wire' = [wire EXCEPT ![n] = Tail(@)]
      /\ executed' = [executed EXCEPT ![c] = Append(@, k)]
      /\ answers' = IF open[n] THEN [answers EXCEPT ![n] = Append(@, r)] ELSE answers
      /\ shutting' = [shutting EXCEPT ![n] = @ \/ ~WellFormed(c)]
      /\ UNCHANGED <<requests, mode, conn, stage, making, handling, queued, open,
                     outcome, service, services, serving>>
  BY DEF OnRpcRequest, callVars, serverVars
<1>3. /\ c \in Calls /\ conn[c] = n /\ executed[c] = <<>> /\ c \in Elements(wire[n])
      /\ Tail(wire[n]) \in Seq(Calls) /\ Distinct(Tail(wire[n]))
      /\ Elements(wire[n]) = Elements(Tail(wire[n])) \cup {c}
      /\ c \notin Elements(Tail(wire[n]))
  <2>1. wire[n] \in Seq(Calls) /\ Distinct(wire[n])
    BY <1>1 DEF TypeOK, CallsOK, QueuesOK
  <2>2. /\ c \in Calls /\ Tail(wire[n]) \in Seq(Calls) /\ Distinct(Tail(wire[n]))
        /\ Elements(wire[n]) = Elements(Tail(wire[n])) \cup {c}
        /\ c \notin Elements(Tail(wire[n]))
    BY <1>2, <2>1, Taken
  <2> QED BY <1>1, <2>1, <2>2 DEF CallsOK, QueuesOK
<1>4. /\ k \in Kinds /\ r \in Messages /\ r.kind = k
      /\ c \notin IllFormed => r.id = c
      /\ c \in IllFormed => r.id = None
  BY <1>3, AnswerIsKind DEF Messages, WellFormed
<1>5. c \in requests /\ outcome[c] = <<>>
  BY <1>1, <1>3, CallAssumption DEF CallsOK, Recorded
<1> HIDE DEF c, k, r
<1>6. \A l \in Conns : \A x \in Elements(answers[l]) : x.id # c
  <2> SUFFICES ASSUME NEW l \in Conns, NEW x \in Elements(answers[l]), x.id # None
               PROVE  executed[x.id] # <<>>
    BY <1>1, <1>3
  <2>1. executed[x.id] = <<x.kind>>
    BY <1>1 DEF CallsOK, AnswersOK
  <2> QED BY <2>1
<1>7. /\ \A l \in Conns : l # n => wire'[l] = wire[l] /\ answers'[l] = answers[l]
                                   /\ shutting'[l] = shutting[l]
      /\ wire'[n] = Tail(wire[n])
      /\ answers'[n] = IF open[n] THEN Append(answers[n], r) ELSE answers[n]
      /\ shutting'[n] <=> shutting[n] \/ c \in IllFormed
      /\ \A d \in Calls : d # c => executed'[d] = executed[d]
      /\ executed'[c] = <<k>>
  <2>1. /\ \A l \in Conns : l # n => wire'[l] = wire[l] /\ answers'[l] = answers[l]
                                     /\ shutting'[l] = shutting[l]
        /\ wire'[n] = Tail(wire[n])
        /\ answers'[n] = IF open[n] THEN Append(answers[n], r) ELSE answers[n]
    BY <1>1, <1>2 DEF TypeOK
  <2>2. shutting'[n] <=> shutting[n] \/ c \in IllFormed
    BY <1>1, <1>2 DEF TypeOK, WellFormed
  <2>3. executed'[c] = Append(executed[c], k) /\ \A d \in Calls : d # c => executed'[d] = executed[d]
    BY <1>1, <1>2, <1>3 DEF TypeOK
  <2>4. executed'[c] = <<k>>
    BY <1>3, <2>3
  <2> QED BY <2>1, <2>2, <2>3, <2>4
<1>8. /\ Append(answers[n], r) \in Seq(Messages) /\ Once(Append(answers[n], r))
      /\ Elements(Append(answers[n], r)) = Elements(answers[n]) \cup {r}
      /\ Append(answers[n], r) # <<>>
      /\ answers[n] # <<>> => Head(Append(answers[n], r)) = Head(answers[n])
  <2>1. answers[n] \in Seq(Messages) /\ Once(answers[n])
    BY <1>1 DEF TypeOK, CallsOK, AnswersOK
  <2>2. r.id = None \/ \A x \in Elements(answers[n]) : x.id # r.id
    BY <1>4, <1>6
  <2> QED BY <1>4, <2>1, <2>2, Appended
<1>9. TypeOK' /\ ThreadInv'
  <2>1. /\ wire' \in [Conns -> Seq(Calls)] /\ answers' \in [Conns -> Seq(Messages)]
    BY <1>1, <1>2, <1>3, <1>8 DEF TypeOK
  <2>2. executed' \in [Calls -> Seq(Kinds)]
    <3>1. executed' = [executed EXCEPT ![c] = <<k>>] /\ <<k>> \in Seq(Kinds)
      BY <1>1, <1>2, <1>3, <1>4 DEF TypeOK
    <3> QED BY <1>1, <3>1 DEF TypeOK
  <2>3. shutting' \in [Conns -> BOOLEAN]
    BY <1>1, <1>2 DEF TypeOK, WellFormed
  <2>4. TypeOK'
    BY <1>1, <1>2, <2>1, <2>2, <2>3 DEF TypeOK
  <2>5. ThreadInv'
    BY <1>1, <1>2 DEF ThreadInv
  <2> QED BY <2>4, <2>5
<1>10. Recorded'
  BY <1>1, <1>2, <1>3, <1>4, <1>5, <1>7, CallAssumption DEF CallsOK, Recorded
<1>11. SendersOK'
  <2> SUFFICES ASSUME NEW a \in Actors, NEW d \in Calls, stage[a] = "send", making[a] = d
               PROVE  /\ executed'[d] = <<>>
                      /\ \A l \in Conns : d \notin Elements(wire'[l])
    BY <1>1, <1>2 DEF CallsOK, SendersOK
  <2>1. executed[d] = <<>> /\ \A l \in Conns : d \notin Elements(wire[l])
    BY <1>1 DEF CallsOK, SendersOK
  <2> QED BY <1>3, <1>7, <2>1
<1>12. QueuesOK'
  <2> SUFFICES ASSUME NEW l \in Conns
               PROVE  /\ Distinct(queued[l]) /\ Distinct(wire'[l])
                      /\ \A d \in Elements(queued[l]) :
                            conn[d] = l /\ executed'[d] = <<>> /\ d \notin Elements(wire'[l])
                      /\ \A d \in Elements(wire'[l]) : conn[d] = l /\ executed'[d] = <<>>
    BY <1>2 DEF QueuesOK
  <2>1. /\ Distinct(queued[l]) /\ Distinct(wire[l])
        /\ \A d \in Elements(queued[l]) :
              d \in Calls /\ conn[d] = l /\ executed[d] = <<>> /\ d \notin Elements(wire[l])
        /\ \A d \in Elements(wire[l]) : d \in Calls /\ conn[d] = l /\ executed[d] = <<>>
    BY <1>1, Contents DEF CallsOK, QueuesOK
  <2>2. CASE l # n
    BY <1>3, <1>7, <2>1, <2>2
  <2>3. CASE l = n
    BY <1>3, <1>7, <2>1, <2>3
  <2> QED BY <2>2, <2>3
<1>13. AnswersOK'
  <2>1. \A l \in Conns : Once(answers'[l])
    BY <1>1, <1>7, <1>8 DEF CallsOK, AnswersOK
  <2>2. ASSUME NEW l \in Conns, NEW x \in Elements(answers'[l])
        PROVE  /\ x.id # None => /\ x.id \in requests /\ conn[x.id] = l
                                 /\ executed'[x.id] = <<x.kind>> /\ outcome[x.id] = <<>>
               /\ x.id = None => \E d \in IllFormed : conn[d] = l
    <3>1. x \in Elements(answers[l]) \/ (x = r /\ l = n)
      BY <1>7, <1>8
    <3>2. CASE x \in Elements(answers[l])
      <4>1. x.id # c /\ x.id \in Calls \cup {None}
        BY <1>1, <1>6, <3>2, Contents DEF Messages
      <4> QED BY <1>1, <1>7, <3>2, <4>1 DEF CallsOK, AnswersOK
    <3>3. CASE x = r /\ l = n
      BY <1>1, <1>3, <1>4, <1>5, <1>7, <3>3
    <3> QED BY <3>1, <3>2, <3>3
  <2> QED BY <1>2, <2>1, <2>2 DEF AnswersOK
<1>14. HandledOK'
  BY <1>1, <1>2, <1>7, <1>8 DEF CallsOK, HandledOK
<1>15. PendingInTransit'
  <2> SUFFICES ASSUME NEW d \in requests
               PROVE  InTransit(d)' \/ ~open[conn[d]] \/ shutting'[conn[d]]
    BY <1>2 DEF PendingInTransit
  <2>1. CASE d = c
    <3>1. CASE c \in IllFormed
      BY <1>3, <1>7, <2>1, <3>1
    <3>2. CASE c \notin IllFormed /\ open[n]
      <4>1. r \in Elements(answers'[n]) /\ r.id = c
        BY <1>4, <1>7, <1>8, <3>2
      <4> QED BY <2>1, <4>1 DEF InTransit
    <3> QED BY <1>3, <2>1, <3>1, <3>2
  <2>2. CASE d # c
    <3>1. \A l \in Conns : /\ d \in Elements(wire[l]) => d \in Elements(wire'[l])
                           /\ Elements(answers[l]) \subseteq Elements(answers'[l])
      BY <1>3, <1>7, <1>8, <2>2
    <3>2. InTransit(d) => InTransit(d)'
      BY <1>2, <3>1 DEF InTransit
    <3>3. \A l \in Conns : shutting[l] => shutting'[l]
      BY <1>7
    <3>4. conn[d] \in Conns
      BY <1>1 DEF CallsOK, Recorded, TypeOK
    <3> QED BY <1>1, <3>2, <3>3, <3>4 DEF CallsOK, PendingInTransit
  <2> QED BY <2>1, <2>2
<1>16. ShutdownForCause'
  <2> SUFFICES ASSUME NEW l \in Conns, shutting'[l]
               PROVE  \E d \in Calls : conn[d] = l /\ (d \in IllFormed \/ executed'[d] = <<"null">>)
    BY <1>2 DEF ShutdownForCause
  <2>1. CASE shutting[l]
    <3>1. PICK d \in Calls : conn[d] = l /\ (d \in IllFormed \/ executed[d] = <<"null">>)
      BY <1>1, <2>1 DEF CallsOK, ShutdownForCause
    <3>2. ASSUME d \notin IllFormed PROVE d # c
      <4>1. executed[d] = <<"null">>
        BY <3>1, <3>2
      <4>2. <<"null">> # <<>>
        OBVIOUS
      <4> QED BY <1>3, <4>1, <4>2
    <3> QED BY <1>7, <3>1, <3>2
  <2>2. CASE ~shutting[l]
    BY <1>3, <1>7, <2>2
  <2> QED BY <2>1, <2>2
<1> QED BY <1>1, <1>2, <1>9, <1>10, <1>11, <1>12, <1>13, <1>14, <1>15, <1>16
        DEF IInv, TypeInv, CallsOK, ServiceOK

-----------------------------------------------------------------------------
(* The theorems.                                                           *)

LEMMA NextKeepsIInv == IInv /\ [Next]_vars => IInv'
<1> SUFFICES ASSUME IInv, [Next]_vars PROVE IInv'
  OBVIOUS
<1>1. ASSUME NEW a \in Actors, NEW c \in Calls, NEW m \in Modes, NEW n \in Conns,
             NewRequest(a, c, m, n)
      PROVE  IInv'
  BY <1>1, NewRequestKeepsIInv
<1>2. ASSUME NEW a \in Actors, Send(a) PROVE IInv'
  BY <1>2, SendKeepsIInv
<1>3. ASSUME NEW a \in Actors, Return(a) PROVE IInv'
  BY <1>3, ReturnKeepsIInv
<1>4. ASSUME NEW n \in Conns, SendInLoop(n) PROVE IInv'
  BY <1>4, SendInLoopKeepsIInv
<1>5. ASSUME NEW n \in Conns, GetRequest(n) PROVE IInv'
  BY <1>5, GetRequestKeepsIInv
<1>6. ASSUME NEW n \in Conns, Refuse(n) PROVE IInv'
  BY <1>6, RefuseKeepsIInv
<1>7. ASSUME NEW n \in Conns, Deliver(n) PROVE IInv'
  BY <1>7, DeliverKeepsIInv
<1>8. ASSUME NEW n \in Conns, CallbackReturns(n) PROVE IInv'
  BY <1>8, CallbackReturnsKeepsIInv
<1>9. ASSUME NEW n \in Conns, RemoveRequest(n) PROVE IInv'
  BY <1>9, RemoveRequestKeepsIInv
<1>10. ASSUME NEW n \in Conns, Release(n) PROVE IInv'
  BY <1>10, ReleaseKeepsIInv
<1>11. ASSUME NEW n \in Conns, Answering(n) PROVE IInv'
  BY <1>11, OnRpcRequestKeepsIInv DEF Answering
<1>12. CASE ApplicationStep
  BY <1>12, ApplicationKeepsIInv
<1>13. CASE UNCHANGED vars
  <2>1. TypeInv' /\ ServiceOK'
    BY <1>13 DEF vars, IInv, TypeInv, TypeOK, ThreadInv, ServiceOK
  <2>2. CallsOK'
    BY <1>13, CallsRest DEF vars, IInv, TypeInv
  <2> QED BY <2>1, <2>2 DEF IInv
<1> QED BY <1>1, <1>2, <1>3, <1>4, <1>5, <1>6, <1>7, <1>8, <1>9, <1>10, <1>11, <1>12, <1>13
        DEF Next, CallerStep, ClientLoopStep, ServerStep

\* Whatever order requests, responses, callbacks and closed connections come
\* in, every call has one place and one answer.
THEOREM Invariance == Spec => []IInv
BY InitIInv, NextKeepsIInv, PTL DEF Spec

\* Requestor: a response with an identifier finds its RequestDescribe, made on
\* the connection it comes in on, also when it overtakes the caller's Send.
THEOREM ResponsesFindTheirRequest == Spec => []AnswersMatched
<1>1. IInv => AnswersMatched
  BY DEF IInv, CallsOK, AnswersOK, AnswersMatched
<1> QED BY <1>1, Invariance, PTL

\* Requestor: _requests forgets no call that was not answered, and keeps none
\* whose request or response is not on its way over a live connection.
THEOREM RequestsKeptExactly == Spec => []RequestsExact
<1>1. IInv => RequestsExact
  BY DEF IInv, CallsOK, Recorded, RequestsExact, ForgottenOnlyAnswered, Made
<1> QED BY <1>1, Invariance, PTL

\* MuduoClient::OnMessage: the client shuts a connection down only over an
\* ill-formed request or a null result, never for want of a RequestDescribe.
THEOREM ShutdownsHaveCause == Spec => []ShutdownForCause
<1>1. IInv => ShutdownForCause
  BY DEF IInv, CallsOK
<1> QED BY <1>1, Invariance, PTL

\* RpcRouter: once RegisterService has returned no call is "not found".
THEOREM RegisteredIsFound == Spec => NotFoundForCause
<1> DEFINE A == \A c \in Calls :
                    "missing" \in Elements(executed'[c]) \ Elements(executed[c])
                        => service # "done"
<1>1. ASSUME IInv, [Next]_vars PROVE A
  <2> SUFFICES ASSUME NEW c \in Calls, service = "done"
               PROVE  "missing" \notin Elements(executed'[c]) \ Elements(executed[c])
    OBVIOUS
  <2>1. services /\ TypeOK /\ Recorded
    BY <1>1 DEF IInv, ServiceOK, TypeInv, CallsOK
  <2>2. ASSUME NEW n \in Conns, NEW param, NEW result, OnRpcRequest(n, param, result)
        PROVE  "missing" \notin Elements(executed'[c]) \ Elements(executed[c])
    <3> DEFINE k == Answer(param, result)
    <3>1. k # "missing" /\ k \in Kinds
      BY <2>1, AnswerIsKind DEF Answer
    <3> HIDE DEF k
    <3>2. executed'[c] = executed[c] \/ executed'[c] = Append(executed[c], k)
      BY <2>1, <2>2 DEF OnRpcRequest, TypeOK, k
    <3>3. executed[c] \in Seq(Kinds)
      BY <2>1 DEF TypeOK
    <3>4. Elements(Append(executed[c], k)) = Elements(executed[c]) \cup {k}
      BY <3>1, <3>3, Appended
    <3> QED BY <3>1, <3>2, <3>4
  <2>3. \/ \E n \in Conns, param, result \in Values : OnRpcRequest(n, param, result)
        \/ executed' = executed
    <3>1. CASE CallerStep
      BY <3>1 DEF CallerStep, NewRequest, Send, Return
    <3>2. CASE ClientLoopStep
      BY <3>2 DEF ClientLoopStep, SendInLoop, GetRequest, Refuse, Deliver, CallbackReturns,
                  RemoveRequest, Release
    <3>3. CASE ApplicationStep \/ UNCHANGED vars
      BY <3>3 DEF ApplicationStep, vars
    <3>4. CASE ServerStep
      BY <3>4 DEF ServerStep, Answering
    <3> QED BY <1>1, <3>1, <3>2, <3>3, <3>4 DEF Next
  <2>4. CASE executed' = executed
    BY <2>4
  <2> QED BY <2>2, <2>3, <2>4
<1>2. IInv /\ [Next]_vars => [A]_vars
  BY <1>1
<1> QED BY <1>2, Invariance, PTL DEF Spec, NotFoundForCause

-----------------------------------------------------------------------------
(* The calls implement AtMostOnceCall.                                     *)

LEMMA InitPromise == Init => Promise!CallInit
BY DEF Init, Promise!CallInit, Made

\* The calls that were made, before and after a step that makes none.
LEMMA CalledUnchanged ==
    ASSUME UNCHANGED conn
    PROVE  {c \in Calls : Made(c)}' = {c \in Calls : Made(c)}
BY DEF Made

LEMMA NewRequestInvokes ==
    ASSUME IInv, NEW a \in Actors, NEW c \in Calls, NEW m \in Modes, NEW n \in Conns,
           NewRequest(a, c, m, n)
    PROVE  Promise!Invoke(c)
<1>1. /\ conn[c] = None /\ conn' = [conn EXCEPT ![c] = n] /\ UNCHANGED <<executed, outcome>>
      /\ TypeOK /\ None \notin Conns
  BY CallAssumption DEF NewRequest, IInv, TypeInv
<1>2. ASSUME NEW d \in Calls PROVE conn'[d] # None <=> conn[d] # None \/ d = c
  BY <1>1 DEF TypeOK
<1>3. {d \in Calls : Made(d)}' = {d \in Calls : Made(d)} \cup {c}
  BY <1>2 DEF Made
<1>4. c \notin {d \in Calls : Made(d)}
  BY <1>1 DEF Made
<1> QED BY <1>1, <1>3, <1>4 DEF Promise!Invoke

\* A request is on the wire at most once, and leaves it when it is executed.
LEMMA OnRpcRequestPerforms ==
    ASSUME IInv, NEW n \in Conns, NEW param, NEW result, OnRpcRequest(n, param, result)
    PROVE  \E c \in Calls, k \in Kinds : Promise!Perform(c, k)
<1> DEFINE c == Head(wire[n])
           k == Answer(param, result)
<1>1. /\ wire[n] # <<>> /\ executed' = [executed EXCEPT ![c] = Append(@, k)]
      /\ UNCHANGED <<conn, outcome>> /\ TypeOK /\ QueuesOK /\ None \notin Conns
  BY CallAssumption DEF OnRpcRequest, callVars, IInv, TypeInv, CallsOK
<1>2. c \in Calls /\ c \in Elements(wire[n]) /\ k \in Kinds
  <2>1. wire[n] \in Seq(Calls)
    BY <1>1 DEF TypeOK
  <2> QED BY <1>1, <2>1, Taken, AnswerIsKind
<1> HIDE DEF c, k
<1>3. conn[c] = n /\ executed[c] = <<>>
  BY <1>1, <1>2 DEF QueuesOK
<1>4. executed' = [executed EXCEPT ![c] = <<k>>]
  BY <1>1, <1>2, <1>3 DEF TypeOK
<1>5. c \in {d \in Calls : Made(d)}
  BY <1>1, <1>2, <1>3 DEF Made
<1>6. Promise!Perform(c, k)
  BY <1>1, <1>3, <1>4, <1>5, CalledUnchanged DEF Promise!Perform
<1> QED BY <1>2, <1>6

\* The response a loop thread handles is its call's only one, and is given to
\* that call.
LEMMA DeliverCompletes ==
    ASSUME IInv, NEW n \in Conns, Deliver(n)
    PROVE  \E c \in Calls : Promise!Complete(c)
<1> DEFINE c == handling[n]
           r == Head(answers[n])
<1>1. /\ stage[n] = "deliver" /\ outcome' = [outcome EXCEPT ![c] = Append(@, r.kind)]
      /\ UNCHANGED <<conn, executed>>
      /\ TypeOK /\ ThreadInv /\ AnswersOK /\ HandledOK /\ None \notin Calls
  BY CallAssumption DEF Deliver, Recipient, callVars, IInv, TypeInv, CallsOK
<1>2. c \in Calls
  BY <1>1 DEF TypeOK, ThreadInv
<1>3. answers[n] # <<>> /\ r.id = c /\ r.kind \in Reported
  BY <1>1, <1>2 DEF HandledOK
<1>4. r \in Elements(answers[n]) /\ r.kind \in Kinds
  <2>1. answers[n] \in Seq(Messages)
    BY <1>1 DEF TypeOK
  <2>2. r \in Messages /\ r \in Elements(answers[n])
    BY <1>3, <2>1, Taken
  <2> QED BY <2>2 DEF Messages
<1> HIDE DEF c, r
<1>5. executed[c] = <<r.kind>> /\ outcome[c] = <<>>
  <2>1. r.id # None
    BY <1>1, <1>2, <1>3
  <2>2. executed[r.id] = <<r.kind>> /\ outcome[r.id] = <<>>
    BY <1>1, <1>4, <2>1 DEF AnswersOK
  <2> QED BY <1>3, <2>2
<1>6. outcome' = [outcome EXCEPT ![c] = <<r.kind>>]
  BY <1>1, <1>2, <1>5 DEF TypeOK
<1>7. Promise!Complete(c)
  BY <1>1, <1>3, <1>5, <1>6, CalledUnchanged DEF Promise!Complete
<1> QED BY <1>2, <1>7

\* Requestor and RpcRouter: a call is executed at most once, completes at most
\* once, and completes with what its own execution produced.
THEOREM CallsAtMostOnce == Spec => ImplementsAtMostOnce
<1>1. IInv /\ [Next]_vars => [Promise!CallNext]_(Promise!callVars)
  <2> SUFFICES ASSUME IInv, [Next]_vars PROVE [Promise!CallNext]_(Promise!callVars)
    OBVIOUS
  <2>1. ASSUME UNCHANGED <<conn, executed, outcome>> PROVE UNCHANGED Promise!callVars
    BY <2>1, CalledUnchanged DEF Promise!callVars
  <2>2. ASSUME NEW a \in Actors, NEW c \in Calls, NEW m \in Modes, NEW n \in Conns,
               NewRequest(a, c, m, n)
        PROVE  Promise!CallNext
    BY <2>2, NewRequestInvokes DEF Promise!CallNext
  <2>3. ASSUME NEW n \in Conns, Answering(n) PROVE Promise!CallNext
    BY <2>3, OnRpcRequestPerforms DEF Answering, Promise!CallNext
  <2>4. ASSUME NEW n \in Conns, Deliver(n) PROVE Promise!CallNext
    BY <2>4, DeliverCompletes DEF Promise!CallNext
  <2>5. ASSUME NEW a \in Actors, Send(a) \/ Return(a) PROVE UNCHANGED Promise!callVars
    BY <2>1, <2>5 DEF Send, Return, callVars
  <2>6. ASSUME NEW n \in Conns,
               \/ SendInLoop(n) \/ GetRequest(n) \/ Refuse(n) \/ CallbackReturns(n)
               \/ RemoveRequest(n) \/ Release(n)
        PROVE  UNCHANGED Promise!callVars
    BY <2>1, <2>6 DEF SendInLoop, GetRequest, Refuse, CallbackReturns, RemoveRequest,
                      Release, callVars
  <2>7. CASE ApplicationStep \/ UNCHANGED vars
    BY <2>1, <2>7 DEF ApplicationStep, vars, callVars
  <2> QED BY <2>2, <2>3, <2>4, <2>5, <2>6, <2>7
          DEF Next, CallerStep, ClientLoopStep, ServerStep
<1> QED BY <1>1, InitPromise, Invariance, PTL DEF Spec, ImplementsAtMostOnce, Promise!CallSpec
=============================================================================

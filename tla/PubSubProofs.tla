---------------------------- MODULE PubSubProofs ----------------------------
(***************************************************************************)
(* What PubSub and its topic server, Topic, keep for every number of       *)
(* clients, names and requests and every way their connections share       *)
(* loops: the topics' mutexes, whom a message is sent to and in which      *)
(* order, and what a cancel ends.                                          *)
(*                                                                         *)
(* The invariants follow from IInv, which says why they hold: an object    *)
(* that left the map never comes back, a subscription in force has its     *)
(* Subscriber in the object under the name, who is owed a message is among *)
(* those its sender has left, and a sender's message is the latest of its  *)
(* topic.                                                                  *)
(*                                                                         *)
(* The client's part, on top, begins by showing that PubSub's steps are    *)
(* steps of Topic; ClientInv says where each caller's request and each     *)
(* message promised to the client is.                                      *)
(***************************************************************************)
EXTENDS PubSub, TLAPS, SequenceTheorems, FunctionTheorems, FiniteSetTheorems

-----------------------------------------------------------------------------
(* The inductive invariant.                                                *)

Place ==
    [step : {"idle"}]
    \cup [step : {"removeAll"}, topic : Topics, name : Names]
    \cup [step : {"join"}, topic : Topics, name : Names, who : SubscriberObjects]
    \cup [step : {"leave"}, topic : Topics, who : SUBSET SubscriberObjects]
    \cup [step : {"publish"}, topic : Topics, message : Messages]
    \cup [step : {"sending"}, topic : Topics, message : Messages,
          rest : (SUBSET SubscriberObjects) \ {{}}]

TypesOK == TypeOK /\ at \in [Conns -> Place]

\* Objects are numbered as they are made, and requests as they come.
Numbered ==
    /\ \A n \in Names : topics[n] <= made
    /\ \A t \in Topics : t > made => members[t] = {}
    /\ \A c \in Conns, n \in Names : subs[c][n] <= asked[c]

\* One name for an object, and one sender.
OneName == \A n, k \in Names : topics[n] = topics[k] /\ n # k => topics[n] = NoTopic

OneSender ==
    \A c, d \in Conns :
        at[c].step = "sending" /\ at[d].step = "sending" /\ c # d => at[c].topic # at[d].topic

\* What a handler holds between its two steps: the object of a removed topic is
\* in the map no more, that of a request may be there only under its name.
HandlerOK(c) ==
    /\ \A s \in stored[c] : s[1] = c
    /\ at[c].step = "removeAll" => \A n \in Names : topics[n] # at[c].topic
    /\ at[c].step = "join" =>
        /\ at[c].who[1] = c
        /\ subs[c][at[c].name] > 0
        /\ \A n \in Names : topics[n] = at[c].topic => n = at[c].name
    /\ at[c].step = "leave" =>
        /\ at[c].who = stored[c]
        /\ \A n \in Names : topics[n] = at[c].topic => joined[c][n] = NoTopic
    /\ at[c].step \in {"publish", "sending"} =>
        at[c].message.by = c /\ at[c].message.no = asked[c]

HandlersOK == \A c \in Conns : HandlerOK(c)

\* A subscription in force is in the object that is under the name.
JoinedOK ==
    \A d \in Conns, n \in Names :
        joined[d][n] # NoTopic =>
            joined[d][n] = topics[n] /\ \E s \in members[topics[n]] : s[1] = d

\* Whom a message is owed its sender has still to send it to.
Underway(d, m) ==
    /\ at[m.by].step \in {"publish", "sending"} /\ at[m.by].message = m
    /\ joined[d][m.name] = at[m.by].topic
    /\ at[m.by].step = "sending" => \E s \in at[m.by].rest : s[1] = d

OwedOK == \A d \in Conns \ closed : \A m \in owed[d] : Underway(d, m)

\* A client with one subscription, of n, or none.
Once(c, n) == \A k \in Names : subs[c][k] <= IF k = n THEN 1 ELSE 0
Never(c) == \A k \in Names : subs[c][k] = 0

\* Its cancel finds the Subscriber wherever it is, and until then it is in force.
CancelOK ==
    \A c \in Conns :
        /\ Never(c) => stored[c] = {} /\ \A t \in Topics : \A s \in members[t] : s[1] # c
        /\ \A n \in Names : Once(c, n) =>
            /\ \A t \in Topics : \A s \in members[t] : s[1] = c => s \in stored[c]
            /\ at[c].step = "join" => at[c].who \in stored[c]
            /\ topics[n] # NoTopic /\ (\E s \in members[topics[n]] : s[1] = c) =>
                \/ joined[c][n] = topics[n]
                \/ at[c].step = "leave" /\ at[c].topic = topics[n]

\* Every message has one place in the order of one topic, from the moment its
\* sending begins; nothing else is sent, and what is being sent comes last.
Placed(m) == \E t \in Topics : m \in Elements(order[t])

PlacesOK ==
    /\ \A t \in Topics : \A m \in Elements(order[t]) :
        m.no <= asked[m.by] /\ (at[m.by].step = "publish" => m # at[m.by].message)
    /\ \A t, u \in Topics : \A a \in DOMAIN order[t] : \A b \in DOMAIN order[u] :
        order[t][a] = order[u][b] => t = u /\ a = b
    /\ \A d \in Conns : \A m \in Elements(sent[d]) \cup Elements(pending[d]) : Placed(m)
    /\ \A c \in Conns : at[c].step = "sending" =>
        /\ Len(order[at[c].topic]) > 0
        /\ order[at[c].topic][Len(order[at[c].topic])] = at[c].message

\* What d was and will be sent agrees with the order o of each topic.
Ordered(g, d, o) ==
    \A i, j \in 1..Len(g) : i < j /\ ~SameLoop(g[i].by, d) =>
        \A t \in Topics : \A a, b \in 1..Len(o[t]) :
            o[t][a] = g[j] /\ o[t][b] = g[i] => b <= a

OrderedOK == \A d \in Conns : Ordered(sent[d] \o pending[d], d, order)

IInv ==
    /\ TypesOK /\ Numbered /\ OneName /\ OneSender /\ HandlersOK
    /\ JoinedOK /\ OwedOK /\ CancelOK /\ PlacesOK /\ OrderedOK
-----------------------------------------------------------------------------
(* Lemmas on sequences and on places.                                      *)

LEMMA Appending ==
    ASSUME NEW S, NEW s \in Seq(S), NEW e \in S
    PROVE  /\ Append(s, e) \in Seq(S) /\ Len(Append(s, e)) = Len(s) + 1
           /\ DOMAIN Append(s, e) = 1..(Len(s) + 1)
           /\ \A i \in 1..Len(s) : Append(s, e)[i] = s[i]
           /\ Append(s, e)[Len(s) + 1] = e
           /\ Elements(Append(s, e)) = Elements(s) \cup {e}
<1>1. /\ Len(Append(s, e)) = Len(s) + 1 /\ Append(s, e) \in Seq(S)
      /\ \A i \in 1..Len(s) : Append(s, e)[i] = s[i]
      /\ Append(s, e)[Len(s) + 1] = e
  BY AppendProperties
<1>2. DOMAIN s = 1..Len(s) /\ DOMAIN Append(s, e) = 1..(Len(s) + 1) /\ Len(s) \in Nat
  BY <1>1, LenProperties
<1>3. \A i \in 1..(Len(s) + 1) : i \in 1..Len(s) \/ i = Len(s) + 1
  BY <1>2
<1>4. Elements(Append(s, e)) \subseteq Elements(s) \cup {e}
  BY <1>1, <1>2, <1>3 DEF Elements
<1>5. \A i \in 1..Len(s) : i \in 1..(Len(s) + 1)
  BY <1>2
<1>6. Len(s) + 1 \in 1..(Len(s) + 1)
  BY <1>2
<1>7. Elements(s) \cup {e} \subseteq Elements(Append(s, e))
  BY <1>1, <1>2, <1>5, <1>6 DEF Elements
<1> QED BY <1>1, <1>2, <1>4, <1>7

LEMMA Taking ==
    ASSUME NEW S, NEW s \in Seq(S), s # <<>>
    PROVE  /\ Head(s) \in S /\ Tail(s) \in Seq(S) /\ Len(Tail(s)) = Len(s) - 1 /\ Len(s) > 0
           /\ \A i \in 1..Len(Tail(s)) : Tail(s)[i] = s[i + 1]
           /\ Head(s) = s[1]
           /\ Elements(s) = Elements(Tail(s)) \cup {Head(s)}
<1>1. /\ Head(s) \in S /\ Tail(s) \in Seq(S) /\ Len(Tail(s)) = Len(s) - 1
      /\ \A i \in 1..Len(Tail(s)) : Tail(s)[i] = s[i + 1]
  BY HeadTailProperties
<1>2. /\ DOMAIN s = 1..Len(s) /\ Len(s) \in Nat /\ Len(s) > 0
      /\ DOMAIN Tail(s) = 1..(Len(s) - 1)
  BY <1>1, LenProperties, EmptySeq
<1>3. Head(s) = s[1]
  OBVIOUS
<1>4. \A i \in 1..Len(s) : i = 1 \/ (i - 1 \in 1..(Len(s) - 1) /\ Tail(s)[i - 1] = s[i])
  BY <1>1, <1>2
<1>5. Elements(Tail(s)) \cup {Head(s)} \subseteq Elements(s)
  BY <1>1, <1>2, <1>3 DEF Elements
<1>6. Elements(s) \subseteq Elements(Tail(s)) \cup {Head(s)}
  BY <1>2, <1>3, <1>4 DEF Elements
<1> QED BY <1>1, <1>2, <1>3, <1>5, <1>6

\* What a handler's place looks like at each step.
LEMMA PlaceOf ==
    ASSUME NEW x \in Place
    PROVE  /\ x.step \in Steps
           /\ x.step = "idle" <=> x = Idle
           /\ x.step # "idle" => x.topic \in Topics
           /\ x.step = "removeAll" => x.name \in Names
           /\ x.step = "join" => x.name \in Names /\ x.who \in SubscriberObjects
           /\ x.step = "leave" => x.who \subseteq SubscriberObjects
           /\ x.step \in {"publish", "sending"} => x.message \in Messages
           /\ x.step = "sending" => x.rest \subseteq SubscriberObjects /\ x.rest # {}
<1>1. CASE x \in [step : {"idle"}]
  BY <1>1 DEF Steps, Idle
<1>2. CASE x \in [step : {"removeAll"}, topic : Topics, name : Names]
  BY <1>2 DEF Steps, Idle
<1>3. CASE x \in [step : {"join"}, topic : Topics, name : Names, who : SubscriberObjects]
  BY <1>3 DEF Steps, Idle
<1>4. CASE x \in [step : {"leave"}, topic : Topics, who : SUBSET SubscriberObjects]
  BY <1>4 DEF Steps, Idle
<1>5. CASE x \in [step : {"publish"}, topic : Topics, message : Messages]
  BY <1>5 DEF Steps, Idle
<1>6. CASE x \in [step : {"sending"}, topic : Topics, message : Messages,
                  rest : (SUBSET SubscriberObjects) \ {{}}]
  BY <1>6 DEF Steps, Idle
<1> QED BY <1>1, <1>2, <1>3, <1>4, <1>5, <1>6 DEF Place

\* Where a handler goes.
LEMMA Going ==
    /\ Idle \in Place /\ Idle.step = "idle"
    /\ \A t \in Topics, n \in Names :
        /\ [step |-> "removeAll", topic |-> t, name |-> n] \in Place
        /\ \A s \in SubscriberObjects :
            [step |-> "join", topic |-> t, name |-> n, who |-> s] \in Place
    /\ \A t \in Topics, ss \in SUBSET SubscriberObjects :
        [step |-> "leave", topic |-> t, who |-> ss] \in Place
    /\ \A t \in Topics, m \in Messages : [step |-> "publish", topic |-> t, message |-> m] \in Place
    /\ \A t \in Topics, m \in Messages, ss \in SUBSET SubscriberObjects :
        ss # {} => [step |-> "sending", topic |-> t, message |-> m, rest |-> ss] \in Place
BY DEF Place, Idle

LEMMA Ranges ==
    /\ MaxTopics \in Nat /\ MaxRequests \in Nat /\ NoTopic = 0
    /\ \A t : t \in Topics <=> t \in Nat /\ 1 <= t /\ t <= MaxTopics
    /\ NoTopic \notin Topics
BY TopicAssumption DEF Topics, NoTopic

LEMMA Zero == \A n \in 0..MaxTopics : NoTopic <= n
BY DEF NoTopic

LEMMA Joining ==
    ASSUME NEW S, NEW s \in Seq(S), NEW p \in Seq(S)
    PROVE  /\ s \o p \in Seq(S) /\ Len(s \o p) = Len(s) + Len(p)
           /\ DOMAIN (s \o p) = 1..(Len(s) + Len(p))
           /\ \A i \in 1..(Len(s) + Len(p)) :
                /\ (s \o p)[i] = IF i <= Len(s) THEN s[i] ELSE p[i - Len(s)]
                /\ (s \o p)[i] \in Elements(s) \cup Elements(p)
<1>1. /\ s \o p \in Seq(S) /\ Len(s \o p) = Len(s) + Len(p)
      /\ \A i \in 1..(Len(s) + Len(p)) :
            (s \o p)[i] = IF i <= Len(s) THEN s[i] ELSE p[i - Len(s)]
  BY ConcatProperties
<1>2. /\ DOMAIN s = 1..Len(s) /\ DOMAIN p = 1..Len(p) /\ DOMAIN (s \o p) = 1..(Len(s) + Len(p))
      /\ Len(s) \in Nat /\ Len(p) \in Nat
  BY <1>1, LenProperties
<1>3. \A i \in 1..(Len(s) + Len(p)) : (i <= Len(s) /\ i \in DOMAIN s) \/ i - Len(s) \in DOMAIN p
  BY <1>2
<1>4. \A i \in 1..(Len(s) + Len(p)) : (s \o p)[i] \in Elements(s) \cup Elements(p)
  <2> TAKE i \in 1..(Len(s) + Len(p))
  <2>1. CASE i <= Len(s)
    <3>1. i \in DOMAIN s
      BY <1>2, <2>1
    <3> QED BY <1>1, <2>1, <3>1 DEF Elements
  <2>2. CASE ~(i <= Len(s))
    <3>1. i - Len(s) \in DOMAIN p
      BY <1>3, <2>2
    <3> QED BY <1>1, <2>2, <3>1 DEF Elements
  <2> QED BY <2>1, <2>2
<1> QED BY <1>1, <1>2, <1>4

\* h is g with m after its first k elements.
Inserted(g, h, k, m) ==
    /\ Len(h) = Len(g) + 1
    /\ h[k + 1] = m
    /\ \A i \in 1..Len(g) : IF i <= k THEN h[i] = g[i] ELSE h[i + 1] = g[i]

\* m has one place in the order, the last one of u.
Latest(m, u, o) ==
    \A t \in Topics : \A a \in 1..Len(o[t]) : o[t][a] = m => t = u /\ a = Len(o[u])

\* The latest message of a topic may come last, or anywhere if it comes from
\* the receiver's loop.
LEMMA Inserting ==
    ASSUME NEW d, NEW o, NEW g \in Seq(Messages), NEW h \in Seq(Messages), NEW m,
           NEW k \in Nat, k <= Len(g), NEW u \in Topics, o[u] \in Seq(Messages),
           Inserted(g, h, k, m), Latest(m, u, o), Ordered(g, d, o),
           k = Len(g) \/ SameLoop(m.by, d)
    PROVE  Ordered(h, d, o)
<1>1. Len(g) \in Nat /\ Len(h) = Len(g) + 1 /\ Len(o[u]) \in Nat
  BY LenProperties DEF Inserted
<1> SUFFICES ASSUME NEW i \in 1..Len(h), NEW j \in 1..Len(h), i < j, ~SameLoop(h[i].by, d),
                    NEW t \in Topics, NEW a \in 1..Len(o[t]), NEW b \in 1..Len(o[t]),
                    o[t][a] = h[j], o[t][b] = h[i]
             PROVE  b <= a
  BY DEF Ordered
<1>2. /\ i \in Nat /\ j \in Nat /\ 1 <= i /\ j <= Len(g) + 1 /\ i < j
      /\ k \in Nat /\ k <= Len(g)
  BY <1>1
<1>3. CASE j = k + 1
  <2>1. t = u /\ a = Len(o[u])
    BY <1>3 DEF Inserted, Latest
  <2>2. b \in 1..Len(o[u])
    BY <1>1, <2>1
  <2> QED BY <1>1, <2>1, <2>2
<1>4. CASE i = k + 1
  <2>1. k = Len(g)
    BY <1>4 DEF Inserted
  <2> QED BY <1>2, <1>4, <2>1
<1>5. CASE i # k + 1 /\ j # k + 1
  <2> DEFINE At(x) == IF x <= k THEN x ELSE x - 1
  <2>1. ASSUME NEW x \in Nat, 1 <= x, x <= Len(g) + 1, x # k + 1
        PROVE  At(x) \in 1..Len(g) /\ h[x] = g[At(x)]
    <3>1. CASE x <= k
      <4>1. x \in 1..Len(g)
        BY <1>1, <1>2, <2>1, <3>1
      <4> QED BY <3>1, <4>1 DEF Inserted
    <3>2. CASE ~(x <= k)
      <4>1. x - 1 \in 1..Len(g) /\ ~(x - 1 <= k) /\ (x - 1) + 1 = x
        BY <1>1, <1>2, <2>1, <3>2
      <4>2. h[(x - 1) + 1] = g[x - 1]
        BY <4>1 DEF Inserted
      <4> QED BY <3>2, <4>1, <4>2
    <3> QED BY <3>1, <3>2
  <2>2. At(i) < At(j)
    BY <1>2, <1>5
  <2>3. At(i) \in 1..Len(g) /\ h[i] = g[At(i)] /\ At(j) \in 1..Len(g) /\ h[j] = g[At(j)]
    BY <1>1, <1>2, <1>5, <2>1
  <2> HIDE DEF At
  <2> QED BY <2>2, <2>3 DEF Ordered
<1> QED BY <1>3, <1>4, <1>5

\* What two queues one behind the other hold when a message is put at the end of
\* either, and when one moves up.
LEMMA AddedLast ==
    ASSUME NEW S, NEW s \in Seq(S), NEW p \in Seq(S), NEW m \in S
    PROVE  Inserted(s \o p, s \o Append(p, m), Len(s) + Len(p), m)
<1>1. /\ Len(s) \in Nat /\ Len(p) \in Nat
      /\ Append(p, m) \in Seq(S) /\ Len(Append(p, m)) = Len(p) + 1
      /\ \A i \in 1..Len(p) : Append(p, m)[i] = p[i]
      /\ Append(p, m)[Len(p) + 1] = m
  BY Appending, LenProperties
<1>2. /\ Len(s \o p) = Len(s) + Len(p)
      /\ \A i \in 1..(Len(s) + Len(p)) : (s \o p)[i] = IF i <= Len(s) THEN s[i] ELSE p[i - Len(s)]
  BY Joining
<1>3. /\ Len(s \o Append(p, m)) = Len(s) + Len(p) + 1
      /\ \A i \in 1..(Len(s) + Len(p) + 1) :
            (s \o Append(p, m))[i] = IF i <= Len(s) THEN s[i] ELSE Append(p, m)[i - Len(s)]
  BY <1>1, Joining
<1>4. (s \o Append(p, m))[Len(s) + Len(p) + 1] = m
  <2>1. (Len(s) + Len(p) + 1) - Len(s) = Len(p) + 1 /\ ~(Len(s) + Len(p) + 1 <= Len(s))
        /\ Len(s) + Len(p) + 1 \in 1..(Len(s) + Len(p) + 1)
    BY <1>1
  <2> QED BY <1>1, <1>3, <2>1
<1>5. ASSUME NEW i \in 1..(Len(s) + Len(p))
      PROVE  i <= Len(s) + Len(p) /\ (s \o Append(p, m))[i] = (s \o p)[i]
  <2>1. i \in 1..(Len(s) + Len(p) + 1) /\ i <= Len(s) + Len(p)
    BY <1>1
  <2>2. ~(i <= Len(s)) => i - Len(s) \in 1..Len(p)
    BY <1>1
  <2> QED BY <1>1, <1>2, <1>3, <2>1, <2>2
<1> QED BY <1>1, <1>2, <1>3, <1>4, <1>5 DEF Inserted

LEMMA AddedBetween ==
    ASSUME NEW S, NEW s \in Seq(S), NEW p \in Seq(S), NEW m \in S
    PROVE  Inserted(s \o p, Append(s, m) \o p, Len(s), m)
<1>1. /\ Len(s) \in Nat /\ Len(p) \in Nat
      /\ Append(s, m) \in Seq(S) /\ Len(Append(s, m)) = Len(s) + 1
      /\ \A i \in 1..Len(s) : Append(s, m)[i] = s[i]
      /\ Append(s, m)[Len(s) + 1] = m
  BY Appending, LenProperties
<1>2. /\ Len(s \o p) = Len(s) + Len(p)
      /\ \A i \in 1..(Len(s) + Len(p)) : (s \o p)[i] = IF i <= Len(s) THEN s[i] ELSE p[i - Len(s)]
  BY Joining
<1>3. /\ Len(Append(s, m) \o p) = Len(s) + 1 + Len(p)
      /\ \A i \in 1..(Len(s) + 1 + Len(p)) :
            (Append(s, m) \o p)[i] =
                IF i <= Len(s) + 1 THEN Append(s, m)[i] ELSE p[i - (Len(s) + 1)]
  BY <1>1, Joining
<1>4. (Append(s, m) \o p)[Len(s) + 1] = m
  <2>1. Len(s) + 1 \in 1..(Len(s) + 1 + Len(p)) /\ Len(s) + 1 <= Len(s) + 1
    BY <1>1
  <2> QED BY <1>1, <1>3, <2>1
<1>5. ASSUME NEW i \in 1..(Len(s) + Len(p))
      PROVE  IF i <= Len(s) THEN (Append(s, m) \o p)[i] = (s \o p)[i]
             ELSE (Append(s, m) \o p)[i + 1] = (s \o p)[i]
  <2>1. CASE i <= Len(s)
    <3>1. i \in 1..(Len(s) + 1 + Len(p)) /\ i <= Len(s) + 1 /\ i \in 1..Len(s)
      BY <1>1, <2>1
    <3> QED BY <1>1, <1>2, <1>3, <2>1, <3>1
  <2>2. CASE ~(i <= Len(s))
    <3>1. /\ i + 1 \in 1..(Len(s) + 1 + Len(p)) /\ ~(i + 1 <= Len(s) + 1)
          /\ (i + 1) - (Len(s) + 1) = i - Len(s)
      BY <1>1, <2>2
    <3> QED BY <1>2, <1>3, <2>2, <3>1
  <2> QED BY <2>1, <2>2
<1>6. Len(Append(s, m) \o p) = Len(s \o p) + 1
  BY <1>1, <1>2, <1>3
<1> QED BY <1>2, <1>4, <1>5, <1>6 DEF Inserted

LEMMA MovedUp ==
    ASSUME NEW S, NEW s \in Seq(S), NEW p \in Seq(S), p # <<>>
    PROVE  Append(s, Head(p)) \o Tail(p) = s \o p
<1> DEFINE g == s \o p
           h == Append(s, Head(p)) \o Tail(p)
<1>1. /\ Head(p) \in S /\ Tail(p) \in Seq(S) /\ Len(Tail(p)) = Len(p) - 1 /\ Len(p) > 0
      /\ \A i \in 1..Len(Tail(p)) : Tail(p)[i] = p[i + 1]
      /\ Head(p) = p[1]
  BY Taking
<1>2. /\ Len(s) \in Nat /\ Len(p) \in Nat
      /\ Append(s, Head(p)) \in Seq(S) /\ Len(Append(s, Head(p))) = Len(s) + 1
      /\ \A i \in 1..Len(s) : Append(s, Head(p))[i] = s[i]
      /\ Append(s, Head(p))[Len(s) + 1] = Head(p)
  BY <1>1, Appending, LenProperties
<1>3. /\ g \in Seq(S) /\ Len(g) = Len(s) + Len(p)
      /\ \A i \in 1..(Len(s) + Len(p)) : g[i] = IF i <= Len(s) THEN s[i] ELSE p[i - Len(s)]
  BY Joining
<1>4. /\ h \in Seq(S) /\ Len(h) = (Len(s) + 1) + (Len(p) - 1)
      /\ \A i \in 1..((Len(s) + 1) + (Len(p) - 1)) :
            h[i] = IF i <= Len(s) + 1 THEN Append(s, Head(p))[i] ELSE Tail(p)[i - (Len(s) + 1)]
  BY <1>1, <1>2, Joining
<1> HIDE DEF g, h
<1>5. Len(h) = Len(g)
  BY <1>2, <1>3, <1>4
<1>6. ASSUME NEW i \in 1..Len(g) PROVE h[i] = g[i]
  <2>1. i \in 1..(Len(s) + Len(p)) /\ i \in 1..((Len(s) + 1) + (Len(p) - 1))
    BY <1>2, <1>3
  <2>2. CASE i <= Len(s)
    <3>1. i \in 1..Len(s) /\ i <= Len(s) + 1
      BY <1>2, <1>3, <2>2
    <3> QED BY <1>2, <1>3, <1>4, <2>1, <2>2, <3>1
  <2>3. CASE i = Len(s) + 1
    <3>1. ~(i <= Len(s)) /\ i - Len(s) = 1 /\ i <= Len(s) + 1
      BY <1>2, <2>3
    <3> QED BY <1>1, <1>2, <1>3, <1>4, <2>1, <2>3, <3>1
  <2>4. CASE i > Len(s) + 1
    <3>1. /\ ~(i <= Len(s)) /\ ~(i <= Len(s) + 1)
          /\ i - (Len(s) + 1) \in 1..Len(Tail(p))
          /\ (i - (Len(s) + 1)) + 1 = i - Len(s)
      BY <1>1, <1>2, <2>1, <2>4
    <3>2. Tail(p)[i - (Len(s) + 1)] = p[(i - (Len(s) + 1)) + 1]
      BY <1>1, <3>1
    <3> QED BY <1>3, <1>4, <2>1, <3>1, <3>2
  <2> QED BY <1>2, <2>1, <2>2, <2>3, <2>4
<1>7. h = g
  BY <1>3, <1>4, <1>5, <1>6, SeqEqual
<1> QED BY <1>7 DEF g, h

\* A message nobody was sent yet may take the last place of its topic.
LEMMA Extending ==
    ASSUME NEW d, NEW o, NEW q, NEW g \in Seq(Messages), NEW m \in Messages, NEW u \in Topics,
           o[u] \in Seq(Messages), q[u] = Append(o[u], m),
           \A t \in Topics : t # u => q[t] = o[t],
           \A i \in 1..Len(g) : g[i] # m, Ordered(g, d, o)
    PROVE  Ordered(g, d, q)
<1>1. /\ Len(q[u]) = Len(o[u]) + 1 /\ Len(o[u]) \in Nat
      /\ \A a \in 1..Len(o[u]) : q[u][a] = o[u][a]
      /\ q[u][Len(o[u]) + 1] = m
  BY Appending, LenProperties
<1> SUFFICES ASSUME NEW i \in 1..Len(g), NEW j \in 1..Len(g), i < j, ~SameLoop(g[i].by, d),
                    NEW t \in Topics, NEW a \in 1..Len(q[t]), NEW b \in 1..Len(q[t]),
                    q[t][a] = g[j], q[t][b] = g[i]
             PROVE  b <= a
  BY DEF Ordered
<1>2. CASE t # u
  <2>1. a \in 1..Len(o[t]) /\ b \in 1..Len(o[t]) /\ o[t][a] = g[j] /\ o[t][b] = g[i]
    BY <1>2
  <2> QED BY <2>1 DEF Ordered
<1>3. CASE t = u
  <2>1. a # Len(o[u]) + 1 /\ b # Len(o[u]) + 1
    BY <1>1, <1>3
  <2>2. a \in 1..Len(o[u]) /\ b \in 1..Len(o[u])
    BY <1>1, <1>3, <2>1
  <2>3. o[u][a] = g[j] /\ o[u][b] = g[i]
    BY <1>1, <1>3, <2>2
  <2> QED BY <2>2, <2>3 DEF Ordered
<1> QED BY <1>2, <1>3

LEMMA OrderIs == TypesOK /\ OrderedOK => TopicOrderKept
<1> SUFFICES ASSUME TypesOK, OrderedOK PROVE TopicOrderKept
  OBVIOUS
<1>1. \A t \in Topics : DOMAIN order[t] = 1..Len(order[t])
  BY LenProperties DEF TypesOK, TypeOK
<1>2. ASSUME NEW d \in Conns, NEW g, g = sent[d] \o pending[d],
             NEW i \in DOMAIN g, NEW j \in DOMAIN g, i < j, ~SameLoop(g[i].by, d),
             NEW t \in Topics, NEW a \in DOMAIN order[t], NEW b \in DOMAIN order[t],
             order[t][a] = g[j], order[t][b] = g[i]
      PROVE  b <= a
  <2>1. DOMAIN g = 1..Len(g)
    <3>1. sent[d] \in Seq(Messages) /\ pending[d] \in Seq(Messages)
      BY DEF TypesOK, TypeOK
    <3> QED BY <1>2, <3>1, Joining
  <2>2. i \in 1..Len(g) /\ j \in 1..Len(g) /\ a \in 1..Len(order[t]) /\ b \in 1..Len(order[t])
    BY <1>1, <2>1
  <2>3. Ordered(g, d, order)
    BY <1>2 DEF OrderedOK
  <2> QED BY <1>2, <2>2, <2>3 DEF Ordered
<1> SUFFICES ASSUME NEW d \in Conns,
                    NEW i \in DOMAIN (sent[d] \o pending[d]),
                    NEW j \in DOMAIN (sent[d] \o pending[d]),
                    i < j, ~SameLoop((sent[d] \o pending[d])[i].by, d),
                    NEW t \in Topics, NEW a \in DOMAIN order[t], NEW b \in DOMAIN order[t],
                    order[t][a] = (sent[d] \o pending[d])[j],
                    order[t][b] = (sent[d] \o pending[d])[i]
             PROVE  b <= a
  BY DEF TopicOrderKept
<1> QED BY <1>2

LEMMA OrderStays ==
    ASSUME OrderedOK, UNCHANGED <<sent, pending, order>>
    PROVE  OrderedOK'
BY DEF OrderedOK

\* A request finds its loop free and is counted.
LEMMA Asked ==
    ASSUME TypesOK, NEW c \in Conns, MayAsk(c), Asking(c)
    PROVE  /\ at[c] = Idle /\ at[c].step = "idle" /\ c \notin closed
           /\ asked' \in [Conns -> 0..MaxRequests]
           /\ asked'[c] = asked[c] + 1 /\ asked'[c] \in 1..MaxRequests
           /\ asked[c] \in Nat
           /\ \A d \in Conns : d # c => asked'[d] = asked[d]
           /\ \A d \in Conns : asked[d] \in Nat /\ asked[d] <= asked'[d]
<1>1. at[c] = Idle /\ c \notin closed /\ asked[c] < MaxRequests
  BY DEF MayAsk, LoopFree, SameLoop
<1>2. asked \in [Conns -> 0..MaxRequests] /\ asked' = [asked EXCEPT ![c] = @ + 1]
  BY DEF TypesOK, TypeOK, Asking
<1>3. asked'[c] = asked[c] + 1 /\ \A d \in Conns : d # c => asked'[d] = asked[d]
  BY <1>2
<1>4. \A d \in Conns : asked[d] \in 0..MaxRequests
  BY <1>2
<1>5. asked[c] + 1 \in 1..MaxRequests /\ asked[c] + 1 \in 0..MaxRequests
  BY <1>1, <1>4, Ranges
<1>6. asked' \in [Conns -> 0..MaxRequests]
  BY <1>2, <1>5
<1>7. \A d \in Conns : asked[d] \in Nat /\ asked[d] <= asked'[d]
  BY <1>3, <1>4, Ranges
<1> QED BY <1>1, <1>3, <1>5, <1>6, <1>7, Going

LEMMA Moves ==
    ASSUME TypesOK, NEW c \in Conns, NEW y \in Place, at' = [at EXCEPT ![c] = y]
    PROVE  /\ at' \in [Conns -> Place] /\ at'[c] = y
           /\ \A d \in Conns : d # c => at'[d] = at[d]
           /\ \A d \in Conns : at'[d].step \in Steps
BY PlaceOf DEF TypesOK

LEMMA Counted ==
    ASSUME TypesOK, Numbered, subs' = subs, asked' \in [Conns -> 0..MaxRequests],
           \A d \in Conns : asked[d] <= asked'[d]
    PROVE  \A d \in Conns, n \in Names : subs'[d][n] <= asked'[d]
<1> TAKE d \in Conns, n \in Names
<1>1. subs[d][n] \in Nat /\ asked[d] \in Nat /\ asked'[d] \in Nat
  BY Ranges DEF TypesOK, TypeOK
<1> QED BY <1>1 DEF Numbered

\* Only SendSubscribers gives a message its place.
LEMMA PlacesStay ==
    ASSUME TypesOK, PlacesOK, order' = order,
           \A c \in Conns : asked[c] \in Nat /\ asked'[c] \in Nat /\ asked[c] <= asked'[c],
           \A c \in Conns : at'[c].step = "sending" =>
                /\ at[c].step = "sending"
                /\ at'[c].topic = at[c].topic /\ at'[c].message = at[c].message,
           \A c \in Conns : at'[c].step = "publish" =>
                \/ at[c].step = "publish" /\ at'[c].message = at[c].message
                \/ at'[c].message.by = c /\ at'[c].message.no > asked[c],
           \A d \in Conns : \A m \in Elements(sent'[d]) \cup Elements(pending'[d]) :
                m \in Elements(sent[d]) \cup Elements(pending[d]) \/ Placed(m)
    PROVE  PlacesOK'
<1>1. ASSUME NEW t \in Topics, NEW m \in Elements(order[t])
      PROVE  m.no <= asked'[m.by] /\ (at'[m.by].step = "publish" => m # at'[m.by].message)
  <2>1. m \in Messages
    BY DEF TypesOK, TypeOK, Elements
  <2>2. m.by \in Conns /\ m.no \in Nat
    BY <2>1, Ranges DEF Messages
  <2>3. m.no <= asked[m.by] /\ (at[m.by].step = "publish" => m # at[m.by].message)
    BY DEF PlacesOK
  <2>4. m.no <= asked'[m.by]
    BY <2>2, <2>3
  <2>5. ASSUME at'[m.by].step = "publish", m = at'[m.by].message PROVE FALSE
    BY <2>2, <2>3, <2>5
  <2> QED BY <2>4, <2>5
<1>2. \A d \in Conns : \A m \in Elements(sent'[d]) \cup Elements(pending'[d]) : Placed(m)
  BY DEF PlacesOK
<1>3. \A c \in Conns : at'[c].step = "sending" =>
          /\ Len(order[at'[c].topic]) > 0
          /\ order[at'[c].topic][Len(order[at'[c].topic])] = at'[c].message
  BY DEF PlacesOK
<1> QED BY <1>1, <1>2, <1>3 DEF PlacesOK, Placed

-----------------------------------------------------------------------------
(* One lemma for each action of Topic.                                     *)

LEMMA InitIInv == Init => IInv
<1> SUFFICES ASSUME Init PROVE IInv
  OBVIOUS
<1>1. <<>> \in Seq(Messages) /\ Elements(<<>>) = {} /\ DOMAIN (<<>> \o <<>>) = {}
  BY EmptySeq DEF Elements
<1>2. TypesOK
  <2>1. /\ \A c \in Conns : at[c] = Idle /\ at[c].step \in Steps /\ Held(at[c]) = 0
        /\ at \in [Conns -> Place]
    BY Going DEF Init, Steps, Held, NoTopic
  <2>2. 0 \in 0..MaxTopics /\ 0 \in 0..MaxRequests
    BY Ranges
  <2> QED BY <1>1, <2>1, <2>2, Ranges DEF Init, TypesOK, TypeOK
<1>3. Numbered
  BY Ranges DEF Init, Numbered
<1>4. OneName /\ OneSender /\ HandlersOK /\ JoinedOK /\ OwedOK
  BY Going DEF Init, OneName, OneSender, HandlersOK, HandlerOK, JoinedOK, OwedOK
<1>5. CancelOK
  BY Going DEF Init, CancelOK
<1>6. PlacesOK
  <2>1. \A t \in Topics : DOMAIN order[t] = {} /\ Elements(order[t]) = {}
    BY <1>1 DEF Init
  <2>2. \A c \in Conns : Elements(sent[c]) = {} /\ Elements(pending[c]) = {}
    BY <1>1 DEF Init
  <2> QED BY <2>1, <2>2, Going DEF PlacesOK, Init
<1>7. OrderedOK
  <2>1. <<>> \o <<>> = <<>> /\ 1..Len(<<>>) = {}
    BY <1>1, ConcatEmptySeq, EmptySeq
  <2> QED BY <2>1 DEF Init, OrderedOK, Ordered
<1> QED BY <1>2, <1>3, <1>4, <1>5, <1>6, <1>7 DEF IInv

\* A request for a topic that is not there counts as a request.
LEMMA RequestRefused ==
    ASSUME IInv, NEW c \in Conns, MayAsk(c), Asking(c),
           UNCHANGED <<tables, at, pending, histories, closed, running>>
    PROVE  IInv'
<1>1. /\ TypesOK /\ TypeOK /\ Numbered /\ OneName /\ OneSender /\ HandlersOK
      /\ JoinedOK /\ OwedOK /\ CancelOK /\ PlacesOK /\ OrderedOK
  BY DEF IInv, TypesOK
<1>2. UNCHANGED <<topics, made, members, stored, at, pending, sent, order, joined, subs, owed,
                  closed, running>>
  BY DEF tables, histories
<1>3. /\ at[c] = Idle /\ at[c].step = "idle"
      /\ asked' \in [Conns -> 0..MaxRequests]
      /\ \A d \in Conns : d # c => asked'[d] = asked[d]
      /\ \A d \in Conns : asked[d] \in Nat /\ asked[d] <= asked'[d]
  BY <1>1, Asked
<1>4. TypesOK'
  BY <1>1, <1>2, <1>3 DEF TypesOK, TypeOK
<1>5. Numbered'
  <2>1. \A d \in Conns, k \in Names : subs'[d][k] <= asked'[d]
    BY <1>1, <1>2, <1>3, Counted
  <2> QED BY <1>1, <1>2, <2>1 DEF Numbered
<1>6. OneName' /\ OneSender' /\ JoinedOK' /\ CancelOK'
  BY <1>1, <1>2 DEF OneName, OneSender, JoinedOK, CancelOK, Once, Never
<1>7. HandlersOK'
  <2> SUFFICES ASSUME NEW d \in Conns PROVE HandlerOK(d)'
    BY DEF HandlersOK
  <2>1. at[d].step \in {"publish", "sending"} => asked'[d] = asked[d]
    BY <1>3
  <2> QED BY <1>1, <1>2, <2>1 DEF HandlersOK, HandlerOK
<1>8. OwedOK'
  BY <1>1, <1>2 DEF OwedOK, Underway
<1>9. PlacesOK'
  <2>1. \A d \in Conns : asked[d] \in Nat /\ asked'[d] \in Nat /\ asked[d] <= asked'[d]
    BY <1>3, Ranges
  <2> QED BY <1>1, <1>2, <2>1, PlacesStay
<1>10. OrderedOK'
  BY <1>1, <1>2, OrderStays
<1> QED BY <1>4, <1>5, <1>6, <1>7, <1>8, <1>9, <1>10 DEF IInv

\* A new object has no members.
LEMMA AddTopicKeepsIInv ==
    ASSUME IInv, NEW c \in Conns, NEW n \in Names, AddTopic(c, n) PROVE IInv'
<1>1. /\ TypesOK /\ TypeOK /\ Numbered /\ OneName /\ OneSender /\ HandlersOK
      /\ JoinedOK /\ OwedOK /\ CancelOK /\ PlacesOK /\ OrderedOK
  BY DEF IInv, TypesOK
<1>2. /\ MayAsk(c) /\ Asking(c)
      /\ UNCHANGED <<members, stored, at, pending, sent, order, joined, subs, owed,
                     closed, running>>
  BY DEF AddTopic, histories
<1>3. /\ at[c] = Idle /\ at[c].step = "idle"
      /\ asked' \in [Conns -> 0..MaxRequests]
      /\ asked'[c] = asked[c] + 1 /\ asked[c] \in Nat
      /\ \A d \in Conns : d # c => asked'[d] = asked[d]
      /\ \A d \in Conns : asked[d] \in Nat /\ asked[d] <= asked'[d]
  BY <1>1, <1>2, Asked
<1>4. made \in Nat /\ made <= MaxTopics /\ \A k \in Names : topics[k] \in Nat /\ topics[k] <= made
  BY <1>1, Ranges DEF TypeOK, Numbered
<1>5. /\ topics' \in [Names -> Topics \cup {NoTopic}]
      /\ made' \in 0..MaxTopics /\ made <= made'
      /\ \A k \in Names : topics'[k] = topics[k] \/
            (k = n /\ topics[n] = NoTopic /\ topics'[n] = made + 1 /\ made' = made + 1)
  <2>1. CASE topics[n] = NoTopic
    <3>1. made < MaxTopics /\ made' = made + 1 /\ topics' = [topics EXCEPT ![n] = made + 1]
      BY <2>1 DEF AddTopic
    <3>2. made + 1 \in Topics /\ made + 1 \in 0..MaxTopics
      BY <1>4, <3>1, Ranges
    <3>3. topics' \in [Names -> Topics \cup {NoTopic}]
      BY <1>1, <3>1, <3>2 DEF TypeOK
    <3> QED BY <1>1, <1>4, <2>1, <3>1, <3>2, <3>3 DEF TypeOK
  <2>2. CASE topics[n] # NoTopic
    BY <1>1, <1>4, <2>2 DEF AddTopic, TypeOK
  <2> QED BY <2>1, <2>2
<1>6. \A d \in Conns : at[d].step # "idle" => at[d].topic \in Nat /\ at[d].topic <= made
  <2> SUFFICES ASSUME NEW d \in Conns, at[d].step # "idle"
               PROVE  at[d].topic \in Nat /\ at[d].topic <= made
    OBVIOUS
  <2>1. Held(at[d]) \in 0..made
    BY <1>1 DEF TypeOK
  <2> QED BY <1>4, <2>1 DEF Held
<1>7. TypesOK'
  <2>1. \A d \in Conns : Held(at[d]) \in 0..made'
    BY <1>1, <1>4, <1>5, Ranges DEF TypeOK
  <2> QED BY <1>1, <1>2, <1>3, <1>5, <2>1 DEF TypesOK, TypeOK
<1>8. Numbered'
  <2>1. \A k \in Names : topics'[k] <= made'
    BY <1>4, <1>5, Ranges
  <2>2. \A t \in Topics : t > made' => members[t] = {}
    BY <1>1, <1>4, <1>5, Ranges DEF Numbered
  <2>3. \A d \in Conns, k \in Names : subs'[d][k] <= asked'[d]
    BY <1>1, <1>2, <1>3, Counted
  <2> QED BY <1>2, <2>1, <2>2, <2>3 DEF Numbered
<1>9. OneName'
  BY <1>1, <1>4, <1>5 DEF OneName
<1>10. OneSender'
  BY <1>1, <1>2 DEF OneSender
<1>11. HandlersOK'
  <2> SUFFICES ASSUME NEW d \in Conns PROVE HandlerOK(d)'
    BY DEF HandlersOK
  <2>1. at[d].step # "idle" => \A k \in Names : topics'[k] = at[d].topic => topics[k] = at[d].topic
    BY <1>4, <1>5, <1>6
  <2>2. at[d].step \in {"publish", "sending"} => asked'[d] = asked[d]
    BY <1>3
  <2> QED BY <1>1, <1>2, <2>1, <2>2 DEF HandlersOK, HandlerOK
<1>12. JoinedOK'
  <2>1. \A k \in Names : topics[k] # NoTopic => topics'[k] = topics[k]
    BY <1>5
  <2> QED BY <1>1, <1>2, <2>1 DEF JoinedOK
<1>13. OwedOK'
  BY <1>1, <1>2 DEF OwedOK, Underway
<1>14. CancelOK'
  <2>1. \A k \in Names : topics'[k] # topics[k] => members[topics'[k]] = {}
    BY <1>1, <1>4, <1>5, Ranges DEF Numbered
  <2> SUFFICES ASSUME NEW d \in Conns, NEW k \in Names, Once(d, k),
                      topics'[k] # NoTopic, \E s \in members[topics'[k]] : s[1] = d
               PROVE  \/ joined[d][k] = topics'[k]
                      \/ at[d].step = "leave" /\ at[d].topic = topics'[k]
    BY <1>1, <1>2 DEF CancelOK, Once, Never
  <2> QED BY <1>1, <2>1 DEF CancelOK
<1>15. PlacesOK'
  <2>1. \A d \in Conns : asked[d] \in Nat /\ asked'[d] \in Nat /\ asked[d] <= asked'[d]
    BY <1>3, Ranges
  <2> QED BY <1>1, <1>2, <2>1, PlacesStay
<1>16. OrderedOK'
  BY <1>1, <1>2, OrderStays
<1> QED BY <1>7, <1>8, <1>9, <1>10, <1>11, <1>12, <1>13, <1>14, <1>15, <1>16 DEF IInv

\* The object of a topic that is removed is under no name any more.
LEMMA RemoveTopicKeepsIInv ==
    ASSUME IInv, NEW c \in Conns, NEW n \in Names, RemoveTopic(c, n) PROVE IInv'
<1>1. /\ TypesOK /\ TypeOK /\ Numbered /\ OneName /\ OneSender /\ HandlersOK
      /\ JoinedOK /\ OwedOK /\ CancelOK /\ PlacesOK /\ OrderedOK
  BY DEF IInv, TypesOK
<1>2. /\ MayAsk(c) /\ Asking(c)
      /\ topics' = [topics EXCEPT ![n] = NoTopic]
      /\ joined' = [d \in Conns |-> [joined[d] EXCEPT ![n] = NoTopic]]
      /\ owed' = [d \in Conns |-> owed[d] \ OfName(n, owed[d])]
      /\ UNCHANGED <<made, members, stored, pending, sent, order, subs, closed, running>>
  BY DEF RemoveTopic
<1>3. /\ at[c] = Idle /\ at[c].step = "idle"
      /\ asked' \in [Conns -> 0..MaxRequests]
      /\ asked'[c] = asked[c] + 1 /\ asked[c] \in Nat
      /\ \A d \in Conns : d # c => asked'[d] = asked[d]
      /\ \A d \in Conns : asked[d] \in Nat /\ asked[d] <= asked'[d]
  BY <1>1, <1>2, Asked
<1>4. /\ topics' \in [Names -> Topics \cup {NoTopic}] /\ topics'[n] = NoTopic
      /\ \A k \in Names : k # n => topics'[k] = topics[k]
  BY <1>1, <1>2 DEF TypeOK
<1>5. /\ joined' \in [Conns -> [Names -> Topics \cup {NoTopic}]]
      /\ \A d \in Conns : joined'[d][n] = NoTopic
      /\ \A d \in Conns, k \in Names : k # n => joined'[d][k] = joined[d][k]
  BY <1>1, <1>2 DEF TypeOK
<1>6. \A d \in Conns : \A m \in owed'[d] : m \in owed[d] /\ m.name # n
  BY <1>2 DEF OfName
<1>7. /\ at' \in [Conns -> Place]
      /\ at'[c].step # "idle" =>
            at'[c].step = "removeAll" /\ topics[n] # NoTopic /\ at'[c].topic = topics[n]
      /\ \A d \in Conns : d # c => at'[d] = at[d]
  <2>1. CASE topics[n] = NoTopic
    BY <1>1, <1>3, <2>1 DEF RemoveTopic, TypesOK
  <2>2. CASE topics[n] # NoTopic
    <3> DEFINE x == [step |-> "removeAll", topic |-> topics[n], name |-> n]
    <3>1. topics[n] \in Topics
      BY <1>1, <2>2 DEF TypeOK
    <3>2. x \in Place /\ x.step = "removeAll" /\ x.topic = topics[n]
      BY <3>1, Going
    <3>3. at' = [at EXCEPT ![c] = x]
      BY <2>2 DEF RemoveTopic
    <3> HIDE DEF x
    <3> QED BY <1>1, <2>2, <3>2, <3>3 DEF TypesOK
  <2> QED BY <2>1, <2>2
<1>8. \A d \in Conns, k \in Names :
          at[d].step # "idle" /\ topics'[k] = at[d].topic => k # n /\ topics[k] = at[d].topic
  <2> TAKE d \in Conns, k \in Names
  <2>1. at[d].step # "idle" => at[d].topic # NoTopic
    BY <1>1, PlaceOf, Ranges DEF TypesOK
  <2> QED BY <1>4, <2>1
<1>9. TypesOK'
  <2>1. ASSUME NEW d \in Conns
        PROVE  at'[d].step \in Steps /\ Held(at'[d]) \in 0..made
    <3>1. at'[d].step \in Steps
      BY <1>7, PlaceOf
    <3>2. CASE d = c
      <4>1. topics[n] # NoTopic => topics[n] \in 0..made
        BY <1>1, Ranges DEF TypeOK, Numbered
      <4>2. 0 \in 0..made
        BY <1>1, Ranges DEF TypeOK
      <4> QED BY <1>7, <3>1, <3>2, <4>1, <4>2 DEF Held, NoTopic
    <3>3. CASE d # c
      BY <1>1, <1>7, <3>1, <3>3 DEF TypeOK
    <3> QED BY <3>2, <3>3
  <2>2. owed' \in [Conns -> SUBSET Messages]
    BY <1>1, <1>2 DEF TypeOK
  <2> QED BY <1>1, <1>2, <1>3, <1>4, <1>5, <1>7, <2>1, <2>2 DEF TypesOK, TypeOK
<1>10. Numbered'
  <2>1. \A k \in Names : topics'[k] <= made
    BY <1>1, <1>4, Zero DEF TypeOK, Numbered
  <2>2. \A d \in Conns, k \in Names : subs'[d][k] <= asked'[d]
    BY <1>1, <1>2, <1>3, Counted
  <2> QED BY <1>1, <1>2, <2>1, <2>2 DEF Numbered
<1>11. OneName'
  BY <1>1, <1>4 DEF OneName
<1>12. OneSender'
  BY <1>1, <1>7 DEF OneSender
<1>13. HandlersOK'
  <2> SUFFICES ASSUME NEW d \in Conns PROVE HandlerOK(d)'
    BY DEF HandlersOK
  <2>1. CASE d = c
    <3>1. topics[n] # NoTopic => \A k \in Names : topics'[k] # topics[n]
      BY <1>1, <1>4 DEF OneName
    <3> QED BY <1>1, <1>2, <1>7, <2>1, <3>1 DEF HandlersOK, HandlerOK
  <2>2. CASE d # c
    <3>1. at'[d] = at[d] /\ asked'[d] = asked[d]
      BY <1>3, <1>7, <2>2
    <3>2. \A k \in Names : at[d].step # "idle" /\ topics'[k] = at[d].topic =>
              topics[k] = at[d].topic /\ joined'[d][k] = joined[d][k]
      BY <1>5, <1>8
    <3> QED BY <1>1, <1>2, <3>1, <3>2 DEF HandlersOK, HandlerOK
  <2> QED BY <2>1, <2>2
<1>14. JoinedOK'
  BY <1>1, <1>2, <1>4, <1>5 DEF JoinedOK
<1>15. OwedOK'
  <2> SUFFICES ASSUME NEW d \in Conns \ closed, NEW m \in owed'[d] PROVE Underway(d, m)'
    BY <1>2 DEF OwedOK
  <2>1. m \in owed[d] /\ m.name # n /\ m \in Messages
    BY <1>1, <1>6 DEF TypeOK
  <2>2. m.by \in Conns /\ m.name \in Names
    BY <2>1 DEF Messages
  <2>3. /\ at[m.by].step \in {"publish", "sending"} /\ at[m.by].message = m
        /\ joined[d][m.name] = at[m.by].topic
        /\ at[m.by].step = "sending" => \E s \in at[m.by].rest : s[1] = d
    BY <1>1, <2>1 DEF OwedOK, Underway
  <2>4. at'[m.by] = at[m.by]
    BY <1>3, <1>7, <2>2, <2>3
  <2> QED BY <1>5, <2>1, <2>2, <2>3, <2>4 DEF Underway
<1>16. CancelOK'
  <2>1. \A d \in Conns : at'[d].step = "join" => at[d].step = "join" /\ at'[d] = at[d]
    BY <1>7
  <2>2. ASSUME NEW d \in Conns, NEW k \in Names, Once(d, k),
               topics'[k] # NoTopic, \E s \in members[topics'[k]] : s[1] = d
        PROVE  \/ joined'[d][k] = topics'[k]
               \/ at'[d].step = "leave" /\ at'[d].topic = topics'[k]
    <3>1. k # n /\ topics'[k] = topics[k] /\ joined'[d][k] = joined[d][k]
      BY <1>4, <1>5, <2>2
    <3>2. \/ joined[d][k] = topics[k]
          \/ at[d].step = "leave" /\ at[d].topic = topics[k]
      BY <1>1, <2>2, <3>1 DEF CancelOK
    <3> QED BY <1>3, <1>7, <3>1, <3>2
  <2> QED BY <1>1, <1>2, <2>1, <2>2 DEF CancelOK, Once, Never
<1>17. PlacesOK'
  <2>1. \A d \in Conns : asked[d] \in Nat /\ asked'[d] \in Nat /\ asked[d] <= asked'[d]
    BY <1>3, Ranges
  <2>2. \A d \in Conns : at'[d].step \in {"publish", "sending"} => at'[d] = at[d]
    BY <1>7
  <2> QED BY <1>1, <1>2, <2>1, <2>2, PlacesStay
<1>18. OrderedOK'
  BY <1>1, <1>2, OrderStays
<1> QED BY <1>9, <1>10, <1>11, <1>12, <1>13, <1>14, <1>15, <1>16, <1>17, <1>18 DEF IInv

\* Whatever the broken loop leaves of the members, nobody subscribes to them
\* under a name.
LEMMA RemoveAllSubscriberKeepsIInv ==
    ASSUME IInv, NEW c \in Conns, RemoveAllSubscriber(c) PROVE IInv'
<1> DEFINE t == at[c].topic
<1>1. /\ TypesOK /\ TypeOK /\ Numbered /\ OneName /\ OneSender /\ HandlersOK
      /\ JoinedOK /\ OwedOK /\ CancelOK /\ PlacesOK /\ OrderedOK
  BY DEF IInv, TypesOK
<1>2. /\ at[c].step = "removeAll"
      /\ at' = [at EXCEPT ![c] = Idle]
      /\ UNCHANGED <<topics, made, stored, pending, sent, order, joined, subs, owed,
                     closed, asked>>
  BY DEF RemoveAllSubscriber, histories
<1>3. t \in Topics /\ t # NoTopic /\ \A k \in Names : topics[k] # t
  BY <1>1, <1>2, PlaceOf, Ranges DEF TypesOK, HandlersOK, HandlerOK
<1>4. /\ at' \in [Conns -> Place] /\ at'[c] = Idle
      /\ \A d \in Conns : d # c => at'[d] = at[d]
      /\ \A d \in Conns : at'[d].step \in Steps
  BY <1>1, <1>2, Going, Moves
<1>5. /\ members' \in [Topics -> SUBSET SubscriberObjects]
      /\ \A u \in Topics : members'[u] \subseteq members[u] /\ (u # t => members'[u] = members[u])
      /\ running' \in BOOLEAN
  <2>1. CASE UNCHANGED members
    BY <1>1, <2>1 DEF RemoveAllSubscriber, TypeOK
  <2>2. CASE ~UNCHANGED members
    <3>1. PICK left \in SUBSET members[t] \ {members[t]} : members' = [members EXCEPT ![t] = left]
      BY <2>2 DEF RemoveAllSubscriber, Emptied
    <3>2. UNCHANGED running
      BY <2>2 DEF RemoveAllSubscriber
    <3> QED BY <1>1, <1>3, <3>1, <3>2 DEF TypeOK
  <2> QED BY <2>1, <2>2
<1> HIDE DEF t
<1>6. TypesOK'
  <2>1. \A d \in Conns : Held(at'[d]) \in 0..made
    <3>1. Held(Idle) \in 0..made
      BY <1>1, Ranges, Going DEF TypeOK, Held
    <3> QED BY <1>1, <1>4, <3>1 DEF TypeOK
  <2> QED BY <1>1, <1>2, <1>4, <1>5, <2>1 DEF TypesOK, TypeOK
<1>7. Numbered' /\ OneName'
  BY <1>1, <1>2, <1>5 DEF Numbered, OneName
<1>8. OneSender'
  BY <1>1, <1>4, Going DEF OneSender
<1>9. HandlersOK'
  <2> SUFFICES ASSUME NEW d \in Conns PROVE HandlerOK(d)'
    BY DEF HandlersOK
  <2> QED BY <1>1, <1>2, <1>4, Going DEF HandlersOK, HandlerOK
<1>10. JoinedOK'
  <2>1. \A k \in Names : topics[k] # NoTopic => topics[k] \in Topics /\ members'[topics[k]] = members[topics[k]]
    BY <1>1, <1>3, <1>5 DEF TypeOK
  <2> QED BY <1>1, <1>2, <2>1 DEF JoinedOK
<1>11. OwedOK'
  <2> SUFFICES ASSUME NEW d \in Conns \ closed, NEW m \in owed[d] PROVE Underway(d, m)'
    BY <1>2 DEF OwedOK
  <2>1. m.by \in Conns /\ Underway(d, m)
    BY <1>1 DEF OwedOK, TypeOK, Messages
  <2>2. at'[m.by] = at[m.by]
    BY <1>2, <1>4, <2>1 DEF Underway
  <2> QED BY <1>2, <2>1, <2>2 DEF Underway
<1>12. CancelOK'
  <2>1. \A d \in Conns : at[d].step = "leave" => at'[d] = at[d]
    BY <1>2, <1>4
  <2>2. \A d \in Conns : at'[d].step = "join" => at'[d] = at[d]
    BY <1>4, Going
  <2>3. \A k \in Names : topics[k] # NoTopic => topics[k] \in Topics
    BY <1>1 DEF TypeOK
  <2> QED BY <1>1, <1>2, <1>5, <2>1, <2>2, <2>3 DEF CancelOK, Once, Never
<1>13. PlacesOK'
  <2>1. \A d \in Conns : asked[d] \in Nat /\ asked'[d] \in Nat /\ asked[d] <= asked'[d]
    BY <1>1, <1>2, Ranges DEF TypeOK
  <2>2. \A d \in Conns : at'[d].step \in {"publish", "sending"} => at'[d] = at[d]
    BY <1>4, Going
  <2> QED BY <1>1, <1>2, <2>1, <2>2, PlacesStay
<1>14. OrderedOK'
  BY <1>1, <1>2, OrderStays
<1> QED BY <1>6, <1>7, <1>8, <1>9, <1>10, <1>11, <1>12, <1>13, <1>14 DEF IInv

\* A subscription comes into force if its topic is still under the name.
LEMMA AddSubscriberKeepsIInv == ASSUME IInv, NEW c \in Conns, AddSubscriber(c) PROVE IInv'
<1> DEFINE t == at[c].topic
           n == at[c].name
           who == at[c].who
<1>1. /\ TypesOK /\ TypeOK /\ Numbered /\ OneName /\ OneSender /\ HandlersOK
      /\ JoinedOK /\ OwedOK /\ CancelOK /\ PlacesOK /\ OrderedOK
  BY DEF IInv, TypesOK
<1>2. /\ at[c].step = "join"
      /\ members' = [members EXCEPT ![t] = @ \cup {who}]
      /\ joined' = IF topics[n] = t THEN [joined EXCEPT ![c][n] = t] ELSE joined
      /\ at' = [at EXCEPT ![c] = Idle]
      /\ UNCHANGED <<topics, made, stored, pending, sent, order, subs, owed,
                     closed, asked, running>>
  BY DEF AddSubscriber
<1>3. /\ t \in Topics /\ t # NoTopic /\ n \in Names /\ who \in SubscriberObjects /\ who[1] = c
      /\ subs[c][n] > 0 /\ \A k \in Names : topics[k] = t => k = n
  BY <1>1, <1>2, PlaceOf, Ranges DEF TypesOK, HandlersOK, HandlerOK
<1>4. /\ at' \in [Conns -> Place] /\ at'[c] = Idle
      /\ \A d \in Conns : d # c => at'[d] = at[d]
      /\ \A d \in Conns : at'[d].step \in Steps
  BY <1>1, <1>2, Going, Moves
<1>5. t \in Nat /\ t <= made /\ made \in Nat
  <2>1. Held(at[c]) \in 0..made /\ made \in Nat
    BY <1>1, Ranges DEF TypeOK
  <2>2. Held(at[c]) = t
    BY <1>2 DEF Held
  <2> QED BY <2>1, <2>2
<1>6. ASSUME NEW k \in Names, Once(c, k) PROVE k = n /\ who \in stored[c]
  <2>1. subs[c][n] \in Nat /\ subs[c][n] <= IF n = k THEN 1 ELSE 0
    BY <1>1, <1>3, <1>6, Ranges DEF Once, TypeOK
  <2>2. k = n
    BY <1>3, <2>1
  <2> QED BY <1>1, <1>2, <1>6, <2>2 DEF CancelOK
<1>7. ~Never(c)
  BY <1>3, Ranges DEF Never
<1> HIDE DEF t, n, who
<1>8. /\ members' \in [Topics -> SUBSET SubscriberObjects]
      /\ members'[t] = members[t] \cup {who}
      /\ \A u \in Topics : u # t => members'[u] = members[u]
  BY <1>1, <1>2, <1>3 DEF TypeOK
<1>9. /\ joined' \in [Conns -> [Names -> Topics \cup {NoTopic}]]
      /\ topics[n] = t => joined'[c][n] = t
      /\ \A d \in Conns, k \in Names :
            joined'[d][k] = joined[d][k] \/ (d = c /\ k = n /\ topics[n] = t /\ joined'[c][n] = t)
  <2>1. joined[c] \in [Names -> Topics \cup {NoTopic}]
    BY <1>1 DEF TypeOK
  <2>2. CASE topics[n] = t
    <3>1. joined' = [joined EXCEPT ![c][n] = t]
      BY <1>2, <2>2
    <3> QED BY <1>1, <1>3, <2>1, <2>2, <3>1 DEF TypeOK
  <2>3. CASE topics[n] # t
    BY <1>1, <1>2, <2>3 DEF TypeOK
  <2> QED BY <2>2, <2>3
<1>10. TypesOK'
  <2>1. \A d \in Conns : Held(at'[d]) \in 0..made
    <3>1. Held(Idle) \in 0..made
      BY <1>1, Ranges, Going DEF TypeOK, Held
    <3> QED BY <1>1, <1>4, <3>1 DEF TypeOK
  <2> QED BY <1>1, <1>2, <1>4, <1>8, <1>9, <2>1 DEF TypesOK, TypeOK
<1>11. Numbered'
  <2>1. \A u \in Topics : u > made => members'[u] = {}
    BY <1>1, <1>5, <1>8 DEF Numbered
  <2> QED BY <1>1, <1>2, <2>1 DEF Numbered
<1>12. OneName'
  BY <1>1, <1>2 DEF OneName
<1>13. OneSender'
  BY <1>1, <1>4, Going DEF OneSender
<1>14. HandlersOK'
  <2> SUFFICES ASSUME NEW d \in Conns PROVE HandlerOK(d)'
    BY DEF HandlersOK
  <2>1. CASE d = c
    BY <1>1, <1>2, <1>4, <2>1, Going DEF HandlersOK, HandlerOK
  <2>2. CASE d # c
    BY <1>1, <1>2, <1>4, <1>9, <2>2 DEF HandlersOK, HandlerOK
  <2> QED BY <2>1, <2>2
<1>15. JoinedOK'
  <2> SUFFICES ASSUME NEW d \in Conns, NEW k \in Names, joined'[d][k] # NoTopic
               PROVE  joined'[d][k] = topics[k] /\ \E s \in members'[topics[k]] : s[1] = d
    BY <1>2 DEF JoinedOK
  <2>1. CASE joined'[d][k] = joined[d][k]
    <3>1. joined[d][k] = topics[k] /\ \E s \in members[topics[k]] : s[1] = d
      BY <1>1, <2>1 DEF JoinedOK
    <3>2. topics[k] \in Topics
      BY <1>1, <2>1, <3>1 DEF TypeOK
    <3> QED BY <1>8, <2>1, <3>1, <3>2
  <2>2. CASE d = c /\ k = n /\ topics[n] = t /\ joined'[c][n] = t
    BY <1>3, <1>8, <2>2
  <2> QED BY <1>9, <2>1, <2>2
<1>16. OwedOK'
  <2> SUFFICES ASSUME NEW d \in Conns \ closed, NEW m \in owed[d] PROVE Underway(d, m)'
    BY <1>2 DEF OwedOK
  <2>1. m.by \in Conns /\ m.name \in Names /\ Underway(d, m)
    BY <1>1 DEF OwedOK, TypeOK, Messages
  <2>2. at'[m.by] = at[m.by]
    BY <1>2, <1>4, <2>1 DEF Underway
  <2>3. joined'[d][m.name] = joined[d][m.name]
    <3>1. joined[d][m.name] = at[m.by].topic /\ at[m.by].topic # NoTopic
      BY <1>1, <2>1, PlaceOf, Ranges DEF Underway, TypesOK
    <3>2. joined[d][m.name] = topics[m.name]
      BY <1>1, <2>1, <3>1 DEF JoinedOK
    <3> QED BY <1>9, <2>1, <3>2
  <2> QED BY <1>2, <2>1, <2>2, <2>3 DEF Underway
<1>17. CancelOK'
  <2>1. \A d \in Conns : at[d].step = "leave" => at'[d] = at[d]
    BY <1>2, <1>4
  <2>2. \A d \in Conns : at'[d].step = "join" => at'[d] = at[d]
    BY <1>4, Going
  <2>3. \A k \in Names : topics[k] # NoTopic => topics[k] \in Topics
    BY <1>1 DEF TypeOK
  <2> SUFFICES ASSUME NEW d \in Conns
               PROVE  /\ Never(d) => stored[d] = {} /\ \A u \in Topics : \A s \in members'[u] : s[1] # d
                      /\ \A k \in Names : Once(d, k) =>
                          /\ \A u \in Topics : \A s \in members'[u] : s[1] = d => s \in stored[d]
                          /\ at'[d].step = "join" => at'[d].who \in stored[d]
                          /\ topics[k] # NoTopic /\ (\E s \in members'[topics[k]] : s[1] = d) =>
                              \/ joined'[d][k] = topics[k]
                              \/ at'[d].step = "leave" /\ at'[d].topic = topics[k]
    BY <1>2 DEF CancelOK, Once, Never
  <2>4. CASE d = c
    <3> SUFFICES ASSUME NEW k \in Names, Once(c, k)
                 PROVE  /\ \A u \in Topics : \A s \in members'[u] : s[1] = c => s \in stored[c]
                        /\ topics[k] # NoTopic /\ (\E s \in members'[topics[k]] : s[1] = c) =>
                              joined'[c][k] = topics[k]
      BY <1>4, <1>7, <2>4, Going
    <3>1. k = n /\ who \in stored[c]
      BY <1>6
    <3>2. \A u \in Topics : \A s \in members'[u] : s[1] = c => s \in stored[c]
      BY <1>1, <1>8, <3>1 DEF CancelOK
    <3>3. ASSUME topics[n] # NoTopic, NEW s \in members'[topics[n]], s[1] = c
          PROVE  joined'[c][n] = topics[n]
      <4>1. CASE topics[n] = t
        BY <1>9, <4>1
      <4>2. CASE topics[n] # t
        <5>1. s \in members[topics[n]]
          BY <1>8, <2>3, <3>3, <4>2, <1>3
        <5>2. joined[c][n] = topics[n]
          BY <1>1, <1>2, <1>3, <3>1, <3>3, <5>1 DEF CancelOK
        <5> QED BY <1>3, <1>9, <4>2, <5>2
      <4> QED BY <4>1, <4>2
    <3> QED BY <3>1, <3>2, <3>3
  <2>5. CASE d # c
    <3>1. \A u \in Topics : \A s \in members'[u] : s[1] = d => s \in members[u]
      BY <1>3, <1>8, <2>5
    <3>2. at'[d] = at[d] /\ \A k \in Names : joined'[d][k] = joined[d][k]
      BY <1>4, <1>9, <2>5
    <3> QED BY <1>1, <2>3, <3>1, <3>2 DEF CancelOK
  <2> QED BY <2>4, <2>5
<1>18. PlacesOK'
  <2>1. \A d \in Conns : asked[d] \in Nat /\ asked'[d] \in Nat /\ asked[d] <= asked'[d]
    BY <1>1, <1>2, Ranges DEF TypeOK
  <2>2. \A d \in Conns : at'[d].step \in {"publish", "sending"} => at'[d] = at[d]
    BY <1>4, Going
  <2> QED BY <1>1, <1>2, <2>1, <2>2, PlacesStay
<1>19. OrderedOK'
  BY <1>1, <1>2, OrderStays
<1> QED BY <1>10, <1>11, <1>12, <1>13, <1>14, <1>15, <1>16, <1>17, <1>18, <1>19 DEF IInv

\* A cancel takes out the client's Subscriber and nobody else's.
LEMMA RemoveSubscriberKeepsIInv == ASSUME IInv, NEW c \in Conns, RemoveSubscriber(c) PROVE IInv'
<1> DEFINE t == at[c].topic
<1>1. /\ TypesOK /\ TypeOK /\ Numbered /\ OneName /\ OneSender /\ HandlersOK
      /\ JoinedOK /\ OwedOK /\ CancelOK /\ PlacesOK /\ OrderedOK
  BY DEF IInv, TypesOK
<1>2. /\ at[c].step = "leave"
      /\ at' = [at EXCEPT ![c] = Idle]
      /\ UNCHANGED <<topics, made, stored, pending, sent, order, joined, subs, owed,
                     closed, asked, running>>
  BY DEF RemoveSubscriber, histories
<1>3. /\ t \in Topics /\ t # NoTopic
      /\ at[c].who = stored[c] /\ \A s \in stored[c] : s[1] = c
      /\ \A k \in Names : topics[k] = t => joined[c][k] = NoTopic
  BY <1>1, <1>2, PlaceOf, Ranges DEF TypesOK, HandlersOK, HandlerOK
<1>4. /\ at' \in [Conns -> Place] /\ at'[c] = Idle
      /\ \A d \in Conns : d # c => at'[d] = at[d]
      /\ \A d \in Conns : at'[d].step \in Steps
  BY <1>1, <1>2, Going, Moves
<1>5. /\ members' \in [Topics -> SUBSET SubscriberObjects]
      /\ members'[t] = members[t] \ stored[c]
      /\ \A u \in Topics : members'[u] \subseteq members[u] /\ (u # t => members'[u] = members[u])
  <2>1. members' = [members EXCEPT ![t] = members[t] \ stored[c]]
    BY <1>3 DEF RemoveSubscriber, Left
  <2> QED BY <1>1, <1>3, <2>1 DEF TypeOK
<1> HIDE DEF t
<1>6. TypesOK'
  <2>1. \A d \in Conns : Held(at'[d]) \in 0..made
    <3>1. Held(Idle) \in 0..made
      BY <1>1, Ranges, Going DEF TypeOK, Held
    <3> QED BY <1>1, <1>4, <3>1 DEF TypeOK
  <2> QED BY <1>1, <1>2, <1>4, <1>5, <2>1 DEF TypesOK, TypeOK
<1>7. Numbered' /\ OneName'
  BY <1>1, <1>2, <1>5 DEF Numbered, OneName
<1>8. OneSender'
  BY <1>1, <1>4, Going DEF OneSender
<1>9. HandlersOK'
  <2> SUFFICES ASSUME NEW d \in Conns PROVE HandlerOK(d)'
    BY DEF HandlersOK
  <2> QED BY <1>1, <1>2, <1>4, Going DEF HandlersOK, HandlerOK
<1>10. JoinedOK'
  <2> SUFFICES ASSUME NEW d \in Conns, NEW k \in Names, joined[d][k] # NoTopic
               PROVE  joined[d][k] = topics[k] /\ \E s \in members'[topics[k]] : s[1] = d
    BY <1>2 DEF JoinedOK
  <2>1. joined[d][k] = topics[k]
    BY <1>1 DEF JoinedOK
  <2>2. PICK s \in members[topics[k]] : s[1] = d
    BY <1>1 DEF JoinedOK
  <2>3. topics[k] \in Topics
    BY <1>1, <2>1 DEF TypeOK
  <2>4. CASE topics[k] = t
    <3>1. d # c
      BY <1>3, <2>4
    <3> QED BY <1>3, <1>5, <2>1, <2>2, <2>4, <3>1
  <2>5. CASE topics[k] # t
    BY <1>5, <2>1, <2>2, <2>3, <2>5
  <2> QED BY <2>4, <2>5
<1>11. OwedOK'
  <2> SUFFICES ASSUME NEW d \in Conns \ closed, NEW m \in owed[d] PROVE Underway(d, m)'
    BY <1>2 DEF OwedOK
  <2>1. m.by \in Conns /\ Underway(d, m)
    BY <1>1 DEF OwedOK, TypeOK, Messages
  <2>2. at'[m.by] = at[m.by]
    BY <1>2, <1>4, <2>1 DEF Underway
  <2> QED BY <1>2, <2>1, <2>2 DEF Underway
<1>12. CancelOK'
  <2>1. \A d \in Conns : at'[d].step = "join" => at'[d] = at[d]
    BY <1>4, Going
  <2>2. \A k \in Names : topics[k] # NoTopic => topics[k] \in Topics
    BY <1>1 DEF TypeOK
  <2>3. ASSUME NEW d \in Conns, NEW k \in Names, Once(d, k),
               topics[k] # NoTopic, NEW s \in members'[topics[k]], s[1] = d
        PROVE  \/ joined[d][k] = topics[k]
               \/ at'[d].step = "leave" /\ at'[d].topic = topics[k]
    <3>1. s \in members[topics[k]] /\ s \in stored[d]
      BY <1>1, <1>5, <2>2, <2>3 DEF CancelOK
    <3>2. \/ joined[d][k] = topics[k]
          \/ at[d].step = "leave" /\ at[d].topic = topics[k]
      BY <1>1, <2>3, <3>1 DEF CancelOK
    <3>3. d = c => topics[k] # t
      BY <1>5, <2>3, <3>1
    <3> QED BY <1>4, <3>2, <3>3 DEF t
  <2> QED BY <1>1, <1>2, <1>5, <2>1, <2>2, <2>3 DEF CancelOK, Once, Never
<1>13. PlacesOK'
  <2>1. \A d \in Conns : asked[d] \in Nat /\ asked'[d] \in Nat /\ asked[d] <= asked'[d]
    BY <1>1, <1>2, Ranges DEF TypeOK
  <2>2. \A d \in Conns : at'[d].step \in {"publish", "sending"} => at'[d] = at[d]
    BY <1>4, Going
  <2> QED BY <1>1, <1>2, <2>1, <2>2, PlacesStay
<1>14. OrderedOK'
  BY <1>1, <1>2, OrderStays
<1> QED BY <1>6, <1>7, <1>8, <1>9, <1>10, <1>11, <1>12, <1>13, <1>14 DEF IInv

\* The first subscription's Subscriber is the one that is kept.
LEMMA SubscribeTopicKeepsIInv ==
    ASSUME IInv, NEW c \in Conns, NEW n \in Names, SubscribeTopic(c, n) PROVE IInv'
<1> DEFINE t == topics[n]
           who == <<c, asked'[c]>>
           x == [step |-> "join", topic |-> t, name |-> n, who |-> who]
<1>1. /\ TypesOK /\ TypeOK /\ Numbered /\ OneName /\ OneSender /\ HandlersOK
      /\ JoinedOK /\ OwedOK /\ CancelOK /\ PlacesOK /\ OrderedOK
  BY DEF IInv, TypesOK
<1>2. /\ MayAsk(c) /\ Asking(c)
      /\ UNCHANGED <<topics, made, members, pending, sent, order, joined, owed,
                     closed, running>>
  BY DEF SubscribeTopic
<1>3. /\ at[c] = Idle /\ at[c].step = "idle"
      /\ asked' \in [Conns -> 0..MaxRequests]
      /\ asked'[c] = asked[c] + 1 /\ asked'[c] \in 1..MaxRequests /\ asked[c] \in Nat
      /\ \A d \in Conns : d # c => asked'[d] = asked[d]
      /\ \A d \in Conns : asked[d] \in Nat /\ asked[d] <= asked'[d]
  BY <1>1, <1>2, Asked
<1>4. CASE t = NoTopic
  <2>1. UNCHANGED <<at, stored, subs>>
    BY <1>4 DEF SubscribeTopic
  <2> QED BY <1>2, <2>1, RequestRefused DEF tables, histories
<1>5. CASE t # NoTopic
  <2>1. /\ at' = [at EXCEPT ![c] = x]
        /\ stored' = [stored EXCEPT ![c] = Stored(c)]
        /\ subs' = [subs EXCEPT ![c][n] = @ + 1]
    BY <1>5 DEF SubscribeTopic
  <2>2. t \in Topics /\ who \in SubscriberObjects /\ who[1] = c
    BY <1>1, <1>3, <1>5 DEF TypeOK, SubscriberObjects
  <2>3. /\ x \in Place /\ x.step = "join" /\ x.topic = t /\ x.name = n /\ x.who = who
        /\ Held(x) = t
    BY <2>2, Going DEF Held
  <2>4. Stored(c) = IF stored[c] = {} THEN {who} ELSE stored[c]
    BY DEF Stored
  <2> HIDE DEF who, x, t
  <2>5. /\ at' \in [Conns -> Place] /\ at'[c] = x
        /\ \A d \in Conns : d # c => at'[d] = at[d]
        /\ \A d \in Conns : at'[d].step \in Steps
    BY <1>1, <2>1, <2>3, Moves
  <2>6. /\ stored' \in [Conns -> SUBSET SubscriberObjects]
        /\ stored'[c] = IF stored[c] = {} THEN {who} ELSE stored[c]
        /\ \A d \in Conns : d # c => stored'[d] = stored[d]
    BY <1>1, <2>1, <2>2, <2>4 DEF TypeOK
  <2>7. /\ subs' \in [Conns -> [Names -> 0..MaxRequests]]
        /\ subs'[c][n] = subs[c][n] + 1 /\ subs[c][n] \in Nat /\ subs[c][n] <= asked[c]
        /\ \A d \in Conns, k \in Names : ~(d = c /\ k = n) => subs'[d][k] = subs[d][k]
    <3>1. /\ subs[c] \in [Names -> 0..MaxRequests]
          /\ subs[c][n] \in Nat /\ subs[c][n] <= asked[c]
      BY <1>1, Ranges DEF TypeOK, Numbered
    <3>2. subs[c][n] + 1 \in 0..MaxRequests
      BY <1>3, <3>1, Ranges
    <3>3. [subs[c] EXCEPT ![n] = subs[c][n] + 1] \in [Names -> 0..MaxRequests]
      BY <3>1, <3>2
    <3>4. subs' = [subs EXCEPT ![c] = [subs[c] EXCEPT ![n] = subs[c][n] + 1]]
      BY <2>1
    <3> QED BY <1>1, <3>1, <3>3, <3>4 DEF TypeOK
  <2>8. TypesOK'
    <3>1. t \in 0..made
      BY <1>1, <2>2, Ranges DEF TypeOK, Numbered, t
    <3>2. \A d \in Conns : Held(at'[d]) \in 0..made
      BY <1>1, <2>3, <2>5, <3>1 DEF TypeOK
    <3> QED BY <1>1, <1>2, <1>3, <2>5, <2>6, <2>7, <3>2 DEF TypesOK, TypeOK
  <2>9. Numbered'
    <3>1. \A d \in Conns, k \in Names : subs'[d][k] <= asked'[d]
      <4> TAKE d \in Conns, k \in Names
      <4>1. subs[d][k] \in Nat /\ subs[d][k] <= asked[d] /\ asked'[d] \in Nat
        BY <1>1, <1>3, Ranges DEF TypeOK, Numbered
      <4>2. CASE d = c /\ k = n
        BY <1>3, <2>7, <4>2
      <4>3. CASE ~(d = c /\ k = n)
        BY <1>3, <2>7, <4>1, <4>3
      <4> QED BY <4>2, <4>3
    <3> QED BY <1>1, <1>2, <3>1 DEF Numbered
  <2>10. OneName'
    BY <1>1, <1>2 DEF OneName
  <2>11. OneSender'
    BY <1>1, <2>3, <2>5 DEF OneSender
  <2>12. HandlersOK'
    <3> SUFFICES ASSUME NEW d \in Conns PROVE HandlerOK(d)'
      BY DEF HandlersOK
    <3>1. CASE d = c
      <4>1. \A s \in stored'[c] : s[1] = c
        BY <1>1, <2>2, <2>6 DEF HandlersOK, HandlerOK
      <4>2. subs'[c][n] > 0
        BY <2>7
      <4>3. \A k \in Names : topics[k] = t => k = n
        BY <1>1, <1>5 DEF OneName, t
      <4> QED BY <1>2, <2>2, <2>3, <2>5, <3>1, <4>1, <4>2, <4>3 DEF HandlerOK
    <3>2. CASE d # c
      <4>1. /\ at'[d] = at[d] /\ asked'[d] = asked[d] /\ stored'[d] = stored[d]
            /\ \A k \in Names : subs'[d][k] = subs[d][k]
        BY <1>3, <2>5, <2>6, <2>7, <3>2
      <4>2. at[d].step = "join" => at[d].name \in Names
        BY <1>1, PlaceOf DEF TypesOK
      <4> QED BY <1>1, <1>2, <4>1, <4>2 DEF HandlersOK, HandlerOK
    <3> QED BY <3>1, <3>2
  <2>13. JoinedOK'
    BY <1>1, <1>2 DEF JoinedOK
  <2>14. OwedOK'
    <3> SUFFICES ASSUME NEW d \in Conns \ closed, NEW m \in owed[d] PROVE Underway(d, m)'
      BY <1>2 DEF OwedOK
    <3>1. m.by \in Conns /\ Underway(d, m)
      BY <1>1 DEF OwedOK, TypeOK, Messages
    <3>2. at'[m.by] = at[m.by]
      BY <1>3, <2>5, <3>1 DEF Underway
    <3> QED BY <1>2, <3>1, <3>2 DEF Underway
  <2>15. CancelOK'
    <3> SUFFICES ASSUME NEW d \in Conns
                 PROVE  /\ Never(d)' => /\ stored'[d] = {}
                                        /\ \A u \in Topics : \A s \in members[u] : s[1] # d
                        /\ \A k \in Names : Once(d, k)' =>
                            /\ \A u \in Topics : \A s \in members[u] : s[1] = d => s \in stored'[d]
                            /\ at'[d].step = "join" => at'[d].who \in stored'[d]
                            /\ topics[k] # NoTopic /\ (\E s \in members[topics[k]] : s[1] = d) =>
                                \/ joined[d][k] = topics[k]
                                \/ at'[d].step = "leave" /\ at'[d].topic = topics[k]
      BY <1>2 DEF CancelOK
    <3>1. CASE d = c
      <4>1. ~Never(c)'
        BY <2>7 DEF Never
      <4>2. ASSUME NEW k \in Names, Once(c, k)' PROVE Never(c)
        <5> SUFFICES ASSUME NEW j \in Names PROVE subs[c][j] = 0
          BY DEF Never
        <5>1. subs[c][j] \in Nat /\ subs'[c][j] <= (IF j = k THEN 1 ELSE 0)
          BY <1>1, <4>2, Ranges DEF Once, TypeOK
        <5>2. subs'[c][n] <= (IF n = k THEN 1 ELSE 0)
          BY <4>2 DEF Once
        <5>3. n = k
          BY <2>7, <5>2
        <5> QED BY <2>7, <5>1, <5>2, <5>3
      <4>3. Never(c) => /\ who \in stored'[c]
                        /\ \A u \in Topics : \A s \in members[u] : s[1] # c
        BY <1>1, <2>6 DEF CancelOK
      <4>4. \A k \in Names : topics[k] # NoTopic => topics[k] \in Topics
        BY <1>1 DEF TypeOK
      <4> QED BY <2>3, <2>5, <3>1, <4>1, <4>2, <4>3, <4>4
    <3>2. CASE d # c
      <4>1. /\ at'[d] = at[d] /\ stored'[d] = stored[d]
            /\ \A k \in Names : subs'[d][k] = subs[d][k]
        BY <2>5, <2>6, <2>7, <3>2
      <4>2. (Never(d)' <=> Never(d)) /\ \A k \in Names : Once(d, k)' <=> Once(d, k)
        BY <4>1 DEF Never, Once
      <4> QED BY <1>1, <4>1, <4>2 DEF CancelOK
    <3> QED BY <3>1, <3>2
  <2>16. PlacesOK'
    <3>1. \A d \in Conns : asked[d] \in Nat /\ asked'[d] \in Nat /\ asked[d] <= asked'[d]
      BY <1>3, Ranges
    <3>2. \A d \in Conns : at'[d].step \in {"publish", "sending"} => at'[d] = at[d]
      BY <2>3, <2>5
    <3> QED BY <1>1, <1>2, <3>1, <3>2, PlacesStay
  <2>17. OrderedOK'
    BY <1>1, <1>2, OrderStays
  <2> QED BY <2>8, <2>9, <2>10, <2>11, <2>12, <2>13, <2>14, <2>15, <2>16, <2>17 DEF IInv
<1> QED BY <1>4, <1>5

\* A subscription that was cancelled is not in force, and its handler is about
\* to take its Subscriber out.
LEMMA CancelSubscribeKeepsIInv ==
    ASSUME IInv, NEW c \in Conns, NEW n \in Names, CancelSubscribe(c, n) PROVE IInv'
<1> DEFINE x == [step |-> "leave", topic |-> topics[n], who |-> stored[c]]
<1>1. /\ TypesOK /\ TypeOK /\ Numbered /\ OneName /\ OneSender /\ HandlersOK
      /\ JoinedOK /\ OwedOK /\ CancelOK /\ PlacesOK /\ OrderedOK
  BY DEF IInv, TypesOK
<1>2. /\ MayAsk(c) /\ Asking(c)
      /\ joined' = [joined EXCEPT ![c][n] = NoTopic]
      /\ owed' = [owed EXCEPT ![c] = @ \ OfName(n, @)]
      /\ UNCHANGED <<topics, made, members, stored, pending, sent, order, subs, closed, running>>
  BY DEF CancelSubscribe, tables
<1>3. /\ at[c] = Idle /\ at[c].step = "idle"
      /\ asked' \in [Conns -> 0..MaxRequests]
      /\ asked'[c] = asked[c] + 1 /\ asked[c] \in Nat
      /\ \A d \in Conns : d # c => asked'[d] = asked[d]
      /\ \A d \in Conns : asked[d] \in Nat /\ asked[d] <= asked'[d]
  BY <1>1, <1>2, Asked
<1>4. /\ joined' \in [Conns -> [Names -> Topics \cup {NoTopic}]]
      /\ joined'[c][n] = NoTopic
      /\ \A d \in Conns, k \in Names : ~(d = c /\ k = n) => joined'[d][k] = joined[d][k]
  <2>1. joined[c] \in [Names -> Topics \cup {NoTopic}]
    BY <1>1 DEF TypeOK
  <2>2. joined' = [joined EXCEPT ![c] = [joined[c] EXCEPT ![n] = NoTopic]]
    BY <1>2
  <2> QED BY <1>1, <2>1, <2>2 DEF TypeOK
<1>5. /\ owed' \in [Conns -> SUBSET Messages]
      /\ \A d \in Conns : \A m \in owed'[d] : m \in owed[d] /\ (d = c => m.name # n)
  <2>1. owed'[c] = owed[c] \ OfName(n, owed[c]) /\ \A d \in Conns : d # c => owed'[d] = owed[d]
    BY <1>1, <1>2 DEF TypeOK
  <2>2. owed' \in [Conns -> SUBSET Messages]
    BY <1>1, <1>2 DEF TypeOK
  <2> QED BY <2>1, <2>2 DEF OfName
<1>6. /\ at' \in [Conns -> Place]
      /\ at'[c].step # "idle" =>
            /\ at'[c].step = "leave" /\ topics[n] # NoTopic
            /\ at'[c].topic = topics[n] /\ at'[c].who = stored[c]
      /\ at'[c].step = "idle" => topics[n] = NoTopic \/ stored[c] = {}
      /\ \A d \in Conns : d # c => at'[d] = at[d]
      /\ \A d \in Conns : at'[d].step \in Steps
  <2>1. CASE topics[n] = NoTopic \/ stored[c] = {}
    BY <1>1, <1>3, <2>1 DEF CancelSubscribe, TypesOK, TypeOK
  <2>2. CASE ~(topics[n] = NoTopic \/ stored[c] = {})
    <3>1. x \in Place /\ x.step = "leave" /\ x.topic = topics[n] /\ x.who = stored[c]
      BY <1>1, <2>2, Going DEF TypeOK
    <3>2. at' = [at EXCEPT ![c] = x]
      BY <2>2 DEF CancelSubscribe
    <3> HIDE DEF x
    <3> QED BY <1>1, <2>2, <3>1, <3>2, Moves
  <2> QED BY <2>1, <2>2
<1>7. TypesOK'
  <2>1. ASSUME NEW d \in Conns PROVE Held(at'[d]) \in 0..made
    <3>1. CASE d = c
      <4>1. topics[n] # NoTopic => topics[n] \in 0..made
        BY <1>1, Ranges DEF TypeOK, Numbered
      <4>2. 0 \in 0..made
        BY <1>1, Ranges DEF TypeOK
      <4> QED BY <1>6, <3>1, <4>1, <4>2 DEF Held, NoTopic
    <3>2. CASE d # c
      BY <1>1, <1>6, <3>2 DEF TypeOK
    <3> QED BY <3>1, <3>2
  <2> QED BY <1>1, <1>2, <1>3, <1>4, <1>5, <1>6, <2>1 DEF TypesOK, TypeOK
<1>8. Numbered'
  <2>1. \A d \in Conns, k \in Names : subs'[d][k] <= asked'[d]
    BY <1>1, <1>2, <1>3, Counted
  <2> QED BY <1>1, <1>2, <2>1 DEF Numbered
<1>9. OneName' /\ OneSender'
  BY <1>1, <1>2, <1>6 DEF OneName, OneSender
<1>10. HandlersOK'
  <2> SUFFICES ASSUME NEW d \in Conns PROVE HandlerOK(d)'
    BY DEF HandlersOK
  <2>1. CASE d = c
    <3>1. topics[n] # NoTopic => \A k \in Names : topics[k] = topics[n] => k = n
      BY <1>1 DEF OneName
    <3> QED BY <1>1, <1>2, <1>4, <1>6, <2>1, <3>1 DEF HandlersOK, HandlerOK
  <2>2. CASE d # c
    <3>1. at'[d] = at[d] /\ asked'[d] = asked[d] /\ \A k \in Names : joined'[d][k] = joined[d][k]
      BY <1>3, <1>4, <1>6, <2>2
    <3> QED BY <1>1, <1>2, <3>1 DEF HandlersOK, HandlerOK
  <2> QED BY <2>1, <2>2
<1>11. JoinedOK'
  BY <1>1, <1>2, <1>4 DEF JoinedOK
<1>12. OwedOK'
  <2> SUFFICES ASSUME NEW d \in Conns \ closed, NEW m \in owed'[d] PROVE Underway(d, m)'
    BY <1>2 DEF OwedOK
  <2>1. m \in owed[d] /\ m \in Messages /\ (d = c => m.name # n)
    BY <1>1, <1>5 DEF TypeOK
  <2>2. m.by \in Conns /\ m.name \in Names /\ Underway(d, m)
    BY <1>1, <2>1 DEF Messages, OwedOK
  <2>3. at'[m.by] = at[m.by]
    BY <1>3, <1>6, <2>2 DEF Underway
  <2>4. joined'[d][m.name] = joined[d][m.name]
    BY <1>4, <2>1, <2>2
  <2> QED BY <1>2, <2>2, <2>3, <2>4 DEF Underway
<1>13. CancelOK'
  <2>1. \A d \in Conns : at'[d].step = "join" => at'[d] = at[d]
    BY <1>6
  <2>2. ASSUME NEW d \in Conns, NEW k \in Names, Once(d, k),
               topics[k] # NoTopic, \E s \in members[topics[k]] : s[1] = d
        PROVE  \/ joined'[d][k] = topics[k]
               \/ at'[d].step = "leave" /\ at'[d].topic = topics[k]
    <3>1. \/ joined[d][k] = topics[k]
          \/ at[d].step = "leave" /\ at[d].topic = topics[k]
      BY <1>1, <2>2 DEF CancelOK
    <3>2. CASE d = c /\ k = n
      <4>1. topics[k] \in Topics
        BY <1>1, <2>2 DEF TypeOK
      <4>2. stored[c] # {}
        BY <1>1, <2>2, <3>2, <4>1 DEF CancelOK
      <4> QED BY <1>6, <2>2, <3>2, <4>2 DEF Steps
    <3>3. CASE ~(d = c /\ k = n)
      BY <1>3, <1>4, <1>6, <3>1, <3>3
    <3> QED BY <3>2, <3>3
  <2> QED BY <1>1, <1>2, <2>1, <2>2 DEF CancelOK, Once, Never
<1>14. PlacesOK'
  <2>1. \A d \in Conns : asked[d] \in Nat /\ asked'[d] \in Nat /\ asked[d] <= asked'[d]
    BY <1>3, Ranges
  <2>2. \A d \in Conns : at'[d].step \in {"publish", "sending"} => at'[d] = at[d]
    BY <1>6
  <2> QED BY <1>1, <1>2, <2>1, <2>2, PlacesStay
<1>15. OrderedOK'
  BY <1>1, <1>2, OrderStays
<1> QED BY <1>7, <1>8, <1>9, <1>10, <1>11, <1>12, <1>13, <1>14, <1>15 DEF IInv

\* A message is owed to those whose subscription is in force: they are members
\* of the object it will be sent to.
LEMMA PublishTopicKeepsIInv ==
    ASSUME IInv, NEW c \in Conns, NEW n \in Names, PublishTopic(c, n) PROVE IInv'
<1> DEFINE t == topics[n]
           m == [by |-> c, no |-> asked'[c], name |-> n]
           x == [step |-> "publish", topic |-> t, message |-> m]
<1>1. /\ TypesOK /\ TypeOK /\ Numbered /\ OneName /\ OneSender /\ HandlersOK
      /\ JoinedOK /\ OwedOK /\ CancelOK /\ PlacesOK /\ OrderedOK
  BY DEF IInv, TypesOK
<1>2. /\ MayAsk(c) /\ Asking(c)
      /\ UNCHANGED <<topics, made, members, stored, pending, sent, order, joined, subs,
                     closed, running>>
  BY DEF PublishTopic, tables
<1>3. /\ at[c] = Idle /\ at[c].step = "idle"
      /\ asked' \in [Conns -> 0..MaxRequests]
      /\ asked'[c] = asked[c] + 1 /\ asked'[c] \in 1..MaxRequests /\ asked[c] \in Nat
      /\ \A d \in Conns : d # c => asked'[d] = asked[d]
      /\ \A d \in Conns : asked[d] \in Nat /\ asked[d] <= asked'[d]
  BY <1>1, <1>2, Asked
<1>4. CASE t = NoTopic
  <2>1. UNCHANGED <<at, owed>>
    BY <1>4 DEF PublishTopic
  <2> QED BY <1>2, <2>1, RequestRefused DEF tables, histories
<1>5. CASE t # NoTopic
  <2>1. /\ at' = [at EXCEPT ![c] = x]
        /\ owed' = [d \in Conns |-> IF d \notin closed /\ joined[d][n] = t
                                    THEN owed[d] \cup {m} ELSE owed[d]]
    BY <1>5 DEF PublishTopic
  <2>2. t \in Topics /\ m \in Messages /\ m.by = c /\ m.no = asked'[c] /\ m.name = n
    BY <1>1, <1>3, <1>5 DEF TypeOK, Messages
  <2>3. x \in Place /\ x.step = "publish" /\ x.topic = t /\ x.message = m /\ Held(x) = t
    BY <2>2, Going DEF Held
  <2> HIDE DEF t, m, x
  <2>4. /\ at' \in [Conns -> Place] /\ at'[c] = x
        /\ \A d \in Conns : d # c => at'[d] = at[d]
        /\ \A d \in Conns : at'[d].step \in Steps
    BY <1>1, <2>1, <2>3, Moves
  <2>5. /\ owed' \in [Conns -> SUBSET Messages]
        /\ \A d \in Conns : \A k \in owed'[d] :
              k \in owed[d] \/ (k = m /\ d \notin closed /\ joined[d][n] = t)
    BY <1>1, <2>1, <2>2 DEF TypeOK
  <2>6. TypesOK'
    <3>1. t \in 0..made
      BY <1>1, <2>2, Ranges DEF TypeOK, Numbered, t
    <3>2. \A d \in Conns : Held(at'[d]) \in 0..made
      BY <1>1, <2>3, <2>4, <3>1 DEF TypeOK
    <3> QED BY <1>1, <1>2, <1>3, <2>4, <2>5, <3>2 DEF TypesOK, TypeOK
  <2>7. Numbered'
    <3>1. \A d \in Conns, k \in Names : subs'[d][k] <= asked'[d]
      BY <1>1, <1>2, <1>3, Counted
    <3> QED BY <1>1, <1>2, <3>1 DEF Numbered
  <2>8. OneName' /\ OneSender' /\ JoinedOK'
    BY <1>1, <1>2, <2>3, <2>4 DEF OneName, OneSender, JoinedOK
  <2>9. HandlersOK'
    <3> SUFFICES ASSUME NEW d \in Conns PROVE HandlerOK(d)'
      BY DEF HandlersOK
    <3>1. CASE d = c
      BY <1>1, <1>2, <2>2, <2>3, <2>4, <3>1 DEF HandlersOK, HandlerOK
    <3>2. CASE d # c
      BY <1>1, <1>2, <1>3, <2>4, <3>2 DEF HandlersOK, HandlerOK
    <3> QED BY <3>1, <3>2
  <2>10. OwedOK'
    <3> SUFFICES ASSUME NEW d \in Conns \ closed, NEW k \in owed'[d] PROVE Underway(d, k)'
      BY <1>2 DEF OwedOK
    <3>1. CASE k \in owed[d]
      <4>1. k.by \in Conns /\ Underway(d, k)
        BY <1>1, <3>1 DEF Messages, OwedOK, TypeOK
      <4>2. at'[k.by] = at[k.by]
        BY <1>3, <2>4, <4>1 DEF Underway
      <4> QED BY <1>2, <4>1, <4>2 DEF Underway
    <3>2. CASE k = m /\ joined[d][n] = t
      BY <1>2, <2>2, <2>3, <2>4, <3>2 DEF Underway
    <3> QED BY <2>5, <3>1, <3>2
  <2>11. CancelOK'
    <3>1. \A d \in Conns : at[d].step = "leave" => at'[d] = at[d]
      BY <1>3, <2>4
    <3>2. \A d \in Conns : at'[d].step = "join" => at'[d] = at[d]
      BY <2>3, <2>4
    <3> QED BY <1>1, <1>2, <3>1, <3>2 DEF CancelOK, Once, Never
  <2>12. PlacesOK'
    <3>1. \A d \in Conns : asked[d] \in Nat /\ asked'[d] \in Nat /\ asked[d] <= asked'[d]
      BY <1>3, Ranges
    <3>2. \A d \in Conns : at'[d].step = "sending" => at'[d] = at[d]
      BY <2>3, <2>4
    <3>3. \A d \in Conns : at'[d].step = "publish" =>
              \/ at[d].step = "publish" /\ at'[d] = at[d]
              \/ at'[d].message.by = d /\ at'[d].message.no > asked[d]
      BY <1>3, <2>2, <2>3, <2>4
    <3> QED BY <1>1, <1>2, <3>1, <3>2, <3>3, PlacesStay
  <2>13. OrderedOK'
    BY <1>1, <1>2, OrderStays
  <2> QED BY <2>6, <2>7, <2>8, <2>9, <2>10, <2>11, <2>12, <2>13 DEF IInv
<1> QED BY <1>4, <1>5

\* The mutex is free, so that nobody else is sending in the topic; those a
\* message is owed to are among the members it goes to.
LEMMA SendSubscribersKeepsIInv == ASSUME IInv, NEW c \in Conns, SendSubscribers(c) PROVE IInv'
<1> DEFINE t == at[c].topic
           m == at[c].message
           ss == members[t]
           y == Sending(at[c], ss)
<1>1. /\ TypesOK /\ TypeOK /\ Numbered /\ OneName /\ OneSender /\ HandlersOK
      /\ JoinedOK /\ OwedOK /\ CancelOK /\ PlacesOK /\ OrderedOK
  BY DEF IInv, TypesOK
<1>2. /\ at[c].step = "publish"
      /\ \A d \in Conns : at[d].step = "sending" => at[d].topic # t
      /\ order' = [order EXCEPT ![t] = Append(@, m)]
      /\ at' = [at EXCEPT ![c] = y]
      /\ UNCHANGED <<topics, made, members, stored, pending, sent, joined, subs, owed,
                     closed, asked, running>>
  BY DEF SendSubscribers, Locked, tables
<1>3. /\ t \in Topics /\ t # NoTopic /\ m \in Messages /\ ss \subseteq SubscriberObjects
      /\ m.by = c /\ m.no = asked[c]
  BY <1>1, <1>2, PlaceOf, Ranges DEF TypesOK, TypeOK, HandlersOK, HandlerOK
<1>4. /\ y \in Place
      /\ IF ss = {} THEN y = Idle
         ELSE y.step = "sending" /\ y.topic = t /\ y.message = m /\ y.rest = ss
  BY <1>3, Going DEF Sending
<1> HIDE DEF y, ss, t, m
<1>5. /\ at' \in [Conns -> Place] /\ at'[c] = y
      /\ \A d \in Conns : d # c => at'[d] = at[d]
      /\ \A d \in Conns : at'[d].step \in Steps
  BY <1>1, <1>2, <1>4, Moves
<1>6. /\ order' \in [Topics -> Seq(Messages)]
      /\ order'[t] = Append(order[t], m) /\ order[t] \in Seq(Messages)
      /\ \A u \in Topics : u # t => order'[u] = order[u]
  <2>1. order[t] \in Seq(Messages)
    BY <1>1, <1>3 DEF TypeOK
  <2>2. Append(order[t], m) \in Seq(Messages)
    BY <1>3, <2>1, Appending
  <2> QED BY <1>1, <1>2, <1>3, <2>1, <2>2 DEF TypeOK
<1>7. /\ \A u \in Topics : Elements(order[u]) \subseteq Elements(order'[u])
      /\ Elements(order'[t]) = Elements(order[t]) \cup {m}
      /\ Len(order[t]) \in Nat
      /\ DOMAIN order[t] = 1..Len(order[t]) /\ DOMAIN order'[t] = 1..(Len(order[t]) + 1)
      /\ \A a \in 1..Len(order[t]) : order'[t][a] = order[t][a]
      /\ order'[t][Len(order[t]) + 1] = m /\ Len(order'[t]) = Len(order[t]) + 1
  <2>1. Len(order[t]) \in Nat /\ DOMAIN order[t] = 1..Len(order[t])
    BY <1>6, LenProperties
  <2> DEFINE o == order[t]
             q == Append(o, m)
  <2>2. o \in Seq(Messages) /\ order'[t] = q
    BY <1>6
  <2>3. /\ Elements(q) = Elements(o) \cup {m} /\ DOMAIN q = 1..(Len(o) + 1)
        /\ \A a \in 1..Len(o) : q[a] = o[a]
        /\ q[Len(o) + 1] = m /\ Len(q) = Len(o) + 1
    <3> HIDE DEF o
    <3> QED BY <1>3, <2>2, Appending
  <2>4. \A u \in Topics : Elements(order[u]) \subseteq Elements(order'[u])
    <3> HIDE DEF q
    <3> QED BY <1>6, <2>2, <2>3
  <2> HIDE DEF q
  <2> QED BY <2>1, <2>2, <2>3, <2>4
<1>8. \A u \in Topics : m \notin Elements(order[u])
  BY <1>1, <1>2, <1>3 DEF PlacesOK, m
<1>9. \A d \in Conns : \A e \in Elements(sent[d]) \cup Elements(pending[d]) : e # m
  BY <1>1, <1>8 DEF PlacesOK, Placed
<1>10. TypesOK'
  <2>1. \A d \in Conns : Held(at'[d]) \in 0..made
    <3>1. Held(Idle) \in 0..made
      BY <1>1, Ranges, Going DEF TypeOK, Held
    <3>2. t \in 0..made
      <4>1. Held(at[c]) \in 0..made
        BY <1>1 DEF TypeOK
      <4> QED BY <1>2, <4>1 DEF Held, t
    <3>3. Held(y) \in 0..made
      BY <1>4, <3>1, <3>2 DEF Held
    <3> QED BY <1>1, <1>5, <3>3 DEF TypeOK
  <2> QED BY <1>1, <1>2, <1>5, <1>6, <2>1 DEF TypesOK, TypeOK
<1>11. Numbered' /\ OneName' /\ JoinedOK'
  BY <1>1, <1>2 DEF Numbered, OneName, JoinedOK
<1>12. OneSender'
  BY <1>1, <1>2, <1>4, <1>5, Going DEF OneSender
<1>13. HandlersOK'
  <2> SUFFICES ASSUME NEW d \in Conns PROVE HandlerOK(d)'
    BY DEF HandlersOK
  <2>1. CASE d = c
    BY <1>1, <1>2, <1>3, <1>4, <1>5, <2>1, Going DEF HandlersOK, HandlerOK
  <2>2. CASE d # c
    BY <1>1, <1>2, <1>5, <2>2 DEF HandlersOK, HandlerOK
  <2> QED BY <2>1, <2>2
<1>14. OwedOK'
  <2> SUFFICES ASSUME NEW d \in Conns \ closed, NEW e \in owed[d] PROVE Underway(d, e)'
    BY <1>2 DEF OwedOK
  <2>1. e.by \in Conns /\ e.name \in Names /\ Underway(d, e)
    BY <1>1 DEF Messages, OwedOK, TypeOK
  <2>2. CASE e.by = c
    <3>1. e = m /\ joined[d][e.name] = t
      BY <2>1, <2>2 DEF Underway, m, t
    <3>2. \E s \in members[t] : s[1] = d
      BY <1>1, <1>3, <2>1, <3>1 DEF JoinedOK
    <3> QED BY <1>2, <1>4, <1>5, <2>2, <3>1, <3>2 DEF Underway, ss
  <2>3. CASE e.by # c
    <3>1. at'[e.by] = at[e.by]
      BY <1>5, <2>1, <2>3
    <3> QED BY <1>2, <2>1, <3>1 DEF Underway
  <2> QED BY <2>2, <2>3
<1>15. CancelOK'
  <2>1. \A d \in Conns : at[d].step = "leave" => at'[d] = at[d]
    BY <1>2, <1>5
  <2>2. \A d \in Conns : at'[d].step = "join" => at'[d] = at[d]
    BY <1>4, <1>5, Going
  <2> QED BY <1>1, <1>2, <2>1, <2>2 DEF CancelOK, Once, Never
<1>16. PlacesOK'
  <2>1. ASSUME NEW u \in Topics, NEW e \in Elements(order'[u])
        PROVE  e.no <= asked[e.by] /\ (at'[e.by].step = "publish" => e # at'[e.by].message)
    <3>1. CASE u = t /\ e = m
      BY <1>1, <1>3, <1>4, <1>5, <3>1, Ranges, Going DEF TypeOK
    <3>2. CASE e \in Elements(order[u])
      <4>1. e \in Messages
        BY <1>1, <3>2 DEF TypeOK, Elements
      <4>2. e.by \in Conns
        BY <4>1 DEF Messages
      <4>3. e.no <= asked[e.by] /\ (at[e.by].step = "publish" => e # at[e.by].message)
        BY <1>1, <3>2 DEF PlacesOK
      <4>4. at'[e.by].step = "publish" => at'[e.by] = at[e.by]
        BY <1>4, <1>5, <4>2, Going
      <4> QED BY <4>3, <4>4
    <3> QED BY <1>6, <1>7, <3>1, <3>2
  <2>2. ASSUME NEW u \in Topics, NEW v \in Topics, NEW a \in DOMAIN order'[u],
               NEW b \in DOMAIN order'[v], order'[u][a] = order'[v][b]
        PROVE  u = v /\ a = b
    <3>1. ASSUME NEW w \in Topics, NEW i \in DOMAIN order'[w]
          PROVE  \/ i \in DOMAIN order[w] /\ order'[w][i] = order[w][i] /\ order'[w][i] # m
                 \/ w = t /\ i = Len(order[t]) + 1 /\ order'[w][i] = m
      <4>1. i \in DOMAIN order[w] => order[w][i] # m
        BY <1>8 DEF Elements
      <4>2. CASE w = t
        <5>1. i \in 1..Len(order[t]) \/ i = Len(order[t]) + 1
          BY <1>7, <3>1, <4>2
        <5> QED BY <1>7, <4>1, <4>2, <5>1
      <4>3. CASE w # t
        BY <1>6, <3>1, <4>1, <4>3
      <4> QED BY <4>2, <4>3
    <3>2. CASE order'[u][a] = m
      BY <2>2, <3>1, <3>2
    <3>3. CASE order'[u][a] # m
      BY <1>1, <2>2, <3>1, <3>3 DEF PlacesOK
    <3> QED BY <3>2, <3>3
  <2>3. \A d \in Conns : \A e \in Elements(sent[d]) \cup Elements(pending[d]) :
            \E u \in Topics : e \in Elements(order'[u])
    BY <1>1, <1>7 DEF PlacesOK, Placed
  <2>4. ASSUME NEW d \in Conns, at'[d].step = "sending"
        PROVE  /\ Len(order'[at'[d].topic]) > 0
               /\ order'[at'[d].topic][Len(order'[at'[d].topic])] = at'[d].message
    <3>1. CASE d = c
      <4>1. at'[d].topic = t /\ at'[d].message = m
        BY <1>4, <1>5, <2>4, <3>1, Going
      <4> QED BY <1>7, <4>1
    <3>2. CASE d # c
      <4>1. at'[d] = at[d] /\ at[d].step = "sending" /\ at[d].topic \in Topics
        BY <1>1, <1>5, <2>4, <3>2, PlaceOf DEF TypesOK
      <4>2. order'[at[d].topic] = order[at[d].topic]
        BY <1>2, <1>6, <4>1
      <4> QED BY <1>1, <4>1, <4>2 DEF PlacesOK
    <3> QED BY <3>1, <3>2
  <2> QED BY <1>2, <2>1, <2>2, <2>3, <2>4 DEF PlacesOK, Placed
<1>17. OrderedOK'
  <2> SUFFICES ASSUME NEW d \in Conns PROVE Ordered(sent[d] \o pending[d], d, order')
    BY <1>2 DEF OrderedOK
  <2> DEFINE g == sent[d] \o pending[d]
  <2>1. sent[d] \in Seq(Messages) /\ pending[d] \in Seq(Messages)
    BY <1>1 DEF TypeOK
  <2>2. g \in Seq(Messages) /\ \A i \in 1..Len(g) : g[i] \in Elements(sent[d]) \cup Elements(pending[d])
    BY <2>1, Joining
  <2>3. Ordered(g, d, order)
    BY <1>1 DEF OrderedOK
  <2> HIDE DEF g
  <2>4. Ordered(g, d, order')
    BY <1>3, <1>6, <1>9, <2>2, <2>3, Extending
  <2> QED BY <2>4 DEF g
<1> QED BY <1>10, <1>11, <1>12, <1>13, <1>14, <1>15, <1>16, <1>17 DEF IInv

\* What is sent is the latest message of its topic, and who is owed it has
\* another Subscriber left, or has now been sent it.
LEMMA SendOneKeepsIInv == ASSUME IInv, NEW c \in Conns, SendOne(c) PROVE IInv'
<1> DEFINE t == at[c].topic
           m == at[c].message
<1>1. /\ TypesOK /\ TypeOK /\ Numbered /\ OneName /\ OneSender /\ HandlersOK
      /\ JoinedOK /\ OwedOK /\ CancelOK /\ PlacesOK /\ OrderedOK
  BY DEF IInv, TypesOK
<1>2. /\ at[c].step = "sending"
      /\ UNCHANGED <<topics, made, members, stored, order, joined, subs, closed, asked, running>>
  BY DEF SendOne, tables
<1>3. PICK s \in at[c].rest :
        LET d == s[1] IN
        /\ IF d \in closed
           THEN UNCHANGED <<sent, pending>>
           ELSE IF SameLoop(c, d)
           THEN /\ sent' = [sent EXCEPT ![d] = Append(@, m)]
                /\ UNCHANGED pending
           ELSE /\ pending' = [pending EXCEPT ![d] = Append(@, m)]
                /\ UNCHANGED sent
        /\ owed' = [owed EXCEPT ![d] = @ \ {m}]
        /\ at' = [at EXCEPT ![c] = Sending(at[c], at[c].rest \ {s})]
  BY DEF SendOne
<1> DEFINE d == s[1]
           left == at[c].rest \ {s}
           y == Sending(at[c], left)
<1>4. /\ t \in Topics /\ m \in Messages /\ at[c].rest \subseteq SubscriberObjects
      /\ m.by = c /\ m.no = asked[c] /\ d \in Conns
  <2>1. at[c].rest \subseteq SubscriberObjects /\ t \in Topics /\ m \in Messages
    BY <1>1, <1>2, PlaceOf DEF TypesOK
  <2>2. s \in SubscriberObjects
    BY <2>1
  <2> QED BY <1>1, <1>2, <2>1, <2>2 DEF HandlersOK, HandlerOK, SubscriberObjects
<1>5. /\ y \in Place
      /\ IF left = {} THEN y = Idle
         ELSE y.step = "sending" /\ y.topic = t /\ y.message = m /\ y.rest = left
  BY <1>4, Going DEF Sending
<1>6. /\ at' = [at EXCEPT ![c] = y]
      /\ owed' = [owed EXCEPT ![d] = @ \ {m}]
      /\ \/ UNCHANGED <<sent, pending>>
         \/ /\ SameLoop(c, d)
            /\ sent' = [sent EXCEPT ![d] = Append(@, m)]
            /\ UNCHANGED pending
         \/ /\ pending' = [pending EXCEPT ![d] = Append(@, m)]
            /\ UNCHANGED sent
  BY <1>3
<1>7. \A r \in at[c].rest : r[1] # d => r \in left
  OBVIOUS
<1> HIDE DEF t, m, d, left, y
<1>8. /\ at' \in [Conns -> Place] /\ at'[c] = y
      /\ \A e \in Conns : e # c => at'[e] = at[e]
      /\ \A e \in Conns : at'[e].step \in Steps
  BY <1>1, <1>5, <1>6, Moves
<1>9. /\ owed' \in [Conns -> SUBSET Messages]
      /\ \A e \in Conns : \A k \in owed'[e] : k \in owed[e] /\ ~(e = d /\ k = m)
  BY <1>1, <1>4, <1>6 DEF TypeOK
<1>10. sent[d] \in Seq(Messages) /\ pending[d] \in Seq(Messages)
  BY <1>1, <1>4 DEF TypeOK
<1>11. /\ Append(sent[d], m) \in Seq(Messages) /\ Append(pending[d], m) \in Seq(Messages)
       /\ Elements(Append(sent[d], m)) = Elements(sent[d]) \cup {m}
       /\ Elements(Append(pending[d], m)) = Elements(pending[d]) \cup {m}
  BY <1>4, <1>10, Appending
<1>12. /\ sent' \in [Conns -> Seq(Messages)] /\ pending' \in [Conns -> Seq(Messages)]
       /\ \A e \in Conns : e # d => sent'[e] = sent[e] /\ pending'[e] = pending[e]
       /\ \/ sent'[d] = sent[d] /\ pending'[d] = pending[d]
          \/ SameLoop(c, d) /\ sent'[d] = Append(sent[d], m) /\ pending'[d] = pending[d]
          \/ sent'[d] = sent[d] /\ pending'[d] = Append(pending[d], m)
  <2>1. sent \in [Conns -> Seq(Messages)] /\ pending \in [Conns -> Seq(Messages)]
    BY <1>1 DEF TypeOK
  <2> QED BY <1>4, <1>6, <1>11, <2>1
<1>13. TypesOK'
  <2>1. \A e \in Conns : Held(at'[e]) \in 0..made
    <3>1. Held(Idle) \in 0..made
      BY <1>1, Ranges, Going DEF TypeOK, Held
    <3>2. t \in 0..made
      <4>1. Held(at[c]) \in 0..made
        BY <1>1 DEF TypeOK
      <4> QED BY <1>2, <4>1 DEF Held, t
    <3>3. Held(y) \in 0..made
      BY <1>5, <3>1, <3>2 DEF Held
    <3> QED BY <1>1, <1>8, <3>3 DEF TypeOK
  <2> QED BY <1>1, <1>2, <1>8, <1>9, <1>12, <2>1 DEF TypesOK, TypeOK
<1>14. Numbered' /\ OneName' /\ JoinedOK'
  BY <1>1, <1>2 DEF Numbered, OneName, JoinedOK
<1>15. OneSender'
  BY <1>1, <1>2, <1>5, <1>8, Going DEF OneSender, t
<1>16. HandlersOK'
  <2> SUFFICES ASSUME NEW e \in Conns PROVE HandlerOK(e)'
    BY DEF HandlersOK
  <2>1. CASE e = c
    BY <1>1, <1>2, <1>4, <1>5, <1>8, <2>1, Going DEF HandlersOK, HandlerOK
  <2>2. CASE e # c
    BY <1>1, <1>2, <1>8, <2>2 DEF HandlersOK, HandlerOK
  <2> QED BY <2>1, <2>2
<1>17. OwedOK'
  <2> SUFFICES ASSUME NEW e \in Conns \ closed, NEW k \in owed'[e] PROVE Underway(e, k)'
    BY <1>2 DEF OwedOK
  <2>1. k \in owed[e] /\ ~(e = d /\ k = m)
    BY <1>9
  <2>2. k.by \in Conns /\ k.name \in Names /\ Underway(e, k)
    BY <1>1, <2>1 DEF Messages, OwedOK, TypeOK
  <2>3. CASE k.by = c
    <3>1. k = m /\ joined[e][k.name] = t
      BY <2>2, <2>3 DEF Underway, m, t
    <3>2. PICK r \in at[c].rest : r[1] = e
      BY <1>2, <2>2, <2>3 DEF Underway
    <3>3. r \in left /\ r[1] = e
      BY <1>7, <2>1, <3>1, <3>2
    <3> QED BY <1>2, <1>5, <1>8, <2>3, <3>1, <3>3 DEF Underway
  <2>4. CASE k.by # c
    <3>1. at'[k.by] = at[k.by]
      BY <1>8, <2>2, <2>4
    <3> QED BY <1>2, <2>2, <3>1 DEF Underway
  <2> QED BY <2>3, <2>4
<1>18. CancelOK'
  <2>1. \A e \in Conns : at[e].step = "leave" => at'[e] = at[e]
    BY <1>2, <1>8
  <2>2. \A e \in Conns : at'[e].step = "join" => at'[e] = at[e]
    BY <1>5, <1>8, Going
  <2> QED BY <1>1, <1>2, <2>1, <2>2 DEF CancelOK, Once, Never
<1>19. /\ order[t] \in Seq(Messages) /\ Len(order[t]) > 0
       /\ DOMAIN order[t] = 1..Len(order[t]) /\ Len(order[t]) \in Nat
       /\ order[t][Len(order[t])] = m
  BY <1>1, <1>2, <1>4, LenProperties DEF PlacesOK, TypeOK, t, m
<1>20. Len(order[t]) \in DOMAIN order[t]
  BY <1>19
<1>21. PlacesOK'
  <2>1. Placed(m)
    BY <1>4, <1>19, <1>20 DEF Placed, Elements
  <2>2. \A e \in Conns : asked[e] \in Nat /\ asked'[e] \in Nat /\ asked[e] <= asked'[e]
    BY <1>1, <1>2, Ranges DEF TypeOK
  <2>3. \A e \in Conns : at'[e].step = "publish" => at'[e] = at[e]
    BY <1>5, <1>8, Going
  <2>4. \A e \in Conns : at'[e].step = "sending" =>
            at[e].step = "sending" /\ at'[e].topic = at[e].topic /\ at'[e].message = at[e].message
    BY <1>2, <1>5, <1>8, Going DEF t, m
  <2>5. \A e \in Conns : \A k \in Elements(sent'[e]) \cup Elements(pending'[e]) :
            k \in Elements(sent[e]) \cup Elements(pending[e]) \/ Placed(k)
    BY <1>11, <1>12, <2>1
  <2> QED BY <1>1, <1>2, <2>2, <2>3, <2>4, <2>5, PlacesStay
<1>22. OrderedOK'
  <2>1. Latest(m, t, order)
    <3> SUFFICES ASSUME NEW u \in Topics, NEW a \in 1..Len(order[u]), order[u][a] = m
                 PROVE  u = t /\ a = Len(order[t])
      BY DEF Latest
    <3>1. DOMAIN order[u] = 1..Len(order[u])
      BY <1>1, LenProperties DEF TypeOK
    <3> QED BY <1>1, <1>4, <1>19, <1>20, <3>1 DEF PlacesOK
  <2> SUFFICES ASSUME NEW e \in Conns PROVE Ordered(sent'[e] \o pending'[e], e, order)
    BY <1>2 DEF OrderedOK
  <2>2. Ordered(sent[e] \o pending[e], e, order)
    BY <1>1 DEF OrderedOK
  <2>3. CASE e # d \/ (sent'[d] = sent[d] /\ pending'[d] = pending[d])
    BY <1>12, <2>2, <2>3
  <2> DEFINE g == sent[d] \o pending[d]
             k1 == Len(sent[d])
             k2 == Len(sent[d]) + Len(pending[d])
  <2>4. g \in Seq(Messages) /\ Len(g) = k2 /\ k1 \in Nat /\ k2 \in Nat /\ k1 <= k2
    <3>1. Len(sent[d]) \in Nat /\ Len(pending[d]) \in Nat
      BY <1>10, LenProperties
    <3>2. g \in Seq(Messages) /\ Len(g) = k2
      BY <1>10, Joining
    <3>3. \A a, b \in Nat : a + b \in Nat /\ a <= a + b
      OBVIOUS
    <3>4. k1 \in Nat /\ k2 \in Nat /\ k1 <= k2
      BY <3>1, <3>3, Zenon
    <3> HIDE DEF g, k1, k2
    <3> QED BY <3>2, <3>4
  <2>5. CASE e = d /\ SameLoop(c, d) /\ sent'[d] = Append(sent[d], m) /\ pending'[d] = pending[d]
    <3> DEFINE h == Append(sent[d], m) \o pending[d]
    <3>1. h \in Seq(Messages) /\ Inserted(g, h, k1, m)
      BY <1>4, <1>10, <1>11, AddedBetween, Joining
    <3>2. SameLoop(m.by, d)
      BY <1>4, <2>5
    <3>3. Ordered(g, d, order)
      BY <2>2, <2>5
    <3> HIDE DEF g, h, k1, k2
    <3>4. Ordered(h, d, order)
      BY <1>4, <1>19, <2>1, <2>4, <3>1, <3>2, <3>3, Inserting
    <3> QED BY <2>5, <3>4 DEF h
  <2>6. CASE e = d /\ sent'[d] = sent[d] /\ pending'[d] = Append(pending[d], m)
    <3> DEFINE h == sent[d] \o Append(pending[d], m)
    <3>1. h \in Seq(Messages) /\ Inserted(g, h, k2, m)
      BY <1>4, <1>10, <1>11, AddedLast, Joining
    <3>2. Ordered(g, d, order)
      BY <2>2, <2>6
    <3> HIDE DEF g, h, k1, k2
    <3>3. Ordered(h, d, order)
      BY <1>4, <1>19, <2>1, <2>4, <3>1, <3>2, Inserting
    <3> QED BY <2>6, <3>3 DEF h
  <2> QED BY <1>12, <2>3, <2>5, <2>6
<1> QED BY <1>13, <1>14, <1>15, <1>16, <1>17, <1>18, <1>21, <1>22 DEF IInv

\* Moving up changes nothing about what was and will be sent.
LEMMA WriteQueuedKeepsIInv == ASSUME IInv, NEW c \in Conns, WriteQueued(c) PROVE IInv'
<1>1. /\ TypesOK /\ TypeOK /\ Numbered /\ OneName /\ OneSender /\ HandlersOK
      /\ JoinedOK /\ OwedOK /\ CancelOK /\ PlacesOK /\ OrderedOK
  BY DEF IInv, TypesOK
<1>2. /\ pending[c] # <<>>
      /\ sent' = [sent EXCEPT ![c] = Append(@, Head(pending[c]))]
      /\ pending' = [pending EXCEPT ![c] = Tail(@)]
      /\ UNCHANGED <<topics, made, members, stored, at, order, joined, subs, owed, closed,
                     asked, running>>
  BY DEF WriteQueued, tables
<1>3. /\ sent \in [Conns -> Seq(Messages)] /\ pending \in [Conns -> Seq(Messages)]
      /\ sent[c] \in Seq(Messages) /\ pending[c] \in Seq(Messages)
  BY <1>1 DEF TypeOK
<1>4. /\ Head(pending[c]) \in Messages /\ Tail(pending[c]) \in Seq(Messages)
      /\ Elements(pending[c]) = Elements(Tail(pending[c])) \cup {Head(pending[c])}
  BY <1>2, <1>3, Taking
<1>5. /\ Append(sent[c], Head(pending[c])) \in Seq(Messages)
      /\ Elements(Append(sent[c], Head(pending[c]))) = Elements(sent[c]) \cup {Head(pending[c])}
  BY <1>3, <1>4, Appending
<1>6. /\ sent' \in [Conns -> Seq(Messages)] /\ pending' \in [Conns -> Seq(Messages)]
      /\ sent'[c] = Append(sent[c], Head(pending[c])) /\ pending'[c] = Tail(pending[c])
      /\ \A d \in Conns : d # c => sent'[d] = sent[d] /\ pending'[d] = pending[d]
  BY <1>2, <1>3, <1>4, <1>5
<1>7. TypesOK'
  BY <1>1, <1>2, <1>6 DEF TypesOK, TypeOK
<1>8. Numbered' /\ OneName' /\ OneSender' /\ JoinedOK'
  BY <1>1, <1>2 DEF Numbered, OneName, OneSender, JoinedOK
<1>9. HandlersOK'
  BY <1>1, <1>2 DEF HandlersOK, HandlerOK
<1>10. OwedOK'
  BY <1>1, <1>2 DEF OwedOK, Underway
<1>11. CancelOK'
  BY <1>1, <1>2 DEF CancelOK, Once, Never
<1>12. PlacesOK'
  <2>1. \A d \in Conns : asked[d] \in Nat /\ asked'[d] \in Nat /\ asked[d] <= asked'[d]
    BY <1>1, <1>2, Ranges DEF TypeOK
  <2>2. \A d \in Conns : \A k \in Elements(sent'[d]) \cup Elements(pending'[d]) :
            k \in Elements(sent[d]) \cup Elements(pending[d])
    BY <1>4, <1>5, <1>6
  <2> QED BY <1>1, <1>2, <2>1, <2>2, PlacesStay
<1>13. OrderedOK'
  <2>1. Append(sent[c], Head(pending[c])) \o Tail(pending[c]) = sent[c] \o pending[c]
    BY <1>2, <1>3, MovedUp
  <2>2. \A d \in Conns : sent'[d] \o pending'[d] = sent[d] \o pending[d]
    BY <1>6, <2>1
  <2> QED BY <1>1, <1>2, <2>2 DEF OrderedOK
<1> QED BY <1>7, <1>8, <1>9, <1>10, <1>11, <1>12, <1>13 DEF IInv

\* Who has closed is owed nothing, and what waited is lost.
LEMMA CloseKeepsIInv == ASSUME IInv, NEW c \in Conns, Close(c) PROVE IInv'
<1>1. /\ TypesOK /\ TypeOK /\ Numbered /\ OneName /\ OneSender /\ HandlersOK
      /\ JoinedOK /\ OwedOK /\ CancelOK /\ PlacesOK /\ OrderedOK
  BY DEF IInv, TypesOK
<1>2. /\ closed' = closed \cup {c}
      /\ pending' = [pending EXCEPT ![c] = <<>>]
      /\ owed' = [owed EXCEPT ![c] = {}]
      /\ UNCHANGED <<topics, made, members, stored, at, sent, order, joined, subs, asked, running>>
  BY DEF Close, tables
<1>3. <<>> \in Seq(Messages) /\ Elements(<<>>) = {}
  BY EmptySeq DEF Elements
<1>4. /\ sent[c] \in Seq(Messages) /\ pending[c] \in Seq(Messages)
      /\ pending' \in [Conns -> Seq(Messages)] /\ pending'[c] = <<>>
      /\ \A d \in Conns : d # c => pending'[d] = pending[d]
      /\ owed' \in [Conns -> SUBSET Messages]
      /\ \A d \in Conns : d # c => owed'[d] = owed[d]
  BY <1>1, <1>2, <1>3 DEF TypeOK
<1>5. TypesOK'
  BY <1>1, <1>2, <1>4 DEF TypesOK, TypeOK
<1>6. Numbered' /\ OneName' /\ OneSender' /\ JoinedOK'
  BY <1>1, <1>2 DEF Numbered, OneName, OneSender, JoinedOK
<1>7. HandlersOK'
  BY <1>1, <1>2 DEF HandlersOK, HandlerOK
<1>8. OwedOK'
  BY <1>1, <1>2, <1>4 DEF OwedOK, Underway
<1>9. CancelOK'
  BY <1>1, <1>2 DEF CancelOK, Once, Never
<1>10. PlacesOK'
  <2>1. \A d \in Conns : asked[d] \in Nat /\ asked'[d] \in Nat /\ asked[d] <= asked'[d]
    BY <1>1, <1>2, Ranges DEF TypeOK
  <2>2. \A d \in Conns : \A k \in Elements(sent'[d]) \cup Elements(pending'[d]) :
            k \in Elements(sent[d]) \cup Elements(pending[d])
    BY <1>2, <1>3, <1>4
  <2> QED BY <1>1, <1>2, <2>1, <2>2, PlacesStay
<1>11. OrderedOK'
  <2> SUFFICES ASSUME NEW d \in Conns PROVE Ordered(sent[d] \o pending'[d], d, order)
    BY <1>2 DEF OrderedOK
  <2>1. Ordered(sent[d] \o pending[d], d, order)
    BY <1>1 DEF OrderedOK
  <2>2. CASE d # c
    BY <1>4, <2>1, <2>2
  <2>3. CASE d = c
    <3> DEFINE h == sent[c]
               g == sent[c] \o pending[c]
    <3>1. /\ Len(h) \in Nat /\ Len(pending[c]) \in Nat /\ Len(g) = Len(h) + Len(pending[c])
          /\ \A i \in 1..(Len(h) + Len(pending[c])) : i <= Len(h) => g[i] = h[i]
      BY <1>4, Joining, LenProperties
    <3>2. Ordered(g, c, order)
      BY <2>1, <2>3
    <3>3. sent[c] \o <<>> = h
      BY <1>4, ConcatEmptySeq
    <3> HIDE DEF g, h
    <3>4. \A i \in 1..Len(h) : i \in 1..Len(g) /\ g[i] = h[i]
      BY <3>1
    <3>5. Ordered(h, c, order)
      BY <3>2, <3>4 DEF Ordered
    <3> QED BY <1>4, <2>3, <3>3, <3>5
  <2> QED BY <2>2, <2>3
<1> QED BY <1>5, <1>6, <1>7, <1>8, <1>9, <1>10, <1>11 DEF IInv

-----------------------------------------------------------------------------
(* Every step of the server.                                               *)

LEMMA NextKeepsIInv == IInv /\ [Next]_vars => IInv'
<1> SUFFICES ASSUME IInv, [Next]_vars PROVE IInv'
  OBVIOUS
<1>1. ASSUME NEW c \in Conns, NEW n \in Names, Request(c, n) PROVE IInv'
  BY <1>1, AddTopicKeepsIInv, RemoveTopicKeepsIInv, SubscribeTopicKeepsIInv,
     CancelSubscribeKeepsIInv, PublishTopicKeepsIInv DEF Request
<1>2. ASSUME NEW c \in Conns, HandlerStep(c) PROVE IInv'
  BY <1>2, RemoveAllSubscriberKeepsIInv, AddSubscriberKeepsIInv, RemoveSubscriberKeepsIInv,
     SendSubscribersKeepsIInv, SendOneKeepsIInv DEF HandlerStep
<1>3. ASSUME NEW c \in Conns, WriteQueued(c) PROVE IInv'
  BY <1>3, WriteQueuedKeepsIInv
<1>4. ASSUME NEW c \in Conns, Close(c) PROVE IInv'
  BY <1>4, CloseKeepsIInv
<1>5. CASE UNCHANGED vars
  <2>1. UNCHANGED <<topics, made, members, stored, at, pending, sent, order, joined, subs, owed,
                    closed, asked, running>>
    BY <1>5 DEF vars, tables, histories
  <2>2. TypesOK' /\ Numbered' /\ OneName' /\ OneSender' /\ JoinedOK'
    BY <2>1 DEF IInv, TypesOK, TypeOK, Numbered, OneName, OneSender, JoinedOK
  <2>3. HandlersOK' /\ OwedOK' /\ CancelOK'
    BY <2>1 DEF IInv, HandlersOK, HandlerOK, OwedOK, Underway, CancelOK, Once, Never
  <2>4. PlacesOK' /\ OrderedOK'
    BY <2>1 DEF IInv, PlacesOK, Placed, OrderedOK
  <2> QED BY <2>2, <2>3, <2>4 DEF IInv
<1> QED BY <1>1, <1>2, <1>3, <1>4, <1>5 DEF Next

\* Whatever clients do and however the loops interleave, the inductive
\* invariant holds at the topic server.
THEOREM Invariance == Spec => []IInv
BY InitIInv, NextKeepsIInv, PTL DEF Spec

-----------------------------------------------------------------------------
(* The properties of the server, from its inductive invariant.             *)

LEMMA MutexKept == IInv => MutexInv
<1> SUFFICES ASSUME IInv PROVE MutexInv
  OBVIOUS
<1>1. TypeOK /\ OneSender /\ OneName
  BY DEF IInv, TypesOK
<1>2. \A c \in Conns : at[c].step = "sending" => at[c].rest # {}
  BY PlaceOf DEF IInv, TypesOK
<1> QED BY <1>1, <1>2 DEF MutexInv, OneSender, OneName

LEMMA SubscribersReached == IInv => PublishReachesSubscribers
BY DEF IInv, OwedOK, Underway, PublishReachesSubscribers

LEMMA CancelKept == IInv => CancelLasts
<1> SUFFICES ASSUME IInv, NEW c \in Subscribers, NEW n \in Names,
                    topics[n] # NoTopic, at[c] = Idle, joined[c][n] # topics[n], Once(c, n),
                    NEW s \in members[topics[n]], s[1] = c
             PROVE  FALSE
  BY DEF CancelLasts, Once
<1>1. c \in Conns /\ CancelOK
  BY DEF Conns, IInv
<1> QED BY <1>1, Going DEF CancelOK

LEMMA OrderKept == IInv => TopicOrderKept
BY OrderIs DEF IInv

\* Topic: two senders never hold one topic's mutex and whoever holds it has
\* somebody left to send to.
THEOREM TopicsAreLocked == Spec => []MutexInv
BY Invariance, MutexKept, PTL

\* TopicManager::Publish: a message is sent to everyone subscribed all along.
THEOREM PublishReaches == Spec => []PublishReachesSubscribers
BY Invariance, SubscribersReached, PTL

\* TopicManager::Cancel ends the only subscription a client ever made.
THEOREM CancelsLast == Spec => []CancelLasts
BY Invariance, CancelKept, PTL

\* Topic::PushMessage: subscribers agree on the order of a topic's messages.
THEOREM OrderIsKept == Spec => []TopicOrderKept
BY Invariance, OrderKept, PTL

-----------------------------------------------------------------------------
(* The client: its inductive invariant, on top of the server's.            *)

CallerPlace ==
    [step : {"away"}]
    \cup [step : {"send", "wait"}, op : Operations, name : Names]
    \cup [step : {"answered"}, op : Operations, name : Names, ok : BOOLEAN]

TopicRequest == [op : Operations, name : Names, from : Callers]
Answer == [to : Callers, ok : BOOLEAN]
Delivery == [message : Messages]

ClientTypes ==
    /\ callbacks \in [Names -> Callers \cup {NoCallback}]
    /\ caller \in [Callers -> CallerPlace]
    /\ requests \in Seq(TopicRequest)
    /\ serving \in SUBSET Callers
    /\ inbox \in Seq(Answer \cup Delivery)
    /\ shown \in SUBSET Messages
    /\ promised \in SUBSET Messages
    /\ crossed \in SUBSET Names

\* A call that waits is at one of three places, and only there.
Asks(u) == {x \in TopicRequest : x.from = u}
Answers(u) == {x \in Answer : x.to = u}
Count(s, S) == Cardinality({i \in DOMAIN s : s[i] \in S})

OnePlace ==
    \A u \in Callers :
        Count(requests, Asks(u)) + Count(inbox, Answers(u)) + (IF u \in serving THEN 1 ELSE 0)
            = IF caller[u].step = "wait" THEN 1 ELSE 0

\* A request says what its caller is about, and the server serves one of them,
\* with the client's handler under way, or crashed.
RequestsMatch ==
    \A x \in Elements(requests) : caller[x.from].op = x.op /\ caller[x.from].name = x.name

ServingOK ==
    /\ serving # {} /\ running => at[Client] # Idle
    /\ \A u, v \in serving : u = v
    /\ \A u \in serving :
        /\ at[Client].step = "join" => caller[u].op = "subscribe" /\ caller[u].name = at[Client].name
        /\ caller[u].op = "cancel" => joined[Client][caller[u].name] = NoTopic

\* Two callers are busy with one topic only if it is counted as crossed.
Uncrossed ==
    \A n \in Names \ crossed :
        /\ \A u, v \in Callers : Busy(u, n) /\ Busy(v, n) => u = v
        /\ \A u \in Callers : Busy(u, n) /\ caller[u].op = "subscribe" => callbacks[n] # NoCallback
        /\ CallbackWhileJoined(n)

\* An answer that will take the callback out says that the subscription is not
\* in force.
Over(u, ok) ==
    caller[u].op \in Callbacks /\ caller[u].name \notin crossed /\ (ok <=> caller[u].op = "cancel") =>
        joined[Client][caller[u].name] = NoTopic

AnswersOK ==
    /\ \A u \in Callers : caller[u].step = "answered" => Over(u, caller[u].ok)
    /\ \A x \in Elements(inbox) : x \in Answer => Over(x.to, x.ok)

\* A message the client is to get is on its way, and its subscription in force.
PromisedOK ==
    \A m \in promised :
        /\ joined[Client][m.name] # NoTopic
        /\ \A u \in Callers : ~(Busy(u, m.name) /\ caller[u].op = "cancel")
        /\ m.name \notin crossed /\ Connected =>
            \/ m \in owed[Client] \/ m \in Elements(pending[Client])
            \/ [message |-> m] \in Elements(inbox) \/ m \in shown

ClientInv ==
    /\ ClientTypes /\ OnePlace /\ RequestsMatch /\ ServingOK
    /\ Uncrossed /\ AnswersOK /\ PromisedOK

-----------------------------------------------------------------------------
(* Lemmas on counting, on callers and on what is under way.                *)

LEMMA ElementsIn ==
    ASSUME NEW S, NEW s \in Seq(S)
    PROVE  Elements(s) \subseteq S
<1>1. DOMAIN s = 1..Len(s) /\ \A i \in 1..Len(s) : s[i] \in S
  BY LenProperties, ElementOfSeq
<1> QED BY <1>1 DEF Elements

LEMMA CountIs ==
    ASSUME NEW T, NEW s \in Seq(T), NEW S
    PROVE  /\ IsFiniteSet({i \in DOMAIN s : s[i] \in S})
           /\ Count(s, S) \in Nat
           /\ \A x \in Elements(s) : x \in S => Count(s, S) > 0
           /\ Count(<<>>, S) = 0
<1> DEFINE I == {i \in DOMAIN s : s[i] \in S}
<1>1. DOMAIN s = 1..Len(s) /\ Len(s) \in Nat
  BY LenProperties
<1>2. IsFiniteSet(1..Len(s))
  BY <1>1, FS_Interval
<1>3. IsFiniteSet(I)
  BY <1>1, <1>2, FS_Subset
<1>4. Cardinality(I) \in Nat /\ (Cardinality(I) = 0 <=> I = {})
  BY <1>3, FS_CardinalityType, FS_EmptySet
<1>5. ASSUME NEW x \in Elements(s), x \in S PROVE I # {}
  BY <1>5 DEF Elements
<1>6. {i \in DOMAIN <<>> : <<>>[i] \in S} = {}
  OBVIOUS
<1>7. Count(<<>>, S) = 0
  BY <1>6, FS_EmptySet DEF Count
<1>8. Count(s, S) = Cardinality(I)
  BY DEF Count
<1> HIDE DEF I
<1>9. \A x \in Elements(s) : x \in S => Count(s, S) > 0
  BY <1>4, <1>5, <1>8
<1> QED BY <1>3, <1>4, <1>7, <1>8, <1>9 DEF I

LEMMA CountAppended ==
    ASSUME NEW T, NEW s \in Seq(T), NEW e \in T, NEW S
    PROVE  Count(Append(s, e), S) = Count(s, S) + (IF e \in S THEN 1 ELSE 0)
<1> DEFINE I == {i \in DOMAIN s : s[i] \in S}
           J == {i \in DOMAIN Append(s, e) : Append(s, e)[i] \in S}
<1>1. /\ DOMAIN s = 1..Len(s) /\ Len(s) \in Nat
      /\ DOMAIN Append(s, e) = 1..(Len(s) + 1)
      /\ \A i \in 1..Len(s) : Append(s, e)[i] = s[i]
      /\ Append(s, e)[Len(s) + 1] = e
  BY Appending, LenProperties
<1>2. \A i : i \in 1..(Len(s) + 1) <=> (i \in 1..Len(s) \/ i = Len(s) + 1)
  BY <1>1
<1>3. Len(s) + 1 \notin I
  BY <1>1
<1>4. J = IF e \in S THEN I \cup {Len(s) + 1} ELSE I
  BY <1>1, <1>2
<1>5. IsFiniteSet(I) /\ Cardinality(I) \in Nat
  BY CountIs DEF Count
<1>6. Count(s, S) = Cardinality(I) /\ Count(Append(s, e), S) = Cardinality(J)
  BY DEF Count
<1> HIDE DEF I, J
<1>7. Cardinality(I \cup {Len(s) + 1}) = Cardinality(I) + 1
  BY <1>3, <1>5, FS_AddElement
<1>8. CASE e \in S
  BY <1>4, <1>6, <1>7, <1>8
<1>9. CASE e \notin S
  BY <1>4, <1>5, <1>6, <1>9
<1> QED BY <1>8, <1>9

LEMMA CountTaken ==
    ASSUME NEW T, NEW s \in Seq(T), s # <<>>, NEW S
    PROVE  Count(s, S) = Count(Tail(s), S) + (IF Head(s) \in S THEN 1 ELSE 0)
<1> DEFINE I == {i \in DOMAIN s : s[i] \in S}
           J == {i \in DOMAIN Tail(s) : Tail(s)[i] \in S}
           K == I \ {1}
           f == [i \in J |-> i + 1]
<1>1. /\ Tail(s) \in Seq(T) /\ Len(Tail(s)) = Len(s) - 1 /\ Len(s) > 0 /\ Len(s) \in Nat
      /\ \A i \in 1..Len(Tail(s)) : Tail(s)[i] = s[i + 1]
      /\ Head(s) = s[1]
      /\ DOMAIN s = 1..Len(s) /\ DOMAIN Tail(s) = 1..Len(Tail(s))
  BY Taking, LenProperties
<1>2. IsFiniteSet(I) /\ IsFiniteSet(J) /\ Cardinality(I) \in Nat /\ Cardinality(J) \in Nat
  BY <1>1, CountIs DEF Count
<1>3. Count(s, S) = Cardinality(I) /\ Count(Tail(s), S) = Cardinality(J)
  BY DEF Count
<1>4. 1 \in I <=> Head(s) \in S
  BY <1>1
<1>5. \A i \in J : i \in 1..Len(Tail(s)) /\ Tail(s)[i] \in S
  BY <1>1
<1>6. \A i \in 1..Len(Tail(s)) : i + 1 \in 1..Len(s) /\ i + 1 # 1
  BY <1>1
<1>7. \A i \in J : f[i] \in K
  BY <1>1, <1>5, <1>6
<1>8. ASSUME NEW k \in K PROVE k - 1 \in J /\ (k - 1) + 1 = k
  <2>1. k \in 1..Len(s) /\ k # 1 /\ s[k] \in S
    BY <1>1
  <2>2. k - 1 \in 1..Len(Tail(s)) /\ (k - 1) + 1 = k
    BY <1>1, <2>1
  <2>3. Tail(s)[k - 1] = s[k]
    BY <1>1, <2>2
  <2> QED BY <1>1, <2>1, <2>2, <2>3
<1>9. \A i, j \in J : f[i] = f[j] => i = j
  BY <1>1, <1>5
<1>10. f \in Bijection(J, K)
  BY <1>7, <1>8, <1>9 DEF Bijection, Injection, IsInjective, Surjection
<1>11. Cardinality(K) = Cardinality(J)
  BY <1>2, <1>10, FS_Bijection DEF ExistsBijection
<1>12. Cardinality(K) = IF 1 \in I THEN Cardinality(I) - 1 ELSE Cardinality(I)
  BY <1>2, FS_RemoveElement
<1> HIDE DEF I, J, K
<1> QED BY <1>2, <1>3, <1>4, <1>11, <1>12

\* Where a caller is, and where it goes.
LEMMA CallerOf ==
    ASSUME NEW x \in CallerPlace
    PROVE  /\ x.step \in {"away", "send", "wait", "answered"}
           /\ x.step = "away" <=> x = Away
           /\ x.step # "away" => x.op \in Operations /\ x.name \in Names
           /\ x.step = "answered" => x.ok \in BOOLEAN
           /\ x.step = "send" =>
                /\ [x EXCEPT !.step = "wait"] \in CallerPlace
                /\ [x EXCEPT !.step = "wait"].step = "wait"
                /\ [x EXCEPT !.step = "wait"].op = x.op
                /\ [x EXCEPT !.step = "wait"].name = x.name
<1>1. CASE x \in [step : {"away"}]
  BY <1>1 DEF Away
<1>2. CASE x \in [step : {"send", "wait"}, op : Operations, name : Names]
  BY <1>2 DEF Away, CallerPlace
<1>3. CASE x \in [step : {"answered"}, op : Operations, name : Names, ok : BOOLEAN]
  BY <1>3 DEF Away
<1> QED BY <1>1, <1>2, <1>3 DEF CallerPlace

LEMMA CallerGoes ==
    /\ Away \in CallerPlace /\ Away.step = "away"
    /\ \A o \in Operations, n \in Names :
        /\ [step |-> "send", op |-> o, name |-> n] \in CallerPlace
        /\ \A b \in BOOLEAN : [step |-> "answered", op |-> o, name |-> n, ok |-> b] \in CallerPlace
BY DEF CallerPlace, Away

\* Messages to the client are told apart by their fields.
LEMMA Kinds ==
    ASSUME NEW x \in Answer \cup Delivery
    PROVE  /\ "ok" \in DOMAIN x <=> x \in Answer
           /\ "message" \in DOMAIN x <=> x \in Delivery
           /\ x \in Answer => x.to \in Callers /\ x.ok \in BOOLEAN /\ x \notin Delivery
           /\ x \in Delivery => x.message \in Messages /\ x = [message |-> x.message]
BY DEF Answer, Delivery

LEMMA TheClient == Client \in Conns /\ NoCallback \notin Callers
BY PubSubAssumption

\* Whoever has a request, the server's attention or an answer under way waits
\* for it, and has nothing else under way.
LEMMA Waiting ==
    ASSUME ClientTypes, OnePlace
    PROVE  /\ \A u \in Callers : Count(requests, Asks(u)) \in Nat /\ Count(inbox, Answers(u)) \in Nat
           /\ \A x \in Elements(requests) :
                /\ x \in TopicRequest /\ x.from \in Callers
                /\ caller[x.from].step = "wait" /\ x.from \notin serving
                /\ \A y \in Elements(inbox) : y \in Answer => y.to # x.from
           /\ \A u \in serving :
                /\ u \in Callers /\ caller[u].step = "wait"
                /\ \A y \in Elements(inbox) : y \in Answer => y.to # u
           /\ \A y \in Elements(inbox) : y \in Answer =>
                y.to \in Callers /\ y.ok \in BOOLEAN /\ caller[y.to].step = "wait"
<1>1. /\ requests \in Seq(TopicRequest) /\ inbox \in Seq(Answer \cup Delivery)
      /\ serving \in SUBSET Callers
  BY DEF ClientTypes
<1>2. ASSUME NEW u \in Callers
      PROVE  /\ Count(requests, Asks(u)) \in Nat /\ Count(inbox, Answers(u)) \in Nat
             /\ \A x \in Elements(requests) : x \in Asks(u) => Count(requests, Asks(u)) > 0
             /\ \A x \in Elements(inbox) : x \in Answers(u) => Count(inbox, Answers(u)) > 0
  BY <1>1, CountIs
<1>3. ASSUME NEW u \in Callers
      PROVE  /\ u \in serving =>
                caller[u].step = "wait" /\ Count(requests, Asks(u)) = 0 /\ Count(inbox, Answers(u)) = 0
             /\ Count(requests, Asks(u)) > 0 =>
                caller[u].step = "wait" /\ u \notin serving /\ Count(inbox, Answers(u)) = 0
             /\ Count(inbox, Answers(u)) > 0 => caller[u].step = "wait"
  <2> DEFINE p == Count(requests, Asks(u))
             q == Count(inbox, Answers(u))
  <2>1. p + q + (IF u \in serving THEN 1 ELSE 0) = IF caller[u].step = "wait" THEN 1 ELSE 0
    BY DEF OnePlace
  <2>2. p \in Nat /\ q \in Nat
    BY <1>2
  <2> HIDE DEF p, q
  <2>3. CASE u \in serving
    <3>1. p + q + 1 = IF caller[u].step = "wait" THEN 1 ELSE 0
      BY <2>1, <2>3
    <3>2. caller[u].step = "wait" /\ p = 0 /\ q = 0
      BY <2>2, <3>1
    <3> QED BY <2>3, <3>2 DEF p, q
  <2>4. CASE u \notin serving
    <3>1. p + q = IF caller[u].step = "wait" THEN 1 ELSE 0
      BY <2>1, <2>2, <2>4
    <3>2. p > 0 => caller[u].step = "wait" /\ q = 0
      BY <2>2, <3>1
    <3>3. q > 0 => caller[u].step = "wait"
      BY <2>2, <3>1
    <3> QED BY <2>4, <3>2, <3>3 DEF p, q
  <2> QED BY <2>3, <2>4
<1>4. ASSUME NEW x \in Elements(requests)
      PROVE  x \in TopicRequest /\ x.from \in Callers /\ x \in Asks(x.from)
  <2>1. x \in TopicRequest
    BY <1>1, ElementsIn
  <2>2. x.from \in Callers
    BY <2>1 DEF TopicRequest
  <2> QED BY <2>1, <2>2 DEF Asks
<1>5. ASSUME NEW x \in Elements(inbox), x \in Answer
      PROVE  x.to \in Callers /\ x.ok \in BOOLEAN /\ x \in Answers(x.to)
  BY <1>5 DEF Answer, Answers
<1>6. ASSUME NEW u \in Callers, Count(inbox, Answers(u)) = 0, NEW y \in Elements(inbox), y \in Answer
      PROVE  y.to # u
  <2>1. \A x \in Elements(inbox) : x \in Answers(u) => FALSE
    BY <1>2, <1>6
  <2> QED BY <1>5, <1>6, <2>1
<1>7. ASSUME NEW x \in Elements(requests)
      PROVE  /\ x \in TopicRequest /\ x.from \in Callers
             /\ caller[x.from].step = "wait" /\ x.from \notin serving
             /\ \A y \in Elements(inbox) : y \in Answer => y.to # x.from
  <2>1. x \in TopicRequest /\ x.from \in Callers /\ Count(requests, Asks(x.from)) > 0
    BY <1>2, <1>4
  <2> QED BY <1>3, <1>6, <2>1
<1>8. ASSUME NEW u \in serving
      PROVE  /\ u \in Callers /\ caller[u].step = "wait"
             /\ \A y \in Elements(inbox) : y \in Answer => y.to # u
  <2>1. u \in Callers
    BY <1>1
  <2> QED BY <1>3, <1>6, <2>1
<1>9. ASSUME NEW y \in Elements(inbox), y \in Answer
      PROVE  y.to \in Callers /\ y.ok \in BOOLEAN /\ caller[y.to].step = "wait"
  <2>1. y.to \in Callers /\ Count(inbox, Answers(y.to)) > 0
    BY <1>2, <1>5, <1>9
  <2> QED BY <1>3, <1>5, <1>9, <2>1
<1> QED BY <1>2, <1>7, <1>8, <1>9

-----------------------------------------------------------------------------
(* The client's invariant: where it holds first, and what leaves it alone. *)

LEMMA InitClientInv == PubSubInit => ClientInv
<1> SUFFICES ASSUME PubSubInit PROVE ClientInv
  OBVIOUS
<1>1. /\ callbacks = [n \in Names |-> NoCallback] /\ caller = [u \in Callers |-> Away]
      /\ requests = <<>> /\ serving = {} /\ inbox = <<>> /\ shown = {} /\ promised = {}
      /\ crossed = {} /\ at[Client] = Idle /\ joined[Client] = [n \in Names |-> NoTopic]
  BY TheClient DEF PubSubInit, Init
<1>2. Elements(requests) = {} /\ Elements(inbox) = {}
  BY <1>1 DEF Elements
<1>3. ClientTypes
  BY <1>1, CallerGoes, EmptySeq DEF ClientTypes
<1>4. OnePlace
  <2> SUFFICES ASSUME NEW u \in Callers
               PROVE  Count(requests, Asks(u)) + Count(inbox, Answers(u))
                        + (IF u \in serving THEN 1 ELSE 0)
                      = IF caller[u].step = "wait" THEN 1 ELSE 0
    BY DEF OnePlace
  <2>1. requests \in Seq(TopicRequest) /\ inbox \in Seq(Answer \cup Delivery)
    BY <1>3 DEF ClientTypes
  <2>2. Count(requests, Asks(u)) = 0 /\ Count(inbox, Answers(u)) = 0
    BY <1>1, <2>1, CountIs
  <2>3. caller[u].step # "wait"
    BY <1>1, CallerGoes
  <2> QED BY <1>1, <2>2, <2>3
<1>5. RequestsMatch /\ ServingOK
  BY <1>1, <1>2, Going DEF RequestsMatch, ServingOK
<1>6. Uncrossed
  BY <1>1 DEF Uncrossed, Busy, CallbackWhileJoined
<1>7. AnswersOK
  BY <1>1, <1>2, CallerGoes DEF AnswersOK
<1>8. PromisedOK
  BY <1>1 DEF PromisedOK
<1> QED BY <1>3, <1>4, <1>5, <1>6, <1>7, <1>8 DEF ClientInv

\* What arrives unasked in the inbox: a message, or nothing.
Arrivals == {inbox} \cup {Append(inbox, d) : d \in Delivery}

LEMMA Arriving ==
    ASSUME ClientTypes, NEW q \in Arrivals
    PROVE  /\ q \in Seq(Answer \cup Delivery) /\ Elements(inbox) \subseteq Elements(q)
           /\ \A z \in Elements(q) : z \in Answer => z \in Elements(inbox)
           /\ \A u \in Callers : Count(q, Answers(u)) = Count(inbox, Answers(u))
<1>1. inbox \in Seq(Answer \cup Delivery)
  BY DEF ClientTypes
<1>2. CASE q = inbox
  BY <1>1, <1>2
<1>3. ASSUME NEW d \in Delivery, q = Append(inbox, d)
      PROVE  /\ q \in Seq(Answer \cup Delivery) /\ Elements(inbox) \subseteq Elements(q)
             /\ \A z \in Elements(q) : z \in Answer => z \in Elements(inbox)
             /\ \A u \in Callers : Count(q, Answers(u)) = Count(inbox, Answers(u))
  <2>1. d \in Answer \cup Delivery /\ d \notin Answer
    BY Kinds
  <2>2. q \in Seq(Answer \cup Delivery) /\ Elements(q) = Elements(inbox) \cup {d}
    BY <1>1, <1>3, <2>1, Appending
  <2>3. ASSUME NEW u \in Callers PROVE Count(q, Answers(u)) = Count(inbox, Answers(u))
    <3>1. Count(q, Answers(u)) = Count(inbox, Answers(u)) + (IF d \in Answers(u) THEN 1 ELSE 0)
      BY <1>1, <1>3, <2>1, CountAppended
    <3>2. d \notin Answers(u) /\ Count(inbox, Answers(u)) \in Nat
      BY <1>1, <2>1, CountIs DEF Answers
    <3> QED BY <3>1, <3>2
  <2> QED BY <2>1, <2>2, <2>3
<1> QED BY <1>2, <1>3 DEF Arrivals

\* What a step of the server leaves of the client's invariant when at most it
\* ends the client's subscriptions and sends it a message.
LEMMA ClientKept ==
    ASSUME ClientInv, UNCHANGED <<callbacks, caller, requests, serving, shown, crossed>>,
           inbox' \in Arrivals, promised' \in SUBSET Messages,
           \A n \in Names : joined'[Client][n] \in {joined[Client][n], NoTopic}
    PROVE  /\ ClientTypes' /\ OnePlace' /\ RequestsMatch' /\ Uncrossed' /\ AnswersOK'
           /\ \A u \in serving : caller[u].op = "cancel" => joined'[Client][caller[u].name] = NoTopic
<1>1. /\ inbox' \in Seq(Answer \cup Delivery)
      /\ \A z \in Elements(inbox') : z \in Answer => z \in Elements(inbox)
      /\ \A u \in Callers : Count(inbox', Answers(u)) = Count(inbox, Answers(u))
  BY Arriving DEF ClientInv
<1>2. ClientTypes'
  BY <1>1 DEF ClientInv, ClientTypes
<1>3. OnePlace'
  BY <1>1 DEF ClientInv, OnePlace, Count
<1>4. RequestsMatch'
  BY DEF ClientInv, RequestsMatch, Elements
<1>5. \A u \in Callers : caller[u].step # "away" => caller[u].name \in Names
  BY CallerOf DEF ClientInv, ClientTypes
<1>6. \A u \in serving : u \in Callers /\ caller[u].step # "away"
  BY Waiting DEF ClientInv
<1>7. \A u \in serving : caller[u].op = "cancel" => joined'[Client][caller[u].name] = NoTopic
  <2>1. ASSUME NEW u \in serving PROVE joined'[Client][caller[u].name] \in {joined[Client][caller[u].name], NoTopic}
    BY <1>5, <1>6
  <2> QED BY <2>1 DEF ClientInv, ServingOK
<1>8. Uncrossed'
  BY DEF ClientInv, Uncrossed, Busy, CallbackWhileJoined
<1>9. ASSUME NEW u \in Callers, caller[u].step # "away", NEW ok, Over(u, ok) PROVE Over(u, ok)'
  BY <1>5, <1>9 DEF Over
<1>10. AnswersOK'
  <2>1. ASSUME NEW u \in Callers PROVE (caller[u].step = "answered" => Over(u, caller[u].ok))'
    <3>1. ASSUME caller[u].step = "answered" PROVE Over(u, caller[u].ok)'
      BY <1>9, <3>1 DEF ClientInv, AnswersOK, Over
    <3> QED BY <3>1
  <2>2. ASSUME NEW x \in Elements(inbox'), x \in Answer PROVE Over(x.to, x.ok)'
    <3>1. x \in Elements(inbox)
      BY <1>1, <2>2
    <3>2. x.to \in Callers /\ caller[x.to].step # "away"
      BY <2>2, <3>1, Waiting DEF ClientInv
    <3> QED BY <1>9, <2>2, <3>1, <3>2 DEF ClientInv, AnswersOK
  <2> QED BY <2>1, <2>2 DEF AnswersOK, Elements
<1> QED BY <1>2, <1>3, <1>4, <1>7, <1>8, <1>10

\* ... and leaves the client's handler where it is.
LEMMA ClientUnmoved ==
    ASSUME ClientInv, UNCHANGED <<callbacks, caller, requests, serving, shown, crossed>>,
           inbox' \in Arrivals, promised' \in SUBSET Messages,
           at'[Client] = at[Client], running' => running,
           \A n \in Names : joined'[Client][n] \in {joined[Client][n], NoTopic}
    PROVE  ClientTypes' /\ OnePlace' /\ RequestsMatch' /\ ServingOK' /\ Uncrossed' /\ AnswersOK'
<1>1. /\ ClientTypes' /\ OnePlace' /\ RequestsMatch' /\ Uncrossed' /\ AnswersOK'
      /\ \A u \in serving : caller[u].op = "cancel" => joined'[Client][caller[u].name] = NoTopic
  BY ClientKept
<1>2. ServingOK'
  BY <1>1 DEF ClientInv, ServingOK
<1> QED BY <1>1, <1>2

LEMMA PromisesStay ==
    ASSUME ClientInv, UNCHANGED <<caller, crossed, shown>>, promised' \subseteq promised,
           closed \subseteq closed', \A m \in promised' : joined'[Client][m.name] # NoTopic,
           Elements(inbox) \subseteq Elements(inbox'),
           Client \notin closed' => \A m \in promised' :
              m \in owed[Client] \/ m \in Elements(pending[Client])
                => \/ m \in owed'[Client] \/ m \in Elements(pending'[Client])
                   \/ [message |-> m] \in Elements(inbox')
    PROVE  PromisedOK'
<1> SUFFICES ASSUME NEW m \in promised'
             PROVE  /\ joined'[Client][m.name] # NoTopic
                    /\ \A u \in Callers : ~(Busy(u, m.name) /\ caller[u].op = "cancel")'
                    /\ m.name \notin crossed' /\ Client \notin closed' =>
                        \/ m \in owed'[Client] \/ m \in Elements(pending'[Client])
                        \/ [message |-> m] \in Elements(inbox') \/ m \in shown'
  BY DEF PromisedOK, Connected, Busy, Elements
<1>1. PromisedOK /\ m \in promised
  BY DEF ClientInv
<1>2. \A u \in Callers : ~(Busy(u, m.name) /\ caller[u].op = "cancel")'
  BY <1>1 DEF PromisedOK, Busy
<1>3. ASSUME m.name \notin crossed', Client \notin closed'
      PROVE  \/ m \in owed'[Client] \/ m \in Elements(pending'[Client])
             \/ [message |-> m] \in Elements(inbox') \/ m \in shown'
  <2>1. m.name \notin crossed /\ Connected
    BY <1>3 DEF Connected
  <2>2. \/ m \in owed[Client] \/ m \in Elements(pending[Client])
        \/ [message |-> m] \in Elements(inbox) \/ m \in shown
    BY <1>1, <2>1 DEF PromisedOK
  <2> QED BY <1>3, <2>2
<1> QED BY <1>2, <1>3

-----------------------------------------------------------------------------
(* The other clients' requests and handlers, the loops and the closes.     *)

\* What a step leaves alone keeps the client's invariant.
LEMMA ClientAside ==
    ASSUME ClientInv, UNCHANGED <<clientVars, promised>>,
           at'[Client] = at[Client], joined'[Client] = joined[Client], running' => running,
           owed'[Client] = owed[Client], pending'[Client] = pending[Client], closed \subseteq closed'
    PROVE  ClientInv'
<1>1. promised' \in SUBSET Messages
  BY DEF ClientInv, ClientTypes
<1>2. UNCHANGED <<callbacks, caller, requests, serving, inbox, shown, crossed>>
  BY DEF clientVars
<1>3. inbox' \in Arrivals
  BY <1>2 DEF Arrivals
<1>4. ClientTypes' /\ OnePlace' /\ RequestsMatch' /\ ServingOK' /\ Uncrossed' /\ AnswersOK'
  BY <1>1, <1>2, <1>3, ClientUnmoved
<1>5. Elements(inbox) \subseteq Elements(inbox')
  BY <1>2
<1>6. \A m \in promised' : joined'[Client][m.name] # NoTopic
  BY DEF ClientInv, PromisedOK
<1>7. PromisedOK'
  BY <1>2, <1>5, <1>6, PromisesStay
<1> QED BY <1>4, <1>7 DEF ClientInv

\* What an operation does to what the client may expect: a message that is new
\* among it is owed to the client, and nobody is about to cancel.
LEMMA Expecting ==
    ASSUME IInv, ClientInv, NEW c \in Conns, NEW o \in Operations, NEW n \in Names,
           TopicOperation(c, o, n),
           c = Client /\ o = "cancel" => \A m \in promised : m.name # n
    PROVE  /\ promised' \in SUBSET Messages
           /\ \A k \in Names : joined'[Client][k] \in {joined[Client][k], NoTopic}
           /\ \A m \in promised' :
                /\ joined'[Client][m.name] # NoTopic
                /\ \A u \in Callers : ~(Busy(u, m.name) /\ caller[u].op = "cancel")
                /\ m \in promised \/ m \in owed'[Client]
                /\ m \in owed[Client] => m \in owed'[Client]
           /\ UNCHANGED <<pending, closed, running>>
           /\ c # Client => at'[Client] = at[Client]
<1>1. /\ at \in [Conns -> Place] /\ joined \in [Conns -> [Names -> Topics \cup {NoTopic}]]
      /\ owed \in [Conns -> SUBSET Messages] /\ Client \in Conns
  BY TheClient DEF IInv, TypesOK, TypeOK
<1>2. promised \in SUBSET Messages /\ \A m \in promised : m.name \in Names
  BY DEF ClientInv, ClientTypes, Messages
<1>3. \A m \in promised : /\ joined[Client][m.name] # NoTopic
                          /\ \A u \in Callers : ~(Busy(u, m.name) /\ caller[u].op = "cancel")
  BY DEF ClientInv, PromisedOK
<1>4. CASE o = "create"
  <2>1. /\ AddTopic(c, n) /\ promised' = promised
    BY <1>4 DEF TopicOperation
  <2> QED BY <1>2, <1>3, <2>1 DEF AddTopic, histories
<1>5. CASE o = "subscribe"
  <2>1. /\ SubscribeTopic(c, n) /\ promised' = promised
    BY <1>5 DEF TopicOperation
  <2>2. UNCHANGED <<joined, owed, pending, closed, running>> /\ (c # Client => at'[Client] = at[Client])
    BY <1>1, <2>1 DEF SubscribeTopic
  <2> QED BY <1>2, <1>3, <2>1, <2>2
<1>6. CASE o = "cancel"
  <2>1. CancelSubscribe(c, n) /\ promised' = promised
    BY <1>6 DEF TopicOperation
  <2>2. /\ UNCHANGED <<pending, closed, running>> /\ (c # Client => at'[Client] = at[Client])
        /\ joined'[Client] = IF c = Client THEN [joined[Client] EXCEPT ![n] = NoTopic] ELSE joined[Client]
        /\ owed'[Client] = IF c = Client THEN owed[Client] \ OfName(n, owed[Client]) ELSE owed[Client]
    BY <1>1, <2>1 DEF CancelSubscribe
  <2>3. \A k \in Names : joined'[Client][k] =
            IF c = Client /\ k = n THEN NoTopic ELSE joined[Client][k]
    BY <1>1, <2>2
  <2>4. \A m \in promised : ~(c = Client /\ m.name = n)
    BY <1>6
  <2> QED BY <1>2, <1>3, <2>1, <2>2, <2>3, <2>4 DEF OfName
<1>7. CASE o = "remove"
  <2>1. RemoveTopic(c, n) /\ promised' = promised \ OfName(n, promised)
    BY <1>7 DEF TopicOperation
  <2>2. /\ UNCHANGED <<pending, closed, running>> /\ (c # Client => at'[Client] = at[Client])
        /\ joined'[Client] = [joined[Client] EXCEPT ![n] = NoTopic]
        /\ owed'[Client] = owed[Client] \ OfName(n, owed[Client])
    BY <1>1, <2>1 DEF RemoveTopic
  <2>3. \A k \in Names : joined'[Client][k] = IF k = n THEN NoTopic ELSE joined[Client][k]
    BY <1>1, <2>2
  <2>4. \A m \in promised' : m \in promised /\ m.name # n
    BY <2>1 DEF OfName
  <2> QED BY <1>2, <1>3, <2>1, <2>2, <2>3, <2>4 DEF OfName
<1>8. CASE o = "publish"
  <2> DEFINE m0 == [by |-> c, no |-> asked'[c], name |-> n]
  <2>1. /\ PublishTopic(c, n)
        /\ promised' = IF Cancelling(n) THEN promised
                       ELSE promised \cup (owed'[Client] \ owed[Client])
    BY <1>8 DEF TopicOperation
  <2>2. /\ UNCHANGED <<joined, pending, closed, running>> /\ (c # Client => at'[Client] = at[Client])
        /\ \/ owed'[Client] = owed[Client]
           \/ /\ owed'[Client] = owed[Client] \cup {m0}
              /\ joined[Client][n] = topics[n] /\ topics[n] # NoTopic
    BY <1>1, <2>1 DEF PublishTopic
  <2>3. IInv'
    BY <2>1, PublishTopicKeepsIInv
  <2>4. owed'[Client] \in SUBSET Messages
    BY <1>1, <2>3 DEF IInv, TypesOK, TypeOK
  <2>5. promised' \in SUBSET Messages
    BY <1>2, <2>1, <2>4
  <2>6. ASSUME NEW m \in promised', m \notin promised
        PROVE  /\ m \in owed'[Client] /\ joined[Client][m.name] # NoTopic
               /\ \A u \in Callers : ~(Busy(u, m.name) /\ caller[u].op = "cancel")
    <3>1. ~Cancelling(n) /\ m \in owed'[Client] /\ m \notin owed[Client]
      BY <2>1, <2>6
    <3>2. m = m0 /\ joined[Client][n] # NoTopic
      BY <2>2, <3>1
    <3>3. m.name = n
      BY <3>2
    <3> QED BY <3>1, <3>2, <3>3 DEF Cancelling
  <2>7. owed[Client] \subseteq owed'[Client]
    BY <2>2
  <2> HIDE DEF m0
  <2> QED BY <1>3, <2>2, <2>5, <2>6, <2>7
<1> QED BY <1>4, <1>5, <1>6, <1>7, <1>8 DEF Operations, Callbacks

LEMMA OtherRequestKeepsClientInv ==
    ASSUME IInv, ClientInv, NEW c \in Conns, NEW n \in Names, OtherRequest(c, n)
    PROVE  ClientInv'
<1>1. /\ c # Client /\ UNCHANGED <<callbacks, caller, requests, serving, inbox, shown, crossed>>
  BY DEF OtherRequest, clientVars
<1>2. PICK o \in Operations : TopicOperation(c, o, n)
  BY DEF OtherRequest
<1>3. /\ promised' \in SUBSET Messages
      /\ \A k \in Names : joined'[Client][k] \in {joined[Client][k], NoTopic}
      /\ UNCHANGED <<pending, closed, running>>
      /\ at'[Client] = at[Client]
  BY <1>1, <1>2, Expecting
<1>4. \A m \in promised' :
         /\ joined'[Client][m.name] # NoTopic
         /\ \A u \in Callers : ~(Busy(u, m.name) /\ caller[u].op = "cancel")
         /\ m \in promised \/ m \in owed'[Client]
         /\ m \in owed[Client] => m \in owed'[Client]
  BY <1>1, <1>2, Expecting
<1>5. inbox' \in Arrivals
  BY <1>1 DEF Arrivals
<1>6. ClientTypes' /\ OnePlace' /\ RequestsMatch' /\ ServingOK' /\ Uncrossed' /\ AnswersOK'
  BY <1>1, <1>3, <1>5, ClientUnmoved
<1>7. PromisedOK'
  <2> SUFFICES ASSUME NEW m \in promised'
               PROVE  /\ joined'[Client][m.name] # NoTopic
                      /\ \A u \in Callers : ~(Busy(u, m.name) /\ caller[u].op = "cancel")
                      /\ m.name \notin crossed /\ Connected =>
                          \/ m \in owed'[Client] \/ m \in Elements(pending[Client])
                          \/ [message |-> m] \in Elements(inbox) \/ m \in shown
    BY <1>1, <1>3 DEF PromisedOK, Connected, Busy, Elements
  <2> QED BY <1>4 DEF ClientInv, PromisedOK
<1> QED BY <1>6, <1>7 DEF ClientInv

\* What a handler sends to the client arrives or waits for its loop.
LEMMA Writing ==
    ASSUME IInv, ClientInv
    PROVE  /\ sent'[Client] = sent[Client] => Written = <<>> /\ inbox \o Written = inbox
           /\ \A m \in Messages : sent'[Client] = Append(sent[Client], m) =>
                /\ inbox \o Written = Append(inbox, [message |-> m])
                /\ Elements(inbox \o Written) = Elements(inbox) \cup {[message |-> m]}
           /\ inbox \in Arrivals
           /\ \A m \in Messages : Append(inbox, [message |-> m]) \in Arrivals
<1>1. sent[Client] \in Seq(Messages) /\ inbox \in Seq(Answer \cup Delivery)
  BY TheClient DEF IInv, TypesOK, TypeOK, ClientInv, ClientTypes
<1>2. sent'[Client] = sent[Client] => Written = <<>> /\ inbox \o Written = inbox
  BY <1>1 DEF Written
<1>3. ASSUME NEW m \in Messages, sent'[Client] = Append(sent[Client], m)
      PROVE  /\ inbox \o Written = Append(inbox, [message |-> m])
             /\ Elements(inbox \o Written) = Elements(inbox) \cup {[message |-> m]}
  <2>1. /\ Len(sent'[Client]) = Len(sent[Client]) + 1 /\ Len(sent[Client]) \in Nat
        /\ sent'[Client][Len(sent[Client]) + 1] = m
    BY <1>1, <1>3, AppendProperties, LenProperties
  <2>2. sent'[Client] # sent[Client]
    BY <2>1
  <2>3. PICK d \in Delivery : d = [message |-> m]
    BY DEF Delivery
  <2>4. Written = <<d>>
    BY <2>1, <2>2, <2>3 DEF Written
  <2>5. d \in Answer \cup Delivery
    OBVIOUS
  <2>6. inbox \o <<d>> = Append(inbox, d)
    BY <1>1, <2>5
  <2>7. Elements(Append(inbox, d)) = Elements(inbox) \cup {d}
    BY <1>1, <2>5, Appending
  <2> QED BY <2>3, <2>4, <2>6, <2>7
<1>4. inbox \in Arrivals /\ \A m \in Messages : Append(inbox, [message |-> m]) \in Arrivals
  BY DEF Arrivals, Delivery
<1> QED BY <1>2, <1>3, <1>4

LEMMA HandlerSends ==
    ASSUME IInv, ClientInv, NEW c \in Conns, HandlerStep(c)
    PROVE  /\ UNCHANGED closed /\ (running' => running)
           /\ inbox \o Written \in Arrivals
           /\ Client \notin closed => \A m : m \in owed[Client] \/ m \in Elements(pending[Client]) =>
                \/ m \in owed'[Client] \/ m \in Elements(pending'[Client])
                \/ [message |-> m] \in Elements(inbox \o Written)
<1>1. /\ at \in [Conns -> Place] /\ owed \in [Conns -> SUBSET Messages]
      /\ pending \in [Conns -> Seq(Messages)] /\ sent \in [Conns -> Seq(Messages)]
      /\ Client \in Conns
  BY TheClient DEF IInv, TypesOK, TypeOK
<1>2. ASSUME UNCHANGED <<owed, pending, sent, closed>>, running' => running
      PROVE  /\ UNCHANGED closed /\ (running' => running)
             /\ inbox \o Written \in Arrivals
             /\ Client \notin closed => \A m : m \in owed[Client] \/ m \in Elements(pending[Client]) =>
                \/ m \in owed'[Client] \/ m \in Elements(pending'[Client])
                \/ [message |-> m] \in Elements(inbox \o Written)
  <2>1. inbox \o Written = inbox /\ inbox \in Arrivals
    BY <1>2, Writing
  <2> QED BY <1>2, <2>1
<1>3. CASE RemoveAllSubscriber(c)
  BY <1>2, <1>3 DEF RemoveAllSubscriber, histories
<1>4. CASE AddSubscriber(c)
  BY <1>2, <1>4 DEF AddSubscriber
<1>5. CASE RemoveSubscriber(c)
  BY <1>2, <1>5 DEF RemoveSubscriber, histories
<1>6. CASE SendSubscribers(c)
  BY <1>2, <1>6 DEF SendSubscribers
<1>7. CASE SendOne(c)
  <2> DEFINE m0 == at[c].message
  <2>1. PICK s \in at[c].rest :
          /\ owed' = [owed EXCEPT ![s[1]] = @ \ {m0}]
          /\ IF s[1] \in closed
             THEN UNCHANGED <<sent, pending>>
             ELSE IF SameLoop(c, s[1])
             THEN /\ sent' = [sent EXCEPT ![s[1]] = Append(@, m0)]
                  /\ UNCHANGED pending
             ELSE /\ pending' = [pending EXCEPT ![s[1]] = Append(@, m0)]
                  /\ UNCHANGED sent
          /\ UNCHANGED <<closed, running>>
    BY <1>7 DEF SendOne
  <2>2. m0 \in Messages
    BY <1>1, <1>7, PlaceOf DEF SendOne
  <2> HIDE DEF m0
  <2>3. CASE s[1] # Client \/ s[1] \in closed
    <3>1. sent'[Client] = sent[Client] /\ pending'[Client] = pending[Client]
      BY <1>1, <2>1, <2>3
    <3>2. Client \notin closed => owed'[Client] = owed[Client]
      BY <1>1, <2>1, <2>3
    <3>3. inbox \o Written = inbox /\ inbox \in Arrivals
      BY <3>1, Writing
    <3> QED BY <2>1, <3>1, <3>2, <3>3
  <2>4. CASE s[1] = Client /\ Client \notin closed /\ SameLoop(c, Client)
    <3>1. /\ sent'[Client] = Append(sent[Client], m0) /\ pending'[Client] = pending[Client]
          /\ owed'[Client] = owed[Client] \ {m0}
      BY <1>1, <2>1, <2>4
    <3>2. /\ inbox \o Written = Append(inbox, [message |-> m0])
          /\ Elements(inbox \o Written) = Elements(inbox) \cup {[message |-> m0]}
          /\ Append(inbox, [message |-> m0]) \in Arrivals
      BY <2>2, <3>1, Writing
    <3> QED BY <2>1, <3>1, <3>2
  <2>5. CASE s[1] = Client /\ Client \notin closed /\ ~SameLoop(c, Client)
    <3>1. /\ sent'[Client] = sent[Client] /\ pending'[Client] = Append(pending[Client], m0)
          /\ owed'[Client] = owed[Client] \ {m0}
      BY <1>1, <2>1, <2>5
    <3>2. Elements(Append(pending[Client], m0)) = Elements(pending[Client]) \cup {m0}
      BY <1>1, <2>2, Appending
    <3>3. inbox \o Written = inbox /\ inbox \in Arrivals
      BY <3>1, Writing
    <3> QED BY <2>1, <3>1, <3>2, <3>3
  <2> QED BY <2>3, <2>4, <2>5
<1> QED BY <1>3, <1>4, <1>5, <1>6, <1>7 DEF HandlerStep

LEMMA OtherHandlerKeepsClientInv ==
    ASSUME IInv, ClientInv, NEW c \in Conns, OtherHandler(c)
    PROVE  ClientInv'
<1>1. /\ c # Client /\ Client \in Conns /\ HandlerStep(c) /\ inbox' = inbox \o Written
      /\ UNCHANGED <<callbacks, caller, requests, serving, shown, promised, crossed>>
  BY TheClient DEF OtherHandler
<1>2. /\ at \in [Conns -> Place] /\ joined \in [Conns -> [Names -> Topics \cup {NoTopic}]]
  BY DEF IInv, TypesOK, TypeOK
<1>3. at'[Client] = at[Client] /\ joined'[Client] = joined[Client]
  BY <1>1, <1>2 DEF HandlerStep, RemoveAllSubscriber, AddSubscriber, RemoveSubscriber,
                    SendSubscribers, SendOne, histories
<1>4. /\ UNCHANGED closed /\ (running' => running) /\ inbox' \in Arrivals
      /\ Client \notin closed => \A m : m \in owed[Client] \/ m \in Elements(pending[Client]) =>
            \/ m \in owed'[Client] \/ m \in Elements(pending'[Client])
            \/ [message |-> m] \in Elements(inbox')
  BY <1>1, HandlerSends
<1>5. promised' \in SUBSET Messages
  BY <1>1 DEF ClientInv, ClientTypes
<1>6. ClientTypes' /\ OnePlace' /\ RequestsMatch' /\ ServingOK' /\ Uncrossed' /\ AnswersOK'
  BY <1>1, <1>3, <1>4, <1>5, ClientUnmoved
<1>7. Elements(inbox) \subseteq Elements(inbox')
  BY <1>4, Arriving DEF ClientInv
<1>8. \A m \in promised' : joined'[Client][m.name] # NoTopic
  BY <1>1, <1>3 DEF ClientInv, PromisedOK
<1>9. PromisedOK'
  BY <1>1, <1>4, <1>7, <1>8, PromisesStay
<1> QED BY <1>6, <1>9 DEF ClientInv

LEMMA DeliverPublishKeepsClientInv ==
    ASSUME IInv, ClientInv, NEW c \in Conns, DeliverPublish(c)
    PROVE  ClientInv'
<1>1. /\ WriteQueued(c) /\ Client \in Conns /\ inbox' = inbox \o Written
      /\ UNCHANGED <<callbacks, caller, requests, serving, shown, promised, crossed>>
      /\ UNCHANGED <<at, joined, owed, closed, running>>
  BY TheClient DEF DeliverPublish, WriteQueued
<1>2. pending \in [Conns -> Seq(Messages)] /\ sent \in [Conns -> Seq(Messages)]
  BY DEF IInv, TypesOK, TypeOK
<1>3. /\ inbox' \in Arrivals
      /\ \A m : m \in Elements(pending[Client]) =>
            m \in Elements(pending'[Client]) \/ [message |-> m] \in Elements(inbox')
  <2>1. CASE c # Client
    <3>1. pending'[Client] = pending[Client] /\ sent'[Client] = sent[Client]
      BY <1>1, <1>2, <2>1 DEF WriteQueued
    <3> QED BY <1>1, <3>1, Writing
  <2>2. CASE c = Client
    <3>1. /\ pending[Client] \in Seq(Messages) /\ pending[Client] # <<>>
          /\ pending'[Client] = Tail(pending[Client])
          /\ sent'[Client] = Append(sent[Client], Head(pending[Client]))
      BY <1>1, <1>2, <2>2 DEF WriteQueued
    <3>2. PICK m0 \in Messages : m0 = Head(pending[Client])
      BY <3>1, Taking
    <3>3. Elements(pending[Client]) = Elements(pending'[Client]) \cup {m0}
      BY <3>1, <3>2, Taking
    <3>4. /\ inbox' = Append(inbox, [message |-> m0])
          /\ Elements(inbox') = Elements(inbox) \cup {[message |-> m0]}
          /\ Append(inbox, [message |-> m0]) \in Arrivals
      BY <1>1, <3>1, <3>2, Writing
    <3> QED BY <3>3, <3>4
  <2> QED BY <2>1, <2>2
<1>4. promised' \in SUBSET Messages
  BY <1>1 DEF ClientInv, ClientTypes
<1>5. ClientTypes' /\ OnePlace' /\ RequestsMatch' /\ ServingOK' /\ Uncrossed' /\ AnswersOK'
  BY <1>1, <1>3, <1>4, ClientUnmoved
<1>6. Elements(inbox) \subseteq Elements(inbox')
  BY <1>3, Arriving DEF ClientInv
<1>7. \A m \in promised' : joined'[Client][m.name] # NoTopic
  BY <1>1 DEF ClientInv, PromisedOK
<1>8. PromisedOK'
  BY <1>1, <1>3, <1>6, <1>7, PromisesStay
<1> QED BY <1>5, <1>8 DEF ClientInv

LEMMA DisconnectKeepsClientInv ==
    ASSUME IInv, ClientInv, NEW c \in Conns, Disconnect(c)
    PROVE  ClientInv'
<1>1. /\ UNCHANGED <<clientVars, promised>> /\ UNCHANGED <<at, joined, running>>
      /\ closed' = closed \cup {c}
      /\ UNCHANGED <<callbacks, caller, requests, serving, inbox, shown, crossed>>
  BY DEF Disconnect, Close, clientVars
<1>2. promised' \in SUBSET Messages
  BY <1>1 DEF ClientInv, ClientTypes
<1>3. inbox' \in Arrivals
  BY <1>1 DEF Arrivals
<1>4. ClientTypes' /\ OnePlace' /\ RequestsMatch' /\ ServingOK' /\ Uncrossed' /\ AnswersOK'
  BY <1>1, <1>2, <1>3, ClientUnmoved
<1>5. \A m \in promised' : joined'[Client][m.name] # NoTopic
  BY <1>1 DEF ClientInv, PromisedOK
<1>6. Client \notin closed' => owed'[Client] = owed[Client] /\ pending'[Client] = pending[Client]
  BY <1>1, TheClient DEF Disconnect, Close, IInv, TypesOK, TypeOK
<1>7. Elements(inbox) \subseteq Elements(inbox') /\ closed \subseteq closed'
  BY <1>1
<1>8. PromisedOK'
  BY <1>1, <1>5, <1>6, <1>7, PromisesStay
<1> QED BY <1>4, <1>8 DEF ClientInv

-----------------------------------------------------------------------------
(* The client's own steps.                                                 *)

LEMMA CallerMoves ==
    ASSUME ClientTypes, NEW u \in Callers, NEW y \in CallerPlace, caller' = [caller EXCEPT ![u] = y]
    PROVE  /\ caller' \in [Callers -> CallerPlace] /\ caller'[u] = y
           /\ \A v \in Callers : v # u => caller'[v] = caller[v]
BY DEF ClientTypes

\* Somebody starts an operation, which he counts as crossed if another is at it.
LEMMA Starting ==
    ASSUME ClientInv, NEW u \in Callers, NEW n \in Names, NEW o \in Operations, Starts(u, o, n),
           IF o \in Callbacks THEN Crossing(u, n) ELSE UNCHANGED crossed,
           callbacks' \in [Names -> Callers \cup {NoCallback}],
           \A k \in Names : callbacks[k] # NoCallback => callbacks'[k] # NoCallback,
           o = "subscribe" => callbacks'[n] # NoCallback, promised' \subseteq promised,
           UNCHANGED <<at, joined, running, requests, serving, inbox, shown>>
    PROVE  /\ ClientTypes' /\ OnePlace' /\ RequestsMatch' /\ ServingOK' /\ Uncrossed' /\ AnswersOK'
           /\ crossed \subseteq crossed'
           /\ \A v \in Callers, k \in Names : Busy(v, k)' => Busy(v, k) \/ (v = u /\ k = n /\ o \in Callbacks)
           /\ \A v \in Callers : v # u => caller'[v] = caller[v]
           /\ caller'[u].op = o
<1> DEFINE y == [step |-> "send", op |-> o, name |-> n]
<1>1. y \in CallerPlace /\ y.step = "send" /\ y.op = o /\ y.name = n /\ y # Away
  BY CallerGoes, CallerOf
<1>2. /\ caller' \in [Callers -> CallerPlace] /\ caller'[u] = y
      /\ \A v \in Callers : v # u => caller'[v] = caller[v]
  BY <1>1, CallerMoves DEF ClientInv, Starts
<1>3. caller[u] = Away /\ caller[u].step = "away"
  BY CallerGoes DEF Starts
<1> HIDE DEF y
<1>4. crossed' \in SUBSET Names /\ crossed \subseteq crossed'
  BY DEF ClientInv, ClientTypes, Crossing
<1>5. ClientTypes'
  BY <1>2, <1>4 DEF ClientInv, ClientTypes
<1>6. OnePlace'
  BY <1>1, <1>2, <1>3 DEF ClientInv, OnePlace, Count
<1>7. \A x \in Elements(requests) : x.from \in Callers /\ x.from # u
  BY <1>3, Waiting DEF ClientInv
<1>8. \A v \in serving : v \in Callers /\ v # u
  BY <1>3, Waiting DEF ClientInv
<1>9. \A x \in Elements(inbox) : x \in Answer => x.to \in Callers /\ x.to # u
  BY <1>3, Waiting DEF ClientInv
<1>10. RequestsMatch'
  BY <1>2, <1>7 DEF ClientInv, RequestsMatch, Elements
<1>11. ServingOK'
  BY <1>2, <1>8 DEF ClientInv, ServingOK
<1>12. \A v \in Callers, k \in Names : Busy(v, k)' => Busy(v, k) \/ (v = u /\ k = n /\ o \in Callbacks)
  BY <1>1, <1>2 DEF Busy
<1>13. o \in Callbacks /\ n \notin crossed' => \A v \in Callers : v # u => ~Busy(v, n)
  BY DEF Crossing, Busy
<1>14. Uncrossed'
  <2> SUFFICES ASSUME NEW k \in Names \ crossed'
               PROVE  /\ \A v, w \in Callers : Busy(v, k)' /\ Busy(w, k)' => v = w
                      /\ \A v \in Callers : Busy(v, k)' /\ caller'[v].op = "subscribe"
                            => callbacks'[k] # NoCallback
                      /\ CallbackWhileJoined(k)'
    BY DEF Uncrossed
  <2>1. k \in Names \ crossed
    BY <1>4
  <2>2. \A v, w \in Callers : Busy(v, k)' /\ Busy(w, k)' => v = w
    BY <1>12, <1>13, <2>1 DEF ClientInv, Uncrossed
  <2>3. CallbackWhileJoined(k)'
    BY <2>1 DEF ClientInv, Uncrossed, CallbackWhileJoined
  <2>4. ASSUME NEW v \in Callers, Busy(v, k)', caller'[v].op = "subscribe"
        PROVE  callbacks'[k] # NoCallback
    <3>1. CASE v = u
      <4>1. k = n /\ o = "subscribe"
        BY <1>1, <1>2, <2>4, <3>1 DEF Busy
      <4> QED BY <4>1
    <3>2. CASE v # u
      <4>1. Busy(v, k) /\ caller[v].op = "subscribe"
        BY <1>2, <2>4, <3>2 DEF Busy
      <4> QED BY <2>1, <4>1 DEF ClientInv, Uncrossed
    <3> QED BY <3>1, <3>2
  <2> QED BY <2>2, <2>3, <2>4
<1>15. ASSUME NEW v \in Callers, v # u, NEW ok, Over(v, ok) PROVE Over(v, ok)'
  BY <1>2, <1>4, <1>15 DEF Over
<1>16. AnswersOK'
  <2>1. ASSUME NEW v \in Callers PROVE (caller[v].step = "answered" => Over(v, caller[v].ok))'
    BY <1>1, <1>2, <1>15 DEF ClientInv, AnswersOK, Over
  <2>2. ASSUME NEW x \in Elements(inbox'), x \in Answer PROVE Over(x.to, x.ok)'
    <3>1. x \in Elements(inbox)
      BY <2>2
    <3> QED BY <1>9, <1>15, <2>2, <3>1 DEF ClientInv, AnswersOK
  <2> QED BY <2>1, <2>2 DEF AnswersOK, Elements
<1> QED BY <1>1, <1>2, <1>4, <1>5, <1>6, <1>10, <1>11, <1>12, <1>14, <1>16

LEMMA AddSubscribeKeepsClientInv ==
    ASSUME ClientInv, NEW u \in Callers, NEW n \in Names, AddSubscribe(u, n)
    PROVE  ClientInv'
<1>0. /\ "subscribe" \in Operations /\ Starts(u, "subscribe", n)
      /\ IF "subscribe" \in Callbacks THEN Crossing(u, n) ELSE UNCHANGED crossed
      /\ UNCHANGED <<requests, serving, inbox, shown>> /\ promised' \subseteq promised
  BY DEF AddSubscribe, Operations, Callbacks
<1>1. UNCHANGED <<at, joined, owed, pending, closed, running>>
  BY DEF AddSubscribe, vars, histories
<1>2. /\ callbacks' \in [Names -> Callers \cup {NoCallback}]
      /\ \A k \in Names : callbacks[k] # NoCallback => callbacks'[k] # NoCallback
      /\ callbacks'[n] # NoCallback
  BY TheClient DEF ClientInv, ClientTypes, AddSubscribe, Added
<1>3. /\ ClientTypes' /\ OnePlace' /\ RequestsMatch' /\ ServingOK' /\ Uncrossed' /\ AnswersOK'
      /\ crossed \subseteq crossed'
      /\ \A v \in Callers, k \in Names : Busy(v, k)' => Busy(v, k) \/ (v = u /\ k = n)
      /\ \A v \in Callers : v # u => caller'[v] = caller[v]
      /\ caller'[u].op = "subscribe"
  BY <1>0, <1>1, <1>2, Starting
<1>4. \A m \in promised : m.name \in Names
  BY DEF ClientInv, ClientTypes, Messages
<1>5. ASSUME NEW m \in promised, NEW v \in Callers, Busy(v, m.name)', caller'[v].op = "cancel"
      PROVE  FALSE
  <2>1. v # u
    BY <1>3, <1>5
  <2>2. Busy(v, m.name) /\ caller[v].op = "cancel"
    BY <1>3, <1>4, <1>5, <2>1
  <2> QED BY <2>2 DEF ClientInv, PromisedOK
<1>6. PromisedOK'
  <2>1. promised' = promised /\ shown' = shown /\ inbox' = inbox
    BY DEF AddSubscribe
  <2> SUFFICES ASSUME NEW m \in promised
               PROVE  /\ joined[Client][m.name] # NoTopic
                      /\ \A v \in Callers : ~(Busy(v, m.name)' /\ caller'[v].op = "cancel")
                      /\ m.name \notin crossed' /\ Connected =>
                        \/ m \in owed[Client] \/ m \in Elements(pending[Client])
                        \/ [message |-> m] \in Elements(inbox) \/ m \in shown
    BY <1>1, <2>1 DEF PromisedOK, Connected, Elements
  <2> QED BY <1>3, <1>5 DEF ClientInv, PromisedOK
<1> QED BY <1>3, <1>6 DEF ClientInv

LEMMA CancelKeepsClientInv ==
    ASSUME ClientInv, NEW u \in Callers, NEW n \in Names, Cancel(u, n)
    PROVE  ClientInv'
<1>0. /\ "cancel" \in Operations /\ Starts(u, "cancel", n)
      /\ IF "cancel" \in Callbacks THEN Crossing(u, n) ELSE UNCHANGED crossed
      /\ UNCHANGED <<requests, serving, inbox, shown>> /\ promised' \subseteq promised
  BY DEF Cancel, Operations, Callbacks
<1>1. UNCHANGED <<at, joined, owed, pending, closed, running, callbacks>>
  BY DEF Cancel, vars, histories
<1>2. callbacks' \in [Names -> Callers \cup {NoCallback}] /\ promised' \subseteq promised
  BY <1>1 DEF ClientInv, ClientTypes, Cancel
<1>3. /\ ClientTypes' /\ OnePlace' /\ RequestsMatch' /\ ServingOK' /\ Uncrossed' /\ AnswersOK'
      /\ crossed \subseteq crossed'
      /\ \A v \in Callers, k \in Names : Busy(v, k)' => Busy(v, k) \/ (v = u /\ k = n)
      /\ \A v \in Callers : v # u => caller'[v] = caller[v]
      /\ caller'[u].op = "cancel"
  BY <1>0, <1>1, <1>2, Starting
<1>4. \A m \in promised' : m \in promised /\ m.name \in Names /\ m.name # n
  BY DEF ClientInv, ClientTypes, Messages, Cancel, OfName
<1>5. ASSUME NEW m \in promised', NEW v \in Callers, Busy(v, m.name)', caller'[v].op = "cancel"
      PROVE  FALSE
  <2>1. Busy(v, m.name)
    BY <1>3, <1>4, <1>5
  <2>2. v # u
    <3>1. Busy(u, m.name) => caller[u] # Away
      BY DEF Busy
    <3> QED BY <1>0, <2>1, <3>1 DEF Starts
  <2>3. caller[v].op = "cancel"
    BY <1>3, <1>5, <2>2
  <2> QED BY <1>4, <2>1, <2>3 DEF ClientInv, PromisedOK
<1>6. PromisedOK'
  <2>1. shown' = shown /\ inbox' = inbox
    BY DEF Cancel
  <2> SUFFICES ASSUME NEW m \in promised'
               PROVE  /\ joined[Client][m.name] # NoTopic
                      /\ \A v \in Callers : ~(Busy(v, m.name)' /\ caller'[v].op = "cancel")
                      /\ m.name \notin crossed' /\ Connected =>
                        \/ m \in owed[Client] \/ m \in Elements(pending[Client])
                        \/ [message |-> m] \in Elements(inbox) \/ m \in shown
    BY <1>1, <2>1 DEF PromisedOK, Connected, Elements
  <2> QED BY <1>3, <1>4, <1>5 DEF ClientInv, PromisedOK
<1> QED BY <1>3, <1>6 DEF ClientInv

LEMMA UseTopicKeepsClientInv ==
    ASSUME ClientInv, NEW u \in Callers, NEW n \in Names, NEW o \in Operations, UseTopic(u, o, n)
    PROVE  ClientInv'
<1>1. /\ UNCHANGED <<at, joined, owed, pending, closed, running>>
      /\ UNCHANGED <<callbacks, requests, serving, inbox, shown, promised, crossed>>
      /\ o \notin Callbacks /\ Starts(u, o, n)
  BY DEF UseTopic, vars, histories
<1>2. callbacks' \in [Names -> Callers \cup {NoCallback}] /\ o # "subscribe"
  BY <1>1 DEF ClientInv, ClientTypes, Callbacks
<1>3. /\ ClientTypes' /\ OnePlace' /\ RequestsMatch' /\ ServingOK' /\ Uncrossed' /\ AnswersOK'
      /\ \A v \in Callers, k \in Names : Busy(v, k)' => Busy(v, k) \/ (v = u /\ k = n /\ o \in Callbacks)
      /\ \A v \in Callers : v # u => caller'[v] = caller[v]
      /\ caller'[u].op = o
  BY <1>1, <1>2, Starting
<1>4. \A m \in promised : m.name \in Names
  BY DEF ClientInv, ClientTypes, Messages
<1>5. ASSUME NEW m \in promised, NEW v \in Callers, Busy(v, m.name)', caller'[v].op = "cancel"
      PROVE  FALSE
  <2>1. v # u
    BY <1>1, <1>3, <1>5 DEF Callbacks
  <2>2. Busy(v, m.name) /\ caller[v].op = "cancel"
    BY <1>3, <1>4, <1>5, <2>1
  <2> QED BY <2>2 DEF ClientInv, PromisedOK
<1>6. PromisedOK'
  <2> SUFFICES ASSUME NEW m \in promised
               PROVE  /\ joined[Client][m.name] # NoTopic
                      /\ \A v \in Callers : ~(Busy(v, m.name)' /\ caller'[v].op = "cancel")
                      /\ m.name \notin crossed /\ Connected =>
                        \/ m \in owed[Client] \/ m \in Elements(pending[Client])
                        \/ [message |-> m] \in Elements(inbox) \/ m \in shown
    BY <1>1 DEF PromisedOK, Connected, Elements
  <2> QED BY <1>5 DEF ClientInv, PromisedOK
<1> QED BY <1>3, <1>6 DEF ClientInv

\* Somebody goes on with what he is at.
LEMMA GoingOn ==
    ASSUME ClientInv, NEW u \in Callers, NEW y \in CallerPlace, caller[u].step # "away",
           y.step # "away", y.op = caller[u].op, y.name = caller[u].name,
           caller' = [caller EXCEPT ![u] = y],
           UNCHANGED <<vars, callbacks, serving, crossed, promised>>
    PROVE  /\ caller' \in [Callers -> CallerPlace] /\ caller'[u] = y
           /\ \A v \in Callers : v # u => caller'[v] = caller[v]
           /\ \A v \in Callers : caller'[v].op = caller[v].op /\ caller'[v].name = caller[v].name
           /\ \A v \in Callers : \A ok : Over(v, ok)' <=> Over(v, ok)
           /\ \A v \in Callers : \A k : Busy(v, k)' <=> Busy(v, k)
           /\ ServingOK' /\ Uncrossed'
           /\ UNCHANGED <<at, joined, owed, pending, closed, running>>
<1>1. /\ caller' \in [Callers -> CallerPlace] /\ caller'[u] = y
      /\ \A v \in Callers : v # u => caller'[v] = caller[v]
  BY CallerMoves DEF ClientInv
<1>2. \A v \in Callers : caller'[v].op = caller[v].op /\ caller'[v].name = caller[v].name
  BY <1>1
<1>3. caller[u] # Away /\ y # Away
  BY CallerGoes
<1>4. UNCHANGED <<at, joined, owed, pending, closed, running>>
  BY DEF vars, histories
<1>5. \A v \in Callers : \A ok : Over(v, ok)' <=> Over(v, ok)
  BY <1>2, <1>4 DEF Over
<1>6. \A v \in Callers : \A k : Busy(v, k)' <=> Busy(v, k)
  BY <1>1, <1>2, <1>3 DEF Busy
<1>7. \A v \in serving : v \in Callers
  BY DEF ClientInv, ClientTypes
<1>8. ServingOK'
  BY <1>2, <1>4, <1>7 DEF ClientInv, ServingOK
<1>9. Uncrossed'
  BY <1>2, <1>4, <1>6 DEF ClientInv, Uncrossed, CallbackWhileJoined
<1> QED BY <1>1, <1>2, <1>4, <1>5, <1>6, <1>8, <1>9

LEMMA SendRequestKeepsClientInv ==
    ASSUME ClientInv, NEW u \in Callers, SendRequest(u)
    PROVE  ClientInv'
<1> DEFINE y == [caller[u] EXCEPT !.step = "wait"]
           r == [op |-> caller[u].op, name |-> caller[u].name, from |-> u]
<1>1. /\ caller[u] \in CallerPlace /\ caller[u].step = "send"
      /\ requests \in Seq(TopicRequest) /\ inbox \in Seq(Answer \cup Delivery)
  BY DEF ClientInv, ClientTypes, SendRequest
<1>2. y \in CallerPlace /\ y.step = "wait" /\ y.op = caller[u].op /\ y.name = caller[u].name
  BY <1>1, CallerOf
<1>3. r \in TopicRequest /\ r \in Asks(u) /\ \A v \in Callers : v # u => r \notin Asks(v)
  BY <1>1, CallerOf DEF TopicRequest, Asks
<1>4. /\ caller' = [caller EXCEPT ![u] = y] /\ requests' = Append(requests, r)
      /\ UNCHANGED <<vars, callbacks, serving, inbox, shown, promised, crossed>>
  BY DEF SendRequest
<1>5. r.from = u /\ r.op = caller[u].op /\ r.name = caller[u].name
  OBVIOUS
<1> HIDE DEF y, r
<1>6. /\ caller' \in [Callers -> CallerPlace] /\ caller'[u] = y
      /\ \A v \in Callers : v # u => caller'[v] = caller[v]
      /\ \A v \in Callers : caller'[v].op = caller[v].op /\ caller'[v].name = caller[v].name
      /\ \A v \in Callers : \A ok : Over(v, ok)' <=> Over(v, ok)
      /\ \A v \in Callers : \A k : Busy(v, k)' <=> Busy(v, k)
      /\ ServingOK' /\ Uncrossed'
      /\ UNCHANGED <<at, joined, owed, pending, closed>>
  BY <1>1, <1>2, <1>4, GoingOn
<1>7. requests' \in Seq(TopicRequest) /\ Elements(requests') = Elements(requests) \cup {r}
  BY <1>1, <1>3, <1>4, Appending
<1>8. ClientTypes'
  BY <1>4, <1>6, <1>7 DEF ClientInv, ClientTypes
<1>9. OnePlace'
  <2> SUFFICES ASSUME NEW v \in Callers
               PROVE  Count(requests', Asks(v)) + Count(inbox, Answers(v))
                        + (IF v \in serving THEN 1 ELSE 0)
                      = IF caller'[v].step = "wait" THEN 1 ELSE 0
    BY <1>4 DEF OnePlace, Count
  <2>1. Count(requests', Asks(v)) = Count(requests, Asks(v)) + (IF r \in Asks(v) THEN 1 ELSE 0)
    BY <1>1, <1>3, <1>4, CountAppended
  <2>2. Count(requests, Asks(v)) \in Nat /\ Count(inbox, Answers(v)) \in Nat
    BY Waiting DEF ClientInv
  <2>3. Count(requests, Asks(v)) + Count(inbox, Answers(v)) + (IF v \in serving THEN 1 ELSE 0)
            = IF caller[v].step = "wait" THEN 1 ELSE 0
    BY DEF ClientInv, OnePlace
  <2>4. CASE v = u
    <3>1. caller[v].step # "wait" /\ caller'[v].step = "wait" /\ r \in Asks(v)
      BY <1>1, <1>2, <1>3, <1>6, <2>4
    <3> QED BY <2>1, <2>2, <2>3, <3>1
  <2>5. CASE v # u
    <3>1. caller'[v].step = caller[v].step /\ r \notin Asks(v)
      BY <1>3, <1>6, <2>5
    <3> QED BY <2>1, <2>2, <2>3, <3>1
  <2> QED BY <2>4, <2>5
<1>10. RequestsMatch'
  <2>1. \A x \in Elements(requests) : x.from \in Callers
    BY Waiting DEF ClientInv
  <2> QED BY <1>5, <1>6, <1>7, <2>1 DEF ClientInv, RequestsMatch, Elements
<1>11. AnswersOK'
  <2>1. ASSUME NEW v \in Callers PROVE (caller[v].step = "answered" => Over(v, caller[v].ok))'
    <3>1. ASSUME caller'[v].step = "answered" PROVE v # u
      BY <1>2, <1>6, <3>1
    <3>2. v # u => (caller[v].step = "answered" => Over(v, caller[v].ok))'
      BY <1>4, <1>6 DEF ClientInv, AnswersOK, Over
    <3> QED BY <3>1, <3>2
  <2>2. \A x \in Elements(inbox) : x \in Answer => x.to \in Callers
    BY Waiting DEF ClientInv
  <2>3. ASSUME NEW x \in Elements(inbox'), x \in Answer PROVE Over(x.to, x.ok)'
    BY <1>4, <1>6, <2>2, <2>3 DEF ClientInv, AnswersOK
  <2> QED BY <2>1, <2>3 DEF AnswersOK, Elements
<1>12. PromisedOK'
  <2> SUFFICES ASSUME NEW m \in promised
               PROVE  /\ joined[Client][m.name] # NoTopic
                      /\ \A v \in Callers : ~(Busy(v, m.name)' /\ caller'[v].op = "cancel")
                      /\ m.name \notin crossed /\ Connected =>
                        \/ m \in owed[Client] \/ m \in Elements(pending[Client])
                        \/ [message |-> m] \in Elements(inbox) \/ m \in shown
    BY <1>4, <1>6 DEF PromisedOK, Connected, Elements
  <2> QED BY <1>6 DEF ClientInv, PromisedOK
<1> QED BY <1>6, <1>8, <1>9, <1>10, <1>11, <1>12 DEF ClientInv

LEMMA OnAnswerKeepsClientInv ==
    ASSUME ClientInv, OnAnswer
    PROVE  ClientInv'
<1> DEFINE x == Head(inbox)
           u == x.to
           y == [step |-> "answered", op |-> caller[u].op, name |-> caller[u].name, ok |-> x.ok]
<1>1. inbox \in Seq(Answer \cup Delivery) /\ inbox # <<>>
  BY DEF ClientInv, ClientTypes, OnAnswer
<1>2. /\ x \in Answer \cup Delivery /\ inbox' = Tail(inbox) /\ inbox' \in Seq(Answer \cup Delivery)
      /\ Elements(inbox) = Elements(inbox') \cup {x}
  BY <1>1, Taking DEF OnAnswer
<1>3. x \in Answer /\ x.ok \in BOOLEAN
  BY <1>2, Kinds DEF OnAnswer
<1>4. u \in Callers /\ caller[u].step = "wait"
  BY <1>2, <1>3, Waiting DEF ClientInv
<1>5. caller[u] \in CallerPlace
  BY <1>4 DEF ClientInv, ClientTypes
<1>6. y \in CallerPlace /\ y.step = "answered" /\ y.op = caller[u].op /\ y.name = caller[u].name
      /\ y.ok = x.ok
  BY <1>3, <1>4, <1>5, CallerOf, CallerGoes
<1>7. /\ caller' = [caller EXCEPT ![u] = y]
      /\ UNCHANGED <<vars, callbacks, requests, serving, shown, promised, crossed>>
  BY DEF OnAnswer
<1>8. x \in Answers(u) /\ \A v \in Callers : v # u => x \notin Answers(v)
  BY <1>3 DEF Answers
<1>9. Over(u, x.ok)
  BY <1>2, <1>3 DEF ClientInv, AnswersOK
<1> HIDE DEF x, u, y
<1>10. /\ caller' \in [Callers -> CallerPlace] /\ caller'[u] = y
       /\ \A v \in Callers : v # u => caller'[v] = caller[v]
       /\ \A v \in Callers : caller'[v].op = caller[v].op /\ caller'[v].name = caller[v].name
       /\ \A v \in Callers : \A ok : Over(v, ok)' <=> Over(v, ok)
       /\ \A v \in Callers : \A k : Busy(v, k)' <=> Busy(v, k)
       /\ ServingOK' /\ Uncrossed'
       /\ UNCHANGED <<at, joined, owed, pending, closed>>
  BY <1>4, <1>5, <1>6, <1>7, GoingOn
<1>11. ClientTypes'
  BY <1>2, <1>7, <1>10 DEF ClientInv, ClientTypes
<1>12. OnePlace'
  <2> SUFFICES ASSUME NEW v \in Callers
               PROVE  Count(requests, Asks(v)) + Count(inbox', Answers(v))
                        + (IF v \in serving THEN 1 ELSE 0)
                      = IF caller'[v].step = "wait" THEN 1 ELSE 0
    BY <1>7 DEF OnePlace, Count
  <2>1. Count(inbox, Answers(v)) = Count(inbox', Answers(v)) + (IF x \in Answers(v) THEN 1 ELSE 0)
    BY <1>1, <1>2, CountTaken DEF x
  <2>2. Count(requests, Asks(v)) \in Nat /\ Count(inbox', Answers(v)) \in Nat
    BY <1>2, CountIs, Waiting DEF ClientInv
  <2>3. Count(requests, Asks(v)) + Count(inbox, Answers(v)) + (IF v \in serving THEN 1 ELSE 0)
            = IF caller[v].step = "wait" THEN 1 ELSE 0
    BY DEF ClientInv, OnePlace
  <2>4. CASE v = u
    <3>1. caller[v].step = "wait" /\ caller'[v].step # "wait" /\ x \in Answers(v)
      BY <1>4, <1>6, <1>8, <1>10, <2>4
    <3>2. Count(requests, Asks(v)) + Count(inbox', Answers(v)) + 1
            + (IF v \in serving THEN 1 ELSE 0) = 1
      BY <2>1, <2>2, <2>3, <3>1
    <3> QED BY <2>2, <3>1, <3>2
  <2>5. CASE v # u
    <3>1. caller'[v].step = caller[v].step /\ x \notin Answers(v)
      BY <1>8, <1>10, <2>5
    <3> QED BY <2>1, <2>2, <2>3, <3>1
  <2> QED BY <2>4, <2>5
<1>13. RequestsMatch'
  <2>1. \A z \in Elements(requests) : z.from \in Callers
    BY Waiting DEF ClientInv
  <2> QED BY <1>7, <1>10, <2>1 DEF ClientInv, RequestsMatch, Elements
<1>14. AnswersOK'
  <2>1. ASSUME NEW v \in Callers PROVE (caller[v].step = "answered" => Over(v, caller[v].ok))'
    <3>1. CASE v = u
      <4>1. PICK b \in BOOLEAN : b = x.ok
        BY <1>3
      <4>2. Over(v, b)'
        BY <1>4, <1>9, <1>10, <3>1, <4>1
      <4>3. caller'[v].ok = b
        BY <1>6, <1>10, <3>1, <4>1
      <4> QED BY <4>2, <4>3 DEF Over
    <3>2. CASE v # u
      BY <1>7, <1>10, <3>2 DEF ClientInv, AnswersOK, Over
    <3> QED BY <3>1, <3>2
  <2>2. \A z \in Elements(inbox) : z \in Answer => z.to \in Callers
    BY Waiting DEF ClientInv
  <2>3. ASSUME NEW z \in Elements(inbox'), z \in Answer PROVE Over(z.to, z.ok)'
    BY <1>2, <1>10, <2>2, <2>3 DEF ClientInv, AnswersOK
  <2> QED BY <2>1, <2>3 DEF AnswersOK, Elements
<1>15. PromisedOK'
  <2>1. ASSUME NEW m, [message |-> m] \in Elements(inbox) PROVE [message |-> m] \in Elements(inbox')
    <3>1. "message" \in DOMAIN [message |-> m]
      OBVIOUS
    <3>2. x # [message |-> m]
      BY <1>2, <1>3, <3>1, Kinds
    <3> QED BY <1>2, <2>1, <3>2
  <2> SUFFICES ASSUME NEW m \in promised
               PROVE  /\ joined[Client][m.name] # NoTopic
                      /\ \A v \in Callers : ~(Busy(v, m.name)' /\ caller'[v].op = "cancel")
                      /\ m.name \notin crossed /\ Connected =>
                        \/ m \in owed[Client] \/ m \in Elements(pending[Client])
                        \/ [message |-> m] \in Elements(inbox') \/ m \in shown
    BY <1>7, <1>10 DEF PromisedOK, Connected, Elements
  <2> QED BY <1>10, <2>1 DEF ClientInv, PromisedOK
<1> QED BY <1>10, <1>11, <1>12, <1>13, <1>14, <1>15 DEF ClientInv

LEMMA RemoveSubscribeKeepsClientInv ==
    ASSUME ClientInv, NEW u \in Callers, RemoveSubscribe(u)
    PROVE  ClientInv'
<1>1. /\ caller[u] \in CallerPlace /\ caller[u].step = "answered"
      /\ caller' = [caller EXCEPT ![u] = Away]
      /\ UNCHANGED <<vars, requests, serving, inbox, shown, promised, crossed>>
      /\ UNCHANGED <<at, joined, owed, pending, closed, running>>
  BY DEF RemoveSubscribe, ClientInv, ClientTypes, vars, histories
<1>2. /\ caller[u].name \in Names /\ caller[u] # Away
      /\ \A k \in Names : callbacks'[k] = callbacks[k]
            \/ (callbacks'[k] = NoCallback /\ k = caller[u].name
                 /\ caller[u].op \in Callbacks /\ (caller[u].ok <=> caller[u].op = "cancel"))
      /\ callbacks' \in [Names -> Callers \cup {NoCallback}]
  BY <1>1, CallerOf, CallerGoes DEF RemoveSubscribe, Erases, ClientInv, ClientTypes
<1>3. /\ caller' \in [Callers -> CallerPlace] /\ caller'[u] = Away
      /\ \A v \in Callers : v # u => caller'[v] = caller[v]
  BY <1>1, CallerGoes, CallerMoves DEF ClientInv
<1>4. ClientTypes'
  BY <1>1, <1>2, <1>3 DEF ClientInv, ClientTypes
<1>5. OnePlace'
  BY <1>1, <1>3, CallerGoes DEF ClientInv, OnePlace, Count
<1>6. /\ \A x \in Elements(requests) : x.from \in Callers /\ x.from # u
      /\ \A v \in serving : v \in Callers /\ v # u
      /\ \A x \in Elements(inbox) : x \in Answer => x.to \in Callers /\ x.to # u
  BY <1>1, Waiting DEF ClientInv
<1>7. RequestsMatch'
  BY <1>1, <1>3, <1>6 DEF ClientInv, RequestsMatch, Elements
<1>8. ServingOK'
  BY <1>1, <1>3, <1>6 DEF ClientInv, ServingOK
<1>9. \A v \in Callers, k \in Names : Busy(v, k)' => Busy(v, k) /\ v # u /\ caller'[v] = caller[v]
  BY <1>3 DEF Busy
<1>10. Uncrossed'
  <2> SUFFICES ASSUME NEW k \in Names \ crossed
               PROVE  /\ \A v, w \in Callers : Busy(v, k)' /\ Busy(w, k)' => v = w
                      /\ \A v \in Callers : Busy(v, k)' /\ caller'[v].op = "subscribe"
                            => callbacks'[k] # NoCallback
                      /\ CallbackWhileJoined(k)'
    BY <1>1 DEF Uncrossed
  <2>1. \A v, w \in Callers : Busy(v, k)' /\ Busy(w, k)' => v = w
    BY <1>9 DEF ClientInv, Uncrossed
  <2>2. CASE callbacks'[k] = callbacks[k]
    BY <1>1, <1>9, <2>1, <2>2 DEF ClientInv, Uncrossed, CallbackWhileJoined
  <2>3. CASE k = caller[u].name /\ caller[u].op \in Callbacks /\ (caller[u].ok <=> caller[u].op = "cancel")
    <3>1. Busy(u, k)
      BY <1>2, <2>3 DEF Busy
    <3>2. \A v \in Callers : ~Busy(v, k)'
      BY <1>9, <3>1 DEF ClientInv, Uncrossed
    <3>3. joined[Client][k] = NoTopic
      BY <1>1, <2>3 DEF ClientInv, AnswersOK, Over
    <3> QED BY <1>1, <2>1, <3>2, <3>3 DEF CallbackWhileJoined
  <2> QED BY <1>2, <2>2, <2>3
<1>11. AnswersOK'
  <2>1. ASSUME NEW v \in Callers PROVE (caller[v].step = "answered" => Over(v, caller[v].ok))'
    <3>1. CASE v = u
      BY <1>3, <3>1, CallerGoes
    <3>2. CASE v # u
      BY <1>1, <1>3, <3>2 DEF ClientInv, AnswersOK, Over
    <3> QED BY <3>1, <3>2
  <2>2. ASSUME NEW x \in Elements(inbox'), x \in Answer PROVE Over(x.to, x.ok)'
    BY <1>1, <1>3, <1>6, <2>2 DEF ClientInv, AnswersOK, Over
  <2> QED BY <2>1, <2>2 DEF AnswersOK, Elements
<1>12. PromisedOK'
  <2>1. \A m \in promised : m.name \in Names
    BY DEF ClientInv, ClientTypes, Messages
  <2> SUFFICES ASSUME NEW m \in promised
               PROVE  /\ joined[Client][m.name] # NoTopic
                      /\ \A v \in Callers : ~(Busy(v, m.name)' /\ caller'[v].op = "cancel")
                      /\ m.name \notin crossed /\ Connected =>
                        \/ m \in owed[Client] \/ m \in Elements(pending[Client])
                        \/ [message |-> m] \in Elements(inbox) \/ m \in shown
    BY <1>1 DEF PromisedOK, Connected, Elements
  <2> QED BY <1>9, <2>1 DEF ClientInv, PromisedOK
<1> QED BY <1>4, <1>5, <1>7, <1>8, <1>10, <1>11, <1>12 DEF ClientInv

LEMMA OnPublishKeepsClientInv ==
    ASSUME ClientInv, OnPublish
    PROVE  ClientInv'
<1> DEFINE x == Head(inbox)
<1>1. inbox \in Seq(Answer \cup Delivery) /\ inbox # <<>>
  BY DEF ClientInv, ClientTypes, OnPublish
<1>2. /\ x \in Answer \cup Delivery /\ inbox' = Tail(inbox) /\ inbox' \in Seq(Answer \cup Delivery)
      /\ Elements(inbox) = Elements(inbox') \cup {x}
  BY <1>1, Taking DEF OnPublish
<1>3. x \in Delivery /\ x.message \in Messages /\ x \notin Answer
  BY <1>2, Kinds DEF OnPublish
<1>4. /\ UNCHANGED <<at, joined, owed, pending, closed, running>>
      /\ UNCHANGED <<callbacks, caller, requests, serving, promised, crossed>>
      /\ shown' = IF callbacks[x.message.name] = NoCallback THEN shown ELSE shown \cup {x.message}
  BY DEF OnPublish, vars, histories
<1>5. \A u \in Callers : Count(inbox', Answers(u)) = Count(inbox, Answers(u))
  <2> TAKE u \in Callers
  <2>1. Count(inbox, Answers(u)) = Count(inbox', Answers(u)) + (IF x \in Answers(u) THEN 1 ELSE 0)
    BY <1>1, <1>2, CountTaken
  <2>2. x \notin Answers(u)
    BY <1>3 DEF Answers
  <2>3. Count(inbox', Answers(u)) \in Nat
    BY <1>2, CountIs
  <2> QED BY <2>1, <2>2, <2>3
<1> HIDE DEF x
<1>6. ClientTypes'
  BY <1>2, <1>3, <1>4 DEF ClientInv, ClientTypes
<1>7. OnePlace'
  BY <1>4, <1>5 DEF ClientInv, OnePlace, Count
<1>8. RequestsMatch' /\ ServingOK' /\ Uncrossed'
  BY <1>4 DEF ClientInv, RequestsMatch, ServingOK, Uncrossed, CallbackWhileJoined, Busy, Elements
<1>9. AnswersOK'
  <2>1. ASSUME NEW v \in Callers PROVE (caller[v].step = "answered" => Over(v, caller[v].ok))'
    BY <1>4 DEF ClientInv, AnswersOK, Over
  <2>2. ASSUME NEW z \in Elements(inbox'), z \in Answer PROVE Over(z.to, z.ok)'
    BY <1>2, <1>4, <2>2 DEF ClientInv, AnswersOK, Over
  <2> QED BY <2>1, <2>2 DEF AnswersOK, Elements
<1>10. PromisedOK'
  <2> SUFFICES ASSUME NEW m \in promised
               PROVE  /\ joined[Client][m.name] # NoTopic
                      /\ \A v \in Callers : ~(Busy(v, m.name) /\ caller[v].op = "cancel")
                      /\ m.name \notin crossed /\ Connected =>
                        \/ m \in owed[Client] \/ m \in Elements(pending[Client])
                        \/ [message |-> m] \in Elements(inbox') \/ m \in shown'
    BY <1>4 DEF PromisedOK, Connected, Elements, Busy
  <2>1. joined[Client][m.name] # NoTopic /\ m.name \in Names
        /\ \A v \in Callers : ~(Busy(v, m.name) /\ caller[v].op = "cancel")
    BY DEF ClientInv, ClientTypes, PromisedOK, Messages
  <2>2. ASSUME m.name \notin crossed, x = [message |-> m] PROVE m \in shown'
    <3>1. callbacks[m.name] # NoCallback
      BY <2>1, <2>2 DEF ClientInv, Uncrossed, CallbackWhileJoined
    <3>2. x.message = m
      BY <2>2
    <3> QED BY <1>4, <3>1, <3>2
  <2> QED BY <1>2, <1>4, <2>1, <2>2 DEF ClientInv, PromisedOK
<1> QED BY <1>6, <1>7, <1>8, <1>9, <1>10 DEF ClientInv

-----------------------------------------------------------------------------
(* The client's requests at the server.                                    *)

\* What the server does on a request of the client: when it answers at once there
\* is no subscription, and a handler that is to make one knows for whom.
LEMMA ClientAsks ==
    ASSUME IInv, ClientInv, running, NEW x \in Elements(requests),
           TopicOperation(Client, x.op, x.name)
    PROVE  /\ serving = {} /\ x.name \in Names /\ x.op \in Operations
           /\ at'[Client] = Idle /\ x.op \in Callbacks => joined'[Client][x.name] = NoTopic
           /\ at'[Client].step = "join" => x.op = "subscribe" /\ at'[Client].name = x.name
           /\ x.op = "cancel" => /\ joined'[Client][x.name] = NoTopic
                                /\ \A m \in promised : m.name # x.name
<1>1. /\ at \in [Conns -> Place] /\ joined \in [Conns -> [Names -> Topics \cup {NoTopic}]]
      /\ Client \in Conns /\ SameLoop(Client, Client)
  BY TheClient DEF IInv, TypesOK, TypeOK, SameLoop
<1>2. at[Client] = Idle /\ Idle.step = "idle"
  BY <1>1, Going DEF TopicOperation, AddTopic, RemoveTopic, SubscribeTopic, CancelSubscribe,
                     PublishTopic, MayAsk, LoopFree
<1>3. serving = {}
  BY <1>2 DEF ClientInv, ServingOK
<1>4. /\ x \in TopicRequest /\ x.from \in Callers /\ caller[x.from].step = "wait"
      /\ caller[x.from].op = x.op /\ caller[x.from].name = x.name
      /\ x.name \in Names /\ x.op \in Operations
  BY Waiting DEF ClientInv, RequestsMatch, TopicRequest
<1>5. CASE x.op = "create"
  <2>1. UNCHANGED at
    BY <1>5 DEF TopicOperation, AddTopic
  <2> QED BY <1>2, <1>3, <1>4, <1>5, <2>1 DEF Callbacks
<1>6. CASE x.op = "remove"
  <2>1. /\ at' = at \/ at' = [at EXCEPT ![Client] = [step |-> "removeAll", topic |-> topics[x.name],
                                                     name |-> x.name]]
    BY <1>6 DEF TopicOperation, RemoveTopic
  <2>2. at'[Client].step # "join"
    BY <1>1, <1>2, <2>1
  <2> QED BY <1>3, <1>4, <1>6, <2>2 DEF Callbacks
<1>7. CASE x.op = "subscribe"
  <2>1. /\ UNCHANGED joined
        /\ IF topics[x.name] = NoTopic THEN at' = at
           ELSE at' = [at EXCEPT ![Client] = [step |-> "join", topic |-> topics[x.name],
                          name |-> x.name, who |-> <<Client, asked'[Client]>>]]
    BY <1>7 DEF TopicOperation, SubscribeTopic
  <2>2. CASE topics[x.name] = NoTopic
    <3>1. joined[Client][x.name] = NoTopic
      BY <1>1, <1>4, <2>2 DEF IInv, JoinedOK
    <3> QED BY <1>2, <1>3, <1>4, <1>7, <2>1, <2>2, <3>1
  <2>3. CASE topics[x.name] # NoTopic
    <3>1. at'[Client] = [step |-> "join", topic |-> topics[x.name],
                          name |-> x.name, who |-> <<Client, asked'[Client]>>]
      BY <1>1, <2>1, <2>3
    <3>2. at'[Client].step = "join" /\ at'[Client].name = x.name
      BY <3>1
    <3>3. at'[Client] # Idle
      BY <1>2, <3>2
    <3> QED BY <1>3, <1>4, <1>7, <3>2, <3>3
  <2> QED BY <2>2, <2>3
<1>8. CASE x.op = "cancel"
  <2>1. /\ at' = at \/ at' = [at EXCEPT ![Client] = [step |-> "leave", topic |-> topics[x.name],
                                                     who |-> stored[Client]]]
        /\ joined' = [joined EXCEPT ![Client][x.name] = NoTopic]
    BY <1>8 DEF TopicOperation, CancelSubscribe
  <2>2. at'[Client].step # "join"
    BY <1>1, <1>2, <2>1
  <2>3. joined'[Client][x.name] = NoTopic
    BY <1>1, <1>4, <2>1
  <2>4. caller[x.from] # Away /\ Busy(x.from, x.name) /\ caller[x.from].op = "cancel"
    BY <1>4, <1>8, CallerGoes DEF Busy, Callbacks
  <2>5. \A m \in promised : m.name # x.name
    BY <1>4, <2>4 DEF ClientInv, PromisedOK
  <2> QED BY <1>3, <1>4, <1>8, <2>2, <2>3, <2>5
<1>9. CASE x.op = "publish"
  <2>1. \/ at' = at
        \/ at' = [at EXCEPT ![Client] = [step |-> "publish", topic |-> topics[x.name],
                     message |-> [by |-> Client, no |-> asked'[Client], name |-> x.name]]]
    BY <1>9 DEF TopicOperation, PublishTopic
  <2>2. at'[Client].step # "join"
    BY <1>1, <1>2, <2>1
  <2> QED BY <1>3, <1>4, <1>9, <2>2 DEF Callbacks
<1> QED BY <1>4, <1>5, <1>6, <1>7, <1>8, <1>9 DEF Operations, Callbacks

LEMMA OnTopicRequestKeepsClientInv ==
    ASSUME IInv, ClientInv, running, OnTopicRequest
    PROVE  ClientInv'
<1>1. requests \in Seq(TopicRequest) /\ requests # <<>> /\ inbox \in Seq(Answer \cup Delivery)
  BY DEF ClientInv, ClientTypes, OnTopicRequest
<1>2. PICK x \in TopicRequest : x = Head(requests)
  BY <1>1, Taking
<1>3. PICK a \in Answer : a = [to |-> x.from, ok |-> x.op \notin {"subscribe", "publish"}]
  <2>1. x.from \in Callers
    BY DEF TopicRequest
  <2>2. PICK b \in BOOLEAN : b = (x.op \notin {"subscribe", "publish"})
    OBVIOUS
  <2>3. [to |-> x.from, ok |-> b] \in Answer
    BY <2>1 DEF Answer
  <2> QED BY <2>2, <2>3
<1>4. /\ TopicOperation(Client, x.op, x.name)
      /\ requests' = Tail(requests)
      /\ \/ at'[Client] = Idle /\ inbox' = Append(inbox, a) /\ serving' = {}
         \/ at'[Client] # Idle /\ serving' = {x.from} /\ inbox' = inbox
      /\ UNCHANGED <<callbacks, caller, shown, crossed>>
  <2>1. inbox \o <<a>> = Append(inbox, a)
    BY <1>1
  <2>2. a = [to |-> x.from, ok |-> x.op \notin {"subscribe", "publish"}]
    BY <1>3
  <2> QED BY <1>2, <2>1, <2>2 DEF OnTopicRequest, Response
<1>5. /\ x \in Elements(requests) /\ requests' \in Seq(TopicRequest)
      /\ Elements(requests) = Elements(requests') \cup {x}
  BY <1>1, <1>2, <1>4, Taking
<1>6. /\ serving = {} /\ x.name \in Names /\ x.op \in Operations
      /\ at'[Client] = Idle /\ x.op \in Callbacks => joined'[Client][x.name] = NoTopic
      /\ at'[Client].step = "join" => x.op = "subscribe" /\ at'[Client].name = x.name
      /\ x.op = "cancel" => /\ joined'[Client][x.name] = NoTopic
                           /\ \A m \in promised : m.name # x.name
  BY <1>4, <1>5, ClientAsks
<1>7. /\ promised' \in SUBSET Messages
      /\ \A k \in Names : joined'[Client][k] \in {joined[Client][k], NoTopic}
      /\ \A m \in promised' :
            /\ joined'[Client][m.name] # NoTopic
            /\ \A u \in Callers : ~(Busy(u, m.name) /\ caller[u].op = "cancel")
            /\ m \in promised \/ m \in owed'[Client]
            /\ m \in owed[Client] => m \in owed'[Client]
      /\ UNCHANGED <<pending, closed, running>>
  BY <1>4, <1>6, TheClient, Expecting
<1>8. /\ x.from \in Callers /\ caller[x.from].step = "wait"
      /\ caller[x.from].op = x.op /\ caller[x.from].name = x.name
  BY <1>5, Waiting DEF ClientInv, RequestsMatch
<1>9. /\ x \in Asks(x.from) /\ a \in Answers(x.from) /\ a.to = x.from
      /\ \A v \in Callers : v # x.from => x \notin Asks(v) /\ a \notin Answers(v)
  BY <1>3, <1>8 DEF Asks, Answers
<1>10. /\ inbox' \in Seq(Answer \cup Delivery)
       /\ Elements(inbox) \subseteq Elements(inbox')
       /\ \A z \in Elements(inbox') : z \in Elements(inbox) \/ (z = a /\ at'[Client] = Idle)
       /\ \A v \in Callers :
             Count(inbox', Answers(v)) + (IF v \in serving' THEN 1 ELSE 0)
                 = Count(inbox, Answers(v)) + (IF v = x.from THEN 1 ELSE 0)
  <2>1. a \in Answer \cup Delivery
    OBVIOUS
  <2>2. CASE at'[Client] = Idle /\ inbox' = Append(inbox, a) /\ serving' = {}
    <3>1. inbox' \in Seq(Answer \cup Delivery) /\ Elements(inbox') = Elements(inbox) \cup {a}
      BY <1>1, <2>1, <2>2, Appending
    <3>2. ASSUME NEW v \in Callers
          PROVE  Count(inbox', Answers(v)) + (IF v \in serving' THEN 1 ELSE 0)
                    = Count(inbox, Answers(v)) + (IF v = x.from THEN 1 ELSE 0)
      <4>1. Count(Append(inbox, a), Answers(v))
                = Count(inbox, Answers(v)) + (IF a \in Answers(v) THEN 1 ELSE 0)
        BY <1>1, <2>1, CountAppended
      <4>2. a \in Answers(v) <=> v = x.from
        BY <1>9
      <4>3. Count(inbox, Answers(v)) \in Nat
        BY <1>1, CountIs
      <4> QED BY <2>2, <4>1, <4>2, <4>3
    <3> QED BY <2>2, <3>1, <3>2
  <2>3. CASE at'[Client] # Idle /\ serving' = {x.from} /\ inbox' = inbox
    BY <1>1, <2>3
  <2> QED BY <1>4, <2>2, <2>3
<1>11. ClientTypes'
  BY <1>4, <1>5, <1>7, <1>8, <1>10 DEF ClientInv, ClientTypes
<1>12. OnePlace'
  <2> SUFFICES ASSUME NEW v \in Callers
               PROVE  Count(requests', Asks(v)) + Count(inbox', Answers(v))
                        + (IF v \in serving' THEN 1 ELSE 0)
                      = IF caller[v].step = "wait" THEN 1 ELSE 0
    BY <1>4 DEF OnePlace, Count
  <2> DEFINE p == Count(requests, Asks(v))
             q == Count(inbox, Answers(v))
             p1 == Count(requests', Asks(v))
             q1 == Count(inbox', Answers(v))
             one == IF v = x.from THEN 1 ELSE 0
             served == IF v \in serving' THEN 1 ELSE 0
  <2>1. p = p1 + (IF Head(requests) \in Asks(v) THEN 1 ELSE 0)
    BY <1>1, <1>4, CountTaken
  <2>2. Head(requests) \in Asks(v) <=> v = x.from
    BY <1>2, <1>9
  <2>3. q1 + served = q + one
    BY <1>10
  <2>4. p + q = IF caller[v].step = "wait" THEN 1 ELSE 0
    <3>1. p + q + (IF v \in serving THEN 1 ELSE 0) = IF caller[v].step = "wait" THEN 1 ELSE 0
      BY DEF ClientInv, OnePlace
    <3>2. p \in Nat /\ q \in Nat
      BY Waiting DEF ClientInv
    <3> HIDE DEF p, q
    <3> QED BY <1>6, <3>1, <3>2
  <2>5. p \in Nat /\ q \in Nat /\ p1 \in Nat /\ q1 \in Nat
    BY <1>1, <1>5, <1>10, CountIs
  <2>6. one \in Nat /\ served \in Nat /\ p = p1 + one
    BY <2>1, <2>2
  <2> HIDE DEF p, q, p1, q1, one, served
  <2>7. p1 + q1 + served = p + q
    BY <2>3, <2>5, <2>6
  <2> QED BY <2>4, <2>7 DEF p1, q1, served
<1>13. RequestsMatch'
  BY <1>4, <1>5 DEF ClientInv, RequestsMatch, Elements
<1>14. ServingOK'
  <2>1. serving' # {} => at'[Client] # Idle
    BY <1>4
  <2>2. \A u \in serving' : u = x.from
    BY <1>4
  <2> QED BY <1>4, <1>6, <1>8, <2>1, <2>2 DEF ServingOK
<1>15. Uncrossed'
  BY <1>4, <1>7 DEF ClientInv, Uncrossed, CallbackWhileJoined, Busy
<1>16. \A u \in Callers : caller[u].step # "away" => caller[u].name \in Names
  BY CallerOf DEF ClientInv, ClientTypes
<1>17. ASSUME NEW v \in Callers, caller[v].step # "away", NEW ok, Over(v, ok) PROVE Over(v, ok)'
  BY <1>4, <1>7, <1>16, <1>17 DEF Over
<1>18. AnswersOK'
  <2>1. ASSUME NEW v \in Callers PROVE (caller[v].step = "answered" => Over(v, caller[v].ok))'
    <3>1. ASSUME caller[v].step = "answered" PROVE Over(v, caller[v].ok)'
      BY <1>4, <1>17, <3>1 DEF ClientInv, AnswersOK, Over
    <3> QED BY <1>4, <3>1
  <2>2. ASSUME NEW z \in Elements(inbox'), z \in Answer PROVE Over(z.to, z.ok)'
    <3>1. CASE z \in Elements(inbox)
      <4>1. z.to \in Callers /\ caller[z.to].step # "away"
        BY <2>2, <3>1, Waiting DEF ClientInv
      <4> QED BY <1>17, <2>2, <3>1, <4>1 DEF ClientInv, AnswersOK
    <3>2. CASE z = a /\ at'[Client] = Idle
      BY <1>4, <1>6, <1>8, <1>9, <3>2 DEF Over
    <3> QED BY <1>10, <3>1, <3>2
  <2> QED BY <2>1, <2>2 DEF AnswersOK, Elements
<1>19. PromisedOK'
  <2> SUFFICES ASSUME NEW m \in promised'
               PROVE  /\ joined'[Client][m.name] # NoTopic
                      /\ \A v \in Callers : ~(Busy(v, m.name) /\ caller[v].op = "cancel")
                      /\ m.name \notin crossed /\ Connected =>
                        \/ m \in owed'[Client] \/ m \in Elements(pending[Client])
                        \/ [message |-> m] \in Elements(inbox') \/ m \in shown
    BY <1>4, <1>7 DEF PromisedOK, Connected, Elements, Busy
  <2>1. ASSUME m.name \notin crossed, Connected, m \in promised
        PROVE  \/ m \in owed'[Client] \/ m \in Elements(pending[Client])
               \/ [message |-> m] \in Elements(inbox') \/ m \in shown
    <3>1. \/ m \in owed[Client] \/ m \in Elements(pending[Client])
          \/ [message |-> m] \in Elements(inbox) \/ m \in shown
      BY <2>1 DEF ClientInv, PromisedOK
    <3>2. Elements(inbox) \subseteq Elements(inbox') /\ (m \in owed[Client] => m \in owed'[Client])
      BY <1>7, <1>10
    <3> QED BY <3>1, <3>2
  <2>2. /\ joined'[Client][m.name] # NoTopic
        /\ m \in promised \/ m \in owed'[Client]
        /\ \A v \in Callers : ~(Busy(v, m.name) /\ caller[v].op = "cancel")
    BY <1>7
  <2> QED BY <2>1, <2>2
<1> QED BY <1>11, <1>12, <1>13, <1>14, <1>15, <1>18, <1>19 DEF ClientInv

\* A step of the client's handler puts at most the subscription in force that
\* it is to make, and is its last then.
LEMMA ClientServed ==
    ASSUME IInv, ClientInv, HandlerStep(Client)
    PROVE  /\ at'[Client].step # "join"
           /\ \A k \in Names :
                \/ joined'[Client][k] = joined[Client][k]
                \/ /\ at[Client].step = "join" /\ k = at[Client].name /\ joined'[Client][k] # NoTopic
                   /\ at'[Client] = Idle /\ running' = running
<1>1. /\ at \in [Conns -> Place] /\ joined \in [Conns -> [Names -> Topics \cup {NoTopic}]]
      /\ Client \in Conns /\ Idle.step = "idle"
  BY TheClient, Going DEF IInv, TypesOK, TypeOK
<1>2. CASE RemoveAllSubscriber(Client)
  <2>1. at'[Client] = Idle /\ UNCHANGED joined
    BY <1>1, <1>2 DEF RemoveAllSubscriber, histories
  <2> QED BY <1>1, <2>1
<1>3. CASE AddSubscriber(Client)
  <2>1. /\ at[Client].step = "join" /\ at'[Client] = Idle /\ UNCHANGED running
        /\ joined' = IF topics[at[Client].name] = at[Client].topic
                     THEN [joined EXCEPT ![Client][at[Client].name] = at[Client].topic] ELSE joined
    BY <1>1, <1>3 DEF AddSubscriber
  <2>2. at[Client].topic # NoTopic /\ at[Client].name \in Names
    BY <1>1, <2>1, PlaceOf, Ranges
  <2>3. \A k \in Names : joined'[Client][k] = joined[Client][k]
            \/ (k = at[Client].name /\ joined'[Client][k] = at[Client].topic)
    BY <1>1, <2>1
  <2> QED BY <1>1, <2>1, <2>2, <2>3
<1>4. CASE RemoveSubscriber(Client)
  <2>1. at'[Client] = Idle /\ UNCHANGED joined
    BY <1>1, <1>4 DEF RemoveSubscriber, histories
  <2> QED BY <1>1, <2>1
<1>5. CASE SendSubscribers(Client) \/ SendOne(Client)
  <2>1. UNCHANGED joined
    BY <1>5 DEF SendSubscribers, SendOne
  <2>2. \A x, ss : Sending(x, ss).step # "join"
    BY <1>1 DEF Sending
  <2>3. \E ss : at'[Client] = Sending(at[Client], ss)
    BY <1>1, <1>5 DEF SendSubscribers, SendOne
  <2> QED BY <2>1, <2>2, <2>3
<1> QED BY <1>2, <1>3, <1>4, <1>5 DEF HandlerStep

LEMMA Answered ==
    ASSUME NEW q \in Seq(Answer \cup Delivery), NEW a \in Answer
    PROVE  /\ Append(q, a) \in Seq(Answer \cup Delivery) /\ q \o <<a>> = Append(q, a)
           /\ Elements(Append(q, a)) = Elements(q) \cup {a}
           /\ \A u \in Callers : Count(Append(q, a), Answers(u))
                                    = Count(q, Answers(u)) + (IF a \in Answers(u) THEN 1 ELSE 0)
<1>1. a \in Answer \cup Delivery
  OBVIOUS
<1> QED BY <1>1, Appending, CountAppended

\* The client's handler answers, behind what it sends to the client itself.
Reached == inbox \o Written

LEMMA AnsweringKeepsClientInv ==
    ASSUME IInv, ClientInv, HandlerStep(Client), at'[Client] = Idle, running', NEW q \in Arrivals,
           q = Reached, NEW u \in serving, NEW a \in Answer, a = [to |-> u, ok |-> TRUE],
           inbox' = Append(q, a), serving' = {},
           UNCHANGED <<callbacks, caller, requests, shown, promised, crossed>>
    PROVE  ClientInv'
<1>1. /\ q \in Seq(Answer \cup Delivery) /\ Elements(inbox) \subseteq Elements(q)
      /\ \A z \in Elements(q) : z \in Answer => z \in Elements(inbox)
      /\ \A v \in Callers : Count(q, Answers(v)) = Count(inbox, Answers(v))
  BY Arriving DEF ClientInv
<1>2. /\ serving = {u} /\ u \in Callers /\ caller[u].step = "wait"
      /\ \A z \in Elements(inbox) : z \in Answer => z.to # u
  BY Waiting DEF ClientInv, ServingOK
<1>3. /\ \A k \in Names :
            \/ joined'[Client][k] = joined[Client][k]
            \/ /\ k = caller[u].name /\ caller[u].op = "subscribe"
               /\ joined'[Client][k] # NoTopic
      /\ caller[u].op = "cancel" => joined'[Client][caller[u].name] = NoTopic
  <2>1. \A k \in Names : \/ joined'[Client][k] = joined[Client][k]
                         \/ /\ at[Client].step = "join" /\ k = at[Client].name
                            /\ joined'[Client][k] # NoTopic
    BY ClientServed
  <2>2. /\ at[Client].step = "join" => caller[u].op = "subscribe" /\ caller[u].name = at[Client].name
        /\ caller[u].op = "cancel" => joined[Client][caller[u].name] = NoTopic
    BY DEF ClientInv, ServingOK
  <2>3. caller[u].name \in Names
    BY <1>2, CallerOf DEF ClientInv, ClientTypes
  <2> QED BY <2>1, <2>2, <2>3
<1>6. /\ a \in Answer \cup Delivery /\ a.to = u /\ a.ok = TRUE
      /\ \A v \in Callers : a \in Answers(v) <=> v = u
  BY DEF Answers
<1>7. inbox' \in Seq(Answer \cup Delivery) /\ Elements(inbox') = Elements(q) \cup {a}
  BY <1>1, Answered
<1>8. ClientTypes'
  BY <1>7 DEF ClientInv, ClientTypes
<1>9. OnePlace'
  <2> SUFFICES ASSUME NEW v \in Callers
               PROVE  Count(requests, Asks(v)) + Count(inbox', Answers(v)) + 0
                      = IF caller[v].step = "wait" THEN 1 ELSE 0
    BY DEF OnePlace, Count
  <2>1. Count(Append(q, a), Answers(v))
            = Count(q, Answers(v)) + (IF a \in Answers(v) THEN 1 ELSE 0)
    BY <1>1, Answered
  <2>2. Count(requests, Asks(v)) \in Nat /\ Count(inbox, Answers(v)) \in Nat
    BY Waiting DEF ClientInv
  <2>3. Count(requests, Asks(v)) + Count(inbox, Answers(v)) + (IF v \in serving THEN 1 ELSE 0)
            = IF caller[v].step = "wait" THEN 1 ELSE 0
    BY DEF ClientInv, OnePlace
  <2>4. (v \in serving <=> v = u) /\ (a \in Answers(v) <=> v = u)
    BY <1>2, <1>6
  <2>5. Count(q, Answers(v)) = Count(inbox, Answers(v))
    BY <1>1
  <2>6. Count(inbox', Answers(v)) = Count(inbox, Answers(v)) + (IF v = u THEN 1 ELSE 0)
    BY <2>1, <2>4, <2>5
  <2>7. PICK p \in Nat, k \in Nat : p = Count(requests, Asks(v)) /\ k = Count(inbox, Answers(v))
    BY <2>2
  <2>8. CASE v = u
    <3>1. p + k + 1 = 1 /\ caller[v].step = "wait"
      BY <1>2, <2>3, <2>7, <2>8
    <3>2. Count(inbox', Answers(v)) = k + 1
      BY <2>6, <2>7, <2>8
    <3> QED BY <2>7, <3>1, <3>2
  <2>9. CASE v # u
    <3>1. p + k + 0 = IF caller[v].step = "wait" THEN 1 ELSE 0
      BY <1>2, <2>3, <2>7, <2>9
    <3>2. Count(inbox', Answers(v)) = k
      BY <2>6, <2>7, <2>9
    <3> QED BY <2>7, <3>1, <3>2
  <2> QED BY <2>8, <2>9
<1>10. at'[Client].step = "idle"
  BY Going
<1>11. RequestsMatch' /\ ServingOK'
  BY <1>10 DEF ClientInv, RequestsMatch, ServingOK, Elements
<1>12. caller[u].op \in Operations /\ caller[u].name \in Names /\ caller[u] # Away
  BY <1>2, CallerOf, CallerGoes DEF ClientInv, ClientTypes
<1>13. caller[u].op \in Callbacks => Busy(u, caller[u].name)
  BY <1>12 DEF Busy
<1>14. Uncrossed'
  <2> SUFFICES ASSUME NEW k \in Names \ crossed PROVE CallbackWhileJoined(k)'
    BY DEF ClientInv, Uncrossed, Busy
  <2>1. CASE joined'[Client][k] = joined[Client][k]
    BY <2>1 DEF ClientInv, Uncrossed, CallbackWhileJoined
  <2>2. CASE k = caller[u].name /\ caller[u].op = "subscribe"
    <3>1. callbacks[k] # NoCallback
      BY <1>2, <1>13, <2>2 DEF ClientInv, Uncrossed, Callbacks
    <3> QED BY <3>1 DEF CallbackWhileJoined
  <2> QED BY <1>3, <2>1, <2>2
<1>15. \A v \in Callers : caller[v].step # "away" => caller[v].name \in Names /\ caller[v] # Away
  BY CallerOf, CallerGoes DEF ClientInv, ClientTypes
<1>16. ASSUME NEW v \in Callers, v # u, caller[v].step # "away", NEW ok, Over(v, ok) PROVE Over(v, ok)'
  <2>1. CASE caller[v].name \in crossed \/ caller[v].op \notin Callbacks
    BY <2>1 DEF Over
  <2>2. CASE joined'[Client][caller[v].name] = joined[Client][caller[v].name]
    BY <1>16, <2>2 DEF Over
  <2>3. CASE /\ caller[v].name \notin crossed /\ caller[v].op \in Callbacks
             /\ joined'[Client][caller[v].name] # joined[Client][caller[v].name]
    <3>1. caller[v].name = caller[u].name /\ caller[u].op = "subscribe"
      BY <1>3, <1>15, <1>16, <2>3
    <3>2. Busy(v, caller[v].name) /\ Busy(u, caller[v].name)
      BY <1>13, <1>15, <1>16, <2>3, <3>1 DEF Busy, Callbacks
    <3> QED BY <1>2, <1>15, <1>16, <2>3, <3>2 DEF ClientInv, Uncrossed
  <2> QED BY <2>1, <2>2, <2>3
<1>17. AnswersOK'
  <2>1. ASSUME NEW v \in Callers PROVE (caller[v].step = "answered" => Over(v, caller[v].ok))'
    <3>1. ASSUME caller[v].step = "answered" PROVE Over(v, caller[v].ok)'
      BY <1>2, <1>16, <3>1 DEF ClientInv, AnswersOK, Over
    <3> QED BY <3>1
  <2>2. ASSUME NEW z \in Elements(inbox'), z \in Answer PROVE Over(z.to, z.ok)'
    <3>1. CASE z \in Elements(q)
      <4>1. z \in Elements(inbox) /\ z.to \in Callers /\ z.to # u /\ caller[z.to].step # "away"
        BY <1>1, <1>2, <2>2, <3>1, Waiting DEF ClientInv
      <4> QED BY <1>16, <2>2, <4>1 DEF ClientInv, AnswersOK
    <3>2. CASE z = a
      BY <1>3, <1>6, <3>2 DEF Over
    <3> QED BY <1>7, <3>1, <3>2
  <2> QED BY <2>1, <2>2 DEF AnswersOK, Elements
<1>18. PromisedOK'
  <2>1. /\ UNCHANGED closed
        /\ Client \notin closed => \A m : m \in owed[Client] \/ m \in Elements(pending[Client]) =>
            \/ m \in owed'[Client] \/ m \in Elements(pending'[Client])
            \/ [message |-> m] \in Elements(q)
    BY TheClient, HandlerSends DEF Reached
  <2>2. Elements(inbox) \subseteq Elements(inbox') /\ Elements(q) \subseteq Elements(inbox')
    BY <1>1, <1>7
  <2>3. ASSUME NEW m \in promised' PROVE joined'[Client][m.name] # NoTopic
    <3>1. joined[Client][m.name] # NoTopic /\ m.name \in Names
      BY DEF ClientInv, ClientTypes, PromisedOK, Messages
    <3> QED BY <1>3, <3>1
  <2> QED BY <2>1, <2>2, <2>3, PromisesStay
<1> QED BY <1>8, <1>9, <1>11, <1>14, <1>17, <1>18 DEF ClientInv

\* The client's handler goes on without an answer.
LEMMA HandlerGoesOn ==
    ASSUME IInv, ClientInv, running, HandlerStep(Client), ~(at'[Client] = Idle /\ running'),
           inbox' = inbox \o Written,
           UNCHANGED <<callbacks, caller, requests, serving, shown, promised, crossed>>
    PROVE  ClientInv'
<1>1. at'[Client].step # "join" /\ \A k \in Names : joined'[Client][k] = joined[Client][k]
  BY ClientServed
<1>2. /\ UNCHANGED closed /\ inbox' \in Arrivals
      /\ Client \notin closed => \A m : m \in owed[Client] \/ m \in Elements(pending[Client]) =>
            \/ m \in owed'[Client] \/ m \in Elements(pending'[Client])
            \/ [message |-> m] \in Elements(inbox')
  BY TheClient, HandlerSends
<1>3. promised' \in SUBSET Messages /\ \A m \in promised : m.name \in Names
  BY DEF ClientInv, ClientTypes, Messages
<1>4. /\ ClientTypes' /\ OnePlace' /\ RequestsMatch' /\ Uncrossed' /\ AnswersOK'
      /\ \A u \in serving : caller[u].op = "cancel" => joined'[Client][caller[u].name] = NoTopic
  BY <1>1, <1>2, <1>3, ClientKept
<1>5. ServingOK'
  BY <1>1, <1>4 DEF ClientInv, ServingOK
<1>6. Elements(inbox) \subseteq Elements(inbox')
  BY <1>2, Arriving DEF ClientInv
<1>7. \A m \in promised' : joined'[Client][m.name] # NoTopic
  BY <1>1, <1>3 DEF ClientInv, PromisedOK
<1>8. PromisedOK'
  BY <1>2, <1>6, <1>7, PromisesStay
<1> QED BY <1>4, <1>5, <1>8 DEF ClientInv

LEMMA HandlerAnswersKeepsClientInv ==
    ASSUME IInv, ClientInv, running, HandlerAnswers
    PROVE  ClientInv'
<1>1. /\ HandlerStep(Client)
      /\ UNCHANGED <<callbacks, caller, requests, shown, promised, crossed>>
  BY DEF HandlerAnswers
<1>2. CASE ~(at'[Client] = Idle /\ running')
  BY <1>1, <1>2, HandlerGoesOn DEF HandlerAnswers
<1>3. CASE at'[Client] = Idle /\ running'
  <2>1. PICK u \in serving : inbox' = inbox \o Written \o Response(u, TRUE)
    BY <1>3 DEF HandlerAnswers
  <2>2. PICK q \in Arrivals : q = Reached
    BY <1>1, TheClient, HandlerSends DEF Reached
  <2>3. PICK a \in Answer : a = [to |-> u, ok |-> TRUE]
    <3>1. u \in Callers
      BY DEF ClientInv, ClientTypes
    <3> QED BY <3>1 DEF Answer
  <2>4. serving' = {} /\ inbox' = q \o <<a>>
    BY <1>3, <2>1, <2>2, <2>3 DEF HandlerAnswers, Reached, Response
  <2>5. inbox' = Append(q, a)
    <3>1. q \in Seq(Answer \cup Delivery)
      BY Arriving DEF ClientInv
    <3> QED BY <2>4, <3>1, Answered
  <2> QED BY <1>1, <1>3, <2>2, <2>3, <2>4, <2>5, AnsweringKeepsClientInv
<1> QED BY <1>2, <1>3

-----------------------------------------------------------------------------
(* Client and server together.                                             *)

\* Whatever happens in the composition is a step of the server or none of its.
LEMMA StepsOfServer == ClientInv /\ [PubSubNext]_allVars => [Next]_vars
<1> SUFFICES ASSUME ClientInv, PubSubNext \/ UNCHANGED allVars PROVE Next \/ UNCHANGED vars
  OBVIOUS
<1>1. CASE UNCHANGED allVars
  BY <1>1 DEF allVars
<1>2. CASE PubSubNext
  <2>1. running /\ Client \in Conns
    BY <1>2, TheClient DEF PubSubNext
  <2>2. ASSUME NEW u \in Callers, NEW n \in Names, NEW o \in Operations,
               AddSubscribe(u, n) \/ Cancel(u, n) \/ UseTopic(u, o, n)
        PROVE  UNCHANGED vars
    BY <2>2 DEF AddSubscribe, Cancel, UseTopic
  <2>3. ASSUME NEW u \in Callers, CallerWorks(u) PROVE UNCHANGED vars
    BY <2>3 DEF CallerWorks, SendRequest, RemoveSubscribe
  <2>4. CASE OnPublish \/ OnAnswer
    BY <2>4 DEF OnPublish, OnAnswer
  <2>5. ASSUME NEW c \in Conns, NEW o, NEW n \in Names, TopicOperation(c, o, n) PROVE Next
    BY <2>1, <2>5 DEF TopicOperation, Next, Request
  <2>6. CASE OnTopicRequest
    <3>1. PICK x \in TopicRequest : x = Head(requests)
      BY <2>6, Taking DEF OnTopicRequest, ClientInv, ClientTypes
    <3>2. x.name \in Names /\ TopicOperation(Client, x.op, x.name)
      BY <2>6, <3>1 DEF OnTopicRequest, TopicRequest
    <3> QED BY <2>1, <2>5, <3>2
  <2>7. CASE HandlerAnswers
    BY <2>1, <2>7 DEF HandlerAnswers, Next
  <2>8. ASSUME NEW c \in Conns, NEW n \in Names, OtherRequest(c, n) PROVE Next
    BY <2>5, <2>8 DEF OtherRequest
  <2>9. ASSUME NEW c \in Conns, OtherHandler(c) \/ DeliverPublish(c) \/ Disconnect(c) PROVE Next
    BY <2>1, <2>9 DEF OtherHandler, DeliverPublish, Disconnect, Next
  <2>10. \/ \E u \in Callers, n \in Names :
              AddSubscribe(u, n) \/ Cancel(u, n) \/ \E o \in Operations : UseTopic(u, o, n)
         \/ \E u \in Callers : CallerWorks(u)
         \/ OnPublish \/ OnAnswer \/ OnTopicRequest \/ HandlerAnswers
         \/ \E c \in Conns, n \in Names : OtherRequest(c, n)
         \/ \E c \in Conns : OtherHandler(c) \/ DeliverPublish(c) \/ Disconnect(c)
    BY <1>2 DEF PubSubNext
  <2>11. ASSUME NEW u \in Callers, NEW n \in Names,
                AddSubscribe(u, n) \/ Cancel(u, n) \/ \E o \in Operations : UseTopic(u, o, n)
         PROVE  UNCHANGED vars
    BY <2>2, <2>11 DEF Operations
  <2> QED BY <2>3, <2>4, <2>6, <2>7, <2>8, <2>9, <2>10, <2>11
<1> QED BY <1>1, <1>2

LEMMA NextKeepsClientInv == IInv /\ ClientInv /\ [PubSubNext]_allVars => ClientInv'
<1> SUFFICES ASSUME IInv, ClientInv, [PubSubNext]_allVars PROVE ClientInv'
  OBVIOUS
<1>1. ASSUME NEW u \in Callers, NEW n \in Names,
             AddSubscribe(u, n) \/ Cancel(u, n) \/ \E o \in Operations : UseTopic(u, o, n)
      PROVE  ClientInv'
  BY <1>1, AddSubscribeKeepsClientInv, CancelKeepsClientInv, UseTopicKeepsClientInv
<1>2. ASSUME NEW u \in Callers, CallerWorks(u) PROVE ClientInv'
  BY <1>2, SendRequestKeepsClientInv, RemoveSubscribeKeepsClientInv DEF CallerWorks
<1>3. CASE OnPublish \/ OnAnswer
  BY <1>3, OnPublishKeepsClientInv, OnAnswerKeepsClientInv
<1>4. CASE running /\ (OnTopicRequest \/ HandlerAnswers)
  BY <1>4, OnTopicRequestKeepsClientInv, HandlerAnswersKeepsClientInv
<1>5. ASSUME NEW c \in Conns, NEW n \in Names, OtherRequest(c, n) PROVE ClientInv'
  BY <1>5, OtherRequestKeepsClientInv
<1>6. ASSUME NEW c \in Conns, OtherHandler(c) \/ DeliverPublish(c) \/ Disconnect(c) PROVE ClientInv'
  BY <1>6, OtherHandlerKeepsClientInv, DeliverPublishKeepsClientInv, DisconnectKeepsClientInv
<1>7. CASE UNCHANGED allVars
  <2>1. /\ UNCHANGED <<clientVars, promised>>
        /\ UNCHANGED <<at, joined, owed, pending, closed, running>>
    BY <1>7 DEF allVars, vars, histories
  <2> QED BY <2>1, ClientAside
<1>8. CASE PubSubNext
  <2>1. running
    BY <1>8 DEF PubSubNext
  <2> QED BY <1>1, <1>2, <1>3, <1>4, <1>5, <1>6, <1>8, <2>1 DEF PubSubNext
<1> QED BY <1>7, <1>8

\* A client and the server it talks to keep both inductive invariants.
THEOREM TogetherInvariance == PubSubSpec => [](IInv /\ ClientInv)
<1>1. PubSubInit => IInv /\ ClientInv
  BY InitIInv, InitClientInv DEF PubSubInit
<1>2. IInv /\ ClientInv /\ [PubSubNext]_allVars => (IInv /\ ClientInv)'
  BY StepsOfServer, NextKeepsIInv, NextKeepsClientInv
<1> QED BY <1>1, <1>2, PTL DEF PubSubSpec

\* The server with TopicManager of a client attached still is the server that
\* Topic specifies, so that what is proved of it alone holds with the client.
THEOREM ServerInContext == PubSubSpec => Spec
<1>1. PubSubInit => Init
  BY DEF PubSubInit
<1> QED BY <1>1, TogetherInvariance, StepsOfServer, PTL DEF PubSubSpec, Spec

LEMMA TransitKept == ClientInv => CallsInTransit
<1> SUFFICES ASSUME ClientInv PROVE CallsInTransit
  OBVIOUS
<1>1. PubSubTypeOK
  BY CallerOf DEF ClientInv, ClientTypes, PubSubTypeOK
<1>2. ASSUME NEW u \in Callers
      PROVE  Cardinality({i \in DOMAIN requests : requests[i].from = u})
             + Cardinality({i \in DOMAIN inbox : "ok" \in DOMAIN inbox[i] /\ inbox[i].to = u})
             + Cardinality(serving \cap {u})
                = IF caller[u].step = "wait" THEN 1 ELSE 0
  <2>1. /\ \A i \in DOMAIN requests : requests[i] \in TopicRequest
        /\ \A i \in DOMAIN inbox : inbox[i] \in Answer \cup Delivery
    BY ElementsIn DEF Elements, ClientInv, ClientTypes
  <2>2. {i \in DOMAIN requests : requests[i].from = u} = {i \in DOMAIN requests : requests[i] \in Asks(u)}
    BY <2>1 DEF Asks
  <2>3. \A i \in DOMAIN inbox : "ok" \in DOMAIN inbox[i] <=> inbox[i] \in Answer
    BY <2>1, Kinds
  <2>4. {i \in DOMAIN inbox : "ok" \in DOMAIN inbox[i] /\ inbox[i].to = u}
            = {i \in DOMAIN inbox : inbox[i] \in Answers(u)}
    BY <2>3 DEF Answers
  <2>5. Cardinality(serving \cap {u}) = IF u \in serving THEN 1 ELSE 0
    <3>1. CASE u \in serving
      <4>1. serving \cap {u} = {u}
        BY <3>1
      <4> QED BY <3>1, <4>1, FS_Singleton
    <3>2. CASE u \notin serving
      <4>1. serving \cap {u} = {}
        BY <3>2
      <4> QED BY <3>2, <4>1, FS_EmptySet
    <3> QED BY <3>1, <3>2
  <2> QED BY <2>2, <2>4, <2>5 DEF ClientInv, OnePlace, Count
<1> QED BY <1>1, <1>2 DEF CallsInTransit

LEMMA ShownKept == IInv /\ ClientInv => PublishShown
<1> SUFFICES ASSUME IInv, ClientInv PROVE PublishShown
  OBVIOUS
<1>1. \A n \in Names \ crossed : CallbackWhileJoined(n)
  BY DEF ClientInv, Uncrossed
<1>2. ASSUME NEW m \in promised, m.name \notin crossed, Connected
      PROVE  \/ m \in shown
             \/ at[m.by].step \in {"publish", "sending"} /\ at[m.by].message = m
             \/ m \in Elements(pending[Client])
             \/ \E i \in DOMAIN inbox : inbox[i] = [message |-> m]
  <2>1. \/ m \in owed[Client] \/ m \in Elements(pending[Client])
        \/ [message |-> m] \in Elements(inbox) \/ m \in shown
    BY <1>2 DEF ClientInv, PromisedOK
  <2>2. m \in owed[Client] => at[m.by].step \in {"publish", "sending"} /\ at[m.by].message = m
    BY <1>2, TheClient DEF IInv, OwedOK, Underway, Connected
  <2>3. [message |-> m] \in Elements(inbox) => \E i \in DOMAIN inbox : inbox[i] = [message |-> m]
    BY DEF Elements
  <2> QED BY <2>1, <2>2, <2>3
<1> QED BY <1>1, <1>2 DEF PublishShown

\* Every call of TopicManager's Create, Remove, Subscribe, Cancel or Publish that
\* waits has its request, the server's attention or its answer under way, and only
\* one of them.
THEOREM AnsweredOnce == PubSubSpec => []CallsInTransit
BY TogetherInvariance, TransitKept, PTL

\* What is published while a client is subscribed reaches its callback.
THEOREM SubscribedIsShown == PubSubSpec => []PublishShown
BY TogetherInvariance, ShownKept, PTL

=============================================================================

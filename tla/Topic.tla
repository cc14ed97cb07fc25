------------------------------- MODULE Topic -------------------------------
(***************************************************************************)
(* The topic server: TopicManager, Topic and Subscriber                    *)
(* (server/rpc_topic.hpp).  The requests of one worker loop's connections  *)
(* are handled one after another, those of different loops concurrently; a *)
(* handler steps from one critical section to the next.                    *)
(* TopicManager's mutex guards single steps, a Topic's mutex is held while *)
(* a message is sent to one subscriber after the other.                    *)
(*                                                                         *)
(* Topic objects are numbered as they enter the map and outlive their      *)
(* removal in the handlers that hold them.  A Subscriber is named by its   *)
(* connection and the request that made it.  Subscriber::_topics is never  *)
(* read and is left out.                                                   *)
(*                                                                         *)
(* A definition X_Y beside X is X with a plausible bug: README.md says     *)
(* which property notices it.                                              *)
(***************************************************************************)
EXTENDS Naturals, Sequences, FiniteSets

CONSTANTS Owners,       \* connections whose clients create and remove topics
          Subscribers,  \* ... that subscribe and cancel
          Publishers,   \* ... that publish
          Names,        \* topic keys
          Shared,       \* sets of connections that share a worker loop
          MaxRequests,  \* bound: requests of one connection
          MaxTopics     \* bound: topics created

ASSUME TopicAssumption == MaxRequests \in Nat /\ MaxTopics \in Nat

Conns == Owners \cup Subscribers \cup Publishers
Topics == 1..MaxTopics
NoTopic == 0

VARIABLES topics,   \* TopicManager::_topics: the object under each name
          made,     \* how many Topic objects have entered it
          members,  \* Topic::_subscribers of each object
          stored,   \* TopicManager::_subscribers: at most one per connection
          at,       \* where each connection's handler is
          pending,  \* messages queued in each connection's loop
          sent,     \* messages written to each connection (history)
          order,    \* messages of each object, as sending began (history)
          joined,   \* the object of each subscription in force (history)
          subs,     \* the subscriptions each client ever made (history)
          owed,     \* messages each client is yet to be sent (history)
          closed,   \* connections that have been closed
          asked,    \* requests each connection has made (bound)
          running   \* the process has not crashed

tables == <<topics, made, members, stored>>
histories == <<sent, order, joined, subs, owed>>
vars == <<tables, at, pending, histories, closed, asked, running>>

SubscriberObjects == Conns \X (1..MaxRequests)
Messages == [by : Conns, no : 1..MaxRequests, name : Names]

Idle == [step |-> "idle"]
Steps == {"idle", "removeAll", "join", "leave", "publish", "sending"}

Init ==
    /\ topics = [n \in Names |-> NoTopic]
    /\ made = 0
    /\ members = [t \in Topics |-> {}]
    /\ stored = [c \in Conns |-> {}]
    /\ at = [c \in Conns |-> Idle]
    /\ pending = [c \in Conns |-> <<>>]
    /\ sent = [c \in Conns |-> <<>>]
    /\ order = [t \in Topics |-> <<>>]
    /\ joined = [c \in Conns |-> [n \in Names |-> NoTopic]]
    /\ subs = [c \in Conns |-> [n \in Names |-> 0]]
    /\ owed = [c \in Conns |-> {}]
    /\ closed = {}
    /\ asked = [c \in Conns |-> 0]
    /\ running = TRUE

-----------------------------------------------------------------------------
SameLoop(c, d) == c = d \/ \E loop \in Shared : {c, d} \subseteq loop
LoopFree(c) == \A d \in Conns : SameLoop(c, d) => at[d] = Idle

MayAsk(c) ==
    /\ c \notin closed
    /\ LoopFree(c)
    /\ asked[c] < MaxRequests

Asking(c) == asked' = [asked EXCEPT ![c] = @ + 1]

\* A Topic's mutex: held by the handler that is sending to its subscribers.
Locked_Never(t) == FALSE
Locked(t) == \E c \in Conns : at[c].step = "sending" /\ at[c].topic = t

OfName(n, ms) == {x \in ms : x.name = n}

\* TOPIC_CREATE: an object that loses against one in the map is dropped.
AddTopic(c, n) ==
    /\ c \in Owners
    /\ MayAsk(c)
    /\ Asking(c)
    /\ IF topics[n] = NoTopic
       THEN /\ made < MaxTopics
            /\ made' = made + 1
            /\ topics' = [topics EXCEPT ![n] = made + 1]
       ELSE UNCHANGED <<topics, made>>
    /\ UNCHANGED <<members, stored, at, pending, histories, closed, running>>

\* TOPIC_REMOVE, under the manager's mutex.
RemoveTopic(c, n) ==
    /\ c \in Owners
    /\ MayAsk(c)
    /\ Asking(c)
    /\ topics' = [topics EXCEPT ![n] = NoTopic]
    /\ at' = IF topics[n] = NoTopic THEN at
             ELSE [at EXCEPT ![c] = [step |-> "removeAll", topic |-> topics[n],
                                     name |-> n]]
    /\ joined' = [d \in Conns |-> [joined[d] EXCEPT ![n] = NoTopic]]
    /\ owed' = [d \in Conns |-> owed[d] \ OfName(n, owed[d])]
    /\ UNCHANGED <<made, members, stored, pending, sent, order, subs, closed,
                   running>>

\* The object whose subscribers RemoveAllSubscriber erases.
Emptied_ByName(x) == topics[x.name]
Emptied(x) == x.topic

\* The loop erases the element its iterator is on: undefined behaviour.  The
\* loop may end after any number of elements, or the process may crash.
RemoveAllSubscriber(c) ==
    LET t == Emptied(at[c]) IN
    /\ at[c].step = "removeAll"
    /\ ~Locked(t)
    /\ IF t = NoTopic \/ members[t] = {}
       THEN UNCHANGED <<members, running>>
       ELSE \/ \E left \in SUBSET members[t] \ {members[t]} :
                   members' = [members EXCEPT ![t] = left]
               /\ UNCHANGED running
            \/ running' = FALSE /\ UNCHANGED members
    /\ at' = [at EXCEPT ![c] = Idle]
    /\ UNCHANGED <<topics, made, stored, pending, histories, closed, asked>>

-----------------------------------------------------------------------------
\* What SubscribeTopic leaves in the manager's map: insert keeps the first.
Stored(c) == IF stored[c] = {} THEN {<<c, asked'[c]>>} ELSE stored[c]

\* TOPIC_SUBSCRIBE under the manager's mutex; no topic: NOT_FOUND_TOPIC.
SubscribeTopic(c, n) ==
    /\ c \in Subscribers
    /\ MayAsk(c)
    /\ Asking(c)
    /\ IF topics[n] = NoTopic
       THEN UNCHANGED <<at, stored, subs>>
       ELSE /\ at' = [at EXCEPT ![c] = [step |-> "join", topic |-> topics[n],
                          name |-> n, who |-> <<c, asked'[c]>>]]
            /\ stored' = [stored EXCEPT ![c] = Stored(c)]
            /\ subs' = [subs EXCEPT ![c][n] = @ + 1]
    /\ UNCHANGED <<topics, made, members, pending, sent, order, joined, owed,
                   closed, running>>

\* The subscription is in force unless its topic was removed meanwhile.
AddSubscriber(c) ==
    LET x == at[c] IN
    /\ x.step = "join"
    /\ ~Locked(x.topic)
    /\ members' = [members EXCEPT ![x.topic] = @ \cup {x.who}]
    /\ joined' = IF topics[x.name] = x.topic
                 THEN [joined EXCEPT ![c][x.name] = x.topic] ELSE joined
    /\ at' = [at EXCEPT ![c] = Idle]
    /\ UNCHANGED <<topics, made, stored, pending, sent, order, subs, owed,
                   closed, asked, running>>

\* TOPIC_CANCEL under the manager's mutex.
CancelSubscribe(c, n) ==
    /\ c \in Subscribers
    /\ MayAsk(c)
    /\ Asking(c)
    /\ at' = IF topics[n] = NoTopic \/ stored[c] = {} THEN at
             ELSE [at EXCEPT ![c] = [step |-> "leave", topic |-> topics[n],
                                     who |-> stored[c]]]
    /\ joined' = [joined EXCEPT ![c][n] = NoTopic]
    /\ owed' = [owed EXCEPT ![c] = @ \ OfName(n, @)]
    /\ UNCHANGED <<tables, pending, sent, order, subs, closed, running>>

\* What RemoveSubscriber leaves in a topic's set.
Left_Fresh(t, who) == members[t]
Left(t, who) == members[t] \ who

RemoveSubscriber(c) ==
    LET x == at[c] IN
    /\ x.step = "leave"
    /\ ~Locked(x.topic)
    /\ members' = [members EXCEPT ![x.topic] = Left(x.topic, x.who)]
    /\ at' = [at EXCEPT ![c] = Idle]
    /\ UNCHANGED <<topics, made, stored, pending, histories, closed, asked,
                   running>>

-----------------------------------------------------------------------------
\* TOPIC_PUBLISH under the manager's mutex; no topic: NOT_FOUND_TOPIC.
PublishTopic(c, n) ==
    LET m == [by |-> c, no |-> asked'[c], name |-> n] IN
    /\ c \in Publishers
    /\ MayAsk(c)
    /\ Asking(c)
    /\ IF topics[n] = NoTopic
       THEN UNCHANGED <<at, owed>>
       ELSE /\ at' = [at EXCEPT ![c] = [step |-> "publish", topic |-> topics[n],
                                        message |-> m]]
            /\ owed' = [d \in Conns |->
                           IF d \notin closed /\ joined[d][n] = topics[n]
                           THEN owed[d] \cup {m} ELSE owed[d]]
    /\ UNCHANGED <<tables, pending, sent, order, joined, subs, closed, running>>

\* Where the sender is when it has the subscribers ss still to send to: the
\* lock is released after the last one.
Sending_Kept(x, ss) ==
    [step |-> "sending", topic |-> x.topic, message |-> x.message, rest |-> ss]
Sending(x, ss) ==
    IF ss = {} THEN Idle
    ELSE [step |-> "sending", topic |-> x.topic, message |-> x.message,
          rest |-> ss]

\* SendSubscribers takes the topic's mutex.
SendSubscribers(c) ==
    LET x == at[c] IN
    /\ x.step = "publish"
    /\ ~Locked(x.topic)
    /\ order' = [order EXCEPT ![x.topic] = Append(@, x.message)]
    /\ at' = [at EXCEPT ![c] = Sending(x, members[x.topic])]
    /\ UNCHANGED <<tables, pending, sent, joined, subs, owed, closed, asked,
                   running>>

\* Subscriber::Send: at once if the sender runs in that connection's loop,
\* queued otherwise, dropped when the connection is closed.
SendOne(c) ==
    LET x == at[c] IN
    /\ x.step = "sending"
    /\ \E s \in x.rest :
        LET d == s[1] IN
        /\ IF d \in closed
           THEN UNCHANGED <<sent, pending>>
           ELSE IF SameLoop(c, d)
           THEN /\ sent' = [sent EXCEPT ![d] = Append(@, x.message)]
                /\ UNCHANGED pending
           ELSE /\ pending' = [pending EXCEPT ![d] = Append(@, x.message)]
                /\ UNCHANGED sent
        /\ owed' = [owed EXCEPT ![d] = @ \ {x.message}]
        /\ at' = [at EXCEPT ![c] = Sending(x, x.rest \ {s})]
    /\ UNCHANGED <<tables, order, joined, subs, closed, asked, running>>

\* The loop thread of d writes the next queued message.
WriteQueued(d) ==
    /\ LoopFree(d)
    /\ d \notin closed
    /\ pending[d] # <<>>
    /\ sent' = [sent EXCEPT ![d] = Append(@, Head(pending[d]))]
    /\ pending' = [pending EXCEPT ![d] = Tail(@)]
    /\ UNCHANGED <<tables, at, order, joined, subs, owed, closed, asked, running>>

\* A connection closes.  OnCloseCallBack is empty: its Subscribers stay.
Close(c) ==
    /\ c \notin closed
    /\ LoopFree(c)
    /\ closed' = closed \cup {c}
    /\ pending' = [pending EXCEPT ![c] = <<>>]
    /\ owed' = [owed EXCEPT ![c] = {}]
    /\ UNCHANGED <<tables, at, sent, order, joined, subs, asked, running>>

-----------------------------------------------------------------------------
\* The rest of a handler, once its request has arrived.
HandlerStep(c) ==
    \/ RemoveAllSubscriber(c)
    \/ AddSubscriber(c)
    \/ RemoveSubscriber(c)
    \/ SendSubscribers(c)
    \/ SendOne(c)

\* The requests a client may send, those that make topics apart.
Request(c, n) ==
    \/ AddTopic(c, n)
    \/ RemoveTopic(c, n)
    \/ SubscribeTopic(c, n)
    \/ CancelSubscribe(c, n)
    \/ PublishTopic(c, n)

Next ==
    /\ running
    /\ \E c \in Conns :
        \/ \E n \in Names : Request(c, n)
        \/ HandlerStep(c)
        \/ WriteQueued(c)
        \/ Close(c)

Spec == Init /\ [][Next]_vars

-----------------------------------------------------------------------------
(* Properties.                                                             *)

Elements(s) == {s[i] : i \in DOMAIN s}
Held(x) == IF x.step = "idle" THEN NoTopic ELSE x.topic

TypeOK ==
    /\ topics \in [Names -> Topics \cup {NoTopic}]
    /\ made \in 0..MaxTopics
    /\ members \in [Topics -> SUBSET SubscriberObjects]
    /\ stored \in [Conns -> SUBSET SubscriberObjects]
    /\ \A c \in Conns : at[c].step \in Steps /\ Held(at[c]) \in 0..made
    /\ pending \in [Conns -> Seq(Messages)]
    /\ sent \in [Conns -> Seq(Messages)]
    /\ order \in [Topics -> Seq(Messages)]
    /\ joined \in [Conns -> [Names -> Topics \cup {NoTopic}]]
    /\ subs \in [Conns -> [Names -> 0..MaxRequests]]
    /\ owed \in [Conns -> SUBSET Messages]
    /\ closed \subseteq Conns
    /\ asked \in [Conns -> 0..MaxRequests]
    /\ running \in BOOLEAN

\* Two senders never hold one topic's mutex, its holder always has somebody left
\* to send to, which takes no lock, so that whoever waits for it gets it, and
\* two names never share a topic.
MutexInv ==
    /\ TypeOK
    /\ \A c \in Conns : at[c].step = "sending" => at[c].rest # {}
    /\ \A c, d \in Conns :
        at[c].step = "sending" /\ at[d].step = "sending" /\ c # d =>
            at[c].topic # at[d].topic
    /\ \A n, k \in Names : topics[n] = topics[k] /\ n # k => topics[n] = NoTopic

\* A message is sent to everyone whose subscription was in force when its
\* publish was looked up and is until the publisher is answered: only a
\* message whose publish is still being handled is owed to anybody.
PublishReachesSubscribers ==
    \A d \in Conns \ closed : \A m \in owed[d] :
        at[m.by].step \in {"publish", "sending"} /\ at[m.by].message = m

\* Subscribers agree on the order of a topic's messages: whoever is sent one
\* of them gets it after every other of which sending began before, but for a
\* message from its own worker loop, which overtakes what waits there.
TopicOrderKept ==
    \A d \in Conns : LET got == sent[d] \o pending[d] IN
        \A i, j \in DOMAIN got : i < j /\ ~SameLoop(got[i].by, d) =>
            \A t \in Topics : \A a, b \in DOMAIN order[t] :
                order[t][a] = got[j] /\ order[t][b] = got[i] => b <= a

\* A subscription that was cancelled, or whose topic was removed, is over, if
\* the client never made another one: no later message of the topic under that
\* name is sent to it.  With a second subscription, of any topic, only the
\* first Subscriber is found again, and the cancel of the second does nothing.
CancelLasts ==
    \A c \in Subscribers, n \in Names :
        /\ topics[n] # NoTopic
        /\ at[c] = Idle
        /\ joined[c][n] # topics[n]
        /\ \A k \in Names : subs[c][k] <= IF k = n THEN 1 ELSE 0
        => \A s \in members[topics[n]] : s[1] # c
=============================================================================

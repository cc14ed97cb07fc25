------------------------------- MODULE PubSub -------------------------------
(***************************************************************************)
(* A topic client (client/rpc_topic.hpp, TopicManager) and the topic       *)
(* server together.  User threads create, remove, subscribe, cancel and    *)
(* publish, each call waiting for its answer; the client's loop thread     *)
(* hands answers to them and published messages to the callbacks.  A       *)
(* callback is named by the user thread that gave it.  The other clients   *)
(* do what they like: of them Topic models all that the server sees.       *)
(*                                                                         *)
(* A definition X_Y beside X is X with a plausible bug: README.md says     *)
(* which property notices it.                                              *)
(***************************************************************************)
EXTENDS Topic

CONSTANTS Client,     \* the connection of the client modelled
          Callers,    \* its user threads
          NoCallback

ASSUME PubSubAssumption == Client \in Conns /\ NoCallback \notin Callers

VARIABLES callbacks,  \* _topic_callbacks
          caller,     \* where each user thread is
          requests,   \* requests on their way to the server
          serving,    \* the caller whose request the server is handling
          inbox,      \* messages on their way to the client
          shown,      \* published messages a callback was given (history)
          promised,   \* messages published while subscribed (history)
          crossed     \* names two callers were busy with at once (history)

clientVars == <<callbacks, caller, requests, serving, inbox, shown, crossed>>
allVars == <<vars, clientVars, promised>>

Away == [step |-> "away"]

PubSubInit ==
    /\ Init
    /\ callbacks = [n \in Names |-> NoCallback]
    /\ caller = [u \in Callers |-> Away]
    /\ requests = <<>>
    /\ serving = {}
    /\ inbox = <<>>
    /\ shown = {}
    /\ promised = {}
    /\ crossed = {}

-----------------------------------------------------------------------------
(* The operations, in a user thread.                                       *)

Callbacks == {"subscribe", "cancel"}    \* the operations that change the map
Operations == Callbacks \cup {"create", "remove", "publish"}

\* What the client's program does with topics.
Uses(o) ==
    CASE o \in Callbacks -> Client \in Subscribers
      [] o = "publish" -> Client \in Publishers
      [] OTHER -> Client \in Owners

Busy(u, n) == caller[u] # Away /\ caller[u].op \in Callbacks /\ caller[u].name = n

\* The client's requests so far, and those about to be sent: the bound MaxRequests
\* is kept where a call starts, and every call that has started can be sent.
Begun ==
    asked[Client] + Len(requests) + Cardinality({u \in Callers : caller[u].step = "send"})

Starts(u, o, n) ==
    /\ Uses(o)
    /\ Begun < MaxRequests
    /\ caller[u] = Away
    /\ caller' = [caller EXCEPT ![u] = [step |-> "send", op |-> o, name |-> n]]

\* u starts to subscribe to n or to cancel it.
Crossing(u, n) ==
    crossed' = IF \E v \in Callers \ {u} : Busy(v, n)
               THEN crossed \cup {n} ELSE crossed

\* What AddSubscribe leaves in the map: insert keeps a callback that is there.
Added_Late(u, n) == callbacks
Added(u, n) ==
    IF callbacks[n] = NoCallback THEN [callbacks EXCEPT ![n] = u] ELSE callbacks

AddSubscribe(u, n) ==
    /\ Starts(u, "subscribe", n)
    /\ callbacks' = Added(u, n)
    /\ Crossing(u, n)
    /\ UNCHANGED <<vars, requests, serving, inbox, shown, promised>>

\* The subscription is as good as over once Cancel has been called.
Cancel(u, n) ==
    /\ Starts(u, "cancel", n)
    /\ promised' = promised \ OfName(n, promised)
    /\ Crossing(u, n)
    /\ UNCHANGED <<vars, callbacks, requests, serving, inbox, shown>>

\* Create, Remove and Publish.
UseTopic(u, o, n) ==
    /\ o \notin Callbacks
    /\ Starts(u, o, n)
    /\ UNCHANGED <<vars, callbacks, requests, serving, inbox, shown, promised, crossed>>

\* CommonRequest: the request is sent and its answer waited for.
SendRequest(u) ==
    /\ caller[u].step = "send"
    /\ requests' = Append(requests, [op |-> caller[u].op, name |-> caller[u].name,
                                     from |-> u])
    /\ caller' = [caller EXCEPT ![u].step = "wait"]
    /\ UNCHANGED <<vars, callbacks, serving, inbox, shown, promised, crossed>>

\* The call returns.  A subscribe that failed and a cancel that did not erase
\* the callback.
Erases(x) == x.op \in Callbacks /\ (x.ok <=> x.op = "cancel")

RemoveSubscribe(u) ==
    LET x == caller[u] IN
    /\ x.step = "answered"
    /\ callbacks' = IF Erases(x) THEN [callbacks EXCEPT ![x.name] = NoCallback]
                    ELSE callbacks
    /\ caller' = [caller EXCEPT ![u] = Away]
    /\ UNCHANGED <<vars, requests, serving, inbox, shown, promised, crossed>>

-----------------------------------------------------------------------------
(* The client's loop thread.                                               *)

\* OnPublish: a message without a callback is dropped.
OnPublish ==
    /\ inbox # <<>>
    /\ "message" \in DOMAIN Head(inbox)
    /\ shown' = IF callbacks[Head(inbox).message.name] = NoCallback THEN shown
                ELSE shown \cup {Head(inbox).message}
    /\ inbox' = Tail(inbox)
    /\ UNCHANGED <<vars, callbacks, caller, requests, serving, promised, crossed>>

\* Requestor::OnResponse fulfils the caller's promise.
OnAnswer ==
    LET x == Head(inbox) IN
    /\ inbox # <<>>
    /\ "ok" \in DOMAIN x
    /\ caller' = [caller EXCEPT ![x.to] = [step |-> "answered", op |-> @.op,
                                           name |-> @.name, ok |-> x.ok]]
    /\ inbox' = Tail(inbox)
    /\ UNCHANGED <<vars, callbacks, requests, serving, shown, promised, crossed>>

-----------------------------------------------------------------------------
(* The server's steps, with the client's connection attached.              *)

\* TopicManager::Response, sent in the client's own loop on the server.
Response_OnlyOk(from, ok) == IF ok THEN <<[to |-> from, ok |-> ok]>> ELSE <<>>
Response(from, ok) == <<[to |-> from, ok |-> ok]>>

\* The message a step writes to the client's connection: from its queue, or at
\* once when the sender runs in the client's loop.
Written ==
    IF sent'[Client] = sent[Client] THEN <<>>
    ELSE <<[message |-> sent'[Client][Len(sent'[Client])]]>>

Cancelling(n) == \E u \in Callers : Busy(u, n) /\ caller[u].op = "cancel"

\* TopicManager::OnTopicRequest on the server, and what the client may expect.
TopicOperation(c, o, n) ==
    /\ \/ o = "create" /\ AddTopic(c, n)
       \/ o = "remove" /\ RemoveTopic(c, n)
       \/ o = "subscribe" /\ SubscribeTopic(c, n)
       \/ o = "cancel" /\ CancelSubscribe(c, n)
       \/ o = "publish" /\ PublishTopic(c, n)
    /\ promised' = CASE o = "remove" -> promised \ OfName(n, promised)
                     [] o = "publish" /\ ~Cancelling(n) ->
                            promised \cup (owed'[Client] \ owed[Client])
                     [] OTHER -> promised

\* A request is answered at once unless its handler has a second step; with no
\* topic a subscribe and a publish fail, the others have nothing to do.
OnTopicRequest ==
    LET x == Head(requests) IN
    /\ requests # <<>>
    /\ TopicOperation(Client, x.op, x.name)
    /\ requests' = Tail(requests)
    /\ IF at'[Client] = Idle
       THEN /\ inbox' = inbox \o Response(x.from, x.op \notin {"subscribe", "publish"})
            /\ serving' = {}
       ELSE /\ serving' = {x.from}
            /\ UNCHANGED inbox
    /\ UNCHANGED <<callbacks, caller, shown, crossed>>

\* The handler's last step answers, behind what the handler itself sent to the
\* client; a handler that crashes does not.
HandlerAnswers ==
    /\ HandlerStep(Client)
    /\ IF at'[Client] = Idle /\ running'
       THEN /\ \E u \in serving : inbox' = inbox \o Written \o Response(u, TRUE)
            /\ serving' = {}
       ELSE /\ inbox' = inbox \o Written
            /\ UNCHANGED serving
    /\ UNCHANGED <<callbacks, caller, requests, shown, promised, crossed>>

OtherRequest(c, n) ==
    /\ c # Client
    /\ \E o \in Operations : TopicOperation(c, o, n)
    /\ UNCHANGED clientVars

OtherHandler(c) ==
    /\ c # Client
    /\ HandlerStep(c)
    /\ inbox' = inbox \o Written
    /\ UNCHANGED <<callbacks, caller, requests, serving, shown, promised, crossed>>

\* A loop thread writes what is queued.
DeliverPublish(c) ==
    /\ WriteQueued(c)
    /\ inbox' = inbox \o Written
    /\ UNCHANGED <<callbacks, caller, requests, serving, shown, promised, crossed>>

Disconnect(c) == Close(c) /\ UNCHANGED <<clientVars, promised>>

CallerWorks(u) == SendRequest(u) \/ RemoveSubscribe(u)

PubSubNext ==
    /\ running
    /\ \/ \E u \in Callers, n \in Names :
            AddSubscribe(u, n) \/ Cancel(u, n) \/ \E o \in Operations : UseTopic(u, o, n)
       \/ \E u \in Callers : CallerWorks(u)
       \/ OnPublish
       \/ OnAnswer
       \/ OnTopicRequest
       \/ HandlerAnswers
       \/ \E c \in Conns, n \in Names : OtherRequest(c, n)
       \/ \E c \in Conns : OtherHandler(c) \/ DeliverPublish(c) \/ Disconnect(c)

PubSubSpec == PubSubInit /\ [][PubSubNext]_allVars

-----------------------------------------------------------------------------
(* Properties.                                                             *)

Connected == Client \notin closed

PubSubTypeOK ==
    /\ callbacks \in [Names -> Callers \cup {NoCallback}]
    /\ \A u \in Callers : caller[u].step \in {"away", "send", "wait", "answered"}
    /\ serving \subseteq Callers
    /\ shown \subseteq Messages
    /\ promised \subseteq Messages
    /\ crossed \subseteq Names

\* Every call that waits has its request or its answer under way, and only one
\* of them: no user thread is answered twice or for another's request.
CallsInTransit ==
    /\ PubSubTypeOK
    /\ \A u \in Callers : Connected =>
        Cardinality({i \in DOMAIN requests : requests[i].from = u})
        + Cardinality({i \in DOMAIN inbox : "ok" \in DOMAIN inbox[i] /\ inbox[i].to = u})
        + Cardinality(serving \cap {u})
            = IF caller[u].step = "wait" THEN 1 ELSE 0

\* While the server counts the client as subscribed the client has a callback.
CallbackWhileJoined(n) == joined[Client][n] # NoTopic => callbacks[n] # NoCallback

\* End to end: a message published while the client was subscribed has been
\* given to a callback once it is no longer under way, and there is a callback
\* for what is still to come, unless the client called Cancel, the topic was
\* removed, the connection was lost, or two of the client's threads subscribed
\* and cancelled that topic at once.
PublishShown ==
    /\ \A n \in Names \ crossed : CallbackWhileJoined(n)
    /\ \A m \in promised :
        \/ m \in shown
        \/ m.name \in crossed \/ ~Connected
        \/ at[m.by].step \in {"publish", "sending"} /\ at[m.by].message = m
        \/ m \in Elements(pending[Client])
        \/ \E i \in DOMAIN inbox : inbox[i] = [message |-> m]
=============================================================================

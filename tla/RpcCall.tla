------------------------------- MODULE RpcCall -------------------------------
(***************************************************************************)
(* A call's way from RpcCaller through the Requestor and a connection to   *)
(* the server's RpcRouter and back.  Any number of user threads share one  *)
(* Requestor and several connections; each connection has a loop thread at *)
(* the client, which receives its responses, fulfils promises and runs the *)
(* users' callbacks, and a worker at the server.  A callback may make      *)
(* calls itself, on any connection.                                        *)
(*                                                                         *)
(* A call stands for its UUID, its RequestDescribe and its promise.  Byte  *)
(* streams are sequences of messages.  A loop thread is named by its       *)
(* connection.  Connections are accepted by the kernel as soon as the      *)
(* RpcServer exists; its application registers the service that is called, *)
(* which is announced first and entered in the table then, and starts the  *)
(* server, in one order or the other.                                      *)
(*                                                                         *)
(* A definition X_Y beside X is X with a plausible bug: README.md says     *)
(* which property notices it.                                              *)
(***************************************************************************)
EXTENDS Sequences, FiniteSets

CONSTANTS Threads,        \* user threads
          Conns,          \* connections, and their loop threads
          Calls,          \* calls, and their message identifiers
          None,           \* no call, no connection, the empty identifier
          UserModes,      \* how user threads call: subset of Modes
          CallbackModes,  \* how callbacks call: subset of Modes
          IllFormed,      \* calls whose parameters are null, no JSON object
          ParamType,      \* the service's parameter, of Types
          ReturnType      \* and its result

Modes == {"sync", "async", "callback"}

\* Of VType two stand for the ones that jsoncpp's null is not, and is.
Types == {"string", "object"}

\* JSON values: one that is missing, too.
Values == Types \cup {"null", "absent"}

ASSUME CallAssumption ==
    /\ Threads \cap Conns = {}
    /\ None \notin Threads \cup Conns \cup Calls
    /\ UserModes \subseteq Modes /\ CallbackModes \subseteq Modes
    /\ IllFormed \subseteq Calls
    /\ ParamType \in Types /\ ReturnType \in Types

Actors == Threads \cup Conns

\* What a service call produces: a result, an error code, that of a service
\* that is not in the table, or RCODE_OK with the null an OBJECT or ARRAY
\* service left in its result.
Kinds == {"ok", "error", "missing", "null"}
Reported == Kinds \ {"null"}

VARIABLES requests,  \* _requests: the identifiers that have a RequestDescribe
          mode,      \* the overload of Call that made the call
          conn,      \* the connection it was made on; None: not made
          stage,     \* where each thread is
          making,    \* the call a thread is making, None otherwise
          handling,  \* the response OnResponse is handling in a loop thread
          queued,    \* sends queued in the connection's loop by other threads
          wire,      \* requests on their way to the server
          answers,   \* responses on their way to the client
          open,      \* the client's Connection is not DISCONNECTED
          shutting,  \* Shutdown was queued for it, or the server closed it
          service,   \* how far RegisterService is with the service
          services,  \* the service is in the router's table
          serving,   \* Start was called
          executed,  \* what the server's executions produced (history)
          outcome    \* what the promise or callback was given (history)

vars == <<requests, mode, conn, stage, making, handling, queued, wire, answers,
          open, shutting, service, services, serving, executed, outcome>>

serverVars == <<service, services, serving>>
callVars == <<mode, conn>>

\* Where a thread is: outside Call and OnResponse, between NewRequest and
\* conn->Send, in future.get(), between GetRequest and the delivery, inside a
\* user's callback, before RemoveRequest.
UserStages == {"free", "send", "wait"}
LoopStages == {"free", "deliver", "callback", "send", "wait", "remove"}

Messages == [id : Calls \cup {None}, kind : Kinds]

TypeOK ==
    /\ requests \in SUBSET Calls
    /\ mode \in [Calls -> Modes]
    /\ conn \in [Calls -> Conns \cup {None}]
    /\ stage \in [Actors -> UserStages \cup LoopStages]
    /\ \A t \in Threads : stage[t] \in UserStages
    /\ making \in [Actors -> Calls \cup {None}]
    /\ handling \in [Conns -> Calls \cup {None}]
    /\ queued \in [Conns -> Seq(Calls)]
    /\ wire \in [Conns -> Seq(Calls)]
    /\ answers \in [Conns -> Seq(Messages)]
    /\ open \in [Conns -> BOOLEAN]
    /\ shutting \in [Conns -> BOOLEAN]
    /\ service \in {"none", "announced", "local", "done"}
    /\ services \in BOOLEAN /\ serving \in BOOLEAN
    /\ executed \in [Calls -> Seq(Kinds)]
    /\ outcome \in [Calls -> Seq(Kinds)]

\* A thread makes a call exactly while it is in Send or future.get(), and a
\* loop thread handles a response until it has removed the request, also
\* across the calls its callback makes.
ThreadInv ==
    /\ \A a \in Actors : making[a] # None <=> stage[a] \in {"send", "wait"}
    /\ \A n \in Conns : handling[n] # None <=> stage[n] # "free"

TypeInv == TypeOK /\ ThreadInv

Init ==
    /\ requests = {}
    /\ mode = [c \in Calls |-> "sync"]
    /\ conn = [c \in Calls |-> None]
    /\ stage = [a \in Actors |-> "free"]
    /\ making = [a \in Actors |-> None]
    /\ handling = [n \in Conns |-> None]
    /\ queued = [n \in Conns |-> <<>>]
    /\ wire = [n \in Conns |-> <<>>]
    /\ answers = [n \in Conns |-> <<>>]
    /\ open = [n \in Conns |-> TRUE]
    /\ shutting = [n \in Conns |-> FALSE]
    /\ service = "none" /\ services = FALSE /\ serving = FALSE
    /\ executed = [c \in Calls |-> <<>>]
    /\ outcome = [c \in Calls |-> <<>>]

-----------------------------------------------------------------------------
(* The caller: RpcCaller::Call and Requestor::Send.                        *)

MayMake(a, m) ==
    \/ a \in Threads /\ stage[a] = "free" /\ m \in UserModes
    \/ a \in Conns /\ stage[a] = "callback" /\ m \in CallbackModes

\* What NewRequest leaves in _requests.
Registered_Lost(c) == requests
Registered(c) == requests \cup {c}

\* NewRequest registers the describe before the request is sent.
NewRequest(a, c, m, n) ==
    /\ MayMake(a, m)
    /\ conn[c] = None
    /\ requests' = Registered(c)
    /\ mode' = [mode EXCEPT ![c] = m]
    /\ conn' = [conn EXCEPT ![c] = n]
    /\ stage' = [stage EXCEPT ![a] = "send"]
    /\ making' = [making EXCEPT ![a] = c]
    /\ UNCHANGED <<handling, queued, wire, answers, open, shutting, executed,
                   outcome, serverVars>>

\* Where a call returns to.
AfterCall(a) == IF a \in Threads THEN "free" ELSE "callback"

\* After conn->Send a synchronous call waits in future.get(), the others
\* return to the user thread or to the callback.
AfterSend(a) ==
    LET c == making[a] IN
    /\ stage' = [stage EXCEPT ![a] =
                    IF mode[c] = "sync" THEN "wait" ELSE AfterCall(a)]
    /\ making' = [making EXCEPT ![a] = IF mode[c] = "sync" THEN c ELSE None]

\* SendInLoop: a connection that is closed swallows the request.
OnWire_Gated(n, c) ==
    IF open[n] /\ wire[n] = <<>> THEN Append(wire[n], c) ELSE wire[n]
OnWire(n, c) == IF open[n] THEN Append(wire[n], c) ELSE wire[n]

\* conn->Send runs in the connection's own loop thread at once, from any other
\* thread it is queued.
Send(a) ==
    LET c == making[a]
        n == conn[c]
    IN
    /\ stage[a] = "send"
    /\ AfterSend(a)
    /\ IF a = n
       THEN /\ wire' = [wire EXCEPT ![n] = OnWire(n, c)]
            /\ UNCHANGED queued
       ELSE /\ queued' = [queued EXCEPT ![n] = Append(@, c)]
            /\ UNCHANGED wire
    /\ UNCHANGED <<requests, callVars, handling, answers, open, shutting,
                   executed, outcome, serverVars>>

\* future.get() returns.
Return(a) ==
    /\ stage[a] = "wait"
    /\ outcome[making[a]] # <<>>
    /\ stage' = [stage EXCEPT ![a] = AfterCall(a)]
    /\ making' = [making EXCEPT ![a] = None]
    /\ UNCHANGED <<requests, callVars, handling, queued, wire, answers, open,
                   shutting, executed, outcome, serverVars>>

-----------------------------------------------------------------------------
(* The client's loop thread.                                               *)

\* SendInLoop of a queued send.
SendInLoop(n) ==
    /\ stage[n] = "free"
    /\ queued[n] # <<>>
    /\ queued' = [queued EXCEPT ![n] = Tail(@)]
    /\ wire' = [wire EXCEPT ![n] = OnWire(n, Head(queued[n]))]
    /\ UNCHANGED <<requests, callVars, stage, making, handling, answers, open,
                   shutting, executed, outcome, serverVars>>

\* What MuduoClient::OnMessage and GetRequest make of a response: it is
\* refused by RpcResponse::Check, has no describe, or is delivered.
Accepted(r) == r.kind \in Reported
Matched(r) == r.id \in requests

\* A response arrives and its describe is looked up under the mutex.
GetRequest(n) ==
    LET r == Head(answers[n]) IN
    /\ stage[n] = "free"
    /\ open[n]
    /\ answers[n] # <<>>
    /\ Accepted(r) /\ Matched(r)
    /\ stage' = [stage EXCEPT ![n] = "deliver"]
    /\ handling' = [handling EXCEPT ![n] = r.id]
    /\ UNCHANGED <<requests, callVars, making, queued, wire, answers, open,
                   shutting, executed, outcome, serverVars>>

\* A response that is refused or unknown makes the client shut the connection
\* down; no caller hears of it.
Refuse(n) ==
    LET r == Head(answers[n]) IN
    /\ stage[n] = "free"
    /\ open[n]
    /\ answers[n] # <<>>
    /\ ~(Accepted(r) /\ Matched(r))
    /\ answers' = [answers EXCEPT ![n] = Tail(@)]
    /\ shutting' = [shutting EXCEPT ![n] = TRUE]
    /\ UNCHANGED <<requests, callVars, stage, making, handling, queued, wire,
                   open, executed, outcome, serverVars>>

\* The call a response is given to.
Recipient_Oldest(n) ==
    CHOOSE c \in requests : conn[c] = n
Recipient(n) == handling[n]

\* set_value on the promise, or the user's callback is entered.
Deliver(n) ==
    LET c == Recipient(n) IN
    /\ stage[n] = "deliver"
    /\ outcome' = [outcome EXCEPT ![c] = Append(@, Head(answers[n]).kind)]
    /\ answers' = [answers EXCEPT ![n] = Tail(@)]
    /\ stage' = [stage EXCEPT ![n] =
                    IF mode[c] = "callback" THEN "callback" ELSE "remove"]
    /\ UNCHANGED <<requests, callVars, making, handling, queued, wire, open,
                   shutting, executed, serverVars>>

CallbackReturns(n) ==
    /\ n \in Conns
    /\ stage[n] = "callback"
    /\ stage' = [stage EXCEPT ![n] = "remove"]
    /\ UNCHANGED <<requests, callVars, making, handling, queued, wire, answers,
                   open, shutting, executed, outcome, serverVars>>

\* What RemoveRequest leaves in _requests.
Remaining_Leak(n) == requests
Remaining(n) == requests \ {handling[n]}

RemoveRequest(n) ==
    /\ stage[n] = "remove"
    /\ requests' = Remaining(n)
    /\ stage' = [stage EXCEPT ![n] = "free"]
    /\ handling' = [handling EXCEPT ![n] = None]
    /\ UNCHANGED <<callVars, making, queued, wire, answers, open, shutting,
                   executed, outcome, serverVars>>

\* ReleaseInLoop: after a Shutdown, or because the peer or the network closed
\* the connection at any time.  Nobody who waits for a response is told.
Release(n) ==
    /\ stage[n] = "free"
    /\ open[n]
    /\ open' = [open EXCEPT ![n] = FALSE]
    /\ answers' = [answers EXCEPT ![n] = <<>>]
    /\ UNCHANGED <<requests, callVars, stage, making, handling, queued, wire,
                   shutting, executed, outcome, serverVars>>

-----------------------------------------------------------------------------
(* The server: RpcServer, MuduoServer::OnMessage and RpcRouter.            *)

\* RegisterService tells the registry, or fails to, or has none.
Announce(announced) ==
    /\ service = "none"
    /\ service' = announced
    /\ UNCHANGED <<services, serving>>

\* Whether the service is in the table then: it enters it either way.
Entered_IfAnnounced == service = "announced"
Entered == TRUE

\* ServiceManager::Insert, the last step of RegisterService.
Insert ==
    /\ service \in {"announced", "local"}
    /\ service' = "done"
    /\ services' = Entered
    /\ UNCHANGED serving

\* The loops run, and what has arrived meanwhile is read.
Start ==
    /\ ~serving
    /\ serving' = TRUE
    /\ UNCHANGED <<service, services>>

ApplicationStep ==
    /\ Announce("announced") \/ Announce("local") \/ Insert \/ Start
    /\ UNCHANGED <<requests, callVars, stage, making, handling, queued, wire,
                   answers, open, shutting, executed, outcome>>

\* RpcRequest::Check.
WellFormed(c) == c \notin IllFormed

\* ServiceDescribe::CheckType: isObject() and isArray() hold of null.
CheckType(type, value) == value = type \/ (value = "null" /\ type = "object")

\* OnRpcRequest's answer to a parameter for which the service leaves a result.
Answer(param, result) ==
    IF ~services THEN "missing"
    ELSE IF ~CheckType(ParamType, param) THEN "error"
    ELSE IF ~CheckType(ReturnType, result) THEN "error"
    ELSE IF result = "null" THEN "null"
    ELSE "ok"

\* Whatever the router answers goes back under the request's identifier.  A
\* request that RpcRequest::Check refuses has not been given its identifier
\* yet; the server shuts the connection down and routes it all the same.
OnRpcRequest(n, param, result) ==
    LET c == Head(wire[n])
        k == Answer(param, result)
        r == [id |-> IF WellFormed(c) THEN c ELSE None, kind |-> k]
    IN
    /\ serving
    /\ wire[n] # <<>>
    /\ param # "absent" => WellFormed(c)
    /\ wire' = [wire EXCEPT ![n] = Tail(@)]
    /\ executed' = [executed EXCEPT ![c] = Append(@, k)]
    /\ answers' = IF open[n]
                  THEN [answers EXCEPT ![n] = Append(@, r)] ELSE answers
    /\ shutting' = [shutting EXCEPT ![n] = @ \/ ~WellFormed(c)]
    /\ UNCHANGED <<requests, callVars, stage, making, handling, queued, open,
                   outcome, serverVars>>

-----------------------------------------------------------------------------
CallerStep ==
    \E a \in Actors :
        \/ \E c \in Calls, m \in Modes, n \in Conns : NewRequest(a, c, m, n)
        \/ Send(a)
        \/ Return(a)

ClientLoopStep ==
    \E n \in Conns :
        \/ SendInLoop(n)
        \/ GetRequest(n)
        \/ Refuse(n)
        \/ Deliver(n)
        \/ CallbackReturns(n)
        \/ RemoveRequest(n)
        \/ Release(n)

Answering(n) == \E param, result \in Values : OnRpcRequest(n, param, result)

ServerStep == \E n \in Conns : Answering(n)

Next == CallerStep \/ ClientLoopStep \/ ServerStep \/ ApplicationStep

Spec == Init /\ [][Next]_vars

\* Every thread is scheduled, a callback returns unless it waits for a call,
\* TCP delivers what is sent on an open connection, and a queued Shutdown is
\* carried out; the application starts its server.  Nobody has to make a call,
\* no connection has to fail, RegisterMethod may wait for the registry for ever.
Fairness ==
    /\ WF_vars(ApplicationStep /\ serving' # serving)
    /\ \A a \in Actors : WF_vars(Send(a)) /\ WF_vars(Return(a))
    /\ \A n \in Conns :
        /\ WF_vars(SendInLoop(n))
        /\ WF_vars(GetRequest(n) \/ Refuse(n))
        /\ WF_vars(Deliver(n))
        /\ WF_vars(CallbackReturns(n))
        /\ WF_vars(RemoveRequest(n))
        /\ WF_vars(shutting[n] /\ Release(n))
        /\ WF_vars(open[n] /\ Answering(n))

FairSpec == Spec /\ Fairness

-----------------------------------------------------------------------------
(* Properties.                                                             *)

Made(c) == conn[c] # None
Elements(s) == {s[i] : i \in DOMAIN s}

\* Every response on its way to the client finds its RequestDescribe, also
\* when it overtakes the caller's return from Send and when the call was made
\* inside a callback: only a response without identifier is unknown.
AnswersMatched ==
    \A n \in Conns : \A r \in Elements(answers[n]) :
        r.id # None => r.id \in requests /\ conn[r.id] = n

\* No caller is forgotten: a call leaves _requests only with its answer.
ForgottenOnlyAnswered ==
    \A c \in Calls : Made(c) /\ c \notin requests => outcome[c] # <<>>

InTransit(c) ==
    \/ \E a \in Actors : stage[a] = "send" /\ making[a] = c
    \/ \E n \in Conns :
        \/ c \in Elements(queued[n]) \cup Elements(wire[n])
        \/ \E r \in Elements(answers[n]) : r.id = c
        \/ handling[n] = c

\* _requests does not leak while a connection lives: every entry's request or
\* response is on its way or being handled, or the connection is closed or
\* about to be.
PendingInTransit ==
    \A c \in requests :
        InTransit(c) \/ ~open[conn[c]] \/ shutting[conn[c]]

RequestsExact == TypeInv /\ ForgottenOnlyAnswered /\ PendingInTransit

\* The client shuts a connection down only over a request the server refused
\* or a result it may not accept, never over a response it cannot place.
ShutdownForCause ==
    \A n \in Conns : shutting[n] =>
        \E c \in Calls : conn[c] = n /\ (c \in IllFormed \/ executed[c] = <<"null">>)

\* A call is answered "not found" only while RegisterService has not returned,
\* though the server may be announced, started and called before: what it
\* registers before Start is found by every call, whatever the registry said.
NotFoundForCause ==
    [][\A c \in Calls :
        "missing" \in Elements(executed'[c]) \ Elements(executed[c])
            => service # "done"]_vars

\* Calls that are executed and completed at most once, with their own answer.
Promise == INSTANCE AtMostOnceCall
    WITH called <- {c \in Calls : Made(c)}

ImplementsAtMostOnce == Promise!CallSpec

\* A loop thread that will never run again: its callback waits for a call on
\* a connection that is closed or whose loop is stuck as well, itself included.
Stuck(n) ==
    \E S \in SUBSET Conns :
        /\ n \in S
        /\ \A m \in S :
            /\ stage[m] = "wait" /\ outcome[making[m]] = <<>>
            /\ conn[making[m]] \in S \/ ~open[conn[making[m]]]

\* The two reasons for which a call may never be answered.
Cut(c) == Made(c) /\ (~open[conn[c]] \/ Stuck(conn[c]))

\* A call that was made is eventually answered, unless its connection closes
\* or the loop thread it needs is stuck in a synchronous call of a callback.
AnsweredOrCut ==
    \A c \in Calls : Made(c) ~> (outcome[c] # <<>> \/ Cut(c))
=============================================================================

----------------------------- MODULE ClientPool -----------------------------
(***************************************************************************)
(* RpcClient with a registry (client/rpc_client.hpp): a pool of TcpClients,*)
(* one per host, shared by user threads, by callbacks that make calls      *)
(* themselves, and by the discovery client's loop thread, which takes a    *)
(* host out when it goes offline.  A TcpClient has a loop thread of its    *)
(* own; whoever drops the last reference to it stops that thread and joins *)
(* it.                                                                     *)
(*                                                                         *)
(* The discovery client's loop thread holds the Discoverer's mutex while   *)
(* it handles a notice and RpcClient's mutex while it erases a client, the *)
(* join included.  Which host a method is found at is left open.           *)
(*                                                                         *)
(* A definition X_Y beside X is X with a plausible bug: README.md says     *)
(* which property notices it.                                              *)
(***************************************************************************)
EXTENDS Naturals, FiniteSets

CONSTANTS Threads,        \* user threads
          Hosts,
          Clients,        \* TcpClient objects, and their loop threads
          NoClient,
          UserModes,      \* how user threads call
          CallbackModes,  \* how callbacks call; none: callbacks make no calls
          MaxCalls        \* bound: calls

ASSUME PoolAssumption ==
    /\ Threads \cap Clients = {}
    /\ NoClient \notin Clients
    /\ UserModes \cup CallbackModes \subseteq {"sync", "async", "callback"}
    /\ MaxCalls \in Nat

Actors == Threads \cup Clients

VARIABLES pool,         \* _rpc_clients
          address,      \* the host each TcpClient was made for
          life,         \* of each TcpClient's loop thread
          linked,       \* its connection is established
          at,           \* where each thread is in Call
          discovery,    \* where the discovery client's loop thread is
          outstanding,  \* calls sent and not answered
          started,      \* calls so far (bound)
          crashed,      \* a thread has joined itself: std::terminate
          nested,       \* a callback has made a call (history)
          raced,        \* clients AddClient did not enter (history)
          dropped       \* clients taken out for an offline host (history)

vars == <<pool, address, life, linked, at, discovery, outstanding, started,
          crashed, nested, raced, dropped>>

\* Outside Call, or in a callback.
Base(a) == [step |-> IF a \in Threads THEN "idle" ELSE "callback"]
Reading == [step |-> "loop"]
Quiet == [step |-> "quiet"]

Init ==
    /\ pool = [h \in Hosts |-> NoClient]
    /\ address = [k \in Clients |-> {}]
    /\ life = [k \in Clients |-> "none"]
    /\ linked = [k \in Clients |-> FALSE]
    /\ at = [a \in Actors |-> IF a \in Threads THEN Base(a) ELSE Reading]
    /\ discovery = Quiet
    /\ outstanding = {}
    /\ started = 0
    /\ crashed = FALSE
    /\ nested = FALSE
    /\ raced = {}
    /\ dropped = {}

-----------------------------------------------------------------------------
\* RpcClient's mutex is held for longer than a step.
PoolLocked == discovery.step = "join"

\* Whether nobody but the actor a refers to k.
Holders(k) == {a \in Actors : "client" \in DOMAIN at[a] /\ at[a].client = k}
Pooled_Weak(k) == FALSE
Pooled(k) == \E h \in Hosts : pool[h] = k
LastReference(a, k) == Holders(k) \subseteq {a} /\ ~Pooled(k)

\* Call begins.
Call(a) ==
    /\ at[a] = Base(a)
    /\ a \in Clients => CallbackModes # {}
    /\ started < MaxCalls
    /\ started' = started + 1
    /\ nested' = (nested \/ a \in Clients)
    /\ at' = [at EXCEPT ![a] = [step |-> "discover"]]
    /\ UNCHANGED <<pool, address, life, linked, discovery, outstanding,
                   crashed, raced, dropped>>

\* ServiceDiscover takes the Discoverer's mutex, and the discovery client's
\* loop thread to answer when the host is not in the cache.  Call returns when
\* it finds none.
ServiceDiscover(a) ==
    /\ at[a].step = "discover"
    /\ discovery = Quiet
    /\ \E found \in {Base(a)} \cup [step : {"find"}, host : Hosts] :
        at' = [at EXCEPT ![a] = found]
    /\ UNCHANGED <<pool, address, life, linked, discovery, outstanding, started,
                   crashed, raced, dropped, nested>>

GetClient(a) ==
    LET h == at[a].host IN
    /\ at[a].step = "find"
    /\ ~PoolLocked
    /\ at' = [at EXCEPT ![a] =
                 IF pool[h] = NoClient THEN [step |-> "create", host |-> h]
                 ELSE [step |-> "send", client |-> pool[h]]]
    /\ UNCHANGED <<pool, address, life, linked, discovery, outstanding, started,
                   crashed, raced, dropped, nested>>

\* NewClient: what Connect returns is ignored.
NewClient(a) ==
    LET h == at[a].host IN
    /\ at[a].step = "create"
    /\ \E k \in Clients :
        /\ life[k] = "none"
        /\ life' = [life EXCEPT ![k] = "running"]
        /\ address' = [address EXCEPT ![k] = {h}]
        /\ at' = [at EXCEPT ![a] = [step |-> "add", host |-> h, client |-> k]]
        /\ \E ret \in BOOLEAN : linked' = [linked EXCEPT ![k] = ret]
    /\ UNCHANGED <<pool, discovery, outstanding, started, crashed, raced, dropped, nested>>

\* What AddClient leaves in the pool: insert keeps a client that is there.
Added_None(h, k) == pool
Added(h, k) == IF pool[h] = NoClient THEN [pool EXCEPT ![h] = k] ELSE pool

AddClient(a) ==
    LET h == at[a].host
        k == at[a].client
    IN
    /\ at[a].step = "add"
    /\ ~PoolLocked
    /\ pool' = Added(h, k)
    /\ raced' = IF pool[h] = NoClient THEN raced ELSE raced \cup {k}
    /\ at' = [at EXCEPT ![a] = [step |-> "send", client |-> k]]
    /\ UNCHANGED <<address, life, linked, discovery, outstanding, started,
                   crashed, dropped, nested>>

\* RpcCaller::Call on the client's connection, which may have other calls of the
\* same caller to answer: how many calls have begun tells them apart.
Send(a) ==
    LET k == at[a].client IN
    /\ at[a].step = "send"
    /\ \E mode \in IF a \in Threads THEN UserModes ELSE CallbackModes :
        LET c == [by |-> a, client |-> k, mode |-> mode, no |-> started] IN
        /\ outstanding' = outstanding \cup {c}
        /\ at' = [at EXCEPT ![a] = [step |-> IF mode = "sync" THEN "wait" ELSE "leave",
                                    client |-> k]]
    /\ UNCHANGED <<pool, address, life, linked, discovery, started, crashed,
                   raced, dropped, nested>>

\* A synchronous call has been answered.
Return(a) ==
    /\ at[a].step = "wait"
    /\ ~\E c \in outstanding : c.by = a /\ c.mode = "sync"
    /\ at' = [at EXCEPT ![a].step = "leave"]
    /\ UNCHANGED <<pool, address, life, linked, discovery, outstanding, started,
                   crashed, raced, dropped, nested>>

\* Call returns and drops its reference: the last one ends the client's loop
\* thread, which must not be the thread that drops it.
Leave(a) ==
    LET k == at[a].client IN
    /\ at[a].step = "leave"
    /\ IF ~LastReference(a, k)
       THEN /\ at' = [at EXCEPT ![a] = Base(a)]
            /\ UNCHANGED <<life, crashed>>
       ELSE IF a = k
       THEN /\ crashed' = TRUE
            /\ UNCHANGED <<life, at>>
       ELSE /\ life' = [life EXCEPT ![k] = "stopping"]
            /\ at' = [at EXCEPT ![a].step = "join"]
            /\ UNCHANGED crashed
    /\ UNCHANGED <<pool, address, linked, discovery, outstanding, started,
                   raced, dropped, nested>>

\* LoopThread::Stop returns once the loop thread is out of its callbacks.
Joined(a) ==
    LET k == at[a].client IN
    /\ at[a].step = "join"
    /\ at[k] = Reading
    /\ life' = [life EXCEPT ![k] = "gone"]
    /\ at' = [at EXCEPT ![a] = Base(a)]
    /\ UNCHANGED <<pool, address, linked, discovery, outstanding, started,
                   crashed, raced, dropped, nested>>

-----------------------------------------------------------------------------
(* The clients' loop threads.                                              *)

\* A response arrives and is delivered.
OnResponse(k) ==
    /\ life[k] \in {"running", "stopping"}
    /\ linked[k]
    /\ at[k] = Reading
    /\ \E c \in outstanding :
        /\ c.client = k
        /\ outstanding' = outstanding \ {c}
        /\ at' = IF c.mode = "callback" THEN [at EXCEPT ![k] = Base(k)] ELSE at
    /\ UNCHANGED <<pool, address, life, linked, discovery, started, crashed,
                   raced, dropped, nested>>

CallbackReturns(k) ==
    /\ k \in Clients
    /\ at[k] = Base(k)
    /\ at' = [at EXCEPT ![k] = Reading]
    /\ UNCHANGED <<pool, address, life, linked, discovery, outstanding, started,
                   crashed, raced, dropped, nested>>

\* The connection is closed; nobody takes its client out of the pool.
Disconnect(k) ==
    /\ linked[k]
    /\ at[k] = Reading
    /\ linked' = [linked EXCEPT ![k] = FALSE]
    /\ UNCHANGED <<pool, address, life, at, discovery, outstanding, started,
                   crashed, raced, dropped, nested>>

-----------------------------------------------------------------------------
(* The discovery client's loop thread: Discoverer::OnServiceRequest.       *)

Offline ==
    /\ discovery = Quiet
    /\ \E h \in Hosts : discovery' = [step |-> "remove", host |-> h]
    /\ UNCHANGED <<pool, address, life, linked, at, outstanding, started,
                   crashed, raced, dropped, nested>>

\* RemoveClient: the client the pool was the last to hold ends here, under
\* both mutexes.
RemoveClient ==
    LET k == pool[discovery.host] IN
    /\ discovery.step = "remove"
    /\ pool' = [pool EXCEPT ![discovery.host] = NoClient]
    /\ dropped' = IF k = NoClient THEN dropped ELSE dropped \cup {k}
    /\ IF k # NoClient /\ Holders(k) = {}
       THEN /\ life' = [life EXCEPT ![k] = "stopping"]
            /\ discovery' = [step |-> "join", client |-> k]
       ELSE /\ discovery' = Quiet
            /\ UNCHANGED life
    /\ UNCHANGED <<address, linked, at, outstanding, started, crashed, raced, nested>>

ClientJoined ==
    /\ discovery.step = "join"
    /\ at[discovery.client] = Reading
    /\ life' = [life EXCEPT ![discovery.client] = "gone"]
    /\ discovery' = Quiet
    /\ UNCHANGED <<pool, address, linked, at, outstanding, started, crashed,
                   raced, dropped, nested>>

-----------------------------------------------------------------------------
\* A call once it has begun.
CallStep(a) ==
    \/ ServiceDiscover(a)
    \/ GetClient(a)
    \/ NewClient(a)
    \/ AddClient(a)
    \/ Send(a)
    \/ Return(a)
    \/ Leave(a)
    \/ Joined(a)

Next ==
    /\ ~crashed
    /\ \/ \E a \in Actors : Call(a) \/ CallStep(a)
       \/ \E k \in Clients : OnResponse(k) \/ CallbackReturns(k) \/ Disconnect(k)
       \/ Offline
       \/ RemoveClient
       \/ ClientJoined

Spec == Init /\ [][Next]_vars

\* Threads are scheduled and get the mutexes they wait for in the end, servers
\* answer on connections that stay open, callbacks that make no call return.
Fairness ==
    /\ \A a \in Actors : SF_vars(~crashed /\ CallStep(a))
    /\ \A k \in Clients :
        /\ WF_vars(~crashed /\ OnResponse(k))
        /\ WF_vars(~crashed /\ CallbackReturns(k))
    /\ WF_vars(~crashed /\ RemoveClient)
    /\ WF_vars(~crashed /\ ClientJoined)

FairSpec == Spec /\ Fairness

-----------------------------------------------------------------------------
(* Properties.                                                             *)

TypeOK ==
    /\ pool \in [Hosts -> Clients \cup {NoClient}]
    /\ address \in [Clients -> SUBSET Hosts]
    /\ life \in [Clients -> {"none", "running", "stopping", "gone"}]
    /\ linked \in [Clients -> BOOLEAN]
    /\ \A a \in Actors : at[a].step \in {"idle", "loop", "callback", "discover",
                              "find", "create", "add", "send", "wait", "leave", "join"}
    /\ discovery.step \in {"quiet", "remove", "join"}
    /\ started \in 0..MaxCalls
    /\ raced \subseteq Clients /\ dropped \subseteq Clients

\* A client that is in the pool or that a call uses has a running loop thread
\* and is the one of its host, and one thread at most ends it.
PoolInv ==
    /\ TypeOK
    /\ \A h \in Hosts : pool[h] # NoClient =>
        life[pool[h]] = "running" /\ address[pool[h]] = {h}
    /\ \A a \in Actors, k \in Clients :
        a \in Holders(k) =>
            IF at[a].step = "join" THEN life[k] = "stopping" /\ Holders(k) = {a}
            ELSE life[k] = "running"

\* A call that has been sent keeps a loop thread that can answer it, unless
\* its client lost the race for the pool or was taken out when the registry
\* called its host offline: then the answer of an asynchronous call is lost.
\* A synchronous call holds its client and never loses it.
CallsServed ==
    \A c \in outstanding :
        \/ life[c.client] = "running"
        \/ c.mode # "sync" /\ c.client \in raced \cup dropped

\* A user's call returns unless a callback has made a call too: the mutexes
\* held across a join delay it but never for good.  A synchronous call on a
\* connection that is not open waits for ever.
Unanswerable(t) == at[t].step = "wait" /\ ~linked[at[t].client]
CallsReturn ==
    \A t \in Threads :
        at[t] # Base(t) ~> (at[t] = Base(t) \/ Unanswerable(t) \/ nested)
=============================================================================

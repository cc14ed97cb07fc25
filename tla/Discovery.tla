------------------------------ MODULE Discovery ------------------------------
(***************************************************************************)
(* A discovering client (client/rpc_registry.hpp, Discoverer) and the      *)
(* registry server together.  The client keeps, per method, the hosts it   *)
(* knows; its loop thread applies the server's notices to them and hands   *)
(* answers to the callers' promises, the callers store an answer later, in *)
(* threads of their own.                                                   *)
(*                                                                         *)
(* A method's MethodHost is abstracted to how often it lists each host: an *)
(* empty list and a method that is not in the map behave alike, and which  *)
(* host GetHost's round robin picks is left open.                          *)
(*                                                                         *)
(* A definition X_Y beside X is X with a plausible bug: README.md says     *)
(* which property notices it.                                              *)
(***************************************************************************)
EXTENDS Registry

CONSTANTS Client,   \* the connection of the client modelled
          Callers,  \* its user threads
          NoHost    \* the default Address

\* A DiscoverClient has a connection of its own, over which nothing registers.
ASSUME DiscoveryAssumption ==
    /\ Client \in Discoverers
    /\ Client \notin Providers
    /\ NoHost \notin Providers

VARIABLES cache,     \* _method_hosts
          caller,    \* where each user thread is in ServiceDiscover
          requests,  \* discover requests on their way to the server
          serving,   \* the caller whose request the server is handling
          inbox,     \* messages on their way to the client
          outrun     \* methods a message about which was applied while a
                     \* caller held an answer not stored yet (history)

clientVars == <<cache, caller, requests, serving, inbox, outrun>>
allVars == <<vars, clientVars>>

NoHosts == [p \in Providers |-> 0]
Listed(hosts) == {p \in Providers : hosts[p] > 0}

Away == [step |-> "away"]

DiscoveryInit ==
    /\ Init
    /\ cache = [m \in Methods |-> NoHosts]
    /\ caller = [u \in Callers |-> Away]
    /\ requests = <<>>
    /\ serving = {}
    /\ inbox = <<>>
    /\ outrun = {}

-----------------------------------------------------------------------------
(* ServiceDiscover, in a user thread.                                      *)

\* The cached list is consulted under the mutex; a host it holds is returned.
FindCached(u, m) ==
    /\ caller[u] = Away
    /\ Listed(cache[m]) # {}
    /\ \E p \in Listed(cache[m]) :
        caller' = [caller EXCEPT ![u] = [step |-> "found", method |-> m, host |-> p]]
    /\ UNCHANGED <<vars, cache, requests, serving, inbox, outrun>>

\* Nothing cached: the server is asked, and the caller waits for its answer.
Ask(u, m) ==
    /\ caller[u] = Away
    /\ Listed(cache[m]) = {}
    /\ asked[Client] + Len(requests) < MaxDiscovers
    /\ caller' = [caller EXCEPT ![u] = [step |-> "waiting", method |-> m]]
    /\ requests' = Append(requests, <<u, m>>)
    /\ UNCHANGED <<vars, cache, serving, inbox, outrun>>

\* What storing an answer leaves in the client's map.
Stored_Merged(m, hosts) == [p \in Providers |-> cache[m][p] + hosts[p]]
Stored(m, hosts) == hosts

\* The answer is stored in place of what the map holds by now.  A caller that
\* stored its own list before keeps that list as it is.
Store(u) ==
    LET m == caller[u].method
        hosts == Learned(NoHosts, caller[u].hosts)
    IN
    /\ caller[u].step = "answered"
    /\ caller[u].hosts # {}
    /\ cache' = [cache EXCEPT ![m] = Stored(m, hosts)]
    /\ caller' = [v \in Callers |->
                     IF v = u
                     THEN [step |-> "stored", method |-> m, told |-> caller[u].hosts]
                     ELSE IF caller[v].step = "stored" /\ caller[v].method = m
                     THEN [step |-> "kept", hosts |-> cache[m], told |-> caller[v].told]
                     ELSE caller[v]]
    /\ UNCHANGED <<vars, requests, serving, inbox, outrun>>

\* NOT_FOUND_SERVICE: ServiceDiscover returns false.
NotFound(u) ==
    /\ caller[u].step = "answered"
    /\ caller[u].hosts = {}
    /\ caller' = [caller EXCEPT ![u] = Away]
    /\ UNCHANGED <<vars, cache, requests, serving, inbox, outrun>>

\* GetHost after the mutex is released: the list may have lost its hosts.
Pick(u) ==
    LET hosts == IF caller[u].step = "kept" THEN caller[u].hosts
                 ELSE cache[caller[u].method]
        choices == IF Listed(hosts) = {} THEN {NoHost} ELSE Listed(hosts)
    IN
    /\ caller[u].step \in {"stored", "kept"}
    /\ \E h \in choices :
        caller' = [caller EXCEPT ![u] = [step |-> "picked", host |-> h,
                                         told |-> caller[u].told]]
    /\ UNCHANGED <<vars, cache, requests, serving, inbox, outrun>>

\* ServiceDiscover returns true.
ReturnHost(u) ==
    /\ caller[u].step \in {"found", "picked"}
    /\ caller' = [caller EXCEPT ![u] = Away]
    /\ UNCHANGED <<vars, cache, requests, serving, inbox, outrun>>

-----------------------------------------------------------------------------
(* The client's loop thread.                                               *)

AnswerHeld(m) ==
    \E u \in Callers : caller[u].step = "answered" /\ caller[u].method = m

\* The promise an answer fulfils, whatever its response code.
Answered_OnlyFound(x) ==
    IF x.hosts = {} THEN caller
    ELSE [caller EXCEPT ![x.to] = [step |-> "answered", method |-> x.method,
                                   hosts |-> x.hosts]]
Answered(x) ==
    [caller EXCEPT ![x.to] = [step |-> "answered", method |-> x.method,
                              hosts |-> x.hosts]]

\* Discoverer::OnServiceRequest for a notice, Requestor::OnResponse for an
\* answer.
OnMessage ==
    LET x == Head(inbox) IN
    /\ inbox # <<>>
    /\ inbox' = Tail(inbox)
    /\ outrun' = IF AnswerHeld(x.method) THEN outrun \cup {x.method} ELSE outrun
    /\ IF x.kind = "hosts"
       THEN /\ caller' = Answered(x)
            /\ UNCHANGED cache
       ELSE /\ cache' = [cache EXCEPT ![x.method] = Noted(@, x)]
            /\ UNCHANGED caller
    /\ UNCHANGED <<vars, requests, serving>>

-----------------------------------------------------------------------------
(* The server's steps, with the client's connection attached.              *)

ReceiveDiscover ==
    /\ requests # <<>>
    /\ AddDiscoverer(Client, Head(requests)[2])
    /\ serving' = {Head(requests)[1]}
    /\ requests' = Tail(requests)
    /\ UNCHANGED <<cache, caller, inbox, outrun>>

SendAnswer ==
    /\ DiscoverResponse(Client)
    /\ \E u \in serving :
        inbox' = Append(inbox, [kind |-> "hosts", method |-> at[Client].method,
                                hosts |-> at[Client].hosts, to |-> u])
    /\ serving' = {}
    /\ UNCHANGED <<cache, caller, requests, outrun>>

SendNotice ==
    /\ SendQueued(Client)
    /\ inbox' = Append(inbox, Head(pending[Client]))
    /\ UNCHANGED <<cache, caller, requests, serving, outrun>>

\* What c's handler sends next, and what of it goes out to the client at once,
\* ahead of the notices that wait: the two share a worker loop.
NoticeOf(c) ==
    [kind |-> at[c].step, host |-> c,
     method |-> IF at[c].step = "online" THEN at[c].method ELSE Head(at[c].rest)]
SentAtOnce(c) ==
    IF /\ at[c].step \in {"online", "offline"}
       /\ SameLoop(c, Client)
       /\ Client \in discoverers[NoticeOf(c).method] \ closed
    THEN <<NoticeOf(c)>> ELSE <<>>

\* The steps of the other connections, and what the client's own handlers do
\* besides sending.
OtherStep(c) ==
    /\ c # Client
    /\ Step(c)
    /\ inbox' = inbox \o SentAtOnce(c)
    /\ UNCHANGED <<cache, caller, requests, serving, outrun>>

ClientHandler ==
    /\ AppendWanted(Client) \/ GetHosts(Client) \/ RemoveDiscoverer(Client)
    /\ UNCHANGED clientVars

Disconnect == OnConnectionShutdown(Client) /\ UNCHANGED clientVars

CallerStep(u) ==
    \/ \E m \in Methods : FindCached(u, m)
    \/ Store(u)
    \/ NotFound(u)
    \/ Pick(u)
    \/ ReturnHost(u)

DiscoveryNext ==
    \/ \E u \in Callers : CallerStep(u) \/ \E m \in Methods : Ask(u, m)
    \/ OnMessage
    \/ ReceiveDiscover
    \/ SendAnswer
    \/ SendNotice
    \/ ClientHandler
    \/ Disconnect
    \/ \E c \in Conns : OtherStep(c)

DiscoverySpec == DiscoveryInit /\ [][DiscoveryNext]_allVars

-----------------------------------------------------------------------------
(* Properties.                                                             *)

Connected == Client \notin closed

\* End to end: with no request, notice or close under way, a client that asked
\* for a method lists a host exactly if the host is registered for it, unless
\* its request met the host's registration or close halfway, or a message
\* overtook its answer.
CacheExact ==
    \A m \in wanted[Client], p \in Providers :
        /\ Connected /\ inbox = <<>> /\ pending[Client] = <<>>
        /\ ~Handling(Client) /\ ~Handling(p)
        /\ ~AnswerHeld(m) /\ m \notin outrun
        /\ <<Client, p>> \notin overlapped
        => (cache[m][p] > 0 <=> p \in providers[m])

\* A caller that waits is answered, and once: its request is on its way, being
\* handled, or answered, and only one of these.  When the connection is lost it
\* waits for ever.
CallersServed ==
    \A u \in Callers : Connected =>
        Cardinality({i \in DOMAIN requests : requests[i][1] = u})
        + Cardinality(serving \cap {u})
        + Cardinality({i \in DOMAIN inbox : "to" \in DOMAIN inbox[i] /\ inbox[i].to = u})
            = IF caller[u].step = "waiting" THEN 1 ELSE 0

\* ServiceDiscover hands out the default address only when every host of the
\* answer it was given has closed in the meantime, whatever other callers and
\* notices did to the list between its unlock and GetHost.
NoHostOnlyIfGone ==
    \A u \in Callers :
        caller[u].step = "picked" /\ caller[u].host = NoHost =>
            caller[u].told \subseteq closed
=============================================================================

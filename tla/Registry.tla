------------------------------ MODULE Registry ------------------------------
(***************************************************************************)
(* The registry server: ProviderDiscovererManager over ProviderManager and *)
(* DiscovererManager (server/rpc_registry.hpp).  The requests and closes   *)
(* of one worker loop's connections are handled one after another, those   *)
(* of different loops concurrently; the handlers below step from one       *)
(* critical section to the next.                                           *)
(*                                                                         *)
(* A message sent in the receiving connection's own loop goes out at once, *)
(* one sent from another thread waits in pending until that                *)
(* connection's loop thread runs it.  view is what a discoverer knows who  *)
(* applies the messages as they are sent; it counts a method's hosts.      *)
(*                                                                         *)
(* A provider's connection stands for its host: RpcServer registers all    *)
(* its methods with one address.                                           *)
(*                                                                         *)
(* A definition X_Y beside X is X with a plausible bug: README.md says     *)
(* which property notices it.                                              *)
(***************************************************************************)
EXTENDS Naturals, Sequences, FiniteSets

CONSTANTS Providers,    \* connections whose client registers methods
          Discoverers,  \* connections whose client discovers methods
          Methods,
          Shared,       \* sets of connections that share a worker loop
          MaxRegisters, \* bound: register requests of one connection
          MaxDiscovers  \* bound: discover requests of one connection

ASSUME RegistryAssumption == MaxRegisters \in Nat /\ MaxDiscovers \in Nat

Conns == Providers \cup Discoverers

VARIABLES provConns,    \* ProviderManager::_conns
          methods,      \* Provider::_methods of each provider
          providers,    \* ProviderManager::_providers
          discConns,    \* DiscovererManager::_conns
          wanted,       \* Discoverer::_methods of each discoverer
          discoverers,  \* DiscovererManager::_discoverers
          at,           \* where each connection's handler is
          pending,      \* notices queued in each connection's loop
          view,         \* what was sent to each discoverer (history)
          closed,       \* connections that have been closed
          asked,        \* requests each connection has made (bound)
          overlapped    \* <<d, p>>: a discover request of d met a register or
                        \* close of p that was not through yet (history)

tables == <<provConns, methods, providers, discConns, wanted, discoverers>>
vars == <<provConns, methods, providers, discConns, wanted, discoverers, at,
          pending, view, closed, asked, overlapped>>

\* A handler's place: the next critical section, the method it is about, the
\* hosts read (DISCOVER) or the methods still to be retracted (close).
Idle == [step |-> "idle"]
Steps == {"idle", "append", "online", "appendWanted", "hosts", "answer",
          "offline", "removeProvider", "removeDiscoverer"}

Notice == [kind : {"online", "offline"}, method : Methods, host : Providers]

Init ==
    /\ provConns = {}
    /\ methods = [p \in Conns |-> <<>>]
    /\ providers = [m \in Methods |-> {}]
    /\ discConns = {}
    /\ wanted = [d \in Conns |-> {}]
    /\ discoverers = [m \in Methods |-> {}]
    /\ at = [c \in Conns |-> Idle]
    /\ pending = [c \in Conns |-> <<>>]
    /\ view = [d \in Conns |-> [m \in Methods |-> [p \in Providers |-> 0]]]
    /\ closed = {}
    /\ asked = [c \in Conns |-> 0]
    /\ overlapped = {}

-----------------------------------------------------------------------------
SameLoop(c, d) == c = d \/ \E loop \in Shared : {c, d} \subseteq loop
LoopFree(c) == \A d \in Conns : SameLoop(c, d) => at[d] = Idle

(* Sending.                                                                *)

\* What a discoverer's client makes of a notice and of a list of hosts; the
\* answer NOT_FOUND_SERVICE, for no hosts, leaves it as it is.
Noted_Clears(hosts, x) ==
    IF x.kind = "online" THEN [hosts EXCEPT ![x.host] = @ + 1]
    ELSE [p \in Providers |-> 0]
Noted(hosts, x) ==
    IF x.kind = "online" THEN [hosts EXCEPT ![x.host] = @ + 1]
    ELSE [hosts EXCEPT ![x.host] = IF @ = 0 THEN 0 ELSE @ - 1]

Learned(hosts, found) ==
    IF found = {} THEN hosts
    ELSE [p \in Providers |-> IF p \in found THEN 1 ELSE 0]

\* c's handler sends x to the discoverers ds: at once to those in its loop,
\* queued to the others, not at all to a connection that is closed.
Notify(c, ds, x) ==
    LET told == {d \in ds \ closed : SameLoop(c, d)}
        later == {d \in ds \ closed : ~SameLoop(c, d)}
    IN
    /\ pending' = [d \in Conns |-> IF d \in later THEN Append(pending[d], x)
                                   ELSE pending[d]]
    /\ view' = [d \in Conns |->
                   IF d \in told THEN [view[d] EXCEPT ![x.method] = Noted(@, x)]
                   ELSE view[d]]

\* The loop thread of d sends the next queued notice.
SendQueued(d) ==
    LET x == Head(pending[d]) IN
    /\ LoopFree(d)
    /\ d \notin closed
    /\ pending[d] # <<>>
    /\ pending' = [pending EXCEPT ![d] = Tail(@)]
    /\ view' = [view EXCEPT ![d][x.method] = Noted(@, x)]
    /\ UNCHANGED <<tables, at, closed, asked, overlapped>>

-----------------------------------------------------------------------------
(* Which discoveries meet which registrations and closes.                  *)

Discovering(d) == at[d].step \in {"appendWanted", "hosts", "answer"}
Changing(p) == at[p].step \in {"append", "online", "offline", "removeProvider"}

NoticePending(d, p) == \E i \in DOMAIN pending[d] : pending[d][i].host = p

MeetsDiscoveries(p) ==
    overlapped' = overlapped \cup {<<d, p>> : d \in {e \in Conns : Discovering(e)}}

MeetsChanges(d) ==
    overlapped' = overlapped \cup
        {<<d, p>> : p \in {q \in Providers : Changing(q) \/ NoticePending(d, q)}}

-----------------------------------------------------------------------------
(* OnServiceRequest, SERVICE_REGISTER.                                     *)

MayAsk(c) == c \notin closed /\ LoopFree(c)

\* ProviderManager::AddProvider under its mutex.
AddProvider(p, m) ==
    /\ p \in Providers
    /\ MayAsk(p)
    /\ asked[p] < MaxRegisters
    /\ asked' = [asked EXCEPT ![p] = @ + 1]
    /\ provConns' = provConns \cup {p}
    /\ providers' = [providers EXCEPT ![m] = @ \cup {p}]
    /\ at' = [at EXCEPT ![p] = [step |-> "append", method |-> m]]
    /\ MeetsDiscoveries(p)
    /\ UNCHANGED <<methods, discConns, wanted, discoverers, pending, view, closed>>

\* What AddProvider leaves in the provider's list of methods, after the unlock.
Appended_Lost(p) == methods[p]
Appended(p) == Append(methods[p], at[p].method)

AppendMethod(p) ==
    /\ at[p].step = "append"
    /\ methods' = [methods EXCEPT ![p] = Appended(p)]
    /\ at' = [at EXCEPT ![p].step = "online"]
    /\ UNCHANGED <<provConns, providers, discConns, wanted, discoverers,
                   pending, view, closed, asked, overlapped>>

\* OnlineNotify under the discoverers' mutex; RegisterResponse follows.
OnlineNotify(p) ==
    LET m == at[p].method IN
    /\ at[p].step = "online"
    /\ Notify(p, discoverers[m], [kind |-> "online", method |-> m, host |-> p])
    /\ at' = [at EXCEPT ![p] = Idle]
    /\ UNCHANGED <<tables, closed, asked, overlapped>>

-----------------------------------------------------------------------------
(* OnServiceRequest, SERVICE_DISCOVER.                                     *)

\* What AddDiscoverer leaves in _discoverers: the discoverer is entered before
\* the hosts are read.
Entered_NotYet(d, m) == discoverers
Entered(d, m) == [discoverers EXCEPT ![m] = @ \cup {d}]

AddDiscoverer(d, m) ==
    /\ d \in Discoverers
    /\ MayAsk(d)
    /\ asked[d] < MaxDiscovers
    /\ asked' = [asked EXCEPT ![d] = @ + 1]
    /\ discConns' = discConns \cup {d}
    /\ discoverers' = Entered(d, m)
    /\ at' = [at EXCEPT ![d] = [step |-> "appendWanted", method |-> m]]
    /\ MeetsChanges(d)
    /\ UNCHANGED <<provConns, methods, providers, wanted, pending, view, closed>>

AppendWanted(d) ==
    /\ at[d].step = "appendWanted"
    /\ wanted' = [wanted EXCEPT ![d] = @ \cup {at[d].method}]
    /\ at' = [at EXCEPT ![d].step = "hosts"]
    /\ UNCHANGED <<provConns, methods, providers, discConns, discoverers,
                   pending, view, closed, asked, overlapped>>

\* GetHosts under the providers' mutex.
GetHosts(d) ==
    LET m == at[d].method IN
    /\ at[d].step = "hosts"
    /\ at' = [at EXCEPT ![d] = [step |-> "answer", method |-> m,
                                hosts |-> providers[m]]]
    /\ UNCHANGED <<tables, pending, view, closed, asked, overlapped>>

\* DiscoverResponse, sent in d's own thread: ahead of the notices that wait.
DiscoverResponse(d) ==
    LET m == at[d].method IN
    /\ at[d].step = "answer"
    /\ view' = [view EXCEPT ![d][m] = Learned(@, at[d].hosts)]
    /\ at' = [at EXCEPT ![d] = Idle]
    /\ UNCHANGED <<tables, pending, closed, asked, overlapped>>

-----------------------------------------------------------------------------
(* OnConnectionShutdown.                                                   *)

\* Where the handler of a close goes on when it has methods ms to retract.
Retracting_None(ms) == [step |-> "removeProvider"]
Retracting(ms) ==
    IF ms = <<>> THEN [step |-> "removeProvider"]
    ELSE [step |-> "offline", rest |-> ms]

\* GetProvider: a connection that registered nothing has nothing to retract.
OnConnectionShutdown(c) ==
    /\ c \notin closed
    /\ LoopFree(c)
    /\ closed' = closed \cup {c}
    /\ pending' = [pending EXCEPT ![c] = <<>>]
    /\ at' = [at EXCEPT ![c] =
                 IF c \in provConns THEN Retracting(methods[c])
                 ELSE [step |-> "removeDiscoverer"]]
    /\ MeetsDiscoveries(c)
    /\ UNCHANGED <<tables, view, asked>>

\* One round of the loop over the provider's methods.
OfflineNotify(p) ==
    LET m == Head(at[p].rest) IN
    /\ at[p].step = "offline"
    /\ Notify(p, discoverers[m], [kind |-> "offline", method |-> m, host |-> p])
    /\ at' = [at EXCEPT ![p] = Retracting(Tail(at[p].rest))]
    /\ UNCHANGED <<tables, closed, asked, overlapped>>

RemoveProvider(p) ==
    /\ at[p].step = "removeProvider"
    /\ providers' = [m \in Methods |->
                        IF \E i \in DOMAIN methods[p] : methods[p][i] = m
                        THEN providers[m] \ {p} ELSE providers[m]]
    /\ provConns' = provConns \ {p}
    /\ at' = [at EXCEPT ![p] = [step |-> "removeDiscoverer"]]
    /\ UNCHANGED <<methods, discConns, wanted, discoverers, pending, view,
                   closed, asked, overlapped>>

RemoveDiscoverer(c) ==
    /\ at[c].step = "removeDiscoverer"
    /\ discoverers' = [m \in Methods |->
                          IF c \in discConns /\ m \in wanted[c]
                          THEN discoverers[m] \ {c} ELSE discoverers[m]]
    /\ discConns' = discConns \ {c}
    /\ at' = [at EXCEPT ![c] = Idle]
    /\ UNCHANGED <<provConns, methods, providers, wanted, pending, view,
                   closed, asked, overlapped>>

-----------------------------------------------------------------------------
\* The rest of a handler, once its request or close has arrived.
HandlerStep(c) ==
    \/ AppendMethod(c)
    \/ OnlineNotify(c)
    \/ AppendWanted(c)
    \/ GetHosts(c)
    \/ DiscoverResponse(c)
    \/ OfflineNotify(c)
    \/ RemoveProvider(c)
    \/ RemoveDiscoverer(c)

Request(c) ==
    \/ \E m \in Methods : AddProvider(c, m) \/ AddDiscoverer(c, m)
    \/ OnConnectionShutdown(c)

Step(c) == Request(c) \/ HandlerStep(c) \/ SendQueued(c)

Next == \E c \in Conns : Step(c)

Spec == Init /\ [][Next]_vars

\* Loop threads are scheduled; nobody has to ask or to close.
Fairness == \A c \in Conns : WF_vars(HandlerStep(c)) /\ WF_vars(SendQueued(c))

FairSpec == Spec /\ Fairness

-----------------------------------------------------------------------------
(* Properties.                                                             *)

Handling(c) == at[c] # Idle
Registering(p, m) == at[p].step \in {"append", "online"} /\ at[p].method = m

\* How often p's notices of one kind about m wait in d's loop, how often p
\* registered m.
Waiting(d, m, p, kind) ==
    Cardinality({i \in DOMAIN pending[d] :
        pending[d][i] = [kind |-> kind, method |-> m, host |-> p]})
Registrations(p, m) == Cardinality({i \in DOMAIN methods[p] : methods[p][i] = m})

TypeOK ==
    /\ provConns \subseteq Providers
    /\ methods \in [Conns -> Seq(Methods)]
    /\ providers \in [Methods -> SUBSET Providers]
    /\ discConns \subseteq Discoverers
    /\ wanted \in [Conns -> SUBSET Methods]
    /\ discoverers \in [Methods -> SUBSET Discoverers]
    /\ \A c \in Conns : at[c].step \in Steps
    /\ pending \in [Conns -> Seq(Notice)]
    /\ view \in [Conns -> [Methods -> [Providers -> Nat]]]
    /\ closed \subseteq Conns
    /\ asked \in [Conns -> Nat]
    /\ overlapped \subseteq Conns \X Conns

\* The two tables of each manager agree, and so do the lists of methods that
\* the close will go by: whoever is found under a method is a known connection
\* that is about to list, or lists, that method.
TablesAgree ==
    \A m \in Methods :
        /\ \A p \in providers[m] :
            /\ p \in provConns
            /\ \/ Registrations(p, m) > 0
               \/ at[p].step = "append" /\ at[p].method = m
        /\ \A d \in discoverers[m] :
            /\ d \in discConns
            /\ \/ m \in wanted[d]
               \/ at[d].step = "appendWanted" /\ at[d].method = m

\* Once the close of a connection has been handled no table names it: nobody
\* is referred to its host by a later answer, and nothing is sent to it.
ForgottenAfterClose ==
    \A c \in closed : ~Handling(c) =>
        /\ c \notin provConns \cup discConns
        /\ \A m \in Methods : c \notin providers[m] \cup discoverers[m]

TablesInv == TypeOK /\ TablesAgree /\ ForgottenAfterClose

\* A discoverer misses no provider, however its request and the registration
\* interleave: when neither is being handled, it has been sent the host or
\* the notice waits in its loop.
ViewComplete ==
    \A m \in Methods :
        \A d \in Discoverers \ closed, p \in providers[m] \ closed :
            m \in wanted[d] /\ ~Handling(d) /\ ~Registering(p, m) =>
                view[d][m][p] + Waiting(d, m, p, "online") > 0

\* A discoverer is told of a host no more often than it registered, and is
\* told to forget a closed one as often as it was told of it, unless one of
\* its discover requests met the registration or the close halfway.
ViewBalanced ==
    \A m \in Methods, d \in Discoverers \ closed, p \in Providers :
        ~Handling(d) /\ ~Handling(p) /\ <<d, p>> \notin overlapped =>
            view[d][m][p] + Waiting(d, m, p, "online") <=
                IF p \in closed THEN Waiting(d, m, p, "offline")
                ELSE Registrations(p, m)

\* A registration reaches everybody who ever asked for the method, unless one of the
\* two closes first.
RegistrationReaches ==
    \A m \in Methods, d \in Discoverers, p \in Providers :
        (m \in wanted[d] /\ p \in providers[m]) ~>
            (view[d][m][p] > 0 \/ d \in closed \/ p \in closed)
=============================================================================

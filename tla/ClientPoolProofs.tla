--------------------------- MODULE ClientPoolProofs ---------------------------
(***************************************************************************)
(* Proofs about ClientPool, for any number of threads, hosts and clients,  *)
(* whichever of them callbacks may call: no client is used or pooled after *)
(* its loop thread was told to stop, and no call loses the thread that can *)
(* answer it but for the two reasons CallsServed names.                    *)
(***************************************************************************)
EXTENDS ClientPool, TLAPS

-----------------------------------------------------------------------------
(* The inductive invariant.                                                *)

\* Where an actor may be, with what it refers to there.
Resting == [step : {"idle", "loop", "callback", "discover"}]
Finding == [step : {"find", "create"}, host : Hosts]
Adding == [step : {"add"}, host : Hosts, client : Clients]
Using == [step : {"send", "wait", "leave", "join"}, client : Clients]
Places == Resting \cup Finding \cup Adding \cup Using

OutstandingCalls ==
    [by : Actors, client : Clients, mode : {"sync", "async", "callback"}, no : Nat]

PlacesOK ==
    /\ at \in [Actors -> Places]
    /\ discovery \in [step : {"quiet"}] \cup [step : {"remove"}, host : Hosts]
                        \cup [step : {"join"}, client : Clients]
    /\ outstanding \subseteq OutstandingCalls

\* A client that is about to be entered is the one of its host, and the client
\* the discovery client's thread joins is nobody else's.
OwnedInv ==
    /\ \A a \in Actors : at[a].step = "add" => address[at[a].client] = {at[a].host}
    /\ discovery.step = "join" =>
        life[discovery.client] = "stopping" /\ Holders(discovery.client) = {}

\* A client that was made is on its way into the pool, in it, lost the race
\* for it or was taken out.
EnteredInv ==
    \A k \in Clients : life[k] # "none" =>
        \/ Pooled(k)
        \/ k \in raced \cup dropped
        \/ \E a \in Actors : at[a].step = "add" /\ at[a].client = k

\* Whoever made a synchronous call that is not answered waits for it.
WaitInv ==
    \A c \in outstanding : c.mode = "sync" =>
        at[c.by].step = "wait" /\ at[c.by].client = c.client

IInv == PoolInv /\ PlacesOK /\ OwnedInv /\ EnteredInv /\ WaitInv /\ CallsServed

-----------------------------------------------------------------------------
(* What a place says.                                                      *)

\* The fields of a place follow from its step.
LEMMA PlaceFields ==
    ASSUME NEW x \in Places
    PROVE  /\ "client" \in DOMAIN x <=> x.step \in {"add", "send", "wait", "leave", "join"}
           /\ "client" \in DOMAIN x => x.client \in Clients
           /\ x.step \in {"find", "create", "add"} => x.host \in Hosts
<1>1. CASE x \in Resting BY <1>1 DEF Resting
<1>2. CASE x \in Finding BY <1>2 DEF Finding
<1>3. CASE x \in Adding BY <1>3 DEF Adding
<1>4. CASE x \in Using BY <1>4 DEF Using
<1> QED BY <1>1, <1>2, <1>3, <1>4 DEF Places

\* Who holds a client, in terms of steps alone.
Holds(a, k) ==
    at[a].step \in {"add", "send", "wait", "leave", "join"} /\ at[a].client = k

LEMMA HoldersHold ==
    PlacesOK => \A k \in Clients, a \in Actors : a \in Holders(k) <=> Holds(a, k)
BY PlaceFields DEF PlacesOK, Holders, Holds

-----------------------------------------------------------------------------
(* The parts of the invariant, one step per action.                        *)

LEMMA InitIInv == Init => IInv
<1> SUFFICES ASSUME Init PROVE IInv
  OBVIOUS
<1>1. PlacesOK
  BY DEF Init, PlacesOK, Places, Resting, Base, Reading, Quiet
<1>2. \A k \in Clients : Holders(k) = {}
  BY <1>1, HoldersHold DEF Init, Holders, Holds, Base, Reading
<1>3. PoolInv
  BY <1>2, PoolAssumption DEF Init, PoolInv, TypeOK, Base, Reading, Quiet
<1>4. OwnedInv /\ EnteredInv /\ WaitInv /\ CallsServed
  BY DEF Init, OwnedInv, EnteredInv, WaitInv, CallsServed, Base, Reading, Quiet
<1> QED BY <1>1, <1>3, <1>4 DEF IInv

\* Every step keeps the variables in their types.
LEMMA NextTypes == TypeOK /\ PlacesOK /\ [Next]_vars => TypeOK' /\ PlacesOK'
<1> SUFFICES ASSUME TypeOK, PlacesOK, [Next]_vars PROVE TypeOK' /\ PlacesOK'
  OBVIOUS
<1> USE PoolAssumption, PlaceFields DEF TypeOK, PlacesOK
<1>0. \A a \in Actors :
        /\ Base(a) \in Places /\ Reading \in Places
        /\ [step |-> "discover"] \in Places
        /\ \A h \in Hosts : [step |-> "find", host |-> h] \in Places
                            /\ [step |-> "create", host |-> h] \in Places
        /\ \A k \in Clients :
            /\ \A h \in Hosts : [step |-> "add", host |-> h, client |-> k] \in Places
            /\ \A s \in {"send", "wait", "leave", "join"} :
                [step |-> s, client |-> k] \in Places
  BY DEF Places, Resting, Finding, Adding, Using, Base, Reading
<1>00. \A x \in Places : x.step \in {"idle", "loop", "callback", "discover", "find",
                             "create", "add", "send", "wait", "leave", "join"}
  BY DEF Places, Resting, Finding, Adding, Using
<1>1. ASSUME NEW a \in Actors, Call(a) PROVE TypeOK' /\ PlacesOK'
  BY <1>1, <1>0, <1>00 DEF Call
<1>2. ASSUME NEW a \in Actors, ServiceDiscover(a) PROVE TypeOK' /\ PlacesOK'
  <2>1. PICK p \in Places : at' = [at EXCEPT ![a] = p]
    <3>1. [step : {"find"}, host : Hosts] \subseteq Places
      BY DEF Places, Finding
    <3> QED BY <1>2, <1>0, <3>1 DEF ServiceDiscover
  <2> QED BY <1>2, <1>00, <2>1 DEF ServiceDiscover
<1>3. ASSUME NEW a \in Actors, GetClient(a) PROVE TypeOK' /\ PlacesOK'
  BY <1>3, <1>0, <1>00 DEF GetClient
<1>4. ASSUME NEW a \in Actors, NewClient(a) PROVE TypeOK' /\ PlacesOK'
  <2>1. PICK k \in Clients :
            /\ life' = [life EXCEPT ![k] = "running"]
            /\ address' = [address EXCEPT ![k] = {at[a].host}]
            /\ at' = [at EXCEPT ![a] = [step |-> "add", host |-> at[a].host, client |-> k]]
            /\ \E ret \in BOOLEAN : linked' = [linked EXCEPT ![k] = ret]
    BY <1>4 DEF NewClient
  <2>2. at[a].step = "create" /\ at[a].host \in Hosts
    BY <1>4 DEF NewClient
  <2>3. at' \in [Actors -> Places]
    BY <2>1, <2>2, <1>0
  <2> QED BY <1>4, <1>00, <2>1, <2>2, <2>3 DEF NewClient
<1>5. ASSUME NEW a \in Actors, AddClient(a) PROVE TypeOK' /\ PlacesOK'
  <2>1. at[a].step = "add" /\ at[a].host \in Hosts /\ at[a].client \in Clients
    BY <1>5 DEF AddClient
  <2>2. at' \in [Actors -> Places]
    BY <1>5, <2>1, <1>0 DEF AddClient
  <2>3. pool' \in [Hosts -> Clients \cup {NoClient}] /\ raced' \subseteq Clients
    BY <1>5, <2>1 DEF AddClient, Added
  <2> QED BY <1>5, <1>00, <2>2, <2>3 DEF AddClient
<1>6. ASSUME NEW a \in Actors, Send(a) PROVE TypeOK' /\ PlacesOK'
  <2>1. at[a].step = "send" /\ at[a].client \in Clients
    BY <1>6 DEF Send
  <2>2. PICK mode \in UserModes \cup CallbackModes :
            /\ outstanding' = outstanding \cup
                                {[by |-> a, client |-> at[a].client, mode |-> mode, no |-> started]}
            /\ at' = [at EXCEPT ![a] =
                         [step |-> IF mode = "sync" THEN "wait" ELSE "leave",
                          client |-> at[a].client]]
    BY <1>6 DEF Send
  <2>3. at' \in [Actors -> Places]
    BY <2>1, <2>2, <1>0
  <2>4. outstanding' \subseteq OutstandingCalls
    <3>1. started \in Nat
      BY PoolAssumption DEF TypeOK
    <3>2. mode \in {"sync", "async", "callback"}
      BY PoolAssumption
    <3> QED BY <2>1, <2>2, <3>1, <3>2, <1>0 DEF OutstandingCalls, PlacesOK
  <2> QED BY <1>6, <1>00, <2>3, <2>4 DEF Send
<1>7. ASSUME NEW a \in Actors, Return(a) PROVE TypeOK' /\ PlacesOK'
  <2>1. at[a] \in Using
    BY <1>7 DEF Return, Places, Resting, Finding, Adding
  <2>2. [at[a] EXCEPT !.step = "leave"] = [step |-> "leave", client |-> at[a].client]
    BY <2>1 DEF Using
  <2>3. at' \in [Actors -> Places]
    <3>1. at' = [at EXCEPT ![a] = [step |-> "leave", client |-> at[a].client]]
      BY <1>7, <2>2 DEF Return
    <3>2. at[a].client \in Clients
      BY <2>1 DEF Using
    <3> QED BY <3>1, <3>2, <1>0
  <2> QED BY <1>7, <1>00, <2>3 DEF Return
<1>8. ASSUME NEW a \in Actors, Leave(a) PROVE TypeOK' /\ PlacesOK'
  <2>1. at[a] \in Using
    BY <1>8 DEF Leave, Places, Resting, Finding, Adding
  <2>2. [at[a] EXCEPT !.step = "join"] = [step |-> "join", client |-> at[a].client]
    BY <2>1 DEF Using
  <2>3. at' \in [Actors -> Places]
    <3>1. at[a].client \in Clients
      BY <2>1 DEF Using
    <3>2. CASE at' = [at EXCEPT ![a].step = "join"]
      <4>1. at' = [at EXCEPT ![a] = [step |-> "join", client |-> at[a].client]]
        BY <3>2, <2>2
      <4> QED BY <4>1, <3>1, <1>0
    <3>3. CASE at' = [at EXCEPT ![a] = Base(a)] BY <3>3, <1>0
    <3>4. CASE at' = at BY <3>4
    <3> QED BY <1>8, <3>2, <3>3, <3>4 DEF Leave
  <2>4. life' \in [Clients -> {"none", "running", "stopping", "gone"}]
    BY <1>8 DEF Leave
  <2> QED BY <1>8, <1>00, <2>3, <2>4 DEF Leave
<1>9. ASSUME NEW a \in Actors, Joined(a) PROVE TypeOK' /\ PlacesOK'
  BY <1>9, <1>0, <1>00 DEF Joined
<1>10. ASSUME NEW k \in Clients, OnResponse(k) PROVE TypeOK' /\ PlacesOK'
  BY <1>10, <1>0, <1>00 DEF OnResponse, Actors
<1>11. ASSUME NEW k \in Clients, CallbackReturns(k) PROVE TypeOK' /\ PlacesOK'
  BY <1>11, <1>0, <1>00 DEF CallbackReturns, Actors
<1>12. ASSUME NEW k \in Clients, Disconnect(k) PROVE TypeOK' /\ PlacesOK'
  BY <1>12 DEF Disconnect
<1>13. CASE Offline BY <1>13 DEF Offline
<1>14. CASE RemoveClient BY <1>14 DEF RemoveClient, Quiet
<1>15. CASE ClientJoined BY <1>15 DEF ClientJoined, Quiet
<1>16. CASE UNCHANGED vars BY <1>16 DEF vars
<1> QED
  BY <1>1, <1>2, <1>3, <1>4, <1>5, <1>6, <1>7, <1>8, <1>9, <1>10, <1>11, <1>12,
     <1>13, <1>14, <1>15, <1>16 DEF Next, CallStep

\* The invariant with the holders of a client told by their steps.
PooledRuns ==
    \A h \in Hosts : pool[h] # NoClient =>
        life[pool[h]] = "running" /\ address[pool[h]] = {h}

HeldRuns ==
    \A a \in Actors, k \in Clients : Holds(a, k) =>
        IF at[a].step = "join"
        THEN life[k] = "stopping" /\ \A b \in Actors : Holds(b, k) => b = a
        ELSE life[k] = "running"

JoinedAlone ==
    /\ \A a \in Actors : at[a].step = "add" => address[at[a].client] = {at[a].host}
    /\ discovery.step = "join" =>
        /\ life[discovery.client] = "stopping"
        /\ \A b \in Actors : ~Holds(b, discovery.client)

Owners == PooledRuns /\ HeldRuns /\ JoinedAlone

LEMMA OwnersInv ==
    ASSUME TypeOK, PlacesOK
    PROVE  PoolInv /\ OwnedInv <=> Owners
<1>1. \A k \in Clients : Holders(k) \subseteq Actors
  BY DEF Holders
<1>2. \A k \in Clients, a \in Actors : a \in Holders(k) <=> Holds(a, k)
  BY HoldersHold
<1>3. \A k \in Clients, a \in Actors : Holds(a, k) =>
        (Holders(k) = {a} <=> \A b \in Actors : Holds(b, k) => b = a)
  BY <1>1, <1>2
<1>4. \A k \in Clients : Holders(k) = {} <=> \A b \in Actors : ~Holds(b, k)
  BY <1>1, <1>2
<1>5. discovery.step = "join" => discovery.client \in Clients
  BY DEF PlacesOK
<1> QED
  BY <1>2, <1>3, <1>4, <1>5 DEF PoolInv, OwnedInv, Owners, PooledRuns, HeldRuns, JoinedAlone

\* No step lets go of a client that is pooled or used.
LEMMA NextOwners ==
    ASSUME TypeOK, PlacesOK, TypeOK', PlacesOK', Owners, [Next]_vars
    PROVE  Owners'
<1> USE DEF Owners, PooledRuns, HeldRuns, JoinedAlone, Holds
<1>0. /\ pool \in [Hosts -> Clients \cup {NoClient}]
      /\ at \in [Actors -> Places]
      /\ life \in [Clients -> {"none", "running", "stopping", "gone"}]
      /\ address \in [Clients -> SUBSET Hosts]
  BY DEF TypeOK, PlacesOK
<1>1. ASSUME NEW a \in Actors, Call(a) PROVE Owners'
  BY <1>0, <1>1 DEF Call, Base
<1>2. ASSUME NEW a \in Actors, ServiceDiscover(a) PROVE Owners'
  BY <1>0, <1>2 DEF ServiceDiscover, Base
<1>3. ASSUME NEW a \in Actors, GetClient(a) PROVE Owners'
  BY <1>0, <1>3, PlaceFields DEF GetClient
<1>4. ASSUME NEW a \in Actors, NewClient(a) PROVE Owners'
  BY <1>0, <1>4, PlaceFields DEF NewClient
<1>5. ASSUME NEW a \in Actors, AddClient(a) PROVE Owners'
  BY <1>0, <1>5, PlaceFields DEF AddClient, Added
<1>6. ASSUME NEW a \in Actors, Send(a) PROVE Owners'
  BY <1>0, <1>6, PlaceFields DEF Send
<1>7. ASSUME NEW a \in Actors, Return(a) PROVE Owners'
  BY <1>0, <1>7, PlaceFields DEF Return
<1>8. ASSUME NEW a \in Actors, Leave(a) PROVE Owners'
  <2> DEFINE k == at[a].client
  <2>1. at[a].step = "leave" /\ k \in Clients /\ life[k] = "running"
    BY <1>0, <1>8, PlaceFields DEF Leave
  <2>2. CASE at' = [at EXCEPT ![a] = Base(a)] /\ UNCHANGED life
    <3>1. at'[a].step \in {"idle", "callback"}
      BY <1>0, <2>2 DEF Base
    <3>2. \A b \in Actors : b # a => at'[b] = at[b]
      BY <1>0, <2>2
    <3>3. UNCHANGED <<pool, address, discovery>>
      BY <1>8 DEF Leave
    <3> QED BY <2>1, <2>2, <3>1, <3>2, <3>3
  <2>3. CASE UNCHANGED <<at, life>>
    BY <1>8, <2>3 DEF Leave
  <2>4. CASE /\ LastReference(a, k)
             /\ life' = [life EXCEPT ![k] = "stopping"]
             /\ at' = [at EXCEPT ![a].step = "join"]
    <3>1. \A b \in Actors : Holds(b, k) => b = a
      BY <2>1, <2>4, HoldersHold DEF LastReference
    <3>2. \A h \in Hosts : pool[h] # k
      BY <2>4 DEF LastReference, Pooled
    <3>3. at'[a].step = "join" /\ at'[a].client = k
      BY <1>0, <2>1, <2>4
    <3>4. \A b \in Actors : b # a => at'[b] = at[b]
      BY <1>0, <2>4
    <3>5. discovery.step = "join" => discovery.client # k
      BY <2>1
    <3>6. UNCHANGED <<pool, address, discovery>>
      BY <1>8 DEF Leave
    <3> QED BY <1>0, <2>1, <2>4, <3>1, <3>2, <3>3, <3>4, <3>5, <3>6
  <2> QED BY <1>8, <2>2, <2>3, <2>4 DEF Leave
<1>9. ASSUME NEW a \in Actors, Joined(a) PROVE Owners'
  BY <1>0, <1>9, PlaceFields DEF Joined, Base
<1>10. ASSUME NEW k \in Clients, OnResponse(k) PROVE Owners'
  BY <1>0, <1>10 DEF OnResponse, Base, Reading
<1>11. ASSUME NEW k \in Clients, CallbackReturns(k) PROVE Owners'
  BY <1>0, <1>11 DEF CallbackReturns, Base, Reading
<1>12. ASSUME NEW k \in Clients, Disconnect(k) PROVE Owners'
  BY <1>0, <1>12 DEF Disconnect
<1>13. CASE Offline BY <1>0, <1>13 DEF Offline
<1>14. CASE RemoveClient
  BY <1>0, <1>14, HoldersHold, PoolAssumption DEF RemoveClient, Quiet, PlacesOK
<1>15. CASE ClientJoined BY <1>0, <1>15 DEF ClientJoined, Quiet, PlacesOK
<1>16. CASE UNCHANGED vars BY <1>16 DEF vars
<1> QED
  BY <1>1, <1>2, <1>3, <1>4, <1>5, <1>6, <1>7, <1>8, <1>9, <1>10, <1>11, <1>12,
     <1>13, <1>14, <1>15, <1>16 DEF Next, CallStep

\* A client leaves its way into the pool only for the pool or as a loser, and
\* the pool only for an offline host.
LEMMA NextEntered ==
    ASSUME TypeOK, PlacesOK, TypeOK', PlacesOK', Owners, EnteredInv, [Next]_vars
    PROVE  EnteredInv'
<1> USE DEF EnteredInv, Pooled
<1>0. /\ pool \in [Hosts -> Clients \cup {NoClient}]
      /\ at \in [Actors -> Places]
      /\ life \in [Clients -> {"none", "running", "stopping", "gone"}]
  BY DEF TypeOK, PlacesOK
<1>a. ASSUME NEW a \in Actors, at[a].step # "add",
             \A b \in Actors : b # a => at'[b] = at[b],
             UNCHANGED <<pool, raced, dropped>>,
             \A k \in Clients : life'[k] # "none" => life[k] # "none"
      PROVE  EnteredInv'
  BY <1>0, <1>a
<1>1. ASSUME NEW a \in Actors, Call(a) PROVE EnteredInv'
  BY <1>0, <1>1, <1>a DEF Call, Base
<1>2. ASSUME NEW a \in Actors, ServiceDiscover(a) PROVE EnteredInv'
  BY <1>0, <1>2, <1>a DEF ServiceDiscover
<1>3. ASSUME NEW a \in Actors, GetClient(a) PROVE EnteredInv'
  BY <1>0, <1>3, <1>a DEF GetClient
<1>4. ASSUME NEW a \in Actors, NewClient(a) PROVE EnteredInv'
  BY <1>0, <1>4 DEF NewClient
<1>5. ASSUME NEW a \in Actors, AddClient(a) PROVE EnteredInv'
  BY <1>0, <1>5, PlaceFields, PoolAssumption DEF AddClient, Added
<1>6. ASSUME NEW a \in Actors, Send(a) PROVE EnteredInv'
  BY <1>0, <1>6, <1>a DEF Send
<1>7. ASSUME NEW a \in Actors, Return(a) PROVE EnteredInv'
  BY <1>0, <1>7, <1>a DEF Return
<1>8. ASSUME NEW a \in Actors, Leave(a) PROVE EnteredInv'
  <2>1. \A b \in Actors : b # a => at'[b] = at[b]
    BY <1>0, <1>8 DEF Leave
  <2>2. at[a].step = "leave" /\ life[at[a].client] = "running"
    BY <1>0, <1>8, PlaceFields DEF Leave, Owners, HeldRuns, Holds
  <2>3. \A k \in Clients : life'[k] # "none" => life[k] # "none"
    BY <1>0, <1>8, <2>2 DEF Leave
  <2> QED BY <1>8, <2>1, <2>2, <2>3, <1>a DEF Leave
<1>9. ASSUME NEW a \in Actors, Joined(a) PROVE EnteredInv'
  <2>1. at[a].step = "join" /\ life[at[a].client] = "stopping"
    BY <1>0, <1>9, PlaceFields DEF Joined, Owners, HeldRuns, Holds
  <2> QED BY <1>0, <1>9, <1>a, <2>1 DEF Joined
<1>10. ASSUME NEW k \in Clients, OnResponse(k) PROVE EnteredInv'
  BY <1>0, <1>10 DEF OnResponse, Base, Reading, Actors
<1>11. ASSUME NEW k \in Clients, CallbackReturns(k) PROVE EnteredInv'
  BY <1>0, <1>11, <1>a DEF CallbackReturns, Base, Actors
<1>12. ASSUME NEW k \in Clients, Disconnect(k) PROVE EnteredInv'
  BY <1>0, <1>12 DEF Disconnect
<1>13. CASE Offline BY <1>0, <1>13 DEF Offline
<1>14. CASE RemoveClient
  BY <1>0, <1>14, PoolAssumption DEF RemoveClient, PlacesOK
<1>15. CASE ClientJoined
  BY <1>0, <1>15 DEF ClientJoined, Owners, JoinedAlone
<1>16. CASE UNCHANGED vars BY <1>16 DEF vars
<1> QED
  BY <1>1, <1>2, <1>3, <1>4, <1>5, <1>6, <1>7, <1>8, <1>9, <1>10, <1>11, <1>12,
     <1>13, <1>14, <1>15, <1>16 DEF Next, CallStep

\* A call that is sent synchronously holds its caller until it is answered.
LEMMA NextWait ==
    ASSUME TypeOK, PlacesOK, WaitInv, [Next]_vars
    PROVE  WaitInv'
<1> USE DEF WaitInv
<1>0. /\ at \in [Actors -> Places]
      /\ \A c \in outstanding : c.by \in Actors /\ c.client \in Clients
  BY DEF PlacesOK, OutstandingCalls
<1>a. ASSUME NEW a \in Actors, at[a].step # "wait",
             \A b \in Actors : b # a => at'[b] = at[b],
             outstanding' \subseteq outstanding
      PROVE  WaitInv'
  BY <1>0, <1>a
<1>1. ASSUME NEW a \in Actors, Call(a) PROVE WaitInv'
  BY <1>0, <1>1, <1>a DEF Call, Base
<1>2. ASSUME NEW a \in Actors, ServiceDiscover(a) PROVE WaitInv'
  BY <1>0, <1>2, <1>a DEF ServiceDiscover
<1>3. ASSUME NEW a \in Actors, GetClient(a) PROVE WaitInv'
  BY <1>0, <1>3, <1>a DEF GetClient
<1>4. ASSUME NEW a \in Actors, NewClient(a) PROVE WaitInv'
  BY <1>0, <1>4, <1>a DEF NewClient
<1>5. ASSUME NEW a \in Actors, AddClient(a) PROVE WaitInv'
  BY <1>0, <1>5, <1>a DEF AddClient
<1>6. ASSUME NEW a \in Actors, Send(a) PROVE WaitInv'
  BY <1>0, <1>6 DEF Send
<1>7. ASSUME NEW a \in Actors, Return(a) PROVE WaitInv'
  BY <1>0, <1>7 DEF Return
<1>8. ASSUME NEW a \in Actors, Leave(a) PROVE WaitInv'
  BY <1>0, <1>8, <1>a DEF Leave
<1>9. ASSUME NEW a \in Actors, Joined(a) PROVE WaitInv'
  BY <1>0, <1>9, <1>a DEF Joined
<1>10. ASSUME NEW k \in Clients, OnResponse(k) PROVE WaitInv'
  BY <1>0, <1>10, <1>a DEF OnResponse, Reading, Actors
<1>11. ASSUME NEW k \in Clients, CallbackReturns(k) PROVE WaitInv'
  BY <1>0, <1>11, <1>a DEF CallbackReturns, Base, Actors
<1>12. ASSUME NEW k \in Clients, Disconnect(k) PROVE WaitInv'
  BY <1>0, <1>12 DEF Disconnect
<1>13. CASE Offline BY <1>0, <1>13 DEF Offline
<1>14. CASE RemoveClient BY <1>0, <1>14 DEF RemoveClient
<1>15. CASE ClientJoined BY <1>0, <1>15 DEF ClientJoined
<1>16. CASE UNCHANGED vars BY <1>16 DEF vars
<1> QED
  BY <1>1, <1>2, <1>3, <1>4, <1>5, <1>6, <1>7, <1>8, <1>9, <1>10, <1>11, <1>12,
     <1>13, <1>14, <1>15, <1>16 DEF Next, CallStep

\* A client that stops was the last to be told of: a loser, or taken out.
LEMMA NextServed ==
    ASSUME TypeOK, PlacesOK, Owners, EnteredInv, WaitInv, CallsServed, [Next]_vars
    PROVE  CallsServed'
<1> USE DEF CallsServed
<1>0. /\ pool \in [Hosts -> Clients \cup {NoClient}]
      /\ at \in [Actors -> Places]
      /\ life \in [Clients -> {"none", "running", "stopping", "gone"}]
      /\ \A c \in outstanding : c.by \in Actors /\ c.client \in Clients
  BY DEF TypeOK, PlacesOK, OutstandingCalls
<1>a. ASSUME outstanding' \subseteq outstanding, raced \subseteq raced',
             dropped \subseteq dropped',
             \A k \in Clients : life[k] = "running" => life'[k] = "running"
      PROVE  CallsServed'
  BY <1>0, <1>a
<1>1. ASSUME NEW a \in Actors, Call(a) PROVE CallsServed'
  BY <1>1, <1>a DEF Call
<1>2. ASSUME NEW a \in Actors, ServiceDiscover(a) PROVE CallsServed'
  BY <1>2, <1>a DEF ServiceDiscover
<1>3. ASSUME NEW a \in Actors, GetClient(a) PROVE CallsServed'
  BY <1>3, <1>a DEF GetClient
<1>4. ASSUME NEW a \in Actors, NewClient(a) PROVE CallsServed'
  BY <1>0, <1>4, <1>a DEF NewClient
<1>5. ASSUME NEW a \in Actors, AddClient(a) PROVE CallsServed'
  BY <1>5, <1>a DEF AddClient
<1>6. ASSUME NEW a \in Actors, Send(a) PROVE CallsServed'
  <2>1. at[a].step = "send" /\ life[at[a].client] = "running"
    BY <1>0, <1>6, PlaceFields DEF Send, Owners, HeldRuns, Holds
  <2> QED BY <1>6, <2>1 DEF Send
<1>7. ASSUME NEW a \in Actors, Return(a) PROVE CallsServed'
  BY <1>7, <1>a DEF Return
<1>8. ASSUME NEW a \in Actors, Leave(a) PROVE CallsServed'
  <2> DEFINE k == at[a].client
  <2>1. CASE UNCHANGED life
    BY <1>8, <2>1, <1>a DEF Leave
  <2>2. CASE LastReference(a, k) /\ life' = [life EXCEPT ![k] = "stopping"]
    <3>1. at[a].step = "leave" /\ k \in Clients /\ life[k] = "running"
      BY <1>0, <1>8, PlaceFields DEF Leave, Owners, HeldRuns, Holds
    <3>2. \A b \in Actors : Holds(b, k) => b = a
      BY <2>2, <3>1, HoldersHold DEF LastReference
    <3>3. k \in raced \cup dropped
      BY <1>0, <2>2, <3>1, <3>2, PlaceFields DEF LastReference, EnteredInv, Holds
    <3>4. \A c \in outstanding : c.mode = "sync" => c.client # k
      BY <1>0, <3>1, <3>2 DEF WaitInv, Holds
    <3> QED BY <1>0, <1>8, <2>2, <3>3, <3>4 DEF Leave
  <2> QED BY <1>8, <2>1, <2>2 DEF Leave
<1>9. ASSUME NEW a \in Actors, Joined(a) PROVE CallsServed'
  <2>1. at[a].step = "join" /\ life[at[a].client] = "stopping"
    BY <1>0, <1>9, PlaceFields DEF Joined, Owners, HeldRuns, Holds
  <2> QED BY <1>0, <1>9, <1>a, <2>1 DEF Joined
<1>10. ASSUME NEW k \in Clients, OnResponse(k) PROVE CallsServed'
  BY <1>10, <1>a DEF OnResponse
<1>11. ASSUME NEW k \in Clients, CallbackReturns(k) PROVE CallsServed'
  BY <1>11, <1>a DEF CallbackReturns
<1>12. ASSUME NEW k \in Clients, Disconnect(k) PROVE CallsServed'
  BY <1>12, <1>a DEF Disconnect
<1>13. CASE Offline BY <1>13, <1>a DEF Offline
<1>14. CASE RemoveClient
  <2> DEFINE k == pool[discovery.host]
  <2>1. CASE UNCHANGED life
    BY <1>14, <2>1, <1>a DEF RemoveClient
  <2>2. CASE /\ k # NoClient /\ Holders(k) = {}
             /\ life' = [life EXCEPT ![k] = "stopping"]
    <3>1. k \in Clients
      BY <1>0, <1>14, <2>2 DEF RemoveClient, PlacesOK
    <3>2. \A c \in outstanding : c.mode = "sync" => c.client # k
      BY <1>0, <2>2, <3>1, HoldersHold DEF WaitInv, Holds
    <3>3. k \in dropped'
      BY <1>14, <2>2 DEF RemoveClient
    <3> QED BY <1>0, <1>14, <2>2, <3>1, <3>2, <3>3 DEF RemoveClient
  <2> QED BY <1>14, <2>1, <2>2 DEF RemoveClient
<1>15. CASE ClientJoined
  BY <1>0, <1>15, <1>a DEF ClientJoined, Owners, JoinedAlone
<1>16. CASE UNCHANGED vars BY <1>16, <1>a DEF vars
<1> QED
  BY <1>1, <1>2, <1>3, <1>4, <1>5, <1>6, <1>7, <1>8, <1>9, <1>10, <1>11, <1>12,
     <1>13, <1>14, <1>15, <1>16 DEF Next, CallStep

-----------------------------------------------------------------------------
(* The theorems.                                                           *)

\* The invariant holds in every state: whatever users, callbacks and offline
\* notices do to RpcClient's pool (client/rpc_client.hpp), in any order.
THEOREM Invariance == Spec => []IInv
<1>1. IInv /\ [Next]_vars => IInv'
  <2> SUFFICES ASSUME IInv, [Next]_vars PROVE IInv'
    OBVIOUS
  <2>1. TypeOK /\ PlacesOK /\ PoolInv /\ OwnedInv
    BY DEF IInv, PoolInv
  <2>2. TypeOK' /\ PlacesOK'
    BY <2>1, NextTypes
  <2>3. Owners
    BY <2>1, OwnersInv
  <2>4. Owners'
    BY <2>1, <2>2, <2>3, NextOwners
  <2>5. (PoolInv /\ OwnedInv <=> Owners)'
    BY <2>2, OwnersInv, PTL
  <2>6. EnteredInv' /\ WaitInv' /\ CallsServed'
    BY <2>1, <2>2, <2>3, NextEntered, NextWait, NextServed DEF IInv
  <2> QED BY <2>2, <2>4, <2>5, <2>6 DEF IInv
<1> QED BY <1>1, InitIInv, PTL DEF Spec

\* A client that is pooled or used by a call (rpc_client.hpp, GetClient and
\* AddClient) has a running loop thread and is the one of its host; one thread
\* at most ends it.
THEOREM PooledClientsLive == Spec => []PoolInv
<1>1. IInv => PoolInv
  BY DEF IInv
<1> QED BY <1>1, Invariance, PTL

\* A call that was sent keeps a loop thread that can answer it, but for an
\* asynchronous one on a client that lost the race for the pool or was taken
\* out by an offline notice (rpc_client.hpp, NewClient and RemoveClient).
THEOREM CallsKeepTheirClient == Spec => []CallsServed
<1>1. IInv => CallsServed
  BY DEF IInv
<1> QED BY <1>1, Invariance, PTL
=============================================================================

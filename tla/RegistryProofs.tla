---------------------------- MODULE RegistryProofs ----------------------------
(***************************************************************************)
(* Proofs about Registry, for any providers, discoverers, methods and      *)
(* worker loops, also for a connection that is both provider and           *)
(* discoverer: the tables agree and forget a connection that closed, no    *)
(* discoverer misses a provider, and none is left with a provider it       *)
(* should have lost, however the handlers interleave.  And about           *)
(* Discovery, where one of the discoverers is a client: its server is      *)
(* Registry's, each caller is served once, and at rest its cache lists who *)
(* is registered.                                                          *)
(***************************************************************************)
EXTENDS Discovery, SequenceTheorems, FiniteSetTheorems, FunctionTheorems, TLAPS

-----------------------------------------------------------------------------
(* The inductive invariant.                                                *)

Elements(s) == {s[i] : i \in DOMAIN s}

\* What a handler carries from one critical section to the next.
Place ==
    [step : {"idle", "removeProvider", "removeDiscoverer"}]
    \cup [step : {"append", "online", "appendWanted", "hosts"}, method : Methods]
    \cup [step : {"answer"}, method : Methods, hosts : SUBSET Providers]
    \cup [step : {"offline"}, rest : Seq(Methods) \ {<<>>}]

TypesOK == TypeOK /\ at \in [Conns -> Place]

\* Which connection is at which step, and what it has been entered in.
PlacesOK ==
    \A c \in Conns :
        /\ at[c].step \in {"append", "online"} => c \notin closed /\ c \in provConns
        /\ at[c].step \in {"appendWanted", "hosts", "answer"} =>
            /\ c \notin closed /\ c \in Discoverers
            /\ c \in discoverers[at[c].method]
        /\ at[c].step \in {"offline", "removeProvider"} => c \in closed /\ c \in provConns
        /\ at[c].step = "removeDiscoverer" => c \in closed /\ c \notin provConns
        /\ at[c].step = "idle" /\ c \in closed => c \notin provConns \cup discConns

\* Whoever is found under a method is known, and its close will find it there.
ProvidersListed ==
    \A m \in Methods : \A p \in providers[m] :
        /\ p \in provConns
        /\ m \in Elements(methods[p]) \/ (at[p].step = "append" /\ at[p].method = m)

DiscoverersListed ==
    \A m \in Methods : \A d \in discoverers[m] :
        /\ d \in discConns
        /\ m \in wanted[d] \/ (at[d].step = "appendWanted" /\ at[d].method = m)

\* An open discoverer is found under every method it wants.
WantedEntered ==
    \A m \in Methods : \A d \in Discoverers \ closed : m \in wanted[d] => d \in discoverers[m]

AllListed == ProvidersListed /\ DiscoverersListed /\ WantedEntered

\* The handlers of one loop take turns.
TakeTurns ==
    \A c, d \in Conns : SameLoop(c, d) /\ c # d => at[c] = Idle \/ at[d] = Idle

\* Only who has closed is retracted.
RetractedClosed ==
    \A d \in Conns : \A x \in Elements(pending[d]) : x.kind = "offline" => x.host \in closed

Online(m, p) == [kind |-> "online", method |-> m, host |-> p]
Asking(d, m) == at[d].step \in {"appendWanted", "hosts"} /\ at[d].method = m
Answering(d, m) == at[d].step = "answer" /\ at[d].method = m

\* What an open discoverer in the table is owed about a provider that has been
\* notified: it was sent the host, a notice waits for it, or the answer it is
\* about to be sent, which replaces what it was sent before, names the host.
Informed ==
    \A m \in Methods, d \in Discoverers, p \in Providers :
        /\ d \in discoverers[m] /\ d \notin closed
        /\ p \in providers[m] /\ p \notin closed
        /\ ~Registering(p, m)
        /\ ~Asking(d, m)
        => \/ Online(m, p) \in Elements(pending[d])
           \/ IF Answering(d, m) THEN p \in at[d].hosts ELSE view[d][m][p] > 0

IInv == TypesOK /\ PlacesOK /\ AllListed /\ TakeTurns /\ RetractedClosed /\ Informed

-----------------------------------------------------------------------------
(* Lemmas on sequences and on counting in them.                            *)

LEMMA Appending ==
    ASSUME NEW S, NEW s \in Seq(S), NEW e \in S
    PROVE  /\ Append(s, e) \in Seq(S)
           /\ Elements(Append(s, e)) = Elements(s) \cup {e}
<1>1. /\ Len(Append(s, e)) = Len(s) + 1 /\ Append(s, e) \in Seq(S)
      /\ \A i \in 1..Len(s) : Append(s, e)[i] = s[i]
      /\ Append(s, e)[Len(s) + 1] = e
  BY AppendProperties
<1>2. /\ DOMAIN s = 1..Len(s) /\ Len(s) \in Nat
      /\ DOMAIN Append(s, e) = 1..(Len(s) + 1)
  BY <1>1, LenProperties
<1>3. \A i \in 1..(Len(s) + 1) : i \in 1..Len(s) \/ i = Len(s) + 1
  BY <1>2
<1> QED BY <1>1, <1>2, <1>3 DEF Elements

LEMMA Taking ==
    ASSUME NEW S, NEW s \in Seq(S), s # <<>>
    PROVE  /\ Head(s) \in S /\ Tail(s) \in Seq(S)
           /\ Elements(s) = Elements(Tail(s)) \cup {Head(s)}
<1>1. /\ Head(s) \in S /\ Tail(s) \in Seq(S) /\ Len(Tail(s)) = Len(s) - 1
      /\ \A i \in 1..Len(Tail(s)) : Tail(s)[i] = s[i + 1]
  BY HeadTailProperties
<1>2. /\ DOMAIN s = 1..Len(s) /\ Len(s) \in Nat /\ Len(s) > 0
      /\ DOMAIN Tail(s) = 1..(Len(s) - 1)
  BY <1>1, LenProperties, EmptySeq
<1>3. Head(s) = s[1]
  OBVIOUS
<1>4. \A i \in 1..Len(s) : i = 1 \/ (i - 1 \in 1..(Len(s) - 1) /\ Tail(s)[i - 1] = s[i])
  BY <1>1, <1>2
<1>5. Elements(Tail(s)) \cup {Head(s)} \subseteq Elements(s)
  BY <1>1, <1>2, <1>3 DEF Elements
<1>6. Elements(s) \subseteq Elements(Tail(s)) \cup {Head(s)}
  BY <1>2, <1>3, <1>4 DEF Elements
<1> QED BY <1>1, <1>5, <1>6

LEMMA ElementsIn ==
    ASSUME NEW S, NEW s \in Seq(S)
    PROVE  Elements(s) \subseteq S
<1>1. DOMAIN s = 1..Len(s) /\ \A i \in 1..Len(s) : s[i] \in S
  BY LenProperties, ElementOfSeq
<1> QED BY <1>1 DEF Elements

LEMMA NoElements == Elements(<<>>) = {}
BY DEF Elements

\* How often something stands in a sequence, and whether it does.
LEMMA Counting ==
    ASSUME NEW S, NEW s \in Seq(S), NEW e
    PROVE  /\ Cardinality({i \in DOMAIN s : s[i] = e}) \in Nat
           /\ Cardinality({i \in DOMAIN s : s[i] = e}) > 0 <=> e \in Elements(s)
<1> DEFINE Is == {i \in DOMAIN s : s[i] = e}
<1>1. DOMAIN s = 1..Len(s) /\ Len(s) \in Nat
  BY LenProperties
<1>2. IsFiniteSet(1..Len(s))
  BY <1>1, FS_Interval
<1>3. IsFiniteSet(Is)
  BY <1>1, <1>2, FS_Subset
<1>4. Cardinality(Is) \in Nat /\ (Cardinality(Is) = 0 <=> Is = {})
  BY <1>3, FS_CardinalityType, FS_EmptySet
<1>5. Is # {} <=> e \in Elements(s)
  BY DEF Elements
<1> HIDE DEF Is
<1>6. Cardinality(Is) \in Nat /\ (Cardinality(Is) > 0 <=> e \in Elements(s))
  BY <1>4, <1>5
<1> QED BY <1>6 DEF Is

\* What telling the discoverers ds does.
Notified(c, ds, x) ==
    /\ pending' \in [Conns -> Seq(Notice)]
    /\ view' \in [Conns -> [Methods -> [Providers -> Nat]]]
    /\ \A d \in Conns :
        /\ Elements(pending[d]) \subseteq Elements(pending'[d])
        /\ Elements(pending'[d]) \subseteq Elements(pending[d]) \cup {x}
        /\ d \in ds \ closed /\ ~SameLoop(c, d) => x \in Elements(pending'[d])
    /\ \A d \in Conns, m \in Methods, p \in Providers :
        /\ ~(m = x.method /\ p = x.host) => view'[d][m][p] = view[d][m][p]
        /\ x.kind = "online" /\ d \in ds \ closed /\ SameLoop(c, d)
             => view'[d][x.method][x.host] > 0
        /\ x.kind = "online" => view'[d][m][p] >= view[d][m][p]

LEMMA Notifying ==
    ASSUME TypesOK, NEW c \in Conns, NEW ds, ds \subseteq Discoverers, NEW x \in Notice,
           Notify(c, ds, x)
    PROVE  Notified(c, ds, x)
<1>1. TypeOK /\ x.method \in Methods /\ x.host \in Providers /\ x.kind \in {"online", "offline"}
  BY DEF TypesOK, Notice
<1>2. ASSUME NEW d \in Conns
      PROVE  /\ pending'[d] \in Seq(Notice)
             /\ Elements(pending[d]) \subseteq Elements(pending'[d])
             /\ Elements(pending'[d]) \subseteq Elements(pending[d]) \cup {x}
             /\ d \in ds \ closed /\ ~SameLoop(c, d) => x \in Elements(pending'[d])
  <2>1. pending'[d] = IF d \in ds \ closed /\ ~SameLoop(c, d) THEN Append(pending[d], x)
                      ELSE pending[d]
    BY DEF Notify
  <2>2. pending[d] \in Seq(Notice)
    BY <1>1 DEF TypeOK
  <2>3. /\ Append(pending[d], x) \in Seq(Notice)
        /\ Elements(Append(pending[d], x)) = Elements(pending[d]) \cup {x}
    BY <2>2, Appending
  <2> QED BY <2>1, <2>2, <2>3
<1>3. pending' \in [Conns -> Seq(Notice)]
  <2>1. pending' = [d \in Conns |-> pending'[d]]
    BY DEF Notify
  <2> QED BY <1>2, <2>1
<1>4. ASSUME NEW d \in Conns
      PROVE  /\ Noted(view[d][x.method], x) \in [Providers -> Nat]
             /\ \A p \in Providers :
                    /\ p # x.host => Noted(view[d][x.method], x)[p] = view[d][x.method][p]
                    /\ x.kind = "online" =>
                        /\ Noted(view[d][x.method], x)[x.host] > 0
                        /\ Noted(view[d][x.method], x)[p] >= view[d][x.method][p]
  <2>1. view[d][x.method] \in [Providers -> Nat]
    BY <1>1 DEF TypeOK
  <2>2. CASE x.kind = "online"
    BY <1>1, <2>1, <2>2 DEF Noted
  <2>3. CASE x.kind # "online"
    BY <1>1, <2>1, <2>3 DEF Noted
  <2> QED BY <2>2, <2>3
<1>5. ASSUME NEW d \in Conns
      PROVE  view'[d] = IF d \in ds \ closed /\ SameLoop(c, d)
                        THEN [view[d] EXCEPT ![x.method] = Noted(view[d][x.method], x)]
                        ELSE view[d]
  BY DEF Notify
<1>6. view' \in [Conns -> [Methods -> [Providers -> Nat]]]
  <2>1. view' = [d \in Conns |-> view'[d]]
    BY DEF Notify
  <2>2. \A d \in Conns : view'[d] \in [Methods -> [Providers -> Nat]]
    BY <1>1, <1>4, <1>5 DEF TypeOK
  <2> QED BY <2>1, <2>2
<1>7. ASSUME NEW d \in Conns, NEW m \in Methods, NEW p \in Providers
      PROVE  /\ ~(m = x.method /\ p = x.host) => view'[d][m][p] = view[d][m][p]
             /\ x.kind = "online" /\ d \in ds \ closed /\ SameLoop(c, d)
                  => view'[d][x.method][x.host] > 0
             /\ x.kind = "online" => view'[d][m][p] >= view[d][m][p]
  <2>1. view[d] \in [Methods -> [Providers -> Nat]] /\ view[d][m][p] \in Nat
    BY <1>1 DEF TypeOK
  <2>2. CASE d \in ds \ closed /\ SameLoop(c, d)
    <3>1. view'[d][x.method] = Noted(view[d][x.method], x)
      BY <1>1, <1>5, <2>1, <2>2
    <3>2. m # x.method => view'[d][m] = view[d][m]
      BY <1>1, <1>5, <2>1, <2>2
    <3> QED BY <1>1, <1>4, <2>1, <3>1, <3>2
  <2>3. CASE ~(d \in ds \ closed /\ SameLoop(c, d))
    <3>1. view'[d] = view[d]
      BY <1>5, <2>3
    <3> QED BY <2>1, <2>3, <3>1
  <2> QED BY <2>2, <2>3
<1> QED BY <1>2, <1>3, <1>6, <1>7 DEF Notified

\* What a handler's place looks like at each step.
LEMMA PlaceOf ==
    ASSUME NEW x \in Place
    PROVE  /\ x.step \in Steps
           /\ x.step = "idle" <=> x = Idle
           /\ x.step \in {"append", "online", "appendWanted", "hosts"} =>
                x.method \in Methods /\ x = [step |-> x.step, method |-> x.method]
           /\ x.step = "answer" => x.method \in Methods /\ x.hosts \subseteq Providers
           /\ x.step = "offline" => x.rest \in Seq(Methods) /\ x.rest # <<>>
<1>1. CASE x \in [step : {"idle", "removeProvider", "removeDiscoverer"}]
  BY <1>1 DEF Steps, Idle
<1>2. CASE x \in [step : {"append", "online", "appendWanted", "hosts"}, method : Methods]
  BY <1>2 DEF Steps, Idle
<1>3. CASE x \in [step : {"answer"}, method : Methods, hosts : SUBSET Providers]
  BY <1>3 DEF Steps, Idle
<1>4. CASE x \in [step : {"offline"}, rest : Seq(Methods) \ {<<>>}]
  BY <1>4 DEF Steps, Idle
<1> QED BY <1>1, <1>2, <1>3, <1>4 DEF Place

\* Where a handler goes.
LEMMA Going ==
    /\ Idle \in Place /\ Idle.step = "idle"
    /\ \A m \in Methods, s \in {"append", "online", "appendWanted", "hosts"} :
        /\ [step |-> s, method |-> m] \in Place
        /\ [step |-> s, method |-> m].step = s /\ [step |-> s, method |-> m].method = m
    /\ \A s \in {"removeProvider", "removeDiscoverer"} :
        [step |-> s] \in Place /\ [step |-> s].step = s
BY DEF Place, Idle

LEMMA RetractingPlace ==
    ASSUME NEW ms \in Seq(Methods)
    PROVE  /\ Retracting(ms) \in Place
           /\ Retracting(ms).step \in {"offline", "removeProvider"}
<1>1. CASE ms = <<>>
  BY <1>1, Going DEF Retracting
<1>2. CASE ms # <<>>
  BY <1>2 DEF Retracting, Place
<1> QED BY <1>1, <1>2

\* A handler starts only when its loop is free, so that the turns are kept.
LEMMA Turns ==
    ASSUME TypesOK, TakeTurns, NEW c \in Conns, NEW x, at' = [at EXCEPT ![c] = x],
           at[c] # Idle \/ LoopFree(c)
    PROVE  TakeTurns'
<1>1. \A d \in Conns : SameLoop(c, d) /\ d # c => at[d] = Idle
  BY DEF TakeTurns, LoopFree
<1>2. \A d, e \in Conns : SameLoop(d, e) => SameLoop(e, d)
  BY DEF SameLoop
<1>3. \A d \in Conns : d # c => at'[d] = at[d]
  BY DEF TypesOK
<1> QED BY <1>1, <1>2, <1>3 DEF TakeTurns

-----------------------------------------------------------------------------
(* One lemma for each action.                                              *)

LEMMA InitIInv == Init => IInv
<1> SUFFICES ASSUME Init PROVE IInv
  OBVIOUS
<1>1. TypesOK
  <2>1. <<>> \in Seq(Methods) /\ <<>> \in Seq(Notice)
    BY EmptySeq
  <2>2. TypeOK
    BY <2>1 DEF Init, TypeOK, Steps, Idle
  <2> QED BY <2>2, Going DEF Init, TypesOK
<1>2. PlacesOK
  BY Going DEF Init, PlacesOK
<1>4. AllListed
  BY DEF Init, AllListed, ProvidersListed, DiscoverersListed, WantedEntered, Conns
<1>5. TakeTurns
  BY DEF Init, TakeTurns
<1>3. RetractedClosed /\ Informed
  BY NoElements DEF Init, RetractedClosed, Informed
<1> QED BY <1>1, <1>2, <1>3, <1>4, <1>5 DEF IInv

LEMMA AddProviderKeepsIInv ==
    ASSUME IInv, NEW c \in Conns, NEW m \in Methods, AddProvider(c, m) PROVE IInv'
<1> DEFINE x == [step |-> "append", method |-> m]
<1>1. TypesOK /\ TypeOK /\ PlacesOK /\ AllListed /\ TakeTurns /\ RetractedClosed /\ Informed
  BY DEF IInv, TypesOK
<1>2. /\ c \in Providers /\ c \notin closed /\ LoopFree(c)
      /\ provConns' = provConns \cup {c}
      /\ providers' = [providers EXCEPT ![m] = @ \cup {c}]
      /\ at' = [at EXCEPT ![c] = x]
      /\ asked' = [asked EXCEPT ![c] = @ + 1]
      /\ overlapped' = overlapped \cup {<<d, c>> : d \in {e \in Conns : Discovering(e)}}
      /\ UNCHANGED <<methods, discConns, wanted, discoverers, pending, view, closed>>
  BY DEF AddProvider, MayAsk, MeetsDiscoveries
<1>3. x \in Place /\ x.step = "append" /\ x.method = m /\ at[c] = Idle
  BY <1>2, Going DEF LoopFree, SameLoop
<1> HIDE DEF x
<1>4. at'[c] = x /\ \A d \in Conns : d # c => at'[d] = at[d]
  BY <1>1, <1>2 DEF TypesOK
<1>5. TypesOK'
  <2>1. at' \in [Conns -> Place] /\ \A d \in Conns : at'[d].step \in Steps
    BY <1>1, <1>2, <1>3, PlaceOf DEF TypesOK
  <2>2. /\ provConns' \subseteq Providers /\ providers' \in [Methods -> SUBSET Providers]
        /\ asked' \in [Conns -> Nat] /\ overlapped' \subseteq Conns \X Conns
    BY <1>1, <1>2 DEF TypeOK
  <2> QED BY <1>1, <1>2, <2>1, <2>2 DEF TypesOK, TypeOK
<1>6. PlacesOK'
  BY <1>1, <1>2, <1>3, <1>4, Going DEF PlacesOK
<1>7. AllListed'
  <2>1. \A n \in Methods : providers'[n] = IF n = m THEN providers[n] \cup {c} ELSE providers[n]
    BY <1>1, <1>2 DEF TypeOK
  <2>2. ProvidersListed'
    <3> SUFFICES ASSUME NEW n \in Methods, NEW p \in providers'[n]
                 PROVE  /\ p \in provConns'
                        /\ \/ n \in Elements(methods[p])
                           \/ at'[p].step = "append" /\ at'[p].method = n
      BY <1>2 DEF ProvidersListed
    <3>1. p \in Conns
      BY <1>1, <1>2, <2>1 DEF TypeOK, Conns
    <3>2. CASE p \in providers[n]
      BY <1>1, <1>2, <1>3, <1>4, <3>1, <3>2 DEF AllListed, ProvidersListed, Idle
    <3>3. CASE p = c /\ n = m
      BY <1>2, <1>3, <1>4, <3>3
    <3> QED BY <2>1, <3>2, <3>3
  <2>3. DiscoverersListed'
    BY <1>1, <1>2, <1>3, <1>4 DEF AllListed, DiscoverersListed, TypeOK, Conns, Idle
  <2>4. WantedEntered'
    BY <1>1, <1>2 DEF AllListed, WantedEntered
  <2> QED BY <2>2, <2>3, <2>4 DEF AllListed
<1>8. TakeTurns'
  BY <1>1, <1>2, Turns
<1>9. RetractedClosed'
  BY <1>1, <1>2 DEF RetractedClosed
<1>10. Informed'
  <2> SUFFICES ASSUME NEW n \in Methods, NEW d \in Discoverers, NEW p \in Providers,
                      d \in discoverers[n], d \notin closed, p \in providers'[n], p \notin closed,
                      ~Registering(p, n)', ~Asking(d, n)'
               PROVE  \/ Online(n, p) \in Elements(pending[d])
                      \/ IF Answering(d, n)' THEN p \in at'[d].hosts ELSE view[d][n][p] > 0
    BY <1>2 DEF Informed
  <2>1. d \in Conns /\ p \in Conns
    BY DEF Conns
  <2>2. p \in providers[n] /\ ~Registering(p, n)
    <3>1. ~(p = c /\ n = m)
      BY <1>3, <1>4 DEF Registering
    <3>2. p \in providers[n]
      BY <1>1, <1>2, <3>1 DEF TypeOK
    <3>3. ~Registering(p, n)
      BY <1>3, <1>4, <2>1 DEF Registering, Idle
    <3> QED BY <3>2, <3>3
  <2>3. ~Asking(d, n) /\ (Answering(d, n)' <=> Answering(d, n)) /\ (d # c => at'[d] = at[d])
    BY <1>3, <1>4, <2>1, Going DEF Asking, Answering
  <2>4. Answering(d, n) => d # c
    BY <1>3, Going DEF Answering
  <2> QED BY <1>1, <2>2, <2>3, <2>4 DEF Informed
<1> QED BY <1>5, <1>6, <1>7, <1>8, <1>9, <1>10 DEF IInv

LEMMA AppendMethodKeepsIInv == ASSUME IInv, NEW c \in Conns, AppendMethod(c) PROVE IInv'
<1> DEFINE m == at[c].method
           x == [step |-> "online", method |-> m]
<1>1. TypesOK /\ TypeOK /\ PlacesOK /\ AllListed /\ TakeTurns /\ RetractedClosed /\ Informed
  BY DEF IInv, TypesOK
<1>2. at[c].step = "append" /\ m \in Methods /\ at[c] = [step |-> "append", method |-> m]
  BY <1>1, PlaceOf DEF AppendMethod, TypesOK
<1>3. /\ methods' = [methods EXCEPT ![c] = Append(methods[c], m)]
      /\ at' = [at EXCEPT ![c] = x]
      /\ UNCHANGED <<provConns, providers, discConns, wanted, discoverers,
                     pending, view, closed, asked, overlapped>>
  <2>1. [at[c] EXCEPT !.step = "online"] = x
    BY <1>2
  <2> QED BY <2>1 DEF AppendMethod, Appended
<1>4. x \in Place /\ x.step = "online" /\ x.method = m
  BY <1>2, Going
<1> HIDE DEF x
<1>5. at'[c] = x /\ \A d \in Conns : d # c => at'[d] = at[d]
  BY <1>1, <1>3 DEF TypesOK
<1>6. /\ methods[c] \in Seq(Methods) /\ Append(methods[c], m) \in Seq(Methods)
      /\ methods'[c] = Append(methods[c], m)
      /\ Elements(methods'[c]) = Elements(methods[c]) \cup {m}
      /\ \A d \in Conns : d # c => methods'[d] = methods[d]
  <2>1. methods[c] \in Seq(Methods)
    BY <1>1 DEF TypeOK
  <2>2. /\ Append(methods[c], m) \in Seq(Methods)
        /\ Elements(Append(methods[c], m)) = Elements(methods[c]) \cup {m}
    BY <1>2, <2>1, Appending
  <2> QED BY <1>1, <1>3, <2>1, <2>2 DEF TypeOK
<1>7. TypesOK'
  <2>1. at' \in [Conns -> Place] /\ \A d \in Conns : at'[d].step \in Steps
    BY <1>1, <1>3, <1>4, PlaceOf DEF TypesOK
  <2>2. methods' \in [Conns -> Seq(Methods)]
    BY <1>1, <1>3, <1>6 DEF TypeOK
  <2> QED BY <1>1, <1>3, <2>1, <2>2 DEF TypesOK, TypeOK
<1>8. PlacesOK'
  BY <1>1, <1>2, <1>3, <1>4, <1>5 DEF PlacesOK
<1>9. AllListed'
  <2>1. ProvidersListed'
    <3> SUFFICES ASSUME NEW n \in Methods, NEW p \in providers[n]
                 PROVE  /\ p \in provConns
                        /\ \/ n \in Elements(methods'[p])
                           \/ at'[p].step = "append" /\ at'[p].method = n
      BY <1>3 DEF ProvidersListed
    <3>1. p \in Conns
      BY <1>1 DEF TypeOK, Conns
    <3>2. /\ p \in provConns
          /\ n \in Elements(methods[p]) \/ (at[p].step = "append" /\ at[p].method = n)
      BY <1>1 DEF AllListed, ProvidersListed
    <3>3. CASE p = c
      BY <1>6, <3>2, <3>3
    <3>4. CASE p # c
      BY <1>5, <1>6, <3>1, <3>2, <3>4
    <3> QED BY <3>3, <3>4
  <2>2. DiscoverersListed'
    BY <1>1, <1>2, <1>3, <1>4, <1>5 DEF AllListed, DiscoverersListed, TypeOK, Conns
  <2>3. WantedEntered'
    BY <1>1, <1>3 DEF AllListed, WantedEntered
  <2> QED BY <2>1, <2>2, <2>3 DEF AllListed
<1>10. TakeTurns'
  <2>1. at[c] # Idle
    BY <1>2 DEF Idle
  <2> QED BY <1>1, <1>3, <2>1, Turns
<1>11. RetractedClosed'
  BY <1>1, <1>3 DEF RetractedClosed
<1>12. Informed'
  <2> SUFFICES ASSUME NEW n \in Methods, NEW d \in Discoverers, NEW p \in Providers,
                      d \in discoverers[n], d \notin closed, p \in providers[n], p \notin closed,
                      ~Registering(p, n)', ~Asking(d, n)'
               PROVE  \/ Online(n, p) \in Elements(pending[d])
                      \/ IF Answering(d, n)' THEN p \in at'[d].hosts ELSE view[d][n][p] > 0
    BY <1>3 DEF Informed
  <2>1. d \in Conns /\ p \in Conns
    BY DEF Conns
  <2>2. ~Registering(p, n)
    BY <1>2, <1>4, <1>5, <2>1 DEF Registering
  <2>3. ~Asking(d, n) /\ (Answering(d, n)' <=> Answering(d, n)) /\ (d # c => at'[d] = at[d])
    BY <1>2, <1>4, <1>5, <2>1 DEF Asking, Answering
  <2>4. Answering(d, n) => d # c
    BY <1>2 DEF Answering
  <2> QED BY <1>1, <2>2, <2>3, <2>4 DEF Informed
<1> QED BY <1>7, <1>8, <1>9, <1>10, <1>11, <1>12 DEF IInv

LEMMA OnlineNotifyKeepsIInv == ASSUME IInv, NEW c \in Conns, OnlineNotify(c) PROVE IInv'
<1> DEFINE m == at[c].method
           x == Online(m, c)
<1>1. TypesOK /\ TypeOK /\ PlacesOK /\ AllListed /\ TakeTurns /\ RetractedClosed /\ Informed
  BY DEF IInv, TypesOK
<1>2. at[c].step = "online" /\ m \in Methods /\ c \in provConns /\ c \in Providers
  BY <1>1, PlaceOf DEF OnlineNotify, TypesOK, TypeOK, PlacesOK
<1>3. /\ Notify(c, discoverers[m], x)
      /\ at' = [at EXCEPT ![c] = Idle]
      /\ UNCHANGED <<provConns, methods, providers, discConns, wanted, discoverers,
                     closed, asked, overlapped>>
  BY DEF OnlineNotify, Online, tables
<1>4. /\ x \in Notice /\ x.kind = "online" /\ x.method = m /\ x.host = c
      /\ discoverers[m] \subseteq Discoverers
  BY <1>1, <1>2 DEF Online, Notice, TypeOK
<1>5. at'[c] = Idle /\ \A d \in Conns : d # c => at'[d] = at[d]
  BY <1>1, <1>3 DEF TypesOK
<1>6. /\ pending' \in [Conns -> Seq(Notice)]
      /\ view' \in [Conns -> [Methods -> [Providers -> Nat]]]
      /\ \A d \in Conns :
            /\ Elements(pending[d]) \subseteq Elements(pending'[d])
            /\ Elements(pending'[d]) \subseteq Elements(pending[d]) \cup {x}
            /\ d \in discoverers[m] \ closed /\ ~SameLoop(c, d) => x \in Elements(pending'[d])
      /\ \A d \in Conns, n \in Methods, p \in Providers :
            /\ d \in discoverers[m] \ closed /\ SameLoop(c, d) => view'[d][m][c] > 0
            /\ view'[d][n][p] >= view[d][n][p]
  <2> HIDE DEF m, x
  <2>1. Notified(c, discoverers[m], x)
    BY <1>1, <1>3, <1>4, Notifying
  <2> QED BY <1>4, <2>1 DEF Notified
<1>7. TypesOK'
  <2>1. at' \in [Conns -> Place] /\ \A d \in Conns : at'[d].step \in Steps
    BY <1>1, <1>3, Going, PlaceOf DEF TypesOK
  <2> QED BY <1>1, <1>3, <1>6, <2>1 DEF TypesOK, TypeOK
<1>8. PlacesOK'
  BY <1>1, <1>2, <1>3, <1>5, Going DEF PlacesOK
<1>9. AllListed'
  <2>1. ProvidersListed'
    BY <1>1, <1>2, <1>3, <1>5 DEF AllListed, ProvidersListed, TypeOK, Conns
  <2>2. DiscoverersListed'
    BY <1>1, <1>2, <1>3, <1>5 DEF AllListed, DiscoverersListed, TypeOK, Conns
  <2>3. WantedEntered'
    BY <1>1, <1>3 DEF AllListed, WantedEntered
  <2> QED BY <2>1, <2>2, <2>3 DEF AllListed
<1>10. TakeTurns'
  <2>1. at[c] # Idle
    BY <1>2 DEF Idle
  <2> QED BY <1>1, <1>3, <2>1, Turns
<1>11. RetractedClosed'
  BY <1>1, <1>3, <1>4, <1>6 DEF RetractedClosed
<1>12. Informed'
  <2> SUFFICES ASSUME NEW n \in Methods, NEW d \in Discoverers, NEW p \in Providers,
                      d \in discoverers[n], d \notin closed, p \in providers[n], p \notin closed,
                      ~Registering(p, n)', ~Asking(d, n)'
               PROVE  \/ Online(n, p) \in Elements(pending'[d])
                      \/ IF Answering(d, n)' THEN p \in at'[d].hosts ELSE view'[d][n][p] > 0
    BY <1>3 DEF Informed
  <2>1. d \in Conns /\ p \in Conns /\ view[d][n][p] \in Nat /\ view'[d][n][p] \in Nat
    BY <1>1, <1>6 DEF Conns, TypeOK
  <2>2. CASE p = c /\ n = m
    <3>1. CASE SameLoop(c, d)
      <4>1. ~Answering(d, n)'
        <5>1. d = c \/ at[d] = Idle
          BY <1>1, <1>2, <2>1, <3>1 DEF TakeTurns, Idle
        <5> QED BY <1>5, <2>1, <5>1 DEF Answering, Idle
      <4> QED BY <1>6, <2>1, <2>2, <3>1, <4>1
    <3>2. CASE ~SameLoop(c, d)
      BY <1>6, <2>1, <2>2, <3>2
    <3> QED BY <3>1, <3>2
  <2>3. CASE ~(p = c /\ n = m)
    <3>1. ~Registering(p, n)
      BY <1>5, <2>1, <2>3 DEF Registering
    <3>2. ~Asking(d, n) /\ (Answering(d, n)' <=> Answering(d, n)) /\ (d # c => at'[d] = at[d])
      BY <1>2, <1>5, <2>1 DEF Asking, Answering, Idle
    <3>3. Answering(d, n) => d # c
      BY <1>2 DEF Answering
    <3>4. \/ Online(n, p) \in Elements(pending[d])
          \/ IF Answering(d, n) THEN p \in at[d].hosts ELSE view[d][n][p] > 0
      BY <1>1, <3>1, <3>2 DEF Informed
    <3>5. view'[d][n][p] >= view[d][n][p] /\ Elements(pending[d]) \subseteq Elements(pending'[d])
      BY <1>6, <2>1
    <3> QED BY <2>1, <3>2, <3>3, <3>4, <3>5
  <2> QED BY <2>2, <2>3
<1> QED BY <1>7, <1>8, <1>9, <1>10, <1>11, <1>12 DEF IInv

LEMMA AddDiscovererKeepsIInv ==
    ASSUME IInv, NEW c \in Conns, NEW m \in Methods, AddDiscoverer(c, m) PROVE IInv'
<1> DEFINE x == [step |-> "appendWanted", method |-> m]
<1>1. TypesOK /\ TypeOK /\ PlacesOK /\ AllListed /\ TakeTurns /\ RetractedClosed /\ Informed
  BY DEF IInv, TypesOK
<1>2. /\ c \in Discoverers /\ c \notin closed /\ LoopFree(c)
      /\ discConns' = discConns \cup {c}
      /\ discoverers' = [discoverers EXCEPT ![m] = @ \cup {c}]
      /\ at' = [at EXCEPT ![c] = x]
      /\ asked' = [asked EXCEPT ![c] = @ + 1]
      /\ overlapped' = overlapped \cup
           {<<c, p>> : p \in {q \in Providers : Changing(q) \/ NoticePending(c, q)}}
      /\ UNCHANGED <<provConns, methods, providers, wanted, pending, view, closed>>
  BY DEF AddDiscoverer, MayAsk, Entered, MeetsChanges
<1>3. x \in Place /\ x.step = "appendWanted" /\ x.method = m /\ at[c] = Idle
  BY <1>2, Going DEF LoopFree, SameLoop
<1> HIDE DEF x
<1>4. at'[c] = x /\ \A d \in Conns : d # c => at'[d] = at[d]
  BY <1>1, <1>2 DEF TypesOK
<1>5. /\ \A n \in Methods : discoverers'[n] = IF n = m THEN discoverers[n] \cup {c} ELSE discoverers[n]
      /\ discoverers' \in [Methods -> SUBSET Discoverers]
  BY <1>1, <1>2 DEF TypeOK
<1>6. TypesOK'
  <2>1. at' \in [Conns -> Place] /\ \A d \in Conns : at'[d].step \in Steps
    BY <1>1, <1>2, <1>3, PlaceOf DEF TypesOK
  <2>2. /\ discConns' \subseteq Discoverers
        /\ asked' \in [Conns -> Nat] /\ overlapped' \subseteq Conns \X Conns
    BY <1>1, <1>2 DEF TypeOK, Conns
  <2> QED BY <1>1, <1>2, <1>5, <2>1, <2>2 DEF TypesOK, TypeOK
<1>7. PlacesOK'
  <2> SUFFICES ASSUME NEW d \in Conns
               PROVE  /\ at'[d].step \in {"append", "online"} => d \notin closed /\ d \in provConns
                      /\ at'[d].step \in {"appendWanted", "hosts", "answer"} =>
                          /\ d \notin closed /\ d \in Discoverers
                          /\ d \in discoverers'[at'[d].method]
                      /\ at'[d].step \in {"offline", "removeProvider"} =>
                          d \in closed /\ d \in provConns
                      /\ at'[d].step = "removeDiscoverer" => d \in closed /\ d \notin provConns
                      /\ at'[d].step = "idle" /\ d \in closed => d \notin provConns \cup discConns'
    BY <1>2 DEF PlacesOK
  <2>1. CASE d = c
    BY <1>2, <1>3, <1>4, <1>5, <2>1
  <2>2. CASE d # c
    <3>1. at'[d] = at[d] /\ at[d] \in Place
      BY <1>1, <1>4, <2>2 DEF TypesOK
    <3>2. at[d].step \in {"appendWanted", "hosts", "answer"} => at[d].method \in Methods
      BY <3>1, PlaceOf
    <3> QED BY <1>1, <1>2, <1>5, <2>2, <3>1, <3>2 DEF PlacesOK
  <2> QED BY <2>1, <2>2
<1>8. AllListed'
  <2>1. ProvidersListed'
    BY <1>1, <1>2, <1>3, <1>4 DEF AllListed, ProvidersListed, TypeOK, Conns, Idle
  <2>2. DiscoverersListed'
    <3> SUFFICES ASSUME NEW n \in Methods, NEW d \in discoverers'[n]
                 PROVE  /\ d \in discConns'
                        /\ n \in wanted[d] \/ (at'[d].step = "appendWanted" /\ at'[d].method = n)
      BY <1>2 DEF DiscoverersListed
    <3>1. d \in Conns
      BY <1>5 DEF Conns
    <3>2. CASE d = c /\ n = m
      BY <1>2, <1>3, <1>4, <3>2
    <3>3. CASE d \in discoverers[n]
      BY <1>1, <1>2, <1>3, <1>4, <3>1, <3>3 DEF AllListed, DiscoverersListed, Idle
    <3> QED BY <1>5, <3>2, <3>3
  <2>3. WantedEntered'
    BY <1>1, <1>2, <1>5 DEF AllListed, WantedEntered
  <2> QED BY <2>1, <2>2, <2>3 DEF AllListed
<1>9. TakeTurns'
  BY <1>1, <1>2, Turns
<1>10. RetractedClosed'
  BY <1>1, <1>2 DEF RetractedClosed
<1>11. Informed'
  <2> SUFFICES ASSUME NEW n \in Methods, NEW d \in Discoverers, NEW p \in Providers,
                      d \in discoverers'[n], d \notin closed, p \in providers[n], p \notin closed,
                      ~Registering(p, n)', ~Asking(d, n)'
               PROVE  \/ Online(n, p) \in Elements(pending[d])
                      \/ IF Answering(d, n)' THEN p \in at'[d].hosts ELSE view[d][n][p] > 0
    BY <1>2 DEF Informed
  <2>1. d \in Conns /\ p \in Conns
    BY DEF Conns
  <2>2. d \in discoverers[n]
    BY <1>3, <1>4, <1>5 DEF Asking
  <2>3. ~Registering(p, n)
    BY <1>3, <1>4, <2>1 DEF Registering, Idle
  <2>4. ~Asking(d, n) /\ (Answering(d, n)' <=> Answering(d, n)) /\ (d # c => at'[d] = at[d])
    BY <1>3, <1>4, <2>1 DEF Asking, Answering, Idle
  <2>5. Answering(d, n) => d # c
    BY <1>3 DEF Answering, Idle
  <2> QED BY <1>1, <2>2, <2>3, <2>4, <2>5 DEF Informed
<1> QED BY <1>6, <1>7, <1>8, <1>9, <1>10, <1>11 DEF IInv

LEMMA AppendWantedKeepsIInv == ASSUME IInv, NEW c \in Conns, AppendWanted(c) PROVE IInv'
<1> DEFINE m == at[c].method
           x == [step |-> "hosts", method |-> m]
<1>1. TypesOK /\ TypeOK /\ PlacesOK /\ AllListed /\ TakeTurns /\ RetractedClosed /\ Informed
  BY DEF IInv, TypesOK
<1>2. /\ at[c].step = "appendWanted" /\ m \in Methods
      /\ at[c] = [step |-> "appendWanted", method |-> m]
      /\ c \notin closed /\ c \in Discoverers /\ c \in discoverers[m]
  BY <1>1, PlaceOf DEF AppendWanted, TypesOK, PlacesOK
<1>3. /\ wanted' = [wanted EXCEPT ![c] = @ \cup {m}]
      /\ at' = [at EXCEPT ![c] = x]
      /\ UNCHANGED <<provConns, methods, providers, discConns, discoverers,
                     pending, view, closed, asked, overlapped>>
  <2>1. [at[c] EXCEPT !.step = "hosts"] = x
    BY <1>2
  <2> QED BY <2>1 DEF AppendWanted
<1>4. x \in Place /\ x.step = "hosts" /\ x.method = m
  BY <1>2, Going
<1> HIDE DEF x
<1>5. /\ at'[c] = x /\ \A d \in Conns : d # c => at'[d] = at[d]
      /\ wanted'[c] = wanted[c] \cup {m} /\ \A d \in Conns : d # c => wanted'[d] = wanted[d]
      /\ wanted' \in [Conns -> SUBSET Methods]
  BY <1>1, <1>2, <1>3 DEF TypesOK, TypeOK
<1>6. TypesOK'
  <2>1. at' \in [Conns -> Place] /\ \A d \in Conns : at'[d].step \in Steps
    BY <1>1, <1>3, <1>4, PlaceOf DEF TypesOK
  <2> QED BY <1>1, <1>3, <1>5, <2>1 DEF TypesOK, TypeOK
<1>7. PlacesOK'
  BY <1>1, <1>2, <1>3, <1>4, <1>5 DEF PlacesOK
<1>8. AllListed'
  <2>1. ProvidersListed'
    BY <1>1, <1>2, <1>3, <1>4, <1>5 DEF AllListed, ProvidersListed, TypeOK, Conns
  <2>2. DiscoverersListed'
    <3> SUFFICES ASSUME NEW n \in Methods, NEW d \in discoverers[n]
                 PROVE  /\ d \in discConns
                        /\ n \in wanted'[d] \/ (at'[d].step = "appendWanted" /\ at'[d].method = n)
      BY <1>3 DEF DiscoverersListed
    <3>1. d \in Conns
      BY <1>1 DEF Conns, TypeOK
    <3> QED BY <1>1, <1>2, <1>5, <3>1 DEF AllListed, DiscoverersListed
  <2>3. WantedEntered'
    BY <1>1, <1>2, <1>3, <1>5 DEF AllListed, WantedEntered, Conns
  <2> QED BY <2>1, <2>2, <2>3 DEF AllListed
<1>9. TakeTurns'
  <2>1. at[c] # Idle
    BY <1>2 DEF Idle
  <2> QED BY <1>1, <1>3, <2>1, Turns
<1>10. RetractedClosed'
  BY <1>1, <1>3 DEF RetractedClosed
<1>11. Informed'
  <2> SUFFICES ASSUME NEW n \in Methods, NEW d \in Discoverers, NEW p \in Providers,
                      d \in discoverers[n], d \notin closed, p \in providers[n], p \notin closed,
                      ~Registering(p, n)', ~Asking(d, n)'
               PROVE  \/ Online(n, p) \in Elements(pending[d])
                      \/ IF Answering(d, n)' THEN p \in at'[d].hosts ELSE view[d][n][p] > 0
    BY <1>3 DEF Informed
  <2>1. d \in Conns /\ p \in Conns
    BY DEF Conns
  <2>2. ~Registering(p, n)
    BY <1>2, <1>5, <2>1 DEF Registering
  <2>3. ~Asking(d, n) /\ (Answering(d, n)' <=> Answering(d, n)) /\ (d # c => at'[d] = at[d])
    BY <1>2, <1>4, <1>5, <2>1 DEF Asking, Answering
  <2>4. Answering(d, n) => d # c
    BY <1>2 DEF Answering
  <2> QED BY <1>1, <2>2, <2>3, <2>4 DEF Informed
<1> QED BY <1>6, <1>7, <1>8, <1>9, <1>10, <1>11 DEF IInv

\* The hosts are read after the discoverer was entered: whoever is not among
\* them will be notified.
LEMMA GetHostsKeepsIInv == ASSUME IInv, NEW c \in Conns, GetHosts(c) PROVE IInv'
<1> DEFINE m == at[c].method
           x == [step |-> "answer", method |-> m, hosts |-> providers[m]]
<1>1. TypesOK /\ TypeOK /\ PlacesOK /\ AllListed /\ TakeTurns /\ RetractedClosed /\ Informed
  BY DEF IInv, TypesOK
<1>2. /\ at[c].step = "hosts" /\ m \in Methods
      /\ c \notin closed /\ c \in Discoverers /\ c \in discoverers[m]
  BY <1>1, PlaceOf DEF GetHosts, TypesOK, PlacesOK
<1>3. /\ at' = [at EXCEPT ![c] = x]
      /\ UNCHANGED <<provConns, methods, providers, discConns, wanted, discoverers,
                     pending, view, closed, asked, overlapped>>
  BY DEF GetHosts, tables
<1>4. x \in Place /\ x.step = "answer" /\ x.method = m /\ x.hosts = providers[m]
  BY <1>1, <1>2 DEF Place, TypeOK
<1> HIDE DEF x
<1>5. at'[c] = x /\ \A d \in Conns : d # c => at'[d] = at[d]
  BY <1>1, <1>3 DEF TypesOK
<1>6. TypesOK'
  <2>1. at' \in [Conns -> Place] /\ \A d \in Conns : at'[d].step \in Steps
    BY <1>1, <1>3, <1>4, PlaceOf DEF TypesOK
  <2> QED BY <1>1, <1>3, <2>1 DEF TypesOK, TypeOK
<1>7. PlacesOK'
  BY <1>1, <1>2, <1>3, <1>4, <1>5 DEF PlacesOK
<1>8. AllListed'
  <2>1. ProvidersListed'
    BY <1>1, <1>2, <1>3, <1>4, <1>5 DEF AllListed, ProvidersListed, TypeOK, Conns
  <2>2. DiscoverersListed'
    BY <1>1, <1>2, <1>3, <1>4, <1>5 DEF AllListed, DiscoverersListed, TypeOK, Conns
  <2>3. WantedEntered'
    BY <1>1, <1>3 DEF AllListed, WantedEntered
  <2> QED BY <2>1, <2>2, <2>3 DEF AllListed
<1>9. TakeTurns'
  <2>1. at[c] # Idle
    BY <1>2 DEF Idle
  <2> QED BY <1>1, <1>3, <2>1, Turns
<1>10. RetractedClosed'
  BY <1>1, <1>3 DEF RetractedClosed
<1>11. Informed'
  <2> SUFFICES ASSUME NEW n \in Methods, NEW d \in Discoverers, NEW p \in Providers,
                      d \in discoverers[n], d \notin closed, p \in providers[n], p \notin closed,
                      ~Registering(p, n)', ~Asking(d, n)'
               PROVE  \/ Online(n, p) \in Elements(pending[d])
                      \/ IF Answering(d, n)' THEN p \in at'[d].hosts ELSE view[d][n][p] > 0
    BY <1>3 DEF Informed
  <2>1. d \in Conns /\ p \in Conns
    BY DEF Conns
  <2>2. CASE d = c /\ n = m
    BY <1>4, <1>5, <2>2 DEF Answering
  <2>3. CASE ~(d = c /\ n = m)
    <3>1. ~Registering(p, n)
      BY <1>2, <1>5, <2>1 DEF Registering
    <3>2. ~Asking(d, n) /\ (Answering(d, n)' <=> Answering(d, n)) /\ (d # c => at'[d] = at[d])
      BY <1>2, <1>4, <1>5, <2>1, <2>3 DEF Asking, Answering
    <3>3. Answering(d, n) => d # c
      BY <1>2 DEF Answering
    <3> QED BY <1>1, <3>1, <3>2, <3>3 DEF Informed
  <2> QED BY <2>2, <2>3
<1> QED BY <1>6, <1>7, <1>8, <1>9, <1>10, <1>11 DEF IInv

LEMMA DiscoverResponseKeepsIInv ==
    ASSUME IInv, NEW c \in Conns, DiscoverResponse(c) PROVE IInv'
<1> DEFINE m == at[c].method
           found == at[c].hosts
<1>1. TypesOK /\ TypeOK /\ PlacesOK /\ AllListed /\ TakeTurns /\ RetractedClosed /\ Informed
  BY DEF IInv, TypesOK
<1>2. at[c].step = "answer" /\ m \in Methods /\ found \subseteq Providers /\ c \notin closed
  BY <1>1, PlaceOf DEF DiscoverResponse, TypesOK, PlacesOK
<1>3. /\ view' = [view EXCEPT ![c][m] = Learned(view[c][m], found)]
      /\ at' = [at EXCEPT ![c] = Idle]
      /\ UNCHANGED <<provConns, methods, providers, discConns, wanted, discoverers,
                     pending, closed, asked, overlapped>>
  BY DEF DiscoverResponse, tables
<1>4. at'[c] = Idle /\ \A d \in Conns : d # c => at'[d] = at[d]
  BY <1>1, <1>3 DEF TypesOK
<1>5. /\ Learned(view[c][m], found) \in [Providers -> Nat]
      /\ \A p \in found : Learned(view[c][m], found)[p] = 1
  <2>1. view[c][m] \in [Providers -> Nat]
    BY <1>1, <1>2 DEF TypeOK
  <2> QED BY <1>2, <2>1 DEF Learned
<1>6. /\ view' \in [Conns -> [Methods -> [Providers -> Nat]]]
      /\ view'[c][m] = Learned(view[c][m], found)
      /\ \A d \in Conns, n \in Methods : ~(d = c /\ n = m) => view'[d][n] = view[d][n]
  <2> DEFINE l == Learned(view[c][m], found)
  <2>1. view' = [view EXCEPT ![c] = [view[c] EXCEPT ![m] = l]]
    BY <1>3
  <2>2. view[c] \in [Methods -> [Providers -> Nat]]
    BY <1>1 DEF TypeOK
  <2>3. l \in [Providers -> Nat]
    BY <1>5
  <2> HIDE DEF l, m
  <2>4. /\ view' \in [Conns -> [Methods -> [Providers -> Nat]]]
        /\ view'[c][m] = l
        /\ \A d \in Conns, n \in Methods : ~(d = c /\ n = m) => view'[d][n] = view[d][n]
    BY <1>1, <1>2, <2>1, <2>2, <2>3 DEF TypeOK
  <2> QED BY <2>4 DEF l
<1> HIDE DEF m, found
<1>7. TypesOK'
  <2>1. at' \in [Conns -> Place] /\ \A d \in Conns : at'[d].step \in Steps
    BY <1>1, <1>3, Going, PlaceOf DEF TypesOK
  <2> QED BY <1>1, <1>3, <1>6, <2>1 DEF TypesOK, TypeOK
<1>8. PlacesOK'
  BY <1>1, <1>2, <1>3, <1>4, Going DEF PlacesOK
<1>9. AllListed'
  <2>1. ProvidersListed'
    BY <1>1, <1>2, <1>3, <1>4 DEF AllListed, ProvidersListed, TypeOK, Conns
  <2>2. DiscoverersListed'
    BY <1>1, <1>2, <1>3, <1>4 DEF AllListed, DiscoverersListed, TypeOK, Conns
  <2>3. WantedEntered'
    BY <1>1, <1>3 DEF AllListed, WantedEntered
  <2> QED BY <2>1, <2>2, <2>3 DEF AllListed
<1>10. TakeTurns'
  <2>1. at[c] # Idle
    BY <1>2 DEF Idle
  <2> QED BY <1>1, <1>3, <2>1, Turns
<1>11. RetractedClosed'
  BY <1>1, <1>3 DEF RetractedClosed
<1>12. Informed'
  <2> SUFFICES ASSUME NEW n \in Methods, NEW d \in Discoverers, NEW p \in Providers,
                      d \in discoverers[n], d \notin closed, p \in providers[n], p \notin closed,
                      ~Registering(p, n)', ~Asking(d, n)'
               PROVE  \/ Online(n, p) \in Elements(pending[d])
                      \/ IF Answering(d, n)' THEN p \in at'[d].hosts ELSE view'[d][n][p] > 0
    BY <1>3 DEF Informed
  <2>1. d \in Conns /\ p \in Conns
    BY DEF Conns
  <2>2. ~Registering(p, n)
    BY <1>2, <1>4, <2>1 DEF Registering
  <2>3. ~Asking(d, n)
    BY <1>2, <1>4, <2>1 DEF Asking
  <2>4. \/ Online(n, p) \in Elements(pending[d])
        \/ IF Answering(d, n) THEN p \in at[d].hosts ELSE view[d][n][p] > 0
    BY <1>1, <2>2, <2>3 DEF Informed
  <2>5. CASE d = c /\ n = m
    <3>1. Answering(d, n) /\ ~Answering(d, n)'
      BY <1>2, <1>4, <2>5 DEF Answering, Idle, m
    <3>2. p \in found => view'[d][n][p] > 0
      BY <1>5, <1>6, <2>5
    <3> QED BY <2>4, <2>5, <3>1, <3>2 DEF found
  <2>6. CASE ~(d = c /\ n = m)
    <3>1. (Answering(d, n)' <=> Answering(d, n)) /\ (Answering(d, n) => at'[d] = at[d])
      BY <1>2, <1>4, <2>1, <2>6 DEF Answering, Idle, m
    <3>2. view'[d][n] = view[d][n]
      BY <1>6, <2>1, <2>6
    <3> QED BY <2>4, <3>1, <3>2
  <2> QED BY <2>5, <2>6
<1> QED BY <1>7, <1>8, <1>9, <1>10, <1>11, <1>12 DEF IInv

LEMMA CloseKeepsIInv == ASSUME IInv, NEW c \in Conns, OnConnectionShutdown(c) PROVE IInv'
<1>1. TypesOK /\ TypeOK /\ PlacesOK /\ AllListed /\ TakeTurns /\ RetractedClosed /\ Informed
  BY DEF IInv, TypesOK
<1>2. PICK x \in Place :
        /\ x.step \in {"offline", "removeProvider", "removeDiscoverer"}
        /\ x.step = "removeDiscoverer" <=> c \notin provConns
        /\ at' = [at EXCEPT ![c] = x]
  <2>1. CASE c \in provConns
    <3>1. methods[c] \in Seq(Methods)
      BY <1>1 DEF TypeOK
    <3> QED BY <2>1, <3>1, RetractingPlace DEF OnConnectionShutdown
  <2>2. CASE c \notin provConns
    BY <2>2, Going DEF OnConnectionShutdown
  <2> QED BY <2>1, <2>2
<1>3. /\ LoopFree(c) /\ closed' = closed \cup {c}
      /\ pending' = [pending EXCEPT ![c] = <<>>]
      /\ overlapped' = overlapped \cup {<<d, c>> : d \in {e \in Conns : Discovering(e)}}
      /\ UNCHANGED <<provConns, methods, providers, discConns, wanted, discoverers, view, asked>>
  BY DEF OnConnectionShutdown, tables, MeetsDiscoveries
<1>4. /\ at[c] = Idle
      /\ at'[c] = x /\ \A d \in Conns : d # c => at'[d] = at[d]
      /\ pending'[c] = <<>> /\ \A d \in Conns : d # c => pending'[d] = pending[d]
  BY <1>1, <1>2, <1>3 DEF TypesOK, TypeOK, LoopFree, SameLoop
<1>5. TypesOK'
  <2>1. at' \in [Conns -> Place] /\ \A d \in Conns : at'[d].step \in Steps
    BY <1>1, <1>2, PlaceOf DEF TypesOK
  <2>2. pending' \in [Conns -> Seq(Notice)] /\ closed' \subseteq Conns
        /\ overlapped' \subseteq Conns \X Conns
    BY <1>1, <1>3, EmptySeq DEF TypeOK
  <2> QED BY <1>1, <1>3, <2>1, <2>2 DEF TypesOK, TypeOK
<1>6. PlacesOK'
  BY <1>1, <1>2, <1>3, <1>4 DEF PlacesOK
<1>7. AllListed'
  <2>1. ProvidersListed'
    BY <1>1, <1>2, <1>3, <1>4 DEF AllListed, ProvidersListed, TypeOK, Conns, Idle
  <2>2. DiscoverersListed'
    BY <1>1, <1>2, <1>3, <1>4 DEF AllListed, DiscoverersListed, TypeOK, Conns, Idle
  <2>3. WantedEntered'
    BY <1>1, <1>3 DEF AllListed, WantedEntered
  <2> QED BY <2>1, <2>2, <2>3 DEF AllListed
<1>8. TakeTurns'
  BY <1>1, <1>2, <1>3, Turns
<1>9. RetractedClosed'
  BY <1>1, <1>3, <1>4, NoElements DEF RetractedClosed
<1>10. Informed'
  <2> SUFFICES ASSUME NEW n \in Methods, NEW d \in Discoverers, NEW p \in Providers,
                      d \in discoverers[n], d \notin closed', p \in providers[n], p \notin closed',
                      ~Registering(p, n)', ~Asking(d, n)'
               PROVE  \/ Online(n, p) \in Elements(pending'[d])
                      \/ IF Answering(d, n)' THEN p \in at'[d].hosts ELSE view[d][n][p] > 0
    BY <1>3 DEF Informed
  <2>1. d \in Conns /\ p \in Conns /\ d # c /\ p # c /\ d \notin closed /\ p \notin closed
    BY <1>3 DEF Conns
  <2>2. at'[d] = at[d] /\ at'[p] = at[p] /\ pending'[d] = pending[d]
    BY <1>4, <2>1
  <2>3. ~Registering(p, n) /\ ~Asking(d, n) /\ (Answering(d, n)' <=> Answering(d, n))
    BY <2>2 DEF Registering, Asking, Answering
  <2> QED BY <1>1, <2>1, <2>2, <2>3 DEF Informed
<1> QED BY <1>5, <1>6, <1>7, <1>8, <1>9, <1>10 DEF IInv

\* What a discoverer is owed about the others does not depend on the handler
\* of a connection that has closed.
LEMMA ClosedHandler ==
    ASSUME TypesOK, Informed, NEW c \in closed, NEW x, at' = [at EXCEPT ![c] = x],
           UNCHANGED closed,
           \A m \in Methods : discoverers'[m] \subseteq discoverers[m],
           \A m \in Methods : providers'[m] \subseteq providers[m],
           \A d \in Discoverers : Elements(pending[d]) \subseteq Elements(pending'[d]),
           \A d \in Discoverers, m \in Methods, p \in Providers \ closed :
              view'[d][m][p] = view[d][m][p]
    PROVE  Informed'
<1> SUFFICES ASSUME NEW n \in Methods, NEW d \in Discoverers, NEW p \in Providers,
                    d \in discoverers'[n], d \notin closed, p \in providers'[n], p \notin closed,
                    ~Registering(p, n)', ~Asking(d, n)'
             PROVE  \/ Online(n, p) \in Elements(pending'[d])
                    \/ IF Answering(d, n)' THEN p \in at'[d].hosts ELSE view'[d][n][p] > 0
  BY DEF Informed
<1>1. at'[d] = at[d] /\ at'[p] = at[p]
  BY DEF TypesOK, Conns
<1>2. ~Registering(p, n) /\ ~Asking(d, n) /\ (Answering(d, n)' <=> Answering(d, n))
  BY <1>1 DEF Registering, Asking, Answering
<1>3. \/ Online(n, p) \in Elements(pending[d])
      \/ IF Answering(d, n) THEN p \in at[d].hosts ELSE view[d][n][p] > 0
  BY <1>2 DEF Informed
<1> QED BY <1>1, <1>2, <1>3

\* A provider that closes is retracted, and nobody else.
LEMMA OfflineNotifyKeepsIInv == ASSUME IInv, NEW c \in Conns, OfflineNotify(c) PROVE IInv'
<1> DEFINE m == Head(at[c].rest)
           x == [kind |-> "offline", method |-> m, host |-> c]
           y == Retracting(Tail(at[c].rest))
<1>1. TypesOK /\ TypeOK /\ PlacesOK /\ AllListed /\ TakeTurns /\ RetractedClosed /\ Informed
  BY DEF IInv, TypesOK
<1>2. /\ at[c].step = "offline" /\ at[c].rest \in Seq(Methods) /\ at[c].rest # <<>>
      /\ c \in closed /\ c \in provConns /\ c \in Providers
  BY <1>1, PlaceOf DEF OfflineNotify, TypesOK, TypeOK, PlacesOK
<1>3. m \in Methods /\ y \in Place /\ y.step \in {"offline", "removeProvider"}
  BY <1>2, Taking, RetractingPlace
<1>4. /\ Notify(c, discoverers[m], x)
      /\ at' = [at EXCEPT ![c] = y]
      /\ UNCHANGED <<provConns, methods, providers, discConns, wanted, discoverers,
                     closed, asked, overlapped>>
  BY DEF OfflineNotify, tables
<1>5. /\ x \in Notice /\ x.kind = "offline" /\ x.method = m /\ x.host = c
      /\ discoverers[m] \subseteq Discoverers
  BY <1>1, <1>2, <1>3 DEF Notice, TypeOK
<1> HIDE DEF m, x, y
<1>6. at'[c] = y /\ \A d \in Conns : d # c => at'[d] = at[d]
  BY <1>1, <1>4 DEF TypesOK
<1>7. Notified(c, discoverers[m], x)
  BY <1>1, <1>4, <1>5, Notifying
<1>8. TypesOK'
  <2>1. at' \in [Conns -> Place] /\ \A d \in Conns : at'[d].step \in Steps
    BY <1>1, <1>3, <1>4, PlaceOf DEF TypesOK
  <2> QED BY <1>1, <1>4, <1>7, <2>1 DEF TypesOK, TypeOK, Notified
<1>9. PlacesOK'
  BY <1>1, <1>2, <1>3, <1>4, <1>6 DEF PlacesOK
<1>10. AllListed'
  <2>1. ProvidersListed'
    <3> SUFFICES ASSUME NEW n \in Methods, NEW p \in providers[n]
                 PROVE  /\ p \in provConns
                        /\ \/ n \in Elements(methods[p])
                           \/ at'[p].step = "append" /\ at'[p].method = n
      BY <1>4 DEF ProvidersListed
    <3>1. p \in Conns
      BY <1>1 DEF TypeOK, Conns
    <3>2. /\ p \in provConns
          /\ n \in Elements(methods[p]) \/ (at[p].step = "append" /\ at[p].method = n)
      BY <1>1 DEF AllListed, ProvidersListed
    <3>3. p = c => at[p].step # "append"
      BY <1>2
    <3> QED BY <1>6, <3>1, <3>2, <3>3
  <2>2. DiscoverersListed'
    BY <1>1, <1>2, <1>3, <1>4, <1>6 DEF AllListed, DiscoverersListed, TypeOK, Conns
  <2>3. WantedEntered'
    BY <1>1, <1>4 DEF AllListed, WantedEntered
  <2> QED BY <2>1, <2>2, <2>3 DEF AllListed
<1>11. TakeTurns'
  <2>1. at[c] # Idle
    BY <1>2 DEF Idle
  <2> QED BY <1>1, <1>4, <2>1, Turns
<1>12. RetractedClosed'
  BY <1>1, <1>2, <1>4, <1>5, <1>7 DEF RetractedClosed, Notified
<1>13. Informed'
  <2>1. \A d \in Discoverers, n \in Methods, p \in Providers \ closed :
          view'[d][n][p] = view[d][n][p]
    <3> SUFFICES ASSUME NEW d \in Discoverers, NEW n \in Methods, NEW p \in Providers \ closed
                 PROVE  view'[d][n][p] = view[d][n][p]
      OBVIOUS
    <3>1. d \in Conns /\ p # x.host
      BY <1>2, <1>5 DEF Conns
    <3> QED BY <1>7, <3>1 DEF Notified
  <2>2. \A d \in Discoverers : Elements(pending[d]) \subseteq Elements(pending'[d])
    BY <1>7 DEF Notified, Conns
  <2> QED BY <1>1, <1>2, <1>4, <2>1, <2>2, ClosedHandler
<1> QED BY <1>8, <1>9, <1>10, <1>11, <1>12, <1>13 DEF IInv

\* The close finds its provider wherever it is listed.
LEMMA RemoveProviderKeepsIInv == ASSUME IInv, NEW c \in Conns, RemoveProvider(c) PROVE IInv'
<1> DEFINE x == [step |-> "removeDiscoverer"]
<1>1. TypesOK /\ TypeOK /\ PlacesOK /\ AllListed /\ TakeTurns /\ RetractedClosed /\ Informed
  BY DEF IInv, TypesOK
<1>2. /\ at[c].step = "removeProvider" /\ c \in closed
      /\ providers' = [m \in Methods |->
                          IF m \in Elements(methods[c]) THEN providers[m] \ {c} ELSE providers[m]]
      /\ provConns' = provConns \ {c}
      /\ at' = [at EXCEPT ![c] = x]
      /\ UNCHANGED <<methods, discConns, wanted, discoverers, pending, view,
                     closed, asked, overlapped>>
  BY <1>1 DEF RemoveProvider, PlacesOK, Elements
<1>3. x \in Place /\ x.step = "removeDiscoverer"
  BY Going
<1> HIDE DEF x
<1>4. at'[c] = x /\ \A d \in Conns : d # c => at'[d] = at[d]
  BY <1>1, <1>2 DEF TypesOK
<1>5. \A m \in Methods : providers'[m] = providers[m] \ {c}
  <2> SUFFICES ASSUME NEW m \in Methods, c \in providers[m] PROVE m \in Elements(methods[c])
    BY <1>2
  <2> QED BY <1>1, <1>2 DEF AllListed, ProvidersListed
<1>6. TypesOK'
  <2>1. at' \in [Conns -> Place] /\ \A d \in Conns : at'[d].step \in Steps
    BY <1>1, <1>2, <1>3, PlaceOf DEF TypesOK
  <2>2. providers' \in [Methods -> SUBSET Providers]
    BY <1>1, <1>2 DEF TypeOK
  <2> QED BY <1>1, <1>2, <2>1, <2>2 DEF TypesOK, TypeOK
<1>7. PlacesOK'
  BY <1>1, <1>2, <1>3, <1>4 DEF PlacesOK
<1>8. AllListed'
  <2>1. ProvidersListed'
    BY <1>1, <1>2, <1>4, <1>5 DEF AllListed, ProvidersListed, TypeOK, Conns
  <2>2. DiscoverersListed'
    BY <1>1, <1>2, <1>3, <1>4 DEF AllListed, DiscoverersListed, TypeOK, Conns
  <2>3. WantedEntered'
    BY <1>1, <1>2 DEF AllListed, WantedEntered
  <2> QED BY <2>1, <2>2, <2>3 DEF AllListed
<1>9. TakeTurns'
  <2>1. at[c] # Idle
    BY <1>2 DEF Idle
  <2> QED BY <1>1, <1>2, <2>1, Turns
<1>10. RetractedClosed'
  BY <1>1, <1>2 DEF RetractedClosed
<1>11. Informed'
  <2>1. \A m \in Methods : providers'[m] \subseteq providers[m]
    BY <1>5
  <2> QED BY <1>1, <1>2, <2>1, ClosedHandler
<1> QED BY <1>6, <1>7, <1>8, <1>9, <1>10, <1>11 DEF IInv

LEMMA RemoveDiscovererKeepsIInv ==
    ASSUME IInv, NEW c \in Conns, RemoveDiscoverer(c) PROVE IInv'
<1>1. TypesOK /\ TypeOK /\ PlacesOK /\ AllListed /\ TakeTurns /\ RetractedClosed /\ Informed
  BY DEF IInv, TypesOK
<1>2. /\ at[c].step = "removeDiscoverer" /\ c \in closed /\ c \notin provConns
      /\ discoverers' = [m \in Methods |->
                            IF c \in discConns /\ m \in wanted[c]
                            THEN discoverers[m] \ {c} ELSE discoverers[m]]
      /\ discConns' = discConns \ {c}
      /\ at' = [at EXCEPT ![c] = Idle]
      /\ UNCHANGED <<provConns, methods, providers, wanted, pending, view,
                     closed, asked, overlapped>>
  BY <1>1 DEF RemoveDiscoverer, PlacesOK
<1>3. at'[c] = Idle /\ \A d \in Conns : d # c => at'[d] = at[d]
  BY <1>1, <1>2 DEF TypesOK
<1>4. \A m \in Methods : discoverers'[m] = discoverers[m] \ {c}
  <2> SUFFICES ASSUME NEW m \in Methods, c \in discoverers[m]
               PROVE  c \in discConns /\ m \in wanted[c]
    BY <1>2
  <2> QED BY <1>1, <1>2 DEF AllListed, DiscoverersListed
<1>5. TypesOK'
  <2>1. at' \in [Conns -> Place] /\ \A d \in Conns : at'[d].step \in Steps
    BY <1>1, <1>2, Going, PlaceOf DEF TypesOK
  <2>2. discoverers' \in [Methods -> SUBSET Discoverers]
    BY <1>1, <1>2 DEF TypeOK
  <2> QED BY <1>1, <1>2, <2>1, <2>2 DEF TypesOK, TypeOK
<1>6. PlacesOK'
  <2> SUFFICES ASSUME NEW d \in Conns, d # c, at[d].step \in {"appendWanted", "hosts", "answer"}
               PROVE  d \in discoverers'[at[d].method]
    BY <1>1, <1>2, <1>3, Going DEF PlacesOK
  <2>1. at[d] \in Place /\ d \in discoverers[at[d].method]
    BY <1>1 DEF TypesOK, PlacesOK
  <2>2. at[d].method \in Methods
    BY <2>1, PlaceOf
  <2> QED BY <1>4, <2>1, <2>2
<1>7. AllListed'
  <2>1. ProvidersListed'
    BY <1>1, <1>2, <1>3 DEF AllListed, ProvidersListed, TypeOK, Conns
  <2>2. DiscoverersListed'
    BY <1>1, <1>2, <1>3, <1>4 DEF AllListed, DiscoverersListed, TypeOK, Conns
  <2>3. WantedEntered'
    BY <1>1, <1>2, <1>4 DEF AllListed, WantedEntered
  <2> QED BY <2>1, <2>2, <2>3 DEF AllListed
<1>8. TakeTurns'
  <2>1. at[c] # Idle
    BY <1>2 DEF Idle
  <2> QED BY <1>1, <1>2, <2>1, Turns
<1>9. RetractedClosed'
  BY <1>1, <1>2 DEF RetractedClosed
<1>10. Informed'
  <2>1. \A m \in Methods : discoverers'[m] \subseteq discoverers[m]
    BY <1>4
  <2> QED BY <1>1, <1>2, <2>1, ClosedHandler
<1> QED BY <1>5, <1>6, <1>7, <1>8, <1>9, <1>10 DEF IInv

LEMMA SendQueuedKeepsIInv == ASSUME IInv, NEW c \in Conns, SendQueued(c) PROVE IInv'
<1> DEFINE x == Head(pending[c])
           h == Noted(view[c][x.method], x)
<1>1. TypesOK /\ TypeOK /\ PlacesOK /\ AllListed /\ TakeTurns /\ RetractedClosed /\ Informed
  BY DEF IInv, TypesOK
<1>2. /\ LoopFree(c) /\ pending[c] # <<>>
      /\ pending' = [pending EXCEPT ![c] = Tail(@)]
      /\ view' = [view EXCEPT ![c] = [view[c] EXCEPT ![x.method] = h]]
      /\ UNCHANGED <<provConns, methods, providers, discConns, wanted, discoverers, at,
                     closed, asked, overlapped>>
  BY DEF SendQueued, tables
<1>3. /\ x \in Notice /\ Tail(pending[c]) \in Seq(Notice)
      /\ Elements(pending[c]) = Elements(Tail(pending[c])) \cup {x}
  <2>1. pending[c] \in Seq(Notice)
    BY <1>1 DEF TypeOK
  <2> QED BY <1>2, <2>1, Taking
<1> HIDE DEF x
<1>4. x.method \in Methods /\ x.host \in Providers /\ x.kind \in {"online", "offline"}
  BY <1>3 DEF Notice
<1>5. /\ h \in [Providers -> Nat]
      /\ \A p \in Providers : p # x.host => h[p] = view[c][x.method][p]
      /\ x.kind = "online" => h[x.host] > 0
  <2>1. view[c][x.method] \in [Providers -> Nat]
    BY <1>1, <1>4 DEF TypeOK
  <2>2. CASE x.kind = "online"
    BY <1>4, <2>1, <2>2 DEF Noted
  <2>3. CASE x.kind # "online"
    BY <1>4, <2>1, <2>3 DEF Noted
  <2> QED BY <2>2, <2>3
<1> HIDE DEF h
<1>6. /\ pending'[c] = Tail(pending[c]) /\ \A d \in Conns : d # c => pending'[d] = pending[d]
      /\ view'[c][x.method] = h
      /\ \A d \in Conns, n \in Methods : ~(d = c /\ n = x.method) => view'[d][n] = view[d][n]
  <2>1. view[c] \in [Methods -> [Providers -> Nat]]
    BY <1>1 DEF TypeOK
  <2> QED BY <1>1, <1>2, <1>4, <2>1 DEF TypeOK
<1>7. TypesOK'
  <2>1. pending' \in [Conns -> Seq(Notice)]
    BY <1>1, <1>2, <1>3 DEF TypeOK
  <2>2. view' \in [Conns -> [Methods -> [Providers -> Nat]]]
    <3>1. [view[c] EXCEPT ![x.method] = h] \in [Methods -> [Providers -> Nat]]
      BY <1>1, <1>4, <1>5 DEF TypeOK
    <3> QED BY <1>1, <1>2, <3>1 DEF TypeOK
  <2> QED BY <1>1, <1>2, <2>1, <2>2 DEF TypesOK, TypeOK
<1>8. PlacesOK' /\ TakeTurns'
  BY <1>1, <1>2 DEF PlacesOK, TakeTurns
<1>9. AllListed'
  BY <1>1, <1>2 DEF AllListed, ProvidersListed, DiscoverersListed, WantedEntered
<1>10. RetractedClosed'
  BY <1>1, <1>2, <1>3, <1>6 DEF RetractedClosed
<1>11. Informed'
  <2> SUFFICES ASSUME NEW n \in Methods, NEW d \in Discoverers, NEW p \in Providers,
                      d \in discoverers[n], d \notin closed, p \in providers[n], p \notin closed,
                      ~Registering(p, n), ~Asking(d, n)
               PROVE  \/ Online(n, p) \in Elements(pending'[d])
                      \/ IF Answering(d, n) THEN p \in at[d].hosts ELSE view'[d][n][p] > 0
    BY <1>2 DEF Informed, Registering, Asking, Answering
  <2>1. \/ Online(n, p) \in Elements(pending[d])
        \/ IF Answering(d, n) THEN p \in at[d].hosts ELSE view[d][n][p] > 0
    BY <1>1 DEF Informed
  <2>2. d \in Conns
    BY DEF Conns
  <2>3. CASE d # c
    BY <1>6, <2>1, <2>2, <2>3
  <2>4. CASE d = c
    <3>1. ~Answering(d, n)
      BY <1>2, <2>4 DEF Answering, LoopFree, SameLoop, Idle
    <3>2. CASE x = Online(n, p)
      <4>1. x.kind = "online" /\ x.method = n /\ x.host = p
        BY <3>2 DEF Online
      <4> QED BY <1>5, <1>6, <2>4, <3>1, <4>1
    <3>3. CASE n = x.method /\ p = x.host /\ x # Online(n, p)
      <4>1. x.kind = "offline"
        BY <1>3, <3>3 DEF Notice, Online
      <4>2. x \in Elements(pending[c])
        BY <1>3
      <4> QED BY <1>1, <3>3, <4>1, <4>2 DEF RetractedClosed
    <3>4. CASE ~(n = x.method /\ p = x.host) /\ x # Online(n, p)
      <4>1. view'[d][n][p] = view[d][n][p]
        BY <1>5, <1>6, <2>2, <2>4, <3>4
      <4>2. Online(n, p) \in Elements(pending[d]) => Online(n, p) \in Elements(pending'[d])
        BY <1>3, <1>6, <2>4, <3>4
      <4> QED BY <2>1, <3>1, <4>1, <4>2
    <3> QED BY <3>2, <3>3, <3>4
  <2> QED BY <2>3, <2>4
<1> QED BY <1>7, <1>8, <1>9, <1>10, <1>11 DEF IInv

-----------------------------------------------------------------------------
(* The theorems.                                                           *)

LEMMA NextKeepsIInv == IInv /\ [Next]_vars => IInv'
<1> SUFFICES ASSUME IInv, [Next]_vars PROVE IInv'
  OBVIOUS
<1>1. ASSUME NEW c \in Conns, NEW m \in Methods, AddProvider(c, m) PROVE IInv'
  BY <1>1, AddProviderKeepsIInv
<1>2. ASSUME NEW c \in Conns, NEW m \in Methods, AddDiscoverer(c, m) PROVE IInv'
  BY <1>2, AddDiscovererKeepsIInv
<1>3. ASSUME NEW c \in Conns, OnConnectionShutdown(c) PROVE IInv'
  BY <1>3, CloseKeepsIInv
<1>4. ASSUME NEW c \in Conns, AppendMethod(c) PROVE IInv'
  BY <1>4, AppendMethodKeepsIInv
<1>5. ASSUME NEW c \in Conns, OnlineNotify(c) PROVE IInv'
  BY <1>5, OnlineNotifyKeepsIInv
<1>6. ASSUME NEW c \in Conns, AppendWanted(c) PROVE IInv'
  BY <1>6, AppendWantedKeepsIInv
<1>7. ASSUME NEW c \in Conns, GetHosts(c) PROVE IInv'
  BY <1>7, GetHostsKeepsIInv
<1>8. ASSUME NEW c \in Conns, DiscoverResponse(c) PROVE IInv'
  BY <1>8, DiscoverResponseKeepsIInv
<1>9. ASSUME NEW c \in Conns, OfflineNotify(c) PROVE IInv'
  BY <1>9, OfflineNotifyKeepsIInv
<1>10. ASSUME NEW c \in Conns, RemoveProvider(c) PROVE IInv'
  BY <1>10, RemoveProviderKeepsIInv
<1>11. ASSUME NEW c \in Conns, RemoveDiscoverer(c) PROVE IInv'
  BY <1>11, RemoveDiscovererKeepsIInv
<1>12. ASSUME NEW c \in Conns, SendQueued(c) PROVE IInv'
  BY <1>12, SendQueuedKeepsIInv
<1>13. CASE UNCHANGED vars
  <2>1. TypesOK' /\ PlacesOK' /\ AllListed' /\ TakeTurns' /\ RetractedClosed'
    BY <1>13 DEF vars, IInv, TypesOK, TypeOK, PlacesOK, AllListed, ProvidersListed,
                 DiscoverersListed, WantedEntered, TakeTurns, RetractedClosed
  <2>2. Informed'
    BY <1>13 DEF vars, IInv, Informed, Registering, Asking, Answering
  <2> QED BY <2>1, <2>2 DEF IInv
<1> QED BY <1>1, <1>2, <1>3, <1>4, <1>5, <1>6, <1>7, <1>8, <1>9, <1>10, <1>11, <1>12, <1>13
        DEF Next, Step, Request, HandlerStep

\* However the handlers of the loops interleave, the inductive invariant holds.
THEOREM Invariance == Spec => []IInv
BY InitIInv, NextKeepsIInv, PTL DEF Spec

\* ProviderDiscovererManager: the tables of each manager agree with each other
\* and with what the close of a connection goes by, and name no connection
\* whose close has been handled.
THEOREM TablesAreExact == Spec => []TablesInv
<1>1. IInv => TablesInv
  <2> SUFFICES ASSUME IInv PROVE TablesInv
    OBVIOUS
  <2>1. TypeOK /\ TypesOK /\ PlacesOK /\ ProvidersListed /\ DiscoverersListed
    BY DEF IInv, TypesOK, AllListed
  <2>2. ASSUME NEW m \in Methods, NEW p \in Conns
        PROVE  m \in Elements(methods[p]) => Registrations(p, m) > 0
    <3>1. methods[p] \in Seq(Methods)
      BY <2>1 DEF TypeOK
    <3> QED BY <3>1, Counting DEF Registrations
  <2>3. TablesAgree
    BY <2>1, <2>2 DEF TablesAgree, ProvidersListed, DiscoverersListed, TypeOK, Conns
  <2>4. ForgottenAfterClose
    <3> SUFFICES ASSUME NEW c \in closed, at[c] = Idle
                 PROVE  /\ c \notin provConns \cup discConns
                        /\ \A m \in Methods : c \notin providers[m] \cup discoverers[m]
      BY DEF ForgottenAfterClose, Handling
    <3>1. c \notin provConns \cup discConns
      BY <2>1, Going DEF PlacesOK, TypeOK
    <3> QED BY <2>1, <3>1 DEF ProvidersListed, DiscoverersListed
  <2> QED BY <2>1, <2>3, <2>4 DEF TablesInv
<1> QED BY <1>1, Invariance, PTL

\* A discoverer misses no provider, however its request and the registration
\* interleave: OnServiceRequest enters it before it reads the hosts.
THEOREM NoProviderMissed == Spec => []ViewComplete
<1>1. IInv => ViewComplete
  <2> SUFFICES ASSUME IInv, NEW m \in Methods, NEW d \in Discoverers \ closed,
                      NEW p \in providers[m] \ closed,
                      m \in wanted[d], at[d] = Idle, ~Registering(p, m)
               PROVE  view[d][m][p] + Waiting(d, m, p, "online") > 0
    BY DEF ViewComplete, Handling
  <2>1. TypeOK /\ Informed /\ WantedEntered
    BY DEF IInv, TypesOK, AllListed
  <2>2. /\ p \in Providers /\ d \in Conns /\ d \in discoverers[m]
        /\ view[d][m][p] \in Nat /\ pending[d] \in Seq(Notice)
    BY <2>1 DEF TypeOK, Conns, WantedEntered
  <2>3. ~Asking(d, m) /\ ~Answering(d, m)
    BY DEF Asking, Answering, Idle
  <2>4. Online(m, p) \in Elements(pending[d]) \/ view[d][m][p] > 0
    BY <2>1, <2>2, <2>3 DEF Informed
  <2>5. /\ Waiting(d, m, p, "online") \in Nat
        /\ Online(m, p) \in Elements(pending[d]) => Waiting(d, m, p, "online") > 0
    <3>1. Waiting(d, m, p, "online") =
            Cardinality({i \in DOMAIN pending[d] : pending[d][i] = Online(m, p)})
      BY DEF Waiting, Online
    <3> DEFINE s == pending[d]
               e == Online(m, p)
    <3>2. s \in Seq(Notice)
      BY <2>2
    <3> HIDE DEF s, e
    <3>3. /\ Cardinality({i \in DOMAIN s : s[i] = e}) \in Nat
          /\ Cardinality({i \in DOMAIN s : s[i] = e}) > 0 <=> e \in Elements(s)
      BY <3>2, Counting
    <3> QED BY <3>1, <3>3 DEF s, e
  <2> QED BY <2>2, <2>4, <2>5
<1> QED BY <1>1, Invariance, PTL

-----------------------------------------------------------------------------
(* The balance of what a discoverer is told: its invariant.                *)

Count(s, S) == Cardinality({i \in DOMAIN s : s[i] \in S})
Copies(s, e) == Count(s, {e})

Offline(m, p) == [kind |-> "offline", method |-> m, host |-> p]

\* The notice a registration still owes, and those a close still owes.
Owed(p, m) == IF at[p].step = "online" /\ at[p].method = m THEN 1 ELSE 0
Rest(p, m) == IF at[p].step = "offline" THEN Copies(at[p].rest, m) ELSE 0

\* An open provider is found under what it has registered.
MethodsEntered ==
    \A p \in Providers \ closed :
        /\ \A m \in Elements(methods[p]) : p \in providers[m]
        /\ at[p].step = "append" => p \in providers[at[p].method]

\* Who has not asked for a method has been sent nothing about it.
Unasked ==
    \A m \in Methods : \A d \in Discoverers \ (closed \cup discoverers[m]) :
        /\ \A p \in Providers : view[d][m][p] = 0
        /\ \A x \in Elements(pending[d]) : x.method # m

\* The notices of a close are queued behind those of the registrations.
InTurn ==
    \A d \in Conns : \A i, j \in DOMAIN pending[d] :
        i < j /\ pending[d][i].kind = "offline" /\ pending[d][j].host = pending[d][i].host
            => pending[d][j].kind = "offline"

\* A host in the discoverer's loop is never announced by way of the queue.
Remote == \A d \in Conns : \A x \in Elements(pending[d]) : ~SameLoop(x.host, d)

\* What a discover request that met no change of p can rely on.
MeetNothing ==
    \A d \in Discoverers, p \in Providers :
        Discovering(d) /\ <<d, p>> \notin overlapped =>
            /\ ~Changing(p)
            /\ \A x \in Elements(pending[d]) : x.host # p
            /\ at[d].step = "answer" /\ p \in at[d].hosts => p \in providers[at[d].method]

\* ViewBalanced while handlers are under way.
Balanced ==
    \A m \in Methods, d \in Discoverers \ closed, p \in Providers :
        <<d, p>> \notin overlapped =>
            view[d][m][p] + Copies(pending[d], Online(m, p)) + Owed(p, m) <=
                IF p \in closed THEN Copies(pending[d], Offline(m, p)) + Rest(p, m)
                ELSE Copies(methods[p], m)

Balance == MethodsEntered /\ Unasked /\ InTurn /\ Remote /\ MeetNothing /\ Balanced

LEMMA CountIs ==
    ASSUME NEW T, NEW s \in Seq(T), NEW S
    PROVE  /\ IsFiniteSet({i \in DOMAIN s : s[i] \in S})
           /\ Count(s, S) \in Nat
           /\ \A x \in Elements(s) : x \in S => Count(s, S) > 0
           /\ Count(<<>>, S) = 0
<1> DEFINE I == {i \in DOMAIN s : s[i] \in S}
<1>1. DOMAIN s = 1..Len(s) /\ Len(s) \in Nat
  BY LenProperties
<1>2. IsFiniteSet(1..Len(s))
  BY <1>1, FS_Interval
<1>3. IsFiniteSet(I)
  BY <1>1, <1>2, FS_Subset
<1>4. Cardinality(I) \in Nat /\ (Cardinality(I) = 0 <=> I = {})
  BY <1>3, FS_CardinalityType, FS_EmptySet
<1>5. ASSUME NEW x \in Elements(s), x \in S PROVE I # {}
  BY <1>5 DEF Elements
<1>6. {i \in DOMAIN <<>> : <<>>[i] \in S} = {}
  OBVIOUS
<1>7. Count(<<>>, S) = 0
  BY <1>6, FS_EmptySet DEF Count
<1>8. Count(s, S) = Cardinality(I)
  BY DEF Count
<1> HIDE DEF I
<1>9. \A x \in Elements(s) : x \in S => Count(s, S) > 0
  BY <1>4, <1>5, <1>8
<1> QED BY <1>3, <1>4, <1>7, <1>8, <1>9 DEF I

LEMMA CountAppended ==
    ASSUME NEW T, NEW s \in Seq(T), NEW e \in T, NEW S
    PROVE  Count(Append(s, e), S) = Count(s, S) + (IF e \in S THEN 1 ELSE 0)
<1> DEFINE I == {i \in DOMAIN s : s[i] \in S}
           J == {i \in DOMAIN Append(s, e) : Append(s, e)[i] \in S}
<1>1. /\ DOMAIN s = 1..Len(s) /\ Len(s) \in Nat
      /\ DOMAIN Append(s, e) = 1..(Len(s) + 1)
      /\ \A i \in 1..Len(s) : Append(s, e)[i] = s[i]
      /\ Append(s, e)[Len(s) + 1] = e
  BY Appending, LenProperties
<1>2. \A i : i \in 1..(Len(s) + 1) <=> (i \in 1..Len(s) \/ i = Len(s) + 1)
  BY <1>1
<1>3. Len(s) + 1 \notin I
  BY <1>1
<1>4. J = IF e \in S THEN I \cup {Len(s) + 1} ELSE I
  BY <1>1, <1>2
<1>5. IsFiniteSet(I) /\ Cardinality(I) \in Nat
  BY CountIs DEF Count
<1>6. Count(s, S) = Cardinality(I) /\ Count(Append(s, e), S) = Cardinality(J)
  BY DEF Count
<1> HIDE DEF I, J
<1>7. Cardinality(I \cup {Len(s) + 1}) = Cardinality(I) + 1
  BY <1>3, <1>5, FS_AddElement
<1>8. CASE e \in S
  BY <1>4, <1>6, <1>7, <1>8
<1>9. CASE e \notin S
  BY <1>4, <1>5, <1>6, <1>9
<1> QED BY <1>8, <1>9

LEMMA CountTaken ==
    ASSUME NEW T, NEW s \in Seq(T), s # <<>>, NEW S
    PROVE  Count(s, S) = Count(Tail(s), S) + (IF Head(s) \in S THEN 1 ELSE 0)
<1> DEFINE I == {i \in DOMAIN s : s[i] \in S}
           J == {i \in DOMAIN Tail(s) : Tail(s)[i] \in S}
           K == I \ {1}
           f == [i \in J |-> i + 1]
<1>1. /\ Tail(s) \in Seq(T) /\ Len(Tail(s)) = Len(s) - 1 /\ Len(s) > 0 /\ Len(s) \in Nat
      /\ \A i \in 1..Len(Tail(s)) : Tail(s)[i] = s[i + 1]
      /\ Head(s) = s[1]
      /\ DOMAIN s = 1..Len(s) /\ DOMAIN Tail(s) = 1..Len(Tail(s))
  BY Taking, LenProperties
<1>2. IsFiniteSet(I) /\ IsFiniteSet(J) /\ Cardinality(I) \in Nat /\ Cardinality(J) \in Nat
  BY <1>1, CountIs DEF Count
<1>3. Count(s, S) = Cardinality(I) /\ Count(Tail(s), S) = Cardinality(J)
  BY DEF Count
<1>4. 1 \in I <=> Head(s) \in S
  BY <1>1
<1>5. \A i \in J : i \in 1..Len(Tail(s)) /\ Tail(s)[i] \in S
  BY <1>1
<1>6. \A i \in 1..Len(Tail(s)) : i + 1 \in 1..Len(s) /\ i + 1 # 1
  BY <1>1
<1>7. \A i \in J : f[i] \in K
  BY <1>1, <1>5, <1>6
<1>8. ASSUME NEW k \in K PROVE k - 1 \in J /\ (k - 1) + 1 = k
  <2>1. k \in 1..Len(s) /\ k # 1 /\ s[k] \in S
    BY <1>1
  <2>2. k - 1 \in 1..Len(Tail(s)) /\ (k - 1) + 1 = k
    BY <1>1, <2>1
  <2>3. Tail(s)[k - 1] = s[k]
    BY <1>1, <2>2
  <2> QED BY <1>1, <2>1, <2>2, <2>3
<1>9. \A i, j \in J : f[i] = f[j] => i = j
  BY <1>1, <1>5
<1>10. f \in Bijection(J, K)
  BY <1>7, <1>8, <1>9 DEF Bijection, Injection, IsInjective, Surjection
<1>11. Cardinality(K) = Cardinality(J)
  BY <1>2, <1>10, FS_Bijection DEF ExistsBijection
<1>12. Cardinality(K) = IF 1 \in I THEN Cardinality(I) - 1 ELSE Cardinality(I)
  BY <1>2, FS_RemoveElement
<1> HIDE DEF I, J, K
<1> QED BY <1>2, <1>3, <1>4, <1>11, <1>12

LEMMA CopiesAre ==
    ASSUME NEW T, NEW s \in Seq(T), NEW e
    PROVE  /\ Copies(s, e) \in Nat
           /\ e \in Elements(s) => Copies(s, e) > 0
           /\ e \notin Elements(s) => Copies(s, e) = 0
           /\ \A x \in T : Copies(Append(s, x), e) = Copies(s, e) + (IF x = e THEN 1 ELSE 0)
           /\ s # <<>> => Copies(s, e) = Copies(Tail(s), e) + (IF Head(s) = e THEN 1 ELSE 0)
           /\ Copies(<<>>, e) = 0
<1>1. Copies(s, e) \in Nat /\ Copies(<<>>, e) = 0
  BY CountIs DEF Copies
<1>2. e \in Elements(s) => Copies(s, e) > 0
  BY CountIs DEF Copies
<1>3. e \notin Elements(s) => Copies(s, e) = 0
  <2>1. e \notin Elements(s) => {i \in DOMAIN s : s[i] \in {e}} = {}
    BY DEF Elements
  <2> QED BY <2>1, FS_EmptySet DEF Copies, Count
<1>4. \A x \in T : Copies(Append(s, x), e) = Copies(s, e) + (IF x = e THEN 1 ELSE 0)
  <2> SUFFICES ASSUME NEW x \in T
               PROVE  Count(Append(s, x), {e}) = Count(s, {e}) + (IF x = e THEN 1 ELSE 0)
    BY DEF Copies
  <2>1. Count(Append(s, x), {e}) = Count(s, {e}) + (IF x \in {e} THEN 1 ELSE 0)
    BY CountAppended
  <2> QED BY <2>1
<1>5. s # <<>> => Copies(s, e) = Copies(Tail(s), e) + (IF Head(s) = e THEN 1 ELSE 0)
  <2> SUFFICES ASSUME s # <<>>
               PROVE  Count(s, {e}) = Count(Tail(s), {e}) + (IF Head(s) = e THEN 1 ELSE 0)
    BY DEF Copies
  <2>1. Count(s, {e}) = Count(Tail(s), {e}) + (IF Head(s) \in {e} THEN 1 ELSE 0)
    BY CountTaken
  <2> QED BY <2>1
<1> QED BY <1>1, <1>2, <1>3, <1>4, <1>5

\* Only the handler that steps owes something else than before.
LEMMA OnePlaceChanges ==
    ASSUME TypesOK, NEW c \in Conns, NEW x, at' = [at EXCEPT ![c] = x]
    PROVE  /\ at'[c] = x
           /\ \A p \in Conns \ {c} :
                /\ at'[p] = at[p]
                /\ \A m : Owed(p, m)' = Owed(p, m) /\ Rest(p, m)' = Rest(p, m)
                /\ Changing(p)' <=> Changing(p)
                /\ Discovering(p)' <=> Discovering(p)
<1>1. at'[c] = x /\ \A p \in Conns \ {c} : at'[p] = at[p]
  BY DEF TypesOK
<1> QED BY <1>1 DEF Owed, Rest, Changing, Discovering

\* Most steps send nothing, and owe as much as before.
LEMMA QuietStep ==
    ASSUME IInv, Balance, NEW c \in Conns, NEW x, at' = [at EXCEPT ![c] = x],
           at[c].step \notin {"online", "offline"}, x.step \notin {"online", "offline"},
           UNCHANGED <<methods, pending, view, closed>>, overlapped \subseteq overlapped'
    PROVE  InTurn' /\ Remote' /\ Balanced'
<1>1. TypesOK
  BY DEF IInv
<1>2. InTurn' /\ Remote'
  BY DEF Balance, InTurn, Remote
<1>3. \A p \in Conns, m \in Methods : Owed(p, m)' = Owed(p, m) /\ Rest(p, m)' = Rest(p, m)
  BY <1>1, OnePlaceChanges DEF Owed, Rest
<1>4. Balanced'
  BY <1>3 DEF Balance, Balanced, Conns
<1> QED BY <1>2, <1>4

LEMMA AddProviderKeepsBalance ==
    ASSUME IInv, Balance, NEW c \in Conns, NEW m \in Methods, AddProvider(c, m) PROVE Balance'
<1> DEFINE x == [step |-> "append", method |-> m]
<1>1. TypesOK /\ TypeOK
  BY DEF IInv, TypesOK
<1>2. /\ c \in Providers /\ at[c] = Idle
      /\ providers' = [providers EXCEPT ![m] = @ \cup {c}]
      /\ at' = [at EXCEPT ![c] = x]
      /\ overlapped' = overlapped \cup {<<d, c>> : d \in {e \in Conns : Discovering(e)}}
      /\ UNCHANGED <<methods, discoverers, pending, view, closed>>
  BY DEF AddProvider, MayAsk, LoopFree, SameLoop, MeetsDiscoveries
<1>3. x.step = "append" /\ x.method = m /\ at[c].step = "idle"
  BY <1>2, Going
<1> HIDE DEF x
<1>4. \A n \in Methods : providers[n] \subseteq providers'[n] /\ (n = m => c \in providers'[n])
  BY <1>1, <1>2 DEF TypeOK
<1>5. /\ at'[c] = x
      /\ \A p \in Conns \ {c} : /\ at'[p] = at[p]
                                /\ Changing(p)' <=> Changing(p)
                                /\ Discovering(p)' <=> Discovering(p)
  BY <1>1, <1>2, OnePlaceChanges
<1>6. InTurn' /\ Remote' /\ Balanced'
  BY <1>2, <1>3, QuietStep
<1>7. MethodsEntered'
  <2> SUFFICES ASSUME NEW p \in Providers \ closed
               PROVE  /\ \A n \in Elements(methods[p]) : p \in providers'[n]
                      /\ at'[p].step = "append" => p \in providers'[at'[p].method]
    BY <1>2 DEF MethodsEntered
  <2>1. p \in Conns /\ at[p] \in Place /\ methods[p] \in Seq(Methods)
    BY <1>1 DEF Conns, TypesOK, TypeOK
  <2>2. Elements(methods[p]) \subseteq Methods
    BY <2>1, ElementsIn
  <2>3. /\ \A n \in Elements(methods[p]) : p \in providers[n]
        /\ at[p].step = "append" => p \in providers[at[p].method] /\ at[p].method \in Methods
    BY <2>1, PlaceOf DEF Balance, MethodsEntered
  <2> QED BY <1>3, <1>4, <1>5, <2>1, <2>2, <2>3
<1>8. Unasked'
  BY <1>2 DEF Balance, Unasked
<1>9. MeetNothing'
  <2> SUFFICES ASSUME NEW d \in Discoverers, NEW p \in Providers,
                      Discovering(d)', <<d, p>> \notin overlapped'
               PROVE  /\ ~Changing(p)'
                      /\ \A y \in Elements(pending[d]) : y.host # p
                      /\ at'[d].step = "answer" /\ p \in at'[d].hosts =>
                            p \in providers'[at'[d].method]
    BY <1>2 DEF MeetNothing
  <2>1. d \in Conns /\ p \in Conns /\ d # c
    BY <1>3, <1>5 DEF Conns, Discovering
  <2>2. Discovering(d) /\ p # c /\ <<d, p>> \notin overlapped /\ at'[d] = at[d]
    BY <1>2, <1>5, <2>1
  <2>3. at[d].step = "answer" => at[d].method \in Methods
    BY <1>1, <2>1, PlaceOf DEF TypesOK
  <2> QED BY <1>4, <1>5, <2>1, <2>2, <2>3 DEF Balance, MeetNothing
<1> QED BY <1>6, <1>7, <1>8, <1>9 DEF Balance

LEMMA AddDiscovererKeepsBalance ==
    ASSUME IInv, Balance, NEW c \in Conns, NEW m \in Methods, AddDiscoverer(c, m) PROVE Balance'
<1> DEFINE x == [step |-> "appendWanted", method |-> m]
<1>1. TypesOK /\ TypeOK
  BY DEF IInv, TypesOK
<1>2. /\ at[c] = Idle
      /\ discoverers' = [discoverers EXCEPT ![m] = @ \cup {c}]
      /\ at' = [at EXCEPT ![c] = x]
      /\ overlapped' = overlapped \cup
            {<<c, p>> : p \in {q \in Providers : Changing(q) \/ NoticePending(c, q)}}
      /\ UNCHANGED <<methods, providers, pending, view, closed>>
  BY DEF AddDiscoverer, MayAsk, LoopFree, SameLoop, MeetsChanges, Entered
<1>3. x.step = "appendWanted" /\ x.method = m /\ at[c].step = "idle"
  BY <1>2, Going
<1> HIDE DEF x
<1>4. \A n \in Methods : discoverers[n] \subseteq discoverers'[n]
  BY <1>1, <1>2 DEF TypeOK
<1>5. /\ at'[c] = x
      /\ \A p \in Conns \ {c} : /\ at'[p] = at[p]
                                /\ Changing(p)' <=> Changing(p)
                                /\ Discovering(p)' <=> Discovering(p)
  BY <1>1, <1>2, OnePlaceChanges
<1>6. InTurn' /\ Remote' /\ Balanced'
  BY <1>2, <1>3, QuietStep
<1>7. MethodsEntered'
  BY <1>2, <1>3, <1>5 DEF Balance, MethodsEntered, Conns
<1>8. Unasked'
  BY <1>2, <1>4 DEF Balance, Unasked
<1>9. MeetNothing'
  <2> SUFFICES ASSUME NEW d \in Discoverers, NEW p \in Providers,
                      Discovering(d)', <<d, p>> \notin overlapped'
               PROVE  /\ ~Changing(p)'
                      /\ \A y \in Elements(pending[d]) : y.host # p
                      /\ at'[d].step = "answer" /\ p \in at'[d].hosts => p \in providers[at'[d].method]
    BY <1>2 DEF MeetNothing
  <2>1. d \in Conns /\ p \in Conns /\ <<d, p>> \notin overlapped
    BY <1>2 DEF Conns
  <2>2. Changing(p)' => Changing(p)
    BY <1>3, <1>5, <2>1 DEF Changing
  <2>3. CASE d = c
    <3>1. ~Changing(p) /\ ~NoticePending(c, p)
      BY <1>2, <2>3
    <3> QED BY <1>3, <1>5, <2>2, <2>3, <3>1 DEF NoticePending, Elements
  <2>4. CASE d # c
    BY <1>5, <2>1, <2>2, <2>4 DEF Balance, MeetNothing
  <2> QED BY <2>3, <2>4
<1> QED BY <1>6, <1>7, <1>8, <1>9 DEF Balance

LEMMA AppendWantedKeepsBalance ==
    ASSUME IInv, Balance, NEW c \in Conns, AppendWanted(c) PROVE Balance'
<1> DEFINE x == [at[c] EXCEPT !.step = "hosts"]
<1>1. TypesOK /\ TypeOK
  BY DEF IInv, TypesOK
<1>2. /\ at[c].step = "appendWanted" /\ at' = [at EXCEPT ![c] = x]
      /\ UNCHANGED <<methods, providers, discoverers, pending, view, closed, overlapped>>
  BY DEF AppendWanted
<1>3. x.step = "hosts"
  <2>1. at[c] = [step |-> "appendWanted", method |-> at[c].method]
    BY <1>1, <1>2, PlaceOf DEF TypesOK
  <2> QED BY <2>1
<1> HIDE DEF x
<1>4. /\ at'[c] = x
      /\ \A p \in Conns \ {c} : /\ at'[p] = at[p]
                                /\ Changing(p)' <=> Changing(p)
                                /\ Discovering(p)' <=> Discovering(p)
  BY <1>1, <1>2, OnePlaceChanges
<1>5. InTurn' /\ Remote' /\ Balanced'
  BY <1>2, <1>3, QuietStep
<1>6. MethodsEntered'
  BY <1>2, <1>3, <1>4 DEF Balance, MethodsEntered, Conns
<1>7. Unasked'
  BY <1>2 DEF Balance, Unasked
<1>8. Discovering(c) /\ ~Changing(c)'
  BY <1>2, <1>3, <1>4 DEF Discovering, Changing
<1>9. MeetNothing'
  BY <1>2, <1>3, <1>4, <1>8 DEF Balance, MeetNothing, Conns
<1> QED BY <1>5, <1>6, <1>7, <1>9 DEF Balance

LEMMA GetHostsKeepsBalance ==
    ASSUME IInv, Balance, NEW c \in Conns, GetHosts(c) PROVE Balance'
<1> DEFINE m == at[c].method
           x == [step |-> "answer", method |-> m, hosts |-> providers[m]]
<1>1. TypesOK /\ TypeOK
  BY DEF IInv, TypesOK
<1>2. /\ at[c].step = "hosts" /\ at' = [at EXCEPT ![c] = x]
      /\ UNCHANGED <<methods, providers, discoverers, pending, view, closed, overlapped>>
  BY DEF GetHosts, tables
<1>3. x.step = "answer" /\ x.method = m /\ x.hosts = providers[m]
  OBVIOUS
<1> HIDE DEF x
<1>4. /\ at'[c] = x
      /\ \A p \in Conns \ {c} : /\ at'[p] = at[p]
                                /\ Changing(p)' <=> Changing(p)
                                /\ Discovering(p)' <=> Discovering(p)
  BY <1>1, <1>2, OnePlaceChanges
<1>5. InTurn' /\ Remote' /\ Balanced'
  BY <1>2, <1>3, QuietStep
<1>6. MethodsEntered'
  BY <1>2, <1>3, <1>4 DEF Balance, MethodsEntered, Conns
<1>7. Unasked'
  BY <1>2 DEF Balance, Unasked
<1>8. Discovering(c) /\ ~Changing(c)'
  BY <1>2, <1>3, <1>4 DEF Discovering, Changing
<1>9. MeetNothing'
  BY <1>2, <1>3, <1>4, <1>8 DEF Balance, MeetNothing, Conns
<1> QED BY <1>5, <1>6, <1>7, <1>9 DEF Balance

LEMMA RemoveProviderKeepsBalance ==
    ASSUME IInv, Balance, NEW c \in Conns, RemoveProvider(c) PROVE Balance'
<1> DEFINE x == [step |-> "removeDiscoverer"]
<1>1. TypesOK /\ TypeOK /\ PlacesOK
  BY DEF IInv, TypesOK
<1>2. /\ at[c].step = "removeProvider" /\ c \in closed
      /\ \A m \in Methods : providers'[m] \subseteq providers[m] /\ providers[m] \ {c} \subseteq providers'[m]
      /\ at' = [at EXCEPT ![c] = x]
      /\ UNCHANGED <<methods, discoverers, pending, view, closed, overlapped>>
  BY <1>1 DEF RemoveProvider, PlacesOK
<1>3. x.step = "removeDiscoverer"
  OBVIOUS
<1> HIDE DEF x
<1>4. /\ at'[c] = x
      /\ \A p \in Conns \ {c} : /\ at'[p] = at[p]
                                /\ Changing(p)' <=> Changing(p)
                                /\ Discovering(p)' <=> Discovering(p)
  BY <1>1, <1>2, OnePlaceChanges
<1>5. InTurn' /\ Remote' /\ Balanced'
  BY <1>2, <1>3, QuietStep
<1>6. MethodsEntered'
  <2> SUFFICES ASSUME NEW p \in Providers \ closed
               PROVE  /\ \A n \in Elements(methods[p]) : p \in providers'[n]
                      /\ at'[p].step = "append" => p \in providers'[at'[p].method]
    BY <1>2 DEF MethodsEntered
  <2>1. p \in Conns \ {c} /\ at[p] \in Place /\ methods[p] \in Seq(Methods)
    BY <1>1, <1>2 DEF Conns, TypesOK, TypeOK
  <2>2. Elements(methods[p]) \subseteq Methods
    BY <2>1, ElementsIn
  <2>3. /\ \A n \in Elements(methods[p]) : p \in providers[n]
        /\ at[p].step = "append" => p \in providers[at[p].method] /\ at[p].method \in Methods
    BY <2>1, PlaceOf DEF Balance, MethodsEntered
  <2> QED BY <1>2, <1>4, <2>1, <2>2, <2>3
<1>7. Unasked'
  BY <1>2 DEF Balance, Unasked
<1>8. MeetNothing'
  <2> SUFFICES ASSUME NEW d \in Discoverers, NEW p \in Providers,
                      Discovering(d)', <<d, p>> \notin overlapped
               PROVE  /\ ~Changing(p)'
                      /\ \A y \in Elements(pending[d]) : y.host # p
                      /\ at'[d].step = "answer" /\ p \in at'[d].hosts => p \in providers'[at'[d].method]
    BY <1>2 DEF MeetNothing
  <2>1. d \in Conns /\ p \in Conns /\ d # c
    BY <1>3, <1>4 DEF Conns, Discovering
  <2>2. Discovering(d) /\ at'[d] = at[d]
    BY <1>4, <2>1
  <2>3. /\ ~Changing(p) /\ \A y \in Elements(pending[d]) : y.host # p
        /\ at[d].step = "answer" /\ p \in at[d].hosts => p \in providers[at[d].method]
    BY <2>2 DEF Balance, MeetNothing
  <2>4. p # c
    BY <1>2, <2>3 DEF Changing
  <2>5. at[d].step = "answer" => at[d].method \in Methods
    BY <1>1, <2>1, PlaceOf DEF TypesOK
  <2> QED BY <1>2, <1>4, <2>1, <2>2, <2>3, <2>4, <2>5
<1> QED BY <1>5, <1>6, <1>7, <1>8 DEF Balance

LEMMA RemoveDiscovererKeepsBalance ==
    ASSUME IInv, Balance, NEW c \in Conns, RemoveDiscoverer(c) PROVE Balance'
<1>1. TypesOK /\ TypeOK /\ PlacesOK
  BY DEF IInv, TypesOK
<1>2. /\ at[c].step = "removeDiscoverer" /\ c \in closed
      /\ \A m \in Methods : discoverers[m] \ {c} \subseteq discoverers'[m]
      /\ at' = [at EXCEPT ![c] = Idle]
      /\ UNCHANGED <<methods, providers, pending, view, closed, overlapped>>
  BY <1>1 DEF RemoveDiscoverer, PlacesOK
<1>3. /\ at'[c] = Idle
      /\ \A p \in Conns \ {c} : /\ at'[p] = at[p]
                                /\ Changing(p)' <=> Changing(p)
                                /\ Discovering(p)' <=> Discovering(p)
  BY <1>1, <1>2, OnePlaceChanges
<1>4. InTurn' /\ Remote' /\ Balanced'
  BY <1>2, Going, QuietStep
<1>5. MethodsEntered'
  BY <1>2, <1>3, Going DEF Balance, MethodsEntered, Conns
<1>6. Unasked'
  BY <1>2 DEF Balance, Unasked
<1>7. ~Discovering(c)' /\ ~Changing(c)'
  BY <1>3, Going DEF Discovering, Changing
<1>8. MeetNothing'
  BY <1>2, <1>3, <1>7 DEF Balance, MeetNothing, Conns
<1> QED BY <1>4, <1>5, <1>6, <1>8 DEF Balance

\* The registration that is entered is the one that is owed a notice.
LEMMA AppendMethodKeepsBalance ==
    ASSUME IInv, Balance, NEW c \in Conns, AppendMethod(c) PROVE Balance'
<1> DEFINE m == at[c].method
           x == [at[c] EXCEPT !.step = "online"]
<1>1. TypesOK /\ TypeOK /\ PlacesOK
  BY DEF IInv, TypesOK
<1>2. /\ at[c].step = "append" /\ at' = [at EXCEPT ![c] = x]
      /\ methods' = [methods EXCEPT ![c] = Append(methods[c], m)]
      /\ UNCHANGED <<providers, discoverers, pending, view, closed, overlapped>>
  BY DEF AppendMethod, Appended
<1>3. /\ m \in Methods /\ x.step = "online" /\ x.method = m
      /\ c \notin closed
  <2>1. at[c] = [step |-> "append", method |-> m] /\ m \in Methods
    BY <1>1, <1>2, PlaceOf DEF TypesOK
  <2> QED BY <1>1, <1>2, <2>1 DEF PlacesOK
<1> HIDE DEF x
<1>4. /\ at'[c] = x
      /\ \A p \in Conns \ {c} : /\ at'[p] = at[p]
                                /\ \A n : Owed(p, n)' = Owed(p, n) /\ Rest(p, n)' = Rest(p, n)
                                /\ Changing(p)' <=> Changing(p)
                                /\ Discovering(p)' <=> Discovering(p)
  BY <1>1, <1>2, OnePlaceChanges
<1>5. /\ methods[c] \in Seq(Methods) /\ methods'[c] = Append(methods[c], m)
      /\ Elements(methods'[c]) = Elements(methods[c]) \cup {m}
      /\ \A p \in Conns \ {c} : methods'[p] = methods[p]
  <2>1. methods[c] \in Seq(Methods)
    BY <1>1 DEF TypeOK
  <2>2. Elements(Append(methods[c], m)) = Elements(methods[c]) \cup {m}
    BY <1>3, <2>1, Appending
  <2> QED BY <1>1, <1>2, <2>1, <2>2 DEF TypeOK
<1>6. MethodsEntered'
  BY <1>2, <1>3, <1>4, <1>5 DEF Balance, MethodsEntered, Conns
<1>7. Unasked' /\ InTurn' /\ Remote'
  BY <1>2 DEF Balance, Unasked, InTurn, Remote
<1>8. ~Discovering(c)' /\ Changing(c)
  BY <1>2, <1>3, <1>4 DEF Discovering, Changing
<1>9. MeetNothing'
  BY <1>2, <1>4, <1>8 DEF Balance, MeetNothing, Conns
<1>10. Balanced'
  <2> SUFFICES ASSUME NEW n \in Methods, NEW d \in Discoverers \ closed, NEW p \in Providers,
                      <<d, p>> \notin overlapped
               PROVE  view[d][n][p] + Copies(pending[d], Online(n, p)) + Owed(p, n)' <=
                        IF p \in closed THEN Copies(pending[d], Offline(n, p)) + Rest(p, n)'
                        ELSE Copies(methods'[p], n)
    BY <1>2 DEF Balanced
  <2>1. p \in Conns
    BY DEF Conns
  <2>2. view[d][n][p] + Copies(pending[d], Online(n, p)) + Owed(p, n) <=
            IF p \in closed THEN Copies(pending[d], Offline(n, p)) + Rest(p, n)
            ELSE Copies(methods[p], n)
    BY DEF Balance, Balanced
  <2>3. CASE p # c
    BY <1>4, <1>5, <2>1, <2>2, <2>3
  <2>4. CASE p = c
    <3> DEFINE V == view[d][n][p]
               W == Copies(pending[d], Online(n, p))
               R == Copies(methods[c], n)
               R2 == Copies(methods'[c], n)
               O2 == Owed(c, n)'
    <3>1. V \in Nat /\ W \in Nat /\ R \in Nat
      <4>1. d \in Conns /\ pending[d] \in Seq(Notice) /\ view[d][n][p] \in Nat
        BY <1>1 DEF TypeOK, Conns
      <4> QED BY <1>5, <4>1, CopiesAre
    <3>2. Owed(c, n) = 0 /\ O2 = IF m = n THEN 1 ELSE 0
      BY <1>2, <1>3, <1>4 DEF Owed
    <3>3. R2 = R + IF m = n THEN 1 ELSE 0
      BY <1>3, <1>5, CopiesAre
    <3>4. V + W + 0 <= R
      BY <1>3, <2>2, <2>4, <3>2
    <3> HIDE DEF V, W, R, R2, O2
    <3>5. V + W + O2 <= R2
      BY <3>1, <3>2, <3>3, <3>4
    <3> QED BY <1>3, <2>4, <3>5 DEF V, W, R2, O2
  <2> QED BY <2>3, <2>4
<1> QED BY <1>6, <1>7, <1>9, <1>10 DEF Balance

\* The close retracts the methods of the provider once for each registration.
LEMMA CloseKeepsBalance ==
    ASSUME IInv, Balance, NEW c \in Conns, OnConnectionShutdown(c) PROVE Balance'
<1> DEFINE x == IF c \in provConns THEN Retracting(methods[c]) ELSE [step |-> "removeDiscoverer"]
<1>1. TypesOK /\ TypeOK /\ PlacesOK /\ ProvidersListed
  BY DEF IInv, TypesOK, AllListed
<1>2. /\ c \notin closed /\ at[c] = Idle
      /\ closed' = closed \cup {c} /\ at' = [at EXCEPT ![c] = x]
      /\ pending' = [pending EXCEPT ![c] = <<>>]
      /\ overlapped' = overlapped \cup {<<d, c>> : d \in {e \in Conns : Discovering(e)}}
      /\ UNCHANGED <<methods, providers, discoverers, view>>
  BY DEF OnConnectionShutdown, LoopFree, SameLoop, MeetsDiscoveries, tables
<1>3. methods[c] \in Seq(Methods)
  BY <1>1 DEF TypeOK
<1>4. /\ x.step \in {"offline", "removeProvider", "removeDiscoverer"} /\ at[c].step = "idle"
      /\ c \in provConns => x = Retracting(methods[c])
      /\ c \notin provConns => x.step = "removeDiscoverer"
  BY <1>2, <1>3, Going, RetractingPlace
<1> HIDE DEF x
<1>5. /\ at'[c] = x
      /\ \A p \in Conns \ {c} : /\ at'[p] = at[p]
                                /\ \A n : Owed(p, n)' = Owed(p, n) /\ Rest(p, n)' = Rest(p, n)
                                /\ Changing(p)' <=> Changing(p)
                                /\ Discovering(p)' <=> Discovering(p)
  BY <1>1, <1>2, OnePlaceChanges
<1>6. /\ pending'[c] = <<>> /\ \A d \in Conns \ {c} : pending'[d] = pending[d]
      /\ DOMAIN pending'[c] = {} /\ Elements(pending'[c]) = {}
  BY <1>1, <1>2, NoElements DEF TypeOK
<1>7. MethodsEntered'
  BY <1>2, <1>5 DEF Balance, MethodsEntered, Conns
<1>8. Unasked'
  BY <1>2, <1>6 DEF Balance, Unasked, Conns
<1>9. InTurn' /\ Remote'
  BY <1>6 DEF Balance, InTurn, Remote
<1>10. MeetNothing'
  <2> SUFFICES ASSUME NEW d \in Discoverers, NEW p \in Providers,
                      Discovering(d)', <<d, p>> \notin overlapped'
               PROVE  /\ ~Changing(p)'
                      /\ \A y \in Elements(pending'[d]) : y.host # p
                      /\ at'[d].step = "answer" /\ p \in at'[d].hosts =>
                            p \in providers[at'[d].method]
    BY <1>2 DEF MeetNothing
  <2>1. d \in Conns /\ p \in Conns /\ d # c
    BY <1>4, <1>5 DEF Conns, Discovering
  <2>2. Discovering(d) /\ p # c /\ <<d, p>> \notin overlapped /\ at'[d] = at[d]
    BY <1>2, <1>5, <2>1
  <2> QED BY <1>5, <1>6, <2>1, <2>2 DEF Balance, MeetNothing
<1>11. ASSUME c \in Providers, NEW n \in Methods
       PROVE  Owed(c, n)' = 0 /\ Owed(c, n) = 0 /\ Rest(c, n)' = Copies(methods[c], n)
  <2> SUFFICES Rest(c, n)' = Copies(methods[c], n)
    BY <1>4, <1>5 DEF Owed
  <2>1. CASE c \notin provConns
    <3>1. n \notin Elements(methods[c])
      BY <1>1, <1>2, <1>11, <2>1 DEF Balance, MethodsEntered, ProvidersListed
    <3>2. Copies(methods[c], n) = 0
      BY <1>3, <3>1, CopiesAre
    <3> QED BY <1>4, <1>5, <2>1, <3>2 DEF Rest
  <2>2. CASE c \in provConns /\ methods[c] = <<>>
    <3>1. Copies(methods[c], n) = 0
      BY <1>3, <2>2, CopiesAre
    <3> QED BY <1>4, <1>5, <2>2, <3>1 DEF Rest, Retracting
  <2>3. CASE c \in provConns /\ methods[c] # <<>>
    BY <1>4, <1>5, <2>3 DEF Rest, Retracting
  <2> QED BY <2>1, <2>2, <2>3
<1>12. Balanced'
  <2> SUFFICES ASSUME NEW n \in Methods, NEW d \in Discoverers \ closed', NEW p \in Providers,
                      <<d, p>> \notin overlapped'
               PROVE  view[d][n][p] + Copies(pending'[d], Online(n, p)) + Owed(p, n)' <=
                        IF p \in closed' THEN Copies(pending'[d], Offline(n, p)) + Rest(p, n)'
                        ELSE Copies(methods[p], n)
    BY <1>2 DEF Balanced
  <2>1. d \in Conns /\ d # c /\ p \in Conns /\ <<d, p>> \notin overlapped /\ pending'[d] = pending[d]
    BY <1>2, <1>6 DEF Conns
  <2>2. view[d][n][p] + Copies(pending[d], Online(n, p)) + Owed(p, n) <=
            IF p \in closed THEN Copies(pending[d], Offline(n, p)) + Rest(p, n)
            ELSE Copies(methods[p], n)
    BY <1>2, <2>1 DEF Balance, Balanced
  <2>3. CASE p # c
    BY <1>2, <1>5, <2>1, <2>2, <2>3
  <2>4. CASE p = c
    <3> DEFINE V == view[d][n][p]
               W == Copies(pending[d], Online(n, p))
               F == Copies(pending[d], Offline(n, p))
               R == Copies(methods[c], n)
    <3>1. V \in Nat /\ W \in Nat /\ F \in Nat /\ R \in Nat
      <4>1. pending[d] \in Seq(Notice) /\ view[d][n][p] \in Nat
        BY <1>1, <2>1 DEF TypeOK
      <4> QED BY <1>3, <4>1, CopiesAre
    <3>2. V + W + 0 <= R
      BY <1>2, <1>11, <2>2, <2>4
    <3> HIDE DEF V, W, F, R
    <3>3. V + W + 0 <= F + R
      BY <3>1, <3>2
    <3>4. p \in closed' /\ Owed(p, n)' = 0 /\ Rest(p, n)' = R
      BY <1>2, <1>11, <2>4 DEF R
    <3> QED BY <2>1, <3>3, <3>4 DEF V, W, F
  <2> QED BY <2>3, <2>4
<1> QED BY <1>7, <1>8, <1>9, <1>10, <1>12 DEF Balance

\* The answer, which replaces what was sent before, names the host once at
\* most, and only if it is registered.
LEMMA DiscoverResponseKeepsBalance ==
    ASSUME IInv, Balance, NEW c \in Conns, DiscoverResponse(c) PROVE Balance'
<1> DEFINE m == at[c].method
           h == Learned(view[c][m], at[c].hosts)
<1>1. TypesOK /\ TypeOK /\ PlacesOK /\ ProvidersListed
  BY DEF IInv, TypesOK, AllListed
<1>2. /\ at[c].step = "answer" /\ at' = [at EXCEPT ![c] = Idle]
      /\ view' = [view EXCEPT ![c] = [view[c] EXCEPT ![m] = h]]
      /\ UNCHANGED <<methods, providers, discoverers, pending, closed, overlapped>>
  BY DEF DiscoverResponse, tables
<1>3. /\ m \in Methods /\ at[c].hosts \subseteq Providers
      /\ c \in discoverers[m] /\ c \in Discoverers /\ Discovering(c)
  BY <1>1, <1>2, PlaceOf DEF TypesOK, PlacesOK, Discovering
<1>4. /\ at'[c] = Idle
      /\ \A p \in Conns : \A n : Owed(p, n)' = Owed(p, n) /\ Rest(p, n)' = Rest(p, n)
      /\ \A p \in Conns \ {c} : /\ at'[p] = at[p]
                                /\ Changing(p)' <=> Changing(p)
                                /\ Discovering(p)' <=> Discovering(p)
  <2>1. \A n : Owed(c, n) = 0 /\ Rest(c, n) = 0
    BY <1>2 DEF Owed, Rest
  <2>2. at'[c] = Idle
    BY <1>1, <1>2 DEF TypesOK
  <2>3. \A n : Owed(c, n)' = 0 /\ Rest(c, n)' = 0
    BY <2>2, Going DEF Owed, Rest
  <2> QED BY <1>1, <1>2, <2>1, <2>2, <2>3, OnePlaceChanges
<1>5. /\ \A d \in Conns, n \in Methods : ~(d = c /\ n = m) => view'[d][n] = view[d][n]
      /\ view'[c][m] = h
      /\ \A p \in Providers : h[p] = IF at[c].hosts = {} THEN view[c][m][p]
                                     ELSE IF p \in at[c].hosts THEN 1 ELSE 0
  <2>1. view[c] \in [Methods -> [Providers -> Nat]]
    BY <1>1 DEF TypeOK
  <2> QED BY <1>1, <1>2, <1>3, <2>1 DEF TypeOK, Learned
<1> HIDE DEF h
<1>6. MethodsEntered'
  BY <1>2, <1>4, Going DEF Balance, MethodsEntered, Conns
<1>7. Unasked'
  BY <1>2, <1>3, <1>5 DEF Balance, Unasked, Conns
<1>8. InTurn' /\ Remote'
  BY <1>2 DEF Balance, InTurn, Remote
<1>9. ~Discovering(c)' /\ ~Changing(c)'
  BY <1>4, Going DEF Discovering, Changing
<1>10. MeetNothing'
  BY <1>2, <1>4, <1>9 DEF Balance, MeetNothing, Conns
<1>11. Balanced'
  <2> SUFFICES ASSUME NEW n \in Methods, NEW d \in Discoverers \ closed, NEW p \in Providers,
                      <<d, p>> \notin overlapped
               PROVE  view'[d][n][p] + Copies(pending[d], Online(n, p)) + Owed(p, n) <=
                        IF p \in closed THEN Copies(pending[d], Offline(n, p)) + Rest(p, n)
                        ELSE Copies(methods[p], n)
    BY <1>2, <1>4 DEF Balanced, Conns
  <2>1. p \in Conns /\ d \in Conns
    BY DEF Conns
  <2>2. view[d][n][p] + Copies(pending[d], Online(n, p)) + Owed(p, n) <=
            IF p \in closed THEN Copies(pending[d], Offline(n, p)) + Rest(p, n)
            ELSE Copies(methods[p], n)
    BY DEF Balance, Balanced
  <2>3. CASE view'[d][n][p] = view[d][n][p]
    BY <2>2, <2>3
  <2>4. CASE view'[d][n][p] # view[d][n][p]
    <3>1. d = c /\ n = m /\ at[c].hosts # {} /\ view'[d][n][p] = IF p \in at[c].hosts THEN 1 ELSE 0
      BY <1>5, <2>1, <2>4
    <3>2. /\ ~Changing(p) /\ \A y \in Elements(pending[c]) : y.host # p
          /\ p \in at[c].hosts => p \in providers[m]
      BY <1>2, <1>3, <3>1 DEF Balance, MeetNothing
    <3>3. /\ pending[c] \in Seq(Notice) /\ methods[p] \in Seq(Methods) /\ view[c][m][p] \in Nat
          /\ Online(m, p) \notin Elements(pending[c]) /\ Offline(m, p) \notin Elements(pending[c])
      BY <1>1, <1>3, <2>1, <3>2 DEF TypeOK, Online, Offline
    <3>4. /\ Copies(pending[c], Online(m, p)) = 0 /\ Copies(pending[c], Offline(m, p)) = 0
          /\ Copies(methods[p], m) \in Nat
          /\ m \in Elements(methods[p]) => Copies(methods[p], m) > 0
      BY <3>3, CopiesAre
    <3>5. Owed(p, m) = 0 /\ Rest(p, m) = 0
      BY <3>2 DEF Owed, Rest, Changing
    <3>6. p \in at[c].hosts => p \notin closed /\ m \in Elements(methods[p])
      <4>1. p \in at[c].hosts => p \in provConns /\ m \in Elements(methods[p])
        BY <1>1, <1>3, <3>2 DEF ProvidersListed, Changing
      <4>2. p \in closed => p \notin provConns
        <5>1. at[p] \in Place
          BY <1>1, <2>1 DEF TypesOK
        <5>2. at[p].step \in Steps
          BY <5>1, PlaceOf
        <5> QED BY <1>1, <2>1, <3>2, <5>2 DEF PlacesOK, Changing, Steps
      <4> QED BY <4>1, <4>2
    <3>7. CASE p \in at[c].hosts
      BY <3>1, <3>4, <3>5, <3>6, <3>7
    <3>8. CASE p \notin at[c].hosts
      BY <3>1, <3>4, <3>5, <3>8
    <3> QED BY <3>7, <3>8
  <2> QED BY <2>3, <2>4
<1> QED BY <1>6, <1>7, <1>8, <1>10, <1>11 DEF Balance

\* What telling the discoverers ds does to the one and to the other.
ToldTo(d, c, ds, x) ==
    /\ d \notin ds \ closed => pending'[d] = pending[d] /\ view'[d] = view[d]
    /\ d \in ds \ closed /\ ~SameLoop(c, d) =>
            pending'[d] = Append(pending[d], x) /\ view'[d] = view[d]
    /\ d \in ds \ closed /\ SameLoop(c, d) =>
            /\ pending'[d] = pending[d]
            /\ \A n \in Methods, p \in Providers :
                view'[d][n][p] = IF n = x.method /\ p = x.host
                                 THEN Noted(view[d][n], x)[p] ELSE view[d][n][p]

LEMMA Told ==
    ASSUME TypesOK, NEW c \in Conns, NEW ds, ds \subseteq Discoverers, NEW x \in Notice,
           Notify(c, ds, x), NEW d \in Conns
    PROVE  ToldTo(d, c, ds, x)
<1>1. TypeOK /\ x.method \in Methods /\ x.host \in Providers
  BY DEF TypesOK, Notice
<1>2. /\ pending'[d] = IF d \in ds \ closed /\ ~SameLoop(c, d) THEN Append(pending[d], x)
                       ELSE pending[d]
      /\ view'[d] = IF d \in ds \ closed /\ SameLoop(c, d)
                    THEN [view[d] EXCEPT ![x.method] = Noted(view[d][x.method], x)]
                    ELSE view[d]
  BY DEF Notify
<1>3. view[d] \in [Methods -> [Providers -> Nat]]
  BY <1>1 DEF TypeOK
<1>4. ASSUME d \in ds \ closed, SameLoop(c, d), NEW n \in Methods, NEW p \in Providers
      PROVE  view'[d][n][p] = IF n = x.method /\ p = x.host
                              THEN Noted(view[d][n], x)[p] ELSE view[d][n][p]
  <2>1. view'[d][n] = IF n = x.method THEN Noted(view[d][n], x) ELSE view[d][n]
    BY <1>2, <1>3, <1>4
  <2>2. p # x.host => Noted(view[d][n], x)[p] = view[d][n][p]
    BY <1>1, <1>3 DEF Noted
  <2> QED BY <2>1, <2>2
<1> QED BY <1>2, <1>4 DEF ToldTo

LEMMA ToldQueue ==
    ASSUME NEW c, NEW ds, NEW x, Notify(c, ds, x), NEW d \in Conns
    PROVE  \/ pending'[d] = pending[d]
           \/ pending'[d] = Append(pending[d], x) /\ ~SameLoop(c, d)
BY DEF Notify

\* What a notice makes of the host it is about.
LEMMA NotedHost ==
    ASSUME NEW h \in [Providers -> Nat], NEW x \in Notice
    PROVE  /\ x.kind = "online" => Noted(h, x)[x.host] = h[x.host] + 1
           /\ x.kind = "offline" =>
                Noted(h, x)[x.host] = IF h[x.host] = 0 THEN 0 ELSE h[x.host] - 1
<1>1. x.host \in Providers
  BY DEF Notice
<1> QED BY <1>1 DEF Noted

\* Notices of one host queued in the order it sends them stay so.
LEMMA NotifyKeepsTurn ==
    ASSUME IInv, Balance, NEW c \in Providers, NEW ds, ds \subseteq Discoverers, NEW x \in Notice,
           Notify(c, ds, x), x.host = c, x.kind = "online" => c \notin closed
    PROVE  InTurn' /\ Remote'
<1>1. TypesOK /\ TypeOK /\ RetractedClosed
  BY DEF IInv, TypesOK
<1>2. c \in Conns
  BY DEF Conns
<1> SUFFICES ASSUME NEW d \in Conns
             PROVE  /\ \A i, j \in DOMAIN pending'[d] :
                        i < j /\ pending'[d][i].kind = "offline"
                            /\ pending'[d][j].host = pending'[d][i].host
                            => pending'[d][j].kind = "offline"
                    /\ \A y \in Elements(pending'[d]) : ~SameLoop(y.host, d)
  BY DEF InTurn, Remote
<1>3. /\ \A i, j \in DOMAIN pending[d] :
            i < j /\ pending[d][i].kind = "offline" /\ pending[d][j].host = pending[d][i].host
            => pending[d][j].kind = "offline"
      /\ \A y \in Elements(pending[d]) : ~SameLoop(y.host, d)
  BY DEF Balance, InTurn, Remote
<1>4. CASE pending'[d] = pending[d]
  BY <1>3, <1>4
<1>5. CASE pending'[d] # pending[d]
  <2>1. pending'[d] = Append(pending[d], x) /\ ~SameLoop(c, d)
    <3>1. \/ pending'[d] = pending[d]
          \/ pending'[d] = Append(pending[d], x) /\ ~SameLoop(c, d)
      BY <1>1, <1>2, ToldQueue
    <3> QED BY <1>5, <3>1
  <2>2. pending[d] \in Seq(Notice)
    BY <1>1 DEF TypeOK
  <2>3. /\ DOMAIN pending[d] = 1..Len(pending[d]) /\ Len(pending[d]) \in Nat
        /\ DOMAIN pending'[d] = 1..(Len(pending[d]) + 1)
        /\ \A i \in 1..Len(pending[d]) : pending'[d][i] = pending[d][i]
        /\ pending'[d][Len(pending[d]) + 1] = x
        /\ Elements(pending'[d]) = Elements(pending[d]) \cup {x}
    BY <2>1, <2>2, Appending, AppendProperties, LenProperties
  <2>4. ASSUME NEW i \in DOMAIN pending'[d], NEW j \in DOMAIN pending'[d], i < j,
               pending'[d][i].kind = "offline", pending'[d][j].host = pending'[d][i].host
        PROVE  pending'[d][j].kind = "offline"
    <3>1. i \in DOMAIN pending[d] /\ pending'[d][i] = pending[d][i]
      BY <2>3, <2>4
    <3>2. CASE j \in DOMAIN pending[d]
      BY <1>3, <2>3, <2>4, <3>1, <3>2
    <3>3. CASE j \notin DOMAIN pending[d]
      <4>1. pending'[d][j] = x
        BY <2>3, <3>3
      <4>2. pending[d][i] \in Elements(pending[d])
        BY <3>1 DEF Elements
      <4>3. c \in closed
        BY <1>1, <2>4, <3>1, <4>1, <4>2 DEF RetractedClosed
      <4> QED BY <4>1, <4>3 DEF Notice
    <3> QED BY <3>2, <3>3
  <2> QED BY <1>3, <2>1, <2>3, <2>4
<1> QED BY <1>4, <1>5

LEMMA OnlineNotifyKeepsBalance ==
    ASSUME IInv, Balance, NEW c \in Conns, OnlineNotify(c) PROVE Balance'
<1> DEFINE m == at[c].method
           x == Online(m, c)
<1>1. TypesOK /\ TypeOK /\ PlacesOK
  BY DEF IInv, TypesOK
<1>2. /\ at[c].step = "online" /\ at' = [at EXCEPT ![c] = Idle]
      /\ Notify(c, discoverers[m], x)
      /\ UNCHANGED <<methods, providers, discoverers, closed, overlapped>>
  BY DEF OnlineNotify, tables, Online
<1>3. /\ m \in Methods /\ c \notin closed /\ c \in Providers /\ Changing(c)
      /\ discoverers[m] \subseteq Discoverers
      /\ x \in Notice /\ x.kind = "online" /\ x.method = m /\ x.host = c
      /\ \A n, p : x = Online(n, p) <=> n = m /\ p = c
      /\ \A n, p : x # Offline(n, p)
  <2>1. m \in Methods /\ c \notin closed /\ c \in Providers /\ Changing(c)
    BY <1>1, <1>2, PlaceOf DEF TypesOK, TypeOK, PlacesOK, Changing
  <2> QED BY <1>1, <2>1 DEF TypeOK, Notice, Online, Offline
<1> HIDE DEF x
<1>4. /\ at'[c] = Idle
      /\ \A p \in Conns \ {c} : /\ at'[p] = at[p]
                                /\ \A n : Owed(p, n)' = Owed(p, n) /\ Rest(p, n)' = Rest(p, n)
                                /\ Changing(p)' <=> Changing(p)
                                /\ Discovering(p)' <=> Discovering(p)
  BY <1>1, <1>2, OnePlaceChanges
<1>5. \A n : Owed(c, n) = (IF n = m THEN 1 ELSE 0) /\ Owed(c, n)' = 0
  BY <1>2, <1>4, Going DEF Owed
<1>6. ASSUME NEW d \in Conns
      PROVE  /\ d \notin discoverers[m] \ closed => pending'[d] = pending[d] /\ view'[d] = view[d]
             /\ d \in discoverers[m] \ closed /\ ~SameLoop(c, d) =>
                    pending'[d] = Append(pending[d], x) /\ view'[d] = view[d]
             /\ d \in discoverers[m] \ closed /\ SameLoop(c, d) =>
                    /\ pending'[d] = pending[d]
                    /\ \A n \in Methods, p \in Providers :
                        view'[d][n][p] = IF n = m /\ p = c THEN view[d][n][p] + 1 ELSE view[d][n][p]
  <2>1. \A n \in Methods : view[d][n] \in [Providers -> Nat]
    BY <1>1 DEF TypeOK
  <2>2. \A n \in Methods : Noted(view[d][n], x)[c] = view[d][n][c] + 1
    BY <1>3, <2>1, NotedHost
  <2>3. ToldTo(d, c, discoverers[m], x)
    BY <1>1, <1>2, <1>3, Told
  <2> QED BY <1>3, <2>2, <2>3 DEF ToldTo
<1>7. MethodsEntered'
  BY <1>2, <1>4, Going DEF Balance, MethodsEntered, Conns
<1>8. Unasked'
  <2> SUFFICES ASSUME NEW n \in Methods, NEW d \in Discoverers \ (closed \cup discoverers[n])
               PROVE  /\ \A p \in Providers : view'[d][n][p] = 0
                      /\ \A y \in Elements(pending'[d]) : y.method # n
    BY <1>2 DEF Unasked
  <2>1. /\ d \in Conns /\ pending[d] \in Seq(Notice)
        /\ \A p \in Providers : view[d][n][p] = 0
        /\ \A y \in Elements(pending[d]) : y.method # n
    BY <1>1 DEF Balance, Unasked, Conns, TypeOK
  <2>2. Elements(Append(pending[d], x)) = Elements(pending[d]) \cup {x}
    BY <1>3, <2>1, Appending
  <2>3. CASE d \notin discoverers[m]
    BY <1>6, <2>1, <2>3
  <2>4. CASE d \in discoverers[m]
    <3>1. n # m /\ pending'[d] \in {pending[d], Append(pending[d], x)}
      BY <1>6, <2>1, <2>4
    <3>2. \A p \in Providers : view'[d][n][p] = view[d][n][p]
      BY <1>6, <2>1, <2>4, <3>1
    <3> QED BY <1>3, <2>1, <2>2, <3>1, <3>2
  <2> QED BY <2>3, <2>4
<1>9. InTurn' /\ Remote'
  BY <1>2, <1>3, NotifyKeepsTurn
<1>10. ~Discovering(c)' /\ ~Changing(c)'
  BY <1>4, Going DEF Discovering, Changing
<1>11. MeetNothing'
  <2> SUFFICES ASSUME NEW d \in Discoverers, NEW p \in Providers, d # c,
                      Discovering(d), <<d, p>> \notin overlapped
               PROVE  /\ ~Changing(p)'
                      /\ \A y \in Elements(pending'[d]) : y.host # p
                      /\ at[d].step = "answer" /\ p \in at[d].hosts => p \in providers[at[d].method]
    BY <1>2, <1>4, <1>10 DEF MeetNothing, Conns
  <2>1. /\ d \in Conns /\ p \in Conns /\ p # c /\ ~Changing(p)
        /\ \A y \in Elements(pending[d]) : y.host # p
        /\ at[d].step = "answer" /\ p \in at[d].hosts => p \in providers[at[d].method]
    BY <1>3 DEF Balance, MeetNothing, Conns
  <2>2. Elements(pending'[d]) \subseteq Elements(pending[d]) \cup {x}
    <3>1. Elements(Append(pending[d], x)) = Elements(pending[d]) \cup {x}
      BY <1>1, <1>3, <2>1, Appending DEF TypeOK
    <3> QED BY <1>6, <2>1, <3>1
  <2> QED BY <1>3, <1>4, <2>1, <2>2
<1>12. Balanced'
  <2> SUFFICES ASSUME NEW n \in Methods, NEW d \in Discoverers \ closed, NEW p \in Providers,
                      <<d, p>> \notin overlapped
               PROVE  view'[d][n][p] + Copies(pending'[d], Online(n, p)) + Owed(p, n)' <=
                        IF p \in closed THEN Copies(pending'[d], Offline(n, p)) + Rest(p, n)'
                        ELSE Copies(methods[p], n)
    BY <1>2 DEF Balanced
  <2> DEFINE W == Copies(pending[d], Online(n, p))
             F == Copies(pending[d], Offline(n, p))
             R == Copies(methods[p], n)
             W2 == Copies(pending'[d], Online(n, p))
             F2 == Copies(pending'[d], Offline(n, p))
             V == view[d][n][p]
             V2 == view'[d][n][p]
  <2>1. /\ p \in Conns /\ d \in Conns /\ pending[d] \in Seq(Notice) /\ V \in Nat
        /\ W \in Nat /\ F \in Nat /\ R \in Nat
    <3>1. /\ p \in Conns /\ d \in Conns /\ pending[d] \in Seq(Notice) /\ V \in Nat
          /\ methods[p] \in Seq(Methods)
      BY <1>1 DEF TypeOK, Conns
    <3> QED BY <3>1, CopiesAre
  <2>2. V + W + Owed(p, n) <= IF p \in closed THEN F + Rest(p, n) ELSE R
    BY DEF Balance, Balanced
  <2>3. Rest(p, n)' = Rest(p, n) \/ p \notin closed
    BY <1>3, <1>4, <2>1
  <2>4. /\ Copies(Append(pending[d], x), Online(n, p)) = W + IF n = m /\ p = c THEN 1 ELSE 0
        /\ Copies(Append(pending[d], x), Offline(n, p)) = F
    BY <1>3, <2>1, CopiesAre
  <2>5. V2 + W2 <= V + W + (IF n = m /\ p = c THEN 1 ELSE 0) /\ F2 = F /\ V2 \in Nat /\ W2 \in Nat
    <3>1. CASE d \notin discoverers[m]
      <4>1. V2 = V /\ W2 = W /\ F2 = F
        BY <1>6, <2>1, <3>1
      <4> QED BY <2>1, <4>1
    <3>2. CASE d \in discoverers[m] /\ ~SameLoop(c, d)
      <4>1. V2 = V /\ W2 = W + (IF n = m /\ p = c THEN 1 ELSE 0) /\ F2 = F
        BY <1>6, <2>1, <2>4, <3>2
      <4> QED BY <2>1, <4>1
    <3>3. CASE d \in discoverers[m] /\ SameLoop(c, d)
      <4>1. W2 = W /\ F2 = F
        BY <1>6, <2>1, <3>3
      <4>2. V2 = IF n = m /\ p = c THEN V + 1 ELSE V
        BY <1>6, <2>1, <3>3
      <4> QED BY <2>1, <4>1, <4>2
    <3> QED BY <3>1, <3>2, <3>3
  <2>6. /\ Owed(p, n) = (IF n = m /\ p = c THEN 1 ELSE 0) + Owed(p, n)'
        /\ Owed(p, n)' \in Nat
    <3>1. Owed(p, n) \in Nat
      BY DEF Owed
    <3> QED BY <1>4, <1>5, <2>1, <3>1
  <2> HIDE DEF V, W, F, R, V2, W2, F2
  <2>7. V2 + W2 + Owed(p, n)' <= V + W + Owed(p, n)
    BY <2>1, <2>5, <2>6
  <2>8. V2 + W2 + Owed(p, n)' <= IF p \in closed THEN F2 + Rest(p, n)' ELSE R
    <3>1. Rest(p, n) \in Nat
      BY <1>1, <2>1, PlaceOf, CopiesAre DEF Rest, TypesOK
    <3> QED BY <2>1, <2>2, <2>3, <2>5, <2>6, <2>7, <3>1
  <2> QED BY <2>8 DEF V2, W2, F2, R
<1> QED BY <1>7, <1>8, <1>9, <1>11, <1>12 DEF Balance

\* One round of the close: whoever was told of the host is told to forget it.
LEMMA OfflineNotifyKeepsBalance ==
    ASSUME IInv, Balance, NEW c \in Conns, OfflineNotify(c) PROVE Balance'
<1> DEFINE ms == at[c].rest
           m == Head(ms)
           x == Offline(m, c)
           y == Retracting(Tail(ms))
<1>1. TypesOK /\ TypeOK /\ PlacesOK
  BY DEF IInv, TypesOK
<1>2. /\ at[c].step = "offline" /\ at' = [at EXCEPT ![c] = y]
      /\ Notify(c, discoverers[m], x)
      /\ UNCHANGED <<methods, providers, discoverers, closed, overlapped>>
  BY DEF OfflineNotify, tables, Offline
<1>3. /\ ms \in Seq(Methods) /\ ms # <<>> /\ m \in Methods /\ Tail(ms) \in Seq(Methods)
      /\ c \in closed /\ c \in Providers /\ Changing(c)
      /\ y.step \in {"offline", "removeProvider"}
  <2>1. ms \in Seq(Methods) /\ ms # <<>>
    BY <1>1, <1>2, PlaceOf DEF TypesOK
  <2>2. c \in closed /\ c \in Providers /\ Changing(c)
    BY <1>1, <1>2 DEF TypeOK, PlacesOK, Changing
  <2> QED BY <2>1, <2>2, HeadTailProperties, RetractingPlace
<1>4. /\ discoverers[m] \subseteq Discoverers
      /\ x \in Notice /\ x.kind = "offline" /\ x.method = m /\ x.host = c
      /\ \A n, p : x = Offline(n, p) <=> n = m /\ p = c
      /\ \A n, p : x # Online(n, p)
  BY <1>1, <1>3 DEF TypeOK, Notice, Online, Offline
<1> HIDE DEF x
<1>5. /\ at'[c] = y
      /\ \A p \in Conns \ {c} : /\ at'[p] = at[p]
                                /\ \A n : Owed(p, n)' = Owed(p, n) /\ Rest(p, n)' = Rest(p, n)
                                /\ Changing(p)' <=> Changing(p)
                                /\ Discovering(p)' <=> Discovering(p)
  BY <1>1, <1>2, OnePlaceChanges
<1>6. ASSUME NEW n \in Methods
      PROVE  /\ Owed(c, n) = 0 /\ Owed(c, n)' = 0 /\ Rest(c, n)' \in Nat
             /\ Rest(c, n) = Rest(c, n)' + (IF n = m THEN 1 ELSE 0)
  <2>1. Owed(c, n) = 0 /\ Rest(c, n) = Copies(ms, n)
    BY <1>2 DEF Owed, Rest
  <2>2. /\ Copies(Tail(ms), n) \in Nat /\ Copies(<<>>, n) = 0
        /\ Copies(ms, n) = Copies(Tail(ms), n) + (IF m = n THEN 1 ELSE 0)
    BY <1>3, CopiesAre
  <2>3. Owed(c, n)' = 0 /\ Rest(c, n)' = Copies(Tail(ms), n)
    <3>1. CASE Tail(ms) = <<>>
      <4>1. y.step = "removeProvider"
        BY <3>1 DEF Retracting
      <4> QED BY <1>5, <2>2, <3>1, <4>1 DEF Owed, Rest
    <3>2. CASE Tail(ms) # <<>>
      <4>1. y.step = "offline" /\ y.rest = Tail(ms)
        BY <3>2 DEF Retracting
      <4> QED BY <1>5, <4>1 DEF Owed, Rest
    <3> QED BY <3>1, <3>2
  <2> QED BY <2>1, <2>2, <2>3
<1> HIDE DEF m, y
<1>7. ASSUME NEW d \in Conns
      PROVE  /\ d \notin discoverers[m] \ closed => pending'[d] = pending[d] /\ view'[d] = view[d]
             /\ d \in discoverers[m] \ closed /\ ~SameLoop(c, d) =>
                    pending'[d] = Append(pending[d], x) /\ view'[d] = view[d]
             /\ d \in discoverers[m] \ closed /\ SameLoop(c, d) =>
                    /\ pending'[d] = pending[d]
                    /\ \A n \in Methods, p \in Providers :
                        view'[d][n][p] = IF n = m /\ p = c
                                         THEN IF view[d][n][p] = 0 THEN 0 ELSE view[d][n][p] - 1
                                         ELSE view[d][n][p]
  <2>1. \A n \in Methods : view[d][n] \in [Providers -> Nat]
    BY <1>1 DEF TypeOK
  <2>2. \A n \in Methods : Noted(view[d][n], x)[c] = IF view[d][n][c] = 0 THEN 0 ELSE view[d][n][c] - 1
    BY <1>4, <2>1, NotedHost
  <2>3. ToldTo(d, c, discoverers[m], x)
    BY <1>1, <1>2, <1>4, Told
  <2> QED BY <1>4, <2>2, <2>3 DEF ToldTo
<1>8. MethodsEntered'
  BY <1>2, <1>3, <1>5 DEF Balance, MethodsEntered, Conns
<1>9. Unasked'
  <2> SUFFICES ASSUME NEW n \in Methods, NEW d \in Discoverers \ (closed \cup discoverers[n])
               PROVE  /\ \A p \in Providers : view'[d][n][p] = 0
                      /\ \A z \in Elements(pending'[d]) : z.method # n
    BY <1>2 DEF Unasked
  <2>1. /\ d \in Conns /\ pending[d] \in Seq(Notice)
        /\ \A p \in Providers : view[d][n][p] = 0
        /\ \A z \in Elements(pending[d]) : z.method # n
    BY <1>1 DEF Balance, Unasked, Conns, TypeOK
  <2>2. Elements(Append(pending[d], x)) = Elements(pending[d]) \cup {x}
    BY <1>4, <2>1, Appending
  <2>3. CASE d \notin discoverers[m]
    BY <1>7, <2>1, <2>3
  <2>4. CASE d \in discoverers[m]
    <3>1. n # m /\ pending'[d] \in {pending[d], Append(pending[d], x)}
      BY <1>7, <2>1, <2>4
    <3>2. \A p \in Providers : view'[d][n][p] = view[d][n][p]
      BY <1>7, <2>1, <2>4, <3>1
    <3> QED BY <1>4, <2>1, <2>2, <3>1, <3>2
  <2> QED BY <2>3, <2>4
<1>10. InTurn' /\ Remote'
  BY <1>2, <1>3, <1>4, NotifyKeepsTurn
<1>11. ~Discovering(c)'
  BY <1>3, <1>5 DEF Discovering
<1>12. MeetNothing'
  <2> SUFFICES ASSUME NEW d \in Discoverers, NEW p \in Providers, d # c,
                      Discovering(d), <<d, p>> \notin overlapped
               PROVE  /\ ~Changing(p)'
                      /\ \A z \in Elements(pending'[d]) : z.host # p
                      /\ at[d].step = "answer" /\ p \in at[d].hosts => p \in providers[at[d].method]
    BY <1>2, <1>5, <1>11 DEF MeetNothing, Conns
  <2>1. /\ d \in Conns /\ p \in Conns /\ p # c /\ ~Changing(p)
        /\ \A z \in Elements(pending[d]) : z.host # p
        /\ at[d].step = "answer" /\ p \in at[d].hosts => p \in providers[at[d].method]
    BY <1>3 DEF Balance, MeetNothing, Conns
  <2>2. Elements(pending'[d]) \subseteq Elements(pending[d]) \cup {x}
    <3>1. Elements(Append(pending[d], x)) = Elements(pending[d]) \cup {x}
      BY <1>1, <1>4, <2>1, Appending DEF TypeOK
    <3> QED BY <1>7, <2>1, <3>1
  <2> QED BY <1>4, <1>5, <2>1, <2>2
<1>13. Balanced'
  <2> SUFFICES ASSUME NEW n \in Methods, NEW d \in Discoverers \ closed, NEW p \in Providers,
                      <<d, p>> \notin overlapped
               PROVE  view'[d][n][p] + Copies(pending'[d], Online(n, p)) + Owed(p, n)' <=
                        IF p \in closed THEN Copies(pending'[d], Offline(n, p)) + Rest(p, n)'
                        ELSE Copies(methods[p], n)
    BY <1>2 DEF Balanced
  <2> DEFINE W == Copies(pending[d], Online(n, p))
             F == Copies(pending[d], Offline(n, p))
             W2 == Copies(pending'[d], Online(n, p))
             F2 == Copies(pending'[d], Offline(n, p))
             V == view[d][n][p]
             V2 == view'[d][n][p]
             One == IF n = m /\ p = c THEN 1 ELSE 0
  <2>1. /\ p \in Conns /\ d \in Conns /\ pending[d] \in Seq(Notice) /\ V \in Nat
        /\ W \in Nat /\ F \in Nat
    <3>1. p \in Conns /\ d \in Conns /\ pending[d] \in Seq(Notice) /\ V \in Nat
      BY <1>1 DEF TypeOK, Conns
    <3> QED BY <3>1, CopiesAre
  <2>2. V + W + Owed(p, n) <= IF p \in closed THEN F + Rest(p, n) ELSE Copies(methods[p], n)
    BY DEF Balance, Balanced
  <2>3. /\ Copies(Append(pending[d], x), Online(n, p)) = W
        /\ Copies(Append(pending[d], x), Offline(n, p)) = F + One
    BY <1>4, <2>1, CopiesAre
  <2>4. CASE ~(n = m /\ p = c)
    <3>1. Owed(p, n)' = Owed(p, n) /\ Rest(p, n)' = Rest(p, n)
      BY <1>5, <1>6, <2>1, <2>4
    <3>2. W2 = W /\ F2 = F /\ V2 = V
      <4>1. CASE d \notin discoverers[m]
        BY <1>7, <2>1, <4>1
      <4>2. CASE d \in discoverers[m] /\ ~SameLoop(c, d)
        <5>1. pending'[d] = Append(pending[d], x) /\ V2 = V
          BY <1>7, <2>1, <4>2
        <5>2. W2 = W /\ F2 = F + 0
          BY <2>3, <2>4, <5>1
        <5> QED BY <2>1, <5>1, <5>2
      <4>3. CASE d \in discoverers[m] /\ SameLoop(c, d)
        <5>1. pending'[d] = pending[d]
          BY <1>7, <2>1, <4>3
        <5>2. V2 = V
          BY <1>7, <2>1, <2>4, <4>3
        <5> QED BY <5>1, <5>2
      <4> QED BY <4>1, <4>2, <4>3
    <3> HIDE DEF V, W, F, V2, W2, F2
    <3>3. V2 + W2 + Owed(p, n)' <= IF p \in closed THEN F2 + Rest(p, n)' ELSE Copies(methods[p], n)
      BY <2>2, <3>1, <3>2
    <3> QED BY <3>3 DEF V2, W2, F2
  <2>5. CASE n = m /\ p = c
    <3>1. /\ Owed(p, n) = 0 /\ Owed(p, n)' = 0 /\ Rest(p, n)' \in Nat
          /\ Rest(p, n) = Rest(p, n)' + 1
      BY <1>6, <2>5
    <3>2. V + W <= F + Rest(p, n)' + 1
      <4> HIDE DEF V, W, F
      <4> QED BY <1>3, <2>1, <2>2, <2>5, <3>1
    <3>3. V2 \in Nat /\ W2 \in Nat /\ F2 \in Nat /\ V2 + W2 <= F2 + Rest(p, n)'
      <4>1. CASE d \notin discoverers[m]
        <5>1. V = 0 /\ Online(n, p) \notin Elements(pending[d])
          BY <1>3, <2>5, <4>1 DEF Balance, Unasked, Online
        <5>2. W = 0
          BY <2>1, <5>1, CopiesAre
        <5>3. V2 = V /\ W2 = W /\ F2 = F
          BY <1>7, <2>1, <4>1
        <5> HIDE DEF V, W, F, V2, W2, F2
        <5> QED BY <2>1, <3>1, <5>1, <5>2, <5>3
      <4>2. CASE d \in discoverers[m] /\ ~SameLoop(c, d)
        <5>1. V2 = V /\ W2 = W /\ F2 = F + 1
          BY <1>7, <2>1, <2>3, <2>5, <4>2
        <5> HIDE DEF V, W, F, V2, W2, F2
        <5> QED BY <2>1, <3>1, <3>2, <5>1
      <4>3. CASE d \in discoverers[m] /\ SameLoop(c, d)
        <5>1. Online(n, p) \notin Elements(pending[d])
          BY <2>1, <2>5, <4>3 DEF Balance, Remote, Online
        <5>2. W = 0
          BY <2>1, <5>1, CopiesAre
        <5>3. W2 = W /\ F2 = F
          BY <1>7, <2>1, <4>3
        <5>4. V2 = IF V = 0 THEN 0 ELSE V - 1
          BY <1>7, <2>1, <2>5, <4>3
        <5> HIDE DEF V, W, F, V2, W2, F2
        <5> QED BY <2>1, <3>1, <3>2, <5>2, <5>3, <5>4
      <4> QED BY <4>1, <4>2, <4>3
    <3> HIDE DEF V2, W2, F2
    <3>4. V2 + W2 + Owed(p, n)' <= F2 + Rest(p, n)'
      BY <3>1, <3>3
    <3> QED BY <1>3, <2>5, <3>4 DEF V2, W2, F2
  <2> QED BY <2>4, <2>5
<1> QED BY <1>8, <1>9, <1>10, <1>12, <1>13 DEF Balance

\* A notice goes from the queue to what was sent.
LEMMA SendQueuedKeepsBalance ==
    ASSUME IInv, Balance, NEW c \in Conns, SendQueued(c) PROVE Balance'
<1> DEFINE q == pending[c]
           x == Head(q)
<1>1. TypesOK /\ TypeOK /\ RetractedClosed
  BY DEF IInv, TypesOK
<1>2. /\ LoopFree(c) /\ q # <<>>
      /\ pending' = [pending EXCEPT ![c] = Tail(q)]
      /\ view' = [view EXCEPT ![c] = [view[c] EXCEPT ![x.method] = Noted(view[c][x.method], x)]]
      /\ UNCHANGED <<methods, providers, discoverers, at, closed, overlapped>>
  BY DEF SendQueued, tables
<1>3. /\ q \in Seq(Notice) /\ Tail(q) \in Seq(Notice) /\ x \in Notice
      /\ Elements(q) = Elements(Tail(q)) \cup {x}
  <2>1. q \in Seq(Notice)
    BY <1>1 DEF TypeOK
  <2> QED BY <1>2, <2>1, Taking
<1>4. /\ Len(q) \in Nat /\ Len(q) > 0 /\ DOMAIN q = 1..Len(q) /\ q[1] = x
      /\ DOMAIN Tail(q) = 1..(Len(q) - 1)
      /\ \A i \in 1..(Len(q) - 1) : Tail(q)[i] = q[i + 1]
  BY <1>2, <1>3, HeadTailProperties, LenProperties, EmptySeq
<1>5. /\ pending'[c] = Tail(q) /\ \A d \in Conns \ {c} : pending'[d] = pending[d]
  BY <1>1, <1>2 DEF TypeOK
<1>6. /\ \A d \in Conns \ {c} : view'[d] = view[d]
      /\ \A n \in Methods, p \in Providers :
            view'[c][n][p] = IF n = x.method /\ p = x.host THEN Noted(view[c][n], x)[p]
                             ELSE view[c][n][p]
  <2>1. view[c] \in [Methods -> [Providers -> Nat]] /\ x.method \in Methods /\ x.host \in Providers
    BY <1>1, <1>3 DEF TypeOK, Notice
  <2>2. \A n \in Methods, p \in Providers : p # x.host => Noted(view[c][n], x)[p] = view[c][n][p]
    BY <2>1 DEF Noted
  <2>3. \A n \in Methods : view'[c][n] = IF n = x.method THEN Noted(view[c][n], x) ELSE view[c][n]
    BY <1>1, <1>2, <2>1 DEF TypeOK
  <2>4. \A d \in Conns \ {c} : view'[d] = view[d]
    BY <1>1, <1>2 DEF TypeOK
  <2> QED BY <2>2, <2>3, <2>4
<1>7. MethodsEntered'
  BY <1>2 DEF Balance, MethodsEntered
<1>8. Unasked'
  <2> SUFFICES ASSUME NEW n \in Methods, NEW d \in Discoverers \ (closed \cup discoverers[n])
               PROVE  /\ \A p \in Providers : view'[d][n][p] = 0
                      /\ \A z \in Elements(pending'[d]) : z.method # n
    BY <1>2 DEF Unasked
  <2>1. /\ d \in Conns
        /\ \A p \in Providers : view[d][n][p] = 0
        /\ \A z \in Elements(pending[d]) : z.method # n
    BY DEF Balance, Unasked, Conns
  <2>2. d = c => x.method # n
    BY <1>3, <2>1
  <2> QED BY <1>3, <1>5, <1>6, <2>1, <2>2
<1>9. InTurn'
  <2> SUFFICES ASSUME NEW d \in Conns, NEW i \in DOMAIN pending'[d], NEW j \in DOMAIN pending'[d],
                      i < j, pending'[d][i].kind = "offline",
                      pending'[d][j].host = pending'[d][i].host
               PROVE  pending'[d][j].kind = "offline"
    BY DEF InTurn
  <2>1. CASE d # c
    BY <1>5, <2>1 DEF Balance, InTurn
  <2>2. CASE d = c
    <3>1. /\ i + 1 \in DOMAIN q /\ j + 1 \in DOMAIN q /\ i + 1 < j + 1
          /\ pending'[d][i] = q[i + 1] /\ pending'[d][j] = q[j + 1]
      <4>1. pending'[d] = Tail(q) /\ i \in 1..(Len(q) - 1) /\ j \in 1..(Len(q) - 1)
        BY <1>4, <1>5, <2>2
      <4> HIDE DEF q
      <4>2. i + 1 \in 1..Len(q) /\ j + 1 \in 1..Len(q) /\ i + 1 < j + 1
        BY <1>4, <4>1
      <4> QED BY <1>4, <4>1, <4>2
    <3> QED BY <3>1 DEF Balance, InTurn
  <2> QED BY <2>1, <2>2
<1>10. Remote'
  BY <1>3, <1>5 DEF Balance, Remote
<1>11. MeetNothing'
  <2>1. \A d \in Conns : Elements(pending'[d]) \subseteq Elements(pending[d])
    BY <1>3, <1>5
  <2> QED BY <1>2, <2>1 DEF Balance, MeetNothing, Discovering, Changing, Conns
<1>12. Balanced'
  <2> SUFFICES ASSUME NEW n \in Methods, NEW d \in Discoverers \ closed, NEW p \in Providers,
                      <<d, p>> \notin overlapped
               PROVE  view'[d][n][p] + Copies(pending'[d], Online(n, p)) + Owed(p, n) <=
                        IF p \in closed THEN Copies(pending'[d], Offline(n, p)) + Rest(p, n)
                        ELSE Copies(methods[p], n)
    BY <1>2 DEF Balanced, Owed, Rest
  <2> DEFINE W == Copies(pending[d], Online(n, p))
             F == Copies(pending[d], Offline(n, p))
             W2 == Copies(pending'[d], Online(n, p))
             F2 == Copies(pending'[d], Offline(n, p))
             V == view[d][n][p]
             V2 == view'[d][n][p]
             R == Copies(methods[p], n)
  <2>1. /\ p \in Conns /\ d \in Conns /\ V \in Nat /\ W \in Nat /\ F \in Nat /\ R \in Nat
        /\ Owed(p, n) \in Nat /\ Rest(p, n) \in Nat
    <3>1. /\ p \in Conns /\ d \in Conns /\ pending[d] \in Seq(Notice) /\ V \in Nat
          /\ methods[p] \in Seq(Methods)
      BY <1>1 DEF TypeOK, Conns
    <3>2. Owed(p, n) \in Nat /\ Rest(p, n) \in Nat
      BY <1>1, <3>1, PlaceOf, CopiesAre DEF Owed, Rest, TypesOK
    <3> QED BY <3>1, <3>2, CopiesAre
  <2>2. V + W + Owed(p, n) <= IF p \in closed THEN F + Rest(p, n) ELSE R
    BY DEF Balance, Balanced
  <2>3. CASE d # c
    BY <1>5, <1>6, <2>1, <2>2, <2>3
  <2>4. CASE d = c
    <3>1. /\ W = W2 + (IF x = Online(n, p) THEN 1 ELSE 0)
          /\ F = F2 + (IF x = Offline(n, p) THEN 1 ELSE 0)
          /\ W2 \in Nat /\ F2 \in Nat
      <4>1. \A e : /\ Copies(q, e) = Copies(Tail(q), e) + (IF x = e THEN 1 ELSE 0)
                   /\ Copies(Tail(q), e) \in Nat
        <5>1. \A r \in Seq(Notice) : \A e :
                /\ Copies(r, e) \in Nat
                /\ r # <<>> => Copies(r, e) = Copies(Tail(r), e) + (IF Head(r) = e THEN 1 ELSE 0)
          BY CopiesAre
        <5> QED BY <1>2, <1>3, <5>1
      <4> QED BY <1>5, <2>4, <4>1
    <3>2. x.kind \in {"online", "offline"} /\ x.method \in Methods /\ x.host \in Providers
      BY <1>3 DEF Notice
    <3>3. /\ x = Online(n, p) <=> x.kind = "online" /\ n = x.method /\ p = x.host
          /\ x = Offline(n, p) <=> x.kind = "offline" /\ n = x.method /\ p = x.host
      BY <1>3 DEF Notice, Online, Offline
    <3>4. CASE x = Online(n, p)
      <4>1. V2 = V + 1
        <5>1. view[c][n] \in [Providers -> Nat] /\ x.kind = "online" /\ n = x.method /\ p = x.host
          BY <1>1, <3>3, <3>4 DEF TypeOK
        <5>2. Noted(view[c][n], x)[x.host] = view[c][n][x.host] + 1
          BY <1>3, <5>1, NotedHost
        <5> QED BY <1>6, <2>4, <5>1, <5>2
      <4>2. W = W2 + 1 /\ F = F2
        BY <3>1, <3>3, <3>4
      <4> HIDE DEF V, W, F, V2, W2, F2, R, x, q
      <4>3. V2 + W2 + Owed(p, n) <= IF p \in closed THEN F2 + Rest(p, n) ELSE R
        BY <2>1, <2>2, <3>1, <4>1, <4>2
      <4> QED BY <4>3 DEF V2, W2, F2, R
    <3>5. CASE x = Offline(n, p)
      <4>1. V2 = IF V = 0 THEN 0 ELSE V - 1
        <5>1. view[c][n] \in [Providers -> Nat] /\ x.kind = "offline" /\ n = x.method /\ p = x.host
          BY <1>1, <3>3, <3>5 DEF TypeOK
        <5>2. Noted(view[c][n], x)[x.host] =
                IF view[c][n][x.host] = 0 THEN 0 ELSE view[c][n][x.host] - 1
          BY <1>3, <5>1, NotedHost
        <5> QED BY <1>6, <2>4, <5>1, <5>2
      <4>2. W = W2 /\ F = F2 + 1
        BY <3>1, <3>3, <3>5
      <4>3. p \in closed
        BY <1>1, <1>3, <3>3, <3>5 DEF RetractedClosed
      <4>4. Online(n, p) \notin Elements(Tail(q))
        <5> SUFFICES ASSUME NEW i \in 1..(Len(q) - 1), Tail(q)[i] = Online(n, p) PROVE FALSE
          BY <1>4 DEF Elements
        <5>1. /\ 1 \in DOMAIN q /\ i + 1 \in DOMAIN q /\ 1 < i + 1 /\ q[i + 1] = Online(n, p)
          BY <1>4
        <5>2. q[1].kind = "offline" /\ q[i + 1].host = q[1].host
          BY <1>4, <3>3, <3>5, <5>1 DEF Online
        <5>3. q[i + 1].kind = "offline"
          BY <5>1, <5>2 DEF Balance, InTurn
        <5> QED BY <5>1, <5>3 DEF Online
      <4>5. W2 = 0
        <5>1. \A r \in Seq(Notice) : \A e : e \notin Elements(r) => Copies(r, e) = 0
          BY CopiesAre
        <5> QED BY <1>3, <1>5, <2>4, <4>4, <5>1
      <4>6. Owed(p, n) = 0
        BY <1>1, <2>1, <4>3 DEF IInv, PlacesOK, Owed
      <4> HIDE DEF V, W, F, V2, W2, F2, R, x, q
      <4>7. V2 + W2 + Owed(p, n) <= F2 + Rest(p, n)
        BY <2>1, <2>2, <3>1, <4>1, <4>2, <4>3, <4>5, <4>6
      <4> QED BY <4>3, <4>7 DEF V2, W2, F2
    <3>6. CASE x # Online(n, p) /\ x # Offline(n, p)
      <4>1. V2 = V
        BY <1>6, <2>4, <3>2, <3>3, <3>6
      <4>2. W = W2 /\ F = F2
        BY <3>1, <3>6
      <4> QED BY <2>2, <4>1, <4>2
    <3> QED BY <3>4, <3>5, <3>6
  <2> QED BY <2>3, <2>4
<1> QED BY <1>7, <1>8, <1>9, <1>10, <1>11, <1>12 DEF Balance

LEMMA InitBalance == Init => Balance
<1> SUFFICES ASSUME Init PROVE Balance
  OBVIOUS
<1>1. /\ \A d \in Conns : pending[d] = <<>> /\ methods[d] = <<>> /\ at[d] = Idle
      /\ \A d \in Conns, m \in Methods, p \in Providers : view[d][m][p] = 0
      /\ closed = {}
  BY DEF Init, Conns
<1>2. MethodsEntered /\ Unasked /\ Remote /\ MeetNothing
  BY <1>1, NoElements, Going DEF MethodsEntered, Unasked, Remote, MeetNothing, Discovering, Conns
<1>3. InTurn
  BY <1>1 DEF InTurn
<1>4. Balanced
  <2> SUFFICES ASSUME NEW m \in Methods, NEW d \in Discoverers, NEW p \in Providers
               PROVE  view[d][m][p] + Copies(pending[d], Online(m, p)) + Owed(p, m)
                        <= Copies(methods[p], m)
    BY <1>1 DEF Balanced
  <2>1. /\ view[d][m][p] = 0 /\ pending[d] = <<>> /\ methods[p] = <<>> /\ Owed(p, m) = 0
    BY <1>1, Going DEF Conns, Owed
  <2>2. <<>> \in Seq(Notice)
    BY EmptySeq
  <2>3. \A e : Copies(<<>>, e) = 0
    BY <2>2, CopiesAre
  <2> QED BY <2>1, <2>3
<1> QED BY <1>2, <1>3, <1>4 DEF Balance

LEMMA NextKeepsBalance == IInv /\ Balance /\ [Next]_vars => Balance'
<1> SUFFICES ASSUME IInv, Balance, [Next]_vars PROVE Balance'
  OBVIOUS
<1>1. ASSUME NEW c \in Conns, NEW m \in Methods, AddProvider(c, m) PROVE Balance'
  BY <1>1, AddProviderKeepsBalance
<1>2. ASSUME NEW c \in Conns, NEW m \in Methods, AddDiscoverer(c, m) PROVE Balance'
  BY <1>2, AddDiscovererKeepsBalance
<1>3. ASSUME NEW c \in Conns, OnConnectionShutdown(c) PROVE Balance'
  BY <1>3, CloseKeepsBalance
<1>4. ASSUME NEW c \in Conns, AppendMethod(c) PROVE Balance'
  BY <1>4, AppendMethodKeepsBalance
<1>5. ASSUME NEW c \in Conns, OnlineNotify(c) PROVE Balance'
  BY <1>5, OnlineNotifyKeepsBalance
<1>6. ASSUME NEW c \in Conns, AppendWanted(c) PROVE Balance'
  BY <1>6, AppendWantedKeepsBalance
<1>7. ASSUME NEW c \in Conns, GetHosts(c) PROVE Balance'
  BY <1>7, GetHostsKeepsBalance
<1>8. ASSUME NEW c \in Conns, DiscoverResponse(c) PROVE Balance'
  BY <1>8, DiscoverResponseKeepsBalance
<1>9. ASSUME NEW c \in Conns, OfflineNotify(c) PROVE Balance'
  BY <1>9, OfflineNotifyKeepsBalance
<1>10. ASSUME NEW c \in Conns, RemoveProvider(c) PROVE Balance'
  BY <1>10, RemoveProviderKeepsBalance
<1>11. ASSUME NEW c \in Conns, RemoveDiscoverer(c) PROVE Balance'
  BY <1>11, RemoveDiscovererKeepsBalance
<1>12. ASSUME NEW c \in Conns, SendQueued(c) PROVE Balance'
  BY <1>12, SendQueuedKeepsBalance
<1>13. CASE UNCHANGED vars
  BY <1>13 DEF vars, Balance, MethodsEntered, Unasked, InTurn, Remote, MeetNothing, Balanced,
               Discovering, Changing, Owed, Rest
<1> QED BY <1>1, <1>2, <1>3, <1>4, <1>5, <1>6, <1>7, <1>8, <1>9, <1>10, <1>11, <1>12, <1>13
        DEF Next, Step, Request, HandlerStep

\* ProviderDiscovererManager: nobody is told of a host more often than it
\* registered, and whoever was told of one that closes is told to forget it as
\* often, with the exception that ViewBalanced names.
THEOREM ViewStaysBalanced == Spec => []ViewBalanced
<1>1. IInv /\ Balance => ViewBalanced
  <2> SUFFICES ASSUME IInv, Balance, NEW m \in Methods, NEW d \in Discoverers \ closed,
                      NEW p \in Providers, at[p] = Idle, <<d, p>> \notin overlapped
               PROVE  view[d][m][p] + Waiting(d, m, p, "online") <=
                        IF p \in closed THEN Waiting(d, m, p, "offline")
                        ELSE Registrations(p, m)
    BY DEF ViewBalanced, Handling
  <2>1. /\ Waiting(d, m, p, "online") = Copies(pending[d], Online(m, p))
        /\ Waiting(d, m, p, "offline") = Copies(pending[d], Offline(m, p))
        /\ Registrations(p, m) = Copies(methods[p], m)
    <3>1. \A s, e : {i \in DOMAIN s : s[i] = e} = {i \in DOMAIN s : s[i] \in {e}}
      OBVIOUS
    <3> QED BY <3>1 DEF Waiting, Registrations, Copies, Count, Online, Offline
  <2>2. Owed(p, m) = 0 /\ Rest(p, m) = 0
    BY Going DEF Owed, Rest
  <2>3. /\ view[d][m][p] \in Nat /\ Copies(pending[d], Online(m, p)) \in Nat
        /\ Copies(pending[d], Offline(m, p)) \in Nat /\ Copies(methods[p], m) \in Nat
    <3>1. /\ view[d][m][p] \in Nat /\ pending[d] \in Seq(Notice) /\ methods[p] \in Seq(Methods)
      BY DEF IInv, TypesOK, TypeOK, Conns
    <3> QED BY <3>1, CopiesAre
  <2>4. view[d][m][p] + Copies(pending[d], Online(m, p)) + Owed(p, m) <=
            IF p \in closed THEN Copies(pending[d], Offline(m, p)) + Rest(p, m)
            ELSE Copies(methods[p], m)
    BY DEF Balance, Balanced
  <2> QED BY <2>1, <2>2, <2>3, <2>4
<1> QED BY <1>1, InitIInv, NextKeepsIInv, InitBalance, NextKeepsBalance, PTL DEF Spec

-----------------------------------------------------------------------------
(* A discovering client: its invariant, on top of the server's.            *)

CallerPlace ==
    [step : {"away"}]
    \cup [step : {"found"}, method : Methods, host : Providers]
    \cup [step : {"waiting"}, method : Methods]
    \cup [step : {"answered"}, method : Methods, hosts : SUBSET Providers]
    \cup [step : {"stored"}, method : Methods, told : SUBSET Providers]
    \cup [step : {"kept"}, hosts : [Providers -> Nat], told : SUBSET Providers]
    \cup [step : {"picked"}, host : Providers \cup {NoHost}, told : SUBSET Providers]

Answer == [kind : {"hosts"}, method : Methods, hosts : SUBSET Providers, to : Callers]
Hosts == [Providers -> Nat]

ClientTypes ==
    /\ cache \in [Methods -> Hosts]
    /\ caller \in [Callers -> CallerPlace]
    /\ requests \in Seq(Callers \X Methods)
    /\ serving \in SUBSET Callers
    /\ inbox \in Seq(Answer \cup Notice)
    /\ outrun \in SUBSET Methods

\* A caller that waits is at one of three places, and only there.
AskedBy(u) == {x \in Callers \X Methods : x[1] = u}
AnswersTo(u) == {x \in Answer : x.to = u}

OnePlace ==
    \A u \in Callers :
        Count(requests, AskedBy(u)) + Count(inbox, AnswersTo(u)) + (IF u \in serving THEN 1 ELSE 0)
            = IF caller[u].step = "waiting" THEN 1 ELSE 0

\* The server serves one caller, while the client's handler discovers.
ServingOK ==
    /\ serving # {} => Discovering(Client)
    /\ \A u, v \in serving : u = v

\* Only who has closed is retracted, at the client too.
NoticesOK == \A x \in Elements(inbox) : x.kind = "offline" => x.host \in closed

\* Of the hosts a caller was told of, those it does not find any more when it
\* picks one are closed.
HostsKept(x) ==
    /\ x.step = "stored" => \A p \in x.told : cache[x.method][p] > 0 \/ p \in closed
    /\ x.step = "kept" => \A p \in x.told : x.hosts[p] > 0 \/ p \in closed
    /\ x.step = "picked" /\ x.host = NoHost => x.told \subseteq closed

ToldOK == \A u \in Callers : HostsKept(caller[u])

\* What is sent to the client takes the list it has, with an answer that a
\* caller holds put in its place, to the list that the server has in view: g
\* goes through the lists in between.
Holding(u, m) == caller[u].step = "answered" /\ caller[u].method = m

Applied(h, m, x) ==
    IF x.method # m THEN h
    ELSE IF x.kind = "hosts" THEN Learned(h, x.hosts) ELSE Noted(h, x)

Leads(g, m) ==
    /\ g \in [0..Len(inbox) -> Hosts]
    /\ g[Len(inbox)] = view[Client][m]
    /\ \A i \in 1..Len(inbox) : g[i] = Applied(g[i - 1], m, inbox[i])
    /\ \A u \in Callers : Holding(u, m) => g[0] = Learned(cache[m], caller[u].hosts)
    /\ ~AnswerHeld(m) => g[0] = cache[m]

Synced ==
    \A m \in Methods \ outrun :
        /\ \A u, v \in Callers : Holding(u, m) /\ Holding(v, m) => u = v
        /\ \E g : Leads(g, m)

ClientInv == ClientTypes /\ OnePlace /\ ServingOK /\ NoticesOK /\ ToldOK /\ Synced

-----------------------------------------------------------------------------
(* Lemmas on callers, on messages and on lists of hosts.                   *)

LEMMA TheClient ==
    /\ Client \in Conns /\ Client \in Discoverers /\ Client \notin Providers
    /\ NoHost \notin Providers
BY DiscoveryAssumption DEF Conns

LEMMA CallerOf ==
    ASSUME NEW x \in CallerPlace
    PROVE  /\ x.step \in {"away", "found", "waiting", "answered", "stored", "kept", "picked"}
           /\ x.step = "away" <=> x = Away
           /\ x.step = "answered" => x.method \in Methods /\ x.hosts \subseteq Providers
           /\ x.step = "stored" => x.method \in Methods /\ x.told \subseteq Providers
           /\ x.step = "kept" => x.hosts \in Hosts /\ x.told \subseteq Providers
           /\ x.step = "picked" => x.told \subseteq Providers
<1>1. CASE x \in [step : {"away"}]
  BY <1>1 DEF Away
<1>2. CASE x \in [step : {"found"}, method : Methods, host : Providers]
  BY <1>2 DEF Away
<1>3. CASE x \in [step : {"waiting"}, method : Methods]
  BY <1>3 DEF Away
<1>4. CASE x \in [step : {"answered"}, method : Methods, hosts : SUBSET Providers]
  BY <1>4 DEF Away
<1>5. CASE x \in [step : {"stored"}, method : Methods, told : SUBSET Providers]
  BY <1>5 DEF Away
<1>6. CASE x \in [step : {"kept"}, hosts : [Providers -> Nat], told : SUBSET Providers]
  BY <1>6 DEF Away, Hosts
<1>7. CASE x \in [step : {"picked"}, host : Providers \cup {NoHost}, told : SUBSET Providers]
  BY <1>7 DEF Away
<1> QED BY <1>1, <1>2, <1>3, <1>4, <1>5, <1>6, <1>7 DEF CallerPlace

\* Answers and notices are told apart.
LEMMA Kinds ==
    ASSUME NEW x \in Answer \cup Notice
    PROVE  /\ x.method \in Methods
           /\ x \in Answer <=> x.kind = "hosts"
           /\ x \in Answer <=> "to" \in DOMAIN x
           /\ x \in Answer => x.to \in Callers /\ x.hosts \subseteq Providers /\ x \notin Notice
           /\ x \in Notice => x.host \in Providers /\ x.kind \in {"online", "offline"}
BY DEF Answer, Notice

LEMMA ListsOfHosts ==
    ASSUME NEW h \in Hosts
    PROVE  /\ \A x \in Notice : Noted(h, x) \in Hosts
           /\ \A ps \in SUBSET Providers : Learned(h, ps) \in Hosts
           /\ Learned(h, {}) = h
           /\ \A x \in Answer \cup Notice : \A m : Applied(h, m, x) \in Hosts
<1>1. ASSUME NEW x \in Notice PROVE Noted(h, x) \in Hosts
  <2>1. x.host \in Providers
    BY DEF Notice
  <2> QED BY <2>1 DEF Noted, Hosts
<1>2. ASSUME NEW ps \in SUBSET Providers PROVE Learned(h, ps) \in Hosts
  BY DEF Learned, Hosts
<1>3. Learned(h, {}) = h
  BY DEF Learned
<1>4. ASSUME NEW x \in Answer \cup Notice, NEW m PROVE Applied(h, m, x) \in Hosts
  BY <1>1, <1>2, Kinds DEF Applied
<1> QED BY <1>1, <1>2, <1>3, <1>4

\* Whoever has a request or an answer under way waits for it, and has nothing
\* else under way; whoever is away has nothing under way.
LEMMA UnderWay ==
    ASSUME ClientTypes, OnePlace
    PROVE  /\ \A x \in Elements(requests) :
                x \in Callers \X Methods /\ caller[x[1]].step = "waiting" /\ x[1] \notin serving
           /\ \A y \in Elements(inbox) : y \in Answer => caller[y.to].step = "waiting"
<1>1. /\ requests \in Seq(Callers \X Methods) /\ inbox \in Seq(Answer \cup Notice)
  BY DEF ClientTypes
<1>2. ASSUME NEW u \in Callers
      PROVE  /\ Count(requests, AskedBy(u)) > 0 => caller[u].step = "waiting" /\ u \notin serving
             /\ Count(inbox, AnswersTo(u)) > 0 => caller[u].step = "waiting"
  <2> DEFINE p == Count(requests, AskedBy(u))
             q == Count(inbox, AnswersTo(u))
  <2>1. p + q + (IF u \in serving THEN 1 ELSE 0) = IF caller[u].step = "waiting" THEN 1 ELSE 0
    BY DEF OnePlace
  <2>2. p \in Nat /\ q \in Nat
    BY <1>1, CountIs
  <2> HIDE DEF p, q
  <2>3. CASE u \in serving
    <3>1. p + q + 1 = IF caller[u].step = "waiting" THEN 1 ELSE 0
      BY <2>1, <2>3
    <3> QED BY <2>2, <3>1 DEF p, q
  <2>4. CASE u \notin serving
    <3>1. p + q = IF caller[u].step = "waiting" THEN 1 ELSE 0
      BY <2>1, <2>2, <2>4
    <3>2. (p > 0 => caller[u].step = "waiting") /\ (q > 0 => caller[u].step = "waiting")
      BY <2>2, <3>1
    <3> QED BY <2>4, <3>2 DEF p, q
  <2> QED BY <2>3, <2>4
<1>3. ASSUME NEW x \in Elements(requests)
      PROVE  x \in Callers \X Methods /\ x[1] \in Callers /\ Count(requests, AskedBy(x[1])) > 0
  <2>1. x \in Callers \X Methods /\ x[1] \in Callers
    BY <1>1, ElementsIn
  <2>2. x \in AskedBy(x[1])
    BY <2>1 DEF AskedBy
  <2> QED BY <1>1, <2>1, <2>2, CountIs
<1>4. ASSUME NEW y \in Elements(inbox), y \in Answer
      PROVE  y.to \in Callers /\ Count(inbox, AnswersTo(y.to)) > 0
  <2>1. y.to \in Callers /\ y \in AnswersTo(y.to)
    BY <1>4 DEF Answer, AnswersTo
  <2> QED BY <1>1, <2>1, CountIs
<1> QED BY <1>2, <1>3, <1>4

\* The lists in between when a message is sent, taken, or none of both.
LEMMA LeadsSent ==
    ASSUME ClientTypes, NEW m, NEW g, Leads(g, m), NEW x \in Answer \cup Notice,
           inbox' = Append(inbox, x), view'[Client][m] = Applied(view[Client][m], m, x),
           UNCHANGED <<cache, caller>>
    PROVE  \E k : Leads(k, m)'
<1> DEFINE n == Len(inbox)
           h == Applied(g[n], m, x)
           k == [i \in 0..(n + 1) |-> IF i = n + 1 THEN h ELSE g[i]]
<1>1. /\ inbox \in Seq(Answer \cup Notice) /\ n \in Nat /\ Len(inbox') = n + 1
      /\ \A i \in 1..n : inbox'[i] = inbox[i]
      /\ inbox'[n + 1] = x
  BY AppendProperties, LenProperties DEF ClientTypes
<1>2. /\ g \in [0..n -> Hosts] /\ g[n] = view[Client][m] /\ g[n] \in Hosts
      /\ \A i \in 1..n : g[i] = Applied(g[i - 1], m, inbox[i])
      /\ \A u \in Callers : Holding(u, m) => g[0] = Learned(cache[m], caller[u].hosts)
      /\ ~AnswerHeld(m) => g[0] = cache[m]
  BY <1>1 DEF Leads
<1>3. h \in Hosts
  BY <1>2, ListsOfHosts
<1> HIDE DEF h
<1>4. \A i \in 0..(n + 1) : i = n + 1 \/ i \in 0..n
  BY <1>1
<1>5. k \in [0..(n + 1) -> Hosts]
  BY <1>2, <1>3, <1>4
<1>6. k[n + 1] = view'[Client][m] /\ k[0] = g[0]
  BY <1>1, <1>2 DEF h
<1>7. ASSUME NEW i \in 1..(n + 1) PROVE k[i] = Applied(k[i - 1], m, inbox'[i])
  <2>1. CASE i = n + 1
    <3>1. i - 1 = n /\ n \in 0..(n + 1) /\ n # n + 1
      BY <1>1, <2>1
    <3>2. k[n] = g[n] /\ k[n + 1] = h
      BY <1>1, <3>1
    <3> QED BY <1>1, <2>1, <3>1, <3>2 DEF h
  <2>2. CASE i # n + 1
    <3>1. i \in 1..n /\ i - 1 \in 0..(n + 1) /\ i - 1 # n + 1
      BY <1>1, <2>2
    <3>2. k[i] = g[i] /\ k[i - 1] = g[i - 1]
      BY <1>1, <2>2, <3>1
    <3> QED BY <1>1, <1>2, <3>1, <3>2
  <2> QED BY <2>1, <2>2
<1> HIDE DEF k
<1>8. PICK f : /\ f \in [0..(n + 1) -> Hosts] /\ f[n + 1] = view'[Client][m] /\ f[0] = g[0]
               /\ \A i \in 1..(n + 1) : f[i] = Applied(f[i - 1], m, inbox'[i])
  BY <1>5, <1>6, <1>7
<1>9. Leads(f, m)'
  BY <1>1, <1>2, <1>8 DEF Leads, Holding, AnswerHeld
<1> QED BY <1>9

LEMMA LeadsTaken ==
    ASSUME ClientTypes, NEW m, NEW g, Leads(g, m), inbox # <<>>, inbox' = Tail(inbox),
           view'[Client][m] = view[Client][m],
           \A u \in Callers : Holding(u, m)' => g[1] = Learned(cache'[m], caller'[u].hosts),
           ~AnswerHeld(m)' => g[1] = cache'[m]
    PROVE  \E k : Leads(k, m)'
<1> DEFINE n == Len(inbox)
           k == [i \in 0..(n - 1) |-> g[i + 1]]
<1>1. /\ inbox \in Seq(Answer \cup Notice) /\ n \in Nat /\ n > 0 /\ Len(inbox') = n - 1
      /\ \A i \in 1..(n - 1) : inbox'[i] = inbox[i + 1]
  BY HeadTailProperties, LenProperties, EmptySeq DEF ClientTypes
<1>2. /\ g \in [0..n -> Hosts] /\ g[n] = view[Client][m]
      /\ \A i \in 1..n : g[i] = Applied(g[i - 1], m, inbox[i])
  BY DEF Leads
<1>3. \A i \in 0..(n - 1) : i + 1 \in 0..n
  BY <1>1
<1>4. k \in [0..(n - 1) -> Hosts]
  BY <1>2, <1>3
<1>5. k[n - 1] = view'[Client][m] /\ k[0] = g[1]
  <2>1. n - 1 \in 0..(n - 1) /\ (n - 1) + 1 = n /\ 0 \in 0..(n - 1)
    BY <1>1
  <2> QED BY <1>2, <2>1
<1>6. ASSUME NEW i \in 1..(n - 1) PROVE k[i] = Applied(k[i - 1], m, inbox'[i])
  <2>1. i \in 0..(n - 1) /\ i - 1 \in 0..(n - 1) /\ (i - 1) + 1 = i /\ (i + 1) - 1 = i /\ i + 1 \in 1..n
    BY <1>1
  <2>2. k[i] = g[i + 1] /\ k[i - 1] = g[i]
    BY <2>1
  <2> QED BY <1>1, <1>2, <2>1, <2>2
<1> HIDE DEF k
<1>7. PICK f : /\ f \in [0..(n - 1) -> Hosts] /\ f[n - 1] = view'[Client][m] /\ f[0] = g[1]
               /\ \A i \in 1..(n - 1) : f[i] = Applied(f[i - 1], m, inbox'[i])
  BY <1>4, <1>5, <1>6
<1>8. Leads(f, m)'
  BY <1>1, <1>7 DEF Leads
<1> QED BY <1>8

LEMMA LeadsStays ==
    ASSUME NEW m, NEW g, Leads(g, m), inbox' = inbox, view'[Client][m] = view[Client][m],
           \A u \in Callers : Holding(u, m)' => g[0] = Learned(cache'[m], caller'[u].hosts),
           ~AnswerHeld(m)' => g[0] = cache'[m]
    PROVE  Leads(g, m)'
BY DEF Leads

-----------------------------------------------------------------------------
(* The client's invariant, step by step.                                   *)

LEMMA InitClientInv == DiscoveryInit => ClientInv
<1> SUFFICES ASSUME DiscoveryInit PROVE ClientInv
  OBVIOUS
<1>1. /\ cache = [m \in Methods |-> NoHosts] /\ caller = [u \in Callers |-> Away]
      /\ requests = <<>> /\ serving = {} /\ inbox = <<>> /\ outrun = {}
      /\ \A m \in Methods : view[Client][m] = NoHosts
  BY TheClient DEF DiscoveryInit, Init, NoHosts
<1>2. Away \in CallerPlace /\ Away.step = "away"
  BY DEF Away, CallerPlace
<1>3. NoHosts \in Hosts
  BY DEF NoHosts, Hosts
<1>4. ClientTypes
  BY <1>1, <1>2, <1>3, EmptySeq DEF ClientTypes
<1>5. OnePlace
  <2> SUFFICES ASSUME NEW u \in Callers
               PROVE  Count(requests, AskedBy(u)) + Count(inbox, AnswersTo(u))
                        + (IF u \in serving THEN 1 ELSE 0)
                      = IF caller[u].step = "waiting" THEN 1 ELSE 0
    BY DEF OnePlace
  <2>1. Count(requests, AskedBy(u)) = 0 /\ Count(inbox, AnswersTo(u)) = 0
    BY <1>1, <1>4, CountIs DEF ClientTypes
  <2> QED BY <1>1, <1>2, <2>1
<1>6. ServingOK /\ NoticesOK /\ ToldOK
  BY <1>1, <1>2, NoElements DEF ServingOK, NoticesOK, ToldOK, HostsKept
<1>7. Synced
  <2> SUFFICES ASSUME NEW m \in Methods
               PROVE  /\ \A u, v \in Callers : Holding(u, m) /\ Holding(v, m) => u = v
                      /\ \E g : Leads(g, m)
    BY DEF Synced
  <2>1. Len(inbox) = 0 /\ 0..0 = {0}
    BY <1>1
  <2>2. \A u \in Callers : ~Holding(u, m)
    BY <1>1, <1>2 DEF Holding
  <2> DEFINE g == [i \in 0..0 |-> NoHosts]
  <2>3. g \in [0..0 -> Hosts] /\ g[0] = NoHosts
    BY <1>3, <2>1
  <2> HIDE DEF g
  <2>4. Leads(g, m)
    BY <1>1, <2>1, <2>2, <2>3 DEF Leads
  <2> QED BY <2>2, <2>4
<1> QED BY <1>4, <1>5, <1>6, <1>7 DEF ClientInv

\* A step that leaves the client, and what it was sent, alone.
LEMMA ClientUntouched ==
    ASSUME ClientInv, UNCHANGED clientVars, view'[Client] = view[Client],
           closed \subseteq closed', serving # {} => Discovering(Client)'
    PROVE  ClientInv'
<1>1. UNCHANGED <<cache, caller, requests, serving, inbox, outrun>>
  BY DEF clientVars
<1>2. ClientTypes' /\ OnePlace' /\ ServingOK'
  BY <1>1 DEF ClientInv, ClientTypes, OnePlace, ServingOK
<1>3. NoticesOK' /\ ToldOK'
  BY <1>1 DEF ClientInv, NoticesOK, ToldOK, HostsKept
<1>4. Synced'
  BY <1>1 DEF ClientInv, Synced, Leads, Holding, AnswerHeld
<1> QED BY <1>2, <1>3, <1>4 DEF ClientInv

\* A step of a caller that neither begins nor ends a request.
LEMMA CallerMoves ==
    ASSUME ClientInv, NEW u \in Callers, NEW x \in CallerPlace, caller' = [caller EXCEPT ![u] = x],
           caller[u].step # "waiting", x.step \notin {"waiting", "answered"},
           caller[u].step = "answered" => caller[u].hosts = {},
           HostsKept(x), UNCHANGED <<vars, cache, requests, serving, inbox, outrun>>
    PROVE  ClientInv'
<1>1. caller \in [Callers -> CallerPlace] /\ UNCHANGED <<at, view, closed>>
  BY DEF ClientInv, ClientTypes, vars
<1>2. caller'[u] = x /\ \A v \in Callers : v # u => caller'[v] = caller[v]
  BY <1>1
<1>3. ClientTypes'
  BY DEF ClientInv, ClientTypes
<1>4. OnePlace' /\ ServingOK' /\ NoticesOK'
  BY <1>1, <1>2 DEF ClientInv, OnePlace, ServingOK, NoticesOK, Discovering
<1>5. ToldOK'
  BY <1>1, <1>2 DEF ClientInv, ToldOK, HostsKept
<1>6. Synced'
  <2> SUFFICES ASSUME NEW m \in Methods \ outrun
               PROVE  /\ \A v, w \in Callers : Holding(v, m)' /\ Holding(w, m)' => v = w
                      /\ \E g : Leads(g, m)'
    BY DEF Synced
  <2>1. PICK g : Leads(g, m)
    BY DEF ClientInv, Synced
  <2>2. \A v \in Callers : Holding(v, m)' => Holding(v, m) /\ caller'[v] = caller[v]
    BY <1>2 DEF Holding
  <2>3. ~AnswerHeld(m)' => g[0] = cache[m]
    <3>1. CASE Holding(u, m)
      <4>1. cache[m] \in Hosts /\ g[0] = Learned(cache[m], {})
        BY <2>1, <3>1 DEF ClientInv, ClientTypes, Leads, Holding
      <4> QED BY <4>1, ListsOfHosts
    <3>2. CASE ~Holding(u, m)
      <4>1. ~AnswerHeld(m)' => ~AnswerHeld(m)
        BY <1>2, <3>2 DEF AnswerHeld, Holding
      <4> QED BY <2>1, <4>1 DEF Leads
    <3> QED BY <3>1, <3>2
  <2>4. Leads(g, m)'
    BY <1>1, <2>1, <2>2, <2>3, LeadsStays DEF Leads
  <2> QED BY <2>2, <2>4 DEF ClientInv, Synced
<1> QED BY <1>3, <1>4, <1>5, <1>6 DEF ClientInv

LEMMA CallerStepKeepsClientInv ==
    ASSUME ClientInv, NEW u \in Callers,
           \/ \E m \in Methods : FindCached(u, m)
           \/ NotFound(u)
           \/ Pick(u)
           \/ ReturnHost(u)
    PROVE  ClientInv'
<1>1. /\ cache \in [Methods -> Hosts] /\ caller[u] \in CallerPlace /\ HostsKept(caller[u])
  BY DEF ClientInv, ClientTypes, ToldOK
<1>2. Away \in CallerPlace /\ Away.step = "away"
  BY DEF Away, CallerPlace
<1>3. HostsKept(Away)
  BY <1>2 DEF HostsKept
<1>4. ASSUME NEW m \in Methods, FindCached(u, m) PROVE ClientInv'
  <2>1. PICK p \in Listed(cache[m]) :
            caller' = [caller EXCEPT ![u] = [step |-> "found", method |-> m, host |-> p]]
    BY <1>4 DEF FindCached
  <2> DEFINE x == [step |-> "found", method |-> m, host |-> p]
  <2>2. x \in CallerPlace /\ x.step = "found"
    BY <2>1 DEF Listed, CallerPlace
  <2>3. caller' = [caller EXCEPT ![u] = x]
    BY <2>1
  <2> HIDE DEF x
  <2>4. HostsKept(x)
    BY <2>2 DEF HostsKept
  <2>5. /\ caller[u].step = "away"
        /\ UNCHANGED <<vars, cache, requests, serving, inbox, outrun>>
    BY <1>2, <1>4 DEF FindCached
  <2> QED BY <2>2, <2>3, <2>4, <2>5, CallerMoves
<1>5. CASE NotFound(u)
  BY <1>2, <1>3, <1>5, CallerMoves DEF NotFound
<1>6. CASE ReturnHost(u)
  BY <1>2, <1>3, <1>6, CallerMoves DEF ReturnHost
<1>7. CASE Pick(u)
  <2> DEFINE hosts == IF caller[u].step = "kept" THEN caller[u].hosts
                      ELSE cache[caller[u].method]
             choices == IF Listed(hosts) = {} THEN {NoHost} ELSE Listed(hosts)
  <2>1. /\ caller[u].step \in {"stored", "kept"}
        /\ UNCHANGED <<vars, cache, requests, serving, inbox, outrun>>
    BY <1>7 DEF Pick
  <2>2. PICK h \in choices :
            caller' = [caller EXCEPT ![u] = [step |-> "picked", host |-> h, told |-> caller[u].told]]
    BY <1>7 DEF Pick
  <2>3. hosts \in Hosts /\ caller[u].told \subseteq Providers
    BY <1>1, <2>1, CallerOf
  <2>4. \A p \in caller[u].told : hosts[p] > 0 \/ p \in closed
    BY <1>1, <2>1 DEF HostsKept
  <2>5. h \in Providers \cup {NoHost}
    BY <2>2 DEF Listed
  <2>6. h = NoHost => caller[u].told \subseteq closed
    <3> SUFFICES ASSUME h = NoHost, NEW p \in caller[u].told PROVE p \in closed
      OBVIOUS
    <3>1. Listed(hosts) = {}
      BY <2>2, TheClient DEF Listed
    <3> QED BY <2>3, <2>4, <3>1 DEF Listed
  <2> DEFINE x == [step |-> "picked", host |-> h, told |-> caller[u].told]
  <2>7. x \in CallerPlace /\ x.step = "picked" /\ x.host = h /\ x.told = caller[u].told
    BY <2>3, <2>5 DEF CallerPlace
  <2>8. caller' = [caller EXCEPT ![u] = x]
    BY <2>2
  <2> HIDE DEF x, hosts, choices
  <2>9. HostsKept(x)
    BY <2>6, <2>7 DEF HostsKept
  <2> QED BY <2>1, <2>7, <2>8, <2>9, CallerMoves
<1> QED BY <1>4, <1>5, <1>6, <1>7

LEMMA AskKeepsClientInv ==
    ASSUME ClientInv, NEW u \in Callers, NEW m \in Methods, Ask(u, m) PROVE ClientInv'
<1> DEFINE x == [step |-> "waiting", method |-> m]
           r == <<u, m>>
<1>1. /\ caller[u] = Away /\ caller' = [caller EXCEPT ![u] = x] /\ requests' = Append(requests, r)
      /\ UNCHANGED <<cache, serving, inbox, outrun, at, view, closed>>
  BY DEF Ask, vars
<1>2. x \in CallerPlace /\ x.step = "waiting" /\ Away.step = "away"
  BY DEF CallerPlace, Away
<1>3. r \in Callers \X Methods /\ r[1] = u
  OBVIOUS
<1> HIDE DEF x, r
<1>4. caller \in [Callers -> CallerPlace] /\ requests \in Seq(Callers \X Methods)
  BY DEF ClientInv, ClientTypes
<1>5. caller'[u] = x /\ \A v \in Callers : v # u => caller'[v] = caller[v]
  BY <1>1, <1>4
<1>6. ClientTypes'
  <2>1. requests' \in Seq(Callers \X Methods)
    BY <1>1, <1>3, <1>4, Appending
  <2>2. caller' \in [Callers -> CallerPlace]
    BY <1>1, <1>2, <1>4
  <2> QED BY <1>1, <2>1, <2>2 DEF ClientInv, ClientTypes
<1>7. OnePlace'
  <2> SUFFICES ASSUME NEW v \in Callers
               PROVE  Count(requests', AskedBy(v)) + Count(inbox, AnswersTo(v))
                        + (IF v \in serving THEN 1 ELSE 0)
                      = IF caller'[v].step = "waiting" THEN 1 ELSE 0
    BY <1>1 DEF OnePlace, AskedBy, AnswersTo
  <2> DEFINE p == Count(requests, AskedBy(v))
             q == Count(inbox, AnswersTo(v))
             s == IF v \in serving THEN 1 ELSE 0
  <2>1. p + q + s = IF caller[v].step = "waiting" THEN 1 ELSE 0
    BY DEF ClientInv, OnePlace
  <2>2. p \in Nat /\ q \in Nat /\ s \in Nat
    BY <1>4, CountIs DEF ClientInv, ClientTypes
  <2>3. Count(requests', AskedBy(v)) = p + IF r \in AskedBy(v) THEN 1 ELSE 0
    BY <1>1, <1>3, <1>4, CountAppended
  <2>4. r \in AskedBy(v) <=> v = u
    BY <1>3 DEF AskedBy
  <2> HIDE DEF p, q, s
  <2>5. CASE v = u
    <3>1. p + q + s = 0 /\ caller'[v].step = "waiting"
      BY <1>1, <1>2, <1>5, <2>1, <2>5
    <3>2. Count(requests', AskedBy(v)) + q + s = 1
      BY <2>2, <2>3, <2>4, <2>5, <3>1
    <3> QED BY <3>1, <3>2 DEF q, s
  <2>6. CASE v # u
    <3>1. Count(requests', AskedBy(v)) + q + s = p + q + s
      BY <2>2, <2>3, <2>4, <2>6
    <3> QED BY <1>5, <2>1, <2>6, <3>1 DEF q, s
  <2> QED BY <2>5, <2>6
<1>8. ServingOK' /\ NoticesOK'
  BY <1>1 DEF ClientInv, ServingOK, NoticesOK, Discovering
<1>9. ToldOK'
  BY <1>1, <1>2, <1>5 DEF ClientInv, ToldOK, HostsKept
<1>10. Synced'
  <2> SUFFICES ASSUME NEW n \in Methods \ outrun
               PROVE  /\ \A v, w \in Callers : Holding(v, n)' /\ Holding(w, n)' => v = w
                      /\ \E g : Leads(g, n)'
    BY <1>1 DEF Synced
  <2>1. PICK g : Leads(g, n)
    BY DEF ClientInv, Synced
  <2>2. \A v \in Callers : (Holding(v, n)' <=> Holding(v, n)) /\ (Holding(v, n)' => caller'[v] = caller[v])
    BY <1>1, <1>2, <1>5 DEF Holding
  <2>3. AnswerHeld(n)' <=> AnswerHeld(n)
    BY <2>2 DEF AnswerHeld, Holding
  <2>4. Leads(g, n)'
    BY <1>1, <2>1, <2>2, <2>3, LeadsStays DEF Leads
  <2> QED BY <2>2, <2>4 DEF ClientInv, Synced
<1> QED BY <1>6, <1>7, <1>8, <1>9, <1>10 DEF ClientInv

\* The hosts a caller is told of are in the list it leaves, and in the list
\* that another caller stored before and keeps.
LEMMA StoreKeepsClientInv ==
    ASSUME ClientInv, NEW u \in Callers, Store(u) PROVE ClientInv'
<1> DEFINE m == caller[u].method
           ps == caller[u].hosts
           h == Learned(NoHosts, ps)
           x == [step |-> "stored", method |-> m, told |-> ps]
           kept(v) == [step |-> "kept", hosts |-> cache[m], told |-> caller[v].told]
           Keeps(v) == caller[v].step = "stored" /\ caller[v].method = m
<1>1. /\ caller[u].step = "answered" /\ ps # {}
      /\ cache' = [cache EXCEPT ![m] = h]
      /\ caller' = [v \in Callers |-> IF v = u THEN x ELSE IF Keeps(v) THEN kept(v) ELSE caller[v]]
      /\ UNCHANGED <<requests, serving, inbox, outrun, at, view, closed>>
  BY DEF Store, Stored, vars
<1>2. /\ cache \in [Methods -> Hosts] /\ caller \in [Callers -> CallerPlace]
      /\ \A v \in Callers : HostsKept(caller[v])
  BY DEF ClientInv, ClientTypes, ToldOK
<1>3. m \in Methods /\ ps \subseteq Providers
  BY <1>1, <1>2, CallerOf
<1>4. /\ h \in Hosts /\ h = Learned(cache[m], ps)
      /\ \A p \in ps : h[p] > 0
  <2>1. h = [p \in Providers |-> IF p \in ps THEN 1 ELSE 0] /\ h = Learned(cache[m], ps)
    BY <1>1 DEF Learned
  <2> QED BY <1>3, <2>1 DEF Hosts
<1>5. x \in CallerPlace /\ x.step = "stored" /\ x.method = m /\ x.told = ps
  BY <1>3 DEF CallerPlace
<1>6. ASSUME NEW v \in Callers, Keeps(v)
      PROVE  /\ kept(v) \in CallerPlace /\ kept(v).step = "kept"
             /\ kept(v).hosts = cache[m] /\ kept(v).told = caller[v].told
  <2>1. caller[v].told \subseteq Providers
    BY <1>2, <1>6, CallerOf
  <2>2. cache[m] \in [Providers -> Nat]
    BY <1>2, <1>3 DEF Hosts
  <2> QED BY <2>1, <2>2 DEF CallerPlace
<1>7. /\ caller'[u] = x
      /\ \A v \in Callers : v # u => caller'[v] = IF Keeps(v) THEN kept(v) ELSE caller[v]
  BY <1>1
<1>8. cache'[m] = h /\ \A n \in Methods : n # m => cache'[n] = cache[n]
  BY <1>1, <1>2, <1>3
<1> HIDE DEF x, h, kept
<1>9. ClientTypes'
  <2>1. caller' \in [Callers -> CallerPlace]
    <3>1. \A v \in Callers : caller'[v] \in CallerPlace
      BY <1>2, <1>5, <1>6, <1>7
    <3>2. caller' = [v \in Callers |-> caller'[v]]
      BY <1>1
    <3> QED BY <3>1, <3>2
  <2>2. cache' \in [Methods -> Hosts]
    BY <1>1, <1>2, <1>3, <1>4
  <2> QED BY <1>1, <2>1, <2>2 DEF ClientInv, ClientTypes
<1>10. \A v \in Callers :
          /\ caller'[v].step = "waiting" <=> caller[v].step = "waiting"
          /\ caller'[v].step = "answered" => v # u /\ caller'[v] = caller[v]
          /\ v # u /\ caller[v].step = "answered" => caller'[v] = caller[v]
  BY <1>1, <1>5, <1>6, <1>7
<1>11. OnePlace' /\ ServingOK' /\ NoticesOK'
  BY <1>1, <1>10 DEF ClientInv, OnePlace, ServingOK, NoticesOK, Discovering
<1>12. ToldOK'
  <2> SUFFICES ASSUME NEW v \in Callers PROVE HostsKept(caller[v])'
    BY DEF ToldOK
  <2>1. CASE v = u
    BY <1>4, <1>5, <1>7, <1>8, <2>1 DEF HostsKept
  <2>2. CASE v # u /\ Keeps(v)
    <3>1. \A p \in caller[v].told : cache[m][p] > 0 \/ p \in closed
      BY <1>2, <2>2 DEF HostsKept
    <3> QED BY <1>1, <1>6, <1>7, <2>2, <3>1 DEF HostsKept
  <2>3. CASE v # u /\ ~Keeps(v)
    <3>1. caller'[v] = caller[v] /\ HostsKept(caller[v])
      BY <1>2, <1>7, <2>3
    <3>2. caller[v].step = "stored" => caller[v].method \in Methods /\ caller[v].method # m
      BY <1>2, <2>3, CallerOf
    <3> QED BY <1>1, <1>8, <3>1, <3>2 DEF HostsKept
  <2> QED BY <2>1, <2>2, <2>3
<1>13. Synced'
  <2> SUFFICES ASSUME NEW n \in Methods \ outrun
               PROVE  /\ \A v, w \in Callers : Holding(v, n)' /\ Holding(w, n)' => v = w
                      /\ \E g : Leads(g, n)'
    BY <1>1 DEF Synced
  <2>1. PICK g : Leads(g, n)
    BY DEF ClientInv, Synced
  <2>2. \A v, w \in Callers : Holding(v, n) /\ Holding(w, n) => v = w
    BY DEF ClientInv, Synced
  <2>3. \A v \in Callers : Holding(v, n)' => Holding(v, n) /\ v # u /\ caller'[v] = caller[v]
    BY <1>10 DEF Holding
  <2>4. CASE n = m
    <3>1. Holding(u, n)
      BY <1>1, <2>4 DEF Holding
    <3>2. g[0] = cache'[n]
      BY <1>4, <1>8, <2>1, <2>4, <3>1 DEF Leads
    <3>3. \A v \in Callers : ~Holding(v, n)'
      BY <2>2, <2>3, <3>1
    <3>4. Leads(g, n)'
      BY <1>1, <2>1, <3>2, <3>3, LeadsStays
    <3> QED BY <2>2, <2>3, <3>4
  <2>5. CASE n # m
    <3>1. cache'[n] = cache[n]
      BY <1>8, <2>5
    <3>2. AnswerHeld(n)' <=> AnswerHeld(n)
      BY <1>10, <2>5 DEF AnswerHeld
    <3>3. Leads(g, n)'
      BY <1>1, <2>1, <2>3, <3>1, <3>2, LeadsStays DEF Leads
    <3> QED BY <2>2, <2>3, <3>3
  <2> QED BY <2>4, <2>5
<1> QED BY <1>9, <1>11, <1>12, <1>13 DEF ClientInv

\* The loop thread applies the next message: an answer to the one caller that
\* waits for it, a notice to the list.
LEMMA OnMessageKeepsClientInv ==
    ASSUME ClientInv, OnMessage PROVE ClientInv'
<1> DEFINE x == Head(inbox)
           y == [step |-> "answered", method |-> x.method, hosts |-> x.hosts]
<1>1. /\ inbox # <<>> /\ inbox' = Tail(inbox)
      /\ outrun' = IF AnswerHeld(x.method) THEN outrun \cup {x.method} ELSE outrun
      /\ x.kind = "hosts" => caller' = [caller EXCEPT ![x.to] = y] /\ cache' = cache
      /\ x.kind # "hosts" => /\ cache' = [cache EXCEPT ![x.method] = Noted(cache[x.method], x)]
                             /\ caller' = caller
      /\ UNCHANGED <<requests, serving, at, view, closed>>
  BY DEF OnMessage, Answered, vars
<1>2. /\ inbox \in Seq(Answer \cup Notice) /\ cache \in [Methods -> Hosts]
      /\ caller \in [Callers -> CallerPlace] /\ outrun \subseteq Methods
      /\ requests \in Seq(Callers \X Methods)
  BY DEF ClientInv, ClientTypes
<1>3. /\ x \in Answer \cup Notice /\ inbox' \in Seq(Answer \cup Notice) /\ x = inbox[1]
      /\ Elements(inbox) = Elements(inbox') \cup {x} /\ Len(inbox) \in Nat /\ 1 \in 1..Len(inbox)
  <2>1. \A s \in Seq(Answer \cup Notice) : s # <<>> =>
            /\ Head(s) \in Answer \cup Notice /\ Tail(s) \in Seq(Answer \cup Notice)
            /\ Elements(s) = Elements(Tail(s)) \cup {Head(s)}
    BY Taking
  <2>2. Len(inbox) \in Nat /\ Len(inbox) > 0
    BY <1>1, <1>2, LenProperties, EmptySeq
  <2> QED BY <1>1, <1>2, <2>1, <2>2
<1>4. /\ x.method \in Methods
      /\ x.kind = "hosts" => x \in Answer /\ x.to \in Callers /\ x.hosts \subseteq Providers
      /\ x.kind # "hosts" => /\ x \in Notice /\ x \notin Answer /\ x.host \in Providers
                             /\ x.kind \in {"online", "offline"}
  BY <1>3, Kinds
<1>5. x.kind = "hosts" =>
        /\ caller[x.to].step = "waiting"
        /\ y \in CallerPlace /\ y.step = "answered" /\ y.method = x.method /\ y.hosts = x.hosts
        /\ caller'[x.to] = y
        /\ \A v \in Callers : v # x.to => caller'[v] = caller[v]
  <2> SUFFICES ASSUME x.kind = "hosts"
               PROVE  /\ caller[x.to].step = "waiting"
                      /\ y \in CallerPlace /\ y.step = "answered" /\ y.method = x.method
                      /\ y.hosts = x.hosts
                      /\ caller'[x.to] = y
                      /\ \A v \in Callers : v # x.to => caller'[v] = caller[v]
    OBVIOUS
  <2>1. caller[x.to].step = "waiting"
    BY <1>3, <1>4, UnderWay DEF ClientInv
  <2>2. y \in CallerPlace
    BY <1>4 DEF CallerPlace
  <2> QED BY <1>1, <1>2, <1>4, <2>1, <2>2
<1> HIDE DEF x, y
<1>6. ClientTypes'
  <2>1. caller' \in [Callers -> CallerPlace]
    BY <1>1, <1>2, <1>4, <1>5
  <2>2. cache' \in [Methods -> Hosts]
    <3>1. x \in Notice => Noted(cache[x.method], x) \in Hosts
      BY <1>2, <1>4, ListsOfHosts
    <3> QED BY <1>1, <1>2, <1>4, <3>1
  <2>3. outrun' \in SUBSET Methods
    BY <1>1, <1>2, <1>4
  <2> QED BY <1>1, <1>3, <2>1, <2>2, <2>3 DEF ClientInv, ClientTypes
<1>7. OnePlace'
  <2> SUFFICES ASSUME NEW v \in Callers
               PROVE  Count(requests, AskedBy(v)) + Count(inbox', AnswersTo(v))
                        + (IF v \in serving THEN 1 ELSE 0)
                      = IF caller'[v].step = "waiting" THEN 1 ELSE 0
    BY <1>1 DEF OnePlace
  <2> DEFINE p == Count(requests, AskedBy(v))
             q == Count(inbox, AnswersTo(v))
             q2 == Count(inbox', AnswersTo(v))
             s == IF v \in serving THEN 1 ELSE 0
  <2>1. p + q + s = IF caller[v].step = "waiting" THEN 1 ELSE 0
    BY DEF ClientInv, OnePlace
  <2>2. p \in Nat /\ q \in Nat /\ q2 \in Nat /\ s \in Nat
    BY <1>2, <1>3, CountIs
  <2>3. q = q2 + IF x \in AnswersTo(v) THEN 1 ELSE 0
    BY <1>1, <1>2, CountTaken DEF x
  <2>4. x \in AnswersTo(v) <=> x.kind = "hosts" /\ x.to = v
    BY <1>4 DEF AnswersTo, Answer
  <2> HIDE DEF p, q, q2, s
  <2>5. CASE x.kind = "hosts" /\ x.to = v
    <3>1. p + q + s = 1 /\ caller'[v].step # "waiting"
      BY <1>5, <2>1, <2>5
    <3>2. p + q2 + s = 0
      BY <2>2, <2>3, <2>4, <2>5, <3>1
    <3> QED BY <3>1, <3>2 DEF p, q2, s
  <2>6. CASE ~(x.kind = "hosts" /\ x.to = v)
    <3>1. caller'[v] = caller[v]
      BY <1>1, <1>5, <2>6
    <3>2. p + q2 + s = p + q + s
      BY <2>2, <2>3, <2>4, <2>6
    <3> QED BY <2>1, <3>1, <3>2 DEF p, q2, s
  <2> QED BY <2>5, <2>6
<1>8. ServingOK' /\ NoticesOK'
  BY <1>1, <1>3 DEF ClientInv, ServingOK, NoticesOK, Discovering
<1>9. ToldOK'
  <2> SUFFICES ASSUME NEW v \in Callers PROVE HostsKept(caller[v])'
    BY DEF ToldOK
  <2>1. HostsKept(caller[v]) /\ caller[v] \in CallerPlace
    BY <1>2 DEF ClientInv, ToldOK
  <2>2. CASE x.kind = "hosts"
    BY <1>1, <1>5, <2>1, <2>2 DEF HostsKept
  <2>3. CASE x.kind # "hosts"
    <3>1. \A m \in Methods, p \in Providers :
            cache[m][p] > 0 /\ p \notin closed => cache'[m][p] > 0
      <4> SUFFICES ASSUME NEW m \in Methods, NEW p \in Providers, cache[m][p] > 0, p \notin closed
                   PROVE  cache'[m][p] > 0
        OBVIOUS
      <4>1. cache[m] \in [Providers -> Nat]
        BY <1>2 DEF Hosts
      <4>2. CASE m # x.method
        BY <1>1, <1>2, <2>3, <4>2
      <4>3. CASE m = x.method
        <5>1. cache'[m] = Noted(cache[m], x)
          BY <1>1, <1>2, <2>3, <4>3
        <5>2. x.kind = "offline" => x.host # p
          BY <1>3 DEF ClientInv, NoticesOK
        <5> QED BY <1>4, <2>3, <4>1, <5>1, <5>2 DEF Noted
      <4> QED BY <4>2, <4>3
    <3>2. caller'[v] = caller[v]
      BY <1>1, <2>3
    <3>3. caller[v].step = "stored" => caller[v].method \in Methods /\ caller[v].told \subseteq Providers
      BY <2>1, CallerOf
    <3> QED BY <1>1, <2>1, <3>1, <3>2, <3>3 DEF HostsKept
  <2> QED BY <2>2, <2>3
<1>10. Synced'
  <2> SUFFICES ASSUME NEW m \in Methods \ outrun'
               PROVE  /\ \A v, w \in Callers : Holding(v, m)' /\ Holding(w, m)' => v = w
                      /\ \E g : Leads(g, m)'
    BY DEF Synced
  <2>1. m \notin outrun /\ (m = x.method => ~AnswerHeld(m))
    BY <1>1
  <2>2. PICK g : Leads(g, m)
    BY <2>1 DEF ClientInv, Synced
  <2>3. g[0] \in Hosts /\ g[1] = Applied(g[0], m, x)
    <3>1. g[1] = Applied(g[1 - 1], m, inbox[1]) /\ g \in [0..Len(inbox) -> Hosts]
      BY <1>3, <2>2 DEF Leads
    <3>2. 1 - 1 = 0 /\ 0 \in 0..Len(inbox)
      BY <1>3
    <3> QED BY <1>3, <3>1, <3>2
  <2>4. CASE m # x.method
    <3>1. g[1] = g[0]
      BY <2>3, <2>4 DEF Applied
    <3>2. \A v \in Callers : (Holding(v, m)' <=> Holding(v, m)) /\ (Holding(v, m)' => caller'[v] = caller[v])
      BY <1>1, <1>5, <2>4 DEF Holding
    <3>3. AnswerHeld(m)' <=> AnswerHeld(m)
      BY <3>2 DEF AnswerHeld, Holding
    <3>4. cache'[m] = cache[m]
      BY <1>1, <1>2, <2>4
    <3>5. \E k : Leads(k, m)'
      BY <1>1, <2>2, <3>1, <3>2, <3>3, <3>4, LeadsTaken DEF ClientInv, Leads
    <3> QED BY <2>1, <3>2, <3>5 DEF ClientInv, Synced
  <2>5. CASE m = x.method /\ x.kind = "hosts"
    <3> PICK u \in Callers : u = x.to
      BY <1>4, <2>5
    <3>1. \A v \in Callers : Holding(v, m)' => v = u
      BY <1>5, <2>1, <2>5 DEF Holding, AnswerHeld
    <3>2. /\ caller'[u].step = "answered" /\ caller'[u].method = m /\ caller'[u].hosts = x.hosts
      BY <1>5, <2>5
    <3>3. g[1] = Learned(cache'[m], x.hosts)
      BY <1>1, <2>1, <2>2, <2>3, <2>5 DEF Leads, Applied
    <3>4. AnswerHeld(m)'
      BY <3>2 DEF AnswerHeld
    <3>5. \E k : Leads(k, m)'
      BY <1>1, <2>2, <3>1, <3>2, <3>3, <3>4, LeadsTaken DEF ClientInv
    <3> QED BY <3>1, <3>5
  <2>6. CASE m = x.method /\ x.kind # "hosts"
    <3>1. ~AnswerHeld(m)' /\ \A v \in Callers : ~Holding(v, m)'
      BY <1>1, <2>1, <2>6 DEF AnswerHeld, Holding
    <3>2. g[1] = cache'[m]
      BY <1>1, <1>2, <2>1, <2>2, <2>3, <2>6 DEF Leads, Applied
    <3>3. \E k : Leads(k, m)'
      BY <1>1, <2>2, <3>1, <3>2, LeadsTaken DEF ClientInv
    <3> QED BY <3>1, <3>3
  <2> QED BY <2>4, <2>5, <2>6
<1> QED BY <1>6, <1>7, <1>8, <1>9, <1>10 DEF ClientInv

\* The server takes up a request when the client's handler is idle, so that it
\* serves nobody yet.
LEMMA ReceiveDiscoverKeepsClientInv ==
    ASSUME IInv, ClientInv, ReceiveDiscover PROVE ClientInv'
<1> DEFINE r == Head(requests)
<1>1. requests \in Seq(Callers \X Methods) /\ requests # <<>> /\ at \in [Conns -> Place]
  BY DEF ClientInv, ClientTypes, ReceiveDiscover, IInv, TypesOK
<1>2. /\ r \in Callers \X Methods /\ Tail(requests) \in Seq(Callers \X Methods)
      /\ Elements(requests) = Elements(Tail(requests)) \cup {r}
  BY <1>1, Taking
<1>3. /\ at[Client] = Idle /\ at' = [at EXCEPT ![Client] = [step |-> "appendWanted", method |-> r[2]]]
      /\ serving' = {r[1]} /\ requests' = Tail(requests)
      /\ UNCHANGED <<cache, caller, inbox, outrun, view, closed>>
  BY TheClient DEF ReceiveDiscover, AddDiscoverer, MayAsk, LoopFree, SameLoop
<1>4. Discovering(Client)'
  BY <1>1, <1>3, TheClient DEF Discovering
<1>5. serving = {}
  BY <1>3, Going DEF ClientInv, ServingOK, Discovering
<1>6. r[1] \in Callers
  BY <1>2
<1>7. ClientTypes'
  BY <1>2, <1>3, <1>6 DEF ClientInv, ClientTypes
<1>8. OnePlace'
  <2> SUFFICES ASSUME NEW v \in Callers
               PROVE  Count(requests', AskedBy(v)) + Count(inbox, AnswersTo(v))
                        + (IF v \in serving' THEN 1 ELSE 0)
                      = IF caller[v].step = "waiting" THEN 1 ELSE 0
    BY <1>3 DEF OnePlace
  <2> DEFINE p == Count(requests, AskedBy(v))
             p2 == Count(requests', AskedBy(v))
             q == Count(inbox, AnswersTo(v))
             s2 == IF v \in serving' THEN 1 ELSE 0
  <2>1. p + q + 0 = IF caller[v].step = "waiting" THEN 1 ELSE 0
    BY <1>5 DEF ClientInv, OnePlace
  <2>2. p \in Nat /\ p2 \in Nat /\ q \in Nat /\ s2 \in Nat
    BY <1>1, <1>2, <1>3, CountIs DEF ClientInv, ClientTypes
  <2>3. p = p2 + IF r \in AskedBy(v) THEN 1 ELSE 0
    BY <1>1, <1>3, CountTaken
  <2>4. s2 = IF r \in AskedBy(v) THEN 1 ELSE 0
    BY <1>2, <1>3 DEF AskedBy
  <2> HIDE DEF p, p2, q, s2
  <2>5. p2 + q + s2 = p + q + 0
    BY <2>2, <2>3, <2>4
  <2> QED BY <2>1, <2>5 DEF p2, q, s2
<1>9. ServingOK'
  BY <1>3, <1>4 DEF ServingOK
<1>10. NoticesOK' /\ ToldOK'
  BY <1>3 DEF ClientInv, NoticesOK, ToldOK, HostsKept
<1>11. Synced'
  BY <1>3 DEF ClientInv, Synced, Leads, Holding, AnswerHeld
<1> QED BY <1>7, <1>8, <1>9, <1>10, <1>11 DEF ClientInv

\* What is sent to the client, as it is seen by the server and on its way.
LEMMA SentKeepsSynced ==
    ASSUME ClientInv, NEW x \in Answer \cup Notice, inbox' = Append(inbox, x),
           \A m \in Methods : view'[Client][m] = Applied(view[Client][m], m, x),
           UNCHANGED <<cache, caller, outrun>>
    PROVE  Synced'
<1> SUFFICES ASSUME NEW m \in Methods \ outrun
             PROVE  /\ \A v, w \in Callers : Holding(v, m)' /\ Holding(w, m)' => v = w
                    /\ \E k : Leads(k, m)'
  BY DEF Synced
<1>1. PICK g : Leads(g, m)
  BY DEF ClientInv, Synced
<1>2. \E k : Leads(k, m)'
  BY <1>1, LeadsSent DEF ClientInv
<1> QED BY <1>2 DEF ClientInv, Synced, Holding

LEMMA SendAnswerKeepsClientInv ==
    ASSUME IInv, ClientInv, SendAnswer PROVE ClientInv'
<1> DEFINE m == at[Client].method
           ps == at[Client].hosts
<1>1. /\ at[Client].step = "answer"
      /\ view' = [view EXCEPT ![Client] = [view[Client] EXCEPT ![m] = Learned(view[Client][m], ps)]]
      /\ serving' = {}
      /\ UNCHANGED <<cache, caller, requests, outrun, closed>>
  BY DEF SendAnswer, DiscoverResponse
<1>2. PICK u \in serving :
        inbox' = Append(inbox, [kind |-> "hosts", method |-> m, hosts |-> ps, to |-> u])
  BY DEF SendAnswer
<1> DEFINE x == [kind |-> "hosts", method |-> m, hosts |-> ps, to |-> u]
<1>3. m \in Methods /\ ps \subseteq Providers /\ u \in Callers /\ serving = {u}
  BY <1>1, TheClient, PlaceOf DEF IInv, TypesOK, ClientInv, ClientTypes, ServingOK
<1>4. /\ x \in Answer /\ x.kind = "hosts" /\ x.method = m /\ x.hosts = ps /\ x.to = u
      /\ inbox' = Append(inbox, x)
  BY <1>2, <1>3 DEF Answer
<1> HIDE DEF x
<1>5. inbox \in Seq(Answer \cup Notice)
  BY DEF ClientInv, ClientTypes
<1>6. /\ inbox' \in Seq(Answer \cup Notice) /\ Elements(inbox') = Elements(inbox) \cup {x}
  BY <1>4, <1>5, Appending
<1>7. ClientTypes'
  BY <1>1, <1>6 DEF ClientInv, ClientTypes
<1>8. OnePlace'
  <2> SUFFICES ASSUME NEW v \in Callers
               PROVE  Count(requests, AskedBy(v)) + Count(inbox', AnswersTo(v)) + 0
                      = IF caller[v].step = "waiting" THEN 1 ELSE 0
    BY <1>1 DEF OnePlace
  <2> DEFINE p == Count(requests, AskedBy(v))
             q == Count(inbox, AnswersTo(v))
             q2 == Count(inbox', AnswersTo(v))
             s == IF v \in serving THEN 1 ELSE 0
  <2>1. p + q + s = IF caller[v].step = "waiting" THEN 1 ELSE 0
    BY DEF ClientInv, OnePlace
  <2>2. p \in Nat /\ q \in Nat /\ q2 \in Nat /\ s \in Nat
    BY <1>5, <1>6, CountIs DEF ClientInv, ClientTypes
  <2>3. q2 = q + IF x \in AnswersTo(v) THEN 1 ELSE 0
    BY <1>4, <1>5, CountAppended
  <2>4. s = IF x \in AnswersTo(v) THEN 1 ELSE 0
    BY <1>3, <1>4 DEF AnswersTo
  <2> HIDE DEF p, q, q2, s
  <2>5. p + q2 + 0 = p + q + s
    BY <2>2, <2>3, <2>4
  <2> QED BY <2>1, <2>5 DEF p, q2
<1>9. ServingOK'
  BY <1>1 DEF ServingOK
<1>10. NoticesOK' /\ ToldOK'
  BY <1>1, <1>4, <1>6 DEF ClientInv, NoticesOK, ToldOK, HostsKept
<1>11. \A n \in Methods : view'[Client][n] = Applied(view[Client][n], n, x)
  <2>1. view \in [Conns -> [Methods -> [Providers -> Nat]]]
    BY DEF IInv, TypesOK, TypeOK
  <2> QED BY <1>1, <1>3, <1>4, <2>1, TheClient DEF Applied
<1>12. Synced'
  BY <1>1, <1>4, <1>11, SentKeepsSynced
<1> QED BY <1>7, <1>8, <1>9, <1>10, <1>12 DEF ClientInv

\* A notice that goes out to the client, from its queue or at once.
LEMMA NoticeKeepsClientInv ==
    ASSUME ClientInv, NEW x \in Notice, x.kind = "offline" => x.host \in closed,
           inbox' = Append(inbox, x), UNCHANGED <<cache, caller, requests, serving, outrun, closed>>,
           \A m \in Methods : view'[Client][m] = Applied(view[Client][m], m, x),
           serving # {} => Discovering(Client)'
    PROVE  ClientInv'
<1>1. x.method \in Methods /\ x.kind # "hosts" /\ x \notin Answer
  BY Kinds
<1>2. inbox \in Seq(Answer \cup Notice)
  BY DEF ClientInv, ClientTypes
<1>3. /\ inbox' \in Seq(Answer \cup Notice) /\ Elements(inbox') = Elements(inbox) \cup {x}
  BY <1>2, Appending
<1>4. ClientTypes'
  BY <1>3 DEF ClientInv, ClientTypes
<1>5. OnePlace'
  <2> SUFFICES ASSUME NEW v \in Callers
               PROVE  Count(inbox', AnswersTo(v)) = Count(inbox, AnswersTo(v))
    BY DEF ClientInv, OnePlace
  <2>1. x \notin AnswersTo(v)
    BY <1>1 DEF AnswersTo
  <2>2. Count(inbox', AnswersTo(v)) = Count(inbox, AnswersTo(v)) + IF x \in AnswersTo(v) THEN 1 ELSE 0
    BY <1>2, CountAppended
  <2>3. Count(inbox, AnswersTo(v)) \in Nat
    BY <1>2, CountIs
  <2> QED BY <2>1, <2>2, <2>3
<1>6. ServingOK' /\ NoticesOK' /\ ToldOK'
  BY <1>1, <1>3 DEF ClientInv, ServingOK, NoticesOK, ToldOK, HostsKept
<1>7. Synced'
  BY SentKeepsSynced
<1> QED BY <1>4, <1>5, <1>6, <1>7 DEF ClientInv

LEMMA SendNoticeKeepsClientInv ==
    ASSUME IInv, ClientInv, SendNotice PROVE ClientInv'
<1> DEFINE x == Head(pending[Client])
<1>1. /\ pending[Client] # <<>> /\ inbox' = Append(inbox, x)
      /\ view' = [view EXCEPT ![Client] = [view[Client] EXCEPT ![x.method] = Noted(view[Client][x.method], x)]]
      /\ UNCHANGED <<cache, caller, requests, serving, outrun, at, closed>>
  BY DEF SendNotice, SendQueued
<1>2. x \in Notice /\ x \in Elements(pending[Client])
  <2>1. pending[Client] \in Seq(Notice)
    BY TheClient DEF IInv, TypesOK, TypeOK
  <2> QED BY <1>1, <2>1, Taking
<1>3. x.method \in Methods /\ x.kind # "hosts"
  BY <1>2, Kinds
<1>4. x.kind = "offline" => x.host \in closed
  BY <1>2, TheClient DEF IInv, RetractedClosed
<1> HIDE DEF x
<1>5. \A n \in Methods : view'[Client][n] = Applied(view[Client][n], n, x)
  <2>1. view \in [Conns -> [Methods -> [Providers -> Nat]]]
    BY DEF IInv, TypesOK, TypeOK
  <2> QED BY <1>1, <1>3, <2>1, TheClient DEF Applied
<1>6. serving # {} => Discovering(Client)'
  BY <1>1 DEF ClientInv, ServingOK, Discovering
<1> QED BY <1>1, <1>2, <1>4, <1>5, <1>6, NoticeKeepsClientInv

\* What another connection's handler sends is a notice, about a closed host if
\* it retracts, and the client's handler is idle if it goes out to it at once.
LEMMA TheNotice ==
    ASSUME IInv, NEW c \in Conns, c # Client, at[c].step \in {"online", "offline"}
    PROVE  /\ NoticeOf(c) \in Notice
           /\ NoticeOf(c).kind = at[c].step /\ NoticeOf(c).host = c
           /\ NoticeOf(c).kind = "offline" => c \in closed
           /\ at[c].step = "online" => NoticeOf(c).method = at[c].method
           /\ at[c].step = "offline" => NoticeOf(c).method = Head(at[c].rest)
<1>1. c \in Providers /\ at[c] \in Place
  BY DEF IInv, TypesOK, TypeOK, PlacesOK
<1>2. at[c].step = "online" => at[c].method \in Methods
  BY <1>1, PlaceOf
<1>3. at[c].step = "offline" => Head(at[c].rest) \in Methods
  BY <1>1, PlaceOf, HeadTailProperties
<1>4. NoticeOf(c).method \in Methods
  BY <1>2, <1>3 DEF NoticeOf
<1> QED BY <1>1, <1>4 DEF NoticeOf, Notice, IInv, PlacesOK

\* A handler that notifies sends what SentAtOnce says to the client.
LEMMA NotifiedKeepsClientInv ==
    ASSUME IInv, ClientInv, NEW c \in Conns, c # Client, at[c].step \in {"online", "offline"},
           Notify(c, discoverers[NoticeOf(c).method], NoticeOf(c)),
           inbox' = inbox \o SentAtOnce(c), at'[Client] = at[Client],
           UNCHANGED <<cache, caller, requests, serving, outrun, closed>>
    PROVE  ClientInv'
<1> DEFINE x == NoticeOf(c)
<1>1. x \in Notice /\ (x.kind = "offline" => x.host \in closed)
  BY TheNotice
<1>2. Client \in Conns /\ view \in [Conns -> [Methods -> [Providers -> Nat]]]
  BY TheClient DEF IInv, TypesOK, TypeOK
<1>3. inbox \in Seq(Answer \cup Notice)
  BY DEF ClientInv, ClientTypes
<1>4. serving # {} => Discovering(Client)'
  BY DEF ClientInv, ServingOK, Discovering
<1>5. CASE SameLoop(c, Client) /\ Client \in discoverers[x.method] \ closed
  <2>1. inbox' = Append(inbox, x)
    <3>1. SentAtOnce(c) = <<x>>
      BY <1>5 DEF SentAtOnce
    <3> HIDE DEF x
    <3> QED BY <1>1, <1>3, <3>1
  <2>2. view'[Client] = [view[Client] EXCEPT ![x.method] = Noted(@, x)]
    BY <1>2, <1>5 DEF Notify
  <2> HIDE DEF x
  <2>3. x.method \in Methods /\ x.kind # "hosts"
    BY <1>1, Kinds
  <2>4. \A n \in Methods : view'[Client][n] = Applied(view[Client][n], n, x)
    BY <1>2, <2>2, <2>3 DEF Applied
  <2> QED BY <1>1, <1>4, <2>1, <2>4, NoticeKeepsClientInv
<1>6. CASE ~(SameLoop(c, Client) /\ Client \in discoverers[x.method] \ closed)
  <2>1. inbox' = inbox
    <3>1. SentAtOnce(c) = <<>>
      BY <1>6 DEF SentAtOnce
    <3> QED BY <1>3, <3>1
  <2>2. view'[Client] = view[Client]
    BY <1>2, <1>6 DEF Notify
  <2> QED BY <1>4, <2>1, <2>2, ClientUntouched DEF clientVars
<1> QED BY <1>5, <1>6

\* No handler but its own steps for the client; the others send to it at most.
LEMMA OtherStepKeepsClientInv ==
    ASSUME IInv, ClientInv, NEW c \in Conns, OtherStep(c) PROVE ClientInv'
<1>1. /\ c # Client /\ Client \in Conns /\ inbox' = inbox \o SentAtOnce(c)
      /\ UNCHANGED <<cache, caller, requests, serving, outrun>>
  BY TheClient DEF OtherStep
<1>2. /\ at \in [Conns -> Place] /\ view \in [Conns -> [Methods -> [Providers -> Nat]]]
      /\ inbox \in Seq(Answer \cup Notice)
  BY DEF IInv, TypesOK, TypeOK, ClientInv, ClientTypes
<1>3. CASE OnlineNotify(c)
  <2>1. /\ at[c].step = "online" /\ at' = [at EXCEPT ![c] = Idle] /\ UNCHANGED closed
        /\ Notify(c, discoverers[at[c].method],
                  [kind |-> "online", method |-> at[c].method, host |-> c])
    BY <1>3 DEF OnlineNotify
  <2>2. NoticeOf(c) = [kind |-> "online", method |-> at[c].method, host |-> c]
    BY <2>1 DEF NoticeOf
  <2>3. Notify(c, discoverers[NoticeOf(c).method], NoticeOf(c)) /\ at'[Client] = at[Client]
    BY <1>1, <1>2, <2>1, <2>2
  <2> QED BY <1>1, <2>1, <2>3, NotifiedKeepsClientInv
<1>4. CASE OfflineNotify(c)
  <2>1. /\ at[c].step = "offline" /\ at' = [at EXCEPT ![c] = Retracting(Tail(at[c].rest))]
        /\ UNCHANGED closed
        /\ Notify(c, discoverers[Head(at[c].rest)],
                  [kind |-> "offline", method |-> Head(at[c].rest), host |-> c])
    BY <1>4 DEF OfflineNotify
  <2>2. NoticeOf(c) = [kind |-> "offline", method |-> Head(at[c].rest), host |-> c]
    BY <2>1 DEF NoticeOf
  <2>3. Notify(c, discoverers[NoticeOf(c).method], NoticeOf(c)) /\ at'[Client] = at[Client]
    BY <1>1, <1>2, <2>1, <2>2
  <2> QED BY <1>1, <2>1, <2>3, NotifiedKeepsClientInv
<1>5. ASSUME at[c].step \notin {"online", "offline"}, view'[Client] = view[Client],
             at'[Client] = at[Client], closed \subseteq closed'
      PROVE  ClientInv'
  <2>1. SentAtOnce(c) = <<>>
    BY <1>5 DEF SentAtOnce
  <2>2. inbox' = inbox
    BY <1>1, <1>2, <2>1
  <2>3. serving # {} => Discovering(Client)'
    BY <1>5 DEF ClientInv, ServingOK, Discovering
  <2> QED BY <1>1, <1>5, <2>2, <2>3, ClientUntouched DEF clientVars
<1>6. LoopFree(c) => at[c].step = "idle"
  BY Going DEF LoopFree, SameLoop
<1>7. ASSUME NEW m \in Methods, AddProvider(c, m) \/ AddDiscoverer(c, m) PROVE ClientInv'
  BY <1>1, <1>2, <1>5, <1>6, <1>7 DEF AddProvider, AddDiscoverer, MayAsk
<1>8. CASE OnConnectionShutdown(c)
  BY <1>1, <1>2, <1>5, <1>6, <1>8 DEF OnConnectionShutdown
<1>9. CASE AppendMethod(c) \/ AppendWanted(c) \/ RemoveProvider(c) \/ RemoveDiscoverer(c)
  BY <1>1, <1>2, <1>5, <1>9 DEF AppendMethod, AppendWanted, RemoveProvider, RemoveDiscoverer
<1>10. CASE GetHosts(c) \/ DiscoverResponse(c)
  BY <1>1, <1>2, <1>5, <1>10 DEF GetHosts, DiscoverResponse
<1>11. CASE SendQueued(c)
  BY <1>1, <1>2, <1>5, <1>6, <1>11 DEF SendQueued
<1> QED BY <1>3, <1>4, <1>7, <1>8, <1>9, <1>10, <1>11 DEF OtherStep, Step, Request, HandlerStep

LEMMA ClientHandlerKeepsClientInv ==
    ASSUME IInv, ClientInv, ClientHandler \/ Disconnect PROVE ClientInv'
<1>1. at \in [Conns -> Place] /\ Client \in Conns
  BY TheClient DEF IInv, TypesOK
<1>2. UNCHANGED clientVars /\ view' = view /\ closed \subseteq closed'
  BY DEF ClientHandler, Disconnect, AppendWanted, GetHosts, RemoveDiscoverer, OnConnectionShutdown
<1>3. serving # {} => Discovering(Client)
  BY DEF ClientInv, ServingOK
<1>4. CASE AppendWanted(Client)
  <2>1. /\ at[Client] = [step |-> "appendWanted", method |-> at[Client].method]
        /\ at' = [at EXCEPT ![Client] = [at[Client] EXCEPT !.step = "hosts"]]
    BY <1>1, <1>4, PlaceOf DEF AppendWanted
  <2>2. [at[Client] EXCEPT !.step = "hosts"].step = "hosts"
    BY <2>1
  <2>3. Discovering(Client)'
    BY <1>1, <2>1, <2>2 DEF Discovering
  <2> QED BY <1>2, <2>3, ClientUntouched
<1>5. CASE GetHosts(Client)
  <2>1. Discovering(Client)'
    BY <1>1, <1>5 DEF GetHosts, Discovering
  <2> QED BY <1>2, <2>1, ClientUntouched
<1>6. CASE RemoveDiscoverer(Client) \/ OnConnectionShutdown(Client)
  <2>1. ~Discovering(Client)
    BY <1>1, <1>6, Going DEF RemoveDiscoverer, OnConnectionShutdown, LoopFree, SameLoop, Discovering
  <2> QED BY <1>2, <1>3, <2>1, ClientUntouched
<1> QED BY <1>4, <1>5, <1>6 DEF ClientHandler, Disconnect

-----------------------------------------------------------------------------
(* The theorems about the client and the server together.                  *)

LEMMA NextKeepsClientInv == IInv /\ ClientInv /\ [DiscoveryNext]_allVars => ClientInv'
<1> SUFFICES ASSUME IInv, ClientInv, [DiscoveryNext]_allVars PROVE ClientInv'
  OBVIOUS
<1>1. ASSUME NEW u \in Callers, CallerStep(u) PROVE ClientInv'
  BY <1>1, CallerStepKeepsClientInv, StoreKeepsClientInv DEF CallerStep
<1>2. ASSUME NEW u \in Callers, NEW m \in Methods, Ask(u, m) PROVE ClientInv'
  BY <1>2, AskKeepsClientInv
<1>3. CASE OnMessage
  BY <1>3, OnMessageKeepsClientInv
<1>4. CASE ReceiveDiscover
  BY <1>4, ReceiveDiscoverKeepsClientInv
<1>5. CASE SendAnswer
  BY <1>5, SendAnswerKeepsClientInv
<1>6. CASE SendNotice
  BY <1>6, SendNoticeKeepsClientInv
<1>7. CASE ClientHandler \/ Disconnect
  BY <1>7, ClientHandlerKeepsClientInv
<1>8. ASSUME NEW c \in Conns, OtherStep(c) PROVE ClientInv'
  BY <1>8, OtherStepKeepsClientInv
<1>9. CASE UNCHANGED allVars
  BY <1>9, ClientUntouched DEF allVars, vars, clientVars, ClientInv, ServingOK, Discovering
<1> QED BY <1>1, <1>2, <1>3, <1>4, <1>5, <1>6, <1>7, <1>8, <1>9 DEF DiscoveryNext

\* Every step of the two together is a step of the server or none of its.
LEMMA StepsOfServer == ClientInv /\ [DiscoveryNext]_allVars => [Next]_vars
<1> SUFFICES ASSUME ClientInv, DiscoveryNext PROVE [Next]_vars
  BY DEF allVars
<1>1. Client \in Conns
  BY TheClient
<1>2. ASSUME NEW u \in Callers, CallerStep(u) \/ \E m \in Methods : Ask(u, m) PROVE UNCHANGED vars
  BY <1>2 DEF CallerStep, FindCached, Store, NotFound, Pick, ReturnHost, Ask
<1>3. CASE OnMessage
  BY <1>3 DEF OnMessage
<1>4. CASE ReceiveDiscover
  <2>1. requests \in Seq(Callers \X Methods) /\ requests # <<>>
    BY <1>4 DEF ClientInv, ClientTypes, ReceiveDiscover
  <2>2. Head(requests) \in Callers \X Methods
    BY <2>1, Taking
  <2>3. Head(requests)[2] \in Methods
    BY <2>2
  <2> QED BY <1>1, <1>4, <2>3 DEF ReceiveDiscover, Next, Step, Request
<1>5. CASE SendAnswer \/ SendNotice \/ ClientHandler \/ Disconnect
  BY <1>1, <1>5 DEF SendAnswer, SendNotice, ClientHandler, Disconnect, Next, Step, Request, HandlerStep
<1>6. ASSUME NEW c \in Conns, OtherStep(c) PROVE [Next]_vars
  BY <1>6 DEF OtherStep, Next
<1> QED BY <1>2, <1>3, <1>4, <1>5, <1>6 DEF DiscoveryNext

THEOREM TogetherInvariance == DiscoverySpec => [](IInv /\ Balance /\ ClientInv)
<1>1. DiscoveryInit => IInv /\ Balance /\ ClientInv
  BY InitIInv, InitBalance, InitClientInv DEF DiscoveryInit
<1>2. IInv /\ Balance /\ ClientInv /\ [DiscoveryNext]_allVars => (IInv /\ Balance /\ ClientInv)'
  BY StepsOfServer, NextKeepsIInv, NextKeepsBalance, NextKeepsClientInv
<1> QED BY <1>1, <1>2, PTL DEF DiscoverySpec

\* The server with a Discoverer attached still is the server that Registry
\* specifies, so that what is proved of it alone holds with the client.
THEOREM ServerInContext == DiscoverySpec => Spec
<1>1. DiscoveryInit => Init
  BY DEF DiscoveryInit
<1> QED BY <1>1, TogetherInvariance, StepsOfServer, PTL DEF DiscoverySpec, Spec

\* Discoverer::ServiceDiscover: a caller that waits has its request, the
\* server's attention or its answer under way, and only one of them.
THEOREM ServedOnce == DiscoverySpec => []CallersServed
<1>1. ClientInv => CallersServed
  <2> SUFFICES ASSUME ClientInv, NEW u \in Callers
               PROVE  Cardinality({i \in DOMAIN requests : requests[i][1] = u})
                      + Cardinality(serving \cap {u})
                      + Cardinality({i \in DOMAIN inbox : "to" \in DOMAIN inbox[i] /\ inbox[i].to = u})
                        = IF caller[u].step = "waiting" THEN 1 ELSE 0
    BY DEF CallersServed
  <2>1. /\ requests \in Seq(Callers \X Methods) /\ inbox \in Seq(Answer \cup Notice)
    BY DEF ClientInv, ClientTypes
  <2>2. /\ \A i \in DOMAIN requests : requests[i] \in Callers \X Methods
        /\ \A i \in DOMAIN inbox : inbox[i] \in Answer \cup Notice
    BY <2>1, ElementsIn DEF Elements
  <2>3. {i \in DOMAIN requests : requests[i][1] = u} = {i \in DOMAIN requests : requests[i] \in AskedBy(u)}
    BY <2>2 DEF AskedBy
  <2>4. \A i \in DOMAIN inbox : "to" \in DOMAIN inbox[i] <=> inbox[i] \in Answer
    BY <2>2, Kinds
  <2>5. {i \in DOMAIN inbox : "to" \in DOMAIN inbox[i] /\ inbox[i].to = u}
            = {i \in DOMAIN inbox : inbox[i] \in AnswersTo(u)}
    BY <2>4 DEF AnswersTo
  <2>6. Cardinality(serving \cap {u}) = IF u \in serving THEN 1 ELSE 0
    <3>1. CASE u \in serving
      <4>1. serving \cap {u} = {u}
        BY <3>1
      <4> QED BY <3>1, <4>1, FS_Singleton
    <3>2. CASE u \notin serving
      <4>1. serving \cap {u} = {}
        BY <3>2
      <4> QED BY <3>2, <4>1, FS_EmptySet
    <3> QED BY <3>1, <3>2
  <2> DEFINE p == Count(requests, AskedBy(u))
             q == Count(inbox, AnswersTo(u))
             s == IF u \in serving THEN 1 ELSE 0
  <2>7. p + q + s = IF caller[u].step = "waiting" THEN 1 ELSE 0
    BY DEF ClientInv, OnePlace
  <2>8. p \in Nat /\ q \in Nat /\ s \in Nat
    BY <2>1, CountIs
  <2>9. /\ Cardinality({i \in DOMAIN requests : requests[i][1] = u}) = p
        /\ Cardinality({i \in DOMAIN inbox : "to" \in DOMAIN inbox[i] /\ inbox[i].to = u}) = q
    BY <2>3, <2>5 DEF Count
  <2> HIDE DEF p, q, s
  <2>10. p + s + q = p + q + s
    BY <2>8
  <2> QED BY <2>6, <2>7, <2>9, <2>10 DEF s
<1> QED BY <1>1, TogetherInvariance, PTL

\* Discoverer::ServiceDiscover and MethodHost::GetHost: no caller is handed the
\* default address while a host it was told of is open.
THEOREM DefaultOnlyIfGone == DiscoverySpec => []NoHostOnlyIfGone
<1>1. ClientInv => NoHostOnlyIfGone
  BY DEF ClientInv, ToldOK, HostsKept, NoHostOnlyIfGone
<1> QED BY <1>1, TogetherInvariance, PTL

\* Discoverer end to end: at rest the client lists the hosts that are
\* registered, with the exceptions that CacheExact names.
THEOREM CacheStaysExact == DiscoverySpec => []CacheExact
<1>1. IInv /\ Balance /\ ClientInv => CacheExact
  <2> SUFFICES ASSUME IInv, Balance, ClientInv, NEW m \in wanted[Client], NEW p \in Providers,
                      Connected, inbox = <<>>, pending[Client] = <<>>,
                      at[Client] = Idle, at[p] = Idle, ~AnswerHeld(m), m \notin outrun,
                      <<Client, p>> \notin overlapped
               PROVE  cache[m][p] > 0 <=> p \in providers[m]
    BY DEF CacheExact, Handling
  <2>1. /\ TypeOK /\ PlacesOK /\ ProvidersListed /\ WantedEntered /\ Informed
        /\ MethodsEntered /\ Balanced
    BY DEF IInv, TypesOK, AllListed, Balance
  <2>2. /\ Client \in Discoverers \ closed /\ Client \in Conns /\ p \in Conns
    BY TheClient DEF Connected, Conns
  <2>3. m \in Methods /\ methods[p] \in Seq(Methods) /\ view[Client][m][p] \in Nat
    BY <2>1, <2>2 DEF TypeOK
  <2>4. cache[m] = view[Client][m]
    <3>1. PICK g : Leads(g, m)
      BY <2>3 DEF ClientInv, Synced
    <3>2. Len(inbox) = 0
      OBVIOUS
    <3> QED BY <3>1, <3>2 DEF Leads
  <2>5. /\ Elements(pending[Client]) = {} /\ \A e : Copies(pending[Client], e) = 0
        /\ Owed(p, m) = 0 /\ Rest(p, m) = 0
    <3>1. <<>> \in Seq(Notice)
      BY EmptySeq
    <3>2. \A e : Copies(<<>>, e) = 0
      BY <3>1, CopiesAre
    <3>3. \A e : Copies(pending[Client], e) = 0
      BY <3>2
    <3>4. Elements(pending[Client]) = {}
      BY DEF Elements
    <3>5. Owed(p, m) = 0 /\ Rest(p, m) = 0
      BY Going DEF Owed, Rest
    <3> QED BY <3>3, <3>4, <3>5
  <2>6. view[Client][m][p] <= IF p \in closed THEN 0 ELSE Copies(methods[p], m)
    BY <2>1, <2>2, <2>3, <2>5 DEF Balanced
  <2>7. CASE p \in closed
    <3>1. p \notin provConns
      BY <2>1, <2>2, <2>7, Going DEF PlacesOK
    <3>2. p \notin providers[m]
      BY <2>1, <2>3, <3>1 DEF ProvidersListed
    <3> QED BY <2>3, <2>4, <2>6, <2>7, <3>2
  <2>8. CASE p \notin closed
    <3>1. view[Client][m][p] > 0 => p \in providers[m]
      <4>1. m \notin Elements(methods[p]) => Copies(methods[p], m) = 0
        BY <2>3, CopiesAre
      <4> QED BY <2>1, <2>3, <2>6, <2>8, <4>1 DEF MethodsEntered
    <3>2. p \in providers[m] => view[Client][m][p] > 0
      <4>1. ~Registering(p, m) /\ ~Asking(Client, m) /\ ~Answering(Client, m)
        BY Going DEF Registering, Asking, Answering
      <4>2. Client \in discoverers[m]
        BY <2>1, <2>2, <2>3 DEF WantedEntered
      <4> QED BY <2>1, <2>2, <2>3, <2>5, <2>8, <4>1, <4>2 DEF Informed
    <3> QED BY <2>4, <3>1, <3>2
  <2> QED BY <2>7, <2>8
<1> QED BY <1>1, TogetherInvariance, PTL

=============================================================================

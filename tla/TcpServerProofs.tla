--------------------------- MODULE TcpServerProofs ---------------------------
(***************************************************************************)
(* What TcpServer keeps for every number of worker threads, connections    *)
(* and calls of Stop(): the two connection tables agree with the           *)
(* connections, and when Start returns everything is closed and joined.    *)
(*                                                                         *)
(* The inductive invariant is about the order in which a loop runs what it *)
(* was given: a connection's Establish comes before its Release, and the   *)
(* functor that stops a loop comes after the Release of every connection   *)
(* that still lives there.                                                 *)
(***************************************************************************)
EXTENDS TcpServer, TLAPS, SequenceTheorems

-----------------------------------------------------------------------------
(* The inductive invariant.                                                *)

\* What a loop has still to run, in its order.
Exec(l) == batch[l] \o queue[l]

Functors ==
    [do : {"Establish", "Release", "Use", "erase", "stop", "StopInLoop"}, conn : 0..MaxConns]

TypesOK ==
    /\ count \in 0..MaxWorkers
    /\ turn \in 0..count
    /\ threads \in SUBSET (1..count)
    /\ phase \in Phases
    /\ life \in [Loops -> {"none", "starting", "running", "ended"}]
    /\ stop \in [Loops -> BOOLEAN]
    /\ queue \in [Loops -> Seq(Functors)]
    /\ batch \in [Loops -> Seq(Functors)]
    /\ next \in Nat
    /\ serial \in 0..MaxConns
    /\ open \in BOOLEAN
    /\ status \in [Conns -> {"none", "CONNECTING", "CONNECTED", "DISCONNECTED"}]
    /\ loop \in [Conns -> 0..count]
    /\ conns \in SUBSET (1..serial)
    /\ known \in SUBSET (1..serial)

\* f waits in s; s holds a functor that ends its loop.
In(f, s) == \E i \in 1..Len(s) : s[i] = f
Stopping(s) == \E i \in 1..Len(s) : s[i].do = "stop"

\* A functor is in the loop of its connection, which it finds as it expects.
FunctorOK(l, f) ==
    /\ f.do \in {"Establish", "Release", "Use"} => f.conn \in 1..serial /\ loop[f.conn] = l
    /\ f.do = "Establish" => status[f.conn] = "CONNECTING"
    /\ f.do = "Use" => status[f.conn] \in {"CONNECTED", "DISCONNECTED"}
    /\ f.do = "erase" => l = Base /\ f.conn \in 1..serial /\ status[f.conn] = "DISCONNECTED"
    /\ f.do = "StopInLoop" => l = Base

FunctorsOK ==
    \A l \in Loops : \A f \in Functors : In(f, Exec(l)) => FunctorOK(l, f)

\* A connection is established before it is released, and once.
EstablishedFirst(s) ==
    \A i, j \in 1..Len(s) :
        s[i].do = "Establish" /\ s[j].do \in {"Establish", "Release"} /\ s[i].conn = s[j].conn
            => i <= j

InOrder == \A l \in Loops : EstablishedFirst(Exec(l))

\* A live connection is listed or will be released, a dead one will be erased.
Listed(c) == c \in conns \/ Inserting(c)

ConnOK(c) ==
    /\ status[c] # "none"
    /\ status[c] = "CONNECTING" => In(Functor("Establish", c), Exec(loop[c]))
    /\ status[c] # "DISCONNECTED" => Listed(c) \/ In(Functor("Release", c), Exec(loop[c]))
    /\ status[c] = "DISCONNECTED" /\ Listed(c) => In(Functor("erase", c), Exec(Base))

ConnsOK ==
    /\ \A c \in 1..serial : ConnOK(c)
    /\ \A c \in Conns : c > serial => status[c] = "none"
    /\ known = {c \in Conns : status[c] = "CONNECTED"}

\* A loop that is told to stop releases all its connections before it comes to
\* that, and one that has stopped has none.
Live(l) == {c \in 1..serial : loop[c] = l /\ status[c] # "DISCONNECTED"}

ReleasedFirst(s, cs) ==
    \A i \in 1..Len(s) : s[i].do = "stop" =>
        \A c \in cs : \E j \in 1..Len(s) : j < i /\ s[j] = Functor("Release", c)

LoopOK(l) ==
    /\ ReleasedFirst(Exec(l), Live(l))
    /\ stop[l] => Live(l) = {}
    /\ life[l] = "ended" => stop[l]

LoopsOK == \A l \in Loops : LoopOK(l)

\* Who runs in which phase.  A loop is told to stop only after the acceptor was
\* closed and the table cleared, the base loop when the workers have ended.
Starting == phase \in {"new", "create", "wait"}
Ending(l) == stop[l] \/ Stopping(Exec(l))

PhaseOK ==
    /\ Starting =>
        /\ open /\ life[Base] = "none" /\ threads = 1..turn
        /\ \A w \in Workers : life[w] = "none" <=> w > turn
        /\ \A w \in Workers : life[w] = "starting" => phase = "wait" /\ w = turn
    /\ phase = "wait" => turn > 0
    /\ ~Starting =>
        /\ life[Base] = IF phase = "done" THEN "ended" ELSE "running"
        /\ \A w \in 1..count : life[w] \in {"running", "ended"}
        /\ \A w \in 1..count : w \notin threads => life[w] = "ended"
    /\ phase \in {"release", "stop", "join", "done"} => ~open
    /\ phase = "insert" => open /\ serial > 0
    /\ phase = "join" => turn \in threads

EndingOK ==
    /\ open \/ conns # {} => \A l \in Loops : ~Ending(l)
    /\ ~open /\ phase # "release" => conns = {}
    /\ \A w \in threads : Ending(w) => phase = "join" /\ turn = w
    /\ Ending(Base) => threads = {}

IInv ==
    /\ TypesOK /\ FunctorsOK /\ InOrder /\ ConnsOK /\ LoopsOK /\ PhaseOK /\ EndingOK

-----------------------------------------------------------------------------
(* Lemmas on what a loop has to run.                                       *)

LEMMA Constants ==
    /\ MaxWorkers \in Nat /\ MaxConns \in Nat /\ MaxStops \in Nat
    /\ Base = 0 /\ Base \in Loops /\ \A w \in Workers : w \in Loops /\ w # Base /\ w \in Nat
    /\ Loops = 0..MaxWorkers /\ Workers = 1..MaxWorkers /\ Conns = 1..MaxConns
BY ServerAssumption DEF Base, Loops, Workers, Conns

LEMMA FunctorIs ==
    ASSUME NEW do, NEW c
    PROVE  /\ Functor(do, c).do = do /\ Functor(do, c).conn = c
           /\ do \in {"Establish", "Release", "Use", "erase", "stop", "StopInLoop"} /\ c \in 0..MaxConns
                => Functor(do, c) \in Functors
           /\ \A f \in Functors : f = Functor(f.do, f.conn)
BY DEF Functor, Functors

LEMMA Added ==
    ASSUME NEW s \in Seq(Functors), NEW f \in Functors
    PROVE  /\ Append(s, f) \in Seq(Functors)
           /\ \A g : In(g, Append(s, f)) <=> In(g, s) \/ g = f
           /\ Stopping(Append(s, f)) <=> Stopping(s) \/ f.do = "stop"
           /\ \A i \in 1..Len(Append(s, f)) : Append(s, f)[i] = f \/ (i \in 1..Len(s) /\ Append(s, f)[i] = s[i])
           /\ EstablishedFirst(s)
              /\ (f.do = "Establish" =>
                    \A g \in Functors : In(g, s) /\ g.do \in {"Establish", "Release"} => g.conn # f.conn)
                => EstablishedFirst(Append(s, f))
           /\ \A cs : ReleasedFirst(s, cs) /\ (f.do = "stop" => \A c \in cs : In(Functor("Release", c), s))
                => ReleasedFirst(Append(s, f), cs)
<1> DEFINE t == Append(s, f)
<1>1. /\ t \in Seq(Functors) /\ Len(t) = Len(s) + 1 /\ Len(s) \in Nat
      /\ \A i \in 1..Len(s) : t[i] = s[i]
      /\ t[Len(s) + 1] = f
  BY AppendProperties, LenProperties
<1> HIDE DEF t
<1>2. /\ \A i \in 1..Len(t) : i \in 1..Len(s) \/ i = Len(s) + 1
      /\ \A i \in 1..Len(s) : i \in 1..Len(t) /\ i < Len(s) + 1
      /\ Len(s) + 1 \in 1..Len(t)
  BY <1>1
<1>3. \A i \in 1..Len(t) : t[i] = f \/ (i \in 1..Len(s) /\ t[i] = s[i])
  BY <1>1, <1>2
<1>4. \A g : In(g, t) <=> In(g, s) \/ g = f
  BY <1>1, <1>2 DEF In
<1>5. Stopping(t) <=> Stopping(s) \/ f.do = "stop"
  BY <1>1, <1>2 DEF Stopping
<1>6. ASSUME EstablishedFirst(s),
             f.do = "Establish" =>
                \A g \in Functors : In(g, s) /\ g.do \in {"Establish", "Release"} => g.conn # f.conn
      PROVE  EstablishedFirst(t)
  <2> SUFFICES ASSUME NEW i \in 1..Len(t), NEW j \in 1..Len(t), t[i].do = "Establish",
                      t[j].do \in {"Establish", "Release"}, t[i].conn = t[j].conn
               PROVE  i <= j
    BY DEF EstablishedFirst
  <2>1. CASE i \in 1..Len(s) /\ j \in 1..Len(s)
    BY <1>1, <1>6, <2>1 DEF EstablishedFirst
  <2>2. CASE i = Len(s) + 1 /\ j \in 1..Len(s)
    <3>1. s[j] \in Functors /\ In(s[j], s) /\ t[j] = s[j] /\ t[i] = f
      BY <1>1, <2>2, ElementOfSeq DEF In
    <3> QED BY <1>6, <3>1
  <2>3. CASE j = Len(s) + 1
    BY <1>1, <1>2, <2>3
  <2> QED BY <1>2, <2>1, <2>2, <2>3
<1>7. ASSUME NEW cs, ReleasedFirst(s, cs), f.do = "stop" => \A c \in cs : In(Functor("Release", c), s)
      PROVE  ReleasedFirst(t, cs)
  <2> SUFFICES ASSUME NEW i \in 1..Len(t), t[i].do = "stop", NEW c \in cs
               PROVE  \E j \in 1..Len(t) : j < i /\ t[j] = Functor("Release", c)
    BY DEF ReleasedFirst
  <2>1. CASE i \in 1..Len(s)
    <3>1. PICK j \in 1..Len(s) : j < i /\ s[j] = Functor("Release", c)
      BY <1>1, <1>7, <2>1 DEF ReleasedFirst
    <3> QED BY <1>1, <1>2, <3>1
  <2>2. CASE i = Len(s) + 1
    <3>1. PICK j \in 1..Len(s) : s[j] = Functor("Release", c)
      BY <1>1, <1>7, <2>2 DEF In
    <3> QED BY <1>1, <1>2, <2>2, <3>1
  <2> QED BY <1>2, <2>1, <2>2
<1> QED BY <1>1, <1>3, <1>4, <1>5, <1>6, <1>7 DEF t

LEMMA TakenOff ==
    ASSUME NEW s \in Seq(Functors), s # <<>>
    PROVE  /\ Tail(s) \in Seq(Functors) /\ Head(s) \in Functors /\ In(Head(s), s)
           /\ \A g : In(g, s) => g = Head(s) \/ In(g, Tail(s))
           /\ \A i \in 1..Len(Tail(s)) : i + 1 \in 1..Len(s) /\ Tail(s)[i] = s[i + 1]
           /\ Stopping(Tail(s)) => Stopping(s)
           /\ Head(s).do = "stop" => Stopping(s)
           /\ EstablishedFirst(s) => EstablishedFirst(Tail(s))
           /\ EstablishedFirst(s) /\ Head(s).do \in {"Establish", "Release"} =>
                \A i \in 1..Len(Tail(s)) :
                    ~(Tail(s)[i].do = "Establish" /\ Tail(s)[i].conn = Head(s).conn)
           /\ \A cs : ReleasedFirst(s, cs) /\ Head(s).do = "stop" => cs = {}
           /\ \A cs, ds : ReleasedFirst(s, cs) /\ ds \subseteq cs
                /\ (\A c \in ds : Head(s) # Functor("Release", c)) => ReleasedFirst(Tail(s), ds)
<1> DEFINE t == Tail(s)
           h == Head(s)
<1>1. /\ t \in Seq(Functors) /\ h \in Functors /\ Len(t) = Len(s) - 1 /\ Len(s) \in Nat \ {0}
      /\ \A i \in 1..Len(t) : t[i] = s[i + 1]
      /\ h = s[1]
  BY HeadTailProperties, EmptySeq
<1> HIDE DEF t, h
<1>2. /\ 1 \in 1..Len(s) /\ Len(t) \in Nat
      /\ \A i \in 1..Len(t) : i + 1 \in 1..Len(s) /\ ~(i + 1 <= 1)
      /\ \A i \in 1..Len(s) : i = 1 \/ (i - 1 \in 1..Len(t) /\ (i - 1) + 1 = i)
  BY <1>1
<1>3. In(h, s)
  BY <1>1, <1>2 DEF In
<1>4. ASSUME NEW g, In(g, s) PROVE g = h \/ In(g, t)
  <2>1. PICK i \in 1..Len(s) : s[i] = g
    BY <1>4 DEF In
  <2>2. CASE i = 1
    BY <1>1, <2>1, <2>2
  <2>3. CASE i # 1
    <3>1. i - 1 \in 1..Len(t) /\ t[i - 1] = g
      BY <1>1, <1>2, <2>1, <2>3
    <3> QED BY <3>1 DEF In
  <2> QED BY <2>2, <2>3
<1>5. Stopping(t) => Stopping(s)
  BY <1>1, <1>2 DEF Stopping
<1>6. h.do = "stop" => Stopping(s)
  BY <1>1, <1>2 DEF Stopping
<1>7. EstablishedFirst(s) => EstablishedFirst(t)
  <2> SUFFICES ASSUME EstablishedFirst(s), NEW i \in 1..Len(t), NEW j \in 1..Len(t),
                      t[i].do = "Establish", t[j].do \in {"Establish", "Release"}, t[i].conn = t[j].conn
               PROVE  i <= j
    BY DEF EstablishedFirst
  <2>1. i + 1 <= j + 1
    BY <1>1, <1>2 DEF EstablishedFirst
  <2> QED BY <2>1
<1>8. ASSUME EstablishedFirst(s), h.do \in {"Establish", "Release"}, NEW i \in 1..Len(t),
             t[i].do = "Establish", t[i].conn = h.conn
      PROVE  FALSE
  <2>1. i + 1 <= 1
    BY <1>1, <1>2, <1>8 DEF EstablishedFirst
  <2> QED BY <1>2, <2>1
<1>9. ASSUME NEW cs, ReleasedFirst(s, cs), h.do = "stop" PROVE cs = {}
  <2>1. ASSUME NEW c \in cs PROVE FALSE
    <3>1. PICK j \in 1..Len(s) : j < 1
      BY <1>1, <1>2, <1>9 DEF ReleasedFirst
    <3> QED BY <3>1
  <2> QED BY <2>1
<1>10. ASSUME NEW cs, NEW ds, ReleasedFirst(s, cs), ds \subseteq cs,
              \A c \in ds : h # Functor("Release", c)
       PROVE  ReleasedFirst(t, ds)
  <2> SUFFICES ASSUME NEW i \in 1..Len(t), t[i].do = "stop", NEW c \in ds
               PROVE  \E j \in 1..Len(t) : j < i /\ t[j] = Functor("Release", c)
    BY DEF ReleasedFirst
  <2>1. i + 1 \in 1..Len(s) /\ s[i + 1].do = "stop" /\ c \in cs
    BY <1>1, <1>2, <1>10
  <2>2. PICK j \in 1..Len(s) : j < i + 1 /\ s[j] = Functor("Release", c)
    BY <1>10, <2>1 DEF ReleasedFirst
  <2>3. j # 1
    BY <1>1, <1>10, <2>2
  <2>4. j - 1 \in 1..Len(t) /\ (j - 1) + 1 = j /\ j - 1 < i
    BY <1>2, <2>2, <2>3
  <2>5. t[j - 1] = Functor("Release", c)
    BY <1>1, <2>2, <2>4
  <2> QED BY <2>4, <2>5
<1> QED BY <1>1, <1>2, <1>3, <1>4, <1>5, <1>6, <1>7, <1>8, <1>9, <1>10 DEF t, h

\* A loop's functors, with one added behind them or the first one taken off.
LEMMA Joined ==
    ASSUME NEW b \in Seq(Functors), NEW q \in Seq(Functors)
    PROVE  /\ b \o q \in Seq(Functors)
           /\ \A f \in Functors : b \o Append(q, f) = Append(b \o q, f)
           /\ b # <<>> =>
                /\ b \o q # <<>>
                /\ Head(b \o q) = Head(b)
                /\ Tail(b) \o q = Tail(b \o q)
           /\ b = <<>> => b \o q = q /\ q \o <<>> = q
<1>1. b \o q \in Seq(Functors)
  BY ConcatProperties
<1>2. ASSUME NEW f \in Functors PROVE b \o Append(q, f) = Append(b \o q, f)
  <2>1. <<f>> \in Seq(Functors) /\ Append(q, f) = q \o <<f>> /\ Append(b \o q, f) = (b \o q) \o <<f>>
    BY <1>1, AppendIsConcat
  <2> QED BY <2>1, ConcatAssociative
<1>3. ASSUME b # <<>>
      PROVE  b \o q # <<>> /\ Head(b \o q) = Head(b) /\ Tail(b) \o q = Tail(b \o q)
  <2> DEFINE s == b \o q
             t == Tail(b)
  <2>1. /\ Len(b) \in Nat \ {0} /\ Len(q) \in Nat /\ Len(s) = Len(b) + Len(q) /\ s \in Seq(Functors)
        /\ \A i \in 1..Len(b) + Len(q) : s[i] = IF i <= Len(b) THEN b[i] ELSE q[i - Len(b)]
    BY <1>1, <1>3, ConcatProperties, EmptySeq, LenProperties
  <2>2. s # <<>> /\ Head(s) = s[1] /\ Head(b) = b[1] /\ s[1] = b[1]
    <3>1. s # <<>>
      BY <2>1, EmptySeq
    <3>2. s[1] = b[1]
      BY <2>1
    <3> QED BY <1>3, <2>1, <3>1, <3>2, HeadTailProperties
  <2>3. /\ t \in Seq(Functors) /\ Len(t) = Len(b) - 1
        /\ \A i \in 1..Len(t) : t[i] = b[i + 1]
    BY <1>3, HeadTailProperties
  <2>4. /\ Tail(s) \in Seq(Functors) /\ Len(Tail(s)) = Len(s) - 1
        /\ \A i \in 1..Len(Tail(s)) : Tail(s)[i] = s[i + 1]
    BY <2>1, <2>2, HeadTailProperties
  <2>5. /\ t \o q \in Seq(Functors) /\ Len(t \o q) = Len(t) + Len(q)
        /\ \A i \in 1..Len(t) + Len(q) : (t \o q)[i] = IF i <= Len(t) THEN t[i] ELSE q[i - Len(t)]
    BY <2>3, ConcatProperties
  <2> HIDE DEF s, t
  <2>6. Len(t \o q) = Len(Tail(s))
    BY <2>1, <2>3, <2>4, <2>5
  <2>7. ASSUME NEW i \in 1..Len(t \o q) PROVE (t \o q)[i] = Tail(s)[i]
    <3>1. CASE i <= Len(t)
      BY <2>1, <2>3, <2>4, <2>5, <3>1
    <3>2. CASE ~(i <= Len(t))
      <4>1. (t \o q)[i] = q[i - Len(t)] /\ Tail(s)[i] = s[i + 1]
        BY <2>1, <2>3, <2>4, <2>5, <3>2
      <4>2. s[i + 1] = q[(i + 1) - Len(b)] /\ (i + 1) - Len(b) = i - Len(t)
        BY <2>1, <2>3, <2>5, <3>2
      <4> QED BY <4>1, <4>2
    <3> QED BY <3>1, <3>2
  <2>8. t \o q = Tail(s)
    BY <2>4, <2>5, <2>6, <2>7, SeqEqual
  <2> QED BY <2>2, <2>8 DEF s, t
<1>4. b = <<>> => b \o q = q /\ q \o <<>> = q
  BY ConcatEmptySeq
<1> QED BY <1>1, <1>2, <1>3, <1>4

LEMMA ExecTypes ==
    ASSUME TypesOK, NEW k \in Loops
    PROVE  /\ queue[k] \in Seq(Functors) /\ batch[k] \in Seq(Functors) /\ Exec(k) \in Seq(Functors)
           /\ loop \in [Conns -> Loops]
<1>1. queue[k] \in Seq(Functors) /\ batch[k] \in Seq(Functors)
  BY DEF TypesOK
<1>2. loop \in [Conns -> Loops]
  BY Constants DEF TypesOK
<1> QED BY <1>1, <1>2, Joined DEF Exec

-----------------------------------------------------------------------------
(* What a step does to what the loops have to run: those in H have run     *)
(* their first functor, those in G have been given f.                      *)

Stepped(G, H, f) ==
    /\ \A k \in H : Exec(k) # <<>>
    /\ \A k \in Loops :
        Exec(k)' = IF k \in G
                   THEN Append(IF k \in H THEN Tail(Exec(k)) ELSE Exec(k), f)
                   ELSE IF k \in H THEN Tail(Exec(k)) ELSE Exec(k)

LEMMA NothingQueued ==
    ASSUME TypesOK, queue' = queue, batch' = batch, NEW f
    PROVE  Stepped({}, {}, f) /\ queue' \in [Loops -> Seq(Functors)] /\ batch' \in [Loops -> Seq(Functors)]
BY DEF Stepped, Exec, TypesOK

LEMMA OnlyQueued ==
    ASSUME TypesOK, NEW l \in Loops, NEW f \in Functors, queue' = Queued(l, f), batch' = batch
    PROVE  /\ Stepped({l}, {}, f)
           /\ queue' \in [Loops -> Seq(Functors)] /\ batch' \in [Loops -> Seq(Functors)]
<1>1. queue \in [Loops -> Seq(Functors)] /\ batch \in [Loops -> Seq(Functors)]
  BY DEF TypesOK
<1>2. queue'[l] = Append(queue[l], f) /\ \A k \in Loops : k # l => queue'[k] = queue[k]
  BY <1>1 DEF Queued
<1>3. Exec(l)' = Append(Exec(l), f)
  BY <1>1, <1>2, Joined DEF Exec
<1>4. \A k \in Loops : k # l => Exec(k)' = Exec(k)
  BY <1>2 DEF Exec
<1>5. Append(queue[l], f) \in Seq(Functors)
  BY <1>1, AppendProperties
<1>6. queue' \in [Loops -> Seq(Functors)]
  BY <1>1, <1>5 DEF Queued
<1> QED BY <1>1, <1>3, <1>4, <1>6 DEF Stepped

LEMMA OnlySwapped ==
    ASSUME TypesOK, NEW l \in Loops, batch[l] = <<>>,
           batch' = [batch EXCEPT ![l] = queue[l]], queue' = [queue EXCEPT ![l] = <<>>], NEW f
    PROVE  /\ Stepped({}, {}, f)
           /\ queue' \in [Loops -> Seq(Functors)] /\ batch' \in [Loops -> Seq(Functors)]
<1>1. queue \in [Loops -> Seq(Functors)] /\ batch \in [Loops -> Seq(Functors)] /\ <<>> \in Seq(Functors)
  BY EmptySeq DEF TypesOK
<1>2. queue'[l] = <<>> /\ batch'[l] = queue[l]
      /\ \A k \in Loops : k # l => queue'[k] = queue[k] /\ batch'[k] = batch[k]
  BY <1>1
<1>3. Exec(l)' = Exec(l)
  BY <1>1, <1>2, Joined DEF Exec
<1>4. \A k \in Loops : k # l => Exec(k)' = Exec(k)
  BY <1>2 DEF Exec
<1>5. queue' \in [Loops -> Seq(Functors)] /\ batch' \in [Loops -> Seq(Functors)]
  BY <1>1
<1> QED BY <1>3, <1>4, <1>5 DEF Stepped

\* The head of a batch is the first thing its loop has to run.
LEMMA FirstRun ==
    ASSUME TypesOK, NEW l \in Loops, batch[l] # <<>>, batch' = [batch EXCEPT ![l] = Tail(@)]
    PROVE  /\ Exec(l) # <<>> /\ Head(Exec(l)) = Head(batch[l])
           /\ Tail(batch[l]) \o queue[l] = Tail(Exec(l))
           /\ batch' \in [Loops -> Seq(Functors)] /\ batch'[l] = Tail(batch[l])
           /\ \A k \in Loops : k # l => batch'[k] = batch[k]
<1>1. queue \in [Loops -> Seq(Functors)] /\ batch \in [Loops -> Seq(Functors)]
  BY DEF TypesOK
<1>2. Tail(batch[l]) \in Seq(Functors)
  BY <1>1, HeadTailProperties
<1>3. /\ batch' \in [Loops -> Seq(Functors)] /\ batch'[l] = Tail(batch[l])
      /\ \A k \in Loops : k # l => batch'[k] = batch[k]
  BY <1>1, <1>2
<1> QED BY <1>1, <1>3, Joined DEF Exec

LEMMA OnlyRun ==
    ASSUME TypesOK, NEW l \in Loops, batch[l] # <<>>,
           batch' = [batch EXCEPT ![l] = Tail(@)], queue' = queue, NEW f
    PROVE  /\ Stepped({}, {l}, f) /\ Head(Exec(l)) = Head(batch[l])
           /\ queue' \in [Loops -> Seq(Functors)] /\ batch' \in [Loops -> Seq(Functors)]
<1>1. Exec(l)' = Tail(Exec(l)) /\ \A k \in Loops : k # l => Exec(k)' = Exec(k)
  BY FirstRun DEF Exec
<1>2. queue' \in [Loops -> Seq(Functors)]
  BY DEF TypesOK
<1> QED BY <1>1, <1>2, FirstRun DEF Stepped

LEMMA RunAndQueued ==
    ASSUME TypesOK, NEW l \in Loops, batch[l] # <<>>, NEW f \in Functors,
           batch' = [batch EXCEPT ![l] = Tail(@)], queue' = Queued(Base, f)
    PROVE  /\ Stepped({Base}, {l}, f) /\ Head(Exec(l)) = Head(batch[l])
           /\ queue' \in [Loops -> Seq(Functors)] /\ batch' \in [Loops -> Seq(Functors)]
<1>1. queue \in [Loops -> Seq(Functors)] /\ batch \in [Loops -> Seq(Functors)] /\ Base \in Loops
  BY Constants DEF TypesOK
<1>2. queue'[Base] = Append(queue[Base], f) /\ \A k \in Loops : k # Base => queue'[k] = queue[k]
  BY <1>1 DEF Queued
<1>3. Append(queue[Base], f) \in Seq(Functors)
  BY <1>1, AppendProperties
<1>4. queue' \in [Loops -> Seq(Functors)]
  BY <1>1, <1>3 DEF Queued
<1>5. \A k \in Loops : k # l /\ k # Base => Exec(k)' = Exec(k)
  BY <1>2, FirstRun DEF Exec
<1>6. l # Base => Exec(l)' = Tail(Exec(l))
  BY <1>2, FirstRun DEF Exec
<1>7. l # Base => Exec(Base)' = Append(Exec(Base), f)
  <2>1. batch[Base] \in Seq(Functors) /\ queue[Base] \in Seq(Functors)
    BY <1>1
  <2>2. batch[Base] \o Append(queue[Base], f) = Append(batch[Base] \o queue[Base], f)
    BY <2>1, Joined
  <2>3. l # Base => batch'[Base] = batch[Base]
    BY <1>1, FirstRun
  <2> QED BY <1>2, <2>2, <2>3 DEF Exec
<1>8. l = Base => Exec(Base)' = Append(Tail(Exec(Base)), f)
  <2> SUFFICES ASSUME l = Base PROVE Exec(Base)' = Append(Tail(Exec(Base)), f)
    OBVIOUS
  <2>1. batch'[Base] \in Seq(Functors) /\ batch'[Base] \o queue[Base] = Tail(Exec(Base))
    BY <1>1, FirstRun
  <2>2. batch'[Base] \o Append(queue[Base], f) = Append(batch'[Base] \o queue[Base], f)
    BY <1>1, <2>1, Joined
  <2> QED BY <1>2, <2>1, <2>2 DEF Exec
<1>9. ASSUME NEW k \in Loops
      PROVE  Exec(k)' = IF k \in {Base}
                        THEN Append(IF k \in {l} THEN Tail(Exec(k)) ELSE Exec(k), f)
                        ELSE IF k \in {l} THEN Tail(Exec(k)) ELSE Exec(k)
  <2>1. CASE k = Base
    BY <1>7, <1>8, <2>1
  <2>2. CASE k # Base
    BY <1>5, <1>6, <2>2
  <2> QED BY <2>1, <2>2
<1>10. Stepped({Base}, {l}, f)
  BY <1>9, FirstRun DEF Stepped
<1> QED BY <1>4, <1>10, FirstRun

\* What that means for one loop.
LEMMA ExecStep ==
    ASSUME TypesOK, NEW G, NEW H, NEW f \in Functors, Stepped(G, H, f), NEW k \in Loops
    PROVE  /\ Exec(k)' \in Seq(Functors)
           /\ \A g : In(g, Exec(k)') => In(g, Exec(k)) \/ (k \in G /\ g = f)
           /\ \A g : In(g, Exec(k)) => In(g, Exec(k)') \/ (k \in H /\ g = Head(Exec(k)))
           /\ k \in G => In(f, Exec(k)')
           /\ Stopping(Exec(k)') => Stopping(Exec(k)) \/ (k \in G /\ f.do = "stop")
           /\ EstablishedFirst(Exec(k))
              /\ (k \in G /\ f.do = "Establish" =>
                    \A g \in Functors :
                        In(g, Exec(k)) /\ g.do \in {"Establish", "Release"} => g.conn # f.conn)
                => EstablishedFirst(Exec(k)')
           /\ \A cs, ds : /\ ReleasedFirst(Exec(k), cs) /\ ds \subseteq cs
                          /\ k \in H => \A c \in ds : Head(Exec(k)) # Functor("Release", c)
                          /\ k \in G /\ f.do = "stop" =>
                                k \notin H /\ \A c \in ds : In(Functor("Release", c), Exec(k))
                => ReleasedFirst(Exec(k)', ds)
<1> DEFINE s == Exec(k)
           e == IF k \in H THEN Tail(s) ELSE s
           r == Exec(k)'
<1>1. /\ s \in Seq(Functors)
      /\ k \in H => s # <<>>
      /\ r = IF k \in G THEN Append(e, f) ELSE e
  BY ExecTypes DEF Stepped
<1> HIDE DEF s, r
<1>2. /\ e \in Seq(Functors)
      /\ \A g : In(g, e) => In(g, s)
      /\ \A g : In(g, s) => In(g, e) \/ (k \in H /\ g = Head(s))
      /\ Stopping(e) => Stopping(s)
      /\ EstablishedFirst(s) => EstablishedFirst(e)
      /\ \A cs, ds : /\ ReleasedFirst(s, cs) /\ ds \subseteq cs
                     /\ k \in H => \A c \in ds : Head(s) # Functor("Release", c)
            => ReleasedFirst(e, ds)
  <2>1. CASE k \in H
    <3>1. s # <<>> /\ e = Tail(s)
      BY <1>1, <2>1
    <3>2. ASSUME NEW g, In(g, e) PROVE In(g, s)
      BY <1>1, <3>1, <3>2, TakenOff DEF In
    <3>3. ASSUME NEW cs, NEW ds, ReleasedFirst(s, cs), ds \subseteq cs,
                 \A c \in ds : Head(s) # Functor("Release", c)
          PROVE  ReleasedFirst(e, ds)
      BY <1>1, <3>1, <3>3, TakenOff
    <3>4. /\ e \in Seq(Functors)
          /\ Stopping(e) => Stopping(s)
          /\ EstablishedFirst(s) => EstablishedFirst(e)
          /\ \A g : In(g, s) => In(g, e) \/ g = Head(s)
      BY <1>1, <3>1, TakenOff
    <3> HIDE DEF e
    <3>5. \A g : In(g, e) => In(g, s)
      BY <3>2
    <3>6. \A cs, ds : /\ ReleasedFirst(s, cs) /\ ds \subseteq cs
                      /\ k \in H => \A c \in ds : Head(s) # Functor("Release", c)
            => ReleasedFirst(e, ds)
      BY <2>1, <3>3
    <3>7. \A g : In(g, s) => In(g, e) \/ (k \in H /\ g = Head(s))
      BY <2>1, <3>4
    <3> QED BY <3>4, <3>5, <3>6, <3>7
  <2>2. CASE k \notin H
    <3>1. e = s
      BY <2>2
    <3>2. ASSUME NEW cs, NEW ds, ReleasedFirst(s, cs), ds \subseteq cs PROVE ReleasedFirst(s, ds)
      BY <3>2 DEF ReleasedFirst
    <3> HIDE DEF e
    <3> QED BY <1>1, <2>2, <3>1, <3>2
  <2> QED BY <2>1, <2>2
<1>3. k \notin H => e = s
  OBVIOUS
<1> HIDE DEF e
<1>4. CASE k \notin G
  <2>1. r = e
    BY <1>1, <1>4
  <2> QED BY <1>2, <1>4, <2>1 DEF s, r
<1>5. CASE k \in G
  <2>1. r = Append(e, f)
    BY <1>1, <1>5
  <2>2. /\ r \in Seq(Functors)
        /\ \A g : In(g, r) <=> In(g, e) \/ g = f
        /\ Stopping(r) <=> Stopping(e) \/ f.do = "stop"
    BY <1>2, <2>1, Added
  <2>3. ASSUME EstablishedFirst(s),
               f.do = "Establish" =>
                  \A g \in Functors : In(g, s) /\ g.do \in {"Establish", "Release"} => g.conn # f.conn
        PROVE  EstablishedFirst(r)
    BY <1>2, <2>1, <2>3, Added
  <2>4. ASSUME NEW cs, NEW ds, ReleasedFirst(s, cs), ds \subseteq cs,
               k \in H => \A c \in ds : Head(s) # Functor("Release", c),
               f.do = "stop" => k \notin H /\ \A c \in ds : In(Functor("Release", c), s)
        PROVE  ReleasedFirst(r, ds)
    <3>1. ReleasedFirst(e, ds)
      BY <1>2, <2>4
    <3>2. f.do = "stop" => \A c \in ds : In(Functor("Release", c), e)
      BY <1>3, <2>4
    <3> QED BY <1>2, <2>1, <3>1, <3>2, Added
  <2> QED BY <1>2, <1>5, <2>2, <2>3, <2>4 DEF s, r
<1> QED BY <1>4, <1>5

\* A loop's first functor, seen from what it has to run.
LEMMA FirstFunctor ==
    ASSUME TypesOK, NEW k \in Loops, Exec(k) # <<>>
    PROVE  /\ Head(Exec(k)) \in Functors /\ In(Head(Exec(k)), Exec(k))
           /\ Head(Exec(k)).do = "stop" =>
                Stopping(Exec(k)) /\ \A cs : ReleasedFirst(Exec(k), cs) => cs = {}
           /\ EstablishedFirst(Exec(k)) /\ Head(Exec(k)).do \in {"Establish", "Release"} =>
                \A g : In(g, Tail(Exec(k))) /\ g.do = "Establish" => g.conn # Head(Exec(k)).conn
           /\ EstablishedFirst(Exec(k)) /\ Head(Exec(k)).do = "Release" =>
                ~In(Functor("Establish", Head(Exec(k)).conn), Exec(k))
<1> DEFINE s == Exec(k)
<1>1. s \in Seq(Functors) /\ s # <<>>
  BY ExecTypes
<1> HIDE DEF s
<1>2. /\ Head(s) \in Functors /\ In(Head(s), s)
      /\ Head(s).do = "stop" => Stopping(s) /\ \A cs : ReleasedFirst(s, cs) => cs = {}
      /\ \A g : In(g, s) => g = Head(s) \/ In(g, Tail(s))
  BY <1>1, TakenOff
<1>3. ASSUME EstablishedFirst(s), Head(s).do \in {"Establish", "Release"},
             NEW g, In(g, Tail(s)), g.do = "Establish"
      PROVE  g.conn # Head(s).conn
  BY <1>1, <1>3, TakenOff DEF In
<1>4. ASSUME EstablishedFirst(s), Head(s).do = "Release",
             In(Functor("Establish", Head(s).conn), s)
      PROVE  FALSE
  <2>1. Functor("Establish", Head(s).conn) # Head(s)
    BY <1>4, FunctorIs
  <2>2. In(Functor("Establish", Head(s).conn), Tail(s))
    BY <1>2, <1>4, <2>1
  <2> QED BY <1>3, <1>4, <2>2, FunctorIs
<1> QED BY <1>2, <1>3, <1>4 DEF s

LEMMA Accepted ==
    ASSUME TypesOK, NEW c \in 1..serial
    PROVE  c \in 1..MaxConns /\ c \in Conns /\ c \in Nat /\ loop[c] \in Loops /\ Base \in Loops
<1>1. serial \in 0..MaxConns /\ MaxConns \in Nat /\ Conns = 1..MaxConns /\ Base \in Loops
  BY Constants DEF TypesOK
<1>2. c \in 1..MaxConns /\ c \in Nat
  BY <1>1
<1> QED BY <1>1, <1>2, <1>1, ExecTypes

-----------------------------------------------------------------------------
(* A step that establishes nothing and closes nothing.                     *)

\* The functor a loop takes off needs nothing of the connections, or finds it
\* done already.
Harmless(f) ==
    /\ f.do # "Establish"
    /\ f.do = "Release" => status[f.conn] = "DISCONNECTED"
    /\ f.do = "erase" => \A c \in 1..serial : c = f.conn => ~Listed(c)'

LEMMA Frame ==
    ASSUME IInv, TypesOK', NEW G, NEW H \in SUBSET Loops, NEW f \in Functors, Stepped(G, H, f),
           UNCHANGED <<serial, status, loop, known>>,
           \A l \in Loops : l \in G => FunctorOK(l, f) /\ f.do # "Establish",
           f.do = "stop" =>
                \A l \in Loops : l \in G =>
                    l \notin H /\ \A c \in Live(l) : In(Functor("Release", c), Exec(l)),
           \A l \in H : Harmless(Head(Exec(l))),
           \A c \in 1..serial : Listed(c)' => Listed(c),
           \A c \in 1..serial : Listed(c) /\ ~Listed(c)' =>
                status[c] = "DISCONNECTED" \/ In(Functor("Release", c), Exec(loop[c])'),
           \A l \in Loops : stop'[l] => stop[l] \/ Live(l) = {},
           \A l \in Loops : life'[l] = "ended" => stop'[l],
           \A l \in Loops : stop[l] => stop'[l]
    PROVE  FunctorsOK' /\ InOrder' /\ ConnsOK' /\ LoopsOK'
<1>0. TypesOK /\ FunctorsOK /\ InOrder /\ ConnsOK /\ LoopsOK
  BY DEF IInv
<1>1. FunctorsOK'
  <2> SUFFICES ASSUME NEW l \in Loops, NEW g \in Functors, In(g, Exec(l)') PROVE FunctorOK(l, g)'
    BY DEF FunctorsOK
  <2>1. In(g, Exec(l)) \/ (l \in G /\ g = f)
    BY <1>0, ExecStep
  <2>2. FunctorOK(l, g)
    BY <1>0, <2>1 DEF FunctorsOK
  <2> QED BY <2>2 DEF FunctorOK
<1>2. InOrder'
  <2> SUFFICES ASSUME NEW l \in Loops PROVE EstablishedFirst(Exec(l)')
    BY DEF InOrder
  <2>1. EstablishedFirst(Exec(l)) /\ (l \in G => f.do # "Establish")
    BY <1>0 DEF InOrder
  <2> QED BY <1>0, <2>1, ExecStep
<1>3. ConnsOK'
  <2>1. ASSUME NEW c \in 1..serial PROVE ConnOK(c)'
    <3>1. ConnOK(c) /\ c \in 1..MaxConns /\ c \in Conns /\ loop[c] \in Loops /\ Base \in Loops
      BY <1>0, Accepted DEF ConnsOK
    <3>2. ASSUME NEW g, NEW l \in Loops, In(g, Exec(l)), ~In(g, Exec(l)') PROVE l \in H /\ g = Head(Exec(l))
      BY <1>0, <3>2, ExecStep
    <3>3. /\ Functor("Establish", c).do = "Establish"
          /\ Functor("Release", c).do = "Release" /\ Functor("Release", c).conn = c
          /\ Functor("erase", c).do = "erase" /\ Functor("erase", c).conn = c
      BY FunctorIs
    <3>4. status[c] = "CONNECTING" => In(Functor("Establish", c), Exec(loop[c])')
      BY <3>1, <3>2, <3>3 DEF ConnOK, Harmless
    <3>5. status[c] # "DISCONNECTED" => Listed(c)' \/ In(Functor("Release", c), Exec(loop[c])')
      BY <3>1, <3>2, <3>3 DEF ConnOK, Harmless
    <3>6. status[c] = "DISCONNECTED" /\ Listed(c)' => In(Functor("erase", c), Exec(Base)')
      BY <3>1, <3>2, <3>3 DEF ConnOK, Harmless
    <3> QED BY <3>1, <3>4, <3>5, <3>6 DEF ConnOK
  <2> QED BY <1>0, <2>1 DEF ConnsOK
<1>4. LoopsOK'
  <2> SUFFICES ASSUME NEW l \in Loops PROVE LoopOK(l)'
    BY DEF LoopsOK
  <2>1. LoopOK(l) /\ Live(l)' = Live(l)
    BY <1>0 DEF LoopsOK, Live
  <2>2. l \in H => \A c \in Live(l) : Head(Exec(l)) # Functor("Release", c)
    BY FunctorIs DEF Live, Harmless
  <2>3. ReleasedFirst(Exec(l)', Live(l))
    BY <1>0, <2>1, <2>2, ExecStep DEF LoopOK
  <2> QED BY <2>1, <2>3 DEF LoopOK
<1> QED BY <1>1, <1>2, <1>3, <1>4

-----------------------------------------------------------------------------
(* The steps of a connection's life.                                       *)

\* A connected connection is closed, by a Release, by another thread's use of it
\* (then H is its loop) or by an event (then H is empty).
LEMMA Closes ==
    ASSUME IInv, TypesOK', NEW c \in 1..serial, status[c] = "CONNECTED",
           NEW H \in SUBSET Loops,
           \A l \in H : Head(Exec(l)) \in {Functor("Release", c), Functor("Use", c)},
           Stepped({Base}, H, Functor("erase", c)),
           status' = [status EXCEPT ![c] = "DISCONNECTED"], known' = known \ {c},
           UNCHANGED <<serial, loop, conns, phase, stop, life>>
    PROVE  FunctorsOK' /\ InOrder' /\ ConnsOK' /\ LoopsOK'
<1> DEFINE f == Functor("erase", c)
<1>0. /\ TypesOK /\ FunctorsOK /\ InOrder /\ ConnsOK /\ LoopsOK
      /\ c \in Conns /\ Base \in Loops /\ c \in 0..MaxConns /\ Conns = 1..MaxConns
  BY Accepted, Constants DEF IInv
<1>1. f.do = "erase" /\ f.conn = c /\ f \in Functors /\ Stepped({Base}, H, f)
  BY <1>0, FunctorIs
<1> HIDE DEF f
<1>2. /\ status'[c] = "DISCONNECTED"
      /\ \A d \in Conns : d # c => status'[d] = status[d]
  BY <1>0 DEF TypesOK
<1>3. FunctorsOK'
  <2> SUFFICES ASSUME NEW l \in Loops, NEW g \in Functors, In(g, Exec(l)') PROVE FunctorOK(l, g)'
    BY DEF FunctorsOK
  <2>1. In(g, Exec(l)) \/ (l = Base /\ g = f)
    BY <1>0, <1>1, ExecStep
  <2>2. CASE In(g, Exec(l))
    <3>1. FunctorOK(l, g)
      BY <1>0, <2>2 DEF FunctorsOK
    <3>2. g.conn \in 1..serial => g.conn \in Conns
      BY <1>0, Accepted
    <3> QED BY <1>2, <3>1, <3>2 DEF FunctorOK
  <2>3. CASE l = Base /\ g = f
    BY <1>1, <1>2, <2>3 DEF FunctorOK
  <2> QED BY <2>1, <2>2, <2>3
<1>4. InOrder'
  <2> SUFFICES ASSUME NEW l \in Loops PROVE EstablishedFirst(Exec(l)')
    BY DEF InOrder
  <2>1. EstablishedFirst(Exec(l)) /\ f.do # "Establish"
    BY <1>0, <1>1 DEF InOrder
  <2> QED BY <1>0, <1>1, <2>1, ExecStep
<1>5. ConnsOK'
  <2>1. ASSUME NEW d \in 1..serial PROVE ConnOK(d)'
    <3>1. ConnOK(d) /\ d \in Conns /\ loop[d] \in Loops
      BY <1>0, Accepted DEF ConnsOK
    <3>2. Listed(d)' <=> Listed(d)
      BY DEF Listed, Inserting
    <3>3. ASSUME NEW g, NEW l \in Loops, In(g, Exec(l)), ~In(g, Exec(l)')
          PROVE  g \in {Functor("Release", c), Functor("Use", c)}
      BY <1>0, <1>1, <3>3, ExecStep
    <3>4. /\ Functor("Establish", d) \notin {Functor("Release", c), Functor("Use", c)}
          /\ Functor("erase", d) \notin {Functor("Release", c), Functor("Use", c)}
          /\ d # c => Functor("Release", d) \notin {Functor("Release", c), Functor("Use", c)}
      BY FunctorIs
    <3>5. CASE d = c
      <4>1. In(f, Exec(Base)')
        BY <1>0, <1>1, ExecStep
      <4> QED BY <1>2, <3>5, <4>1 DEF ConnOK, f
    <3>6. CASE d # c
      <4>1. status'[d] = status[d]
        BY <1>2, <3>1, <3>6
      <4> QED BY <1>0, <3>1, <3>2, <3>3, <3>4, <3>6, <4>1 DEF ConnOK
    <3> QED BY <3>5, <3>6
  <2>2. \A d \in Conns : d > serial => status'[d] = "none"
    <3>1. c <= serial
      BY <1>0 DEF TypesOK
    <3> QED BY <1>0, <1>2, <3>1 DEF ConnsOK
  <2>3. known' = {d \in Conns : status'[d] = "CONNECTED"}
    BY <1>0, <1>2 DEF ConnsOK
  <2> QED BY <2>1, <2>2, <2>3 DEF ConnsOK
<1>6. LoopsOK'
  <2> SUFFICES ASSUME NEW l \in Loops PROVE LoopOK(l)'
    BY DEF LoopsOK
  <2>1. LoopOK(l)
    BY <1>0 DEF LoopsOK
  <2>2. Live(l)' \subseteq Live(l) /\ c \notin Live(l)'
    BY <1>0, <1>2, Accepted DEF Live
  <2>3. l \in H => \A d \in Live(l)' : Head(Exec(l)) # Functor("Release", d)
    BY <2>2, FunctorIs
  <2>4. ReleasedFirst(Exec(l)', Live(l)')
    BY <1>0, <1>1, <2>1, <2>2, <2>3, ExecStep DEF LoopOK
  <2> QED BY <2>1, <2>2, <2>4 DEF LoopOK
<1> QED BY <1>3, <1>4, <1>5, <1>6

\* A loop runs Establish.
LEMMA Establishes ==
    ASSUME IInv, TypesOK', NEW l \in Loops, NEW c, NEW f \in Functors, Stepped({}, {l}, f),
           Head(Exec(l)) = Functor("Establish", c),
           status' = [status EXCEPT ![c] = "CONNECTED"], known' = known \cup {c},
           UNCHANGED <<serial, loop, conns, phase, stop, life>>
    PROVE  FunctorsOK' /\ InOrder' /\ ConnsOK' /\ LoopsOK'
<1>0. TypesOK /\ FunctorsOK /\ InOrder /\ ConnsOK /\ LoopsOK
  BY DEF IInv
<1>1. Exec(l) # <<>> /\ Exec(l)' = Tail(Exec(l)) /\ EstablishedFirst(Exec(l))
  BY <1>0 DEF Stepped, InOrder
<1> DEFINE h == Functor("Establish", c)
<1>2. h.do = "Establish" /\ h.conn = c /\ h = Head(Exec(l)) /\ h \in Functors /\ In(h, Exec(l))
  BY <1>0, <1>1, FirstFunctor, FunctorIs
<1> HIDE DEF h
<1>3. c \in 1..serial /\ loop[c] = l /\ status[c] = "CONNECTING"
  BY <1>0, <1>2 DEF FunctorsOK, FunctorOK
<1>4. c \in Conns /\ Conns = 1..MaxConns
  BY <1>0, <1>3, Accepted, Constants
<1>5. /\ status'[c] = "CONNECTED"
      /\ \A d \in Conns : d # c => status'[d] = status[d]
  BY <1>0, <1>4 DEF TypesOK
<1>6. FunctorsOK'
  <2> SUFFICES ASSUME NEW k \in Loops, NEW g \in Functors, In(g, Exec(k)') PROVE FunctorOK(k, g)'
    BY DEF FunctorsOK
  <2>1. In(g, Exec(k))
    BY <1>0, ExecStep
  <2>2. FunctorOK(k, g)
    BY <1>0, <2>1 DEF FunctorsOK
  <2>3. g.conn \in 1..serial => g.conn \in Conns
    BY <1>0, Accepted
  <2>4. ~(g.do = "Establish" /\ g.conn = c)
    <3> SUFFICES ASSUME g.do = "Establish", g.conn = c PROVE FALSE
      OBVIOUS
    <3>1. k = l
      BY <1>3, <2>2 DEF FunctorOK
    <3> QED BY <1>0, <1>1, <1>2, <3>1, FirstFunctor
  <2> QED BY <1>3, <1>5, <2>2, <2>3, <2>4 DEF FunctorOK
<1>7. InOrder'
  <2> SUFFICES ASSUME NEW k \in Loops PROVE EstablishedFirst(Exec(k)')
    BY DEF InOrder
  <2>1. EstablishedFirst(Exec(k)) /\ k \notin {}
    BY <1>0 DEF InOrder
  <2> QED BY <1>0, <2>1, ExecStep
<1>8. ConnsOK'
  <2>1. ASSUME NEW d \in 1..serial PROVE ConnOK(d)'
    <3>1. ConnOK(d) /\ d \in Conns /\ loop[d] \in Loops /\ Base \in Loops
      BY <1>0, Accepted DEF ConnsOK
    <3>2. Listed(d)' <=> Listed(d)
      BY DEF Listed, Inserting
    <3>3. ASSUME NEW g, NEW k \in Loops, In(g, Exec(k)), ~In(g, Exec(k)') PROVE g = h
      BY <1>0, <1>2, <3>3, ExecStep
    <3>4. /\ d # c => Functor("Establish", d) # h
          /\ Functor("Release", d) # h /\ Functor("erase", d) # h
      BY <1>2, FunctorIs
    <3>5. CASE d = c
      BY <1>3, <1>5, <3>1, <3>2, <3>3, <3>4, <3>5 DEF ConnOK
    <3>6. CASE d # c
      <4>1. status'[d] = status[d]
        BY <1>5, <3>1, <3>6
      <4>2. status[d] = "CONNECTING" => In(Functor("Establish", d), Exec(loop[d])')
        BY <3>1, <3>3, <3>4, <3>6 DEF ConnOK
      <4>3. status[d] # "DISCONNECTED" => Listed(d) \/ In(Functor("Release", d), Exec(loop[d])')
        BY <3>1, <3>3, <3>4 DEF ConnOK
      <4>4. status[d] = "DISCONNECTED" /\ Listed(d) => In(Functor("erase", d), Exec(Base)')
        BY <3>1, <3>3, <3>4 DEF ConnOK
      <4> QED BY <3>1, <3>2, <4>1, <4>2, <4>3, <4>4 DEF ConnOK
    <3> QED BY <3>5, <3>6
  <2>2. \A d \in Conns : d > serial => status'[d] = "none"
    <3>1. \A d \in Conns : d > serial => status[d] = "none"
      BY <1>0 DEF ConnsOK
    <3>2. \A d \in Conns : d > serial => d # c
      <4>1. serial \in 0..MaxConns /\ MaxConns \in Nat
        BY <1>0, Constants DEF TypesOK
      <4> QED BY <1>3, <1>4, <4>1
    <3> QED BY <1>5, <3>1, <3>2
  <2>3. known' = {d \in Conns : status'[d] = "CONNECTED"}
    BY <1>0, <1>4, <1>5 DEF ConnsOK
  <2> QED BY <2>1, <2>2, <2>3 DEF ConnsOK
<1>9. LoopsOK'
  <2> SUFFICES ASSUME NEW k \in Loops PROVE LoopOK(k)'
    BY DEF LoopsOK
  <2>1. LoopOK(k)
    BY <1>0 DEF LoopsOK
  <2>2. Live(k)' = Live(k)
    BY <1>0, <1>3, <1>5, Accepted DEF Live
  <2>3. k \in {l} => \A d \in Live(k) : Head(Exec(k)) # Functor("Release", d)
    BY <1>2, FunctorIs
  <2>4. ReleasedFirst(Exec(k)', Live(k))
    BY <1>0, <2>1, <2>2, <2>3, ExecStep DEF LoopOK
  <2> QED BY <2>1, <2>2, <2>4 DEF LoopOK
<1> QED BY <1>6, <1>7, <1>8, <1>9

\* The base loop accepts a connection and gives it to loop L: it establishes it
\* at once when L is its own (then G is empty), or L is told to.
LEMMA Accepts ==
    ASSUME IInv, TypesOK', NEW L \in Loops, NEW c, c = serial + 1, NEW G \in SUBSET {L},
           Stepped(G, {}, Functor("Establish", c)), open, phase # "insert",
           serial' = c, c \in Conns, loop' = [loop EXCEPT ![c] = L], phase' = "insert",
           G # {} => status' = [status EXCEPT ![c] = "CONNECTING"] /\ known' = known,
           G = {} => status' = [status EXCEPT ![c] = "CONNECTED"] /\ known' = known \cup {c},
           UNCHANGED <<conns, stop, life, open>>
    PROVE  FunctorsOK' /\ InOrder' /\ ConnsOK' /\ LoopsOK'
<1> DEFINE f == Functor("Establish", c)
<1>0. /\ TypesOK /\ FunctorsOK /\ InOrder /\ ConnsOK /\ LoopsOK /\ EndingOK
      /\ c \in 0..MaxConns /\ Conns = 1..MaxConns /\ MaxConns \in Nat /\ serial \in Nat
  <2>1. TypesOK /\ FunctorsOK /\ InOrder /\ ConnsOK /\ LoopsOK /\ EndingOK
    BY DEF IInv
  <2>2. serial \in 0..MaxConns
    BY <2>1 DEF TypesOK
  <2> QED BY <2>1, <2>2, Constants
<1>1. f.do = "Establish" /\ f.conn = c /\ f \in Functors /\ Stepped(G, {}, f)
  BY <1>0, FunctorIs
<1> HIDE DEF f
<1>2. /\ c \in 1..serial' /\ c \notin 1..serial /\ loop'[c] = L
      /\ \A d \in 1..serial : d \in 1..serial' /\ d # c /\ d \in Conns
      /\ \A d \in 1..serial' : d = c \/ d \in 1..serial
      /\ \A d \in Conns : d > serial' => d > serial /\ d # c
  BY <1>0 DEF TypesOK
<1>3. /\ status'[c] = IF G = {} THEN "CONNECTED" ELSE "CONNECTING"
      /\ \A d \in Conns : d # c => status'[d] = status[d] /\ loop'[d] = loop[d]
  BY <1>0 DEF TypesOK
<1>4. FunctorsOK'
  <2> SUFFICES ASSUME NEW k \in Loops, NEW g \in Functors, In(g, Exec(k)') PROVE FunctorOK(k, g)'
    BY DEF FunctorsOK
  <2>1. In(g, Exec(k)) \/ (k \in G /\ g = f)
    BY <1>0, <1>1, ExecStep
  <2>2. CASE In(g, Exec(k))
    <3>1. FunctorOK(k, g)
      BY <1>0, <2>2 DEF FunctorsOK
    <3> QED BY <1>2, <1>3, <3>1 DEF FunctorOK
  <2>3. CASE k \in G /\ g = f
    BY <1>1, <1>2, <1>3, <2>3 DEF FunctorOK
  <2> QED BY <2>1, <2>2, <2>3
<1>5. InOrder'
  <2> SUFFICES ASSUME NEW k \in Loops PROVE EstablishedFirst(Exec(k)')
    BY DEF InOrder
  <2>1. EstablishedFirst(Exec(k))
    BY <1>0 DEF InOrder
  <2>2. \A g \in Functors : In(g, Exec(k)) /\ g.do \in {"Establish", "Release"} => g.conn # f.conn
    BY <1>0, <1>1, <1>2 DEF FunctorsOK, FunctorOK
  <2> QED BY <1>0, <1>1, <2>1, <2>2, ExecStep
<1>6. ConnsOK'
  <2>1. ASSUME NEW d \in 1..serial' PROVE ConnOK(d)'
    <3>1. ASSUME NEW g, NEW k \in Loops, In(g, Exec(k)) PROVE In(g, Exec(k)')
      BY <1>0, <1>1, <3>1, ExecStep
    <3>2. CASE d = c
      <4>1. Listed(c)' /\ loop'[c] = L
        BY <1>2 DEF Listed, Inserting
      <4>2. G # {} => In(f, Exec(L)')
        BY <1>0, <1>1, ExecStep
      <4> QED BY <1>3, <3>2, <4>1, <4>2 DEF ConnOK, f
    <3>3. CASE d # c
      <4>1. ConnOK(d) /\ d \in Conns /\ loop[d] \in Loops /\ Base \in Loops
        BY <1>0, <1>2, <3>3, Accepted DEF ConnsOK
      <4>2. status'[d] = status[d] /\ loop'[d] = loop[d]
        BY <1>3, <3>3, <4>1
      <4>3. Listed(d)' <=> Listed(d)
        BY <3>3 DEF Listed, Inserting
      <4> QED BY <3>1, <4>1, <4>2, <4>3 DEF ConnOK
    <3> QED BY <3>2, <3>3
  <2>2. \A d \in Conns : d > serial' => status'[d] = "none"
    BY <1>0, <1>2, <1>3 DEF ConnsOK
  <2>3. known' = {d \in Conns : status'[d] = "CONNECTED"}
    <3>1. status[c] # "CONNECTED" /\ c \notin known
      <4>1. c > serial
        BY <1>0
      <4> QED BY <1>0, <4>1 DEF ConnsOK
    <3>2. known = {d \in Conns : status[d] = "CONNECTED"}
      BY <1>0 DEF ConnsOK
    <3> QED BY <1>3, <3>1, <3>2
  <2> QED BY <2>1, <2>2, <2>3 DEF ConnsOK
<1>7. LoopsOK'
  <2> SUFFICES ASSUME NEW k \in Loops PROVE LoopOK(k)'
    BY DEF LoopsOK
  <2>1. LoopOK(k) /\ ~stop[k] /\ ~Stopping(Exec(k))
    BY <1>0 DEF LoopsOK, EndingOK, Ending
  <2>2. ~Stopping(Exec(k)')
    BY <1>0, <1>1, <2>1, ExecStep
  <2>3. ReleasedFirst(Exec(k)', Live(k)')
    BY <2>2 DEF ReleasedFirst, Stopping
  <2> QED BY <2>1, <2>3 DEF LoopOK
<1> QED BY <1>4, <1>5, <1>6, <1>7

-----------------------------------------------------------------------------
(* The threads start.                                                      *)

LEMMA Parts ==
    ASSUME IInv
    PROVE  TypesOK /\ FunctorsOK /\ InOrder /\ ConnsOK /\ LoopsOK /\ PhaseOK /\ EndingOK
BY DEF IInv

LEMMA Stops ==
    /\ ServerStop \in Functors /\ ServerStop.do = "StopInLoop"
    /\ LoopStop \in Functors /\ LoopStop.do = "stop"
<1>1. 0 \in 0..MaxConns
  BY Constants
<1> QED BY <1>1, FunctorIs DEF ServerStop, LoopStop

LEMMA EndingStep ==
    ASSUME IInv, NEW G, NEW H, NEW f \in Functors, Stepped(G, H, f),
           \A l \in Loops : stop'[l] => stop[l] \/ Stopping(Exec(l))
    PROVE  \A l \in Loops : Ending(l)' => Ending(l) \/ (l \in G /\ f.do = "stop")
<1> SUFFICES ASSUME NEW l \in Loops, Ending(l)' PROVE Ending(l) \/ (l \in G /\ f.do = "stop")
  OBVIOUS
<1>1. stop'[l] \/ Stopping(Exec(l)')
  BY DEF Ending, Stopping
<1>2. Stopping(Exec(l)') => Stopping(Exec(l)) \/ (l \in G /\ f.do = "stop")
  BY Parts, ExecStep
<1> QED BY <1>1, <1>2 DEF Ending

\* A step of the threads that leaves the connections and the functors alone.
LEMMA Quiet ==
    ASSUME IInv, TypesOK', UNCHANGED <<stop, connVars>>, Stepped({}, {}, ServerStop),
           phase' = phase \/ (phase # "insert" /\ phase' # "insert"),
           \A l \in Loops : life'[l] = "ended" => stop[l]
    PROVE  /\ FunctorsOK' /\ InOrder' /\ ConnsOK' /\ LoopsOK'
           /\ \A l \in Loops : Ending(l)' => Ending(l)
<1>1. /\ UNCHANGED <<serial, status, loop, known, conns, stop>>
      /\ \A c \in 1..serial : Listed(c)' <=> Listed(c)
  BY DEF connVars, Listed, Inserting
<1>2. FunctorsOK' /\ InOrder' /\ ConnsOK' /\ LoopsOK'
  BY <1>1, Stops, Frame
<1>3. \A l \in Loops : Ending(l)' => Ending(l)
  BY <1>1, Stops, EndingStep
<1> QED BY <1>2, <1>3

\* As long as the acceptor is open no loop is told to stop.
LEMMA NoneEnds ==
    ASSUME TypesOK', EndingOK, open, open', \A l \in Loops : Ending(l)' => Ending(l)
    PROVE  EndingOK'
<1>1. \A l \in Loops : ~Ending(l)'
  BY DEF EndingOK
<1>2. threads' \subseteq Loops /\ Base \in Loops
  BY Constants DEF TypesOK
<1> QED BY <1>1, <1>2 DEF EndingOK

LEMMA StartKeeps ==
    ASSUME IInv, Start
    PROVE  IInv'
<1>0. TypesOK /\ LoopsOK /\ PhaseOK /\ EndingOK
  BY Parts
<1> USE DEF Start, poolVars, loopVars, connVars
<1>1. TypesOK'
  BY <1>0 DEF TypesOK, Phases
<1>2. /\ FunctorsOK' /\ InOrder' /\ ConnsOK' /\ LoopsOK'
      /\ \A l \in Loops : Ending(l)' => Ending(l)
  BY <1>0, <1>1, NothingQueued, Quiet DEF LoopsOK, LoopOK
<1>3. PhaseOK'
  BY <1>0 DEF PhaseOK, Starting
<1>4. EndingOK'
  BY <1>0, <1>1, <1>2, NoneEnds DEF PhaseOK, Starting
<1> QED BY <1>1, <1>2, <1>3, <1>4 DEF IInv

LEMMA NewLoopThreadKeeps ==
    ASSUME IInv, NewLoopThread
    PROVE  IInv'
<1>0. TypesOK /\ LoopsOK /\ PhaseOK /\ EndingOK
  BY Parts
<1> USE DEF NewLoopThread, loopVars, connVars
<1>1. /\ turn + 1 \in 1..count /\ turn + 1 \in Workers /\ turn + 1 \in Loops /\ turn' = turn + 1
      /\ turn \in Nat
  BY <1>0, Constants DEF TypesOK
<1>2. TypesOK'
  BY <1>0, <1>1 DEF TypesOK, Phases
<1>3. /\ life'[turn + 1] = "starting"
      /\ \A l \in Loops : l # turn + 1 => life'[l] = life[l]
  BY <1>0, <1>1 DEF TypesOK
<1>4. /\ FunctorsOK' /\ InOrder' /\ ConnsOK' /\ LoopsOK'
      /\ \A l \in Loops : Ending(l)' => Ending(l)
  <2>1. \A l \in Loops : life'[l] = "ended" => stop[l]
    BY <1>0, <1>3 DEF LoopsOK, LoopOK
  <2> QED BY <1>0, <1>2, <2>1, NothingQueued, Quiet
<1>5. PhaseOK'
  <2>1. /\ open /\ life[Base] = "none" /\ threads = 1..turn
        /\ \A w \in Workers : life[w] = "none" <=> w > turn
        /\ \A w \in Workers : life[w] # "starting"
    BY <1>0 DEF PhaseOK, Starting
  <2>2. life'[Base] = "none" /\ threads' = 1..turn'
    BY <1>1, <1>3, <2>1, Constants
  <2>3. ASSUME NEW w \in Workers
        PROVE  (life'[w] = "none" <=> w > turn') /\ (life'[w] = "starting" => w = turn')
    <3>1. w \in Nat /\ w \in Loops
      BY Constants
    <3>2. CASE w = turn + 1
      BY <1>1, <1>3, <3>2
    <3>3. CASE w # turn + 1
      <4>1. life'[w] = life[w]
        BY <1>3, <3>1, <3>3
      <4>2. w > turn <=> w > turn'
        BY <1>1, <3>1, <3>3
      <4> QED BY <2>1, <4>1, <4>2
    <3> QED BY <3>2, <3>3
  <2> QED BY <1>1, <2>1, <2>2, <2>3 DEF PhaseOK, Starting
<1>6. EndingOK'
  BY <1>0, <1>2, <1>4, NoneEnds DEF PhaseOK, Starting
<1> QED BY <1>2, <1>4, <1>5, <1>6 DEF IInv

LEMMA EntryKeeps ==
    ASSUME IInv, NEW w \in Workers, Entry(w)
    PROVE  IInv'
<1>0. TypesOK /\ LoopsOK /\ PhaseOK /\ EndingOK
  BY Parts
<1> USE DEF Entry, loopVars, connVars
<1>1. /\ w \in Loops /\ w # Base /\ life'[w] = "running"
      /\ \A l \in Loops : l # w => life'[l] = life[l]
  BY <1>0, Constants DEF TypesOK
<1>2. TypesOK'
  BY <1>0, <1>1 DEF TypesOK
<1>3. /\ FunctorsOK' /\ InOrder' /\ ConnsOK' /\ LoopsOK'
      /\ \A l \in Loops : Ending(l)' => Ending(l)
  <2>1. \A l \in Loops : life'[l] = "ended" => stop[l]
    BY <1>0, <1>1 DEF LoopsOK, LoopOK
  <2> QED BY <1>0, <1>2, <2>1, NothingQueued, Quiet
<1>4. PhaseOK'
  <2>1. life'[Base] = life[Base]
    BY <1>1, Constants
  <2>2. ASSUME NEW v \in Workers
        PROVE  /\ life'[v] = "none" <=> life[v] = "none"
               /\ life'[v] = "starting" => life[v] = "starting"
               /\ life[v] = "ended" => life'[v] = "ended"
               /\ life[v] = "running" => life'[v] = "running"
    BY <1>1, Constants
  <2>3. \A v \in 1..count : v \in Workers
    BY <1>0, Constants DEF TypesOK
  <2> QED BY <1>0, <1>2, <2>1, <2>2, <2>3 DEF PhaseOK, Starting
<1>5. EndingOK'
  <2>1. threads \subseteq Loops
    BY <1>0, Constants DEF TypesOK
  <2> QED BY <1>0, <1>3, <2>1, Constants DEF EndingOK
<1> QED BY <1>2, <1>3, <1>4, <1>5 DEF IInv

LEMMA GetLoopKeeps ==
    ASSUME IInv, GetLoop
    PROVE  IInv'
<1>0. TypesOK /\ LoopsOK /\ PhaseOK /\ EndingOK
  BY Parts
<1> USE DEF GetLoop, LoopReady, poolVars, loopVars, connVars
<1>1. TypesOK'
  BY <1>0 DEF TypesOK, Phases
<1>2. /\ FunctorsOK' /\ InOrder' /\ ConnsOK' /\ LoopsOK'
      /\ \A l \in Loops : Ending(l)' => Ending(l)
  BY <1>0, <1>1, NothingQueued, Quiet DEF LoopsOK, LoopOK
<1>3. PhaseOK'
  BY <1>0 DEF PhaseOK, Starting
<1>4. EndingOK'
  BY <1>0, <1>1, <1>2, NoneEnds DEF PhaseOK, Starting
<1> QED BY <1>1, <1>2, <1>3, <1>4 DEF IInv

LEMMA StartBaseLoopKeeps ==
    ASSUME IInv, StartBaseLoop
    PROVE  IInv'
<1>0. TypesOK /\ LoopsOK /\ PhaseOK /\ EndingOK
  BY Parts
<1> USE DEF StartBaseLoop, loopVars, connVars
<1>1. /\ Base \in Loops /\ life'[Base] = "running"
      /\ \A l \in Loops : l # Base => life'[l] = life[l]
  BY <1>0, Constants DEF TypesOK
<1>2. TypesOK'
  BY <1>0, <1>1 DEF TypesOK, Phases
<1>3. /\ FunctorsOK' /\ InOrder' /\ ConnsOK' /\ LoopsOK'
      /\ \A l \in Loops : Ending(l)' => Ending(l)
  <2>1. \A l \in Loops : life'[l] = "ended" => stop[l]
    BY <1>0, <1>1 DEF LoopsOK, LoopOK
  <2> QED BY <1>0, <1>2, <2>1, NothingQueued, Quiet
<1>4. PhaseOK'
  <2>1. \A w \in 1..count : w \in Workers /\ w \in Loops /\ w # Base /\ ~(w > count)
    BY <1>0, Constants DEF TypesOK
  <2>2. \A w \in 1..count : life'[w] \in {"none", "starting", "running", "ended"}
    BY <1>2, <2>1 DEF TypesOK
  <2>3. \A w \in 1..count : life'[w] \in {"running", "ended"}
    BY <1>0, <1>1, <2>1, <2>2 DEF PhaseOK, Starting
  <2>4. threads = 1..count
    BY <1>0 DEF PhaseOK, Starting
  <2> QED BY <1>1, <2>3, <2>4 DEF PhaseOK, Starting
<1>5. EndingOK'
  BY <1>0, <1>2, <1>3, NoneEnds DEF PhaseOK, Starting
<1> QED BY <1>2, <1>3, <1>4, <1>5 DEF IInv

-----------------------------------------------------------------------------
(* The loops.                                                              *)

LEMMA SwapTasksKeeps ==
    ASSUME IInv, NEW l \in Loops, SwapTasks(l)
    PROVE  IInv'
<1>0. TypesOK /\ LoopsOK /\ PhaseOK /\ EndingOK
  BY Parts
<1> USE DEF SwapTasks, poolVars, connVars
<1>1. /\ Stepped({}, {}, ServerStop)
      /\ queue' \in [Loops -> Seq(Functors)] /\ batch' \in [Loops -> Seq(Functors)]
  BY <1>0, OnlySwapped
<1>2. TypesOK'
  BY <1>0, <1>1 DEF TypesOK
<1>3. /\ FunctorsOK' /\ InOrder' /\ ConnsOK' /\ LoopsOK'
      /\ \A k \in Loops : Ending(k)' => Ending(k)
  BY <1>0, <1>1, <1>2, Quiet DEF LoopsOK, LoopOK
<1>4. PhaseOK'
  BY <1>0 DEF PhaseOK, Starting
<1>5. EndingOK'
  <2>1. threads \subseteq Loops
    BY <1>0, Constants DEF TypesOK
  <2> QED BY <1>0, <1>3, <2>1, Constants DEF EndingOK
<1> QED BY <1>2, <1>3, <1>4, <1>5 DEF IInv

LEMMA LoopEndsKeeps ==
    ASSUME IInv, NEW l \in Loops, LoopEnds(l)
    PROVE  IInv'
<1>0. TypesOK /\ LoopsOK /\ PhaseOK /\ EndingOK
  BY Parts
<1> USE DEF LoopEnds, loopVars, connVars
<1>1. /\ stop[l] /\ Ending(l) /\ ~open /\ life[l] = "running" /\ life'[l] = "ended"
      /\ \A k \in Loops : k # l => life'[k] = life[k]
  BY <1>0 DEF TypesOK, EndingOK, Ending, Running
<1>2. TypesOK'
  BY <1>0, <1>1 DEF TypesOK, Phases
<1>3. ~Starting /\ (l = Base => phase = "loop")
  BY <1>0, <1>1 DEF PhaseOK, Running
<1>4. /\ FunctorsOK' /\ InOrder' /\ ConnsOK' /\ LoopsOK'
      /\ \A k \in Loops : Ending(k)' => Ending(k)
  <2>1. \A k \in Loops : life'[k] = "ended" => stop[k]
    BY <1>0, <1>1 DEF LoopsOK, LoopOK
  <2> QED BY <1>0, <1>2, <1>3, <2>1, NothingQueued, Quiet
<1>5. PhaseOK'
  <2>1. life'[Base] = IF phase' = "done" THEN "ended" ELSE "running"
    BY <1>0, <1>1, <1>3, Constants DEF PhaseOK
  <2>2. \A w \in 1..count : w \in Loops /\ w # Base
    BY <1>0, Constants DEF TypesOK
  <2>3. \A w \in 1..count : life'[w] \in {"running", "ended"} /\ (life[w] = "ended" => life'[w] = "ended")
    BY <1>0, <1>1, <1>3, <2>2 DEF PhaseOK
  <2>4. ~Starting' /\ phase' # "wait" /\ (phase' \in {"insert", "join"} => phase' = phase)
    BY <1>3 DEF Starting
  <2> QED BY <1>0, <1>1, <1>3, <2>1, <2>3, <2>4 DEF PhaseOK
<1>6. EndingOK'
  <2>1. threads \subseteq Loops
    BY <1>0, Constants DEF TypesOK
  <2>2. conns = {}
    BY <1>0, <1>1 DEF EndingOK
  <2>3. \A w \in threads : Ending(w)' => phase' = "join" /\ turn = w
    BY <1>0, <1>3, <1>4, <2>1 DEF EndingOK
  <2> QED BY <1>0, <1>1, <1>4, <2>2, <2>3, Constants DEF EndingOK
<1> QED BY <1>2, <1>4, <1>5, <1>6 DEF IInv

-----------------------------------------------------------------------------
(* Stop().                                                                 *)

LEMMA StopKeeps ==
    ASSUME IInv, Stop
    PROVE  IInv'
<1>0. TypesOK /\ LoopsOK /\ PhaseOK /\ EndingOK
  BY Parts
<1> USE DEF Stop, poolVars, connVars
<1>1. /\ Stepped({Base}, {}, ServerStop)
      /\ queue' \in [Loops -> Seq(Functors)] /\ batch' \in [Loops -> Seq(Functors)]
  BY <1>0, OnlyQueued, Stops, Constants
<1>2. TypesOK'
  BY <1>0, <1>1 DEF TypesOK
<1>3. FunctorsOK' /\ InOrder' /\ ConnsOK' /\ LoopsOK'
  <2>1. FunctorOK(Base, ServerStop)
    BY Stops DEF FunctorOK
  <2>2. \A c \in 1..serial : Listed(c)' <=> Listed(c)
    BY DEF Listed, Inserting
  <2>3. \A l \in Loops : life'[l] = "ended" => stop'[l]
    BY <1>0 DEF LoopsOK, LoopOK
  <2> QED BY <1>1, <1>2, <2>1, <2>2, <2>3, Stops, Frame
<1>4. \A k \in Loops : Ending(k)' => Ending(k)
  BY <1>1, Stops, EndingStep
<1>5. PhaseOK'
  BY <1>0 DEF PhaseOK, Starting
<1>6. EndingOK'
  <2>1. threads \subseteq Loops
    BY <1>0, Constants DEF TypesOK
  <2> QED BY <1>0, <1>4, <2>1, Constants DEF EndingOK
<1> QED BY <1>2, <1>3, <1>5, <1>6 DEF IInv

LEMMA StopPoolKeeps ==
    ASSUME IInv, StopPool
    PROVE  IInv'
<1>0. TypesOK /\ LoopsOK /\ PhaseOK /\ EndingOK
  BY Parts
<1> USE DEF StopPool, AllReleased, poolVars, loopVars, connVars
<1>1. TypesOK'
  BY <1>0 DEF TypesOK, Phases
<1>2. /\ FunctorsOK' /\ InOrder' /\ ConnsOK' /\ LoopsOK'
      /\ \A l \in Loops : Ending(l)' => Ending(l)
  BY <1>0, <1>1, NothingQueued, Quiet DEF LoopsOK, LoopOK
<1>3. PhaseOK'
  BY <1>0 DEF PhaseOK, Starting
<1>4. EndingOK'
  <2>1. threads \subseteq Loops
    BY <1>0, Constants DEF TypesOK
  <2> QED BY <1>0, <1>2, <2>1, Constants DEF EndingOK, PhaseOK
<1> QED BY <1>1, <1>2, <1>3, <1>4 DEF IInv

\* What a loop still has, once the table is empty, has its Release queued.
LEMMA AllReleasing ==
    ASSUME IInv, conns = {}, phase # "insert", NEW l \in Loops
    PROVE  \A c \in Live(l) : In(Functor("Release", c), Exec(l))
BY Parts DEF Live, ConnsOK, ConnOK, Listed, Inserting

LEMMA StopThreadKeeps ==
    ASSUME IInv, NEW w \in Workers, StopThread(w)
    PROVE  IInv'
<1>0. TypesOK /\ LoopsOK /\ PhaseOK /\ EndingOK
  BY Parts
<1> USE DEF StopThread, connVars
<1>1. /\ w \in 1..count /\ w \in Loops /\ w # Base /\ life[w] \in {"running", "ended"}
      /\ conns = {} /\ ~open /\ ~Starting
      /\ threads \subseteq Loops
  <2>1. w \in 1..count /\ w \in Loops /\ w # Base /\ threads \subseteq Loops
    BY <1>0, Constants DEF TypesOK
  <2>2. ~open /\ ~Starting /\ life[w] \in {"running", "ended"}
    BY <1>0, <2>1 DEF PhaseOK, Starting
  <2> QED BY <1>0, <2>1, <2>2 DEF EndingOK
<1>2. /\ Stepped({w}, {}, LoopStop)
      /\ queue' \in [Loops -> Seq(Functors)] /\ batch' \in [Loops -> Seq(Functors)]
  <2>1. queue' = Queued(w, LoopStop)
    BY <1>1
  <2> QED BY <1>0, <1>1, <2>1, OnlyQueued, Stops
<1>3. TypesOK'
  BY <1>0, <1>1, <1>2 DEF TypesOK, Phases
<1>4. FunctorsOK' /\ InOrder' /\ ConnsOK' /\ LoopsOK'
  <2>1. FunctorOK(w, LoopStop)
    BY Stops DEF FunctorOK
  <2>2. \A c \in 1..serial : Listed(c)' <=> Listed(c)
    BY DEF Listed, Inserting
  <2>3. \A l \in Loops : life'[l] = "ended" => stop'[l]
    BY <1>0 DEF LoopsOK, LoopOK
  <2>4. \A c \in Live(w) : In(Functor("Release", c), Exec(w))
    BY <1>1, AllReleasing
  <2> QED BY <1>1, <1>2, <1>3, <2>1, <2>2, <2>3, <2>4, Stops, Frame
<1>5. \A k \in Loops : Ending(k)' => Ending(k) \/ k = w
  BY <1>2, Stops, EndingStep
<1>6. PhaseOK'
  BY <1>0, <1>1 DEF PhaseOK, Starting
<1>7. EndingOK'
  <2>1. ~Ending(Base)
    BY <1>0 DEF EndingOK
  <2>2. \A v \in threads : ~Ending(v)
    BY <1>0 DEF EndingOK
  <2> QED BY <1>1, <1>5, <2>1, <2>2, Constants DEF EndingOK
<1> QED BY <1>3, <1>4, <1>6, <1>7 DEF IInv

LEMMA JoinThreadKeeps ==
    ASSUME IInv, JoinThread
    PROVE  IInv'
<1>0. TypesOK /\ LoopsOK /\ PhaseOK /\ EndingOK
  BY Parts
<1> USE DEF JoinThread, Forgotten, loopVars, connVars
<1>1. TypesOK'
  BY <1>0 DEF TypesOK, Phases
<1>2. /\ FunctorsOK' /\ InOrder' /\ ConnsOK' /\ LoopsOK'
      /\ \A l \in Loops : Ending(l)' => Ending(l)
  BY <1>0, <1>1, NothingQueued, Quiet DEF LoopsOK, LoopOK
<1>3. PhaseOK'
  BY <1>0 DEF PhaseOK, Starting
<1>4. EndingOK'
  <2>1. threads \subseteq Loops
    BY <1>0, Constants DEF TypesOK
  <2>2. conns = {} /\ ~open
    BY <1>0 DEF EndingOK, PhaseOK
  <2>3. threads' \subseteq threads /\ turn \notin threads'
    OBVIOUS
  <2>4. \A w \in threads' : ~Ending(w)'
    BY <1>0, <1>2, <2>1, <2>3 DEF EndingOK
  <2> QED BY <1>0, <1>2, <2>2, <2>3, <2>4, Constants DEF EndingOK
<1> QED BY <1>1, <1>2, <1>3, <1>4 DEF IInv

LEMMA StopBaseLoopKeeps ==
    ASSUME IInv, StopBaseLoop
    PROVE  IInv'
<1>0. TypesOK /\ LoopsOK /\ PhaseOK /\ EndingOK
  BY Parts
<1> USE DEF StopBaseLoop, poolVars, connVars
<1>1. conns = {} /\ ~open /\ ~Starting /\ Base \in Loops
  BY <1>0, Constants DEF EndingOK, PhaseOK, Starting
<1>2. /\ Stepped({Base}, {}, LoopStop)
      /\ queue' \in [Loops -> Seq(Functors)] /\ batch' \in [Loops -> Seq(Functors)]
  BY <1>0, <1>1, OnlyQueued, Stops
<1>3. TypesOK'
  BY <1>0, <1>2 DEF TypesOK, Phases
<1>4. FunctorsOK' /\ InOrder' /\ ConnsOK' /\ LoopsOK'
  <2>1. FunctorOK(Base, LoopStop)
    BY Stops DEF FunctorOK
  <2>2. \A c \in 1..serial : Listed(c)' <=> Listed(c)
    BY DEF Listed, Inserting
  <2>3. \A l \in Loops : life'[l] = "ended" => stop'[l]
    BY <1>0 DEF LoopsOK, LoopOK
  <2>4. \A c \in Live(Base) : In(Functor("Release", c), Exec(Base))
    BY <1>1, AllReleasing
  <2> QED BY <1>1, <1>2, <1>3, <2>1, <2>2, <2>3, <2>4, Stops, Frame
<1>5. PhaseOK'
  BY <1>0, <1>1 DEF PhaseOK, Starting
<1>6. EndingOK'
  BY <1>1 DEF EndingOK
<1> QED BY <1>3, <1>4, <1>5, <1>6 DEF IInv

-----------------------------------------------------------------------------
(* A connection comes and goes.                                            *)

LEMMA NextLoopIs ==
    ASSUME TypesOK
    PROVE  /\ NextIdx \in Nat /\ NextLoop \in 0..count /\ NextLoop \in Loops
           /\ NextLoop = Base <=> count = 0
<1>1. count \in Nat /\ next \in Nat /\ count <= MaxWorkers /\ MaxWorkers \in Nat
  BY Constants DEF TypesOK
<1>2. CASE count = 0
  BY <1>1, <1>2, Constants DEF NextIdx, NextLoop, Base, Loops
<1>3. CASE count # 0
  <2>1. (next + 1) % count \in 0..(count - 1)
    BY <1>1, <1>3
  <2> DEFINE n == (next + 1) % count
  <2>2. NextIdx = n /\ NextLoop = n + 1
    BY <1>3 DEF NextIdx, NextLoop
  <2> HIDE DEF n
  <2> QED BY <1>1, <1>3, <2>1, <2>2 DEF n, Base, Loops
<1> QED BY <1>2, <1>3

LEMMA NewConnectionKeeps ==
    ASSUME IInv, NewConnection
    PROVE  IInv'
<1>0. TypesOK /\ LoopsOK /\ PhaseOK /\ EndingOK
  BY Parts
<1> SUFFICES ASSUME NEW c, c = serial + 1, NEW L, L = NextLoop, NEW f, f = Functor("Establish", c)
             PROVE  IInv'
  OBVIOUS
<1>1. /\ c \in Conns /\ c \in 0..MaxConns /\ serial' = c /\ c > 0
      /\ L \in 0..count /\ L \in Loops /\ NextIdx \in Nat /\ (L = Base <=> count = 0)
      /\ loop' = [loop EXCEPT ![c] = L] /\ f \in Functors
      /\ phase = "loop" /\ phase' = "insert" /\ open
  <2>1. serial \in 0..MaxConns /\ serial < MaxConns /\ MaxConns \in Nat
    BY <1>0, Constants DEF TypesOK, NewConnection
  <2>2. c \in Conns /\ c \in 0..MaxConns /\ c > 0
    BY <2>1, Constants
  <2> QED BY <1>0, <2>2, NextLoopIs, FunctorIs DEF NewConnection, Running
<1>2. UNCHANGED <<count, turn, threads, life, stop, batch, conns, open, stops>> /\ next' = NextIdx
  BY DEF NewConnection
<1>3. \/ /\ L = Base /\ Stepped({}, {}, f)
         /\ status' = [status EXCEPT ![c] = "CONNECTED"] /\ known' = known \cup {c}
         /\ queue' \in [Loops -> Seq(Functors)] /\ batch' \in [Loops -> Seq(Functors)]
      \/ /\ L # Base /\ Stepped({L}, {}, f)
         /\ status' = [status EXCEPT ![c] = "CONNECTING"] /\ known' = known
         /\ queue' \in [Loops -> Seq(Functors)] /\ batch' \in [Loops -> Seq(Functors)]
  <2>1. CASE L = Base
    <3>1. queue' = queue /\ status' = [status EXCEPT ![c] = "CONNECTED"] /\ known' = known \cup {c}
      BY <1>1, <2>1 DEF NewConnection
    <3> QED BY <1>0, <1>2, <2>1, <3>1, NothingQueued
  <2>2. CASE L # Base
    <3>1. queue' = Queued(L, f) /\ status' = [status EXCEPT ![c] = "CONNECTING"] /\ known' = known
      BY <1>1, <2>2 DEF NewConnection
    <3> QED BY <1>0, <1>1, <1>2, <2>2, <3>1, OnlyQueued
  <2> QED BY <2>1, <2>2
<1>4. TypesOK'
  <2>1. serial \in Nat /\ c = serial + 1
    BY <1>0, Constants DEF TypesOK
  <2>2. 1..serial \subseteq 1..serial' /\ c \in 1..serial'
    BY <1>1, <2>1
  <2>3. /\ count' \in 0..MaxWorkers /\ turn' \in 0..count' /\ threads' \in SUBSET (1..count')
        /\ phase' \in Phases /\ life' \in [Loops -> {"none", "starting", "running", "ended"}]
        /\ stop' \in [Loops -> BOOLEAN] /\ open' \in BOOLEAN
    BY <1>0, <1>1, <1>2 DEF TypesOK, Phases
  <2>4. next' \in Nat /\ serial' \in 0..MaxConns /\ loop' \in [Conns -> 0..count']
    BY <1>0, <1>1, <1>2 DEF TypesOK
  <2>5. /\ conns' \in SUBSET (1..serial') /\ known' \in SUBSET (1..serial')
        /\ status' \in [Conns -> {"none", "CONNECTING", "CONNECTED", "DISCONNECTED"}]
    BY <1>0, <1>1, <1>2, <1>3, <2>2 DEF TypesOK
  <2> QED BY <1>3, <2>3, <2>4, <2>5 DEF TypesOK
<1>5. FunctorsOK' /\ InOrder' /\ ConnsOK' /\ LoopsOK'
  <2>1. {} \in SUBSET {L} /\ {L} \in SUBSET {L} /\ {L} # {}
    OBVIOUS
  <2>2. CASE L = Base /\ Stepped({}, {}, f) /\ status' = [status EXCEPT ![c] = "CONNECTED"]
             /\ known' = known \cup {c}
    BY <1>1, <1>2, <1>4, <2>1, <2>2, Accepts
  <2>3. CASE Stepped({L}, {}, f) /\ status' = [status EXCEPT ![c] = "CONNECTING"] /\ known' = known
    BY <1>1, <1>2, <1>4, <2>1, <2>3, Accepts
  <2> QED BY <1>3, <2>2, <2>3
<1>6. \A k \in Loops : Ending(k)' => Ending(k)
  <2>1. f.do # "stop"
    BY FunctorIs
  <2> QED BY <1>1, <1>2, <1>3, <2>1, EndingStep
<1>7. PhaseOK'
  BY <1>0, <1>1, <1>2 DEF PhaseOK, Starting
<1>8. EndingOK'
  BY <1>0, <1>1, <1>2, <1>4, <1>6, NoneEnds
<1> QED BY <1>4, <1>5, <1>7, <1>8 DEF IInv

LEMMA InsertConnectionKeeps ==
    ASSUME IInv, InsertConnection
    PROVE  IInv'
<1>0. TypesOK /\ LoopsOK /\ PhaseOK /\ EndingOK
  BY Parts
<1> USE DEF InsertConnection, poolVars, loopVars
<1>1. open /\ serial > 0 /\ serial \in 1..serial
  BY <1>0, Constants DEF PhaseOK, TypesOK
<1>2. TypesOK'
  BY <1>0, <1>1 DEF TypesOK, Phases
<1>3. FunctorsOK' /\ InOrder' /\ ConnsOK' /\ LoopsOK'
  <2>1. \A c \in 1..serial : Listed(c)' <=> Listed(c)
    BY DEF Listed, Inserting
  <2>2. \A l \in Loops : life'[l] = "ended" => stop'[l]
    BY <1>0 DEF LoopsOK, LoopOK
  <2>3. Stepped({}, {}, ServerStop) /\ UNCHANGED <<serial, status, loop, known, stop>>
    BY <1>0, NothingQueued
  <2> QED BY <1>2, <2>1, <2>2, <2>3, Stops, Frame
<1>4. \A l \in Loops : Ending(l)' => Ending(l)
  BY <1>0, NothingQueued, Stops, EndingStep
<1>5. PhaseOK'
  BY <1>0 DEF PhaseOK, Starting
<1>6. EndingOK'
  BY <1>0, <1>1, <1>2, <1>4, NoneEnds
<1> QED BY <1>2, <1>3, <1>5, <1>6 DEF IInv

LEMMA UseConnectionKeeps ==
    ASSUME IInv, NEW c \in Conns, UseConnection(c)
    PROVE  IInv'
<1>0. TypesOK /\ ConnsOK /\ LoopsOK /\ PhaseOK /\ EndingOK
  BY Parts
<1> SUFFICES ASSUME NEW l, l = loop[c], NEW f, f = Functor("Use", c)
             PROVE  IInv'
  OBVIOUS
<1> USE DEF UseConnection, poolVars, connVars
<1>1. status[c] \in {"CONNECTED", "DISCONNECTED"} /\ c \in 1..serial /\ c \in 0..MaxConns /\ l \in Loops
  <2>1. status[c] \in {"CONNECTED", "DISCONNECTED"}
    OBVIOUS
  <2>2. ~(c > serial) /\ serial \in 0..MaxConns /\ Conns = 1..MaxConns /\ MaxConns \in Nat
    BY <1>0, <2>1, Constants DEF ConnsOK, TypesOK
  <2>3. c \in 1..serial /\ c \in 0..MaxConns
    BY <2>2
  <2> QED BY <1>0, <2>1, <2>3, ExecTypes, Constants
<1>2. f \in Functors /\ f.do = "Use" /\ f.conn = c
  BY <1>1, FunctorIs
<1>3. /\ Stepped({l}, {}, f)
      /\ queue' \in [Loops -> Seq(Functors)] /\ batch' \in [Loops -> Seq(Functors)]
  BY <1>0, <1>1, <1>2, OnlyQueued
<1>4. TypesOK'
  BY <1>0, <1>3 DEF TypesOK
<1>5. FunctorsOK' /\ InOrder' /\ ConnsOK' /\ LoopsOK'
  <2>1. FunctorOK(l, f)
    BY <1>1, <1>2 DEF FunctorOK
  <2>2. \A d \in 1..serial : Listed(d)' <=> Listed(d)
    BY DEF Listed, Inserting
  <2>3. \A k \in Loops : life'[k] = "ended" => stop'[k]
    BY <1>0 DEF LoopsOK, LoopOK
  <2> QED BY <1>2, <1>3, <1>4, <2>1, <2>2, <2>3, Frame
<1>6. \A k \in Loops : Ending(k)' => Ending(k)
  BY <1>2, <1>3, EndingStep
<1>7. PhaseOK'
  BY <1>0 DEF PhaseOK, Starting
<1>8. EndingOK'
  <2>1. threads \subseteq Loops
    BY <1>0, Constants DEF TypesOK
  <2> QED BY <1>0, <1>6, <2>1, Constants DEF EndingOK
<1> QED BY <1>4, <1>5, <1>7, <1>8 DEF IInv

LEMMA ReleaseConnectionKeeps ==
    ASSUME IInv, NEW c \in Conns, ReleaseConnection(c)
    PROVE  IInv'
<1>0. TypesOK /\ ConnsOK /\ LoopsOK /\ PhaseOK /\ EndingOK
  BY Parts
<1> SUFFICES ASSUME NEW l, l = loop[c], NEW f, f = Functor("Release", c)
             PROVE  IInv'
  OBVIOUS
<1> USE DEF ReleaseConnection, poolVars
<1>1. c \in 1..serial /\ c \in 0..MaxConns /\ l \in Loops /\ c \in conns
  <2>1. c \in 1..serial
    BY <1>0 DEF TypesOK
  <2> QED BY <1>0, <2>1, Accepted, Constants
<1>2. f \in Functors /\ f.do = "Release" /\ f.conn = c
  BY <1>1, FunctorIs
<1>3. /\ Stepped({l}, {}, f)
      /\ queue' \in [Loops -> Seq(Functors)] /\ batch' \in [Loops -> Seq(Functors)]
  BY <1>0, <1>1, <1>2, OnlyQueued
<1>4. TypesOK'
  BY <1>0, <1>3 DEF TypesOK
<1>5. FunctorsOK' /\ InOrder' /\ ConnsOK' /\ LoopsOK'
  <2>1. FunctorOK(l, f)
    BY <1>1, <1>2 DEF FunctorOK
  <2>2. \A d \in 1..serial : Listed(d)' => Listed(d)
    BY DEF Listed, Inserting
  <2>3. \A d \in 1..serial : Listed(d) /\ ~Listed(d)' => d = c
    BY DEF Listed, Inserting
  <2>4. In(Functor("Release", c), Exec(loop[c])')
    BY <1>0, <1>1, <1>2, <1>3, ExecStep
  <2>5. \A k \in Loops : life'[k] = "ended" => stop'[k]
    BY <1>0 DEF LoopsOK, LoopOK
  <2> QED BY <1>2, <1>3, <1>4, <2>1, <2>2, <2>3, <2>4, <2>5, Frame
<1>6. \A k \in Loops : Ending(k)' => Ending(k)
  BY <1>2, <1>3, EndingStep
<1>7. PhaseOK'
  BY <1>0 DEF PhaseOK, Starting
<1>8. EndingOK'
  <2>1. threads \subseteq Loops
    BY <1>0, Constants DEF TypesOK
  <2>2. \A k \in Loops : ~Ending(k)'
    BY <1>0, <1>1, <1>6 DEF EndingOK
  <2> QED BY <1>0, <2>1, <2>2, Constants DEF EndingOK
<1> QED BY <1>4, <1>5, <1>7, <1>8 DEF IInv

LEMMA DisconnectKeeps ==
    ASSUME IInv, NEW c \in Conns, Disconnect(c)
    PROVE  IInv'
<1>0. TypesOK /\ ConnsOK /\ LoopsOK /\ PhaseOK /\ EndingOK
  BY Parts
<1> SUFFICES ASSUME NEW f, f = Functor("erase", c)
             PROVE  IInv'
  OBVIOUS
<1> USE DEF Disconnect, poolVars
<1>1. /\ status[c] = "CONNECTED" /\ c \in 1..serial /\ c \in 0..MaxConns
      /\ status' = [status EXCEPT ![c] = "DISCONNECTED"] /\ known' = known \ {c}
      /\ queue' = Queued(Base, f) /\ conns' = conns
  <2>1. status[c] = "CONNECTED"
    BY DEF MayHandle
  <2>2. ~(c > serial) /\ serial \in 0..MaxConns /\ Conns = 1..MaxConns /\ MaxConns \in Nat
    BY <1>0, <2>1, Constants DEF ConnsOK, TypesOK
  <2>3. c \in 1..serial /\ c \in 0..MaxConns
    BY <2>2
  <2> QED BY <2>1, <2>3 DEF ReleaseInLoop, Unlisted, Queued
<1>2. /\ f \in Functors /\ f.do = "erase" /\ Stepped({Base}, {}, f)
      /\ queue' \in [Loops -> Seq(Functors)] /\ batch' \in [Loops -> Seq(Functors)]
  BY <1>0, <1>1, FunctorIs, OnlyQueued, Constants
<1>3. TypesOK'
  BY <1>0, <1>1, <1>2 DEF TypesOK
<1>4. FunctorsOK' /\ InOrder' /\ ConnsOK' /\ LoopsOK'
  <2>1. UNCHANGED <<serial, loop, conns, phase, stop, life>>
    BY <1>1
  <2>2. {} \in SUBSET Loops /\ Stepped({Base}, {}, Functor("erase", c))
    BY <1>2
  <2> QED BY <1>1, <1>3, <2>1, <2>2, Closes
<1>5. \A k \in Loops : Ending(k)' => Ending(k)
  BY <1>2, EndingStep
<1>6. PhaseOK'
  BY <1>0 DEF PhaseOK, Starting
<1>7. EndingOK'
  <2>1. threads \subseteq Loops
    BY <1>0, Constants DEF TypesOK
  <2> QED BY <1>0, <1>1, <1>5, <2>1, Constants DEF EndingOK
<1> QED BY <1>3, <1>4, <1>6, <1>7 DEF IInv

-----------------------------------------------------------------------------
(* A loop runs a functor: one lemma for each kind.                         *)

LEMMA HeadIs ==
    ASSUME IInv, NEW l \in Loops, RunTask(l), NEW h, h = Head(batch[l])
    PROVE  /\ h = Head(Exec(l)) /\ h \in Functors /\ In(h, Exec(l)) /\ FunctorOK(l, h)
           /\ Exec(l) # <<>>
<1>1. TypesOK /\ FunctorsOK
  BY Parts
<1>2. Exec(l) # <<>> /\ Head(Exec(l)) = h
  BY <1>1, FirstRun DEF RunTask
<1> QED BY <1>1, <1>2, FirstFunctor DEF FunctorsOK

\* What stays the same keeps the last two parts.
LEMMA PhaseStays ==
    ASSUME TypesOK, PhaseOK, EndingOK, \A k \in Loops : Ending(k)' => Ending(k),
           UNCHANGED <<count, turn, threads, life, serial, open, phase>>, conns' \subseteq conns
    PROVE  PhaseOK' /\ EndingOK'
<1>1. PhaseOK'
  BY DEF PhaseOK, Starting
<1>2. threads \subseteq Loops /\ Base \in Loops
  BY Constants DEF TypesOK
<1>3. EndingOK'
  BY <1>2 DEF EndingOK
<1> QED BY <1>1, <1>3

LEMMA RunEstablish ==
    ASSUME IInv, NEW l \in Loops, RunTask(l), NEW h, h = Head(batch[l]), h.do = "Establish",
           status' = [status EXCEPT ![h.conn] = "CONNECTED"], known' = known \cup {h.conn},
           UNCHANGED <<stop, queue, conns, phase, turn, open>>
    PROVE  IInv'
<1>0. TypesOK /\ PhaseOK /\ EndingOK
  BY Parts
<1> SUFFICES ASSUME NEW c, c = h.conn PROVE IInv'
  OBVIOUS
<1> USE DEF RunTask
<1>1. /\ h = Head(Exec(l)) /\ h = Functor("Establish", c)
      /\ c \in 1..serial /\ status[c] = "CONNECTING"
  <2>1. h = Head(Exec(l)) /\ h \in Functors /\ FunctorOK(l, h)
    BY HeadIs
  <2>2. h = Functor("Establish", c)
    BY <2>1, FunctorIs
  <2>3. c \in 1..serial /\ status[c] = "CONNECTING"
    BY <2>1 DEF FunctorOK
  <2> QED BY <2>1, <2>2, <2>3
<1>2. /\ Stepped({}, {l}, ServerStop)
      /\ queue' \in [Loops -> Seq(Functors)] /\ batch' \in [Loops -> Seq(Functors)]
  BY <1>0, OnlyRun
<1>3. TypesOK'
  BY <1>0, <1>1, <1>2 DEF TypesOK
<1>4. FunctorsOK' /\ InOrder' /\ ConnsOK' /\ LoopsOK'
  BY <1>1, <1>2, <1>3, Stops, Establishes
<1>5. \A k \in Loops : Ending(k)' => Ending(k)
  BY <1>2, Stops, EndingStep
<1> QED BY <1>0, <1>3, <1>4, <1>5, PhaseStays DEF IInv

LEMMA RunRelease ==
    ASSUME IInv, NEW l \in Loops, RunTask(l), NEW h, h = Head(batch[l]), h.do \in {"Release", "Use"},
           \/ ReleaseInLoop(h.conn)
           \/ h.do = "Use" /\ UNCHANGED <<status, known, conns, queue>>,
           UNCHANGED <<stop, phase, turn, open>>
    PROVE  IInv'
<1>0. TypesOK /\ FunctorsOK /\ InOrder /\ ConnsOK /\ LoopsOK /\ PhaseOK /\ EndingOK
  BY Parts
<1> SUFFICES ASSUME NEW c, c = h.conn PROVE IInv'
  OBVIOUS
<1> USE DEF RunTask
<1>1. /\ h = Head(Exec(l)) /\ Exec(l) # <<>>
      /\ h \in {Functor("Release", c), Functor("Use", c)}
      /\ c \in 1..serial /\ c \in Conns /\ loop[c] = l /\ c \in 0..MaxConns
  <2>1. c \in 1..serial /\ loop[c] = l
    BY HeadIs DEF FunctorOK
  <2>2. c \in Conns /\ c \in 0..MaxConns
    BY <1>0, <2>1, Accepted, Constants
  <2>3. h = Head(Exec(l)) /\ Exec(l) # <<>> /\ h \in Functors
    BY HeadIs
  <2>4. h \in {Functor("Release", c), Functor("Use", c)}
    BY <2>3, FunctorIs
  <2> QED BY <2>1, <2>2, <2>3, <2>4
<1>2. CASE /\ UNCHANGED <<status, known, conns, queue>>
           /\ h.do = "Release" => status[c] = "DISCONNECTED"
  <2>1. UNCHANGED <<status, known, conns, queue>>
    BY <1>2
  <2>2. /\ Stepped({}, {l}, ServerStop)
        /\ queue' \in [Loops -> Seq(Functors)] /\ batch' \in [Loops -> Seq(Functors)]
    BY <1>0, <2>1, OnlyRun
  <2>3. TypesOK'
    BY <1>0, <2>1, <2>2 DEF TypesOK
  <2>4. FunctorsOK' /\ InOrder' /\ ConnsOK' /\ LoopsOK'
    <3>1. \A k \in {l} : Harmless(Head(Exec(k)))
      BY <1>1, <1>2 DEF Harmless
    <3>2. \A d \in 1..serial : Listed(d)' <=> Listed(d)
      BY <2>1 DEF Listed, Inserting
    <3>3. \A k \in Loops : life'[k] = "ended" => stop'[k]
      BY <1>0 DEF LoopsOK, LoopOK
    <3>4. UNCHANGED <<serial, status, loop, known, stop>>
      BY <2>1
    <3> QED BY <2>2, <2>3, <3>1, <3>2, <3>3, <3>4, Stops, Frame
  <2>5. \A k \in Loops : Ending(k)' => Ending(k)
    BY <2>2, Stops, EndingStep
  <2> QED BY <1>0, <2>1, <2>3, <2>4, <2>5, PhaseStays DEF IInv
<1>3. CASE ReleaseInLoop(c) /\ status[c] # "DISCONNECTED"
  <2> SUFFICES ASSUME NEW f, f = Functor("erase", c) PROVE IInv'
    OBVIOUS
  <2>1. /\ status' = [status EXCEPT ![c] = "DISCONNECTED"] /\ known' = known \ {c}
        /\ queue' = Queued(Base, f) /\ conns' = conns
    BY <1>3 DEF ReleaseInLoop, Unlisted, Queued
  <2>2. status[c] = "CONNECTED"
    <3>1. CASE h.do = "Use"
      BY <1>3, <3>1, HeadIs DEF FunctorOK
    <3>2. CASE h.do = "Release"
      <4>1. EstablishedFirst(Exec(l)) /\ h.conn = c
        BY <1>0, <1>1, FunctorIs DEF InOrder
      <4>2. ~In(Functor("Establish", c), Exec(l))
        BY <1>0, <1>1, <3>2, <4>1, FirstFunctor
      <4>3. status[c] # "none" /\ status[c] # "CONNECTING"
        BY <1>0, <1>1, <4>2 DEF ConnsOK, ConnOK
      <4> QED BY <1>0, <1>1, <1>3, <4>3 DEF TypesOK
    <3> QED BY <3>1, <3>2
  <2>3. /\ f \in Functors /\ f.do = "erase" /\ Stepped({Base}, {l}, f)
        /\ queue' \in [Loops -> Seq(Functors)] /\ batch' \in [Loops -> Seq(Functors)]
    BY <1>0, <1>1, <2>1, FunctorIs, RunAndQueued
  <2>4. TypesOK'
    BY <1>0, <2>1, <2>3 DEF TypesOK
  <2>5. FunctorsOK' /\ InOrder' /\ ConnsOK' /\ LoopsOK'
    <3>1. UNCHANGED <<serial, loop, conns, phase, stop, life>>
      BY <2>1
    <3>2. \A k \in {l} : Head(Exec(k)) \in {Functor("Release", c), Functor("Use", c)}
      BY <1>1
    <3>3. {l} \in SUBSET Loops /\ Stepped({Base}, {l}, Functor("erase", c))
      BY <2>3
    <3> QED BY <1>1, <2>1, <2>2, <2>4, <3>1, <3>2, <3>3, Closes
  <2>6. \A k \in Loops : Ending(k)' => Ending(k)
    BY <2>3, EndingStep
  <2> QED BY <1>0, <2>1, <2>4, <2>5, <2>6, PhaseStays DEF IInv
<1> QED BY <1>2, <1>3 DEF ReleaseInLoop

LEMMA RunErase ==
    ASSUME IInv, NEW l \in Loops, RunTask(l), NEW h, h = Head(batch[l]), h.do = "erase",
           conns' = conns \ {h.conn}, UNCHANGED <<stop, queue, status, known, phase, turn, open>>
    PROVE  IInv'
<1>0. TypesOK /\ LoopsOK /\ PhaseOK /\ EndingOK
  BY Parts
<1> SUFFICES ASSUME NEW c, c = h.conn PROVE IInv'
  OBVIOUS
<1> USE DEF RunTask
<1>1. /\ h = Head(Exec(l)) /\ phase = "loop"
      /\ c \in 1..serial /\ status[c] = "DISCONNECTED"
  BY HeadIs DEF FunctorOK, Running
<1>2. /\ Stepped({}, {l}, ServerStop)
      /\ queue' \in [Loops -> Seq(Functors)] /\ batch' \in [Loops -> Seq(Functors)]
  BY <1>0, OnlyRun
<1>3. TypesOK'
  BY <1>0, <1>2 DEF TypesOK
<1>4. FunctorsOK' /\ InOrder' /\ ConnsOK' /\ LoopsOK'
  <2>1. \A d \in 1..serial : Listed(d)' <=> Listed(d) /\ d # c
    BY <1>1 DEF Listed, Inserting
  <2>2. \A k \in {l} : Harmless(Head(Exec(k)))
    BY <1>1, <2>1 DEF Harmless
  <2>3. \A k \in Loops : life'[k] = "ended" => stop'[k]
    BY <1>0 DEF LoopsOK, LoopOK
  <2> QED BY <1>1, <1>2, <1>3, <2>1, <2>2, <2>3, Stops, Frame
<1>5. \A k \in Loops : Ending(k)' => Ending(k)
  BY <1>2, Stops, EndingStep
<1> QED BY <1>0, <1>3, <1>4, <1>5, PhaseStays DEF IInv

LEMMA RunStop ==
    ASSUME IInv, NEW l \in Loops, RunTask(l), NEW h, h = Head(batch[l]), h.do = "stop",
           stop' = [stop EXCEPT ![l] = TRUE],
           UNCHANGED <<queue, status, known, conns, phase, turn, open>>
    PROVE  IInv'
<1>0. TypesOK /\ LoopsOK /\ PhaseOK /\ EndingOK
  BY Parts
<1> USE DEF RunTask
<1>1. h = Head(Exec(l)) /\ Stopping(Exec(l)) /\ Live(l) = {}
  BY <1>0, HeadIs, FirstFunctor DEF LoopsOK, LoopOK
<1>2. stop'[l] /\ \A k \in Loops : k # l => stop'[k] = stop[k]
  BY <1>0 DEF TypesOK
<1>3. /\ Stepped({}, {l}, ServerStop)
      /\ queue' \in [Loops -> Seq(Functors)] /\ batch' \in [Loops -> Seq(Functors)]
  BY <1>0, OnlyRun
<1>4. TypesOK'
  BY <1>0, <1>3 DEF TypesOK
<1>5. FunctorsOK' /\ InOrder' /\ ConnsOK' /\ LoopsOK'
  <2>1. \A c \in 1..serial : Listed(c)' <=> Listed(c)
    BY DEF Listed, Inserting
  <2>2. \A k \in {l} : Harmless(Head(Exec(k)))
    BY <1>1 DEF Harmless
  <2>3. \A k \in Loops : life'[k] = "ended" => stop'[k]
    BY <1>0, <1>2 DEF LoopsOK, LoopOK
  <2>4. \A k \in Loops : stop[k] => stop'[k]
    BY <1>2
  <2>5. \A k \in Loops : stop'[k] => stop[k] \/ Live(k) = {}
    BY <1>1, <1>2
  <2> QED BY <1>3, <1>4, <2>1, <2>2, <2>3, <2>4, <2>5, Stops, Frame
<1>6. \A k \in Loops : Ending(k)' => Ending(k)
  <2>1. \A k \in Loops : stop'[k] => stop[k] \/ Stopping(Exec(k))
    BY <1>1, <1>2
  <2> QED BY <1>3, <2>1, Stops, EndingStep
<1> QED BY <1>0, <1>4, <1>5, <1>6, PhaseStays DEF IInv

LEMMA RunStopInLoop ==
    ASSUME IInv, NEW l \in Loops, RunTask(l), NEW h, h = Head(batch[l]), h.do = "StopInLoop",
           open' = FALSE, phase' = "release",
           UNCHANGED <<stop, queue, status, known, conns, turn>>
    PROVE  IInv'
<1>0. TypesOK /\ LoopsOK /\ PhaseOK /\ EndingOK
  BY Parts
<1> USE DEF RunTask
<1>1. h = Head(Exec(l)) /\ phase = "loop"
  BY HeadIs DEF FunctorOK, Running
<1>2. /\ Stepped({}, {l}, ServerStop)
      /\ queue' \in [Loops -> Seq(Functors)] /\ batch' \in [Loops -> Seq(Functors)]
  BY <1>0, OnlyRun
<1>3. TypesOK'
  BY <1>0, <1>2 DEF TypesOK, Phases
<1>4. FunctorsOK' /\ InOrder' /\ ConnsOK' /\ LoopsOK'
  <2>1. \A c \in 1..serial : Listed(c)' <=> Listed(c)
    BY <1>1 DEF Listed, Inserting
  <2>2. \A k \in {l} : Harmless(Head(Exec(k)))
    BY <1>1 DEF Harmless
  <2>3. \A k \in Loops : life'[k] = "ended" => stop'[k]
    BY <1>0 DEF LoopsOK, LoopOK
  <2> QED BY <1>2, <1>3, <2>1, <2>2, <2>3, Stops, Frame
<1>5. \A k \in Loops : Ending(k)' => Ending(k)
  BY <1>2, Stops, EndingStep
<1>6. PhaseOK'
  BY <1>0, <1>1 DEF PhaseOK, Starting
<1>7. EndingOK'
  <2>1. threads \subseteq Loops
    BY <1>0, Constants DEF TypesOK
  <2>2. conns # {} => open
    BY <1>0, <1>1 DEF EndingOK
  <2>3. \A w \in threads : ~Ending(w)
    BY <1>0, <1>1 DEF EndingOK
  <2> QED BY <1>0, <1>5, <2>1, <2>2, <2>3, Constants DEF EndingOK
<1> QED BY <1>3, <1>4, <1>6, <1>7 DEF IInv

LEMMA RunTaskKeeps ==
    ASSUME IInv, NEW l \in Loops, RunTask(l)
    PROVE  IInv'
<1> SUFFICES ASSUME NEW h, h = Head(batch[l]) PROVE IInv'
  OBVIOUS
<1>1. Run(l, h)
  BY DEF RunTask
<1> QED BY <1>1, RunEstablish, RunRelease, RunErase, RunStop, RunStopInLoop DEF Run

-----------------------------------------------------------------------------
(* The theorems.                                                           *)

LEMMA InitHolds == Init => IInv
<1> SUFFICES ASSUME Init PROVE IInv
  OBVIOUS
<1> USE DEF Init
<1>1. TypesOK
  <2>1. <<>> \in Seq(Functors) /\ 0 \in 0..count /\ 0 \in 0..MaxConns
    BY EmptySeq, Constants
  <2>2. queue \in [Loops -> Seq(Functors)] /\ batch \in [Loops -> Seq(Functors)]
    BY <2>1
  <2> QED BY <2>1, <2>2 DEF TypesOK, Phases, Base
<1>2. ASSUME NEW l \in Loops
      PROVE  /\ Exec(l) = <<>> /\ Len(Exec(l)) = 0 /\ 1..0 = {}
             /\ ~stop[l] /\ life[l] = "none" /\ Live(l) = {}
  <2>1. <<>> \in Seq(Functors)
    BY EmptySeq
  <2>2. Exec(l) = <<>>
    BY <2>1, Joined DEF Exec
  <2> QED BY <2>1, <2>2, EmptySeq DEF Live
<1>3. FunctorsOK /\ InOrder
  BY <1>2 DEF FunctorsOK, In, InOrder, EstablishedFirst
<1>4. ConnsOK
  BY DEF ConnsOK
<1>5. LoopsOK
  BY <1>2 DEF LoopsOK, LoopOK, ReleasedFirst
<1>6. PhaseOK
  BY <1>2, Constants DEF PhaseOK, Starting
<1>7. EndingOK
  BY <1>2, Constants DEF EndingOK, Ending, Stopping
<1> QED BY <1>1, <1>3, <1>4, <1>5, <1>6, <1>7 DEF IInv

LEMMA NextKeeps == IInv /\ [Next]_vars => IInv'
<1> SUFFICES ASSUME IInv, [Next]_vars PROVE IInv'
  OBVIOUS
<1>1. ASSUME ServerStep PROVE IInv'
  <2>1. CASE Start
    BY <2>1, StartKeeps
  <2>2. CASE NewConnection
    BY <2>2, NewConnectionKeeps
  <2>3. CASE \E c \in Conns : Disconnect(c)
    BY <2>3, DisconnectKeeps
  <2>4. CASE Stop
    BY <2>4, StopKeeps
  <2>5. CASE BaseStep
    BY <2>5, NewLoopThreadKeeps, GetLoopKeeps, StartBaseLoopKeeps, InsertConnectionKeeps,
       ReleaseConnectionKeeps, StopPoolKeeps, StopThreadKeeps, JoinThreadKeeps, StopBaseLoopKeeps
       DEF BaseStep
  <2>6. CASE \E w \in Workers : Entry(w)
    BY <2>6, EntryKeeps
  <2>7. CASE \E l \in Loops : LoopStep(l)
    BY <2>7, SwapTasksKeeps, RunTaskKeeps, LoopEndsKeeps DEF LoopStep
  <2> QED BY <1>1, <2>1, <2>2, <2>3, <2>4, <2>5, <2>6, <2>7 DEF ServerStep
<1>2. ASSUME UNCHANGED vars PROVE IInv'
  <2> USE DEF vars, poolVars, loopVars, connVars
  <2>1. TypesOK /\ LoopsOK /\ PhaseOK /\ EndingOK
    BY Parts
  <2>2. TypesOK'
    BY <1>2, <2>1 DEF TypesOK
  <2>3. /\ FunctorsOK' /\ InOrder' /\ ConnsOK' /\ LoopsOK'
        /\ \A l \in Loops : Ending(l)' => Ending(l)
    BY <1>2, <2>1, <2>2, NothingQueued, Quiet DEF LoopsOK, LoopOK
  <2> QED BY <1>2, <2>1, <2>2, <2>3, PhaseStays DEF IInv
<1> QED BY <1>1, <1>2, UseConnectionKeeps DEF Next, Going

\* The invariant: what each loop has still to run is in the order that brings
\* every connection from Establish to its erasure, and ends the loop after it.
THEOREM Invariance == Spec => []IInv
<1> QED BY InitHolds, NextKeeps, PTL DEF Spec

LEMMA WaitsIs ==
    ASSUME TypesOK, NEW l \in Loops, NEW do, NEW c, In(Functor(do, c), Exec(l))
    PROVE  HasFunctor(l, do, c)
<1> DEFINE b == batch[l]
           q == queue[l]
<1>1. b \in Seq(Functors) /\ q \in Seq(Functors)
  BY DEF TypesOK
<1> HIDE DEF b, q
<1>2. /\ Len(b) \in Nat /\ Len(q) \in Nat
      /\ b \o q \in Seq(Functors) /\ q \o b \in Seq(Functors)
      /\ Len(b \o q) = Len(b) + Len(q) /\ Len(q \o b) = Len(q) + Len(b)
      /\ \A i \in 1..Len(b) + Len(q) : (b \o q)[i] = IF i <= Len(b) THEN b[i] ELSE q[i - Len(b)]
      /\ \A i \in 1..Len(q) + Len(b) : (q \o b)[i] = IF i <= Len(q) THEN q[i] ELSE b[i - Len(q)]
  BY <1>1, ConcatProperties, LenProperties
<1>3. PICK i \in 1..Len(b \o q) : (b \o q)[i] = Functor(do, c)
  BY DEF In, Exec, b, q
<1>4. \E j \in 1..Len(q \o b) : (q \o b)[j] = Functor(do, c)
  <2>1. CASE i <= Len(b)
    <3>1. i + Len(q) \in 1..Len(q) + Len(b) /\ ~(i + Len(q) <= Len(q)) /\ (i + Len(q)) - Len(q) = i
      BY <1>2, <2>1
    <3>2. (q \o b)[i + Len(q)] = b[i] /\ (b \o q)[i] = b[i]
      BY <1>2, <2>1, <3>1
    <3> QED BY <1>2, <1>3, <3>1, <3>2
  <2>2. CASE ~(i <= Len(b))
    <3>1. i - Len(b) \in 1..Len(q) + Len(b) /\ i - Len(b) <= Len(q)
      BY <1>2, <2>2
    <3>2. (q \o b)[i - Len(b)] = q[i - Len(b)] /\ (b \o q)[i] = q[i - Len(b)]
      BY <1>2, <2>2, <3>1
    <3> QED BY <1>2, <1>3, <3>1, <3>2
  <2> QED BY <2>1, <2>2
<1>5. DOMAIN (q \o b) = 1..Len(q \o b)
  BY <1>2, LenProperties
<1> QED BY <1>4, <1>5 DEF HasFunctor, Pending, b, q

LEMMA TablesFollow == IInv => TablesExact
<1> SUFFICES ASSUME IInv PROVE TablesExact
  OBVIOUS
<1>0. TypesOK /\ ConnsOK
  BY Parts
<1>1. TypeOK
  BY <1>0 DEF TypesOK, TypeOK
<1>2. ASSUME NEW c \in 1..serial
      PROVE  IF status[c] = "DISCONNECTED"
             THEN c \in conns => HasFunctor(Base, "erase", c)
             ELSE c \in conns \/ Inserting(c) \/ HasFunctor(loop[c], "Release", c)
  BY <1>0, Accepted, WaitsIs DEF ConnsOK, ConnOK, Listed
<1> QED BY <1>0, <1>1, <1>2 DEF TablesExact, ConnsOK

\* TcpServer's and MuduoServer's tables agree with the connections whatever the
\* workers do between Establish and the insertion (TcpServer::NewConnection).
THEOREM TablesAgree == Spec => []TablesExact
<1> QED BY Invariance, TablesFollow, PTL

LEMMA CleanFollows == IInv => StopClean
<1> SUFFICES ASSUME IInv, phase = "done" PROVE StopClean
  BY DEF StopClean
<1>0. TypesOK /\ ConnsOK /\ LoopsOK /\ PhaseOK /\ EndingOK
  BY Parts
<1>1. /\ life[Base] = "ended" /\ ~open /\ Base \in Loops
      /\ \A w \in 1..count : w \in Loops
  BY <1>0, Constants DEF PhaseOK, Starting, TypesOK
<1>2. conns = {} /\ threads = {}
  BY <1>0, <1>1 DEF EndingOK, Ending, LoopsOK, LoopOK
<1>3. \A w \in 1..count : life[w] = "ended"
  BY <1>0, <1>2 DEF PhaseOK, Starting
<1>4. ASSUME NEW c \in 1..serial PROVE status[c] = "DISCONNECTED"
  <2>1. loop[c] \in 0..count /\ c \in Conns
    BY <1>0, Accepted DEF TypesOK
  <2>2. loop[c] = Base \/ loop[c] \in 1..count
    BY <1>0, <2>1, Constants DEF TypesOK
  <2>3. loop[c] \in Loops /\ life[loop[c]] = "ended"
    BY <1>1, <1>3, <2>2
  <2>4. Live(loop[c]) = {}
    BY <1>0, <2>3 DEF LoopsOK, LoopOK
  <2> QED BY <2>4 DEF Live
<1>5. known = {}
  <2> SUFFICES ASSUME NEW c \in known PROVE FALSE
    OBVIOUS
  <2>1. c \in 1..serial /\ status[c] = "CONNECTED"
    BY <1>0 DEF TypesOK, ConnsOK
  <2> QED BY <1>4, <2>1
<1> QED BY <1>2, <1>3, <1>4, <1>5 DEF StopClean

\* When TcpServer::Start returns, every connection was closed through its
\* callbacks, both tables are empty and every worker has been joined.
THEOREM StopIsClean == Spec => []StopClean
<1> QED BY Invariance, CleanFollows, PTL

-----------------------------------------------------------------------------
(* What a worker's loop is given is run.                                   *)

\* Behind the functor that stops a worker there are only other threads' uses.
Uses(s) == \A i \in 1..Len(s) : s[i].do = "Use"
UsesAfter(s) == \A i, j \in 1..Len(s) : s[i].do = "stop" /\ i < j => s[j].do = "Use"

StopLast ==
    \A w \in Workers : UsesAfter(Exec(w)) /\ (stop[w] => Uses(Exec(w)))

LEMMA UsesAdded ==
    ASSUME NEW s \in Seq(Functors), NEW f \in Functors
    PROVE  /\ Uses(s) /\ f.do = "Use" => Uses(Append(s, f))
           /\ UsesAfter(s) /\ (f.do = "Use" \/ ~Stopping(s)) => UsesAfter(Append(s, f))
<1> DEFINE t == Append(s, f)
<1>1. /\ Len(t) = Len(s) + 1 /\ Len(s) \in Nat
      /\ \A i \in 1..Len(s) : t[i] = s[i]
      /\ t[Len(s) + 1] = f
  BY AppendProperties, LenProperties
<1> HIDE DEF t
<1>2. \A i \in 1..Len(t) : i \in 1..Len(s) \/ i = Len(s) + 1
  BY <1>1
<1>3. Uses(s) /\ f.do = "Use" => Uses(t)
  BY <1>1, <1>2 DEF Uses
<1>4. ASSUME UsesAfter(s), f.do = "Use" \/ ~Stopping(s) PROVE UsesAfter(t)
  <2> SUFFICES ASSUME NEW i \in 1..Len(t), NEW j \in 1..Len(t), t[i].do = "stop", i < j
               PROVE  t[j].do = "Use"
    BY DEF UsesAfter
  <2>1. i \in 1..Len(s)
    BY <1>1, <1>2
  <2>2. CASE j \in 1..Len(s)
    BY <1>1, <1>4, <2>1, <2>2 DEF UsesAfter
  <2>3. CASE j = Len(s) + 1
    BY <1>1, <1>4, <2>1, <2>3 DEF Stopping
  <2> QED BY <1>2, <2>2, <2>3
<1> QED BY <1>3, <1>4 DEF t

LEMMA UsesLeft ==
    ASSUME NEW s \in Seq(Functors), s # <<>>
    PROVE  /\ Uses(s) => Uses(Tail(s))
           /\ UsesAfter(s) => UsesAfter(Tail(s))
           /\ UsesAfter(s) /\ Head(s).do = "stop" => Uses(Tail(s))
<1> DEFINE t == Tail(s)
<1>1. /\ Len(t) = Len(s) - 1 /\ Len(s) \in Nat \ {0}
      /\ \A i \in 1..Len(t) : t[i] = s[i + 1]
      /\ Head(s) = s[1]
  BY HeadTailProperties, EmptySeq
<1> HIDE DEF t
<1>2. 1 \in 1..Len(s) /\ \A i \in 1..Len(t) : i + 1 \in 1..Len(s) /\ 1 < i + 1
  BY <1>1
<1>3. Uses(s) => Uses(t)
  BY <1>1, <1>2 DEF Uses
<1>4. ASSUME UsesAfter(s), Head(s).do = "stop" PROVE Uses(t)
  BY <1>1, <1>2, <1>4 DEF UsesAfter, Uses
<1>5. ASSUME UsesAfter(s) PROVE UsesAfter(t)
  <2> SUFFICES ASSUME NEW i \in 1..Len(t), NEW j \in 1..Len(t), t[i].do = "stop", i < j
               PROVE  t[j].do = "Use"
    BY DEF UsesAfter
  <2>1. i + 1 < j + 1
    OBVIOUS
  <2> QED BY <1>1, <1>2, <1>5, <2>1 DEF UsesAfter
<1> QED BY <1>3, <1>4, <1>5 DEF t

\* A step that gives one loop one functor.
LEMMA LastQueued ==
    ASSUME TypesOK, StopLast, NEW l \in Loops, NEW f \in Functors, queue' = Queued(l, f),
           UNCHANGED <<batch, stop>>, l = Base \/ f.do = "Use" \/ ~Ending(l)
    PROVE  StopLast'
<1> SUFFICES ASSUME NEW w \in Workers
             PROVE  UsesAfter(Exec(w)') /\ (stop'[w] => Uses(Exec(w)'))
  BY DEF StopLast
<1>1. w \in Loops /\ w # Base /\ Exec(w) \in Seq(Functors)
      /\ UsesAfter(Exec(w)) /\ (stop[w] => Uses(Exec(w)))
  BY Constants, ExecTypes DEF StopLast
<1>2. Exec(w)' = IF w = l THEN Append(Exec(w), f) ELSE Exec(w)
  BY <1>1, OnlyQueued DEF Stepped
<1>3. CASE w = l
  BY <1>1, <1>2, <1>3, UsesAdded DEF Ending
<1>4. CASE w # l
  BY <1>1, <1>2, <1>4
<1> QED BY <1>3, <1>4

\* A step that gives none to a worker, and may take one off loop l.
LEMMA LastTaken ==
    ASSUME TypesOK, StopLast, NEW l \in Loops,
           \A w \in Workers : Exec(w)' = Exec(w) \/ (w = l /\ Exec(w) # <<>> /\ Exec(w)' = Tail(Exec(w))),
           \A w \in Workers : stop'[w] =>
                stop[w] \/ (w = l /\ Exec(l) # <<>> /\ Exec(l)' = Tail(Exec(l)) /\ Head(Exec(l)).do = "stop")
    PROVE  StopLast'
<1> SUFFICES ASSUME NEW w \in Workers
             PROVE  UsesAfter(Exec(w)') /\ (stop'[w] => Uses(Exec(w)'))
  BY DEF StopLast
<1>1. w \in Loops /\ Exec(w) \in Seq(Functors)
      /\ UsesAfter(Exec(w)) /\ (stop[w] => Uses(Exec(w)))
  BY Constants, ExecTypes DEF StopLast
<1> QED BY <1>1, UsesLeft

LEMMA LastSame ==
    ASSUME TypesOK, StopLast, UNCHANGED <<queue, batch, stop>>
    PROVE  StopLast'
BY DEF StopLast, Exec

LEMMA ServerLast == IInv /\ StopLast /\ ServerStep => StopLast'
<1> SUFFICES ASSUME IInv, StopLast, ServerStep PROVE StopLast'
  OBVIOUS
<1>0. TypesOK /\ EndingOK /\ Base \in Loops /\ (\A w \in Workers : w \in Loops)
      /\ \A w \in Workers : w # Base
  BY Parts, Constants
<1>1. CASE UNCHANGED <<queue, batch, stop>>
  BY <1>0, <1>1, LastSame
<1>2. ASSUME NEW f \in Functors, queue' = Queued(Base, f), UNCHANGED <<batch, stop>> PROVE StopLast'
  BY <1>0, <1>2, LastQueued
<1>3. CASE NewConnection
  <2>1. CASE NextLoop = Base
    BY <1>1, <1>3, <2>1 DEF NewConnection
  <2>2. CASE NextLoop # Base
    <3>1. open /\ queue' = Queued(NextLoop, Functor("Establish", serial')) /\ UNCHANGED <<batch, stop>>
      BY <1>3, <2>2 DEF NewConnection
    <3>2. NextLoop \in Loops /\ serial' \in 0..MaxConns
      <4>1. NextLoop \in Loops
        BY <1>0, NextLoopIs
      <4>2. serial \in 0..MaxConns /\ MaxConns \in Nat /\ serial < MaxConns /\ serial' = serial + 1
        BY <1>0, <1>3, Constants DEF NewConnection, TypesOK
      <4> QED BY <4>1, <4>2
    <3>3. Functor("Establish", serial') \in Functors /\ ~Ending(NextLoop)
      BY <1>0, <3>1, <3>2, FunctorIs DEF EndingOK
    <3> QED BY <1>0, <3>1, <3>2, <3>3, LastQueued
  <2> QED BY <2>1, <2>2
<1>4. ASSUME NEW c \in Conns, Disconnect(c) PROVE StopLast'
  <2>1. Functor("erase", c) \in Functors
    BY Constants, FunctorIs
  <2>2. UNCHANGED queue \/ queue' = Queued(Base, Functor("erase", c))
    BY <1>4 DEF Disconnect, ReleaseInLoop, Unlisted, Queued
  <2>3. UNCHANGED <<batch, stop>>
    BY <1>4 DEF Disconnect
  <2> QED BY <1>1, <1>2, <2>1, <2>2, <2>3
<1>5. ASSUME NEW c \in Conns, ReleaseConnection(c) PROVE StopLast'
  <2>1. /\ loop[c] \in Loops /\ c \in conns
        /\ queue' = Queued(loop[c], Functor("Release", c)) /\ UNCHANGED <<batch, stop>>
    BY <1>0, <1>5, ExecTypes DEF ReleaseConnection
  <2>2. Functor("Release", c) \in Functors /\ ~Ending(loop[c])
    BY <1>0, <2>1, Constants, FunctorIs DEF EndingOK
  <2> QED BY <1>0, <2>1, <2>2, LastQueued
<1>6. ASSUME NEW w \in Workers, StopThread(w) PROVE StopLast'
  <2>1. w \in threads /\ phase = "stop" /\ UNCHANGED <<batch, stop>>
        /\ (UNCHANGED queue \/ queue' = Queued(w, LoopStop))
    BY <1>6 DEF StopThread
  <2>2. w \in Loops /\ ~Ending(w) /\ LoopStop \in Functors
    BY <1>0, <2>1, Stops DEF EndingOK
  <2> QED BY <1>0, <1>1, <2>1, <2>2, LastQueued
<1>7. ASSUME NEW l \in Loops, SwapTasks(l) PROVE StopLast'
  <2>1. batch[l] = <<>> /\ batch' = [batch EXCEPT ![l] = queue[l]]
        /\ queue' = [queue EXCEPT ![l] = <<>>] /\ UNCHANGED stop
    BY <1>7 DEF SwapTasks
  <2>2. Stepped({}, {}, ServerStop)
    BY <1>0, <2>1, OnlySwapped
  <2>3. \A w \in Workers : Exec(w)' = Exec(w)
    BY <1>0, <2>2 DEF Stepped
  <2> QED BY <1>0, <2>1, <2>3, LastTaken
<1>8. ASSUME NEW l \in Loops, RunTask(l) PROVE StopLast'
  <2> SUFFICES ASSUME NEW h, h = Head(batch[l]) PROVE StopLast'
    OBVIOUS
  <2>1. /\ batch[l] # <<>> /\ batch' = [batch EXCEPT ![l] = Tail(@)] /\ Run(l, h)
        /\ h = Head(Exec(l)) /\ Exec(l) # <<>>
    BY <1>8, HeadIs DEF RunTask
  <2>2. \A w \in Workers : queue'[w] = queue[w]
    <3>1. queue \in [Loops -> Seq(Functors)]
      BY <1>0 DEF TypesOK
    <3> QED BY <1>0, <2>1, <3>1 DEF Run, ReleaseInLoop, Unlisted
  <2>3. \A w \in Workers : Exec(w)' = IF w = l THEN Tail(Exec(w)) ELSE Exec(w)
    <3>1. ASSUME NEW w \in Workers PROVE Exec(w)' = batch'[w] \o queue[w]
      BY <2>2 DEF Exec
    <3>2. /\ Tail(batch[l]) \o queue[l] = Tail(Exec(l)) /\ batch'[l] = Tail(batch[l])
          /\ \A k \in Loops : k # l => batch'[k] = batch[k]
      BY <1>0, <2>1, FirstRun
    <3> QED BY <1>0, <3>1, <3>2 DEF Exec
  <2>4. \A w \in Workers : stop'[w] => stop[w] \/ (w = l /\ h.do = "stop")
    <3>1. UNCHANGED stop \/ (h.do = "stop" /\ stop' = [stop EXCEPT ![l] = TRUE])
      BY <2>1 DEF Run
    <3>2. stop \in [Loops -> BOOLEAN]
      BY <1>0 DEF TypesOK
    <3> QED BY <1>0, <3>1, <3>2
  <2>5. \A w \in Workers :
            Exec(w)' = Exec(w) \/ (w = l /\ Exec(w) # <<>> /\ Exec(w)' = Tail(Exec(w)))
    BY <2>1, <2>3
  <2>6. \A w \in Workers : stop'[w] =>
            stop[w] \/ (w = l /\ Exec(l) # <<>> /\ Exec(l)' = Tail(Exec(l)) /\ Head(Exec(l)).do = "stop")
    BY <2>1, <2>3, <2>4
  <2> QED BY <1>0, <2>5, <2>6, LastTaken
<1>9. CASE Start \/ NewLoopThread \/ GetLoop \/ StartBaseLoop \/ InsertConnection \/ StopPool
           \/ JoinThread \/ (\E w \in Workers : Entry(w)) \/ (\E l \in Loops : LoopEnds(l))
  BY <1>1, <1>9 DEF Start, NewLoopThread, GetLoop, StartBaseLoop, InsertConnection, StopPool,
     JoinThread, Entry, LoopEnds, loopVars
<1>10. CASE Stop \/ StopBaseLoop
  BY <1>2, <1>10, Stops DEF Stop, StopBaseLoop
<1> QED BY <1>3, <1>4, <1>5, <1>6, <1>7, <1>8, <1>9, <1>10 DEF ServerStep, BaseStep, LoopStep

LEMMA NextLast == IInv /\ StopLast /\ [Next]_vars => StopLast'
<1> SUFFICES ASSUME IInv, StopLast, [Next]_vars PROVE StopLast'
  OBVIOUS
<1>0. TypesOK
  BY Parts
<1>1. ASSUME NEW c \in Conns, UseConnection(c) PROVE StopLast'
  <2>1. loop[c] \in Loops /\ Functor("Use", c) \in Functors /\ Functor("Use", c).do = "Use"
    <3>1. loop[c] \in Loops
      BY <1>0, Constants, ExecTypes
    <3>2. c \in 0..MaxConns
      BY Constants
    <3> QED BY <3>1, <3>2, FunctorIs
  <2>2. queue' = Queued(loop[c], Functor("Use", c)) /\ UNCHANGED <<batch, stop>>
    BY <1>1 DEF UseConnection
  <2> QED BY <1>0, <2>1, <2>2, LastQueued
<1>2. CASE UNCHANGED vars
  BY <1>0, <1>2, LastSame DEF vars, loopVars
<1> QED BY <1>1, <1>2, ServerLast DEF Next, Going

LEMMA InitLast == Init => StopLast
<1> SUFFICES ASSUME Init, NEW w \in Workers
             PROVE  UsesAfter(Exec(w)) /\ (stop[w] => Uses(Exec(w)))
  BY DEF StopLast
<1>1. w \in Loops /\ <<>> \in Seq(Functors)
  BY Constants, EmptySeq
<1>2. Exec(w) = <<>> /\ ~stop[w]
  BY <1>1, Joined DEF Exec, Init
<1>3. Len(<<>>) = 0
  BY EmptySeq
<1> QED BY <1>2, <1>3 DEF UsesAfter

LEMMA NothingLeftFollows == IInv /\ StopLast => NothingLeft
<1> SUFFICES ASSUME IInv, StopLast, NEW w \in Workers, life[w] = "ended", NEW i \in DOMAIN queue[w]
             PROVE  queue[w][i].do = "Use"
  BY DEF NothingLeft
<1>1. TypesOK /\ LoopsOK /\ w \in Loops
  BY Parts, Constants
<1>2. queue[w] \in Seq(Functors) /\ batch[w] \in Seq(Functors)
  BY <1>1 DEF TypesOK
<1>3. Uses(batch[w] \o queue[w])
  BY <1>1 DEF LoopsOK, LoopOK, StopLast, Exec
<1>4. /\ i \in 1..Len(queue[w]) /\ Len(batch[w]) \in Nat /\ Len(queue[w]) \in Nat
      /\ Len(batch[w] \o queue[w]) = Len(batch[w]) + Len(queue[w])
      /\ \A j \in 1..Len(batch[w]) + Len(queue[w]) :
            (batch[w] \o queue[w])[j] = IF j <= Len(batch[w]) THEN batch[w][j] ELSE queue[w][j - Len(batch[w])]
  BY <1>2, ConcatProperties, LenProperties
<1>5. /\ Len(batch[w]) + i \in 1..Len(batch[w]) + Len(queue[w])
      /\ ~(Len(batch[w]) + i <= Len(batch[w])) /\ (Len(batch[w]) + i) - Len(batch[w]) = i
  <2>1. ASSUME NEW a \in Nat, NEW b \in Nat, NEW j \in 1..b
        PROVE  a + j \in 1..a + b /\ ~(a + j <= a) /\ (a + j) - a = j
    OBVIOUS
  <2> QED BY <1>4, <2>1
<1>6. (batch[w] \o queue[w])[Len(batch[w]) + i] = queue[w][i]
  BY <1>4, <1>5
<1> QED BY <1>3, <1>4, <1>5, <1>6 DEF Uses

\* What the server gives a worker's loop is run before the worker's thread ends:
\* NewConnection, RemoveConnection and StopInLoop never post behind a stop.
THEOREM QueuedIsRun == Spec => []NothingLeft
<1>1. Spec => []StopLast
  BY Invariance, InitLast, NextLast, PTL DEF Spec
<1> QED BY <1>1, Invariance, NothingLeftFollows, PTL

=============================================================================

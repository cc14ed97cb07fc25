--------------------------- MODULE ConnectionProofs ---------------------------
(***************************************************************************)
(* What a Connection keeps whatever its callbacks, other threads, timers   *)
(* and the other end do: it is established and closed at most once, it     *)
(* writes what was sent before it shuts down, and it writes each thread's  *)
(* bytes in that thread's order.  The handlers are compositions of         *)
(* functions on the connection's fields, and so are the proofs: each       *)
(* function keeps FieldsOK.  The order of the bytes needs one thing more,  *)
(* that the sends still queued go on where the bytes already taken over    *)
(* end.                                                                    *)
(*                                                                         *)
(* Then what is read from a connection, in Framing and in Http: the        *)
(* Buffer is a window on the stream, the next byte begins a message, and   *)
(* what was handed over or answered is what lies before it.  FramingInv    *)
(* and HttpInv are those invariants.                                       *)
(***************************************************************************)
EXTENDS Connection, Http, TLAPS, SequenceTheorems

-----------------------------------------------------------------------------
(* The inductive invariant.                                                *)

Tasks == [op : Operations \ {"send"}] \cup [op : {"send"}, byte : Bytes]

Fields ==
    [status : Statuses, polled : BOOLEAN, events : SUBSET {"in", "out"}, in : 0..MaxArrive,
     out : Seq(Bytes), inactive : BOOLEAN, timer : {NoTimer} \cup 1..Timeout,
     tasks : Seq(Tasks), connects : Nat, closes : Nat, cut : BOOLEAN]

TypesOK ==
    /\ conn \in Fields
    /\ setup \in {"enable", "establish", "connect", "done"}
    /\ peer \in {"none", "up", "fin", "rst"}
    /\ arrived \in Nat /\ got \in 0..MaxArrive /\ conn.in + arrived <= got
    /\ due \in 0..Len(conn.tasks)
    /\ written \in Seq(Bytes)
    /\ sends \in [Senders -> 0..MaxSends]

\* What holds of the fields between any two of the functions.
FieldsOK(k) ==
    /\ k.connects <= 1
    /\ k.status = "CONNECTING" => k.connects = 0
    /\ k.closes = IF k.status = "DISCONNECTED" THEN 1 ELSE 0
    /\ k.polled => k.status # "DISCONNECTED"
    /\ k.status # "DISCONNECTED" =>
        /\ k.out # <<>> <=> ("out" \in k.events /\ k.polled)
        /\ "out" \in k.events => k.polled
    /\ k.status = "DISCONNECTING" => k.out # <<>>
    /\ k.status = "DISCONNECTED" /\ ~k.cut => k.out = <<>>

\* b is among the bytes s, or will be appended by one of the tasks t.
Has(s, b) == \E i \in 1..Len(s) : s[i] = b
ToSend(t, b) == \E i \in 1..Len(t) : t[i].op = "send" /\ t[i].byte = b

\* Bytes come from the numbers n counts, and the last of each thread is there.
Counted(s, t, n) ==
    /\ \A i \in 1..Len(s) : s[i][2] <= n[s[i][1]]
    /\ n[Loop] > 0 => Has(s, <<Loop, n[Loop]>>)
    /\ \A u \in Users : n[u] > 0 => Has(s, <<u, n[u]>>) \/ ToSend(t, <<u, n[u]>>)

\* The byte b goes on where s and the tasks before the i-th end.
GoesOn(s, t, i, b) ==
    /\ \A j \in 1..Len(s) : s[j][1] = b[1] => s[j][2] < b[2]
    /\ \A j \in 1..i - 1 : t[j].op = "send" /\ t[j].byte[1] = b[1] => t[j].byte[2] < b[2]
    /\ b[2] > 1 =>
        \/ Has(s, <<b[1], b[2] - 1>>)
        \/ \E j \in 1..i - 1 : t[j].op = "send" /\ t[j].byte = <<b[1], b[2] - 1>>

Coming(s, t, n) ==
    /\ Counted(s, t, n)
    /\ \A i \in 1..Len(t) : t[i].op = "send" =>
        /\ t[i].byte[1] \in Users /\ t[i].byte[2] <= n[t[i].byte[1]]
        /\ GoesOn(s, t, i, t[i].byte)

Ordered(w, k, n) ==
    /\ InSendOrder(w \o k.out)
    /\ k.status # "DISCONNECTED" => Coming(w \o k.out, k.tasks, n)

IInv == TypesOK /\ FieldsOK(conn) /\ Ordered(written, conn, sends)

-----------------------------------------------------------------------------
(* Lemmas on the functions of the fields.                                  *)

LEMMA Constants ==
    /\ Loop \notin Users /\ MaxSends \in Nat /\ MaxArrive \in Nat
    /\ Timeout \in Nat /\ Timeout > 0 /\ NoTimer = 0
    /\ Loop \in Senders /\ \A u \in Users : u \in Senders
BY ConnectionAssumption DEF Senders, NoTimer

LEMMA FieldTypes ==
    ASSUME NEW k \in Fields
    PROVE  /\ k.status \in Statuses /\ k.polled \in BOOLEAN /\ k.events \in SUBSET {"in", "out"}
           /\ k.in \in 0..MaxArrive /\ k.in \in Nat /\ k.out \in Seq(Bytes) /\ k.inactive \in BOOLEAN
           /\ k.timer \in {NoTimer} \cup 1..Timeout /\ k.tasks \in Seq(Tasks)
           /\ k.connects \in Nat /\ k.closes \in Nat /\ k.cut \in BOOLEAN
<1>1. k.in \in Nat
  BY Constants DEF Fields
<1> QED BY <1>1 DEF Fields

\* r is k with other bookkeeping: what was sent and what is to do stay.
Alike(k, r) ==
    /\ r \in Fields /\ FieldsOK(r)
    /\ r.in = k.in /\ r.out = k.out /\ r.tasks = k.tasks
    /\ k.status = "DISCONNECTED" => r.status = "DISCONNECTED"

LEMMA CancelledIs ==
    ASSUME NEW k \in Fields
    PROVE  /\ Cancelled(k) \in Fields
           /\ Cancelled(k).status = k.status /\ Cancelled(k).polled = k.polled
           /\ Cancelled(k).events = k.events /\ Cancelled(k).in = k.in /\ Cancelled(k).out = k.out
           /\ Cancelled(k).tasks = k.tasks /\ Cancelled(k).connects = k.connects
           /\ Cancelled(k).closes = k.closes /\ Cancelled(k).cut = k.cut
BY DEF Cancelled, Fields

LEMMA CancelledAlike ==
    ASSUME NEW k \in Fields, FieldsOK(k)
    PROVE  Alike(k, Cancelled(k))
BY CancelledIs DEF Alike, FieldsOK

LEMMA RefreshedAlike ==
    ASSUME NEW k \in Fields, FieldsOK(k)
    PROVE  /\ Alike(k, Refreshed(k)) /\ Refreshed(k).status = k.status
           /\ Refreshed(k).polled = k.polled /\ Refreshed(k).events = k.events
<1>1. Timeout \in {NoTimer} \cup 1..Timeout
  BY Constants
<1>2. CASE k.inactive /\ k.timer # NoTimer
  <2>1. Refreshed(k) = [k EXCEPT !.timer = Timeout]
    BY <1>2 DEF Refreshed
  <2>2. Refreshed(k) \in Fields
    BY <1>1, <2>1 DEF Fields
  <2>3. /\ Refreshed(k).status = k.status /\ Refreshed(k).polled = k.polled
        /\ Refreshed(k).events = k.events /\ Refreshed(k).in = k.in /\ Refreshed(k).out = k.out
        /\ Refreshed(k).tasks = k.tasks /\ Refreshed(k).connects = k.connects
        /\ Refreshed(k).closes = k.closes /\ Refreshed(k).cut = k.cut
    BY <2>1 DEF Fields
  <2> QED BY <2>2, <2>3 DEF Alike, FieldsOK
<1>3. CASE ~(k.inactive /\ k.timer # NoTimer)
  BY <1>3 DEF Refreshed, Alike
<1> QED BY <1>2, <1>3

LEMMA EnabledAlike ==
    ASSUME NEW k \in Fields, FieldsOK(k)
    PROVE  Alike(k, Enabled(k))
<1>1. Timeout \in {NoTimer} \cup 1..Timeout
  BY Constants
<1>2. Enabled(k) \in Fields
  BY <1>1 DEF Enabled, Fields
<1> QED BY <1>2 DEF Alike, Enabled, FieldsOK, Fields

\* A connection may be closed when nothing is left to write, or is cut off.
LEMMA ReleasedIs ==
    ASSUME NEW k \in Fields, FieldsOK(k)
    PROVE  /\ Released(k) \in Fields /\ Released(k).status = "DISCONNECTED"
           /\ Released(k).in = k.in /\ Released(k).out = k.out /\ Released(k).tasks = k.tasks
           /\ Released(k).cut = k.cut /\ Released(k).connects = k.connects
           /\ Released(k).closes = 1 /\ ~Released(k).polled
<1>1. CASE k.status = "DISCONNECTED"
  BY <1>1, FieldTypes DEF Released, FieldsOK
<1>2. CASE k.status # "DISCONNECTED"
  <2> DEFINE c == Cancelled(k)
  <2>1. /\ c \in Fields /\ c.status = k.status /\ c.in = k.in /\ c.out = k.out
        /\ c.tasks = k.tasks /\ c.connects = k.connects /\ c.closes = 0 /\ c.cut = k.cut
    BY <1>2, CancelledIs DEF FieldsOK
  <2>2. Released(k) = [c EXCEPT !.status = "DISCONNECTED", !.polled = FALSE, !.closes = @ + 1]
    BY <1>2 DEF Released, Gone
  <2> HIDE DEF c
  <2>3. c.closes + 1 = 1 /\ 1 \in Nat /\ "DISCONNECTED" \in Statuses
    BY <2>1 DEF Statuses
  <2>4. Released(k) \in Fields
    BY <2>1, <2>2, <2>3 DEF Fields
  <2> QED BY <2>1, <2>2, <2>3, <2>4 DEF Fields
<1> QED BY <1>1, <1>2

LEMMA ReleasedAlike ==
    ASSUME NEW k \in Fields, FieldsOK(k), k.out = <<>> \/ k.status = "DISCONNECTED"
    PROVE  Alike(k, Released(k)) /\ Released(k).status = "DISCONNECTED"
BY ReleasedIs DEF Alike, FieldsOK

LEMMA CutOffAlike ==
    ASSUME NEW k \in Fields, FieldsOK(k)
    PROVE  Alike(k, CutOff(k)) /\ CutOff(k).status = "DISCONNECTED"
<1> DEFINE r == Released(k)
           b == k.status # "DISCONNECTED"
<1>1. /\ r \in Fields /\ r.status = "DISCONNECTED"
      /\ r.in = k.in /\ r.out = k.out /\ r.tasks = k.tasks
      /\ r.cut = k.cut /\ r.connects = k.connects
      /\ r.closes = 1 /\ ~r.polled
  BY ReleasedIs
<1>2. CutOff(k) = [r EXCEPT !.cut = @ \/ b]
  BY DEF CutOff
<1> HIDE DEF r
<1>3. CutOff(k) \in Fields
  BY <1>1, <1>2 DEF Fields
<1>4. /\ CutOff(k).status = "DISCONNECTED" /\ CutOff(k).in = k.in /\ CutOff(k).out = k.out
      /\ CutOff(k).tasks = k.tasks /\ CutOff(k).connects = k.connects /\ CutOff(k).closes = 1
      /\ ~CutOff(k).polled /\ CutOff(k).cut = (k.cut \/ b)
  BY <1>1, <1>2 DEF Fields
<1> QED BY <1>3, <1>4 DEF Alike, FieldsOK

LEMMA ShutDownAlike ==
    ASSUME NEW k \in Fields, FieldsOK(k)
    PROVE  Alike(k, ShutDown(k))
<1>1. CASE k.status \in {"DISCONNECTING", "DISCONNECTED"}
  BY <1>1 DEF ShutDown, Alike
<1>2. CASE k.status \notin {"DISCONNECTING", "DISCONNECTED"} /\ k.out = <<>>
  BY <1>2, ReleasedAlike DEF ShutDown
<1>3. CASE k.status \notin {"DISCONNECTING", "DISCONNECTED"} /\ k.out # <<>>
  <2>1. ShutDown(k) = [k EXCEPT !.status = "DISCONNECTING", !.events = @ \cup {"out"}, !.polled = TRUE]
    BY <1>3 DEF ShutDown, Listening, Fields
  <2>2. "DISCONNECTING" \in Statuses /\ k.events \cup {"out"} \in SUBSET {"in", "out"}
    BY FieldTypes DEF Statuses
  <2>3. ShutDown(k) \in Fields
    BY <2>1, <2>2 DEF Fields
  <2> QED BY <1>3, <2>1, <2>3 DEF Alike, FieldsOK, Fields
<1> QED BY <1>1, <1>2, <1>3

LEMMA QueuedIs ==
    ASSUME NEW k \in Fields, FieldsOK(k), NEW t \in Tasks
    PROVE  /\ Queued(k, t) \in Fields /\ FieldsOK(Queued(k, t))
           /\ Queued(k, t).in = k.in /\ Queued(k, t).out = k.out /\ Queued(k, t).status = k.status
           /\ Queued(k, t).tasks = Append(k.tasks, t)
<1>1. Append(k.tasks, t) \in Seq(Tasks)
  BY FieldTypes, AppendProperties
<1>2. Queued(k, t) \in Fields
  BY <1>1 DEF Queued, Fields
<1> QED BY <1>2 DEF Queued, FieldsOK, Fields

LEMMA SentIs ==
    ASSUME NEW k \in Fields, FieldsOK(k), NEW x, k.status # "DISCONNECTED" => x \in Bytes
    PROVE  /\ Sent(k, x) \in Fields /\ FieldsOK(Sent(k, x))
           /\ Sent(k, x).in = k.in /\ Sent(k, x).status = k.status /\ Sent(k, x).tasks = k.tasks
           /\ Sent(k, x).out = IF k.status = "DISCONNECTED" THEN k.out ELSE Append(k.out, x)
<1>1. CASE k.status = "DISCONNECTED"
  BY <1>1 DEF Sent
<1>2. CASE k.status # "DISCONNECTED"
  <2>1. Append(k.out, x) \in Seq(Bytes) /\ Append(k.out, x) # <<>>
    BY <1>2, FieldTypes, AppendProperties
  <2>2. Sent(k, x) = [k EXCEPT !.out = Append(@, x), !.events = @ \cup {"out"}, !.polled = TRUE]
    BY <1>2 DEF Sent, Listening, Fields
  <2>3. Sent(k, x) \in Fields
    BY <2>1, <2>2 DEF Fields
  <2> QED BY <1>2, <2>1, <2>2, <2>3 DEF FieldsOK, Fields
<1> QED BY <1>1, <1>2

LEMMA EstablishedIs ==
    ASSUME NEW k \in Fields, FieldsOK(k), k.status = "CONNECTING"
    PROVE  Alike(k, Established(k)) /\ Established(k).status = "CONNECTED"
<1>1. Established(k) = [k EXCEPT !.status = "CONNECTED", !.connects = @ + 1,
                                 !.events = @ \cup {"in"}, !.polled = TRUE]
  BY DEF Established, Listening, Fields
<1>2. /\ "CONNECTED" \in Statuses /\ k.connects + 1 \in Nat
      /\ k.events \cup {"in"} \in SUBSET {"in", "out"}
  BY FieldTypes DEF Statuses
<1>3. Established(k) \in Fields
  BY <1>1, <1>2 DEF Fields
<1> QED BY <1>1, <1>3 DEF Alike, FieldsOK, Fields

\* What r's tasks may be after a callback on k.
MayShut(k, r) == r.tasks = k.tasks \/ r.tasks = Append(k.tasks, [op |-> "shutdown"])

LEMMA TasksAre ==
    /\ \A op \in Operations : op # "send" => [op |-> op] \in Tasks
    /\ \A b \in Bytes : [op |-> "send", byte |-> b] \in Tasks
    /\ {"establish", "shutdown", "release", "enable", "cancel"} \subseteq Operations
    /\ \A t \in Tasks : t.op \in Operations /\ (t.op = "send" => t.byte \in Bytes)
BY DEF Tasks, Operations

LEMMA CalledIs ==
    ASSUME NEW k \in Fields, FieldsOK(k), NEW cb \in Callbacks,
           cb.reply /\ k.status # "DISCONNECTED" => Reply \in Bytes
    PROVE  /\ Called(k, cb) \in Fields /\ FieldsOK(Called(k, cb)) /\ MayShut(k, Called(k, cb))
           /\ Called(k, cb).status = k.status /\ Called(k, cb).in <= k.in
           /\ Called(k, cb).out = IF cb.reply /\ k.status # "DISCONNECTED"
                                  THEN Append(k.out, Reply) ELSE k.out
<1> DEFINE n == IF cb.left < k.in THEN cb.left ELSE k.in
           eaten == [k EXCEPT !.in = n]
           answered == IF cb.reply THEN Sent(eaten, Reply) ELSE eaten
           r == IF cb.shut THEN Queued(answered, [op |-> "shutdown"]) ELSE answered
<1>1. Called(k, cb) = r
  BY DEF Called
<1>2. n \in 0..MaxArrive /\ n <= k.in
  BY FieldTypes DEF Callbacks
<1> HIDE DEF n
<1>3. /\ eaten \in Fields /\ eaten.in = n /\ eaten.out = k.out /\ eaten.status = k.status
      /\ eaten.tasks = k.tasks /\ FieldsOK(eaten)
  <2>1. eaten \in Fields
    BY <1>2 DEF Fields
  <2> QED BY <2>1 DEF Fields, FieldsOK
<1> HIDE DEF eaten
<1>4. /\ answered \in Fields /\ answered.in = n /\ answered.status = k.status
      /\ answered.tasks = k.tasks /\ FieldsOK(answered)
      /\ answered.out = IF cb.reply /\ k.status # "DISCONNECTED" THEN Append(k.out, Reply) ELSE k.out
  <2>1. CASE cb.reply
    BY <1>3, <2>1, SentIs
  <2>2. CASE ~cb.reply
    BY <1>3, <2>2
  <2> QED BY <2>1, <2>2
<1> HIDE DEF answered
<1>5. /\ r \in Fields /\ r.in = n /\ r.status = k.status /\ FieldsOK(r)
      /\ r.out = answered.out /\ MayShut(k, r)
  <2>1. CASE cb.shut
    BY <1>4, <2>1, QueuedIs, TasksAre DEF MayShut
  <2>2. CASE ~cb.shut
    BY <1>4, <2>2 DEF MayShut
  <2> QED BY <2>1, <2>2
<1> HIDE DEF r
<1> QED BY <1>1, <1>2, <1>4, <1>5

LEMMA HasReadIs ==
    ASSUME NEW k \in Fields, FieldsOK(k), NEW cb \in Callbacks,
           arrived \in Nat, k.in + arrived <= MaxArrive,
           k.in + arrived > 0 /\ cb.reply /\ k.status # "DISCONNECTED" => Reply \in Bytes
    PROVE  /\ HasRead(k, cb) \in Fields /\ FieldsOK(HasRead(k, cb)) /\ MayShut(k, HasRead(k, cb))
           /\ HasRead(k, cb).in <= k.in + arrived
           /\ HasRead(k, cb).out = IF k.in + arrived > 0 /\ cb.reply /\ k.status # "DISCONNECTED"
                                   THEN Append(k.out, Reply) ELSE k.out
           /\ k.status = "DISCONNECTED" \/ peer = "rst" => HasRead(k, cb).status = "DISCONNECTED"
<1> DEFINE full == [k EXCEPT !.in = k.in + arrived]
           called == IF full.in > 0 THEN Called(full, cb) ELSE full
           r == IF peer = "rst" THEN CutOff(called)
                ELSE IF peer = "fin" THEN ShutDown(called)
                ELSE called
<1>1. HasRead(k, cb) = r
  BY DEF HasRead, Filled
<1>2. k.in + arrived \in 0..MaxArrive
  BY FieldTypes, Constants
<1>3. /\ full \in Fields /\ full.in = k.in + arrived /\ full.out = k.out /\ full.status = k.status
      /\ full.tasks = k.tasks /\ FieldsOK(full)
  <2>1. full \in Fields
    BY <1>2 DEF Fields
  <2> QED BY <2>1 DEF Fields, FieldsOK
<1> HIDE DEF full
<1>4. /\ called \in Fields /\ called.in <= k.in + arrived /\ called.status = k.status
      /\ FieldsOK(called) /\ MayShut(k, called)
      /\ called.out = IF k.in + arrived > 0 /\ cb.reply /\ k.status # "DISCONNECTED"
                      THEN Append(k.out, Reply) ELSE k.out
  <2>1. CASE full.in > 0
    BY <1>3, <2>1, CalledIs DEF MayShut
  <2>2. CASE ~(full.in > 0)
    <3>1. called = full /\ k.in + arrived <= k.in + arrived
      BY <1>2, <2>2
    <3> QED BY <1>3, <2>2, <3>1 DEF MayShut
  <2> QED BY <2>1, <2>2
<1> HIDE DEF called
<1>5. /\ r \in Fields /\ FieldsOK(r) /\ r.in = called.in /\ r.out = called.out /\ r.tasks = called.tasks
      /\ called.status = "DISCONNECTED" \/ peer = "rst" => r.status = "DISCONNECTED"
  <2>1. CASE peer = "rst"
    BY <1>4, <2>1, CutOffAlike DEF Alike
  <2>2. CASE peer = "fin"
    BY <1>4, <2>2, ShutDownAlike DEF Alike
  <2>3. CASE peer # "rst" /\ peer # "fin"
    BY <1>4, <2>3
  <2> QED BY <2>1, <2>2, <2>3
<1> HIDE DEF r
<1> QED BY <1>1, <1>4, <1>5 DEF MayShut

LEMMA ClosedByIs ==
    ASSUME NEW k \in Fields, FieldsOK(k), NEW cb \in Callbacks,
           k.in > 0 /\ cb.reply /\ k.status # "DISCONNECTED" => Reply \in Bytes
    PROVE  /\ ClosedBy(k, cb) \in Fields /\ FieldsOK(ClosedBy(k, cb))
           /\ ClosedBy(k, cb).status = k.status /\ ClosedBy(k, cb).in <= k.in
           /\ \E c \in Fields :
                /\ MayShut(k, c) /\ c.out = ClosedBy(k, cb).out /\ c.status = k.status
                /\ ClosedBy(k, cb).tasks = Append(c.tasks, [op |-> "release"])
           /\ ClosedBy(k, cb).out = IF k.in > 0 /\ cb.reply /\ k.status # "DISCONNECTED"
                                    THEN Append(k.out, Reply) ELSE k.out
<1> DEFINE called == IF k.in > 0 THEN Called(k, cb) ELSE k
<1>1. ClosedBy(k, cb) = Queued(called, [op |-> "release"])
  BY DEF ClosedBy
<1>2. /\ called \in Fields /\ called.in <= k.in /\ called.status = k.status
      /\ FieldsOK(called) /\ MayShut(k, called)
      /\ called.out = IF k.in > 0 /\ cb.reply /\ k.status # "DISCONNECTED"
                      THEN Append(k.out, Reply) ELSE k.out
  <2>1. CASE k.in > 0
    BY <2>1, CalledIs
  <2>2. CASE ~(k.in > 0)
    BY <2>2, FieldTypes DEF MayShut
  <2> QED BY <2>1, <2>2
<1> HIDE DEF called
<1>3. [op |-> "release"] \in Tasks
  BY TasksAre
<1>4. LET r == Queued(called, [op |-> "release"]) IN
        /\ r \in Fields /\ FieldsOK(r) /\ r.in = called.in /\ r.out = called.out
        /\ r.status = called.status /\ r.tasks = Append(called.tasks, [op |-> "release"])
  BY <1>2, <1>3, QueuedIs
<1> QED BY <1>1, <1>2, <1>4

LEMMA RestIs ==
    ASSUME NEW s \in Seq(Bytes), NEW n \in 1..Len(s)
    PROVE  /\ SubSeq(s, 1, n) \in Seq(Bytes) /\ SubSeq(s, n + 1, Len(s)) \in Seq(Bytes)
           /\ SubSeq(s, 1, n) \o SubSeq(s, n + 1, Len(s)) = s
<1>1. Len(s) \in Nat /\ 1 \in Int /\ n \in Int /\ n + 1 \in Int /\ Len(s) \in Int
  BY LenProperties
<1>2. /\ 1 \in 1..Len(s) + 1 /\ n \in 1 - 1..Len(s) /\ Len(s) \in n..Len(s)
      /\ \A i \in 1..n : i \in 1..Len(s)
      /\ \A i \in n + 1..Len(s) : i \in 1..Len(s)
  BY <1>1
<1>3. SubSeq(s, 1, n) \o SubSeq(s, n + 1, Len(s)) = SubSeq(s, 1, Len(s))
  BY <1>2, ConcatAdjacentSubSeq
<1>4. \A i \in 1..Len(s) : s[i] \in Bytes
  BY ElementOfSeq
<1>5. SubSeq(s, 1, n) \in Seq(Bytes)
  BY <1>1, <1>2, <1>4, SubSeqProperties
<1>6. SubSeq(s, n + 1, Len(s)) \in Seq(Bytes)
  BY <1>1, <1>2, <1>4, SubSeqProperties
<1> QED BY <1>3, <1>5, <1>6, SubSeqFull

LEMMA WroteIs ==
    ASSUME NEW k \in Fields, FieldsOK(k), "out" \in k.events, k.polled, NEW n \in 1..Len(k.out)
    PROVE  /\ Wrote(k, n) \in Fields /\ FieldsOK(Wrote(k, n))
           /\ Wrote(k, n).in = k.in /\ Wrote(k, n).tasks = k.tasks
           /\ Wrote(k, n).out = SubSeq(k.out, n + 1, Len(k.out))
<1> DEFINE rest == SubSeq(k.out, n + 1, Len(k.out))
           written1 == [k EXCEPT !.out = rest]
           done == [k EXCEPT !.out = rest, !.events = @ \ {"out"}]
<1>1. rest \in Seq(Bytes) /\ k.status # "DISCONNECTED"
  BY FieldTypes, RestIs DEF FieldsOK
<1>2. Wrote(k, n) = IF rest # <<>> THEN written1
                    ELSE IF k.status = "DISCONNECTING" THEN Released(done)
                    ELSE done
  BY DEF Wrote, Rest
<1> HIDE DEF rest
<1>3. CASE rest # <<>>
  <2>1. written1 \in Fields
    BY <1>1 DEF Fields
  <2> QED BY <1>1, <1>2, <1>3, <2>1 DEF Fields, FieldsOK, rest
<1>4. CASE rest = <<>>
  <2>1. done \in Fields
    BY <1>1 DEF Fields
  <2>2. /\ done.status = k.status /\ done.polled = k.polled /\ done.events = k.events \ {"out"}
        /\ done.in = k.in /\ done.out = <<>> /\ done.tasks = k.tasks /\ done.connects = k.connects
        /\ done.closes = k.closes /\ done.cut = k.cut
    BY <1>4 DEF Fields
  <2> HIDE DEF done
  <2>3. CASE k.status # "DISCONNECTING"
    <3>1. FieldsOK(done)
      BY <1>1, <2>2, <2>3 DEF FieldsOK
    <3> QED BY <1>2, <1>4, <2>1, <2>2, <2>3, <3>1 DEF rest
  <2>4. CASE k.status = "DISCONNECTING"
    <3>1. /\ Released(done) \in Fields /\ Released(done).status = "DISCONNECTED"
          /\ Released(done).in = k.in /\ Released(done).out = <<>> /\ Released(done).tasks = k.tasks
          /\ Released(done).connects = k.connects /\ Released(done).closes = 1
          /\ ~Released(done).polled
      <4> DEFINE c == Cancelled(done)
      <4>1. /\ c \in Fields /\ c.status = "DISCONNECTING" /\ c.in = k.in /\ c.out = <<>>
            /\ c.tasks = k.tasks /\ c.connects = k.connects /\ c.closes = 0
        BY <2>1, <2>2, <2>4, CancelledIs DEF FieldsOK
      <4>2. Released(done) = [c EXCEPT !.status = "DISCONNECTED", !.polled = FALSE, !.closes = @ + 1]
        BY <2>2, <2>4 DEF Released, Gone
      <4> HIDE DEF c
      <4>3. c.closes + 1 = 1 /\ 1 \in Nat /\ "DISCONNECTED" \in Statuses
        BY <4>1 DEF Statuses
      <4>4. Released(done) \in Fields
        BY <4>1, <4>2, <4>3 DEF Fields
      <4> QED BY <4>1, <4>2, <4>3, <4>4 DEF Fields
    <3>2. FieldsOK(Released(done))
      BY <3>1 DEF FieldsOK
    <3> QED BY <1>2, <1>4, <2>4, <3>1, <3>2 DEF rest
  <2> QED BY <2>3, <2>4
<1> QED BY <1>3, <1>4

-----------------------------------------------------------------------------
(* Lemmas on the order of the bytes.                                       *)

LEMMA ByteIs ==
    ASSUME NEW u \in Senders, NEW n \in 1..MaxSends
    PROVE  <<u, n>> \in Bytes /\ <<u, n>>[1] = u /\ <<u, n>>[2] = n
BY DEF Bytes

LEMMA BytesAre ==
    ASSUME NEW b \in Bytes
    PROVE  b[1] \in Senders /\ b[2] \in Nat /\ b[2] >= 1 /\ b[2] <= MaxSends /\ b = <<b[1], b[2]>>
<1>1. b[1] \in Senders /\ b[2] \in 1..MaxSends /\ b = <<b[1], b[2]>>
  BY DEF Bytes
<1> QED BY <1>1, Constants

\* Appending the byte b keeps the order if it goes on where s ends.
LEMMA AppendedInOrder ==
    ASSUME NEW s \in Seq(Bytes), NEW b \in Bytes, InSendOrder(s),
           \A j \in 1..Len(s) : s[j][1] = b[1] => s[j][2] < b[2],
           b[2] > 1 => Has(s, <<b[1], b[2] - 1>>)
    PROVE  InSendOrder(Append(s, b))
<1> DEFINE r == Append(s, b)
<1>1. /\ Len(r) = Len(s) + 1 /\ Len(s) \in Nat
      /\ \A i \in 1..Len(s) : r[i] = s[i]
      /\ r[Len(s) + 1] = b
  BY AppendProperties, LenProperties
<1> HIDE DEF r
<1>2. SUFFICES ASSUME NEW i \in 1..Len(r)
               PROVE  /\ \A j \in 1..i - 1 : r[j][1] = r[i][1] => r[j][2] < r[i][2]
                      /\ r[i][2] > 1 => \E j \in 1..i - 1 : r[j] = <<r[i][1], r[i][2] - 1>>
  BY DEF InSendOrder, r
<1>3. CASE i \in 1..Len(s)
  <2>1. \A j \in 1..i - 1 : j \in 1..Len(s) /\ r[j] = s[j]
    BY <1>1, <1>3
  <2>2. r[i] = s[i]
    BY <1>1, <1>3
  <2>3. /\ \A j \in 1..i - 1 : s[j][1] = s[i][1] => s[j][2] < s[i][2]
        /\ s[i][2] > 1 => \E j \in 1..i - 1 : s[j] = <<s[i][1], s[i][2] - 1>>
    BY <1>3 DEF InSendOrder
  <2> QED BY <2>1, <2>2, <2>3
<1>4. CASE i = Len(s) + 1
  <2>1. \A j \in 1..i - 1 : j \in 1..Len(s) /\ r[j] = s[j]
    BY <1>1, <1>4
  <2>2. \A j \in 1..Len(s) : j \in 1..i - 1
    BY <1>1, <1>4
  <2>3. r[i] = b
    BY <1>1, <1>4
  <2> QED BY <2>1, <2>2, <2>3 DEF Has
<1> QED BY <1>1, <1>3, <1>4

\* The loop thread sends its next byte.
LEMMA ReplyComing ==
    ASSUME NEW s \in Seq(Bytes), NEW t \in Seq(Tasks), NEW n \in [Senders -> 0..MaxSends],
           InSendOrder(s), Coming(s, t, n), n[Loop] < MaxSends,
           NEW b, b = <<Loop, n[Loop] + 1>>, NEW m, m = [n EXCEPT ![Loop] = @ + 1]
    PROVE  b \in Bytes /\ InSendOrder(Append(s, b)) /\ Coming(Append(s, b), t, m)
<1> DEFINE r == Append(s, b)
<1>1. /\ Len(r) = Len(s) + 1 /\ Len(s) \in Nat
      /\ \A i \in 1..Len(s) : r[i] = s[i]
      /\ r[Len(s) + 1] = b
      /\ n[Loop] \in Nat /\ n[Loop] + 1 \in 1..MaxSends /\ b \in Bytes
  <2>1. n[Loop] \in 0..MaxSends /\ MaxSends \in Nat
    BY Constants
  <2>2. n[Loop] + 1 \in 1..MaxSends
    BY <2>1
  <2>3. b \in Bytes
    BY <2>2, ByteIs, Constants
  <2> QED BY <2>1, <2>2, <2>3, AppendProperties, LenProperties
<1> HIDE DEF r
<1>2. /\ b[1] = Loop /\ b[2] = n[Loop] + 1
      /\ m[Loop] = n[Loop] + 1 /\ \A u \in Senders : u # Loop => m[u] = n[u]
  BY Constants
<1>3. \A i \in 1..Len(s) : s[i] \in Bytes /\ s[i][1] \in Senders /\ s[i][2] \in Nat /\ s[i][2] <= n[s[i][1]]
  BY BytesAre, ElementOfSeq DEF Coming, Counted
<1>4. InSendOrder(r)
  <2>1. \A j \in 1..Len(s) : s[j][1] = b[1] => s[j][2] < b[2]
    BY <1>1, <1>2, <1>3
  <2>2. b[2] > 1 => Has(s, <<b[1], b[2] - 1>>)
    <3>1. b[2] > 1 => n[Loop] > 0 /\ b[2] - 1 = n[Loop]
      BY <1>1, <1>2
    <3> QED BY <1>2, <3>1 DEF Coming, Counted
  <2> QED BY <1>1, <2>1, <2>2, AppendedInOrder DEF r
<1>5. ASSUME NEW c, Has(s, c) PROVE Has(r, c)
  BY <1>1, <1>5 DEF Has
<1>6. \A i \in 1..Len(r) : (i \in 1..Len(s) /\ r[i] = s[i]) \/ r[i] = b
  BY <1>1
<1>7. Counted(r, t, m)
  <2>1. \A i \in 1..Len(r) : r[i][2] <= m[r[i][1]]
    <3> SUFFICES ASSUME NEW i \in 1..Len(r) PROVE r[i][2] <= m[r[i][1]]
      OBVIOUS
    <3>1. CASE i \in 1..Len(s) /\ r[i] = s[i]
      <4>1. s[i][2] <= n[s[i][1]] /\ s[i][1] \in Senders /\ s[i][2] \in Nat /\ n[s[i][1]] \in Nat
        BY <1>3, <3>1
      <4> QED BY <1>1, <1>2, <3>1, <4>1
    <3>2. CASE r[i] = b
      BY <1>1, <1>2, <3>2
    <3> QED BY <1>6, <3>1, <3>2
  <2>2. Has(r, <<Loop, m[Loop]>>)
    <3>1. Len(s) + 1 \in 1..Len(r) /\ r[Len(s) + 1] = <<Loop, m[Loop]>>
      BY <1>1, <1>2
    <3> QED BY <3>1 DEF Has
  <2>3. ASSUME NEW u \in Users, m[u] > 0 PROVE Has(r, <<u, m[u]>>) \/ ToSend(t, <<u, m[u]>>)
    <3>1. m[u] = n[u]
      BY <1>2, Constants
    <3> QED BY <1>5, <2>3, <3>1 DEF Coming, Counted
  <2> QED BY <2>1, <2>2, <2>3 DEF Counted
<1>8. ASSUME NEW i \in 1..Len(t), t[i].op = "send"
      PROVE  /\ t[i].byte[1] \in Users /\ t[i].byte[2] <= m[t[i].byte[1]]
             /\ GoesOn(r, t, i, t[i].byte)
  <2> SUFFICES ASSUME NEW c, c = t[i].byte
               PROVE  c[1] \in Users /\ c[2] <= m[c[1]] /\ GoesOn(r, t, i, c)
    OBVIOUS
  <2>1. c[1] \in Users /\ c[2] <= n[c[1]] /\ GoesOn(s, t, i, c)
    BY <1>8 DEF Coming
  <2>2. m[c[1]] = n[c[1]] /\ c[1] # Loop
    BY <1>2, <2>1, Constants
  <2>3. \A j \in 1..Len(r) : r[j][1] = c[1] => r[j][2] < c[2]
    BY <1>2, <1>6, <2>1, <2>2 DEF GoesOn
  <2> QED BY <1>5, <2>1, <2>2, <2>3 DEF GoesOn
<1> QED BY <1>1, <1>4, <1>7, <1>8 DEF Coming, r

\* The first task is done: its byte, if it was a send, is the next of s.
LEMMA TailComing ==
    ASSUME NEW s \in Seq(Bytes), NEW t \in Seq(Tasks), t # <<>>, NEW n \in [Senders -> 0..MaxSends],
           InSendOrder(s), Coming(s, t, n),
           NEW r \in Seq(Bytes), r = IF Head(t).op = "send" THEN Append(s, Head(t).byte) ELSE s
    PROVE  InSendOrder(r) /\ Coming(r, Tail(t), n)
<1> DEFINE h == Head(t)
           q == Tail(t)
<1>1. /\ q \in Seq(Tasks) /\ h \in Tasks /\ Len(q) = Len(t) - 1 /\ Len(t) \in Nat \ {0}
      /\ \A i \in 1..Len(q) : q[i] = t[i + 1]
      /\ h = t[1] /\ Len(s) \in Nat
      /\ r = IF h.op = "send" THEN Append(s, h.byte) ELSE s
  BY HeadTailProperties, EmptySeq, LenProperties
<1> HIDE DEF h, q
<1>2. /\ 1 \in 1..Len(t)
      /\ \A i \in 1..Len(q) : i + 1 \in 1..Len(t)
      /\ \A i \in 1..Len(t) : i = 1 \/ (i - 1 \in 1..Len(q) /\ q[i - 1] = t[i])
  BY <1>1
<1>3. h.op = "send" =>
        /\ h.byte \in Bytes /\ h.byte[1] \in Users /\ h.byte[2] <= n[h.byte[1]]
        /\ GoesOn(s, t, 1, h.byte)
  BY <1>1, <1>2, TasksAre DEF Coming
<1>4. InSendOrder(r)
  <2>1. CASE h.op = "send"
    <3>1. 1..1 - 1 = {}
      OBVIOUS
    <3>2. /\ \A j \in 1..Len(s) : s[j][1] = h.byte[1] => s[j][2] < h.byte[2]
          /\ h.byte[2] > 1 => Has(s, <<h.byte[1], h.byte[2] - 1>>)
      BY <1>3, <2>1, <3>1 DEF GoesOn
    <3> QED BY <1>1, <1>3, <2>1, <3>2, AppendedInOrder
  <2>2. CASE h.op # "send"
    BY <1>1, <2>2
  <2> QED BY <2>1, <2>2
<1>5. /\ \A b : Has(s, b) => Has(r, b)
      /\ h.op = "send" => Has(r, h.byte)
      /\ \A i \in 1..Len(r) : (i \in 1..Len(s) /\ r[i] = s[i]) \/ (h.op = "send" /\ r[i] = h.byte)
  <2>1. CASE h.op = "send"
    <3>1. /\ Len(r) = Len(s) + 1
          /\ \A i \in 1..Len(s) : r[i] = s[i]
          /\ r[Len(s) + 1] = h.byte
      BY <1>1, <1>3, <2>1, AppendProperties
    <3>2. /\ \A i \in 1..Len(s) : i \in 1..Len(r)
          /\ Len(s) + 1 \in 1..Len(r)
          /\ \A i \in 1..Len(r) : i \in 1..Len(s) \/ i = Len(s) + 1
      BY <1>1, <3>1
    <3> QED BY <2>1, <3>1, <3>2 DEF Has
  <2>2. CASE h.op # "send"
    BY <1>1, <2>2
  <2> QED BY <2>1, <2>2
<1>6. Counted(r, q, n)
  <2>1. \A i \in 1..Len(r) : r[i][2] <= n[r[i][1]]
    BY <1>3, <1>5 DEF Coming, Counted
  <2>2. n[Loop] > 0 => Has(r, <<Loop, n[Loop]>>)
    BY <1>5 DEF Coming, Counted
  <2>3. ASSUME NEW b, ToSend(t, b) PROVE Has(r, b) \/ ToSend(q, b)
    <3>1. PICK i \in 1..Len(t) : t[i].op = "send" /\ t[i].byte = b
      BY <2>3 DEF ToSend
    <3>2. CASE i = 1
      BY <1>1, <1>5, <3>1, <3>2
    <3>3. CASE i # 1
      BY <1>2, <3>1, <3>3 DEF ToSend
    <3> QED BY <3>2, <3>3
  <2>4. \A u \in Users : n[u] > 0 => Has(r, <<u, n[u]>>) \/ ToSend(q, <<u, n[u]>>)
    BY <1>5, <2>3 DEF Coming, Counted
  <2> QED BY <2>1, <2>2, <2>4 DEF Counted
<1>7. ASSUME NEW i \in 1..Len(q), q[i].op = "send"
      PROVE  /\ q[i].byte[1] \in Users /\ q[i].byte[2] <= n[q[i].byte[1]]
             /\ GoesOn(r, q, i, q[i].byte)
  <2> SUFFICES ASSUME NEW c, c = q[i].byte
               PROVE  c[1] \in Users /\ c[2] <= n[c[1]] /\ GoesOn(r, q, i, c)
    OBVIOUS
  <2>1. i + 1 \in 1..Len(t) /\ t[i + 1] = q[i]
    BY <1>1, <1>2
  <2>2. c[1] \in Users /\ c[2] <= n[c[1]] /\ GoesOn(s, t, i + 1, c)
    BY <1>7, <2>1 DEF Coming
  <2>3. /\ 1 \in 1..(i + 1) - 1
        /\ \A j \in 1..i - 1 : j + 1 \in 1..(i + 1) - 1 /\ j \in 1..Len(q) /\ q[j] = t[j + 1]
        /\ \A j \in 1..(i + 1) - 1 : j = 1 \/ (j - 1 \in 1..i - 1 /\ q[j - 1] = t[j])
    BY <1>1, <1>2
  <2>4. \A j \in 1..Len(r) : r[j][1] = c[1] => r[j][2] < c[2]
    <3>1. h.op = "send" /\ h.byte[1] = c[1] => h.byte[2] < c[2]
      BY <1>1, <2>2, <2>3 DEF GoesOn
    <3> QED BY <1>5, <2>2, <3>1 DEF GoesOn
  <2>5. \A j \in 1..i - 1 : q[j].op = "send" /\ q[j].byte[1] = c[1] => q[j].byte[2] < c[2]
    <3> SUFFICES ASSUME NEW j \in 1..i - 1, q[j].op = "send", q[j].byte[1] = c[1]
                 PROVE  q[j].byte[2] < c[2]
      OBVIOUS
    <3> DEFINE e == j + 1
    <3>1. e \in 1..(i + 1) - 1 /\ q[j] = t[e]
      BY <2>3
    <3> HIDE DEF e
    <3>2. t[e].op = "send" /\ t[e].byte[1] = c[1] => t[e].byte[2] < c[2]
      BY <2>2, <3>1 DEF GoesOn
    <3> QED BY <3>1, <3>2
  <2>6. ASSUME c[2] > 1
        PROVE  \/ Has(r, <<c[1], c[2] - 1>>)
               \/ \E j \in 1..i - 1 : q[j].op = "send" /\ q[j].byte = <<c[1], c[2] - 1>>
    <3>1. CASE Has(s, <<c[1], c[2] - 1>>)
      BY <1>5, <3>1
    <3>2. CASE \E j \in 1..(i + 1) - 1 : t[j].op = "send" /\ t[j].byte = <<c[1], c[2] - 1>>
      <4>1. PICK j \in 1..(i + 1) - 1 : t[j].op = "send" /\ t[j].byte = <<c[1], c[2] - 1>>
        BY <3>2
      <4>2. CASE j = 1
        BY <1>1, <1>5, <4>1, <4>2
      <4>3. CASE j # 1
        BY <2>3, <4>1, <4>3
      <4> QED BY <4>2, <4>3
    <3> QED BY <2>2, <2>6, <3>1, <3>2 DEF GoesOn
  <2> QED BY <2>2, <2>4, <2>5, <2>6 DEF GoesOn
<1> QED BY <1>4, <1>6, <1>7 DEF Coming, q

\* A task is queued: a send by a thread of its next byte, or another one.
LEMMA QueuedComing ==
    ASSUME NEW s \in Seq(Bytes), NEW t \in Seq(Tasks), NEW n \in [Senders -> 0..MaxSends],
           Coming(s, t, n), NEW a \in Tasks, NEW m,
           \/ a.op # "send" /\ m = n
           \/ /\ a.op = "send" /\ a.byte[1] \in Users
              /\ a.byte = <<a.byte[1], n[a.byte[1]] + 1>> /\ m = [n EXCEPT ![a.byte[1]] = @ + 1]
    PROVE  Coming(s, Append(t, a), m)
<1> DEFINE q == Append(t, a)
<1>1. /\ Len(q) = Len(t) + 1 /\ Len(t) \in Nat
      /\ \A i \in 1..Len(t) : q[i] = t[i]
      /\ q[Len(t) + 1] = a
  BY AppendProperties, LenProperties
<1> HIDE DEF q
<1>2. /\ \A i \in 1..Len(t) : i \in 1..Len(q)
      /\ Len(t) + 1 \in 1..Len(q)
      /\ \A i \in 1..Len(q) : i \in 1..Len(t) \/ i = Len(t) + 1
      /\ \A i \in 1..Len(t) : \A j \in 1..i - 1 : j \in 1..Len(t)
      /\ \A j \in 1..Len(t) : j \in 1..(Len(t) + 1) - 1
      /\ \A j \in 1..(Len(t) + 1) - 1 : j \in 1..Len(t)
  BY <1>1
<1>3. /\ \A u \in Senders : n[u] \in Nat /\ n[u] <= m[u]
      /\ m[Loop] = n[Loop]
      /\ \A u \in Users : m[u] = n[u] \/ (a.op = "send" /\ a.byte = <<u, m[u]>>)
  <2>1. \A u \in Senders : n[u] \in Nat
    <3> SUFFICES ASSUME NEW u \in Senders PROVE n[u] \in Nat
      OBVIOUS
    <3>1. n[u] \in 0..MaxSends
      OBVIOUS
    <3> QED BY <3>1, Constants
  <2>2. CASE a.op # "send"
    BY <2>1, <2>2, Constants
  <2>3. CASE a.op = "send"
    <3> SUFFICES ASSUME NEW v \in Users, v = a.byte[1], a.byte = <<v, n[v] + 1>>,
                        m = [n EXCEPT ![v] = @ + 1]
                 PROVE  /\ \A u \in Senders : n[u] \in Nat /\ n[u] <= m[u]
                        /\ m[Loop] = n[Loop]
                        /\ \A u \in Users : m[u] = n[u] \/ (a.op = "send" /\ a.byte = <<u, m[u]>>)
      BY <2>3
    <3>1. v \in Senders /\ v # Loop /\ m[v] = n[v] + 1 /\ \A u \in Senders : u # v => m[u] = n[u]
      BY Constants
    <3> QED BY <2>1, <2>3, <3>1, Constants
  <2> QED BY <2>2, <2>3
<1>4. \A b : ToSend(t, b) => ToSend(q, b)
  BY <1>1, <1>2 DEF ToSend
<1>5. \A i \in 1..Len(s) : s[i][1] \in Senders /\ s[i][2] \in Nat /\ s[i][2] <= n[s[i][1]]
  BY BytesAre, ElementOfSeq DEF Coming, Counted
<1>6. Counted(s, q, m)
  <2>1. \A i \in 1..Len(s) : s[i][2] <= m[s[i][1]]
    <3> SUFFICES ASSUME NEW i \in 1..Len(s), NEW u, u = s[i][1], NEW x, x = s[i][2] PROVE x <= m[u]
      OBVIOUS
    <3>1. u \in Senders /\ x \in Nat /\ x <= n[u] /\ n[u] \in Nat /\ n[u] <= m[u]
      BY <1>3, <1>5
    <3>2. m[u] = n[u] \/ m[u] = n[u] + 1
      BY <3>1
    <3> QED BY <3>1, <3>2
  <2>2. ASSUME NEW u \in Users, m[u] > 0 PROVE Has(s, <<u, m[u]>>) \/ ToSend(q, <<u, m[u]>>)
    <3>1. CASE m[u] = n[u]
      BY <1>4, <2>2, <3>1 DEF Coming, Counted
    <3>2. CASE a.op = "send" /\ a.byte = <<u, m[u]>>
      BY <1>1, <1>2, <3>2 DEF ToSend
    <3> QED BY <1>3, <3>1, <3>2
  <2> QED BY <1>3, <2>1, <2>2 DEF Coming, Counted
<1>7. ASSUME NEW i \in 1..Len(q), q[i].op = "send"
      PROVE  /\ q[i].byte[1] \in Users /\ q[i].byte[2] <= m[q[i].byte[1]]
             /\ GoesOn(s, q, i, q[i].byte)
  <2> SUFFICES ASSUME NEW c, c = q[i].byte
               PROVE  c[1] \in Users /\ c[2] <= m[c[1]] /\ GoesOn(s, q, i, c)
    OBVIOUS
  <2>1. CASE i \in 1..Len(t)
    <3>1. t[i] = q[i] /\ \A j \in 1..i - 1 : q[j] = t[j]
      BY <1>1, <1>2, <2>1
    <3>2. c[1] \in Users /\ c[2] <= n[c[1]] /\ GoesOn(s, t, i, c)
      BY <1>7, <2>1, <3>1 DEF Coming
    <3>3. GoesOn(s, q, i, c)
      BY <3>1, <3>2 DEF GoesOn
    <3>4. c[2] \in Nat /\ n[c[1]] \in Nat /\ (m[c[1]] = n[c[1]] \/ m[c[1]] = n[c[1]] + 1)
      BY <1>3, <1>7, <3>1, <3>2, <2>1, TasksAre, BytesAre, ElementOfSeq, Constants
    <3> QED BY <3>2, <3>3, <3>4
  <2>2. CASE i = Len(t) + 1
    <3>1. a.op = "send" /\ c = a.byte
      BY <1>1, <1>7, <2>2
    <3> SUFFICES ASSUME NEW u \in Users, c[1] = u, c = <<u, n[u] + 1>>, m = [n EXCEPT ![u] = @ + 1]
                 PROVE  c[1] \in Users /\ c[2] <= m[c[1]] /\ GoesOn(s, q, i, c)
      BY <3>1
    <3>2. u \in Senders /\ n[u] \in Nat /\ m[u] = n[u] + 1 /\ c[2] = n[u] + 1
      BY <1>3, Constants
    <3>3. \A j \in 1..Len(s) : s[j][1] = u => s[j][2] < n[u] + 1
      BY <1>5, <3>2
    <3>4. ASSUME NEW j \in 1..Len(t), t[j].op = "send", t[j].byte[1] = u PROVE t[j].byte[2] < n[u] + 1
      <4>1. t[j].byte[2] <= n[u] /\ t[j].byte \in Bytes
        BY <3>4, TasksAre, ElementOfSeq DEF Coming
      <4> QED BY <3>2, <4>1, BytesAre
    <3>5. n[u] > 0 => Has(s, <<u, n[u]>>) \/ ToSend(t, <<u, n[u]>>)
      BY DEF Coming, Counted
    <3>6. \A j \in 1..i - 1 : q[j].op = "send" /\ q[j].byte[1] = c[1] => q[j].byte[2] < c[2]
      BY <1>1, <1>2, <2>2, <3>2, <3>4
    <3>7. ASSUME c[2] > 1
          PROVE  \/ Has(s, <<c[1], c[2] - 1>>)
                 \/ \E j \in 1..i - 1 : q[j].op = "send" /\ q[j].byte = <<c[1], c[2] - 1>>
      <4>1. n[u] > 0 /\ c[2] - 1 = n[u]
        BY <3>2, <3>7
      <4>2. CASE Has(s, <<u, n[u]>>)
        BY <4>1, <4>2
      <4>3. CASE ToSend(t, <<u, n[u]>>)
        <5>1. PICK j \in 1..Len(t) : t[j].op = "send" /\ t[j].byte = <<u, n[u]>>
          BY <4>3 DEF ToSend
        <5>2. j \in 1..i - 1 /\ q[j] = t[j]
          BY <1>1, <1>2, <2>2
        <5> QED BY <4>1, <5>1, <5>2
      <4> QED BY <3>5, <4>1, <4>2, <4>3
    <3> QED BY <3>2, <3>3, <3>6, <3>7 DEF GoesOn
  <2> QED BY <1>2, <2>1, <2>2
<1> QED BY <1>6, <1>7 DEF Coming, q

-----------------------------------------------------------------------------
(* Each handler keeps the order of the bytes.                              *)

LEMMA AppendedLater ==
    ASSUME NEW w \in Seq(Bytes), NEW s \in Seq(Bytes), NEW b \in Bytes
    PROVE  w \o Append(s, b) = Append(w \o s, b)
<1>1. <<b>> \in Seq(Bytes) /\ w \o s \in Seq(Bytes)
  BY ConcatProperties
<1>2. Append(s, b) = s \o <<b>> /\ Append(w \o s, b) = (w \o s) \o <<b>>
  BY <1>1, AppendIsConcat
<1> QED BY <1>1, <1>2, ConcatAssociative

\* Nothing is sent, and nothing queued but perhaps a shutdown or a release.
LEMMA AlikeOrdered ==
    ASSUME NEW w \in Seq(Bytes), NEW k \in Fields, NEW r \in Fields,
           NEW n \in [Senders -> 0..MaxSends], Ordered(w, k, n), r.out = k.out,
           k.status = "DISCONNECTED" => r.status = "DISCONNECTED",
           NEW o \in Operations, o # "send",
           r.tasks = k.tasks \/ r.tasks = Append(k.tasks, [op |-> o])
    PROVE  Ordered(w, r, n)
<1> DEFINE s == w \o k.out
           t == k.tasks
           a == [op |-> o]
<1>1. InSendOrder(s) /\ s = w \o r.out
  BY DEF Ordered
<1>2. ASSUME r.status # "DISCONNECTED" PROVE Coming(s, r.tasks, n)
  <2>1. Coming(s, t, n)
    BY <1>2 DEF Ordered
  <2>2. t \in Seq(Tasks) /\ s \in Seq(Bytes) /\ a \in Tasks /\ a.op # "send"
    BY FieldTypes, ConcatProperties, TasksAre
  <2> HIDE DEF s, t, a
  <2>3. Coming(s, Append(t, a), n)
    BY <2>1, <2>2, QueuedComing
  <2> QED BY <2>1, <2>3 DEF t, a
<1> QED BY <1>1, <1>2 DEF Ordered

\* The loop thread has sent its next byte if it replied, and that byte has
\* been taken over unless the connection is gone.
LEMMA RepliedOrdered ==
    ASSUME NEW w \in Seq(Bytes), NEW k \in Fields, NEW r \in Fields,
           NEW n \in [Senders -> 0..MaxSends], Ordered(w, k, n), MayShut(k, r),
           NEW replied \in BOOLEAN, replied => n[Loop] < MaxSends,
           NEW m, m = [n EXCEPT ![Loop] = IF replied THEN @ + 1 ELSE @],
           r.out = IF replied /\ k.status # "DISCONNECTED"
                   THEN Append(k.out, <<Loop, n[Loop] + 1>>) ELSE k.out,
           k.status = "DISCONNECTED" => r.status = "DISCONNECTED"
    PROVE  Ordered(w, r, m)
<1>1. CASE ~replied
  <2>1. m = n /\ r.out = k.out
    BY <1>1
  <2> QED BY <2>1, AlikeOrdered, TasksAre DEF MayShut
<1>2. CASE k.status = "DISCONNECTED"
  BY <1>2 DEF Ordered
<1>3. CASE replied /\ k.status # "DISCONNECTED"
  <2> DEFINE s == w \o k.out
             t == k.tasks
             b == <<Loop, n[Loop] + 1>>
  <2>1. s \in Seq(Bytes) /\ t \in Seq(Tasks) /\ InSendOrder(s) /\ Coming(s, t, n)
    BY <1>3, FieldTypes, ConcatProperties DEF Ordered
  <2>2. m = [n EXCEPT ![Loop] = @ + 1]
    BY <1>3
  <2> HIDE DEF s, t
  <2>3. b \in Bytes /\ InSendOrder(Append(s, b)) /\ Coming(Append(s, b), t, m)
    BY <1>3, <2>1, <2>2, ReplyComing
  <2>4. w \o r.out = Append(s, b)
    BY <1>3, <2>3, FieldTypes, AppendedLater DEF s
  <2> HIDE DEF b
  <2>5. Append(s, b) \in Seq(Bytes) /\ m \in [Senders -> 0..MaxSends] /\ [op |-> "shutdown"] \in Tasks
    <3>1. n[Loop] \in 0..MaxSends /\ n[Loop] < MaxSends
      BY <1>3, Constants
    <3>2. n[Loop] + 1 \in 0..MaxSends
      BY <3>1, Constants
    <3> QED BY <2>1, <2>2, <2>3, <3>2, AppendProperties, TasksAre
  <2>6. [op |-> "shutdown"].op # "send"
    OBVIOUS
  <2>7. Coming(Append(s, b), Append(t, [op |-> "shutdown"]), m)
    BY <2>1, <2>3, <2>5, <2>6, QueuedComing
  <2> QED BY <2>3, <2>4, <2>7 DEF Ordered, MayShut, t
<1> QED BY <1>1, <1>2, <1>3

\* The socket has taken n of the bytes.
LEMMA WroteOrdered ==
    ASSUME NEW w \in Seq(Bytes), NEW k \in Fields, NEW r \in Fields, NEW c,
           Ordered(w, k, c), k.status # "DISCONNECTED", r.tasks = k.tasks,
           NEW n \in 1..Len(k.out), r.out = SubSeq(k.out, n + 1, Len(k.out))
    PROVE  /\ w \o SubSeq(k.out, 1, n) \in Seq(Bytes)
           /\ Ordered(w \o SubSeq(k.out, 1, n), r, c)
<1> DEFINE a == SubSeq(k.out, 1, n)
           b == r.out
<1>1. a \in Seq(Bytes) /\ b \in Seq(Bytes) /\ a \o b = k.out
  BY FieldTypes, RestIs
<1> HIDE DEF a, b
<1>2. w \o a \in Seq(Bytes) /\ (w \o a) \o b = w \o k.out
  <2>1. w \o a \in Seq(Bytes)
    BY <1>1, ConcatProperties
  <2>2. (w \o a) \o b = w \o (a \o b)
    <3>1. \A x, y \in Seq(Bytes) : (w \o x) \o y = w \o (x \o y)
      BY ConcatAssociative
    <3> QED BY <1>1, <3>1
  <2> QED BY <1>1, <2>1, <2>2
<1>3. /\ InSendOrder((w \o a) \o b)
      /\ Coming((w \o a) \o b, r.tasks, c)
  BY <1>2 DEF Ordered
<1> QED BY <1>2, <1>3 DEF Ordered, a, b

-----------------------------------------------------------------------------
(* Events.                                                                 *)

\* What an event of the socket leaves.
Kept ==
    /\ conn' \in Fields /\ FieldsOK(conn') /\ Ordered(written', conn', sends')
    /\ arrived' \in Nat /\ conn'.in + arrived' <= got
    /\ peer' \in {"none", "up", "fin", "rst"}
    /\ written' \in Seq(Bytes) /\ sends' \in [Senders -> 0..MaxSends]

\* The loop thread has sent a byte if it replied.
Replied(b) ==
    /\ b => sends[Loop] < MaxSends
    /\ sends' = [sends EXCEPT ![Loop] = IF b THEN @ + 1 ELSE @]

LEMMA ReplyingIs ==
    ASSUME NEW p \in BOOLEAN, NEW cb \in Callbacks, Replying(IF p THEN {cb} ELSE {})
    PROVE  (p /\ cb.reply) \in BOOLEAN /\ Replied(p /\ cb.reply)
BY DEF Replying, Replied, Callbacks

LEMMA RepliedIs ==
    ASSUME TypesOK, NEW b \in BOOLEAN, Replied(b)
    PROVE  sends' \in [Senders -> 0..MaxSends] /\ (b => Reply \in Bytes)
<1>1. sends[Loop] \in 0..MaxSends /\ Loop \in Senders /\ MaxSends \in Nat
  BY Constants DEF TypesOK
<1>2. b => sends[Loop] + 1 \in 0..MaxSends /\ sends[Loop] + 1 \in 1..MaxSends
  BY <1>1 DEF Replied
<1>3. b => Reply \in Bytes
  BY <1>1, <1>2, ByteIs DEF Reply
<1> QED BY <1>1, <1>2, <1>3 DEF Replied, TypesOK

\* What has been read, refreshed first.
LEMMA ReadIs ==
    ASSUME IInv, conn.polled, NEW cb \in Callbacks, Replying(Calling(cb))
    PROVE  /\ HasRead(Refreshed(conn), cb) \in Fields /\ FieldsOK(HasRead(Refreshed(conn), cb))
           /\ HasRead(Refreshed(conn), cb).in <= got
           /\ peer = "rst" => HasRead(Refreshed(conn), cb).status = "DISCONNECTED"
           /\ Ordered(written, HasRead(Refreshed(conn), cb), sends')
           /\ sends' \in [Senders -> 0..MaxSends]
<1> DEFINE k == Refreshed(conn)
           p == conn.in + arrived > 0
           r == HasRead(k, cb)
<1>1. conn \in Fields /\ FieldsOK(conn) /\ TypesOK /\ Ordered(written, conn, sends)
  BY DEF IInv, TypesOK
<1>2. k \in Fields /\ FieldsOK(k) /\ k.in = conn.in /\ k.out = conn.out /\ k.tasks = conn.tasks
      /\ k.status = conn.status /\ conn.status # "DISCONNECTED"
  BY <1>1, RefreshedAlike DEF Alike, FieldsOK
<1> HIDE DEF k
<1>3. arrived \in Nat /\ k.in + arrived <= got /\ k.in \in Nat /\ got <= MaxArrive
      /\ k.in + arrived <= MaxArrive
  BY <1>1, <1>2, FieldTypes, Constants DEF TypesOK
<1>4. Calling(cb) = IF p THEN {cb} ELSE {}
  BY <1>1 DEF Calling, Filled, Fields
<1>5. (p /\ cb.reply) \in BOOLEAN /\ Replied(p /\ cb.reply)
  BY <1>4, ReplyingIs
<1>6. sends' \in [Senders -> 0..MaxSends] /\ (p /\ cb.reply => Reply \in Bytes)
  BY <1>1, <1>5, RepliedIs
<1>7. /\ r \in Fields /\ FieldsOK(r) /\ MayShut(k, r)
      /\ r.in <= k.in + arrived
      /\ r.out = IF p /\ cb.reply THEN Append(k.out, Reply) ELSE k.out
      /\ k.status = "DISCONNECTED" \/ peer = "rst" => r.status = "DISCONNECTED"
  BY <1>2, <1>3, <1>6, HasReadIs
<1>8. r.in <= got
  <2>1. r.in \in Nat /\ got \in Nat
    BY <1>1, <1>7, FieldTypes, Constants DEF TypesOK
  <2> HIDE DEF r
  <2> QED BY <1>3, <1>7, <2>1
<1>9. Ordered(written, k, sends)
  BY <1>1, <1>2 DEF Ordered
<1> HIDE DEF r
<1>10. Ordered(written, r, sends')
  <2> SUFFICES ASSUME NEW m, m = sends' PROVE Ordered(written, r, m)
    OBVIOUS
  <2> DEFINE b == p /\ cb.reply
  <2>1. b \in BOOLEAN /\ (b => sends[Loop] < MaxSends)
        /\ m = [sends EXCEPT ![Loop] = IF b THEN @ + 1 ELSE @]
    BY <1>5 DEF Replied
  <2>2. /\ r.out = IF b /\ k.status # "DISCONNECTED"
                   THEN Append(k.out, <<Loop, sends[Loop] + 1>>) ELSE k.out
        /\ k.status = "DISCONNECTED" => r.status = "DISCONNECTED"
    BY <1>2, <1>7 DEF Reply
  <2>3. written \in Seq(Bytes) /\ sends \in [Senders -> 0..MaxSends]
    BY <1>1 DEF TypesOK
  <2> HIDE DEF b
  <2> QED BY <1>2, <1>7, <1>9, <2>1, <2>2, <2>3, RepliedOrdered
<1> QED BY <1>6, <1>7, <1>8, <1>10 DEF r, k

LEMMA ReadKeeps ==
    ASSUME IInv, NEW cb \in Callbacks, Read(cb)
    PROVE  Kept
<1> DEFINE r == HasRead(Refreshed(conn), cb)
<1>1. /\ r \in Fields /\ FieldsOK(r) /\ r.in <= got /\ Ordered(written, r, sends')
      /\ sends' \in [Senders -> 0..MaxSends]
  BY ReadIs DEF Read
<1>2. conn' = r /\ arrived' = 0 /\ peer' = peer /\ written' = written
  BY DEF Read
<1> HIDE DEF r
<1>3. r.in + 0 <= got
  BY <1>1, FieldTypes
<1> QED BY <1>1, <1>2, <1>3 DEF Kept, IInv, TypesOK

\* The write that may follow a read, or an event of its own.
LEMMA TakingIs ==
    ASSUME NEW k \in Fields, FieldsOK(k), k.status # "DISCONNECTED", written \in Seq(Bytes),
           NEW m, m = sends', Ordered(written, k, m), Taking(k)
    PROVE  /\ conn' \in Fields /\ FieldsOK(conn') /\ conn'.in = k.in
           /\ written' \in Seq(Bytes) /\ Ordered(written', conn', m)
<1>1. PICK n \in 1..Len(k.out) :
        conn' = Wrote(k, n) /\ written' = written \o SubSeq(k.out, 1, n)
  BY DEF Taking
<1>2. k.out # <<>>
  BY <1>1, FieldTypes, EmptySeq
<1>3. "out" \in k.events /\ k.polled
  BY <1>2 DEF FieldsOK
<1> DEFINE r == Wrote(k, n)
<1>4. /\ r \in Fields /\ FieldsOK(r) /\ r.in = k.in /\ r.tasks = k.tasks
      /\ r.out = SubSeq(k.out, n + 1, Len(k.out))
  BY <1>3, WroteIs
<1> HIDE DEF r
<1>5. /\ written \o SubSeq(k.out, 1, n) \in Seq(Bytes)
      /\ Ordered(written \o SubSeq(k.out, 1, n), r, m)
  BY <1>4, WroteOrdered
<1> QED BY <1>1, <1>4, <1>5 DEF r

LEMMA ReadWriteKeeps ==
    ASSUME IInv, NEW cb \in Callbacks, ReadWrite(cb)
    PROVE  Kept
<1> DEFINE r == HasRead(Refreshed(conn), cb)
<1>1. /\ r \in Fields /\ FieldsOK(r) /\ r.in <= got /\ Ordered(written, r, sends')
      /\ sends' \in [Senders -> 0..MaxSends]
  BY ReadIs DEF ReadWrite
<1>2. /\ arrived' = 0 /\ peer' = peer
      /\ IF r.status = "DISCONNECTED" THEN conn' = r /\ written' = written ELSE Taking(r)
  BY DEF ReadWrite
<1> HIDE DEF r
<1>3. written \in Seq(Bytes)
  BY DEF IInv, TypesOK
<1>4. /\ conn' \in Fields /\ FieldsOK(conn') /\ conn'.in = r.in
      /\ written' \in Seq(Bytes) /\ Ordered(written', conn', sends')
  BY <1>1, <1>2, <1>3, TakingIs
<1>5. conn'.in + 0 <= got
  BY <1>1, <1>4, FieldTypes
<1> QED BY <1>1, <1>2, <1>4, <1>5 DEF Kept, IInv, TypesOK

LEMMA WriteKeeps ==
    ASSUME IInv, Write
    PROVE  Kept
<1> DEFINE k == Refreshed(conn)
<1>1. /\ conn \in Fields /\ FieldsOK(conn) /\ conn.polled /\ Ordered(written, conn, sends)
      /\ written \in Seq(Bytes) /\ sends' = sends /\ sends \in [Senders -> 0..MaxSends]
      /\ arrived' = arrived /\ arrived \in Nat /\ conn.in + arrived <= got
  BY DEF IInv, TypesOK, Write
<1>2. k \in Fields /\ FieldsOK(k) /\ k.in = conn.in /\ k.out = conn.out /\ k.tasks = conn.tasks
      /\ k.status = conn.status /\ conn.status # "DISCONNECTED"
  BY <1>1, RefreshedAlike DEF Alike, FieldsOK
<1>3. \/ Taking(k) /\ peer' = peer
      \/ conn' = CutOff(k) /\ peer' = "rst" /\ written' = written
  BY DEF Write
<1> HIDE DEF k
<1>4. Ordered(written, k, sends)
  BY <1>1, <1>2 DEF Ordered
<1>5. CASE Taking(k) /\ peer' = peer
  <2>1. /\ conn' \in Fields /\ FieldsOK(conn') /\ conn'.in = k.in
        /\ written' \in Seq(Bytes) /\ Ordered(written', conn', sends')
    BY <1>1, <1>2, <1>4, <1>5, TakingIs
  <2> QED BY <1>1, <1>2, <1>5, <2>1 DEF Kept, IInv, TypesOK
<1>6. CASE conn' = CutOff(k) /\ peer' = "rst" /\ written' = written
  <2> DEFINE r == CutOff(k)
  <2>1. /\ r \in Fields /\ FieldsOK(r) /\ r.in = k.in /\ r.out = k.out /\ r.tasks = k.tasks
        /\ r.status = "DISCONNECTED"
    BY <1>2, CutOffAlike DEF Alike
  <2> HIDE DEF r
  <2>2. Ordered(written, r, sends)
    BY <1>4, <2>1 DEF Ordered
  <2> QED BY <1>1, <1>2, <1>6, <2>1, <2>2 DEF Kept, r
<1> QED BY <1>3, <1>5, <1>6

LEMMA ReadErrorKeeps ==
    ASSUME IInv, NEW cb \in Callbacks, NEW cb2 \in Callbacks, ReadError(cb, cb2)
    PROVE  Kept
<1> DEFINE k == HasRead(Refreshed(conn), cb)
           r == ClosedBy(k, cb2)
<1>1. /\ k \in Fields /\ FieldsOK(k) /\ k.in <= got /\ k.status = "DISCONNECTED"
      /\ Ordered(written, k, sends') /\ sends' \in [Senders -> 0..MaxSends]
  BY ReadIs DEF ReadError
<1>2. conn' = r /\ arrived' = 0 /\ peer' = peer /\ written' = written
  BY DEF ReadError
<1> HIDE DEF k
<1>3. /\ r \in Fields /\ FieldsOK(r) /\ r.in <= k.in /\ r.status = "DISCONNECTED"
      /\ r.out = k.out
  BY <1>1, ClosedByIs
<1> HIDE DEF r
<1>4. r.in + 0 <= got
  <2>1. r.in \in Nat /\ k.in \in Nat /\ got \in Nat
    BY <1>1, <1>3, FieldTypes, Constants DEF IInv, TypesOK
  <2> QED BY <1>1, <1>3, <2>1
<1>5. Ordered(written, r, sends')
  BY <1>1, <1>3 DEF Ordered
<1> QED BY <1>1, <1>2, <1>3, <1>4, <1>5 DEF Kept, IInv, TypesOK

LEMMA HangUpKeeps ==
    ASSUME IInv, NEW cb \in Callbacks, HangUp(cb)
    PROVE  Kept
<1> DEFINE k == Refreshed(conn)
           p == conn.in > 0
           b == p /\ cb.reply
           r == ClosedBy(k, cb)
<1>1. /\ conn \in Fields /\ FieldsOK(conn) /\ conn.polled /\ Ordered(written, conn, sends)
      /\ written \in Seq(Bytes) /\ sends \in [Senders -> 0..MaxSends] /\ TypesOK
      /\ arrived' = arrived /\ arrived \in Nat /\ conn.in + arrived <= got /\ peer' = peer
      /\ written' = written /\ conn' = r /\ Replying(IF p THEN {cb} ELSE {})
  BY DEF IInv, TypesOK, HangUp
<1>2. k \in Fields /\ FieldsOK(k) /\ k.in = conn.in /\ k.out = conn.out /\ k.tasks = conn.tasks
      /\ k.status = conn.status /\ conn.status # "DISCONNECTED"
  BY <1>1, RefreshedAlike DEF Alike, FieldsOK
<1> HIDE DEF k
<1>3. Ordered(written, k, sends)
  BY <1>1, <1>2 DEF Ordered
<1>4. b \in BOOLEAN /\ Replied(b)
  BY <1>1, ReplyingIs
<1>5. sends' \in [Senders -> 0..MaxSends] /\ (b => Reply \in Bytes)
  BY <1>1, <1>4, RepliedIs
<1>6. /\ r \in Fields /\ FieldsOK(r) /\ r.in <= k.in /\ r.status = k.status
      /\ r.out = IF b THEN Append(k.out, Reply) ELSE k.out
  BY <1>2, <1>5, ClosedByIs
<1>7. PICK c \in Fields :
        /\ MayShut(k, c) /\ c.out = r.out /\ c.status = k.status
        /\ r.tasks = Append(c.tasks, [op |-> "release"])
  BY <1>2, <1>5, ClosedByIs
<1> HIDE DEF r
<1>8. r.in + arrived <= got
  <2>1. r.in \in Nat /\ k.in \in Nat /\ got \in Nat
    BY <1>1, <1>2, <1>6, FieldTypes, Constants DEF TypesOK
  <2> QED BY <1>1, <1>2, <1>6, <2>1
<1>9. Ordered(written, r, sends')
  <2> SUFFICES ASSUME NEW m, m = sends' PROVE Ordered(written, r, m)
    OBVIOUS
  <2>1. (b => sends[Loop] < MaxSends) /\ m = [sends EXCEPT ![Loop] = IF b THEN @ + 1 ELSE @]
    BY <1>4 DEF Replied
  <2>2. /\ c.out = IF b /\ k.status # "DISCONNECTED"
                   THEN Append(k.out, <<Loop, sends[Loop] + 1>>) ELSE k.out
        /\ k.status = "DISCONNECTED" => c.status = "DISCONNECTED"
    BY <1>2, <1>6, <1>7 DEF Reply
  <2> HIDE DEF b
  <2>3. Ordered(written, c, m)
    BY <1>1, <1>2, <1>3, <1>4, <1>7, <2>1, <2>2, RepliedOrdered
  <2>4. m \in [Senders -> 0..MaxSends] /\ "release" \in Operations
    BY <1>5 DEF Operations
  <2> QED BY <1>1, <1>6, <1>7, <2>3, <2>4, AlikeOrdered
<1> QED BY <1>1, <1>5, <1>6, <1>8, <1>9 DEF Kept, TypesOK

LEMMA HandleEventKeeps ==
    ASSUME IInv, HandleEvent
    PROVE  IInv'
<1>1. Kept
  <2>1. \/ \E cb \in Callbacks :
             \/ HangUp(cb)
             \/ Read(cb)
             \/ ReadWrite(cb)
             \/ \E cb2 \in Callbacks : ReadError(cb, cb2)
        \/ Write
    BY DEF HandleEvent
  <2> QED BY <2>1, HangUpKeeps, ReadKeeps, ReadWriteKeeps, ReadErrorKeeps, WriteKeeps
<1>2. /\ due' = Len(conn'.tasks) /\ setup' = setup /\ got' = got
      /\ setup \in {"enable", "establish", "connect", "done"} /\ got \in 0..MaxArrive
  BY DEF HandleEvent, IInv, TypesOK
<1>3. due' \in 0..Len(conn'.tasks)
  <2>1. conn'.tasks \in Seq(Tasks)
    BY <1>1, FieldTypes DEF Kept
  <2>2. Len(conn'.tasks) \in Nat
    BY <2>1, LenProperties
  <2> QED BY <1>2, <2>2
<1>4. TypesOK'
  BY <1>1, <1>2, <1>3 DEF Kept, TypesOK
<1> QED BY <1>1, <1>4 DEF Kept, IInv

-----------------------------------------------------------------------------
(* Tasks, other threads and the other end.                                 *)

\* What a task that is run or queued leaves of the connection.
ConnKept ==
    /\ conn' \in Fields /\ FieldsOK(conn') /\ conn'.in = conn.in
    /\ due' \in 0..Len(conn'.tasks)
    /\ Ordered(written', conn', sends')

LEMMA ConnKeptKeeps ==
    ASSUME IInv, ConnKept,
           setup' \in {"enable", "establish", "connect", "done"},
           peer' \in {"none", "up", "fin", "rst"},
           arrived' = arrived, got' = got, written' = written,
           sends' \in [Senders -> 0..MaxSends]
    PROVE  IInv'
BY DEF IInv, TypesOK, ConnKept

\* The first task leaves the queue and the function it calls is run.
LEMMA TaskRuns ==
    ASSUME IInv, conn.tasks # <<>>,
           ~(Head(conn.tasks).op = "establish" /\ conn.status # "CONNECTING"),
           NEW k, k = [conn EXCEPT !.tasks = Tail(@)],
           NEW r, r = Task(k, Head(conn.tasks))
    PROVE  /\ r \in Fields /\ FieldsOK(r) /\ r.in = conn.in /\ Len(r.tasks) = Len(conn.tasks) - 1
           /\ Ordered(written, r, sends)
<1> DEFINE t == conn.tasks
           h == Head(t)
           s == written \o conn.out
<1>1. /\ conn \in Fields /\ FieldsOK(conn) /\ Ordered(written, conn, sends)
      /\ written \in Seq(Bytes) /\ sends \in [Senders -> 0..MaxSends]
      /\ t \in Seq(Tasks) /\ t # <<>> /\ s \in Seq(Bytes) /\ conn.out \in Seq(Bytes)
  <2>1. /\ conn \in Fields /\ FieldsOK(conn) /\ Ordered(written, conn, sends)
        /\ written \in Seq(Bytes) /\ sends \in [Senders -> 0..MaxSends]
    BY DEF IInv, TypesOK
  <2> QED BY <2>1, FieldTypes, ConcatProperties
<1>2. h \in Tasks /\ Tail(t) \in Seq(Tasks) /\ Len(Tail(t)) = Len(t) - 1
  BY <1>1, HeadTailProperties, EmptySeq
<1>3. h.op \in Operations /\ (h.op = "send" => h.byte \in Bytes)
  BY <1>2, TasksAre
<1>4. /\ k \in Fields /\ k.status = conn.status /\ k.in = conn.in /\ k.out = conn.out
      /\ k.tasks = Tail(t) /\ FieldsOK(k)
  <2>1. k \in Fields
    BY <1>1, <1>2 DEF Fields
  <2> QED BY <1>1, <2>1 DEF Fields, FieldsOK
<1> HIDE DEF h
<1>5. CASE h.op = "send"
  <2> SUFFICES ASSUME NEW b \in Bytes, b = h.byte
               PROVE  /\ r \in Fields /\ FieldsOK(r) /\ r.in = conn.in
                      /\ Len(r.tasks) = Len(conn.tasks) - 1 /\ Ordered(written, r, sends)
    BY <1>3, <1>5
  <2>1. r = Sent(k, b)
    BY <1>5 DEF Task, h
  <2>2. /\ r \in Fields /\ FieldsOK(r) /\ r.in = k.in /\ r.status = k.status /\ r.tasks = k.tasks
        /\ r.out = IF k.status = "DISCONNECTED" THEN k.out ELSE Append(k.out, b)
    <3>1. /\ Sent(k, b) \in Fields /\ FieldsOK(Sent(k, b))
          /\ Sent(k, b).in = k.in /\ Sent(k, b).status = k.status /\ Sent(k, b).tasks = k.tasks
          /\ Sent(k, b).out = IF k.status = "DISCONNECTED" THEN k.out ELSE Append(k.out, b)
      <4>1. k \in Fields /\ FieldsOK(k) /\ b \in Bytes
        BY <1>4
      <4> QED BY <4>1, SentIs
    <3> QED BY <2>1, <3>1
  <2>3. CASE k.status = "DISCONNECTED"
    BY <1>1, <1>2, <1>4, <2>2, <2>3 DEF Ordered
  <2>4. CASE k.status # "DISCONNECTED"
    <3>1. InSendOrder(s) /\ Coming(s, t, sends)
      BY <1>1, <1>4, <2>4 DEF Ordered
    <3>2. written \o Append(conn.out, b) = Append(s, b)
      BY <1>1, AppendedLater
    <3>3. r.out = Append(conn.out, b)
      BY <1>4, <2>2, <2>4
    <3> HIDE DEF s, t
    <3>4. Append(s, b) \in Seq(Bytes)
      BY <1>1, AppendProperties
    <3>5. InSendOrder(Append(s, b)) /\ Coming(Append(s, b), Tail(t), sends)
      BY <1>1, <1>5, <3>1, <3>4, TailComing DEF h
    <3> QED BY <1>2, <1>4, <2>2, <3>2, <3>3, <3>5 DEF Ordered, t
  <2> QED BY <2>3, <2>4
<1>6. CASE h.op # "send"
  <2>1. Alike(k, r)
    <3>1. CASE h.op = "establish"
      <4>1. conn.status = "CONNECTING"
        BY <3>1 DEF h
      <4> QED BY <1>4, <3>1, <4>1, EstablishedIs DEF Task, h
    <3>2. CASE h.op = "shutdown"
      BY <1>4, <3>2, ShutDownAlike DEF Task, h
    <3>3. CASE h.op = "release"
      BY <1>4, <3>3, CutOffAlike DEF Task, h
    <3>4. CASE h.op = "enable"
      BY <1>4, <3>4, EnabledAlike DEF Task, h
    <3>5. CASE h.op = "cancel"
      BY <1>4, <3>5, CancelledAlike DEF Task, h
    <3> QED BY <1>3, <1>6, <3>1, <3>2, <3>3, <3>4, <3>5 DEF Operations
  <2>2. /\ r \in Fields /\ FieldsOK(r) /\ r.in = k.in /\ r.out = k.out /\ r.tasks = k.tasks
        /\ k.status = "DISCONNECTED" => r.status = "DISCONNECTED"
    BY <2>1 DEF Alike
  <2>3. InSendOrder(s)
    BY <1>1 DEF Ordered
  <2>4. ASSUME r.status # "DISCONNECTED" PROVE Coming(s, Tail(t), sends)
    <3>1. Coming(s, t, sends)
      BY <1>1, <1>4, <2>2, <2>4 DEF Ordered
    <3> HIDE DEF s, t
    <3> QED BY <1>1, <1>6, <2>3, <3>1, TailComing DEF h
  <2> QED BY <1>2, <1>4, <2>2, <2>3, <2>4 DEF Ordered
<1> QED BY <1>5, <1>6

LEMMA RunTaskKeeps ==
    ASSUME IInv, RunTask
    PROVE  IInv'
<1> DEFINE k == [conn EXCEPT !.tasks = Tail(@)]
           r == Task(k, Head(conn.tasks))
           n == Len(conn.tasks)
<1>1. n \in Nat /\ n > 0 /\ due \in 0..n
  <2>1. conn.tasks \in Seq(Tasks) /\ conn.tasks # <<>> /\ due \in 0..n
    BY FieldTypes DEF IInv, TypesOK, RunTask
  <2> QED BY <2>1, LenProperties, EmptySeq
<1>2. due' = IF due = 0 THEN 0 ELSE due - 1
  BY DEF RunTask
<1>3. due' \in 0..n - 1 /\ due' \in 0..n
  BY <1>1, <1>2
<1>4. /\ setup' = setup /\ peer' = peer /\ arrived' = arrived /\ got' = got
      /\ written' = written /\ sends' = sends
  BY DEF RunTask
<1>5. CASE Head(conn.tasks).op = "establish" /\ conn.status # "CONNECTING"
  <2>1. conn' = conn
    BY <1>5 DEF RunTask
  <2> QED BY <1>3, <1>4, <2>1 DEF IInv, TypesOK
<1>6. CASE ~(Head(conn.tasks).op = "establish" /\ conn.status # "CONNECTING")
  <2>1. conn' = r /\ conn.tasks # <<>>
    BY <1>6 DEF RunTask
  <2>2. /\ r \in Fields /\ FieldsOK(r) /\ r.in = conn.in /\ Len(r.tasks) = n - 1
        /\ Ordered(written, r, sends)
    BY <1>6, <2>1, TaskRuns
  <2> HIDE DEF r
  <2>3. ConnKept
    BY <1>3, <1>4, <2>1, <2>2 DEF ConnKept
  <2> QED BY <1>4, <2>3, ConnKeptKeeps DEF IInv, TypesOK
<1> QED BY <1>5, <1>6

\* A task is queued: a thread's send of its next byte, or another one.
LEMMA QueuedKeeps ==
    ASSUME IInv, NEW k \in Fields, Alike(conn, k), k.status = conn.status, NEW a \in Tasks,
           conn' = Queued(k, a), due' = due, written' = written,
           NEW m, m = sends',
           \/ a.op # "send" /\ m = sends
           \/ /\ a.op = "send" /\ a.byte[1] \in Users
              /\ a.byte = <<a.byte[1], sends[a.byte[1]] + 1>>
              /\ m = [sends EXCEPT ![a.byte[1]] = @ + 1]
    PROVE  ConnKept
<1> DEFINE r == Queued(k, a)
           s == written \o conn.out
           t == conn.tasks
<1>1. /\ conn \in Fields /\ FieldsOK(conn) /\ Ordered(written, conn, sends)
      /\ written \in Seq(Bytes) /\ sends \in [Senders -> 0..MaxSends]
      /\ due \in 0..Len(t)
  BY DEF IInv, TypesOK
<1>2. t \in Seq(Tasks) /\ s \in Seq(Bytes)
  BY <1>1, FieldTypes, ConcatProperties
<1>3. FieldsOK(k) /\ k.in = conn.in /\ k.out = conn.out /\ k.tasks = conn.tasks
  BY DEF Alike
<1>4. /\ r \in Fields /\ FieldsOK(r) /\ r.in = conn.in /\ r.out = conn.out /\ r.status = conn.status
      /\ r.tasks = Append(t, a)
  BY <1>3, QueuedIs
<1> HIDE DEF r, t
<1>5. due \in 0..Len(r.tasks)
  <2>1. Len(Append(t, a)) = Len(t) + 1 /\ Len(t) \in Nat
    BY <1>2, AppendProperties, LenProperties
  <2> QED BY <1>1, <1>4, <2>1 DEF t
<1>6. Ordered(written, r, m)
  <2>1. InSendOrder(s)
    BY <1>1 DEF Ordered
  <2>2. ASSUME conn.status # "DISCONNECTED" PROVE Coming(s, Append(t, a), m)
    <3>1. Coming(s, t, sends)
      BY <1>1, <2>2 DEF Ordered, t
    <3> HIDE DEF s
    <3> QED BY <1>1, <1>2, <3>1, QueuedComing
  <2> QED BY <1>4, <2>1, <2>2 DEF Ordered
<1> QED BY <1>4, <1>5, <1>6 DEF ConnKept, r

LEMMA SelfAlike == ASSUME IInv PROVE conn \in Fields /\ Alike(conn, conn)
BY DEF IInv, TypesOK, Alike

LEMMA SetUpKeeps ==
    ASSUME IInv, SetUp
    PROVE  IInv'
<1> DEFINE o == IF setup = "connect" THEN "establish" ELSE setup
           a == [op |-> o]
<1>1. o \in Operations /\ o # "send"
  BY DEF SetUp, Operations
<1>2. a \in Tasks /\ a.op # "send"
  BY <1>1, TasksAre
<1>3. conn' = Queued(conn, a) /\ due' = due /\ written' = written /\ sends' = sends
  BY DEF SetUp
<1> HIDE DEF a
<1>4. ConnKept
  BY <1>2, <1>3, SelfAlike, QueuedKeeps
<1> QED BY <1>4, ConnKeptKeeps DEF SetUp, IInv, TypesOK

LEMMA SendKeeps ==
    ASSUME IInv, NEW u \in Users, Send(u)
    PROVE  IInv'
<1> DEFINE b == <<u, sends[u] + 1>>
           a == [op |-> "send", byte |-> b]
<1>1. sends[u] \in 0..MaxSends /\ sends[u] < MaxSends /\ u \in Senders /\ MaxSends \in Nat
  BY Constants DEF Send, IInv, TypesOK
<1>2. sends[u] + 1 \in 1..MaxSends /\ sends[u] + 1 \in 0..MaxSends
  BY <1>1
<1>3. b \in Bytes /\ b[1] = u
  BY <1>1, <1>2, ByteIs
<1>4. /\ a \in Tasks /\ a.op = "send" /\ a.byte[1] = u
      /\ a.byte = <<a.byte[1], sends[a.byte[1]] + 1>>
  BY <1>3, TasksAre
<1>5. conn' = Queued(conn, a) /\ due' = due /\ written' = written /\ sends' = [sends EXCEPT ![u] = @ + 1]
  BY DEF Send
<1> HIDE DEF a, b
<1>6. ConnKept
  <2>1. sends' = [sends EXCEPT ![a.byte[1]] = @ + 1] /\ a.byte[1] \in Users
    BY <1>4, <1>5
  <2> QED BY <1>4, <1>5, <2>1, SelfAlike, QueuedKeeps
<1>7. sends' \in [Senders -> 0..MaxSends]
  BY <1>1, <1>2, <1>5 DEF IInv, TypesOK
<1> QED BY <1>6, <1>7, ConnKeptKeeps DEF Send, IInv, TypesOK

LEMMA CallKeeps ==
    ASSUME IInv, NEW op \in {"shutdown", "release", "enable", "cancel"}, Call(op)
    PROVE  IInv'
<1> DEFINE a == [op |-> op]
<1>1. a \in Tasks /\ a.op # "send"
  BY TasksAre DEF Operations
<1>2. conn' = Queued(conn, a) /\ due' = due /\ written' = written /\ sends' = sends
  BY DEF Call
<1> HIDE DEF a
<1>3. ConnKept
  BY <1>1, <1>2, SelfAlike, QueuedKeeps
<1> QED BY <1>3, ConnKeptKeeps DEF Call, IInv, TypesOK

LEMMA TickKeeps ==
    ASSUME IInv, Tick
    PROVE  IInv'
<1>1. conn \in Fields /\ FieldsOK(conn) /\ conn.timer \in 1..Timeout /\ Timeout \in Nat
  BY FieldTypes, Constants DEF IInv, TypesOK, Tick
<1>2. ASSUME NEW x \in {NoTimer} \cup 1..Timeout
      PROVE  LET k == [conn EXCEPT !.timer = x] IN
               k \in Fields /\ Alike(conn, k) /\ k.status = conn.status
  <2> DEFINE k == [conn EXCEPT !.timer = x]
  <2>1. k \in Fields
    BY <1>1 DEF Fields
  <2> QED BY <1>1, <2>1 DEF Fields, Alike, FieldsOK
<1>3. ConnKept
  <2>1. due' = due /\ written' = written /\ sends' = sends
    BY DEF Tick
  <2>2. CASE conn.timer = 1
    <3> DEFINE k == [conn EXCEPT !.timer = NoTimer]
    <3>1. k \in Fields /\ Alike(conn, k) /\ k.status = conn.status
      BY <1>2
    <3>2. conn' = Queued(k, [op |-> "release"])
      BY <2>2 DEF Tick
    <3> HIDE DEF k
    <3>3. [op |-> "release"] \in Tasks /\ [op |-> "release"].op # "send"
      BY TasksAre
    <3> QED BY <2>1, <3>1, <3>2, <3>3, QueuedKeeps
  <2>3. CASE conn.timer # 1
    <3> DEFINE k == [conn EXCEPT !.timer = conn.timer - 1]
    <3>1. conn.timer - 1 \in {NoTimer} \cup 1..Timeout
      BY <1>1, <2>3
    <3>2. k \in Fields /\ Alike(conn, k) /\ k.status = conn.status
      BY <1>2, <3>1
    <3>3. conn' = k
      BY <2>3 DEF Tick
    <3> HIDE DEF k
    <3>4. k.in = conn.in /\ k.out = conn.out /\ k.tasks = conn.tasks /\ FieldsOK(k)
      BY <3>2 DEF Alike
    <3>5. Ordered(written, k, sends)
      BY <3>2, <3>4 DEF IInv, Ordered
    <3> QED BY <2>1, <3>2, <3>3, <3>4, <3>5 DEF ConnKept, IInv, TypesOK
  <2> QED BY <2>2, <2>3
<1> QED BY <1>3, ConnKeptKeeps DEF Tick, IInv, TypesOK

\* The other end, and a Connect that fails, leave the connection as it is.
LEMMA OthersKeep ==
    ASSUME IInv, ConnectFails \/ PeerSends \/ PeerReads \/ PeerCloses \/ UNCHANGED vars
    PROVE  IInv'
<1>1. /\ conn' = conn /\ due' = due /\ written' = written /\ sends' = sends
      /\ setup' \in {setup, "done"}
      /\ peer' \in {peer, "fin", "rst"}
  BY DEF ConnectFails, PeerSends, PeerReads, PeerCloses, vars
<1>2. /\ conn \in Fields /\ setup \in {"enable", "establish", "connect", "done"}
      /\ peer \in {"none", "up", "fin", "rst"}
      /\ arrived \in Nat /\ got \in 0..MaxArrive /\ conn.in + arrived <= got
      /\ due \in 0..Len(conn.tasks) /\ written \in Seq(Bytes) /\ sends \in [Senders -> 0..MaxSends]
  BY DEF IInv, TypesOK
<1>3. arrived' \in Nat /\ got' \in 0..MaxArrive /\ conn.in + arrived' <= got'
  <2>1. CASE PeerSends
    <3>1. got < MaxArrive /\ got' = got + 1 /\ arrived' = arrived + 1
      BY <2>1 DEF PeerSends
    <3>2. conn.in \in Nat /\ MaxArrive \in Nat
      BY <1>2, FieldTypes, Constants
    <3> QED BY <1>2, <3>1, <3>2
  <2>2. CASE ConnectFails \/ PeerReads \/ PeerCloses \/ UNCHANGED vars
    <3>1. got' = got /\ arrived' = arrived
      BY <2>2 DEF ConnectFails, PeerReads, PeerCloses, vars
    <3> QED BY <1>2, <3>1
  <2> QED BY <2>1, <2>2
<1>4. TypesOK'
  BY <1>1, <1>2, <1>3 DEF TypesOK
<1> QED BY <1>1, <1>4 DEF IInv

-----------------------------------------------------------------------------
(* The inductive invariant holds.                                          *)

LEMMA InitHolds == Init => IInv
<1> SUFFICES ASSUME Init PROVE IInv
  OBVIOUS
<1>1. conn = Fresh /\ arrived = 0 /\ got = 0 /\ due = 0 /\ written = <<>>
      /\ sends = [u \in Senders |-> 0] /\ kind \in {"server", "timed", "client"}
  BY ConnectionAssumption DEF Init
<1>2. /\ <<>> \in Seq(Bytes) /\ <<>> \in Seq(Tasks) /\ Len(<<>>) = 0 /\ <<>> \o <<>> = <<>>
      /\ 0 \in 0..MaxArrive /\ 0 \in 0..MaxSends /\ 0 \in 0..0 /\ 0 + 0 <= 0
      /\ "CONNECTING" \in Statuses /\ {} \in SUBSET {"in", "out"} /\ NoTimer \in {NoTimer} \cup 1..Timeout
  BY Constants, EmptySeq, ConcatEmptySeq DEF Statuses
<1>3. Fresh \in Fields
  BY <1>2 DEF Fresh, Fields
<1>4. FieldsOK(Fresh)
  BY DEF Fresh, FieldsOK
<1>5. Fresh.out = <<>> /\ Fresh.tasks = <<>> /\ Fresh.in = 0
  BY DEF Fresh
<1>6. InSendOrder(<<>>)
  BY <1>2 DEF InSendOrder
<1>7. Coming(<<>>, <<>>, sends)
  <2>1. \A u \in Senders : sends[u] = 0
    BY <1>1
  <2>2. Counted(<<>>, <<>>, sends)
    BY <1>2, <2>1, Constants DEF Counted
  <2> QED BY <1>2, <2>2 DEF Coming
<1>8. /\ setup \in {"enable", "establish", "connect", "done"}
      /\ peer \in {"none", "up", "fin", "rst"}
  BY <1>1 DEF Init
<1>9. TypesOK
  BY <1>1, <1>2, <1>3, <1>5, <1>8 DEF TypesOK
<1> QED BY <1>1, <1>2, <1>4, <1>5, <1>6, <1>7, <1>9 DEF IInv, Ordered

LEMMA NextKeeps == IInv /\ [Next]_vars => IInv'
<1> SUFFICES ASSUME IInv, [Next]_vars PROVE IInv'
  OBVIOUS
<1>1. CASE HandleEvent
  BY <1>1, HandleEventKeeps
<1>2. CASE RunTask
  BY <1>2, RunTaskKeeps
<1>3. CASE SetUp
  BY <1>3, SetUpKeeps
<1>4. CASE \E u \in Users : Send(u)
  BY <1>4, SendKeeps
<1>5. CASE \E op \in {"shutdown", "release", "enable", "cancel"} : Call(op)
  BY <1>5, CallKeeps
<1>6. CASE Tick
  BY <1>6, TickKeeps
<1>7. CASE ConnectFails \/ PeerSends \/ PeerReads \/ PeerCloses \/ UNCHANGED vars
  BY <1>7, OthersKeep
<1> QED BY <1>1, <1>2, <1>3, <1>4, <1>5, <1>6, <1>7 DEF Next

\* The inductive invariant: the fields agree with one another between any two
\* of Connection's functions, and the bytes taken over and those still queued
\* continue one another.
THEOREM Invariance == Spec => []IInv
BY InitHolds, NextKeeps, PTL DEF Spec

\* However shutdowns, releases, timers, errors and the other end race, a
\* connection is established at most once and its close callbacks run once,
\* when its Channel has left the poller.
THEOREM EstablishedAndClosedOnce == Spec => []ClosedOnce
<1>1. IInv => ClosedOnce
  <2> SUFFICES ASSUME IInv PROVE ClosedOnce
    OBVIOUS
  <2>1. conn \in Fields /\ FieldsOK(conn) /\ TypesOK
    BY DEF IInv, TypesOK
  <2>2. ASSUME NEW i \in DOMAIN conn.tasks PROVE conn.tasks[i].op \in Operations
    <3>1. conn.tasks \in Seq(Tasks) /\ i \in 1..Len(conn.tasks)
      BY <2>1, FieldTypes, LenProperties
    <3>2. conn.tasks[i] \in Tasks
      BY <3>1, ElementOfSeq
    <3> QED BY <3>2, TasksAre
  <2>3. TypeOK
    BY <2>1, <2>2, FieldTypes DEF TypeOK, TypesOK
  <2> QED BY <2>1, <2>3 DEF ClosedOnce, FieldsOK
<1> QED BY <1>1, Invariance, PTL

\* Output is watched for exactly while there is some, and a connection that
\* shuts down is closed only when all of it is written.
THEOREM WrittenBeforeClosed == Spec => []GracefulFlush
<1>1. IInv => GracefulFlush
  BY DEF IInv, FieldsOK, GracefulFlush, OutputWatched
<1> QED BY <1>1, Invariance, PTL

\* The bytes of each thread are written in the order the thread sent them,
\* none left out, whatever the partial writes between them.
THEOREM OrderIsKept == Spec => []SendsKeepOrder
<1>1. IInv => SendsKeepOrder
  BY DEF IInv, Ordered, SendsKeepOrder
<1> QED BY <1>1, Invariance, PTL

-----------------------------------------------------------------------------
(* Framing: the invariant.                                                 *)

SentFrames == [from : Nat, size : Nat \ {0}, kind : FrameKinds]
PartKinds == Lines \cup {"keep", "length", "field", "badfield", "blank", "body"}
Parts == [from : Nat, size : Nat \ {0}, kind : PartKinds, request : Nat \ {0}]

\* The messages are frames, or parts of requests, one behind the other.
StreamOK ==
    /\ sent \in Seq(SentFrames \cup Parts)
    /\ Framed => \A i \in DOMAIN sent : sent[i] \in SentFrames /\ sent[i].size >= 3 * Field
    /\ ~Framed => \A i \in DOMAIN sent : sent[i] \in Parts
    /\ \A i \in DOMAIN sent : sent[i].from = IF i = 1 THEN 0 ELSE End(i - 1)
    /\ \A i, j \in DOMAIN sent : i < j => End(i) <= sent[j].from

\* The buffer b holds the last of the t bytes that were read.
Window(b, t) ==
    /\ b \in [cells : Seq(0..t), read : Nat, write : Nat]
    /\ b.read <= b.write /\ b.write <= Capacity(b) /\ ReadableSize(b) <= t
    /\ \A k \in 1..ReadableSize(b) : b.cells[b.read + k] = t - ReadableSize(b) + k

PlacesInStream == {Total} \cup {sent[i].from : i \in DOMAIN sent}

HandedOver(i) ==
    /\ TakenWhole(i)
    /\ sent[i].kind = "fine" \/ (sent[i].kind = "refused" /\ role = "server")

\* Where decoding stands, and what it has handed over.
GivenOK ==
    /\ Adrift \/ Position \in PlacesInStream
    /\ Adrift => refused
    /\ GivenStray => Adrift
    /\ given \in Seq({Handed(i) : i \in DOMAIN sent} \cup {Stray})
    /\ {given[k] : k \in DOMAIN given} \ {Stray} =
            {Handed(i) : i \in {i \in DOMAIN sent : HandedOver(i)}}
    /\ \A k, l \in DOMAIN given : k < l =>
            \/ given[l] = Stray
            \/ given[k] # Stray /\ given[k].bytes[1] < given[l].bytes[1]

FramingTypes ==
    /\ role \in {"server", "client", "http"}
    /\ delivered \in 0..Total /\ taken \in 0..delivered
    /\ stage \in {"idle", "reading", "decode", "crashed"}
    /\ refused \in BOOLEAN /\ open \in BOOLEAN

FramingInv ==
    /\ FramingTypes /\ StreamOK
    /\ Window(buffer, taken)
    /\ Framed => GivenOK
    /\ RefusedForCause

-----------------------------------------------------------------------------
(* Framing: lemmas on the buffer.                                          *)

LEMMA SeqOf ==
    ASSUME NEW S, NEW n \in Nat, NEW f \in [1..n -> S]
    PROVE  f \in Seq(S) /\ Len(f) = n /\ DOMAIN f = 1..n
<1>1. f \in Seq(S)
  BY SeqDef
<1>2. DOMAIN f = 1..n
  OBVIOUS
<1> QED BY <1>1, <1>2, LenProperties

LEMMA Facts ==
    ASSUME NEW t \in Nat, NEW b, Window(b, t)
    PROVE  /\ b.cells \in Seq(0..t) /\ Len(b.cells) \in Nat /\ DOMAIN b.cells = 1..Len(b.cells)
           /\ b.read \in Nat /\ b.write \in Nat /\ ReadableSize(b) \in 0..t
           /\ b.read + ReadableSize(b) = b.write /\ b.write <= Len(b.cells)
<1>1. b.cells \in Seq(0..t) /\ b.read \in Nat /\ b.write \in Nat
  BY DEF Window
<1>2. Len(b.cells) \in Nat /\ DOMAIN b.cells = 1..Len(b.cells)
  BY <1>1, LenProperties
<1> QED BY <1>1, <1>2 DEF Window, ReadableSize, Capacity

LEMMA CopiedIs ==
    ASSUME NEW t \in Nat, NEW b, Window(b, t), NEW cells \in Seq(0..t),
           ReadableSize(b) <= Len(cells)
    PROVE  Window([cells |-> Copied(b, cells), read |-> 0, write |-> ReadableSize(b)], t)
<1> DEFINE c == Copied(b, cells)
           w == [cells |-> c, read |-> 0, write |-> ReadableSize(b)]
<1>1. Len(cells) \in Nat /\ DOMAIN cells = 1..Len(cells) /\ \A i \in DOMAIN cells : cells[i] \in 0..t
  BY LenProperties, ElementOfSeq
<1>2. \A i \in 1..ReadableSize(b) : b.cells[b.read + i] \in 0..t
  <2>1. SUFFICES ASSUME NEW i \in 1..ReadableSize(b) PROVE b.cells[b.read + i] \in 0..t
    OBVIOUS
  <2>2. b.read + i \in 1..Len(b.cells)
    BY Facts
  <2> QED BY <2>2, Facts, ElementOfSeq
<1>3. c \in [1..Len(cells) -> 0..t]
  BY <1>1, <1>2, Facts DEF Copied
<1>4. c \in Seq(0..t) /\ Len(c) = Len(cells)
  BY <1>1, <1>3, SeqOf
<1>5. ReadableSize(w) = ReadableSize(b) /\ ReadableSize(b) \in 0..t
  BY Facts DEF ReadableSize
<1>6. \A k \in 1..ReadableSize(b) : c[k] = b.cells[b.read + k]
  BY <1>1, <1>5 DEF Copied
<1> HIDE DEF c
<1>7. \A k \in 1..ReadableSize(w) : w.cells[w.read + k] = t - ReadableSize(w) + k
  BY <1>5, <1>6 DEF Window
<1>8. /\ w \in [cells : Seq(0..t), read : Nat, write : Nat]
      /\ w.cells = c /\ w.read = 0 /\ w.write = ReadableSize(b)
  BY <1>4, <1>5
<1> HIDE DEF w
<1>9. w.read <= w.write /\ w.write <= Capacity(w) /\ ReadableSize(w) <= t
  BY <1>4, <1>5, <1>8 DEF Capacity
<1>10. Window(w, t)
  BY <1>7, <1>8, <1>9 DEF Window
<1> QED BY <1>10 DEF w, c

LEMMA EnsuredIs ==
    ASSUME NEW t \in Nat, NEW b, Window(b, t), NEW n \in Nat
    PROVE  /\ Window(Ensured(b, n), t)
           /\ ReadableSize(Ensured(b, n)) = ReadableSize(b)
           /\ Ensured(b, n).write + n <= Capacity(Ensured(b, n))
<1>1. CASE TailIdleSize(b) >= n
  BY <1>1, Facts DEF Ensured, TailIdleSize, Capacity
<1>2. CASE ~(TailIdleSize(b) >= n) /\ WriteableSize(b) >= n
  <2>1. Ensured(b, n) = Compacted(b)
    BY <1>2 DEF Ensured
  <2>2. Len(Copied(b, b.cells)) = Len(b.cells)
    <3>1. DOMAIN Copied(b, b.cells) = 1..Len(b.cells)
      BY Facts DEF Copied
    <3>2. Window(Compacted(b), t)
      BY Facts, CopiedIs DEF Compacted
    <3>3. Len(Compacted(b).cells) \in Nat /\ DOMAIN Compacted(b).cells = 1..Len(Compacted(b).cells)
      BY <3>2, Facts
    <3>4. Compacted(b).cells = Copied(b, b.cells)
      BY DEF Compacted
    <3>5. 1..Len(Copied(b, b.cells)) = 1..Len(b.cells) /\ Len(Copied(b, b.cells)) \in Nat
      BY <3>1, <3>3, <3>4
    <3> QED BY <3>5, Facts
  <2>3. Window(Compacted(b), t)
    BY Facts, CopiedIs DEF Compacted
  <2>4. ReadableSize(Compacted(b)) = ReadableSize(b)
    BY Facts DEF Compacted, ReadableSize
  <2>5. Compacted(b).write + n <= Capacity(Compacted(b))
    BY <1>2, <2>2, Facts DEF Compacted, Capacity, WriteableSize, TailIdleSize
  <2> QED BY <2>1, <2>3, <2>4, <2>5
<1>3. CASE ~(TailIdleSize(b) >= n) /\ ~(WriteableSize(b) >= n)
  <2> DEFINE N == Larger(b, n)
             z == [i \in 1..N |-> 0]
             g == Grown(b, n)
  <2>1. Ensured(b, n) = g
    BY <1>3 DEF Ensured
  <2>2. N \in Nat /\ ReadableSize(b) + n <= N
    BY Facts DEF Larger, Capacity
  <2>3. z \in Seq(0..t) /\ Len(z) = N
    <3>1. z \in [1..N -> 0..t]
      OBVIOUS
    <3> HIDE DEF z, N
    <3> QED BY <2>2, <3>1, SeqOf
  <2>4. Window(g, t)
    <3>1. g = [cells |-> Copied(b, z), read |-> 0, write |-> ReadableSize(b)]
      BY DEF Grown
    <3> HIDE DEF z, N, g
    <3>2. ReadableSize(b) <= Len(z)
      BY <2>2, <2>3, Facts
    <3> QED BY <2>3, <3>1, <3>2, CopiedIs
  <2>5. Len(g.cells) = N
    <3>1. DOMAIN g.cells = 1..N
      BY DEF Grown, Copied
    <3> HIDE DEF N, g, z
    <3>2. Len(g.cells) \in Nat /\ DOMAIN g.cells = 1..Len(g.cells)
      BY <2>4, Facts
    <3> QED BY <2>2, <3>1, <3>2
  <2>6. ReadableSize(g) = ReadableSize(b) /\ g.write = ReadableSize(b)
    BY Facts DEF Grown, ReadableSize
  <2> HIDE DEF g, N, z
  <2> QED BY <2>1, <2>2, <2>4, <2>5, <2>6 DEF Capacity
<1> QED BY <1>1, <1>2, <1>3

\* The n bytes read next go on where the window ends.
LEMMA PushedIs ==
    ASSUME taken \in Nat, NEW b, Window(b, taken), NEW n \in Nat
    PROVE  /\ Window(Pushed(b, n), taken + n)
           /\ ReadableSize(Pushed(b, n)) = ReadableSize(b) + n
<1> DEFINE e == Ensured(b, n)
           c == [i \in DOMAIN e.cells |-> IF i \in (e.write + 1)..(e.write + n)
                                          THEN taken + i - e.write ELSE e.cells[i]]
           w == Pushed(b, n)
<1>1. /\ Window(e, taken) /\ ReadableSize(e) = ReadableSize(b)
      /\ e.write + n <= Capacity(e)
  BY EnsuredIs
<1> HIDE DEF e
<1>2. /\ e.cells \in Seq(0..taken) /\ Len(e.cells) \in Nat /\ DOMAIN e.cells = 1..Len(e.cells)
      /\ e.read \in Nat /\ e.write \in Nat /\ ReadableSize(e) \in 0..taken
      /\ e.read + ReadableSize(e) = e.write /\ e.write + n <= Len(e.cells)
  BY <1>1, Facts DEF Capacity
<1>3. w = [e EXCEPT !.cells = c, !.write = e.write + n]
  <2>1. e \in [cells : Seq(0..taken), read : Nat, write : Nat]
    BY <1>1 DEF Window
  <2> QED BY <2>1 DEF Pushed, e
<1>4. w.cells = c /\ w.read = e.read /\ w.write = e.write + n
      /\ (c \in Seq(0..taken + n) => w \in [cells : Seq(0..taken + n), read : Nat, write : Nat])
  <2>1. e \in [cells : Seq(0..taken), read : Nat, write : Nat]
    BY <1>1 DEF Window
  <2> HIDE DEF c
  <2>2. /\ w.cells = c /\ w.read = e.read /\ w.write = e.write + n
        /\ w = [cells |-> c, read |-> e.read, write |-> e.write + n]
    BY <1>3, <2>1 DEF Window
  <2> HIDE DEF w
  <2> QED BY <1>2, <2>2
<1>5. c \in [1..Len(e.cells) -> 0..taken + n]
  <2>1. \A i \in 1..Len(e.cells) : e.cells[i] \in 0..taken
    BY <1>2, ElementOfSeq
  <2>2. ASSUME NEW i \in 1..Len(e.cells)
        PROVE  (IF i \in (e.write + 1)..(e.write + n)
                THEN taken + i - e.write ELSE e.cells[i]) \in 0..taken + n
    <3>1. CASE i \in (e.write + 1)..(e.write + n)
      <4>1. i \in Int /\ e.write + 1 <= i /\ i <= e.write + n
        BY <1>2, <3>1
      <4>2. taken + i - e.write \in 0..taken + n
        <5>1. \A x, y \in Nat : y + 1 <= i /\ i <= y + n => x + i - y \in 0..x + n
          BY <4>1
        <5> QED BY <1>2, <4>1, <5>1
      <4> QED BY <3>1, <4>2
    <3>2. CASE i \notin (e.write + 1)..(e.write + n)
      BY <2>1, <3>2
    <3> QED BY <3>1, <3>2
  <2> QED BY <1>2, <2>2
<1>6. c \in Seq(0..taken + n) /\ Len(c) = Len(e.cells)
  <2> HIDE DEF c
  <2>1. taken + n \in Nat
    OBVIOUS
  <2> QED BY <1>2, <1>5, <2>1, SeqOf
<1>7. ReadableSize(w) = ReadableSize(b) + n
  BY <1>1, <1>2, <1>4 DEF ReadableSize
<1>8. ASSUME NEW k \in 1..ReadableSize(w)
      PROVE  w.cells[w.read + k] = (taken + n) - ReadableSize(w) + k
  <2>1. e.read + k \in 1..Len(e.cells)
    BY <1>1, <1>2, <1>7, <1>8
  <2>2. CASE k <= ReadableSize(e)
    <3>1. c[e.read + k] = e.cells[e.read + k]
      BY <1>2, <2>1, <2>2
    <3>2. e.cells[e.read + k] = taken - ReadableSize(e) + k
      BY <1>1, <1>2, <1>8, <2>2 DEF Window
    <3> QED BY <1>1, <1>2, <1>4, <1>7, <3>1, <3>2
  <2>3. CASE ~(k <= ReadableSize(e))
    <3>1. e.read + k \in (e.write + 1)..(e.write + n)
      BY <1>1, <1>2, <1>7, <1>8, <2>3
    <3>2. c[e.read + k] = taken + (e.read + k) - e.write
      BY <1>2, <2>1, <3>1
    <3> QED BY <1>1, <1>2, <1>4, <1>7, <3>2
  <2> QED BY <2>2, <2>3
<1> HIDE DEF w, c
<1>9. /\ w.read <= w.write /\ w.write <= Capacity(w) /\ ReadableSize(w) <= taken + n
      /\ w \in [cells : Seq(0..taken + n), read : Nat, write : Nat]
  BY <1>1, <1>2, <1>4, <1>6, <1>7 DEF Capacity
<1>10. Window(w, taken + n)
  BY <1>8, <1>9 DEF Window
<1> QED BY <1>7, <1>10 DEF w

\* A buffer with nothing in it starts over; HttpServer drops what there is.
LEMMA DroppedIs ==
    ASSUME NEW t \in Nat, NEW b, Window(b, t)
    PROVE  /\ Window([b EXCEPT !.read = 0, !.write = 0], t)
           /\ ReadableSize([b EXCEPT !.read = 0, !.write = 0]) = 0
<1> DEFINE w == [b EXCEPT !.read = 0, !.write = 0]
<1>1. b \in [cells : Seq(0..t), read : Nat, write : Nat]
  BY DEF Window
<1>2. /\ w \in [cells : Seq(0..t), read : Nat, write : Nat]
      /\ w.cells = b.cells /\ w.read = 0 /\ w.write = 0
  BY <1>1
<1> HIDE DEF w
<1>3. ReadableSize(w) = 0
  BY <1>2 DEF ReadableSize
<1>4. Window(w, t)
  BY <1>2, <1>3, Facts DEF Window, Capacity
<1> QED BY <1>3, <1>4 DEF w

LEMMA PoppedIs ==
    ASSUME NEW t \in Nat, NEW b, Window(b, t), NEW n \in 0..ReadableSize(b)
    PROVE  /\ Window(Popped(b, n), t)
           /\ ReadableSize(Popped(b, n)) = ReadableSize(b) - n
<1>1. b \in [cells : Seq(0..t), read : Nat, write : Nat]
  BY DEF Window
<1>2. CASE b.read + n = b.write
  <2>1. Popped(b, n) = [b EXCEPT !.read = 0, !.write = 0]
    BY <1>2 DEF Popped
  <2>2. n = ReadableSize(b)
    BY <1>2, Facts
  <2>3. ReadableSize(b) - n = 0
    BY <2>2, Facts
  <2> QED BY <2>1, <2>3, DroppedIs
<1>3. CASE b.read + n # b.write
  <2>1. Popped(b, n) = [b EXCEPT !.read = b.read + n]
    BY <1>1, <1>3 DEF Popped
  <2> DEFINE w == [b EXCEPT !.read = b.read + n]
  <2>2. /\ w \in [cells : Seq(0..t), read : Nat, write : Nat]
        /\ w.cells = b.cells /\ w.read = b.read + n /\ w.write = b.write
    BY <1>1, Facts
  <2> HIDE DEF w
  <2>3. ReadableSize(w) = ReadableSize(b) - n
    BY <2>2, Facts DEF ReadableSize
  <2>4. ASSUME NEW k \in 1..ReadableSize(w)
        PROVE  w.cells[w.read + k] = t - ReadableSize(w) + k
    <3>1. n + k \in 1..ReadableSize(b) /\ w.read + k = b.read + (n + k)
      BY <2>2, <2>3, Facts
    <3>2. b.cells[b.read + (n + k)] = t - ReadableSize(b) + (n + k)
      BY <3>1 DEF Window
    <3>3. ReadableSize(b) \in Nat
      BY Facts
    <3> QED BY <2>2, <2>3, <3>1, <3>2, <3>3
  <2>5. w.read <= w.write /\ w.write <= Capacity(w) /\ ReadableSize(w) <= t
    BY <2>2, <2>3, Facts DEF Capacity, ReadableSize
  <2> QED BY <2>1, <2>2, <2>3, <2>4, <2>5 DEF Window, w
<1> QED BY <1>2, <1>3

\* Contents, as BufferIsWindow puts it.
LEMMA ContentsAre ==
    ASSUME NEW t \in Nat, NEW b, Window(b, t)
    PROVE  Contents(b) = [k \in 1..ReadableSize(b) |-> t - ReadableSize(b) + k]
<1> DEFINE c == Contents(b)
           f == [k \in 1..ReadableSize(b) |-> t - ReadableSize(b) + k]
<1>1. /\ b.cells \in Seq(0..t) /\ b.read \in Nat /\ b.write \in Nat /\ ReadableSize(b) \in 0..t
      /\ b.read + ReadableSize(b) = b.write /\ b.write <= Len(b.cells)
  BY Facts
<1>2. \A i \in b.read + 1..b.write : b.cells[i] \in 0..t
  BY <1>1, Facts, ElementOfSeq
<1>3. /\ c \in Seq(0..t)
      /\ Len(c) = ReadableSize(b)
      /\ \A i \in 1..ReadableSize(b) : c[i] = b.cells[b.read + i]
  <2>1. b.read + 1 \in Int /\ b.write \in Int
    BY <1>1
  <2>2. /\ c \in Seq(0..t)
        /\ Len(c) = IF b.read + 1 <= b.write THEN b.write - (b.read + 1) + 1 ELSE 0
        /\ \A i \in 1..b.write - (b.read + 1) + 1 : c[i] = b.cells[b.read + 1 + i - 1]
    <3>1. \A s : (\A i \in b.read + 1..b.write : s[i] \in 0..t) =>
              /\ SubSeq(s, b.read + 1, b.write) \in Seq(0..t)
              /\ Len(SubSeq(s, b.read + 1, b.write))
                    = IF b.read + 1 <= b.write THEN b.write - (b.read + 1) + 1 ELSE 0
              /\ \A i \in 1..b.write - (b.read + 1) + 1 :
                    SubSeq(s, b.read + 1, b.write)[i] = s[b.read + 1 + i - 1]
      BY <2>1, SubSeqProperties
    <3> QED BY <1>2, <3>1, Zenon DEF Contents
  <2> HIDE DEF c
  <2>3. \A i \in 1..ReadableSize(b) : /\ i \in 1..b.write - (b.read + 1) + 1
                                      /\ b.read + 1 + i - 1 = b.read + i
    BY <1>1
  <2>4. Len(c) = ReadableSize(b)
    BY <1>1, <2>2
  <2>5. \A i \in 1..ReadableSize(b) : c[i] = b.cells[b.read + i]
    BY <2>2, <2>3
  <2> QED BY <2>2, <2>4, <2>5
<1>4. f \in Seq(0..t) /\ Len(f) = ReadableSize(b)
  <2>1. f \in [1..ReadableSize(b) -> 0..t] /\ ReadableSize(b) \in Nat
    BY <1>1
  <2> HIDE DEF f
  <2> QED BY <2>1, SeqOf
<1>5. \A i \in 1..Len(c) : c[i] = f[i]
  BY <1>1, <1>3 DEF Window
<1> HIDE DEF c, f
<1>6. c = f
  BY <1>3, <1>4, <1>5, SeqEqual
<1> QED BY <1>6 DEF c, f

-----------------------------------------------------------------------------
(* Framing: lemmas on the stream.                                          *)

LEMMA StreamFacts ==
    ASSUME StreamOK
    PROVE  /\ Len(sent) \in Nat /\ DOMAIN sent = 1..Len(sent) /\ Total \in Nat
           /\ \A i \in DOMAIN sent :
                /\ sent[i] \in SentFrames \cup Parts
                /\ sent[i].from \in Nat /\ sent[i].size \in Nat \ {0}
                /\ End(i) \in Nat /\ End(i) = sent[i].from + sent[i].size /\ End(i) <= Total
                /\ sent[i].from < End(i)
<1>1. sent \in Seq(SentFrames \cup Parts)
  BY DEF StreamOK
<1>2. Len(sent) \in Nat /\ DOMAIN sent = 1..Len(sent)
  BY <1>1, LenProperties
<1>3. ASSUME NEW i \in DOMAIN sent
      PROVE  /\ sent[i] \in SentFrames \cup Parts
             /\ sent[i].from \in Nat /\ sent[i].size \in Nat \ {0}
             /\ End(i) \in Nat /\ End(i) = sent[i].from + sent[i].size
             /\ sent[i].from < End(i)
  <2>1. sent[i] \in SentFrames \cup Parts
    BY <1>1, <1>2, ElementOfSeq
  <2>2. sent[i].from \in Nat /\ sent[i].size \in Nat \ {0}
    BY <2>1 DEF SentFrames, Parts
  <2> QED BY <2>1, <2>2 DEF End
<1>4. Total \in Nat
  <2>1. CASE sent = <<>>
    BY <2>1 DEF Total
  <2>2. CASE sent # <<>>
    <3>1. Len(sent) \in DOMAIN sent
      BY <1>1, <1>2, <2>2, EmptySeq
    <3> QED BY <1>3, <2>2, <3>1 DEF Total
  <2> QED BY <2>1, <2>2
<1>5. ASSUME NEW i \in DOMAIN sent PROVE End(i) <= Total
  <2>1. sent # <<>> /\ Len(sent) \in DOMAIN sent
    BY <1>2
  <2>2. Total = End(Len(sent))
    BY <2>1 DEF Total
  <2>3. CASE i = Len(sent)
    BY <1>3, <2>2, <2>3
  <2>4. CASE i # Len(sent)
    <3>1. End(i) <= sent[Len(sent)].from
      BY <1>2, <2>1, <2>4 DEF StreamOK
    <3>2. sent[Len(sent)].from < End(Len(sent))
      BY <1>3, <2>1
    <3>3. End(i) \in Nat /\ End(Len(sent)) \in Nat /\ sent[Len(sent)].from \in Nat
      BY <1>3, <2>1
    <3> QED BY <2>2, <3>1, <3>2, <3>3
  <2> QED BY <2>3, <2>4
<1> QED BY <1>2, <1>3, <1>4, <1>5

\* Messages lie apart.
LEMMA Apart ==
    ASSUME StreamOK
    PROVE  /\ \A i, j \in DOMAIN sent : i < j => End(i) <= sent[j].from
           /\ \A i, j \in DOMAIN sent : i < j => sent[i].from < sent[j].from
           /\ \A i, j \in DOMAIN sent : sent[i].from = sent[j].from => i = j
           /\ \A i, j \in DOMAIN sent : sent[i].from < sent[j].from => i < j /\ End(i) <= sent[j].from
           /\ \A i \in DOMAIN sent : i + 1 \in DOMAIN sent => sent[i + 1].from = End(i)
           /\ \A i \in DOMAIN sent : i + 1 \notin DOMAIN sent => Total = End(i)
           /\ \A i \in DOMAIN sent : End(i) \in PlacesInStream
<1>1. \A i, j \in DOMAIN sent : i < j => End(i) <= sent[j].from
  BY DEF StreamOK
<1>2. \A i, j \in DOMAIN sent : i < j => sent[i].from < sent[j].from
  <2>1. SUFFICES ASSUME NEW i \in DOMAIN sent, NEW j \in DOMAIN sent, i < j
                 PROVE  sent[i].from < sent[j].from
    OBVIOUS
  <2>2. /\ sent[i].from \in Nat /\ sent[j].from \in Nat /\ End(i) \in Nat
        /\ sent[i].from < End(i) /\ End(i) <= sent[j].from
    BY <1>1, <2>1, StreamFacts
  <2> QED BY <2>2
<1>3. \A i, j \in DOMAIN sent :
        /\ sent[i].from = sent[j].from => i = j
        /\ sent[i].from < sent[j].from => i < j
  <2>1. SUFFICES ASSUME NEW i \in DOMAIN sent, NEW j \in DOMAIN sent
                 PROVE  /\ sent[i].from = sent[j].from => i = j
                        /\ sent[i].from < sent[j].from => i < j
    OBVIOUS
  <2>2. sent[i].from \in Nat /\ sent[j].from \in Nat /\ i \in Nat /\ j \in Nat
    BY StreamFacts
  <2>3. i < j \/ i = j \/ j < i
    BY <2>2
  <2>4. i < j => sent[i].from < sent[j].from
    BY <1>2
  <2>5. j < i => sent[j].from < sent[i].from
    BY <1>2
  <2> QED BY <2>2, <2>3, <2>4, <2>5
<1>4. ASSUME NEW i \in DOMAIN sent
      PROVE  /\ i + 1 \in DOMAIN sent => sent[i + 1].from = End(i)
             /\ i + 1 \notin DOMAIN sent => Total = End(i)
  <2>1. i \in 1..Len(sent) /\ Len(sent) \in Nat /\ DOMAIN sent = 1..Len(sent)
    BY StreamFacts
  <2>2. CASE i + 1 \in DOMAIN sent
    <3>1. i + 1 # 1 /\ (i + 1) - 1 = i
      BY <2>1
    <3>2. sent[i + 1].from = IF i + 1 = 1 THEN 0 ELSE End((i + 1) - 1)
      BY <2>2 DEF StreamOK
    <3> QED BY <2>2, <3>1, <3>2
  <2>3. CASE i + 1 \notin DOMAIN sent
    <3>1. i = Len(sent) /\ sent # <<>>
      BY <2>1, <2>3
    <3> QED BY <2>3, <3>1 DEF Total
  <2> QED BY <2>2, <2>3
<1>5. \A i \in DOMAIN sent : End(i) \in PlacesInStream
  BY <1>4 DEF PlacesInStream
<1> QED BY <1>1, <1>2, <1>3, <1>4, <1>5

\* The peer appends m.
LEMMA StreamGrows ==
    ASSUME StreamOK, role' = role, NEW m \in SentFrames \cup Parts, m.from = Total,
           sent' = Append(sent, m),
           Framed => m \in SentFrames /\ m.size >= 3 * Field,
           ~Framed => m \in Parts
    PROVE  /\ StreamOK'
           /\ DOMAIN sent \subseteq DOMAIN sent' /\ Len(sent') = Len(sent) + 1
           /\ DOMAIN sent' = DOMAIN sent \cup {Len(sent) + 1}
           /\ \A i \in DOMAIN sent : sent'[i] = sent[i]
           /\ sent'[Len(sent) + 1] = m
           /\ Total' = Total + m.size
           /\ PlacesInStream \subseteq PlacesInStream'
<1>1. sent \in Seq(SentFrames \cup Parts)
  BY DEF StreamOK
<1>2. /\ Len(sent) \in Nat /\ DOMAIN sent = 1..Len(sent) /\ Total \in Nat
      /\ \A i \in DOMAIN sent : End(i) \in Nat /\ End(i) <= Total
  BY StreamFacts
<1>3. /\ sent' \in Seq(SentFrames \cup Parts) /\ sent' # <<>> /\ Len(sent') = Len(sent) + 1
      /\ \A i \in DOMAIN sent : sent'[i] = sent[i]
      /\ sent'[Len(sent) + 1] = m
  BY <1>1, <1>2, AppendProperties
<1>4. DOMAIN sent' = 1..(Len(sent) + 1) /\ DOMAIN sent' = DOMAIN sent \cup {Len(sent) + 1}
  <2>1. DOMAIN sent' = 1..Len(sent')
    BY <1>3, LenProperties
  <2> QED BY <1>2, <1>3, <2>1
<1>5. m.size \in Nat \ {0} /\ m.from = Total
  BY DEF SentFrames, Parts
<1>6. \A i \in DOMAIN sent : End(i)' = End(i)
  BY <1>3 DEF End
<1>7. Total' = Total + m.size
  BY <1>3, <1>5 DEF Total, End
<1>8. \A i \in DOMAIN sent' : sent'[i].from = IF i = 1 THEN 0 ELSE End(i - 1)'
  <2>1. SUFFICES ASSUME NEW i \in DOMAIN sent'
                 PROVE  sent'[i].from = IF i = 1 THEN 0 ELSE End(i - 1)'
    OBVIOUS
  <2>2. CASE i \in DOMAIN sent
    <3>1. i # 1 => i - 1 \in DOMAIN sent
      BY <1>2, <2>2
    <3>2. sent[i].from = IF i = 1 THEN 0 ELSE End(i - 1)
      BY <2>2 DEF StreamOK
    <3> QED BY <1>3, <1>6, <2>2, <3>1, <3>2
  <2>3. CASE i = Len(sent) + 1
    <3>1. CASE sent = <<>>
      BY <1>3, <1>5, <2>3, <3>1 DEF Total
    <3>2. CASE sent # <<>>
      <4>1. Len(sent) \in DOMAIN sent /\ i # 1 /\ i - 1 = Len(sent)
        BY <1>1, <1>2, <2>3, <3>2, EmptySeq
      <4> QED BY <1>3, <1>5, <1>6, <2>3, <3>2, <4>1 DEF Total
    <3> QED BY <3>1, <3>2
  <2> QED BY <1>4, <2>2, <2>3
<1>9. \A i, j \in DOMAIN sent' : i < j => End(i)' <= sent'[j].from
  <2>1. SUFFICES ASSUME NEW i \in DOMAIN sent', NEW j \in DOMAIN sent', i < j
                 PROVE  End(i)' <= sent'[j].from
    OBVIOUS
  <2>2. i \in DOMAIN sent
    BY <1>2, <1>4, <2>1
  <2>3. CASE j \in DOMAIN sent
    BY <1>3, <1>6, <2>1, <2>2, <2>3 DEF StreamOK
  <2>4. CASE j = Len(sent) + 1
    BY <1>2, <1>3, <1>5, <1>6, <2>2, <2>4
  <2> QED BY <1>4, <2>3, <2>4
<1>10. /\ Framed' => \A i \in DOMAIN sent' : sent'[i] \in SentFrames /\ sent'[i].size >= 3 * Field
       /\ ~Framed' => \A i \in DOMAIN sent' : sent'[i] \in Parts
  <2>1. Framed' <=> Framed
    BY DEF Framed
  <2>2. /\ Framed => \A i \in DOMAIN sent : sent[i] \in SentFrames /\ sent[i].size >= 3 * Field
        /\ ~Framed => \A i \in DOMAIN sent : sent[i] \in Parts
    BY DEF StreamOK
  <2> QED BY <1>3, <1>4, <2>1, <2>2
<1>11. StreamOK'
  BY <1>3, <1>8, <1>9, <1>10 DEF StreamOK
<1>12. PlacesInStream \subseteq PlacesInStream'
  <2>1. \A i \in DOMAIN sent : sent[i].from \in PlacesInStream'
    BY <1>3, <1>4 DEF PlacesInStream
  <2>2. Total \in PlacesInStream'
    <3>1. sent'[Len(sent) + 1].from = Total /\ Len(sent) + 1 \in DOMAIN sent'
      BY <1>3, <1>4, <1>5
    <3> QED BY <3>1 DEF PlacesInStream
  <2> QED BY <2>1, <2>2 DEF PlacesInStream
<1> QED BY <1>3, <1>4, <1>7, <1>11, <1>12

\* The message at whose first byte the buffer begins.
LEMMA FirstIs ==
    ASSUME StreamOK, FramingTypes, Window(buffer, taken), Position \in PlacesInStream,
           ReadableSize(buffer) > 0
    PROVE  \E i \in DOMAIN sent : sent[i].from = Position /\ First = {i}
<1>1. /\ taken \in Nat /\ Total \in Nat /\ taken <= Total
  BY StreamFacts DEF FramingTypes
<1>2. ReadableSize(buffer) \in Nat
  BY <1>1, Facts
<1>3. PICK i \in DOMAIN sent : sent[i].from = Position
  BY <1>1, <1>2 DEF PlacesInStream, Position
<1>4. buffer.cells[buffer.read + 1] = Position + 1
  BY <1>1, <1>2 DEF Window, Position
<1>5. First = {i}
  <2>1. \A j \in DOMAIN sent : sent[j].from \in Nat
    BY StreamFacts
  <2>2. \A j \in DOMAIN sent : sent[j].from + 1 = Position + 1 <=> j = i
    <3>1. \A j \in DOMAIN sent : sent[j].from + 1 = sent[i].from + 1 => sent[j].from = sent[i].from
      BY <2>1
    <3> QED BY <1>3, <3>1, Apart
  <2>3. DOMAIN sent = 1..Len(sent)
    BY StreamFacts
  <2> QED BY <1>4, <2>2, <2>3 DEF First
<1> QED BY <1>3, <1>5

\* What is unread is at most what was read.
LEMMA PositionIs ==
    ASSUME StreamOK, FramingTypes, Window(buffer, taken)
    PROVE  /\ taken \in Nat /\ Total \in Nat /\ taken <= Total
           /\ ReadableSize(buffer) \in Nat /\ Position \in Nat
           /\ Position + ReadableSize(buffer) = taken /\ Position <= Total
<1>1. /\ taken \in Nat /\ Total \in Nat /\ taken <= Total
  BY StreamFacts DEF FramingTypes
<1>2. ReadableSize(buffer) \in 0..taken
  BY <1>1, Facts
<1> QED BY <1>1, <1>2 DEF Position

-----------------------------------------------------------------------------
(* Framing: one lemma per action.                                          *)

\* The buffer's place in a stream that only grows.
LEMMA AdriftKept ==
    ASSUME StreamOK, FramingTypes, Window(buffer, taken), Position' = Position,
           StreamOK', DOMAIN sent \subseteq DOMAIN sent',
           \A i \in DOMAIN sent : sent'[i] = sent[i],
           \A i \in DOMAIN sent' \ DOMAIN sent : Total <= sent'[i].from
    PROVE  Adrift' <=> Adrift
<1>1. Position \in Nat /\ Total \in Nat /\ Position <= Total
  BY PositionIs
<1>2. ASSUME NEW i \in DOMAIN sent' \ DOMAIN sent PROVE ~(sent'[i].from < Position)
  <2>1. sent' \in Seq(SentFrames \cup Parts)
    BY DEF StreamOK
  <2>2. sent'[i] \in SentFrames \cup Parts
    BY <2>1, LenProperties, ElementOfSeq
  <2>3. sent'[i].from \in Nat /\ Total <= sent'[i].from
    BY <2>2 DEF SentFrames, Parts
  <2> QED BY <1>1, <2>3
<1> QED BY <1>2 DEF Adrift

\* Reading, and what the peer sends, do not touch what was handed over.
LEMMA GivenKept ==
    ASSUME StreamOK, FramingTypes, Window(buffer, taken), GivenOK,
           role' = role, given' = given, Position' = Position, refused => refused',
           StreamOK', DOMAIN sent \subseteq DOMAIN sent',
           \A i \in DOMAIN sent : sent'[i] = sent[i],
           \A i \in DOMAIN sent' \ DOMAIN sent : Total <= sent'[i].from /\ Total < End(i)',
           PlacesInStream \subseteq PlacesInStream'
    PROVE  GivenOK'
<1>1. \A i \in DOMAIN sent :
        Handed(i)' = Handed(i) /\ End(i)' = End(i) /\ (HandedOver(i)' <=> HandedOver(i))
  <2>1. \A i \in DOMAIN sent : 1..i \subseteq DOMAIN sent
    BY StreamFacts
  <2> QED BY <2>1 DEF Handed, End, HandedOver, TakenWhole
<1>2. \A i \in DOMAIN sent' \ DOMAIN sent : ~HandedOver(i)'
  <2>1. SUFFICES ASSUME NEW i \in DOMAIN sent' \ DOMAIN sent PROVE ~(End(i)' <= Position')
    BY DEF HandedOver, TakenWhole
  <2>2. End(i)' \in Nat
    <3>1. sent' \in Seq(SentFrames \cup Parts)
      BY DEF StreamOK
    <3>2. sent'[i] \in SentFrames \cup Parts
      BY <3>1, LenProperties, ElementOfSeq
    <3> QED BY <3>2 DEF End, SentFrames, Parts
  <2> QED BY <2>2, PositionIs
<1>3. {Handed(i)' : i \in {i \in DOMAIN sent' : HandedOver(i)'}}
        = {Handed(i) : i \in {i \in DOMAIN sent : HandedOver(i)}}
  BY <1>1, <1>2
<1>4. given' \in Seq({Handed(i)' : i \in DOMAIN sent'} \cup {Stray})
  <2>1. {Handed(i) : i \in DOMAIN sent} \cup {Stray}
          \subseteq {Handed(i)' : i \in DOMAIN sent'} \cup {Stray}
    BY <1>1
  <2>2. given \in Seq({Handed(i) : i \in DOMAIN sent} \cup {Stray})
    BY DEF GivenOK
  <2> QED BY <2>1, <2>2, SeqMonotonic
<1>5. Adrift' <=> Adrift
  BY AdriftKept
<1>6. GivenStray' <=> GivenStray
  BY DEF GivenStray
<1>7. (Adrift \/ Position \in PlacesInStream) /\ (Adrift => refused) /\ (GivenStray => Adrift)
  BY DEF GivenOK
<1>8. /\ Adrift' \/ Position' \in PlacesInStream'
      /\ Adrift' => refused'
      /\ GivenStray' => Adrift'
  BY <1>5, <1>6, <1>7
<1> QED BY <1>3, <1>4, <1>8 DEF GivenOK

\* A refusal's cause stays, however the stream and the reading go on.
LEMMA CauseKept ==
    ASSUME StreamOK, FramingTypes, Window(buffer, taken), role' = role,
           DOMAIN sent \subseteq DOMAIN sent', \A i \in DOMAIN sent : sent'[i] = sent[i],
           Position' \in Nat, taken' \in Nat, Position <= Position', taken <= taken'
    PROVE  \A i \in DOMAIN sent : (Refusable(i) => Refusable(i)') /\ (Deadly(i) => Deadly(i)')
<1>1. Position \in Nat /\ taken \in Nat /\ Limit \in Nat
  BY PositionIs, FramingAssumption
<1>2. ASSUME NEW i \in DOMAIN sent
      PROVE  /\ sent[i].from < Position => sent'[i].from < Position'
             /\ taken - sent[i].from > Limit => taken' - sent'[i].from > Limit
  <2>1. sent[i].from \in Nat /\ sent'[i].from = sent[i].from
    BY StreamFacts
  <2> QED BY <1>1, <2>1
<1>3. ASSUME NEW i \in DOMAIN sent, NEW kinds PROVE Met(i, kinds) => Met(i, kinds)'
  BY <1>2, <1>3 DEF Met
<1> QED BY <1>2, <1>3 DEF Refusable, Deadly

LEMMA RefusalKept ==
    ASSUME StreamOK, FramingTypes, Window(buffer, taken), role' = role,
           DOMAIN sent \subseteq DOMAIN sent', \A i \in DOMAIN sent : sent'[i] = sent[i],
           Position' \in Nat, taken' \in Nat, Position <= Position', taken <= taken',
           RefusedForCause, Framed /\ refused' => refused,
           Framed /\ stage' = "crashed" => stage = "crashed"
    PROVE  RefusedForCause'
<1>1. Framed' <=> Framed
  BY DEF Framed
<1>2. \A i \in DOMAIN sent : (Refusable(i) => Refusable(i)') /\ (Deadly(i) => Deadly(i)')
  BY CauseKept
<1>3. ASSUME Framed, refused' PROVE \E i \in DOMAIN sent' : Refusable(i)'
  BY <1>2, <1>3 DEF RefusedForCause
<1>4. ASSUME Framed, stage' = "crashed" PROVE \E i \in DOMAIN sent' : Deadly(i)'
  BY <1>2, <1>4 DEF RefusedForCause
<1> QED BY <1>1, <1>3, <1>4 DEF RefusedForCause

LEMMA FramingInit_Inv == FramingInit => FramingInv
<1> SUFFICES ASSUME FramingInit PROVE FramingInv
  OBVIOUS
<1> USE DEF FramingInit
<1>1. role \in {"server", "client", "http"} /\ BufferSize \in Nat
  BY FramingAssumption
<1>2. /\ sent = <<>> /\ DOMAIN sent = {} /\ Total = 0 /\ sent \in Seq(SentFrames \cup Parts)
      /\ Len(sent) = 0
  BY EmptySeq DEF Total
<1>3. StreamOK
  BY <1>2 DEF StreamOK
<1>4. FramingTypes
  <2>1. delivered \in 0..Total /\ taken \in 0..delivered
    BY <1>2
  <2>2. refused \in BOOLEAN /\ open \in BOOLEAN /\ stage = "idle"
    OBVIOUS
  <2> QED BY <1>1, <2>1, <2>2 DEF FramingTypes
<1>5. Window(buffer, taken)
  <2> DEFINE c == [i \in 1..BufferSize |-> 0]
  <2>1. c \in [1..BufferSize -> 0..0]
    OBVIOUS
  <2>2. buffer = [cells |-> c, read |-> 0, write |-> 0] /\ taken = 0
    OBVIOUS
  <2> HIDE DEF c
  <2>3. c \in Seq(0..0) /\ Len(c) = BufferSize
    BY <1>1, <2>1, SeqOf
  <2> QED BY <1>1, <2>2, <2>3 DEF Window, Capacity, ReadableSize
<1>6. GivenOK
  <2>1. Position = 0
    BY DEF Position, ReadableSize
  <2>2. given = <<>> /\ DOMAIN given = {} /\ \A S : given \in Seq(S)
    BY EmptySeq
  <2>3. ~Adrift /\ ~GivenStray
    BY <1>2, <2>2 DEF Adrift, GivenStray
  <2> QED BY <1>2, <2>1, <2>2, <2>3 DEF GivenOK, PlacesInStream
<1>7. RefusedForCause
  BY DEF RefusedForCause
<1> QED BY <1>3, <1>4, <1>5, <1>6, <1>7 DEF FramingInv

\* What sending a message keeps, a frame or a part of a request.
LEMMA SendingKeeps ==
    ASSUME FramingInv, role' = role, NEW m \in SentFrames \cup Parts, m.from = Total,
           sent' = Append(sent, m),
           Framed => m \in SentFrames /\ m.size >= 3 * Field,
           ~Framed => m \in Parts,
           UNCHANGED <<role, delivered, taken, buffer, stage, given, refused, open>>
    PROVE  FramingInv'
<1>1. StreamOK /\ FramingTypes /\ Window(buffer, taken)
  BY DEF FramingInv
<1>2. /\ StreamOK'
      /\ DOMAIN sent \subseteq DOMAIN sent'
      /\ DOMAIN sent' = DOMAIN sent \cup {Len(sent) + 1}
      /\ \A i \in DOMAIN sent : sent'[i] = sent[i]
      /\ sent'[Len(sent) + 1] = m
      /\ Total' = Total + m.size
      /\ PlacesInStream \subseteq PlacesInStream'
  BY <1>1, StreamGrows
<1>3. m.size \in Nat \ {0} /\ Total \in Nat
  BY <1>1, StreamFacts DEF SentFrames, Parts
<1>4. FramingTypes'
  BY <1>1, <1>2, <1>3 DEF FramingTypes
<1>5. Window(buffer, taken)'
  BY <1>1 DEF Window, ReadableSize, Capacity
<1>6. Framed => GivenOK'
  <2>1. Position' = Position
    BY DEF Position, ReadableSize
  <2>2. \A i \in DOMAIN sent' \ DOMAIN sent : Total <= sent'[i].from /\ Total < End(i)'
    BY <1>2, <1>3 DEF End
  <2>3. Framed => GivenOK
    BY DEF FramingInv
  <2> QED BY <1>1, <1>2, <2>1, <2>2, <2>3, GivenKept
<1>7. RefusedForCause'
  <2>1. Position' = Position /\ Position \in Nat /\ taken \in Nat
    BY <1>1, PositionIs DEF Position, ReadableSize
  <2>2. RefusedForCause
    BY DEF FramingInv
  <2> QED BY <1>1, <1>2, <2>1, <2>2, RefusalKept
<1> QED BY <1>2, <1>4, <1>5, <1>6, <1>7 DEF FramingInv, Framed

LEMMA PeerSendsFrameKeeps ==
    ASSUME FramingInv, PeerSendsFrame PROVE FramingInv'
<1> USE DEF PeerSendsFrame
<1>1. PICK f \in Frames :
        sent' = Append(sent, [from |-> Total, size |-> f.size, kind |-> f.kind])
  OBVIOUS
<1> DEFINE m == [from |-> Total, size |-> f.size, kind |-> f.kind]
<1>2. f.size \in Nat \ {0} /\ f.size >= 3 * Field /\ f.kind \in FrameKinds
  BY FramingAssumption
<1>3. Total \in Nat
  BY StreamFacts DEF FramingInv
<1>4. m \in SentFrames /\ m.from = Total /\ m.size = f.size
  BY <1>2, <1>3 DEF SentFrames
<1>5. Framed
  OBVIOUS
<1>6. sent' = Append(sent, m)
  BY <1>1
<1>7. UNCHANGED <<role, delivered, taken, buffer, stage, given, refused, open>>
  OBVIOUS
<1> HIDE DEF m, PeerSendsFrame
<1> QED BY <1>2, <1>4, <1>5, <1>6, <1>7, SendingKeeps

\* What a step of the loop thread keeps that changes neither the stream nor
\* where the next frame begins.
LEMMA ReadingKeeps ==
    ASSUME FramingInv, UNCHANGED <<role, sent, given>>, Position' = Position,
           refused => refused', FramingTypes', Window(buffer', taken'), RefusedForCause'
    PROVE  FramingInv'
<1>1. StreamOK /\ FramingTypes /\ Window(buffer, taken)
  BY DEF FramingInv
<1>2. StreamOK' /\ PlacesInStream' = PlacesInStream
  BY <1>1 DEF StreamOK, Framed, End, PlacesInStream, Total
<1>3. Framed => GivenOK'
  <2>1. Framed => GivenOK
    BY DEF FramingInv
  <2> QED BY <1>1, <1>2, <2>1, GivenKept
<1>4. Window(buffer, taken)'
  BY DEF Window, ReadableSize, Capacity
<1> QED BY <1>2, <1>3, <1>4 DEF FramingInv, Framed

LEMMA BytesArriveKeeps ==
    ASSUME FramingInv, BytesArrive PROVE FramingInv'
<1> USE DEF BytesArrive
<1>1. FramingTypes /\ Window(buffer, taken) /\ RefusedForCause /\ StreamOK
  BY DEF FramingInv
<1>2. Total' = Total
  BY DEF Total, End
<1>3. FramingTypes'
  BY <1>1, <1>2, StreamFacts DEF FramingTypes
<1>4. Position' = Position
  BY DEF Position, ReadableSize
<1>5. RefusedForCause'
  BY <1>1, <1>4, PositionIs, RefusalKept
<1> QED BY <1>1, <1>3, <1>4, <1>5, ReadingKeeps

LEMMA ReadSomeKeeps ==
    ASSUME FramingInv, ReadSome PROVE FramingInv'
<1> DEFINE n == IF delivered - taken < BufferSize THEN delivered - taken ELSE BufferSize
<1> USE DEF ReadSome
<1>1. FramingTypes /\ Window(buffer, taken) /\ RefusedForCause /\ StreamOK
  BY DEF FramingInv
<1>2. n \in Nat /\ taken + n <= delivered /\ taken \in Nat /\ delivered \in Nat
  BY <1>1, StreamFacts, FramingAssumption DEF FramingTypes
<1>3. taken' = taken + n /\ buffer' = Pushed(buffer, n)
  OBVIOUS
<1> HIDE DEF n
<1>4. Window(buffer', taken') /\ ReadableSize(buffer') = ReadableSize(buffer) + n
  BY <1>1, <1>2, <1>3, PushedIs
<1>5. Total' = Total
  BY DEF Total, End
<1>6. FramingTypes'
  BY <1>1, <1>2, <1>3, <1>5 DEF FramingTypes
<1>7. Position' = Position
  BY <1>1, <1>2, <1>3, <1>4, PositionIs DEF Position
<1>8. RefusedForCause'
  <2>1. Position \in Nat /\ taken' \in Nat /\ taken <= taken'
    BY <1>1, <1>2, <1>3, PositionIs
  <2> QED BY <1>1, <1>7, <2>1, RefusalKept
<1> QED BY <1>4, <1>6, <1>7, <1>8, ReadingKeeps

LEMMA TurnKeeps ==
    ASSUME FramingInv, ReadEnds \/ Close \/ StopDecoding PROVE FramingInv'
<1> USE DEF ReadEnds, Close, StopDecoding
<1>1. FramingTypes /\ Window(buffer, taken) /\ RefusedForCause /\ StreamOK
  BY DEF FramingInv
<1>2. /\ UNCHANGED <<role, sent, given, delivered, taken, buffer>>
      /\ stage' \in {"idle", "reading", "decode"} /\ open' \in BOOLEAN /\ refused' \in BOOLEAN
  BY <1>1 DEF FramingTypes
<1>3. Total' = Total /\ Position' = Position
  BY <1>2 DEF Total, End, Position, ReadableSize
<1>4. FramingTypes'
  BY <1>1, <1>2, <1>3 DEF FramingTypes
<1>5. RefusedForCause'
  <2>1. /\ Position \in Nat /\ taken \in Nat /\ taken' = taken /\ stage' # "crashed"
    BY <1>1, <1>2, PositionIs
  <2>2. CASE refused' => refused
    BY <1>1, <1>2, <1>3, <2>1, <2>2, RefusalKept
  <2>3. CASE StopDecoding /\ TooLong /\ Adrift /\ Framed
    <3>1. refused
      BY <2>3 DEF FramingInv, GivenOK
    <3> QED BY <2>2, <3>1
  <2>4. CASE StopDecoding /\ TooLong /\ ~Adrift /\ Framed
    <3>1. Limit \in Nat /\ Field \in Nat \ {0}
      BY FramingAssumption
    <3>2. /\ ReadableSize(buffer) \in Nat /\ ReadableSize(buffer) > Limit
          /\ taken - Position = ReadableSize(buffer)
      BY <1>1, <2>4, PositionIs DEF TooLong
    <3>3. ~CanProcess
      BY <2>4
    <3>4. PICK i \in DOMAIN sent : sent[i].from = Position /\ First = {i}
      BY <1>1, <2>4, <3>1, <3>2, FirstIs DEF FramingInv, GivenOK
    <3>5. sent[i].size \in Nat /\ sent[i].size >= 3 * Field
      BY <1>1, <2>4, StreamFacts DEF StreamOK
    <3>6. TotalLen = sent[i].size - Field
      BY <3>4 DEF TotalLen, Part
    <3>7. ReadableSize(buffer) < sent[i].size
      BY <3>1, <3>2, <3>3, <3>5, <3>6 DEF CanProcess
    <3>8. sent[i].size > Limit /\ taken - sent[i].from > Limit
      BY <3>1, <3>2, <3>4, <3>5, <3>7
    <3>9. sent'[i].size > Limit /\ taken' - sent'[i].from > Limit /\ i \in DOMAIN sent'
      BY <1>2, <3>8
    <3>10. Refusable(i)'
      BY <3>9 DEF Refusable
    <3> QED BY <2>1, <3>9, <3>10 DEF RefusedForCause
  <2> QED BY <1>1, <2>2, <2>3, <2>4 DEF FramingTypes
<1>6. refused => refused'
  OBVIOUS
<1> QED BY <1>1, <1>2, <1>3, <1>4, <1>5, <1>6, ReadingKeeps

\* The frame that Dispatch takes out.
LEMMA FrameIs ==
    ASSUME StreamOK, FramingTypes, Window(buffer, taken), NEW i \in DOMAIN sent,
           sent[i].from = Position, sent[i].size <= ReadableSize(buffer)
    PROVE  SubSeq(Contents(buffer), 1, sent[i].size) = Handed(i).bytes
<1> DEFINE c == Contents(buffer)
           n == sent[i].size
           f == [k \in 1..n |-> sent[i].from + k]
           s == SubSeq(c, 1, n)
<1>1. n \in Nat \ {0} /\ sent[i].from \in Nat
  BY StreamFacts
<1>2. /\ taken \in Nat /\ ReadableSize(buffer) \in Nat /\ Position \in Nat
      /\ taken - ReadableSize(buffer) = Position
  BY PositionIs
<1>3. c = [k \in 1..ReadableSize(buffer) |-> Position + k]
  BY <1>2, ContentsAre
<1> HIDE DEF n, c
<1>4. \A k \in 1..n : c[k] = Position + k /\ c[k] \in Nat
  BY <1>1, <1>2, <1>3 DEF n
<1>5. /\ s \in Seq(Nat) /\ Len(s) = n
      /\ \A k \in 1..n : s[k] = c[k]
  <2>1. /\ s \in Seq(Nat) /\ Len(s) = IF 1 <= n THEN n - 1 + 1 ELSE 0
        /\ \A k \in 1..n - 1 + 1 : s[k] = c[1 + k - 1]
    <3>1. 1 \in Int /\ n \in Int
      BY <1>1
    <3> QED BY <1>4, <3>1, SubSeqProperties
  <2> HIDE DEF s
  <2>2. n - 1 + 1 = n /\ \A k \in 1..n : 1 + k - 1 = k
    BY <1>1
  <2> QED BY <1>1, <2>1, <2>2
<1>6. f \in Seq(Nat) /\ Len(f) = n
  <2>1. f \in [1..n -> Nat] /\ n \in Nat
    BY <1>1
  <2> HIDE DEF f
  <2> QED BY <2>1, SeqOf
<1>7. \A k \in 1..n : s[k] = f[k]
  <2>1. \A k \in 1..n : f[k] = Position + k
    OBVIOUS
  <2> QED BY <1>4, <1>5, <2>1
<1> HIDE DEF s, f
<1>8. s = f
  BY <1>5, <1>6, <1>7, SeqEqual
<1> QED BY <1>8 DEF s, f, c, n, Handed

\* Behind an overlong frame nothing more counts as handed over.
LEMMA NothingMore ==
    ASSUME StreamOK, UNCHANGED <<role, sent>>, NEW o \in DOMAIN sent,
           sent[o].kind = "overlong", Position \in Nat, Position' \in Nat,
           sent[o].from <= Position, Position <= Position'
    PROVE  \A j \in DOMAIN sent : Handed(j)' = Handed(j) /\ (HandedOver(j)' <=> HandedOver(j))
<1> SUFFICES ASSUME NEW j \in DOMAIN sent
             PROVE  Handed(j)' = Handed(j) /\ (HandedOver(j)' <=> HandedOver(j))
  OBVIOUS
<1>1. /\ End(j) \in Nat /\ End(j)' = End(j) /\ sent[o].from \in Nat /\ j \in Nat /\ o \in Nat
      /\ 1 <= o /\ DOMAIN sent = 1..Len(sent) /\ Len(sent) \in Nat
  BY StreamFacts DEF End
<1>2. TakenWhole(j)' <=> TakenWhole(j)
  <2>1. CASE o <= j
    <3>1. o \in 1..j /\ sent'[o].kind = "overlong"
      BY <1>1, <2>1
    <3> QED BY <3>1 DEF TakenWhole
  <2>2. CASE j < o
    <3>1. End(j) <= sent[o].from
      BY <2>2, Apart
    <3>2. End(j)' <= Position' /\ End(j) <= Position
      BY <1>1, <3>1
    <3> QED BY <3>2 DEF TakenWhole
  <2> QED BY <1>1, <2>1, <2>2
<1> QED BY <1>2 DEF Handed, HandedOver

\* An element more at the end of what was handed over.
LEMMA GivenGrows ==
    ASSUME NEW S, given \in Seq(S), NEW m \in S, given' = Append(given, m)
    PROVE  /\ given' \in Seq(S)
           /\ {given'[k] : k \in DOMAIN given'} = {given[k] : k \in DOMAIN given} \cup {m}
           /\ \A k, l \in DOMAIN given' : k < l =>
                /\ k \in DOMAIN given /\ given'[k] = given[k]
                /\ (l \in DOMAIN given /\ given'[l] = given[l]) \/ given'[l] = m
<1>1. /\ given' \in Seq(S) /\ Len(given') = Len(given) + 1 /\ Len(given) \in Nat
      /\ \A k \in 1..Len(given) : given'[k] = given[k]
      /\ given'[Len(given) + 1] = m
  BY AppendProperties, LenProperties
<1>2. DOMAIN given = 1..Len(given) /\ DOMAIN given' = 1..(Len(given) + 1)
  BY <1>1, LenProperties
<1>3. DOMAIN given' = DOMAIN given \cup {Len(given) + 1}
  BY <1>1, <1>2
<1>4. {given'[k] : k \in DOMAIN given'} = {given[k] : k \in DOMAIN given} \cup {m}
  BY <1>1, <1>2, <1>3
<1>5. ASSUME NEW k \in DOMAIN given', NEW l \in DOMAIN given', k < l
      PROVE  /\ k \in DOMAIN given /\ given'[k] = given[k]
             /\ (l \in DOMAIN given /\ given'[l] = given[l]) \/ given'[l] = m
  <2>1. k \in DOMAIN given
    BY <1>1, <1>2, <1>5
  <2>2. l \in DOMAIN given \/ l = Len(given) + 1
    BY <1>3
  <2> QED BY <1>1, <1>2, <2>1, <2>2
<1> QED BY <1>1, <1>4, <1>5

\* The frame at the buffer's first byte, when Dispatch may take it out.
LEMMA FrameFacts ==
    ASSUME FramingInv, Framed, ~Adrift, CanProcess
    PROVE  \E i \in DOMAIN sent :
            /\ sent[i].from = Position /\ Part = sent[i] /\ sent[i] \in SentFrames
            /\ sent[i].size \in Nat \ {0} /\ sent[i].size >= 3 * Field
            /\ TotalLen + Field = sent[i].size /\ sent[i].size <= ReadableSize(buffer)
            /\ SubSeq(Contents(buffer), 1, TotalLen + Field) = Handed(i).bytes
<1>1. /\ FramingTypes /\ Window(buffer, taken) /\ StreamOK /\ GivenOK /\ Field \in Nat \ {0}
  BY FramingAssumption DEF FramingInv
<1>2. ReadableSize(buffer) \in Nat
  BY <1>1, PositionIs
<1>3. PICK i \in DOMAIN sent : sent[i].from = Position /\ First = {i}
  <2>1. ReadableSize(buffer) > 0
    BY <1>1, <1>2 DEF CanProcess
  <2> QED BY <1>1, <2>1, FirstIs DEF GivenOK
<1>4. /\ sent[i] \in SentFrames /\ sent[i].size >= 3 * Field /\ sent[i].size \in Nat \ {0}
  BY <1>1, <1>3, StreamFacts DEF StreamOK
<1>5. Part = sent[i]
  BY <1>3 DEF Part
<1>6. TotalLen + Field = sent[i].size
  <2>1. TotalLen = sent[i].size - Field
    BY <1>3, <1>5 DEF TotalLen
  <2> QED BY <1>1, <1>4, <2>1
<1>7. sent[i].size <= ReadableSize(buffer)
  BY <1>6 DEF CanProcess
<1>8. SubSeq(Contents(buffer), 1, TotalLen + Field) = Handed(i).bytes
  BY <1>1, <1>3, <1>6, <1>7, FrameIs
<1> QED BY <1>3, <1>4, <1>5, <1>6, <1>7, <1>8

\* What taking n bytes out of the buffer does to the window on the stream.
LEMMA TakingOut ==
    ASSUME FramingInv, NEW n \in 0..ReadableSize(buffer), buffer' = Popped(buffer, n),
           UNCHANGED <<role, sent, delivered, taken, open>>
    PROVE  /\ Window(buffer', taken') /\ Window(buffer, taken)' /\ Position' = Position + n
           /\ Position \in Nat /\ Position' \in Nat /\ taken' = taken /\ taken \in Nat
           /\ StreamOK' /\ PlacesInStream' = PlacesInStream /\ (Framed' <=> Framed)
           /\ Total' = Total
<1>1. FramingTypes /\ Window(buffer, taken) /\ StreamOK
  BY DEF FramingInv
<1>2. /\ ReadableSize(buffer) \in Nat /\ Position \in Nat /\ taken \in Nat
      /\ taken - ReadableSize(buffer) = Position
  BY <1>1, PositionIs
<1>3. Window(buffer', taken) /\ ReadableSize(buffer') = ReadableSize(buffer) - n
  BY <1>1, <1>2, PoppedIs
<1>4. Position' = Position + n /\ Position' \in Nat
  BY <1>2, <1>3 DEF Position
<1>5. /\ StreamOK' /\ PlacesInStream' = PlacesInStream /\ (Framed' <=> Framed) /\ Total' = Total
  BY <1>1 DEF StreamOK, PlacesInStream, Framed, Total, End
<1>6. Window(buffer, taken)'
  BY <1>3 DEF Window, ReadableSize, Capacity
<1> QED BY <1>2, <1>3, <1>4, <1>5, <1>6

\* A frame of which OnMessage reads the content.
LEMMA WholeFrameKeeps ==
    ASSUME FramingInv, Dispatch, Part.kind # "overlong" PROVE FramingInv'
<1>1. /\ FramingTypes /\ Window(buffer, taken) /\ RefusedForCause /\ StreamOK
      /\ Framed /\ GivenOK /\ ~Adrift /\ CanProcess
  BY DEF FramingInv, Dispatch
<1>2. /\ buffer' = Popped(buffer, TotalLen + Field)
      /\ refused' = (refused \/ ~Fine) /\ stage' = AfterFrame
      /\ given' = IF HandsOver /\ Made
                  THEN Append(given, [bytes |-> SubSeq(Contents(buffer), 1, TotalLen + Field),
                                      known |-> Fine])
                  ELSE given
      /\ UNCHANGED <<role, sent, delivered, taken, open>>
  BY DEF Dispatch, Retrieved
<1>3. PICK i \in DOMAIN sent :
        /\ sent[i].from = Position /\ Part = sent[i] /\ sent[i] \in SentFrames
        /\ sent[i].size \in Nat \ {0} /\ sent[i].size >= 3 * Field
        /\ TotalLen + Field = sent[i].size /\ sent[i].size <= ReadableSize(buffer)
        /\ SubSeq(Contents(buffer), 1, TotalLen + Field) = Handed(i).bytes
  BY <1>1, FrameFacts
<1>4. sent[i].size \in 0..ReadableSize(buffer)
  BY <1>1, <1>3, PositionIs
<1>5. /\ Window(buffer, taken)' /\ Position' = Position + sent[i].size
      /\ Position \in Nat /\ Position' \in Nat /\ taken' = taken /\ taken \in Nat
      /\ StreamOK' /\ PlacesInStream' = PlacesInStream /\ Framed' /\ Total' = Total
  <2>1. buffer' = Popped(buffer, sent[i].size)
    BY <1>2, <1>3
  <2> QED BY <1>1, <1>2, <1>4, <2>1, TakingOut
<1>6. /\ End(i) \in Nat /\ End(i) = Position + sent[i].size /\ Position' = End(i)
  BY <1>1, <1>3, <1>5, StreamFacts
<1>7. /\ sent[i].kind \in FrameKinds \ {"overlong"}
      /\ Fine <=> sent[i].kind = "fine"
      /\ Made <=> sent[i].kind \in {"fine", "refused"}
  BY <1>3 DEF SentFrames, Fine, Made
<1>8. FramingTypes'
  <2>1. stage' \in {"idle", "decode", "crashed"} /\ refused' \in BOOLEAN
    BY <1>1, <1>2 DEF AfterFrame, FramingTypes
  <2> QED BY <1>1, <1>2, <1>5, <2>1 DEF FramingTypes
<1>9. \A j \in DOMAIN sent : sent[j].from < Position' => j = i \/ sent[j].from < Position
  <2>1. SUFFICES ASSUME NEW j \in DOMAIN sent, sent[j].from < End(i), j # i
                 PROVE  sent[j].from < sent[i].from
    BY <1>3, <1>6
  <2>2. sent[j].from \in Nat /\ j \in Nat /\ i \in Nat
    BY <1>1, StreamFacts
  <2>3. ~(i < j)
    BY <1>1, <1>6, <2>1, <2>2, Apart
  <2> QED BY <1>1, <2>1, <2>2, <2>3, Apart
<1>10. ~Adrift'
  BY <1>1, <1>2, <1>7, <1>9 DEF Adrift
<1>11. RefusedForCause'
  <2>1. \A j \in DOMAIN sent : (Refusable(j) => Refusable(j)') /\ (Deadly(j) => Deadly(j)')
    BY <1>1, <1>2, <1>3, <1>5, CauseKept
  <2>2. sent'[i] = sent[i] /\ sent'[i].from < Position'
    BY <1>2, <1>3, <1>5
  <2>3. ~Fine => Refusable(i)'
    BY <1>7, <2>2 DEF Refusable, Met, FrameKinds
  <2>4. stage' = "crashed" => Deadly(i)'
    <3>1. stage' = "crashed" => role' = "server" /\ sent[i].kind = "unknown"
      BY <1>2, <1>7 DEF AfterFrame, HandsOver, FrameKinds
    <3> QED BY <2>2, <3>1 DEF Deadly, Met
  <2>5. refused' => \E j \in DOMAIN sent' : Refusable(j)'
    BY <1>1, <1>2, <2>1, <2>3 DEF RefusedForCause
  <2> QED BY <1>2, <2>4, <2>5 DEF RefusedForCause
<1>12. \A j \in DOMAIN sent : /\ Handed(j)' = Handed(j)
                              /\ HandedOver(j)' <=> HandedOver(j) \/ (j = i /\ HandsOver /\ Made)
  <2>1. SUFFICES ASSUME NEW j \in DOMAIN sent
                 PROVE  /\ Handed(j)' = Handed(j)
                        /\ HandedOver(j)' <=> HandedOver(j) \/ (j = i /\ HandsOver /\ Made)
    OBVIOUS
  <2>2. Handed(j)' = Handed(j)
    BY <1>2 DEF Handed
  <2>3. /\ End(j) \in Nat /\ sent[j].from < End(j) /\ sent[j].from \in Nat /\ j \in Nat /\ i \in Nat
        /\ 1 <= i /\ \A h \in 1..i : h \in DOMAIN sent
    BY <1>1, StreamFacts
  <2>4. End(j)' = End(j)
    BY <1>2 DEF End
  <2>5. CASE j < i
    <3>1. End(j) <= Position
      BY <1>1, <1>3, <2>5, Apart
    <3>2. End(j)' <= Position'
      BY <1>4, <1>5, <2>3, <2>4, <3>1
    <3> QED BY <1>2, <2>2, <2>3, <2>5, <3>1, <3>2 DEF HandedOver, TakenWhole
  <2>6. CASE i < j
    <3>1. End(i) <= sent[j].from
      BY <1>1, <2>6, Apart
    <3>2. ~(End(j) <= Position) /\ ~(End(j)' <= Position')
      BY <1>4, <1>5, <1>6, <2>3, <2>4, <3>1
    <3> QED BY <2>2, <2>3, <2>6, <3>2 DEF HandedOver, TakenWhole
  <2>7. CASE j = i
    <3>1. ~(End(j) <= Position) /\ End(j)' <= Position'
      BY <1>3, <1>5, <1>6, <2>3, <2>4, <2>7
    <3>2. \A h \in 1..i : sent[h].kind # "overlong"
      <4>1. SUFFICES ASSUME NEW h \in 1..i, h # i PROVE sent[h].kind # "overlong"
        BY <1>7
      <4>2. h < i /\ h \in DOMAIN sent
        BY <2>3, <4>1
      <4>3. sent[h].from < Position
        BY <1>1, <1>3, <4>2, Apart
      <4> QED BY <1>1, <4>2, <4>3 DEF Adrift
    <3>3. TakenWhole(j)' /\ ~TakenWhole(j)
      BY <1>2, <2>7, <3>1, <3>2 DEF TakenWhole
    <3>4. HandsOver /\ Made <=> sent[i].kind = "fine" \/ (sent[i].kind = "refused" /\ role = "server")
      BY <1>7 DEF HandsOver
    <3> QED BY <1>2, <2>2, <2>7, <3>3, <3>4 DEF HandedOver
  <2> QED BY <2>3, <2>5, <2>6, <2>7
<1>13. Position' \in PlacesInStream'
  BY <1>1, <1>5, <1>6, Apart
<1> DEFINE S == {Handed(j) : j \in DOMAIN sent} \cup {Stray}
<1>14. /\ {Handed(j)' : j \in DOMAIN sent'} \cup {Stray} = S
       /\ given \in Seq(S) /\ ~GivenStray /\ \A k \in DOMAIN given : given[k] # Stray
  BY <1>1, <1>2, <1>12 DEF GivenOK, GivenStray
<1>15. \A j \in DOMAIN sent : Handed(j) # Stray
  <2>1. \A j \in DOMAIN sent : Handed(j).bytes # <<>>
    <3>1. SUFFICES ASSUME NEW j \in DOMAIN sent PROVE 1 \in DOMAIN Handed(j).bytes
      OBVIOUS
    <3>2. sent[j].size \in Nat \ {0}
      BY <1>1, StreamFacts
    <3> QED BY <3>2 DEF Handed
  <2> QED BY <2>1 DEF Stray
<1>16. CASE ~(HandsOver /\ Made)
  <2>1. given' = given
    BY <1>2, <1>16
  <2>2. {Handed(j)' : j \in {j \in DOMAIN sent' : HandedOver(j)'}}
          = {Handed(j) : j \in {j \in DOMAIN sent : HandedOver(j)}}
    BY <1>2, <1>12, <1>16
  <2>3. ~GivenStray'
    BY <1>14, <2>1 DEF GivenStray
  <2>4. GivenOK'
    BY <1>1, <1>10, <1>13, <1>14, <2>1, <2>2, <2>3 DEF GivenOK
  <2> QED BY <1>5, <1>8, <1>11, <2>4 DEF FramingInv
<1>17. CASE HandsOver /\ Made
  <2>1. given' = Append(given, Handed(i))
    <3>1. Handed(i) = [bytes |-> Handed(i).bytes, known |-> sent[i].kind = "fine"]
      BY DEF Handed
    <3>2. Fine = (sent[i].kind = "fine")
      BY <1>3 DEF Fine
    <3> QED BY <1>2, <1>3, <1>17, <3>1, <3>2
  <2>2. Handed(i) \in S
    OBVIOUS
  <2> HIDE DEF S
  <2>3. /\ given' \in Seq(S)
        /\ {given'[k] : k \in DOMAIN given'} = {given[k] : k \in DOMAIN given} \cup {Handed(i)}
        /\ \A k, l \in DOMAIN given' : k < l =>
                /\ k \in DOMAIN given /\ given'[k] = given[k]
                /\ (l \in DOMAIN given /\ given'[l] = given[l]) \/ given'[l] = Handed(i)
    BY <1>14, <2>1, <2>2, GivenGrows
  <2>4. {Handed(j)' : j \in {j \in DOMAIN sent' : HandedOver(j)'}}
          = {Handed(j) : j \in {j \in DOMAIN sent : HandedOver(j)}} \cup {Handed(i)}
    BY <1>2, <1>12, <1>17
  <2>5. \A k \in DOMAIN given' : given'[k] # Stray
    BY <1>14, <1>15, <2>3
  <2>6. ~GivenStray'
    BY <2>5 DEF GivenStray
  <2>7. \A k, l \in DOMAIN given' : k < l => given'[k].bytes[1] < given'[l].bytes[1]
    <3>1. SUFFICES ASSUME NEW k \in DOMAIN given', NEW l \in DOMAIN given', k < l
                   PROVE  given'[k].bytes[1] < given'[l].bytes[1]
      OBVIOUS
    <3>2. k \in DOMAIN given /\ given'[k] = given[k]
      BY <2>3, <3>1
    <3>3. CASE l \in DOMAIN given /\ given'[l] = given[l]
      BY <1>1, <1>14, <3>1, <3>2, <3>3 DEF GivenOK
    <3>4. CASE given'[l] = Handed(i)
      <4>1. PICK j \in DOMAIN sent : HandedOver(j) /\ given[k] = Handed(j)
        BY <1>1, <1>14, <3>2 DEF GivenOK
      <4>2. /\ sent[j].from \in Nat /\ End(j) \in Nat /\ sent[j].from < End(j)
            /\ sent[j].size \in Nat \ {0}
        BY <1>1, StreamFacts
      <4>3. sent[j].from < sent[i].from
        BY <1>3, <1>5, <4>1, <4>2 DEF HandedOver, TakenWhole
      <4>4. Handed(j).bytes[1] = sent[j].from + 1 /\ Handed(i).bytes[1] = sent[i].from + 1
        BY <1>3, <4>2 DEF Handed
      <4> QED BY <1>3, <1>5, <3>2, <3>4, <4>1, <4>2, <4>3, <4>4
    <3> QED BY <2>3, <3>1, <3>3, <3>4
  <2>8. {given'[k] : k \in DOMAIN given'} \ {Stray}
          = {Handed(j)' : j \in {j \in DOMAIN sent' : HandedOver(j)'}}
    <3>1. {given[k] : k \in DOMAIN given} \ {Stray}
            = {Handed(j) : j \in {j \in DOMAIN sent : HandedOver(j)}}
      BY <1>1 DEF GivenOK
    <3> QED BY <1>15, <2>3, <2>4, <3>1
  <2>9. GivenOK'
    BY <1>10, <1>13, <1>14, <2>3, <2>5, <2>6, <2>7, <2>8 DEF GivenOK
  <2> QED BY <1>5, <1>8, <1>11, <2>9 DEF FramingInv
<1> QED BY <1>16, <1>17

\* A frame of which OnMessage reads the fields only.
LEMMA OverlongKeeps ==
    ASSUME FramingInv, Dispatch, Part.kind = "overlong" PROVE FramingInv'
<1>1. /\ FramingTypes /\ Window(buffer, taken) /\ RefusedForCause /\ StreamOK
      /\ Framed /\ GivenOK /\ ~Adrift /\ CanProcess
  BY DEF FramingInv, Dispatch
<1>2. /\ ~Fine /\ ~Made
      /\ buffer' = Popped(buffer, 3 * Field) /\ refused' = TRUE /\ stage' = AfterFrame
      /\ given' = given /\ UNCHANGED <<role, sent, delivered, taken, open>>
  BY <1>1 DEF Dispatch, Retrieved, Fine, Made, FramingTypes
<1>3. PICK i \in DOMAIN sent :
        /\ sent[i].from = Position /\ Part = sent[i]
        /\ sent[i].size \in Nat \ {0} /\ sent[i].size >= 3 * Field
        /\ sent[i].size <= ReadableSize(buffer)
  BY <1>1, FrameFacts
<1>4. 3 * Field \in 0..ReadableSize(buffer) /\ 3 * Field \in Nat \ {0}
  BY <1>1, <1>3, PositionIs, FramingAssumption
<1>5. /\ Window(buffer, taken)' /\ Position' = Position + 3 * Field
      /\ Position \in Nat /\ Position' \in Nat /\ taken' = taken /\ taken \in Nat
      /\ StreamOK' /\ PlacesInStream' = PlacesInStream /\ Framed' /\ Total' = Total
  BY <1>1, <1>2, <1>4, TakingOut
<1>6. Position < Position'
  BY <1>4, <1>5
<1>7. Adrift' /\ Met(i, {"refused", "unknown", "overlong"})' /\ Met(i, {"overlong"})'
  BY <1>2, <1>3, <1>6 DEF Adrift, Met
<1>8. FramingTypes'
  <2>1. stage' \in {"idle", "decode", "crashed"}
    BY <1>2 DEF AfterFrame
  <2> QED BY <1>1, <1>2, <1>5, <2>1 DEF FramingTypes
<1>9. RefusedForCause'
  BY <1>2, <1>7 DEF RefusedForCause, Refusable, Deadly
<1>10. \A j \in DOMAIN sent : Handed(j)' = Handed(j) /\ (HandedOver(j)' <=> HandedOver(j))
  BY <1>1, <1>2, <1>3, <1>5, <1>6, NothingMore
<1>11. /\ {Handed(j)' : j \in DOMAIN sent'} = {Handed(j) : j \in DOMAIN sent}
       /\ {Handed(j)' : j \in {j \in DOMAIN sent' : HandedOver(j)'}}
            = {Handed(j) : j \in {j \in DOMAIN sent : HandedOver(j)}}
  BY <1>2, <1>10
<1>12. GivenOK'
  BY <1>1, <1>2, <1>7, <1>11 DEF GivenOK
<1> QED BY <1>5, <1>8, <1>9, <1>12 DEF FramingInv

LEMMA DispatchKeeps ==
    ASSUME FramingInv, Dispatch PROVE FramingInv'
BY WholeFrameKeeps, OverlongKeeps

LEMMA DispatchStrayKeeps ==
    ASSUME FramingInv, DispatchStray PROVE FramingInv'
<1>1. /\ FramingTypes /\ Window(buffer, taken) /\ RefusedForCause /\ StreamOK
      /\ Framed /\ GivenOK /\ Adrift /\ refused
      /\ UNCHANGED <<role, sent, delivered, taken, refused, open>>
      /\ stage' \in {"decode", "idle", "crashed"}
      /\ given' = given \/ (given' = Append(given, Stray) /\ ~GivenStray)
  BY DEF FramingInv, DispatchStray, GivenOK
<1>2. /\ Window(buffer, taken)' /\ Position <= Position'
      /\ Position \in Nat /\ Position' \in Nat /\ taken' = taken /\ taken \in Nat
      /\ StreamOK' /\ PlacesInStream' = PlacesInStream /\ Framed' /\ Total' = Total
  <2>1. /\ Position \in Nat /\ taken \in Nat /\ ReadableSize(buffer) \in Nat
    BY <1>1, PositionIs
  <2>2. CASE \E n \in (3 * Field)..ReadableSize(buffer) : buffer' = Popped(buffer, n)
    <3>1. PICK n \in 0..ReadableSize(buffer) : buffer' = Popped(buffer, n)
      BY <2>1, <2>2, FramingAssumption
    <3> QED BY <1>1, <2>1, <3>1, TakingOut
  <2>3. CASE UNCHANGED buffer
    BY <1>1, <2>1, <2>3 DEF Window, ReadableSize, Capacity, Position, StreamOK, PlacesInStream,
                            Framed, Total, End
  <2> QED BY <2>2, <2>3 DEF DispatchStray
<1>3. PICK o \in DOMAIN sent : sent[o].kind = "overlong" /\ sent[o].from < Position
  BY <1>1 DEF Adrift
<1>4. sent[o].from \in Nat /\ sent[o].from < Position'
  BY <1>1, <1>2, <1>3, StreamFacts
<1>5. Adrift' /\ Met(o, {"refused", "unknown", "overlong"})' /\ Met(o, {"overlong"})'
  BY <1>1, <1>3, <1>4 DEF Adrift, Met
<1>6. RefusedForCause' /\ FramingTypes'
  <2>1. RefusedForCause'
    BY <1>1, <1>5 DEF RefusedForCause, Refusable, Deadly
  <2> QED BY <1>1, <1>2, <2>1 DEF FramingTypes
<1>7. \A j \in DOMAIN sent : Handed(j)' = Handed(j) /\ (HandedOver(j)' <=> HandedOver(j))
  BY <1>1, <1>2, <1>3, <1>4, NothingMore
<1>8. /\ {Handed(j)' : j \in DOMAIN sent'} = {Handed(j) : j \in DOMAIN sent}
      /\ {Handed(j)' : j \in {j \in DOMAIN sent' : HandedOver(j)'}}
            = {Handed(j) : j \in {j \in DOMAIN sent : HandedOver(j)}}
  BY <1>1, <1>7
<1>9. GivenOK'
  <2>1. CASE given' = given
    BY <1>1, <1>5, <1>8, <2>1 DEF GivenOK
  <2>2. CASE given' = Append(given, Stray) /\ ~GivenStray
    <3> DEFINE S == {Handed(j) : j \in DOMAIN sent} \cup {Stray}
    <3>1. given \in Seq(S) /\ Stray \in S /\ \A k \in DOMAIN given : given[k] # Stray
      BY <1>1, <2>2 DEF GivenOK, GivenStray
    <3> HIDE DEF S
    <3>2. /\ given' \in Seq(S)
          /\ {given'[k] : k \in DOMAIN given'} = {given[k] : k \in DOMAIN given} \cup {Stray}
          /\ \A k, l \in DOMAIN given' : k < l =>
                  /\ k \in DOMAIN given /\ given'[k] = given[k]
                  /\ (l \in DOMAIN given /\ given'[l] = given[l]) \/ given'[l] = Stray
      BY <2>2, <3>1, GivenGrows
    <3>3. \A k, l \in DOMAIN given' : k < l =>
            \/ given'[l] = Stray
            \/ given'[k] # Stray /\ given'[k].bytes[1] < given'[l].bytes[1]
      BY <1>1, <3>1, <3>2 DEF GivenOK
    <3>4. {given'[k] : k \in DOMAIN given'} \ {Stray} = {given[k] : k \in DOMAIN given} \ {Stray}
      BY <3>2
    <3>5. given' \in Seq({Handed(j)' : j \in DOMAIN sent'} \cup {Stray})
      BY <1>8, <3>2 DEF S
    <3> QED BY <1>1, <1>5, <1>8, <3>3, <3>4, <3>5 DEF GivenOK
  <2> QED BY <1>1, <2>1, <2>2
<1> QED BY <1>2, <1>6, <1>9 DEF FramingInv

-----------------------------------------------------------------------------
(* Framing: theorems.                                                      *)

LEMMA FramingStep == ASSUME FramingInv, [FramingNext]_framingVars PROVE FramingInv'
<1>1. CASE UNCHANGED framingVars
  <2>1. FramingTypes' /\ Window(buffer', taken') /\ RefusedForCause' /\ Position' = Position
    BY <1>1 DEF framingVars, FramingInv, FramingTypes, Window, RefusedForCause, Refusable, Deadly,
                Met, Position, ReadableSize, Capacity, Total, End, Framed
  <2> QED BY <1>1, <2>1, ReadingKeeps DEF framingVars
<1> QED BY <1>1, PeerSendsFrameKeeps, BytesArriveKeeps, ReadSomeKeeps, TurnKeeps, DispatchKeeps,
           DispatchStrayKeeps
        DEF FramingNext

LEMMA FramingInvHolds == FramingInv => GivenInOrder /\ RefusedForCause
<1> SUFFICES ASSUME FramingInv PROVE GivenInOrder /\ RefusedForCause
  OBVIOUS
<1> USE DEF FramingInv
<1>1. /\ taken \in Nat /\ Total \in Nat /\ taken <= Total
      /\ ReadableSize(buffer) \in Nat /\ Position \in Nat /\ taken - ReadableSize(buffer) = Position
  BY PositionIs
<1>2. FramingTypeOK
  BY <1>1, Facts DEF FramingTypeOK, FramingTypes, Capacity
<1>3. Contents(buffer) = [k \in 1..ReadableSize(buffer) |-> Position + k]
  BY <1>1, ContentsAre
<1>4. Framed => Adrift \/ Position \in PlacesInStream
  BY DEF GivenOK
<1>5. BufferIsWindow
  BY <1>2, <1>3, <1>4 DEF BufferIsWindow, PlacesInStream
<1>6. Framed =>
        /\ {given[k] : k \in DOMAIN given} \ {Stray}
             = {Handed(i) : i \in {i \in DOMAIN sent : HandedOver(i)}}
        /\ \A k, l \in DOMAIN given : k < l =>
                \/ given[l] = Stray
                \/ given[k] # Stray /\ given[k].bytes[1] < given[l].bytes[1]
        /\ GivenStray => refused
  BY DEF GivenOK
<1> QED BY <1>5, <1>6 DEF GivenInOrder, HandedOver

-----------------------------------------------------------------------------
(* Http: the invariant.                                                    *)

HeaderKinds == {"keep", "length", "field", "badfield"}

\* A request ends with its body, or with the blank line if it has none.
Final(j) == sent[j].kind = "body" \/ (sent[j].kind = "blank" /\ ~HasBody(sent[j].request))

\* What may come behind the j-th part.
Follows(j, m) ==
    IF Final(j) THEN m.kind \in Lines /\ m.request = sent[j].request + 1
    ELSE /\ m.request = sent[j].request
         /\ m.kind \in IF sent[j].kind = "blank" THEN {"body"} ELSE HeaderKinds \cup {"blank"}

\* The parts are those of requests, each begun by a line, in their order.
PartsOK ==
    /\ \A j \in DOMAIN sent :
        /\ sent[j].request \in 1..Requests
        /\ sent[j].kind = "body" => sent[j].size = Body /\ HasBody(sent[j].request)
    /\ sent # <<>> => sent[1].kind \in Lines /\ sent[1].request = 1
    /\ \A j \in DOMAIN sent : j + 1 \in DOMAIN sent => Follows(j, sent[j + 1])
    /\ \A i, j \in DOMAIN sent : i < j =>
        /\ sent[i].request <= sent[j].request
        /\ sent[i].request = sent[j].request =>
            /\ sent[j].kind \notin Lines /\ sent[i].kind # "body"
            /\ sent[i].kind = "blank" => sent[j].kind = "body"
    /\ \A k \in 1..Requests : \E j \in PartsOf(k) : sent[j].kind \in Lines
    /\ \A k \in 1..(Requests - 1) : Whole(k)

Contexts ==
    [status : {"line", "header", "body", "error"}, code : {"200", "400", "414", "431"},
     path : {"", "line", "nowhere"}, keep : BOOLEAN, length : {0, Body}]

Replies == [code : {"200", "404", "400", "414", "431"}, short : BOOLEAN]

\* The i-th part is the next to be read, or it is yet to be sent.
At(i) ==
    /\ i \in 1..Len(sent) + 1
    /\ Position = IF i = Len(sent) + 1 THEN Total ELSE sent[i].from

\* What the context has of the request whose parts before the i-th were read.
ContextOf(i) ==
    LET r == sent[i - 1].request IN
    /\ i > 1
    /\ context.code = "200"
    /\ \E s \in PartsOf(r) : s < i /\ sent[s].kind \in Lines /\ context.path = sent[s].kind
    /\ context.keep <=> \E j \in PartsOf(r) : j < i /\ sent[j].kind = "keep"
    /\ context.length = IF \E j \in PartsOf(r) : j < i /\ sent[j].kind = "length"
                        THEN Body ELSE 0
    /\ Len(replies) = r - 1

\* The reply to a request that is served.
Reply200(k) ==
    [code |-> IF \E j \in PartsOf(k) : sent[j].kind = "nowhere" THEN "404" ELSE "200",
     short |-> \A j \in PartsOf(k) : sent[j].kind # "keep"]

\* The first n requests were served.
ServedAll(n) ==
    /\ n <= Requests /\ (n > 0 /\ n = Requests => Whole(n))
    /\ \A k \in 1..n : replies[k] = Reply200(k)

\* The context is where the buffer is, and nothing was refused.
Reading(i) ==
    /\ At(i)
    /\ \A j \in DOMAIN sent : j < i => ~Offends(j)
    /\ ServedAll(Len(replies))
    /\ context.status = "line" =>
        /\ context = NewContext
        /\ i > 1 => Final(i - 1)
        /\ Len(replies) = IF i = 1 THEN 0 ELSE sent[i - 1].request
    /\ context.status = "header" =>
        ContextOf(i) /\ sent[i - 1].kind \in {"line", "nowhere"} \cup HeaderKinds
    /\ context.status = "body" => ContextOf(i) /\ sent[i - 1].kind = "blank"

\* OnMessage has done what it could.
Waits(i) ==
    /\ i \in DOMAIN sent => ~Noticed(i)
    /\ context.status = "body" => context.length # 0

\* The e-th part was refused, once and whenever more came.
Refused(e) ==
    LET r == sent[e].request
        x == [code |-> CodeOf(e), short |-> \A j \in PartsOf(r) : j < e => sent[j].kind # "keep"]
    IN /\ e \in DOMAIN sent
       /\ Offends(e) /\ Noticed(e)
       /\ \A j \in DOMAIN sent : j < e => ~Offends(j)
       /\ ServedAll(r - 1)
       /\ Len(replies) >= r
       /\ \A k \in r..Len(replies) : replies[k] = x
       /\ context.code = CodeOf(e) /\ Short(context) = x.short

HttpInv ==
    /\ context \in Contexts
    /\ replies \in Seq(Replies)
    /\ ~Framed =>
        /\ PartsOK
        /\ IF context.status = "error" THEN \E e \in DOMAIN sent : Refused(e)
           ELSE \E i \in 1..(Len(sent) + 1) : Reading(i) /\ (stage = "idle" => Waits(i))

-----------------------------------------------------------------------------
(* Http: lemmas on the parts of requests.                                  *)

LEMMA PartFacts ==
    ASSUME StreamOK, ~Framed
    PROVE  /\ Len(sent) \in Nat /\ DOMAIN sent = 1..Len(sent)
           /\ sent = <<>> => Len(sent) = 0 /\ Requests = 0
           /\ sent # <<>> => Len(sent) \in DOMAIN sent /\ Requests = sent[Len(sent)].request
           /\ Requests \in Nat
           /\ \A j \in DOMAIN sent :
                /\ sent[j] \in Parts
                /\ sent[j].from \in Nat /\ sent[j].size \in Nat \ {0} /\ sent[j].kind \in PartKinds
                /\ sent[j].request \in Nat \ {0}
<1>1. Len(sent) \in Nat /\ DOMAIN sent = 1..Len(sent) /\ sent \in Seq(SentFrames \cup Parts)
  BY StreamFacts DEF StreamOK
<1>2. \A j \in DOMAIN sent :
        /\ sent[j] \in Parts
        /\ sent[j].from \in Nat /\ sent[j].size \in Nat \ {0} /\ sent[j].kind \in PartKinds
        /\ sent[j].request \in Nat \ {0}
  BY DEF StreamOK, Parts
<1>3. sent # <<>> => Len(sent) \in DOMAIN sent
  BY <1>1, EmptySeq
<1>4. sent = <<>> => Len(sent) = 0
  BY EmptySeq
<1> QED BY <1>1, <1>2, <1>3, <1>4 DEF Requests

LEMMA FinalIsLast ==
    ASSUME StreamOK, ~Framed, PartsOK, NEW i \in DOMAIN sent, Final(i),
           NEW j \in PartsOf(sent[i].request)
    PROVE  j <= i
<1>1. j \in DOMAIN sent /\ sent[j].request = sent[i].request /\ i \in Nat /\ j \in Nat
  BY PartFacts DEF PartsOf
<1>2. ASSUME i < j PROVE FALSE
  <2>1. sent[i].kind # "body" /\ (sent[i].kind = "blank" => sent[j].kind = "body")
    BY <1>1, <1>2 DEF PartsOK
  <2>2. sent[j].kind = "body" => HasBody(sent[j].request)
    BY <1>1 DEF PartsOK
  <2> QED BY <1>1, <2>1, <2>2 DEF Final
<1> QED BY <1>1, <1>2

LEMMA WholeIs ==
    ASSUME StreamOK, ~Framed, PartsOK
    PROVE  /\ \A j \in DOMAIN sent : Final(j) => Whole(sent[j].request)
           /\ \A k : Whole(k) => \E j \in PartsOf(k) : Final(j)
           /\ sent # <<>> => (Whole(Requests) <=> Final(Len(sent)))
<1>1. \A j \in DOMAIN sent : Final(j) => Whole(sent[j].request)
  BY DEF Final, Whole, PartsOf
<1>2. \A k : Whole(k) => \E j \in PartsOf(k) : Final(j)
  BY DEF Final, Whole, PartsOf
<1>3. ASSUME sent # <<>>, Whole(Requests) PROVE Final(Len(sent))
  <2>1. PICK j \in PartsOf(Requests) : Final(j)
    BY <1>2, <1>3
  <2>2. Len(sent) \in PartsOf(Requests) /\ Len(sent) \in Nat
    BY <1>3, PartFacts DEF PartsOf
  <2>3. j \in DOMAIN sent /\ sent[j].request = Requests
    BY DEF PartsOf
  <2>4. Len(sent) <= j
    BY <2>1, <2>2, <2>3, FinalIsLast
  <2>5. j = Len(sent)
    BY <2>2, <2>3, <2>4, PartFacts
  <2> QED BY <2>1, <2>5
<1> QED BY <1>1, <1>2, <1>3, PartFacts

\* A request has one line, its first part.
LEMMA LineIsFirst ==
    ASSUME StreamOK, ~Framed, PartsOK, NEW s \in DOMAIN sent, sent[s].kind \in Lines
    PROVE  /\ \A j \in PartsOf(sent[s].request) : s <= j /\ (sent[j].kind \in Lines => j = s)
           /\ StartOf(sent[s].request) = s
<1>1. ASSUME NEW j \in PartsOf(sent[s].request)
      PROVE  s <= j /\ (sent[j].kind \in Lines => j = s)
  <2>1. j \in DOMAIN sent /\ sent[j].request = sent[s].request /\ s \in Nat /\ j \in Nat
    BY PartFacts DEF PartsOf
  <2>2. ~(j < s)
    BY <2>1 DEF PartsOK
  <2>3. s < j => sent[j].kind \notin Lines
    BY <2>1 DEF PartsOK
  <2> QED BY <2>1, <2>2, <2>3
<1>2. s \in PartsOf(sent[s].request)
  BY DEF PartsOf
<1> QED BY <1>1, <1>2 DEF StartOf

\* What comes next in the stream.
MayBeNext(m) ==
    /\ IF sent = <<>> THEN m.kind \in Lines /\ m.request = 1 ELSE Follows(Len(sent), m)
    /\ m.kind = "body" => m.size = Body

LEMMA PartsGrow ==
    ASSUME StreamOK, ~Framed, PartsOK, role' = role, NEW m \in Parts, m.from = Total,
           sent' = Append(sent, m), MayBeNext(m)
    PROVE  /\ PartsOK'
           /\ Requests' = m.request /\ Requests <= Requests'
           /\ \A k : PartsOf(k)' = PartsOf(k) \cup IF k = m.request THEN {Len(sent) + 1} ELSE {}
           /\ \A j \in DOMAIN sent : sent'[j] = sent[j] /\ (Final(j)' <=> Final(j))
           /\ \A k \in 1..Requests : Whole(k) => k # m.request /\ Whole(k)'
<1> DEFINE n == Len(sent) + 1
<1>1. /\ DOMAIN sent' = DOMAIN sent \cup {n} /\ n \notin DOMAIN sent /\ n \in Nat
      /\ Len(sent') = n
      /\ \A i \in DOMAIN sent : sent'[i] = sent[i]
      /\ sent'[n] = m
  BY StreamGrows, PartFacts
<1>2. m.request \in Nat \ {0} /\ m.kind \in PartKinds
  BY DEF Parts
<1>3. sent' # <<>> /\ Requests' = m.request
  <2>1. sent' # <<>>
    BY <1>1
  <2> QED BY <1>1, <2>1 DEF Requests
<1>4. /\ m.request \in {Requests, Requests + 1}
      /\ sent # <<>> /\ m.request = Requests => ~Final(Len(sent)) /\ m.kind \notin Lines
      /\ m.request = Requests + 1 => m.kind \in Lines
      /\ sent # <<>> /\ m.request = Requests + 1 => Final(Len(sent))
      /\ m.request = Requests => sent # <<>>
  <2>1. CASE sent = <<>>
    BY <2>1, PartFacts DEF MayBeNext
  <2>2. CASE sent # <<>>
    <3>1. Follows(Len(sent), m) /\ Requests = sent[Len(sent)].request /\ Requests \in Nat
      BY <2>2, PartFacts DEF MayBeNext
    <3>2. \A x \in HeaderKinds \cup {"blank", "body"} : x \notin Lines
      BY DEF HeaderKinds, Lines
    <3>3. Requests + 1 # Requests
      BY <3>1
    <3> QED BY <2>2, <3>1, <3>2, <3>3 DEF Follows
  <2> QED BY <2>1, <2>2
<1>5. \A k : PartsOf(k)' = PartsOf(k) \cup IF k = m.request THEN {n} ELSE {}
  BY <1>1 DEF PartsOf
<1> HIDE DEF n
<1>6. \A k : HasBody(k) => HasBody(k)'
  <2>1. SUFFICES ASSUME NEW k, HasBody(k) PROVE HasBody(k)'
    OBVIOUS
  <2>2. PICK j \in PartsOf(k) : sent[j].kind = "length"
    BY <2>1 DEF HasBody
  <2>3. j \in PartsOf(k)' /\ sent'[j].kind = "length"
    BY <1>1, <1>5, <2>2 DEF PartsOf
  <2> QED BY <2>3 DEF HasBody
\* A blank line ends the headers.
<1>7. ASSUME NEW j \in DOMAIN sent, sent[j].kind = "blank"
      PROVE  HasBody(sent[j].request)' <=> HasBody(sent[j].request)
  <2>1. ASSUME HasBody(sent[j].request)', ~HasBody(sent[j].request) PROVE FALSE
    <3>1. PICK i \in PartsOf(sent[j].request)' : sent'[i].kind = "length"
      BY <2>1 DEF HasBody
    <3>2. i = n /\ m.request = sent[j].request /\ m.kind = "length"
      <4>1. i \notin PartsOf(sent[j].request)
        <5>1. i \in PartsOf(sent[j].request) => sent'[i] = sent[i]
          BY <1>1 DEF PartsOf
        <5> QED BY <2>1, <3>1, <5>1 DEF HasBody
      <4> QED BY <1>1, <1>5, <3>1, <4>1
    <3>3. m.request = Requests /\ sent # <<>> /\ ~Final(Len(sent))
      <4>1. "length" \notin Lines
        BY DEF Lines
      <4> QED BY <1>4, <3>2, <4>1
    <3>4. Len(sent) \in DOMAIN sent /\ sent[Len(sent)].request = Requests /\ j <= Len(sent)
      BY <3>3, PartFacts
    <3>5. sent[Len(sent)].kind # "blank"
      BY <3>2, <3>3 DEF MayBeNext, Follows
    <3>6. j < Len(sent)
      BY <1>7, <3>4, <3>5, PartFacts
    <3>7. sent[Len(sent)].kind = "body"
      BY <1>7, <3>2, <3>3, <3>4, <3>6 DEF PartsOK
    <3> QED BY <3>3, <3>7 DEF Final
  <2> QED BY <1>6, <2>1
<1>8. \A j \in DOMAIN sent : Final(j)' <=> Final(j)
  BY <1>1, <1>7 DEF Final
<1>9. ASSUME NEW k \in 1..Requests, Whole(k)
      PROVE  k # m.request /\ Whole(k)'
  <2>1. k # m.request
    <3>1. SUFFICES ASSUME k = m.request PROVE FALSE
      OBVIOUS
    <3>2. k = Requests /\ Requests \in Nat
      BY <1>4, <3>1, PartFacts
    <3> QED BY <1>4, <1>9, <3>1, <3>2, WholeIs
  <2>2. PICK j \in PartsOf(k) : Final(j)
    BY <1>9, WholeIs
  <2>3. j \in DOMAIN sent /\ j \in PartsOf(k)' /\ Final(j)' /\ sent'[j].request = k
    BY <1>1, <1>5, <1>8, <2>2 DEF PartsOf
  <2>4. Whole(k)'
    BY <2>3 DEF Whole, Final
  <2> QED BY <2>1, <2>4
<1>10. Requests \in Nat /\ Requests <= Requests' /\ Requests' \in Nat
  BY <1>3, <1>4, PartFacts
<1>11. \A j \in DOMAIN sent' : (/\ sent[j].request \in 1..Requests
                                /\ sent[j].kind = "body" =>
                                    sent[j].size = Body /\ HasBody(sent[j].request))'
  <2>1. SUFFICES ASSUME NEW j \in DOMAIN sent', NEW k, k = sent'[j].request
                 PROVE  /\ k \in 1..Requests'
                        /\ sent'[j].kind = "body" => sent'[j].size = Body /\ HasBody(k)'
    BY DEF HasBody, PartsOf
  <2>2. CASE j \in DOMAIN sent
    <3>1. /\ k \in 1..Requests
          /\ sent[j].kind = "body" => sent[j].size = Body /\ HasBody(k)
      BY <1>1, <2>1, <2>2 DEF PartsOK
    <3>2. k \in 1..Requests'
      BY <1>10, <3>1
    <3> QED BY <1>1, <1>6, <2>2, <3>1, <3>2
  <2>3. CASE j = n
    <3>1. k = m.request /\ k \in 1..Requests'
      BY <1>1, <1>2, <1>3, <2>1, <2>3
    <3>2. m.kind = "body" => m.size = Body /\ HasBody(m.request)
      <4>1. SUFFICES ASSUME m.kind = "body" PROVE m.size = Body /\ HasBody(m.request)
        OBVIOUS
      <4>2. "body" \notin Lines /\ "body" \notin HeaderKinds \cup {"blank"}
        BY DEF Lines, HeaderKinds
      <4>3. sent # <<>> /\ ~Final(Len(sent)) /\ sent[Len(sent)].kind = "blank"
            /\ m.request = sent[Len(sent)].request
        BY <4>1, <4>2 DEF MayBeNext, Follows
      <4> QED BY <4>1, <4>3 DEF Final, MayBeNext
    <3> QED BY <1>1, <1>6, <2>3, <3>1, <3>2
  <2> QED BY <1>1, <2>2, <2>3
<1>12. sent' # <<>> => sent'[1].kind \in Lines /\ sent'[1].request = 1
  <2>1. CASE sent = <<>>
    <3>1. n = 1
      BY <2>1, PartFacts DEF n
    <3> QED BY <1>1, <2>1, <3>1 DEF MayBeNext
  <2>2. CASE sent # <<>>
    <3>1. 1 \in DOMAIN sent
      BY <2>2, PartFacts
    <3> QED BY <1>1, <2>2, <3>1 DEF PartsOK
  <2> QED BY <2>1, <2>2
<1>13. \A j \in DOMAIN sent' : j + 1 \in DOMAIN sent' => Follows(j, sent[j + 1])'
  <2>1. SUFFICES ASSUME NEW j \in DOMAIN sent', j + 1 \in DOMAIN sent'
                 PROVE  Follows(j, sent[j + 1])'
    OBVIOUS
  <2>2. j \in DOMAIN sent
    BY <1>1, <2>1, PartFacts DEF n
  <2>3. Follows(j, sent'[j + 1])
    <3>1. CASE j + 1 \in DOMAIN sent
      BY <1>1, <2>2, <3>1 DEF PartsOK
    <3>2. CASE j + 1 = n
      <4>1. j = Len(sent) /\ sent # <<>>
        BY <2>2, <3>2, PartFacts DEF n
      <4> QED BY <1>1, <3>2, <4>1 DEF MayBeNext
    <3> QED BY <1>1, <2>1, <3>1, <3>2
  <2> QED BY <1>1, <1>8, <2>2, <2>3 DEF Follows
<1>14. \A i, j \in DOMAIN sent' : i < j =>
        /\ sent'[i].request <= sent'[j].request
        /\ sent'[i].request = sent'[j].request =>
            /\ sent'[j].kind \notin Lines /\ sent'[i].kind # "body"
            /\ sent'[i].kind = "blank" => sent'[j].kind = "body"
  <2>1. SUFFICES ASSUME NEW i \in DOMAIN sent', NEW j \in DOMAIN sent', i < j
                 PROVE  /\ sent'[i].request <= sent'[j].request
                        /\ sent'[i].request = sent'[j].request =>
                            /\ sent'[j].kind \notin Lines /\ sent'[i].kind # "body"
                            /\ sent'[i].kind = "blank" => sent'[j].kind = "body"
    OBVIOUS
  <2>2. i \in DOMAIN sent /\ i <= Len(sent) /\ sent # <<>>
    BY <1>1, <2>1, PartFacts DEF n
  <2>3. CASE j \in DOMAIN sent
    BY <1>1, <2>1, <2>2, <2>3 DEF PartsOK
  <2>4. CASE j = n
    <3>1. Len(sent) \in DOMAIN sent /\ sent[Len(sent)].request = Requests
      BY <2>2, PartFacts
    <3>2. sent[i].request \in 1..Requests
      BY <2>2 DEF PartsOK
    <3>3. sent'[i].request <= sent'[j].request
      BY <1>1, <1>3, <1>10, <2>2, <2>4, <3>2
    <3>4. ASSUME sent[i].request = m.request
          PROVE  /\ m.kind \notin Lines /\ sent[i].kind # "body"
                 /\ sent[i].kind = "blank" => m.kind = "body"
      <4>1. m.request = Requests /\ ~Final(Len(sent)) /\ m.kind \notin Lines
        BY <1>4, <1>10, <2>2, <3>2, <3>4
      <4>2. Follows(Len(sent), m)
        BY <2>2 DEF MayBeNext
      <4>3. CASE i = Len(sent)
        BY <4>1, <4>2, <4>3 DEF Final, Follows
      <4>4. CASE i # Len(sent)
        <5>1. i < Len(sent)
          BY <2>2, <4>4, PartFacts
        <5>2. /\ sent[i].kind # "body"
              /\ sent[i].kind = "blank" => sent[Len(sent)].kind = "body"
          BY <2>2, <3>1, <3>4, <4>1, <5>1 DEF PartsOK
        <5> QED BY <4>1, <5>2 DEF Final
      <4> QED BY <4>3, <4>4
    <3> QED BY <1>1, <2>2, <2>4, <3>3, <3>4
  <2> QED BY <1>1, <2>3, <2>4
<1>15. \A k \in 1..Requests' : \E j \in PartsOf(k)' : sent'[j].kind \in Lines
  <2>1. SUFFICES ASSUME NEW k \in 1..Requests'
                 PROVE  \E j \in PartsOf(k)' : sent'[j].kind \in Lines
    OBVIOUS
  <2>2. CASE k \in 1..Requests
    <3>1. PICK j \in PartsOf(k) : sent[j].kind \in Lines
      BY <2>2 DEF PartsOK
    <3>2. j \in PartsOf(k)' /\ sent'[j].kind \in Lines
      BY <1>1, <1>5, <3>1 DEF PartsOf
    <3> QED BY <3>2
  <2>3. CASE k \notin 1..Requests
    <3>1. k = m.request /\ m.kind \in Lines
      BY <1>3, <1>4, <1>10, <2>3
    <3> QED BY <1>1, <1>5, <3>1
  <2> QED BY <2>2, <2>3
<1>16. \A k \in 1..(Requests' - 1) : Whole(k)'
  <2>1. SUFFICES ASSUME NEW k \in 1..(Requests' - 1) PROVE Whole(k)'
    OBVIOUS
  <2>2. k \in 1..Requests
    BY <1>3, <1>4, <1>10
  <2>3. Whole(k)
    <3>1. CASE k = Requests
      <4>1. sent # <<>> /\ m.request = Requests + 1
        BY <1>3, <1>4, <1>10, <2>2, <3>1, PartFacts
      <4> QED BY <1>4, <3>1, <4>1, WholeIs
    <3>2. CASE k # Requests
      <4>1. k \in 1..(Requests - 1)
        BY <1>10, <2>2, <3>2
      <4> QED BY <4>1 DEF PartsOK
    <3> QED BY <3>1, <3>2
  <2> QED BY <1>9, <2>2, <2>3
<1>17. PartsOK'
  BY <1>11, <1>12, <1>13, <1>14, <1>15, <1>16 DEF PartsOK
<1> QED BY <1>1, <1>3, <1>5, <1>8, <1>9, <1>10, <1>17 DEF n

-----------------------------------------------------------------------------
(* Http: lemmas on the replies that are called for.                        *)

LEMMA HttpConstants == MaxLine \in Nat /\ Body \in Nat \ {0}
BY HttpAssumption

LEMMA NoticedIs ==
    ASSUME StreamOK, ~Framed, taken \in Nat
    PROVE  /\ \A j \in DOMAIN sent : End(j) <= taken => Noticed(j)
           /\ \A j \in DOMAIN sent : Noticed(j) => sent[j].from < taken
           /\ \A j \in DOMAIN sent : Noticed(j) /\ ~Long(j) => End(j) <= taken
           /\ \A j \in DOMAIN sent : Noticed(j) /\ Long(j) => sent[j].from + MaxLine < taken
           /\ \A i, j \in DOMAIN sent : i < j /\ Noticed(j) => Noticed(i)
<1>1. ASSUME NEW j \in DOMAIN sent
      PROVE  /\ End(j) <= taken => Noticed(j)
             /\ Noticed(j) => sent[j].from < taken
             /\ Noticed(j) /\ ~Long(j) => End(j) <= taken
             /\ Noticed(j) /\ Long(j) => sent[j].from + MaxLine < taken
  <2>1. /\ sent[j].from \in Nat /\ sent[j].size \in Nat \ {0}
        /\ End(j) = sent[j].from + sent[j].size
    BY StreamFacts
  <2>2. Long(j) => sent[j].size > MaxLine
    BY DEF Long
  <2>3. CASE Long(j)
    BY <2>1, <2>2, <2>3, HttpConstants DEF Noticed
  <2>4. CASE ~Long(j)
    BY <2>1, <2>4, HttpConstants DEF Noticed
  <2> QED BY <2>3, <2>4
<1>2. ASSUME NEW i \in DOMAIN sent, NEW j \in DOMAIN sent, i < j, Noticed(j)
      PROVE  Noticed(i)
  <2>1. End(i) <= sent[j].from /\ sent[j].from < taken
    BY <1>1, <1>2, Apart
  <2>2. End(i) \in Nat /\ sent[j].from \in Nat
    BY StreamFacts
  <2> QED BY <1>1, <2>1, <2>2
<1> QED BY <1>1, <1>2

LEMMA ServedReply ==
    ASSUME StreamOK, ~Framed, PartsOK, NEW k \in 1..Requests, Whole(k),
           \A j \in PartsOf(k) : ~Offends(j) /\ Noticed(j)
    PROVE  ReplyTo(k) = {Reply200(k)} /\ Reply200(k).code \in Served
<1>1. PICK s \in PartsOf(k) : sent[s].kind \in Lines
  BY DEF PartsOK
<1>2. s \in DOMAIN sent /\ sent[s].request = k
  BY DEF PartsOf
<1>3. StartOf(k) = s /\ \A j \in PartsOf(k) : sent[j].kind \in Lines => j = s
  BY <1>1, <1>2, LineIsFirst
<1>4. sent[StartOf(k)].kind = "nowhere" <=> \E j \in PartsOf(k) : sent[j].kind = "nowhere"
  BY <1>1, <1>3 DEF Lines
<1>5. \A j \in PartsOf(k) : j < Len(sent) + 1
  BY PartFacts DEF PartsOf
<1>6. {j \in PartsOf(k) : Offends(j)} = {}
  OBVIOUS
<1>7. ReplyTo(k) = {[code |-> IF sent[StartOf(k)].kind = "nowhere" THEN "404" ELSE "200",
                     short |-> \A j \in PartsOf(k) : j < Len(sent) + 1 => sent[j].kind # "keep"]}
  BY <1>6 DEF ReplyTo
<1>8. (\A j \in PartsOf(k) : j < Len(sent) + 1 => sent[j].kind # "keep")
        = \A j \in PartsOf(k) : sent[j].kind # "keep"
  BY <1>5
<1> QED BY <1>4, <1>7, <1>8 DEF Reply200, Served

\* The reply to a request whose part e is refused.
Reply400(e) ==
    [code |-> CodeOf(e),
     short |-> \A j \in PartsOf(sent[e].request) : j < e => sent[j].kind # "keep"]

LEMMA RefusedReply ==
    ASSUME StreamOK, ~Framed, NEW e \in DOMAIN sent, Offends(e), Noticed(e),
           \A j \in DOMAIN sent : j < e => ~Offends(j)
    PROVE  /\ ReplyTo(sent[e].request) = {Reply400(e)}
           /\ Reply400(e).code \in {"400", "414", "431"} /\ Reply400(e).code \notin Served
<1> DEFINE k == sent[e].request
           bad == {j \in PartsOf(k) : Offends(j)}
<1>1. e \in bad
  BY DEF PartsOf
<1>2. \A j \in bad : e <= j /\ j \in Nat /\ e \in Nat
  BY PartFacts DEF PartsOf
<1>3. {j \in {j \in bad : Noticed(j) /\ \A i \in bad : j <= i} : TRUE} = {e}
  <2>1. Noticed(e) /\ \A i \in bad : e <= i
    BY <1>2
  <2>2. \A j \in bad : (\A i \in bad : j <= i) => j = e
    <3>1. SUFFICES ASSUME NEW j \in bad, j <= e PROVE j = e
      BY <1>1
    <3>2. e <= j /\ j \in Nat /\ e \in Nat
      BY <1>2
    <3> QED BY <3>1, <3>2
  <2> HIDE DEF bad
  <2> QED BY <1>1, <2>1, <2>2
<1>4. ReplyTo(k) = {[code |-> CodeOf(j),
                     short |-> \A i \in PartsOf(k) : i < j => sent[i].kind # "keep"] :
                        j \in {j \in bad : Noticed(j) /\ \A i \in bad : j <= i}}
  BY <1>1 DEF ReplyTo
<1>5. ReplyTo(k) = {Reply400(e)}
  <2>1. {j \in bad : Noticed(j) /\ \A i \in bad : j <= i} = {e}
    BY <1>3
  <2> HIDE DEF bad
  <2> QED BY <1>4, <2>1 DEF Reply400
<1> QED BY <1>5 DEF Reply400, CodeOf, Served

LEMMA NoReply ==
    ASSUME StreamOK, ~Framed, taken \in Nat, NEW k
    PROVE  /\ ~Whole(k) /\ (\A j \in PartsOf(k) : ~Offends(j)) => ReplyTo(k) = {}
           /\ \A i \in PartsOf(k) :
                ~Noticed(i) /\ (\A j \in DOMAIN sent : j < i => ~Offends(j)) => ReplyTo(k) = {}
<1>1. ASSUME ~Whole(k), \A j \in PartsOf(k) : ~Offends(j) PROVE ReplyTo(k) = {}
  <2>1. {j \in PartsOf(k) : Offends(j)} = {}
    BY <1>1
  <2> QED BY <1>1, <2>1 DEF ReplyTo
<1>2. ASSUME NEW i \in PartsOf(k), ~Noticed(i), \A j \in DOMAIN sent : j < i => ~Offends(j)
      PROVE  ReplyTo(k) = {}
  <2> DEFINE bad == {j \in PartsOf(k) : Offends(j)}
  <2>1. CASE bad = {}
    <3>1. ~(Whole(k) /\ \A j \in PartsOf(k) : Noticed(j))
      BY <1>2
    <3> QED BY <2>1, <3>1 DEF ReplyTo
  <2>2. CASE bad # {}
    <3>1. \A j \in bad : ~Noticed(j)
      <4>1. SUFFICES ASSUME NEW j \in bad, Noticed(j) PROVE FALSE
        OBVIOUS
      <4>2. i \in DOMAIN sent /\ j \in DOMAIN sent /\ i \in Nat /\ j \in Nat /\ ~(j < i)
        BY <1>2, PartFacts DEF PartsOf
      <4>3. i < j => Noticed(i)
        BY <4>1, <4>2, NoticedIs
      <4> QED BY <1>2, <4>1, <4>2, <4>3
    <3>2. {j \in bad : Noticed(j) /\ \A l \in bad : j <= l} = {}
      BY <3>1
    <3>3. ReplyTo(k) = {[code |-> CodeOf(j),
                         short |-> \A l \in PartsOf(k) : l < j => sent[l].kind # "keep"] :
                            j \in {j \in bad : Noticed(j) /\ \A l \in bad : j <= l}}
      BY <2>2 DEF ReplyTo
    <3> HIDE DEF bad
    <3> QED BY <3>2, <3>3
  <2> QED BY <2>1, <2>2
<1> QED BY <1>1, <1>2

\* What was read before the i-th part.
LEMMA ReadBefore ==
    ASSUME StreamOK, ~Framed, NEW i, At(i)
    PROVE  /\ i \in Nat \ {0}
           /\ \A j \in DOMAIN sent : j < i => End(j) <= Position
           /\ i \in DOMAIN sent => sent[i].from = Position
           /\ i \notin DOMAIN sent => i = Len(sent) + 1 /\ Position = Total
<1>1. Len(sent) \in Nat /\ DOMAIN sent = 1..Len(sent) /\ \A j \in DOMAIN sent : End(j) <= Total
  BY StreamFacts
<1>2. i \in 1..Len(sent) + 1
  BY DEF At
<1>3. i \in Nat \ {0} /\ i # Len(sent) + 1 => i \in DOMAIN sent
  BY <1>1, <1>2
<1>4. i \in Nat \ {0}
  BY <1>1, <1>2
<1>5. i = Len(sent) + 1 => i \notin DOMAIN sent
  BY <1>1
<1>6. \A j \in DOMAIN sent : j < i => End(j) <= Position
  BY <1>1, <1>3, <1>4, Apart DEF At
<1> QED BY <1>3, <1>4, <1>5, <1>6 DEF At

\* The parts of the requests that were served were read.
LEMMA ServedRead ==
    ASSUME StreamOK, ~Framed, PartsOK, context.status \in {"line", "header", "body"},
           NEW i, Reading(i), NEW k \in 1..Len(replies), NEW j \in PartsOf(k)
    PROVE  j < i
<1>1. /\ i \in Nat \ {0} /\ j \in DOMAIN sent /\ sent[j].request = k /\ j \in Nat
      /\ Len(sent) \in Nat /\ DOMAIN sent = 1..Len(sent)
  BY ReadBefore, PartFacts DEF Reading, PartsOf
<1>2. At(i) /\ i \in 1..Len(sent) + 1
  BY DEF Reading, At
<1>3. SUFFICES ASSUME i <= j PROVE FALSE
  BY <1>1
<1>4. i \in DOMAIN sent
  BY <1>1, <1>3
<1>5. sent[i].request <= k /\ sent[i].request \in Nat /\ k \in Nat
  <2>1. i = j \/ i < j
    BY <1>1, <1>3
  <2>2. i < j => sent[i].request <= sent[j].request
    BY <1>1, <1>4 DEF PartsOK
  <2> QED BY <1>1, <1>4, <2>1, <2>2, PartFacts
<1>6. CASE context.status = "line" /\ i = 1
  BY <1>6 DEF Reading
<1>7. i > 1 => i - 1 \in DOMAIN sent /\ sent[i - 1].request \in Nat /\ (i - 1) + 1 = i
  BY <1>1, <1>4, PartFacts
<1>8. CASE context.status = "line" /\ i # 1
  <2>1. Final(i - 1) /\ Len(replies) = sent[i - 1].request /\ i > 1
    BY <1>1, <1>8 DEF Reading
  <2>2. Follows(i - 1, sent[i])
    BY <1>4, <1>7, <2>1 DEF PartsOK
  <2>3. sent[i].request = sent[i - 1].request + 1
    BY <2>1, <2>2 DEF Follows
  <2> QED BY <1>5, <1>7, <2>1, <2>3
<1>9. CASE context.status \in {"header", "body"}
  <2>1. Len(replies) = sent[i - 1].request - 1 /\ i > 1
    BY <1>9 DEF Reading, ContextOf
  <2>2. sent[i - 1].request <= sent[i].request
    <3>1. i - 1 < i
      BY <1>1
    <3> QED BY <1>4, <1>7, <2>1, <3>1 DEF PartsOK
  <2> QED BY <1>5, <1>7, <2>1, <2>2
<1> QED BY <1>6, <1>8, <1>9

\* While nothing is refused, the requests that were served call for the replies
\* they got.
LEMMA RepliesSoFar ==
    ASSUME FramingInv, ~Framed, PartsOK, context.status \in {"line", "header", "body"},
           replies \in Seq(Replies), NEW i, Reading(i), NEW k \in 1..Len(replies)
    PROVE  /\ ReplyTo(k) = {Reply200(k)} /\ Reply200(k).code \in Served
           /\ replies[k] = Reply200(k) /\ k <= Requests
<1>1. StreamOK /\ taken \in Nat /\ Position \in Nat /\ Position <= taken
  BY PositionIs DEF FramingInv
<1>2. At(i) /\ ServedAll(Len(replies))
  BY DEF Reading
<1>3. k \in 1..Requests /\ Whole(k) /\ replies[k] = Reply200(k)
  <2>1. /\ Len(replies) <= Requests
        /\ Len(replies) > 0 /\ Len(replies) = Requests => Whole(Len(replies))
        /\ replies[k] = Reply200(k)
    BY <1>2 DEF ServedAll
  <2>2. Requests \in Nat /\ k \in Nat \ {0} /\ k <= Len(replies)
    BY <1>1, PartFacts
  <2>3. Len(replies) \in Int
    BY LenProperties
  <2>4. k <= Requests
    BY <2>1, <2>2, <2>3
  <2>5. CASE k = Requests
    <3>1. Len(replies) = k
      BY <2>1, <2>2, <2>3, <2>5
    <3> QED BY <2>1, <2>2, <2>5, <3>1
  <2>6. CASE k # Requests
    <3>1. k \in 1..(Requests - 1)
      BY <2>2, <2>4, <2>6
    <3> QED BY <2>1, <2>2, <2>4, <3>1 DEF PartsOK
  <2> QED BY <2>5, <2>6
<1>4. ASSUME NEW j \in PartsOf(k) PROVE ~Offends(j) /\ Noticed(j)
  <2>1. j < i /\ j \in DOMAIN sent
    BY <1>1, ServedRead DEF PartsOf
  <2>2. ~Offends(j)
    BY <2>1 DEF Reading
  <2>3. End(j) <= Position /\ End(j) \in Nat
    BY <1>1, <1>2, <2>1, ReadBefore, StreamFacts
  <2> QED BY <1>1, <2>1, <2>2, <2>3, NoticedIs
<1> QED BY <1>1, <1>3, <1>4, ServedReply

\* The same once something is refused.
LEMMA RepliesBeforeRefusal ==
    ASSUME FramingInv, ~Framed, PartsOK, NEW e, Refused(e)
    PROVE  /\ \A k \in 1..sent[e].request - 1 :
                /\ ReplyTo(k) = {Reply200(k)} /\ Reply200(k).code \in Served
                /\ replies[k] = Reply200(k)
           /\ \A k \in sent[e].request..Len(replies) : replies[k] = Reply400(e)
           /\ ReplyTo(sent[e].request) = {Reply400(e)} /\ Reply400(e).code \notin Served
           /\ sent[e].request \in 1..Requests
<1> DEFINE r == sent[e].request
<1>1. StreamOK /\ taken \in Nat
  BY PositionIs DEF FramingInv
<1>2. /\ e \in DOMAIN sent /\ Offends(e) /\ Noticed(e)
      /\ \A j \in DOMAIN sent : j < e => ~Offends(j)
      /\ ServedAll(r - 1)
      /\ \A k \in r..Len(replies) : replies[k] = Reply400(e)
  BY DEF Refused, Reply400
<1>3. /\ ReplyTo(r) = {Reply400(e)} /\ Reply400(e).code \notin Served
  BY <1>1, <1>2, RefusedReply
<1>4. r \in 1..Requests /\ Requests \in Nat
  BY <1>1, <1>2, PartFacts DEF PartsOK
<1>5. ASSUME NEW k \in 1..r - 1
      PROVE  /\ ReplyTo(k) = {Reply200(k)} /\ Reply200(k).code \in Served
             /\ replies[k] = Reply200(k)
  <2>1. k \in 1..(Requests - 1) /\ k \in 1..Requests
    BY <1>4
  <2>2. Whole(k)
    BY <2>1 DEF PartsOK
  <2>3. replies[k] = Reply200(k)
    BY <1>2 DEF ServedAll
  <2>4. ASSUME NEW j \in PartsOf(k) PROVE ~Offends(j) /\ Noticed(j)
    <3>1. j \in DOMAIN sent /\ sent[j].request = k /\ j \in Nat /\ e \in Nat
      BY <1>1, <1>2, PartFacts DEF PartsOf
    <3>2. j < e
      <4>1. e < j => r <= k
        BY <1>2, <3>1 DEF PartsOK
      <4>2. e # j
        BY <1>4, <3>1
      <4> QED BY <1>4, <3>1, <4>1, <4>2
    <3> QED BY <1>1, <1>2, <3>1, <3>2, NoticedIs
  <2> QED BY <1>1, <2>1, <2>2, <2>3, <2>4, ServedReply
<1> QED BY <1>2, <1>3, <1>4, <1>5

LEMMA HttpTypes ==
    ASSUME HttpInv
    PROVE  /\ HttpTypeOK /\ context \in Contexts /\ replies \in Seq(Replies)
           /\ Len(replies) \in Nat /\ DOMAIN replies = 1..Len(replies)
<1>1. context \in Contexts /\ replies \in Seq(Replies)
  BY DEF HttpInv
<1>2. HttpTypeOK
  BY <1>1 DEF Contexts, HttpTypeOK
<1> QED BY <1>1, <1>2, LenProperties

\* At idle the request that is being read does not call for a reply yet.
LEMMA NothingDue ==
    ASSUME FramingInv, HttpInv, ~Framed, PartsOK, context.status \in {"line", "header", "body"},
           NEW i, Reading(i), Waits(i), NEW k \in 1..Requests, k = Len(replies) + 1
    PROVE  ReplyTo(k) = {}
<1>1. StreamOK /\ taken \in Nat
  BY PositionIs DEF FramingInv
<1>2. At(i) /\ \A j \in DOMAIN sent : j < i => ~Offends(j)
  BY DEF Reading
<1>3. /\ i \in Nat \ {0} /\ i \in DOMAIN sent => ~Noticed(i)
      /\ i \notin DOMAIN sent => i = Len(sent) + 1
      /\ i \in 1..Len(sent) + 1 /\ Len(sent) \in Nat /\ DOMAIN sent = 1..Len(sent)
      /\ Len(replies) \in Nat /\ Requests \in Nat
  BY <1>1, <1>2, ReadBefore, PartFacts, HttpTypes DEF Waits, At
<1>4. SUFFICES ASSUME ~(i \in PartsOf(k)) PROVE ReplyTo(k) = {}
  <2>1. i \in PartsOf(k) => ~Noticed(i)
    BY <1>3 DEF PartsOf
  <2> QED BY <1>1, <1>2, <2>1, NoReply
<1>5. sent # <<>> /\ Len(sent) \in DOMAIN sent /\ sent[Len(sent)].request = Requests
  BY <1>1, PartFacts
<1>6. i > 1 => i - 1 \in DOMAIN sent /\ sent[i - 1].request \in Nat /\ (i - 1) + 1 = i
  BY <1>1, <1>3, PartFacts
<1>7. CASE context.status = "line"
  <2>1. CASE i = 1
    <3>1. k = 1 /\ 1 \in DOMAIN sent /\ sent[1].request = 1
      BY <1>3, <1>5, <1>7, <2>1 DEF Reading, PartsOK
    <3> QED BY <1>4, <2>1, <3>1 DEF PartsOf
  <2>2. CASE i # 1
    <3>1. Final(i - 1) /\ Len(replies) = sent[i - 1].request /\ i > 1
      BY <1>3, <1>7, <2>2 DEF Reading
    <3>2. CASE i \in DOMAIN sent
      <4>1. Follows(i - 1, sent[i])
        BY <1>6, <3>1, <3>2 DEF PartsOK
      <4> QED BY <1>4, <3>1, <3>2, <4>1 DEF Follows, PartsOf
    <3>3. CASE i \notin DOMAIN sent
      <4>1. Len(replies) = Requests
        BY <1>3, <1>5, <3>1, <3>3
      <4> QED BY <1>3, <4>1
    <3> QED BY <3>2, <3>3
  <2> QED BY <2>1, <2>2
<1>8. CASE context.status \in {"header", "body"}
  <2>1. i > 1 /\ sent[i - 1].request = k
    BY <1>3, <1>6, <1>8 DEF Reading, ContextOf
  <2>2. ~Final(i - 1)
    <3>1. CASE context.status = "header"
      <4>1. sent[i - 1].kind \in {"line", "nowhere"} \cup HeaderKinds
        BY <3>1 DEF Reading
      <4> QED BY <4>1 DEF HeaderKinds, Final
    <3>2. CASE context.status = "body"
      <4>1. sent[i - 1].kind = "blank" /\ context.length # 0
        BY <3>2 DEF Reading, Waits
      <4>2. \E j \in PartsOf(k) : sent[j].kind = "length"
        BY <2>1, <3>2, <4>1 DEF Reading, ContextOf
      <4> QED BY <2>1, <4>1, <4>2 DEF HasBody, Final
    <3> QED BY <1>8, <3>1, <3>2
  <2>3. i \notin DOMAIN sent
    <3>1. SUFFICES ASSUME i \in DOMAIN sent PROVE i \in PartsOf(k)
      BY <1>4
    <3>2. Follows(i - 1, sent[i])
      BY <1>6, <2>1, <3>1 DEF PartsOK
    <3> QED BY <2>1, <2>2, <3>1, <3>2 DEF Follows, PartsOf
  <2>4. i - 1 = Len(sent) /\ k = Requests
    BY <1>3, <1>5, <2>1, <2>3
  <2>5. ~Whole(k)
    BY <1>1, <1>5, <2>2, <2>4, WholeIs
  <2>6. \A j \in PartsOf(k) : ~Offends(j)
    BY <1>2, <1>3, <2>3 DEF PartsOf
  <2> QED BY <1>1, <2>5, <2>6, NoReply
<1> QED BY <1>7, <1>8

LEMMA HttpInvHolds == FramingInv /\ HttpInv => RepliesExact
<1> SUFFICES ASSUME FramingInv, HttpInv, ~Framed
             PROVE  /\ \A k \in DOMAIN replies :
                        IF k <= Requests /\ Due(k) THEN replies[k] \in ReplyTo(k)
                        ELSE /\ k > 1 /\ replies[k] = replies[k - 1]
                             /\ replies[k].code \notin Served
                    /\ stage = "idle" => \A k \in 1..Requests : Due(k) => k <= Len(replies)
  BY HttpTypes DEF RepliesExact
<1>1. /\ PartsOK /\ context.status \in {"line", "header", "body", "error"}
      /\ replies \in Seq(Replies) /\ Len(replies) \in Nat /\ DOMAIN replies = 1..Len(replies)
  BY HttpTypes DEF HttpInv, Contexts
<1>2. Requests \in Nat
  BY PartFacts DEF FramingInv
<1>3. CASE context.status # "error"
  <2>1. PICK i : Reading(i) /\ (stage = "idle" => Waits(i))
    BY <1>3 DEF HttpInv
  <2>2. \A k \in 1..Len(replies) :
            /\ ReplyTo(k) = {replies[k]} /\ replies[k].code \in Served /\ k <= Requests
    BY <1>1, <1>3, <2>1, RepliesSoFar
  <2>3. ASSUME NEW k \in DOMAIN replies
        PROVE  k <= Requests /\ Due(k) /\ replies[k] \in ReplyTo(k)
    <3>1. \A l \in 1..k : ReplyTo(l) # {} /\ \A x \in ReplyTo(l) : x.code \in Served
      <4>1. \A l \in 1..k : l \in 1..Len(replies)
        BY <1>1
      <4> QED BY <2>2, <4>1
    <3> QED BY <1>1, <2>2, <3>1 DEF Due
  <2>4. ASSUME stage = "idle", NEW k \in 1..Requests, Due(k) PROVE k <= Len(replies)
    <3>1. SUFFICES ASSUME k > Len(replies) PROVE FALSE
      BY <1>1, <1>2
    <3>2. Len(replies) + 1 \in 1..k /\ Len(replies) + 1 \in 1..Requests
      BY <1>1, <1>2, <3>1
    <3>3. ReplyTo(Len(replies) + 1) = {}
      BY <1>1, <1>3, <2>1, <2>4, <3>2, NothingDue
    <3> QED BY <2>4, <3>2, <3>3 DEF Due
  <2> QED BY <2>3, <2>4
<1>4. CASE context.status = "error"
  <2>1. PICK e \in DOMAIN sent : Refused(e)
    BY <1>4 DEF HttpInv
  <2> DEFINE r == sent[e].request
  <2>2. /\ \A k \in 1..r - 1 : /\ ReplyTo(k) = {replies[k]} /\ replies[k].code \in Served
        /\ \A k \in r..Len(replies) : replies[k] = Reply400(e)
        /\ ReplyTo(r) = {Reply400(e)} /\ Reply400(e).code \notin Served
        /\ r \in 1..Requests
    BY <1>1, <2>1, RepliesBeforeRefusal
  <2>3. r <= Len(replies)
    BY <2>1 DEF Refused
  <2> HIDE DEF r
  <2>4. r \in Nat \ {0}
    BY <1>2, <2>2
  <2>5. \A k \in 1..Requests : Due(k) => k <= r
    <3>1. SUFFICES ASSUME NEW k \in 1..Requests, Due(k), r < k PROVE FALSE
      BY <1>2, <2>4
    <3>2. r \in 1..k
      BY <2>4, <3>1
    <3> QED BY <2>2, <3>1, <3>2 DEF Due
  <2>6. \A k \in 1..r : Due(k) /\ k <= Requests
    <3>1. SUFFICES ASSUME NEW k \in 1..r PROVE Due(k) /\ k <= Requests
      OBVIOUS
    <3>2. \A l \in 1..k : l \in 1..r - 1 \/ l = r
      BY <2>4
    <3>3. \A l \in 1..k : l < k => l \in 1..r - 1
      BY <2>4
    <3>4. Due(k)
      BY <2>2, <3>2, <3>3 DEF Due
    <3> QED BY <1>2, <2>2, <2>4, <3>4
  <2>7. ASSUME NEW k \in DOMAIN replies
        PROVE  IF k <= Requests /\ Due(k) THEN replies[k] \in ReplyTo(k)
               ELSE k > 1 /\ replies[k] = replies[k - 1] /\ replies[k].code \notin Served
    <3>1. CASE k \in 1..r
      <4>1. k \in 1..r - 1 \/ (k = r /\ k \in r..Len(replies))
        BY <1>1, <2>3, <2>4, <3>1
      <4> QED BY <2>2, <2>6, <3>1, <4>1
    <3>2. CASE ~(k \in 1..r)
      <4>1. k > r /\ k \in r..Len(replies) /\ k - 1 \in r..Len(replies) /\ k > 1 /\ k \in Nat
        BY <1>1, <2>4, <3>2
      <4>2. ~(k <= Requests /\ Due(k))
        <5>1. SUFFICES ASSUME k <= Requests, Due(k) PROVE FALSE
          OBVIOUS
        <5>2. k \in 1..Requests
          BY <1>2, <4>1, <5>1
        <5> QED BY <2>4, <2>5, <4>1, <5>1, <5>2
      <4> QED BY <2>2, <4>1, <4>2
    <3> QED BY <3>1, <3>2
  <2>8. ASSUME NEW k \in 1..Requests, Due(k) PROVE k <= Len(replies)
    BY <1>1, <1>2, <2>3, <2>4, <2>5, <2>8
  <2> QED BY <2>7, <2>8
<1> QED BY <1>3, <1>4

-----------------------------------------------------------------------------
(* Http: lemmas on the steps of the loop thread.                           *)

\* Nothing that is said of the stream changes when the peer sends nothing.
LEMMA StreamSame ==
    ASSUME UNCHANGED <<role, sent>>
    PROVE  /\ Total' = Total /\ Requests' = Requests /\ (Framed' <=> Framed)
           /\ StreamOK' <=> StreamOK
           /\ PartsOK' <=> PartsOK
           /\ \A j : End(j)' = End(j) /\ CodeOf(j)' = CodeOf(j)
           /\ \A j : (Offends(j)' <=> Offends(j)) /\ (Final(j)' <=> Final(j))
           /\ \A j : (Long(j)' <=> Long(j)) /\ (taken' = taken => (Noticed(j)' <=> Noticed(j)))
           /\ \A k : PartsOf(k)' = PartsOf(k) /\ (Whole(k)' <=> Whole(k))
           /\ \A k : Reply200(k)' = Reply200(k)
<1>1. Total' = Total /\ Requests' = Requests /\ (Framed' <=> Framed)
  BY DEF Total, End, Requests, Framed
<1>2. \A j : End(j)' = End(j)
  BY DEF End
<1>3. StreamOK' <=> StreamOK
  BY <1>1, <1>2 DEF StreamOK
<1>4. \A k : PartsOf(k)' = PartsOf(k)
  BY DEF PartsOf
<1>5. \A k : HasBody(k)' <=> HasBody(k)
  BY <1>4 DEF HasBody
<1>6. \A k : Whole(k)' <=> Whole(k)
  BY <1>4, <1>5 DEF Whole
<1>7. \A j : Final(j)' <=> Final(j)
  BY <1>5 DEF Final
<1>8. \A j : Long(j)' <=> Long(j)
  BY DEF Long
<1>9. /\ \A j : Offends(j)' <=> Offends(j)
      /\ \A j : CodeOf(j)' = CodeOf(j)
      /\ \A j : taken' = taken => (Noticed(j)' <=> Noticed(j))
  BY <1>8 DEF Offends, CodeOf, Noticed
<1>10. \A k : Reply200(k)' = Reply200(k)
  BY <1>4 DEF Reply200
<1>11. PartsOK' <=> PartsOK
  BY <1>1, <1>4, <1>5, <1>6, <1>7 DEF PartsOK, Follows
<1> QED BY <1>1, <1>2, <1>3, <1>4, <1>6, <1>7, <1>8, <1>9, <1>10, <1>11

\* What RecvHttpRequest keeps of Framing's invariant.
LEMMA ParsingKeeps ==
    ASSUME FramingInv, ~Framed, UNCHANGED <<role, sent, delivered, taken, open>>,
           stage' \in {"idle", "decode"}, refused' \in BOOLEAN, Window(buffer', taken)
    PROVE  FramingInv'
<1>1. Total' = Total /\ StreamOK' /\ ~Framed'
  BY StreamSame DEF FramingInv
<1>2. FramingTypes'
  BY <1>1 DEF FramingTypes, FramingInv
<1>3. Window(buffer, taken)'
  BY DEF Window, ReadableSize, Capacity
<1> QED BY <1>1, <1>2, <1>3 DEF FramingInv, RefusedForCause

\* The line or the body that the buffer begins with.
LEMMA LineIs ==
    ASSUME FramingInv, ~Framed, NEW i, At(i)
    PROVE  /\ HasLine \/ LongLine => ReadableSize(buffer) > 0
           /\ ReadableSize(buffer) > 0 =>
                /\ i \in DOMAIN sent /\ sent[i].from = Position /\ Part = sent[i]
                /\ HasLine <=> End(i) <= taken
                /\ HasLine <=> sent[i].size <= ReadableSize(buffer)
           /\ i \in DOMAIN sent /\ End(i) <= taken => ReadableSize(buffer) > 0
<1> DEFINE R == ReadableSize(buffer)
<1>1. StreamOK /\ FramingTypes /\ Window(buffer, taken)
  BY DEF FramingInv
<1>2. /\ taken \in Nat /\ Total \in Nat /\ taken <= Total
      /\ R \in Nat /\ Position \in Nat /\ Position + R = taken
  BY <1>1, PositionIs
<1>3. HasLine => R > 0
  <2>1. SUFFICES ASSUME HasLine PROVE R > 0
    OBVIOUS
  <2>2. PICK j \in First : Part = sent[j]
    BY <2>1 DEF HasLine, Part
  <2>3. j \in DOMAIN sent
    BY <1>1, StreamFacts DEF First
  <2>4. sent[j].size \in Nat \ {0}
    BY <1>1, <2>3, StreamFacts
  <2> QED BY <1>2, <2>1, <2>2, <2>4 DEF HasLine
<1>4. LongLine => R > 0
  <2>1. LongLine /\ ~HasLine => R > MaxLine
    BY DEF LongLine
  <2> QED BY <1>2, <1>3, <2>1, HttpConstants
<1>5. ASSUME R > 0
      PROVE  /\ i \in DOMAIN sent /\ sent[i].from = Position /\ Part = sent[i]
             /\ HasLine <=> End(i) <= taken
             /\ HasLine <=> sent[i].size <= R
  <2>1. Position \in Nat /\ Position < Total
    BY <1>2, <1>5
  <2>2. i \in DOMAIN sent /\ sent[i].from = Position
    BY <1>1, <1>2, <2>1, ReadBefore
  <2>3. Position \in PlacesInStream
    BY <2>2 DEF PlacesInStream
  <2>4. PICK j \in DOMAIN sent : sent[j].from = Position /\ First = {j}
    BY <1>1, <1>5, <2>3, FirstIs
  <2>5. j = i
    BY <1>1, <2>2, <2>4, Apart
  <2>6. First = {i} /\ Part = sent[i]
    BY <2>4, <2>5 DEF Part
  <2>7. /\ sent[i].size \in Nat \ {0} /\ End(i) \in Nat
        /\ End(i) = sent[i].from + sent[i].size
    BY <1>1, <2>2, StreamFacts
  <2>8. HasLine <=> R >= sent[i].size
    BY <2>6 DEF HasLine
  <2> QED BY <1>2, <2>2, <2>6, <2>7, <2>8
<1>6. i \in DOMAIN sent /\ End(i) <= taken => R > 0
  <2>1. SUFFICES ASSUME i \in DOMAIN sent, End(i) <= taken PROVE R > 0
    OBVIOUS
  <2>2. sent[i].from = Position /\ sent[i].from < End(i) /\ End(i) \in Nat
    BY <1>1, <2>1, ReadBefore, StreamFacts
  <2> QED BY <1>2, <2>1, <2>2
<1> QED BY <1>3, <1>4, <1>5, <1>6

\* The buffer is at the next part once one was taken out.
LEMMA NextIs ==
    ASSUME FramingInv, ~Framed, NEW i \in DOMAIN sent, At(i),
           UNCHANGED <<role, sent, delivered, taken>>,
           End(i) <= taken, buffer' = Popped(buffer, sent[i].size)
    PROVE  /\ Window(buffer', taken) /\ At(i + 1)' /\ i + 1 \in Nat
           /\ ReadableSize(buffer') = taken - End(i)
           /\ \A j \in DOMAIN sent : j < i + 1 <=> j < i \/ j = i
<1>1. StreamOK /\ FramingTypes /\ Window(buffer, taken)
  BY DEF FramingInv
<1>2. /\ taken \in Nat /\ ReadableSize(buffer) \in Nat /\ Position \in Nat
      /\ Position + ReadableSize(buffer) = taken
  BY <1>1, PositionIs
<1>3. /\ sent[i].size \in Nat \ {0} /\ End(i) \in Nat /\ sent[i].from = Position
      /\ End(i) = Position + sent[i].size
      /\ Len(sent) \in Nat /\ DOMAIN sent = 1..Len(sent)
  BY <1>1, StreamFacts, ReadBefore
<1>4. sent[i].size \in 0..ReadableSize(buffer)
  BY <1>2, <1>3
<1>5. /\ Window(buffer', taken)
      /\ ReadableSize(buffer') = ReadableSize(buffer) - sent[i].size
  BY <1>1, <1>2, <1>4, PoppedIs
<1>6. Position' = End(i)
  BY <1>2, <1>3, <1>5 DEF Position
<1>7. At(i + 1)'
  <2>1. i + 1 \in 1..Len(sent) + 1 /\ (i + 1 = Len(sent) + 1 <=> i + 1 \notin DOMAIN sent)
    BY <1>3
  <2>2. End(i) = IF i + 1 = Len(sent) + 1 THEN Total ELSE sent[i + 1].from
    BY <1>1, <2>1, Apart
  <2>3. Total' = Total
    BY StreamSame
  <2> QED BY <1>6, <2>1, <2>2, <2>3 DEF At
<1> QED BY <1>2, <1>3, <1>5, <1>7

\* What the context waits for is what the peer sends next.
LEMMA Expected ==
    ASSUME StreamOK, ~Framed, PartsOK, NEW i, Reading(i)
    PROVE  /\ i > 1 => /\ i - 1 \in DOMAIN sent /\ (i - 1) + 1 = i
                       /\ sent[i - 1].request \in Nat \ {0}
           /\ context.status = "line" /\ i \in DOMAIN sent =>
                /\ sent[i].kind \in Lines
                /\ Len(replies) = sent[i].request - 1
           /\ context.status = "header" =>
                /\ i > 1 /\ ~Final(i - 1)
                /\ i \in DOMAIN sent =>
                    /\ sent[i].kind \in HeaderKinds \cup {"blank"}
                    /\ sent[i].request = sent[i - 1].request
                    /\ Len(replies) = sent[i].request - 1
           /\ context.status = "body" =>
                /\ i > 1 /\ (Final(i - 1) <=> context.length = 0)
                /\ context.length \in {0, Body}
                /\ i \in DOMAIN sent /\ context.length # 0 =>
                    /\ sent[i].kind = "body" /\ sent[i].size = Body
                    /\ sent[i].request = sent[i - 1].request
<1>1. /\ i \in Nat \ {0} /\ i \in 1..Len(sent) + 1
      /\ Len(sent) \in Nat /\ DOMAIN sent = 1..Len(sent)
  BY ReadBefore, PartFacts DEF Reading, At
<1>2. i > 1 => /\ i - 1 \in DOMAIN sent /\ (i - 1) + 1 = i
               /\ sent[i - 1].request \in Nat \ {0}
  BY <1>1, PartFacts
<1>3. i > 1 /\ i \in DOMAIN sent => Follows(i - 1, sent[i])
  BY <1>2 DEF PartsOK
<1>4. ASSUME context.status = "line", i \in DOMAIN sent
      PROVE  sent[i].kind \in Lines /\ Len(replies) = sent[i].request - 1
  <2>1. CASE i = 1
    <3>1. sent[1].kind \in Lines /\ sent[1].request = 1
      BY <1>1, <1>4, PartFacts DEF PartsOK
    <3> QED BY <1>4, <2>1, <3>1 DEF Reading
  <2>2. CASE i # 1
    <3>1. i > 1 /\ Final(i - 1) /\ Len(replies) = sent[i - 1].request
      BY <1>1, <1>4, <2>2 DEF Reading
    <3>2. sent[i].kind \in Lines /\ sent[i].request = sent[i - 1].request + 1
      BY <1>3, <1>4, <3>1 DEF Follows
    <3> QED BY <1>2, <3>1, <3>2
  <2> QED BY <2>1, <2>2
<1>5. ASSUME context.status = "header"
      PROVE  /\ i > 1 /\ ~Final(i - 1)
             /\ i \in DOMAIN sent =>
                 /\ sent[i].kind \in HeaderKinds \cup {"blank"}
                 /\ sent[i].request = sent[i - 1].request
                 /\ Len(replies) = sent[i].request - 1
  <2>1. /\ i > 1 /\ sent[i - 1].kind \in {"line", "nowhere"} \cup HeaderKinds
        /\ Len(replies) = sent[i - 1].request - 1
    BY <1>5 DEF Reading, ContextOf
  <2>2. ~Final(i - 1) /\ sent[i - 1].kind # "blank"
    BY <2>1 DEF Final, HeaderKinds
  <2> QED BY <1>3, <2>1, <2>2 DEF Follows
<1>6. ASSUME context.status = "body"
      PROVE  /\ i > 1 /\ (Final(i - 1) <=> context.length = 0)
             /\ context.length \in {0, Body}
             /\ i \in DOMAIN sent /\ context.length # 0 =>
                 /\ sent[i].kind = "body" /\ sent[i].size = Body
                 /\ sent[i].request = sent[i - 1].request
  <2> DEFINE r == sent[i - 1].request
  <2>1. /\ i > 1 /\ sent[i - 1].kind = "blank"
        /\ context.length = IF \E j \in PartsOf(r) : j < i /\ sent[j].kind = "length"
                            THEN Body ELSE 0
    BY <1>6 DEF Reading, ContextOf
  <2>2. HasBody(r) <=> \E j \in PartsOf(r) : j < i /\ sent[j].kind = "length"
    <3>1. SUFFICES ASSUME NEW j \in PartsOf(r), sent[j].kind = "length" PROVE j < i
      BY DEF HasBody
    <3>2. j \in DOMAIN sent /\ sent[j].request = sent[i - 1].request /\ j \in Nat
      BY <1>1 DEF PartsOf
    <3>3. ~(i - 1 < j)
      BY <1>2, <2>1, <3>1, <3>2 DEF PartsOK
    <3> QED BY <1>1, <1>2, <2>1, <3>2, <3>3
  <2>3. Final(i - 1) <=> ~HasBody(r)
    BY <2>1 DEF Final
  <2>4. Final(i - 1) <=> context.length = 0
    BY <2>1, <2>2, <2>3, HttpConstants
  <2>5. i \in DOMAIN sent /\ context.length # 0 =>
            sent[i].kind = "body" /\ sent[i].request = r
    BY <1>3, <2>1, <2>4 DEF Follows
  <2>6. i \in DOMAIN sent /\ sent[i].kind = "body" => sent[i].size = Body
    BY DEF PartsOK
  <2> QED BY <2>1, <2>4, <2>5, <2>6
<1> QED BY <1>2, <1>4, <1>5, <1>6

-----------------------------------------------------------------------------
(* Http: one lemma per action.                                             *)

LEMMA HttpInit_Inv == HttpInit => FramingInv /\ HttpInv
<1> SUFFICES ASSUME HttpInit PROVE FramingInv /\ HttpInv
  OBVIOUS
<1>1. FramingInv
  BY FramingInit_Inv DEF HttpInit
<1>2. /\ sent = <<>> /\ DOMAIN sent = {} /\ Len(sent) = 0 /\ Requests = 0
      /\ Total = 0 /\ Position = 0 /\ StreamOK
  BY <1>1, EmptySeq
     DEF HttpInit, FramingInit, Requests, Total, Position, ReadableSize, FramingInv
<1>3. /\ context = NewContext /\ context \in Contexts /\ context.status = "line"
      /\ replies = <<>> /\ replies \in Seq(Replies) /\ Len(replies) = 0
  BY EmptySeq DEF HttpInit, NewContext, Contexts
<1>4. PartsOK
  BY <1>2 DEF PartsOK
<1>5. ServedAll(Len(replies))
  BY <1>2, <1>3 DEF ServedAll
<1>6. At(1)
  BY <1>2 DEF At
<1>7. Reading(1)
  BY <1>2, <1>3, <1>5, <1>6 DEF Reading
<1>8. Waits(1)
  BY <1>2, <1>3 DEF Waits
<1> QED BY <1>1, <1>2, <1>3, <1>4, <1>7, <1>8 DEF HttpInv

\* While only the socket is read, the context waits.
LEMMA WaitingKeeps ==
    ASSUME FramingInv, HttpInv, UNCHANGED <<role, sent, context, replies>>,
           Position' = Position, taken \in Nat, taken' \in Nat, taken <= taken',
           ~Framed => \A i : Reading(i) /\ (stage = "idle" => Waits(i)) /\ stage' = "idle"
                             /\ context.status # "error" => Waits(i) /\ taken' = taken
    PROVE  HttpInv'
<1>1. /\ context' \in Contexts /\ replies' \in Seq(Replies)
  BY DEF HttpInv
<1>2. CASE Framed
  BY <1>1, <1>2, StreamSame DEF HttpInv
<1>3. CASE ~Framed
  <2>1. PartsOK' /\ ~Framed' /\ StreamOK
    BY <1>3, StreamSame DEF HttpInv, FramingInv
  <2>2. \A n : ServedAll(n)' <=> ServedAll(n)
    BY StreamSame DEF ServedAll
  <2>3. CASE context.status = "error"
    <3>1. PICK e \in DOMAIN sent : Refused(e)
      BY <1>3, <2>3 DEF HttpInv
    <3>2. Noticed(e)'
      <4>1. sent[e].from \in Nat /\ sent[e].size \in Nat /\ Noticed(e)
        BY <2>1, <3>1, StreamFacts DEF Refused
      <4> QED BY <4>1, HttpConstants DEF Noticed, Long
    <3>3. PICK r : r = sent[e].request
      OBVIOUS
    <3>4. /\ PartsOf(r)' = PartsOf(r) /\ CodeOf(e)' = CodeOf(e) /\ Offends(e)'
          /\ ServedAll(r - 1)' /\ sent'[e].request = r
          /\ \A j \in DOMAIN sent' : j < e => ~Offends(j)'
      BY <2>2, <3>1, <3>3, StreamSame DEF Refused
    <3>5. Refused(e)'
      BY <3>1, <3>2, <3>3, <3>4 DEF Refused, Short
    <3> QED BY <1>1, <2>1, <2>3, <3>1, <3>5 DEF HttpInv
  <2>4. CASE context.status # "error"
    <3>1. PICK i \in 1..(Len(sent) + 1) : Reading(i) /\ (stage = "idle" => Waits(i))
      BY <1>3, <2>4 DEF HttpInv
    <3>2. ContextOf(i)' <=> ContextOf(i)
      BY StreamSame DEF ContextOf
    <3>3. At(i)' <=> At(i)
      BY StreamSame DEF At
    <3>4. Reading(i)'
      BY <2>2, <3>1, <3>2, <3>3, StreamSame DEF Reading
    <3>5. stage' = "idle" => Waits(i)'
      BY <1>3, <2>4, <3>1, StreamSame DEF Waits
    <3> QED BY <1>1, <2>1, <2>4, <3>1, <3>4, <3>5 DEF HttpInv
  <2> QED BY <2>3, <2>4
<1> QED BY <1>2, <1>3

LEMMA FramingNextKeeps ==
    ASSUME FramingInv, HttpInv, FramingNext, UNCHANGED httpVars PROVE HttpInv'
<1>1. context' = context /\ replies' = replies
  BY DEF httpVars
<1>2. /\ StreamOK /\ FramingTypes /\ Window(buffer, taken)
      /\ taken \in Nat /\ ReadableSize(buffer) \in Nat
  BY PositionIs DEF FramingInv
<1>3. FramingInv'
  BY FramingStep
<1>4. CASE Framed
  <2>1. Framed'
    BY <1>4 DEF FramingNext, PeerSendsFrame, BytesArrive, ReadSome, ReadEnds, StopDecoding,
                Dispatch, DispatchStray, Close, Framed
  <2> QED BY <1>1, <2>1 DEF HttpInv
<1>5. CASE ReadSome
  <2> DEFINE n == IF delivered - taken < BufferSize THEN delivered - taken ELSE BufferSize
  <2>1. n \in Nat
    BY <1>2, <1>5, StreamFacts, FramingAssumption DEF ReadSome, FramingTypes
  <2>2. taken' = taken + n /\ buffer' = Pushed(buffer, n) /\ stage' = "reading"
        /\ UNCHANGED <<role, sent>>
    BY <1>5 DEF ReadSome
  <2> HIDE DEF n
  <2>3. ReadableSize(buffer') = ReadableSize(buffer) + n
    BY <1>2, <2>1, <2>2, PushedIs
  <2>4. Position' = Position /\ taken' \in Nat /\ taken <= taken'
    BY <1>2, <2>1, <2>2, <2>3 DEF Position
  <2> QED BY <1>1, <1>2, <2>2, <2>4, WaitingKeeps
<1>6. CASE BytesArrive \/ ReadEnds \/ Close
  <2>1. UNCHANGED <<role, sent, taken, buffer>> /\ (stage' = "idle" => stage = "idle")
    BY <1>6 DEF BytesArrive, ReadEnds, Close
  <2>2. Position' = Position /\ taken <= taken'
    BY <1>2, <2>1 DEF Position, ReadableSize
  <2> QED BY <1>1, <1>2, <2>1, <2>2, WaitingKeeps
<1>7. ~Framed => ~(PeerSendsFrame \/ StopDecoding \/ Dispatch \/ DispatchStray)
  BY DEF PeerSendsFrame, StopDecoding, Dispatch, DispatchStray
<1> QED BY <1>4, <1>5, <1>6, <1>7 DEF FramingNext

\* OnMessage returns only when it could do no more.
LEMMA AwaitMoreKeeps ==
    ASSUME FramingInv, HttpInv, AwaitMore PROVE FramingInv' /\ HttpInv'
<1>1. /\ ~Framed /\ NeedsMore /\ stage' = "idle" /\ stage = "decode"
      /\ UNCHANGED <<buffer, refused, context, replies, role, sent, delivered, taken, given, open>>
  BY DEF AwaitMore, Unparsed, httpVars
<1>2. /\ StreamOK /\ PartsOK /\ FramingTypes /\ Window(buffer, taken)
      /\ taken \in Nat /\ ReadableSize(buffer) \in Nat /\ Position \in Nat
      /\ Position + ReadableSize(buffer) = taken /\ refused \in BOOLEAN
  BY <1>1, PositionIs DEF FramingInv, FramingTypes, HttpInv
<1>3. FramingInv'
  BY <1>1, <1>2, ParsingKeeps
<1>4. ASSUME NEW i, Reading(i), context.status # "error" PROVE Waits(i)
  <2>1. At(i) /\ context.status \in {"line", "header", "body"}
    BY <1>4 DEF Reading, HttpInv, Contexts
  <2>2. context.status = "body" => context.length # 0
    BY <1>1, <1>2, <2>1 DEF NeedsMore
  <2>3. ASSUME i \in DOMAIN sent, Noticed(i) PROVE FALSE
    <3>1. /\ sent[i].from = Position /\ sent[i].size \in Nat \ {0} /\ End(i) \in Nat
          /\ End(i) = sent[i].from + sent[i].size
      BY <1>1, <1>2, <2>1, <2>3, ReadBefore, StreamFacts
    <3>2. ReadableSize(buffer) > 0
      <4>1. sent[i].from < taken
        BY <1>1, <1>2, <2>3, NoticedIs
      <4> QED BY <1>2, <3>1, <4>1
    <3>3. CASE context.status = "body"
      <4>1. sent[i].kind = "body" /\ sent[i].size = Body /\ context.length = Body
        BY <1>1, <1>2, <1>4, <2>2, <2>3, <3>3, Expected
      <4>2. End(i) <= taken
        BY <1>1, <1>2, <2>3, <4>1, NoticedIs DEF Long
      <4>3. ReadableSize(buffer) < Body
        BY <1>1, <3>3, <4>1 DEF NeedsMore
      <4> QED BY <1>2, <3>1, <4>1, <4>2, <4>3, HttpConstants
    <3>4. CASE context.status # "body"
      <4>1. ~HasLine /\ ~LongLine
        BY <1>1, <1>4, <3>4 DEF NeedsMore
      <4>2. ~(End(i) <= taken)
        BY <1>1, <2>1, <3>2, <4>1, LineIs
      <4>3. sent[i].from + MaxLine < taken
        BY <1>1, <1>2, <2>3, <4>2, NoticedIs
      <4>4. ~(ReadableSize(buffer) > MaxLine)
        BY <4>1 DEF LongLine
      <4> QED BY <1>2, <3>1, <4>3, <4>4, HttpConstants
    <3> QED BY <3>3, <3>4
  <2> QED BY <2>2, <2>3 DEF Waits
<1>5. Position' = Position /\ taken <= taken'
  BY <1>1, <1>2 DEF Position, ReadableSize
<1> QED BY <1>1, <1>2, <1>3, <1>4, <1>5, WaitingKeeps

\* What there is when a line or a body is looked for.
LEMMA Begins ==
    ASSUME FramingInv, HttpInv, ~Framed, context.status \in {"line", "header", "body"}
    PROVE  /\ StreamOK /\ PartsOK /\ Window(buffer, taken) /\ taken \in Nat
           /\ refused \in BOOLEAN
           /\ context \in Contexts /\ replies \in Seq(Replies)
           /\ Len(replies) \in Nat /\ DOMAIN replies = 1..Len(replies)
           /\ ReadableSize(buffer) \in Nat /\ Position + ReadableSize(buffer) = taken
           /\ Position \in Nat
           /\ \E i \in 1..(Len(sent) + 1) : Reading(i) /\ (stage = "idle" => Waits(i))
           /\ \A i : Reading(i) => At(i)
BY PositionIs, HttpTypes DEF FramingInv, FramingTypes, HttpInv, Reading

\* A line that is good is not refused.
LEMMA GoodIs ==
    ASSUME FramingInv, ~Framed, GoodLine, NEW i, At(i)
    PROVE  /\ i \in DOMAIN sent /\ Part = sent[i] /\ End(i) <= taken
           /\ sent[i].kind \notin Bad /\ ~Offends(i)
<1>1. HasLine /\ ~LongLine /\ Part.kind \notin Bad
  BY DEF GoodLine
<1>2. i \in DOMAIN sent /\ Part = sent[i] /\ End(i) <= taken
  BY <1>1, LineIs
<1>3. ~(sent[i].size > MaxLine)
  BY <1>1, <1>2 DEF LongLine
<1> QED BY <1>1, <1>2, <1>3 DEF Offends, Long

LEMMA RecvHttpLineKeeps ==
    ASSUME FramingInv, HttpInv, RecvHttpLine PROVE FramingInv' /\ HttpInv'
<1>1. /\ ~Framed /\ context.status = "line" /\ GoodLine /\ buffer' = Popped(buffer, Part.size)
      /\ context' = [context EXCEPT !.status = "header", !.path = Part.kind]
      /\ stage' = "decode"
      /\ UNCHANGED <<refused, replies, role, sent, delivered, taken, given, open>>
  BY DEF RecvHttpLine, Decoding, Unparsed, AfterLine
<1>2. PICK i \in 1..(Len(sent) + 1) : Reading(i)
  BY <1>1, Begins
<1>3. /\ StreamOK /\ PartsOK /\ At(i) /\ refused \in BOOLEAN /\ replies \in Seq(Replies)
      /\ context \in Contexts
  BY <1>1, <1>2, Begins
<1>4. /\ i \in DOMAIN sent /\ Part = sent[i] /\ End(i) <= taken
      /\ sent[i].kind \notin Bad /\ ~Offends(i)
  BY <1>1, <1>3, GoodIs
<1>5. /\ Window(buffer', taken) /\ At(i + 1)' /\ i + 1 \in Nat
      /\ \A j \in DOMAIN sent : j < i + 1 <=> j < i \/ j = i
  BY <1>1, <1>3, <1>4, NextIs
<1>6. FramingInv'
  BY <1>1, <1>3, <1>5, ParsingKeeps
<1>7. sent[i].kind \in Lines /\ Len(replies) = sent[i].request - 1
  BY <1>1, <1>2, <1>3, <1>4, Expected
<1>8. sent[i].kind \in {"line", "nowhere"}
  BY <1>4, <1>7 DEF Lines, Bad
<1>9. /\ context' \in Contexts /\ context'.status = "header" /\ context'.path = sent[i].kind
      /\ context'.code = "200" /\ context'.keep = FALSE /\ context'.length = 0
  <2>1. context = NewContext
    BY <1>1, <1>2 DEF Reading
  <2> QED BY <1>1, <1>3, <1>4, <1>8, <2>1 DEF Contexts, NewContext
<1> DEFINE r == sent[i].request
<1>10. \A j \in PartsOf(r) : j < i + 1 => j = i
  <2>1. SUFFICES ASSUME NEW j \in PartsOf(r), j < i + 1 PROVE j = i
    OBVIOUS
  <2>2. i <= j /\ j \in DOMAIN sent /\ i \in Nat /\ j \in Nat
    BY <1>1, <1>3, <1>4, <1>7, LineIsFirst, PartFacts DEF PartsOf
  <2> QED BY <1>5, <2>1, <2>2
<1>11. i > 0 /\ i + 1 > 1 /\ i < i + 1 /\ (i + 1) - 1 = i /\ i \in PartsOf(r)
  BY <1>1, <1>3, <1>4, PartFacts DEF PartsOf
<1>12. ContextOf(i + 1)'
  <2>1. PartsOf(r)' = PartsOf(r) /\ sent'[(i + 1) - 1].request = r
    BY <1>1, <1>11, StreamSame
  <2>2. sent[i].kind # "keep" /\ sent[i].kind # "length"
    BY <1>8
  <2> QED BY <1>1, <1>7, <1>9, <1>10, <1>11, <2>1, <2>2 DEF ContextOf
<1>13. ServedAll(Len(replies))'
  BY <1>1, <1>2, StreamSame DEF Reading, ServedAll
<1>14. \A j \in DOMAIN sent' : j < i + 1 => ~Offends(j)'
  BY <1>1, <1>2, <1>4, <1>5, StreamSame DEF Reading
<1>15. Reading(i + 1)'
  <2>1. sent'[(i + 1) - 1].kind \in {"line", "nowhere"}
    BY <1>1, <1>8, <1>11
  <2> QED BY <1>5, <1>9, <1>12, <1>13, <1>14, <2>1 DEF Reading
<1>16. i + 1 \in 1..(Len(sent') + 1)
  BY <1>5 DEF At
<1>17. PartsOK' /\ replies' \in Seq(Replies)
  BY <1>1, <1>3, StreamSame
<1> QED BY <1>1, <1>6, <1>9, <1>15, <1>16, <1>17 DEF HttpInv

LEMMA RecvHttpHeaderKeeps ==
    ASSUME FramingInv, HttpInv, RecvHttpHeader PROVE FramingInv' /\ HttpInv'
<1>1. /\ ~Framed /\ context.status = "header" /\ GoodLine /\ buffer' = Popped(buffer, Part.size)
      /\ context' = IF Part.kind = "blank" THEN [context EXCEPT !.status = "body"]
                    ELSE AddHeader(context)
      /\ stage = "decode"
      /\ UNCHANGED <<refused, replies, stage, role, sent, delivered, taken, given, open>>
  BY DEF RecvHttpHeader, Decoding, Unparsed
<1>2. PICK i \in 1..(Len(sent) + 1) : Reading(i)
  BY <1>1, Begins
<1>3. /\ StreamOK /\ PartsOK /\ At(i) /\ refused \in BOOLEAN /\ replies \in Seq(Replies)
      /\ context \in Contexts
  BY <1>1, <1>2, Begins
<1>4. /\ i \in DOMAIN sent /\ Part = sent[i] /\ End(i) <= taken
      /\ sent[i].kind \notin Bad /\ ~Offends(i)
  BY <1>1, <1>3, GoodIs
<1>5. /\ Window(buffer', taken) /\ At(i + 1)' /\ i + 1 \in Nat
      /\ \A j \in DOMAIN sent : j < i + 1 <=> j < i \/ j = i
  BY <1>1, <1>3, <1>4, NextIs
<1>6. FramingInv'
  BY <1>1, <1>3, <1>5, ParsingKeeps
<1>10. PICK r : r = sent[i].request
  OBVIOUS
<1>7. /\ sent[i].kind \in HeaderKinds \cup {"blank"} /\ r = sent[i - 1].request
      /\ Len(replies) = r - 1
  BY <1>1, <1>2, <1>3, <1>4, <1>10, Expected
<1>8. ContextOf(i)
  BY <1>1, <1>2 DEF Reading
<1>9. /\ context' \in Contexts /\ context'.code = context.code /\ context'.path = context.path
      /\ context'.status = IF sent[i].kind = "blank" THEN "body" ELSE "header"
      /\ context'.keep <=> context.keep \/ sent[i].kind = "keep"
      /\ context'.length = IF sent[i].kind = "length" THEN Body ELSE context.length
  <2>1. CASE sent[i].kind = "blank"
    BY <1>1, <1>3, <1>4, <2>1 DEF Contexts
  <2>2. CASE sent[i].kind # "blank"
    BY <1>1, <1>3, <1>4, <2>2 DEF Contexts, AddHeader
  <2> QED BY <2>1, <2>2
<1>11. i > 0 /\ i + 1 > 1 /\ i < i + 1 /\ (i + 1) - 1 = i /\ i \in PartsOf(r)
  BY <1>1, <1>3, <1>4, <1>10, PartFacts DEF PartsOf
<1>12. ContextOf(i + 1)'
  <2>1. PartsOf(r)' = PartsOf(r) /\ sent'[(i + 1) - 1].request = r
    BY <1>1, <1>10, <1>11, StreamSame
  <2>2. \A j \in PartsOf(r) : j < i + 1 <=> j < i \/ j = i
    BY <1>5 DEF PartsOf
  <2>3. \A v : (\E j \in PartsOf(r) : j < i + 1 /\ sent[j].kind = v)
                <=> (\E j \in PartsOf(r) : j < i /\ sent[j].kind = v) \/ sent[i].kind = v
    BY <1>11, <2>2
  <2>4. /\ context.code = "200"
        /\ \E s \in PartsOf(r) : s < i /\ sent[s].kind \in Lines /\ context.path = sent[s].kind
        /\ context.keep <=> \E j \in PartsOf(r) : j < i /\ sent[j].kind = "keep"
        /\ context.length = IF \E j \in PartsOf(r) : j < i /\ sent[j].kind = "length"
                            THEN Body ELSE 0
    BY <1>7, <1>8 DEF ContextOf
  <2>5. \E s \in PartsOf(r) : s < i + 1 /\ sent[s].kind \in Lines /\ context'.path = sent[s].kind
    BY <1>9, <2>2, <2>4
  <2>6. context'.keep <=> \E j \in PartsOf(r) : j < i + 1 /\ sent[j].kind = "keep"
    BY <1>9, <2>3, <2>4
  <2>7. context'.length = IF \E j \in PartsOf(r) : j < i + 1 /\ sent[j].kind = "length"
                          THEN Body ELSE 0
    BY <1>9, <2>3, <2>4
  <2>8. sent' = sent /\ replies' = replies
    BY <1>1
  <2> QED BY <1>7, <1>9, <1>11, <2>1, <2>4, <2>5, <2>6, <2>7, <2>8 DEF ContextOf
<1>13. ServedAll(Len(replies))'
  BY <1>1, <1>2, StreamSame DEF Reading, ServedAll
<1>14. \A j \in DOMAIN sent' : j < i + 1 => ~Offends(j)'
  BY <1>1, <1>2, <1>4, <1>5, StreamSame DEF Reading
<1>15. Reading(i + 1)'
  <2>1. sent'[(i + 1) - 1].kind = sent[i].kind
    BY <1>1, <1>11
  <2> QED BY <1>5, <1>7, <1>9, <1>12, <1>13, <1>14, <2>1 DEF Reading
<1>16. i + 1 \in 1..(Len(sent') + 1)
  BY <1>5 DEF At
<1>17. PartsOK' /\ replies' \in Seq(Replies) /\ stage' # "idle"
  BY <1>1, <1>3, StreamSame
<1> QED BY <1>1, <1>6, <1>9, <1>15, <1>16, <1>17 DEF HttpInv

\* A reply more.
LEMMA OneMore ==
    ASSUME replies \in Seq(Replies), NEW x \in Replies, replies' = Append(replies, x)
    PROVE  /\ replies' \in Seq(Replies) /\ Len(replies) \in Nat /\ Len(replies') = Len(replies) + 1
           /\ \A k \in 1..Len(replies) : replies'[k] = replies[k]
           /\ replies'[Len(replies) + 1] = x
<1>1. Len(replies) \in Nat
  BY LenProperties
<1> QED BY <1>1, AppendProperties

\* The reply to the request whose last part is the i-th.
LEMMA RequestEnds ==
    ASSUME FramingInv, HttpInv, ~Framed, context.status = "body", NEW n, Reading(n),
           NEW i \in DOMAIN sent, Final(i), NEW r, r = sent[i].request, r = sent[n - 1].request,
           i = n - 1 \/ (i = n /\ sent[i].kind = "body"),
           \A j \in DOMAIN sent : j < i + 1 => ~Offends(j),
           UNCHANGED <<role, sent, delivered, taken, open>>, refused' = refused,
           Window(buffer', taken), At(i + 1)',
           ReadableSize(buffer') = 0 \/ stage' = "decode", stage' \in {"idle", "decode"},
           ReplyWith(Route(context)), context' = Reset(context)
    PROVE  FramingInv' /\ HttpInv'
<1>1. /\ StreamOK /\ PartsOK /\ refused \in BOOLEAN /\ replies \in Seq(Replies)
      /\ context \in Contexts /\ taken \in Nat
  BY Begins
<1>2. FramingInv'
  BY <1>1, ParsingKeeps
<1>3. ContextOf(n) /\ ServedAll(Len(replies)) /\ Len(replies) = r - 1
  BY DEF Reading, ContextOf
<1>4. r \in 1..Requests /\ r \in Nat \ {0} /\ Requests \in Nat /\ Whole(r)
  BY <1>1, WholeIs, PartFacts DEF PartsOK
<1>5. \A j \in PartsOf(r) : j <= i /\ j \in Nat /\ j \in DOMAIN sent /\ sent[j].request = r
  <2>1. \A j \in PartsOf(sent[i].request) : j <= i
    BY <1>1, FinalIsLast
  <2> QED BY <1>1, <2>1, PartFacts DEF PartsOf
<1>6. i \in Nat \ {0} /\ n \in Nat
  BY <1>1, PartFacts, ReadBefore DEF Reading
<1>7. ASSUME NEW v \in {"keep", "nowhere"}
      PROVE  (\E j \in PartsOf(r) : j < n /\ sent[j].kind = v)
                <=> \E j \in PartsOf(r) : sent[j].kind = v
  <2>1. SUFFICES ASSUME NEW j \in PartsOf(r), sent[j].kind = v PROVE j < n
    OBVIOUS
  <2>2. j <= i /\ j \in Nat
    BY <1>5
  <2>3. j = n => sent[j].kind = "body"
    BY <1>6, <2>2
  <2> QED BY <1>6, <2>1, <2>2, <2>3
<1>8. PICK s \in PartsOf(r) : s < n /\ sent[s].kind \in Lines /\ context.path = sent[s].kind
  BY <1>3 DEF ContextOf
<1>9. context.path = "nowhere" <=> \E j \in PartsOf(r) : sent[j].kind = "nowhere"
  <2>1. \A j \in PartsOf(r) : sent[j].kind \in Lines => j = s
    BY <1>1, <1>5, <1>8, LineIsFirst
  <2> QED BY <1>8, <2>1 DEF Lines
<1>10. context.keep <=> \E j \in PartsOf(r) : sent[j].kind = "keep"
  BY <1>3, <1>7 DEF ContextOf
<1> DEFINE x == [code |-> Route(context).code, short |-> Short(Route(context))]
<1>11. x = Reply200(r) /\ x \in Replies
  <2>1. context.code = "200" /\ context.keep \in BOOLEAN
    BY <1>1, <1>3 DEF ContextOf, Contexts
  <2>2. Route(context).code = IF context.path = "nowhere" THEN "404" ELSE "200"
    BY <1>1, <2>1 DEF Route, Contexts
  <2>3. Route(context).keep = context.keep
    BY <1>1 DEF Route, Contexts
  <2>4. Short(Route(context)) = \A j \in PartsOf(r) : sent[j].kind # "keep"
    BY <1>10, <2>1, <2>3 DEF Short
  <2>5. x = Reply200(r)
    BY <1>9, <2>2, <2>4 DEF Reply200
  <2>6. x \in Replies
    BY <2>2, <2>4 DEF Replies
  <2> QED BY <2>5, <2>6
<1>12. replies' = Append(replies, x)
  BY DEF ReplyWith
<1> HIDE DEF x
<1>13. /\ replies' \in Seq(Replies) /\ Len(replies') = r
       /\ \A k \in 1..Len(replies) : replies'[k] = replies[k]
       /\ replies'[r] = x
  BY <1>1, <1>3, <1>4, <1>11, <1>12, OneMore
<1>14. ServedAll(r)'
  <2>1. \A k \in 1..r : replies'[k] = Reply200(k)
    <3>1. \A k \in 1..r : k \in 1..Len(replies) \/ k = r
      BY <1>3, <1>4
    <3> QED BY <1>3, <1>11, <1>13, <3>1 DEF ServedAll
  <2>2. \A k : Reply200(k)' = Reply200(k) /\ (Whole(k)' <=> Whole(k))
    BY StreamSame
  <2>3. Requests' = Requests
    BY StreamSame
  <2> QED BY <1>4, <2>1, <2>2, <2>3 DEF ServedAll
<1>15. /\ context' = NewContext /\ context' \in Contexts /\ context'.status = "line"
  BY DEF Reset, NewContext, Contexts
<1>16. (i + 1) - 1 = i /\ i + 1 > 1 /\ i + 1 # 1
  BY <1>6
<1>17. Final(i)' /\ sent'[i].request = r
  BY StreamSame
<1>18. \A j \in DOMAIN sent' : j < i + 1 => ~Offends(j)'
  BY StreamSame
<1>19. Reading(i + 1)'
  BY <1>13, <1>14, <1>15, <1>16, <1>17, <1>18 DEF Reading
<1>20. stage' = "idle" => Waits(i + 1)'
  <2>1. SUFFICES ASSUME ReadableSize(buffer') = 0, i + 1 \in DOMAIN sent', Noticed(i + 1)'
                 PROVE  FALSE
    BY <1>15 DEF Waits
  <2>2. i + 1 \in DOMAIN sent /\ Noticed(i + 1)
    BY <2>1, StreamSame
  <2>3. sent[i + 1].from < taken /\ sent[i + 1].from \in Nat
    BY <1>1, <2>2, NoticedIs, PartFacts
  <2>4. i + 1 # Len(sent) + 1
    BY <1>1, <2>2, PartFacts
  <2>5. Position' = sent[i + 1].from
    BY <2>4 DEF At
  <2>6. Position' = taken
    BY <1>1, <2>1 DEF Position
  <2> QED BY <1>1, <2>3, <2>5, <2>6
<1>21. i + 1 \in 1..(Len(sent') + 1)
  BY DEF At
<1>22. PartsOK' /\ Framed' = Framed
  BY <1>1, StreamSame DEF Framed
<1> QED BY <1>2, <1>13, <1>15, <1>19, <1>20, <1>21, <1>22 DEF HttpInv

LEMMA RecvHttpBodyKeeps ==
    ASSUME FramingInv, HttpInv, RecvHttpBody PROVE FramingInv' /\ HttpInv'
<1>1. /\ ~Framed /\ context.status = "body" /\ ReadableSize(buffer) >= context.length
      /\ buffer' = Popped(buffer, context.length)
      /\ ReplyWith(Route(context)) /\ context' = Reset(context)
      /\ stage' = IF ReadableSize(buffer') > 0 THEN "decode" ELSE "idle"
      /\ refused' = refused
      /\ UNCHANGED <<role, sent, delivered, taken, open>>
  BY DEF RecvHttpBody, Decoding, Unparsed
<1>2. PICK n \in 1..(Len(sent) + 1) : Reading(n)
  BY <1>1, Begins
<1>3. /\ StreamOK /\ PartsOK /\ At(n) /\ Window(buffer, taken) /\ taken \in Nat
      /\ ReadableSize(buffer) \in Nat /\ Position + ReadableSize(buffer) = taken
      /\ Position \in Nat
  BY <1>1, <1>2, Begins
<1>4. /\ n > 1 /\ n - 1 \in DOMAIN sent /\ (n - 1) + 1 = n
      /\ Final(n - 1) <=> context.length = 0
      /\ context.length \in {0, Body}
      /\ n \in DOMAIN sent /\ context.length # 0 =>
            /\ sent[n].kind = "body" /\ sent[n].size = Body
            /\ sent[n].request = sent[n - 1].request
  BY <1>1, <1>2, <1>3, Expected
<1>5. context.length \in 0..ReadableSize(buffer)
  BY <1>1, <1>3, <1>4, HttpConstants
<1>6. /\ Window(buffer', taken)
      /\ ReadableSize(buffer') = ReadableSize(buffer) - context.length
  BY <1>1, <1>3, <1>5, PoppedIs
<1>7. ReadableSize(buffer') = 0 \/ stage' = "decode"
  BY <1>1, <1>3, <1>5, <1>6
<1>8. stage' \in {"idle", "decode"}
  BY <1>1
<1>9. PICK r : r = sent[n - 1].request
  OBVIOUS
<1>10. \A j \in DOMAIN sent : j < n => ~Offends(j)
  BY <1>2 DEF Reading
<1>11. CASE context.length = 0
  <2>1. Position' = Position
    BY <1>1, <1>3, <1>6, <1>11 DEF Position
  <2>2. At((n - 1) + 1)'
    BY <1>1, <1>3, <1>4, <2>1, StreamSame DEF At
  <2>3. \A j \in DOMAIN sent : j < (n - 1) + 1 => ~Offends(j)
    BY <1>4, <1>10
  <2> QED BY <1>1, <1>2, <1>4, <1>6, <1>7, <1>8, <1>9, <1>11, <2>2, <2>3, RequestEnds
<1>12. CASE context.length # 0
  <2>1. ReadableSize(buffer) > 0
    BY <1>1, <1>3, <1>4, <1>12, HttpConstants
  <2>2. n \in DOMAIN sent /\ sent[n].from = Position
    BY <1>1, <1>3, <2>1, LineIs
  <2>3. /\ sent[n].kind = "body" /\ sent[n].size = Body /\ context.length = Body
        /\ sent[n].request = r
    BY <1>4, <1>9, <1>12, <2>2
  <2>4. End(n) <= taken
    <3>1. End(n) = Position + Body
      BY <2>2, <2>3 DEF End
    <3> QED BY <1>1, <1>3, <2>3, <3>1, HttpConstants
  <2>5. /\ At(n + 1)' /\ \A j \in DOMAIN sent : j < n + 1 <=> j < n \/ j = n
    BY <1>1, <1>3, <2>2, <2>3, <2>4, NextIs
  <2>6. Final(n) /\ ~Offends(n)
    BY <2>3 DEF Final, Offends, Long, Bad
  <2>7. \A j \in DOMAIN sent : j < n + 1 => ~Offends(j)
    BY <1>10, <2>5, <2>6
  <2> QED BY <1>1, <1>2, <1>6, <1>7, <1>8, <1>9, <2>2, <2>3, <2>5, <2>6, <2>7, RequestEnds
<1> QED BY <1>11, <1>12

\* What a refusal leaves of the buffer.
LEMMA RefuseKeeps ==
    ASSUME FramingInv, ~Framed, NEW x, Refuse(x), Unparsed PROVE FramingInv'
<1>1. /\ buffer' = [buffer EXCEPT !.read = 0, !.write = 0] /\ refused' = TRUE /\ stage' = "idle"
      /\ UNCHANGED <<role, sent, delivered, taken, open>>
  BY DEF Refuse, Unparsed
<1>2. Window(buffer, taken) /\ taken \in Nat
  BY PositionIs DEF FramingInv
<1>3. Window(buffer', taken)
  BY <1>1, <1>2, DroppedIs
<1> QED BY <1>1, <1>3, ParsingKeeps

LEMMA RefuseLineKeeps ==
    ASSUME FramingInv, HttpInv, NEW status, NEW long,
           (status = "line" /\ long = "414") \/ (status = "header" /\ long = "431"),
           RefuseLine(status, long)
    PROVE  FramingInv' /\ HttpInv'
<1> DEFINE y == [context EXCEPT !.status = "error", !.code = LineCode(long)]
           x == [code |-> y.code, short |-> Short(y)]
<1>1. /\ ~Framed /\ context.status = status /\ (LongLine \/ (HasLine /\ ~GoodLine))
      /\ context.status \in {"line", "header", "body"}
      /\ replies' = Append(replies, x) /\ context' = y
      /\ UNCHANGED <<role, sent, taken>>
  BY DEF RefuseLine, Decoding, Unparsed, Refuse, ReplyWith
<1>2. FramingInv'
  <2>1. Refuse(y) /\ Unparsed
    BY DEF RefuseLine
  <2> HIDE DEF y
  <2> QED BY <1>1, <2>1, RefuseKeeps
<1>3. PICK i \in 1..(Len(sent) + 1) : Reading(i)
  BY <1>1, Begins
<1>4. /\ StreamOK /\ PartsOK /\ At(i) /\ replies \in Seq(Replies) /\ context \in Contexts
      /\ taken \in Nat /\ ReadableSize(buffer) \in Nat /\ Position \in Nat
      /\ Position + ReadableSize(buffer) = taken
  BY <1>1, <1>3, Begins
<1>5. ReadableSize(buffer) > 0
  BY <1>1, <1>4, LineIs
<1>6. /\ i \in DOMAIN sent /\ sent[i].from = Position /\ Part = sent[i]
      /\ HasLine <=> End(i) <= taken
      /\ HasLine <=> sent[i].size <= ReadableSize(buffer)
  BY <1>1, <1>4, <1>5, LineIs
<1>7. PICK r : r = sent[i].request
  OBVIOUS
<1>8. /\ status = "line" => sent[i].kind \in Lines
      /\ status = "header" => sent[i].kind \in HeaderKinds \cup {"blank"}
                              /\ r = sent[i - 1].request
      /\ Len(replies) = r - 1
  BY <1>1, <1>3, <1>4, <1>6, <1>7, Expected
<1>9. sent[i].size \in Nat \ {0} /\ sent[i].kind # "body" /\ r \in Nat \ {0}
  <2>1. sent[i].size \in Nat \ {0} /\ r \in Nat \ {0}
    BY <1>1, <1>4, <1>6, <1>7, PartFacts
  <2> QED BY <1>8, <2>1 DEF Lines, HeaderKinds
<1>10. Long(i) <=> LongLine
  <2>1. CASE HasLine
    BY <1>6, <1>9, <2>1 DEF Long, LongLine
  <2>2. CASE ~HasLine
    <3>1. LongLine /\ ReadableSize(buffer) > MaxLine /\ ReadableSize(buffer) < sent[i].size
      BY <1>1, <1>4, <1>6, <1>9, <2>2 DEF LongLine
    <3> QED BY <1>4, <1>9, <3>1, HttpConstants DEF Long
  <2> QED BY <2>1, <2>2
<1>11. Offends(i) /\ Noticed(i)
  <2>1. CASE LongLine
    <3>1. ReadableSize(buffer) > MaxLine
      BY <1>4, <1>6, <1>9, <2>1, HttpConstants DEF LongLine
    <3> QED BY <1>4, <1>6, <1>10, <2>1, <3>1, HttpConstants DEF Offends, Noticed
  <2>2. CASE ~LongLine
    <3>1. HasLine /\ sent[i].kind \in Bad
      BY <1>1, <1>6, <2>2 DEF GoodLine
    <3>2. Noticed(i)
      BY <1>1, <1>4, <1>6, <3>1, NoticedIs
    <3> QED BY <3>1, <3>2 DEF Offends
  <2> QED BY <2>1, <2>2
<1>12. LineCode(long) = CodeOf(i)
  <2>1. status = "header" => sent[i].kind \notin Lines
    BY <1>8 DEF Lines, HeaderKinds
  <2> QED BY <1>1, <1>8, <1>10, <2>1 DEF LineCode, CodeOf
<1>13. /\ y \in Contexts /\ y.status = "error" /\ y.code = CodeOf(i) /\ y.keep = context.keep
  <2>1. CodeOf(i) \in {"400", "414", "431"}
    BY DEF CodeOf
  <2> QED BY <1>4, <1>12, <2>1 DEF Contexts
<1>14. context.keep <=> \E j \in PartsOf(r) : j < i /\ sent[j].kind = "keep"
  <2>1. CASE status = "line"
    <3>1. context = NewContext
      BY <1>1, <1>3, <2>1 DEF Reading
    <3>2. \A j \in PartsOf(r) : i <= j /\ j \in Nat /\ i \in Nat
      BY <1>1, <1>4, <1>6, <1>7, <1>8, <2>1, LineIsFirst, PartFacts DEF PartsOf
    <3>3. ~(\E j \in PartsOf(r) : j < i /\ sent[j].kind = "keep")
      BY <3>2
    <3> QED BY <3>1, <3>3 DEF NewContext
  <2>2. CASE status = "header"
    <3>1. ContextOf(i)
      BY <1>1, <1>3, <2>2 DEF Reading
    <3> QED BY <1>8, <2>2, <3>1 DEF ContextOf
  <2> QED BY <2>1, <2>2
<1>15. Short(y) = (\A j \in PartsOf(r) : j < i => sent[j].kind # "keep")
  <2>1. context.keep \in BOOLEAN
    BY <1>4 DEF Contexts
  <2> QED BY <1>13, <1>14, <2>1 DEF Short
<1>16. x \in Replies
  <2>1. CodeOf(i) \in {"400", "414", "431"} /\ Short(y) \in BOOLEAN
    BY <1>15 DEF CodeOf
  <2> QED BY <1>13, <2>1 DEF Replies
<1> HIDE DEF x
<1>17. /\ replies' \in Seq(Replies) /\ Len(replies') = r
       /\ \A k \in 1..Len(replies) : replies'[k] = replies[k]
       /\ replies'[r] = x
  BY <1>1, <1>4, <1>8, <1>9, <1>16, OneMore
<1>18. ServedAll(r - 1)'
  <2>1. ServedAll(r - 1)
    BY <1>3, <1>8 DEF Reading
  <2>2. /\ Requests' = Requests
        /\ \A k : Reply200(k)' = Reply200(k) /\ (Whole(k)' <=> Whole(k))
    BY <1>1, StreamSame
  <2> QED BY <1>8, <1>17, <2>1, <2>2 DEF ServedAll
<1>19. /\ CodeOf(i)' = CodeOf(i) /\ Offends(i)' /\ Noticed(i)'
       /\ PartsOf(r)' = PartsOf(r) /\ sent'[i].request = r
       /\ \A j \in DOMAIN sent' : j < i => ~Offends(j)'
  BY <1>1, <1>3, <1>7, <1>11, StreamSame DEF Reading
<1>20. x = [code |-> CodeOf(i), short |-> \A j \in PartsOf(r) : j < i => sent[j].kind # "keep"]
  BY <1>13, <1>15 DEF x
<1>21. \A k \in r..Len(replies') : replies'[k] = x
  BY <1>9, <1>17
<1>22. Refused(i)'
  <2>1. Short(context)' = Short(y)
    BY <1>1
  <2>2. sent' = sent /\ i \in DOMAIN sent'
    BY <1>1, <1>6
  <2>3. Len(replies') >= r
    BY <1>9, <1>17
  <2> HIDE DEF y
  <2> QED BY <1>1, <1>13, <1>15, <1>18, <1>19, <1>20, <1>21, <2>1, <2>2, <2>3 DEF Refused
<1>23. PartsOK' /\ i \in DOMAIN sent' /\ Framed' = Framed
  BY <1>1, <1>4, <1>6, StreamSame DEF Framed
<1> HIDE DEF y
<1> QED BY <1>1, <1>2, <1>13, <1>17, <1>22, <1>23 DEF HttpInv

LEMMA RefuseAgainKeeps ==
    ASSUME FramingInv, HttpInv, RefuseAgain PROVE FramingInv' /\ HttpInv'
<1> DEFINE x == [code |-> context.code, short |-> Short(context)]
<1>1. /\ ~Framed /\ context.status = "error" /\ Refuse(context) /\ Unparsed
      /\ replies' = Append(replies, x) /\ context' = context
      /\ UNCHANGED <<role, sent, taken>>
  BY DEF RefuseAgain, Decoding, Unparsed, Refuse, ReplyWith
<1>2. FramingInv'
  BY <1>1, RefuseKeeps
<1>3. PartsOK /\ context \in Contexts /\ replies \in Seq(Replies) /\ StreamOK
  BY <1>1 DEF HttpInv, FramingInv
<1>4. PICK e \in DOMAIN sent : Refused(e)
  BY <1>1 DEF HttpInv
<1>5. PICK r : r = sent[e].request
  OBVIOUS
<1>6. r \in Nat \ {0}
  BY <1>1, <1>3, <1>5, PartFacts
<1>7. /\ Offends(e) /\ Noticed(e) /\ (\A j \in DOMAIN sent : j < e => ~Offends(j))
      /\ ServedAll(r - 1) /\ Len(replies) >= r
      /\ \A k \in r..Len(replies) : replies[k] = x
      /\ x = [code |-> CodeOf(e), short |-> \A j \in PartsOf(r) : j < e => sent[j].kind # "keep"]
  BY <1>4, <1>5 DEF Refused
<1>8. x \in Replies
  <2>1. CodeOf(e) \in {"400", "414", "431"}
    BY DEF CodeOf
  <2> HIDE DEF x
  <2> QED BY <1>7, <2>1 DEF Replies
<1> HIDE DEF x
<1>9. /\ replies' \in Seq(Replies) /\ Len(replies) \in Nat /\ Len(replies') = Len(replies) + 1
      /\ \A k \in 1..Len(replies) : replies'[k] = replies[k]
      /\ replies'[Len(replies) + 1] = x
  BY <1>1, <1>3, <1>8, OneMore
<1>10. ServedAll(r - 1)'
  <2>1. /\ Requests' = Requests
        /\ \A k : Reply200(k)' = Reply200(k) /\ (Whole(k)' <=> Whole(k))
    BY <1>1, StreamSame
  <2>2. \A k \in 1..r - 1 : replies'[k] = replies[k]
    BY <1>6, <1>7, <1>9
  <2> QED BY <1>7, <2>1, <2>2 DEF ServedAll
<1>11. /\ CodeOf(e)' = CodeOf(e) /\ Offends(e)' /\ Noticed(e)'
       /\ PartsOf(r)' = PartsOf(r) /\ sent'[e].request = r /\ sent' = sent
       /\ \A j \in DOMAIN sent' : j < e => ~Offends(j)'
  BY <1>1, <1>5, <1>7, StreamSame
<1>12. /\ Len(replies') >= r /\ \A k \in r..Len(replies') : replies'[k] = x
  <2>1. \A k \in r..Len(replies') : k \in r..Len(replies) \/ k = Len(replies) + 1
    BY <1>6, <1>9
  <2>2. \A k \in r..Len(replies) : k \in 1..Len(replies)
    BY <1>6, <1>9
  <2> QED BY <1>6, <1>7, <1>9, <2>1, <2>2
<1>13. Refused(e)'
  <2>1. context'.code = CodeOf(e) /\ Short(context)' = x.short
    BY <1>1, <1>7 DEF x
  <2> QED BY <1>4, <1>7, <1>10, <1>11, <1>12, <2>1 DEF Refused
<1>14. PartsOK' /\ Framed' = Framed
  BY <1>1, <1>3, StreamSame DEF Framed
<1> QED BY <1>1, <1>2, <1>3, <1>4, <1>9, <1>11, <1>13, <1>14 DEF HttpInv

\* What the peer sends is what may come next.
LEMMA PartMayBeNext ==
    ASSUME StreamOK, ~Framed, PartsOK, NEW p \in MayFollow, NEW m,
           m = [from |-> Total, size |-> p.size, kind |-> p.kind,
                request |-> IF p.kind \in Lines THEN Requests + 1 ELSE Requests]
    PROVE  m \in Parts /\ m.from = Total /\ MayBeNext(m)
<1>1. Total \in Nat /\ Requests \in Nat /\ Body \in Nat \ {0}
  BY StreamFacts, PartFacts, HttpConstants
<1>2. sent # <<>> => /\ Len(sent) \in DOMAIN sent /\ Requests = sent[Len(sent)].request
                     /\ Requests \in Nat \ {0}
                     /\ (Whole(Requests) <=> Final(Len(sent)))
  BY WholeIs, PartFacts
<1>3. /\ m.from = Total /\ m.size = p.size /\ m.kind = p.kind
      /\ m.request = IF p.kind \in Lines THEN Requests + 1 ELSE Requests
  OBVIOUS
<1>4. \A x \in HeaderKinds \cup {"blank", "body"} : x \notin Lines
  BY DEF HeaderKinds, Lines
<1>5. CASE sent = <<>> \/ Whole(Requests)
  <2>1. p.size \in Nat \ {0} /\ p.kind \in Lines
    BY <1>5, HttpAssumption DEF MayFollow
  <2>2. m.request = Requests + 1 /\ m.kind # "body"
    BY <1>3, <1>4, <2>1
  <2>3. sent = <<>> => Requests = 0
    BY DEF Requests
  <2>4. MayBeNext(m)
    BY <1>2, <1>3, <1>5, <2>1, <2>2, <2>3 DEF MayBeNext, Follows
  <2> QED BY <1>1, <2>1, <2>4 DEF Parts, PartKinds
<1>6. CASE sent # <<>> /\ ~Whole(Requests) /\ sent[Len(sent)].kind = "blank"
  <2>1. p = [size |-> Body, kind |-> "body"]
    BY <1>6 DEF MayFollow
  <2>2. p.size = Body /\ p.kind = "body"
    BY <2>1
  <2>3. m.request = Requests /\ m.kind = "body" /\ m.size = Body
    BY <1>3, <1>4, <2>2
  <2>4. MayBeNext(m)
    BY <1>2, <1>6, <2>3 DEF MayBeNext, Follows
  <2> QED BY <1>1, <1>2, <1>4, <1>6, <2>2, <2>4 DEF Parts, PartKinds
<1>7. CASE sent # <<>> /\ ~Whole(Requests) /\ sent[Len(sent)].kind # "blank"
  <2>1. p \in Headers \cup {Blank}
    BY <1>7 DEF MayFollow
  <2>2. p.size \in Nat \ {0} /\ p.kind \in HeaderKinds \cup {"blank"}
    <3>1. CASE p \in Headers
      BY <3>1, HttpAssumption DEF HeaderKinds
    <3>2. CASE p = Blank
      <4>1. p.size = 1 /\ p.kind = "blank"
        BY <3>2 DEF Blank
      <4> QED BY <4>1
    <3> QED BY <2>1, <3>1, <3>2
  <2>3. m.request = Requests /\ m.kind # "body"
    BY <1>3, <1>4, <2>2 DEF HeaderKinds
  <2>4. MayBeNext(m)
    BY <1>2, <1>3, <1>7, <2>2, <2>3 DEF MayBeNext, Follows
  <2> QED BY <1>1, <1>2, <1>4, <1>7, <2>2, <2>4 DEF Parts, PartKinds, HeaderKinds
<1> QED BY <1>5, <1>6, <1>7

LEMMA PeerSendsPartKeeps ==
    ASSUME FramingInv, HttpInv, PeerSendsPart PROVE FramingInv' /\ HttpInv'
<1>1. /\ ~Framed /\ StreamOK /\ PartsOK
      /\ UNCHANGED <<role, delivered, taken, buffer, stage, given, refused, open, context, replies>>
      /\ \E p \in MayFollow : sent' = Append(sent,
            [from |-> Total, size |-> p.size, kind |-> p.kind,
             request |-> IF p.kind \in Lines THEN Requests + 1 ELSE Requests])
  BY DEF PeerSendsPart, httpVars, FramingInv, HttpInv
<1>2. PICK m \in Parts : m.from = Total /\ MayBeNext(m) /\ sent' = Append(sent, m)
  <2>1. PICK p \in MayFollow : sent' = Append(sent,
            [from |-> Total, size |-> p.size, kind |-> p.kind,
             request |-> IF p.kind \in Lines THEN Requests + 1 ELSE Requests])
    BY <1>1
  <2>2. PICK m : m = [from |-> Total, size |-> p.size, kind |-> p.kind,
                      request |-> IF p.kind \in Lines THEN Requests + 1 ELSE Requests]
    OBVIOUS
  <2>3. sent' = Append(sent, m)
    BY <2>1, <2>2
  <2>4. m \in Parts /\ m.from = Total /\ MayBeNext(m)
    BY <1>1, <2>2, PartMayBeNext
  <2> QED BY <2>3, <2>4
<1>3. FramingInv'
  BY <1>1, <1>2, SendingKeeps
<1>4. /\ PartsOK' /\ Requests' = m.request /\ Requests <= Requests'
      /\ \A k : PartsOf(k)' = PartsOf(k) \cup IF k = m.request THEN {Len(sent) + 1} ELSE {}
      /\ \A j \in DOMAIN sent : sent'[j] = sent[j] /\ (Final(j)' <=> Final(j))
      /\ \A k \in 1..Requests : Whole(k) => k # m.request /\ Whole(k)'
  BY <1>1, <1>2, PartsGrow
<1>5. /\ DOMAIN sent' = DOMAIN sent \cup {Len(sent) + 1} /\ Len(sent') = Len(sent) + 1
      /\ sent'[Len(sent) + 1] = m /\ Len(sent) \in Nat /\ DOMAIN sent = 1..Len(sent)
      /\ Requests \in Nat /\ m.request \in Nat
  BY <1>1, <1>2, StreamGrows, PartFacts DEF Parts
<1>6. \A j \in DOMAIN sent : /\ Offends(j)' <=> Offends(j)
                             /\ Noticed(j)' <=> Noticed(j)
                             /\ CodeOf(j)' = CodeOf(j)
  BY <1>1, <1>4 DEF Offends, Long, Noticed, CodeOf
<1>7. ASSUME NEW i \in Nat, i <= Len(sent) + 1
      PROVE  /\ \A j \in DOMAIN sent' : j < i => j \in DOMAIN sent
             /\ \A k : \A j \in PartsOf(k)' : j < i => j \in PartsOf(k)
             /\ \A k : PartsOf(k) \subseteq PartsOf(k)' /\ PartsOf(k) \subseteq DOMAIN sent
  <2>1. ~(Len(sent) + 1 < i)
    BY <1>5, <1>7
  <2> QED BY <1>4, <1>5, <2>1 DEF PartsOf
<1>8. ASSUME NEW n \in Nat, ServedAll(n) PROVE ServedAll(n)'
  <2>1. /\ n <= Requests /\ (n > 0 /\ n = Requests => Whole(n))
        /\ \A k \in 1..n : replies[k] = Reply200(k)
    BY <1>8 DEF ServedAll
  <2>2. n <= Requests' /\ (n > 0 /\ n = Requests' => n = Requests /\ n \in 1..Requests)
    BY <1>4, <1>5, <2>1
  <2>3. n > 0 /\ n = Requests' => Whole(n)'
    BY <1>4, <2>1, <2>2
  <2>4. ASSUME NEW k \in 1..n PROVE Reply200(k)' = Reply200(k)
    <3>1. k \in 1..Requests /\ Whole(k)
      <4>1. CASE k = Requests
        <5>1. n = Requests /\ n > 0
          BY <1>5, <2>1, <4>1
        <5> QED BY <1>5, <2>1, <4>1, <5>1
      <4>2. CASE k # Requests
        <5>1. k \in 1..(Requests - 1)
          BY <1>5, <2>1, <4>2
        <5> QED BY <1>1, <1>5, <5>1 DEF PartsOK
      <4> QED BY <4>1, <4>2
    <3>2. PartsOf(k)' = PartsOf(k)
      BY <1>4, <3>1
    <3>3. \A j \in PartsOf(k) : sent'[j] = sent[j]
      BY <1>4 DEF PartsOf
    <3> QED BY <3>2, <3>3 DEF Reply200
  <2> QED BY <1>1, <2>1, <2>2, <2>3, <2>4 DEF ServedAll
<1>9. context' \in Contexts /\ replies' \in Seq(Replies) /\ ~Framed' /\ Len(replies) \in Nat
  BY <1>1, LenProperties DEF HttpInv, Framed
<1>10. CASE context.status = "error"
  <2>1. PICK e \in DOMAIN sent : Refused(e)
    BY <1>1, <1>10 DEF HttpInv
  <2>2. PICK r : r = sent[e].request
    OBVIOUS
  <2>3. /\ Offends(e) /\ Noticed(e) /\ (\A j \in DOMAIN sent : j < e => ~Offends(j))
        /\ ServedAll(r - 1) /\ Len(replies) >= r /\ r - 1 \in Nat
        /\ \A k \in r..Len(replies) : replies[k] =
              [code |-> CodeOf(e), short |-> \A j \in PartsOf(r) : j < e => sent[j].kind # "keep"]
        /\ context.code = CodeOf(e)
        /\ Short(context) = \A j \in PartsOf(r) : j < e => sent[j].kind # "keep"
    <3>1. r - 1 \in Nat
      BY <1>1, <2>1, <2>2, PartFacts
    <3> QED BY <2>1, <2>2, <3>1 DEF Refused
  <2>4. e \in Nat /\ e <= Len(sent) + 1
    BY <1>5
  <2>5. /\ e \in DOMAIN sent' /\ sent'[e].request = r
        /\ Offends(e)' /\ Noticed(e)' /\ CodeOf(e)' = CodeOf(e) /\ ServedAll(r - 1)'
    BY <1>4, <1>5, <1>6, <1>8, <2>1, <2>2, <2>3
  <2>6. \A j \in DOMAIN sent' : j < e => ~Offends(j)'
    BY <1>6, <1>7, <2>3, <2>4
  <2>7. (\A j \in PartsOf(r)' : j < e => sent'[j].kind # "keep")
          = \A j \in PartsOf(r) : j < e => sent[j].kind # "keep"
    <3>1. \A j \in PartsOf(r) : j \in PartsOf(r)' /\ sent'[j] = sent[j]
      BY <1>4, <1>7, <2>4
    <3>2. \A j \in PartsOf(r)' : j < e => j \in PartsOf(r)
      BY <1>7, <2>4
    <3> QED BY <3>1, <3>2
  <2>8. Refused(e)'
    BY <1>1, <2>3, <2>5, <2>6, <2>7 DEF Refused, Short
  <2>9. context' = context
    BY <1>1
  <2> QED BY <1>3, <1>4, <1>9, <1>10, <2>5, <2>8, <2>9 DEF HttpInv
<1>11. CASE context.status # "error"
  <2>1. PICK i \in 1..(Len(sent) + 1) : Reading(i) /\ (stage = "idle" => Waits(i))
    BY <1>1, <1>11 DEF HttpInv
  <2>2. i \in Nat \ {0} /\ i <= Len(sent) + 1 /\ (i > 1 => i - 1 \in DOMAIN sent)
        /\ (i = Len(sent) + 1 \/ i \in DOMAIN sent) /\ i \in 1..(Len(sent') + 1)
    BY <1>5, <2>1
  <2>3. At(i)'
    <3>1. Position' = Position
      BY <1>1 DEF Position, ReadableSize
    <3>2. At(i) /\ i # Len(sent') + 1
      BY <1>5, <2>1, <2>2 DEF Reading
    <3>3. Position = sent'[i].from
      <4>1. CASE i = Len(sent) + 1
        BY <1>2, <1>5, <3>2, <4>1 DEF At
      <4>2. CASE i \in DOMAIN sent
        <5>1. i # Len(sent) + 1
          BY <1>5, <4>2
        <5> QED BY <1>4, <3>2, <4>2, <5>1 DEF At
      <4> QED BY <2>2, <4>1, <4>2
    <3> QED BY <2>2, <3>1, <3>2, <3>3 DEF At
  <2>4. \A j \in DOMAIN sent' : j < i => ~Offends(j)'
    BY <1>6, <1>7, <2>1, <2>2 DEF Reading
  <2>5. ServedAll(Len(replies))'
    <3>1. ServedAll(Len(replies))
      BY <2>1 DEF Reading
    <3>2. PICK n : n = Len(replies)
      OBVIOUS
    <3>3. ServedAll(n)' /\ Len(replies)' = n
      BY <1>1, <1>8, <1>9, <3>1, <3>2
    <3> QED BY <3>3 DEF ServedAll
  <2>6. i > 1 => /\ sent'[i - 1] = sent[i - 1] /\ (Final(i - 1)' <=> Final(i - 1))
    BY <1>4, <2>2
  <2>7. ContextOf(i) => ContextOf(i)'
    <3>1. SUFFICES ASSUME ContextOf(i) PROVE ContextOf(i)'
      OBVIOUS
    <3>2. PICK r : r = sent[i - 1].request
      OBVIOUS
    <3>3. sent'[i - 1].request = r
      BY <2>6, <3>1, <3>2 DEF ContextOf
    <3>4. /\ \A j \in PartsOf(r) : j \in PartsOf(r)' /\ sent'[j] = sent[j]
          /\ \A j \in PartsOf(r)' : j < i => j \in PartsOf(r)
      BY <1>4, <1>7, <2>2
    <3>5. /\ i > 1 /\ context.code = "200" /\ Len(replies) = r - 1
          /\ \E s \in PartsOf(r) : s < i /\ sent[s].kind \in Lines /\ context.path = sent[s].kind
          /\ context.keep <=> \E j \in PartsOf(r) : j < i /\ sent[j].kind = "keep"
          /\ context.length = IF \E j \in PartsOf(r) : j < i /\ sent[j].kind = "length"
                              THEN Body ELSE 0
      BY <3>1, <3>2 DEF ContextOf
    <3>6. /\ \E s \in PartsOf(r)' : s < i /\ sent'[s].kind \in Lines /\ context.path = sent'[s].kind
          /\ context.keep <=> \E j \in PartsOf(r)' : j < i /\ sent'[j].kind = "keep"
          /\ context.length = IF \E j \in PartsOf(r)' : j < i /\ sent'[j].kind = "length"
                              THEN Body ELSE 0
      BY <3>4, <3>5
    <3> QED BY <1>1, <3>3, <3>5, <3>6 DEF ContextOf
  <2>8. Reading(i)'
    <3>1. context' = context /\ replies' = replies
      BY <1>1
    <3>2. /\ context.status = "line" =>
                /\ context = NewContext
                /\ i > 1 => Final(i - 1)
                /\ Len(replies) = IF i = 1 THEN 0 ELSE sent[i - 1].request
          /\ context.status = "header" =>
                ContextOf(i) /\ sent[i - 1].kind \in {"line", "nowhere"} \cup HeaderKinds
          /\ context.status = "body" => ContextOf(i) /\ sent[i - 1].kind = "blank"
      BY <2>1 DEF Reading
    <3>3. ContextOf(i) => i > 1
      BY DEF ContextOf
    <3>4. i = 1 \/ i > 1
      BY <2>2
    <3>5. (context.status = "line" =>
                /\ context = NewContext
                /\ i > 1 => Final(i - 1)
                /\ Len(replies) = IF i = 1 THEN 0 ELSE sent[i - 1].request)'
      BY <2>6, <3>1, <3>2, <3>4
    <3>6. (/\ context.status = "header" =>
                ContextOf(i) /\ sent[i - 1].kind \in {"line", "nowhere"} \cup HeaderKinds
           /\ context.status = "body" => ContextOf(i) /\ sent[i - 1].kind = "blank")'
      BY <2>6, <2>7, <3>1, <3>2, <3>3
    <3> QED BY <2>3, <2>4, <2>5, <3>5, <3>6 DEF Reading
  <2>9. stage' = "idle" => Waits(i)'
    <3>1. SUFFICES ASSUME stage = "idle" PROVE Waits(i)'
      BY <1>1
    <3>2. Waits(i)
      BY <2>1, <3>1
    <3>3. i \in DOMAIN sent => ~Noticed(i)'
      BY <1>6, <3>2 DEF Waits
    <3>4. i = Len(sent) + 1 => ~Noticed(i)'
      <4>1. m.from = Total /\ m.size \in Nat \ {0} /\ Total \in Nat /\ taken \in Nat /\ taken <= Total
        BY <1>2, PositionIs DEF Parts, FramingInv
      <4>2. i = Len(sent) + 1 => sent'[i] = m /\ taken' = taken
        BY <1>1, <1>5
      <4> QED BY <4>1, <4>2, HttpConstants DEF Noticed
    <3> QED BY <1>1, <2>2, <3>2, <3>3, <3>4 DEF Waits
  <2>10. context' = context
    BY <1>1
  <2> QED BY <1>3, <1>4, <1>9, <1>11, <2>2, <2>8, <2>9, <2>10 DEF HttpInv
<1> QED BY <1>10, <1>11

-----------------------------------------------------------------------------
(* Http: theorems.                                                         *)

LEMMA HttpStepKeeps ==
    ASSUME FramingInv, HttpInv, [HttpNext]_allVars PROVE FramingInv' /\ HttpInv'
<1>1. CASE UNCHANGED allVars
  <2>1. /\ UNCHANGED <<role, sent, context, replies, taken, stage>>
        /\ Position' = Position /\ UNCHANGED framingVars
    BY <1>1 DEF allVars, framingVars, httpVars, Position, ReadableSize
  <2>2. taken \in Nat
    BY PositionIs DEF FramingInv
  <2> QED BY <2>1, <2>2, FramingStep, WaitingKeeps
<1>2. CASE FramingNext /\ UNCHANGED httpVars
  BY <1>2, FramingStep, FramingNextKeeps
<1>3. CASE HttpStep
  BY <1>3, RecvHttpLineKeeps, RecvHttpHeaderKeeps, RecvHttpBodyKeeps, RefuseLineKeeps,
     RefuseAgainKeeps, AwaitMoreKeeps DEF HttpStep
<1> QED BY <1>1, <1>2, <1>3, PeerSendsPartKeeps DEF HttpNext

\* What is read from a connection of MuduoServer or MuduoClient, or by an
\* HttpServer as far as the Buffer goes (Framing alone).
THEOREM FramingInvariance == FramingSpec => []FramingInv
<1>1. FramingInit => FramingInv
  BY FramingInit_Inv
<1>2. FramingInv /\ [FramingNext]_framingVars => FramingInv'
  BY FramingStep
<1> QED BY <1>1, <1>2, PTL DEF FramingSpec

\* And what HttpServer::OnMessage makes of it: where its HttpContext stands in
\* the stream, and what it has answered.
THEOREM HttpInvariance == HttpSpec => [](FramingInv /\ HttpInv)
<1>1. HttpInit => FramingInv /\ HttpInv
  BY HttpInit_Inv
<1>2. FramingInv /\ HttpInv /\ [HttpNext]_allVars => FramingInv' /\ HttpInv'
  BY HttpStepKeeps
<1> QED BY <1>1, <1>2, PTL DEF HttpSpec

\* MuduoServer and MuduoClient hand over the messages the peer sent, whole,
\* once and in their order, however TCP cuts the stream and however HandleRead
\* moves, grows and reuses the Buffer.
THEOREM MessagesHandedOver == HttpSpec => []GivenInOrder
<1>1. FramingInv => GivenInOrder
  BY FramingInvHolds
<1> QED BY <1>1, HttpInvariance, PTL

\* OnMessage refuses a connection only over a message that Check refuses or
\* that is longer than MAX_MESSAGE_SIZE.
THEOREM RefusalsHaveCause == HttpSpec => []RefusedForCause
<1>1. FramingInv => RefusedForCause
  BY FramingInvHolds
<1> QED BY <1>1, HttpInvariance, PTL

\* HttpServer answers every request once, in their order, as soon as it was
\* read and by its own headers, up to the first that it refuses.
THEOREM RequestsAnswered == HttpSpec => []RepliesExact
<1>1. FramingInv /\ HttpInv => RepliesExact
  BY HttpInvHolds
<1> QED BY <1>1, HttpInvariance, PTL

=============================================================================

------------------------------ MODULE Framing ------------------------------
(***************************************************************************)
(* How a connection's bytes become messages: Buffer and HandleRead of      *)
(* common/muduo.hpp, LVProtocol and the OnMessage loops of MuduoServer and *)
(* MuduoClient in common/net.hpp.  The peer writes frames (a length field, *)
(* then that many bytes), TCP cuts them anywhere, HandleRead appends what  *)
(* has arrived to the Buffer and OnMessage takes whole frames out of it.   *)
(*                                                                         *)
(* A byte stands for its position in the stream the peer sends, so that a  *)
(* byte lost, doubled or moved shows; the frames' contents are abstracted  *)
(* to what LVProtocol::OnMessage finds wrong with them.  What an           *)
(* HttpServer reads instead of frames, through the same Buffer, is in      *)
(* Http.                                                                   *)
(*                                                                         *)
(* A definition X_Y beside X is X with a plausible bug: README.md says     *)
(* which property notices it.                                              *)
(***************************************************************************)
EXTENDS Naturals, Sequences

CONSTANTS Roles,        \* "server": MuduoServer, "client": MuduoClient,
                        \* "http": HttpServer
          Field,        \* bytes of a length field
          Frames,       \* the frames the peer may send: records of a size
                        \* and a kind
          BufferSize,   \* DEFAULT_BUFFER_SIZE
          Limit,        \* MAX_MESSAGE_SIZE
          MaxMessages   \* bound

\* OnMessage accepts a frame; UnSerialize or Check refuses its content; its
\* message type does not exist; its id's length is more than the frame holds.
FrameKinds == {"fine", "refused", "unknown", "overlong"}

ASSUME FramingAssumption ==
    /\ Roles \subseteq {"server", "client", "http"}
    /\ Field \in Nat \ {0}
    /\ \A f \in Frames :
        f.size \in Nat /\ f.size >= 3 * Field /\ f.kind \in FrameKinds
    /\ BufferSize \in Nat \ {0}
    /\ Limit \in Nat
    /\ MaxMessages \in Nat

VARIABLES role,      \* whose connection it is
          sent,      \* the messages the peer has sent, each with its place in
                     \* the stream: how many bytes come before it
          delivered, \* how many bytes have arrived at the socket
          taken,     \* how many of them were read from it
          buffer,    \* the Buffer: its cells, _read_idx, _write_idx
          stage,     \* where the loop thread is
          given,     \* what was handed to the message callback (history)
          refused,   \* a message or the buffer's size was refused
          open       \* the connection is not DISCONNECTED

framingVars == <<role, sent, delivered, taken, buffer, stage, given, refused, open>>

FramingInit ==
    /\ role \in Roles
    /\ sent = <<>>
    /\ delivered = 0
    /\ taken = 0
    /\ buffer = [cells |-> [i \in 1..BufferSize |-> 0], read |-> 0, write |-> 0]
    /\ stage = "idle"
    /\ given = <<>>
    /\ refused = FALSE
    /\ open = TRUE

\* How many bytes there are up to the end of the i-th message, and in all.
End(i) == sent[i].from + sent[i].size
Total == IF sent = <<>> THEN 0 ELSE End(Len(sent))

\* The peer speaks LVProtocol.
Framed == role # "http"

-----------------------------------------------------------------------------
(* Buffer.                                                                 *)

Capacity(b) == Len(b.cells)
ReadableSize(b) == b.write - b.read
TailIdleSize(b) == Capacity(b) - b.write
WriteableSize(b) == b.read + TailIdleSize(b)
Contents(b) == SubSeq(b.cells, b.read + 1, b.write)

\* The readable bytes copied to the beginning of cells.
Copied(b, cells) ==
    [i \in DOMAIN cells |->
        IF i <= ReadableSize(b) THEN b.cells[b.read + i] ELSE cells[i]]

\* EnsureWriteSize: there is room behind, or once the bytes are moved down, or
\* in a vector of twice the size that holds them all.
Compacted_InPlace(b) == [b EXCEPT !.read = 0, !.write = ReadableSize(b)]
Compacted(b) ==
    [cells |-> Copied(b, b.cells), read |-> 0, write |-> ReadableSize(b)]

Larger(b, n) == IF ReadableSize(b) + n > 2 * Capacity(b)
                THEN ReadableSize(b) + n ELSE 2 * Capacity(b)
Grown(b, n) ==
    [cells |-> Copied(b, [i \in 1..Larger(b, n) |-> 0]),
     read |-> 0, write |-> ReadableSize(b)]

Ensured(b, n) ==
    IF TailIdleSize(b) >= n THEN b
    ELSE IF WriteableSize(b) >= n THEN Compacted(b)
    ELSE Grown(b, n)

\* WriteAndPush of the n bytes that follow those already taken.
Pushed(b, n) ==
    LET e == Ensured(b, n) IN
    [e EXCEPT !.cells = [i \in DOMAIN @ |->
                            IF i \in (e.write + 1)..(e.write + n)
                            THEN taken + i - e.write ELSE @[i]],
              !.write = @ + n]

\* MoveReadOffset: an empty buffer starts over.
Popped(b, n) ==
    IF b.read + n = b.write THEN [b EXCEPT !.read = 0, !.write = 0]
    ELSE [b EXCEPT !.read = @ + n]

-----------------------------------------------------------------------------
(* The peer and the network.                                               *)

PeerSendsFrame ==
    /\ Framed
    /\ Len(sent) < MaxMessages
    /\ \E f \in Frames :
        sent' = Append(sent, [from |-> Total, size |-> f.size, kind |-> f.kind])
    /\ UNCHANGED <<role, delivered, taken, buffer, stage, given, refused, open>>

BytesArrive ==
    /\ \E n \in (delivered + 1)..Total : delivered' = n
    /\ UNCHANGED <<role, sent, taken, buffer, stage, given, refused, open>>

-----------------------------------------------------------------------------
(* HandleRead.                                                             *)

\* One recv: as much as has arrived and fits the local array.
ReadSome ==
    LET n == IF delivered - taken < BufferSize THEN delivered - taken ELSE BufferSize IN
    /\ open
    /\ stage \in {"idle", "reading"}
    /\ n > 0
    /\ buffer' = Pushed(buffer, n)
    /\ taken' = taken + n
    /\ stage' = "reading"
    /\ UNCHANGED <<role, sent, delivered, given, refused, open>>

\* recv has nothing more: the message callback, if there is something in the
\* buffer; also when the loop thread was woken by the end of the stream only.
ReadEnds ==
    /\ open
    /\ stage \in {"idle", "reading"}
    /\ delivered = taken
    /\ ReadableSize(buffer) > 0
    /\ stage' = "decode"
    /\ UNCHANGED <<role, sent, delivered, taken, buffer, given, refused, open>>

-----------------------------------------------------------------------------
(* OnMessage, one round of its loop at a time.                             *)

\* Where the buffer's first byte is in the stream, less one.
Position == taken - ReadableSize(buffer)

\* The message whose frame begins with the buffer's first byte, and the
\* length its first field holds.
First == {i \in 1..Len(sent) : sent[i].from + 1 = buffer.cells[buffer.read + 1]}
Part == sent[CHOOSE i \in First : TRUE]
TotalLen == IF First = {} THEN 0 ELSE Part.size - Field

\* What OnMessage reads next was written as a field only by accident: it has
\* taken no more than the fields of a frame whose id is too long.
Adrift == \E i \in DOMAIN sent : sent[i].kind = "overlong" /\ sent[i].from < Position

\* CanProcess: a whole frame is in the buffer.
CanProcess ==
    /\ ReadableSize(buffer) >= Field
    /\ ReadableSize(buffer) >= TotalLen + Field

\* How many bytes OnMessage takes out of the buffer.
Retrieved_Content == TotalLen
Retrieved == IF Part.kind = "overlong" THEN 3 * Field ELSE TotalLen + Field

\* When the buffer is too full although no frame is complete.
TooLong_Capacity == Capacity(buffer) > Limit
TooLong == ReadableSize(buffer) > Limit

\* No complete frame: the loop ends, and the connection when too much waits.
StopDecoding ==
    /\ Framed
    /\ stage = "decode"
    /\ Adrift \/ ~CanProcess
    /\ refused' = (refused \/ TooLong)
    /\ stage' = "idle"
    /\ UNCHANGED <<role, sent, delivered, taken, buffer, given, open>>

\* OnMessage makes a message of the frame; it returns TRUE.
Made == Part.kind \in {"fine", "refused"}
Fine == Part.kind = "fine"

\* The server calls its callback whatever OnMessage returned, the client only
\* when it returned TRUE.
HandsOver == Fine \/ role = "server"

\* Whether the loop goes on after a frame.  Where the server has no message to
\* hand over, Dispatcher::OnMessage uses a null pointer.
AfterFrame_Once == "idle"
AfterFrame ==
    IF ~HandsOver THEN "idle" ELSE IF Made THEN "decode" ELSE "crashed"

\* A frame is taken out.  One that is not fine makes the client end the loop;
\* the server, too, queues a Shutdown, but hands the message over, without its
\* identifier, and goes on.
Dispatch ==
    LET frame == SubSeq(Contents(buffer), 1, TotalLen + Field) IN
    /\ Framed
    /\ stage = "decode"
    /\ ~Adrift /\ CanProcess
    /\ buffer' = Popped(buffer, Retrieved)
    /\ refused' = (refused \/ ~Fine)
    /\ given' = IF HandsOver /\ Made
                THEN Append(given, [bytes |-> frame, known |-> Fine]) ELSE given
    /\ stage' = AfterFrame
    /\ UNCHANGED <<role, sent, delivered, taken, open>>

\* Messages made of bytes that were not written as one; `given` notes only that
\* there were some.
Stray == [bytes |-> <<>>, known |-> TRUE]
GivenStray == {k \in DOMAIN given : given[k] = Stray} # {}

\* A client that is read from once more before its Shutdown has run decodes
\* what follows the fields of the frame it refused: a message, another refusal,
\* or a length that an assertion or a string's constructor does not survive.
DispatchStray ==
    /\ Framed
    /\ stage = "decode"
    /\ Adrift
    /\ \/ /\ \E n \in (3 * Field)..ReadableSize(buffer) : buffer' = Popped(buffer, n)
          /\ stage' \in {"decode", "idle"}
          /\ given' = IF stage' = "decode" /\ ~GivenStray THEN Append(given, Stray)
                      ELSE given
       \/ stage' = "crashed" /\ UNCHANGED <<buffer, given>>
    /\ UNCHANGED <<role, sent, delivered, taken, refused, open>>

\* The connection is released, by a Shutdown or by its other end.  On an error
\* HandleClose calls the message callback once more, before the Release that
\* it queues: what is left is decoded.
Close ==
    /\ open
    /\ stage = "idle"
    /\ open' = FALSE
    /\ stage' \in IF ReadableSize(buffer) > 0 THEN {"idle", "decode"} ELSE {"idle"}
    /\ UNCHANGED <<role, sent, delivered, taken, buffer, given, refused>>

-----------------------------------------------------------------------------
FramingNext ==
    \/ PeerSendsFrame
    \/ BytesArrive
    \/ ReadSome
    \/ ReadEnds
    \/ StopDecoding
    \/ Dispatch
    \/ DispatchStray
    \/ Close

FramingSpec == FramingInit /\ [][FramingNext]_framingVars

\* TCP delivers, the loop thread runs; ReadEnds is level-triggered only while
\* a read is under way.
FramingFairness ==
    /\ WF_framingVars(BytesArrive)
    /\ WF_framingVars(ReadSome)
    /\ WF_framingVars(stage = "reading" /\ ReadEnds)
    /\ WF_framingVars(StopDecoding \/ Dispatch \/ DispatchStray)

FairFramingSpec == FramingSpec /\ FramingFairness

-----------------------------------------------------------------------------
(* Properties.                                                             *)

FramingTypeOK ==
    /\ delivered \in 0..Total
    /\ taken \in 0..delivered
    /\ buffer.cells \in Seq(0..taken)
    /\ 0 <= buffer.read /\ buffer.read <= buffer.write
    /\ buffer.write <= Capacity(buffer)
    /\ stage \in {"idle", "reading", "decode", "crashed"}
    /\ refused \in BOOLEAN /\ open \in BOOLEAN

\* The buffer holds exactly the bytes that were read last, in their order, and
\* its first byte begins a frame until an overlong one was met, however the
\* stream was cut and however often the bytes were moved down or the buffer
\* grew.
BufferIsWindow ==
    /\ FramingTypeOK
    /\ Contents(buffer) = [k \in 1..ReadableSize(buffer) |-> Position + k]
    /\ Framed => Adrift \/ Position \in {Total} \cup {sent[i].from : i \in DOMAIN sent}

\* What the callback is handed of the i-th message.
Handed(i) ==
    [bytes |-> [k \in 1..sent[i].size |-> sent[i].from + k], known |-> sent[i].kind = "fine"]

\* The i-th message was taken out as a whole, and so was every one before it.
TakenWhole(i) == End(i) <= Position /\ \A j \in 1..i : sent[j].kind # "overlong"

\* Up to the first frame whose id is too long, the messages handed over are
\* those the peer sent, whole, once and in their order; the client leaves out
\* those it refuses, the server hands over without identifier those that it
\* could make.  After such a frame stray messages may follow, and they only
\* when the connection is refused already.
GivenInOrder ==
    /\ BufferIsWindow
    /\ Framed =>
        /\ {given[k] : k \in DOMAIN given} \ {Stray} =
                {Handed(i) : i \in {i \in DOMAIN sent : TakenWhole(i) /\
                    (sent[i].kind = "fine" \/ (sent[i].kind = "refused" /\ role = "server"))}}
        /\ \A k, l \in DOMAIN given : k < l =>
                \/ given[l] = Stray
                \/ given[k] # Stray /\ given[k].bytes[1] < given[l].bytes[1]
        /\ GivenStray => refused

\* Of the i-th frame at least the fields were taken out, and it is of these kinds.
Met(i, kinds) == sent[i].kind \in kinds /\ sent[i].from < Position

\* What may end the connection, and what the loop thread.
Refusable(i) ==
    \/ Met(i, {"refused", "unknown", "overlong"})
    \/ sent[i].size > Limit /\ taken - sent[i].from > Limit
Deadly(i) == Met(i, {"overlong"}) \/ (role = "server" /\ Met(i, {"unknown"}))

\* The connection is refused only over a frame that OnMessage has refused or
\* one of which more than the limit has come: never because several good
\* messages arrived at once, or one of them in pieces.  And the thread dies only
\* of a frame of which no message is made.
RefusedForCause ==
    Framed =>
        /\ refused => \E i \in DOMAIN sent : Refusable(i)
        /\ stage = "crashed" => \E i \in DOMAIN sent : Deadly(i)

\* Every message reaches the callback, unless the connection closes or refuses
\* something.
MessagesArrive ==
    \A i \in 1..MaxMessages :
        Framed /\ Len(sent) >= i ~> (Len(given) >= i \/ refused \/ ~open)
=============================================================================

-------------------------------- MODULE Wire --------------------------------
(***************************************************************************)
(* The wire protocol (core/protocol.cpp) and the channel that frames it    *)
(* (net/frame_channel.cpp, net/socket.cpp): how a message becomes bytes,   *)
(* how two threads put their frames on one stream, how the stream is cut   *)
(* into pieces on the way, and how the other side makes messages of it     *)
(* again.                                                                  *)
(*                                                                         *)
(* The codec is the code's own with smaller numbers.  A byte holds one of  *)
(* Base = 8 values where the code's holds 256, a varint byte 2 bits and a  *)
(* continuation bit where the code's holds 7 and one, u16 and u32 take two *)
(* bytes and u64 and i64 three.  A u64 then has nine bits, so a varint is  *)
(* at most five bytes long and the fifth may carry one bit, as the code's  *)
(* tenth may.  A message body is the sequence of its field values; names,  *)
(* paths and contents are sequences of bytes.                              *)
(***************************************************************************)
EXTENDS Integers, Sequences, FiniteSets, SequencesExt

CONSTANTS
    MaxPayload,     \* kMaxPayload, in scaled bytes
    MaxPaths,       \* kMaxReadManyPaths
    ChunkBytes,     \* Options::snapshot_chunk_bytes
    PipeCap,        \* bytes the socket buffers of the two ends hold
    Piece,          \* the sizes of the pieces in which they take and give bytes
    Answer,         \* the answers sent, pairs of a message type and a body
    Batch,          \* the lists of invalidation ops that are broadcast
    Listing         \* the lists of snapshot entries that are served

Base == 8
Half == 4
Width == [u8 |-> 1, kind |-> 1, op |-> 1, change |-> 1,
          u16 |-> 2, u32 |-> 2, u64 |-> 3, i64 |-> 3]
Greatest == [kind |-> 3, op |-> 2, change |-> 5]    \* of the enumerations
HeaderSize == 13
MaxVarint == 5
MinEntry == 9               \* a snapshot entry with no name: 2 + 1 + 1 + 1 + 3 + 1
OpOverhead == 15            \* what broadcast_batch counts for an op beside its path
MaxU32 == Base^Width.u32 - 1
MaxU64 == Base^Width.u64 - 1
Magic == 37
Version == 4
More == 1
Upsert == 0

MsgType == << "Hello", "HelloAck", "SnapshotRequest", "Snapshot", "Invalidation",
              "ReadRequest", "ReadResponse", "Error", "Ping", "Pong",
              "WriteRequest", "WriteResponse", "CreateRequest", "CreateResponse",
              "MkdirRequest", "UnlinkRequest", "RmdirRequest", "RenameRequest",
              "TruncateRequest", "Ok", "ReadManyRequest", "ReadManyResponse",
              "ReadlinkRequest", "ReadlinkResponse", "Auth" >>
Code(t) == CHOOSE i \in DOMAIN MsgType : MsgType[i] = t

-----------------------------------------------------------------------------
(* Writer. *)

PutLe(v, n) == [i \in 1..n |-> (v \div Base^(i - 1)) % Base]

VarintLen(v) == CHOOSE n \in 1..MaxVarint :
                    /\ v < Half^n
                    /\ n = 1 \/ v >= Half^(n - 1)
Varint(v) ==
    LET n == VarintLen(v)
    IN  [i \in 1..n |-> ((v \div Half^(i - 1)) % Half) + (IF i < n THEN Half ELSE 0)]

String(s) == Varint(Len(s)) \o s

PutField(field, v) ==
    CASE field \in DOMAIN Width      -> PutLe(v % Base^Width[field], Width[field])
      [] field \in {"varint", "mode"} -> Varint(v)
      [] field = "string"             -> String(v)

PutFields(layout, vals) ==
    FlattenSeq([i \in DOMAIN layout |-> PutField(layout[i], vals[i])])

-----------------------------------------------------------------------------
(* Reader.  A read in progress holds the values read and the bytes left;   *)
(* once a read has failed (Truncated, Corrupt) every later one fails.      *)

Reader(bytes) == [ok |-> TRUE, vals |-> <<>>, in |-> bytes]
Failed == [ok |-> FALSE, vals |-> <<>>, in |-> <<>>]
Got(r, v, n) == [ok |-> TRUE, vals |-> Append(r.vals, v),
                 in |-> SubSeq(r.in, n + 1, Len(r.in))]

GetLe(bytes) == FoldRight(LAMBDA b, v : b + Base * v, bytes, 0)

Signed(v) == IF v > MaxU64 \div 2 THEN v - MaxU64 - 1 ELSE v

GotInt(r, field, v) ==
    IF /\ Len(r.in) >= Width[field]
       /\ field \in DOMAIN Greatest => v <= Greatest[field]
    THEN Got(r, IF field = "i64" THEN Signed(v) ELSE v, Width[field])
    ELSE Failed

ReadInt(r, field) == GotInt(r, field, GetLe(SubSeq(r.in, 1, Width[field])))

(* The bytes of the varint at the head of the input; 0 if it is cut off,   *)
(* has too many bytes, or the last one allowed carries more than one bit.  *)
VarintEnd(in) ==
    Max({0} \cup {n \in 1..MaxVarint :
                     /\ n <= Len(in) /\ in[n] < Half
                     /\ \A i \in 1..(n - 1) : in[i] >= Half
                     /\ n = MaxVarint => in[n] <= 1})

VarintValue(in, n) ==
    FoldRight(LAMBDA b, v : (b % Half) + Half * v, SubSeq(in, 1, n), 0)

GotVarint(r, n, v, max) == IF n > 0 /\ v <= max THEN Got(r, v, n) ELSE Failed
GotString(r, n, len) ==
    IF n > 0 /\ len <= Len(r.in) - n
    THEN Got(r, SubSeq(r.in, n + 1, n + len), n + len) ELSE Failed

(* Both begin with a varint, of n bytes. *)
ReadLong(r, field, n) ==
    IF field = "string" THEN GotString(r, n, VarintValue(r.in, n))
    ELSE GotVarint(r, n, VarintValue(r.in, n), IF field = "mode" THEN MaxU32 ELSE MaxU64)

ReadField(r, field) ==
    IF ~r.ok THEN r
    ELSE IF field \in DOMAIN Width THEN ReadInt(r, field)
    ELSE ReadLong(r, field, VarintEnd(r.in))

ReadFields(r, layout) == FoldLeft(ReadField, r, layout)

-----------------------------------------------------------------------------
(* The fields of each message, in the order they are written and read.     *)

Attributes == << "kind", "mode", "varint", "i64" >>

Layout(t) ==
    CASE t \in {"Hello", "HelloAck", "Auth"} -> << "u32", "u64", "string", "string", "string" >>
      [] t \in {"SnapshotRequest", "Ping", "Pong"} -> << >>
      [] t \in {"Snapshot", "Invalidation"} -> << "u64" >>
      [] t = "ReadRequest" -> << "u64", "u32", "string" >>
      [] t = "ReadResponse" -> << "u64", "string" >>
      [] t = "Error" -> << "u32", "string" >>
      [] t = "WriteRequest" -> << "u64", "string", "string" >>
      [] t = "WriteResponse" -> << "u64", "u64" >>
      [] t \in {"CreateRequest", "MkdirRequest"} -> << "mode", "string" >>
      [] t = "CreateResponse" -> Attributes \o << "u64" >>
      [] t \in {"UnlinkRequest", "RmdirRequest", "ReadlinkRequest", "ReadlinkResponse"} ->
             << "string" >>
      [] t = "TruncateRequest" -> << "u64", "string" >>
      [] t = "RenameRequest" -> << "string", "string" >>
      [] t = "Ok" -> << "u64" >>
      [] t \in {"ReadManyRequest", "ReadManyResponse"} -> << >>

EndsInList(t) == t \in {"Snapshot", "Invalidation", "ReadManyRequest", "ReadManyResponse"}

SnapshotEntry == << "u32" >> \o Attributes \o << "string" >>

IsMove(change) == change \in {4, 5}

(* A snapshot entry, an invalidation op, a path or an item of a bulk read. *)
(* An op carries attributes only if it is an upsert, and a cookie only if  *)
(* it is half of a move; an item carries contents only if it was read.     *)
ItemLayout(t, item) ==
    CASE t = "Snapshot" -> SnapshotEntry
      [] t = "Invalidation" ->
             LET head == << "op", "string" >>
                            \o (IF item[1] = Upsert THEN Attributes ELSE << >>)
                            \o << "change" >>
             IN  head \o (IF IsMove(item[Len(head)]) THEN << "u32" >> ELSE << >>)
      [] t = "ReadManyRequest" -> << "string" >>
      [] t = "ReadManyResponse" -> << "u8" >> \o (IF item[1] # 0 THEN << "string" >> ELSE << >>)

(* After the path of an op come its attributes and its change, after the   *)
(* change perhaps a cookie; after the flag of a bulk item its contents.    *)
ReadChange(r) ==
    ReadField(IF r.ok /\ r.vals[1] = Upsert THEN ReadFields(r, Attributes) ELSE r, "change")
ReadCookie(r) == IF r.ok /\ IsMove(Last(r.vals)) THEN ReadField(r, "u32") ELSE r
ReadContents(r) == IF r.ok /\ r.vals[1] # 0 THEN ReadField(r, "string") ELSE r

ReadItem(t, in) ==
    CASE t = "Snapshot"         -> ReadFields(Reader(in), SnapshotEntry)
      [] t = "Invalidation"     ->
             ReadCookie(ReadChange(ReadFields(Reader(in), << "op", "string" >>)))
      [] t = "ReadManyRequest"  -> ReadField(Reader(in), "string")
      [] t = "ReadManyResponse" -> ReadContents(ReadField(Reader(in), "u8"))

CountField(t) == IF t = "Snapshot" THEN "u32" ELSE "varint"

\* A guard that counts a byte for the entry's name as well.
CountFitsNamed(t, count, left) ==
    CASE t = "Snapshot" -> count * (MinEntry + 1) <= left
      [] t = "ReadManyRequest" -> count <= left /\ count <= MaxPaths
      [] OTHER -> count <= left

(* What the decoders ask of a count before they reserve room for it. *)
CountFits(t, count, left) ==
    CASE t = "Snapshot" -> count * MinEntry <= left
      [] t = "ReadManyRequest" -> count <= left /\ count <= MaxPaths
      [] OTHER -> count <= left

Encode(t, body) ==
    IF EndsInList(t)
    THEN LET items == Last(body)
         IN  PutFields(Layout(t), body)
                 \o PutField(CountField(t), Len(items))
                 \o FlattenSeq([i \in DOMAIN items |->
                                    PutFields(ItemLayout(t, items[i]), items[i])])
    ELSE PutFields(Layout(t), body)

AddItem(r, item) ==
    IF ~item.ok THEN Failed
    ELSE [ok |-> TRUE, vals |-> Append(r.vals, item.vals), in |-> item.in]

ReadItems(t, in, count) ==
    FoldLeft(LAMBDA r, i : IF r.ok THEN AddItem(r, ReadItem(t, r.in)) ELSE Failed,
             Reader(in), [i \in 1..count |-> i])

(* The list at the end of a message: its count, then its items. *)
ReadList(t, r, count) ==
    IF CountFits(t, count, Len(r.in))
    THEN AddItem(r, ReadItems(t, r.in, count)) ELSE Failed
AfterCount(t, head, r) ==
    IF ~r.ok THEN Failed ELSE ReadList(t, [r EXCEPT !.vals = head.vals], Last(r.vals))
AfterHead(t, head) ==
    IF EndsInList(t) THEN AfterCount(t, head, ReadField(head, CountField(t))) ELSE head

Decode(t, payload) == AfterHead(t, ReadFields(Reader(payload), Layout(t)))

-----------------------------------------------------------------------------
(* Frames. *)

HeaderLayout == << "u32", "u16", "u16", "u32", "u32", "u64" >>

Header(f, len) ==
    PutFields(HeaderLayout, << Magic, Version, Code(f.type), f.flags, len, f.id >>)

Payload(f) == Encode(f.type, f.body)
Framed(f, payload) == Header(f, Len(payload)) \o payload
FrameBytes(f) == Framed(f, Payload(f))

HeaderOf(bytes) == ReadFields(Reader(bytes), HeaderLayout).vals

HeaderValid(h) == h[1] = Magic /\ h[2] = Version /\ h[5] <= MaxPayload

Frame(t, id, flags, body) == [type |-> t, id |-> id, flags |-> flags, body |-> body]

(* broadcast_batch: the ops of one batch in frames of one generation, as   *)
(* many in each as the size guessed for them allows, and at least one.     *)
BatchFrames(gen, ops) ==
    LET budget == IF ChunkBytes < MaxPayload \div 2 THEN ChunkBytes ELSE MaxPayload \div 2
        add(c, op, guess) ==
            IF c.bytes + guess > budget /\ c.ops # << >>
            THEN [done |-> Append(c.done, c.ops), ops |-> << op >>, bytes |-> guess]
            ELSE [c EXCEPT !.ops = Append(@, op), !.bytes = @ + guess]
        frame(chunk) == Frame("Invalidation", 0, 0, << gen, chunk >>)
        all(c) == IF c.ops = << >> THEN c.done ELSE Append(c.done, c.ops)
        frames(chunks) == [i \in DOMAIN chunks |-> frame(chunks[i])]
    IN  frames(all(FoldLeft(LAMBDA c, op : add(c, op, Len(op[2]) + OpOverhead),
                            [done |-> << >>, ops |-> << >>, bytes |-> 0], ops)))

(* send_snapshot: a frame each time the entries buffered reach the budget, *)
(* all but the last flagged; the last may have no entry.                   *)
SnapshotFrames(id, gen, entries) ==
    LET add(c, e, size) ==
            IF c.bytes + size >= ChunkBytes
            THEN [done |-> Append(c.done, Append(c.entries, e)), entries |-> << >>, bytes |-> 0]
            ELSE [c EXCEPT !.entries = Append(@, e), !.bytes = @ + size]
        frame(flags, chunk) == Frame("Snapshot", id, flags, << gen, chunk >>)
        frames(c) == Append([i \in DOMAIN c.done |-> frame(More, c.done[i])],
                            frame(0, c.entries))
    IN  frames(FoldLeft(LAMBDA c, e : add(c, e, Len(PutFields(SnapshotEntry, e))),
                        [done |-> << >>, entries |-> << >>, bytes |-> 0], entries))

-----------------------------------------------------------------------------
(* One direction of one connection.  The session's thread answers, the     *)
(* flusher's thread broadcasts; both send on the channel, and one receiver *)
(* reads it.                                                               *)

Sender == {"session", "flusher"}
Nobody == "none"

VARIABLES
    work,       \* the batch and the listing the two threads set out to send
    todo,       \* todo[t]: the frames t still has to send
    holder,     \* the thread inside send_all with send_mu_ held
    out,        \* what it has not handed to the socket yet
    pipe,       \* the bytes under way
    sentFrames, \* the frames whose sending has begun, in that order
    inBuf,      \* the bytes of the frame being received
    received,   \* the frames received and decoded
    dropped,    \* the receiver has found the stream bad and left it
    cutBy,      \* the thread whose send ran out of time, or Nobody
    cut,        \* a send has run out of time
    closed      \* the sending side has shut the socket down

wireVars == <<work, todo, holder, out, pipe, sentFrames, inBuf, received, dropped, cutBy, cut, closed>>

WireInit ==
    /\ \E ops \in Batch, entries \in Listing \cup {<< >>}, a \in Answer :
          /\ work = [ops |-> ops, entries |-> entries]
          /\ todo = [flusher |-> BatchFrames(1, ops),
                     session |-> IF entries = << >> THEN << Frame(a[1], MaxU64, 0, a[2]) >>
                                 ELSE SnapshotFrames(2, 1, entries)]
    /\ holder = Nobody /\ out = << >> /\ pipe = << >> /\ sentFrames = << >>
    /\ inBuf = << >> /\ received = << >>
    /\ dropped = FALSE /\ cutBy = Nobody /\ cut = FALSE /\ closed = FALSE

sendVars == <<todo, holder, out, sentFrames>>
recvVars == <<inBuf, received, dropped>>
cutVars == <<cutBy, cut, closed>>

(* send and send_raw refuse a payload above kMaxPayload before they lock. *)
SendRefused(t) ==
    /\ todo[t] # << >> /\ cutBy # t
    /\ Len(Payload(Head(todo[t]))) > MaxPayload
    /\ todo' = [todo EXCEPT ![t] = Tail(@)]
    /\ UNCHANGED <<work, holder, out, sentFrames, pipe, recvVars, cutVars>>

SendBegin(t) ==
    /\ todo[t] # << >> /\ cutBy # t /\ ~closed
    /\ holder = Nobody
    /\ Len(Payload(Head(todo[t]))) <= MaxPayload
    /\ holder' = t
    /\ out' = FrameBytes(Head(todo[t]))
    /\ sentFrames' = Append(sentFrames, Head(todo[t]))
    /\ todo' = [todo EXCEPT ![t] = Tail(@)]
    /\ UNCHANGED <<work, pipe, recvVars, cutVars>>

(* One send() of the loop in send_all: the socket takes some of the bytes. *)
SendSome ==
    /\ holder # Nobody /\ ~closed
    /\ \E n \in Piece \cup {Len(out)} :
          /\ n <= Len(out) /\ Len(pipe) + n <= PipeCap
          /\ pipe' = pipe \o SubSeq(out, 1, n)
          /\ out' = SubSeq(out, n + 1, Len(out))
          /\ holder' = IF n = Len(out) THEN Nobody ELSE holder
    /\ UNCHANGED <<work, todo, sentFrames, recvVars, cutVars>>

(* The peer does not drain its socket and SO_SNDTIMEO runs out; what has   *)
(* been sent of the frame stays sent, and send_mu_ is released.            *)
SendTimesOut ==
    /\ holder # Nobody /\ ~closed
    /\ \A n \in Piece : Len(pipe) + n > PipeCap
    /\ holder' = Nobody /\ out' = << >>
    /\ cutBy' = holder /\ cut' = TRUE
    /\ UNCHANGED <<work, todo, sentFrames, pipe, recvVars, closed>>

(* The thread whose send failed shuts the socket down. *)
ShutDown ==
    /\ cutBy # Nobody /\ ~closed
    /\ closed' = TRUE
    /\ holder' = Nobody /\ out' = << >>
    /\ UNCHANGED <<work, todo, sentFrames, pipe, recvVars, cutBy, cut>>

(* How many bytes receive() waits for: the header, then the payload whose  *)
(* length the header gives.                                                *)
Wanted(bytes) ==
    IF Len(bytes) < HeaderSize THEN HeaderSize
    ELSE HeaderSize + HeaderOf(bytes)[5]

Garbled == Frame("garbled", 0, 0, << >>)

Decoded(h, body) ==
    IF body.ok THEN Frame(MsgType[h[3]], h[6], h[4], body.vals) ELSE Garbled
Received(h, payload) ==
    IF h[3] \in DOMAIN MsgType THEN Decoded(h, Decode(MsgType[h[3]], payload)) ELSE Garbled

(* The bytes of a frame that has come in so far: a header that is complete *)
(* is judged at once, a frame that is complete is handed on.               *)
Incoming(bytes, h) ==
    LET judged == Len(bytes) >= HeaderSize
        whole == judged /\ Len(bytes) = HeaderSize + h[5]
    IN  /\ dropped' = (judged /\ ~HeaderValid(h))
        /\ IF whole /\ HeaderValid(h)
           THEN /\ inBuf' = << >>
                /\ received' = Append(received,
                                      Received(h, SubSeq(bytes, HeaderSize + 1, Len(bytes))))
           ELSE inBuf' = bytes /\ UNCHANGED received

(* One recv() of the loop in recv_exact. *)
Receive ==
    /\ ~dropped /\ pipe # << >>
    /\ \E wanted \in {Wanted(inBuf) - Len(inBuf)} :
          \E n \in Piece \cup {Len(pipe), wanted} :
             /\ n <= Len(pipe) /\ n <= wanted
             /\ pipe' = SubSeq(pipe, n + 1, Len(pipe))
             /\ \E bytes \in {inBuf \o SubSeq(pipe, 1, n)} : Incoming(bytes, HeaderOf(bytes))
    /\ UNCHANGED <<work, sendVars, cutVars>>

WireNext ==
    \/ \E t \in Sender : SendRefused(t) \/ SendBegin(t)
    \/ SendSome \/ SendTimesOut \/ ShutDown
    \/ Receive

WireSpec == WireInit /\ [][WireNext]_wireVars

-----------------------------------------------------------------------------
ListsOf(frames, t) ==
    FlattenSeq([i \in DOMAIN SelectSeq(frames, LAMBDA f : f.type = t) |->
                    Last(SelectSeq(frames, LAMBDA f : f.type = t)[i].body)])

AllSent == /\ \A t \in Sender : todo[t] = << >>
           /\ holder = Nobody /\ pipe = << >>

(* As long as no send has run out of time, the receiver decodes exactly    *)
(* the frames that were sent, whole, in the order in which the threads     *)
(* took the channel, and never finds the stream bad: no size guard, range  *)
(* check or chunking of the code refuses what the code itself sends        *)
(* (frame_channel.hpp: "send* is thread-safe"; protocol.cpp's readers).  A    *)
(* payload of which a tail is missing is never taken for a message.  Once  *)
(* everything has arrived, the frames of a batch and of a listing add up   *)
(* to the batch and the listing.                                           *)
FramesArriveWhole ==
    ~cut =>
        /\ IsPrefix(received, sentFrames)
        /\ ~dropped
        /\ Len(inBuf) >= HeaderSize =>
               ~Decode(MsgType[HeaderOf(inBuf)[3]],
                       SubSeq(inBuf, HeaderSize + 1, Len(inBuf))).ok
        /\ AllSent => /\ received = sentFrames
                      /\ ListsOf(received, "Invalidation") = work.ops
                      /\ work.entries # << >> =>
                             ListsOf(received, "Snapshot") = work.entries
=============================================================================

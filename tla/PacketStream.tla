---------------------------- MODULE PacketStream ----------------------------
(***************************************************************************)
(* What the server's writer puts on the wire, read by the client: the      *)
(* framing of crates/gliff-transport/src/lib.rs, between WriterTask and    *)
(* the loop of net.rs that races read_msg against its other events.        *)
(*                                                                         *)
(* The stream is a series of cells, the least the reader tells apart:      *)
(* a header is two cells, a body one, a payload one or two.  Cell <<n, i>> *)
(* is the i-th of the packet of the n-th send.  The reader is on another   *)
(* machine and nothing it does reaches the writer, so its steps are taken  *)
(* after the writer's last: another order reads the same stream.           *)
(***************************************************************************)
EXTENDS WriterTask, Integers, Sequences, FiniteSets

CONSTANTS
  Unknown,     \* kinds the client's build has no variant for
  AuxLen,      \* cells of a frame's aux stream: 0 unless the chroma is dual
  MaxRead      \* bound: the packets of a stream that is read

ASSUME StreamAssumption ==
  Unknown \subseteq Kinds /\ AuxLen \in {0, 1} /\ MaxRead \in Nat

VARIABLES
  cut,         \* the packet whose write was broken off, at most one
  arrived,     \* cells the reader took from the socket so far
  taken,       \* cells it split off read_buf: arrived - taken are in it
  pending,     \* Framed.pending
  payload_left, skip_left,
  at,          \* where the client's loop is
  header,      \* the local of read_msg
  delivered    \* history: the messages handled, with the cells of their payload

readVars == <<arrived, taken, pending, payload_left, skip_left, at, header,
              delivered>>

HeaderLen == 2
BodyLen == 1
NoHeader == [body_len |-> 0, payload_len |-> 0]

\* The payloads a message declares (data_len and aux_len, argb_len, data_len),
\* in their order.
Payloads(kind) ==
  CASE kind = "VideoFrame" -> IF AuxLen = 0 THEN <<1>> ELSE <<1, AuxLen>>
    [] kind = "CursorShape" -> <<2>>
    [] kind = "Clipboard" -> <<1>>
    [] OTHER -> <<>>

PayloadLen(kind) ==
  LET lens == Payloads(kind)
  IN CASE Len(lens) = 0 -> 0
       [] Len(lens) = 1 -> lens[1]
       [] OTHER -> lens[1] + lens[2]

\* write_msg_with_payloads: header, body, payloads, all in order.
LenOf(kind) == HeaderLen + BodyLen + PayloadLen(kind)
CellsOf(m) == {<<m.n, i>> : i \in 1..LenOf(m.kind)}
CellsOfAll(packets) == UNION {CellsOf(m) : m \in packets}

\* One packet after another: how many cells are in front of packet n, and the
\* cell at a position.
Stream == CellsOfAll(received \cup cut)
Ahead(n) == Cardinality({c \in Stream : c[1] < n})
CellAt(p) == CHOOSE c \in Stream : Ahead(c[1]) + c[2] = p
KindAt(n) == (CHOOSE m \in received \cup cut : m.n = n).kind

StreamInit ==
  /\ Init
  /\ cut = {} /\ arrived = 0 /\ taken = 0 /\ pending = NoHeader
  /\ payload_left = 0 /\ skip_left = 0 /\ at = "idle" /\ header = NoHeader
  /\ delivered = <<>>

\* A step of the server.  A write that fails or is aborted has sent any part.
ServerStep ==
  /\ Next
  /\ cut' = IF writing # {} /\ writing' = {} /\ received' = received
              THEN writing ELSE cut
  /\ UNCHANGED readVars

(***************************************************************************)
(* The client's reader.                                                    *)
(***************************************************************************)

\* The writer is done, in the least of the states that leave this stream: one
\* that sent no other packet.
Reads ==
  /\ pc = "done" /\ queue = {} /\ report = "none" /\ reports = "none" /\ ~permit
  /\ Cardinality(received \cup cut) = sent /\ sent <= MaxRead

Buffered == arrived - taken

\* read_exact_bytes(k), once the buffer has the bytes.
Has(k) == Buffered >= k
Cells(k) == [i \in 1..k |-> CellAt(taken + i)]

\* The message whose payload its handler is reading.
Handling == delivered[Len(delivered)]

\* How many bytes the reader waits for.
Needs ==
  CASE at = "skip" -> IF skip_left > 0 THEN 1 ELSE 0
    [] at = "header" -> HeaderLen
    [] at = "body" -> header.body_len
    [] at = "payload" -> Head(Payloads(KindAt(Handling.n)))
    [] OTHER -> 0

\* The reader is at an await: the buffer lacks what it needs.
Blocked == Buffered < Needs

\* read_msg is called; payload the handler left is to be discarded.
Call ==
  /\ at = "idle"
  /\ skip_left' = skip_left + payload_left /\ payload_left' = 0
  /\ at' = "skip"
  /\ UNCHANGED <<arrived, taken, pending, header, delivered>>

\* read_buf returns at least one byte and at most all there are.
Fill ==
  /\ Blocked
  /\ arrived' \in (arrived + 1)..Cardinality(Stream)
  /\ UNCHANGED <<taken, pending, payload_left, skip_left, at, header, delivered>>

\* read_buf returns 0: everything written whole has come.
EndOfStream ==
  /\ Blocked /\ arrived >= Cardinality(CellsOfAll(received))
  /\ at' = "closed"
  /\ UNCHANGED <<arrived, taken, pending, payload_left, skip_left, header,
                 delivered>>

\* Another arm of select! is ready while read_msg waits: the future is
\* dropped with its locals.
Cancel ==
  /\ Blocked /\ at \in {"skip", "header", "body"}
  /\ at' = "idle" /\ header' = NoHeader
  /\ UNCHANGED <<arrived, taken, pending, payload_left, skip_left, delivered>>

\* One turn of discard_skipped.
Discard ==
  /\ at = "skip" /\ skip_left > 0 /\ Buffered > 0
  /\ LET n == IF Buffered < skip_left THEN Buffered ELSE skip_left
     IN taken' = taken + n /\ skip_left' = skip_left - n
  /\ UNCHANGED <<arrived, pending, payload_left, at, header, delivered>>

\* Nothing more to discard: the kept header, or the next one.
Resume ==
  /\ at = "skip" /\ skip_left = 0
  /\ header' = pending
  /\ at' = IF pending = NoHeader THEN "header" ELSE "body"
  /\ UNCHANGED <<arrived, taken, pending, payload_left, skip_left, delivered>>

\* Mutant: the header is kept in the future only.
StoredNever(h) == NoHeader

\* self.pending = Some(h)
Stored(h) == h

\* The lengths a header of this packet gives.
HeaderOf(n) == [body_len |-> BodyLen, payload_len |-> PayloadLen(KindAt(n))]

\* Bytes that are no header give lengths of no meaning.
ReadHeader ==
  /\ at = "header" /\ Has(HeaderLen)
  /\ LET n == Cells(1)[1][1]
         h == HeaderOf(n)
     IN IF Cells(HeaderLen) = <<<<n, 1>>, <<n, 2>>>>
          THEN header' = h /\ pending' = Stored(h) /\ at' = "body"
          ELSE at' = "error" /\ UNCHANGED <<header, pending>>
  /\ taken' = taken + HeaderLen
  /\ UNCHANGED <<arrived, payload_left, skip_left, delivered>>

\* The body: a message, an unknown one, or bytes that are none.
ReadBody ==
  /\ at = "body" /\ Has(header.body_len)
  /\ LET n == Cells(1)[1][1]
     IN IF Cells(1)[1][2] # HeaderLen + BodyLen
          THEN at' = "error" /\ UNCHANGED <<payload_left, skip_left, delivered>>
        ELSE IF KindAt(n) \in Unknown
          THEN /\ skip_left' = skip_left + header.payload_len
               /\ at' = "skip" /\ UNCHANGED <<payload_left, delivered>>
        ELSE /\ payload_left' = header.payload_len
             /\ delivered' = Append(delivered, [n |-> n, payload |-> <<>>])
             /\ at' = IF Payloads(KindAt(n)) = <<>> THEN "idle" ELSE "payload"
             /\ UNCHANGED skip_left
  /\ taken' = taken + header.body_len /\ pending' = NoHeader /\ header' = NoHeader
  /\ UNCHANGED arrived

\* The handler reads a payload the message declares: read_payload, awaited in
\* the handler, where nothing cancels it.  A message's second is the aux.
ReadPayload ==
  /\ at = "payload"
  /\ LET m == Handling
         lens == Payloads(KindAt(m.n))
         second == Len(m.payload) >= lens[1]
         k == IF second THEN lens[2] ELSE lens[1]
         got == m.payload \o Cells(k)
     IN /\ Has(k)
        /\ IF k > payload_left
             THEN at' = "error" /\ UNCHANGED <<taken, payload_left, delivered>>
             ELSE /\ taken' = taken + k /\ payload_left' = payload_left - k
                  /\ delivered' = [delivered EXCEPT
                                     ![Len(delivered)].payload = got]
                  /\ at' = IF second \/ Len(lens) = 1 THEN "idle" ELSE "payload"
  /\ UNCHANGED <<arrived, pending, skip_left, header>>

ReadStep == Call \/ Fill \/ EndOfStream \/ Cancel \/ Discard \/ Resume
              \/ ReadHeader \/ ReadBody \/ ReadPayload

ReaderStep == Reads /\ ReadStep /\ UNCHANGED vars /\ UNCHANGED cut

StreamNext == ServerStep \/ ReaderStep
streamVars == <<vars, cut, readVars>>

StreamSpec == StreamInit /\ [][StreamNext]_streamVars /\ Fairness

(***************************************************************************)
(* Properties.                                                             *)
(***************************************************************************)

\* The messages among packets that the client knows.
Known(packets) == {m.n : m \in {p \in packets : p.kind \notin Unknown}}

\* The payload that came with the packet, whole.
PayloadOf(n) ==
  [i \in 1..PayloadLen(KindAt(n)) |-> <<n, HeaderLen + BodyLen + i>>]

\* The messages handled to their end: a payload may be on its way.
Handled == IF payload_left > 0 THEN 1..(Len(delivered) - 1) ELSE 1..Len(delivered)

\* Wherever read_msg is dropped and whatever it skips, the reader stays in
\* step with the writer: the messages it knows are handled once, in order and
\* without a gap, each with its own payload, and at the end of the stream none
\* is missing.
StreamInSync ==
  /\ at # "error"
  /\ \A i, j \in 1..Len(delivered) : i < j => delivered[i].n < delivered[j].n
  /\ \A i \in 1..Len(delivered) :
       /\ delivered[i].n \in Known(received \cup cut)
       /\ \A n \in Known(received \cup cut) :
            n < delivered[i].n => \E j \in 1..Len(delivered) : delivered[j].n = n
  /\ \A i \in Handled : delivered[i].payload = PayloadOf(delivered[i].n)
  /\ at = "closed" =>
       \A n \in Known(received) : \E i \in Handled : delivered[i].n = n
=============================================================================

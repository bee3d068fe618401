------------------------- MODULE ClipboardTransfer -------------------------
(***************************************************************************)
(* The clipboard transfer engine both peers run: `Transfers` of crates/    *)
(* gliff-transport/src/clipboard/mod.rs with the window and the assembler  *)
(* of crates/gliff-proto/src/clipboard.rs, two engines back to back.       *)
(*                                                                         *)
(* Each engine and its tasks share one thread (tokio LocalSet), so a step  *)
(* is what runs between two awaits.  A fetch and a serve are futures that  *)
(* may be timed out, cancelled or aborted where they await.  Data is cut   *)
(* into chunks of one unit, numbered from 0; the final chunk is empty.     *)
(*                                                                         *)
(* out[s] is the outbound channel of side s with the stream behind it: the *)
(* owner forwards every message, in order, and the peer reads it.          *)
(***************************************************************************)
EXTENDS Naturals, Sequences

CONSTANTS
  Window,         \* WINDOW
  Cap,            \* cap given to fetch, in chunks
  OutCap,         \* bound: messages on the way from one side
  MaxChunks,      \* bound: length of a source
  ClientFetches,  \* bound: fetches of the client
  ServerFetches   \* bound: fetches of the server

ASSUME TransferAssumption ==
  /\ Window \in Nat \ {0} /\ Cap \in Nat /\ OutCap \in Nat \ {0}
  /\ MaxChunks \in Nat /\ ClientFetches \in Nat /\ ServerFetches \in Nat

Sides == {"client", "server"}
Peer(s) == IF s = "client" THEN "server" ELSE "client"

\* Mutant: both sides number their requests alike.
FirstIdShared(s) == 1

\* Transfers::new: the client's ids are odd, the server's even.
FirstId(s) == IF s = "client" THEN 1 ELSE 2

Parity(s) == IF s = "client" THEN 1 ELSE 0

Ids == 1..(2 * (ClientFetches + ServerFetches))

VARIABLES
  nextId,  \* Inner.next_id of each side
  fetch,   \* [side][id]: pc of the fetch; reg: it is in `incoming`; received
           \* and last: its Assembler (received, done); queue: `chunks`, its
           \* channel; now: the chunk in hand; sink: what the sink got
  serve,   \* [side][id]: pc of the serve; reg: it is in `outgoing`; offset
           \* and acked: its SendWindow; permit: `credit`; final: the chunk
           \* in hand is the last; eof: the source really ended
  later,   \* ids whose Abort a spawned task is still to send
  out      \* messages from each side to its peer

vars == <<nextId, fetch, serve, later, out>>

NoFetch == [pc |-> "none", reg |-> FALSE, received |-> 0, last |-> FALSE,
            queue |-> <<>>, now |-> 0, final |-> FALSE, sink |-> <<>>]
NoServe == [pc |-> "none", reg |-> FALSE, offset |-> 0, acked |-> 0,
            permit |-> FALSE, final |-> FALSE, eof |-> FALSE]

Init ==
  /\ nextId = [s \in Sides |-> FirstId(s)]
  /\ fetch = [s \in Sides |-> [i \in Ids |-> NoFetch]]
  /\ serve = [s \in Sides |-> [i \in Ids |-> NoServe]]
  /\ later = [s \in Sides |-> {}]
  /\ out = [s \in Sides |-> <<>>]

-----------------------------------------------------------------------------
\* Sending: out.send waits for room.

Post(s, m) ==
  /\ Len(out[s]) < OutCap
  /\ out' = [out EXCEPT ![s] = Append(@, m)]

Msg(type, i) == [type |-> type, id |-> i]

\* send_later: a task of its own sends the Abort.
AbortLater(s, i) == later' = [later EXCEPT ![s] = @ \cup {i}]

SendLater(s, i) ==
  /\ i \in later[s]
  /\ Post(s, Msg("abort", i))
  /\ later' = [later EXCEPT ![s] = @ \ {i}]
  /\ UNCHANGED <<nextId, fetch, serve>>

(***************************************************************************)
(* A fetch.                                                                *)
(***************************************************************************)

SetFetch(s, i, f) == fetch' = [fetch EXCEPT ![s][i] = f]

Allowed(s) == IF s = "client" THEN ClientFetches ELSE ServerFetches

\* fetch, up to the await of the request's send.
Fetch(s) ==
  LET i == nextId[s] IN
  /\ i < FirstId(s) + 2 * Allowed(s)
  /\ nextId' = [nextId EXCEPT ![s] = i + 2]
  /\ SetFetch(s, i, [NoFetch EXCEPT !.pc = "request", !.reg = TRUE])
  /\ UNCHANGED <<serve, later, out>>

SendRequest(s, i) ==
  /\ fetch[s][i].pc = "request"
  /\ Post(s, Msg("request", i))
  /\ SetFetch(s, i, [fetch[s][i] EXCEPT !.pc = "recv"])
  /\ UNCHANGED <<nextId, serve, later>>

\* rx.recv: a chunk, a failure, or the end of a channel whose sender is gone.
Receive(s, i) ==
  LET f == fetch[s][i] IN
  /\ f.pc = "recv" /\ (f.queue # <<>> \/ ~f.reg)
  /\ SetFetch(s, i,
       IF f.queue = <<>> THEN [f EXCEPT !.pc = "gone"]
       ELSE IF Head(f.queue).type = "fail"
         THEN [f EXCEPT !.pc = Head(f.queue).why, !.queue = <<>>]
         ELSE [f EXCEPT !.pc = "write", !.queue = Tail(@),
                        !.now = Head(f.queue).offset, !.final = Head(f.queue).final])
  /\ UNCHANGED <<nextId, serve, later, out>>

\* sink.write returns.
Write(s, i) ==
  LET f == fetch[s][i] IN
  /\ f.pc = "write"
  /\ SetFetch(s, i, IF f.final THEN [f EXCEPT !.pc = "finish"]
                    ELSE [f EXCEPT !.pc = "ack", !.sink = Append(@, f.now)])
  /\ UNCHANGED <<nextId, serve, later, out>>

SendAck(s, i) ==
  /\ fetch[s][i].pc = "ack"
  /\ Post(s, [type |-> "ack", id |-> i, received |-> Len(fetch[s][i].sink)])
  /\ SetFetch(s, i, [fetch[s][i] EXCEPT !.pc = "recv"])
  /\ UNCHANGED <<nextId, serve, later>>

Finish(s, i) ==
  /\ fetch[s][i].pc = "finish"
  /\ SetFetch(s, i, [fetch[s][i] EXCEPT !.pc = "ok", !.reg = FALSE])
  /\ UNCHANGED <<nextId, serve, later, out>>

\* The fetch ends early and FetchGuard::drop tells the peer, unless the
\* engine has removed the fetch itself.
GiveUp(s, i, why) ==
  /\ SetFetch(s, i, [fetch[s][i] EXCEPT !.pc = why, !.reg = FALSE, !.queue = <<>>])
  /\ IF fetch[s][i].reg THEN AbortLater(s, i) ELSE UNCHANGED later
  /\ UNCHANGED <<nextId, serve, out>>

\* IDLE_TIMEOUT covers the channel with nothing in it and the sink.
Idle(f) == f.pc = "write" \/ (f.pc = "recv" /\ f.queue = <<>> /\ f.reg)

FetchTimeout(s, i) == Idle(fetch[s][i]) /\ GiveUp(s, i, "timeout")

SinkFails(s, i) == fetch[s][i].pc \in {"write", "finish"} /\ GiveUp(s, i, "io")

\* The owner drops the future, wherever it awaits.
Cancel(s, i) ==
  /\ fetch[s][i].pc \in {"request", "recv", "write", "ack", "finish"}
  /\ GiveUp(s, i, "cancelled")

(***************************************************************************)
(* A serve.                                                                *)
(***************************************************************************)

SetServe(s, i, v) == serve' = [serve EXCEPT ![s][i] = v]

\* Mutant: one chunk too many in flight.
MaySendOneMore(v) == v.offset - v.acked <= Window

\* SendWindow::may_send.
MaySend(v) == v.offset - v.acked < Window

\* The top of serve_loop.
Loop(v) == [v EXCEPT !.pc = IF MaySend(v) THEN "read" ELSE "credit"]

\* Transfers::serve.
Started == Loop([NoServe EXCEPT !.reg = TRUE])

\* The file is open (open_source), whatever happened meanwhile.
Open(s, i) ==
  /\ serve[s][i].pc = "opening"
  /\ SetServe(s, i, Started)
  /\ UNCHANGED <<nextId, fetch, later, out>>

OpenFails(s, i) ==
  /\ serve[s][i].pc = "opening"
  /\ SetServe(s, i, [NoServe EXCEPT !.pc = "refused"])
  /\ AbortLater(s, i)
  /\ UNCHANGED <<nextId, fetch, out>>

\* credit.notified returns.
Wake(s, i) ==
  LET v == serve[s][i] IN
  /\ v.pc = "credit" /\ v.permit
  /\ SetServe(s, i, Loop([v EXCEPT !.permit = FALSE]))
  /\ UNCHANGED <<nextId, fetch, later, out>>

Failed(v) == [v EXCEPT !.pc = "abort", !.reg = FALSE]

\* Mutant: a source that fails has ended.
AfterReadErrorQuiet(v) == [v EXCEPT !.pc = "send", !.final = TRUE]

\* An error leaves serve_loop.
AfterReadError(v) == Failed(v)

\* source.next: another chunk, the end, or an error.
Read(s, i) ==
  LET v == serve[s][i] IN
  /\ v.pc = "read"
  /\ \/ /\ v.offset < MaxChunks
        /\ SetServe(s, i, [v EXCEPT !.pc = "send"])
     \/ SetServe(s, i, [v EXCEPT !.pc = "send", !.final = TRUE, !.eof = TRUE])
     \/ SetServe(s, i, AfterReadError(v))
  /\ UNCHANGED <<nextId, fetch, later, out>>

\* out.send of the chunk, then on_sent.
SendData(s, i) ==
  LET v == serve[s][i] IN
  /\ v.pc = "send"
  /\ Post(s, [type |-> "data", id |-> i, offset |-> v.offset, final |-> v.final])
  /\ SetServe(s, i, IF v.final THEN [v EXCEPT !.pc = "done", !.reg = FALSE]
                    ELSE Loop([v EXCEPT !.offset = @ + 1]))
  /\ UNCHANGED <<nextId, fetch, later>>

\* Mutant: only the source is timed.
WaitsSource(v) == v.pc = "read"

\* IDLE_TIMEOUT covers the wait for credit and for the source.
Waits(v) == v.pc = "read" \/ (v.pc = "credit" /\ ~v.permit)

ServeTimeout(s, i) ==
  /\ Waits(serve[s][i])
  /\ SetServe(s, i, Failed(serve[s][i]))
  /\ UNCHANGED <<nextId, fetch, later, out>>

\* A failed serve that was still registered tells the peer.
SendAbort(s, i) ==
  /\ serve[s][i].pc = "abort"
  /\ Post(s, Msg("abort", i))
  /\ SetServe(s, i, [serve[s][i] EXCEPT !.pc = "failed"])
  /\ UNCHANGED <<nextId, fetch, later>>

(***************************************************************************)
(* on_msg: side s takes the next message of its peer.                      *)
(***************************************************************************)

Take(s, type) ==
  /\ out[Peer(s)] # <<>> /\ Head(out[Peer(s)]).type = type
  /\ out' = [out EXCEPT ![Peer(s)] = Tail(@)]
  /\ UNCHANGED nextId

\* Request: refused for its parity, for a replaced offer or an unknown item;
\* served at once (a pipe) or once the file is open.
OnRequest(s) ==
  /\ Take(s, "request")
  /\ LET i == Head(out[Peer(s)]).id IN
       \/ /\ i % 2 # Parity(s)
          /\ \/ SetServe(s, i, Started)
             \/ SetServe(s, i, [NoServe EXCEPT !.pc = "opening"])
          /\ UNCHANGED later
       \/ /\ SetServe(s, i, IF i % 2 = Parity(s) THEN serve[s][i]
                            ELSE [NoServe EXCEPT !.pc = "refused"])
          /\ AbortLater(s, i)
  /\ UNCHANGED fetch

\* The channel of a fetch has room for a window, one more chunk and a failure.
Push(f, e) ==
  [f EXCEPT !.queue = IF Len(@) < Window + 2 THEN Append(@, e) ELSE @]

Fail(why) == [type |-> "fail", why |-> why]

\* Assembler::accept.
Accepts(f, m) ==
  /\ ~f.last /\ m.offset = f.received
  /\ m.final \/ f.received < Cap

\* Data, for a fetch that is still registered; one the queue has no room for
\* is a protocol error like any other.
OnData(s) ==
  /\ Take(s, "data")
  /\ LET m == Head(out[Peer(s)])
         f == fetch[s][m.id]
     IN IF ~f.reg THEN UNCHANGED <<fetch, later>>
        ELSE IF Accepts(f, m) /\ Len(f.queue) < Window + 2
          THEN /\ SetFetch(s, m.id,
                    Push([f EXCEPT !.received = IF m.final THEN @ ELSE @ + 1,
                                   !.last = m.final], m))
               /\ UNCHANGED later
          ELSE /\ SetFetch(s, m.id, Push([f EXCEPT !.reg = FALSE], Fail("protocol")))
               /\ AbortLater(s, m.id)
  /\ UNCHANGED serve

\* Mutant: an ack wakes nobody.
CreditSilently(v, n) == [v EXCEPT !.acked = IF n > @ THEN n ELSE @]

\* SendWindow::on_ack, then the notification.
Credit(v, n) == [v EXCEPT !.acked = IF n > @ THEN n ELSE @, !.permit = TRUE]

\* Ack: more than was sent ends the serve.
OnAck(s) ==
  /\ Take(s, "ack")
  /\ LET m == Head(out[Peer(s)])
         v == serve[s][m.id]
     IN IF v.reg /\ m.received > v.offset
          THEN /\ SetServe(s, m.id, [v EXCEPT !.pc = "aborted", !.reg = FALSE])
               /\ AbortLater(s, m.id)
          ELSE /\ SetServe(s, m.id, IF v.reg THEN Credit(v, m.received) ELSE v)
               /\ UNCHANGED later
  /\ UNCHANGED fetch

\* Abort ends what has this id, in either direction.
OnAbort(s) ==
  /\ Take(s, "abort")
  /\ LET i == Head(out[Peer(s)]).id
         f == fetch[s][i]
         v == serve[s][i]
     IN /\ SetServe(s, i, IF v.reg THEN [v EXCEPT !.pc = "aborted", !.reg = FALSE] ELSE v)
        /\ SetFetch(s, i, IF f.reg THEN Push([f EXCEPT !.reg = FALSE], Fail("aborted")) ELSE f)
  /\ UNCHANGED later

-----------------------------------------------------------------------------

Deliver(s) == OnRequest(s) \/ OnData(s) \/ OnAck(s) \/ OnAbort(s)

\* The steps the engine takes by itself.
Engine(s, i) ==
  \/ SendLater(s, i) \/ SendRequest(s, i) \/ Receive(s, i) \/ SendAck(s, i)
  \/ Wake(s, i) \/ SendData(s, i) \/ SendAbort(s, i)

\* The steps that wait for a file, an application or a disk.
Local(s, i) == Write(s, i) \/ Finish(s, i) \/ Open(s, i) \/ Read(s, i)

Timer(s, i) == FetchTimeout(s, i) \/ ServeTimeout(s, i)

Step(s, i) == \/ Engine(s, i) \/ Local(s, i) \/ Timer(s, i)
              \/ SinkFails(s, i) \/ Cancel(s, i) \/ OpenFails(s, i)

Next == \E s \in Sides : \/ Fetch(s) \/ Deliver(s)
                         \/ \E i \in Ids : Step(s, i)

Safety == Init /\ [][Next]_vars

\* Messages are forwarded and delivered, ready tasks run, files are opened and
\* closed in time, and timers fire.  An application may hang for ever in a read
\* or a write.  One weak fairness is enough, because no step can be repeated for
\* ever: every one of them gets a fetch, a serve or a message further.
Goes(s, i) == Engine(s, i) \/ Timer(s, i) \/ Finish(s, i) \/ Open(s, i)

Spec == Safety /\ WF_vars(\E s \in Sides : Deliver(s) \/ \E i \in Ids : Goes(s, i))

(***************************************************************************)
(* Properties.                                                             *)
(***************************************************************************)

Results == {"ok", "aborted", "protocol", "timeout", "io", "cancelled", "gone"}

\* A fetch's channel never fills up: however slow the sink, the window keeps
\* the sender back, so that a notice of failure always fits.
NoticeFits ==
  \A s \in Sides, i \in Ids : Len(fetch[s][i].queue) < Window + 2

\* A fetch that succeeds has the whole item, in order and within the cap; the
\* source was read to its end.
WholeInOrder ==
  \A s \in Sides, i \in Ids :
    LET f == fetch[s][i]
        v == serve[Peer(s)][i]
    IN f.pc = "ok" => /\ v.pc = "done" /\ v.eof
                      /\ Len(f.sink) = v.offset /\ Len(f.sink) <= Cap
                      /\ \A n \in 1..Len(f.sink) : f.sink[n] = n - 1

\* "An `Abort` is unambiguous": a transfer is aborted only when its own other
\* end has given up, whatever runs in the opposite direction.
AbortsMeetTheirTransfer ==
  \A s \in Sides, i \in Ids :
    LET f == fetch[s][i]
        v == serve[Peer(s)][i]
    IN /\ f.pc = "aborted" => v.pc \in {"refused", "failed"}
       /\ v.pc = "aborted" => ~f.reg /\ f.pc \notin {"ok", "aborted"}

OnTheWay(s, i) == \E k \in DOMAIN out[s] : out[s][k].id = i

\* A fetch that waits for a chunk waits for somebody who can act: its request,
\* its ack, a chunk or an Abort is on its way, or the serve is not waiting
\* itself.  No timer is needed to get a transfer to its end.
NobodyWaitsForNobody ==
  \A s \in Sides, i \in Ids :
    LET f == fetch[s][i]
        v == serve[Peer(s)][i]
    IN f.pc = "recv" /\ f.reg /\ f.queue = <<>> =>
         \/ OnTheWay(s, i) \/ OnTheWay(Peer(s), i) \/ i \in later[Peer(s)]
         \/ v.pc \in {"opening", "read", "send", "abort"}
         \/ v.pc = "credit" /\ v.permit

\* Every fetch ends, one way or another, and nothing stays in the engine's
\* tables, not even a serve that began after its fetch was given up.
TransfersEnd ==
  <>[](\A s \in Sides, i \in Ids : /\ fetch[s][i].pc \in Results \cup {"none"}
                                    /\ ~serve[s][i].reg)
=============================================================================

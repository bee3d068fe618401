----------------------------- MODULE WriterTask -----------------------------
(***************************************************************************)
(* The server's writer: `Writer` and its task, crates/gliff-server/src/    *)
(* writer.rs, with the session loop that calls `send`, takes the write     *)
(* reports and ends the session on a failed one (session.rs).              *)
(*                                                                         *)
(* The session and the task run on one thread (tokio LocalSet), so a step  *)
(* is what runs between two awaits.  The task awaits in three places: the  *)
(* notification, the socket write and the report channel of capacity 1.    *)
(***************************************************************************)
EXTENDS PacketQueue

CONSTANT MaxSent   \* bound: the calls of `send` the session makes

ASSUME MaxSentAssumption == MaxSent \in Nat

VARIABLES
  queue,      \* Queue.packets
  sent,       \* calls of `send` so far; the n of the newest packet
  config,     \* n of the last StreamConfig sent; 0 is the handshake's own
  shape,      \* n of the last CursorShape sent (cursor_shape_id); 0: none
  pc,         \* where the task is
  writing,    \* the packet being written, as a set of at most one
  permit,     \* the Notify holds a permit
  report,     \* the report the task has to deliver
  reports,    \* the report channel, capacity 1
  received,   \* history: the packets written whole, what the client reads
  clips,      \* history: n of every clipboard message sent
  session     \* "open" until the session ends and drops the Writer

vars == <<queue, sent, config, shape, pc, writing, permit, report, reports,
          received, clips, session>>

\* ref names what the packet depends on: a frame the config it was encoded
\* under, a cursor position the shape it is for.
Packet == [n : Nat, kind : Kinds, ref : Nat]

Init ==
  /\ queue = {} /\ sent = 0 /\ config = 0 /\ shape = 0
  /\ pc = "pop" /\ writing = {} /\ permit = FALSE
  /\ report = "none" /\ reports = "none"
  /\ received = {} /\ clips = {} /\ session = "open"

(***************************************************************************)
(* The session's side.                                                     *)
(***************************************************************************)

\* Mutant: the task is woken only when packets were queued already.
NotifyLate == permit' = (permit \/ queue # {})

\* notify_one: the permit is kept until the task takes it.
Notify == permit' = TRUE

\* Writer::send: push, then notify.
Send(kind, ref) ==
  /\ session = "open" /\ sent < MaxSent
  /\ queue' = Push(queue, [n |-> sent + 1, kind |-> kind, ref |-> ref])
  /\ sent' = sent + 1
  /\ Notify
  /\ UNCHANGED <<pc, writing, report, reports, received, session>>

\* encode_and_send, which pump_encoder calls only when video_ready().
SendFrame ==
  /\ VideoReady(queue)
  /\ Send("VideoFrame", config)
  /\ UNCHANGED <<config, shape, clips>>

\* send_config.
SendConfig ==
  /\ Send("StreamConfig", 0)
  /\ config' = sent + 1
  /\ UNCHANGED <<shape, clips>>

\* on_capture, the cursor's picture.
SendShape ==
  /\ Send("CursorShape", 0)
  /\ shape' = sent + 1
  /\ UNCHANGED <<config, clips>>

\* on_capture, the cursor's position.
SendPos ==
  /\ Send("CursorPos", shape)
  /\ UNCHANGED <<config, shape, clips>>

\* on_client_msg, the answer to a Ping.
SendPong ==
  /\ Send("Pong", 0)
  /\ UNCHANGED <<config, shape, clips>>

\* The arm of the session loop that forwards the transfer engine's messages.
SendClipboard ==
  /\ Send("Clipboard", 0)
  /\ clips' = clips \cup {sent + 1}
  /\ UNCHANGED <<config, shape>>

\* The session ends: Writer::drop aborts the task wherever it waits.
EndSession ==
  /\ session' = "closed" /\ pc' = "done" /\ writing' = {}
  /\ UNCHANGED <<queue, sent, config, shape, permit, report, reports,
                 received, clips>>

\* The session loop takes a report; an Err ends the session.
TakeReport ==
  /\ session = "open" /\ reports # "none"
  /\ reports' = "none"
  /\ IF reports = "err"
       THEN session' = "closed" /\ pc' = "done" /\ writing' = {}
       ELSE UNCHANGED <<session, pc, writing>>
  /\ UNCHANGED <<queue, sent, config, shape, permit, report, received, clips>>

\* Bye, a lost capture, an encoder error: any other end of the session.
Close == session = "open" /\ EndSession

(***************************************************************************)
(* The task.                                                               *)
(***************************************************************************)

\* pop_front returns a packet and the write starts.
Pop ==
  /\ pc = "pop"
  /\ \E m \in queue : /\ IsFront(m, queue)
                      /\ queue' = queue \ {m}
                      /\ writing' = {m}
  /\ pc' = "write"
  /\ UNCHANGED <<sent, config, shape, permit, report, reports, received,
                 clips, session>>

\* pop_front returns nothing: await the notification.
Idle ==
  /\ pc = "pop" /\ queue = {}
  /\ pc' = "wait"
  /\ UNCHANGED <<queue, sent, config, shape, writing, permit, report,
                 reports, received, clips, session>>

Wake ==
  /\ pc = "wait" /\ permit
  /\ permit' = FALSE /\ pc' = "pop"
  /\ UNCHANGED <<queue, sent, config, shape, writing, report, reports,
                 received, clips, session>>

\* write_msg_with_payloads returns: the packet is out, or the socket is gone.
WriteDone(result) ==
  /\ pc = "write"
  /\ received' = IF result = "ok" THEN received \cup writing ELSE received
  /\ writing' = {} /\ report' = result /\ pc' = "report"
  /\ UNCHANGED <<queue, sent, config, shape, permit, reports, clips, session>>

\* report_tx.send, which waits while the channel is full; then the loop goes
\* on, or ends after a failed write.
SendReport ==
  /\ pc = "report" /\ reports = "none"
  /\ reports' = report /\ report' = "none"
  /\ pc' = IF report = "err" THEN "done" ELSE "pop"
  /\ UNCHANGED <<queue, sent, config, shape, writing, permit, received,
                 clips, session>>

SessionStep == SendFrame \/ SendConfig \/ SendShape \/ SendPos \/ SendPong
                 \/ SendClipboard \/ TakeReport \/ Close
TaskStep == Pop \/ Idle \/ Wake \/ SendReport
              \/ \E result \in {"ok", "err"} : WriteDone(result)

Next == SessionStep \/ TaskStep

\* The runtime polls a ready task and a ready select arm; a write ends while
\* the client reads or the connection fails.
Fairness == WF_vars(TaskStep) /\ WF_vars(TakeReport)

Spec == Init /\ [][Next]_vars /\ Fairness

(***************************************************************************)
(* Properties.                                                             *)
(***************************************************************************)

TypeOK ==
  /\ queue \in SUBSET Packet /\ writing \in SUBSET Packet
  /\ received \in SUBSET Packet
  /\ sent \in Nat /\ config \in Nat /\ shape \in Nat
  /\ clips \in SUBSET Nat
  /\ pc \in {"pop", "wait", "write", "report", "done"}
  /\ permit \in BOOLEAN
  /\ report \in {"none", "ok", "err"} /\ reports \in {"none", "ok", "err"}
  /\ session \in {"open", "closed"}

\* Every packet not superseded: on the wire, being written, or queued.
Live == received \cup writing \cup queue

\* "The session encodes at most one frame ahead of the writer", and the
\* comment on Queue, "bounded by coalescing": of every kind but the
\* clipboard's one packet is queued, of configs two when a frame is between.
QueueBounded ==
  \A a, b \in queue : a.kind = b.kind /\ a.n < b.n =>
    \/ a.kind = "Clipboard"
    \/ /\ a.kind = "StreamConfig"
       /\ \E v \in Of(queue, "VideoFrame") : a.n < v.n /\ v.n < b.n

\* The client decodes every frame under the config it was encoded for: that
\* config reached it before the frame, and no later one did.
FrameUnderItsConfig ==
  \A v \in Of(received, "VideoFrame") :
    /\ v.ref = 0 \/ \E c \in Of(received, "StreamConfig") : c.n = v.ref
    /\ \A c \in Of(received, "StreamConfig") : c.n <= v.ref \/ v.n < c.n

\* A cursor position never reaches the client ahead of, or without, the
\* shape it names.
PosAfterItsShape ==
  \A p \in Of(received, "CursorPos") :
    p.ref = 0 \/ \E s \in Of(received, "CursorShape") :
                   s.n = p.ref /\ s.n < p.n

\* Clipboard messages are ordered and reliable: while the session lives each
\* one is on the wire, being written or queued, and a later one is never on
\* the wire while an earlier one is not.
ClipboardReliable ==
  /\ pc # "done" /\ report # "err" =>
       {m.n : m \in Of(Live, "Clipboard")} = clips
  /\ \A m \in Of(received, "Clipboard"), i \in clips :
       i < m.n => \E o \in Of(received, "Clipboard") : o.n = i

\* No lost wake-up: a task that waits with no permit has nothing to write.
NoLostWakeup == pc = "wait" /\ ~permit => queue = {}

\* Whatever is queued leaves the queue: it is written or superseded, unless
\* the session ends.
QueueDrains ==
  \A i \in 1..MaxSent :
    (\E m \in queue : m.n = i) ~> (pc = "done" \/ \A m \in queue : m.n # i)
=============================================================================

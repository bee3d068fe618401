-------------------------- MODULE ServerThreadsProofs --------------------------
(* The safety of the two threads beside the server's session loop, for any     *)
(* number of messages, any ring and any consumer.                              *)
(*   WriterTask, and the stream its client reads: IInv is the writer's         *)
(* inductive invariant: the packets on the wire, the one being written and the *)
(* queued ones are in the order of their sends, and what a packet depends on   *)
(* is never superseded while the packet itself is still to come.  StreamInv is *)
(* the reader's: it is at one of three places of one packet, and the messages  *)
(* handled are those in front of it.                                           *)
(*   CaptureThread, after them: CaptureInv is its inductive invariant: every   *)
(* frame of the current generation that is alive, and every release of one,    *)
(* owns a slot of its own, which is busy; the capture in flight has a slot     *)
(* that is not.                                                                *)
EXTENDS CaptureThread, PacketStream, FiniteSetTheorems, SequenceTheorems, TLAPS

\* The task can still put packets on the wire.
Running == pc # "done" /\ report # "err"

\* First in, first out.
Fifo ==
  /\ \A m \in Live : m.n \in 1..sent
  /\ \A a, b \in Live : a.n = b.n => a = b
  /\ \A r \in received, m \in writing \cup queue : r.n < m.n
  /\ \A w \in writing, m \in queue : w.n < m.n

ConfigsInOrder ==
  /\ config \in 0..sent
  /\ \A c \in Of(Live, "StreamConfig") : c.n <= config
  /\ Running => config = 0
                  \/ \E c \in Of(Live, "StreamConfig") : c.n = config

FrameAfterConfig(v) ==
  /\ v.ref < v.n
  /\ v.ref = 0 \/ \E c \in Of(Live, "StreamConfig") : c.n = v.ref
  /\ \A c \in Of(Live, "StreamConfig") : c.n <= v.ref \/ v.n < c.n

PosAfterShape(p) ==
  p.ref = 0 \/ \E s \in Of(Live, "CursorShape") : s.n = p.ref /\ s.n < p.n

Dependencies ==
  /\ shape \in 0..sent
  /\ Running => shape = 0 \/ \E s \in Of(Live, "CursorShape") : s.n = shape
  /\ Running => \A v \in Of(Live, "VideoFrame") : FrameAfterConfig(v)
  /\ Running => \A p \in Of(Live, "CursorPos") : PosAfterShape(p)

Clips == \A i \in clips : i \in 1..sent

\* A packet is only held during its write, a result only until its report.
Task == /\ writing # {} => pc = "write"
        /\ pc \in {"pop", "wait", "write"} => report = "none"

IInv ==
  /\ TypeOK /\ Fifo /\ ConfigsInOrder /\ Dependencies /\ Clips /\ Task
  /\ QueueBounded /\ FrameUnderItsConfig /\ PosAfterItsShape
  /\ ClipboardReliable /\ NoLostWakeup

-----------------------------------------------------------------------------

LEMMA InitIInv == Init => IInv
  <1> SUFFICES ASSUME Init PROVE IInv
    OBVIOUS
  <1>1. TypeOK
    BY DEF Init, TypeOK
  <1>2. Live = {}
    BY DEF Init, Live
  <1>3. Fifo /\ ConfigsInOrder /\ Dependencies
    BY <1>2 DEF Init, Fifo, ConfigsInOrder, Dependencies, Of
  <1>4. Clips /\ Task /\ NoLostWakeup
    BY DEF Init, Clips, Task, NoLostWakeup
  <1>5. QueueBounded /\ FrameUnderItsConfig /\ PosAfterItsShape
    BY DEF Init, QueueBounded, FrameUnderItsConfig, PosAfterItsShape, Of
  <1>6. ClipboardReliable
    BY <1>2 DEF Init, ClipboardReliable, Of
  <1> QED BY <1>1, <1>3, <1>4, <1>5, <1>6 DEF IInv

\* What a send of any kind does: the new packet comes last, and only queued
\* packets are superseded.
LEMMA SendFacts ==
  ASSUME IInv, NEW kind \in Kinds, NEW ref \in Nat, Send(kind, ref),
         kind = "VideoFrame" => VideoReady(queue),
         NEW new, new = [n |-> sent + 1, kind |-> kind, ref |-> ref]
  PROVE  /\ new \in Packet /\ new.n = sent + 1 /\ new.kind = kind /\ new.ref = ref
         /\ Superseded(queue, kind) \subseteq queue
         /\ Live' = (Live \ Superseded(queue, kind)) \cup {new}
         /\ queue' \in SUBSET Packet /\ sent' = sent + 1
         /\ Fifo' /\ QueueBounded'
         /\ Task' /\ NoLostWakeup'
         /\ FrameUnderItsConfig' /\ PosAfterItsShape'
         /\ Running' <=> Running
  <1>1. new \in Packet /\ new.n = sent + 1 /\ new.kind = kind /\ new.ref = ref
    BY DEF Packet, IInv, TypeOK
  <1>2. Superseded(queue, kind) \subseteq queue
    BY DEF Superseded, Of
  <1>3. queue' = (queue \ Superseded(queue, kind)) \cup {new}
    BY <1>1 DEF Send, Notify, Push
  <1>4. /\ received' = received /\ writing' = writing /\ sent' = sent + 1
        /\ pc' = pc /\ report' = report
    BY DEF Send, Notify
  <1>5. \A m \in received \cup writing : m \notin Superseded(queue, kind)
    BY <1>2 DEF IInv, Fifo, TypeOK, Packet
  <1>6. Live' = (Live \ Superseded(queue, kind)) \cup {new}
    BY <1>3, <1>4, <1>5 DEF Live
  <1>7. queue' \in SUBSET Packet
    BY <1>1, <1>3 DEF IInv, TypeOK
  <1>8. Fifo'
    BY <1>1, <1>3, <1>4, <1>6 DEF IInv, Fifo, TypeOK, Live
  <1>9. QueueBounded'
    <2> SUFFICES ASSUME NEW a \in queue', NEW b \in queue', a.kind = b.kind,
                        a.n < b.n, a.kind # "Clipboard"
                 PROVE  /\ a.kind = "StreamConfig"
                        /\ \E v \in Of(queue', "VideoFrame") : a.n < v.n /\ v.n < b.n
      BY DEF QueueBounded, Of
    <2>1. a \in queue /\ a \notin Superseded(queue, kind)
      BY <1>1, <1>3, <1>7 DEF IInv, Fifo, Live, TypeOK, Packet
    <2>2. \A v \in Of(queue, "VideoFrame") : v \in Of(queue', "VideoFrame")
      BY <1>3 DEF Superseded, Of, Kinds
    <2>3. CASE b = new
      <3>1. a \in Of(queue, kind)
        BY <2>1, <2>3, <1>1 DEF Of
      <3>2. kind = "StreamConfig"
        BY <2>1, <3>1, <1>1, <2>3 DEF Superseded, Of, VideoReady, Kinds
      <3>3. PICK v \in Of(queue, "VideoFrame") : ~(v.n < a.n)
        BY <2>1, <3>1, <3>2 DEF Superseded
      <3>4. v \in Live /\ a \in Live /\ v \in Packet /\ a \in Packet /\ v # a
        BY <3>1, <3>2, <3>3 DEF Live, Of, IInv, TypeOK
      <3>5. a.n < v.n /\ v.n < b.n
        BY <3>3, <3>4, <2>3, <1>1 DEF IInv, Fifo, TypeOK, Packet
      <3> QED BY <3>1, <3>2, <3>3, <3>5, <2>2 DEF Of
    <2>4. CASE b # new
      <3>1. b \in queue
        BY <2>4, <1>3
      <3>2. /\ a.kind = "StreamConfig"
            /\ \E v \in Of(queue, "VideoFrame") : a.n < v.n /\ v.n < b.n
        BY <2>1, <3>1 DEF IInv, QueueBounded
      <3> QED BY <3>2, <2>2
    <2> QED BY <2>3, <2>4
  <1>10. Task' /\ NoLostWakeup' /\ (Running' <=> Running)
    BY <1>4 DEF IInv, Task, NoLostWakeup, Running, Send, Notify
  <1>11. FrameUnderItsConfig' /\ PosAfterItsShape'
    BY <1>4 DEF IInv, FrameUnderItsConfig, PosAfterItsShape, Of
  <1> QED BY <1>1, <1>2, <1>4, <1>6, <1>7, <1>8, <1>9, <1>10, <1>11

\* A queued packet keeps what it depends on, whatever is sent after it.
LEMMA SendKeepsDependencies ==
  ASSUME IInv, NEW kind \in Kinds, NEW ref \in Nat, Send(kind, ref),
         kind = "VideoFrame" => VideoReady(queue), Running
  PROVE  /\ \A v \in Of(Live, "VideoFrame") : FrameAfterConfig(v)'
         /\ \A p \in Of(Live, "CursorPos") \ Superseded(queue, kind) :
              PosAfterShape(p)'
  <1> DEFINE new == [n |-> sent + 1, kind |-> kind, ref |-> ref]
             gone == Superseded(queue, kind)
  <1>1. /\ new \in Packet /\ new.n = sent + 1 /\ new.kind = kind
        /\ gone \subseteq queue
        /\ Live' = (Live \ gone) \cup {new}
    BY SendFacts
  <1> HIDE DEF new, gone
  <1>2. Live \subseteq Packet
    BY DEF IInv, TypeOK, Live
  <1>3. ASSUME NEW v \in Of(Live, "VideoFrame")
        PROVE  FrameAfterConfig(v)'
    <2>1. /\ FrameAfterConfig(v) /\ v \in Live /\ v.kind = "VideoFrame"
          /\ v.n \in 1..sent
      BY <1>3 DEF IInv, Dependencies, Fifo, Of
    <2>2. ASSUME NEW c \in Of(Live, "StreamConfig"), c.n = v.ref
          PROVE  c \notin gone
      <3>1. SUFFICES ASSUME c \in gone PROVE FALSE
        OBVIOUS
      <3>2. c \in queue /\ c.n < v.n
        BY <3>1, <2>1, <2>2, <1>1 DEF FrameAfterConfig
      <3>3. v \in queue
        BY <3>2, <2>1, <1>2 DEF IInv, Fifo, TypeOK, Live, Packet
      <3>4. kind = "StreamConfig"
        BY <3>1 DEF gone, Superseded, Of, Kinds
      <3>5. v.n < c.n
        BY <3>1, <3>3, <3>4, <2>1 DEF gone, Superseded, Of
      <3> QED BY <3>2, <3>5, <2>1, <1>2 DEF Packet, Of
    <2>3. v.ref = 0 \/ \E c \in Of(Live', "StreamConfig") : c.n = v.ref
      BY <2>1, <2>2, <1>1 DEF FrameAfterConfig, Of
    <2>4. \A c \in Of(Live', "StreamConfig") : c.n <= v.ref \/ v.n < c.n
      BY <2>1, <1>1, <1>2 DEF FrameAfterConfig, Of, Packet, IInv, TypeOK
    <2> QED BY <2>1, <2>3, <2>4 DEF FrameAfterConfig
  <1>4. ASSUME NEW p \in Of(Live, "CursorPos"), p \notin gone
        PROVE  PosAfterShape(p)'
    <2>1. /\ PosAfterShape(p) /\ p \in Live /\ p.kind = "CursorPos"
          /\ p.n \in 1..sent
      BY <1>4 DEF IInv, Dependencies, Fifo, Of
    <2>2. ASSUME NEW c \in Of(Live, "CursorShape"), c.n < p.n
          PROVE  c \notin gone
      <3>1. SUFFICES ASSUME c \in gone PROVE FALSE
        OBVIOUS
      <3>2. p \in queue
        BY <3>1, <2>1, <2>2, <1>1, <1>2 DEF IInv, Fifo, TypeOK, Live, Packet
      <3>3. kind = "CursorShape"
        BY <3>1, <2>2 DEF gone, Superseded, Of, Kinds
      <3> QED BY <3>2, <3>3, <2>1, <1>4 DEF gone, Superseded, Of
    <2> QED BY <2>1, <2>2, <1>1 DEF PosAfterShape, Of
  <1> QED BY <1>3, <1>4 DEF gone

LEMMA SendFrameIInv == IInv /\ SendFrame => IInv'
  <1> SUFFICES ASSUME IInv, SendFrame PROVE IInv'
    OBVIOUS
  <1>0. PICK new : new = [n |-> sent + 1, kind |-> "VideoFrame", ref |-> config]
    OBVIOUS
  <1>1. /\ Send("VideoFrame", config) /\ VideoReady(queue)
        /\ UNCHANGED <<config, shape, clips>> /\ config \in Nat
        /\ "VideoFrame" \in Kinds /\ Superseded(queue, "VideoFrame") = {}
    BY DEF SendFrame, IInv, TypeOK, Kinds, Superseded
  <1>2. /\ new \in Packet /\ new.n = sent + 1 /\ new.kind = "VideoFrame"
        /\ new.ref = config /\ Live' = Live \cup {new}
        /\ queue' \in SUBSET Packet /\ sent' = sent + 1 /\ Fifo'
        /\ QueueBounded' /\ Task' /\ NoLostWakeup' /\ FrameUnderItsConfig'
        /\ PosAfterItsShape' /\ (Running' <=> Running)
    BY <1>0, <1>1, SendFacts
  <1>3. TypeOK'
    BY <1>1, <1>2 DEF IInv, TypeOK, Send, Notify
  <1>4. ConfigsInOrder' /\ Clips'
    BY <1>1, <1>2 DEF IInv, TypeOK, ConfigsInOrder, Clips, Of
  <1>5. Running => FrameAfterConfig(new)'
    BY <1>1, <1>2 DEF IInv, TypeOK, ConfigsInOrder, FrameAfterConfig, Of
  <1>6. Dependencies'
    <2>1. /\ Of(Live', "VideoFrame") = Of(Live, "VideoFrame") \cup {new}
          /\ Of(Live', "CursorPos") = Of(Live, "CursorPos")
          /\ Of(Live', "CursorShape") = Of(Live, "CursorShape")
      BY <1>2 DEF Of
    <2>2. Running => /\ \A v \in Of(Live, "VideoFrame") : FrameAfterConfig(v)'
                     /\ \A p \in Of(Live, "CursorPos") : PosAfterShape(p)'
      BY <1>1, SendKeepsDependencies
    <2>3. Running => /\ \A v \in Of(Live', "VideoFrame") : FrameAfterConfig(v)'
                     /\ \A p \in Of(Live', "CursorPos") : PosAfterShape(p)'
      BY <1>5, <2>1, <2>2
    <2>4. shape' \in 0..sent' /\ shape' = shape
      BY <1>1, <1>2 DEF IInv, TypeOK, Dependencies
    <2>5. Running => shape = 0 \/ \E s \in Of(Live', "CursorShape") : s.n = shape
      BY <2>1 DEF IInv, Dependencies
    <2> QED BY <1>2, <2>3, <2>4, <2>5 DEF Dependencies
  <1>7. ClipboardReliable'
    BY <1>1, <1>2 DEF IInv, Running, ClipboardReliable, Send, Notify, Of
  <1> QED BY <1>2, <1>3, <1>4, <1>6, <1>7 DEF IInv

LEMMA SendConfigIInv == IInv /\ SendConfig => IInv'
  <1> SUFFICES ASSUME IInv, SendConfig PROVE IInv'
    OBVIOUS
  <1>0. PICK new : new = [n |-> sent + 1, kind |-> "StreamConfig", ref |-> 0]
    OBVIOUS
  <1> DEFINE gone == Superseded(queue, "StreamConfig")
  <1>1. /\ Send("StreamConfig", 0) /\ config' = sent + 1
        /\ UNCHANGED <<shape, clips>>
        /\ "StreamConfig" \in Kinds /\ gone \subseteq Of(queue, "StreamConfig")
    BY DEF SendConfig, Kinds, Superseded, Of
  <1>2. /\ new \in Packet /\ new.n = sent + 1 /\ new.kind = "StreamConfig"
        /\ Live' = (Live \ gone) \cup {new}
        /\ queue' \in SUBSET Packet /\ sent' = sent + 1 /\ Fifo'
        /\ QueueBounded' /\ Task' /\ NoLostWakeup' /\ FrameUnderItsConfig'
        /\ PosAfterItsShape' /\ (Running' <=> Running)
    BY <1>0, <1>1, SendFacts
  <1>8. Running => /\ \A v \in Of(Live, "VideoFrame") : FrameAfterConfig(v)'
                   /\ \A p \in Of(Live, "CursorPos") \ gone : PosAfterShape(p)'
    BY <1>1, SendKeepsDependencies
  <1> HIDE DEF gone
  <1>3. TypeOK'
    BY <1>1, <1>2 DEF IInv, TypeOK, Send, Notify
  <1>4. ConfigsInOrder' /\ Clips'
    BY <1>1, <1>2 DEF IInv, TypeOK, ConfigsInOrder, Clips, Fifo, Of
  <1>5. Dependencies'
    <2>1. /\ Of(Live', "VideoFrame") = Of(Live, "VideoFrame")
          /\ Of(Live', "CursorPos") = Of(Live, "CursorPos") \ gone
          /\ Of(Live', "CursorShape") = Of(Live, "CursorShape")
      BY <1>1, <1>2 DEF Of
    <2> QED BY <1>1, <1>2, <1>8, <2>1 DEF IInv, TypeOK, Dependencies
  <1>6. Of(Live', "Clipboard") = Of(Live, "Clipboard")
    BY <1>1, <1>2 DEF Of
  <1>7. ClipboardReliable'
    BY <1>1, <1>2, <1>6 DEF IInv, ClipboardReliable, Send, Notify, Of
  <1> QED BY <1>2, <1>3, <1>4, <1>5, <1>7 DEF IInv

LEMMA SendShapeIInv == IInv /\ SendShape => IInv'
  <1> SUFFICES ASSUME IInv, SendShape PROVE IInv'
    OBVIOUS
  <1>0. PICK new : new = [n |-> sent + 1, kind |-> "CursorShape", ref |-> 0]
    OBVIOUS
  <1> DEFINE gone == Superseded(queue, "CursorShape")
  <1>1. /\ Send("CursorShape", 0) /\ shape' = sent + 1
        /\ UNCHANGED <<config, clips>>
        /\ "CursorShape" \in Kinds
        /\ gone = Of(queue, "CursorShape") \cup Of(queue, "CursorPos")
    BY DEF SendShape, Kinds, Superseded, Of
  <1>2. /\ new \in Packet /\ new.n = sent + 1 /\ new.kind = "CursorShape"
        /\ Live' = (Live \ gone) \cup {new}
        /\ queue' \in SUBSET Packet /\ sent' = sent + 1 /\ Fifo'
        /\ QueueBounded' /\ Task' /\ NoLostWakeup' /\ FrameUnderItsConfig'
        /\ PosAfterItsShape' /\ (Running' <=> Running)
    BY <1>0, <1>1, SendFacts
  <1>3. \A p \in Of(Live, "CursorPos") \ gone : Running => PosAfterShape(p)'
    BY <1>1, SendKeepsDependencies
  <1>4. \A v \in Of(Live, "VideoFrame") : Running => FrameAfterConfig(v)'
    BY <1>1, SendKeepsDependencies
  <1> HIDE DEF gone
  <1>5. TypeOK'
    BY <1>1, <1>2 DEF IInv, TypeOK, Send, Notify
  <1>6. /\ Of(Live', "StreamConfig") = Of(Live, "StreamConfig")
        /\ Of(Live', "VideoFrame") = Of(Live, "VideoFrame")
        /\ Of(Live', "Clipboard") = Of(Live, "Clipboard")
        /\ Of(Live', "CursorPos") = Of(Live, "CursorPos") \ gone
    BY <1>1, <1>2 DEF Of
  <1>7. ConfigsInOrder' /\ Clips'
    BY SMTT(20), <1>1, <1>2, <1>6 DEF IInv, TypeOK, ConfigsInOrder, Clips
  <1>8. Dependencies'
    BY <1>1, <1>2, <1>3, <1>4, <1>6 DEF IInv, TypeOK, Dependencies, Of
  <1>9. ClipboardReliable'
    BY <1>1, <1>2, <1>6 DEF IInv, ClipboardReliable, Send, Notify, Of
  <1> QED BY <1>2, <1>5, <1>7, <1>8, <1>9 DEF IInv

LEMMA SendPosIInv == IInv /\ SendPos => IInv'
  <1> SUFFICES ASSUME IInv, SendPos PROVE IInv'
    OBVIOUS
  <1>0. PICK new : new = [n |-> sent + 1, kind |-> "CursorPos", ref |-> shape]
    OBVIOUS
  <1> DEFINE gone == Superseded(queue, "CursorPos")
  <1>1. /\ Send("CursorPos", shape) /\ UNCHANGED <<config, shape, clips>>
        /\ "CursorPos" \in Kinds /\ gone = Of(queue, "CursorPos")
        /\ shape \in Nat
    BY DEF SendPos, Kinds, Superseded, Of, IInv, TypeOK
  <1>2. /\ new \in Packet /\ new.n = sent + 1 /\ new.kind = "CursorPos"
        /\ new.ref = shape /\ Live' = (Live \ gone) \cup {new}
        /\ queue' \in SUBSET Packet /\ sent' = sent + 1 /\ Fifo'
        /\ QueueBounded' /\ Task' /\ NoLostWakeup' /\ FrameUnderItsConfig'
        /\ PosAfterItsShape' /\ (Running' <=> Running)
    BY <1>0, <1>1, SendFacts
  <1>3. \A p \in Of(Live, "CursorPos") \ gone : Running => PosAfterShape(p)'
    BY <1>1, SendKeepsDependencies
  <1>4. \A v \in Of(Live, "VideoFrame") : Running => FrameAfterConfig(v)'
    BY <1>1, SendKeepsDependencies
  <1> HIDE DEF gone
  <1>5. TypeOK'
    BY <1>1, <1>2 DEF IInv, TypeOK, Send, Notify
  <1>6. /\ Of(Live', "StreamConfig") = Of(Live, "StreamConfig")
        /\ Of(Live', "VideoFrame") = Of(Live, "VideoFrame")
        /\ Of(Live', "CursorShape") = Of(Live, "CursorShape")
        /\ Of(Live', "Clipboard") = Of(Live, "Clipboard")
        /\ Of(Live', "CursorPos") = (Of(Live, "CursorPos") \ gone) \cup {new}
    BY <1>1, <1>2 DEF Of
  <1>7. ConfigsInOrder' /\ Clips'
    BY <1>1, <1>2, <1>6 DEF IInv, TypeOK, ConfigsInOrder, Clips
  <1>8. Running => PosAfterShape(new)'
    BY <1>1, <1>2, <1>6 DEF IInv, TypeOK, Dependencies, PosAfterShape, Of
  <1>9. Dependencies'
    BY SMTT(20), <1>1, <1>2, <1>3, <1>4, <1>6, <1>8 DEF IInv, TypeOK, Dependencies
  <1>10. ClipboardReliable'
    BY <1>1, <1>2, <1>6 DEF IInv, ClipboardReliable, Send, Notify, Of
  <1> QED BY <1>2, <1>5, <1>7, <1>9, <1>10 DEF IInv

LEMMA SendPongIInv == IInv /\ SendPong => IInv'
  <1> SUFFICES ASSUME IInv, SendPong PROVE IInv'
    OBVIOUS
  <1>0. PICK new : new = [n |-> sent + 1, kind |-> "Pong", ref |-> 0]
    OBVIOUS
  <1> DEFINE gone == Superseded(queue, "Pong")
  <1>1. /\ Send("Pong", 0) /\ UNCHANGED <<config, shape, clips>>
        /\ "Pong" \in Kinds /\ gone = Of(queue, "Pong")
    BY DEF SendPong, Kinds, Superseded, Of
  <1>2. /\ new \in Packet /\ new.n = sent + 1 /\ new.kind = "Pong"
        /\ Live' = (Live \ gone) \cup {new}
        /\ queue' \in SUBSET Packet /\ sent' = sent + 1 /\ Fifo'
        /\ QueueBounded' /\ Task' /\ NoLostWakeup' /\ FrameUnderItsConfig'
        /\ PosAfterItsShape' /\ (Running' <=> Running)
    BY <1>0, <1>1, SendFacts
  <1>3. \A p \in Of(Live, "CursorPos") \ gone : Running => PosAfterShape(p)'
    BY <1>1, SendKeepsDependencies
  <1>4. \A v \in Of(Live, "VideoFrame") : Running => FrameAfterConfig(v)'
    BY <1>1, SendKeepsDependencies
  <1> HIDE DEF gone
  <1>5. TypeOK'
    BY <1>1, <1>2 DEF IInv, TypeOK, Send, Notify
  <1>6. \A kind \in Kinds \ {"Pong"} : Of(Live', kind) = Of(Live, kind)
    BY <1>1, <1>2 DEF Of
  <1>7. ConfigsInOrder' /\ Clips'
    BY SMTT(20), <1>1, <1>2, <1>6 DEF IInv, TypeOK, ConfigsInOrder, Clips, Kinds
  <1>8. Of(Live, "CursorPos") \ gone = Of(Live, "CursorPos")
    BY <1>1 DEF Of
  <1>9. Dependencies'
    <2>1. /\ Of(Live', "VideoFrame") = Of(Live, "VideoFrame")
          /\ Of(Live', "CursorPos") = Of(Live, "CursorPos")
          /\ Of(Live', "CursorShape") = Of(Live, "CursorShape")
      BY <1>6 DEF Kinds
    <2>2. shape' \in 0..sent' /\ shape' = shape
      BY <1>1, <1>2 DEF IInv, TypeOK, Dependencies
    <2>3. Running => shape = 0 \/ \E s \in Of(Live', "CursorShape") : s.n = shape
      BY <2>1 DEF IInv, Dependencies
    <2> QED BY <1>2, <1>3, <1>4, <1>8, <2>1, <2>2, <2>3 DEF Dependencies
  <1>10. ClipboardReliable'
    BY <1>1, <1>2, <1>6 DEF IInv, ClipboardReliable, Send, Notify, Of, Kinds
  <1> QED BY <1>2, <1>5, <1>7, <1>9, <1>10 DEF IInv

LEMMA SendClipboardIInv == IInv /\ SendClipboard => IInv'
  <1> SUFFICES ASSUME IInv, SendClipboard PROVE IInv'
    OBVIOUS
  <1>0. PICK new : new = [n |-> sent + 1, kind |-> "Clipboard", ref |-> 0]
    OBVIOUS
  <1>1. /\ Send("Clipboard", 0) /\ UNCHANGED <<config, shape>>
        /\ clips' = clips \cup {sent + 1}
        /\ "Clipboard" \in Kinds /\ Superseded(queue, "Clipboard") = {}
    BY DEF SendClipboard, Kinds, Superseded, Of
  <1>2. /\ new \in Packet /\ new.n = sent + 1 /\ new.kind = "Clipboard"
        /\ Live' = Live \cup {new}
        /\ queue' \in SUBSET Packet /\ sent' = sent + 1 /\ Fifo'
        /\ QueueBounded' /\ Task' /\ NoLostWakeup' /\ FrameUnderItsConfig'
        /\ PosAfterItsShape' /\ (Running' <=> Running)
    BY <1>0, <1>1, SendFacts
  <1>3. \A p \in Of(Live, "CursorPos") : Running => PosAfterShape(p)'
    BY <1>1, SendKeepsDependencies
  <1>4. \A v \in Of(Live, "VideoFrame") : Running => FrameAfterConfig(v)'
    BY <1>1, SendKeepsDependencies
  <1>5. TypeOK'
    BY <1>1, <1>2 DEF IInv, TypeOK, Send, Notify
  <1>6. /\ \A kind \in Kinds \ {"Clipboard"} : Of(Live', kind) = Of(Live, kind)
        /\ Of(Live', "Clipboard") = Of(Live, "Clipboard") \cup {new}
    BY <1>1, <1>2 DEF Of
  <1>7. ConfigsInOrder' /\ Clips'
    BY SMTT(20), <1>1, <1>2, <1>6 DEF IInv, TypeOK, ConfigsInOrder, Clips, Kinds
  <1>8. Dependencies'
    BY <1>1, <1>2, <1>3, <1>4, <1>6 DEF IInv, TypeOK, Dependencies, Kinds
  <1>9. Running => {m.n : m \in Of(Live', "Clipboard")} = clips'
    <2>1. {m.n : m \in Of(Live, "Clipboard") \cup {new}}
            = {m.n : m \in Of(Live, "Clipboard")} \cup {new.n}
      OBVIOUS
    <2> QED BY <1>1, <1>2, <1>6, <2>1 DEF IInv, ClipboardReliable, Running
  <1>10. \A m \in Of(received', "Clipboard"), i \in clips' :
           i < m.n => \E o \in Of(received', "Clipboard") : o.n = i
    <2>1. received' = received
      BY <1>1 DEF Send, Notify
    <2>2. \A m \in Of(received, "Clipboard") : m.n \in 1..sent /\ sent \in Nat
      BY DEF IInv, Fifo, Live, Of, TypeOK
    <2> QED BY <2>1, <2>2, <1>1 DEF IInv, ClipboardReliable
  <1>11. ClipboardReliable'
    BY <1>2, <1>9, <1>10 DEF ClipboardReliable, Running
  <1> QED BY <1>2, <1>5, <1>7, <1>8, <1>11 DEF IInv

\* Nothing is sent: the packets that can still reach the client only move
\* from the queue to the writer and from the writer to the wire.
LEMMA TaskFacts ==
  ASSUME IInv, UNCHANGED <<sent, config, shape, clips>>,
         Running' => Running /\ Live' = Live,
         Live' \subseteq Live
  PROVE  /\ ConfigsInOrder' /\ Dependencies' /\ Clips'
         /\ Running' => {m.n : m \in Of(Live', "Clipboard")} = clips'
  <1>1. ConfigsInOrder' /\ Clips'
    BY DEF IInv, ConfigsInOrder, Clips, Of
  <1>2. Dependencies'
    BY DEF IInv, Dependencies, FrameAfterConfig, PosAfterShape
  <1>3. Running' => {m.n : m \in Of(Live', "Clipboard")} = clips'
    BY DEF IInv, ClipboardReliable, Running
  <1> QED BY <1>1, <1>2, <1>3

LEMMA PopIInv == IInv /\ Pop => IInv'
  <1> SUFFICES ASSUME IInv, Pop PROVE IInv'
    OBVIOUS
  <1>1. PICK m \in queue : /\ IsFront(m, queue)
                           /\ queue' = queue \ {m} /\ writing' = {m}
    BY DEF Pop
  <1>2. writing = {} /\ Live' = Live /\ Running' /\ Running
    BY <1>1 DEF Pop, Live, Running, IInv, Task
  <1>3. UNCHANGED <<sent, config, shape, clips>>
    BY DEF Pop
  <1>4. /\ ConfigsInOrder' /\ Dependencies' /\ Clips'
        /\ Running' => {o.n : o \in Of(Live', "Clipboard")} = clips'
    BY <1>2, <1>3, TaskFacts
  <1>5. TypeOK'
    BY <1>1 DEF IInv, TypeOK, Pop
  <1>6. Fifo'
    <2>1. \A o \in queue' : m.n < o.n
      BY <1>1 DEF IsFront, IInv, Fifo, Live, TypeOK, Packet
    <2> QED BY <1>1, <1>2, <1>3, <2>1 DEF IInv, Fifo, Pop
  <1>7. QueueBounded'
    <2> SUFFICES ASSUME NEW a \in queue', NEW b \in queue', a.kind = b.kind,
                        a.n < b.n, a.kind # "Clipboard"
                 PROVE  /\ a.kind = "StreamConfig"
                        /\ \E v \in Of(queue', "VideoFrame") : a.n < v.n /\ v.n < b.n
      BY DEF QueueBounded, Of
    <2>1. /\ a.kind = "StreamConfig"
          /\ \E v \in Of(queue, "VideoFrame") : a.n < v.n /\ v.n < b.n
      BY <1>1 DEF IInv, QueueBounded
    <2>2. m.n < a.n
      BY <1>1 DEF IsFront, IInv, Fifo, Live, TypeOK, Packet
    <2> QED BY <1>1, <2>1, <2>2 DEF Of, IInv, TypeOK, Packet
  <1>8. FrameUnderItsConfig' /\ PosAfterItsShape' /\ Task' /\ NoLostWakeup'
    BY DEF IInv, Pop, FrameUnderItsConfig, PosAfterItsShape, Task,
           NoLostWakeup, Of
  <1>9. ClipboardReliable'
    BY <1>4 DEF IInv, Pop, ClipboardReliable, Running
  <1> QED BY <1>4, <1>5, <1>6, <1>7, <1>8, <1>9 DEF IInv

LEMMA WriteDoneIInv ==
  ASSUME IInv, NEW result \in {"ok", "err"}, WriteDone(result)
  PROVE  IInv'
  <1>1. /\ UNCHANGED <<queue, sent, config, shape, clips>> /\ writing' = {}
        /\ Running /\ Live' \subseteq Live /\ (Running' => Live' = Live)
    BY DEF WriteDone, Live, Running, IInv, Task
  <1>2. /\ ConfigsInOrder' /\ Dependencies' /\ Clips'
        /\ Running' => {o.n : o \in Of(Live', "Clipboard")} = clips'
    BY <1>1, TaskFacts
  <1>3. TypeOK'
    BY DEF IInv, TypeOK, WriteDone
  <1>4. Fifo' /\ QueueBounded'
    BY <1>1 DEF IInv, Fifo, WriteDone, QueueBounded, Of, Live
  <1>5. Task' /\ NoLostWakeup'
    BY DEF IInv, WriteDone, Task, NoLostWakeup
  <1>6. /\ received' \subseteq received \cup writing
        /\ received \subseteq received'
    BY DEF WriteDone
  <1>7. \A m \in received', o \in Live : o.n < m.n => o \in received'
    <2> SUFFICES ASSUME NEW m \in received', NEW o \in Live, o.n < m.n
                 PROVE  o \in received'
      OBVIOUS
    <2>1. CASE m \in received
      BY <1>6, <2>1 DEF IInv, Fifo, Live, TypeOK, Packet
    <2>2. CASE m \notin received
      <3>1. m \in writing /\ result = "ok" /\ received' = received \cup writing
        BY <1>6, <2>2 DEF WriteDone
      <3> QED BY <3>1 DEF IInv, Fifo, Live, TypeOK, Packet
    <2> QED BY <2>1, <2>2
  <1>8. received' \subseteq Live
    BY <1>6 DEF Live
  <1>9. FrameUnderItsConfig'
    <2> SUFFICES ASSUME NEW v \in Of(received', "VideoFrame")
                 PROVE /\ v.ref = 0 \/ \E c \in Of(received', "StreamConfig") : c.n = v.ref
                       /\ \A c \in Of(received', "StreamConfig") : c.n <= v.ref \/ v.n < c.n
      BY DEF FrameUnderItsConfig
    <2>1. FrameAfterConfig(v)
      BY <1>1, <1>8 DEF IInv, Dependencies, Of
    <2> QED BY <2>1, <1>7, <1>8 DEF FrameAfterConfig, Of
  <1>10. PosAfterItsShape'
    <2> SUFFICES ASSUME NEW p \in Of(received', "CursorPos")
                 PROVE  p.ref = 0 \/ \E s \in Of(received', "CursorShape") :
                                       s.n = p.ref /\ s.n < p.n
      BY DEF PosAfterItsShape
    <2>1. PosAfterShape(p)
      BY <1>1, <1>8 DEF IInv, Dependencies, Of
    <2> QED BY <2>1, <1>7, <1>8 DEF PosAfterShape, Of
  <1>11. ClipboardReliable'
    <2>1. ASSUME NEW m \in Of(received', "Clipboard"), NEW i \in clips, i < m.n
          PROVE  \E o \in Of(received', "Clipboard") : o.n = i
      <3>1. PICK o \in Of(Live, "Clipboard") : o.n = i
        BY <1>1 DEF IInv, ClipboardReliable, Running
      <3> QED BY <1>7, <2>1, <3>1 DEF Of
    <2> QED BY <1>1, <1>2, <2>1 DEF ClipboardReliable, Running
  <1> QED BY <1>2, <1>3, <1>4, <1>5, <1>9, <1>10, <1>11 DEF IInv

\* The steps that move no packet towards the client.
LEMMA OtherIInv ==
  IInv /\ (Idle \/ Wake \/ SendReport \/ TakeReport \/ Close \/ UNCHANGED vars)
    => IInv'
  <1> SUFFICES ASSUME IInv, \/ Idle \/ Wake \/ SendReport \/ TakeReport
                            \/ Close \/ UNCHANGED vars
               PROVE IInv'
    OBVIOUS
  <1>1. /\ UNCHANGED <<queue, sent, config, shape, clips, received>>
        /\ writing' \subseteq writing
        /\ Running' => Running /\ writing' = writing
    BY DEF Idle, Wake, SendReport, TakeReport, Close, EndSession, vars,
           Running, IInv, TypeOK
  <1>2. Live' \subseteq Live /\ (Running' => Live' = Live)
    BY <1>1 DEF Live
  <1>3. /\ ConfigsInOrder' /\ Dependencies' /\ Clips'
        /\ Running' => {o.n : o \in Of(Live', "Clipboard")} = clips'
    BY <1>1, <1>2, TaskFacts
  <1>4. TypeOK'
    BY DEF IInv, TypeOK, Idle, Wake, SendReport, TakeReport, Close,
           EndSession, vars
  <1>5. Fifo' /\ QueueBounded' /\ FrameUnderItsConfig' /\ PosAfterItsShape'
    BY <1>1, <1>2 DEF IInv, Fifo, QueueBounded, FrameUnderItsConfig,
                      PosAfterItsShape, Of
  <1>6. Task' /\ NoLostWakeup'
    BY DEF IInv, TypeOK, Task, NoLostWakeup, Idle, Wake, SendReport,
           TakeReport, Close, EndSession, vars
  <1>7. ClipboardReliable'
    BY <1>1, <1>3 DEF IInv, ClipboardReliable, Running
  <1> QED BY <1>3, <1>4, <1>5, <1>6, <1>7 DEF IInv

LEMMA NextIInv == IInv /\ [Next]_vars => IInv'
BY SendFrameIInv, SendConfigIInv, SendShapeIInv, SendPosIInv, SendPongIInv,
   SendClipboardIInv, PopIInv, WriteDoneIInv, OtherIInv
DEF Next, SessionStep, TaskStep

\* The invariant behind every safety property below.
THEOREM Inductive == Spec => []IInv
BY InitIInv, NextIInv, PTL DEF Spec

\* The types of the writer's state (Queue, Writer and the task's locals).
THEOREM TypeCorrect == Spec => []TypeOK
  BY Inductive, PTL DEF IInv

\* However many configs and frames the session sends and however slow the
\* socket: a frame is decoded under the config it was encoded for.
THEOREM FramesKeepTheirConfig == Spec => []FrameUnderItsConfig
  BY Inductive, PTL DEF IInv

\* The queue never holds two packets of a kind, the clipboard's apart, but
\* for the config on either side of a frame.
THEOREM QueueStaysBounded == Spec => []QueueBounded
  BY Inductive, PTL DEF IInv

\* Coalescing never loses or reorders a clipboard message.
THEOREM ReliableAndOrdered == Spec => []ClipboardReliable
  BY Inductive, PTL DEF IInv

\* Coalescing never leaves a cursor position without its shape.
THEOREM PositionsKeepTheirShape == Spec => []PosAfterItsShape
  BY Inductive, PTL DEF IInv

\* notify_one after every push: the task never sleeps on a full queue.
THEOREM WakeupsAreKept == Spec => []NoLostWakeup
  BY Inductive, PTL DEF IInv

-----------------------------------------------------------------------------
\* The stream, read.

Sent == received \cup cut

\* The task writes one packet after another, and none after one it broke off.
Wire ==
  /\ IsFiniteSet(received) /\ \A a, b \in writing : a = b
  /\ cut \in SUBSET Packet /\ \A a, b \in cut : a = b
  /\ \A m \in cut : m.n \in 1..sent
  /\ \A r \in received, m \in cut : r.n < m.n
  /\ cut # {} => ~Running /\ writing = {}
  /\ pc = "done" /\ session = "open" => reports = "err"

\* d are the messages before packet n that are known, in their order and with
\* the payloads that came; and n itself, if its payload is being read.
Message == [n : Nat, payload : Seq(Nat \X Nat)]
Follows(d, known, payloads, n, reading) ==
  /\ d \in Seq(Message)
  /\ \A i, j \in 1..Len(d) : i < j => d[i].n < d[j].n
  /\ \A i \in 1..Len(d) :
       /\ d[i].n \in known /\ d[i].n <= n
       /\ d[i].n = n => reading
       /\ d[i].n < n => d[i].payload = payloads[d[i].n]
  /\ \A k \in known : k < n => \E i \in 1..Len(d) : d[i].n = k

PayloadsSent == [n \in 1..sent |-> PayloadOf(n)]
HandledUpTo(n) == Follows(delivered, Known(Sent), PayloadsSent, n, at = "payload")

\* Where the reader is in the stream, if packet n is the next to be handled: in
\* front of it, or past the rest of the one before that is to be skipped;
Between(n) ==
  /\ at \in {"idle", "skip", "header"} /\ pending = NoHeader /\ header = NoHeader
  /\ taken + skip_left = Ahead(n) /\ payload_left = 0
  /\ at = "header" => skip_left = 0

\* behind its header, which is kept whatever becomes of the read;
HeaderRead(n) ==
  /\ at \in {"idle", "skip", "body"} /\ n <= sent /\ pending = HeaderOf(n)
  /\ header = IF at = "body" THEN pending ELSE NoHeader
  /\ taken = Ahead(n) + HeaderLen /\ skip_left = 0 /\ payload_left = 0

\* or g cells into its payload.
InPayload(n, g) ==
  /\ at = "payload" /\ n <= sent /\ KindAt(n) \notin Unknown
  /\ pending = NoHeader /\ header = NoHeader /\ skip_left = 0
  /\ taken = Ahead(n) + HeaderLen + BodyLen + g
  /\ payload_left = PayloadLen(KindAt(n)) - g /\ g < PayloadLen(KindAt(n))
  /\ g = 0 \/ (Len(Payloads(KindAt(n))) = 2 /\ g = Payloads(KindAt(n))[1])
  /\ delivered # <<>> /\ Handling.n = n
  /\ Handling.payload = [i \in 1..g |-> <<n, HeaderLen + BodyLen + i>>]

At(n) == Between(n) \/ HeaderRead(n) \/ \E g \in 0..2 : InPayload(n, g)

Unread ==
  /\ arrived = 0 /\ taken = 0 /\ pending = NoHeader /\ payload_left = 0 /\ skip_left = 0
  /\ at = "idle" /\ header = NoHeader /\ delivered = <<>>

Numbers ==
  /\ arrived \in Nat /\ taken \in Nat /\ skip_left \in Nat
  /\ taken <= arrived /\ arrived <= Cardinality(Stream)

Reader(n) == HandledUpTo(n) /\ At(n)

Reading ==
  /\ Reads /\ Numbers
  /\ \/ at = "closed" /\ StreamInSync
     \/ \E n \in 1..(sent + 1) : Reader(n)

StreamInv == Wire /\ (Unread \/ Reading)

-----------------------------------------------------------------------------

LEMMA LensOf ==
  ASSUME NEW kind \in Kinds
  PROVE  LET lens == Payloads(kind)
             total == PayloadLen(kind)
         IN /\ Len(lens) \in 0..2 /\ total \in 0..2 /\ LenOf(kind) = 3 + total
            /\ (lens = <<>>) = (Len(lens) = 0)
            /\ Len(lens) = 0 => total = 0
            /\ Len(lens) > 0 => lens[1] \in 1..2 /\ Head(lens) = lens[1]
            /\ Len(lens) = 1 => total = lens[1]
            /\ Len(lens) = 2 => lens[1] = 1 /\ lens[2] = 1 /\ total = 2
<1>1. AuxLen \in {0, 1}
  BY StreamAssumption
<1>2. CASE kind = "VideoFrame"
  BY <1>1, <1>2 DEF Payloads, PayloadLen, LenOf, HeaderLen, BodyLen
<1>3. CASE kind # "VideoFrame"
  BY <1>3 DEF Payloads, PayloadLen, LenOf, HeaderLen, BodyLen
<1> QED
  BY <1>2, <1>3

\* What is read is a packet of every number, in the end.
Whole ==
  /\ IsFiniteSet(Sent) /\ Sent \subseteq Packet /\ sent \in Nat
  /\ \A m \in Sent : m.n \in 1..sent
  /\ \A a, b \in Sent : a.n = b.n => a = b
  /\ \A n \in 1..sent : \E m \in Sent : m.n = n

LEMMA ReadsWhole ==
  ASSUME IInv, Wire, Reads
  PROVE  Whole
<1>1. received \subseteq Packet /\ cut \subseteq Packet /\ sent \in Nat
  BY DEF IInv, TypeOK, Wire
<1>2. IsFiniteSet(cut)
  <2>1. cut = {} \/ \E m : cut = {m}
    BY DEF Wire
  <2>2. CASE cut = {}
    BY ONLY <2>2, FS_EmptySet
  <2>3. ASSUME NEW m, cut = {m}
        PROVE  IsFiniteSet(cut)
    BY ONLY <2>3, FS_Singleton
  <2> QED
    BY <2>1, <2>2, <2>3
<1>3. IsFiniteSet(Sent)
  BY <1>2, FS_Union DEF Wire, Sent
<1>4. \A m \in Sent : m.n \in 1..sent
  BY DEF Wire, IInv, Fifo, Live, Sent
<1>5. \A a, b \in Sent : a.n = b.n => a = b
  <2>1. \A r \in received, m \in cut : r.n # m.n
    BY <1>1, <1>4 DEF Wire, Sent
  <2>2. \A a, b \in received : a.n = b.n => a = b
    BY DEF IInv, Fifo, Live
  <2> QED
    BY <2>1, <2>2 DEF Wire, Sent
<1> DEFINE f == [m \in Sent |-> m.n]
<1>6. f \in Injection(Sent, 1..sent)
  BY <1>4, <1>5 DEF Injection, IsInjective
<1>7. IsFiniteSet(1..sent) /\ Cardinality(1..sent) = sent
  BY <1>1, FS_Interval
<1>8. f \in Surjection(Sent, 1..sent)
  BY <1>6, <1>7, FS_Injection DEF Reads, Sent
<1>9. \A n \in 1..sent : \E m \in Sent : m.n = n
  BY <1>8 DEF Surjection
<1> QED
  BY <1>1, <1>3, <1>4, <1>5, <1>9 DEF Whole, Sent

LEMMA KindOf ==
  ASSUME Whole
  PROVE  /\ \A m \in Sent : KindAt(m.n) = m.kind
         /\ \A n \in 1..sent : KindAt(n) \in Kinds
<1>1. ASSUME NEW m \in Sent
      PROVE  KindAt(m.n) = m.kind
  <2>1. (CHOOSE p \in received \cup cut : p.n = m.n) = m
    BY DEF Whole, Sent
  <2> QED
    BY <2>1 DEF KindAt
<1> QED
  BY <1>1 DEF Whole, Packet

IsCell(n, i) == i \in 1..LenOf(KindAt(n))

LEMMA StreamIs ==
  ASSUME Whole
  PROVE  /\ IsFiniteSet(Stream)
         /\ \A c : c \in Stream <=> \E n \in 1..sent, i \in Nat : IsCell(n, i) /\ c = <<n, i>>
<1>1. \A c : c \in Stream <=> \E m \in Sent : \E i \in 1..LenOf(m.kind) : c = <<m.n, i>>
  BY DEF Stream, CellsOfAll, CellsOf, Sent
<1>2. \A c : c \in Stream <=> \E n \in 1..sent, i \in Nat : IsCell(n, i) /\ c = <<n, i>>
  <2>1. \A m \in Sent : m.n \in 1..sent /\ KindAt(m.n) = m.kind
    BY KindOf DEF Whole
  <2>2. \A n \in 1..sent : \E m \in Sent : m.n = n
    BY DEF Whole
  <2> QED
    BY <1>1, <2>1, <2>2 DEF IsCell
<1>3. \A n \in 1..sent : LenOf(KindAt(n)) \in 3..5
  BY KindOf, LensOf
<1>4. Stream \subseteq (1..sent) \X (1..5)
  BY <1>2, <1>3 DEF IsCell
<1>5. IsFiniteSet((1..sent) \X (1..5))
  <2>1. IsFiniteSet(1..sent) /\ IsFiniteSet(1..5)
    <3>1. 1 \in Int /\ 5 \in Int /\ sent \in Int
      BY DEF Whole
    <3> QED
      BY <3>1, FS_Interval
  <2> QED
    BY <2>1, FS_Product
<1> QED
  BY <1>2, <1>4, <1>5, FS_Subset

\* Cells in front of packet n.
Upto(n) == {c \in Stream : c[1] < n}

LEMMA AheadIs ==
  ASSUME Whole
  PROVE  /\ \A n : IsFiniteSet(Upto(n)) /\ Ahead(n) = Cardinality(Upto(n)) /\ Ahead(n) \in Nat
         /\ Ahead(1) = 0
         /\ Ahead(sent + 1) = Cardinality(Stream)
         /\ \A m, n \in 1..(sent + 1) : m <= n => Ahead(m) <= Ahead(n)
<1>1. \A n : IsFiniteSet(Upto(n)) /\ Ahead(n) = Cardinality(Upto(n)) /\ Ahead(n) \in Nat
  <2> TAKE n
  <2>1. Upto(n) \in SUBSET Stream
    BY DEF Upto
  <2>2. IsFiniteSet(Upto(n))
    BY <2>1, StreamIs, FS_Subset
  <2> QED
    BY <2>2, FS_CardinalityType DEF Ahead, Upto
<1>2. \A c \in Stream : c[1] \in 1..sent
  BY StreamIs
<1>3. Ahead(1) = 0
  <2>1. Upto(1) = {}
    BY <1>2 DEF Upto
  <2> QED
    BY <1>1, <2>1, FS_EmptySet
<1>4. Ahead(sent + 1) = Cardinality(Stream)
  <2>1. Upto(sent + 1) = Stream
    BY <1>2 DEF Upto, Whole
  <2> QED
    BY <1>1, <2>1
<1>5. ASSUME NEW m \in 1..(sent + 1), NEW n \in 1..(sent + 1), m <= n
      PROVE  Ahead(m) <= Ahead(n)
  <2>1. Upto(m) \in SUBSET Upto(n)
    BY <1>2, <1>5 DEF Upto, Whole
  <2> QED
    BY <1>1, <2>1, FS_Subset
<1> QED
  BY <1>1, <1>3, <1>4, <1>5

\* A packet more is its cells more.
LEMMA AheadNext ==
  ASSUME Whole, NEW n \in 1..sent
  PROVE  Ahead(n + 1) = Ahead(n) + LenOf(KindAt(n))
<1> DEFINE Part(k) == Upto(n) \cup {<<n, i>> : i \in 1..k}
<1>1. LenOf(KindAt(n)) \in 3..5 /\ n \in Nat /\ sent \in Nat
  BY KindOf, LensOf DEF Whole
<1>2. \A k \in 0..5 : <<n, k + 1>> \notin Part(k) /\ Part(k + 1) = Part(k) \cup {<<n, k + 1>>}
  <2> TAKE k \in 0..5
  <2>1. <<n, k + 1>> \notin Upto(n)
    BY <1>1 DEF Upto
  <2>2. 1..(k + 1) = (1..k) \cup {k + 1}
    OBVIOUS
  <2>3. k + 1 \notin 1..k
    OBVIOUS
  <2> QED
    BY <2>1, <2>2, <2>3
<1>3. Part(0) = Upto(n)
  OBVIOUS
<1> DEFINE Counted(k) == IsFiniteSet(Part(k)) /\ Cardinality(Part(k)) = Ahead(n) + k
<1>4. Counted(0)
  BY <1>3, AheadIs
<1> HIDE DEF Part
<1>5. ASSUME NEW k \in 0..5, Counted(k)
      PROVE  Counted(k + 1)
  <2>1. Cardinality(Part(k) \cup {<<n, k + 1>>}) = Cardinality(Part(k)) + 1
    BY <1>2, <1>5, FS_AddElement DEF Counted
  <2>2. IsFiniteSet(Part(k) \cup {<<n, k + 1>>})
    BY <1>5, FS_AddElement DEF Counted
  <2>3. Ahead(n) \in Nat
    BY AheadIs
  <2> QED
    <3>1. Part(k + 1) = Part(k) \cup {<<n, k + 1>>}
      BY <1>2
    <3>2. Cardinality(Part(k)) = Ahead(n) + k
      BY <1>5 DEF Counted
    <3>3. Cardinality(Part(k + 1)) = Ahead(n) + (k + 1)
      <4>1. PICK a : a = Ahead(n)
        OBVIOUS
      <4>2. a \in Nat /\ k \in Nat
        BY <2>3, <4>1
      <4>3. Cardinality(Part(k + 1)) = (a + k) + 1
        BY <2>1, <3>1, <3>2, <4>1
      <4>4. (a + k) + 1 = a + (k + 1)
        BY ONLY <4>2
      <4> QED
        BY <4>1, <4>3, <4>4
    <3> QED
      BY <2>2, <3>1, <3>3 DEF Counted
<1> HIDE DEF Counted
<1>6. Counted(1) /\ Counted(2) /\ Counted(3)
  BY <1>4, <1>5
<1>7. Counted(4) /\ Counted(5)
  BY <1>5, <1>6
<1>8. Part(LenOf(KindAt(n))) = Upto(n + 1)
  <2>1. \A c \in Stream : c[1] < n + 1 <=> c[1] < n \/ c[1] = n
    BY <1>1, StreamIs
  <2>2. \A c : c \in Stream /\ c[1] = n <=> \E i \in 1..LenOf(KindAt(n)) : c = <<n, i>>
    BY StreamIs DEF IsCell
  <2> QED
    BY <2>1, <2>2 DEF Part, Upto
<1>9. Counted(LenOf(KindAt(n)))
  BY <1>1, <1>6, <1>7
<1> QED
  BY <1>8, <1>9, AheadIs DEF Counted

\* The i-th cell of packet n is where it belongs.
LEMMA CellIs ==
  ASSUME Whole, NEW n \in 1..sent, NEW i \in 1..LenOf(KindAt(n)),
         NEW p, p = Ahead(n) + i
  PROVE  CellAt(p) = <<n, i>>
<1>1. <<n, i>> \in Stream
  BY StreamIs DEF IsCell
<1>2. ASSUME NEW c \in Stream, Ahead(c[1]) + c[2] = p
      PROVE  c = <<n, i>>
  <2>1. PICK m \in 1..sent, j \in Nat : IsCell(m, j) /\ c = <<m, j>>
    BY StreamIs
  <2>2. Ahead(m) + j = Ahead(n) + i
    BY <1>2, <2>1 DEF IsCell
  <2>3. /\ Ahead(m) \in Nat /\ Ahead(n) \in Nat /\ sent \in Nat
        /\ Ahead(m + 1) = Ahead(m) + LenOf(KindAt(m))
        /\ Ahead(n + 1) = Ahead(n) + LenOf(KindAt(n))
        /\ LenOf(KindAt(m)) \in Nat /\ LenOf(KindAt(n)) \in Nat
    <3>1. LenOf(KindAt(m)) \in 3..5 /\ LenOf(KindAt(n)) \in 3..5
      BY KindOf, LensOf
    <3>2. Ahead(m + 1) = Ahead(m) + LenOf(KindAt(m)) /\ Ahead(n + 1) = Ahead(n) + LenOf(KindAt(n))
      BY AheadNext
    <3>3. Ahead(m) \in Nat /\ Ahead(n) \in Nat /\ sent \in Nat
      BY AheadIs DEF Whole
    <3> QED
      BY <3>1, <3>2, <3>3
  <2>4. CASE m < n
    <3>1. Ahead(m + 1) <= Ahead(n)
      BY <2>3, <2>4, AheadIs
    <3> QED
      BY <2>1, <2>2, <2>3, <3>1 DEF IsCell
  <2>5. CASE n < m
    <3>1. Ahead(n + 1) <= Ahead(m)
      BY <2>3, <2>5, AheadIs
    <3> QED
      BY <2>1, <2>2, <2>3, <3>1 DEF IsCell
  <2>6. CASE m = n
    BY <2>1, <2>2, <2>3, <2>6
  <2> QED
    BY <2>3, <2>4, <2>5, <2>6
<1>3. <<n, i>>[1] = n /\ <<n, i>>[2] = i
  OBVIOUS
<1>4. \E c \in Stream : Ahead(c[1]) + c[2] = p
  BY <1>1, <1>3
<1> QED
  BY <1>2, <1>4 DEF CellAt

LEMMA WireKept ==
  ASSUME IInv, Wire, ServerStep
  PROVE  Wire'
<1>1. /\ TypeOK /\ Fifo /\ Task
  BY DEF IInv
<1>2. /\ writing \subseteq Packet /\ sent \in Nat
      /\ \A m \in received \cup writing \cup queue : m.n \in 1..sent
  BY <1>1 DEF TypeOK, Fifo, Live
<1>3. cut' = IF writing # {} /\ writing' = {} /\ received' = received THEN writing ELSE cut
  BY DEF ServerStep
<1>4. Running => cut = {}
  BY DEF Wire
<1>5. CASE SendFrame \/ SendConfig \/ SendShape \/ SendPos \/ SendPong \/ SendClipboard
  <2>1. PICK kind, ref : Send(kind, ref)
    BY <1>5 DEF SendFrame, SendConfig, SendShape, SendPos, SendPong, SendClipboard
  <2>2. /\ sent' = sent + 1
        /\ UNCHANGED <<received, writing, pc, report, reports, session>>
    BY <2>1 DEF Send, Notify
  <2>3. cut' = cut
    BY <1>3, <2>2
  <2> QED
    BY <1>2, <2>2, <2>3 DEF Wire, Running
<1>6. CASE TakeReport \/ Close
  <2>1. /\ UNCHANGED <<sent, received>> /\ report' = report
        /\ \/ writing' = {} /\ pc' = "done" /\ session' = "closed"
           \/ reports # "err" /\ session = "open" /\ UNCHANGED <<writing, pc, session>>
    BY <1>6 DEF TakeReport, Close, EndSession
  <2>2. CASE writing' = {} /\ pc' = "done" /\ session' = "closed"
    <3>1. ~Running'
      BY <2>2 DEF Running
    <3>2. cut' = cut \/ cut' = writing
      BY <1>3
    <3>3. \A r \in received, m \in writing : r.n < m.n
      BY <1>1 DEF Fifo
    <3> QED
      BY <1>2, <2>1, <2>2, <3>1, <3>2, <3>3 DEF Wire
  <2>3. CASE reports # "err" /\ session = "open" /\ UNCHANGED <<writing, pc, session>>
    <3>1. cut' = cut /\ pc # "done"
      BY <1>3, <2>3 DEF Wire
    <3> QED
      BY <2>1, <2>3, <3>1 DEF Wire, Running
  <2> QED
    BY <2>1, <2>2, <2>3
<1>7. CASE Pop
  <2>1. /\ pc = "pop" /\ pc' = "write" /\ UNCHANGED <<sent, received, report, reports, session>>
        /\ \E m : writing' = {m}
    BY <1>7 DEF Pop
  <2>2. cut' = cut /\ cut = {}
    BY <1>1, <1>3, <1>4, <2>1 DEF Task, Running
  <2> QED
    BY <2>1, <2>2 DEF Wire
<1>8. CASE Idle \/ Wake \/ SendReport
  <2>1. /\ UNCHANGED <<sent, received, writing, session>>
        /\ Running' <=> Running
        /\ pc' = "done" => reports' = "err"
    BY <1>1, <1>8 DEF Idle, Wake, SendReport, Running, TypeOK
  <2>2. cut' = cut
    BY <1>3, <2>1
  <2> QED
    BY <2>1, <2>2 DEF Wire
<1>9. ASSUME NEW result \in {"ok", "err"}, WriteDone(result)
      PROVE  Wire'
  <2>1. /\ pc = "write" /\ pc' = "report" /\ report' = result /\ writing' = {}
        /\ UNCHANGED <<sent, session>>
        /\ received' = IF result = "ok" THEN received \cup writing ELSE received
    BY <1>9 DEF WriteDone
  <2>2. cut = {}
    BY <1>1, <1>4, <2>1 DEF Task, Running
  <2>3. CASE result = "ok"
    <3>1. writing # {} => received' # received
      BY <1>1, <1>2, <2>1, <2>3 DEF Fifo
    <3>2. cut' = {}
      BY <1>3, <2>2, <3>1
    <3>3. IsFiniteSet(received')
      <4>1. CASE writing = {}
        BY <2>1, <2>3, <4>1 DEF Wire
      <4>2. ASSUME NEW w \in writing
            PROVE  IsFiniteSet(received')
        <5>1. writing = {w}
          BY DEF Wire
        <5> QED
          BY <2>1, <2>3, <5>1, FS_AddElement DEF Wire
      <4> QED
        BY <4>1, <4>2
    <3> QED
      BY <2>1, <3>2, <3>3 DEF Wire
  <2>4. CASE result = "err"
    <3>1. ~Running' /\ received' = received
      BY <2>1, <2>4 DEF Running
    <3>2. cut' = {} \/ cut' = writing
      BY <1>3, <2>2
    <3>3. \A r \in received, m \in writing : r.n < m.n
      BY <1>1 DEF Fifo
    <3> QED
      BY <1>2, <2>1, <3>1, <3>2, <3>3 DEF Wire
  <2> QED
    BY <2>3, <2>4
<1> QED
  BY <1>5, <1>6, <1>7, <1>8, <1>9 DEF ServerStep, Next, SessionStep, TaskStep

\* While the stream is read the server takes no step.
LEMMA ServerIsDone ==
  ASSUME IInv, Wire, Reads
  PROVE  ~ServerStep
<1>1. session = "closed"
  BY DEF Reads, Wire, IInv, TypeOK
<1>2. pc = "done"
  BY DEF Reads
<1>3. ~SessionStep
  BY <1>1 DEF SessionStep, SendFrame, SendConfig, SendShape, SendPos, SendPong, SendClipboard,
              Send, TakeReport, Close
<1>4. ~TaskStep
  BY <1>2 DEF TaskStep, Pop, Idle, Wake, SendReport, WriteDone
<1> QED
  BY <1>3, <1>4 DEF ServerStep, Next

LEMMA KnownIs ==
  ASSUME Whole
  PROVE  /\ \A k : k \in Known(Sent) <=> k \in 1..sent /\ KindAt(k) \notin Unknown
         /\ sent \in Nat
BY KindOf DEF Whole, Known

\* A reader's step leaves the stream as it is.
Frozen ==
  /\ Sent' = Sent /\ sent' = sent /\ PayloadsSent' = PayloadsSent
  /\ Known(Sent)' = Known(Sent) /\ Reads' = Reads
  /\ Known(received)' = Known(received) /\ Cardinality(Stream)' = Cardinality(Stream)
  /\ \A n : /\ KindAt(n)' = KindAt(n) /\ Ahead(n)' = Ahead(n)
            /\ PayloadOf(n)' = PayloadOf(n) /\ HeaderOf(n)' = HeaderOf(n)

LEMMA Freezes ==
  ASSUME UNCHANGED <<vars, cut>>
  PROVE  Frozen
<1>1. /\ UNCHANGED <<received, sent, pc, queue, report, reports, permit, cut>>
      /\ Sent' = Sent
  BY DEF vars, Sent
<1>2. Known(Sent)' = Known(Sent) /\ Known(received)' = Known(received) /\ Reads' = Reads
  BY <1>1 DEF Known, Reads, Sent
<1>3. Stream' = Stream
  BY <1>1 DEF Stream, CellsOfAll, CellsOf
<1>4. \A n : /\ KindAt(n)' = KindAt(n) /\ Ahead(n)' = Ahead(n)
             /\ PayloadOf(n)' = PayloadOf(n) /\ HeaderOf(n)' = HeaderOf(n)
  BY <1>1, <1>3 DEF KindAt, Ahead, PayloadOf, HeaderOf
<1>5. PayloadsSent' = PayloadsSent
  BY <1>1, <1>4 DEF PayloadsSent
<1> QED
  BY <1>1, <1>2, <1>3, <1>4, <1>5 DEF Frozen

LEMMA InSync ==
  ASSUME Whole, NEW n \in 1..(sent + 1), Reader(n)
  PROVE  StreamInSync /\ at # "closed"
<1>1. at \notin {"error", "closed"}
  BY DEF Reader, At, Between, HeaderRead, InPayload
<1>2. \A i, j \in 1..Len(delivered) : i < j => delivered[i].n < delivered[j].n
  BY DEF Reader, HandledUpTo, Follows
<1>3. ASSUME NEW i \in 1..Len(delivered)
      PROVE  /\ delivered[i].n \in Known(received \cup cut)
             /\ \A k \in Known(received \cup cut) :
                  k < delivered[i].n => \E j \in 1..Len(delivered) : delivered[j].n = k
  <2>1. n \in Nat /\ \A k \in Known(Sent) : k \in Nat
    BY KnownIs
  <2>2. delivered[i].n \in Known(Sent) /\ delivered[i].n <= n
    BY DEF Reader, HandledUpTo, Follows
  <2>3. \A k \in Known(Sent) : k < delivered[i].n => k < n
    BY <2>1, <2>2
  <2> QED
    BY <2>2, <2>3 DEF Reader, HandledUpTo, Follows, Sent
<1>4. Len(delivered) \in Nat
  BY DEF Reader, HandledUpTo, Follows
<1>5. ASSUME NEW i \in Handled
      PROVE  delivered[i].payload = PayloadOf(delivered[i].n)
  <2>1. i \in 1..Len(delivered)
    BY <1>4 DEF Handled
  <2>2. PayloadsSent[delivered[i].n] = PayloadOf(delivered[i].n)
    BY <1>3, <2>1, KnownIs DEF PayloadsSent, Sent
  <2>3. CASE at # "payload"
    <3>1. delivered[i].n <= n /\ delivered[i].n # n /\ delivered[i].n \in Nat /\ n \in Nat
      BY <2>1, <2>3, KnownIs DEF Reader, HandledUpTo, Follows
    <3> QED
      BY <2>1, <2>2, <3>1 DEF Reader, HandledUpTo, Follows
  <2>4. CASE at = "payload"
    <3>1. PICK g \in 0..2 : InPayload(n, g)
      BY <2>4 DEF Reader, At, Between, HeaderRead
    <3>2. PayloadLen(KindAt(n)) \in Nat
      BY <3>1, KindOf, LensOf DEF InPayload, Whole
    <3>3. payload_left > 0
      BY <3>1, <3>2 DEF InPayload
    <3>4. i < Len(delivered) /\ Len(delivered) \in 1..Len(delivered)
      BY <1>4, <3>3 DEF Handled
    <3>5. delivered[i].n < n
      BY <1>2, <2>1, <3>1, <3>4 DEF InPayload, Handling
    <3> QED
      BY <2>1, <2>2, <3>5 DEF Reader, HandledUpTo, Follows
  <2> QED
    BY <2>3, <2>4
<1> QED
  BY <1>1, <1>2, <1>3, <1>5 DEF StreamInSync

LEMMA Starts ==
  ASSUME Whole, Unread
  PROVE  Numbers /\ Reader(1) /\ 1 \in 1..(sent + 1)
<1>1. Ahead(1) = 0 /\ Cardinality(Stream) \in Nat /\ sent \in Nat
  BY AheadIs, StreamIs, FS_CardinalityType DEF Whole
<1>2. Len(delivered) = 0 /\ delivered \in Seq([n : Nat, payload : Seq(Nat \X Nat)])
  BY DEF Unread
<1>3. \A k \in Known(Sent) : ~(k < 1)
  BY KnownIs
<1>4. HandledUpTo(1)
  BY <1>2, <1>3 DEF HandledUpTo, Follows
<1>5. Between(1)
  BY <1>1 DEF Between, Unread
<1> QED
  BY <1>1, <1>4, <1>5 DEF Reader, At, Numbers, Unread

\* What was handled stays so.
LEMMA HandledSame ==
  ASSUME Frozen, NEW n, HandledUpTo(n), delivered' = delivered,
         (at' = "payload") = (at = "payload")
  PROVE  HandledUpTo(n)'
BY DEF HandledUpTo, Frozen

LEMMA SimpleSteps ==
  ASSUME Whole, Numbers, NEW n \in 1..(sent + 1), Reader(n), Frozen,
         Call \/ Fill \/ Cancel \/ Discard \/ Resume
  PROVE  Numbers' /\ Reader(n)'
<1>1. /\ HandledUpTo(n) /\ At(n) /\ Ahead(n) \in Nat /\ Cardinality(Stream) \in Nat
      /\ sent' = sent /\ Ahead(n)' = Ahead(n) /\ HeaderOf(n)' = HeaderOf(n)
      /\ KindAt(n)' = KindAt(n) /\ Cardinality(Stream)' = Cardinality(Stream)
  BY AheadIs, StreamIs, FS_CardinalityType DEF Reader, Frozen
<1>2. HeaderOf(n) # NoHeader
  BY DEF HeaderOf, NoHeader, BodyLen
<1>3. CASE Call
  <2>1. Between(n) \/ HeaderRead(n)
    BY <1>1, <1>3 DEF At, Call, InPayload
  <2>2. /\ at = "idle" /\ at' = "skip" /\ skip_left' = skip_left /\ payload_left' = payload_left
        /\ UNCHANGED <<arrived, taken, pending, header, delivered>>
    BY <1>3, <2>1 DEF Call, Between, HeaderRead, Numbers
  <2>3. Between(n)' \/ HeaderRead(n)'
    BY <1>1, <2>1, <2>2 DEF Between, HeaderRead
  <2>4. HandledUpTo(n)'
    BY <1>1, <2>2, HandledSame
  <2> QED
    BY <1>1, <2>2, <2>3, <2>4 DEF Reader, At, Numbers
<1>4. CASE Fill
  <2>1. /\ arrived' \in Nat /\ arrived <= arrived' /\ arrived' <= Cardinality(Stream)
        /\ UNCHANGED <<taken, pending, payload_left, skip_left, at, header, delivered>>
    BY <1>1, <1>4 DEF Fill, Numbers
  <2>2. HandledUpTo(n)'
    BY <1>1, <2>1, HandledSame
  <2>3. At(n)'
    <3>1. Between(n) => Between(n)'
      BY <1>1, <2>1 DEF Between
    <3>2. HeaderRead(n) => HeaderRead(n)'
      BY <1>1, <2>1 DEF HeaderRead
    <3>3. \A g \in 0..2 : InPayload(n, g) => InPayload(n, g)'
      BY <1>1, <2>1 DEF InPayload, Handling
    <3> QED
      BY <1>1, <3>1, <3>2, <3>3 DEF At
  <2> QED
    BY <1>1, <2>1, <2>2, <2>3 DEF Reader, Numbers
<1>5. CASE Cancel
  <2>1. Between(n) \/ HeaderRead(n)
    BY <1>1, <1>5 DEF At, Cancel, InPayload
  <2>2. /\ at \in {"skip", "header", "body"} /\ at' = "idle" /\ header' = NoHeader
        /\ UNCHANGED <<arrived, taken, pending, payload_left, skip_left, delivered>>
    BY <1>5 DEF Cancel
  <2>3. Between(n)' \/ HeaderRead(n)'
    BY <1>1, <2>1, <2>2 DEF Between, HeaderRead
  <2>4. HandledUpTo(n)'
    BY <1>1, <2>2, HandledSame
  <2> QED
    BY <1>1, <2>2, <2>3, <2>4 DEF Reader, At, Numbers
<1>6. CASE Discard
  <2>1. Between(n)
    BY <1>1, <1>6 DEF At, Discard, HeaderRead, InPayload
  <2>2. PICK k : /\ k = IF Buffered < skip_left THEN Buffered ELSE skip_left
                 /\ taken' = taken + k /\ skip_left' = skip_left - k
    BY <1>6 DEF Discard
  <2>3. /\ at = "skip" /\ UNCHANGED <<arrived, pending, payload_left, at, header, delivered>>
        /\ k \in Nat /\ taken' \in Nat /\ skip_left' \in Nat /\ taken' <= arrived
        /\ taken' + skip_left' = taken + skip_left
    BY <1>6, <2>2 DEF Discard, Numbers, Buffered
  <2>4. HandledUpTo(n)' /\ Between(n)'
    BY <1>1, <2>1, <2>3, HandledSame DEF Between
  <2> QED
    BY <1>1, <2>3, <2>4 DEF Reader, At, Numbers
<1>7. CASE Resume
  <2>1. Between(n) \/ HeaderRead(n)
    BY <1>1, <1>7 DEF At, Resume, InPayload
  <2>2. /\ at = "skip" /\ skip_left = 0 /\ header' = pending
        /\ at' = IF pending = NoHeader THEN "header" ELSE "body"
        /\ UNCHANGED <<arrived, taken, pending, payload_left, skip_left, delivered>>
    BY <1>7 DEF Resume
  <2>3. Between(n)' \/ HeaderRead(n)'
    BY <1>1, <1>2, <2>1, <2>2 DEF Between, HeaderRead
  <2>4. HandledUpTo(n)'
    BY <1>1, <2>2, HandledSame
  <2> QED
    BY <1>1, <2>2, <2>3, <2>4 DEF Reader, At, Numbers
<1> QED
  BY <1>3, <1>4, <1>5, <1>6, <1>7

\* A packet of which cells are there is one.
LEMMA InStream ==
  ASSUME Whole, NEW n \in 1..(sent + 1), Ahead(n) < Cardinality(Stream)
  PROVE  n \in 1..sent
<1>1. Ahead(sent + 1) = Cardinality(Stream) /\ Ahead(sent + 1) \in Nat /\ sent \in Nat
  BY AheadIs DEF Whole
<1> QED
  BY <1>1

LEMMA HeaderStep ==
  ASSUME Whole, Numbers, NEW n \in 1..(sent + 1), Reader(n), Frozen, ReadHeader
  PROVE  Numbers' /\ Reader(n)'
<1>1. /\ Between(n) /\ at = "header" /\ taken = Ahead(n) /\ skip_left = 0 /\ Ahead(n) \in Nat
      /\ pending = NoHeader /\ header = NoHeader /\ payload_left = 0
  BY AheadIs DEF Reader, At, ReadHeader, Between, HeaderRead, InPayload, Numbers
<1>2. arrived >= taken + 2 /\ taken' = taken + 2 /\ Cardinality(Stream) \in Nat
  BY StreamIs, FS_CardinalityType DEF ReadHeader, Has, Buffered, HeaderLen, Numbers
<1>3. n \in 1..sent
  BY <1>1, <1>2, InStream DEF Numbers
<1>4. LenOf(KindAt(n)) \in 3..5
  BY <1>3, KindOf, LensOf
<1>5. CellAt(taken + 1) = <<n, 1>> /\ CellAt(taken + 2) = <<n, 2>>
  BY <1>1, <1>3, <1>4, CellIs
<1>6. Cells(1)[1][1] = n
  BY <1>5 DEF Cells
<1>7. Cells(HeaderLen) = <<<<n, 1>>, <<n, 2>>>>
  <2>1. Cells(2) = [i \in 1..2 |-> CellAt(taken + i)]
    BY DEF Cells
  <2>2. Cells(2) = <<CellAt(taken + 1), CellAt(taken + 2)>>
    BY <2>1
  <2> QED
    BY <1>5, <2>2 DEF HeaderLen
<1>8. /\ header' = HeaderOf(n) /\ pending' = HeaderOf(n) /\ at' = "body"
      /\ UNCHANGED <<arrived, payload_left, skip_left, delivered>>
  BY <1>6, <1>7 DEF ReadHeader, Stored
<1>9. HeaderRead(n)'
  BY <1>1, <1>2, <1>3, <1>8 DEF HeaderRead, Frozen, HeaderLen
<1>10. HandledUpTo(n)'
  BY <1>1, <1>8, HandledSame DEF Reader
<1> QED
  BY <1>1, <1>2, <1>8, <1>9, <1>10 DEF Reader, At, Numbers, Frozen

\* Where the reader is behind packet n.
LEMMA NextPacket ==
  ASSUME Whole, NEW n \in 1..sent
  PROVE  /\ Ahead(n + 1) = Ahead(n) + 3 + PayloadLen(KindAt(n)) /\ n + 1 \in 1..(sent + 1)
         /\ Ahead(n) \in Nat /\ PayloadLen(KindAt(n)) \in 0..2
         /\ LenOf(KindAt(n)) = 3 + PayloadLen(KindAt(n))
<1>1. LenOf(KindAt(n)) = 3 + PayloadLen(KindAt(n)) /\ PayloadLen(KindAt(n)) \in 0..2
  BY KindOf, LensOf
<1>2. Ahead(n) \in Nat
  BY AheadIs
<1> QED
  BY <1>1, <1>2, AheadNext DEF Whole

\* The messages before n and n itself, if it is known, make those before n + 1.
LEMMA FollowsOn ==
  ASSUME NEW known \in SUBSET Nat, NEW payloads, NEW n \in Nat, NEW reading,
         NEW d, NEW e, Follows(d, known, payloads, n, reading),
         \/ n \notin known /\ ~reading /\ e = d
         \/ \E x \in Message : /\ n \in known /\ ~reading /\ x.n = n /\ x.payload = payloads[n]
                              /\ e = Append(d, x)
         \/ /\ n \in known /\ Len(d) > 0 /\ d[Len(d)].n = n
            /\ payloads[n] \in Seq(Nat \X Nat)
            /\ e = [d EXCEPT ![Len(d)].payload = payloads[n]]
  PROVE  Follows(e, known, payloads, n + 1, FALSE)
<1>1. d \in Seq(Message) /\ Len(d) \in Nat
  BY DEF Follows
<1>2. \A i \in 1..Len(d) : d[i] \in Message /\ d[i].n \in Nat
  <2>1. \A i \in 1..Len(d) : d[i] \in Message
    BY <1>1
  <2> QED
    BY <2>1 DEF Message
<1>3. /\ \A i, j \in 1..Len(d) : i < j => d[i].n < d[j].n
      /\ \A i \in 1..Len(d) :
           /\ d[i].n \in known /\ d[i].n <= n
           /\ d[i].n = n => reading
           /\ d[i].n < n => d[i].payload = payloads[d[i].n]
      /\ \A k \in known : k < n => \E i \in 1..Len(d) : d[i].n = k
  BY DEF Follows
<1>4. \A k \in known : k \in Nat /\ (k < n + 1 <=> k < n \/ k = n)
  OBVIOUS
<1> DEFINE Done ==
      /\ e \in Seq(Message)
      /\ \A i, j \in 1..Len(e) : i < j => e[i].n < e[j].n
      /\ \A i \in 1..Len(e) : /\ e[i].n \in known /\ e[i].n <= n
                              /\ e[i].payload = payloads[e[i].n]
      /\ \A k \in known : k < n + 1 => \E i \in 1..Len(e) : e[i].n = k
<1>5. ASSUME Done
      PROVE  Follows(e, known, payloads, n + 1, FALSE)
  <2>1. \A i \in 1..Len(e) : e[i].n \in Nat /\ e[i].n <= n + 1 /\ e[i].n # n + 1
    BY <1>4, <1>5
  <2> QED
    BY <1>5, <2>1 DEF Follows
<1>6. CASE n \notin known /\ ~reading /\ e = d
  <2>1. \A i \in 1..Len(d) : d[i].n < n
    BY <1>2, <1>3, <1>6
  <2>2. Done
    BY <1>1, <1>3, <1>4, <1>6, <2>1
  <2> QED
    BY <1>5, <2>2
<1>7. ASSUME NEW x \in Message, n \in known, ~reading, x.n = n, x.payload = payloads[n],
             e = Append(d, x)
      PROVE  Done
  <2>1. /\ e \in Seq(Message) /\ Len(e) = Len(d) + 1 /\ e[Len(d) + 1] = x
        /\ \A i \in 1..Len(d) : e[i] = d[i]
    BY <1>1, <1>7
  <2>2. \A i \in 1..Len(d) : d[i].n < n
    BY <1>2, <1>3, <1>7
  <2>3. \A i \in 1..Len(e) : i \in 1..Len(d) \/ i = Len(d) + 1
    BY <1>1, <2>1
  <2>4. ASSUME NEW i \in 1..Len(e), NEW j \in 1..Len(e), i < j
        PROVE  e[i].n < e[j].n
    <3>1. i \in 1..Len(d)
      BY <1>1, <2>1, <2>4
    <3> QED
      BY <1>1, <1>3, <1>7, <2>1, <2>2, <2>3, <2>4, <3>1
  <2>5. ASSUME NEW i \in 1..Len(e)
        PROVE  e[i].n \in known /\ e[i].n <= n /\ e[i].payload = payloads[e[i].n]
    BY <1>3, <1>7, <2>1, <2>2, <2>3
  <2>6. ASSUME NEW k \in known, k < n + 1
        PROVE  \E i \in 1..Len(e) : e[i].n = k
    <3>1. CASE k < n
      <4>1. PICK i \in 1..Len(d) : d[i].n = k
        BY <1>3, <3>1
      <4> QED
        BY <1>1, <2>1, <4>1
    <3>2. CASE k = n
      BY <1>1, <1>7, <2>1, <3>2
    <3> QED
      BY <1>4, <2>6, <3>1, <3>2
  <2> QED
    BY <2>1, <2>4, <2>5, <2>6
<1>8. CASE /\ n \in known /\ Len(d) > 0 /\ d[Len(d)].n = n
           /\ payloads[n] \in Seq(Nat \X Nat)
           /\ e = [d EXCEPT ![Len(d)].payload = payloads[n]]
  <2>1. Len(d) \in 1..Len(d)
    BY <1>1, <1>8
  <2> DEFINE x == [d[Len(d)] EXCEPT !.payload = payloads[n]]
  <2>2. x \in Message /\ x.n = n /\ x.payload = payloads[n]
    BY <1>2, <1>8, <2>1 DEF Message
  <2>3. e = [d EXCEPT ![Len(d)] = x]
    BY <1>8
  <2> HIDE DEF x
  <2>4. /\ e \in Seq(Message) /\ Len(e) = Len(d) /\ e[Len(d)] = x
        /\ \A i \in 1..Len(d) : i # Len(d) => e[i] = d[i]
    BY <1>1, <2>1, <2>2, <2>3
  <2>5. \A i \in 1..Len(d) : e[i].n = d[i].n
    BY <1>8, <2>2, <2>4
  <2>6. \A i \in 1..Len(d) : i # Len(d) => i < Len(d)
    BY <1>1
  <2>7. \A i \in 1..Len(d) : i # Len(d) => d[i].n < n
    BY <1>3, <1>8, <2>1, <2>6
  <2>8. \A i \in 1..Len(e) : e[i].payload = payloads[e[i].n]
    BY <1>3, <1>8, <2>2, <2>4, <2>7
  <2>9. ASSUME NEW k \in known, k < n + 1
        PROVE  \E i \in 1..Len(e) : e[i].n = k
    <3>1. \E i \in 1..Len(d) : d[i].n = k
      BY <1>3, <1>4, <1>8, <2>1, <2>9
    <3> QED
      BY <2>4, <2>5, <3>1
  <2>10. Done
    BY <1>3, <2>4, <2>5, <2>8, <2>9
  <2> QED
    BY <1>5, <2>10
<1> HIDE DEF Done
<1> QED
  BY <1>5, <1>6, <1>7, <1>8

LEMMA FollowsInto ==
  ASSUME NEW known \in SUBSET Nat, NEW payloads, NEW n \in known,
         NEW d, Follows(d, known, payloads, n, FALSE), NEW x \in Message, x.n = n
  PROVE  Follows(Append(d, x), known, payloads, n, TRUE)
<1>1. d \in Seq(Message) /\ Len(d) \in Nat
  BY DEF Follows
<1>2. \A i \in 1..Len(d) : d[i] \in Message /\ d[i].n \in Nat
  <2>1. \A i \in 1..Len(d) : d[i] \in Message
    BY <1>1
  <2> QED
    BY <2>1 DEF Message
<1>3. /\ \A i, j \in 1..Len(d) : i < j => d[i].n < d[j].n
      /\ \A i \in 1..Len(d) :
           d[i].n \in known /\ d[i].n <= n /\ d[i].n # n /\ d[i].payload = payloads[d[i].n]
      /\ \A k \in known : k < n => \E i \in 1..Len(d) : d[i].n = k
  <2>1. /\ \A i, j \in 1..Len(d) : i < j => d[i].n < d[j].n
        /\ \A i \in 1..Len(d) :
             /\ d[i].n \in known /\ d[i].n <= n /\ d[i].n # n
             /\ d[i].n < n => d[i].payload = payloads[d[i].n]
        /\ \A k \in known : k < n => \E i \in 1..Len(d) : d[i].n = k
    BY DEF Follows
  <2>2. n \in Nat
    OBVIOUS
  <2>3. \A i \in 1..Len(d) : d[i].n \in Nat /\ d[i].n < n
    <3> TAKE i \in 1..Len(d)
    <3>1. d[i].n \in Nat /\ d[i].n <= n /\ d[i].n # n
      BY <1>2, <2>1
    <3> QED
      BY <2>2, <3>1
  <2> QED
    BY <2>1, <2>3
<1> DEFINE e == Append(d, x)
<1>4. /\ e \in Seq(Message) /\ Len(e) = Len(d) + 1 /\ e[Len(d) + 1] = x
      /\ \A i \in 1..Len(d) : e[i] = d[i]
  BY <1>1
<1> HIDE DEF e
<1>5. \A i \in 1..Len(e) : i \in 1..Len(d) \/ i = Len(d) + 1
  BY <1>1, <1>4
<1>6. ASSUME NEW i \in 1..Len(e), NEW j \in 1..Len(e), i < j
      PROVE  e[i].n < e[j].n
  <2>1. i \in 1..Len(d)
    BY <1>1, <1>4, <1>6
  <2> QED
    BY <1>1, <1>2, <1>3, <1>4, <1>5, <1>6, <2>1
<1>7. ASSUME NEW i \in 1..Len(e)
      PROVE  /\ e[i].n \in known /\ e[i].n <= n
             /\ e[i].n < n => e[i].payload = payloads[e[i].n]
  BY <1>3, <1>4, <1>5
<1>8. ASSUME NEW k \in known, k < n
      PROVE  \E i \in 1..Len(e) : e[i].n = k
  <2>1. PICK i \in 1..Len(d) : d[i].n = k
    BY <1>3, <1>8
  <2> QED
    BY <1>1, <1>4, <2>1
<1> QED
  BY <1>4, <1>6, <1>7, <1>8 DEF Follows, e

LEMMA FollowsSame ==
  ASSUME NEW known, NEW payloads, NEW n \in Nat, NEW d, NEW e,
         Follows(d, known, payloads, n, TRUE), Len(d) > 0, d[Len(d)].n = n,
         e \in Seq(Message), Len(e) = Len(d), e[Len(d)].n = n,
         \A i \in 1..Len(d) : i # Len(d) => e[i] = d[i]
  PROVE  Follows(e, known, payloads, n, TRUE)
<1>1. d \in Seq(Message) /\ Len(d) \in Nat
  BY DEF Follows
<1>2. \A i \in 1..Len(d) : e[i].n = d[i].n
  OBVIOUS
<1>3. \A i \in 1..Len(d) : d[i].n < n => i # Len(d)
  OBVIOUS
<1> QED
  BY <1>1, <1>2, <1>3 DEF Follows

LEMMA SameSeq ==
  ASSUME NEW S, NEW s \in Seq(S), NEW t \in Seq(S), Len(s) = Len(t),
         \A i \in 1..Len(s) : s[i] = t[i]
  PROVE  s = t
OBVIOUS

\* With packet n behind it the reader is at the next.
LEMMA ReaderOn ==
  ASSUME Whole, NEW n \in 1..sent, HandledUpTo(n), Frozen,
         \/ KindAt(n) \in Unknown /\ at # "payload" /\ delivered' = delivered
         \/ /\ KindAt(n) \notin Unknown /\ at # "payload"
            /\ \E x \in Message : /\ x.n = n /\ x.payload = PayloadOf(n)
                                  /\ delivered' = Append(delivered, x)
         \/ /\ KindAt(n) \notin Unknown /\ delivered # <<>> /\ Handling.n = n
            /\ PayloadOf(n) \in Seq(Nat \X Nat)
            /\ delivered' = [delivered EXCEPT ![Len(delivered)].payload = PayloadOf(n)],
         at' \in {"idle", "skip"}, pending' = NoHeader, header' = NoHeader, payload_left' = 0,
         taken' + skip_left' = Ahead(n) + 3 + PayloadLen(KindAt(n))
  PROVE  Reader(n + 1)' /\ n + 1 \in 1..(sent + 1)
<1>1. n \in Nat /\ Known(Sent) \in SUBSET Nat /\ (n \in Known(Sent) <=> KindAt(n) \notin Unknown)
  BY KnownIs
<1>2. PayloadsSent[n] = PayloadOf(n)
  BY DEF PayloadsSent
<1>3. Len(delivered) \in Nat /\ (delivered # <<>> => Len(delivered) > 0)
  BY EmptySeq DEF HandledUpTo, Follows
<1>4. Follows(delivered', Known(Sent), PayloadsSent, n + 1, FALSE)
  BY <1>1, <1>2, <1>3, FollowsOn DEF HandledUpTo, Handling
<1>5. HandledUpTo(n + 1)'
  BY <1>4 DEF HandledUpTo, Frozen, Follows
<1>6. taken' + skip_left' = Ahead(n + 1) /\ n + 1 \in 1..(sent + 1)
  BY NextPacket
<1>7. Between(n + 1)'
  BY <1>6 DEF Between, Frozen
<1> QED
  BY <1>5, <1>6, <1>7 DEF Reader, At

\* The first i cells of a payload.
Got(n, i) == [j \in 1..i |-> <<n, HeaderLen + BodyLen + j>>]

LEMMA GotType ==
  ASSUME NEW n \in Nat, NEW i \in Nat
  PROVE  Got(n, i) \in Seq(Nat \X Nat) /\ Len(Got(n, i)) = i
<1>1. \A j \in 1..i : <<n, HeaderLen + BodyLen + j>> \in Nat \X Nat
  BY DEF HeaderLen, BodyLen
<1>2. Got(n, i) \in [1..i -> Nat \X Nat]
  BY <1>1 DEF Got
<1> QED
  BY <1>2

LEMMA BodyStep ==
  ASSUME Whole, Numbers, NEW n \in 1..(sent + 1), Reader(n), Frozen, ReadBody
  PROVE  Numbers' /\ \E m \in 1..(sent + 1) : Reader(m)'
<1>1. /\ HeaderRead(n) /\ at = "body" /\ header = HeaderOf(n) /\ n <= sent
      /\ taken = Ahead(n) + 2 /\ skip_left = 0 /\ payload_left = 0
  BY DEF Reader, At, ReadBody, Between, HeaderRead, InPayload, HeaderLen
<1>2. n \in 1..sent /\ header.body_len = 1 /\ header.payload_len = PayloadLen(KindAt(n))
  BY <1>1, KnownIs DEF HeaderOf, BodyLen
<1>3. /\ arrived >= taken + 1 /\ taken' = taken + 1 /\ arrived' = arrived
      /\ pending' = NoHeader /\ header' = NoHeader
  BY <1>2 DEF ReadBody, Has, Buffered, Numbers
<1> DEFINE len == PayloadLen(KindAt(n))
<1>4. /\ Ahead(n) \in Nat /\ len \in 0..2 /\ LenOf(KindAt(n)) = 3 + len
  BY <1>2, NextPacket
<1>5. CellAt(taken + 1) = <<n, 3>>
  BY <1>1, <1>2, <1>4, CellIs
<1>6. Cells(1)[1][1] = n /\ Cells(1)[1][2] = 3
  BY <1>5 DEF Cells
<1>7. HandledUpTo(n)
  BY DEF Reader
<1>8. taken' = Ahead(n) + 3 /\ taken' \in Nat /\ taken' <= arrived
  BY <1>1, <1>3, <1>4 DEF Numbers
<1>9. CASE KindAt(n) \in Unknown
  <2>1. /\ skip_left' = len /\ at' = "skip" /\ payload_left' = 0 /\ delivered' = delivered
    BY <1>1, <1>2, <1>4, <1>6, <1>9 DEF ReadBody, HeaderLen, BodyLen
  <2>2. taken' + skip_left' = Ahead(n) + 3 + PayloadLen(KindAt(n))
    BY <1>8, <2>1
  <2>3. Reader(n + 1)' /\ n + 1 \in 1..(sent + 1)
    BY <1>1, <1>2, <1>3, <1>7, <1>9, <2>1, <2>2, ReaderOn
  <2> QED
    BY <1>3, <1>4, <1>8, <2>1, <2>3 DEF Numbers, Frozen
<1>10. CASE KindAt(n) \notin Unknown
  <2> DEFINE x == [n |-> n, payload |-> <<>>]
  <2>1. /\ payload_left' = len /\ delivered' = Append(delivered, x) /\ skip_left' = 0
        /\ at' = IF Payloads(KindAt(n)) = <<>> THEN "idle" ELSE "payload"
    BY <1>1, <1>2, <1>6, <1>10 DEF ReadBody, HeaderLen, BodyLen
  <2>2. /\ x \in Message /\ x.n = n /\ x.payload = <<>>
    BY <1>2, KnownIs DEF Message
  <2>3. Got(n, 0) = <<>>
    BY DEF Got
  <2> HIDE DEF x
  <2>4. CASE Payloads(KindAt(n)) = <<>>
    <3>1. len = 0
      BY <1>2, <2>4, KindOf, LensOf
    <3>2. PayloadOf(n) = <<>>
      BY <3>1, <2>3 DEF PayloadOf, Got
    <3>3. taken' + skip_left' = Ahead(n) + 3 + PayloadLen(KindAt(n)) /\ payload_left' = 0
      BY <1>4, <1>8, <2>1, <3>1
    <3>4. at' = "idle"
      BY <2>1, <2>4
    <3>5. Reader(n + 1)' /\ n + 1 \in 1..(sent + 1)
      BY <1>1, <1>2, <1>3, <1>7, <1>10, <2>1, <2>2, <3>2, <3>3, <3>4, ReaderOn
    <3> QED
      BY <1>3, <1>8, <2>1, <3>5 DEF Numbers, Frozen
  <2>5. CASE Payloads(KindAt(n)) # <<>>
    <3>1. len > 0
      BY <1>2, <2>5, KindOf, LensOf
    <3>2. at' = "payload"
      BY <2>1, <2>5
    <3>3. HandledUpTo(n)'
      <4>1. Follows(delivered, Known(Sent), PayloadsSent, n, FALSE)
        BY <1>1, <1>7 DEF HandledUpTo
      <4>2. n \in Known(Sent) /\ n \in Nat /\ Known(Sent) \in SUBSET Nat
        BY <1>2, <1>10, KnownIs
      <4>3. Follows(Append(delivered, x), Known(Sent), PayloadsSent, n, TRUE)
        BY <2>2, <4>1, <4>2, FollowsInto
      <4> QED
        BY <2>1, <3>2, <4>3 DEF HandledUpTo, Frozen
    <3>4. delivered' # <<>> /\ Handling' = x
      <4>1. delivered \in Seq(Message)
        BY <1>7 DEF HandledUpTo, Follows
      <4> QED
        BY <2>1, <2>2, <4>1 DEF Handling
    <3>5. InPayload(n, 0)'
      BY <1>2, <1>3, <1>4, <1>8, <1>10, <2>1, <2>2, <2>3, <3>1, <3>2, <3>4
      DEF InPayload, Frozen, HeaderLen, BodyLen, Got
    <3> QED
      BY <1>3, <1>8, <2>1, <3>3, <3>5 DEF Numbers, Frozen, Reader, At
  <2> QED
    BY <2>4, <2>5
<1> QED
  BY <1>9, <1>10

LEMMA PayloadStep ==
  ASSUME Whole, Numbers, NEW n \in 1..(sent + 1), Reader(n), Frozen, ReadPayload
  PROVE  Numbers' /\ \E m \in 1..(sent + 1) : Reader(m)'
<1>1. PICK g \in 0..2 : InPayload(n, g)
  BY DEF Reader, At, ReadPayload, Between, HeaderRead
<1> DEFINE lens == Payloads(KindAt(n))
           len == PayloadLen(KindAt(n))
<1>2. sent \in Nat /\ n <= sent
  BY <1>1, KnownIs DEF InPayload
<1>3. n \in 1..sent /\ n \in Nat /\ g \in Nat /\ g \in Int
  BY <1>2
<1>4. Handling.payload = Got(n, g)
  BY <1>1 DEF InPayload, Got
<1>5. taken = Ahead(n) + 3 + g
  <2>1. Ahead(n) \in Nat
    BY AheadIs
  <2> QED
    BY <1>1, <2>1 DEF InPayload, HeaderLen, BodyLen
<1>6. /\ n \in 1..sent /\ n \in Nat /\ KindAt(n) \notin Unknown /\ at = "payload"
      /\ pending = NoHeader /\ header = NoHeader /\ skip_left = 0
      /\ taken = Ahead(n) + 3 + g /\ payload_left = len - g /\ g < len
      /\ g = 0 \/ (Len(lens) = 2 /\ g = lens[1])
      /\ delivered # <<>> /\ Handling.n = n /\ Handling.payload = Got(n, g)
  BY <1>1, <1>3, <1>4, <1>5 DEF InPayload
<1>7. /\ Ahead(n) \in Nat /\ len \in 0..2 /\ LenOf(KindAt(n)) = 3 + len
  BY <1>6, NextPacket
<1>8. /\ Len(lens) \in 1..2 /\ lens[1] \in 1..2
      /\ Len(lens) = 1 => len = lens[1]
      /\ Len(lens) = 2 => lens[1] = 1 /\ lens[2] = 1 /\ len = 2
  BY <1>6, KindOf, LensOf
<1>9. Len(Handling.payload) = g
  BY <1>6, <1>3, GotType
<1> DEFINE second == g >= lens[1]
<1>10. second = (g # 0) /\ second \in BOOLEAN
  BY <1>6, <1>8
<1> DEFINE k == IF second THEN lens[2] ELSE lens[1]
<1>11. k \in 1..2 /\ g + k <= len /\ (second \/ Len(lens) = 1 <=> g + k = len)
  BY <1>6, <1>8, <1>10
<1> DEFINE got == Handling.payload \o Cells(k)
<1>12. /\ Has(k)
      /\ IF k > payload_left
           THEN at' = "error" /\ UNCHANGED <<taken, payload_left, delivered>>
           ELSE /\ taken' = taken + k /\ payload_left' = payload_left - k
                /\ delivered' = [delivered EXCEPT ![Len(delivered)].payload = got]
                /\ at' = IF second \/ Len(lens) = 1 THEN "idle" ELSE "payload"
      /\ UNCHANGED <<arrived, pending, skip_left, header>>
  BY <1>6, <1>9 DEF ReadPayload
<1> HIDE DEF k, second, len, lens
<1>13. k \in Nat /\ g + k \in Nat /\ k \in Int
  BY <1>11, <1>3
<1>14. Cells(k) = [i \in 1..k |-> <<n, 3 + g + i>>]
  <2>1. \A i \in 1..k : CellAt(taken + i) = <<n, 3 + g + i>>
    <3> TAKE i \in 1..k
    <3>1. 3 + g + i \in 1..LenOf(KindAt(n)) /\ taken + i = Ahead(n) + (3 + g + i)
      BY <1>6, <1>7, <1>11
    <3> QED
      BY <1>6, <3>1, CellIs
  <2> QED
    BY <2>1 DEF Cells
<1>15. got = Got(n, g + k)
  <2>1. got = Got(n, g) \o [i \in 1..k |-> <<n, 3 + g + i>>]
    BY <1>6, <1>14
  <2>2. Got(n, g) \in Seq(Nat \X Nat) /\ Len(Got(n, g)) = g
    BY <1>3, GotType
  <2>3. [i \in 1..k |-> <<n, 3 + g + i>>] \in Seq(Nat \X Nat)
        /\ Len([i \in 1..k |-> <<n, 3 + g + i>>]) = k
    BY <1>6, <1>11
  <2>4. got \in Seq(Nat \X Nat) /\ Len(got) = g + k
    BY <1>3, <1>13, <2>1, <2>2, <2>3
  <2>5. \A i \in 1..(g + k) : got[i] = <<n, 3 + i>>
    <3> TAKE i \in 1..(g + k)
    <3>1. CASE i <= g
      <4>1. got[i] = Got(n, g)[i]
        BY <1>11, <2>1, <2>2, <2>3, <3>1
      <4> QED
        BY <3>1, <4>1 DEF Got, HeaderLen, BodyLen
    <3>2. CASE i > g
      <4>1. i - g \in 1..k /\ 3 + g + (i - g) = 3 + i
        BY <1>11, <3>2
      <4>2. got[i] = [j \in 1..k |-> <<n, 3 + g + j>>][i - g]
        BY <1>11, <2>1, <2>2, <2>3, <3>2, <4>1
      <4> QED
        BY <4>1, <4>2
    <3>3. i \in Int
      OBVIOUS
    <3>4. i <= g \/ i > g
      BY <1>3, <3>3
    <3> QED
      BY <3>1, <3>2, <3>4
  <2>6. Got(n, g + k) \in Seq(Nat \X Nat) /\ Len(Got(n, g + k)) = g + k
    BY <1>3, <1>13, GotType
  <2>7. \A i \in 1..(g + k) : Got(n, g + k)[i] = <<n, 3 + i>>
    BY <1>11 DEF Got, HeaderLen, BodyLen
  <2> HIDE DEF got
  <2> QED
    BY <2>4, <2>5, <2>6, <2>7, SameSeq
<1> HIDE DEF got
<1>16. ~(k > payload_left)
  BY <1>6, <1>7, <1>11
<1>17. /\ taken' = taken + k /\ payload_left' = payload_left - k
       /\ delivered' = [delivered EXCEPT ![Len(delivered)].payload = got]
       /\ at' = IF second \/ Len(lens) = 1 THEN "idle" ELSE "payload"
       /\ arrived' = arrived /\ pending' = NoHeader /\ header' = NoHeader /\ skip_left' = 0
       /\ arrived >= taken + k
  BY <1>6, <1>11, <1>12, <1>16 DEF Has, Buffered, Numbers
<1>18. Numbers'
  BY <1>11, <1>17 DEF Numbers, Frozen
<1>19. HandledUpTo(n)
  BY DEF Reader
<1>20. got \in Seq(Nat \X Nat)
  BY <1>15, <1>3, <1>13, GotType
<1>21. CASE g + k = len
  <2>1. got = PayloadOf(n)
    BY <1>15, <1>21 DEF Got, PayloadOf, len
  <2>2. at' = "idle" /\ payload_left' = 0
    BY <1>6, <1>7, <1>11, <1>17, <1>21
  <2>3. taken' + skip_left' = Ahead(n) + 3 + PayloadLen(KindAt(n))
    BY <1>6, <1>7, <1>11, <1>17, <1>21 DEF len
  <2>4. delivered' = [delivered EXCEPT ![Len(delivered)].payload = PayloadOf(n)]
    BY <1>17, <2>1
  <2>5. Reader(n + 1)' /\ n + 1 \in 1..(sent + 1)
    BY <1>6, <1>17, <1>19, <1>20, <2>1, <2>2, <2>3, <2>4, ReaderOn
  <2> QED
    BY <1>18, <2>5 DEF Frozen
<1>22. CASE g + k # len
  <2>1. at' = "payload" /\ Len(lens) = 2 /\ g = 0 /\ k = lens[1]
    BY <1>6, <1>8, <1>10, <1>11, <1>17, <1>22 DEF k
  <2>2. /\ taken' = Ahead(n) + 3 + k /\ payload_left' = len - k /\ k < len /\ k \in 0..2
    BY <1>6, <1>7, <1>11, <1>17, <1>22, <2>1
  <2>3. delivered \in Seq(Message) /\ Len(delivered) \in Nat /\ Len(delivered) > 0
    BY <1>6, <1>19, EmptySeq DEF HandledUpTo, Follows
  <2> DEFINE x == [Handling EXCEPT !.payload = got]
  <2>4. Handling \in Message
    BY <2>3 DEF Handling
  <2>5. x \in Message /\ x.n = n /\ x.payload = got
    BY <1>6, <1>20, <2>4 DEF Message
  <2>6. delivered' = [delivered EXCEPT ![Len(delivered)] = x]
    BY <1>17 DEF Handling
  <2> HIDE DEF x
  <2>7. /\ delivered' \in Seq(Message) /\ Len(delivered') = Len(delivered)
        /\ delivered'[Len(delivered)] = x
        /\ \A i \in 1..Len(delivered) : i # Len(delivered) => delivered'[i] = delivered[i]
    BY <2>3, <2>5, <2>6
  <2>8. HandledUpTo(n)'
    <3>1. Follows(delivered, Known(Sent), PayloadsSent, n, TRUE)
      BY <1>6, <1>19 DEF HandledUpTo
    <3>2. delivered[Len(delivered)].n = n
      BY <1>6 DEF Handling
    <3>3. Follows(delivered', Known(Sent), PayloadsSent, n, TRUE)
      BY <1>6, <2>3, <2>5, <2>7, <3>1, <3>2, FollowsSame
    <3> QED
      BY <2>1, <3>3 DEF HandledUpTo, Frozen
  <2>9. delivered' # <<>> /\ Handling' = x
    BY <2>3, <2>7, EmptySeq DEF Handling
  <2>10. InPayload(n, 1)'
    <3>1. KindAt(n)' = KindAt(n) /\ Ahead(n)' = Ahead(n) /\ sent' = sent
      BY DEF Frozen
    <3>2. k = 1
      BY <1>8, <2>1
    <3>3. x.payload = [i \in 1..1 |-> <<n, HeaderLen + BodyLen + i>>]
      <4>1. g + k = 1
        BY <2>1, <3>2
      <4> QED
        BY <1>15, <2>5, <4>1 DEF Got
    <3>4. Len(Payloads(KindAt(n))) = 2 /\ 1 = Payloads(KindAt(n))[1]
      BY <2>1, <3>2 DEF lens
    <3>5. payload_left' = PayloadLen(KindAt(n)) - 1 /\ 1 < PayloadLen(KindAt(n))
      BY <2>2, <3>2 DEF len
    <3>6. taken' = Ahead(n) + HeaderLen + BodyLen + 1
      BY <1>7, <2>2, <3>2 DEF HeaderLen, BodyLen
    <3> QED
      BY <1>6, <1>17, <1>2, <2>1, <2>5, <2>9, <3>1, <3>3, <3>4, <3>5, <3>6 DEF InPayload
  <2>11. Reader(n)'
    BY <2>8, <2>10 DEF Reader, At
  <2> QED
    BY <1>18, <2>11 DEF Frozen
<1> QED
  BY <1>21, <1>22

\* What holds of the messages handled holds of them behind a step that leaves
\* them alone, if it does not end the stream.
LEMMA SyncSame ==
  ASSUME Frozen, StreamInSync, delivered' = delivered, payload_left' = payload_left,
         at' # "error",
         at' = "closed" => \A k \in Known(received) : \E i \in Handled : delivered[i].n = k
  PROVE  StreamInSync'
<1>1. Handled' = Handled
  BY DEF Handled
<1>2. Known(received \cup cut)' = Known(received \cup cut)
  BY DEF Frozen, Sent
<1>3. (\A i \in Handled : delivered[i].payload = PayloadOf(delivered[i].n))'
  BY <1>1 DEF Frozen, StreamInSync
<1>4. (\A i \in 1..Len(delivered) :
         /\ delivered[i].n \in Known(received \cup cut)
         /\ \A n \in Known(received \cup cut) :
              n < delivered[i].n => \E j \in 1..Len(delivered) : delivered[j].n = n)'
  BY <1>2 DEF StreamInSync
<1>5. (\A i, j \in 1..Len(delivered) : i < j => delivered[i].n < delivered[j].n)'
  BY DEF StreamInSync
<1>6. (at = "closed" =>
         \A n \in Known(received) : \E i \in Handled : delivered[i].n = n)'
  BY <1>1 DEF Frozen
<1> QED
  BY <1>3, <1>4, <1>5, <1>6 DEF StreamInSync

\* What was written whole is in front of everything else.
LEMMA WholeAhead ==
  ASSUME Whole, Wire, NEW m \in received
  PROVE  Ahead(m.n + 1) <= Cardinality(CellsOfAll(received))
<1>1. Upto(m.n + 1) \subseteq CellsOfAll(received)
  <2> SUFFICES ASSUME NEW c \in Stream, c[1] < m.n + 1
               PROVE  c \in CellsOfAll(received)
    BY DEF Upto
  <2>1. PICK p \in received \cup cut : \E i \in 1..LenOf(p.kind) : c = <<p.n, i>>
    BY DEF Stream, CellsOfAll, CellsOf
  <2>2. m.n \in Nat /\ p.n \in Nat
    BY DEF Whole, Sent, Packet
  <2>3. p.n <= m.n
    BY <2>1, <2>2
  <2>4. p \in received
    BY <2>2, <2>3 DEF Wire
  <2> QED
    BY <2>1, <2>4 DEF CellsOfAll, CellsOf
<1>2. CellsOfAll(received) \in SUBSET Stream
  BY DEF Stream, CellsOfAll
<1>3. IsFiniteSet(CellsOfAll(received))
  BY <1>2, StreamIs, FS_Subset
<1> QED
  BY <1>1, <1>3, AheadIs, FS_Subset

LEMMA EndStep ==
  ASSUME Whole, Wire, Numbers, NEW n \in 1..(sent + 1), Reader(n), Frozen, EndOfStream
  PROVE  Numbers' /\ at' = "closed" /\ StreamInSync'
<1>1. /\ Blocked /\ arrived >= Cardinality(CellsOfAll(received)) /\ at' = "closed"
      /\ UNCHANGED <<arrived, taken, pending, payload_left, skip_left, header, delivered>>
  BY DEF EndOfStream
<1>2. n \in Nat /\ sent \in Nat /\ HandledUpTo(n) /\ At(n)
  BY KnownIs DEF Reader
<1>3. ASSUME NEW m \in received
      PROVE  m.n < n
  <2>1. m.n \in 1..sent /\ m.n \in Nat
    BY DEF Whole, Sent, Packet
  <2>2. SUFFICES ASSUME n <= m.n
                 PROVE  FALSE
    BY <1>2, <2>1
  <2>3. n \in 1..sent
    BY <1>2, <2>1, <2>2
  <2> DEFINE len == PayloadLen(KindAt(n))
             lens == Payloads(KindAt(n))
  <2>4. /\ Ahead(n + 1) = Ahead(n) + 3 + len /\ Ahead(n) \in Nat /\ len \in 0..2
        /\ Ahead(n + 1) <= Ahead(m.n + 1) /\ Ahead(m.n + 1) \in Nat
    <3>1. n + 1 \in 1..(sent + 1) /\ m.n + 1 \in 1..(sent + 1) /\ n + 1 <= m.n + 1
      BY <1>2, <2>1, <2>2, <2>3
    <3> QED
      BY <2>3, <3>1, NextPacket, AheadIs
  <2>5. IsFiniteSet(CellsOfAll(received)) /\ Cardinality(CellsOfAll(received)) \in Nat
    <3>1. CellsOfAll(received) \in SUBSET Stream
      BY DEF Stream, CellsOfAll
    <3> QED
      BY <3>1, StreamIs, FS_Subset, FS_CardinalityType
  <2>6. arrived >= Ahead(n) + 3 + len
    <3>1. Ahead(m.n + 1) <= Cardinality(CellsOfAll(received))
      BY WholeAhead
    <3> QED
      BY <1>1, <2>4, <2>5, <3>1 DEF Numbers
  <2>7. arrived - taken < Needs
    BY <1>1 DEF Blocked, Buffered
  <2>8. CASE Between(n)
    <3>1. at = "skip" \/ at = "header" \/ at = "idle"
      BY <2>8 DEF Between
    <3>2. Needs = IF at = "skip" THEN (IF skip_left > 0 THEN 1 ELSE 0)
                  ELSE IF at = "header" THEN 2 ELSE 0
      BY <3>1 DEF Needs, HeaderLen
    <3>3. taken + skip_left = Ahead(n) /\ (at = "header" => skip_left = 0)
      BY <2>8 DEF Between
    <3> QED
      BY <2>4, <2>6, <2>7, <3>1, <3>2, <3>3 DEF Numbers
  <2>9. CASE HeaderRead(n)
    <3>1. /\ at = "skip" \/ at = "body" \/ at = "idle"
          /\ taken = Ahead(n) + 2 /\ skip_left = 0
          /\ at = "body" => header.body_len = 1
      BY <2>9 DEF HeaderRead, HeaderLen, HeaderOf, BodyLen
    <3>2. Needs = IF at = "body" THEN 1 ELSE 0
      BY <3>1 DEF Needs
    <3> QED
      BY <2>4, <2>6, <2>7, <3>1, <3>2 DEF Numbers
  <2>10. ASSUME NEW g \in 0..2, InPayload(n, g)
         PROVE  FALSE
    <3>1. /\ at = "payload" /\ taken = Ahead(n) + 3 + g /\ Handling.n = n /\ g < len
          /\ g = 0 \/ (Len(lens) = 2 /\ g = lens[1])
      BY <2>4, <2>10 DEF InPayload, HeaderLen, BodyLen
    <3>2. Needs = Head(lens)
      BY <3>1 DEF Needs
    <3>3. /\ Len(lens) \in 1..2 /\ lens[1] \in 1..2 /\ Head(lens) = lens[1]
          /\ Len(lens) = 1 => len = lens[1]
          /\ Len(lens) = 2 => lens[1] = 1 /\ lens[2] = 1 /\ len = 2
      BY <2>3, <3>1, KindOf, LensOf
    <3> HIDE DEF lens, len
    <3>4. lens[1] <= len - g
      BY <2>4, <3>1, <3>3
    <3> QED
      BY <2>4, <2>6, <2>7, <3>1, <3>2, <3>3, <3>4 DEF Numbers
  <2> QED
    BY <1>2, <2>8, <2>9, <2>10 DEF At
<1>4. \A k \in Known(received) : \E i \in Handled : delivered[i].n = k
  <2> SUFFICES ASSUME NEW m \in received, m.kind \notin Unknown
               PROVE  \E i \in Handled : delivered[i].n = m.n
    BY DEF Known
  <2>1. m.n < n /\ m.n \in Known(Sent)
    BY <1>3 DEF Known, Sent
  <2>2. PICK i \in 1..Len(delivered) : delivered[i].n = m.n
    BY <1>2, <2>1 DEF HandledUpTo, Follows
  <2>3. Len(delivered) \in Nat
    BY <1>2 DEF HandledUpTo, Follows
  <2>4. payload_left > 0 => i # Len(delivered)
    <3>1. payload_left > 0 => Handling.n = n
      BY <1>2 DEF At, Between, HeaderRead, InPayload
    <3>2. m.n # n
      BY <1>2, <2>1
    <3> QED
      BY <2>2, <3>1, <3>2 DEF Handling
  <2> QED
    BY <2>2, <2>3, <2>4 DEF Handled
<1>5. StreamInSync'
  BY <1>1, <1>4, InSync, SyncSame
<1> QED
  BY <1>1, <1>5 DEF Numbers, Frozen

LEMMA ReaderKeeps ==
  ASSUME IInv, StreamInv, ReaderStep
  PROVE  StreamInv'
<1>1. Reads /\ ReadStep /\ UNCHANGED <<vars, cut>> /\ Wire
  BY DEF ReaderStep, StreamInv
<1>2. Frozen /\ Whole
  BY <1>1, Freezes, ReadsWhole
<1>3. Reads' /\ sent' = sent
  BY <1>1, <1>2 DEF Frozen
<1>4. Wire'
  BY <1>1 DEF Wire, vars, Running
<1>5. ASSUME Numbers',
             \/ at' = "closed" /\ StreamInSync'
             \/ \E m \in 1..(sent + 1) : Reader(m)'
      PROVE  StreamInv'
  BY <1>3, <1>4, <1>5 DEF StreamInv, Reading
<1>6. ASSUME Numbers, NEW n \in 1..(sent + 1), Reader(n)
      PROVE  StreamInv'
  <2>1. CASE Call \/ Fill \/ Cancel \/ Discard \/ Resume
    BY <1>2, <1>5, <1>6, <2>1, SimpleSteps
  <2>2. CASE EndOfStream
    BY <1>1, <1>2, <1>5, <1>6, <2>2, EndStep
  <2>3. CASE ReadHeader
    BY <1>2, <1>5, <1>6, <2>3, HeaderStep
  <2>4. CASE ReadBody
    BY <1>2, <1>5, <1>6, <2>4, BodyStep
  <2>5. CASE ReadPayload
    BY <1>2, <1>5, <1>6, <2>5, PayloadStep
  <2> QED
    BY <1>1, <2>1, <2>2, <2>3, <2>4, <2>5 DEF ReadStep
<1>7. CASE Unread
  BY <1>2, <1>6, <1>7, Starts
<1>8. CASE Reading /\ at = "closed"
  <2>1. ~Blocked
    <3>1. Needs = 0
      BY <1>8 DEF Needs
    <3> QED
      BY <1>8, <3>1 DEF Blocked, Buffered, Reading, Numbers
  <2> QED
    BY <1>1, <1>8, <2>1 DEF ReadStep, Call, Fill, EndOfStream, Cancel, Discard, Resume,
                            ReadHeader, ReadBody, ReadPayload
<1> QED
  BY <1>6, <1>7, <1>8 DEF StreamInv, Reading

LEMMA ServerKeeps ==
  ASSUME IInv, StreamInv, ServerStep
  PROVE  StreamInv'
<1>1. Wire' /\ ~Reads
  BY WireKept, ServerIsDone DEF StreamInv
<1>2. Unread'
  BY <1>1 DEF StreamInv, Reading, Unread, ServerStep, readVars
<1> QED
  BY <1>1, <1>2 DEF StreamInv

LEMMA StutterKeeps ==
  ASSUME StreamInv, UNCHANGED streamVars
  PROVE  StreamInv'
<1>1. /\ UNCHANGED <<vars, cut>> /\ Frozen
      /\ UNCHANGED <<arrived, taken, pending, payload_left, skip_left, at, header, delivered>>
  BY Freezes DEF streamVars, readVars
<1>2. Wire'
  BY <1>1 DEF StreamInv, Wire, vars, Running
<1>3. CASE Unread
  BY <1>1, <1>2, <1>3 DEF StreamInv, Unread
<1>4. CASE Reading
  <2>1. Reads' /\ Numbers' /\ sent' = sent
    BY <1>1, <1>4 DEF Reading, Numbers, Frozen
  <2>2. CASE at = "closed" /\ StreamInSync
    <3>1. StreamInSync'
      BY <1>1, <2>2, SyncSame DEF StreamInSync
    <3> QED
      BY <1>1, <1>2, <2>1, <2>2, <3>1 DEF StreamInv, Reading
  <2>3. ASSUME NEW n \in 1..(sent + 1), Reader(n)
        PROVE  Reader(n)'
    <3>1. HandledUpTo(n)'
      BY <1>1, <2>3, HandledSame DEF Reader
    <3>2. sent' = sent /\ Ahead(n)' = Ahead(n) /\ HeaderOf(n)' = HeaderOf(n)
          /\ KindAt(n)' = KindAt(n)
      BY <1>1 DEF Frozen
    <3>3. Between(n) => Between(n)'
      BY <1>1, <3>2 DEF Between
    <3>4. HeaderRead(n) => HeaderRead(n)'
      BY <1>1, <3>2 DEF HeaderRead
    <3>5. \A g \in 0..2 : InPayload(n, g) => InPayload(n, g)'
      BY <1>1, <3>2 DEF InPayload, Handling
    <3> QED
      BY <2>3, <3>1, <3>3, <3>4, <3>5 DEF Reader, At
  <2> QED
    BY <1>2, <1>4, <2>1, <2>2, <2>3 DEF StreamInv, Reading
<1> QED
  BY <1>3, <1>4 DEF StreamInv

\* What the invariant is for.
LEMMA StreamInvSays ==
  ASSUME IInv, StreamInv
  PROVE  StreamInSync
<1>1. CASE Unread
  BY <1>1 DEF Unread, StreamInSync, Handled
<1>2. ASSUME Reading, NEW n \in 1..(sent + 1), Reader(n)
      PROVE  StreamInSync
  BY <1>2, ReadsWhole, InSync DEF StreamInv, Reading
<1> QED
  BY <1>1, <1>2 DEF StreamInv, Reading

LEMMA StreamInitSays == StreamInit => IInv /\ StreamInv
<1> SUFFICES ASSUME StreamInit
             PROVE  IInv /\ StreamInv
  OBVIOUS
<1>1. IInv
  BY InitIInv DEF StreamInit
<1>2. Wire
  BY FS_EmptySet DEF StreamInit, Init, Wire
<1>3. Unread
  BY DEF StreamInit, Unread
<1> QED
  BY <1>1, <1>2, <1>3 DEF StreamInv

\* Wherever the client's read_msg is dropped and whatever it skips, it stays in
\* step with the server's writer.
THEOREM StreamStaysInSync == StreamSpec => []StreamInSync
<1>1. IInv /\ StreamInv /\ [StreamNext]_streamVars => (IInv /\ StreamInv)'
  <2> SUFFICES ASSUME IInv, StreamInv, [StreamNext]_streamVars
               PROVE  IInv' /\ StreamInv'
    OBVIOUS
  <2>1. [Next]_vars
    BY DEF StreamNext, ServerStep, ReaderStep, streamVars
  <2>2. IInv'
    BY <2>1, NextIInv
  <2>3. StreamInv'
    BY ReaderKeeps, ServerKeeps, StutterKeeps DEF StreamNext
  <2> QED
    BY <2>2, <2>3
<1>2. IInv /\ StreamInv => StreamInSync
  BY StreamInvSays
<1> QED
  BY StreamInitSays, <1>1, <1>2, PTL DEF StreamSpec

-----------------------------------------------------------------------------
\* The capture thread.

IsFrame(e) == e.type = "frame"
IsRelease(c) == c.type = "release"

\* x, a frame or a release, belongs to the current ring and is in slot s.
In(x, s) == x.gen = gen /\ x.slot = s

\* No generation is ahead of the ring's, and an owned slot is busy.
Taken(x) == x.gen <= gen /\ (x.gen = gen => busy[x.slot])

OwnersTaken ==
  /\ \A f \in held : Taken(f)
  /\ \A i \in 1..Len(events) : IsFrame(events[i]) => Taken(events[i].frame)
  /\ \A i \in 1..Len(cmds) : IsRelease(cmds[i]) => Taken(cmds[i])

\* No two owners are in one slot of the current ring.
HeldApart ==
  \A f, g \in held : In(f, g.slot) /\ g.gen = gen => f = g

HeldEventApart ==
  \A f \in held, i \in 1..Len(events) :
    IsFrame(events[i]) /\ In(events[i].frame, f.slot) => f.gen # gen

HeldCmdApart ==
  \A f \in held, i \in 1..Len(cmds) :
    IsRelease(cmds[i]) /\ In(cmds[i], f.slot) => f.gen # gen

EventsApart ==
  \A i, j \in 1..Len(events) :
    IsFrame(events[i]) /\ IsFrame(events[j]) /\ i # j
      /\ In(events[i].frame, events[j].frame.slot) => events[j].frame.gen # gen

CmdsApart ==
  \A i, j \in 1..Len(cmds) :
    IsRelease(cmds[i]) /\ IsRelease(cmds[j]) /\ i # j
      /\ In(cmds[i], cmds[j].slot) => cmds[j].gen # gen

EventCmdApart ==
  \A i \in 1..Len(events), j \in 1..Len(cmds) :
    IsFrame(events[i]) /\ IsRelease(cmds[j])
      /\ In(events[i].frame, cmds[j].slot) => cmds[j].gen # gen

OwnersApart == /\ HeldApart /\ HeldEventApart /\ HeldCmdApart
               /\ EventsApart /\ CmdsApart /\ EventCmdApart

\* A busy slot of a live ring has an owner.
BusyOwned ==
  ring # None => \A s \in Slots : busy[s] =>
    \/ \E f \in held : In(f, s)
    \/ \E i \in 1..Len(events) : IsFrame(events[i]) /\ In(events[i].frame, s)
    \/ \E i \in 1..Len(cmds) : IsRelease(cmds[i]) /\ In(cmds[i], s)

Flight ==
  /\ inFlight # None => ring # None /\ ~busy[inFlight.slot]
  /\ owed => inFlight # None
  /\ over => ring = None

Books == OwnersTaken /\ OwnersApart /\ BusyOwned /\ GenerationsInOrder

CaptureInv == CaptureTypeOK /\ Books /\ Flight /\ WantedIsCaptured

-----------------------------------------------------------------------------
\* Queues: taking the head and adding one element.

LEMMA TakeFacts ==
  ASSUME NEW S, NEW s \in Seq(S), s # <<>>
  PROVE  /\ Tail(s) \in Seq(S) /\ Head(s) \in S /\ Head(s) = s[1]
         /\ Len(s) \in Nat /\ 1 \in 1..Len(s) /\ Len(Tail(s)) = Len(s) - 1
         /\ \A i \in 1..Len(Tail(s)) :
              i + 1 \in 1..Len(s) /\ i + 1 # 1 /\ Tail(s)[i] = s[i + 1]
         /\ \A i \in 1..Len(s) : i # 1 => i - 1 \in 1..Len(Tail(s)) /\ i = (i - 1) + 1
  <1>1. Len(s) \in Nat /\ Len(s) # 0 /\ Head(s) = s[1]
    BY LenProperties, EmptySeq
  <1>2. QED
    BY <1>1, HeadTailProperties

LEMMA AddFacts ==
  ASSUME NEW S, NEW s \in Seq(S), NEW x \in S
  PROVE  /\ Append(s, x) \in Seq(S) /\ s \o <<x>> = Append(s, x)
         /\ Len(s) \in Nat /\ Len(Append(s, x)) = Len(s) + 1
         /\ \A i \in 1..Len(s) : i \in 1..Len(Append(s, x)) /\ Append(s, x)[i] = s[i]
         /\ Len(s) + 1 \in 1..Len(Append(s, x)) /\ Append(s, x)[Len(s) + 1] = x
         /\ \A i \in 1..Len(Append(s, x)) : i \in 1..Len(s) \/ i = Len(s) + 1
  <1>1. Len(s) \in Nat
    BY LenProperties
  <1>2. QED
    BY <1>1, AppendProperties, AppendIsConcat

-----------------------------------------------------------------------------

LEMMA CaptureStarts == CaptureInit => CaptureInv
  <1> SUFFICES ASSUME CaptureInit PROVE CaptureInv
    OBVIOUS
  <1> USE CaptureAssumption DEF CaptureInit, InitWith
  <1>1. CaptureTypeOK
    <2>1. wl \in Seq(WlEvent)
      BY DEF WlEvent
    <2>2. cmds \in Seq(Cmd) /\ events \in Seq(Event)
      OBVIOUS
    <2>3. QED
      BY <2>1, <2>2 DEF CaptureTypeOK
  <1>2. Books
    BY DEF Books, OwnersTaken, OwnersApart, BusyOwned, GenerationsInOrder,
         HeldApart, HeldEventApart, HeldCmdApart,
         EventsApart, CmdsApart, EventCmdApart
  <1>3. Flight /\ WantedIsCaptured
    BY DEF Flight, WantedIsCaptured
  <1>4. QED
    BY <1>1, <1>2, <1>3 DEF CaptureInv

\* What maybe_capture leaves behind, whatever the handler did before.
LEMMA MaybeCaptureFacts ==
  ASSUME CaptureTypeOK, busy' \in [Slots -> BOOLEAN],
         NEW w \in BOOLEAN, NEW f \in [obj : Objs, slot : Slots] \cup {None},
         f # None => ring' # None /\ ~busy'[f.slot],
         MaybeCapture(w, f)
  PROVE  /\ inFlight' \in [obj : Objs, slot : Slots] \cup {None}
         /\ want' \in BOOLEAN /\ owed' \in BOOLEAN
         /\ inFlight' # None => ring' # None /\ ~busy'[inFlight'.slot]
         /\ owed' => inFlight' # None
         /\ WantedIsCaptured'
  <1>1. CASE w /\ f = None /\ ~stopped' /\ ring' # None /\ Free # {}
    <2>1. PICK o \in Objs, s \in Free : inFlight' = [obj |-> o, slot |-> s]
      BY <1>1 DEF MaybeCapture
    <2>2. inFlight' \in [obj : Objs, slot : Slots] /\ ~busy'[s] /\ inFlight'.slot = s
      BY <2>1 DEF Free
    <2>3. inFlight' # None
      BY <2>2, CaptureAssumption
    <2>4. want' = FALSE /\ owed' \in BOOLEAN
      BY <1>1 DEF MaybeCapture
    <2>5. QED
      BY <1>1, <2>2, <2>3, <2>4 DEF WantedIsCaptured
  <1>2. CASE ~(w /\ f = None /\ ~stopped' /\ ring' # None /\ Free # {})
    <2>1. inFlight' = f /\ want' = w /\ owed' = (owed /\ f # None)
      BY <1>2 DEF MaybeCapture
    <2>2. WantedIsCaptured'
      BY <1>2, <2>1 DEF WantedIsCaptured, Free
    <2>3. QED
      BY <2>1, <2>2 DEF CaptureTypeOK
  <1>3. QED
    BY <1>1, <1>2

-----------------------------------------------------------------------------
\* How the books change.

\* Nothing that is in them changes, or the ring is gone.
LEMMA BooksKept ==
  ASSUME Books, ring' = ring \/ ring' = None,
         UNCHANGED <<gen, busy, held, events, cmds>>
  PROVE  Books'
  BY DEF Books, OwnersTaken, OwnersApart, BusyOwned, GenerationsInOrder,
         HeldApart, HeldEventApart, HeldCmdApart,
         EventsApart, CmdsApart, EventCmdApart,
         Taken, In, IsFrame, IsRelease

\* A command that is no release leaves the channel.
LEMMA BooksTakeCmd ==
  ASSUME CaptureTypeOK, Books, cmds # <<>>, ~IsRelease(Head(cmds)),
         cmds' = Tail(cmds),
         UNCHANGED <<gen, busy, ring, held, events>>
  PROVE  Books'
  <1> DEFINE t == Tail(cmds)
  <1>1. /\ Len(cmds) \in Nat /\ Len(t) = Len(cmds) - 1
        /\ \A i \in 1..Len(t) : i + 1 \in 1..Len(cmds) /\ t[i] = cmds[i + 1]
        /\ \A i \in 1..Len(cmds) :
             IsRelease(cmds[i]) => i - 1 \in 1..Len(t) /\ t[i - 1] = cmds[i]
    BY TakeFacts DEF CaptureTypeOK
  <1>2. PICK u : u = t /\ cmds' = u
    OBVIOUS
  <1> HIDE DEF t
  <1>3. OwnersTaken'
    BY <1>1, <1>2 DEF Books, OwnersTaken, Taken, IsFrame, IsRelease
  <1>4. OwnersApart'
    <2>1. HeldApart' /\ HeldEventApart' /\ EventsApart'
      BY DEF Books, OwnersApart, HeldApart, HeldEventApart, EventsApart, In, IsFrame
    <2>2. HeldCmdApart'
      BY <1>1, <1>2 DEF Books, OwnersApart, HeldCmdApart, In, IsRelease
    <2>3. CmdsApart'
      BY SMTT(20), <1>1, <1>2 DEF Books, OwnersApart, CmdsApart, In, IsRelease
    <2>4. EventCmdApart'
      BY <1>1, <1>2 DEF Books, OwnersApart, EventCmdApart, In, IsRelease, IsFrame
    <2>5. QED
      BY <2>1, <2>2, <2>3, <2>4 DEF OwnersApart
  <1>5. BusyOwned'
    <2> SUFFICES ASSUME ring # None, NEW s \in Slots, busy[s]
                 PROVE  \/ \E f \in held : In(f, s)
                        \/ \E i \in 1..Len(events') :
                             IsFrame(events'[i]) /\ In(events'[i].frame, s)
                        \/ \E i \in 1..Len(cmds') :
                             IsRelease(cmds'[i]) /\ In(cmds'[i], s)
      BY DEF BusyOwned, In
    <2>1. \/ \E f \in held : In(f, s)
          \/ \E i \in 1..Len(events) :
               IsFrame(events[i]) /\ In(events[i].frame, s)
          \/ \E i \in 1..Len(cmds) : IsRelease(cmds[i]) /\ In(cmds[i], s)
      BY DEF Books, BusyOwned
    <2>2. ASSUME NEW i \in 1..Len(cmds), IsRelease(cmds[i]), In(cmds[i], s)
          PROVE  \E j \in 1..Len(cmds') : IsRelease(cmds'[j]) /\ In(cmds'[j], s)
      BY <1>1, <1>2, <2>2
    <2>3. QED
      BY <2>1, <2>2
  <1>6. QED
    BY <1>3, <1>4, <1>5 DEF Books, GenerationsInOrder

\* A command that is no release enters it.
LEMMA BooksAddCmd ==
  ASSUME CaptureTypeOK, Books, NEW c \in Cmd, ~IsRelease(c),
         cmds' = Append(cmds, c),
         UNCHANGED <<gen, busy, ring, held, events>>
  PROVE  Books'
  <1> DEFINE t == Append(cmds, c)
  <1>1. /\ Len(cmds) \in Nat
        /\ \A i \in 1..Len(cmds) : i \in 1..Len(t) /\ t[i] = cmds[i]
        /\ \A i \in 1..Len(t) : IsRelease(t[i]) => i \in 1..Len(cmds)
    BY AddFacts DEF CaptureTypeOK
  <1>2. PICK u : u = t /\ cmds' = u
    OBVIOUS
  <1> HIDE DEF t
  <1>3. OwnersTaken'
    BY <1>1, <1>2 DEF Books, OwnersTaken, Taken, IsFrame, IsRelease
  <1>4. OwnersApart'
    <2>1. HeldApart' /\ HeldEventApart' /\ EventsApart'
      BY DEF Books, OwnersApart, HeldApart, HeldEventApart, EventsApart, In, IsFrame
    <2>2. HeldCmdApart'
      BY <1>1, <1>2 DEF Books, OwnersApart, HeldCmdApart, In, IsRelease
    <2>3. CmdsApart'
      BY <1>1, <1>2 DEF Books, OwnersApart, CmdsApart, In, IsRelease
    <2>4. EventCmdApart'
      BY <1>1, <1>2 DEF Books, OwnersApart, EventCmdApart, In, IsRelease, IsFrame
    <2>5. QED
      BY <2>1, <2>2, <2>3, <2>4 DEF OwnersApart
  <1>5. BusyOwned'
    <2> SUFFICES ASSUME ring # None, NEW s \in Slots, busy[s]
                 PROVE  \/ \E f \in held : In(f, s)
                        \/ \E i \in 1..Len(events') :
                             IsFrame(events'[i]) /\ In(events'[i].frame, s)
                        \/ \E i \in 1..Len(cmds') :
                             IsRelease(cmds'[i]) /\ In(cmds'[i], s)
      BY DEF BusyOwned, In
    <2>1. \/ \E f \in held : In(f, s)
          \/ \E i \in 1..Len(events) :
               IsFrame(events[i]) /\ In(events[i].frame, s)
          \/ \E i \in 1..Len(cmds) : IsRelease(cmds[i]) /\ In(cmds[i], s)
      BY DEF Books, BusyOwned
    <2>2. ASSUME NEW i \in 1..Len(cmds), IsRelease(cmds[i]), In(cmds[i], s)
          PROVE  \E j \in 1..Len(cmds') : IsRelease(cmds'[j]) /\ In(cmds'[j], s)
      BY <1>1, <1>2, <2>2 DEF IsRelease
    <2>3. QED
      BY <2>1, <2>2
  <1>6. QED
    BY <1>3, <1>4, <1>5 DEF Books, GenerationsInOrder

\* An event that is no frame is sent; the ring may be gone with it.
LEMMA BooksAddEvent ==
  ASSUME CaptureTypeOK, Books, NEW e \in Event, ~IsFrame(e),
         events' = Append(events, e), ring' = ring \/ ring' = None,
         UNCHANGED <<gen, busy, held, cmds>>
  PROVE  Books'
  <1> DEFINE t == Append(events, e)
  <1>1. /\ Len(events) \in Nat
        /\ \A i \in 1..Len(events) : i \in 1..Len(t) /\ t[i] = events[i]
        /\ \A i \in 1..Len(t) : IsFrame(t[i]) => i \in 1..Len(events)
    BY AddFacts DEF CaptureTypeOK
  <1>2. PICK u : u = t /\ events' = u
    OBVIOUS
  <1> HIDE DEF t
  <1>3. OwnersTaken'
    BY <1>1, <1>2 DEF Books, OwnersTaken, Taken, IsFrame, IsRelease
  <1>4. OwnersApart'
    <2>1. HeldApart' /\ HeldCmdApart' /\ CmdsApart'
      BY DEF Books, OwnersApart, HeldApart, HeldCmdApart, CmdsApart, In, IsRelease
    <2>2. HeldEventApart'
      BY <1>1, <1>2 DEF Books, OwnersApart, HeldEventApart, In, IsFrame
    <2>3. EventsApart'
      BY <1>1, <1>2 DEF Books, OwnersApart, EventsApart, In, IsFrame
    <2>4. EventCmdApart'
      BY <1>1, <1>2 DEF Books, OwnersApart, EventCmdApart, In, IsRelease, IsFrame
    <2>5. QED
      BY <2>1, <2>2, <2>3, <2>4 DEF OwnersApart
  <1>5. BusyOwned'
    BY <1>1, <1>2 DEF Books, BusyOwned, In, IsFrame, IsRelease
  <1>6. GenerationsInOrder'
    BY <1>1, <1>2 DEF Books, GenerationsInOrder, IsFrame
  <1>7. QED
    BY <1>3, <1>4, <1>5, <1>6 DEF Books

\* Once the generation advances, every owner is of an older ring.
LEMMA OwnersAreOlder ==
  ASSUME CaptureTypeOK, Books, gen' = NextGen
  PROVE  /\ gen' = gen + 1 /\ gen \in Nat
         /\ \A f \in held : f.gen \in Nat /\ f.gen < gen'
         /\ \A i \in 1..Len(events) : IsFrame(events[i]) =>
              events[i].frame.gen \in Nat /\ events[i].frame.gen < gen'
         /\ \A i \in 1..Len(cmds) : IsRelease(cmds[i]) =>
              cmds[i].gen \in Nat /\ cmds[i].gen < gen'
  <1>1. \A f \in held : f.gen \in Nat
    BY DEF CaptureTypeOK, Frame
  <1>2. \A i \in 1..Len(events) : IsFrame(events[i]) => events[i].frame.gen \in Nat
    <2>1. \A i \in 1..Len(events) : events[i] \in Event
      BY ElementOfSeq DEF CaptureTypeOK
    <2>2. QED
      BY <2>1 DEF Event, Frame, IsFrame
  <1>3. \A i \in 1..Len(cmds) : IsRelease(cmds[i]) => cmds[i].gen \in Nat
    <2>1. \A i \in 1..Len(cmds) : cmds[i] \in Cmd
      BY ElementOfSeq DEF CaptureTypeOK
    <2>2. QED
      BY <2>1 DEF Cmd, IsRelease
  <1>4. gen \in Nat /\ gen' = gen + 1
    BY DEF CaptureTypeOK, NextGen
  <1>5. /\ \A f \in held : f.gen <= gen
        /\ \A i \in 1..Len(events) : IsFrame(events[i]) => events[i].frame.gen <= gen
        /\ \A i \in 1..Len(cmds) : IsRelease(cmds[i]) => cmds[i].gen <= gen
    BY DEF Books, OwnersTaken, Taken
  <1>6. QED
    BY <1>1, <1>2, <1>3, <1>4, <1>5

\* A new ring, all of it free.
LEMMA BooksNewRing ==
  ASSUME CaptureTypeOK, Books, gen' = NextGen, busy' = FreshRing,
         UNCHANGED <<held, events, cmds>>
  PROVE  Books'
  <1>1. /\ gen' = gen + 1 /\ gen \in Nat
        /\ \A f \in held : f.gen \in Nat /\ f.gen < gen'
        /\ \A i \in 1..Len(events) : IsFrame(events[i]) =>
             events[i].frame.gen \in Nat /\ events[i].frame.gen < gen'
        /\ \A i \in 1..Len(cmds) : IsRelease(cmds[i]) =>
             cmds[i].gen \in Nat /\ cmds[i].gen < gen'
    BY OwnersAreOlder
  <1>2. OwnersTaken'
    BY <1>1 DEF OwnersTaken, Taken, IsFrame, IsRelease
  <1>3. OwnersApart'
    BY <1>1
    DEF OwnersApart, In, IsFrame, IsRelease, HeldApart, HeldEventApart,
        HeldCmdApart, EventsApart, CmdsApart, EventCmdApart
  <1>4. BusyOwned'
    BY DEF BusyOwned, FreshRing
  <1>5. QED
    BY <1>2, <1>3, <1>4 DEF Books, GenerationsInOrder

\* The same when the allocation fails and the error is sent.
LEMMA BooksFailedRing ==
  ASSUME CaptureTypeOK, Books, gen' = NextGen, busy' = FreshRing, ring' = None,
         NEW e \in Event, ~IsFrame(e), events' = Append(events, e),
         UNCHANGED <<held, cmds>>
  PROVE  Books'
  <1> DEFINE t == Append(events, e)
  <1>1. /\ Len(events) \in Nat
        /\ \A i \in 1..Len(events) : i \in 1..Len(t) /\ t[i] = events[i]
        /\ \A i \in 1..Len(t) : IsFrame(t[i]) => i \in 1..Len(events)
    BY AddFacts DEF CaptureTypeOK
  <1>2. PICK u : u = t /\ events' = u
    OBVIOUS
  <1> HIDE DEF t
  <1>3. /\ gen' = gen + 1 /\ gen \in Nat
        /\ \A f \in held : f.gen \in Nat /\ f.gen < gen'
        /\ \A i \in 1..Len(events) : IsFrame(events[i]) =>
             events[i].frame.gen \in Nat /\ events[i].frame.gen < gen'
        /\ \A i \in 1..Len(cmds) : IsRelease(cmds[i]) =>
             cmds[i].gen \in Nat /\ cmds[i].gen < gen'
    BY OwnersAreOlder
  <1>4. OwnersTaken'
    BY <1>1, <1>2, <1>3 DEF OwnersTaken, Taken, IsFrame, IsRelease
  <1>5. OwnersApart'
    BY <1>1, <1>2, <1>3
    DEF OwnersApart, In, IsFrame, IsRelease, HeldApart, HeldEventApart,
        HeldCmdApart, EventsApart, CmdsApart, EventCmdApart
  <1>6. GenerationsInOrder'
    BY <1>1, <1>2 DEF Books, GenerationsInOrder, IsFrame
  <1>7. QED
    BY <1>4, <1>5, <1>6 DEF Books, BusyOwned

\* A release is handled: its slot, if it is one of this ring, is free again.
LEMMA BooksRelease ==
  ASSUME CaptureTypeOK, Books, cmds # <<>>, IsRelease(Head(cmds)),
         cmds' = Tail(cmds),
         busy' = IF Frees(Head(cmds)) THEN [busy EXCEPT ![Head(cmds).slot] = FALSE]
                                      ELSE busy,
         UNCHANGED <<gen, ring, held, events>>
  PROVE  Books'
  <1> DEFINE t == Tail(cmds)
  <1>1. /\ Len(cmds) \in Nat /\ Len(t) = Len(cmds) - 1
        /\ 1 \in 1..Len(cmds) /\ Head(cmds) = cmds[1]
        /\ \A i \in 1..Len(t) :
             i + 1 \in 1..Len(cmds) /\ i + 1 # 1 /\ t[i] = cmds[i + 1]
        /\ \A i \in 1..Len(cmds) :
             i # 1 => i - 1 \in 1..Len(t) /\ t[i - 1] = cmds[i]
    BY TakeFacts DEF CaptureTypeOK
  <1>2. PICK u : u = t /\ cmds' = u
    OBVIOUS
  <1>3. PICK c : c = cmds[1] /\ c = Head(cmds) /\ IsRelease(c)
    BY <1>1
  <1> HIDE DEF t
  <1>4. busy \in [Slots -> BOOLEAN]
    BY DEF CaptureTypeOK
  <1>5. \A s \in Slots : busy'[s] = (busy[s] /\ ~In(c, s))
    BY <1>3, <1>4 DEF In, Frees, Books, OwnersTaken, Taken
  <1>6. /\ \A f \in held : f.slot \in Slots
        /\ \A i \in 1..Len(events) : IsFrame(events[i]) => events[i].frame.slot \in Slots
        /\ \A i \in 1..Len(cmds) : IsRelease(cmds[i]) => cmds[i].slot \in Slots
    <2>1. \A i \in 1..Len(events) : events[i] \in Event
      BY ElementOfSeq DEF CaptureTypeOK
    <2>2. \A i \in 1..Len(cmds) : cmds[i] \in Cmd
      BY ElementOfSeq DEF CaptureTypeOK
    <2>3. QED
      BY <2>1, <2>2 DEF CaptureTypeOK, Event, Cmd, Frame, IsFrame, IsRelease
  <1>7. /\ \A f \in held : f.gen = gen => ~In(c, f.slot)
        /\ \A i \in 1..Len(events) :
             IsFrame(events[i]) /\ events[i].frame.gen = gen => ~In(c, events[i].frame.slot)
        /\ \A i \in 1..Len(cmds) :
             i # 1 /\ IsRelease(cmds[i]) /\ cmds[i].gen = gen => ~In(c, cmds[i].slot)
    BY <1>1, <1>3 DEF Books, OwnersApart, HeldCmdApart, CmdsApart, EventCmdApart,
                      In, IsFrame, IsRelease
  <1>8. OwnersTaken'
    <2>1. \A f \in held : Taken(f)'
      BY <1>5, <1>6, <1>7 DEF Books, OwnersTaken, Taken
    <2>2. \A i \in 1..Len(events) : IsFrame(events[i]) => Taken(events[i].frame)'
      BY <1>5, <1>6, <1>7 DEF Books, OwnersTaken, Taken
    <2>3. \A i \in 1..Len(cmds) : i # 1 /\ IsRelease(cmds[i]) =>
            cmds[i].gen <= gen /\ (cmds[i].gen = gen => busy'[cmds[i].slot])
      BY <1>5, <1>6, <1>7 DEF Books, OwnersTaken, Taken
    <2>4. QED
      BY <1>1, <1>2, <2>1, <2>2, <2>3 DEF OwnersTaken, Taken, IsFrame, IsRelease
  <1>9. OwnersApart'
    <2>1. HeldApart' /\ HeldEventApart' /\ EventsApart'
      BY DEF Books, OwnersApart, HeldApart, HeldEventApart, EventsApart, In, IsFrame
    <2>2. HeldCmdApart'
      BY <1>1, <1>2 DEF Books, OwnersApart, HeldCmdApart, In, IsRelease
    <2>3. CmdsApart'
      BY <1>1, <1>2 DEF Books, OwnersApart, CmdsApart, In, IsRelease
    <2>4. EventCmdApart'
      BY <1>1, <1>2 DEF Books, OwnersApart, EventCmdApart, In, IsRelease, IsFrame
    <2>5. QED
      BY <2>1, <2>2, <2>3, <2>4 DEF OwnersApart
  <1>10. BusyOwned'
    <2>0. \A r \in Slots : busy'[r] => busy[r] /\ ~In(c, r)
      BY <1>5
    <2> SUFFICES ASSUME ring # None, NEW r \in Slots, busy[r], ~In(c, r)
                 PROVE  \/ \E f \in held : In(f, r)
                        \/ \E i \in 1..Len(events) :
                             IsFrame(events[i]) /\ In(events[i].frame, r)
                        \/ \E i \in 1..Len(u) : IsRelease(u[i]) /\ In(u[i], r)
      BY <1>2, <2>0 DEF BusyOwned, In, IsFrame, IsRelease
    <2>1. CASE \E i \in 1..Len(cmds) : IsRelease(cmds[i]) /\ In(cmds[i], r)
      <3>1. PICK i \in 1..Len(cmds) : IsRelease(cmds[i]) /\ In(cmds[i], r)
        BY <2>1
      <3>2. i # 1
        BY <1>3, <3>1
      <3>3. QED
        BY <1>1, <1>2, <3>1, <3>2
    <2>2. QED
      BY <2>1 DEF Books, BusyOwned
  <1>11. QED
    BY <1>8, <1>9, <1>10 DEF Books, GenerationsInOrder

\* A frame is sent in a slot that was free.
LEMMA BooksReady ==
  ASSUME CaptureTypeOK, Books, NEW s \in Slots, ~busy[s], ring \in Sizes,
         busy' = [busy EXCEPT ![s] = TRUE],
         events' = Append(events, [type |-> "frame",
                     frame |-> [slot |-> s, gen |-> gen, size |-> ring]]),
         UNCHANGED <<gen, ring, held, cmds>>
  PROVE  Books' /\ events' \in Seq(Event)
  <1> DEFINE x == [slot |-> s, gen |-> gen, size |-> ring]
             e == [type |-> "frame", frame |-> x]
             t == Append(events, e)
  <1>1. e \in Event /\ IsFrame(e) /\ e.frame = x /\ x.slot = s /\ x.gen = gen
    BY DEF Event, Frame, CaptureTypeOK, IsFrame
  <1>2. /\ Len(events) \in Nat /\ t \in Seq(Event)
        /\ \A i \in 1..Len(events) : i \in 1..Len(t) /\ t[i] = events[i]
        /\ \A i \in 1..Len(t) : i \in 1..Len(events) \/ (i = Len(events) + 1 /\ t[i] = e)
        /\ Len(events) + 1 \in 1..Len(t) /\ t[Len(events) + 1] = e
    BY <1>1, AddFacts DEF CaptureTypeOK
  <1>3. PICK u, v : u = t /\ events' = u /\ v = e /\ IsFrame(v)
                      /\ v.frame.slot = s /\ v.frame.gen = gen
    BY <1>1
  <1>4. PICK n : n = Len(events) + 1 /\ n \in Nat
    BY <1>2
  <1>5. /\ \A i \in 1..Len(events) : i \in 1..Len(u) /\ u[i] = events[i] /\ i # n /\ i < n
        /\ \A i \in 1..Len(u) : i \in 1..Len(events) \/ (i = n /\ u[i] = v)
        /\ n \in 1..Len(u) /\ u[n] = v
    BY <1>2, <1>3, <1>4
  <1> HIDE DEF t, e, x
  <1>6. \A r \in Slots : busy'[r] = (busy[r] \/ r = s)
    BY DEF CaptureTypeOK
  <1>7. /\ \A f \in held : f.slot \in Slots
        /\ \A i \in 1..Len(events) : IsFrame(events[i]) => events[i].frame.slot \in Slots
        /\ \A i \in 1..Len(cmds) : IsRelease(cmds[i]) => cmds[i].slot \in Slots
    <2>1. \A i \in 1..Len(events) : events[i] \in Event
      BY ElementOfSeq DEF CaptureTypeOK
    <2>2. \A i \in 1..Len(cmds) : cmds[i] \in Cmd
      BY ElementOfSeq DEF CaptureTypeOK
    <2>3. QED
      BY <2>1, <2>2 DEF CaptureTypeOK, Event, Cmd, Frame, IsFrame, IsRelease
  \* No owner of the current ring was in s.
  <1>8. /\ \A f \in held : f.gen = gen => f.slot # s
        /\ \A i \in 1..Len(events) :
             IsFrame(events[i]) /\ events[i].frame.gen = gen => events[i].frame.slot # s
        /\ \A i \in 1..Len(cmds) :
             IsRelease(cmds[i]) /\ cmds[i].gen = gen => cmds[i].slot # s
    BY DEF Books, OwnersTaken, Taken
  <1>9. OwnersTaken'
    <2>1. /\ \A f \in held : Taken(f)'
          /\ \A i \in 1..Len(events) : IsFrame(events[i]) => Taken(events[i].frame)'
          /\ \A i \in 1..Len(cmds) : IsRelease(cmds[i]) => Taken(cmds[i])'
      BY <1>6, <1>7 DEF Books, OwnersTaken, Taken
    <2>2. Taken(v.frame)'
      BY <1>3, <1>6 DEF Taken, CaptureTypeOK
    <2>3. QED
      BY <1>3, <1>5, <2>1, <2>2 DEF OwnersTaken, Taken, IsFrame, IsRelease
  <1>10. OwnersApart'
    <2>1. HeldApart' /\ HeldCmdApart' /\ CmdsApart'
      BY DEF Books, OwnersApart, HeldApart, HeldCmdApart, CmdsApart, In, IsRelease
    <2>2. HeldEventApart'
      BY <1>3, <1>5, <1>8 DEF Books, OwnersApart, HeldEventApart, In, IsFrame
    <2>3. EventsApart'
      BY <1>3, <1>5, <1>8 DEF Books, OwnersApart, EventsApart, In, IsFrame
    <2>4. EventCmdApart'
      BY <1>3, <1>5, <1>8 DEF Books, OwnersApart, EventCmdApart, In, IsRelease, IsFrame
    <2>5. QED
      BY <2>1, <2>2, <2>3, <2>4 DEF OwnersApart
  <1>11. BusyOwned'
    BY <1>3, <1>5, <1>6 DEF Books, BusyOwned, In, IsFrame, IsRelease
  <1>12. GenerationsInOrder'
    <2>1. \A i \in 1..Len(events) : IsFrame(events[i]) => events[i].frame.gen <= gen
      BY DEF Books, OwnersTaken, Taken
    <2>2. gen <= gen
      BY DEF CaptureTypeOK
    <2> SUFFICES ASSUME NEW i \in 1..Len(u), NEW j \in 1..Len(u), i < j,
                        u[i].type = "frame", u[j].type = "frame"
                 PROVE  u[i].frame.gen <= u[j].frame.gen
      BY <1>3 DEF GenerationsInOrder
    <2>3. i \in 1..Len(events)
      BY <1>2, <1>4, <1>5
    <2>4. QED
      BY <1>3, <1>5, <2>1, <2>3 DEF Books, GenerationsInOrder, IsFrame
  <1>13. QED
    BY <1>2, <1>3, <1>9, <1>10, <1>11, <1>12 DEF Books

\* The consumer takes an event, and holds the frame if it is one.
LEMMA BooksReceive ==
  ASSUME CaptureTypeOK, Books, events # <<>>, events' = Tail(events),
         held' = IF IsFrame(Head(events)) THEN held \cup {Head(events).frame} ELSE held,
         UNCHANGED <<gen, busy, ring, cmds>>
  PROVE  Books'
  <1> DEFINE t == Tail(events)
  <1>1. /\ Len(events) \in Nat /\ Len(t) = Len(events) - 1
        /\ 1 \in 1..Len(events) /\ Head(events) = events[1]
        /\ \A i \in 1..Len(t) :
             i + 1 \in 1..Len(events) /\ i + 1 # 1 /\ t[i] = events[i + 1]
        /\ \A i \in 1..Len(events) :
             i # 1 => i - 1 \in 1..Len(t) /\ t[i - 1] = events[i]
    BY TakeFacts DEF CaptureTypeOK
  <1>2. PICK u : u = t /\ events' = u
    OBVIOUS
  <1>3. PICK e : e = events[1] /\ e = Head(events)
    BY <1>1
  <1> HIDE DEF t
  <1>4. \A f \in held' : f \in held \/ (IsFrame(e) /\ f = e.frame)
    BY <1>3
  <1>5. \A f : f \in held \/ (IsFrame(e) /\ f = e.frame) => f \in held'
    BY <1>3
  <1>6. OwnersTaken'
    <2>1. \A f \in held' : Taken(f)
      BY <1>1, <1>3, <1>4 DEF Books, OwnersTaken
    <2>2. \A f \in held' : Taken(f)'
      BY <2>1 DEF Taken
    <2>3. QED
      BY <1>1, <1>2, <2>2 DEF Books, OwnersTaken, Taken, IsFrame, IsRelease
  <1>7. OwnersApart'
    <2>1. HeldApart'
      BY <1>1, <1>3, <1>4 DEF Books, OwnersApart, HeldApart, HeldEventApart, In, IsFrame
    <2>2. HeldEventApart'
      BY <1>1, <1>2, <1>3, <1>4
      DEF Books, OwnersApart, HeldEventApart, EventsApart, In, IsFrame
    <2>3. HeldCmdApart'
      BY <1>1, <1>3, <1>4
      DEF Books, OwnersApart, HeldCmdApart, EventCmdApart, In, IsFrame, IsRelease
    <2>4. EventsApart'
      BY <1>1, <1>2 DEF Books, OwnersApart, EventsApart, In, IsFrame
    <2>5. EventCmdApart' /\ CmdsApart'
      BY <1>1, <1>2
      DEF Books, OwnersApart, EventCmdApart, CmdsApart, In, IsFrame, IsRelease
    <2>6. QED
      BY <2>1, <2>2, <2>3, <2>4, <2>5 DEF OwnersApart
  <1>8. BusyOwned'
    <2> SUFFICES ASSUME ring # None, NEW r \in Slots, busy[r]
                 PROVE  \/ \E f \in held' : In(f, r)
                        \/ \E i \in 1..Len(u) : IsFrame(u[i]) /\ In(u[i].frame, r)
                        \/ \E i \in 1..Len(cmds) : IsRelease(cmds[i]) /\ In(cmds[i], r)
      BY <1>2 DEF BusyOwned, In, IsFrame, IsRelease
    <2>1. CASE \E i \in 1..Len(events) : IsFrame(events[i]) /\ In(events[i].frame, r)
      <3>1. PICK i \in 1..Len(events) : IsFrame(events[i]) /\ In(events[i].frame, r)
        BY <2>1
      <3>2. CASE i = 1
        BY <1>3, <1>5, <3>1, <3>2
      <3>3. CASE i # 1
        BY <1>1, <1>2, <3>1, <3>3
      <3>4. QED
        BY <3>2, <3>3
    <2>2. QED
      BY <1>5, <2>1 DEF Books, BusyOwned
  <1>9. GenerationsInOrder'
    <2> SUFFICES ASSUME NEW i \in 1..Len(u), NEW j \in 1..Len(u), i < j,
                        u[i].type = "frame", u[j].type = "frame"
                 PROVE  u[i].frame.gen <= u[j].frame.gen
      BY <1>2 DEF GenerationsInOrder
    <2>1. /\ i + 1 \in 1..Len(events) /\ j + 1 \in 1..Len(events) /\ i + 1 < j + 1
          /\ u[i] = events[i + 1] /\ u[j] = events[j + 1]
      BY <1>1, <1>2
    <2>2. QED
      BY <2>1 DEF Books, GenerationsInOrder
  <1>10. QED
    BY <1>6, <1>7, <1>8, <1>9 DEF Books

\* The consumer drops a frame.
LEMMA BooksDrop ==
  ASSUME CaptureTypeOK, Books, NEW f \in held, held' = held \ {f},
         cmds' = Append(cmds, Release(f)),
         UNCHANGED <<gen, busy, ring, events>>
  PROVE  Books'
  <1> DEFINE c == Release(f)
             t == Append(cmds, c)
  <1>1. c \in Cmd /\ IsRelease(c) /\ c.gen = f.gen /\ c.slot = f.slot
    BY DEF Cmd, Release, IsRelease, CaptureTypeOK, Frame
  <1>2. /\ Len(cmds) \in Nat
        /\ \A i \in 1..Len(cmds) : i \in 1..Len(t) /\ t[i] = cmds[i]
        /\ \A i \in 1..Len(t) : i \in 1..Len(cmds) \/ (i = Len(cmds) + 1 /\ t[i] = c)
        /\ Len(cmds) + 1 \in 1..Len(t) /\ t[Len(cmds) + 1] = c
    BY <1>1, AddFacts DEF CaptureTypeOK
  <1>3. PICK u, v : u = t /\ cmds' = u /\ v = c /\ IsRelease(v)
                      /\ v.slot = f.slot /\ v.gen = f.gen
    BY <1>1
  <1>4. PICK n : n = Len(cmds) + 1 /\ n \in Nat
    BY <1>2
  <1>5. /\ \A i \in 1..Len(cmds) : i \in 1..Len(u) /\ u[i] = cmds[i] /\ i # n
        /\ \A i \in 1..Len(u) : i \in 1..Len(cmds) \/ (i = n /\ u[i] = v)
        /\ n \in 1..Len(u) /\ u[n] = v
    BY <1>2, <1>3, <1>4
  <1> HIDE DEF t, c
  <1>6. OwnersTaken'
    BY <1>3, <1>5 DEF Books, OwnersTaken, Taken, IsFrame, IsRelease
  <1>7. OwnersApart'
    <2>1. HeldApart' /\ HeldEventApart' /\ EventsApart'
      BY DEF Books, OwnersApart, HeldApart, HeldEventApart, EventsApart, In, IsFrame
    <2>2. HeldCmdApart'
      BY <1>3, <1>5 DEF Books, OwnersApart, HeldCmdApart, HeldApart, In, IsRelease
    <2>3. CmdsApart'
      BY <1>3, <1>5 DEF Books, OwnersApart, CmdsApart, HeldCmdApart, In, IsRelease
    <2>4. EventCmdApart'
      BY <1>3, <1>5
      DEF Books, OwnersApart, EventCmdApart, HeldEventApart, In, IsRelease, IsFrame
    <2>5. QED
      BY <2>1, <2>2, <2>3, <2>4 DEF OwnersApart
  <1>8. BusyOwned'
    <2> SUFFICES ASSUME ring # None, NEW r \in Slots, busy[r]
                 PROVE  \/ \E g \in held \ {f} : In(g, r)
                        \/ \E i \in 1..Len(events) :
                             IsFrame(events[i]) /\ In(events[i].frame, r)
                        \/ \E i \in 1..Len(u) : IsRelease(u[i]) /\ In(u[i], r)
      BY <1>3 DEF BusyOwned, In, IsFrame, IsRelease
    <2>1. CASE In(f, r)
      BY <1>3, <1>5, <2>1 DEF In
    <2>2. CASE ~In(f, r)
      BY <1>5, <2>2 DEF Books, BusyOwned
    <2>3. QED
      BY <2>1, <2>2
  <1>9. QED
    BY <1>6, <1>7, <1>8 DEF Books, GenerationsInOrder

-----------------------------------------------------------------------------
\* The handlers of the thread.

\* What an unread Wayland event may be.
LEMMA WlHead ==
  ASSUME CaptureTypeOK, wl # <<>>
  PROVE  /\ Head(wl) \in WlEvent /\ Tail(wl) \in Seq(WlEvent)
         /\ Head(wl).type = "done" => Head(wl).size \in Sizes
  BY HeadTailProperties DEF CaptureTypeOK, WlEvent, FrameEvents

LEMMA CmdHead ==
  ASSUME CaptureTypeOK, cmds # <<>>
  PROVE  /\ Head(cmds) \in Cmd /\ Tail(cmds) \in Seq(Cmd)
         /\ Head(cmds).type = "release" => Head(cmds).slot \in Slots
  BY HeadTailProperties DEF CaptureTypeOK, Cmd

LEMMA RequestCaptureInv == ASSUME CaptureInv, HandleRequest PROVE CaptureInv'
  <1> USE DEF CaptureInv, HandleRequest, TakeCmd
  <1>1. Books'
    BY BooksTakeCmd DEF IsRelease
  <1>2. /\ inFlight' \in [obj : Objs, slot : Slots] \cup {None}
        /\ want' \in BOOLEAN /\ owed' \in BOOLEAN
        /\ inFlight' # None => ring' # None /\ ~busy'[inFlight'.slot]
        /\ owed' => inFlight' # None
        /\ WantedIsCaptured'
    <2>1. /\ busy' \in [Slots -> BOOLEAN]
          /\ inFlight \in [obj : Objs, slot : Slots] \cup {None}
          /\ inFlight # None => ring' # None /\ ~busy'[inFlight.slot]
      BY DEF CaptureTypeOK, Flight
    <2>2. QED
      BY <2>1, MaybeCaptureFacts
  <1>3. QED
    BY <1>1, <1>2, CmdHead DEF CaptureTypeOK, Flight

LEMMA RecaptureCaptureInv == ASSUME CaptureInv, HandleRecapture PROVE CaptureInv'
  <1> USE DEF CaptureInv, HandleRecapture, TakeCmd
  <1>1. Books'
    BY BooksTakeCmd DEF IsRelease
  <1>2. /\ inFlight' \in [obj : Objs, slot : Slots] \cup {None}
        /\ want' \in BOOLEAN /\ owed' \in BOOLEAN
        /\ inFlight' # None => ring' # None /\ ~busy'[inFlight'.slot]
        /\ owed' => inFlight' # None
        /\ WantedIsCaptured'
    <2>1. busy' \in [Slots -> BOOLEAN]
      BY DEF CaptureTypeOK
    <2>2. QED
      BY <2>1, MaybeCaptureFacts
  <1>3. QED
    BY <1>1, <1>2, CmdHead DEF CaptureTypeOK, Flight

LEMMA ReleaseCaptureInv == ASSUME CaptureInv, HandleRelease PROVE CaptureInv'
  <1> USE DEF CaptureInv, HandleRelease, TakeCmd
  <1>1. Books'
    BY BooksRelease DEF IsRelease
  <1>2. /\ busy' \in [Slots -> BOOLEAN]
        /\ \A s \in Slots : ~busy[s] => ~busy'[s]
    BY CmdHead DEF CaptureTypeOK
  <1>3. /\ inFlight' \in [obj : Objs, slot : Slots] \cup {None}
        /\ want' \in BOOLEAN /\ owed' \in BOOLEAN
        /\ inFlight' # None => ring' # None /\ ~busy'[inFlight'.slot]
        /\ owed' => inFlight' # None
        /\ WantedIsCaptured'
    <2>1. /\ inFlight \in [obj : Objs, slot : Slots] \cup {None}
          /\ inFlight # None => inFlight.slot \in Slots
          /\ want \in BOOLEAN
      BY DEF CaptureTypeOK
    <2>2. inFlight # None => ring' # None /\ ~busy'[inFlight.slot]
      BY <1>2, <2>1 DEF Flight
    <2>3. QED
      BY <1>2, <2>1, <2>2, MaybeCaptureFacts
  <1>4. QED
    BY <1>1, <1>2, <1>3, CmdHead DEF CaptureTypeOK, Flight

LEMMA StopCaptureInv == ASSUME CaptureInv, HandleStop PROVE CaptureInv'
  <1> USE DEF CaptureInv, HandleStop, TakeCmd
  <1>1. Books'
    BY BooksTakeCmd DEF IsRelease
  <1>2. QED
    BY <1>1, CmdHead DEF CaptureTypeOK, Flight, WantedIsCaptured

LEMMA DoneCaptureInv == ASSUME CaptureInv, HandleDone PROVE CaptureInv'
  <1> USE DEF CaptureInv, HandleDone, TakeEvent
  <1>1. Head(wl).size \in Sizes /\ Tail(wl) \in Seq(WlEvent)
    BY WlHead
  <1>2. CASE Head(wl).size = ring
    <2>1. Books'
      BY <1>2, BooksKept
    <2>2. /\ inFlight' \in [obj : Objs, slot : Slots] \cup {None}
          /\ want' \in BOOLEAN /\ owed' \in BOOLEAN
          /\ inFlight' # None => ring' # None /\ ~busy'[inFlight'.slot]
          /\ owed' => inFlight' # None
          /\ WantedIsCaptured'
      <3>1. /\ busy' \in [Slots -> BOOLEAN] /\ want \in BOOLEAN
            /\ inFlight \in [obj : Objs, slot : Slots] \cup {None}
            /\ inFlight # None => ring' # None /\ ~busy'[inFlight.slot]
            /\ MaybeCapture(want, inFlight)
        BY <1>2 DEF CaptureTypeOK, Flight
      <3>2. QED
        BY <3>1, MaybeCaptureFacts
    <2>3. QED
      BY <1>1, <1>2, <2>1, <2>2 DEF CaptureTypeOK, Flight
  <1>3. CASE Head(wl).size # ring
    <2>1. /\ gen' = NextGen /\ busy' = FreshRing
          /\ gen' \in Nat /\ busy' \in [Slots -> BOOLEAN] /\ StillWanted \in BOOLEAN
      <3>1. gen' = NextGen /\ busy' = FreshRing
        BY <1>3
      <3>2. gen' \in Nat
        BY <3>1 DEF CaptureTypeOK, NextGen
      <3>3. busy' \in [Slots -> BOOLEAN]
        BY <3>1 DEF FreshRing
      <3>4. StillWanted \in BOOLEAN
        BY DEF StillWanted
      <3>5. QED
        BY <3>1, <3>2, <3>3, <3>4
    <2>2. CASE ring' = Head(wl).size /\ UNCHANGED <<quit, events>> /\ MaybeCapture(StillWanted, None)
      <3>1. Books'
        BY <2>1, <2>2, BooksNewRing
      <3>2. /\ inFlight' \in [obj : Objs, slot : Slots] \cup {None}
            /\ want' \in BOOLEAN /\ owed' \in BOOLEAN
            /\ inFlight' # None => ring' # None /\ ~busy'[inFlight'.slot]
            /\ owed' => inFlight' # None
            /\ WantedIsCaptured'
        BY <2>1, <2>2, MaybeCaptureFacts
      <3>3. QED
        BY <1>1, <2>1, <2>2, <3>1, <3>2 DEF CaptureTypeOK, Flight
    <2>3. CASE AllocationFails /\ want' = StillWanted
      <3> USE DEF AllocationFails
      <3>1. [type |-> "error"] \in Event
        BY DEF Event
      <3>2. events' \in Seq(Event)
        BY <2>3, <3>1, AddFacts DEF CaptureTypeOK
      <3>3. Books'
        BY <2>1, <2>3, <3>1, BooksFailedRing DEF IsFrame
      <3>4. QED
        BY <1>1, <2>1, <2>3, <3>2, <3>3
        DEF CaptureTypeOK, Flight, WantedIsCaptured, Books
    <2>4. QED
      BY <1>3, <2>2, <2>3
  <1>4. QED
    BY <1>2, <1>3

LEMMA StaleCaptureInv == ASSUME CaptureInv, HandleStale PROVE CaptureInv'
  <1> USE DEF CaptureInv, HandleStale, TakeEvent
  <1>1. Books'
    BY BooksKept
  <1>2. QED
    BY <1>1, WlHead DEF CaptureTypeOK, Flight, WantedIsCaptured

LEMMA ReadyCaptureInv == ASSUME CaptureInv, HandleReady PROVE CaptureInv'
  <1> USE DEF CaptureInv, HandleReady, TakeEvent, ForCurrent
  <1>1. /\ inFlight.slot \in Slots /\ ~busy[inFlight.slot] /\ ring \in Sizes
        /\ want \in BOOLEAN
    BY DEF CaptureTypeOK, Flight
  <1>2. Books' /\ events' \in Seq(Event)
    BY <1>1, BooksReady
  <1>3. busy' \in [Slots -> BOOLEAN]
    BY <1>1 DEF CaptureTypeOK
  <1>4. /\ inFlight' \in [obj : Objs, slot : Slots] \cup {None}
        /\ want' \in BOOLEAN /\ owed' \in BOOLEAN
        /\ inFlight' # None => ring' # None /\ ~busy'[inFlight'.slot]
        /\ owed' => inFlight' # None
        /\ WantedIsCaptured'
    BY <1>1, <1>3, MaybeCaptureFacts
  <1>5. QED
    BY <1>1, <1>2, <1>3, <1>4, WlHead DEF CaptureTypeOK, Flight

LEMMA FailedCaptureInv == ASSUME CaptureInv, HandleFailed PROVE CaptureInv'
  <1> USE DEF CaptureInv, HandleFailed, TakeEvent
  <1>1. Books'
    BY BooksKept
  <1>2. busy' \in [Slots -> BOOLEAN]
    BY DEF CaptureTypeOK
  <1>3. /\ inFlight' \in [obj : Objs, slot : Slots] \cup {None}
        /\ want' \in BOOLEAN /\ owed' \in BOOLEAN
        /\ inFlight' # None => ring' # None /\ ~busy'[inFlight'.slot]
        /\ owed' => inFlight' # None
        /\ WantedIsCaptured'
    BY <1>2, MaybeCaptureFacts
  <1>4. wl' \in Seq(WlEvent)
    BY WlHead
  <1>5. CaptureTypeOK'
    BY <1>2, <1>3, <1>4 DEF CaptureTypeOK
  <1>6. QED
    BY <1>1, <1>3, <1>5 DEF Flight

LEMMA StoppedCaptureInv == ASSUME CaptureInv, HandleStopped PROVE CaptureInv'
  <1> USE DEF CaptureInv, HandleStopped, TakeEvent
  <1>1. [type |-> "stopped"] \in Event
    BY DEF Event
  <1>2. Books'
    BY <1>1, BooksAddEvent DEF IsFrame
  <1>3. events' \in Seq(Event)
    BY <1>1, AddFacts DEF CaptureTypeOK
  <1>4. /\ wl # <<>> /\ wl' = Tail(wl) /\ UNCHANGED <<over, cmds, mode, held>>
        /\ inFlight' = None \/ inFlight' = inFlight
    OBVIOUS
  <1>5. wl' \in Seq(WlEvent)
    BY <1>4, WlHead
  <1>6. CaptureTypeOK'
    BY <1>3, <1>4, <1>5 DEF CaptureTypeOK
  <1>7. Flight' /\ WantedIsCaptured'
    BY <1>4 DEF Flight, WantedIsCaptured
  <1>8. QED
    BY <1>2, <1>6, <1>7

LEMMA TeardownCaptureInv == ASSUME CaptureInv, Quit \/ Disconnected PROVE CaptureInv'
  <1> USE DEF CaptureInv, Teardown, Quit, Disconnected
  <1>1. [type |-> "error"] \in Event
    BY DEF Event
  <1>2. Books' /\ events' \in Seq(Event)
    <2>1. CASE UNCHANGED events
      BY <2>1, BooksKept DEF CaptureTypeOK
    <2>2. CASE events' = Append(events, [type |-> "error"])
      BY <1>1, <2>2, BooksAddEvent, AddFacts DEF CaptureTypeOK, IsFrame
    <2>3. QED
      BY <2>1, <2>2
  <1>3. QED
    BY <1>2 DEF CaptureTypeOK, Flight, WantedIsCaptured

-----------------------------------------------------------------------------
\* The compositor and the consumer.

LEMMA CompositorCaptureInv == ASSUME CaptureInv, Compositor PROVE CaptureInv'
  <1> USE DEF CaptureInv, CompositorUnchanged, threadVars
  <1>1. /\ UNCHANGED <<threadVars, cmds, events, held>>
        /\ owed' \in BOOLEAN /\ (owed' => owed)
    <2>1. owed \in BOOLEAN
      BY DEF CaptureTypeOK
    <2>3. CASE \E type \in {"ready", "failed"} : Answer(type)
      BY <2>3 DEF Answer
    <2>4. CASE EndCapture
      BY <2>4 DEF EndCapture
    <2>5. CASE \E size \in Sizes : Announce(size)
      BY <2>1, <2>5 DEF Announce
    <2>6. QED
      BY <2>3, <2>4, <2>5 DEF Compositor
  <1>2. Books'
    BY <1>1, BooksKept
  <1>3. mode' \in Sizes \cup {None} /\ wl' \in Seq(WlEvent)
    <2>1. ASSUME NEW size \in Sizes, Announce(size)
          PROVE  mode' \in Sizes \cup {None} /\ wl' \in Seq(WlEvent)
      BY <2>1, AddFacts DEF Announce, CaptureTypeOK, WlEvent
    <2>2. ASSUME NEW type \in {"ready", "failed"}, Answer(type)
          PROVE  mode' \in Sizes \cup {None} /\ wl' \in Seq(WlEvent)
      <3>1. [type |-> type, obj |-> inFlight.obj] \in WlEvent
        BY <2>2 DEF Answer, Flight, CaptureTypeOK, WlEvent, FrameEvents
      <3>2. QED
        BY <2>2, <3>1, AddFacts DEF Answer, CaptureTypeOK
    <2>3. ASSUME EndCapture
          PROVE  mode' \in Sizes \cup {None} /\ wl' \in Seq(WlEvent)
      <3> DEFINE told == <<[type |-> "stopped"]>>
                 failed == IF owed
                             THEN <<[type |-> "failedStopped", obj |-> inFlight.obj]>>
                             ELSE <<>>
      <3>1. told \in Seq(WlEvent)
        BY DEF WlEvent
      <3>2. failed \in Seq(WlEvent)
        <4>1. CASE owed
          <5>1. [type |-> "failedStopped", obj |-> inFlight.obj] \in WlEvent
            BY <4>1 DEF Flight, CaptureTypeOK, WlEvent, FrameEvents
          <5>2. QED
            BY <4>1, <5>1
        <4>2. CASE ~owed
          BY <4>2
        <4>3. QED
          BY <4>1, <4>2
      <3>3. mode' = None /\ wl' \in {wl \o (told \o failed), wl \o (failed \o told)}
        BY <2>3 DEF EndCapture
      <3> HIDE DEF told, failed
      <3>4. told \o failed \in Seq(WlEvent) /\ failed \o told \in Seq(WlEvent)
        BY <3>1, <3>2, ConcatProperties
      <3>5. wl \in Seq(WlEvent)
        BY DEF CaptureTypeOK
      <3>6. QED
        BY <3>3, <3>4, <3>5, ConcatProperties
    <2>4. QED
      BY <2>1, <2>2, <2>3 DEF Compositor
  <1>4. QED
    BY <1>1, <1>2, <1>3 DEF CaptureTypeOK, Flight, WantedIsCaptured

LEMMA ConsumerCaptureInv == ASSUME CaptureInv, Consumer PROVE CaptureInv'
  <1> USE DEF CaptureInv, threadVars
  <1>1. ASSUME NEW type \in {"request", "recapture", "stop"}, Ask(type) PROVE CaptureInv'
    <2> DEFINE c == [type |-> type]
    <2>1. c \in Cmd /\ ~IsRelease(c)
      BY DEF Cmd, IsRelease
    <2>2. cmds' = cmds \/ cmds' = Append(cmds, c)
      <3>1. cmds \o <<c>> = Append(cmds, c)
        BY <2>1, AddFacts DEF CaptureTypeOK
      <3>2. cmds' = cmds \/ cmds' = cmds \o <<c>>
        BY <1>1 DEF Ask, SendCmds
      <3>3. QED
        BY <3>1, <3>2
    <2>3. cmds' \in Seq(Cmd)
      <3>1. cmds \in Seq(Cmd)
        BY DEF CaptureTypeOK
      <3>2. Append(cmds, c) \in Seq(Cmd)
        BY <2>1, <3>1, AddFacts
      <3>3. QED
        BY <2>2, <3>1, <3>2
    <2>4. UNCHANGED <<gen, busy, ring, held, events>>
      BY <1>1 DEF Ask
    <2>5. Books'
      <3>1. CASE cmds' = cmds
        BY <2>4, <3>1, BooksKept
      <3>2. CASE cmds' = Append(cmds, c)
        BY <2>1, <2>4, <3>2, BooksAddCmd
      <3>3. QED
        BY <2>2, <3>1, <3>2
    <2>6. QED
      BY <1>1, <2>3, <2>5 DEF Ask, CaptureTypeOK, Flight, WantedIsCaptured
  <1>2. ASSUME Receive PROVE CaptureInv'
    <2>1. Books'
      BY <1>2, BooksReceive DEF Receive, IsFrame
    <2>2. Head(events) \in Event /\ Tail(events) \in Seq(Event)
      BY <1>2, HeadTailProperties DEF Receive, CaptureTypeOK
    <2>3. Head(events).type = "frame" => Head(events).frame \in Frame
      BY <2>2 DEF Event
    <2>4. QED
      BY <1>2, <2>1, <2>2, <2>3 DEF Receive, CaptureTypeOK, Flight, WantedIsCaptured
  <1>3. ASSUME NEW f \in held, Drop(f) PROVE CaptureInv'
    <2>1. Release(f) \in Cmd
      BY DEF Release, Cmd, CaptureTypeOK, Frame
    <2>2. CASE over
      <3>1. UNCHANGED <<gen, busy, ring, events, cmds>> /\ held' = held \ {f} /\ ring = None
        BY <1>3, <2>2 DEF Drop, SendCmds, Flight
      <3>2. Books'
        BY <3>1 DEF Books, OwnersTaken, OwnersApart, BusyOwned, GenerationsInOrder,
           Taken, In, IsFrame, IsRelease, HeldApart, HeldEventApart, HeldCmdApart,
           EventsApart, CmdsApart, EventCmdApart
      <3>3. QED
        BY <1>3, <3>1, <3>2 DEF Drop, CaptureTypeOK, Flight, WantedIsCaptured
    <2>3. CASE ~over
      <3>1. cmds' = Append(cmds, Release(f)) /\ cmds' \in Seq(Cmd)
        BY <1>3, <2>1, <2>3, AddFacts DEF Drop, SendCmds, CaptureTypeOK
      <3>2. Books'
        BY <1>3, <3>1, BooksDrop DEF Drop
      <3>3. QED
        BY <1>3, <3>1, <3>2 DEF Drop, CaptureTypeOK, Flight, WantedIsCaptured
    <2>4. QED
      BY <2>2, <2>3
  <1>4. QED
    BY <1>1, <1>2, <1>3 DEF Consumer

-----------------------------------------------------------------------------

\* The books of the ring's slots, CaptureInv, hold in every state of the thread.
THEOREM CaptureInductive == CaptureSpec => []CaptureInv
  <1>1. CaptureInv /\ [CaptureNext]_captureVars => CaptureInv'
    <2> SUFFICES ASSUME CaptureInv, [CaptureNext]_captureVars PROVE CaptureInv'
      OBVIOUS
    <2>1. CASE Compositor
      BY <2>1, CompositorCaptureInv
    <2>2. CASE Thread
      BY <2>2, RequestCaptureInv, RecaptureCaptureInv, ReleaseCaptureInv, StopCaptureInv, DoneCaptureInv,
         StaleCaptureInv, ReadyCaptureInv, FailedCaptureInv, StoppedCaptureInv, TeardownCaptureInv
      DEF Thread, Handlers
    <2>3. CASE Consumer
      BY <2>3, ConsumerCaptureInv
    <2>4. CASE UNCHANGED captureVars
      <3>1. Books'
        BY <2>4, BooksKept DEF CaptureInv, captureVars, threadVars
      <3>2. QED
        BY <2>4, <3>1 DEF CaptureInv, captureVars, threadVars, CaptureTypeOK, Flight, WantedIsCaptured
    <2>5. QED
      BY <2>1, <2>2, <2>3, <2>4 DEF CaptureNext
  <1>2. QED
    BY <1>1, CaptureStarts, PTL DEF CaptureSpec

\* Every variable of the thread and of its channels keeps its type.
THEOREM CaptureTypeCorrect == CaptureSpec => []CaptureTypeOK
  <1>1. CaptureInv => CaptureTypeOK
    BY DEF CaptureInv
  <1>2. QED
    BY <1>1, CaptureInductive, PTL

\* A live frame's index in the event channel.
LEMMA AliveFrames ==
  ASSUME CaptureTypeOK, NEW f \in Alive
  PROVE  f \in held \/ \E i \in 1..Len(events) : IsFrame(events[i]) /\ events[i].frame = f
  BY DEF Alive, Delivered, Range, IsFrame, CaptureTypeOK

\* The compositor never writes into a buffer whose picture is still to be
\* read (thread.rs maybe_capture takes only a slot that is not busy).
THEOREM BuffersAreNotOverwritten == CaptureSpec => []NoOverwrite
  <1>1. CaptureInv => NoOverwrite
    BY AliveFrames DEF CaptureInv, Books, OwnersTaken, Taken, Flight, NoOverwrite
  <1>2. QED
    BY <1>1, CaptureInductive, PTL

\* No slot of the ring leaks and none is freed twice (thread.rs on_cmd's
\* Release and on_screen_frame_event's Ready).
THEOREM SlotsAreAccounted == CaptureSpec => []SlotsAccounted
  <1>1. CaptureInv => SlotsAccounted
    <2> SUFFICES ASSUME CaptureInv, ring # None PROVE SlotsAccounted
      BY DEF SlotsAccounted
    <2> DEFINE owned == {f.slot : f \in {x \in Alive : x.gen = gen}}
                          \cup {c.slot : c \in {x \in Range(cmds) :
                                                  x.type = "release" /\ x.gen = gen}}
    <2>1. \A i \in 1..Len(events) : events[i] \in Event
      BY ElementOfSeq DEF CaptureInv, CaptureTypeOK
    <2>2. \A i \in 1..Len(cmds) : cmds[i] \in Cmd
      BY ElementOfSeq DEF CaptureInv, CaptureTypeOK
    <2>3. ASSUME NEW s \in Slots, busy[s] PROVE s \in owned
      <3>1. CASE \E f \in held : In(f, s)
        BY <3>1 DEF In, Alive
      <3>2. CASE \E i \in 1..Len(events) : IsFrame(events[i]) /\ In(events[i].frame, s)
        BY <3>2 DEF In, Alive, Delivered, Range, IsFrame, CaptureInv, CaptureTypeOK
      <3>3. CASE \E i \in 1..Len(cmds) : IsRelease(cmds[i]) /\ In(cmds[i], s)
        BY <3>3 DEF In, Range, IsRelease, CaptureInv, CaptureTypeOK
      <3>4. QED
        BY <2>3, <3>1, <3>2, <3>3 DEF CaptureInv, Books, BusyOwned
    <2>4. ASSUME NEW s \in owned PROVE s \in Slots /\ busy[s]
      <3>1. CASE \E f \in Alive : f.gen = gen /\ f.slot = s
        <4>1. PICK f \in Alive : f.gen = gen /\ f.slot = s
          BY <3>1
        <4>2. CASE f \in held
          BY <4>1, <4>2 DEF CaptureInv, CaptureTypeOK, Frame, Books, OwnersTaken, Taken
        <4>3. CASE \E i \in 1..Len(events) : IsFrame(events[i]) /\ events[i].frame = f
          BY <2>1, <4>1, <4>3
          DEF CaptureInv, Event, Frame, IsFrame, Books, OwnersTaken, Taken
        <4>4. QED
          BY <4>2, <4>3, AliveFrames DEF CaptureInv
      <3>2. CASE \E i \in 1..Len(cmds) : IsRelease(cmds[i]) /\ In(cmds[i], s)
        BY <2>2, <3>2 DEF CaptureInv, Cmd, In, IsRelease, Books, OwnersTaken, Taken
      <3>3. QED
        BY <2>4, <3>1, <3>2 DEF Range, In, IsRelease, CaptureInv, CaptureTypeOK
    <2>5. QED
      BY <2>3, <2>4 DEF SlotsAccounted
  <1>2. QED
    BY <1>1, CaptureInductive, PTL

\* No lost wake-up of the capture (every handler ends in maybe_capture).
THEOREM WantedFramesAreCaptured == CaptureSpec => []WantedIsCaptured
  <1>1. CaptureInv => WantedIsCaptured
    BY DEF CaptureInv
  <1>2. QED
    BY <1>1, CaptureInductive, PTL

\* Frames of a new ring follow the last of the old one (ring_generation).
THEOREM RingsInOrder == CaptureSpec => []GenerationsInOrder
  <1>1. CaptureInv => GenerationsInOrder
    BY DEF CaptureInv, Books
  <1>2. QED
    BY <1>1, CaptureInductive, PTL
=============================================================================

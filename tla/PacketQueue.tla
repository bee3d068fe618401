---------------------------- MODULE PacketQueue ----------------------------
(***************************************************************************)
(* The queue in front of the server's writer task: `Queue` of              *)
(* crates/gliff-server/src/writer.rs.                                      *)
(*                                                                         *)
(* The VecDeque is only ever appended to at the back, filtered in place    *)
(* and popped at the front, so its order is the order of the pushes.  It   *)
(* is modelled as the set of the queued packets, each with the number n of *)
(* its push; the front is the packet with the least n.  This form keeps    *)
(* `retain` a set difference, which is also what makes it easy to prove    *)
(* about.  A module that uses the queue adds the fields its packets carry. *)
(***************************************************************************)
EXTENDS Naturals

\* The five clipboard messages are one kind: push treats them alike.
Kinds == {"VideoFrame", "StreamConfig", "CursorShape", "CursorPos", "Pong",
          "Clipboard"}

Of(q, kind) == {m \in q : m.kind = kind}

\* Queue::video_ready: the session encodes at most one frame ahead.
VideoReady(q) == Of(q, "VideoFrame") = {}

\* Mutant: a config supersedes every queued config, a queued frame's too.
SupersededWithItsFrame(q, kind) ==
  CASE kind = "StreamConfig" -> Of(q, "StreamConfig")
    [] kind = "CursorShape" -> Of(q, "CursorShape") \cup Of(q, "CursorPos")
    [] kind \in {"CursorPos", "Pong"} -> Of(q, kind)
    [] OTHER -> {}

\* Mutant: a shape leaves the positions for the shape it supersedes.
SupersededShapeOnly(q, kind) ==
  CASE kind = "StreamConfig" ->
         {c \in Of(q, "StreamConfig") :
            \A v \in Of(q, "VideoFrame") : v.n < c.n}
    [] kind \in {"CursorShape", "CursorPos", "Pong"} -> Of(q, kind)
    [] OTHER -> {}

\* Mutant: every kind is coalesced, the reliable ones too.
SupersededAlways(q, kind) == Of(q, kind)

\* What a push of a message of this kind removes.  A config only supersedes
\* the configs queued after the last queued frame: an earlier one is the
\* config that frame was encoded under.
Superseded(q, kind) ==
  CASE kind = "StreamConfig" ->
         {c \in Of(q, "StreamConfig") :
            \A v \in Of(q, "VideoFrame") : v.n < c.n}
    [] kind = "CursorShape" -> Of(q, "CursorShape") \cup Of(q, "CursorPos")
    [] kind \in {"CursorPos", "Pong"} -> Of(q, kind)
    [] OTHER -> {}

\* Queue::push of a packet whose n is beyond every queued one.
Push(q, m) == (q \ Superseded(q, m.kind)) \cup {m}

\* m is what pop_front returns.
IsFront(m, q) == m \in q /\ \A o \in q : m.n <= o.n
=============================================================================

---------------------------- MODULE LinkEstimator ---------------------------
(***************************************************************************)
(* The link estimator of crates/gliff-server/src/rate.rs, fed by a link    *)
(* whose capacity is known: one unit of data a tick, one after another,    *)
(* and Delay ticks for the way there, the decoding and the ack.  With      *)
(* Stalls, an ack may also be held up, and later ones behind it.           *)
(*                                                                         *)
(* A rate is a pair, bytes in so many ticks; rates are compared by cross   *)
(* multiplication.  The smoothed values (srtt, mdev, avg_frame_bytes) and  *)
(* the log's frame rate are left out.                                      *)
(***************************************************************************)
EXTENDS RateTerms, FiniteSets, FiniteSetsExt

CONSTANTS
  Delay,        \* of the link
  Stalls,       \* acks may be late
  BaseWindow,   \* BASE_WINDOW, in ticks
  MinWindow,    \* bounds of rate_window
  MaxWindow,
  Sizes,        \* sizes of frames
  MaxFrames,    \* bound: frames sent
  MaxTime       \* bound: length of a run

ASSUME LinkAssumption ==
  /\ Delay \in Nat /\ Stalls \in BOOLEAN /\ BaseWindow \in Nat
  /\ MinWindow \in Nat /\ MaxWindow \in Nat /\ MinWindow <= MaxWindow
  /\ Sizes \subseteq Nat \ {0} /\ MaxFrames \in Nat /\ MaxTime \in Nat

VARIABLES
  now,
  sent,       \* frames in flight: id, bytes, at, app, and the snapshot
              \* (delivered, time) taken when they were sent; due and busy are
              \* the link's: when the ack comes back, and since when the link
              \* has been busy
  delivered,  \* cumulative acked bytes, and the time of the last ack
  deliveredTime,
  inflight,   \* inflight_bytes
  rtts,       \* rtt_window
  samples,    \* rate_samples
  nextId,     \* Session.frame_id
  link,       \* the link: when it is free, since when it has been busy
  last        \* history: the sample of the last ack, or NoSample

linkVars == <<now, sent, delivered, deliveredTime, inflight, rtts, samples, nextId, link, last>>

NoSample == [bytes |-> 0, time |-> 1, app |-> TRUE, busy |-> FALSE]

LinkInit ==
  /\ now = 0 /\ sent = {} /\ delivered = 0 /\ deliveredTime = None
  /\ inflight = 0 /\ rtts = {} /\ samples = {} /\ nextId = 0
  /\ link = [free |-> 0, busy |-> 0]
  /\ last = NoSample

-----------------------------------------------------------------------------

Sum(frames) == MapThenSumSet(LAMBDA f : f.bytes, frames)

\* base_rtt_ms, and rate_window: ten of them within bounds.
RateWindow(window) ==
  IF window = {} THEN MinWindow
  ELSE Least(Greatest(10 * Min({r.ms : r \in window}), MinWindow), MaxWindow)

Faster(a, b) == a.bytes * b.time > b.bytes * a.time

\* rate_max_bps is below sample s.
Beats(s) == \A t \in samples : Faster(s, t)

\* An app-limited sample counts only above the estimate.
Counts(s) == ~s.app \/ Beats(s)

\* record_rate, with the round trips already recorded.
RecordRate(s, window) ==
  samples' =
    IF Counts(s)
    THEN {t \in samples \cup {[at |-> now, bytes |-> s.bytes, time |-> s.time]} :
            now - t.at <= RateWindow(window)}
    ELSE samples

\* Mutant: the round trip of the frame is its interval.
IntervalShort(f) == now - f.at

\* The larger of the send and the ack interval.
Interval(f) == Greatest(now - f.time, now - f.at)

\* delivered_time_at_send: the last ack, if it is recent.
Snapshot ==
  IF deliveredTime # None /\ now - deliveredTime <= RateWindow(rtts)
  THEN deliveredTime ELSE None

\* on_sent, at the start of an encode; the link takes the frame.
OnSent(bytes, app) ==
  /\ nextId < MaxFrames
  /\ LET start == Greatest(link.free, now)
         busy == IF link.free < now THEN now ELSE link.busy
     IN /\ link' = [free |-> start + bytes, busy |-> busy]
        /\ sent' = sent \cup
             {[id |-> nextId, bytes |-> bytes, at |-> now, app |-> app,
               delivered |-> delivered, time |-> Snapshot,
               due |-> start + bytes + Delay, busy |-> busy]}
  /\ nextId' = nextId + 1
  /\ inflight' = inflight + bytes
  /\ UNCHANGED <<now, delivered, deliveredTime, rtts, samples, last>>

\* An ack credits the frame it names and every earlier one.
Credited(id) == {f \in sent : f.id <= id}

OnAckOf(id) ==
  /\ \E f \in sent : f.id = id
  /\ LET f == CHOOSE g \in sent : g.id = id
         gone == Credited(id)
         total == delivered + Sum(gone)
         window == {r \in rtts \cup {[at |-> now, ms |-> now - f.at]} :
                      now - r.at <= BaseWindow}
         s == [bytes |-> total - f.delivered, time |-> Interval(f), app |-> f.app,
               busy |-> f.busy <= f.time - Delay]
     IN /\ sent' = sent \ gone
        /\ inflight' = inflight - Sum(gone)
        /\ delivered' = total /\ deliveredTime' = now
        /\ rtts' = window
        /\ IF f.time # None /\ s.time > 0
           THEN RecordRate(s, window) /\ last' = s
           ELSE UNCHANGED <<samples, last>>
  /\ UNCHANGED <<now, nextId, link>>

\* The client acks each frame, in order: the ack is there at its time, or later
\* if something stalls.
AckArrives ==
  \E f \in sent : /\ f.due <= now /\ \A g \in sent : f.id <= g.id
                 /\ OnAckOf(f.id)

\* seed_rtt: the answer to the handshake's ping, before any ack.
Seed ==
  /\ rtts = {}
  /\ rtts' = {[at |-> now, ms |-> Delay]}
  /\ UNCHANGED <<now, sent, delivered, deliveredTime, inflight, samples, nextId, link, last>>

LinkTick ==
  /\ now < MaxTime
  /\ Stalls \/ \A f \in sent : f.due > now
  /\ now' = now + 1
  /\ UNCHANGED <<sent, delivered, deliveredTime, inflight, rtts, samples, nextId, link, last>>

LinkNext ==
  \/ \E b \in Sizes, app \in BOOLEAN : OnSent(b, app)
  \/ AckArrives \/ Seed \/ LinkTick

LinkSpec == LinkInit /\ [][LinkNext]_linkVars

(***************************************************************************)
(* Properties.                                                             *)
(***************************************************************************)

\* "Neither a burst of acks after a stall nor a long-idle first frame
\* overstates it": no sample is above what the link can carry.
RateNotOverstated == last.bytes <= last.time

\* A sample is never above what the link carries, whatever the application
\* sent, and it is just that while the link is kept busy.
RateMeasured ==
  RateNotOverstated /\ (last.busy => last.bytes = last.time)

=============================================================================

-------------------------- MODULE VideoSessionProofs --------------------------
(***************************************************************************)
(* The safety of VideoSession, for any geometries, tiers and bounds.  What *)
(* the server has sent and the client has not seen is one line of packets, *)
(* from the socket to the writer's queue; the coalescing of the queue cuts *)
(* configs off its end.  Along the line, every frame finds a decoder of    *)
(* its geometry that holds its reference, and the contents of the screen   *)
(* come in the order the screen had them.                                  *)
(***************************************************************************)
EXTENDS VideoSession, SequenceTheorems, TLAPS

Packet == [n : Nat, kind : {"StreamConfig"}, geom : Geoms]
            \cup [n : Nat, kind : {"VideoFrame"}, geom : Geoms,
                  key : BOOLEAN, version : Nat]

Content == Nat \cup {None}
CaptureState == [asked : BOOLEAN, full : BOOLEAN, seen : Nat, frames : Seq(Nat)]
SessionState ==
  [pending : Content, last : Content, refines : Nat, key : BOOLEAN, geom : Geoms,
   fresh : BOOLEAN, inflight : Int, sent : BOOLEAN, recaptured : BOOLEAN,
   queue : SUBSET Packet]
DecoderState ==
  [tier : Tiers, geom : Geoms, primed : BOOLEAN, held : Seq(Nat), lag : {0, 1},
   complete : Content, waiting : Content]

TypeOK ==
  /\ screen \in Nat /\ shown \in Nat
  /\ capture \in CaptureState
  /\ ses \in SessionState /\ dec \in DecoderState
  /\ writing \in SUBSET Packet /\ wire \in Seq(Packet) /\ ui \in Seq(Nat)
  /\ failed \in BOOLEAN

-----------------------------------------------------------------------------
(* The line P of packets: those on the wire w, the one being written, in W, *)
(* and the queue Q in the order of its numbers, with one frame at most.      *)

IsConfig(m) == m.kind = "StreamConfig"

Begun(w, W) == Len(w) + IF W = {} THEN 0 ELSE 1

Line(P, w, W, Q) ==
  /\ Begun(w, W) <= Len(P)
  /\ \A i \in 1..Len(w) : P[i] = w[i]
  /\ W # {} => W = {P[Len(w) + 1]}
  /\ \A i \in 1..Len(P) : i > Begun(w, W) => P[i] \in Q
  /\ \A m \in Q : \E i \in 1..Len(P) : i > Begun(w, W) /\ P[i] = m
  /\ \A i, j \in 1..Len(P) : Begun(w, W) < i /\ i < j =>
       P[i].n < P[j].n /\ ~(IsVideo(P[i]) /\ IsVideo(P[j]))

-----------------------------------------------------------------------------
(* A frame of geometry g behind the first e packets of the line.             *)

\* The last config before it, or else the decoder d, has its geometry.
Announced(P, e, g, d) ==
  /\ \A i \in 1..e : IsConfig(P[i]) =>
       P[i].geom = g \/ \E j \in 1..e : i < j /\ IsConfig(P[j])
  /\ d.geom = g \/ \E j \in 1..e : IsConfig(P[j])

\* Nothing of another geometry lies between it and the frame before, or else
\* the reference d holds.
Referenced(P, e, g, d) ==
  /\ \A i \in 1..e : P[i].geom = g \/ \E j \in 1..e : i < j /\ IsVideo(P[j])
  /\ (d.geom = g /\ d.primed) \/ \E j \in 1..e : IsVideo(P[j])

\* The frames of the line, and the next one the session s may encode, come
\* under the right config; those that are no keyframes have their reference.
Announcing(P, s, d) ==
  /\ \A j \in 1..Len(P) : IsVideo(P[j]) => Announced(P, j - 1, P[j].geom, d)
  /\ Announced(P, Len(P), s.geom, d)

Referencing(P, s, d) ==
  /\ \A j \in 1..Len(P) : IsVideo(P[j]) =>
       P[j].key \/ Referenced(P, j - 1, P[j].geom, d)
  /\ s.key \/ s.fresh \/ Referenced(P, Len(P), s.geom, d)

-----------------------------------------------------------------------------
(* The contents on their way, in the order of the screen.                    *)

\* All the client has is no newer than v.
Reaches(v, u, d, sh) ==
  /\ sh <= v
  /\ \A i \in 1..Len(u) : u[i] <= v
  /\ d.waiting # None => d.waiting <= v
  /\ \A i \in 1..Len(d.held) : d.held[i] <= v
  /\ d.complete # None => d.complete <= v

\* The pictures of the client: painted, in the channel, waiting for it, in the
\* decoder, the newest decoded.
ClientOrder(u, d, sh) ==
  /\ \A i, j \in 1..Len(u) : i <= j => sh <= u[i] /\ u[i] <= u[j]
  /\ d.waiting # None => sh <= d.waiting /\ \A i \in 1..Len(u) : u[i] <= d.waiting
  /\ \A j \in 1..Len(d.held) :
       /\ sh <= d.held[j] /\ \A i \in 1..Len(u) : u[i] <= d.held[j]
       /\ d.waiting # None => d.waiting <= d.held[j]
  /\ d.complete # None => Reaches(d.complete, u, d, sh)
  /\ Len(d.held) <= d.lag /\ (d.tier = "gpu" => d.lag = 0)

\* v is no newer than what the server is still to encode.
Behind(v, s, c, scr) ==
  /\ s.last # None => v <= s.last
  /\ s.pending # None => v <= s.pending
  /\ \A i \in 1..Len(c.frames) : v <= c.frames[i]
  /\ v <= c.seen /\ v <= scr

ServerOrder(s, c, scr) ==
  /\ s.last # None => Behind(s.last, s, c, scr)
  /\ s.pending # None => /\ \A i \in 1..Len(c.frames) : s.pending <= c.frames[i]
                         /\ s.pending <= c.seen
  /\ \A i, j \in 1..Len(c.frames) : i <= j => c.frames[i] <= c.frames[j]
  /\ \A i \in 1..Len(c.frames) : c.frames[i] <= c.seen
  /\ c.seen <= scr

LineOrder(P, s, c, scr) ==
  \A i \in 1..Len(P) : IsVideo(P[i]) =>
    /\ Behind(P[i].version, s, c, scr)
    /\ \A j \in 1..Len(P) : i <= j /\ IsVideo(P[j]) => P[i].version <= P[j].version

\* The line and the server are ahead of the client.
ClientBehind(P, s, c, scr, u, d, sh) ==
  /\ \A i \in 1..Len(P) : IsVideo(P[i]) => Reaches(P[i].version, u, d, sh)
  /\ s.last # None => Reaches(s.last, u, d, sh)
  /\ s.pending # None => Reaches(s.pending, u, d, sh)
  /\ \A i \in 1..Len(c.frames) : Reaches(c.frames[i], u, d, sh)
  /\ Reaches(c.seen, u, d, sh) /\ Reaches(scr, u, d, sh)

-----------------------------------------------------------------------------
\* What holds of the session s and the capture c, with the line P between them
\* and the client; and of the client.
Fit(P, s, c) ==
  /\ Line(P, wire, writing, s.queue)
  /\ Announcing(P, s, dec)
  /\ ~failed => Referencing(P, s, dec)
  /\ ServerOrder(s, c, screen)
  /\ LineOrder(P, s, c, screen)
  /\ ClientBehind(P, s, c, screen, ui, dec, shown)

Sound(P) == Fit(P, ses, capture) /\ ClientOrder(ui, dec, shown)

IInv == TypeOK /\ \E P \in Seq(Packet) : Sound(P)

-----------------------------------------------------------------------------
(* Packets and lines.                                                        *)

LEMMA Packets ==
  ASSUME NEW m \in Packet
  PROVE  /\ m.n \in Nat /\ m.geom \in Geoms
         /\ (IsVideo(m) \/ IsConfig(m))
         /\ ~(IsVideo(m) /\ IsConfig(m))
         /\ IsVideo(m) => m.key \in BOOLEAN /\ m.version \in Nat
  BY DEF Packet, IsVideo, IsConfig

\* The first e packets of the line and a new one.
Cut(P, e, m) == Append(SubSeq(P, 1, e), m)

LEMMA CutLine ==
  ASSUME NEW P \in Seq(Packet), NEW e \in 0..Len(P), NEW m \in Packet
  PROVE  /\ Cut(P, e, m) \in Seq(Packet) /\ Len(Cut(P, e, m)) = e + 1
         /\ Cut(P, e, m)[e + 1] = m
         /\ \A i \in 1..e : Cut(P, e, m)[i] = P[i]
  <1> DEFINE S == SubSeq(P, 1, e)
  <1>1. Len(P) \in Nat /\ e \in Nat /\ \A i \in 1..e : P[i] \in Packet
    BY LenProperties, ElementOfSeq
  <1>2. S \in Seq(Packet) /\ Len(S) = e /\ \A i \in 1..e : S[i] = P[i]
    BY <1>1, SubSeqProperties
  <1> HIDE DEF S
  <1> QED
    BY <1>1, <1>2, AppendProperties DEF Cut, S

LEMMA TailLine ==
  ASSUME NEW P \in Seq(Packet), P # <<>>
  PROVE  /\ Tail(P) \in Seq(Packet) /\ Len(P) \in Nat /\ Len(P) > 0
         /\ Len(Tail(P)) = Len(P) - 1 /\ Head(P) = P[1] /\ P[1] \in Packet
         /\ \A i \in 1..(Len(P) - 1) : Tail(P)[i] = P[i + 1]
  <1>1. Len(P) \in Nat /\ Len(P) > 0
    BY LenProperties, EmptySeq
  <1> QED
    BY <1>1, HeadTailProperties, ElementOfSeq

\* The number of a new packet is beyond those it joins.
LEMMA NewNumber ==
  ASSUME NEW R \in SUBSET Packet, NEW N,
         N = 1 + Max({0} \cup {m.n : m \in R}),
         R # {} => \E x \in R : \A y \in R : y.n <= x.n
  PROVE  N \in Nat /\ \A m \in R : m.n < N
  <1> DEFINE S == {0} \cup {m.n : m \in R}
  <1>1. S \in SUBSET Nat
    BY Packets
  <1>2. \E x \in S : \A y \in S : x >= y
    <2>1. CASE R = {}
      BY <2>1
    <2>2. CASE R # {}
      <3>1. PICK x \in R : \A y \in R : y.n <= x.n
        BY <2>2
      <3>2. x.n \in Nat /\ x.n \in S /\ \A y \in S : x.n >= y
        BY <3>1, Packets
      <3> QED
        BY <3>2
    <2> QED
      BY <2>1, <2>2
  <1>3. Max(S) \in S /\ \A y \in S : Max(S) >= y
    BY <1>2 DEF Max
  <1>4. \A m \in R : m.n \in S
    OBVIOUS
  <1> HIDE DEF S
  <1>5. N = 1 + Max(S)
    BY DEF S
  <1>6. Max(S) \in Nat /\ \A m \in R : m.n \in Nat /\ m.n <= Max(S)
    BY <1>1, <1>3, <1>4
  <1> DEFINE top == Max(S)
  <1>7. N = 1 + top /\ top \in Nat /\ \A m \in R : m.n \in Nat /\ m.n <= top
    BY <1>5, <1>6
  <1> HIDE DEF top
  <1>8. \A m \in R : m.n < N
    BY <1>7
  <1> QED
    BY <1>7, <1>8

\* A push cuts the line behind what the queue keeps.
LEMMA LinePushed ==
  ASSUME NEW P \in Seq(Packet), NEW w \in Seq(Packet), NEW W, NEW Q \in SUBSET Packet,
         Line(P, w, W, Q), NEW m,
         NEW N, N = 1 + Max({0} \cup {x.n : x \in Q \ Superseded(Q, m.kind)}),
         N \in Nat => m \in Packet, m.n = N,
         m.kind = "StreamConfig" \/ (m.kind = "VideoFrame" /\ VideoReady(Q))
  PROVE  \E e \in 0..Len(P) :
           /\ m \in Packet
           /\ Line(Cut(P, e, m), w, W, Push(Q, m))
           /\ \A i \in 1..Len(P) : i > e => IsConfig(P[i])
           /\ IsVideo(m) => e = Len(P)
           /\ \A x \in Push(Q, m) : x \in Q \/ x = m
  <1> DEFINE b == Begun(w, W)
             L == Len(P)
             R == Q \ Superseded(Q, m.kind)
  <1>1. L \in Nat /\ Len(w) \in Nat /\ b \in Nat /\ b <= L /\ Len(w) <= b
        /\ \A i \in 1..L : P[i] \in Packet
    BY LenProperties, ElementOfSeq DEF Line, Begun
  <1>2. /\ \A i \in 1..L : i > b => P[i] \in Q
        /\ \A x \in Q : \E i \in 1..L : i > b /\ P[i] = x
        /\ \A i, j \in 1..L : b < i /\ i < j =>
             P[i].n < P[j].n /\ ~(IsVideo(P[i]) /\ IsVideo(P[j]))
    BY DEF Line
  <1>3. \A i \in 1..L : P[i].n \in Nat
    BY <1>1, Packets
  <1> HIDE DEF b, L, R
  <1>4. \E e \in b..L : /\ \A x \in Q : x \in R <=> \E i \in 1..e : i > b /\ P[i] = x
                        /\ \A i \in 1..L : i > e => IsConfig(P[i])
                        /\ m.kind = "VideoFrame" => e = L
    <2>1. CASE m.kind = "VideoFrame"
      <3>1. Superseded(Q, m.kind) = {}
        BY <2>1 DEF Superseded
      <3>2. R = Q
        BY <3>1 DEF R
      <3> QED
        BY <1>1, <1>2, <3>2
    <2>2. CASE m.kind = "StreamConfig"
      <3>1. \A x \in Q : x \in R <=> ~IsConfig(x) \/ \E v \in Q : IsVideo(v) /\ ~(v.n < x.n)
        BY <2>2 DEF R, Superseded, Of, IsConfig, IsVideo
      <3>2. CASE \E f \in 1..L : f > b /\ IsVideo(P[f])
        <4>1. PICK f \in 1..L : f > b /\ IsVideo(P[f])
          BY <3>2
        <4>2. \A i \in 1..L : i > b /\ i # f => ~IsVideo(P[i]) /\ IsConfig(P[i])
          BY <1>1, <1>2, <4>1, Packets
        <4>3. \A i \in 1..L : i > b => (P[i] \in R <=> i <= f)
          <5> SUFFICES ASSUME NEW i \in 1..L, i > b
                       PROVE  P[i] \in R <=> i <= f
            OBVIOUS
          <5>1. P[i] \in Q /\ P[f] \in Q /\ P[i].n \in Nat /\ P[f].n \in Nat
            BY <1>2, <1>3, <4>1
          <5>2. \A v \in Q : IsVideo(v) => v = P[f]
            BY <1>2, <4>2
          <5>3. CASE i < f
            <6>1. P[i].n < P[f].n
              BY <1>2, <5>3
            <6> QED
              BY <3>1, <4>1, <5>1, <5>3, <6>1
          <5>4. CASE i = f
            BY <3>1, <4>1, <5>1, <5>4
          <5>5. CASE i > f
            <6>1. P[f].n < P[i].n /\ IsConfig(P[i])
              BY <1>2, <4>1, <4>2, <5>5
            <6> QED
              BY <3>1, <5>1, <5>2, <5>5, <6>1
          <5> QED
            BY <5>3, <5>4, <5>5
        <4>4. \A x \in Q : x \in R <=> \E i \in 1..f : i > b /\ P[i] = x
          BY <1>1, <1>2, <4>1, <4>3
        <4>5. \A i \in 1..L : i > f => IsConfig(P[i])
          BY <1>1, <4>1, <4>2
        <4>6. f \in b..L
          BY <1>1, <4>1
        <4> QED
          BY <2>2, <4>4, <4>5, <4>6
      <3>3. CASE \A f \in 1..L : f > b => ~IsVideo(P[f])
        <4>1. \A x \in Q : ~IsVideo(x) /\ IsConfig(x)
          BY <1>1, <1>2, <3>3, Packets
        <4>2. R = {}
          BY <3>1, <4>1 DEF R
        <4>3. \A i \in 1..L : i > b => IsConfig(P[i])
          BY <1>2, <4>1
        <4>4. ~\E i \in 1..b : i > b
          BY <1>1
        <4>5. b \in b..L
          BY <1>1
        <4> QED
          BY <2>2, <4>2, <4>3, <4>4, <4>5
      <3> QED
        BY <3>2, <3>3
    <2> QED
      BY <2>1, <2>2
  <1>5. PICK e \in b..L : /\ \A x \in Q : x \in R <=> \E i \in 1..e : i > b /\ P[i] = x
                          /\ \A i \in 1..L : i > e => IsConfig(P[i])
                          /\ m.kind = "VideoFrame" => e = L
    BY <1>4
  <1>6. e \in Nat /\ e <= L /\ b <= e
    BY <1>1
  <1>7. R \subseteq Q /\ \A i \in 1..e : i > b => P[i] \in R
    BY <1>1, <1>2, <1>5, <1>6 DEF R
  <1>8. R # {} => \E x \in R : \A y \in R : y.n <= x.n
    <2> SUFFICES ASSUME R # {}
                 PROVE  \E x \in R : \A y \in R : y.n <= x.n
      OBVIOUS
    <2>1. \A y \in R : \E i \in 1..e : i > b /\ P[i] = y
      BY <1>5, <1>7
    <2>2. e > b /\ e \in 1..e /\ e \in 1..L
      BY <1>1, <1>6, <2>1
    <2>3. \A i \in 1..e : i > b => P[i].n <= P[e].n
      <3> SUFFICES ASSUME NEW i \in 1..e, i > b
                   PROVE  P[i].n <= P[e].n
        OBVIOUS
      <3>1. i \in 1..L /\ P[i].n \in Nat /\ P[e].n \in Nat
        BY <1>1, <1>3, <1>6, <2>2
      <3>2. i = e \/ i < e
        BY <1>6
      <3> QED
        BY <1>2, <2>2, <3>1, <3>2
    <2> QED
      BY <1>7, <2>1, <2>2, <2>3
  <1>9. N \in Nat /\ \A x \in R : x.n < N
    BY <1>7, <1>8, NewNumber DEF R
  <1>10. m \in Packet
    BY <1>9
  <1> DEFINE C == Cut(P, e, m)
  <1>11. C \in Seq(Packet) /\ Len(C) = e + 1 /\ C[e + 1] = m /\ \A i \in 1..e : C[i] = P[i]
    BY <1>1, <1>6, <1>10, CutLine DEF L
  <1>12. Push(Q, m) = R \cup {m}
    BY DEF Push, R
  <1> HIDE DEF C
  <1>13. Line(C, w, W, Push(Q, m))
    <2>1. b <= Len(C) /\ \A i \in 1..Len(w) : C[i] = w[i]
      <3>1. \A i \in 1..Len(w) : P[i] = w[i]
        BY DEF Line
      <3>2. \A i \in 1..Len(w) : i \in 1..e
        BY <1>1, <1>6
      <3> QED
        BY <1>1, <1>6, <1>11, <3>1, <3>2
    <2>2. W # {} => W = {C[Len(w) + 1]}
      <3>1. W # {} => W = {P[Len(w) + 1]} /\ b = Len(w) + 1
        BY DEF Line, Begun, b
      <3>2. W # {} => Len(w) + 1 \in 1..e
        BY <1>1, <1>6, <3>1
      <3> QED
        BY <1>11, <3>1, <3>2
    <2>3. \A i \in 1..Len(C) : i > b => C[i] \in Push(Q, m)
      <3> SUFFICES ASSUME NEW i \in 1..Len(C), i > b
                   PROVE  C[i] \in Push(Q, m)
        OBVIOUS
      <3>1. i \in 1..e \/ i = e + 1
        BY <1>6, <1>11
      <3> QED
        BY <1>7, <1>11, <1>12, <3>1
    <2>4. \A x \in Push(Q, m) : \E i \in 1..Len(C) : i > b /\ C[i] = x
      <3> SUFFICES ASSUME NEW x \in Push(Q, m)
                   PROVE  \E i \in 1..Len(C) : i > b /\ C[i] = x
        OBVIOUS
      <3>1. CASE x = m
        <4>1. e + 1 \in 1..Len(C) /\ e + 1 > b
          BY <1>1, <1>6, <1>11
        <4> QED
          BY <1>11, <3>1, <4>1
      <3>2. CASE x \in R
        <4>1. PICK i \in 1..e : i > b /\ P[i] = x
          BY <1>5, <1>7, <3>2
        <4>2. i \in 1..Len(C)
          BY <1>6, <1>11
        <4> QED
          BY <1>11, <4>1, <4>2
      <3> QED
        BY <1>12, <3>1, <3>2
    <2>5. \A i, j \in 1..Len(C) : b < i /\ i < j =>
            C[i].n < C[j].n /\ ~(IsVideo(C[i]) /\ IsVideo(C[j]))
      <3> SUFFICES ASSUME NEW i \in 1..Len(C), NEW j \in 1..Len(C), b < i, i < j
                   PROVE  C[i].n < C[j].n /\ ~(IsVideo(C[i]) /\ IsVideo(C[j]))
        OBVIOUS
      <3>1. i \in 1..e /\ i \in 1..L /\ C[i] = P[i] /\ P[i] \in R
        <4>1. i \in 1..e /\ i \in 1..L
          BY <1>1, <1>6, <1>11
        <4> QED
          BY <1>7, <1>11, <4>1
      <3>2. CASE j \in 1..e
        <4>1. j \in 1..L /\ C[j] = P[j]
          BY <1>1, <1>6, <1>11, <3>2
        <4> QED
          BY <1>2, <3>1, <4>1
      <3>3. CASE j = e + 1
        <4>1. C[j] = m /\ C[i].n < m.n
          BY <1>9, <1>11, <3>1, <3>3
        <4>2. IsVideo(m) => ~IsVideo(C[i])
          BY <1>7, <3>1 DEF IsVideo, VideoReady, Of
        <4> QED
          BY <4>1, <4>2
      <3> QED
        BY <1>6, <1>11, <3>2, <3>3
    <2> QED
      BY <2>1, <2>2, <2>3, <2>4, <2>5 DEF Line, b
  <1>14. IsVideo(m) => e = L
    BY <1>5 DEF IsVideo
  <1>15. \A x \in Push(Q, m) : x \in Q \/ x = m
    BY <1>7, <1>12
  <1>16. e \in 0..L
    BY <1>1, <1>6
  <1> QED
    BY <1>5, <1>10, <1>13, <1>14, <1>15, <1>16 DEF C, L

LEMMA LinePopped ==
  ASSUME NEW P \in Seq(Packet), NEW w \in Seq(Packet), NEW Q \in SUBSET Packet,
         Line(P, w, {}, Q), NEW m \in Q, IsFront(m, Q)
  PROVE  Line(P, w, {m}, Q \ {m})
  <1> DEFINE L == Len(P)
             k == Len(w)
  <1>1. L \in Nat /\ k \in Nat /\ k <= L /\ \A i \in 1..L : P[i] \in Packet
    BY LenProperties, ElementOfSeq DEF Line, Begun
  <1>2. /\ \A i \in 1..L : i > k => P[i] \in Q
        /\ \A x \in Q : \E i \in 1..L : i > k /\ P[i] = x
        /\ \A i, j \in 1..L : k < i /\ i < j =>
             P[i].n < P[j].n /\ ~(IsVideo(P[i]) /\ IsVideo(P[j]))
        /\ \A i \in 1..k : P[i] = w[i]
    BY <1>1 DEF Line, Begun
  <1>3. \A i \in 1..L : P[i].n \in Nat
    BY <1>1, Packets
  <1>4. Begun(w, {m}) = k + 1
    BY DEF Begun
  <1> HIDE DEF L, k
  <1>5. PICK f \in 1..L : f > k /\ P[f] = m
    BY <1>2
  <1>6. k + 1 \in 1..L /\ k + 1 > k
    BY <1>1, <1>5
  <1>7. f = k + 1
    <2>1. m.n <= P[k + 1].n
      BY <1>2, <1>6 DEF IsFront
    <2>2. k + 1 < f => P[k + 1].n < P[f].n
      BY <1>2, <1>6
    <2> QED
      BY <1>1, <1>3, <1>5, <1>6, <2>1, <2>2
  <1>8. \A i \in 1..L : i > k + 1 => P[i] \in Q \ {m}
    <2> SUFFICES ASSUME NEW i \in 1..L, i > k + 1
                 PROVE  P[i] \in Q \ {m}
      OBVIOUS
    <2>1. P[i] \in Q
      BY <1>1, <1>2
    <2>2. P[k + 1].n < P[i].n
      BY <1>2, <1>6
    <2>3. P[i] # m
      BY <1>3, <1>5, <1>6, <1>7, <2>2
    <2> QED
      BY <2>1, <2>3
  <1>9. \A x \in Q \ {m} : \E i \in 1..L : i > k + 1 /\ P[i] = x
    <2> SUFFICES ASSUME NEW x \in Q \ {m}
                 PROVE  \E i \in 1..L : i > k + 1 /\ P[i] = x
      OBVIOUS
    <2>1. PICK i \in 1..L : i > k /\ P[i] = x
      BY <1>2
    <2>2. i # k + 1
      BY <1>5, <1>7, <2>1
    <2> QED
      BY <1>1, <2>1, <2>2
  <1>10. \A i, j \in 1..L : k + 1 < i /\ i < j =>
           P[i].n < P[j].n /\ ~(IsVideo(P[i]) /\ IsVideo(P[j]))
    <2> SUFFICES ASSUME NEW i \in 1..L, NEW j \in 1..L, k + 1 < i, i < j
                 PROVE  P[i].n < P[j].n /\ ~(IsVideo(P[i]) /\ IsVideo(P[j]))
      OBVIOUS
    <2>1. k < i
      BY <1>1
    <2> QED
      BY <1>2, <2>1
  <1>11. k + 1 <= L /\ {m} = {P[k + 1]}
    BY <1>5, <1>6, <1>7
  <1>12. k + 1 <= L /\ {m} # {}
    BY <1>1, <1>6
  <1> DEFINE B == Begun(w, {m})
  <1>13. /\ B <= L
         /\ \A i \in 1..L : i > B => P[i] \in Q \ {m}
         /\ \A x \in Q \ {m} : \E i \in 1..L : i > B /\ P[i] = x
         /\ \A i, j \in 1..L : B < i /\ i < j =>
              P[i].n < P[j].n /\ ~(IsVideo(P[i]) /\ IsVideo(P[j]))
    BY <1>4, <1>8, <1>9, <1>10, <1>12
  <1> HIDE DEF B
  <1> QED
    BY <1>2, <1>11, <1>13 DEF Line, B, L, k

LEMMA LineWritten ==
  ASSUME NEW P \in Seq(Packet), NEW w \in Seq(Packet), NEW Q \in SUBSET Packet,
         NEW m \in Packet, Line(P, w, {m}, Q)
  PROVE  Line(P, Append(w, m), {}, Q)
  <1> DEFINE k == Len(w)
             a == Append(w, m)
  <1>1. k \in Nat /\ Len(a) = k + 1 /\ a[k + 1] = m /\ \A i \in 1..k : a[i] = w[i]
    BY LenProperties, AppendProperties
  <1>2. Begun(w, {m}) = k + 1 /\ Begun(a, {}) = k + 1
    BY <1>1 DEF Begun
  <1>3. /\ k + 1 <= Len(P) /\ P[k + 1] = m /\ \A i \in 1..k : P[i] = w[i]
        /\ \A i \in 1..Len(P) : i > k + 1 => P[i] \in Q
        /\ \A x \in Q : \E i \in 1..Len(P) : i > k + 1 /\ P[i] = x
        /\ \A i, j \in 1..Len(P) : k + 1 < i /\ i < j =>
             P[i].n < P[j].n /\ ~(IsVideo(P[i]) /\ IsVideo(P[j]))
    BY <1>2 DEF Line
  <1> HIDE DEF a, k
  <1>4. \A i \in 1..(k + 1) : P[i] = a[i]
    <2> SUFFICES ASSUME NEW i \in 1..(k + 1)
                 PROVE  P[i] = a[i]
      OBVIOUS
    <2>1. i \in 1..k \/ i = k + 1
      BY <1>1
    <2> QED
      BY <1>1, <1>3, <2>1
  <1> QED
    BY <1>1, <1>2, <1>3, <1>4 DEF Line, a

LEMMA LineRead ==
  ASSUME NEW P \in Seq(Packet), NEW w \in Seq(Packet), NEW W, NEW Q \in SUBSET Packet,
         Line(P, w, W, Q), w # <<>>
  PROVE  P # <<>> /\ Head(w) = P[1] /\ Line(Tail(P), Tail(w), W, Q)
  <1> DEFINE L == Len(P)
             T == Tail(P)
             t == Tail(w)
             b == Begun(w, W)
             k == Len(w)
  <1>1. /\ k \in Nat /\ k > 0 /\ Len(t) = k - 1 /\ Head(w) = w[1]
        /\ \A i \in 1..(k - 1) : t[i] = w[i + 1]
    BY TailLine
  <1>2. b \in Nat /\ k <= b /\ b <= L /\ L \in Nat /\ Begun(t, W) = b - 1
        /\ (W # {} => b = k + 1)
    BY <1>1, LenProperties DEF Line, Begun
  <1>3. P # <<>>
    BY <1>1, <1>2, EmptySeq
  <1>4. L > 0 /\ Len(T) = L - 1 /\ \A i \in 1..(L - 1) : T[i] = P[i + 1]
    BY <1>3, TailLine
  <1>5. /\ \A i \in 1..k : P[i] = w[i]
        /\ W # {} => W = {P[k + 1]}
        /\ \A i \in 1..L : i > b => P[i] \in Q
        /\ \A x \in Q : \E i \in 1..L : i > b /\ P[i] = x
        /\ \A i, j \in 1..L : b < i /\ i < j =>
             P[i].n < P[j].n /\ ~(IsVideo(P[i]) /\ IsVideo(P[j]))
    BY DEF Line
  <1> HIDE DEF L, T, t, b, k
  <1>6. Head(w) = P[1]
    BY <1>1, <1>5
  <1>7. b - 1 <= Len(T) /\ \A i \in 1..Len(t) : T[i] = t[i]
    <2> SUFFICES ASSUME NEW i \in 1..Len(t)
                 PROVE  T[i] = t[i]
      BY <1>2, <1>4
    <2>1. i \in 1..(k - 1) /\ i \in 1..(L - 1) /\ i + 1 \in 1..k
      BY <1>1, <1>2
    <2> QED
      BY <1>1, <1>4, <1>5, <2>1
  <1>8. W # {} => W = {T[Len(t) + 1]}
    <2> SUFFICES ASSUME W # {}
                 PROVE  W = {T[Len(t) + 1]}
      OBVIOUS
    <2>1. Len(t) + 1 = k /\ k \in 1..(L - 1)
      BY <1>1, <1>2
    <2> QED
      BY <1>4, <1>5, <2>1
  <1>9. \A i \in 1..Len(T) : i > b - 1 => T[i] \in Q
    <2> SUFFICES ASSUME NEW i \in 1..Len(T), i > b - 1
                 PROVE  T[i] \in Q
      OBVIOUS
    <2>1. i \in 1..(L - 1) /\ i + 1 \in 1..L /\ i + 1 > b
      BY <1>2, <1>4
    <2> QED
      BY <1>4, <1>5, <2>1
  <1>10. \A x \in Q : \E i \in 1..Len(T) : i > b - 1 /\ T[i] = x
    <2> SUFFICES ASSUME NEW x \in Q
                 PROVE  \E i \in 1..Len(T) : i > b - 1 /\ T[i] = x
      OBVIOUS
    <2>1. PICK i \in 1..L : i > b /\ P[i] = x
      BY <1>5
    <2>2. i - 1 \in 1..(L - 1) /\ i - 1 > b - 1 /\ (i - 1) + 1 = i
      BY <1>1, <1>2, <2>1
    <2>3. T[i - 1] = x
      BY <1>4, <2>1, <2>2
    <2> QED
      BY <1>4, <2>2, <2>3
  <1>11. \A i, j \in 1..Len(T) : b - 1 < i /\ i < j =>
           T[i].n < T[j].n /\ ~(IsVideo(T[i]) /\ IsVideo(T[j]))
    <2> SUFFICES ASSUME NEW i \in 1..Len(T), NEW j \in 1..Len(T), b - 1 < i, i < j
                 PROVE  T[i].n < T[j].n /\ ~(IsVideo(T[i]) /\ IsVideo(T[j]))
      OBVIOUS
    <2>1. /\ i + 1 \in 1..L /\ j + 1 \in 1..L /\ b < i + 1 /\ i + 1 < j + 1
          /\ T[i] = P[i + 1] /\ T[j] = P[j + 1]
      BY <1>2, <1>4
    <2> QED
      BY <1>5, <2>1
  <1> QED
    BY <1>2, <1>3, <1>6, <1>7, <1>8, <1>9, <1>10, <1>11 DEF Line, T, t, b

-----------------------------------------------------------------------------
(* What is sent fits the line.                                               *)

LEMMA SamePrefix ==
  ASSUME NEW P \in Seq(Packet), NEW R \in Seq(Packet), NEW e, NEW d, NEW g,
         \A i \in 1..e : R[i] = P[i]
  PROVE  /\ Announced(P, e, g, d) => Announced(R, e, g, d)
         /\ Referenced(P, e, g, d) => Referenced(R, e, g, d)
  BY DEF Announced, Referenced

LEMMA BehindConfig ==
  ASSUME NEW P \in Seq(Packet), NEW e \in 0..Len(P), NEW m \in Packet, NEW d,
         IsConfig(m), \A i \in 1..Len(P) : i > e => IsConfig(P[i])
  PROVE  /\ Announced(Cut(P, e, m), e + 1, m.geom, d)
         /\ Referenced(P, Len(P), m.geom, d) =>
              Referenced(Cut(P, e, m), e + 1, m.geom, d)
  <1> DEFINE C == Cut(P, e, m)
  <1>1. /\ e \in Nat /\ Len(P) \in Nat /\ e <= Len(P) /\ e + 1 \in 1..(e + 1)
        /\ C[e + 1] = m /\ \A i \in 1..e : C[i] = P[i]
    BY CutLine, LenProperties
  <1> HIDE DEF C
  <1>2. \A i \in 1..(e + 1) : i \in 1..e \/ i = e + 1
    BY <1>1
  <1>3. \A i \in 1..e : i < e + 1 /\ i \in 1..(e + 1) /\ i \in 1..Len(P)
    BY <1>1
  <1>4. Announced(C, e + 1, m.geom, d)
    BY <1>1, <1>2, <1>3 DEF Announced
  <1>5. ASSUME Referenced(P, Len(P), m.geom, d)
        PROVE  Referenced(C, e + 1, m.geom, d)
    <2>1. \A j \in 1..Len(P) : IsVideo(P[j]) => j \in 1..e /\ IsVideo(C[j])
      <3> SUFFICES ASSUME NEW j \in 1..Len(P), IsVideo(P[j])
                   PROVE  j \in 1..e /\ IsVideo(C[j])
        OBVIOUS
      <3>1. P[j] \in Packet
        BY ElementOfSeq
      <3>2. ~(j > e)
        BY <3>1, Packets
      <3> QED
        BY <1>1, <3>2
    <2>2. \A i \in 1..(e + 1) :
            C[i].geom = m.geom \/ \E j \in 1..(e + 1) : i < j /\ IsVideo(C[j])
      <3> SUFFICES ASSUME NEW i \in 1..(e + 1), C[i].geom # m.geom
                   PROVE  \E j \in 1..(e + 1) : i < j /\ IsVideo(C[j])
        OBVIOUS
      <3>1. i \in 1..e /\ P[i].geom # m.geom /\ i \in 1..Len(P)
        BY <1>1, <1>2, <1>3
      <3>2. PICK j \in 1..Len(P) : i < j /\ IsVideo(P[j])
        BY <1>5, <3>1 DEF Referenced
      <3> QED
        BY <1>3, <2>1, <3>2
    <2>3. (d.geom = m.geom /\ d.primed) \/ \E j \in 1..(e + 1) : IsVideo(C[j])
      <3>1. (d.geom = m.geom /\ d.primed) \/ \E j \in 1..Len(P) : IsVideo(P[j])
        BY <1>5 DEF Referenced
      <3> QED
        BY <1>3, <2>1, <3>1
    <2> QED
      BY <2>2, <2>3 DEF Referenced
  <1> QED
    BY <1>4, <1>5 DEF C

LEMMA BehindFrame ==
  ASSUME NEW P \in Seq(Packet), NEW m \in Packet, NEW d, IsVideo(m)
  PROVE  /\ \A g : Announced(P, Len(P), g, d) =>
                   Announced(Cut(P, Len(P), m), Len(P) + 1, g, d)
         /\ Referenced(Cut(P, Len(P), m), Len(P) + 1, m.geom, d)
  <1> DEFINE e == Len(P)
             C == Cut(P, e, m)
  <1>1. /\ e \in Nat /\ e + 1 \in 1..(e + 1)
        /\ C[e + 1] = m /\ \A i \in 1..e : C[i] = P[i]
    <2>1. e \in Nat
      BY LenProperties
    <2>2. e \in 0..Len(P)
      BY <2>1
    <2>3. C[e + 1] = m /\ \A i \in 1..e : C[i] = P[i]
      BY <2>2, CutLine
    <2> HIDE DEF C, e
    <2> QED
      BY <2>1, <2>3
  <1> HIDE DEF C, e
  <1>2. \A i \in 1..(e + 1) : i \in 1..e \/ i = e + 1
    BY <1>1
  <1>3. \A i \in 1..e : i < e + 1 /\ i \in 1..(e + 1)
    BY <1>1
  <1>4. ~IsConfig(C[e + 1])
    BY <1>1, Packets
  <1>5. ASSUME NEW g, Announced(P, e, g, d)
        PROVE  Announced(C, e + 1, g, d)
    BY <1>1, <1>2, <1>3, <1>4, <1>5 DEF Announced
  <1>6. Referenced(C, e + 1, m.geom, d)
    BY <1>1, <1>2, <1>3 DEF Referenced
  <1> QED
    BY <1>5, <1>6 DEF C, e

\* A packet that is sent: its number and the queue.
Numbered(Q, f) ==
  [f EXCEPT !.n = 1 + Max({0} \cup {m.n : m \in Q \ Superseded(Q, f.kind)})]

LEMMA Sends ==
  ASSUME NEW s \in SessionState, NEW f
  PROVE  Send(s, f) = [s EXCEPT !.queue = Push(s.queue, Numbered(s.queue, f))]
  BY DEF Send, Numbered

ConfigOf(g) == [n |-> 0, kind |-> "StreamConfig", geom |-> g]

LEMMA NumberedConfig ==
  ASSUME NEW Q \in SUBSET Packet, NEW g \in Geoms, NEW N,
         N = 1 + Max({0} \cup {m.n : m \in Q \ Superseded(Q, "StreamConfig")})
  PROVE  /\ Numbered(Q, ConfigOf(g)) = [n |-> N, kind |-> "StreamConfig", geom |-> g]
         /\ N \in Nat => Numbered(Q, ConfigOf(g)) \in Packet
  <1>1. ConfigOf(g).kind = "StreamConfig"
    BY DEF ConfigOf
  <1>2. Numbered(Q, ConfigOf(g)) = [ConfigOf(g) EXCEPT !.n = N]
    BY <1>1 DEF Numbered
  <1> QED
    BY <1>2 DEF ConfigOf, Packet

\* A config for the session t, which has the stream of s or a new encoder.
LEMMA ConfigFits ==
  ASSUME TypeOK, NEW P \in Seq(Packet), NEW c, NEW s \in SessionState,
         NEW t \in SessionState, Fit(P, s, c),
         t.queue = s.queue, t.last = s.last, t.pending = s.pending,
         t.fresh \/ (t.geom = s.geom /\ (s.key => t.key) /\ (s.fresh => t.fresh))
  PROVE  /\ SendConfig(t) \in SessionState
         /\ SendConfig(t) = [t EXCEPT !.queue = SendConfig(t).queue]
         /\ VideoReady(t.queue) => VideoReady(SendConfig(t).queue)
         /\ \E R \in Seq(Packet) : Fit(R, SendConfig(t), c)
  <1> DEFINE Q == s.queue
             m == Numbered(Q, ConfigOf(t.geom))
             r == SendConfig(t)
             N == 1 + Max({0} \cup {x.n : x \in Q \ Superseded(Q, "StreamConfig")})
  <1>1. /\ Q \in SUBSET Packet /\ t.geom \in Geoms /\ wire \in Seq(Packet)
        /\ Line(P, wire, writing, Q)
    BY DEF SessionState, TypeOK, Fit
  <1>2. /\ N \in Nat => m \in Packet
        /\ m.n = N /\ m.kind = "StreamConfig" /\ m.geom = t.geom
    <2>1. m = [n |-> N, kind |-> "StreamConfig", geom |-> t.geom]
          /\ (N \in Nat => m \in Packet)
      BY <1>1, NumberedConfig
    <2> QED
      BY <2>1
  <1>3. r = [t EXCEPT !.queue = Push(Q, m)]
    BY Sends DEF SendConfig, ConfigOf
  <1> HIDE DEF m, r, N, Q
  <1>4. N = 1 + Max({0} \cup {x.n : x \in Q \ Superseded(Q, m.kind)})
    BY <1>2 DEF N
  <1>5. PICK e \in 0..Len(P) :
           /\ m \in Packet
           /\ Line(Cut(P, e, m), wire, writing, Push(Q, m))
           /\ \A i \in 1..Len(P) : i > e => IsConfig(P[i])
           /\ \A x \in Push(Q, m) : x \in Q \/ x = m
    BY <1>1, <1>2, <1>4, LinePushed
  <1>6. Push(Q, m) \in SUBSET Packet
    BY <1>1, <1>5
  <1>7. /\ r \in SessionState /\ r.queue = Push(Q, m) /\ r.geom = t.geom
        /\ r.key = t.key /\ r.fresh = t.fresh
        /\ r.last = s.last /\ r.pending = s.pending
    BY <1>3, <1>6 DEF SessionState
  <1>8. r = [t EXCEPT !.queue = r.queue]
    BY <1>3, <1>7
  <1>9. VideoReady(Q) => VideoReady(r.queue)
    BY <1>2, <1>5, <1>7 DEF VideoReady, Of
  <1> DEFINE R == Cut(P, e, m)
  <1>10. /\ R \in Seq(Packet) /\ Len(R) = e + 1 /\ R[e + 1] = m
         /\ \A i \in 1..e : R[i] = P[i]
    BY <1>5, CutLine
  <1>11. e \in Nat /\ Len(P) \in Nat /\ e <= Len(P)
    BY LenProperties
  <1>12. IsConfig(m) /\ ~IsVideo(m)
    BY <1>2 DEF IsConfig, IsVideo
  <1>13. /\ Announced(R, e + 1, r.geom, dec)
         /\ Referenced(P, Len(P), r.geom, dec) => Referenced(R, e + 1, r.geom, dec)
    BY <1>2, <1>5, <1>7, <1>12, BehindConfig
  <1> HIDE DEF R
  <1>14. \A j \in 1..Len(R) : IsVideo(R[j]) =>
           /\ j \in 1..e /\ j \in 1..Len(P) /\ R[j] = P[j]
           /\ \A i \in 1..(j - 1) : R[i] = P[i]
    <2> SUFFICES ASSUME NEW j \in 1..Len(R), IsVideo(R[j])
                 PROVE  /\ j \in 1..e /\ j \in 1..Len(P) /\ R[j] = P[j]
                        /\ \A i \in 1..(j - 1) : R[i] = P[i]
      OBVIOUS
    <2>1. j # e + 1
      BY <1>10, <1>12
    <2>2. j \in 1..e /\ j \in 1..Len(P)
      BY <1>10, <1>11, <2>1
    <2>3. \A i \in 1..(j - 1) : i \in 1..e
      BY <1>11, <2>2
    <2> QED
      BY <1>10, <2>2, <2>3
  <1>15. Line(R, wire, writing, r.queue)
    BY <1>5, <1>7 DEF R
  <1>16. Announcing(R, r, dec)
    <2>1. ASSUME NEW j \in 1..Len(R), IsVideo(R[j])
          PROVE  Announced(R, j - 1, R[j].geom, dec)
      <3>1. Announced(P, j - 1, P[j].geom, dec)
        BY <1>14, <2>1 DEF Fit, Announcing
      <3> QED
        BY <1>10, <1>14, <2>1, <3>1, SamePrefix
    <2> QED
      BY <1>10, <1>13, <2>1 DEF Announcing
  <1>17. ASSUME ~failed
         PROVE  Referencing(R, r, dec)
    <2>1. ASSUME NEW j \in 1..Len(R), IsVideo(R[j])
          PROVE  R[j].key \/ Referenced(R, j - 1, R[j].geom, dec)
      <3>1. P[j].key \/ Referenced(P, j - 1, P[j].geom, dec)
        BY <1>14, <1>17, <2>1 DEF Fit, Referencing
      <3> QED
        BY <1>10, <1>14, <2>1, <3>1, SamePrefix
    <2>2. r.key \/ r.fresh \/ Referenced(R, Len(R), r.geom, dec)
      <3>1. s.key \/ s.fresh \/ Referenced(P, Len(P), s.geom, dec)
        BY <1>17 DEF Fit, Referencing
      <3> QED
        BY <1>7, <1>10, <1>13, <3>1
    <2> QED
      BY <2>1, <2>2 DEF Referencing
  <1>18. ServerOrder(r, c, screen)
    BY <1>7 DEF Fit, ServerOrder, Behind
  <1>19. LineOrder(R, r, c, screen)
    <2>1. LineOrder(P, s, c, screen)
      BY DEF Fit
    <2> SUFFICES ASSUME NEW i \in 1..Len(R), IsVideo(R[i])
                 PROVE  /\ Behind(R[i].version, r, c, screen)
                        /\ \A j \in 1..Len(R) : i <= j /\ IsVideo(R[j]) =>
                             R[i].version <= R[j].version
      BY DEF LineOrder
    <2>2. i \in 1..Len(P) /\ R[i] = P[i] /\ IsVideo(P[i])
      BY <1>14
    <2>3. Behind(P[i].version, s, c, screen)
      BY <2>1, <2>2 DEF LineOrder
    <2>4. Behind(R[i].version, r, c, screen)
      BY <1>7, <2>2, <2>3 DEF Behind
    <2>5. \A j \in 1..Len(R) : i <= j /\ IsVideo(R[j]) => R[i].version <= R[j].version
      BY <1>14, <2>1, <2>2 DEF LineOrder
    <2> QED
      BY <2>4, <2>5
  <1>20. ClientBehind(R, r, c, screen, ui, dec, shown)
    <2>1. ClientBehind(P, s, c, screen, ui, dec, shown)
      BY DEF Fit
    <2>2. \A i \in 1..Len(R) : IsVideo(R[i]) => Reaches(R[i].version, ui, dec, shown)
      BY <1>14, <2>1 DEF ClientBehind
    <2> QED
      BY <1>7, <2>1, <2>2 DEF ClientBehind
  <1>21. Fit(R, r, c)
    BY <1>15, <1>16, <1>17, <1>18, <1>19, <1>20 DEF Fit
  <1> QED
    BY <1>7, <1>8, <1>9, <1>10, <1>21 DEF r, Q

\* A frame that is sent ends the line.
LEMMA FramePushed ==
  ASSUME NEW P \in Seq(Packet), NEW w \in Seq(Packet), NEW W, NEW Q \in SUBSET Packet,
         Line(P, w, W, Q), VideoReady(Q), NEW f, NEW g \in Geoms,
         f \in [n : {0}, kind : {"VideoFrame"}, geom : {g}, key : BOOLEAN,
                version : Nat]
  PROVE  LET m == Numbered(Q, f)
         IN  /\ m \in Packet /\ m.kind = "VideoFrame" /\ m.geom = g
             /\ m.key = f.key /\ m.version = f.version
             /\ Line(Cut(P, Len(P), m), w, W, Push(Q, m))
             /\ \A x \in Push(Q, m) : x \in Q \/ x = m
  <1> DEFINE m == Numbered(Q, f)
             N == 1 + Max({0} \cup {x.n : x \in Q \ Superseded(Q, "VideoFrame")})
  <1>1. N = 1 + Max({0} \cup {x.n : x \in Q \ Superseded(Q, "VideoFrame")})
    OBVIOUS
  <1> HIDE DEF N
  <1>2. /\ m.n = N /\ m.kind = "VideoFrame" /\ m.geom = g /\ m.key = f.key
        /\ m.version = f.version
        /\ N \in Nat => m \in Packet
    <2> DEFINE k == f.key
               v == f.version
    <2>1. /\ f = [n |-> 0, kind |-> "VideoFrame", geom |-> g, key |-> k, version |-> v]
          /\ k \in BOOLEAN /\ v \in Nat
      OBVIOUS
    <2>2. m = [f EXCEPT !.n = N]
      BY <1>1, <2>1 DEF Numbered
    <2> HIDE DEF k, v, m
    <2>3. m = [n |-> N, kind |-> "VideoFrame", geom |-> g, key |-> k, version |-> v]
      BY <2>1, <2>2
    <2>4. N \in Nat => m \in Packet
      BY <2>1, <2>3 DEF Packet
    <2> QED
      BY <2>3, <2>4 DEF k, v
  <1> HIDE DEF m
  <1>3. N = 1 + Max({0} \cup {x.n : x \in Q \ Superseded(Q, m.kind)})
    BY <1>1, <1>2
  <1>4. \E k \in 0..Len(P) :
          /\ m \in Packet /\ Line(Cut(P, k, m), w, W, Push(Q, m))
          /\ IsVideo(m) => k = Len(P)
          /\ \A x \in Push(Q, m) : x \in Q \/ x = m
    BY <1>2, <1>3, LinePushed
  <1> QED
    BY <1>2, <1>4 DEF IsVideo, m

\* A frame of the session s, of the pending content or the last one.
LEMMA FrameFits ==
  ASSUME TypeOK, NEW P \in Seq(Packet), NEW c, NEW s \in SessionState,
         NEW f, NEW r, Fit(P, s, c), VideoReady(s.queue),
         c.seen \in Nat, c.frames \in Seq(Nat),
         f \in [n : {0}, kind : {"VideoFrame"}, geom : {s.geom}, key : BOOLEAN,
                version : Nat],
         f.key \/ (~s.key /\ ~s.fresh),
         \/ s.pending # None /\ f.version = s.pending
         \/ s.pending = None /\ s.last # None /\ f.version = s.last,
         r.queue = Push(s.queue, Numbered(s.queue, f)),
         r.geom = s.geom, r.last = f.version, r.pending = None
  PROVE  /\ r.queue \in SUBSET Packet
         /\ \E R \in Seq(Packet) : Fit(R, r, c)
  <1> DEFINE Q == s.queue
             v == f.version
             m == Numbered(Q, f)
             e == Len(P)
  <1>1. /\ Q \in SUBSET Packet /\ s.geom \in Geoms /\ wire \in Seq(Packet)
        /\ Line(P, wire, writing, Q)
        /\ s.last \in Content /\ s.pending \in Content
        /\ screen \in Nat /\ v \in Nat /\ f.key \in BOOLEAN
    BY DEF SessionState, TypeOK, Fit
  <1>3. /\ m \in Packet /\ m.kind = "VideoFrame" /\ m.geom = s.geom
        /\ m.key = f.key /\ m.version = v
        /\ Line(Cut(P, e, m), wire, writing, Push(Q, m))
        /\ \A x \in Push(Q, m) : x \in Q \/ x = m
    BY <1>1, FramePushed
  <1> HIDE DEF m, Q, v, e
  <1>5. IsVideo(m) /\ VideoReady(Q)
    BY <1>3 DEF IsVideo, Q
  <1>6. /\ m \in Packet /\ Line(Cut(P, e, m), wire, writing, Push(Q, m))
        /\ \A x \in Push(Q, m) : x \in Q \/ x = m
    BY <1>3
  <1>7. r.queue = Push(Q, m) /\ r.queue \in SUBSET Packet
    BY <1>1, <1>6 DEF Q, m
  <1>8. e \in Nat /\ e \in 0..Len(P)
    BY LenProperties DEF e
  <1> DEFINE R == Cut(P, e, m)
  <1>9. /\ R \in Seq(Packet) /\ Len(R) = e + 1 /\ R[e + 1] = m
        /\ \A i \in 1..e : R[i] = P[i]
    BY <1>6, <1>8, CutLine
  <1>10. /\ Announced(P, e, s.geom, dec)
         /\ Announced(R, e + 1, s.geom, dec)
         /\ Referenced(R, e + 1, s.geom, dec)
    BY <1>3, <1>5, <1>6, BehindFrame DEF e, Fit, Announcing
  <1> HIDE DEF R
  <1>11. Announced(R, e, s.geom, dec)
    BY <1>9, <1>10, SamePrefix
  <1>12. \A j \in 1..Len(R) : \/ j = e + 1 /\ R[j] = m /\ j - 1 = e
                              \/ /\ j \in 1..e /\ R[j] = P[j] /\ j # e + 1
                                 /\ \A i \in 1..(j - 1) : R[i] = P[i]
    <2> SUFFICES ASSUME NEW j \in 1..Len(R), j # e + 1
                 PROVE  /\ j \in 1..e /\ R[j] = P[j]
                        /\ \A i \in 1..(j - 1) : R[i] = P[i]
      BY <1>8, <1>9
    <2>1. j \in 1..e
      BY <1>8, <1>9
    <2>2. \A i \in 1..(j - 1) : i \in 1..e
      BY <1>8, <2>1
    <2> QED
      BY <1>9, <2>1, <2>2
  <1>13. Line(R, wire, writing, r.queue)
    BY <1>6, <1>7 DEF R
  <1>14. Announcing(R, r, dec)
    <2>1. ASSUME NEW j \in 1..Len(R), IsVideo(R[j])
          PROVE  Announced(R, j - 1, R[j].geom, dec)
      <3>1. CASE j = e + 1
        BY <1>3, <1>8, <1>9, <1>11, <1>12, <3>1
      <3>2. CASE j # e + 1
        <4>1. j \in 1..e /\ R[j] = P[j] /\ \A i \in 1..(j - 1) : R[i] = P[i]
          BY <1>12, <3>2
        <4>2. Announced(P, j - 1, P[j].geom, dec)
          BY <2>1, <4>1 DEF Fit, Announcing, e
        <4> QED
          BY <1>9, <4>1, <4>2, SamePrefix
      <3> QED
        BY <3>1, <3>2
    <2> QED
      BY <1>9, <1>10, <2>1 DEF Announcing
  <1>15. ASSUME ~failed
         PROVE  Referencing(R, r, dec)
    <2>1. ASSUME NEW j \in 1..Len(R), IsVideo(R[j])
          PROVE  R[j].key \/ Referenced(R, j - 1, R[j].geom, dec)
      <3>1. CASE j = e + 1
        <4>1. s.key \/ s.fresh \/ Referenced(P, e, s.geom, dec)
          BY <1>15 DEF Fit, Referencing, e
        <4>2. Referenced(P, e, s.geom, dec) => Referenced(R, e, s.geom, dec)
          BY <1>9, SamePrefix
        <4>3. f.key \/ Referenced(R, e, s.geom, dec)
          BY <4>1, <4>2
        <4> QED
          BY <1>3, <1>8, <1>9, <3>1, <4>3
      <3>2. CASE j # e + 1
        <4>1. j \in 1..e /\ R[j] = P[j] /\ \A i \in 1..(j - 1) : R[i] = P[i]
          BY <1>12, <3>2
        <4>2. P[j].key \/ Referenced(P, j - 1, P[j].geom, dec)
          BY <1>15, <2>1, <4>1 DEF Fit, Referencing, e
        <4> QED
          BY <1>9, <4>1, <4>2, SamePrefix
      <3> QED
        BY <3>1, <3>2
    <2> QED
      BY <1>9, <1>10, <2>1 DEF Referencing
  <1>16. /\ v \in Nat /\ v # None
         /\ Behind(v, r, c, screen)
         /\ \A x : Behind(x, s, c, screen) => x <= v /\ Behind(x, r, c, screen)
    <2>1. v \in Nat /\ v # None
      BY <1>1, VideoAssumption
    <2>2. r.last = v /\ r.pending = None
      BY DEF v
    <2>3. \A x : Behind(x, s, c, screen) => x <= v
      BY DEF Behind, v
    <2>4. /\ \A i \in 1..Len(c.frames) : v <= c.frames[i]
          /\ v <= c.seen /\ v <= screen
      <3>1. CASE s.pending # None /\ v = s.pending
        <4>1. /\ \A i \in 1..Len(c.frames) : v <= c.frames[i]
              /\ v <= c.seen /\ c.seen <= screen
          BY <3>1 DEF Fit, ServerOrder
        <4> QED
          BY <1>1, <4>1
      <3>2. CASE s.pending = None /\ s.last # None /\ v = s.last
        BY <3>2 DEF Fit, ServerOrder, Behind
      <3> QED
        BY <3>1, <3>2 DEF v
    <2>5. Behind(v, r, c, screen)
      BY <2>1, <2>2, <2>4 DEF Behind
    <2>6. \A x : Behind(x, s, c, screen) => Behind(x, r, c, screen)
      BY <2>2, <2>3 DEF Behind
    <2> QED
      BY <2>1, <2>3, <2>5, <2>6
  <1>17. ServerOrder(r, c, screen)
    <2>1. r.last = v /\ r.pending = None
      BY DEF v
    <2> QED
      BY <1>16, <2>1 DEF Fit, ServerOrder
  <1>18. LineOrder(R, r, c, screen)
    <2> SUFFICES ASSUME NEW i \in 1..Len(R), IsVideo(R[i])
                 PROVE  /\ Behind(R[i].version, r, c, screen)
                        /\ \A j \in 1..Len(R) : i <= j /\ IsVideo(R[j]) =>
                             R[i].version <= R[j].version
      BY DEF LineOrder
    <2>1. CASE i = e + 1
      <3>1. R[i].version = v
        BY <1>3, <1>9, <2>1
      <3>2. \A j \in 1..Len(R) : i <= j => j = i
        BY <1>8, <1>9, <2>1
      <3> QED
        BY <1>16, <3>1, <3>2
    <2>2. CASE i # e + 1
      <3>1. i \in 1..Len(P) /\ R[i] = P[i] /\ IsVideo(P[i])
        BY <1>12, <2>2 DEF e
      <3>2. Behind(P[i].version, s, c, screen)
        BY <3>1 DEF Fit, LineOrder
      <3>3. ASSUME NEW j \in 1..Len(R), i <= j, IsVideo(R[j])
            PROVE  R[i].version <= R[j].version
        <4>1. CASE j = e + 1
          BY <1>3, <1>9, <1>16, <3>1, <3>2, <4>1
        <4>2. CASE j # e + 1
          <5>1. j \in 1..Len(P) /\ R[j] = P[j]
            BY <1>12, <4>2 DEF e
          <5> QED
            BY <3>1, <3>3, <5>1 DEF Fit, LineOrder
        <4> QED
          BY <4>1, <4>2
      <3> QED
        BY <1>16, <3>1, <3>2, <3>3
    <2> QED
      BY <2>1, <2>2
  <1>19. ClientBehind(R, r, c, screen, ui, dec, shown)
    <2>1. ClientBehind(P, s, c, screen, ui, dec, shown)
      BY DEF Fit
    <2>2. r.last = v /\ r.pending = None /\ Reaches(v, ui, dec, shown)
      BY <2>1 DEF ClientBehind, v
    <2>3. ASSUME NEW i \in 1..Len(R), IsVideo(R[i])
          PROVE  Reaches(R[i].version, ui, dec, shown)
      <3>1. CASE i = e + 1
        BY <1>3, <1>9, <2>2, <3>1
      <3>2. CASE i # e + 1
        <4>1. i \in 1..Len(P) /\ R[i] = P[i]
          BY <1>12, <3>2 DEF e
        <4> QED
          BY <2>1, <2>3, <4>1 DEF ClientBehind
      <3> QED
        BY <3>1, <3>2
    <2> QED
      BY <2>1, <2>2, <2>3 DEF ClientBehind
  <1>20. Fit(R, r, c)
    BY <1>13, <1>14, <1>15, <1>17, <1>18, <1>19 DEF Fit
  <1> QED
    BY <1>7, <1>9, <1>20

-----------------------------------------------------------------------------
(* The turns of the session loop.                                            *)

LEMMA EncodeFields ==
  ASSUME TypeOK, NEW P \in Seq(Packet), NEW c, NEW s \in SessionState,
         Fit(P, s, c), VideoReady(s.queue), c.seen \in Nat, c.frames \in Seq(Nat),
         NEW v \in Nat, NEW fallback \in BOOLEAN, NEW r,
         \/ s.pending # None /\ v = s.pending
         \/ s.pending = None /\ s.last # None /\ v = s.last,
         r.queue = Encode(s, v, fallback).queue,
         r.geom = s.geom, r.last = v, r.pending = None
  PROVE  /\ Encode(s, v, fallback) \in SessionState
         /\ Encode(s, v, fallback).last = s.last
         /\ Encode(s, v, fallback).pending = s.pending
         /\ Encode(s, v, fallback).geom = s.geom
         /\ \E R \in Seq(Packet) : Fit(R, r, c)
  <1> DEFINE f == [n |-> 0, kind |-> "VideoFrame", geom |-> s.geom,
                   key |-> s.key \/ s.fresh \/ fallback, version |-> v]
             t == IF fallback THEN SendConfig(s) ELSE s
             E == Encode(s, v, fallback)
  <1>1. /\ t \in SessionState /\ t = [s EXCEPT !.queue = t.queue]
        /\ VideoReady(t.queue) /\ \E R \in Seq(Packet) : Fit(R, t, c)
    <2>1. CASE fallback
      BY <2>1, ConfigFits
    <2>2. CASE ~fallback
      <3>1. s = [s EXCEPT !.queue = s.queue]
        BY DEF SessionState
      <3> QED
        BY <2>2, <3>1
    <2> QED
      BY <2>1, <2>2
  <1>2. /\ f.n = 0 /\ f.kind = "VideoFrame" /\ f.geom = s.geom /\ f.version = v
        /\ f \in [n : {0}, kind : {"VideoFrame"}, geom : {s.geom}, key : BOOLEAN,
                  version : Nat]
        /\ f.key \/ (~s.key /\ ~s.fresh)
    BY DEF SessionState
  <1>3. E = [Send(t, f) EXCEPT !.key = FALSE, !.fresh = FALSE, !.sent = TRUE,
                               !.inflight = @ + 1]
    BY DEF Encode
  <1> HIDE DEF E, t, f
  <1>4. Send(t, f) = [t EXCEPT !.queue = Push(t.queue, Numbered(t.queue, f))]
    BY <1>1, Sends
  <1>5. /\ t.geom = s.geom /\ t.key = s.key /\ t.fresh = s.fresh
        /\ t.last = s.last /\ t.pending = s.pending
    BY <1>1 DEF SessionState
  <1> DEFINE q == Push(t.queue, Numbered(t.queue, f))
  <1>6. E.queue = q
    BY <1>1, <1>3, <1>4 DEF SessionState
  <1>7. q \in SUBSET Packet /\ \E R \in Seq(Packet) : Fit(R, r, c)
    <2>1. PICK R \in Seq(Packet) : Fit(R, t, c)
      BY <1>1
    <2>2. f \in [n : {0}, kind : {"VideoFrame"}, geom : {t.geom}, key : BOOLEAN,
                 version : Nat]
      BY <1>2, <1>5
    <2>3. f.key \/ (~t.key /\ ~t.fresh)
      BY <1>2, <1>5
    <2>4. \/ t.pending # None /\ f.version = t.pending
          \/ t.pending = None /\ t.last # None /\ f.version = t.last
      BY <1>2, <1>5
    <2>5. /\ r.queue = Push(t.queue, Numbered(t.queue, f))
          /\ r.geom = t.geom /\ r.last = f.version /\ r.pending = None
      BY <1>2, <1>5, <1>6 DEF E
    <2>6. t \in SessionState /\ VideoReady(t.queue)
      BY <1>1
    <2> HIDE DEF q
    <2>7. r.queue \in SUBSET Packet /\ \E W \in Seq(Packet) : Fit(W, r, c)
      BY <2>1, <2>2, <2>3, <2>4, <2>5, <2>6, FrameFits
    <2> QED
      BY <2>5, <2>7 DEF q
  <1> HIDE DEF q
  <1>8. /\ E \in SessionState /\ E.last = s.last /\ E.pending = s.pending
        /\ E.geom = s.geom
    <2>1. E = [t EXCEPT !.queue = q, !.key = FALSE, !.fresh = FALSE, !.sent = TRUE,
                        !.inflight = @ + 1]
      BY <1>1, <1>3, <1>4 DEF q, SessionState
    <2>2. t.inflight + 1 \in Int
      BY <1>1 DEF SessionState
    <2> QED
      BY <1>1, <1>5, <1>7, <2>1, <2>2 DEF SessionState
  <1> QED
    BY <1>7, <1>8 DEF E

LEMMA EncodesFits ==
  ASSUME TypeOK, NEW P \in Seq(Packet), NEW c, NEW s \in SessionState,
         Fit(P, s, c), VideoReady(s.queue), c.seen \in Nat, c.frames \in Seq(Nat),
         NEW r \in Encodes(s)
  PROVE  r \in SessionState /\ \E R \in Seq(Packet) : Fit(R, r, c)
  <1>1. s.pending \in Content /\ s.last \in Content /\ s.refines \in Nat
    BY DEF SessionState
  <1>2. CASE s.pending # None
    <2>1. PICK fallback \in BOOLEAN :
            r = [Encode(s, s.pending, fallback)
                   EXCEPT !.pending = None, !.last = s.pending, !.refines = 0]
      BY <1>2 DEF Encodes
    <2> DEFINE v == s.pending
               E == Encode(s, v, fallback)
    <2>2. v \in Nat /\ v \in Content /\ None \in Content
      BY <1>1, <1>2 DEF Content
    <2>3. r = [E EXCEPT !.pending = None, !.last = v, !.refines = 0]
      BY <2>1
    <2>4. \A x : x.queue = E.queue /\ x.geom = s.geom /\ x.last = v /\ x.pending = None =>
            /\ E \in SessionState /\ E.geom = s.geom
            /\ \E R \in Seq(Packet) : Fit(R, x, c)
      BY <1>2, <2>2, EncodeFields
    <2> HIDE DEF v, E
    <2>5. E \in SessionState /\ E.geom = s.geom
      <3> DEFINE y == [queue |-> E.queue, geom |-> s.geom, last |-> v, pending |-> None]
      <3>1. /\ y.queue = E.queue /\ y.geom = s.geom /\ y.last = v /\ y.pending = None
        OBVIOUS
      <3> HIDE DEF y
      <3> QED
        BY <2>4, <3>1
    <2>6. /\ r \in SessionState /\ r.queue = E.queue /\ r.geom = s.geom /\ r.last = v
          /\ r.pending = None
      BY <2>2, <2>3, <2>5 DEF SessionState
    <2> QED
      BY <2>4, <2>6
  <1>3. CASE s.pending = None
    <2>1. PICK n \in {s.refines + 1, MaxRefines} :
            r = [Encode(s, s.last, FALSE) EXCEPT !.refines = n]
      BY <1>3 DEF Encodes
    <2> DEFINE v == s.last
               fallback == FALSE
               E == Encode(s, v, fallback)
    <2>2. s.last # None
      BY <1>3 DEF Encodes, CanRefine
    <2>3. v \in Nat /\ n \in Nat /\ fallback \in BOOLEAN
      BY <1>1, <2>2, VideoAssumption DEF Content
    <2>4. r = [E EXCEPT !.refines = n]
      BY <2>1
    <2> HIDE DEF fallback
    <2>5. \A x : x.queue = E.queue /\ x.geom = s.geom /\ x.last = v /\ x.pending = None =>
            /\ E \in SessionState /\ E.geom = s.geom
            /\ E.last = s.last /\ E.pending = s.pending
            /\ \E R \in Seq(Packet) : Fit(R, x, c)
      BY <1>3, <2>2, <2>3, EncodeFields
    <2> HIDE DEF E
    <2>6. E \in SessionState /\ E.geom = s.geom /\ E.last = v /\ E.pending = None
      <3> DEFINE y == [queue |-> E.queue, geom |-> s.geom, last |-> v, pending |-> None]
      <3>1. /\ y.queue = E.queue /\ y.geom = s.geom /\ y.last = v /\ y.pending = None
        OBVIOUS
      <3> HIDE DEF y
      <3> QED
        BY <1>3, <2>5, <3>1
    <2>7. /\ r \in SessionState /\ r.queue = E.queue /\ r.geom = s.geom /\ r.last = v
          /\ r.pending = None
      BY <2>3, <2>4, <2>6 DEF SessionState
    <2> QED
      BY <2>5, <2>7
  <1> QED
    BY <1>2, <1>3

LEMMA TurnFits ==
  ASSUME TypeOK, NEW P \in Seq(Packet), NEW c, NEW s \in SessionState,
         Fit(P, s, c), c.seen \in Nat, c.frames \in Seq(Nat),
         NEW past, TurnAfter(s, past)
  PROVE  ses' \in SessionState /\ \E R \in Seq(Packet) : Fit(R, ses', c)
  <1>1. ses' = s \/ (TRUE \in RoomAnswers(s) /\ ses' \in Encodes(s))
    BY DEF TurnAfter, Pumped
  <1>2. TRUE \in RoomAnswers(s) => VideoReady(s.queue)
    BY DEF RoomAnswers
  <1> DEFINE r == ses'
  <1> HIDE DEF r
  <1>3. r = s \/ (VideoReady(s.queue) /\ r \in Encodes(s))
    BY <1>1, <1>2 DEF r
  <1>4. r \in SessionState /\ \E R \in Seq(Packet) : Fit(R, r, c)
    BY <1>3, EncodesFits
  <1> QED
    BY <1>4 DEF r

\* What Fit asks of a session and a capture.
LEMMA SameFit ==
  ASSUME NEW P, NEW s, NEW c, Fit(P, s, c), NEW t, NEW b,
         t.queue = s.queue, t.geom = s.geom, t.last = s.last, t.pending = s.pending,
         s.key => t.key, s.fresh => t.fresh, b.frames = c.frames, b.seen = c.seen
  PROVE  Fit(P, t, b)
  <1>1. Announcing(P, t, dec)
    BY DEF Fit, Announcing
  <1>2. ~failed => Referencing(P, t, dec)
    BY DEF Fit, Referencing
  <1>3. \A v, scr : Behind(v, t, b, scr) <=> Behind(v, s, c, scr)
    BY DEF Behind
  <1>4. ServerOrder(t, b, screen)
    BY <1>3 DEF Fit, ServerOrder
  <1>5. LineOrder(P, t, b, screen)
    BY <1>3 DEF Fit, LineOrder
  <1>6. ClientBehind(P, t, b, screen, ui, dec, shown)
    BY DEF Fit, ClientBehind
  <1> QED
    BY <1>1, <1>2, <1>4, <1>5, <1>6 DEF Fit

\* The end of a turn that leaves the line, the client and the screen alone.
LEMMA TurnKeeps ==
  ASSUME IInv, NEW s \in SessionState, capture' \in CaptureState,
         \E P \in Seq(Packet) : Fit(P, s, capture'),
         NEW past, TurnAfter(s, past),
         UNCHANGED <<screen, writing, wire, clientVars, failed>>
  PROVE  IInv'
  <1>1. PICK P \in Seq(Packet) : Fit(P, s, capture')
    OBVIOUS
  <1>2. TypeOK /\ ClientOrder(ui, dec, shown)
    BY DEF IInv, Sound
  <1>3. capture'.seen \in Nat /\ capture'.frames \in Seq(Nat)
    BY DEF CaptureState
  <1>4. PICK R \in Seq(Packet) : ses' \in SessionState /\ Fit(R, ses', capture')
    <2> DEFINE c == capture'
    <2>1. Fit(P, s, c) /\ c.seen \in Nat /\ c.frames \in Seq(Nat)
      BY <1>1, <1>3
    <2> HIDE DEF c
    <2>2. ses' \in SessionState /\ \E R \in Seq(Packet) : Fit(R, ses', c)
      BY <1>2, <2>1, TurnFits
    <2> QED
      BY <2>2 DEF c
  <1>5. Fit(R, ses, capture)'
    BY <1>4 DEF Fit, clientVars
  <1>6. ClientOrder(ui, dec, shown)'
    BY <1>2 DEF clientVars
  <1>7. TypeOK'
    BY <1>2, <1>4 DEF TypeOK, clientVars
  <1> QED
    BY <1>5, <1>6, <1>7 DEF IInv, Sound

LEMMA OnFrameKeeps ==
  ASSUME IInv, OnFrame
  PROVE  IInv'
  <1>1. PICK P \in Seq(Packet) : Sound(P)
    BY DEF IInv
  <1>2. ses \in SessionState /\ capture \in CaptureState /\ screen \in Nat
    BY DEF IInv, TypeOK
  <1> DEFINE fs == capture.frames
             h == Head(fs)
             c == [capture EXCEPT !.frames = Tail(@), !.asked = TRUE]
             s == [ses EXCEPT !.pending = h]
  <1>3. /\ fs \in Seq(Nat) /\ fs # <<>> /\ capture' = c /\ TurnAfter(s, {})
        /\ UNCHANGED <<screen, writing, wire, clientVars, failed>>
    BY <1>2 DEF OnFrame, Turn, linkVars, budget, CaptureState
  <1>4. /\ Len(fs) \in Nat /\ Len(fs) > 0 /\ h = fs[1] /\ h \in Nat
        /\ Tail(fs) \in Seq(Nat) /\ Len(Tail(fs)) = Len(fs) - 1
        /\ \A i \in 1..(Len(fs) - 1) : Tail(fs)[i] = fs[i + 1] /\ i + 1 \in 1..Len(fs)
    <2>1. Len(fs) \in Nat /\ Len(fs) > 0
      BY <1>3, LenProperties, EmptySeq
    <2>2. \A i \in 1..(Len(fs) - 1) : i + 1 \in 1..Len(fs)
      BY <2>1
    <2> QED
      BY <1>3, <2>1, <2>2, HeadTailProperties, ElementOfSeq
  <1>5. /\ c \in CaptureState /\ c.seen = capture.seen /\ c.frames = Tail(fs)
        /\ c.seen \in Nat
    BY <1>2, <1>4 DEF CaptureState
  <1>6. /\ s \in SessionState /\ s.queue = ses.queue /\ s.geom = ses.geom
        /\ s.key = ses.key /\ s.fresh = ses.fresh /\ s.last = ses.last /\ s.pending = h
        /\ s.last \in Content
    BY <1>2, <1>4 DEF SessionState, Content
  <1> DEFINE L == Len(fs)
             T == Tail(fs)
  <1>7. /\ L \in Nat /\ L > 0 /\ Len(T) = L - 1
        /\ \A i \in 1..(L - 1) : T[i] = fs[i + 1] /\ i + 1 \in 1..L
        /\ 1 \in 1..L /\ h = fs[1] /\ h \in Nat
    BY <1>4
  <1>8. Fit(P, ses, capture)
    BY <1>1 DEF Sound
  <1>9. /\ \A i \in 1..Len(c.frames) : c.frames[i] = fs[i + 1] /\ i + 1 \in 1..L /\ 1 <= i + 1
    <2>1. \A i \in 1..(L - 1) : 1 <= i + 1
      BY <1>7
    <2> QED
      BY <1>5, <1>7, <2>1
  <1> HIDE DEF L, T, h, c, s, fs
  <1>10. /\ \A i, j \in 1..L : i <= j => fs[i] <= fs[j]
         /\ \A i \in 1..L : fs[i] <= capture.seen
         /\ capture.seen <= screen
         /\ ses.last # None => \A i \in 1..L : ses.last <= fs[i]
    BY <1>8 DEF Fit, ServerOrder, Behind, L, fs
  <1>11. \A v : Behind(v, ses, capture, screen) => v <= h /\ Behind(v, s, c, screen)
    <2> SUFFICES ASSUME NEW v, Behind(v, ses, capture, screen)
                 PROVE  v <= h /\ Behind(v, s, c, screen)
      OBVIOUS
    <2>1. \A i \in 1..L : v <= fs[i]
      BY DEF Behind, L, fs
    <2>2. v <= h
      BY <1>7, <2>1
    <2>3. \A i \in 1..Len(c.frames) : v <= c.frames[i]
      BY <1>9, <2>1
    <2> QED
      BY <1>5, <1>6, <2>2, <2>3 DEF Behind
  <1>12. Fit(P, s, c)
    <2>1. Line(P, wire, writing, s.queue) /\ Announcing(P, s, dec)
      BY <1>6, <1>8 DEF Fit, Announcing
    <2>2. ~failed => Referencing(P, s, dec)
      BY <1>6, <1>8 DEF Fit, Referencing
    <2>3. ServerOrder(s, c, screen)
      <3>1. s.last # None => Behind(s.last, s, c, screen)
        BY <1>6, <1>8, <1>11 DEF Fit, ServerOrder
      <3>2. /\ \A i \in 1..Len(c.frames) : h <= c.frames[i]
            /\ h <= c.seen
        BY <1>5, <1>7, <1>9, <1>10
      <3>3. /\ \A i, j \in 1..Len(c.frames) : i <= j => c.frames[i] <= c.frames[j]
            /\ \A i \in 1..Len(c.frames) : c.frames[i] <= c.seen
        <4>1. \A i, j \in 1..Len(c.frames) : i <= j => i + 1 <= j + 1
          OBVIOUS
        <4> QED
          BY <1>5, <1>9, <1>10, <4>1
      <3> QED
        BY <1>5, <1>6, <1>10, <3>1, <3>2, <3>3 DEF ServerOrder
    <2>4. LineOrder(P, s, c, screen)
      BY <1>8, <1>11 DEF Fit, LineOrder
    <2>5. ClientBehind(P, s, c, screen, ui, dec, shown)
      <3>1. ClientBehind(P, ses, capture, screen, ui, dec, shown)
        BY <1>8 DEF Fit
      <3>2. \A i \in 1..L : Reaches(fs[i], ui, dec, shown)
        BY <3>1 DEF ClientBehind, L, fs
      <3>3. Reaches(h, ui, dec, shown)
        BY <1>7, <3>2
      <3>4. \A i \in 1..Len(c.frames) : Reaches(c.frames[i], ui, dec, shown)
        BY <1>9, <3>2
      <3> QED
        BY <1>5, <1>6, <3>1, <3>3, <3>4 DEF ClientBehind
    <2> QED
      BY <2>1, <2>2, <2>3, <2>4, <2>5 DEF Fit
  <1> QED
    BY <1>3, <1>5, <1>6, <1>12, TurnKeeps

LEMMA LadderFits ==
  ASSUME TypeOK, NEW P \in Seq(Packet), NEW c, NEW s \in SessionState, Fit(P, s, c),
         NEW g \in Geoms, NEW accepted \in BOOLEAN
  PROVE  /\ LadderStep(s, g, accepted) \in SessionState
         /\ \E R \in Seq(Packet) : Fit(R, LadderStep(s, g, accepted), c)
  <1>1. CASE g = s.geom
    <2>1. /\ SendConfig(s) \in SessionState
          /\ \E R \in Seq(Packet) : Fit(R, SendConfig(s), c)
      BY ConfigFits
    <2> QED
      BY <1>1, <2>1 DEF LadderStep
  <1>2. CASE g # s.geom /\ accepted
    <2> DEFINE t == Reconfigured(s, g)
    <2>1. /\ t \in SessionState /\ t.queue = s.queue /\ t.last = s.last
          /\ t.pending = s.pending /\ t.fresh
      BY DEF Reconfigured, SessionState
    <2> HIDE DEF t
    <2>2. SendConfig(t) \in SessionState /\ \E R \in Seq(Packet) : Fit(R, SendConfig(t), c)
      BY <2>1, ConfigFits
    <2> QED
      BY <1>2, <2>2 DEF LadderStep, t
  <1>3. CASE g # s.geom /\ ~accepted
    BY <1>3 DEF LadderStep
  <1> QED
    BY <1>1, <1>2, <1>3

LEMMA AckKeeps ==
  ASSUME IInv, OnAck
  PROVE  IInv'
  <1>1. PICK P \in Seq(Packet) : Fit(P, ses, capture)
    BY DEF IInv, Sound
  <1>2. ses \in SessionState /\ capture \in CaptureState /\ TypeOK
    BY DEF IInv, TypeOK
  <1> DEFINE s == [ses EXCEPT !.inflight = @ - 1]
  <1>3. /\ UNCHANGED <<screen, writing, wire, clientVars, failed>> /\ capture' = capture
        /\ Turn(s) \/ \E g \in Geoms, accepted \in BOOLEAN : Turn(LadderStep(s, g, accepted))
    BY DEF OnAck, FromClient, linkVars, budget
  <1>4. /\ s \in SessionState /\ s.queue = ses.queue /\ s.geom = ses.geom
        /\ s.last = ses.last /\ s.pending = ses.pending
        /\ s.key = ses.key /\ s.fresh = ses.fresh
    BY <1>2 DEF SessionState
  <1> HIDE DEF s
  <1>5. Fit(P, s, capture)
    BY <1>1, <1>4, SameFit
  <1>6. CASE Turn(s)
    BY <1>2, <1>3, <1>4, <1>5, <1>6, TurnKeeps DEF Turn
  <1>7. CASE \E g \in Geoms, accepted \in BOOLEAN : Turn(LadderStep(s, g, accepted))
    <2>1. PICK g \in Geoms, accepted \in BOOLEAN : Turn(LadderStep(s, g, accepted))
      BY <1>7
    <2> DEFINE t == LadderStep(s, g, accepted)
    <2>2. t \in SessionState /\ \E R \in Seq(Packet) : Fit(R, t, capture)
      BY <1>2, <1>4, <1>5, LadderFits
    <2>3. Turn(t)
      BY <2>1
    <2> HIDE DEF t
    <2> QED
      BY <1>2, <1>3, <2>2, <2>3, TurnKeeps DEF Turn
  <1> QED
    BY <1>3, <1>6, <1>7

LEMMA SessionKeeps ==
  ASSUME IInv, Session
  PROVE  IInv'
  <1>1. PICK P \in Seq(Packet) : Fit(P, ses, capture)
    BY DEF IInv, Sound
  <1>2. ses \in SessionState /\ capture \in CaptureState /\ TypeOK
    BY DEF IInv, TypeOK
  <1>3. ASSUME OnRequestKeyframe
        PROVE  IInv'
    <2> DEFINE s == KeyRequested(ses)
    <2>1. /\ UNCHANGED <<screen, writing, wire, clientVars, failed>> /\ capture' = capture
          /\ Turn(s)
      BY <1>3 DEF OnRequestKeyframe, FromClient, linkVars, budget
    <2>2. /\ s \in SessionState /\ s.queue = ses.queue /\ s.geom = ses.geom
          /\ s.last = ses.last /\ s.pending = ses.pending
          /\ s.key /\ s.fresh = ses.fresh
      BY <1>2 DEF KeyRequested, SessionState
    <2> HIDE DEF s
    <2>3. Fit(P, s, capture)
      BY <1>1, <2>2, SameFit
    <2> QED
      BY <1>2, <2>1, <2>2, <2>3, TurnKeeps DEF Turn
  <1>4. ASSUME OnReport
        PROVE  IInv'
    <2>1. /\ UNCHANGED <<screen, writing, wire, clientVars, failed>> /\ capture' = capture
          /\ Turn(ses)
      BY <1>4 DEF OnReport, budget
    <2> QED
      BY <1>1, <1>2, <2>1, TurnKeeps DEF Turn
  <1>5. ASSUME NEW timer, NEW past, OnTimer(timer, past)
        PROVE  IInv'
    <2>1. /\ UNCHANGED <<screen, writing, wire, clientVars, failed>> /\ capture' = capture
          /\ TurnAfter(ses, past)
      BY <1>5 DEF OnTimer, linkVars, budget
    <2> QED
      BY <1>1, <1>2, <2>1, TurnKeeps
  <1>6. ASSUME Rescue
        PROVE  IInv'
    <2> DEFINE s == [ses EXCEPT !.recaptured = TRUE]
               c == [capture EXCEPT !.asked = TRUE, !.full = TRUE]
    <2>1. /\ UNCHANGED <<screen, writing, wire, clientVars, failed>> /\ capture' = c
          /\ Turn(s)
      BY <1>6 DEF Rescue, linkVars, budget
    <2>2. /\ s \in SessionState /\ s.queue = ses.queue /\ s.geom = ses.geom
          /\ s.last = ses.last /\ s.pending = ses.pending
          /\ s.key = ses.key /\ s.fresh = ses.fresh
      BY <1>2 DEF SessionState
    <2>3. /\ c \in CaptureState /\ c.frames = capture.frames /\ c.seen = capture.seen
      BY <1>2 DEF CaptureState
    <2> HIDE DEF s, c
    <2>4. Fit(P, s, c)
      BY <1>1, <2>2, <2>3, SameFit
    <2> QED
      BY <2>1, <2>2, <2>3, <2>4, TurnKeeps DEF Turn
  <1> QED
    BY <1>3, <1>4, <1>5, <1>6, OnFrameKeeps, AckKeeps DEF Session

-----------------------------------------------------------------------------
(* The screen, its capture and the writer task.                              *)

LEMMA ReachesUp ==
  ASSUME NEW u \in Seq(Nat), NEW d \in DecoderState, NEW sh \in Nat,
         NEW v \in Nat, NEW w \in Nat, v <= w, Reaches(v, u, d, sh)
  PROVE  Reaches(w, u, d, sh)
  <1>1. /\ \A i \in 1..Len(u) : u[i] \in Nat
        /\ d.waiting # None => d.waiting \in Nat
        /\ d.complete # None => d.complete \in Nat
        /\ \A i \in 1..Len(d.held) : d.held[i] \in Nat
    BY ElementOfSeq DEF DecoderState, Content
  <1>2. /\ sh <= v
        /\ \A i \in 1..Len(u) : u[i] <= v
        /\ d.waiting # None => d.waiting <= v
        /\ \A i \in 1..Len(d.held) : d.held[i] <= v
        /\ d.complete # None => d.complete <= v
    BY DEF Reaches
  <1>3. \A x \in Nat : x <= v => x <= w
    OBVIOUS
  <1> QED
    BY <1>1, <1>2, <1>3 DEF Reaches

LEMMA ChangeKeeps ==
  ASSUME IInv, Change
  PROVE  IInv'
  <1>1. PICK P \in Seq(Packet) : Sound(P)
    BY DEF IInv
  <1>2. /\ ses \in SessionState /\ capture \in CaptureState /\ screen \in Nat /\ TypeOK
        /\ ui \in Seq(Nat) /\ dec \in DecoderState /\ shown \in Nat
    BY DEF IInv, TypeOK
  <1>3. /\ UNCHANGED <<ses, capture, writing, wire, dec, ui, shown, failed>>
        /\ screen' = screen + 1
    BY DEF Change, serverVars, linkVars, clientVars, budget
  <1> DEFINE scr == screen + 1
  <1>4. scr \in Nat /\ screen <= scr
    BY <1>2
  <1>5. \A v \in Nat : Behind(v, ses, capture, screen) => Behind(v, ses, capture, scr)
    BY <1>2 DEF Behind
  <1>6. /\ \A i \in 1..Len(P) : IsVideo(P[i]) => P[i].version \in Nat
        /\ ses.last # None => ses.last \in Nat /\ capture.seen \in Nat
    BY <1>2, ElementOfSeq, Packets DEF SessionState, Content, CaptureState
  <1>7. Fit(P, ses, capture) /\ ClientOrder(ui, dec, shown)
    BY <1>1 DEF Sound
  <1>8. capture.seen <= screen /\ capture.seen \in Nat
    BY <1>2, <1>7 DEF Fit, ServerOrder, CaptureState
  <1>9. Reaches(scr, ui, dec, shown)
    BY <1>2, <1>4, <1>7, ReachesUp DEF Fit, ClientBehind
  <1>10. capture.seen <= scr
    BY <1>2, <1>8
  <1> HIDE DEF scr
  <1>11. ServerOrder(ses, capture, scr)
    BY <1>5, <1>6, <1>7, <1>10 DEF Fit, ServerOrder
  <1>12. LineOrder(P, ses, capture, scr)
    BY <1>5, <1>6, <1>7 DEF Fit, LineOrder
  <1>13. ClientBehind(P, ses, capture, scr, ui, dec, shown)
    BY <1>7, <1>9 DEF Fit, ClientBehind
  <1>14. screen' = scr
    BY <1>3 DEF scr
  <1>15. Fit(P, ses, capture)'
    BY <1>3, <1>7, <1>11, <1>12, <1>13, <1>14 DEF Fit
  <1>16. ClientOrder(ui, dec, shown)'
    BY <1>3, <1>7
  <1>17. TypeOK'
    BY <1>2, <1>3, <1>4, <1>14 DEF TypeOK
  <1> QED
    BY <1>15, <1>16, <1>17 DEF IInv, Sound

LEMMA CaptureKeeps ==
  ASSUME IInv, Capture
  PROVE  IInv'
  <1>1. PICK P \in Seq(Packet) : Sound(P)
    BY DEF IInv
  <1>2. ses \in SessionState /\ capture \in CaptureState /\ screen \in Nat /\ TypeOK
    BY DEF IInv, TypeOK
  <1> DEFINE fs == capture.frames
             c == [asked |-> FALSE, full |-> FALSE, seen |-> screen,
                   frames |-> Append(fs, screen)]
             L == Len(fs)
  <1>3. /\ UNCHANGED <<screen, ses, writing, wire, dec, ui, shown, failed>>
        /\ capture' = c
    BY DEF Capture, linkVars, clientVars, budget
  <1>4. /\ fs \in Seq(Nat) /\ L \in Nat
        /\ \A i \in 1..L : fs[i] \in Nat
    BY <1>2, LenProperties, ElementOfSeq DEF CaptureState
  <1>5. /\ c.frames \in Seq(Nat) /\ Len(c.frames) = L + 1 /\ c.frames[L + 1] = screen
        /\ \A i \in 1..L : c.frames[i] = fs[i]
        /\ c.seen = screen
    BY <1>2, <1>4, AppendProperties
  <1>6. c \in CaptureState
    BY <1>2, <1>5 DEF CaptureState
  <1>7. Fit(P, ses, capture) /\ ClientOrder(ui, dec, shown)
    BY <1>1 DEF Sound
  <1> HIDE DEF c, L, fs
  <1>8. \A i \in 1..Len(c.frames) : \/ i \in 1..L /\ c.frames[i] = fs[i]
                                    \/ i = L + 1 /\ c.frames[i] = screen
    BY <1>4, <1>5
  <1>9. \A v : Behind(v, ses, capture, screen) => Behind(v, ses, c, screen)
    <2> SUFFICES ASSUME NEW v, Behind(v, ses, capture, screen)
                 PROVE  Behind(v, ses, c, screen)
      OBVIOUS
    <2>1. \A i \in 1..L : v <= fs[i]
      BY DEF Behind, fs, L
    <2> QED
      BY <1>5, <1>8, <2>1 DEF Behind
  <1>10. /\ capture.seen \in Nat /\ capture.seen <= screen
         /\ \A i \in 1..L : fs[i] <= capture.seen
         /\ \A i, j \in 1..L : i <= j => fs[i] <= fs[j]
         /\ ses.pending # None => /\ \A i \in 1..L : ses.pending <= fs[i]
                                  /\ ses.pending <= capture.seen
                                  /\ ses.pending \in Nat
    BY <1>2, <1>7 DEF Fit, ServerOrder, fs, L, CaptureState, SessionState, Content
  <1>11. \A i \in 1..L : fs[i] <= screen
    BY <1>2, <1>4, <1>10
  <1>12. ses.pending # None => ses.pending <= screen
    BY <1>2, <1>10
  <1>13. ServerOrder(ses, c, screen)
    <2>1. ses.last # None => Behind(ses.last, ses, c, screen)
      BY <1>7, <1>9 DEF Fit, ServerOrder
    <2>2. ses.pending # None => /\ \A i \in 1..Len(c.frames) : ses.pending <= c.frames[i]
                                /\ ses.pending <= c.seen
      BY <1>5, <1>8, <1>10, <1>12
    <2>3. \A i \in 1..Len(c.frames) : c.frames[i] <= c.seen
      BY <1>2, <1>5, <1>8, <1>11
    <2>4. ASSUME NEW i \in 1..Len(c.frames), NEW j \in 1..Len(c.frames), i <= j
          PROVE  c.frames[i] <= c.frames[j]
      <3>1. CASE j = L + 1
        BY <1>5, <2>3, <3>1
      <3>2. CASE j # L + 1
        <4>1. j \in 1..L /\ i \in 1..L /\ c.frames[i] = fs[i] /\ c.frames[j] = fs[j]
          BY <1>4, <1>8, <2>4, <3>2
        <4> QED
          BY <1>10, <2>4, <4>1
      <3> QED
        BY <3>1, <3>2
    <2>5. c.seen <= screen
      BY <1>2, <1>5
    <2> QED
      BY <2>1, <2>2, <2>3, <2>4, <2>5 DEF ServerOrder
  <1>14. LineOrder(P, ses, c, screen)
    BY <1>7, <1>9 DEF Fit, LineOrder
  <1>15. ClientBehind(P, ses, c, screen, ui, dec, shown)
    <2>1. ClientBehind(P, ses, capture, screen, ui, dec, shown)
      BY <1>7 DEF Fit
    <2>2. \A i \in 1..L : Reaches(fs[i], ui, dec, shown)
      BY <2>1 DEF ClientBehind, fs, L
    <2>3. \A i \in 1..Len(c.frames) : Reaches(c.frames[i], ui, dec, shown)
      BY <1>8, <2>1, <2>2 DEF ClientBehind
    <2> QED
      BY <1>5, <2>1, <2>3 DEF ClientBehind
  <1>16. Fit(P, ses, c)
    BY <1>7, <1>13, <1>14, <1>15 DEF Fit, Announcing, Referencing
  <1>17. Fit(P, ses, capture)'
    BY <1>3, <1>16 DEF Fit
  <1>18. ClientOrder(ui, dec, shown)'
    BY <1>3, <1>7
  <1>19. TypeOK'
    BY <1>2, <1>3, <1>6 DEF TypeOK
  <1> QED
    BY <1>17, <1>18, <1>19 DEF IInv, Sound

\* What of Fit is not the line.
LEMMA OtherLine ==
  ASSUME NEW P, NEW s, NEW t, NEW c, Fit(P, s, c),
         t.geom = s.geom, t.last = s.last, t.pending = s.pending,
         t.key = s.key, t.fresh = s.fresh
  PROVE  /\ Announcing(P, t, dec) /\ (~failed => Referencing(P, t, dec))
         /\ ServerOrder(t, c, screen) /\ LineOrder(P, t, c, screen)
         /\ ClientBehind(P, t, c, screen, ui, dec, shown)
  <1>1. \A v, scr : Behind(v, t, c, scr) <=> Behind(v, s, c, scr)
    BY DEF Behind
  <1>2. ServerOrder(t, c, screen) /\ LineOrder(P, t, c, screen)
    BY <1>1 DEF Fit, ServerOrder, LineOrder
  <1>3. Announcing(P, t, dec) /\ (~failed => Referencing(P, t, dec))
    BY DEF Fit, Announcing, Referencing
  <1>4. ClientBehind(P, t, c, screen, ui, dec, shown)
    BY DEF Fit, ClientBehind
  <1> QED
    BY <1>2, <1>3, <1>4

LEMMA PopKeeps ==
  ASSUME IInv, Pop
  PROVE  IInv'
  <1>1. PICK P \in Seq(Packet) : Fit(P, ses, capture) /\ ClientOrder(ui, dec, shown)
    BY DEF IInv, Sound
  <1>2. /\ ses \in SessionState /\ TypeOK /\ wire \in Seq(Packet)
        /\ ses.queue \in SUBSET Packet
    BY DEF IInv, TypeOK, SessionState
  <1>3. PICK m \in ses.queue : /\ IsFront(m, ses.queue) /\ writing' = {m}
                               /\ ses' = [ses EXCEPT !.queue = @ \ {m}]
    BY DEF Pop
  <1>4. writing = {} /\ UNCHANGED <<screen, capture, wire, dec, ui, shown, failed>>
    BY DEF Pop, clientVars, budget
  <1> DEFINE t == [ses EXCEPT !.queue = @ \ {m}]
  <1>5. /\ t \in SessionState /\ t.queue = ses.queue \ {m}
        /\ t.geom = ses.geom /\ t.last = ses.last /\ t.pending = ses.pending
        /\ t.key = ses.key /\ t.fresh = ses.fresh /\ ses' = t
    BY <1>2, <1>3 DEF SessionState
  <1> HIDE DEF t
  <1>6. Line(P, wire, {m}, t.queue)
    BY <1>1, <1>2, <1>3, <1>4, <1>5, LinePopped DEF Fit
  <1>7. Fit(P, ses, capture)'
    <2>1. /\ Announcing(P, t, dec) /\ (~failed => Referencing(P, t, dec))
          /\ ServerOrder(t, capture, screen) /\ LineOrder(P, t, capture, screen)
          /\ ClientBehind(P, t, capture, screen, ui, dec, shown)
      BY <1>1, <1>5, OtherLine
    <2> QED
      BY <1>3, <1>4, <1>5, <1>6, <2>1 DEF Fit
  <1>8. ClientOrder(ui, dec, shown)'
    BY <1>1, <1>4
  <1>9. TypeOK'
    BY <1>2, <1>3, <1>4, <1>5 DEF TypeOK
  <1> QED
    BY <1>7, <1>8, <1>9 DEF IInv, Sound

LEMMA WriteDoneKeeps ==
  ASSUME IInv, WriteDone
  PROVE  IInv'
  <1>1. PICK P \in Seq(Packet) : Fit(P, ses, capture) /\ ClientOrder(ui, dec, shown)
    BY DEF IInv, Sound
  <1>2. /\ ses \in SessionState /\ TypeOK /\ wire \in Seq(Packet)
        /\ ses.queue \in SUBSET Packet /\ writing \in SUBSET Packet
    BY DEF IInv, TypeOK, SessionState
  <1>3. PICK m \in writing : wire' = Append(wire, m)
    BY DEF WriteDone
  <1>4. /\ writing' = {}
        /\ UNCHANGED <<screen, capture, ses, dec, ui, shown, failed>>
    BY DEF WriteDone, serverVars, clientVars, budget
  <1>5. writing = {m} /\ m \in Packet
    BY <1>1, <1>2, <1>3 DEF Fit, Line
  <1>6. Line(P, wire, {m}, ses.queue)
    BY <1>1, <1>5 DEF Fit
  <1>7. Line(P, Append(wire, m), {}, ses.queue)
    BY <1>2, <1>5, <1>6, LineWritten
  <1>8. Append(wire, m) \in Seq(Packet)
    BY <1>2, <1>5, AppendProperties
  <1>9. Fit(P, ses, capture)'
    BY <1>1, <1>3, <1>4, <1>7 DEF Fit
  <1>10. ClientOrder(ui, dec, shown)'
    BY <1>1, <1>4
  <1>11. TypeOK'
    BY <1>2, <1>3, <1>4, <1>8 DEF TypeOK
  <1> QED
    BY <1>9, <1>10, <1>11 DEF IInv, Sound

-----------------------------------------------------------------------------
(* The client.                                                               *)

\* A packet is read, and the decoder d becomes b: what follows is as it was.
LEMMA ReadAhead ==
  ASSUME NEW P \in Seq(Packet), P # <<>>, NEW d, NEW b, NEW e \in Nat, e < Len(P), NEW g
  PROVE  /\ /\ Announced(P, e + 1, g, d)
            /\ IsConfig(P[1]) => b.geom = P[1].geom
            /\ IsVideo(P[1]) => b.geom = d.geom
            => Announced(Tail(P), e, g, b)
         /\ /\ Referenced(P, e + 1, g, d)
            /\ IsVideo(P[1]) => b.geom = P[1].geom /\ b.primed
            /\ IsConfig(P[1]) /\ d.geom = P[1].geom => b.geom = d.geom
            /\ IsConfig(P[1]) /\ d.geom = P[1].geom /\ d.primed => b.primed
            => Referenced(Tail(P), e, g, b)
  <1> DEFINE T == Tail(P)
  <1>1. P[1] \in Packet /\ Len(P) \in Nat
        /\ \A i \in 1..(Len(P) - 1) : T[i] = P[i + 1]
    BY TailLine
  <1>2. IsVideo(P[1]) \/ IsConfig(P[1])
    BY <1>1, Packets
  <1> HIDE DEF T
  <1>3. \A i \in 1..e : T[i] = P[i + 1] /\ i + 1 \in 1..(e + 1) /\ i + 1 # 1
    <2>1. \A i \in 1..e : i \in 1..(Len(P) - 1) /\ i + 1 \in 1..(e + 1) /\ i + 1 # 1
      BY <1>1
    <2> QED
      BY <1>1, <2>1
  <1>4. \A j \in 1..(e + 1) : j = 1 \/ (j - 1 \in 1..e /\ T[j - 1] = P[j])
    <2> SUFFICES ASSUME NEW j \in 1..(e + 1), j # 1
                 PROVE  j - 1 \in 1..e /\ T[j - 1] = P[j]
      OBVIOUS
    <2>1. j - 1 \in 1..e /\ (j - 1) + 1 = j
      OBVIOUS
    <2> QED
      BY <1>3, <2>1
  <1>5. 1 \in 1..(e + 1)
    OBVIOUS
  <1>6. \A i \in 1..e, j \in 1..(e + 1) : i + 1 < j => i < j - 1 /\ j # 1
    OBVIOUS
  <1>7. ASSUME Announced(P, e + 1, g, d),
               IsConfig(P[1]) => b.geom = P[1].geom,
               IsVideo(P[1]) => b.geom = d.geom
        PROVE  Announced(T, e, g, b)
    <2>1. \A i \in 1..e : IsConfig(T[i]) =>
            T[i].geom = g \/ \E j \in 1..e : i < j /\ IsConfig(T[j])
      <3> SUFFICES ASSUME NEW i \in 1..e, IsConfig(T[i]), T[i].geom # g
                   PROVE  \E j \in 1..e : i < j /\ IsConfig(T[j])
        OBVIOUS
      <3>1. PICK j \in 1..(e + 1) : i + 1 < j /\ IsConfig(P[j])
        BY <1>3, <1>7 DEF Announced
      <3> QED
        BY <1>4, <1>6, <3>1
    <2>2. b.geom = g \/ \E j \in 1..e : IsConfig(T[j])
      <3> SUFFICES ASSUME ~\E j \in 1..e : IsConfig(T[j])
                   PROVE  b.geom = g
        OBVIOUS
      <3>1. \A j \in 1..(e + 1) : IsConfig(P[j]) => j = 1
        BY <1>4
      <3>2. CASE IsConfig(P[1])
        <4>1. P[1].geom = g
          BY <1>5, <1>7, <3>1, <3>2 DEF Announced
        <4> QED
          BY <1>7, <3>2, <4>1
      <3>3. CASE IsVideo(P[1])
        <4>1. ~IsConfig(P[1])
          BY <1>1, <3>3, Packets
        <4> QED
          BY <1>7, <3>1, <3>3, <4>1 DEF Announced
      <3> QED
        BY <1>2, <3>2, <3>3
    <2> QED
      BY <2>1, <2>2 DEF Announced
  <1>8. ASSUME Referenced(P, e + 1, g, d),
               IsVideo(P[1]) => b.geom = P[1].geom /\ b.primed,
               IsConfig(P[1]) /\ d.geom = P[1].geom => b.geom = d.geom,
               IsConfig(P[1]) /\ d.geom = P[1].geom /\ d.primed => b.primed
        PROVE  Referenced(T, e, g, b)
    <2>1. \A i \in 1..e : T[i].geom = g \/ \E j \in 1..e : i < j /\ IsVideo(T[j])
      <3> SUFFICES ASSUME NEW i \in 1..e, T[i].geom # g
                   PROVE  \E j \in 1..e : i < j /\ IsVideo(T[j])
        OBVIOUS
      <3>1. PICK j \in 1..(e + 1) : i + 1 < j /\ IsVideo(P[j])
        BY <1>3, <1>8 DEF Referenced
      <3> QED
        BY <1>4, <1>6, <3>1
    <2>2. (b.geom = g /\ b.primed) \/ \E j \in 1..e : IsVideo(T[j])
      <3> SUFFICES ASSUME ~\E j \in 1..e : IsVideo(T[j])
                   PROVE  b.geom = g /\ b.primed
        OBVIOUS
      <3>1. \A j \in 1..(e + 1) : IsVideo(P[j]) => j = 1
        BY <1>4
      <3>2. P[1].geom = g
        BY <1>5, <1>8, <3>1 DEF Referenced
      <3>3. CASE IsVideo(P[1])
        BY <1>8, <3>2, <3>3
      <3>4. CASE IsConfig(P[1])
        <4>1. ~IsVideo(P[1])
          BY <1>1, <3>4, Packets
        <4>2. d.geom = g /\ d.primed
          BY <1>8, <3>1, <4>1 DEF Referenced
        <4> QED
          BY <1>8, <3>2, <3>4, <4>2
      <3> QED
        BY <1>2, <3>3, <3>4
    <2> QED
      BY <2>1, <2>2 DEF Referenced
  <1> QED
    BY <1>7, <1>8 DEF T

\* The client's part of a step that reads nothing.
LEMMA ClientKeeps ==
  ASSUME IInv, UNCHANGED <<screen, serverVars, writing, wire, failed>>,
         dec' \in DecoderState, ui' \in Seq(Nat), shown' \in Nat,
         dec'.geom = dec.geom, dec.primed => dec'.primed,
         ClientOrder(ui', dec', shown'),
         \A v \in Nat : Reaches(v, ui, dec, shown) => Reaches(v, ui', dec', shown')
  PROVE  IInv'
  <1>1. PICK P \in Seq(Packet) : Fit(P, ses, capture)
    BY DEF IInv, Sound
  <1>2. TypeOK /\ ses \in SessionState /\ capture \in CaptureState /\ screen \in Nat
    BY DEF IInv, TypeOK
  <1> DEFINE b == dec'
  <1>3. b.geom = dec.geom /\ (dec.primed => b.primed) /\ dec' = b
    OBVIOUS
  <1> HIDE DEF b
  <1>4. Announcing(P, ses, b)
    BY <1>1, <1>3 DEF Fit, Announcing, Announced
  <1>5. ~failed => Referencing(P, ses, b)
    BY <1>1, <1>3 DEF Fit, Referencing, Referenced
  <1>6. ClientBehind(P, ses, capture, screen, ui', b, shown')
    <2>1. ClientBehind(P, ses, capture, screen, ui, dec, shown)
      BY <1>1 DEF Fit
    <2>2. /\ \A i \in 1..Len(P) : IsVideo(P[i]) => P[i].version \in Nat
          /\ ses.last # None => ses.last \in Nat
          /\ ses.pending # None => ses.pending \in Nat
          /\ \A i \in 1..Len(capture.frames) : capture.frames[i] \in Nat
          /\ capture.seen \in Nat
      BY <1>2, ElementOfSeq, Packets DEF SessionState, Content, CaptureState
    <2> QED
      BY <1>2, <1>3, <2>1, <2>2 DEF ClientBehind
  <1>7. Fit(P, ses, capture)'
    BY <1>1, <1>3, <1>4, <1>5, <1>6 DEF Fit, serverVars
  <1>8. TypeOK'
    BY <1>2 DEF TypeOK, serverVars
  <1> QED
    BY <1>7, <1>8 DEF IInv, Sound

\* And of one that reads a packet.
LEMMA ReadKeeps ==
  ASSUME IInv, wire # <<>>, wire' = Tail(wire),
         UNCHANGED <<screen, serverVars, writing, shown>>,
         NEW m, m = Head(wire),
         dec' \in DecoderState, ui' \in Seq(Nat), ClientOrder(ui', dec', shown),
         IsConfig(m) => dec'.geom = m.geom,
         IsVideo(m) => dec'.geom = dec.geom,
         ~failed' => ~failed,
         ~failed' /\ IsVideo(m) => dec'.primed,
         ~failed' /\ IsConfig(m) /\ dec.geom = m.geom /\ dec.primed => dec'.primed,
         failed' \in BOOLEAN,
         \A v \in Nat : Reaches(v, ui, dec, shown) /\ (IsVideo(m) => m.version <= v) =>
           Reaches(v, ui', dec', shown)
  PROVE  IInv'
  <1>1. PICK P \in Seq(Packet) : Fit(P, ses, capture)
    BY DEF IInv, Sound
  <1>2. /\ TypeOK /\ ses \in SessionState /\ capture \in CaptureState /\ screen \in Nat
        /\ wire \in Seq(Packet) /\ ses.queue \in SUBSET Packet
    BY DEF IInv, TypeOK, SessionState
  <1> DEFINE T == Tail(P)
             b == dec'
             L == Len(P)
  <1>3. P # <<>> /\ m = P[1] /\ Line(T, Tail(wire), writing, ses.queue)
    BY <1>1, <1>2, LineRead DEF Fit
  <1>4. /\ T \in Seq(Packet) /\ Len(T) = L - 1 /\ L \in Nat /\ L > 0 /\ P[1] \in Packet
        /\ \A i \in 1..(L - 1) : T[i] = P[i + 1]
        /\ Tail(wire) \in Seq(Packet)
    BY <1>2, <1>3, TailLine
  <1>5. /\ IsConfig(m) => b.geom = m.geom
        /\ IsVideo(m) => b.geom = dec.geom
        /\ dec' = b
    OBVIOUS
  <1>6. ~failed' => /\ ~failed
                    /\ IsVideo(m) => b.primed
                    /\ IsConfig(m) /\ dec.geom = m.geom /\ dec.primed => b.primed
    OBVIOUS
  <1> HIDE DEF T, b, L
  <1>7. \A i \in 1..Len(T) : /\ i + 1 \in 1..L /\ T[i] = P[i + 1] /\ i - 1 < L
                             /\ i - 1 \in Nat /\ i - 1 + 1 = (i + 1) - 1
    BY <1>4
  <1>8. /\ Len(T) \in Nat /\ Len(T) < L /\ Len(T) + 1 = L /\ 1 \in 1..L
    BY <1>4
  <1>9. IsVideo(m) => m.geom = dec.geom
    <2> SUFFICES ASSUME IsVideo(m)
                 PROVE  m.geom = dec.geom
      OBVIOUS
    <2>1. Announced(P, 1 - 1, m.geom, dec)
      BY <1>1, <1>3, <1>8 DEF Fit, Announcing, L
    <2>2. ~\E j \in 1..(1 - 1) : TRUE
      OBVIOUS
    <2> QED
      BY <2>1, <2>2 DEF Announced
  <1>10. Announcing(T, ses, b)
    <2>1. \A e \in Nat : \A g : e < L /\ Announced(P, e + 1, g, dec) => Announced(T, e, g, b)
      BY <1>3, <1>5, ReadAhead DEF T, L
    <2>2. Announcing(P, ses, dec)
      BY <1>1 DEF Fit
    <2>3. ASSUME NEW j \in 1..Len(T), IsVideo(T[j])
          PROVE  Announced(T, j - 1, T[j].geom, b)
      <3>1. Announced(P, (j + 1) - 1, P[j + 1].geom, dec)
        BY <1>7, <2>2, <2>3 DEF Announcing, L
      <3>2. Announced(P, (j - 1) + 1, T[j].geom, dec)
        BY <1>7, <3>1
      <3> QED
        BY <1>7, <2>1, <3>2
    <2>4. Announced(T, Len(T), ses.geom, b)
      <3>1. Announced(P, Len(T) + 1, ses.geom, dec)
        BY <1>8, <2>2 DEF Announcing, L
      <3> QED
        BY <1>8, <2>1, <3>1
    <2> QED
      BY <2>3, <2>4 DEF Announcing
  <1>11. ASSUME ~failed'
         PROVE  Referencing(T, ses, b)
    <2>1. \A e \in Nat : \A g : e < L /\ Referenced(P, e + 1, g, dec) => Referenced(T, e, g, b)
      <3>1. IsVideo(P[1]) => b.geom = P[1].geom /\ b.primed
        BY <1>3, <1>5, <1>6, <1>9, <1>11
      <3>2. /\ IsConfig(P[1]) /\ dec.geom = P[1].geom => b.geom = dec.geom
            /\ IsConfig(P[1]) /\ dec.geom = P[1].geom /\ dec.primed => b.primed
        BY <1>3, <1>5, <1>6, <1>11
      <3> QED
        BY <1>3, <3>1, <3>2, ReadAhead DEF T, L
    <2>2. Referencing(P, ses, dec)
      BY <1>1, <1>6, <1>11 DEF Fit
    <2>3. ASSUME NEW j \in 1..Len(T), IsVideo(T[j])
          PROVE  T[j].key \/ Referenced(T, j - 1, T[j].geom, b)
      <3>1. P[j + 1].key \/ Referenced(P, (j + 1) - 1, P[j + 1].geom, dec)
        BY <1>7, <2>2, <2>3 DEF Referencing, L
      <3>2. T[j].key \/ Referenced(P, (j - 1) + 1, T[j].geom, dec)
        BY <1>7, <3>1
      <3> QED
        BY <1>7, <2>1, <3>2
    <2>4. ses.key \/ ses.fresh \/ Referenced(T, Len(T), ses.geom, b)
      <3>1. ses.key \/ ses.fresh \/ Referenced(P, Len(T) + 1, ses.geom, dec)
        BY <1>8, <2>2 DEF Referencing, L
      <3> QED
        BY <1>8, <2>1, <3>1
    <2> QED
      BY <2>3, <2>4 DEF Referencing
  <1>12. LineOrder(T, ses, capture, screen)
    <2>1. LineOrder(P, ses, capture, screen)
      BY <1>1 DEF Fit
    <2>2. \A i, j \in 1..Len(T) : i <= j => i + 1 <= j + 1
      OBVIOUS
    <2> QED
      BY <1>7, <2>1, <2>2 DEF LineOrder, L
  <1>13. ClientBehind(T, ses, capture, screen, ui', b, shown)
    <2> DEFINE Ahead(v) == v \in Nat /\ Reaches(v, ui, dec, shown)
                           /\ (IsVideo(m) => m.version <= v)
    <2>1. \A v : Ahead(v) => Reaches(v, ui', b, shown)
      BY <1>5
    <2>2. ClientBehind(P, ses, capture, screen, ui, dec, shown)
      BY <1>1 DEF Fit
    <2>3. /\ IsVideo(m) => Behind(m.version, ses, capture, screen)
          /\ \A i \in 1..L : IsVideo(m) /\ IsVideo(P[i]) => m.version <= P[i].version
      <3>1. \A i \in 1..L : 1 <= i
        BY <1>4
      <3> QED
        BY <1>1, <1>3, <1>8, <3>1 DEF Fit, LineOrder, L
    <2>4. \A i \in 1..L : IsVideo(P[i]) => Ahead(P[i].version)
      BY <1>2, <2>2, <2>3, ElementOfSeq, Packets DEF ClientBehind, L
    <2>5. /\ ses.last # None => Ahead(ses.last)
          /\ ses.pending # None => Ahead(ses.pending)
          /\ \A i \in 1..Len(capture.frames) : Ahead(capture.frames[i])
          /\ Ahead(capture.seen) /\ Ahead(screen)
      <3>1. /\ ses.last # None => ses.last \in Nat
            /\ ses.pending # None => ses.pending \in Nat
            /\ \A i \in 1..Len(capture.frames) : capture.frames[i] \in Nat
            /\ capture.seen \in Nat
        BY <1>2, ElementOfSeq DEF SessionState, Content, CaptureState
      <3> QED
        BY <1>2, <2>2, <2>3, <3>1 DEF ClientBehind, Behind
    <2> HIDE DEF Ahead
    <2> QED
      BY <1>7, <2>1, <2>4, <2>5 DEF ClientBehind
  <1>14. Fit(T, ses, capture)'
    BY <1>3, <1>5, <1>1, <1>10, <1>11, <1>12, <1>13 DEF Fit, serverVars
  <1>15. TypeOK'
    BY <1>2, <1>4 DEF TypeOK, serverVars
  <1> QED
    BY <1>4, <1>14, <1>15 DEF IInv, Sound

\* A delivered picture is the one that waits, or leaves the decode loop.
LEMMA Delivered ==
  ASSUME NEW b \in DecoderState, NEW p \in Nat, ui \in Seq(Nat), Deliver(b, p),
         NEW W, W = [b EXCEPT !.waiting = p], ClientOrder(ui, W, shown)
  PROVE  /\ dec' \in DecoderState /\ ui' \in Seq(Nat)
         /\ ClientOrder(ui', dec', shown)
         /\ dec'.geom = b.geom /\ (b.primed => dec'.primed)
         /\ \A v \in Nat : Reaches(v, ui, W, shown) => Reaches(v, ui', dec', shown)
  <1>1. /\ W \in DecoderState /\ W.waiting = p /\ W.held = b.held /\ W.complete = b.complete
        /\ W.lag = b.lag /\ W.tier = b.tier /\ W.geom = b.geom /\ (b.primed => W.primed)
        /\ p # None
    BY VideoAssumption DEF DecoderState, Content
  <1>2. CASE Len(ui) < 2
    <2> DEFINE u == Append(ui, p)
               n == Len(ui)
               d == [b EXCEPT !.waiting = None]
    <2>1. ui' = u /\ dec' = d
      BY <1>2 DEF Deliver
    <2>2. /\ u \in Seq(Nat) /\ n \in Nat /\ Len(u) = n + 1 /\ u[n + 1] = p
          /\ \A i \in 1..n : u[i] = ui[i]
      BY AppendProperties, LenProperties
    <2>3. /\ d \in DecoderState /\ d.waiting = None /\ d.held = b.held
          /\ d.complete = b.complete /\ d.lag = b.lag /\ d.tier = b.tier /\ d.geom = b.geom
          /\ (b.primed => d.primed)
      BY DEF DecoderState, Content
    <2> HIDE DEF u, d
    <2>4. \A i \in 1..Len(u) : (i \in 1..n /\ u[i] = ui[i]) \/ (i = n + 1 /\ u[i] = p)
      BY <2>2
    <2>5. \A v : Reaches(v, ui, W, shown) => Reaches(v, u, d, shown)
      BY <1>1, <2>3, <2>4 DEF Reaches
    <2>6. ClientOrder(u, d, shown)
      <3>1. /\ \A i, j \in 1..n : i <= j => shown <= ui[i] /\ ui[i] <= ui[j]
            /\ shown <= p /\ \A i \in 1..n : ui[i] <= p
            /\ \A j \in 1..Len(d.held) :
                 /\ shown <= d.held[j] /\ \A i \in 1..n : ui[i] <= d.held[j]
                 /\ p <= d.held[j]
            /\ d.complete # None => Reaches(d.complete, ui, W, shown)
            /\ Len(d.held) <= d.lag /\ (d.tier = "gpu" => d.lag = 0)
        BY <1>1, <2>3 DEF ClientOrder
      <3>2. ASSUME NEW i \in 1..Len(u), NEW j \in 1..Len(u), i <= j
            PROVE  shown <= u[i] /\ u[i] <= u[j]
        <4>1. CASE j = n + 1 /\ i = n + 1
          BY <2>2, <3>1, <4>1
        <4>2. CASE j = n + 1 /\ i # n + 1
          <5>1. i \in 1..n /\ u[i] = ui[i] /\ u[j] = p
            BY <2>2, <2>4, <4>2
          <5>2. shown <= ui[i]
            BY <2>2, <3>1, <5>1
          <5> QED
            BY <3>1, <5>1, <5>2
        <4>3. CASE j # n + 1
          <5>1. /\ i \in 1..n /\ u[i] = ui[i] /\ j \in 1..n /\ u[j] = ui[j]
            BY <2>2, <2>4, <3>2, <4>3
          <5> QED
            BY <3>1, <3>2, <5>1
        <4> QED
          BY <4>1, <4>2, <4>3
      <3>3. ASSUME NEW j \in 1..Len(d.held)
            PROVE  shown <= d.held[j] /\ \A i \in 1..Len(u) : u[i] <= d.held[j]
        BY <2>4, <3>1
      <3>4. d.complete # None => Reaches(d.complete, u, d, shown)
        BY <2>5, <3>1
      <3> QED
        BY <2>3, <3>1, <3>2, <3>3, <3>4 DEF ClientOrder
    <2> QED
      BY <2>1, <2>2, <2>3, <2>5, <2>6
  <1>3. CASE ~(Len(ui) < 2)
    <2>1. ui' = ui /\ dec' = W
      BY <1>3 DEF Deliver
    <2> QED
      BY <1>1, <2>1
  <1> QED
    BY <1>2, <1>3

LEMMA ReceiveConfigKeeps ==
  ASSUME IInv, ReceiveConfig
  PROVE  IInv'
  <1>1. /\ dec \in DecoderState /\ ui \in Seq(Nat) /\ failed \in BOOLEAN
        /\ wire \in Seq(Packet) /\ ClientOrder(ui, dec, shown) /\ shown \in Nat
    BY DEF IInv, Sound, TypeOK
  <1> DEFINE m == Head(wire)
             new == NewDecoder(dec.tier, m.geom)
  <1>2. /\ wire # <<>> /\ m.kind = "StreamConfig" /\ wire' = Tail(wire)
        /\ UNCHANGED <<screen, serverVars, writing, shown, ui, failed>>
        /\ dec' = IF m.geom = dec.geom THEN dec ELSE new
    BY DEF ReceiveConfig, FromServer, Configured, budget
  <1>3. m \in Packet /\ IsConfig(m) /\ ~IsVideo(m) /\ m.geom \in Geoms
    <2>1. m \in Packet
      BY <1>1, <1>2, TailLine
    <2> QED
      BY <1>2, <2>1, Packets DEF IsConfig, IsVideo
  <1>4. /\ new \in DecoderState /\ new.held = <<>> /\ new.waiting = None
        /\ new.complete = None /\ new.geom = m.geom
        /\ Len(new.held) = 0 /\ new.lag \in {0, 1} /\ (new.tier = "gpu" => new.lag = 0)
    BY <1>1, <1>3, EmptySeq DEF NewDecoder, DecoderState, Content
  <1> HIDE DEF new, m
  <1>5. ~\E j \in 1..Len(new.held) : TRUE
    BY <1>4
  <1>6. ClientOrder(ui, new, shown)
    <2>1. \A i, j \in 1..Len(ui) : i <= j => shown <= ui[i] /\ ui[i] <= ui[j]
      BY <1>1 DEF ClientOrder
    <2>2. Len(new.held) <= new.lag
      BY <1>4
    <2> QED
      BY <1>4, <1>5, <2>1, <2>2 DEF ClientOrder
  <1>7. \A v : Reaches(v, ui, dec, shown) => Reaches(v, ui, new, shown)
    BY <1>4, <1>5 DEF Reaches
  <1>8. /\ dec' \in DecoderState /\ ui' \in Seq(Nat) /\ ClientOrder(ui', dec', shown)
        /\ dec'.geom = m.geom
        /\ \A v : Reaches(v, ui, dec, shown) => Reaches(v, ui', dec', shown)
    BY <1>1, <1>2, <1>4, <1>6, <1>7
  <1>9. dec.geom = m.geom => dec' = dec
    BY <1>2
  <1> QED
    BY <1>1, <1>2, <1>3, <1>8, <1>9, ReadKeeps DEF m

LEMMA FailFrameKeeps ==
  ASSUME IInv, FailFrame
  PROVE  IInv'
  <1>1. PICK P \in Seq(Packet) : Fit(P, ses, capture) /\ ClientOrder(ui, dec, shown)
    BY DEF IInv, Sound
  <1>2. /\ dec \in DecoderState /\ ui \in Seq(Nat) /\ failed \in BOOLEAN
        /\ wire \in Seq(Packet) /\ shown \in Nat /\ ses.queue \in SUBSET Packet
    BY DEF IInv, TypeOK, SessionState
  <1> DEFINE m == Head(wire)
             d == [dec EXCEPT !.primed = FALSE, !.complete = None]
  <1>3. /\ wire # <<>> /\ m.kind = "VideoFrame" /\ wire' = Tail(wire)
        /\ UNCHANGED <<screen, serverVars, writing, shown, ui>>
        /\ dec' = d
        /\ (m.key \/ dec.primed) => failed' = TRUE
        /\ ~(m.key \/ dec.primed) => failed' = failed
    BY DEF FailFrame, FromServer, budget
  <1>4. IsVideo(m) /\ ~IsConfig(m)
    BY <1>3 DEF IsVideo, IsConfig
  <1>5. P # <<>> /\ m = P[1]
    BY <1>1, <1>2, <1>3, LineRead DEF Fit
  <1>6. failed'
    <2> SUFFICES ASSUME ~failed
                 PROVE  m.key \/ dec.primed
      BY <1>3
    <2>1. 1 \in 1..Len(P)
      BY <1>5, TailLine
    <2>2. P[1].key \/ Referenced(P, 1 - 1, P[1].geom, dec)
      BY <1>1, <1>4, <1>5, <2>1 DEF Fit, Referencing
    <2>3. ~\E j \in 1..(1 - 1) : TRUE
      OBVIOUS
    <2> QED
      BY <1>5, <2>2, <2>3 DEF Referenced
  <1>7. /\ d \in DecoderState /\ d.geom = dec.geom /\ d.held = dec.held
        /\ d.waiting = dec.waiting /\ d.complete = None /\ d.lag = dec.lag
        /\ d.tier = dec.tier
    BY <1>2 DEF DecoderState, Content
  <1> HIDE DEF d, m
  <1>8. ClientOrder(ui, d, shown)
    BY <1>1, <1>7 DEF ClientOrder
  <1>9. \A v : Reaches(v, ui, dec, shown) => Reaches(v, ui, d, shown)
    BY <1>7 DEF Reaches
  <1>10. /\ dec' \in DecoderState /\ ui' \in Seq(Nat) /\ ClientOrder(ui', dec', shown)
         /\ dec'.geom = dec.geom /\ failed' \in BOOLEAN
         /\ \A v : Reaches(v, ui, dec, shown) => Reaches(v, ui', dec', shown)
    BY <1>2, <1>3, <1>6, <1>7, <1>8, <1>9
  <1> QED
    BY <1>3, <1>4, <1>6, <1>10, ReadKeeps DEF m

LEMMA DrainKeeps ==
  ASSUME IInv, Drain
  PROVE  IInv'
  <1>1. /\ dec \in DecoderState /\ ui \in Seq(Nat) /\ shown \in Nat
        /\ ClientOrder(ui, dec, shown)
    BY DEF IInv, Sound, TypeOK
  <1>2. UNCHANGED <<screen, serverVars, writing, wire, failed, shown>>
    BY DEF Drain, linkVars, budget
  <1>3. \E b \in DecoderState, p \in Nat :
          /\ Deliver(b, p) /\ b.geom = dec.geom /\ (dec.primed => b.primed)
          /\ ClientOrder(ui, [b EXCEPT !.waiting = p], shown)
          /\ \A v \in Nat : Reaches(v, ui, dec, shown) =>
               Reaches(v, ui, [b EXCEPT !.waiting = p], shown)
    <2>1. CASE dec.waiting # None /\ Deliver(dec, dec.waiting)
      <3>1. dec.waiting \in Nat /\ dec = [dec EXCEPT !.waiting = dec.waiting]
        BY <1>1, <2>1 DEF DecoderState, Content
      <3> QED
        BY <1>1, <2>1, <3>1
    <2>2. CASE /\ dec.waiting = None /\ dec.held # <<>>
               /\ Deliver([dec EXCEPT !.held = Tail(@), !.lag = 0], Head(dec.held))
      <3> DEFINE b == [dec EXCEPT !.held = Tail(@), !.lag = 0]
                 h == dec.held
                 p == Head(h)
                 W == [b EXCEPT !.waiting = p]
      <3>1. /\ h \in Seq(Nat) /\ h # <<>> /\ dec.lag \in {0, 1}
            /\ Len(h) <= dec.lag
        BY <1>1, <2>2 DEF DecoderState, ClientOrder
      <3>2. /\ Len(h) \in Nat /\ Len(h) > 0 /\ Tail(h) \in Seq(Nat)
            /\ Len(Tail(h)) = Len(h) - 1 /\ p = h[1] /\ p \in Nat
        <4>1. Len(h) \in Nat /\ Len(h) > 0
          BY <3>1, LenProperties, EmptySeq
        <4> QED
          BY <3>1, <4>1, HeadTailProperties, ElementOfSeq
      <3> DEFINE n == Len(h)
                 T == Tail(h)
      <3>3. Len(T) = 0 /\ n = 1 /\ 1 \in 1..n /\ W.held = T
        <4>1. /\ n \in Nat /\ n > 0 /\ n <= dec.lag /\ dec.lag \in {0, 1}
              /\ Len(T) = n - 1
          BY <3>1, <3>2
        <4>2. W.held = T
          BY <1>1 DEF DecoderState
        <4> HIDE DEF n, T, W, h
        <4> QED
          BY <4>1, <4>2
      <3>4. /\ b \in DecoderState /\ b.geom = dec.geom /\ (dec.primed => b.primed)
        BY <1>1, <3>2 DEF DecoderState
      <3>5. /\ W.lag = 0 /\ W.waiting = p
            /\ W.complete = dec.complete /\ W.tier = dec.tier
        BY <1>1 DEF DecoderState
      <3>6. Deliver(b, p)
        BY <2>2
      <3> HIDE DEF b, W, h, p, n, T
      <3>7. ~\E j \in 1..Len(W.held) : TRUE
        BY <3>3, <3>5
      <3>8. \A v : Reaches(v, ui, dec, shown) => Reaches(v, ui, W, shown)
        BY <3>2, <3>3, <3>5, <3>7 DEF Reaches, h, n
      <3>9. shown <= p /\ \A i \in 1..Len(ui) : ui[i] <= p
        BY <1>1, <3>2, <3>3 DEF ClientOrder, h, n
      <3>10. Len(W.held) <= W.lag
        BY <3>3, <3>5
      <3>11. ClientOrder(ui, W, shown)
        <4>1. \A i, j \in 1..Len(ui) : i <= j => shown <= ui[i] /\ ui[i] <= ui[j]
          BY <1>1 DEF ClientOrder
        <4>2. W.complete # None => Reaches(W.complete, ui, W, shown)
          BY <1>1, <3>5, <3>8 DEF ClientOrder
        <4> QED
          BY <3>5, <3>7, <3>9, <3>10, <4>1, <4>2 DEF ClientOrder
      <3> QED
        BY <3>2, <3>4, <3>6, <3>8, <3>11 DEF W
    <2> QED
      BY <2>1, <2>2 DEF Drain
  <1>4. PICK b \in DecoderState, p \in Nat :
          /\ Deliver(b, p) /\ b.geom = dec.geom /\ (dec.primed => b.primed)
          /\ ClientOrder(ui, [b EXCEPT !.waiting = p], shown)
          /\ \A v \in Nat : Reaches(v, ui, dec, shown) =>
               Reaches(v, ui, [b EXCEPT !.waiting = p], shown)
    BY <1>3
  <1>5. /\ dec' \in DecoderState /\ ui' \in Seq(Nat)
        /\ ClientOrder(ui', dec', shown)
        /\ dec'.geom = dec.geom /\ (dec.primed => dec'.primed)
        /\ \A v \in Nat : Reaches(v, ui, dec, shown) => Reaches(v, ui', dec', shown)
    BY <1>1, <1>4, Delivered
  <1> QED
    BY <1>1, <1>2, <1>5, ClientKeeps

LEMMA ZoomKeeps ==
  ASSUME IInv, Zoom
  PROVE  IInv'
  <1>1. /\ dec \in DecoderState /\ ui \in Seq(Nat) /\ shown \in Nat
        /\ ClientOrder(ui, dec, shown)
    BY DEF IInv, Sound, TypeOK
  <1>2. UNCHANGED <<screen, serverVars, writing, wire, failed, shown>>
    BY DEF Zoom, linkVars
  <1>3. CASE UNCHANGED <<dec, ui>>
    <2>1. dec' = dec /\ ui' = ui /\ shown' = shown
      BY <1>2, <1>3
    <2> QED
      BY <1>1, <1>2, <2>1, ClientKeeps
  <1>4. CASE dec.tier = "gpu" /\ dec.complete # None /\ Deliver(dec, dec.complete)
    <2> DEFINE p == dec.complete
               W == [dec EXCEPT !.waiting = p]
    <2>1. /\ p \in Nat /\ Deliver(dec, p)
          /\ W.waiting = p /\ W.held = dec.held /\ W.complete = p /\ W.lag = dec.lag
          /\ W.tier = dec.tier
      BY <1>1, <1>4 DEF DecoderState, Content
    <2>2. Reaches(p, ui, dec, shown) /\ Len(dec.held) <= dec.lag /\ dec.lag = 0
      BY <1>1, <1>4 DEF ClientOrder
    <2>3. ~\E j \in 1..Len(dec.held) : TRUE
      <3>1. Len(dec.held) \in Nat
        BY <1>1, LenProperties DEF DecoderState
      <3> QED
        BY <2>2, <3>1
    <2> HIDE DEF W, p
    <2>4. p <= p
      BY <2>1
    <2>5. \A v : Reaches(v, ui, dec, shown) => Reaches(v, ui, W, shown)
      BY <1>4, <2>1 DEF Reaches, p
    <2>6. ClientOrder(ui, W, shown)
      <3>1. \A i, j \in 1..Len(ui) : i <= j => shown <= ui[i] /\ ui[i] <= ui[j]
        BY <1>1 DEF ClientOrder
      <3>2. shown <= p /\ \A i \in 1..Len(ui) : ui[i] <= p
        BY <2>2 DEF Reaches
      <3>3. Reaches(W.complete, ui, W, shown)
        BY <2>1, <2>2, <2>5
      <3>4. Len(W.held) <= W.lag /\ (W.tier = "gpu" => W.lag = 0)
        BY <1>1, <2>1 DEF ClientOrder
      <3> QED
        BY <2>1, <2>3, <3>1, <3>2, <3>3, <3>4 DEF ClientOrder
    <2>7. /\ dec' \in DecoderState /\ ui' \in Seq(Nat)
          /\ ClientOrder(ui', dec', shown)
          /\ dec'.geom = dec.geom /\ (dec.primed => dec'.primed)
          /\ \A v \in Nat : Reaches(v, ui, W, shown) => Reaches(v, ui', dec', shown)
      BY <1>1, <2>1, <2>6, Delivered DEF W
    <2> QED
      BY <1>1, <1>2, <2>5, <2>7, ClientKeeps
  <1> QED
    BY <1>3, <1>4 DEF Zoom

LEMMA PaintKeeps ==
  ASSUME IInv, Paint
  PROVE  IInv' /\ shown' \in Nat /\ shown <= shown' /\ shown' <= screen
  <1>1. PICK P \in Seq(Packet) : Fit(P, ses, capture) /\ ClientOrder(ui, dec, shown)
    BY DEF IInv, Sound
  <1>2. dec \in DecoderState /\ ui \in Seq(Nat) /\ shown \in Nat
    BY DEF IInv, TypeOK
  <1>3. /\ UNCHANGED <<screen, serverVars, writing, wire, failed, dec>>
        /\ ui # <<>> /\ shown' = ui[Len(ui)] /\ ui' = <<>>
    BY DEF Paint, linkVars, budget
  <1> DEFINE n == Len(ui)
             u == ui[n]
             e == <<>>
  <1>4. n \in 1..n /\ u \in Nat /\ n \in Nat
    <2>1. n \in Nat /\ n > 0
      BY <1>2, <1>3, LenProperties, EmptySeq
    <2>2. n \in 1..n
      BY <2>1
    <2> QED
      BY <1>2, <2>1, <2>2, ElementOfSeq
  <1>5. e \in Seq(Nat) /\ ~\E i \in 1..Len(e) : TRUE
    BY EmptySeq
  <1>6. shown' = u /\ ui' = e
    BY <1>3
  <1> HIDE DEF n, u, e
  <1>7. \A v : Reaches(v, ui, dec, shown) => u <= v /\ Reaches(v, e, dec, u)
    BY <1>4, <1>5 DEF Reaches, n, u
  <1>8. ClientOrder(e, dec, u)
    BY <1>1, <1>4, <1>5, <1>7 DEF ClientOrder, n, u
  <1>9. shown <= u
    <2>1. n <= n
      BY <1>4
    <2> QED
      BY <1>1, <1>4, <2>1 DEF ClientOrder, n, u
  <1>10. u <= screen
    BY <1>1, <1>7 DEF Fit, ClientBehind
  <1>11. IInv'
    <2>1. /\ dec' \in DecoderState /\ ui' \in Seq(Nat) /\ shown' \in Nat
          /\ dec'.geom = dec.geom /\ (dec.primed => dec'.primed)
          /\ ClientOrder(ui', dec', shown')
          /\ \A v \in Nat : Reaches(v, ui, dec, shown) => Reaches(v, ui', dec', shown')
      BY <1>2, <1>3, <1>4, <1>5, <1>6, <1>7, <1>8
    <2> QED
      BY <1>3, <2>1, ClientKeeps
  <1> QED
    BY <1>4, <1>6, <1>9, <1>10, <1>11

\* What the decoder holds, of the old pictures and the new one, v.
LEMMA Decoded ==
  ASSUME NEW u \in Seq(Nat), NEW d \in DecoderState, NEW sh \in Nat, ClientOrder(u, d, sh),
         NEW v \in Nat, Reaches(v, u, d, sh), NEW W, W.complete = v, W.tier = d.tier,
         W.lag = d.lag,
         \/ /\ d.held = <<>> /\ d.lag = 1 /\ W.held = <<v>> /\ W.waiting = d.waiting
         \/ /\ d.held = <<>> /\ d.lag = 0 /\ W.held = <<>> /\ W.waiting = v
         \/ /\ Len(d.held) = 1 /\ d.lag = 1 /\ W.held = <<v>> /\ W.waiting = d.held[1]
  PROVE  /\ ClientOrder(u, W, sh)
         /\ \A x \in Nat : Reaches(x, u, d, sh) /\ v <= x => Reaches(x, u, W, sh)
  <1>1. v # None /\ v <= v /\ 1 \in 1..1
    BY VideoAssumption
  <1>2. /\ sh <= v /\ \A i \in 1..Len(u) : u[i] <= v
        /\ d.waiting # None => d.waiting <= v
        /\ \A i \in 1..Len(d.held) : d.held[i] <= v
    BY DEF Reaches
  <1>3. \A i, j \in 1..Len(u) : i <= j => sh <= u[i] /\ u[i] <= u[j]
    BY DEF ClientOrder
  <1>4. \/ /\ \A j \in 1..Len(W.held) : W.held[j] = v
           /\ Len(W.held) <= d.lag
           /\ d.lag = 1 /\ W.waiting = d.waiting
        \/ /\ Len(W.held) = 0 /\ d.lag = 0 /\ W.waiting = v
        \/ /\ \A j \in 1..Len(W.held) : W.held[j] = v
           /\ Len(W.held) <= d.lag /\ d.lag = 1
           /\ W.waiting = d.held[1] /\ 1 \in 1..Len(d.held)
    <2> DEFINE one == <<v>>
               none == <<>>
    <2>1. Len(one) = 1 /\ one[1] = v /\ Len(none) = 0
      OBVIOUS
    <2>2. \/ /\ d.lag = 1 /\ W.held = one /\ W.waiting = d.waiting
          \/ /\ d.lag = 0 /\ W.held = none /\ W.waiting = v
          \/ /\ Len(d.held) = 1 /\ d.lag = 1 /\ W.held = one /\ W.waiting = d.held[1]
      OBVIOUS
    <2> HIDE DEF one, none
    <2>3. \A j \in 1..1 : j = 1
      OBVIOUS
    <2>4. 1 <= 1
      OBVIOUS
    <2> QED
      BY <1>1, <2>1, <2>2, <2>3, <2>4
  <1>5. \A j \in 1..Len(W.held) : W.held[j] = v
    <2>1. Len(W.held) = 0 => ~\E j \in 1..Len(W.held) : TRUE
      OBVIOUS
    <2> QED
      BY <1>4, <2>1
  <1>6. Len(W.held) <= W.lag /\ (W.tier = "gpu" => W.lag = 0)
    BY <1>4 DEF ClientOrder
  <1>7. W.waiting # None => /\ sh <= W.waiting /\ W.waiting <= v
                            /\ \A i \in 1..Len(u) : u[i] <= W.waiting
    <2>1. CASE W.waiting = d.waiting
      BY <1>2, <2>1 DEF ClientOrder
    <2>2. CASE W.waiting = v
      BY <1>1, <1>2, <2>2
    <2>3. CASE W.waiting = d.held[1] /\ 1 \in 1..Len(d.held)
      BY <1>2, <2>3 DEF ClientOrder
    <2> QED
      BY <1>4, <2>1, <2>2, <2>3
  <1>8. \A x \in Nat : Reaches(x, u, d, sh) /\ v <= x => Reaches(x, u, W, sh)
    <2> SUFFICES ASSUME NEW x \in Nat, Reaches(x, u, d, sh), v <= x
                 PROVE  Reaches(x, u, W, sh)
      OBVIOUS
    <2>1. sh <= x /\ \A i \in 1..Len(u) : u[i] <= x
      BY DEF Reaches
    <2>2. W.waiting # None => W.waiting <= x
      <3>1. W.waiting = d.waiting \/ W.waiting = v
              \/ (W.waiting = d.held[1] /\ 1 \in 1..Len(d.held))
        BY <1>4
      <3> QED
        BY <3>1 DEF Reaches
    <2> QED
      BY <1>5, <2>1, <2>2 DEF Reaches
  <1>9. Reaches(v, u, W, sh)
    BY <1>1, <1>8
  <1>10. ClientOrder(u, W, sh)
    BY <1>2, <1>3, <1>5, <1>6, <1>7, <1>9 DEF ClientOrder
  <1> QED
    BY <1>8, <1>10

\* The decoder that holds a picture gives it for the next.
LEMMA HeldAppended ==
  ASSUME NEW h \in Seq(Nat), NEW v \in Nat
  PROVE  Len(h) = 1 => /\ Len(Append(h, v)) = 2 /\ Head(Append(h, v)) = h[1]
                       /\ Tail(Append(h, v)) = <<v>>
  <1> DEFINE all == Append(h, v)
             T == Tail(all)
             one == <<v>>
  <1>1. /\ all \in Seq(Nat) /\ Len(all) = Len(h) + 1 /\ all[Len(h) + 1] = v
        /\ \A i \in 1..Len(h) : all[i] = h[i]
    BY AppendProperties
  <1>2. all # <<>>
    BY AppendProperties
  <1> HIDE DEF all
  <1> SUFFICES ASSUME Len(h) = 1
               PROVE  Len(all) = 2 /\ Head(all) = h[1] /\ T = one
    BY DEF all
  <1>3. all \in Seq(Nat) /\ Len(all) = 2 /\ all[1] = h[1] /\ all[2] = v
    BY <1>1
  <1>4. /\ Head(all) = all[1] /\ T \in Seq(Nat) /\ Len(T) = 1
        /\ \A i \in 1..1 : T[i] = all[i + 1]
    BY <1>3, <1>2, HeadTailProperties
  <1>5. T[1] = v
    <2> HIDE DEF T
    <2>1. 1 \in 1..1 /\ 1 + 1 = 2
      OBVIOUS
    <2> QED
      BY <1>3, <1>4, <2>1
  <1>6. one \in Seq(Nat) /\ Len(one) = 1 /\ one[1] = v
    OBVIOUS
  <1> HIDE DEF all, T, one
  <1>7. T = one
    BY <1>4, <1>5, <1>6, SeqEqual
  <1> QED
    BY <1>3, <1>4, <1>7

LEMMA DecodeFrameKeeps ==
  ASSUME IInv, DecodeFrame
  PROVE  IInv'
  <1>1. PICK P \in Seq(Packet) : Fit(P, ses, capture) /\ ClientOrder(ui, dec, shown)
    BY DEF IInv, Sound
  <1>2. /\ dec \in DecoderState /\ ui \in Seq(Nat) /\ failed \in BOOLEAN
        /\ wire \in Seq(Packet) /\ shown \in Nat /\ ses.queue \in SUBSET Packet
    BY DEF IInv, TypeOK, SessionState
  <1> DEFINE m == Head(wire)
             v == m.version
             held == dec.held
             all == Append(held, v)
             d == [dec EXCEPT !.primed = TRUE, !.complete = v]
  <1>3. /\ wire # <<>> /\ m.kind = "VideoFrame" /\ wire' = Tail(wire)
        /\ UNCHANGED <<screen, serverVars, writing, shown, failed>>
        /\ IF Len(all) > dec.lag
             THEN Deliver([d EXCEPT !.held = Tail(all)], Head(all))
             ELSE dec' = [d EXCEPT !.held = all] /\ ui' = ui
    BY DEF DecodeFrame, FromServer, budget
  <1>4. IsVideo(m) /\ ~IsConfig(m)
    BY <1>3 DEF IsVideo, IsConfig
  <1>5. P # <<>> /\ m = P[1] /\ 1 \in 1..Len(P) /\ m \in Packet
    <2>1. P # <<>> /\ m = P[1]
      BY <1>1, <1>2, <1>3, LineRead DEF Fit
    <2> QED
      BY <2>1, TailLine
  <1>6. v \in Nat /\ Reaches(v, ui, dec, shown)
    BY <1>1, <1>4, <1>5, Packets DEF Fit, ClientBehind
  <1>7. /\ d \in DecoderState /\ d.geom = dec.geom /\ d.held = held
        /\ d.waiting = dec.waiting /\ d.complete = v /\ d.lag = dec.lag
        /\ d.tier = dec.tier /\ d.primed
    BY <1>2, <1>6 DEF DecoderState, Content
  <1>8. /\ held \in Seq(Nat) /\ dec.lag \in {0, 1}
        /\ Len(held) \in Nat /\ Len(held) <= dec.lag
        /\ (Len(held) = 0 => held = <<>>) /\ (Len(held) = 1 => held = <<held[1]>>)
    BY <1>1, <1>2, LenProperties DEF DecoderState, ClientOrder
  <1>9. Len(held) = 1 => held[1] \in Nat
    BY <1>8, ElementOfSeq
  <1> HIDE DEF m, v, held, all, d
  <1> DEFINE one == <<v>>
  <1>10. one \in Seq(Nat)
    BY <1>6
  <1>11. \/ /\ held = <<>> /\ dec.lag = 1 /\ all = <<v>>
            /\ dec' = [d EXCEPT !.held = <<v>>] /\ ui' = ui
         \/ /\ held = <<>> /\ dec.lag = 0
            /\ Deliver([d EXCEPT !.held = <<>>], v)
         \/ /\ Len(held) = 1 /\ dec.lag = 1
            /\ Deliver([d EXCEPT !.held = <<v>>], held[1])
    <2>1. CASE held = <<>>
      <3>1. all = <<v>> /\ Len(all) = 1 /\ Tail(all) = <<>> /\ Head(all) = v
        BY <2>1 DEF all
      <3>2. Len(all) > dec.lag <=> dec.lag = 0
        BY <1>8, <3>1
      <3> QED
        BY <1>3, <1>8, <2>1, <3>1, <3>2
    <2>2. CASE Len(held) = 1
      <3> DEFINE h == held[1]
      <3>1. Len(all) = 2 /\ Tail(all) = <<v>> /\ Head(all) = h
        BY <1>6, <1>8, <2>2, HeldAppended DEF all
      <3>2. Len(all) > dec.lag /\ dec.lag = 1
        BY <1>8, <2>2, <3>1
      <3> QED
        BY <1>3, <2>2, <3>1, <3>2
    <2>3. Len(held) = 0 \/ Len(held) = 1
      <3> DEFINE n == Len(held)
      <3>1. n \in Nat /\ n <= dec.lag /\ dec.lag \in {0, 1}
        BY <1>8
      <3> HIDE DEF n
      <3>2. n = 0 \/ n = 1
        BY <3>1
      <3> QED
        BY <3>2 DEF n
    <2> QED
      BY <1>8, <2>1, <2>2, <2>3
  <1>12. CASE /\ held = <<>> /\ dec.lag = 1
              /\ dec' = [d EXCEPT !.held = <<v>>] /\ ui' = ui
    <2> DEFINE W == [d EXCEPT !.held = <<v>>]
    <2>1. /\ W \in DecoderState /\ W.held = <<v>> /\ W.waiting = dec.waiting
          /\ W.complete = v /\ W.lag = dec.lag /\ W.tier = dec.tier
          /\ W.geom = dec.geom /\ W.primed
      BY <1>7, <1>10 DEF DecoderState
    <2>2. dec' = W
      BY <1>12
    <2> HIDE DEF W
    <2>3. /\ ClientOrder(ui, W, shown)
          /\ \A x \in Nat : Reaches(x, ui, dec, shown) /\ v <= x => Reaches(x, ui, W, shown)
      BY <1>1, <1>2, <1>6, <1>12, <2>1, Decoded DEF held
    <2>4. /\ dec' \in DecoderState /\ ui' \in Seq(Nat) /\ ClientOrder(ui', dec', shown)
          /\ dec'.geom = dec.geom /\ dec'.primed
          /\ \A x \in Nat : Reaches(x, ui, dec, shown) /\ v <= x => Reaches(x, ui', dec', shown)
      BY <1>2, <1>12, <2>1, <2>2, <2>3
    <2> QED
      BY <1>2, <1>3, <1>4, <2>4, ReadKeeps DEF m, v
  <1>13. ASSUME NEW p \in Nat, NEW b, Deliver(b, p), b \in DecoderState,
                b.complete = v, b.lag = dec.lag, b.tier = dec.tier,
                b.geom = dec.geom, b.primed,
                \/ held = <<>> /\ dec.lag = 0 /\ b.held = <<>> /\ p = v
                \/ Len(held) = 1 /\ dec.lag = 1 /\ b.held = <<v>> /\ p = held[1]
         PROVE  IInv'
    <2> DEFINE W == [b EXCEPT !.waiting = p]
    <2>1. /\ W.held = b.held /\ W.waiting = p
          /\ W.complete = v /\ W.lag = dec.lag /\ W.tier = dec.tier
      BY <1>13 DEF DecoderState
    <2> HIDE DEF W
    <2>2. /\ ClientOrder(ui, W, shown)
          /\ \A x \in Nat : Reaches(x, ui, dec, shown) /\ v <= x => Reaches(x, ui, W, shown)
      BY <1>1, <1>2, <1>6, <1>13, <2>1, Decoded DEF held
    <2>3. /\ dec' \in DecoderState /\ ui' \in Seq(Nat) /\ ClientOrder(ui', dec', shown)
          /\ dec'.geom = b.geom /\ (b.primed => dec'.primed)
          /\ \A x \in Nat : Reaches(x, ui, W, shown) => Reaches(x, ui', dec', shown)
      BY <1>2, <1>13, <2>2, Delivered DEF W
    <2>4. /\ dec'.geom = dec.geom /\ dec'.primed
          /\ \A x \in Nat : Reaches(x, ui, dec, shown) /\ v <= x => Reaches(x, ui', dec', shown)
      BY <1>13, <2>2, <2>3
    <2> QED
      BY <1>2, <1>3, <1>4, <2>3, <2>4, ReadKeeps DEF m, v
  <1>14. CASE held = <<>> /\ dec.lag = 0 /\ Deliver([d EXCEPT !.held = <<>>], v)
    <2> DEFINE b == [d EXCEPT !.held = <<>>]
    <2>1. /\ b \in DecoderState /\ b.held = <<>> /\ b.complete = v /\ b.lag = dec.lag
          /\ b.tier = dec.tier /\ b.geom = dec.geom /\ b.primed
      BY <1>7, EmptySeq DEF DecoderState
    <2>2. Deliver(b, v)
      BY <1>14
    <2> HIDE DEF b
    <2> QED
      BY <1>6, <1>13, <1>14, <2>1, <2>2
  <1>15. CASE Len(held) = 1 /\ dec.lag = 1 /\ Deliver([d EXCEPT !.held = <<v>>], held[1])
    <2> DEFINE b == [d EXCEPT !.held = <<v>>]
    <2>1. /\ b \in DecoderState /\ b.held = <<v>> /\ b.complete = v /\ b.lag = dec.lag
          /\ b.tier = dec.tier /\ b.geom = dec.geom /\ b.primed
      BY <1>7, <1>10 DEF DecoderState
    <2>2. Deliver(b, held[1])
      BY <1>15
    <2> HIDE DEF b
    <2> QED
      BY <1>9, <1>13, <1>15, <2>1, <2>2
  <1> QED
    BY <1>11, <1>12, <1>14, <1>15

-----------------------------------------------------------------------------
(* The theorems.                                                             *)

LEMMA InitSound == Init => IInv
  <1> SUFFICES ASSUME Init
               PROVE  IInv
    OBVIOUS
  <1> DEFINE P == <<>>
  <1>1. PICK g \in Geoms :
          /\ ses = [pending |-> None, last |-> None, refines |-> MaxRefines,
                    key |-> TRUE, geom |-> g, fresh |-> TRUE, inflight |-> 0,
                    sent |-> FALSE, recaptured |-> FALSE, queue |-> {}]
          /\ \E tier \in Tiers : dec = NewDecoder(tier, g)
    BY DEF Init
  <1>2. PICK tier \in Tiers : dec = NewDecoder(tier, g)
    BY <1>1
  <1>3. /\ screen = 1 /\ shown = 0 /\ wire = P /\ writing = {} /\ ui = P /\ failed = FALSE
        /\ capture = [asked |-> TRUE, full |-> FALSE, seen |-> 1, frames |-> P]
    BY DEF Init
  <1>4. /\ Len(P) = 0 /\ P \in Seq(Packet) /\ P \in Seq(Nat)
    BY EmptySeq
  <1>5. /\ ses \in SessionState /\ ses.pending = None /\ ses.last = None /\ ses.key
        /\ ses.geom = g /\ ses.queue = {}
    BY <1>1, VideoAssumption DEF SessionState, Content
  <1>6. /\ dec \in DecoderState /\ dec.held = P /\ dec.waiting = None
        /\ dec.complete = None /\ dec.geom = g /\ dec.lag \in {0, 1}
        /\ (dec.tier = "gpu" => dec.lag = 0)
    BY <1>2, <1>4 DEF NewDecoder, DecoderState, Content
  <1>7. capture \in CaptureState /\ capture.seen = 1 /\ capture.frames = P
    BY <1>3, <1>4 DEF CaptureState
  <1> HIDE DEF P
  <1>8. ~\E i \in 1..Len(P) : TRUE
    BY <1>4
  <1>9. TypeOK
    BY <1>3, <1>4, <1>5, <1>6, <1>7 DEF TypeOK
  <1>10. Line(P, wire, writing, ses.queue)
    <2>1. Begun(wire, writing) <= Len(P)
      BY <1>3, <1>4 DEF Begun
    <2> QED
      BY <1>3, <1>5, <1>8, <2>1 DEF Line
  <1>11. Announcing(P, ses, dec)
    BY <1>5, <1>6, <1>8 DEF Announcing, Announced
  <1>12. Referencing(P, ses, dec)
    BY <1>5, <1>8 DEF Referencing
  <1>13. ServerOrder(ses, capture, screen)
    <2>1. capture.seen <= screen
      BY <1>3, <1>7
    <2> QED
      BY <1>5, <1>7, <1>8, <2>1 DEF ServerOrder
  <1>14. LineOrder(P, ses, capture, screen)
    BY <1>8 DEF LineOrder
  <1>15. Reaches(1, ui, dec, shown)
    <2>1. shown <= 1
      BY <1>3
    <2> QED
      BY <1>3, <1>6, <1>8, <2>1 DEF Reaches
  <1>16. ClientBehind(P, ses, capture, screen, ui, dec, shown)
    BY <1>3, <1>5, <1>7, <1>8, <1>15 DEF ClientBehind
  <1>17. ClientOrder(ui, dec, shown)
    <2>1. Len(dec.held) <= dec.lag
      BY <1>4, <1>6
    <2> QED
      BY <1>3, <1>6, <1>8, <2>1 DEF ClientOrder
  <1> QED
    BY <1>4, <1>9, <1>10, <1>11, <1>12, <1>13, <1>14, <1>16, <1>17 DEF IInv, Sound, Fit

LEMMA StepSound == IInv /\ [Next]_vars => IInv'
  <1> SUFFICES ASSUME IInv, [Next]_vars
               PROVE  IInv'
    OBVIOUS
  <1>1. CASE Next
    BY <1>1, ChangeKeeps, CaptureKeeps, SessionKeeps, PopKeeps, WriteDoneKeeps,
       ReceiveConfigKeeps, DecodeFrameKeeps, FailFrameKeeps, DrainKeeps, ZoomKeeps,
       PaintKeeps DEF Next, Client
  <1>2. CASE UNCHANGED vars
    <2>1. UNCHANGED <<screen, capture, ses, writing, wire, dec, ui, shown, failed>>
      BY <1>2 DEF vars, serverVars, linkVars, clientVars, budget
    <2>2. TypeOK'
      BY <2>1 DEF IInv, TypeOK
    <2>3. PICK P \in Seq(Packet) : Sound(P)
      BY DEF IInv
    <2>4. Sound(P)'
      BY <2>1, <2>3 DEF Sound, Fit
    <2> QED
      BY <2>2, <2>4 DEF IInv
  <1> QED
    BY <1>1, <1>2

\* Of a packet on the wire, of the session and of the decoder the shape only:
\* the counter of the unacked frames is an integer.
THEOREM TypeCorrect == Spec => []TypeOK
  <1>1. IInv => TypeOK
    BY DEF IInv
  <1> QED
    BY <1>1, InitSound, StepSound, PTL DEF Spec

\* A frame is never read by a decoder without its reference picture, unless a
\* decode has failed by itself: whatever the ladder makes of the stream,
\* whatever the queue coalesces and whichever encoder takes over, the first
\* frame a new decoder sees is a keyframe (session.rs, net.rs).
THEOREM FramesFindTheirReference == Spec => []ReferenceAvailable
  <1>1. IInv => ReferenceAvailable
    <2> SUFFICES ASSUME IInv, ~failed, wire # <<>>, IsVideo(Head(wire))
                 PROVE  Head(wire).key \/ dec.primed
      BY DEF ReferenceAvailable
    <2>1. PICK P \in Seq(Packet) : Fit(P, ses, capture)
      BY DEF IInv, Sound
    <2>2. wire \in Seq(Packet) /\ ses.queue \in SUBSET Packet
      BY DEF IInv, TypeOK, SessionState
    <2>3. P # <<>> /\ Head(wire) = P[1]
      BY <2>1, <2>2, LineRead DEF Fit
    <2>4. 1 \in 1..Len(P)
      BY <2>3, TailLine
    <2>5. P[1].key \/ Referenced(P, 1 - 1, P[1].geom, dec)
      BY <2>1, <2>3, <2>4 DEF Fit, Referencing
    <2>6. ~\E j \in 1..(1 - 1) : TRUE
      OBVIOUS
    <2> QED
      BY <2>3, <2>5, <2>6 DEF Referenced
  <1> QED
    BY <1>1, InitSound, StepSound, PTL DEF Spec

\* The picture on the client's screen only moves forward through the contents
\* the remote screen has had: every step of the session is a step of
\* ScreenMirror or leaves both alone, which is MirrorSpec without its fairness.
THEOREM MirrorsTheScreen == Spec => Mirror!Init /\ [][Mirror!Next]_<<screen, shown>>
  <1>1. Init => Mirror!Init
    BY DEF Init, Mirror!Init
  <1>2. IInv /\ [Next]_vars => [Mirror!Next]_<<screen, shown>>
    <2> SUFFICES ASSUME IInv, [Next]_vars
                 PROVE  [Mirror!Next]_<<screen, shown>>
      OBVIOUS
    <2>1. CASE Change
      BY <2>1 DEF Change, clientVars, Mirror!Next, Mirror!Change
    <2>2. CASE Paint
      <3>1. /\ screen' = screen /\ shown' \in Nat /\ shown <= shown' /\ shown' <= screen
        BY <2>2, PaintKeeps DEF Paint
      <3>2. shown \in Nat /\ screen \in Nat
        BY DEF IInv, TypeOK
      <3>3. shown' # shown => shown' \in (shown + 1)..screen
        BY <3>1, <3>2
      <3> QED
        BY <3>1, <3>3 DEF Mirror!Next, Mirror!Show
    <2>3. CASE Session
      BY <2>3 DEF Session, OnFrame, OnAck, OnRequestKeyframe, FromClient, OnReport,
                  OnTimer, Rescue, clientVars
    <2>4. CASE Capture \/ Pop \/ WriteDone
      BY <2>4 DEF Capture, Pop, WriteDone, clientVars
    <2>5. CASE ReceiveConfig \/ DecodeFrame \/ FailFrame \/ Drain \/ Zoom
      BY <2>5 DEF ReceiveConfig, DecodeFrame, FailFrame, FromServer, Drain, Zoom
    <2>6. CASE UNCHANGED vars
      BY <2>6 DEF vars, clientVars
    <2> QED
      BY <2>1, <2>2, <2>3, <2>4, <2>5, <2>6 DEF Next, Client
  <1> QED
    BY <1>1, <1>2, InitSound, StepSound, PTL DEF Spec
=============================================================================

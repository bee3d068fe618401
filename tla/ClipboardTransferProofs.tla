----------------------- MODULE ClipboardTransferProofs -----------------------
(***************************************************************************)
(* The safety of ClipboardTransfer, for any window, cap, channel and       *)
(* numbers of fetches.  Every id belongs to the side that numbered it, so  *)
(* the engine falls into transfers: a fetch, the peer's serve of the same  *)
(* id and the messages that carry the id.  Sound says what holds of one    *)
(* transfer; it is stated of its parts, not of the variables, so that a    *)
(* step is followed in the transfer it is about, and the messages of the   *)
(* others in the same channels leave it alone (OfAppend, OfTail).          *)
(***************************************************************************)
EXTENDS ClipboardTransfer, Integers, SequenceTheorems, TLAPS

FetchPcs == {"none", "request", "recv", "write", "ack", "finish"} \cup Results
ServePcs == {"none", "opening", "read", "credit", "send", "abort",
             "done", "failed", "refused", "aborted"}

DataMsg == [type : {"data"}, id : Ids, offset : Nat, final : BOOLEAN]
Message == [type : {"request", "abort"}, id : Ids]
             \cup [type : {"ack"}, id : Ids, received : Nat] \cup DataMsg
Entry == DataMsg \cup [type : {"fail"}, why : {"aborted", "protocol"}]

FetchState == [pc : FetchPcs, reg : BOOLEAN, received : Nat, last : BOOLEAN,
               queue : Seq(Entry), now : Nat, final : BOOLEAN, sink : Seq(Nat)]
ServeState == [pc : ServePcs, reg : BOOLEAN, offset : Nat, acked : Nat,
               permit : BOOLEAN, final : BOOLEAN, eof : BOOLEAN]

TypeOK ==
  /\ nextId \in [Sides -> Nat]
  /\ fetch \in [Sides -> [Ids -> FetchState]]
  /\ serve \in [Sides -> [Ids -> ServeState]]
  /\ later \in [Sides -> SUBSET Ids]
  /\ out \in [Sides -> Seq(Message)]

-----------------------------------------------------------------------------
(* One transfer: its fetch f, its serve v, and the messages with its id, M  *)
(* from the fetching side and N from the serving side: those on their way   *)
(* and the Abort a task of that side is still to send.                      *)

Of(q, i) == {m \in Range(q) : m.id = i}
Pending(s, i) == {m \in {Msg("abort", i)} : i \in later[s]}
InFlight(s, i) == Of(out[s], i) \cup Pending(s, i)
Has(M, type) == \E m \in M : m.type = type

Awaits == {"request", "recv", "write", "ack"}
\* Chunks that have left the fetch's channel.
Taken(f) == Len(f.sink) + IF f.pc = "write" THEN 1 ELSE 0

\* What has entered it: the chunks, the final one, a notice of failure.
Entered(f) ==
  f.received + (IF f.last THEN 1 ELSE 0) + (IF f.reg THEN 0 ELSE 1)

\* The fetch counts what it got: chunks in the sink, in hand and in its
\* channel are 0, 1, 2 and so on, the final one after all others, a notice of
\* failure behind everything.
Fetching(f) ==
  /\ f.received <= Cap /\ Len(f.sink) <= f.received
  /\ \A n \in 1..Len(f.sink) : f.sink[n] = n - 1
  /\ f.pc \in Awaits =>
       /\ Len(f.queue) + Taken(f) = Entered(f)
       /\ ~f.reg => /\ f.queue # <<>> /\ f.queue[Len(f.queue)].type = "fail"
                    /\ ~f.last
  /\ \A k \in 1..Len(f.queue) :
       LET e == f.queue[k] IN
       IF e.type = "fail" THEN ~f.reg /\ k = Len(f.queue)
       ELSE /\ e.offset = Taken(f) + k - 1
            /\ IF e.final THEN f.last /\ e.offset = f.received
                          ELSE e.offset < f.received
  /\ f.pc = "write" => /\ f.now = Len(f.sink)
                       /\ IF f.final THEN f.last /\ f.now = f.received
                                     ELSE f.now < f.received
  /\ f.pc = "finish" => f.reg /\ f.queue = <<>>
  /\ f.pc \in {"finish", "ok"} => f.last /\ Len(f.sink) = f.received
  /\ f.reg => f.pc \in Awaits \cup {"finish"}
  /\ f.pc \in Results => f.queue = <<>>
  /\ f.pc # "gone"

\* The serve is never more than a window ahead of its acks, and waits for
\* credit only without any.
Serving(v) ==
  /\ v.offset <= v.acked + Window
  /\ v.pc \in {"read", "send"} => v.offset < v.acked + Window
  /\ v.pc = "credit" /\ ~v.permit => ~MaySend(v)
  /\ v.reg <=> v.pc \in {"read", "credit", "send"}
  /\ v.pc \in {"none", "opening", "refused"} => v.offset = 0 /\ v.acked = 0
  /\ v.pc = "done" => v.eof
  /\ v.final => v.eof
  /\ v.pc \in {"read", "credit"} => ~v.final

\* What each end knows of the other.
Matched(f, v) ==
  /\ v.acked <= Len(f.sink) /\ f.received <= v.offset
  /\ f.last => v.pc = "done" /\ f.received = v.offset
  /\ f.pc = "none" => f = NoFetch /\ v = NoServe
  /\ f.pc = "request" => v.pc = "none"

\* Requests and acks on their way to the serve.
Forward(f, v, M) ==
  /\ \A m \in M : /\ m.type # "data" /\ f.pc # "none"
                  /\ m.type = "request" => v.pc = "none" /\ f.pc # "request"
                  /\ m.type = "ack" => m.received <= Len(f.sink)
  /\ f.reg /\ f.pc # "request" /\ v.pc = "none" => Has(M, "request")
  /\ f.pc \in {"recv", "write"} /\ v.reg /\ v.acked < Len(f.sink) =>
       \E m \in M : m.type = "ack" /\ m.received = Len(f.sink)

\* Chunks on their way to the fetch.
Backward(f, v, N) ==
  /\ \A m \in N : /\ m.type \in {"data", "abort"} /\ f.pc # "none"
                  /\ m.type = "data" =>
                       /\ IF m.final THEN v.pc = "done" /\ m.offset = v.offset
                                     ELSE m.offset < v.offset
                       /\ f.reg => f.received <= m.offset /\ ~f.last
  /\ f.reg /\ f.received < v.offset =>
       \E m \in N : m.type = "data" /\ m.offset = v.offset - 1
  /\ f.reg /\ v.pc = "done" /\ ~f.last => \E m \in N : m.type = "data" /\ m.final

Noticed(f, why) == \E k \in 1..Len(f.queue) : f.queue[k].type = "fail" /\ f.queue[k].why = why

\* An Abort goes to the end that has not given up.
Aborting(f, v, M, N) ==
  /\ Has(N, "abort") \/ Noticed(f, "aborted") \/ f.pc = "aborted" =>
       v.pc \in {"refused", "failed"}
  /\ Has(M, "abort") \/ v.pc = "aborted" =>
       ~f.reg /\ f.pc \notin {"none", "ok", "aborted"} /\ ~Noticed(f, "aborted")
  /\ f.reg /\ v.pc \in {"refused", "failed"} => Has(N, "abort")

Sound(f, v, M, N) ==
  /\ Fetching(f) /\ Serving(v) /\ Matched(f, v)
  /\ Forward(f, v, M) /\ Backward(f, v, N) /\ Aborting(f, v, M, N)

\* In a channel, a request comes once and chunks come in the order of their
\* offsets.
Ordered(q, i) ==
  \A j, k \in 1..Len(q) :
    j < k /\ q[j].id = i /\ q[k].id = i =>
      /\ q[j].type = "request" => q[k].type # "request"
      /\ q[j].type = "data" /\ q[k].type = "data" => q[j].offset < q[k].offset

\* The ids of each side, and nothing under the ids of the other.
Mine(s, i) == i % 2 = Parity(s)

Numbered ==
  /\ \A s \in Sides : Mine(s, nextId[s]) /\ nextId[s] >= FirstId(s)
  /\ \A s \in Sides, i \in Ids :
       IF Mine(s, i) THEN /\ serve[s][i] = NoServe
                          /\ i >= nextId[s] => fetch[s][i] = NoFetch
                     ELSE fetch[s][i] = NoFetch

Transfer(s, i) ==
  /\ Sound(fetch[s][i], serve[Peer(s)][i], InFlight(s, i), InFlight(Peer(s), i))
  /\ Ordered(out[s], i) /\ Ordered(out[Peer(s)], i)

IInv ==
  /\ TypeOK /\ Numbered
  /\ \A s \in Sides, i \in Ids : Mine(s, i) => Transfer(s, i)
-----------------------------------------------------------------------------
(* Channels.                                                                *)

LEMMA OfAppend ==
  ASSUME NEW q \in Seq(Message), NEW m \in Message, NEW i \in Ids
  PROVE  /\ Append(q, m) \in Seq(Message)
         /\ Of(Append(q, m), i) = IF m.id = i THEN Of(q, i) \cup {m} ELSE Of(q, i)
  <1> DEFINE r == Append(q, m)
  <1>1. /\ r \in Seq(Message) /\ Len(r) = Len(q) + 1 /\ Len(q) \in Nat
        /\ r[Len(q) + 1] = m /\ \A k \in 1..Len(q) : r[k] = q[k]
        /\ DOMAIN q = 1..Len(q) /\ DOMAIN r = 1..Len(r)
    OBVIOUS
  <1>2. Len(q) + 1 \in 1..Len(r) /\ \A k \in 1..Len(q) : k \in 1..Len(r)
    BY <1>1
  <1>3. \A k \in 1..Len(r) : k \in 1..Len(q) \/ k = Len(q) + 1
    BY <1>1
  <1> HIDE DEF r
  <1>4. Range(r) = Range(q) \cup {m}
    BY <1>1, <1>2, <1>3 DEF Range
  <1> QED BY <1>1, <1>4 DEF Of, r

LEMMA OfTail ==
  ASSUME NEW q \in Seq(Message), q # <<>>, NEW i \in Ids
  PROVE  /\ Tail(q) \in Seq(Message) /\ Head(q) \in Message
         /\ Of(Tail(q), i) \subseteq Of(q, i)
         /\ Of(q, i) \subseteq Of(Tail(q), i) \cup {Head(q)}
         /\ Head(q).id = i => Head(q) \in Of(q, i)
         /\ Head(q).id # i => Of(Tail(q), i) = Of(q, i)
  <1>1. /\ Tail(q) \in Seq(Message) /\ Head(q) \in Message
        /\ Len(q) \in Nat /\ Len(q) > 0
        /\ Len(Tail(q)) = Len(q) - 1 /\ Head(q) = q[1]
        /\ \A k \in 1..Len(Tail(q)) : Tail(q)[k] = q[k + 1]
        /\ DOMAIN q = 1..Len(q) /\ DOMAIN Tail(q) = 1..Len(Tail(q))
    OBVIOUS
  <1>2. Range(Tail(q)) \subseteq Range(q) /\ Head(q) \in Range(q)
    BY <1>1 DEF Range
  <1>3. ASSUME NEW k \in 1..Len(q) PROVE q[k] \in Range(Tail(q)) \cup {Head(q)}
    <2>1. CASE k = 1
      BY <2>1, <1>1
    <2>2. CASE k # 1
      <3>1. k - 1 \in 1..Len(Tail(q)) /\ Tail(q)[k - 1] = q[k]
        BY <2>2, <1>1
      <3> QED BY <3>1, <1>1 DEF Range
    <2> QED BY <2>1, <2>2
  <1>4. Range(q) \subseteq Range(Tail(q)) \cup {Head(q)}
    BY <1>1, <1>3 DEF Range
  <1> QED BY <1>1, <1>2, <1>4 DEF Of

\* What is appended to an ordered channel must follow what is there.
LEMMA OrderedAppend ==
  ASSUME NEW q \in Seq(Message), NEW m \in Message, NEW i \in Ids, Ordered(q, i),
         m.id = i => \A x \in Of(q, i) :
            /\ x.type = "request" => m.type # "request"
            /\ x.type = "data" /\ m.type = "data" => x.offset < m.offset
  PROVE  Ordered(Append(q, m), i)
  <1> DEFINE r == Append(q, m)
  <1>1. /\ Len(r) = Len(q) + 1 /\ Len(q) \in Nat /\ r[Len(q) + 1] = m
        /\ \A k \in 1..Len(q) : r[k] = q[k]
    OBVIOUS
  <1>2. \A k \in 1..Len(q) : q[k].id = i => q[k] \in Of(q, i)
    BY DEF Of, Range
  <1> SUFFICES ASSUME NEW j \in 1..Len(r), NEW k \in 1..Len(r),
                      j < k, r[j].id = i, r[k].id = i
               PROVE  /\ r[j].type = "request" => r[k].type # "request"
                      /\ r[j].type = "data" /\ r[k].type = "data" => r[j].offset < r[k].offset
    BY DEF Ordered
  <1>3. j \in 1..Len(q) /\ r[j] = q[j]
    BY <1>1
  <1>4. CASE k = Len(q) + 1
    BY <1>1, <1>2, <1>3, <1>4
  <1>5. CASE k # Len(q) + 1
    <2>1. k \in 1..Len(q) /\ r[k] = q[k]
      BY <1>1, <1>5
    <2> QED BY <2>1, <1>3 DEF Ordered
  <1> QED BY <1>4, <1>5

LEMMA OrderedTail ==
  ASSUME NEW q \in Seq(Message), q # <<>>, NEW i \in Ids, Ordered(q, i)
  PROVE  /\ Ordered(Tail(q), i)
         /\ Head(q).id = i => \A x \in Of(Tail(q), i) :
              /\ Head(q).type = "request" => x.type # "request"
              /\ Head(q).type = "data" /\ x.type = "data" => Head(q).offset < x.offset
  <1>1. /\ Len(q) \in Nat /\ Len(q) > 0
        /\ Len(Tail(q)) = Len(q) - 1 /\ Head(q) = q[1]
        /\ \A k \in 1..Len(Tail(q)) : Tail(q)[k] = q[k + 1] /\ k + 1 \in 1..Len(q)
        /\ DOMAIN Tail(q) = 1..Len(Tail(q))
    OBVIOUS
  <1>2. Ordered(Tail(q), i)
    BY <1>1 DEF Ordered
  <1>3. ASSUME Head(q).id = i, NEW x \in Of(Tail(q), i)
        PROVE  /\ Head(q).type = "request" => x.type # "request"
               /\ Head(q).type = "data" /\ x.type = "data" => Head(q).offset < x.offset
    <2>1. PICK k \in 1..Len(Tail(q)) : x = Tail(q)[k] /\ x.id = i
      BY <1>1, <1>3 DEF Of, Range
    <2>2. x = q[k + 1] /\ k + 1 \in 1..Len(q) /\ 1 < k + 1 /\ 1 \in 1..Len(q)
      BY <2>1, <1>1
    <2> QED BY <2>1, <2>2, <1>1, <1>3 DEF Ordered
  <1> QED BY <1>2, <1>3
-----------------------------------------------------------------------------
(* The steps of a fetch, as they change its transfer.                       *)

Sent(f) == [f EXCEPT !.pc = "recv"]

LEMMA RequestSent ==
  ASSUME NEW i \in Ids, NEW f \in FetchState, NEW v \in ServeState,
         NEW M \in SUBSET Message, NEW N \in SUBSET Message,
         Sound(f, v, M, N),
         f.pc = "request"
  PROVE  /\ Sent(f) \in FetchState
         /\ Sound(Sent(f), v, M \cup {Msg("request", i)}, N)
         /\ ~Has(M, "request")
  <1> USE DEF Sent
  <1> DEFINE g == Sent(f)
             m == Msg("request", i)
  <1>1. /\ g \in FetchState /\ g.pc = "recv" /\ g.reg = f.reg /\ g.sink = f.sink
        /\ g.received = f.received /\ g.last = f.last /\ g.queue = f.queue
    BY DEF FetchState, FetchPcs
  <1>2. m.type = "request"
    BY DEF Msg
  <1> HIDE DEF g, m
  <1> USE DEF Sound
  <1>3. ~Has(M, "request")
    BY DEF Forward, Has
  <1>4. Fetching(g)
    BY <1>1 DEF Fetching, Taken, Entered, Awaits, Results
  <1>5. Matched(g, v)
    BY <1>1 DEF Matched
  <1>6. Forward(g, v, M \cup {m})
    BY <1>1, <1>2 DEF Forward, Has, Matched, Fetching, Serving
  <1>7. Backward(g, v, N)
    BY <1>1 DEF Backward
  <1>8. Aborting(g, v, M \cup {m}, N)
    BY <1>1, <1>2 DEF Aborting, Has, Noticed
  <1> QED BY <1>1, <1>3, <1>4, <1>5, <1>6, <1>7, <1>8 DEF g, m

LEMMA OneOn ==
  ASSUME NEW l \in Nat, NEW n \in Nat, NEW s \in Nat, l = n - 1
  PROVE  /\ l + (s + 1) = n + s
         /\ \A k \in Nat : s + (k + 1) - 1 = s + 1 + k - 1 /\ (k + 1 = n => k = l)
  OBVIOUS

\* The next chunk of f's channel is in g's hand.
InHand(f, g) ==
  /\ Fetching(f) /\ f.pc = "recv" /\ Len(f.queue) > 0 /\ f.queue[1].type # "fail"
  /\ g.pc = "write" /\ g.reg = f.reg /\ g.sink = f.sink
  /\ g.received = f.received /\ g.last = f.last
  /\ g.now = Len(f.sink) /\ Len(g.queue) = Len(f.queue) - 1
  /\ \A k \in 1..Len(g.queue) : g.queue[k] = f.queue[k + 1]
  /\ IF g.final THEN f.last /\ g.now = f.received ELSE g.now < f.received

LEMMA ChunkInHand ==
  ASSUME NEW f \in FetchState, NEW g \in FetchState, InHand(f, g)
  PROVE  Fetching(g)
  <1> USE DEF InHand
  <1>1. /\ Len(f.queue) \in Nat /\ Len(g.queue) \in Nat
        /\ \A k \in 1..Len(g.queue) : k + 1 \in 1..Len(f.queue)
        /\ f.queue \in Seq(Entry) /\ g.queue \in Seq(Entry)
    BY DEF FetchState
  <1>2. Taken(f) = Len(f.sink) /\ Taken(g) = Len(f.sink) + 1 /\ Len(f.sink) \in Nat
    BY DEF Taken, FetchState
  <1>3. Len(f.queue) + Taken(f) = Entered(f)
    BY DEF Fetching, Awaits
  <1>4. Entered(g) = Entered(f) /\ Entered(f) \in Nat
    BY DEF Entered, FetchState
  <1>5. Len(g.queue) + Taken(g) = Entered(g)
    <2>1. Len(g.queue) + (Len(f.sink) + 1) = Len(f.queue) + Len(f.sink)
      <3> DEFINE l == Len(g.queue)
                 n == Len(f.queue)
                 k == Len(f.sink)
      <3>1. l \in Nat /\ n \in Nat /\ k \in Nat /\ l = n - 1
        BY <1>1, <1>2
      <3> HIDE DEF l, n, k
      <3>2. l + (k + 1) = n + k
        BY <3>1
      <3> QED BY <3>2 DEF l, n, k
    <2>2. Len(f.queue) + Len(f.sink) = Entered(g)
      BY <1>2, <1>3, <1>4
    <2> QED BY <2>1, <2>2, <1>2, Zenon
  <1>6. ~g.reg => g.queue # <<>> /\ g.queue[Len(g.queue)].type = "fail" /\ ~g.last
    BY <1>1 DEF Fetching, Awaits
  <1>7. ASSUME NEW k \in 1..Len(g.queue)
        PROVE  LET x == g.queue[k] IN
               IF x.type = "fail" THEN ~g.reg /\ k = Len(g.queue)
               ELSE /\ x.offset = Taken(g) + k - 1
                    /\ IF x.final THEN g.last /\ x.offset = g.received
                                  ELSE x.offset < g.received
    <2>1. /\ k + 1 \in 1..Len(f.queue) /\ g.queue[k] = f.queue[k + 1]
          /\ Taken(f) + (k + 1) - 1 = Taken(g) + k - 1
          /\ k + 1 = Len(f.queue) => k = Len(g.queue)
      BY <1>1, <1>2, OneOn
    <2> QED BY <2>1 DEF Fetching
  <1> QED BY <1>2, <1>5, <1>6, <1>7 DEF Fetching, Awaits, Results

AfterReceive(f) ==
  IF f.queue = <<>> THEN [f EXCEPT !.pc = "gone"]
  ELSE IF Head(f.queue).type = "fail"
    THEN [f EXCEPT !.pc = Head(f.queue).why, !.queue = <<>>]
    ELSE [f EXCEPT !.pc = "write", !.queue = Tail(@),
                   !.now = Head(f.queue).offset, !.final = Head(f.queue).final]

LEMMA Received ==
  ASSUME NEW f \in FetchState, NEW v \in ServeState,
         NEW M \in SUBSET Message, NEW N \in SUBSET Message,
         Sound(f, v, M, N),
         f.pc = "recv", f.queue # <<>> \/ ~f.reg,
         NEW g, g = AfterReceive(f)
  PROVE  g \in FetchState /\ Sound(g, v, M, N)
  <1> USE DEF AfterReceive
  <1> USE DEF Sound
  <1>1. f.queue # <<>>
    BY DEF Fetching, Awaits
  <1> DEFINE e == Head(f.queue)
  <1>2. /\ f.queue \in Seq(Entry) /\ Len(f.queue) \in Nat /\ Len(f.queue) > 0
        /\ e = f.queue[1] /\ e \in Entry
        /\ Tail(f.queue) \in Seq(Entry) /\ Len(Tail(f.queue)) = Len(f.queue) - 1
        /\ \A k \in 1..Len(Tail(f.queue)) : Tail(f.queue)[k] = f.queue[k + 1] /\ k + 1 \in 1..Len(f.queue)
    BY <1>1 DEF FetchState
  <1>3. CASE e.type = "fail"
    <2>1. e.why \in {"aborted", "protocol"}
      BY <1>2, <1>3 DEF Entry, DataMsg
    <2>2. /\ g \in FetchState /\ g.pc = e.why /\ g.reg = f.reg /\ g.sink = f.sink
          /\ g.received = f.received /\ g.last = f.last /\ g.queue = <<>>
      <3>1. <<>> \in Seq(Entry) /\ e.why \in FetchPcs
        BY <2>1 DEF FetchPcs, Results
      <3>2. g = [f EXCEPT !.pc = e.why, !.queue = <<>>]
        BY <1>1, <1>3
      <3> QED BY <3>1, <3>2 DEF FetchState
    <2>3. ~f.reg
      BY <1>2, <1>3 DEF Fetching
    <2>4. Noticed(f, e.why)
      BY <1>2, <1>3 DEF Noticed
    <2>5. Fetching(g)
      <3>1. Len(g.queue) = 0
        BY <2>2
      <3> QED BY <2>1, <2>2, <2>3, <3>1 DEF Fetching, Awaits, Results
    <2>6. Matched(g, v) /\ Forward(g, v, M) /\ Backward(g, v, N)
      BY <2>1, <2>2, <2>3 DEF Matched, Forward, Backward
    <2>7. Aborting(g, v, M, N)
      BY <2>1, <2>2, <2>3, <2>4 DEF Aborting, Noticed
    <2> QED BY <2>2, <2>5, <2>6, <2>7
  <1>4. CASE e.type # "fail"
    <2>1. e.offset \in Nat /\ e.final \in BOOLEAN
      BY <1>2, <1>4 DEF Entry, DataMsg
    <2>2. /\ g \in FetchState /\ g.pc = "write" /\ g.reg = f.reg /\ g.sink = f.sink
          /\ g.received = f.received /\ g.last = f.last /\ g.queue = Tail(f.queue)
          /\ g.now = e.offset /\ g.final = e.final
      BY <1>1, <1>2, <1>4, <2>1 DEF FetchState, FetchPcs
    <2>3. /\ e.offset = Len(f.sink)
          /\ IF e.final THEN f.last /\ e.offset = f.received ELSE e.offset < f.received
      <3>1. 1 \in 1..Len(f.queue) /\ f.queue[1] = e /\ Taken(f) = Len(f.sink)
        BY <1>2 DEF Taken, FetchState
      <3>2. /\ e.offset = Taken(f) + 1 - 1
            /\ IF e.final THEN f.last /\ e.offset = f.received ELSE e.offset < f.received
        BY <3>1, <1>4 DEF Fetching
      <3> QED BY <3>1, <3>2, <2>1 DEF FetchState
    <2>4. Fetching(g)
      <3>1. /\ Len(g.queue) = Len(f.queue) - 1 /\ Len(f.queue) > 0 /\ f.queue[1].type # "fail"
            /\ \A k \in 1..Len(g.queue) : g.queue[k] = f.queue[k + 1]
        BY <1>2, <1>4, <2>2
      <3>2. g.now = Len(f.sink) /\ IF g.final THEN f.last /\ g.now = f.received ELSE g.now < f.received
        BY <2>2, <2>3
      <3>3. InHand(f, g)
        BY <2>2, <3>1, <3>2 DEF InHand
      <3> QED BY <2>2, <3>3, ChunkInHand
    <2>5. Matched(g, v) /\ Forward(g, v, M) /\ Backward(g, v, N)
      BY <2>2 DEF Matched, Forward, Backward
    <2>6. Aborting(g, v, M, N)
      BY <1>2, <2>2 DEF Aborting, Noticed
    <2> QED BY <2>2, <2>4, <2>5, <2>6
  <1> QED BY <1>3, <1>4

AfterWrite(f) ==
  IF f.final THEN [f EXCEPT !.pc = "finish"]
  ELSE [f EXCEPT !.pc = "ack", !.sink = Append(@, f.now)]

LEMMA Written ==
  ASSUME NEW f \in FetchState, NEW v \in ServeState,
         NEW M \in SUBSET Message, NEW N \in SUBSET Message,
         Sound(f, v, M, N),
         f.pc = "write",
         NEW g, g = AfterWrite(f)
  PROVE  g \in FetchState /\ Sound(g, v, M, N)
  <1> USE DEF AfterWrite
  <1> USE DEF Sound
  <1>1. CASE f.final
    <2>1. /\ g \in FetchState /\ g.pc = "finish" /\ g.reg = f.reg /\ g.sink = f.sink
          /\ g.received = f.received /\ g.last = f.last /\ g.queue = f.queue
      BY <1>1 DEF FetchState, FetchPcs
    <2> HIDE DEF AfterWrite
    <2>2. f.reg /\ f.last /\ Len(f.sink) = f.received /\ f.queue = <<>>
      <3>1. f.last /\ f.now = f.received /\ f.now = Len(f.sink) /\ f.reg
        BY <1>1 DEF Fetching, Awaits
      <3>2. Len(f.queue) + Taken(f) = Entered(f)
        BY DEF Fetching, Awaits
      <3>3. f.received \in Nat /\ f.queue \in Seq(Entry) /\ Len(f.queue) \in Nat
        BY DEF FetchState
      <3>4. Taken(f) = f.received + 1 /\ Entered(f) = f.received + 1
        BY <3>1, <3>3 DEF Taken, Entered
      <3>5. Len(f.queue) = 0
        BY <3>2, <3>3, <3>4
      <3> QED BY <3>1, <3>3, <3>5
    <2>3. Fetching(g)
      <3>1. Len(g.queue) = 0
        BY <2>1, <2>2
      <3> QED BY <2>1, <2>2, <3>1 DEF Fetching, Awaits, Results
    <2>4. Matched(g, v) /\ Forward(g, v, M) /\ Backward(g, v, N)
      BY <2>1 DEF Matched, Forward, Backward
    <2>5. Aborting(g, v, M, N)
      BY <2>1, <2>2 DEF Aborting, Noticed
    <2> QED BY <2>1, <2>3, <2>4, <2>5
  <1>2. CASE ~f.final
    <2>1. /\ f.sink \in Seq(Nat) /\ f.now \in Nat /\ Len(f.sink) \in Nat
          /\ Append(f.sink, f.now) \in Seq(Nat)
          /\ Len(Append(f.sink, f.now)) = Len(f.sink) + 1
          /\ \A n \in 1..Len(f.sink) : Append(f.sink, f.now)[n] = f.sink[n]
          /\ Append(f.sink, f.now)[Len(f.sink) + 1] = f.now
      BY DEF FetchState
    <2>2. /\ g \in FetchState /\ g.pc = "ack" /\ g.reg = f.reg
          /\ g.sink = Append(f.sink, f.now)
          /\ g.received = f.received /\ g.last = f.last /\ g.queue = f.queue
      BY <1>2, <2>1 DEF FetchState, FetchPcs
    <2>3. f.now = Len(f.sink) /\ f.now < f.received
      BY <1>2 DEF Fetching
    <2>4. Taken(g) = Taken(f)
      BY <2>1, <2>2 DEF Taken
    <2>5. \A n \in 1..Len(g.sink) : g.sink[n] = n - 1
      <3> SUFFICES ASSUME NEW n \in 1..Len(g.sink) PROVE g.sink[n] = n - 1
        OBVIOUS
      <3>1. CASE n = Len(f.sink) + 1
        BY <3>1, <2>1, <2>2, <2>3
      <3>2. CASE n \in 1..Len(f.sink)
        BY <3>2, <2>1, <2>2 DEF Fetching
      <3> QED BY <3>1, <3>2, <2>1, <2>2
    <2>6. Fetching(g)
      <3>1. Len(g.sink) <= g.received /\ g.received \in Nat
        BY <2>1, <2>2, <2>3 DEF FetchState
      <3>2. \A k \in 1..Len(g.queue) :
              LET x == g.queue[k] IN
              IF x.type = "fail" THEN ~g.reg /\ k = Len(g.queue)
              ELSE /\ x.offset = Taken(g) + k - 1
                   /\ IF x.final THEN g.last /\ x.offset = g.received
                                 ELSE x.offset < g.received
        BY <2>2, <2>4 DEF Fetching
      <3>3. /\ Len(g.queue) + Taken(g) = Entered(g)
            /\ ~g.reg => g.queue # <<>> /\ g.queue[Len(g.queue)].type = "fail" /\ ~g.last
        BY <2>2, <2>4 DEF Fetching, Entered, Awaits
      <3> QED BY <2>2, <2>5, <3>1, <3>2, <3>3 DEF Fetching, Awaits, Results
    <2>7. Matched(g, v) /\ Forward(g, v, M) /\ Backward(g, v, N)
      BY <2>1, <2>2 DEF Matched, Forward, Backward, ServeState, Message, DataMsg
    <2>8. Aborting(g, v, M, N)
      BY <2>2 DEF Aborting, Noticed
    <2> QED BY <2>2, <2>6, <2>7, <2>8
  <1> QED BY <1>1, <1>2 DEF FetchState

Ack(i, f) == [type |-> "ack", id |-> i, received |-> Len(f.sink)]

LEMMA AckSent ==
  ASSUME NEW i \in Ids, NEW f \in FetchState, NEW v \in ServeState,
         NEW M \in SUBSET Message, NEW N \in SUBSET Message,
         Sound(f, v, M, N),
         f.pc = "ack", NEW m, m = Ack(i, f)
  PROVE  /\ Sent(f) \in FetchState /\ m \in Message
         /\ Sound(Sent(f), v, M \cup {m}, N)
  <1> USE DEF Sent, Ack
  <1> DEFINE g == Sent(f)
  <1>1. /\ g \in FetchState /\ g.pc = "recv" /\ g.reg = f.reg /\ g.sink = f.sink
        /\ g.received = f.received /\ g.last = f.last /\ g.queue = f.queue
    BY DEF FetchState, FetchPcs
  <1>2. m.type = "ack" /\ m.received = Len(f.sink) /\ Len(f.sink) \in Nat /\ m \in Message
    BY DEF FetchState, Message
  <1> HIDE DEF g
  <1> USE DEF Sound
  <1>4. Fetching(g)
    BY <1>1 DEF Fetching, Taken, Entered, Awaits, Results
  <1>5. Matched(g, v)
    BY <1>1 DEF Matched
  <1>6. Forward(g, v, M \cup {m})
    BY <1>1, <1>2 DEF Forward, Has
  <1>7. Backward(g, v, N)
    BY <1>1 DEF Backward
  <1>8. Aborting(g, v, M \cup {m}, N)
    BY <1>1, <1>2 DEF Aborting, Has, Noticed
  <1> QED BY <1>1, <1>2, <1>4, <1>5, <1>6, <1>7, <1>8 DEF g

AfterFinish(f) == [f EXCEPT !.pc = "ok", !.reg = FALSE]

LEMMA Finished ==
  ASSUME NEW f \in FetchState, NEW v \in ServeState,
         NEW M \in SUBSET Message, NEW N \in SUBSET Message,
         Sound(f, v, M, N),
         f.pc = "finish", NEW g, g = AfterFinish(f)
  PROVE  g \in FetchState /\ Sound(g, v, M, N)
  <1> USE DEF AfterFinish
  <1>1. /\ g \in FetchState /\ g.pc = "ok" /\ ~g.reg /\ g.sink = f.sink
        /\ g.received = f.received /\ g.last = f.last /\ g.queue = f.queue
    BY DEF FetchState, FetchPcs, Results
  <1> USE DEF Sound
  <1>2. f.reg /\ f.queue = <<>>
    BY DEF Fetching
  <1>3. Fetching(g)
    BY <1>1, <1>2 DEF Fetching, Taken, Entered, Awaits, Results
  <1>4. Matched(g, v) /\ Forward(g, v, M) /\ Backward(g, v, N)
    BY <1>1 DEF Matched, Forward, Backward
  <1>5. Aborting(g, v, M, N)
    BY <1>1, <1>2 DEF Aborting, Noticed
  <1> QED BY <1>1, <1>3, <1>4, <1>5

Ended(f, why) == [f EXCEPT !.pc = why, !.reg = FALSE, !.queue = <<>>]

LEMMA GivenUp ==
  ASSUME NEW i \in Ids, NEW f \in FetchState, NEW v \in ServeState,
         NEW M \in SUBSET Message, NEW N \in SUBSET Message, Sound(f, v, M, N),
         f.pc \in Awaits \cup {"finish"},
         NEW why \in {"timeout", "io", "cancelled"},
         NEW g, g = Ended(f, why)
  PROVE  /\ g \in FetchState
         /\ f.reg => Sound(g, v, M \cup {Msg("abort", i)}, N)
         /\ ~f.reg => Sound(g, v, M, N)
  <1> USE DEF Ended
  <1>0. <<>> \in Seq(Entry) /\ why \in FetchPcs /\ Len(<<>>) = 0
    BY DEF FetchPcs, Results
  <1>1. /\ g \in FetchState /\ g.pc = why /\ ~g.reg /\ g.sink = f.sink
        /\ g.received = f.received /\ g.last = f.last /\ g.queue = <<>>
    BY <1>0 DEF FetchState
  <1>2. Msg("abort", i).type = "abort"
    BY DEF Msg
  <1> USE DEF Sound
  <1>3. Fetching(g)
    BY <1>1 DEF Fetching, Taken, Entered, Awaits, Results
  <1>4. Matched(g, v) /\ Backward(g, v, N)
    BY <1>1 DEF Matched, Backward, Awaits
  <1>5. Forward(g, v, M) /\ Forward(g, v, M \cup {Msg("abort", i)})
    BY <1>1, <1>2 DEF Forward, Awaits, Has
  <1>6. /\ Aborting(g, v, M \cup {Msg("abort", i)}, N)
        /\ ~f.reg => Aborting(g, v, M, N)
    BY <1>1, <1>2 DEF Aborting, Noticed, Has
  <1> QED BY <1>1, <1>3, <1>4, <1>5, <1>6
-----------------------------------------------------------------------------
(* The steps of a serve.                                                    *)

LEMMA LoopFacts ==
  ASSUME NEW v \in ServeState, v.offset <= v.acked + Window, ~v.final
  PROVE  /\ Loop(v) \in ServeState /\ Loop(v).pc \in {"read", "credit"}
         /\ Loop(v).reg = v.reg /\ Loop(v).offset = v.offset /\ Loop(v).acked = v.acked
         /\ Loop(v).final = v.final /\ Loop(v).eof = v.eof
         /\ v.reg => Serving(Loop(v))
  <1>1. /\ Loop(v) = [v EXCEPT !.pc = IF MaySend(v) THEN "read" ELSE "credit"]
        /\ Loop(v) \in ServeState /\ Loop(v).pc = IF MaySend(v) THEN "read" ELSE "credit"
        /\ Loop(v).reg = v.reg /\ Loop(v).offset = v.offset /\ Loop(v).acked = v.acked
        /\ Loop(v).final = v.final /\ Loop(v).eof = v.eof
    BY DEF Loop, ServeState, ServePcs
  <1>2. ASSUME v.reg PROVE Serving(Loop(v))
    BY <1>1, <1>2, TransferAssumption DEF Serving, MaySend, ServeState
  <1> QED BY <1>1, <1>2

\* What the rest of a transfer needs to know of a serve that goes on.
LEMMA ServeGoesOn ==
  ASSUME NEW f \in FetchState, NEW v \in ServeState, NEW w \in ServeState,
         NEW M \in SUBSET Message, NEW N \in SUBSET Message,
         Sound(f, v, M, N),
         v.pc \in {"read", "credit", "opening"}, f.pc # "none", f.pc # "request",
         Serving(w), w.pc \in {"read", "credit", "send", "opening"},
         w.offset = v.offset, w.acked = v.acked
  PROVE  Sound(f, w, M, N)
  <1> USE DEF Sound
  <1>1. Matched(f, w)
    BY DEF Matched
  <1>2. Forward(f, w, M)
    <2>1. ~Has(M, "request")
      BY DEF Forward, Has, Serving
    <2>2. ASSUME w.reg, ~v.reg PROVE Len(f.sink) = 0
      BY <2>2 DEF Matched, Fetching, Serving, FetchState, ServeState
    <2> QED BY <2>1, <2>2 DEF Forward, Has, ServeState
  <1>3. Backward(f, w, N)
    BY DEF Backward
  <1>4. Aborting(f, w, M, N)
    BY DEF Aborting
  <1> QED BY <1>1, <1>2, <1>3, <1>4

LEMMA StartedFacts ==
  /\ Started \in ServeState /\ Serving(Started) /\ Started.pc \in {"read", "credit"}
  /\ Started.offset = 0 /\ Started.acked = 0
  <1> DEFINE w == [NoServe EXCEPT !.reg = TRUE]
  <1>1. /\ w \in ServeState /\ w.offset = 0 /\ w.acked = 0 /\ ~w.final /\ w.reg
    BY DEF NoServe, ServeState, ServePcs
  <1>2. w.offset <= w.acked + Window
    BY <1>1, TransferAssumption
  <1>3. Started = Loop(w)
    BY DEF Started
  <1> HIDE DEF w
  <1> QED BY <1>1, <1>2, <1>3, LoopFacts

Chunk(v) == [v EXCEPT !.pc = "send"]
LastChunk(v) == [v EXCEPT !.pc = "send", !.final = TRUE, !.eof = TRUE]

LEMMA ReadOn ==
  ASSUME NEW f \in FetchState, NEW v \in ServeState,
         NEW M \in SUBSET Message, NEW N \in SUBSET Message,
         Sound(f, v, M, N),
         v.pc = "read", NEW w \in {Chunk(v), LastChunk(v)}
  PROVE  w \in ServeState /\ Sound(f, w, M, N)
  <1> USE DEF Chunk, LastChunk
  <1>1. /\ w \in ServeState /\ w.pc = "send" /\ w.offset = v.offset /\ w.acked = v.acked
        /\ w.reg = v.reg
        /\ w.final => w.eof \/ v.final
    BY DEF ServeState, ServePcs
  <1>2. Serving(v)
    BY DEF Sound
  <1>3. Serving(w)
    BY <1>1, <1>2 DEF Serving
  <1>4. v.reg /\ f.pc # "none" /\ f.pc # "request"
    BY <1>2 DEF Serving, Sound, Matched, NoServe
  <1> QED BY <1>1, <1>3, <1>4, ServeGoesOn

\* A serve fails, or is refused, before anything else was heard of it.
LEMMA ServeFailed ==
  ASSUME NEW f \in FetchState, NEW v \in ServeState,
         NEW M \in SUBSET Message, NEW N \in SUBSET Message,
         Sound(f, v, M, N),
         v.pc \in {"read", "credit"}, NEW w, w = Failed(v)
  PROVE  w \in ServeState /\ Sound(f, w, M, N)
  <1>1. /\ w \in ServeState /\ w.pc = "abort" /\ w.offset = v.offset /\ w.acked = v.acked
        /\ ~w.reg /\ w.final = v.final /\ w.eof = v.eof
    BY DEF Failed, ServeState, ServePcs
  <1> USE DEF Sound
  <1>2. Serving(w) /\ Matched(f, w)
    BY <1>1 DEF Serving, Matched, NoServe
  <1>3. Forward(f, w, M) /\ Backward(f, w, N)
    BY <1>1 DEF Forward, Backward, Has
  <1>4. Aborting(f, w, M, N)
    BY <1>1 DEF Aborting
  <1> QED BY <1>1, <1>2, <1>3, <1>4

AfterAbort(v) == [v EXCEPT !.pc = "failed"]

LEMMA ServeAborts ==
  ASSUME NEW i \in Ids, NEW f \in FetchState, NEW v \in ServeState,
         NEW M \in SUBSET Message, NEW N \in SUBSET Message,
         Sound(f, v, M, N),
         v.pc = "abort", NEW w, w = AfterAbort(v)
  PROVE  w \in ServeState /\ Sound(f, w, M, N \cup {Msg("abort", i)})
  <1> USE DEF AfterAbort
  <1>1. /\ w \in ServeState /\ w.pc = "failed" /\ w.offset = v.offset /\ w.acked = v.acked
        /\ w.reg = v.reg /\ w.final = v.final /\ w.eof = v.eof
    BY DEF ServeState, ServePcs
  <1>2. Msg("abort", i).type = "abort"
    BY DEF Msg
  <1> USE DEF Sound
  <1>3. Serving(w) /\ Matched(f, w)
    BY <1>1 DEF Serving, Matched, NoServe
  <1>4. Forward(f, w, M) /\ Backward(f, w, N \cup {Msg("abort", i)})
    BY <1>1, <1>2 DEF Forward, Backward, Has, Matched, NoServe
  <1>5. Aborting(f, w, M, N \cup {Msg("abort", i)})
    BY <1>1, <1>2 DEF Aborting, Has
  <1> QED BY <1>1, <1>3, <1>4, <1>5

DataOf(i, v) == [type |-> "data", id |-> i, offset |-> v.offset, final |-> v.final]
AfterSend(v) ==
  IF v.final THEN [v EXCEPT !.pc = "done", !.reg = FALSE]
  ELSE Loop([v EXCEPT !.offset = @ + 1])

LEMMA DataSent ==
  ASSUME NEW i \in Ids, NEW f \in FetchState, NEW v \in ServeState,
         NEW M \in SUBSET Message, NEW N \in SUBSET Message,
         Sound(f, v, M, N),
         v.pc = "send", NEW m, m = DataOf(i, v),
         NEW w, w = AfterSend(v)
  PROVE  /\ w \in ServeState /\ m \in Message /\ Sound(f, w, M, N \cup {m})
         /\ \A x \in N : x.type = "data" => x.offset < m.offset
  <1> USE DEF DataOf, AfterSend
  <1> USE DEF Sound
  <1>1. /\ m \in Message /\ m.type = "data" /\ m.offset = v.offset /\ m.final = v.final
        /\ v.offset \in Nat
    BY DEF Message, DataMsg, ServeState
  <1>2. v.reg /\ v.offset < v.acked + Window
    BY DEF Serving
  <1>3. f.pc \notin {"none", "request"}
    BY DEF Matched, NoServe
  <1>4. \A x \in N : x.type = "data" => ~x.final /\ x.offset < m.offset
    BY <1>1 DEF Backward
  <1>5. ~f.last
    BY DEF Matched
  <1>6. f \in FetchState /\ f.received \in Nat /\ f.received <= v.offset
    BY DEF FetchState, Matched
  <1>7. ~Has(N, "abort") /\ f.pc # "aborted" /\ ~Noticed(f, "aborted")
    BY DEF Aborting
  <1>8. CASE v.final
    <2>1. /\ w \in ServeState /\ w.pc = "done" /\ w.offset = v.offset /\ w.acked = v.acked
          /\ ~w.reg /\ w.final = v.final /\ w.eof = v.eof
      BY <1>8 DEF ServeState, ServePcs
    <2>2. Serving(w) /\ Matched(f, w)
      BY <2>1, <1>3, <1>8 DEF Serving, Matched
    <2>3. Forward(f, w, M)
      BY <2>1, <1>2 DEF Forward, Has
    <2>4. Backward(f, w, N \cup {m})
      BY <2>1, <1>1, <1>3, <1>4, <1>5, <1>6, <1>8 DEF Backward
    <2>5. Aborting(f, w, M, N \cup {m})
      BY <2>1, <1>1, <1>7 DEF Aborting, Has
    <2> QED BY <2>1, <2>2, <2>3, <2>4, <2>5, <1>1, <1>4
  <1>9. CASE ~v.final
    <2> DEFINE u == [v EXCEPT !.offset = @ + 1]
    <2>1. /\ u \in ServeState /\ u.offset = v.offset + 1 /\ u.acked = v.acked
          /\ u.reg = v.reg /\ u.final = v.final /\ u.eof = v.eof
      BY <1>1 DEF ServeState
    <2>2. u.offset <= u.acked + Window
      BY <2>1, <1>1, <1>2, TransferAssumption DEF ServeState
    <2>3. w = Loop(u)
      BY <1>9
    <2> HIDE DEF u
    <2>4. /\ w \in ServeState /\ w.pc \in {"read", "credit"} /\ w.reg
          /\ w.offset = v.offset + 1 /\ w.acked = v.acked /\ Serving(w)
      BY <2>1, <2>2, <2>3, <1>2, <1>9, LoopFacts
    <2>5. Matched(f, w)
      BY <2>4, <1>1, <1>3, <1>5, <1>6 DEF Matched
    <2>6. Forward(f, w, M)
      BY <2>4, <1>2 DEF Forward, Has
    <2>7. Backward(f, w, N \cup {m})
      <3>1. \A x \in N \cup {m} : x.type = "data" => ~x.final /\ x.offset <= v.offset
        BY <1>1, <1>4, <1>9 DEF Message, DataMsg
      <3>2. \A x \in N \cup {m} : x.type = "data" => x.offset < w.offset
        BY <1>1, <1>4, <2>4, <3>1 DEF Message, DataMsg
      <3>3. m.offset = w.offset - 1
        BY <1>1, <2>4
      <3> QED BY <3>1, <3>2, <3>3, <2>4, <1>1, <1>3, <1>5, <1>6 DEF Backward
    <2>8. Aborting(f, w, M, N \cup {m})
      BY <2>4, <1>1, <1>7 DEF Aborting, Has
    <2> QED BY <2>4, <2>5, <2>6, <2>7, <2>8, <1>1, <1>4
  <1> QED BY <1>8, <1>9 DEF ServeState
Awake(v) == Loop([v EXCEPT !.permit = FALSE])

LEMMA Woken ==
  ASSUME NEW f \in FetchState, NEW v \in ServeState,
         NEW M \in SUBSET Message, NEW N \in SUBSET Message,
         Sound(f, v, M, N),
         v.pc = "credit", NEW w, w = Awake(v)
  PROVE  w \in ServeState /\ Sound(f, w, M, N)
  <1> USE DEF Awake
  <1> DEFINE u == [v EXCEPT !.permit = FALSE]
  <1>1. /\ u \in ServeState /\ u.offset = v.offset /\ u.acked = v.acked
        /\ u.reg = v.reg /\ u.final = v.final /\ u.eof = v.eof
    BY DEF ServeState
  <1>2. w = Loop(u)
    OBVIOUS
  <1> HIDE DEF u
  <1>3. v.reg /\ ~v.final /\ v.offset <= v.acked + Window
    BY DEF Sound, Serving
  <1>4. /\ w \in ServeState /\ w.pc \in {"read", "credit"} /\ w.reg
        /\ w.offset = v.offset /\ w.acked = v.acked /\ Serving(w)
    BY <1>1, <1>2, <1>3, LoopFacts
  <1>5. f.pc # "none" /\ f.pc # "request"
    BY DEF Sound, Matched, NoServe
  <1> QED BY <1>3, <1>4, <1>5, ServeGoesOn

LEMMA Opened ==
  ASSUME NEW f \in FetchState, NEW v \in ServeState,
         NEW M \in SUBSET Message, NEW N \in SUBSET Message,
         Sound(f, v, M, N),
         v.pc = "opening"
  PROVE  Sound(f, Started, M, N)
  <1>1. v.offset = 0 /\ v.acked = 0 /\ f.pc # "none" /\ f.pc # "request"
    BY DEF Sound, Serving, Matched, NoServe
  <1> QED BY <1>1, StartedFacts, ServeGoesOn

Refused == [NoServe EXCEPT !.pc = "refused"]

LEMMA RefusedFacts ==
  /\ Refused \in ServeState /\ Serving(Refused) /\ Refused.pc = "refused"
  /\ Refused.offset = 0 /\ Refused.acked = 0 /\ ~Refused.reg
  <1>1. /\ Refused \in ServeState /\ Refused.pc = "refused" /\ Refused.offset = 0
        /\ Refused.acked = 0 /\ ~Refused.reg /\ ~Refused.final
    BY DEF Refused, NoServe, ServeState, ServePcs
  <1>2. Window \in Nat /\ 0 <= 0 + Window
    BY TransferAssumption
  <1> QED BY <1>1, <1>2 DEF Serving

LEMMA OpenRefused ==
  ASSUME NEW i \in Ids, NEW f \in FetchState, NEW v \in ServeState,
         NEW M \in SUBSET Message, NEW N \in SUBSET Message, Sound(f, v, M, N),
         v.pc = "opening"
  PROVE  Sound(f, Refused, M, N \cup {Msg("abort", i)})
  <1> USE DEF Sound
  <1>1. v.offset = 0 /\ v.acked = 0 /\ f.pc # "none" /\ f.pc # "request"
    BY DEF Serving, Matched, NoServe
  <1>2. Matched(f, Refused)
    BY <1>1, RefusedFacts DEF Matched
  <1>3. Msg("abort", i).type = "abort"
    BY DEF Msg
  <1>4. Forward(f, Refused, M) /\ Backward(f, Refused, N \cup {Msg("abort", i)})
    BY <1>1, <1>3, RefusedFacts DEF Forward, Backward, Has
  <1>5. Aborting(f, Refused, M, N \cup {Msg("abort", i)})
    BY <1>3, RefusedFacts DEF Aborting, Has
  <1> QED BY <1>2, <1>4, <1>5, RefusedFacts

-----------------------------------------------------------------------------
(* The messages, taken in the order of their channels.                      *)

\* What is left of a transfer's messages when one, m, is taken.
Left(m, M, L) == m \in M /\ L \subseteq M /\ M \subseteq L \cup {m}

Opening == [NoServe EXCEPT !.pc = "opening"]

LEMMA RequestTaken ==
  ASSUME NEW i \in Ids, NEW f \in FetchState, NEW v \in ServeState,
         NEW M \in SUBSET Message, NEW N \in SUBSET Message, Sound(f, v, M, N),
         NEW m, NEW L, Left(m, M, L), m.type = "request", ~Has(L, "request")
  PROVE  /\ Sound(f, Started, L, N)
         /\ Opening \in ServeState
         /\ Sound(f, Opening, L, N)
         /\ Sound(f, Refused, L, N \cup {Msg("abort", i)})
  <1> USE DEF Opening
  <1> USE DEF Sound
  <1> DEFINE o == Opening
             K == N \cup {Msg("abort", i)}
  <1>1. v.pc = "none" /\ f.pc \notin {"none", "request"} /\ L \in SUBSET Message
    BY DEF Left, Forward
  <1>2. /\ o \in ServeState /\ o.pc = "opening" /\ o.offset = 0 /\ o.acked = 0 /\ ~o.reg
        /\ ~o.final
    BY DEF NoServe, ServeState, ServePcs
  <1>3. Serving(o)
    <2>1. Window \in Nat /\ 0 <= 0 + Window
      BY TransferAssumption
    <2> QED BY <1>2, <2>1 DEF Serving
  <1>4. v.offset = 0 /\ v.acked = 0 /\ f.received = 0 /\ Len(f.sink) = 0 /\ ~f.last
    BY <1>1 DEF Serving, Matched, Fetching, FetchState
  <1> HIDE DEF o
  <1>5. ASSUME NEW w \in {Started, o, Refused}
        PROVE  /\ Serving(w) /\ Matched(f, w) /\ Forward(f, w, L) /\ Backward(f, w, N)
               /\ w.pc # "refused" => Aborting(f, w, L, N)
    <2>1. /\ w \in ServeState /\ w.offset = 0 /\ w.acked = 0 /\ Serving(w)
          /\ w.pc \in {"read", "credit", "opening", "refused"}
      BY <1>2, <1>3, StartedFacts, RefusedFacts
    <2>2. Matched(f, w)
      BY <1>1, <1>4, <2>1 DEF Matched
    <2>3. Forward(f, w, L)
      BY <1>1, <1>4, <2>1 DEF Forward, Left, Has
    <2>4. Backward(f, w, N)
      BY <1>1, <1>4, <2>1 DEF Backward
    <2>5. w.pc # "refused" => Aborting(f, w, L, N)
      BY <1>1, <2>1 DEF Aborting, Left, Has
    <2> QED BY <2>1, <2>2, <2>3, <2>4, <2>5
  <1>6. Sound(f, Started, L, N) /\ Sound(f, o, L, N)
    BY <1>2, <1>5, StartedFacts
  <1>7. Sound(f, Refused, L, K)
    <2>1. Msg("abort", i).type = "abort"
      BY DEF Msg
    <2>2. Backward(f, Refused, K)
      BY <1>1, <1>4, <1>5, <2>1, RefusedFacts DEF Backward, Has
    <2>3. Aborting(f, Refused, L, K)
      BY <1>1, <2>1, RefusedFacts DEF Aborting, Has, Left
    <2> QED BY <1>5, <2>2, <2>3
  <1> QED BY <1>2, <1>6, <1>7 DEF o

LEMMA AckTaken ==
  ASSUME NEW f \in FetchState, NEW v \in ServeState,
         NEW M \in SUBSET Message, NEW N \in SUBSET Message,
         Sound(f, v, M, N),
         NEW m, NEW L, Left(m, M, L), m.type = "ack"
  PROVE  /\ ~v.reg => Sound(f, v, L, N)
         /\ v.reg => /\ m.received <= v.offset
                     /\ Credit(v, m.received) \in ServeState
                     /\ Sound(f, Credit(v, m.received), L, N)
  <1> USE DEF Sound
  <1>1. /\ m.received \in Nat /\ m.received <= Len(f.sink) /\ L \in SUBSET Message
        /\ f.pc \notin {"none"}
    BY DEF Left, Forward, Message, DataMsg
  <1>2. /\ Len(f.sink) \in Nat /\ f.received \in Nat /\ v.offset \in Nat /\ v.acked \in Nat
        /\ Len(f.sink) <= f.received /\ f.received <= v.offset /\ v.acked <= Len(f.sink)
    BY DEF Fetching, Matched, FetchState, ServeState
  <1>3. ASSUME ~v.reg PROVE Sound(f, v, L, N)
    <2>1. Forward(f, v, L)
      BY <1>3 DEF Forward, Left, Has
    <2>2. Aborting(f, v, L, N)
      BY DEF Aborting, Left, Has
    <2> QED BY <2>1, <2>2
  <1>4. ASSUME v.reg
        PROVE  /\ Credit(v, m.received) \in ServeState
               /\ Sound(f, Credit(v, m.received), L, N)
    <2> DEFINE w == Credit(v, m.received)
    <2>1. /\ w \in ServeState /\ w.pc = v.pc /\ w.reg = v.reg /\ w.offset = v.offset
          /\ w.final = v.final /\ w.eof = v.eof /\ w.permit
          /\ w.acked = IF m.received > v.acked THEN m.received ELSE v.acked
      BY <1>1, <1>2 DEF Credit, ServeState
    <2> HIDE DEF w
    <2>2. /\ w.acked \in Nat /\ v.acked <= w.acked
          /\ w.acked <= Len(f.sink) /\ m.received <= w.acked
      BY <1>1, <1>2, <2>1
    <2>3. Serving(w)
      BY <1>2, <1>4, <2>1, <2>2, TransferAssumption DEF Serving, ServeState
    <2>4. Matched(f, w)
      BY <1>1, <1>2, <1>4, <2>1, <2>2 DEF Matched, Serving
    <2>5. Forward(f, w, L)
      <3>1. \A x \in L : x \in M
        BY DEF Left
      <3>2. v.pc # "none"
        BY <1>4 DEF Serving
      <3>3. ASSUME f.pc \in {"recv", "write"}, w.reg, w.acked < Len(f.sink)
            PROVE  \E x \in L : x.type = "ack" /\ x.received = Len(f.sink)
        <4>1. v.acked < Len(f.sink)
          BY <1>2, <2>1, <2>2, <3>3
        <4>2. PICK x \in M : x.type = "ack" /\ x.received = Len(f.sink)
          BY <4>1, <3>3, <1>4 DEF Forward
        <4>3. x # m
          BY <4>2, <1>2, <2>1, <2>2, <3>3
        <4> QED BY <4>2, <4>3 DEF Left
      <3> QED BY <3>1, <3>2, <3>3, <2>1 DEF Forward
    <2>6. Backward(f, w, N)
      BY <2>1 DEF Backward
    <2>7. Aborting(f, w, L, N)
      BY <2>1 DEF Aborting, Left, Has
    <2> QED BY <2>1, <2>3, <2>4, <2>5, <2>6, <2>7 DEF w
  <1> QED BY <1>1, <1>2, <1>3, <1>4

ServeAborted(v) == IF v.reg THEN [v EXCEPT !.pc = "aborted", !.reg = FALSE] ELSE v

\* The serving side takes an Abort.
LEMMA AbortTakenByServe ==
  ASSUME NEW f \in FetchState, NEW v \in ServeState,
         NEW M \in SUBSET Message, NEW N \in SUBSET Message,
         Sound(f, v, M, N),
         NEW m, NEW L, Left(m, M, L), m.type = "abort",
         NEW w, w = ServeAborted(v)
  PROVE  w \in ServeState /\ Sound(f, w, L, N)
  <1> USE DEF ServeAborted
  <1> USE DEF Sound
  <1>1. /\ ~f.reg /\ f.pc \notin {"none", "ok", "aborted"} /\ ~Noticed(f, "aborted")
    BY DEF Aborting, Has, Left
  <1>2. CASE ~v.reg
    <2>1. Forward(f, v, L) /\ Aborting(f, v, L, N)
      BY <1>1, <1>2 DEF Forward, Aborting, Left, Has
    <2> QED BY <1>2, <2>1
  <1>3. CASE v.reg
    <2>1. /\ w \in ServeState /\ w.pc = "aborted" /\ ~w.reg /\ w.offset = v.offset
          /\ w.acked = v.acked /\ w.final = v.final /\ w.eof = v.eof
      BY <1>3 DEF ServeState, ServePcs
    <2>2. v.pc \in {"read", "credit", "send"} /\ f.pc # "request"
      BY <1>3 DEF Serving, Matched
    <2>3. Serving(w)
      BY <2>1 DEF Serving
    <2>4. Matched(f, w)
      BY <1>1, <2>1, <2>2 DEF Matched
    <2>5. Forward(f, w, L) /\ Backward(f, w, N)
      BY <1>1, <2>1, <2>2 DEF Forward, Backward, Left
    <2>6. Aborting(f, w, L, N)
      BY <1>1, <2>1, <2>2 DEF Aborting, Left, Has
    <2> QED BY <2>1, <2>3, <2>4, <2>5, <2>6
  <1> QED BY <1>2, <1>3 DEF ServeState
\* A fetch that is still registered has room for whatever comes, and waits for
\* more unless it has it all.
LEMMA Room ==
  ASSUME NEW f \in FetchState, NEW v \in ServeState,
         NEW M \in SUBSET Message, NEW N \in SUBSET Message,
         Sound(f, v, M, N)
  PROVE  Len(f.queue) < Window + 2
  <1> USE DEF Sound
  <1> DEFINE q == Len(f.queue)
             k == Len(f.sink)
  <1>1. /\ q \in Nat /\ k \in Nat /\ f.received \in Nat /\ v.offset \in Nat /\ v.acked \in Nat
        /\ Window \in Nat
    BY TransferAssumption DEF FetchState, ServeState
  <1>2. f.received <= v.offset /\ v.offset <= v.acked + Window /\ v.acked <= k
    BY DEF Matched, Serving
  <1>3. CASE f.pc \in Awaits
    <2>1. q + Taken(f) = Entered(f) /\ (~f.reg => ~f.last)
      BY <1>3 DEF Fetching
    <2>2. Taken(f) \in {k, k + 1} /\ Entered(f) \in {f.received, f.received + 1}
      BY <1>1, <2>1 DEF Taken, Entered, FetchState
    <2> HIDE DEF q, k
    <2>3. q <= Window + 1
      BY <1>1, <1>2, <2>1, <2>2
    <2>4. q < Window + 2
      BY <1>1, <2>3
    <2> QED BY <2>4 DEF q
  <1>4. CASE f.pc \notin Awaits
    <2>1. f.queue = <<>>
      BY <1>4 DEF Fetching, Matched, NoFetch, FetchState, FetchPcs, Awaits
    <2>2. q = 0
      BY <2>1
    <2> HIDE DEF q
    <2>3. q < Window + 2
      BY <2>2, <1>1
    <2> QED BY <2>3 DEF q
  <1> QED BY <1>3, <1>4

LEMMA Longer ==
  ASSUME NEW q \in Seq(Entry), NEW e \in Entry, NEW r, r = Append(q, e)
  PROVE  /\ Len(q) \in Nat /\ Len(r) = Len(q) + 1 /\ r # <<>> /\ r[Len(r)] = e
         /\ \A k \in 1..Len(r) : k = Len(r) \/ (k \in 1..Len(q) /\ k # Len(r))
         /\ \A k \in 1..Len(q) : r[k] = q[k]
  OBVIOUS

\* g is f, no longer registered, with a notice of failure behind its chunks.
Notified(f, g, why) ==
  /\ Fetching(f) /\ f.reg /\ f.pc \in Awaits /\ ~f.last
  /\ g.pc = f.pc /\ ~g.reg /\ g.sink = f.sink /\ g.received = f.received
  /\ g.last = f.last /\ g.now = f.now /\ g.final = f.final
  /\ g.queue = Append(f.queue, Fail(why))

LEMMA NoticePushed ==
  ASSUME NEW f \in FetchState, NEW g \in FetchState,
         NEW why \in {"aborted", "protocol"}, Notified(f, g, why)
  PROVE  Fetching(g) /\ ~Noticed(f, "aborted") /\ (Noticed(g, "aborted") => why = "aborted")
  <1> USE DEF Notified
  <1>1. /\ Fail(why) \in Entry /\ Fail(why).type = "fail" /\ Fail(why).why = why
    BY DEF Fail, Entry
  <1> DEFINE l == Len(f.queue)
             n == Len(g.queue)
  <1>2. /\ l \in Nat /\ n = l + 1 /\ g.queue # <<>> /\ g.queue[n] = Fail(why)
        /\ \A k \in 1..n : k = n \/ (k \in 1..l /\ k # n)
        /\ \A k \in 1..l : g.queue[k] = f.queue[k]
    <2>1. g.queue = Append(f.queue, Fail(why))
      OBVIOUS
    <2>2. f.queue \in Seq(Entry)
      BY DEF FetchState
    <2> HIDE DEF Notified
    <2> QED BY <1>1, <2>1, <2>2, Longer
  <1>3. Taken(g) = Taken(f) /\ Taken(f) \in Nat /\ Entered(g) = Entered(f) + 1 /\ Entered(f) \in Nat
    BY DEF Taken, Entered, FetchState
  <1>4. l + Taken(f) = Entered(f)
    BY DEF Fetching
  <1>5. \A k \in 1..l : f.queue[k].type # "fail"
    BY DEF Fetching
  <1>6. n + Taken(g) = Entered(g)
    <2> HIDE DEF l, n
    <2> QED BY <1>2, <1>3, <1>4
  <1>7. ASSUME NEW k \in 1..n
        PROVE  LET x == g.queue[k] IN
               IF x.type = "fail" THEN ~g.reg /\ k = n
               ELSE /\ x.offset = Taken(g) + k - 1
                    /\ IF x.final THEN g.last /\ x.offset = g.received
                                  ELSE x.offset < g.received
    <2>1. CASE k = n
      BY <2>1, <1>1, <1>2
    <2>2. CASE k \in 1..l /\ k # n
      BY <2>2, <1>2, <1>3, <1>5 DEF Fetching
    <2> QED BY <2>1, <2>2, <1>2
  <1>8. Fetching(g)
    BY <1>1, <1>2, <1>6, <1>7 DEF Fetching, Awaits, Results
  <1>9. ~Noticed(f, "aborted")
    BY <1>5 DEF Noticed
  <1>10. ASSUME Noticed(g, "aborted") PROVE why = "aborted"
    <2>1. PICK k \in 1..n : g.queue[k].type = "fail" /\ g.queue[k].why = "aborted"
      BY <1>10 DEF Noticed
    <2>2. k = n
      BY <2>1, <1>2, <1>5
    <2> QED BY <2>1, <2>2, <1>1, <1>2
  <1> QED BY <1>8, <1>9, <1>10

FetchAborted(f) ==
  IF f.reg THEN Push([f EXCEPT !.reg = FALSE], Fail("aborted")) ELSE f

LEMMA AbortTakenByFetch ==
  ASSUME NEW f \in FetchState, NEW v \in ServeState,
         NEW M \in SUBSET Message, NEW N \in SUBSET Message,
         Sound(f, v, M, N),
         NEW m, NEW L, Left(m, N, L), m.type = "abort",
         NEW g, g = FetchAborted(f)
  PROVE  g \in FetchState /\ Sound(g, v, M, L)
  <1> USE DEF FetchAborted
  <1> USE DEF Sound
  <1>1. v.pc \in {"refused", "failed"}
    BY DEF Aborting, Has, Left
  <1>2. CASE ~f.reg
    <2>1. Backward(f, v, L) /\ Aborting(f, v, M, L)
      BY <1>2 DEF Backward, Aborting, Left, Has
    <2> QED BY <1>2, <2>1
  <1>3. CASE f.reg
    <2>1. f.pc \in Awaits /\ ~f.last
      BY <1>1, <1>3 DEF Fetching, Matched
    <2>2. Len(f.queue) < Window + 2
      BY Room
    <2>3. /\ Fail("aborted") \in Entry /\ f.queue \in Seq(Entry)
          /\ Append(f.queue, Fail("aborted")) \in Seq(Entry)
      BY DEF Fail, Entry, FetchState
    <2>4. g = [f EXCEPT !.reg = FALSE, !.queue = Append(@, Fail("aborted"))]
      BY <1>3, <2>2 DEF Push, FetchState
    <2>5. /\ g \in FetchState /\ g.pc = f.pc /\ ~g.reg /\ g.sink = f.sink
          /\ g.received = f.received /\ g.last = f.last /\ g.now = f.now /\ g.final = f.final
          /\ g.queue = Append(f.queue, Fail("aborted"))
      BY <2>3, <2>4 DEF FetchState
    <2>6. Notified(f, g, "aborted")
      BY <1>3, <2>1, <2>5 DEF Notified
    <2>7. Fetching(g)
      BY <2>5, <2>6, NoticePushed
    <2>8. Matched(g, v) /\ Forward(g, v, M)
      BY <2>5, <2>1 DEF Matched, Forward, Awaits
    <2>9. Backward(g, v, L)
      BY <2>5 DEF Backward, Left
    <2>10. Aborting(g, v, M, L)
      BY <1>1, <1>3, <2>5 DEF Aborting
    <2> QED BY <2>5, <2>7, <2>8, <2>9, <2>10
  <1> QED BY <1>2, <1>3 DEF FetchState

\* g is f with the chunk m behind the others.
Accepted(f, g, m) ==
  /\ Fetching(f) /\ f.reg /\ f.pc \in Awaits /\ ~f.last
  /\ m \in DataMsg /\ m.offset = f.received /\ (m.final \/ f.received < Cap)
  /\ g.pc = f.pc /\ g.reg /\ g.sink = f.sink
  /\ g.received = IF m.final THEN f.received ELSE f.received + 1
  /\ g.last = m.final /\ g.now = f.now /\ g.final = f.final
  /\ g.queue = Append(f.queue, m)

LEMMA ChunkPushed ==
  ASSUME NEW f \in FetchState, NEW g \in FetchState, NEW m, Accepted(f, g, m)
  PROVE  Fetching(g) /\ ~Noticed(f, "aborted") /\ ~Noticed(g, "aborted")
  <1>0. /\ Fetching(f) /\ f.reg /\ f.pc \in Awaits /\ ~f.last
        /\ m \in DataMsg /\ m.offset = f.received /\ (m.final \/ f.received < Cap)
        /\ g.pc = f.pc /\ g.reg /\ g.sink = f.sink
        /\ g.received = IF m.final THEN f.received ELSE f.received + 1
        /\ g.last = m.final /\ g.now = f.now /\ g.final = f.final
        /\ g.queue = Append(f.queue, m)
    BY DEF Accepted
  <1>1. m \in Entry /\ m.type = "data" /\ m.final \in BOOLEAN /\ m.offset \in Nat
    BY <1>0 DEF Entry, DataMsg
  <1> DEFINE l == Len(f.queue)
             n == Len(g.queue)
  <1>2. /\ l \in Nat /\ n = l + 1 /\ g.queue # <<>> /\ g.queue[n] = m
        /\ \A k \in 1..n : k = n \/ (k \in 1..l /\ k # n)
        /\ \A k \in 1..l : g.queue[k] = f.queue[k]
    <2>1. f.queue \in Seq(Entry) /\ g.queue = Append(f.queue, m)
      BY <1>0 DEF FetchState
    <2> QED BY <1>1, <2>1, Longer
  <1>3. /\ Taken(g) = Taken(f) /\ Taken(f) \in Nat /\ f.received \in Nat /\ g.received \in Nat
        /\ Entered(g) = f.received + 1 /\ Entered(f) = f.received
    BY <1>0, <1>1 DEF Taken, Entered, FetchState
  <1>4. l + Taken(f) = f.received
    BY <1>0, <1>3 DEF Fetching
  <1>5. \A k \in 1..l : /\ f.queue[k].type # "fail" /\ f.queue[k].offset = Taken(f) + k - 1
                        /\ ~f.queue[k].final /\ f.queue[k].offset < f.received
    BY <1>0 DEF Fetching
  <1>6. n + Taken(g) = Entered(g) /\ m.offset = Taken(g) + n - 1
    <2>1. m.offset = f.received
      BY <1>0
    <2> HIDE DEF l, n
    <2> QED BY <1>2, <1>3, <1>4, <2>1
  <1>7. ASSUME NEW k \in 1..n
        PROVE  LET x == g.queue[k] IN
               IF x.type = "fail" THEN ~g.reg /\ k = n
               ELSE /\ x.offset = Taken(g) + k - 1
                    /\ IF x.final THEN g.last /\ x.offset = g.received
                                  ELSE x.offset < g.received
    <2>1. CASE k = n
      BY <2>1, <1>0, <1>1, <1>2, <1>3, <1>6
    <2>2. CASE k \in 1..l /\ k # n
      <3>1. /\ g.queue[k] = f.queue[k] /\ f.queue[k].type # "fail"
            /\ f.queue[k].offset = Taken(f) + k - 1
            /\ ~f.queue[k].final /\ f.queue[k].offset < f.received
        BY <2>2, <1>2, <1>5
      <3>2. f.queue[k].offset \in Nat
        <4>1. l \in Nat /\ f.queue \in Seq(Entry) /\ f.queue[k] \in Entry
          BY <2>2 DEF FetchState
        <4> QED BY <3>1, <4>1 DEF Entry, DataMsg
      <3>3. f.queue[k].offset < g.received
        BY <3>1, <3>2, <1>0, <1>1, <1>3
      <3> QED BY <3>1, <3>3, <1>3
    <2> QED BY <2>1, <2>2, <1>2
  <1>8. g.received <= Cap /\ Len(g.sink) <= g.received
    <2>1. Len(f.sink) \in Nat /\ Cap \in Nat /\ f.received <= Cap /\ Len(f.sink) <= f.received
      BY <1>0, TransferAssumption DEF Fetching, FetchState
    <2> QED BY <2>1, <1>0, <1>1, <1>3
  <1>9. g.pc = "write" => /\ g.now = Len(g.sink)
                          /\ ~g.final /\ g.now < g.received
    <2>1. f.pc = "write" => f.now = Len(f.sink) /\ ~f.final /\ f.now < f.received
      BY <1>0 DEF Fetching
    <2>2. f.now \in Nat
      BY DEF FetchState
    <2> QED BY <2>1, <2>2, <1>0, <1>1, <1>3
  <1>10. Fetching(g)
    <2>1. \A k \in 1..Len(g.sink) : g.sink[k] = k - 1
      BY <1>0 DEF Fetching
    <2>2. g.pc \in Awaits /\ g.reg
      BY <1>0
    <2> QED BY <1>6, <1>7, <1>8, <1>9, <2>1, <2>2 DEF Fetching, Awaits, Results
  <1>11. ~Noticed(f, "aborted") /\ ~Noticed(g, "aborted")
    BY <1>1, <1>2, <1>5 DEF Noticed
  <1> QED BY <1>10, <1>11

\* The chunks left behind m in the channel come after it.
Later(m, L) == \A x \in L : x.type = "data" => m.offset < x.offset

Grown(f, m) ==
  Push([f EXCEPT !.received = IF m.final THEN @ ELSE @ + 1, !.last = m.final], m)
Cut(f) == Push([f EXCEPT !.reg = FALSE], Fail("protocol"))

LEMMA DataTaken ==
  ASSUME NEW i \in Ids, NEW f \in FetchState, NEW v \in ServeState,
         NEW M \in SUBSET Message, NEW N \in SUBSET Message,
         Sound(f, v, M, N),
         NEW m, NEW L, Left(m, N, L), m.type = "data", Later(m, L)
  PROVE  /\ ~f.reg => Sound(f, v, M, L)
         /\ f.reg =>
              /\ Accepts(f, m) => Grown(f, m) \in FetchState /\ Sound(Grown(f, m), v, M, L)
              /\ Cut(f) \in FetchState /\ Sound(Cut(f), v, M \cup {Msg("abort", i)}, L)
  <1> USE DEF Grown, Cut
  <1> USE DEF Sound
  <1>1. m \in DataMsg /\ m.final \in BOOLEAN /\ m.offset \in Nat /\ L \in SUBSET Message /\ m \in N
    BY DEF Left, Message, DataMsg
  <1>2. CASE ~f.reg
    <2>1. Backward(f, v, L) /\ Aborting(f, v, M, L)
      BY <1>2 DEF Backward, Aborting, Left, Has
    <2> QED BY <1>2, <2>1
  <1>3. CASE f.reg
    <2> DEFINE g == Grown(f, m)
               h == Cut(f)
    <2>1. /\ f.received <= m.offset /\ ~f.last
          /\ IF m.final THEN v.pc = "done" /\ m.offset = v.offset ELSE m.offset < v.offset
      BY <1>1, <1>3 DEF Backward
    <2>2. f.pc \in Awaits /\ Len(f.queue) < Window + 2
      BY <1>3, <2>1, Room DEF Fetching
    <2>3. /\ Fail("protocol") \in Entry /\ f.queue \in Seq(Entry) /\ m \in Entry
          /\ Append(f.queue, Fail("protocol")) \in Seq(Entry)
          /\ Append(f.queue, m) \in Seq(Entry) /\ f.received \in Nat
          /\ (IF m.final THEN f.received ELSE f.received + 1) \in Nat
      BY <1>1 DEF Fail, Entry, FetchState
    <2>4. h = [f EXCEPT !.reg = FALSE, !.queue = Append(@, Fail("protocol"))]
      BY <2>2 DEF Push, FetchState
    <2>5. /\ h \in FetchState /\ h.pc = f.pc /\ ~h.reg /\ h.sink = f.sink
          /\ h.received = f.received /\ h.last = f.last /\ h.now = f.now /\ h.final = f.final
          /\ h.queue = Append(f.queue, Fail("protocol"))
      BY <2>3, <2>4 DEF FetchState
    <2>6. g = [f EXCEPT !.received = IF m.final THEN @ ELSE @ + 1,
                        !.last = m.final, !.queue = Append(@, m)]
      BY <2>2 DEF Push, FetchState
    <2>7. /\ g \in FetchState /\ g.pc = f.pc /\ g.reg /\ g.sink = f.sink
          /\ g.received = IF m.final THEN f.received ELSE f.received + 1
          /\ g.last = m.final /\ g.now = f.now /\ g.final = f.final
          /\ g.queue = Append(f.queue, m)
      BY <2>3, <2>6, <1>1, <1>3 DEF FetchState
    <2> HIDE DEF g, h
    <2>8. Sound(h, v, M \cup {Msg("abort", i)}, L)
      <3>1. Notified(f, h, "protocol")
        BY <1>3, <2>1, <2>2, <2>5 DEF Notified
      <3>2. Fetching(h) /\ ~Noticed(h, "aborted")
        BY <3>1, <2>5, NoticePushed
      <3>0. Msg("abort", i).type = "abort"
        BY DEF Msg
      <3>3. Matched(h, v) /\ Forward(h, v, M \cup {Msg("abort", i)})
        BY <3>0, <2>5, <2>2 DEF Matched, Forward, Awaits, Has
      <3>4. Backward(h, v, L)
        BY <2>5 DEF Backward, Left
      <3>5. Aborting(h, v, M \cup {Msg("abort", i)}, L)
        BY <3>0, <3>2, <2>2, <2>5 DEF Aborting, Awaits, Has, Left
      <3> QED BY <3>2, <3>3, <3>4, <3>5
    <2>9. ASSUME Accepts(f, m) PROVE Sound(g, v, M, L)
      <3>1. m.offset = f.received /\ (m.final \/ f.received < Cap)
        BY <2>9 DEF Accepts
      <3>2. Accepted(f, g, m)
        BY <1>1, <1>3, <2>1, <2>2, <2>7, <3>1 DEF Accepted
      <3>3. Fetching(g) /\ ~Noticed(f, "aborted") /\ ~Noticed(g, "aborted")
        BY <3>2, <2>7, ChunkPushed
      <3>4. f.received \in Nat /\ v.offset \in Nat
        BY DEF FetchState, ServeState
      <3>5. Matched(g, v)
        BY <1>1, <2>1, <2>2, <2>7, <3>1, <3>4 DEF Matched, Awaits
      <3>6. Forward(g, v, M)
        BY <1>3, <2>7 DEF Forward
      <3>7. Backward(g, v, L)
        <4>1. ASSUME NEW x \in L, x.type = "data"
              PROVE  /\ ~m.final /\ g.received <= x.offset
                     /\ IF x.final THEN v.pc = "done" /\ x.offset = v.offset
                                   ELSE x.offset < v.offset
          <5>1. /\ x \in N /\ m.offset < x.offset /\ x.offset \in Nat
            BY <4>1 DEF Left, Later, Message, DataMsg
          <5>2. IF x.final THEN v.pc = "done" /\ x.offset = v.offset ELSE x.offset < v.offset
            BY <4>1, <5>1 DEF Backward
          <5> QED BY <5>1, <5>2, <1>1, <2>1, <2>7, <3>1, <3>4
        <4>2. \A x \in L : x.type \in {"data", "abort"} /\ g.pc # "none"
          BY <2>7 DEF Backward, Left
        <4>3. ASSUME g.received < v.offset
              PROVE  \E x \in L : x.type = "data" /\ x.offset = v.offset - 1
          <5>1. ~m.final /\ f.received + 1 < v.offset
            BY <4>3, <1>1, <2>1, <2>7, <3>1, <3>4
          <5>2. PICK x \in N : x.type = "data" /\ x.offset = v.offset - 1
            BY <5>1, <1>3, <3>4 DEF Backward
          <5>3. x # m
            BY <5>1, <5>2, <3>1, <3>4
          <5> QED BY <5>2, <5>3 DEF Left
        <4>4. ASSUME v.pc = "done", ~g.last
              PROVE  \E x \in L : x.type = "data" /\ x.final
          <5>1. PICK x \in N : x.type = "data" /\ x.final
            BY <4>4, <1>3, <2>1 DEF Backward
          <5>2. x # m
            BY <4>4, <5>1, <2>7
          <5> QED BY <5>1, <5>2 DEF Left
        <4> QED BY <4>1, <4>2, <4>3, <4>4, <2>7 DEF Backward
      <3>8. Aborting(g, v, M, L)
        BY <3>3, <1>3, <2>7 DEF Aborting, Has, Left
      <3> QED BY <3>3, <3>5, <3>6, <3>7, <3>8
    <2> QED BY <1>3, <2>5, <2>7, <2>8, <2>9 DEF g, h
  <1> QED BY <1>2, <1>3 DEF FetchState

Requesting == [NoFetch EXCEPT !.pc = "request", !.reg = TRUE]

LEMMA FetchStarted ==
  ASSUME NEW v \in ServeState,
         NEW M \in SUBSET Message, NEW N \in SUBSET Message,
         Sound(NoFetch, v, M, N)
  PROVE  Requesting \in FetchState /\ Sound(Requesting, v, M, N)
  <1> DEFINE g == Requesting
  <1>0. <<>> \in Seq(Entry) /\ <<>> \in Seq(Nat) /\ Len(<<>>) = 0
    OBVIOUS
  <1>1. /\ NoFetch.pc = "none" /\ ~NoFetch.reg
        /\ g \in FetchState /\ g.pc = "request" /\ g.reg /\ g.received = 0 /\ ~g.last
        /\ g.queue = <<>> /\ g.sink = <<>>
    BY <1>0 DEF Requesting, NoFetch, FetchState, FetchPcs
  <1> HIDE DEF g
  <1> USE DEF Sound
  <1>2. v = NoServe /\ v.pc = "none" /\ ~v.reg /\ v.offset = 0 /\ v.acked = 0
    BY <1>1 DEF Matched, NoServe
  <1>3. M = {} /\ N = {}
    BY <1>1, <1>2 DEF Forward, Backward
  <1>4. Fetching(g)
    <2>1. Cap \in Nat /\ 0 <= Cap
      BY TransferAssumption
    <2> QED BY <1>0, <1>1, <2>1 DEF Fetching, Taken, Entered, Awaits, Results
  <1>5. Matched(g, v)
    BY <1>0, <1>1, <1>2 DEF Matched
  <1>6. Forward(g, v, M) /\ Backward(g, v, N)
    BY <1>0, <1>1, <1>2, <1>3 DEF Forward, Backward, Has
  <1>7. Aborting(g, v, M, N)
    <2>1. ~Noticed(g, "aborted")
      BY <1>0, <1>1 DEF Noticed
    <2> QED BY <1>1, <1>2, <1>3, <2>1 DEF Aborting, Has
  <1> QED BY <1>1, <1>4, <1>5, <1>6, <1>7 DEF g
-----------------------------------------------------------------------------
(* A step is about one transfer, and leaves the others as they were.        *)

LEMMA PeerFacts ==
  ASSUME NEW s \in Sides
  PROVE  /\ Peer(s) \in Sides /\ Peer(s) # s /\ Peer(Peer(s)) = s
         /\ \A t \in Sides : t = s \/ t = Peer(s)
         /\ \A i \in Ids : Mine(s, i) <=> ~Mine(Peer(s), i)
  <1>1. \A i \in Ids : i \in Nat /\ (i % 2 = 0 \/ i % 2 = 1)
    BY TransferAssumption DEF Ids
  <1>2. /\ Peer(s) \in Sides /\ Peer(s) # s /\ Peer(Peer(s)) = s
        /\ \A t \in Sides : t = s \/ t = Peer(s)
        /\ Parity(s) \in {0, 1} /\ Parity(Peer(s)) = 1 - Parity(s)
    BY DEF Sides, Peer, Parity
  <1> QED BY <1>1, <1>2 DEF Mine

FetchBecomes(s, i, g) ==
  /\ fetch' \in [Sides -> [Ids -> FetchState]]
  /\ \A t \in Sides, j \in Ids :
       fetch'[t][j] = IF t = s /\ j = i THEN g ELSE fetch[t][j]

ServeBecomes(s, i, w) ==
  /\ serve' \in [Sides -> [Ids -> ServeState]]
  /\ \A t \in Sides, j \in Ids :
       serve'[t][j] = IF t = s /\ j = i THEN w ELSE serve[t][j]

\* Of the messages on their way, a step touches those with id i only.
Flows(i) ==
  /\ later' \in [Sides -> SUBSET Ids] /\ out' \in [Sides -> Seq(Message)]
  /\ \A t \in Sides, j \in Ids : j # i =>
       InFlight(t, j)' = InFlight(t, j) /\ (Ordered(out[t], j) => Ordered(out'[t], j))

LEMMA Update ==
  ASSUME IInv, NEW s \in Sides, NEW i \in Ids, Mine(s, i), fetch[s][i].pc # "none",
         nextId' = nextId, Flows(i),
         NEW g \in FetchState, FetchBecomes(s, i, g),
         NEW w \in ServeState, ServeBecomes(Peer(s), i, w),
         Sound(g, w, InFlight(s, i)', InFlight(Peer(s), i)'),
         Ordered(out'[s], i), Ordered(out'[Peer(s)], i)
  PROVE  IInv'
  <1>0. fetch[s][i] # NoFetch
    BY DEF NoFetch
  <1>1. TypeOK'
    BY DEF IInv, TypeOK, FetchBecomes, ServeBecomes, Flows
  <1>2. Numbered'
    <2>1. ~(i >= nextId[s])
      BY <1>0 DEF IInv, Numbered
    <2>2. \A t \in Sides : Mine(t, nextId[t])' /\ nextId'[t] >= FirstId(t)
      BY DEF IInv, Numbered, Mine
    <2>3. ASSUME NEW t \in Sides, NEW j \in Ids, Mine(t, j)
          PROVE  serve'[t][j] = NoServe /\ (j >= nextId[t] => fetch'[t][j] = NoFetch)
      <3>1. CASE j = i
        <4>1. t = s /\ t # Peer(s)
          BY <2>3, <3>1, PeerFacts
        <4> QED BY <2>1, <2>3, <3>1, <4>1 DEF IInv, Numbered, ServeBecomes
      <3>2. CASE j # i
        BY <2>3, <3>2 DEF IInv, Numbered, FetchBecomes, ServeBecomes
      <3> QED BY <3>1, <3>2
    <2>4. ASSUME NEW t \in Sides, NEW j \in Ids, ~Mine(t, j)
          PROVE  fetch'[t][j] = NoFetch
      <3>1. ~(t = s /\ j = i)
        BY <2>4
      <3> QED BY <3>1, <2>4 DEF IInv, Numbered, FetchBecomes
    <2> QED BY <2>2, <2>3, <2>4 DEF Numbered, Mine
  <1>3. ASSUME NEW t \in Sides, NEW j \in Ids, Mine(t, j) PROVE Transfer(t, j)'
    <2>0. Peer(t) \in Sides
      BY PeerFacts
    <2>1. CASE j = i
      <3>1. t = s
        BY <2>1, <1>3, PeerFacts
      <3>2. fetch'[s][i] = g /\ serve'[Peer(s)][i] = w
        BY <2>0, <3>1 DEF FetchBecomes, ServeBecomes
      <3> QED BY <2>1, <3>1, <3>2 DEF Transfer
    <2>2. CASE j # i
      <3>1. /\ fetch'[t][j] = fetch[t][j] /\ serve'[Peer(t)][j] = serve[Peer(t)][j]
            /\ InFlight(t, j)' = InFlight(t, j)
            /\ InFlight(Peer(t), j)' = InFlight(Peer(t), j)
        BY <2>0, <2>2 DEF FetchBecomes, ServeBecomes, Flows
      <3>2. Transfer(t, j)
        BY <1>3 DEF IInv
      <3>3. Ordered(out'[t], j) /\ Ordered(out'[Peer(t)], j)
        BY <2>0, <2>2, <3>2 DEF Flows, Transfer
      <3> QED BY <3>1, <3>2, <3>3 DEF Transfer
    <2> QED BY <2>1, <2>2
  <1>4. \A t \in Sides, j \in Ids : Mine(t, j)' <=> Mine(t, j)
    BY DEF Mine
  <1> QED BY <1>1, <1>2, <1>3, <1>4 DEF IInv

\* What holds of the transfer a step is about.
LEMMA Here ==
  ASSUME IInv, NEW s \in Sides, NEW i \in Ids, Mine(s, i)
  PROVE  /\ fetch[s][i] \in FetchState /\ serve[Peer(s)][i] \in ServeState
         /\ InFlight(s, i) \in SUBSET Message /\ InFlight(Peer(s), i) \in SUBSET Message
         /\ Sound(fetch[s][i], serve[Peer(s)][i], InFlight(s, i), InFlight(Peer(s), i))
         /\ Ordered(out[s], i) /\ Ordered(out[Peer(s)], i)
         /\ serve[s][i] = NoServe /\ fetch[Peer(s)][i] = NoFetch
  <1>1. Peer(s) \in Sides /\ ~Mine(Peer(s), i)
    BY PeerFacts
  <1>2. /\ fetch[s][i] \in FetchState /\ serve[Peer(s)][i] \in ServeState
        /\ out[s] \in Seq(Message) /\ out[Peer(s)] \in Seq(Message)
    BY <1>1 DEF IInv, TypeOK
  <1>3. InFlight(s, i) \subseteq Message /\ InFlight(Peer(s), i) \subseteq Message
    <2>1. Range(out[s]) \subseteq Message /\ Range(out[Peer(s)]) \subseteq Message
      BY <1>2 DEF Range
    <2>2. Msg("abort", i) \in Message
      BY DEF Msg, Message
    <2> QED BY <2>1, <2>2 DEF InFlight, Pending, Of
  <1>4. serve[s][i] = NoServe /\ fetch[Peer(s)][i] = NoFetch
    BY <1>1 DEF IInv, Numbered
  <1> QED BY <1>2, <1>3, <1>4 DEF IInv, Transfer

\* A fetch, a serve or a message says whose id it has.
LEMMA Whose ==
  ASSUME IInv, NEW s \in Sides, NEW i \in Ids
  PROVE  /\ fetch[s][i].pc # "none" => Mine(s, i)
         /\ serve[s][i].pc # "none" => Mine(Peer(s), i) /\ fetch[Peer(s)][i].pc # "none"
         /\ \A m \in InFlight(s, i) :
              IF Mine(s, i) THEN fetch[s][i].pc # "none" /\ m.type # "data"
              ELSE fetch[Peer(s)][i].pc # "none" /\ m.type \in {"data", "abort"}
  <1>1. NoFetch.pc = "none" /\ NoServe.pc = "none"
    BY DEF NoFetch, NoServe
  <1>2. /\ fetch[s][i].pc # "none" => Mine(s, i)
        /\ serve[s][i].pc # "none" => Mine(Peer(s), i)
    BY <1>1, PeerFacts DEF IInv, Numbered
  <1>3. CASE Mine(s, i)
    <2>1. ~Mine(Peer(s), i) /\ Forward(fetch[s][i], serve[Peer(s)][i], InFlight(s, i))
      BY <1>3, Here, PeerFacts DEF Sound
    <2> QED BY <1>2, <1>3, <2>1 DEF Forward
  <1>4. CASE ~Mine(s, i)
    <2>1. Mine(Peer(s), i) /\ Peer(s) \in Sides /\ Peer(Peer(s)) = s
      BY <1>4, PeerFacts
    <2>2. /\ Backward(fetch[Peer(s)][i], serve[s][i], InFlight(s, i))
          /\ Matched(fetch[Peer(s)][i], serve[s][i])
      BY <2>1, Here DEF Sound
    <2> QED BY <1>1, <1>2, <1>4, <2>1, <2>2 DEF Backward, Matched
  <1> QED BY <1>3, <1>4

LEMMA Becomes ==
  ASSUME IInv, NEW s \in Sides, NEW i \in Ids
  PROVE  /\ \A g \in FetchState : SetFetch(s, i, g) => FetchBecomes(s, i, g)
         /\ UNCHANGED fetch => FetchBecomes(s, i, fetch[s][i])
         /\ \A w \in ServeState : SetServe(s, i, w) => ServeBecomes(s, i, w)
         /\ UNCHANGED serve => ServeBecomes(s, i, serve[s][i])
  <1>1. /\ fetch \in [Sides -> [Ids -> FetchState]]
        /\ serve \in [Sides -> [Ids -> ServeState]]
    BY DEF IInv, TypeOK
  <1>2. ASSUME NEW g \in FetchState, SetFetch(s, i, g) PROVE FetchBecomes(s, i, g)
    BY <1>1, <1>2 DEF SetFetch, FetchBecomes
  <1>3. ASSUME NEW w \in ServeState, SetServe(s, i, w) PROVE ServeBecomes(s, i, w)
    BY <1>1, <1>3 DEF SetServe, ServeBecomes
  <1>4. /\ UNCHANGED fetch => FetchBecomes(s, i, fetch[s][i])
        /\ UNCHANGED serve => ServeBecomes(s, i, serve[s][i])
    BY <1>1 DEF FetchBecomes, ServeBecomes
  <1> QED BY <1>2, <1>3, <1>4

-----------------------------------------------------------------------------
(* The four ways a step leaves the messages.                                *)

LEMMA Quiet ==
  ASSUME IInv, NEW i \in Ids, UNCHANGED <<later, out>>
  PROVE  /\ Flows(i) /\ \A t \in Sides : InFlight(t, i)' = InFlight(t, i)
  BY DEF IInv, TypeOK, Flows, InFlight, Pending

\* A task of s is left to send an Abort.
LEMMA Telling ==
  ASSUME IInv, NEW s \in Sides, NEW i \in Ids, AbortLater(s, i), UNCHANGED out
  PROVE  /\ Flows(i)
         /\ InFlight(s, i)' = InFlight(s, i) \cup {Msg("abort", i)}
         /\ InFlight(Peer(s), i)' = InFlight(Peer(s), i)
  <1>1. later \in [Sides -> SUBSET Ids] /\ out \in [Sides -> Seq(Message)]
    BY DEF IInv, TypeOK
  <1>2. /\ later' \in [Sides -> SUBSET Ids]
        /\ \A t \in Sides : later'[t] = IF t = s THEN later[t] \cup {i} ELSE later[t]
    BY <1>1 DEF AbortLater
  <1>3. Peer(s) \in Sides /\ Peer(s) # s
    BY PeerFacts
  <1>4. /\ InFlight(s, i)' = InFlight(s, i) \cup {Msg("abort", i)}
        /\ InFlight(Peer(s), i)' = InFlight(Peer(s), i)
    BY <1>2, <1>3 DEF InFlight, Pending
  <1>5. \A t \in Sides, j \in Ids : j # i => InFlight(t, j)' = InFlight(t, j)
    BY <1>2 DEF InFlight, Pending
  <1> QED BY <1>1, <1>2, <1>4, <1>5 DEF Flows

\* May m follow the messages M of the same id?
Follows(m, M) == \A x \in M : /\ x.type = "request" => m.type # "request"
                              /\ x.type = "data" /\ m.type = "data" => x.offset < m.offset

\* s sends m, of the id i.
LEMMA Posting ==
  ASSUME IInv, NEW s \in Sides, NEW m \in Message, NEW i \in Ids, m.id = i, Post(s, m),
         Follows(m, InFlight(s, i)), Ordered(out[s], i)
  PROVE  /\ out' \in [Sides -> Seq(Message)] /\ out'[Peer(s)] = out[Peer(s)]
         /\ Of(out'[s], i) = Of(out[s], i) \cup {m} /\ Ordered(out'[s], i)
         /\ \A t \in Sides, j \in Ids : j # i =>
              Of(out'[t], j) = Of(out[t], j) /\ (Ordered(out[t], j) => Ordered(out'[t], j))
  <1>1. Peer(s) \in Sides /\ Peer(s) # s
    BY PeerFacts
  <1>2. out \in [Sides -> Seq(Message)] /\ out[s] \in Seq(Message)
    BY DEF IInv, TypeOK
  <1>3. \A t \in Sides : out'[t] = IF t = s THEN Append(out[s], m) ELSE out[t]
    BY <1>2 DEF Post
  <1>4. /\ out' \in [Sides -> Seq(Message)]
    BY <1>2, OfAppend DEF Post
  <1>5. \A j \in Ids : Of(Append(out[s], m), j) = IF m.id = j THEN Of(out[s], j) \cup {m} ELSE Of(out[s], j)
    BY <1>2, OfAppend
  <1>6. \A x \in Of(out[s], i) : /\ x.type = "request" => m.type # "request"
                                 /\ x.type = "data" /\ m.type = "data" => x.offset < m.offset
    BY DEF Follows, InFlight, Pending
  <1>7. Ordered(Append(out[s], m), i)
    BY <1>2, <1>6, OrderedAppend
  <1>8. ASSUME NEW j \in Ids, j # i, Ordered(out[s], j) PROVE Ordered(Append(out[s], m), j)
    BY <1>2, <1>8, OrderedAppend
  <1> QED BY <1>1, <1>3, <1>4, <1>5, <1>7, <1>8

LEMMA Sending ==
  ASSUME IInv, NEW s \in Sides, NEW m \in Message, NEW i \in Ids, m.id = i, Post(s, m),
         Follows(m, InFlight(s, i)), Ordered(out[s], i), UNCHANGED later
  PROVE  /\ Flows(i) /\ InFlight(s, i)' = InFlight(s, i) \cup {m} /\ Ordered(out'[s], i)
         /\ InFlight(Peer(s), i)' = InFlight(Peer(s), i) /\ out'[Peer(s)] = out[Peer(s)]
  <1>1. later \in [Sides -> SUBSET Ids]
    BY DEF IInv, TypeOK
  <1>2. /\ out' \in [Sides -> Seq(Message)] /\ out'[Peer(s)] = out[Peer(s)]
        /\ Of(out'[s], i) = Of(out[s], i) \cup {m} /\ Ordered(out'[s], i)
        /\ \A t \in Sides, j \in Ids : j # i =>
             Of(out'[t], j) = Of(out[t], j) /\ (Ordered(out[t], j) => Ordered(out'[t], j))
    BY Posting
  <1> QED BY <1>1, <1>2 DEF Flows, InFlight, Pending

LEMMA AllOrdered == IInv => \A t \in Sides, i \in Ids : Ordered(out[t], i)
  <1> SUFFICES ASSUME IInv, NEW t \in Sides, NEW i \in Ids PROVE Ordered(out[t], i)
    OBVIOUS
  <1>1. CASE Mine(t, i)
    BY <1>1, Here
  <1>2. CASE ~Mine(t, i)
    BY <1>2, Here, PeerFacts
  <1> QED BY <1>1, <1>2

\* s has taken m, of the id i, from its peer's channel.
Took(s, type, m, i) ==
  /\ m \in Message /\ i \in Ids /\ m.type = type /\ m \in InFlight(Peer(s), i)
  /\ Left(m, InFlight(Peer(s), i), Of(out'[Peer(s)], i) \cup Pending(Peer(s), i))
  /\ Ordered(out'[Peer(s)], i) /\ Ordered(out'[s], i)
  /\ \A x \in Of(out'[Peer(s)], i) :
       /\ type = "request" => x.type # "request"
       /\ type = "data" /\ x.type = "data" => m.offset < x.offset
  /\ out' \in [Sides -> Seq(Message)] /\ out'[s] = out[s] /\ nextId' = nextId
  /\ \A t \in Sides, j \in Ids : j # i =>
       Of(out'[t], j) = Of(out[t], j) /\ (Ordered(out[t], j) => Ordered(out'[t], j))

LEMMA Taking ==
  ASSUME IInv, NEW s \in Sides, NEW type, Take(s, type),
         NEW m, m = Head(out[Peer(s)]), NEW i, i = m.id
  PROVE  Took(s, type, m, i)
  <1> DEFINE p == Peer(s)
             q == out[p]
  <1>1. p \in Sides /\ p # s /\ \A t \in Sides : t = s \/ t = p
    BY PeerFacts
  <1>2. /\ out \in [Sides -> Seq(Message)] /\ q \in Seq(Message) /\ q # <<>> /\ m.type = type
        /\ nextId' = nextId /\ m = Head(q)
    BY <1>1 DEF IInv, TypeOK, Take
  <1>3. \A t \in Sides : out'[t] = IF t = p THEN Tail(q) ELSE out[t]
    BY <1>1, <1>2 DEF Take
  <1>4. m \in Message /\ Tail(q) \in Seq(Message)
    BY <1>2
  <1>5. i \in Ids
    BY <1>4 DEF Message, DataMsg
  <1>6. out' \in [Sides -> Seq(Message)]
    BY <1>1, <1>2, <1>4 DEF Take
  <1> HIDE DEF q
  <1>7. \A j \in Ids : /\ j # i => Of(Tail(q), j) = Of(q, j)
                       /\ Ordered(q, j) => Ordered(Tail(q), j)
    BY <1>2, OfTail, OrderedTail
  <1>8. /\ m \in Of(q, i) /\ Of(Tail(q), i) \subseteq Of(q, i) /\ Of(q, i) \subseteq Of(Tail(q), i) \cup {m}
    BY <1>2, <1>5, OfTail
  <1>9. Ordered(q, i) =>
          \A x \in Of(Tail(q), i) : /\ type = "request" => x.type # "request"
                                    /\ type = "data" /\ x.type = "data" => m.offset < x.offset
    BY <1>2, <1>5, OrderedTail
  <1>10. Left(m, InFlight(p, i), Of(Tail(q), i) \cup Pending(p, i))
    BY <1>8 DEF Left, InFlight, Pending, q
  <1>11. m \in InFlight(p, i)
    BY <1>8 DEF InFlight, Pending, q
  <1>12. out'[p] = Tail(q) /\ out'[s] = out[s] /\ out[p] = q
    BY <1>1, <1>3 DEF q
  <1>13. \A t \in Sides, j \in Ids : j # i =>
                 Of(out'[t], j) = Of(out[t], j) /\ (Ordered(out[t], j) => Ordered(out'[t], j))
    BY <1>1, <1>7, <1>12
  <1>14. Ordered(q, i) /\ Ordered(out[s], i)
    BY <1>1, <1>5, AllOrdered DEF q
  <1> QED BY <1>2, <1>4, <1>5, <1>6, <1>7, <1>9, <1>10, <1>11, <1>12, <1>13, <1>14 DEF q, Took

\* What the handler of m, of the id i, finds; it may leave an Abort of i to a
\* task.
Handles(s, type, m, i) ==
  LET M == InFlight(Peer(s), i)
      L == InFlight(Peer(s), i)'
  IN /\ m \in Message /\ i \in Ids /\ m.type = type /\ m \in M /\ nextId' = nextId
     /\ Ordered(out'[s], i) /\ Ordered(out'[Peer(s)], i)
     /\ UNCHANGED later \/ AbortLater(s, i) =>
          /\ Flows(i) /\ Left(m, M, L)
          /\ type = "request" => ~Has(L, "request")
          /\ type = "data" => Later(m, L)
     /\ UNCHANGED later => InFlight(s, i)' = InFlight(s, i)
     /\ AbortLater(s, i) => InFlight(s, i)' = InFlight(s, i) \cup {Msg("abort", i)}

LEMMA Delivered ==
  ASSUME IInv, NEW s \in Sides, NEW type, Take(s, type),
         NEW m, m = Head(out[Peer(s)]), NEW i, i = m.id
  PROVE  Handles(s, type, m, i)
  <1> DEFINE p == Peer(s)
  <1>1. p \in Sides /\ p # s
    BY PeerFacts
  <1>2. Took(s, type, m, i)
    BY Taking
  <1>3. m \in Message /\ i \in Ids /\ m.type = type /\ m \in InFlight(p, i)
        /\ Left(m, InFlight(p, i), Of(out'[p], i) \cup Pending(p, i))
        /\ Ordered(out'[p], i) /\ Ordered(out'[s], i)
        /\ (\A x \in Of(out'[p], i) :
             /\ type = "request" => x.type # "request"
             /\ type = "data" /\ x.type = "data" => m.offset < x.offset)
        /\ out' \in [Sides -> Seq(Message)] /\ out'[s] = out[s] /\ nextId' = nextId
        /\ \A t \in Sides, j \in Ids : j # i =>
             Of(out'[t], j) = Of(out[t], j) /\ (Ordered(out[t], j) => Ordered(out'[t], j))
    BY <1>2 DEF Took
  <1>4. Msg("abort", i).type = "abort" /\ later \in [Sides -> SUBSET Ids]
    BY DEF Msg, IInv, TypeOK
  <1>5. ASSUME UNCHANGED later \/ AbortLater(s, i)
        PROVE  /\ later' \in [Sides -> SUBSET Ids] /\ later'[p] = later[p]
               /\ \A t \in Sides, j \in Ids : j # i => (j \in later'[t] <=> j \in later[t])
               /\ AbortLater(s, i) => i \in later'[s]
               /\ UNCHANGED later => later'[s] = later[s]
    <2>1. ASSUME AbortLater(s, i)
          PROVE  /\ later' \in [Sides -> SUBSET Ids]
                 /\ \A t \in Sides : later'[t] = IF t = s THEN later[t] \cup {i} ELSE later[t]
      BY <1>3, <1>4, <2>1 DEF AbortLater
    <2>2. ASSUME UNCHANGED later
          PROVE  later' \in [Sides -> SUBSET Ids] /\ \A t \in Sides : later'[t] = later[t]
      BY <1>4, <2>2
    <2>3. CASE AbortLater(s, i)
      BY <1>1, <2>1, <2>3
    <2>4. CASE UNCHANGED later
      BY <1>1, <2>1, <2>2, <2>4
    <2> QED BY <1>5, <2>3, <2>4
  <1> HIDE DEF p
  <1>6. ASSUME UNCHANGED later \/ AbortLater(s, i)
        PROVE  Flows(i) /\ InFlight(p, i)' = Of(out'[p], i) \cup Pending(p, i)
    <2>1. \A t \in Sides, j \in Ids : j # i => InFlight(t, j)' = InFlight(t, j)
      BY <1>3, <1>5, <1>6 DEF InFlight, Pending
    <2>2. Flows(i)
      BY <1>3, <1>5, <1>6, <2>1 DEF Flows
    <2> QED BY <1>5, <1>6, <2>2 DEF InFlight, Pending
  <1>7. /\ UNCHANGED later => InFlight(s, i)' = InFlight(s, i)
        /\ AbortLater(s, i) => InFlight(s, i)' = InFlight(s, i) \cup {Msg("abort", i)}
    BY <1>3, <1>5 DEF InFlight, Pending
  <1>8. ASSUME UNCHANGED later \/ AbortLater(s, i)
        PROVE  /\ type = "request" => ~Has(InFlight(p, i)', "request")
               /\ type = "data" => Later(m, InFlight(p, i)')
    BY <1>3, <1>4, <1>6, <1>8 DEF Has, Later, Pending
  <1> QED BY <1>3, <1>6, <1>7, <1>8 DEF p, Handles

-----------------------------------------------------------------------------
(* The actions.                                                             *)

LEMMA FetchStep ==
  ASSUME IInv, NEW s \in Sides, Fetch(s)
  PROVE  IInv'
  <1> DEFINE i == nextId[s]
  <1>1. /\ nextId \in [Sides -> Nat] /\ i \in Nat /\ i < FirstId(s) + 2 * Allowed(s)
        /\ nextId' = [nextId EXCEPT ![s] = i + 2] /\ UNCHANGED <<serve, later, out>>
        /\ fetch' = [fetch EXCEPT ![s][i] = Requesting]
    BY DEF IInv, TypeOK, Fetch, SetFetch, Requesting
  <1>2. i \in Ids /\ Mine(s, i)
    <2>1. i % 2 = Parity(s) /\ i >= FirstId(s) /\ Mine(s, i)
      BY DEF IInv, Numbered, Mine
    <2>2. ClientFetches \in Nat /\ ServerFetches \in Nat
      BY TransferAssumption
    <2>3. CASE s = "client"
      BY <1>1, <2>1, <2>2, <2>3 DEF Ids, FirstId, Allowed
    <2>4. CASE s = "server"
      <3>1. i % 2 = 0 /\ i >= 2 /\ i < 2 + 2 * ServerFetches
        BY <1>1, <2>1, <2>4 DEF FirstId, Allowed, Parity
      <3> QED BY <1>1, <2>1, <2>2, <3>1 DEF Ids
    <2> QED BY <2>3, <2>4 DEF Sides
  <1>3. fetch[s][i] = NoFetch /\ Peer(s) \in Sides
    BY <1>1, <1>2, PeerFacts DEF IInv, Numbered
  <1>4. /\ Requesting \in FetchState
        /\ Sound(Requesting, serve[Peer(s)][i], InFlight(s, i), InFlight(Peer(s), i))
        /\ Ordered(out[s], i) /\ Ordered(out[Peer(s)], i)
    BY <1>2, <1>3, Here, FetchStarted
  <1> HIDE DEF i
  <1>5. FetchBecomes(s, i, Requesting)
    BY <1>1, <1>2, <1>4, Becomes DEF SetFetch
  <1>6. TypeOK'
    <2>1. nextId' \in [Sides -> Nat]
      BY <1>1
    <2> QED BY <1>1, <1>5, <2>1 DEF IInv, TypeOK, FetchBecomes
  <1>7. \A t \in Sides : nextId'[t] = IF t = s THEN i + 2 ELSE nextId[t]
    BY <1>1
  <1>8. Numbered'
    <2>1. ASSUME NEW t \in Sides
          PROVE  Mine(t, nextId'[t]) /\ nextId'[t] >= FirstId(t)
      <3>1. Mine(t, nextId[t]) /\ nextId[t] >= FirstId(t) /\ FirstId(t) \in Nat
        BY DEF IInv, Numbered, FirstId
      <3>2. CASE t = s
        <4>1. i % 2 = Parity(s) /\ i >= FirstId(s) /\ (i + 2) % 2 = i % 2
          BY <1>1, <3>1, <3>2 DEF Mine, i
        <4> QED BY <1>1, <1>7, <3>1, <3>2, <4>1 DEF Mine
      <3>3. CASE t # s
        BY <1>7, <3>1, <3>3
      <3> QED BY <3>2, <3>3
    <2>2. ASSUME NEW t \in Sides, NEW j \in Ids, Mine(t, j)
          PROVE  serve'[t][j] = NoServe /\ (j >= nextId'[t] => fetch'[t][j] = NoFetch)
      <3>1. serve[t][j] = NoServe /\ (j >= nextId[t] => fetch[t][j] = NoFetch)
        BY <2>2 DEF IInv, Numbered
      <3>2. t = s => (j >= i + 2 => j >= i /\ j # i)
        BY <1>1 DEF Ids
      <3> QED BY <1>1, <1>5, <1>7, <3>1, <3>2 DEF i, FetchBecomes
    <2>3. ASSUME NEW t \in Sides, NEW j \in Ids, ~Mine(t, j) PROVE fetch'[t][j] = NoFetch
      BY <1>2, <1>5, <2>3 DEF IInv, Numbered, FetchBecomes
    <2> QED BY <1>1, <2>1, <2>2, <2>3 DEF Numbered, Mine
  <1>9. ASSUME NEW t \in Sides, NEW j \in Ids, Mine(t, j) PROVE Transfer(t, j)'
    <2>1. CASE j = i
      <3>1. t = s
        BY <1>2, <2>1, <1>9, PeerFacts
      <3>2. fetch'[s][i] = Requesting
        BY <1>2, <1>5 DEF FetchBecomes
      <3> QED BY <1>1, <1>4, <2>1, <3>1, <3>2 DEF Transfer, InFlight, Pending
    <2>2. CASE j # i
      <3>1. fetch'[t][j] = fetch[t][j]
        BY <1>5, <2>2 DEF FetchBecomes
      <3> QED BY <1>1, <1>9, <3>1 DEF IInv, Transfer, InFlight, Pending
    <2> QED BY <2>1, <2>2
  <1>10. \A t \in Sides, j \in Ids : Mine(t, j)' <=> Mine(t, j)
    BY DEF Mine
  <1> QED BY <1>6, <1>8, <1>9, <1>10 DEF IInv

\* A step of fetch i of s that sends nothing.
LEMMA FetchGoes ==
  ASSUME IInv, NEW s \in Sides, NEW i \in Ids, fetch[s][i].pc # "none", UNCHANGED <<nextId, serve, out>>,
         NEW g \in FetchState, SetFetch(s, i, g),
         \/ /\ UNCHANGED later
            /\ Sound(g, serve[Peer(s)][i], InFlight(s, i), InFlight(Peer(s), i))
         \/ /\ AbortLater(s, i)
            /\ Sound(g, serve[Peer(s)][i], InFlight(s, i) \cup {Msg("abort", i)},
                     InFlight(Peer(s), i))
  PROVE  IInv'
  <1>1. Mine(s, i) /\ Peer(s) \in Sides
    BY Whose, PeerFacts
  <1>2. FetchBecomes(s, i, g) /\ ServeBecomes(Peer(s), i, serve[Peer(s)][i])
        /\ serve[Peer(s)][i] \in ServeState
    BY <1>1, Becomes, Here
  <1>3. Ordered(out'[s], i) /\ Ordered(out'[Peer(s)], i)
    BY <1>1, AllOrdered
  <1>4. Flows(i) /\ Sound(g, serve[Peer(s)][i], InFlight(s, i)', InFlight(Peer(s), i)')
    <2>1. CASE /\ UNCHANGED later
               /\ Sound(g, serve[Peer(s)][i], InFlight(s, i), InFlight(Peer(s), i))
      BY <1>1, <2>1, Quiet
    <2>2. CASE /\ AbortLater(s, i)
               /\ Sound(g, serve[Peer(s)][i], InFlight(s, i) \cup {Msg("abort", i)},
                        InFlight(Peer(s), i))
      BY <2>2, Telling
    <2> QED BY <2>1, <2>2
  <1> QED BY <1>1, <1>2, <1>3, <1>4, Update

\* A step of serve i of s that sends nothing.
LEMMA ServeGoes ==
  ASSUME IInv, NEW s \in Sides, NEW i \in Ids, serve[s][i].pc # "none", UNCHANGED <<nextId, fetch, out>>,
         NEW w \in ServeState, SetServe(s, i, w),
         \/ /\ UNCHANGED later
            /\ Sound(fetch[Peer(s)][i], w, InFlight(Peer(s), i), InFlight(s, i))
         \/ /\ AbortLater(s, i)
            /\ Sound(fetch[Peer(s)][i], w, InFlight(Peer(s), i),
                     InFlight(s, i) \cup {Msg("abort", i)})
  PROVE  IInv'
  <1>1. Mine(Peer(s), i) /\ Peer(s) \in Sides /\ Peer(Peer(s)) = s /\ fetch[Peer(s)][i].pc # "none"
    BY Whose, PeerFacts
  <1>2. ServeBecomes(s, i, w) /\ FetchBecomes(Peer(s), i, fetch[Peer(s)][i])
        /\ fetch[Peer(s)][i] \in FetchState
    BY <1>1, Becomes, Here
  <1>3. Ordered(out'[s], i) /\ Ordered(out'[Peer(s)], i)
    BY <1>1, AllOrdered
  <1>4. Flows(i) /\ Sound(fetch[Peer(s)][i], w, InFlight(Peer(s), i)', InFlight(s, i)')
    <2>1. CASE /\ UNCHANGED later
               /\ Sound(fetch[Peer(s)][i], w, InFlight(Peer(s), i), InFlight(s, i))
      BY <1>1, <2>1, Quiet
    <2>2. CASE /\ AbortLater(s, i)
               /\ Sound(fetch[Peer(s)][i], w, InFlight(Peer(s), i),
                        InFlight(s, i) \cup {Msg("abort", i)})
      BY <2>2, Telling
    <2> QED BY <2>1, <2>2
  <1> QED BY <1>1, <1>2, <1>3, <1>4, Update

LEMMA ReceiveStep ==
  ASSUME IInv, NEW s \in Sides, NEW i \in Ids, Receive(s, i)
  PROVE  IInv'
  <1> DEFINE f == fetch[s][i]
  <1>1. /\ SetFetch(s, i, AfterReceive(f)) /\ f.pc = "recv" /\ (f.queue # <<>> \/ ~f.reg)
        /\ UNCHANGED <<nextId, serve, later, out>>
    BY DEF Receive, AfterReceive
  <1>2. Mine(s, i)
    BY <1>1, Whose
  <1> HIDE DEF f
  <1>3. AfterReceive(f) \in FetchState
        /\ Sound(AfterReceive(f), serve[Peer(s)][i], InFlight(s, i), InFlight(Peer(s), i))
    BY <1>1, <1>2, Here, Received DEF f
  <1> QED BY <1>1, <1>3, FetchGoes DEF f

LEMMA WriteStep ==
  ASSUME IInv, NEW s \in Sides, NEW i \in Ids, Write(s, i)
  PROVE  IInv'
  <1> DEFINE f == fetch[s][i]
  <1>1. /\ SetFetch(s, i, AfterWrite(f)) /\ f.pc = "write"
        /\ UNCHANGED <<nextId, serve, later, out>>
    BY DEF Write, AfterWrite
  <1>2. Mine(s, i)
    BY <1>1, Whose
  <1> HIDE DEF f
  <1>3. AfterWrite(f) \in FetchState
        /\ Sound(AfterWrite(f), serve[Peer(s)][i], InFlight(s, i), InFlight(Peer(s), i))
    BY <1>1, <1>2, Here, Written DEF f
  <1> QED BY <1>1, <1>3, FetchGoes DEF f

LEMMA FinishStep ==
  ASSUME IInv, NEW s \in Sides, NEW i \in Ids, Finish(s, i)
  PROVE  IInv'
  <1> DEFINE f == fetch[s][i]
  <1>1. /\ SetFetch(s, i, AfterFinish(f)) /\ f.pc = "finish"
        /\ UNCHANGED <<nextId, serve, later, out>>
    BY DEF Finish, AfterFinish
  <1>2. Mine(s, i)
    BY <1>1, Whose
  <1> HIDE DEF f
  <1>3. AfterFinish(f) \in FetchState
        /\ Sound(AfterFinish(f), serve[Peer(s)][i], InFlight(s, i), InFlight(Peer(s), i))
    BY <1>1, <1>2, Here, Finished DEF f
  <1> QED BY <1>1, <1>3, FetchGoes DEF f

LEMMA GiveUpStep ==
  ASSUME IInv, NEW s \in Sides, NEW i \in Ids,
         FetchTimeout(s, i) \/ SinkFails(s, i) \/ Cancel(s, i)
  PROVE  IInv'
  <1> DEFINE f == fetch[s][i]
  <1>1. PICK why \in {"timeout", "io", "cancelled"} : GiveUp(s, i, why)
    BY DEF FetchTimeout, SinkFails, Cancel
  <1>2. f.pc \in Awaits \cup {"finish"}
    BY DEF FetchTimeout, SinkFails, Cancel, Idle, Awaits
  <1>3. /\ SetFetch(s, i, Ended(f, why))
        /\ IF f.reg THEN AbortLater(s, i) ELSE UNCHANGED later
        /\ UNCHANGED <<nextId, serve, out>>
    BY <1>1 DEF GiveUp, Ended
  <1>4. f.pc # "none"
    BY <1>2 DEF Awaits
  <1>5. Mine(s, i)
    BY <1>4, Whose
  <1> HIDE DEF f
  <1>6. /\ Ended(f, why) \in FetchState
        /\ f.reg => Sound(Ended(f, why), serve[Peer(s)][i],
                          InFlight(s, i) \cup {Msg("abort", i)}, InFlight(Peer(s), i))
        /\ ~f.reg => Sound(Ended(f, why), serve[Peer(s)][i], InFlight(s, i), InFlight(Peer(s), i))
    BY <1>2, <1>5, Here, GivenUp DEF f
  <1>7. CASE f.reg
    BY <1>3, <1>4, <1>6, <1>7, FetchGoes DEF f
  <1>8. CASE ~f.reg
    BY <1>3, <1>4, <1>6, <1>8, FetchGoes DEF f
  <1> QED BY <1>7, <1>8

LEMMA OpenStep ==
  ASSUME IInv, NEW s \in Sides, NEW i \in Ids, Open(s, i) \/ OpenFails(s, i)
  PROVE  IInv'
  <1> DEFINE f == fetch[Peer(s)][i]
             v == serve[s][i]
             M == InFlight(Peer(s), i)
             N == InFlight(s, i)
  <1>1. v.pc = "opening" /\ UNCHANGED <<nextId, fetch, out>>
    BY DEF Open, OpenFails
  <1>2. Mine(Peer(s), i) /\ Peer(s) \in Sides /\ Peer(Peer(s)) = s
    BY <1>1, Whose, PeerFacts
  <1>3. /\ f \in FetchState /\ v \in ServeState /\ M \in SUBSET Message /\ N \in SUBSET Message
        /\ Sound(f, v, M, N)
    BY <1>2, Here
  <1>4. CASE Open(s, i)
    <2>1. SetServe(s, i, Started) /\ UNCHANGED later
      BY <1>4 DEF Open
    <2>2. Sound(f, Started, M, N) /\ Started \in ServeState
      BY <1>1, <1>3, Opened, StartedFacts
    <2> QED BY <1>1, <2>1, <2>2, ServeGoes
  <1>5. CASE OpenFails(s, i)
    <2>1. SetServe(s, i, Refused) /\ AbortLater(s, i)
      BY <1>5 DEF OpenFails, Refused
    <2>2. Sound(f, Refused, M, N \cup {Msg("abort", i)}) /\ Refused \in ServeState
      BY <1>1, <1>3, OpenRefused, RefusedFacts
    <2> QED BY <1>1, <2>1, <2>2, ServeGoes
  <1> QED BY <1>4, <1>5

LEMMA ServeAloneStep ==
  ASSUME IInv, NEW s \in Sides, NEW i \in Ids, Wake(s, i) \/ Read(s, i) \/ ServeTimeout(s, i)
  PROVE  IInv'
  <1> DEFINE f == fetch[Peer(s)][i]
             v == serve[s][i]
             M == InFlight(Peer(s), i)
             N == InFlight(s, i)
  <1>1. v.pc \in {"read", "credit"} /\ UNCHANGED <<nextId, fetch, later, out>>
    BY DEF Wake, Read, ServeTimeout, Waits
  <1>2. PICK w : SetServe(s, i, w) /\ \/ v.pc = "credit" /\ w = Awake(v)
                                      \/ v.pc = "read" /\ w \in {Chunk(v), LastChunk(v)}
                                      \/ w = Failed(v)
    BY DEF Wake, Read, ServeTimeout, Awake, Chunk, LastChunk, AfterReadError
  <1>3. v.pc # "none"
    BY <1>1
  <1>4. Mine(Peer(s), i) /\ Peer(s) \in Sides /\ Peer(Peer(s)) = s
    BY <1>3, Whose, PeerFacts
  <1>5. /\ f \in FetchState /\ v \in ServeState /\ M \in SUBSET Message /\ N \in SUBSET Message
        /\ Sound(f, v, M, N)
    BY <1>4, Here
  <1> HIDE DEF f, v, M, N
  <1>6. w \in ServeState /\ Sound(f, w, M, N)
    BY <1>1, <1>2, <1>5, Woken, ReadOn, ServeFailed
  <1> QED BY <1>1, <1>2, <1>3, <1>6, ServeGoes DEF f, v, M, N

\* Fetch i of s sends m.
LEMMA FetchSends ==
  ASSUME IInv, NEW s \in Sides, NEW i \in Ids, fetch[s][i].pc # "none",
         UNCHANGED <<nextId, serve, later>>,
         NEW g \in FetchState, SetFetch(s, i, g),
         NEW m \in Message, m.id = i, Post(s, m), Follows(m, InFlight(s, i)),
         Sound(g, serve[Peer(s)][i], InFlight(s, i) \cup {m}, InFlight(Peer(s), i))
  PROVE  IInv'
  <1>1. Mine(s, i) /\ Peer(s) \in Sides
    BY Whose, PeerFacts
  <1>2. FetchBecomes(s, i, g) /\ ServeBecomes(Peer(s), i, serve[Peer(s)][i])
        /\ serve[Peer(s)][i] \in ServeState
    BY <1>1, Becomes, Here
  <1>3. Ordered(out[s], i) /\ Ordered(out[Peer(s)], i)
    BY <1>1, AllOrdered
  <1>4. /\ Flows(i) /\ InFlight(s, i)' = InFlight(s, i) \cup {m} /\ Ordered(out'[s], i)
        /\ InFlight(Peer(s), i)' = InFlight(Peer(s), i) /\ out'[Peer(s)] = out[Peer(s)]
    BY <1>3, Sending
  <1> QED BY <1>1, <1>2, <1>3, <1>4, Update

\* Serve i of s sends m.
LEMMA ServeSends ==
  ASSUME IInv, NEW s \in Sides, NEW i \in Ids, serve[s][i].pc # "none",
         UNCHANGED <<nextId, fetch, later>>,
         NEW w \in ServeState, SetServe(s, i, w),
         NEW m \in Message, m.id = i, Post(s, m), Follows(m, InFlight(s, i)),
         Sound(fetch[Peer(s)][i], w, InFlight(Peer(s), i), InFlight(s, i) \cup {m})
  PROVE  IInv'
  <1>1. Mine(Peer(s), i) /\ Peer(s) \in Sides /\ Peer(Peer(s)) = s /\ fetch[Peer(s)][i].pc # "none"
    BY Whose, PeerFacts
  <1>2. ServeBecomes(s, i, w) /\ FetchBecomes(Peer(s), i, fetch[Peer(s)][i])
        /\ fetch[Peer(s)][i] \in FetchState
    BY <1>1, Becomes, Here
  <1>3. Ordered(out[s], i) /\ Ordered(out[Peer(s)], i)
    BY <1>1, AllOrdered
  <1>4. /\ Flows(i) /\ InFlight(s, i)' = InFlight(s, i) \cup {m} /\ Ordered(out'[s], i)
        /\ InFlight(Peer(s), i)' = InFlight(Peer(s), i) /\ out'[Peer(s)] = out[Peer(s)]
    BY <1>3, Sending
  <1> QED BY <1>1, <1>2, <1>3, <1>4, Update

LEMMA SendRequestStep ==
  ASSUME IInv, NEW s \in Sides, NEW i \in Ids, SendRequest(s, i)
  PROVE  IInv'
  <1> DEFINE f == fetch[s][i]
             m == Msg("request", i)
  <1>1. /\ f.pc = "request" /\ Post(s, m) /\ SetFetch(s, i, Sent(f))
        /\ UNCHANGED <<nextId, serve, later>>
    BY DEF SendRequest, Sent
  <1>2. Mine(s, i)
    BY <1>1, Whose
  <1>3. m \in Message /\ m.id = i /\ m.type = "request"
    BY DEF Msg, Message
  <1> HIDE DEF f, m
  <1>4. /\ Sent(f) \in FetchState /\ ~Has(InFlight(s, i), "request")
        /\ Sound(Sent(f), serve[Peer(s)][i], InFlight(s, i) \cup {m}, InFlight(Peer(s), i))
    BY <1>1, <1>2, Here, RequestSent DEF f, m
  <1>5. Follows(m, InFlight(s, i))
    BY <1>3, <1>4 DEF Follows, Has
  <1> QED BY <1>1, <1>3, <1>4, <1>5, FetchSends DEF f

LEMMA SendAckStep ==
  ASSUME IInv, NEW s \in Sides, NEW i \in Ids, SendAck(s, i)
  PROVE  IInv'
  <1> DEFINE f == fetch[s][i]
             m == Ack(i, f)
  <1>1. /\ f.pc = "ack" /\ Post(s, m) /\ SetFetch(s, i, Sent(f))
        /\ UNCHANGED <<nextId, serve, later>>
    BY DEF SendAck, Sent, Ack
  <1>2. Mine(s, i)
    BY <1>1, Whose
  <1>3. m.id = i /\ m.type = "ack"
    BY DEF Ack
  <1> HIDE DEF f, m
  <1>4. /\ Sent(f) \in FetchState /\ m \in Message
        /\ Sound(Sent(f), serve[Peer(s)][i], InFlight(s, i) \cup {m}, InFlight(Peer(s), i))
    BY <1>1, <1>2, Here, AckSent DEF f, m
  <1>5. Follows(m, InFlight(s, i))
    BY <1>3 DEF Follows
  <1> QED BY <1>1, <1>3, <1>4, <1>5, FetchSends DEF f

LEMMA SendDataStep ==
  ASSUME IInv, NEW s \in Sides, NEW i \in Ids, SendData(s, i)
  PROVE  IInv'
  <1> DEFINE f == fetch[Peer(s)][i]
             v == serve[s][i]
             M == InFlight(Peer(s), i)
             N == InFlight(s, i)
             m == DataOf(i, v)
  <1>1. /\ v.pc = "send" /\ Post(s, m) /\ SetServe(s, i, AfterSend(v))
        /\ UNCHANGED <<nextId, fetch, later>>
    BY DEF SendData, AfterSend, DataOf
  <1>2. Mine(Peer(s), i) /\ Peer(s) \in Sides /\ Peer(Peer(s)) = s
    BY <1>1, Whose, PeerFacts
  <1>3. m.id = i /\ m.type = "data"
    BY DEF DataOf
  <1>4. /\ f \in FetchState /\ v \in ServeState /\ M \in SUBSET Message /\ N \in SUBSET Message
        /\ Sound(f, v, M, N)
    BY <1>2, Here
  <1> HIDE DEF f, v, M, N
  <1>5. /\ AfterSend(v) \in ServeState /\ m \in Message
        /\ Sound(f, AfterSend(v), M, N \cup {m})
        /\ \A x \in N : x.type = "data" => x.offset < m.offset
    BY <1>1, <1>4, DataSent
  <1> HIDE DEF m
  <1>6. Follows(m, N)
    BY <1>3, <1>5 DEF Follows
  <1> QED BY <1>1, <1>3, <1>5, <1>6, ServeSends DEF f, v, M, N

LEMMA SendAbortStep ==
  ASSUME IInv, NEW s \in Sides, NEW i \in Ids, SendAbort(s, i)
  PROVE  IInv'
  <1> DEFINE v == serve[s][i]
             m == Msg("abort", i)
  <1>1. /\ v.pc = "abort" /\ Post(s, m) /\ SetServe(s, i, AfterAbort(v))
        /\ UNCHANGED <<nextId, fetch, later>>
    BY DEF SendAbort, AfterAbort
  <1>2. Mine(Peer(s), i) /\ Peer(s) \in Sides /\ Peer(Peer(s)) = s
    BY <1>1, Whose, PeerFacts
  <1>3. m \in Message /\ m.id = i /\ m.type = "abort"
    BY DEF Msg, Message
  <1> HIDE DEF v, m
  <1>4. /\ AfterAbort(v) \in ServeState
        /\ Sound(fetch[Peer(s)][i], AfterAbort(v), InFlight(Peer(s), i), InFlight(s, i) \cup {m})
    BY <1>1, <1>2, Here, ServeAborts DEF v, m
  <1>5. Follows(m, InFlight(s, i))
    BY <1>3 DEF Follows
  <1> QED BY <1>1, <1>3, <1>4, <1>5, ServeSends DEF v

\* The Abort left to a task was on its way already.
LEMMA SendLaterStep ==
  ASSUME IInv, NEW s \in Sides, NEW i \in Ids, SendLater(s, i)
  PROVE  IInv'
  <1> DEFINE m == Msg("abort", i)
             p == Peer(s)
  <1>1. /\ i \in later[s] /\ Post(s, m) /\ later' = [later EXCEPT ![s] = @ \ {i}]
        /\ UNCHANGED <<nextId, fetch, serve>>
    BY DEF SendLater
  <1>2. m \in Message /\ m.id = i /\ m.type = "abort"
    BY DEF Msg, Message
  <1>3. /\ p \in Sides /\ p # s /\ Peer(p) = s
        /\ later \in [Sides -> SUBSET Ids]
    BY PeerFacts DEF IInv, TypeOK
  <1>4. /\ later' \in [Sides -> SUBSET Ids]
        /\ \A t \in Sides : later'[t] = IF t = s THEN later[s] \ {i} ELSE later[t]
    BY <1>1, <1>3
  <1>5. Follows(m, InFlight(s, i)) /\ Ordered(out[s], i) /\ Ordered(out[p], i)
    BY <1>2, <1>3, AllOrdered DEF Follows
  <1>6. /\ out' \in [Sides -> Seq(Message)] /\ out'[p] = out[p]
        /\ Of(out'[s], i) = Of(out[s], i) \cup {m} /\ Ordered(out'[s], i)
        /\ \A t \in Sides, j \in Ids : j # i =>
             Of(out'[t], j) = Of(out[t], j) /\ (Ordered(out[t], j) => Ordered(out'[t], j))
    BY <1>1, <1>2, <1>5, Posting
  <1>7. InFlight(s, i)' = InFlight(s, i) /\ InFlight(p, i)' = InFlight(p, i)
    BY <1>1, <1>3, <1>4, <1>6 DEF InFlight, Pending
  <1>8. Flows(i)
    <2>1. \A t \in Sides, j \in Ids : j # i => (j \in later'[t] <=> j \in later[t])
      BY <1>4
    <2>2. \A t \in Sides, j \in Ids : j # i => InFlight(t, j)' = InFlight(t, j)
      BY <1>6, <2>1 DEF InFlight, Pending
    <2> QED BY <1>4, <1>6, <2>2 DEF Flows
  <1>9. m \in InFlight(s, i)
    BY <1>1 DEF InFlight, Pending
  <1> HIDE DEF m, p
  <1>10. CASE Mine(s, i)
    <2>1. /\ fetch[s][i].pc # "none" /\ fetch[s][i] \in FetchState /\ serve[p][i] \in ServeState
          /\ Sound(fetch[s][i], serve[p][i], InFlight(s, i), InFlight(p, i))
      BY <1>9, <1>10, Whose, Here DEF p
    <2>2. FetchBecomes(s, i, fetch[s][i]) /\ ServeBecomes(p, i, serve[p][i])
      BY <1>1, <1>3, Becomes
    <2> QED BY <1>1, <1>5, <1>6, <1>7, <1>8, <1>10, <2>1, <2>2, Update DEF p
  <1>11. CASE ~Mine(s, i)
    <2>1. Mine(p, i)
      BY <1>11, PeerFacts DEF p
    <2>2. /\ fetch[p][i].pc # "none" /\ fetch[p][i] \in FetchState /\ serve[s][i] \in ServeState
          /\ Sound(fetch[p][i], serve[s][i], InFlight(p, i), InFlight(s, i))
      BY <1>3, <1>9, <1>11, <2>1, Whose, Here DEF p
    <2>3. FetchBecomes(p, i, fetch[p][i]) /\ ServeBecomes(s, i, serve[s][i])
      BY <1>1, <1>3, Becomes
    <2> QED BY <1>1, <1>3, <1>5, <1>6, <1>7, <1>8, <2>1, <2>2, <2>3, Update
  <1> QED BY <1>10, <1>11

LEMMA OnRequestStep ==
  ASSUME IInv, NEW s \in Sides, OnRequest(s)
  PROVE  IInv'
  <1> DEFINE p == Peer(s)
  <1>1. PICK m, i : m = Head(out[p]) /\ i = m.id
    OBVIOUS
  <1>2. /\ Take(s, "request") /\ fetch' = fetch
        /\ \/ /\ i % 2 # Parity(s)
              /\ SetServe(s, i, Started) \/ SetServe(s, i, Opening)
              /\ UNCHANGED later
           \/ /\ SetServe(s, i, IF i % 2 = Parity(s) THEN serve[s][i] ELSE Refused)
              /\ AbortLater(s, i)
    BY <1>1 DEF OnRequest, Opening, Refused
  <1>3. Handles(s, "request", m, i)
    BY <1>1, <1>2, Delivered
  <1>4. /\ i \in Ids /\ m.type = "request" /\ m \in InFlight(p, i) /\ nextId' = nextId
        /\ Ordered(out'[s], i) /\ Ordered(out'[p], i)
        /\ Flows(i) /\ Left(m, InFlight(p, i), InFlight(p, i)') /\ ~Has(InFlight(p, i)', "request")
    BY <1>2, <1>3 DEF Handles
  <1>5. p \in Sides /\ Peer(p) = s
    BY PeerFacts
  <1>6. Mine(p, i) /\ ~Mine(s, i) /\ fetch[p][i].pc # "none"
    BY <1>4, <1>5, Whose, PeerFacts
  <1>7. i % 2 # Parity(s)
    BY <1>6 DEF Mine
  <1> DEFINE f == fetch[p][i]
             v == serve[s][i]
             M == InFlight(p, i)
             L == InFlight(p, i)'
             N == InFlight(s, i)
  <1>8. /\ f \in FetchState /\ v \in ServeState /\ M \in SUBSET Message /\ N \in SUBSET Message
        /\ Sound(f, v, M, N)
    BY <1>4, <1>5, <1>6, Here
  <1>9. FetchBecomes(p, i, f)
    BY <1>2, <1>4, <1>5, Becomes
  <1> HIDE DEF f, v, M, L, N
  <1>10. /\ Sound(f, Started, L, N) /\ Sound(f, Opening, L, N)
         /\ Sound(f, Refused, L, N \cup {Msg("abort", i)}) /\ Opening \in ServeState
    BY <1>4, <1>8, RequestTaken DEF M, L
  <1>11. CASE UNCHANGED later /\ (SetServe(s, i, Started) \/ SetServe(s, i, Opening))
    <2>1. PICK w \in {Started, Opening} : SetServe(s, i, w)
      BY <1>11
    <2>2. w \in ServeState /\ ServeBecomes(s, i, w) /\ Sound(f, w, L, N)
      BY <1>4, <1>10, <2>1, StartedFacts, Becomes
    <2>3. InFlight(s, i)' = N
      BY <1>3, <1>11 DEF Handles, N
    <2> QED BY <1>4, <1>5, <1>6, <1>8, <1>9, <2>2, <2>3, Update DEF L, f
  <1>12. CASE AbortLater(s, i) /\ SetServe(s, i, Refused)
    <2>1. Refused \in ServeState /\ ServeBecomes(s, i, Refused)
      BY <1>4, <1>12, RefusedFacts, Becomes
    <2>2. InFlight(s, i)' = N \cup {Msg("abort", i)}
      BY <1>3, <1>12 DEF Handles, N
    <2> QED BY <1>4, <1>5, <1>6, <1>8, <1>9, <1>10, <2>1, <2>2, Update DEF L, f
  <1> QED BY <1>2, <1>7, <1>11, <1>12

LEMMA OnAckStep ==
  ASSUME IInv, NEW s \in Sides, OnAck(s)
  PROVE  IInv'
  <1> DEFINE p == Peer(s)
  <1>1. PICK m, i : m = Head(out[p]) /\ i = m.id
    OBVIOUS
  <1> DEFINE f == fetch[p][i]
             v == serve[s][i]
             M == InFlight(p, i)
             L == InFlight(p, i)'
             N == InFlight(s, i)
  <1>2. /\ Take(s, "ack") /\ fetch' = fetch
        /\ IF v.reg /\ m.received > v.offset THEN AbortLater(s, i)
           ELSE SetServe(s, i, IF v.reg THEN Credit(v, m.received) ELSE v) /\ UNCHANGED later
    BY <1>1 DEF OnAck
  <1>3. Handles(s, "ack", m, i)
    BY <1>1, <1>2, Delivered
  <1>4. /\ m \in Message /\ i \in Ids /\ m.type = "ack" /\ m \in InFlight(p, i) /\ nextId' = nextId
        /\ Ordered(out'[s], i) /\ Ordered(out'[p], i)
        /\ Flows(i) /\ Left(m, InFlight(p, i), InFlight(p, i)')
    BY <1>2, <1>3 DEF Handles
  <1>5. p \in Sides /\ Peer(p) = s
    BY PeerFacts
  <1>6. Mine(p, i) /\ fetch[p][i].pc # "none"
    BY <1>4, <1>5, Whose
  <1>7. /\ f \in FetchState /\ v \in ServeState /\ M \in SUBSET Message /\ N \in SUBSET Message
        /\ Sound(f, v, M, N)
    BY <1>4, <1>5, <1>6, Here
  <1>8. FetchBecomes(p, i, f)
    BY <1>2, <1>4, <1>5, Becomes
  <1> HIDE DEF f, v, M, L, N
  <1>9. /\ ~v.reg => Sound(f, v, L, N)
        /\ v.reg => /\ m.received <= v.offset
                    /\ Credit(v, m.received) \in ServeState
                    /\ Sound(f, Credit(v, m.received), L, N)
    BY <1>4, <1>7, AckTaken DEF M, L
  <1>10. m.received \in Nat /\ v.offset \in Nat
    BY <1>4, <1>7 DEF Message, DataMsg, ServeState
  <1>11. SetServe(s, i, IF v.reg THEN Credit(v, m.received) ELSE v) /\ UNCHANGED later
    BY <1>2, <1>9, <1>10
  <1>12. PICK w \in ServeState : SetServe(s, i, w) /\ Sound(f, w, L, N)
    BY <1>7, <1>9, <1>11
  <1>13. ServeBecomes(s, i, w) /\ InFlight(s, i)' = N
    BY <1>3, <1>4, <1>11, <1>12, Becomes DEF Handles, N
  <1> QED BY <1>4, <1>5, <1>6, <1>7, <1>8, <1>12, <1>13, Update DEF L, f

LEMMA OnDataStep ==
  ASSUME IInv, NEW s \in Sides, OnData(s)
  PROVE  IInv'
  <1> DEFINE p == Peer(s)
  <1>1. PICK m, i : m = Head(out[p]) /\ i = m.id
    OBVIOUS
  <1> DEFINE f == fetch[s][i]
             v == serve[p][i]
             M == InFlight(s, i)
             N == InFlight(p, i)
             L == InFlight(p, i)'
  <1>2. /\ Take(s, "data") /\ serve' = serve
        /\ IF ~f.reg THEN UNCHANGED <<fetch, later>>
           ELSE \/ Accepts(f, m) /\ SetFetch(s, i, Grown(f, m)) /\ UNCHANGED later
                \/ SetFetch(s, i, Cut(f)) /\ AbortLater(s, i)
    BY <1>1 DEF OnData, Grown, Cut
  <1>3. Handles(s, "data", m, i)
    BY <1>1, <1>2, Delivered
  <1>4. /\ m \in Message /\ i \in Ids /\ m.type = "data" /\ m \in InFlight(p, i) /\ nextId' = nextId
        /\ Ordered(out'[s], i) /\ Ordered(out'[p], i)
        /\ Flows(i) /\ Left(m, InFlight(p, i), InFlight(p, i)') /\ Later(m, InFlight(p, i)')
    BY <1>2, <1>3 DEF Handles
  <1>5. p \in Sides /\ Peer(p) = s
    BY PeerFacts
  <1>6. Mine(s, i) /\ fetch[s][i].pc # "none"
    BY <1>4, <1>5, Whose, PeerFacts
  <1>7. /\ f \in FetchState /\ v \in ServeState /\ M \in SUBSET Message /\ N \in SUBSET Message
        /\ Sound(f, v, M, N)
    BY <1>4, <1>6, Here
  <1>8. ServeBecomes(p, i, v)
    BY <1>2, <1>4, <1>5, Becomes
  <1> HIDE DEF f, v, M, L, N
  <1>9. /\ ~f.reg => Sound(f, v, M, L)
        /\ f.reg => /\ Accepts(f, m) => Grown(f, m) \in FetchState /\ Sound(Grown(f, m), v, M, L)
                    /\ Cut(f) \in FetchState /\ Sound(Cut(f), v, M \cup {Msg("abort", i)}, L)
    BY <1>4, <1>7, DataTaken DEF N, L
  <1>10. CASE ~f.reg
    <2>1. UNCHANGED <<fetch, later>>
      BY <1>2, <1>10
    <2>2. FetchBecomes(s, i, f) /\ InFlight(s, i)' = M
      BY <1>3, <1>4, <2>1, Becomes DEF Handles, M, f
    <2> QED BY <1>4, <1>6, <1>7, <1>8, <1>9, <1>10, <2>2, Update DEF L
  <1>11. CASE f.reg /\ Accepts(f, m) /\ SetFetch(s, i, Grown(f, m)) /\ UNCHANGED later
    <2>1. FetchBecomes(s, i, Grown(f, m)) /\ InFlight(s, i)' = M
      BY <1>3, <1>4, <1>9, <1>11, Becomes DEF Handles, M
    <2> QED BY <1>4, <1>6, <1>7, <1>8, <1>9, <1>11, <2>1, Update DEF L
  <1>12. CASE f.reg /\ SetFetch(s, i, Cut(f)) /\ AbortLater(s, i)
    <2>1. FetchBecomes(s, i, Cut(f)) /\ InFlight(s, i)' = M \cup {Msg("abort", i)}
      BY <1>3, <1>4, <1>9, <1>12, Becomes DEF Handles, M
    <2> QED BY <1>4, <1>6, <1>7, <1>8, <1>9, <1>12, <2>1, Update DEF L
  <1> QED BY <1>2, <1>10, <1>11, <1>12

LEMMA OnAbortStep ==
  ASSUME IInv, NEW s \in Sides, OnAbort(s)
  PROVE  IInv'
  <1> DEFINE p == Peer(s)
  <1>1. PICK m, i : m = Head(out[p]) /\ i = m.id
    OBVIOUS
  <1>2. /\ Take(s, "abort") /\ UNCHANGED later
        /\ SetServe(s, i, ServeAborted(serve[s][i]))
        /\ SetFetch(s, i, FetchAborted(fetch[s][i]))
    BY <1>1 DEF OnAbort, ServeAborted, FetchAborted
  <1>3. Handles(s, "abort", m, i)
    BY <1>1, <1>2, Delivered
  <1>4. /\ i \in Ids /\ m.type = "abort" /\ m \in InFlight(p, i) /\ nextId' = nextId
        /\ Ordered(out'[s], i) /\ Ordered(out'[p], i)
        /\ Flows(i) /\ Left(m, InFlight(p, i), InFlight(p, i)')
        /\ InFlight(s, i)' = InFlight(s, i)
    BY <1>2, <1>3 DEF Handles
  <1>5. p \in Sides /\ Peer(p) = s /\ p # s
    BY PeerFacts
  <1>6. /\ ~NoServe.reg /\ ~NoFetch.reg
    BY DEF NoServe, NoFetch
  <1>7. CASE Mine(s, i)
    <2> DEFINE f == fetch[s][i]
               v == serve[p][i]
               M == InFlight(s, i)
               N == InFlight(p, i)
               L == InFlight(p, i)'
    <2>1. /\ f \in FetchState /\ v \in ServeState /\ M \in SUBSET Message /\ N \in SUBSET Message
          /\ Sound(f, v, M, N) /\ serve[s][i] = NoServe /\ f.pc # "none"
      BY <1>4, <1>5, <1>7, Here, Whose, PeerFacts
    <2>2. UNCHANGED serve
      BY <1>2, <1>4, <1>6, <2>1 DEF ServeAborted, SetServe, IInv, TypeOK
    <2>3. ServeBecomes(p, i, v)
      BY <1>4, <1>5, <2>2, Becomes
    <2> HIDE DEF f, v, M, N, L
    <2>4. FetchAborted(f) \in FetchState /\ Sound(FetchAborted(f), v, M, L)
      BY <1>4, <2>1, AbortTakenByFetch DEF N, L
    <2>5. FetchBecomes(s, i, FetchAborted(f))
      BY <1>2, <1>4, <2>4, Becomes DEF f
    <2> QED BY <1>4, <1>7, <2>1, <2>3, <2>4, <2>5, Update DEF L, f, M
  <1>8. CASE ~Mine(s, i)
    <2> DEFINE f == fetch[p][i]
               v == serve[s][i]
               M == InFlight(p, i)
               L == InFlight(p, i)'
               N == InFlight(s, i)
    <2>0. Mine(p, i)
      BY <1>4, <1>8, PeerFacts
    <2>1. /\ f \in FetchState /\ v \in ServeState /\ M \in SUBSET Message /\ N \in SUBSET Message
          /\ Sound(f, v, M, N) /\ fetch[s][i] = NoFetch /\ f.pc # "none"
      BY <1>4, <1>5, <2>0, Here, Whose
    <2>2. UNCHANGED fetch
      BY <1>2, <1>4, <1>6, <2>1 DEF FetchAborted, SetFetch, IInv, TypeOK
    <2>3. FetchBecomes(p, i, f)
      BY <1>4, <1>5, <2>2, Becomes
    <2> HIDE DEF f, v, M, N, L
    <2>4. ServeAborted(v) \in ServeState /\ Sound(f, ServeAborted(v), L, N)
      BY <1>4, <2>1, AbortTakenByServe DEF M, L
    <2>5. ServeBecomes(s, i, ServeAborted(v))
      BY <1>2, <1>4, <2>4, Becomes DEF v
    <2> QED BY <1>4, <1>5, <2>0, <2>1, <2>3, <2>4, <2>5, Update DEF L, f, N
  <1> QED BY <1>7, <1>8

-----------------------------------------------------------------------------
(* The theorems.                                                            *)

LEMMA InitSound == Init => IInv
  <1> SUFFICES ASSUME Init PROVE IInv
    OBVIOUS
  <1>0. <<>> \in Seq(Entry) /\ <<>> \in Seq(Nat) /\ <<>> \in Seq(Message) /\ Len(<<>>) = 0
    OBVIOUS
  <1>1. NoFetch \in FetchState /\ NoServe \in ServeState
    BY <1>0 DEF NoFetch, NoServe, FetchState, ServeState, FetchPcs, ServePcs
  <1>2. \A s \in Sides : FirstId(s) \in Nat /\ FirstId(s) % 2 = Parity(s)
    BY DEF Sides, FirstId, Parity
  <1>3. TypeOK
    BY <1>0, <1>1, <1>2 DEF Init, TypeOK
  <1>4. Numbered
    BY <1>2 DEF Init, Numbered, Mine
  <1>5. Sound(NoFetch, NoServe, {}, {})
    <2>1. /\ NoFetch.pc = "none" /\ ~NoFetch.reg /\ NoFetch.received = 0 /\ ~NoFetch.last
          /\ NoFetch.queue = <<>> /\ NoFetch.sink = <<>>
      BY DEF NoFetch
    <2>2. /\ NoServe.pc = "none" /\ ~NoServe.reg /\ NoServe.offset = 0 /\ NoServe.acked = 0
          /\ ~NoServe.final
      BY DEF NoServe
    <2>3. Cap \in Nat /\ 0 <= Cap /\ Window \in Nat /\ 0 <= 0 + Window
      BY TransferAssumption
    <2>4. Fetching(NoFetch) /\ ~Noticed(NoFetch, "aborted")
      BY <1>0, <2>1, <2>3 DEF Fetching, Awaits, Results, Noticed
    <2>5. Serving(NoServe)
      BY <2>2, <2>3 DEF Serving
    <2>6. Matched(NoFetch, NoServe)
      BY <1>0, <2>1, <2>2 DEF Matched
    <2>7. /\ Forward(NoFetch, NoServe, {}) /\ Backward(NoFetch, NoServe, {})
          /\ Aborting(NoFetch, NoServe, {}, {})
      BY <2>1, <2>2, <2>4 DEF Forward, Backward, Aborting, Has
    <2> QED BY <2>4, <2>5, <2>6, <2>7 DEF Sound
  <1>6. ASSUME NEW s \in Sides, NEW i \in Ids PROVE Transfer(s, i)
    <2>1. Peer(s) \in Sides
      BY PeerFacts
    <2>2. /\ fetch[s][i] = NoFetch /\ serve[Peer(s)][i] = NoServe
          /\ out[s] = <<>> /\ out[Peer(s)] = <<>> /\ later[s] = {} /\ later[Peer(s)] = {}
      BY <2>1 DEF Init
    <2>3. InFlight(s, i) = {} /\ InFlight(Peer(s), i) = {}
      <3>1. Range(<<>>) = {}
        BY <1>0 DEF Range
      <3> QED BY <2>2, <3>1 DEF InFlight, Of, Pending
    <2>4. Ordered(<<>>, i)
      BY <1>0 DEF Ordered
    <2> QED BY <1>5, <2>2, <2>3, <2>4 DEF Transfer
  <1> QED BY <1>3, <1>4, <1>6 DEF IInv

LEMMA StepSound == IInv /\ [Next]_vars => IInv'
  <1> SUFFICES ASSUME IInv, [Next]_vars PROVE IInv'
    OBVIOUS
  <1>1. ASSUME NEW s \in Sides, Fetch(s) \/ Deliver(s) PROVE IInv'
    BY <1>1, FetchStep, OnRequestStep, OnDataStep, OnAckStep, OnAbortStep DEF Deliver
  <1>2. ASSUME NEW s \in Sides, NEW i \in Ids, Engine(s, i) PROVE IInv'
    BY <1>2, SendLaterStep, SendRequestStep, ReceiveStep, SendAckStep, ServeAloneStep,
       SendDataStep, SendAbortStep DEF Engine
  <1>3. ASSUME NEW s \in Sides, NEW i \in Ids, Local(s, i) PROVE IInv'
    BY <1>3, WriteStep, FinishStep, OpenStep, ServeAloneStep DEF Local
  <1>4. ASSUME NEW s \in Sides, NEW i \in Ids,
               Timer(s, i) \/ SinkFails(s, i) \/ Cancel(s, i) \/ OpenFails(s, i)
        PROVE  IInv'
    BY <1>4, GiveUpStep, ServeAloneStep, OpenStep DEF Timer
  <1>5. CASE UNCHANGED vars
    <2>1. \A s \in Sides, i \in Ids : InFlight(s, i)' = InFlight(s, i)
      BY <1>5 DEF vars, InFlight, Pending
    <2> QED BY <1>5, <2>1, PeerFacts DEF vars, IInv, TypeOK, Numbered, Mine, Transfer
  <1> QED BY <1>1, <1>2, <1>3, <1>4, <1>5 DEF Next, Step

LEMMA Invariant == Spec => []IInv
  BY InitSound, StepSound, PTL DEF Spec, Safety

\* The messages, the two ends of every transfer and the tasks that are still to
\* tell a peer stay of their types (clipboard/mod.rs: Inner and its tasks).
THEOREM TypeCorrect == Spec => []TypeOK
  <1>1. IInv => TypeOK
    BY DEF IInv
  <1> QED BY <1>1, Invariant, PTL

\* A fetch's channel always has room for a notice of failure, so that try_send
\* of on_msg cannot lose one, for any window and however slow the sink.
THEOREM NoticeAlwaysFits == Spec => []NoticeFits
  <1>1. IInv => NoticeFits
    <2> SUFFICES ASSUME IInv, NEW s \in Sides, NEW i \in Ids
                 PROVE  Len(fetch[s][i].queue) < Window + 2
      BY DEF NoticeFits
    <2>1. CASE Mine(s, i)
      BY <2>1, Here, Room
    <2>2. CASE ~Mine(s, i)
      <3>1. fetch[s][i].queue = <<>> /\ Len(<<>>) = 0
        BY <2>2 DEF IInv, Numbered, NoFetch
      <3>2. 0 < Window + 2
        BY TransferAssumption
      <3> QED BY <3>1, <3>2
    <2> QED BY <2>1, <2>2
  <1> QED BY <1>1, Invariant, PTL

\* A fetch that returns Ok gave its sink every chunk of the source, once, in
\* order and within the cap, and the source was read to its end (fetch,
\* Assembler::accept, serve_loop).
THEOREM FetchesWhole == Spec => []WholeInOrder
  <1>1. IInv => WholeInOrder
    <2> SUFFICES ASSUME IInv, NEW s \in Sides, NEW i \in Ids, fetch[s][i].pc = "ok"
                 PROVE  LET f == fetch[s][i]
                            v == serve[Peer(s)][i]
                        IN /\ v.pc = "done" /\ v.eof
                           /\ Len(f.sink) = v.offset /\ Len(f.sink) <= Cap
                           /\ \A n \in 1..Len(f.sink) : f.sink[n] = n - 1
      BY DEF WholeInOrder
    <2>1. Mine(s, i)
      BY Whose
    <2>2. /\ Fetching(fetch[s][i]) /\ Serving(serve[Peer(s)][i])
          /\ Matched(fetch[s][i], serve[Peer(s)][i])
      BY <2>1, Here DEF Sound
    <2>3. fetch[s][i].last /\ Len(fetch[s][i].sink) = fetch[s][i].received
      BY <2>2 DEF Fetching
    <2> QED BY <2>2, <2>3 DEF Fetching, Serving, Matched
  <1> QED BY <1>1, Invariant, PTL

\* An Abort ends the transfer it was sent for and no other: the end that takes
\* it is the other end of the one that gave up, although Abort names only an id
\* and either side serves under the ids of its peer (on_msg, FetchGuard).
THEOREM AbortsUnambiguous == Spec => []AbortsMeetTheirTransfer
  <1>1. IInv => AbortsMeetTheirTransfer
    <2> SUFFICES ASSUME IInv, NEW s \in Sides, NEW i \in Ids
                 PROVE  LET f == fetch[s][i]
                            v == serve[Peer(s)][i]
                        IN /\ f.pc = "aborted" => v.pc \in {"refused", "failed"}
                           /\ v.pc = "aborted" => ~f.reg /\ f.pc \notin {"ok", "aborted"}
      BY DEF AbortsMeetTheirTransfer
    <2>1. CASE Mine(s, i)
      <3>1. Aborting(fetch[s][i], serve[Peer(s)][i], InFlight(s, i), InFlight(Peer(s), i))
        BY <2>1, Here DEF Sound
      <3> QED BY <3>1 DEF Aborting
    <2>2. CASE ~Mine(s, i)
      <3>1. Peer(s) \in Sides /\ Mine(Peer(s), i)
        BY <2>2, PeerFacts
      <3>2. fetch[s][i] = NoFetch /\ serve[Peer(s)][i] = NoServe
        BY <2>2, <3>1 DEF IInv, Numbered
      <3> QED BY <3>2 DEF NoFetch, NoServe
    <2> QED BY <2>1, <2>2
  <1> QED BY <1>1, Invariant, PTL

\* Whenever a fetch waits for a chunk, its request, an ack, a chunk or an Abort
\* of it is on its way, or its serve can act: fetch and serve never wait for
\* each other, whatever the window (SendWindow, credit, serve_loop).
THEOREM NobodyWaits == Spec => []NobodyWaitsForNobody
  <1>1. IInv => NobodyWaitsForNobody
    <2> SUFFICES ASSUME IInv, NEW s \in Sides, NEW i \in Ids,
                        fetch[s][i].pc = "recv", fetch[s][i].reg, fetch[s][i].queue = <<>>
                 PROVE  LET v == serve[Peer(s)][i]
                        IN \/ OnTheWay(s, i) \/ OnTheWay(Peer(s), i) \/ i \in later[Peer(s)]
                           \/ v.pc \in {"opening", "read", "send", "abort"}
                           \/ v.pc = "credit" /\ v.permit
      BY DEF NobodyWaitsForNobody
    <2> DEFINE f == fetch[s][i]
               v == serve[Peer(s)][i]
               M == InFlight(s, i)
               N == InFlight(Peer(s), i)
    <2>1. Mine(s, i)
      BY Whose
    <2>2. /\ f \in FetchState /\ v \in ServeState /\ Fetching(f) /\ Serving(v) /\ Matched(f, v)
          /\ Forward(f, v, M) /\ Backward(f, v, N) /\ Aborting(f, v, M, N)
      BY <2>1, Here DEF Sound
    <2>3. \A t \in Sides : Of(out[t], i) # {} => OnTheWay(t, i)
      BY DEF Of, Range, OnTheWay
    <2>4. Peer(s) \in Sides /\ (N # {} => OnTheWay(Peer(s), i) \/ i \in later[Peer(s)])
      BY <2>3, PeerFacts DEF InFlight, Pending
    <2>5. ~Has(M, "abort") /\ (M # {} => OnTheWay(s, i))
      <3>1. Msg("abort", i).type = "abort"
        BY DEF Msg
      <3> QED BY <2>2, <2>3, <3>1 DEF Aborting, Has, InFlight, Pending
    <2> HIDE DEF f, v, M, N
    <2>6. f.pc = "recv" /\ f.reg /\ f.queue = <<>>
      BY DEF f
    <2>7. Len(f.sink) = f.received + (IF f.last THEN 1 ELSE 0)
      <3>1. Len(f.queue) = 0 /\ Len(f.queue) + Taken(f) = Entered(f)
        BY <2>2, <2>6 DEF Fetching, Awaits
      <3>2. /\ f.received \in Nat /\ Len(f.sink) \in Nat
            /\ Taken(f) = Len(f.sink) /\ Entered(f) = f.received + (IF f.last THEN 1 ELSE 0)
        BY <2>2, <2>6 DEF Taken, Entered, FetchState
      <3> QED BY <3>1, <3>2
    <2>8. /\ f.received \in Nat /\ v.offset \in Nat /\ v.acked \in Nat
          /\ Len(f.sink) = f.received /\ ~f.last
      BY <2>2, <2>7 DEF Fetching, FetchState, ServeState
    <2>9. v.pc = "none" => M # {}
      BY <2>2, <2>6 DEF Forward, Has, Serving
    <2>10. v.pc \in {"refused", "failed", "done"} => N # {}
      BY <2>2, <2>6, <2>8 DEF Aborting, Has, Backward
    <2>11. v.pc # "aborted"
      BY <2>2, <2>6 DEF Aborting
    <2>12. v.pc = "credit" /\ ~v.permit => M # {} \/ N # {}
      <3> SUFFICES ASSUME v.pc = "credit", ~v.permit PROVE M # {} \/ N # {}
        OBVIOUS
      <3>1. v.reg /\ v.offset >= v.acked + Window /\ f.received <= v.offset
        BY <2>2, <2>8, TransferAssumption DEF Serving, MaySend, Matched
      <3>2. CASE f.received < v.offset
        BY <2>2, <2>6, <3>2 DEF Backward
      <3>3. CASE f.received = v.offset
        <4>1. v.acked < Len(f.sink)
          BY <2>8, <3>1, <3>3, TransferAssumption
        <4> QED BY <2>2, <2>6, <3>1, <4>1 DEF Forward
      <3> QED BY <2>8, <3>1, <3>2, <3>3
    <2>13. v.pc \in ServePcs
      BY <2>2 DEF ServeState
    <2> QED BY <2>4, <2>5, <2>9, <2>10, <2>11, <2>12, <2>13 DEF ServePcs, v
  <1> QED BY <1>1, Invariant, PTL
=============================================================================

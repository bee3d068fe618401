-------------------------- MODULE DecodePipelineProofs --------------------------
(* The safety of DecodePipeline, for any ring, any number of pictures, starts  *)
(* and faults, and any widths of the frame numbers and the order counts.       *)
(*   StreamsInv is the inductive invariant of the streams: the encoder's       *)
(* window of references and the number of its next picture (EncoderInv); the   *)
(* unit on its way was made with such a window and number (UnitInv); every     *)
(* decoder whose stream is unbroken holds the same references, under the same  *)
(* numbers modulo the width, and is at the same count (DecodersInv); but for a *)
(* picture it forgot by operation 5 since the IDR (ForgottenInv), which can    *)
(* only be the oldest of the window.                                           *)
(*   RingInv is the ring's: a frame of the current ring that is alive is busy, *)
(* and no release of its image is on the way.                                  *)
(*   And the packing of 4:4:4 pictures (Chroma) loses nothing at any even size. *)
EXTENDS DecodePipeline, Chroma, FiniteSetTheorems, SequenceTheorems, TLAPS

-----------------------------------------------------------------------------
\* The stream of pictures: its encoders, and the decoders of one client.

\* A reference of the encoder: its picture, and its number before it wraps.
Ref == [id : Nat, n : Nat]

\* The encoder's references, oldest first, and the number of the next picture.
\* Its own encoder counts its pictures from the IDR by the order count.
Window ==
  IF sps.by = "va"
  THEN IF started THEN <<[id |-> slots[current_ref].id, n |-> poc - 1]>> ELSE <<>>
  ELSE window
Count == IF sps.by = "va" THEN poc ELSE count

WindowOK(w, c) ==
  /\ w \in Seq(Ref) /\ c \in Nat /\ Len(w) <= Refs(sps)
  /\ \A k \in 1..Len(w) : w[k].id \in 1..pictures
  /\ \A j, k \in 1..Len(w) : j < k => w[j].id < w[k].id /\ w[j].n < w[k].n
  /\ Len(w) > 0 => w[Len(w)].n = c - 1

EncoderInv ==
  /\ sps \in ParamSets /\ pictures \in Nat /\ WindowOK(Window, Count)
  /\ sps.by = "va" =>
       /\ slots \in [0..1 -> [id : Nat, frame_num : Nat]] /\ started \in BOOLEAN
       /\ started => current_ref \in 0..1 /\ frame_num = poc % MaxFrameNum

\* The unit on its way, as the decoder reads it.
Modification == [idc : {0}, value : Nat]
Operation == [op : {1, 5}, difference_of_pic_nums_minus1 : Nat]
Unit ==
  [id : Nat \ {0}, sps : ParamSets, idr : BOOLEAN, ref : BOOLEAN, frame_num : Nat, lsb : Nat,
   mods : {<<>>} \cup {<<m>> : m \in Modification}, mmcos : {<<>>} \cup {<<o>> : o \in Operation},
   from : Nat, unmarked : SUBSET Nat, poc : Nat]

Current(c) == [id |-> unit.id, n |-> c]
Newest(w) == IF Len(w) > Refs(sps) THEN Tail(w) ELSE w

MadeIdr ==
  /\ unit.idr /\ unit.ref /\ unit.frame_num = 0 /\ unit.lsb = 0 /\ unit.poc = 0
  /\ unit.mods = <<>> /\ unit.mmcos = <<>> /\ unit.unmarked = {}
  /\ Window = <<Current(0)>> /\ Count = 1

\* It was made with the references w and the number c.
Named(w, c) ==
  \E k \in 1..Len(w) :
    /\ unit.from = w[k].id
    /\ unit.mods = IF k = Len(w) THEN <<>> ELSE <<[idc |-> 0, value |-> c - w[k].n - 1]>>
Marked(w, c) ==
  \/ /\ unit.mmcos = <<>> /\ unit.unmarked = {}
     /\ Window = Newest(Append(w, Current(c)))
  \/ \E k \in 1..Len(w) :
       /\ unit.mmcos = <<[op |-> 1, difference_of_pic_nums_minus1 |-> c - w[k].n - 1]>>
       /\ unit.unmarked = {w[k].id}
       /\ Window = Append(RemoveAt(w, k), Current(c))
\* Operation 5: the current picture alone is left, and is the number 0.
Restarted ==
  /\ unit.mmcos = <<[op |-> 5, difference_of_pic_nums_minus1 |-> 0]>>
  /\ PocType(sps) = 2 /\ Window = <<Current(0)>> /\ Count = 1
MadeWith(w, c) ==
  /\ ~unit.idr /\ WindowOK(w, c) /\ Len(w) > 0 /\ c - w[1].n < MaxFrameNum
  /\ \A k \in 1..Len(w) : w[k].id < unit.id
  /\ unit.frame_num = c % MaxFrameNum /\ Named(w, c)
  /\ IF PocType(sps) = 0 THEN unit.ref /\ unit.poc = c /\ unit.lsb = c % MaxPocLsb
     ELSE unit.poc = IF unit.ref THEN 2 * c ELSE 2 * c - 1
  /\ IF unit.ref THEN (Count = c + 1 /\ Marked(w, c)) \/ Restarted
     ELSE Count = c /\ Window = w /\ unit.mmcos = <<>> /\ unit.unmarked = {}

UnitInv ==
  unit # NoUnit =>
    /\ unit \in Unit /\ unit.sps = sps /\ unit.id = pictures
    /\ MadeIdr \/ \E w, c : MadeWith(w, c)

\* A decoder, whatever became of its stream.
Slot == {D!Free} \cup [id : Nat, frame_num : Nat, poc : Int, due : Nat, good : BOOLEAN]
PocState == [prev_msb : Int, prev_lsb : Int, prev_offset : Int, prev_frame_num : Int]
Decoder ==
  [sps : {D!Free} \cup ParamSets, open : BOOLEAN, slots : Seq(Slot), last_output : Slot,
   poc : PocState]
DecoderOK(d) ==
  d \in Decoder /\ (d.open => d.sps \in ParamSets /\ Len(d.slots) = Refs(d.sps) + 1)

\* A decoder that holds the encoder's references, and is at its numbers.
Is(slot, r) ==
  /\ slot # D!Free /\ slot.id = r.id /\ slot.frame_num = r.n % MaxFrameNum
  /\ slot.poc = slot.due
Holds(s, w, place) ==
  /\ place \in Seq(DOMAIN s) /\ Len(place) = Len(w)
  /\ \A k \in 1..Len(w) : Is(s[place[k]], w[k])
  /\ \A j, k \in 1..Len(w) : place[j] = place[k] => j = k
  /\ \A i \in D!Taken(s) : \E k \in 1..Len(w) : place[k] = i
Counts(p, c) ==
  IF PocType(sps) = 0
  THEN p.prev_lsb = (c - 1) % MaxPocLsb /\ p.prev_msb + p.prev_lsb = c - 1
  ELSE \E last \in {c - 1, c} :
         /\ p.prev_frame_num = last % MaxFrameNum
         /\ p.prev_offset = last - (last % MaxFrameNum)

\* It forgot the pictures g, of which the window has its oldest at most.
Kept(w, g) == IF Len(w) > 0 /\ w[1].id \in g THEN Tail(w) ELSE w
InStep(d, w, c, g) ==
  /\ d.open /\ d.sps = sps /\ (\E place : Holds(d.slots, Kept(w, g), place))
  /\ Len(w) > 0 => Counts(d.poc, c)
  /\ \A k \in 1..Len(w) : k > 1 => w[k].id \notin g
  /\ g = {} => \A i \in D!Taken(d.slots) : d.slots[i].good

Following(s) ==
  IF unit = NoUnit THEN Window = <<>> \/ InStep(dec[s], Window, Count, forgotten)
  ELSE MadeIdr \/ \E w, c : MadeWith(w, c) /\ InStep(dec[s], w, c, forgotten)

DecodersInv ==
  /\ dec \in [Streams -> Decoder] /\ broken \in [Streams -> BOOLEAN] /\ last_complete \in BOOLEAN
  /\ \A s \in Streams : DecoderOK(dec[s]) /\ (~broken[s] => Following(s))
  /\ last_complete =>
       /\ dec["main"].last_output.id = dec["aux"].last_output.id
       /\ \A s \in Streams :
            /\ dec[s].last_output # D!Free
            /\ \/ broken[s] \/ forgotten \ {dec["main"].last_output.id} # {}
               \/ dec[s].last_output.good

ForgottenInv ==
  forgotten \subseteq 1..pictures /\ (unit # NoUnit => unit.id \notin forgotten)

\* The ring.
RingInv ==
  /\ ring \in Nat /\ busy \subseteq 1..DisplayRing /\ stalled \in BOOLEAN
  /\ \A f \in frames : f.ring \in 0..ring
  /\ \A r \in releases : r.ring \in 0..ring
  /\ stalled \/ \A f \in frames :
       f.ring = ring =>
         f.index \in busy /\ \A r \in releases : r.ring = ring => r.index # f.index

LEMMA DivUnique ==
  ASSUME NEW m \in Nat, m > 0, NEW q \in Int, NEW r \in 0..(m - 1), NEW x \in Int, x = m * q + r
  PROVE  x % m = r
<1>1. x % m \in 0..(m - 1) /\ x = m * (x \div m) + (x % m) /\ x \div m \in Int
  OBVIOUS
<1> DEFINE e == q - (x \div m)
<1>2. e \in Int /\ m * e = (x % m) - r
  BY <1>1
<1> HIDE DEF e
<1>3. m * e < m /\ -m < m * e
  BY <1>1, <1>2
<1>4. ~(e >= 1)
  BY <1>2, <1>3
<1>5. ~(e <= -1)
  BY <1>2, <1>3
<1>6. e = 0
  BY <1>2, <1>4, <1>5
<1>7. m * e = 0
  BY <1>6
<1> QED
  BY <1>1, <1>2, <1>7

\* Two numbers of which neither is m behind the other are told apart, and
\* ordered, by their remainders.
LEMMA Wraps ==
  ASSUME NEW m \in Nat, m > 0, NEW n \in Nat, NEW c \in Nat, n <= c, c - n < m
  PROVE  /\ n % m \in 0..(m - 1) /\ c % m \in 0..(m - 1)
         /\ (IF n % m > c % m THEN (n % m) - m ELSE n % m) = (c % m) - (c - n)
<1> DEFINE r == n % m
           q == n \div m
           d == c - n
<1>1. r \in 0..(m - 1) /\ n = m * q + r /\ q \in Int /\ c % m \in 0..(m - 1) /\ d \in 0..(m - 1)
  OBVIOUS
<1>2. c = n + d
  OBVIOUS
<1> HIDE DEF r, q, d
<1>3. CASE r + d < m
  <2>1. c = m * q + (r + d) /\ r + d \in 0..(m - 1)
    BY <1>1, <1>2, <1>3
  <2>2. c % m = r + d
    BY <1>1, <2>1, DivUnique
  <2> QED
    BY <1>1, <2>2 DEF r, d
<1>4. CASE r + d >= m
  <2>1. m * (q + 1) = m * q + m
    BY <1>1
  <2>2. c = m * (q + 1) + (r + d - m) /\ r + d - m \in 0..(m - 1) /\ q + 1 \in Int
    BY <1>1, <1>2, <1>4, <2>1
  <2> DEFINE k == q + 1
             t == r + d - m
  <2>3. k \in Int /\ t \in 0..(m - 1) /\ c = m * k + t
    BY <2>2
  <2> HIDE DEF k, t
  <2>4. c % m = t
    BY <2>3, DivUnique
  <2>5. t = r + d - m
    BY DEF t
  <2> QED
    BY <1>1, <2>4, <2>5 DEF r, d
<1> QED
  BY <1>1, <1>3, <1>4

LEMMA WrapIs ==
  ASSUME NEW n \in Nat, NEW c \in Nat, n <= c, c - n < MaxFrameNum
  PROVE  D!Wrap(n % MaxFrameNum, c % MaxFrameNum) = (c % MaxFrameNum) - (c - n)
<1>1. MaxFrameNum \in Nat /\ MaxFrameNum > 0
  BY WrapAssumption
<1> QED
  BY <1>1, Wraps DEF D!Wrap

\* What comes next to c - 1, with m numbers.
LEMMA Increments ==
  ASSUME NEW m \in Nat, m > 1, NEW c \in Nat, c > 0
  PROVE  /\ c % m \in 0..(m - 1) /\ (c - 1) % m \in 0..(m - 1)
         /\ c % m = 0 => (c - 1) % m = m - 1
         /\ c % m # 0 => (c - 1) % m = (c % m) - 1
<1>1. c - 1 \in Nat /\ c - 1 <= c /\ c - (c - 1) = 1 /\ m > 0
  OBVIOUS
<1>2. /\ (c - 1) % m \in 0..(m - 1) /\ c % m \in 0..(m - 1)
      /\ (IF (c - 1) % m > c % m THEN ((c - 1) % m) - m ELSE (c - 1) % m) = (c % m) - 1
  <2>1. c - (c - 1) < m
    OBVIOUS
  <2> DEFINE n == c - 1
  <2>2. n \in Nat /\ n <= c /\ c - n < m /\ c - n = 1
    BY <1>1, <2>1
  <2> HIDE DEF n
  <2>3. /\ n % m \in 0..(m - 1) /\ c % m \in 0..(m - 1)
        /\ (IF n % m > c % m THEN (n % m) - m ELSE n % m) = (c % m) - (c - n)
    BY <1>1, <2>2, Wraps
  <2> QED
    BY <2>2, <2>3 DEF n
<1> QED
  BY <1>2

\* A wrapped zero.
LEMMA Zeroes == 0 % MaxFrameNum = 0 /\ 0 % MaxPocLsb = 0
<1>1. MaxPocLsb \in Nat /\ MaxPocLsb > 0 /\ MaxFrameNum \in Nat /\ MaxFrameNum > 0
  BY WrapAssumption
<1>2. \A m \in Nat : m > 0 => 0 \in 0..(m - 1) /\ 0 = m * 0 + 0
  OBVIOUS
<1>3. \A m \in Nat : m > 0 => 0 % m = 0
  BY <1>2, DivUnique
<1> QED
  BY <1>1, <1>3

\* The parameter sets.
LEMMA SpsIs ==
  ASSUME NEW s \in ParamSets
  PROVE  /\ s.by \in {"va", "other"}
         /\ s.by = "va" => Refs(s) = 1 /\ PocType(s) = 0
         /\ s.by # "va" => Refs(s) = 2 /\ PocType(s) = 2
<1>1. s.by \in {"va", "other"}
  BY ParamAssumption
<1> DEFINE own == Syntax!OwnSps(64, 50)
           other == [own EXCEPT !.max_num_ref_frames = 2, !.pic_order_cnt_type = 2,
                                !.log2_max_pic_order_cnt_lsb_minus4 = 0]
<1>2. own.max_num_ref_frames = 1 /\ own.pic_order_cnt_type = 0
  BY DEF Syntax!OwnSps, Syntax!DefaultSps
<1>3. "max_num_ref_frames" \in DOMAIN own /\ "pic_order_cnt_type" \in DOMAIN own
  BY DEF Syntax!OwnSps, Syntax!DefaultSps
<1>4. SpsOf = [va |-> own, other |-> other]
  BY DEF SpsOf
<1> HIDE DEF own
<1>5. other.max_num_ref_frames = 2 /\ other.pic_order_cnt_type = 2
  BY <1>3
<1> HIDE DEF other
<1>6. SpsOf["va"] = own /\ SpsOf["other"] = other
  BY <1>4
<1> QED
  BY <1>1, <1>2, <1>5, <1>6 DEF Refs, PocType

\* The operations of a unit, of which there is at most one.
LEMMA OneOperation ==
  ASSUME NEW st, NEW cur, NEW x
  PROVE  D!FoldLeft(LAMBDA s, op : D!ApplyMmco(s, op, cur), st, <<x>>) = D!ApplyMmco(st, x, cur)
<1> DEFINE A(s, o) == D!ApplyMmco(s, o, cur)
           F(i) == [t \in SUBSET {1} |->
                      IF t = {} THEN st ELSE A(i[t \ {D!Max(t)}], <<x>>[D!Max(t)])]
           it == CHOOSE i : i = F(i)
<1>1. D!FoldLeft(LAMBDA s, op : D!ApplyMmco(s, op, cur), st, <<x>>) = it[{1}]
  BY DEF D!FoldLeft, D!MapThenFoldSet
<1> HIDE DEF A
<1>2. D!Max({1}) = 1
  BY DEF D!Max
<1> DEFINE g == [t \in SUBSET {1} |-> IF t = {} THEN st ELSE A(st, x)]
<1>3. g = F(g)
  <2>1. ASSUME NEW t \in SUBSET {1}, t # {}
        PROVE  A(g[t \ {D!Max(t)}], <<x>>[D!Max(t)]) = A(st, x)
    <3>1. t = {1}
      BY <2>1
    <3>2. t \ {D!Max(t)} = {} /\ <<x>>[D!Max(t)] = x
      BY <1>2, <3>1
    <3>3. g[{}] = st
      OBVIOUS
    <3> QED
      BY <3>2, <3>3
  <2> QED
    BY <2>1
<1>4. it = F(it)
  BY <1>3
<1> HIDE DEF it
<1>5. it[{}] = st
  BY <1>4
<1>6. it[{1}] = A(it[{}], x)
  <2>1. {1} \in SUBSET {1} /\ {1} # {} /\ {1} \ {D!Max({1})} = {} /\ <<x>>[D!Max({1})] = x
    BY <1>2
  <2>2. it[{1}] = A(it[{1} \ {D!Max({1})}], <<x>>[D!Max({1})])
    BY <1>4, <2>1
  <2> QED
    BY <2>1, <2>2
<1> QED
  BY <1>1, <1>5, <1>6 DEF A

LEMMA Smallest ==
  ASSUME NEW S \in SUBSET Nat, S # {}
  PROVE  \E x \in S : \A y \in S : x <= y
<1>1. \E x \in S : \A y \in S : ~(<<y, x>> \in OpToRel(<, Nat))
  BY NatLessThanWellFounded, WFMin
<1>2. \A x, y \in Nat : y < x => <<y, x>> \in OpToRel(<, Nat)
  BY DEF OpToRel
<1>3. PICK x \in S : \A y \in S : ~(<<y, x>> \in OpToRel(<, Nat))
  BY <1>1
<1>4. ASSUME NEW y \in S
      PROVE  x <= y
  <2>1. x \in Nat /\ y \in Nat /\ ~(y < x)
    BY <1>2, <1>3
  <2> QED
    BY <2>1
<1> QED
  BY <1>4

LEMMA MinIs ==
  ASSUME NEW S \in SUBSET Nat, S # {}
  PROVE  Min(S) \in S /\ D!Min(S) \in S
BY Smallest DEF Min, D!Min

LEMMA Few ==
  ASSUME NEW a, NEW b, a # b
  PROVE  Cardinality({a}) = 1 /\ Cardinality({a, b}) = 2 /\ IsFiniteSet({a, b})
<1>1. Cardinality({a}) = 1 /\ IsFiniteSet({a})
  BY FS_Singleton
<1>2. {a, b} = {a} \cup {b} /\ b \notin {a}
  OBVIOUS
<1>3. Cardinality({a} \cup {b}) = 2 /\ IsFiniteSet({a} \cup {b})
  BY <1>1, <1>2, FS_AddElement
<1> QED
  BY <1>1, <1>2, <1>3

LEMMA RemoveAtIs ==
  ASSUME NEW S, NEW s \in Seq(S), NEW k \in 1..Len(s)
  PROVE  /\ RemoveAt(s, k) \in Seq(S) /\ Len(RemoveAt(s, k)) = Len(s) - 1
         /\ \A i \in 1..(Len(s) - 1) : RemoveAt(s, k)[i] = IF i < k THEN s[i] ELSE s[i + 1]
<1> DEFINE a == SubSeq(s, 1, k - 1)
           b == SubSeq(s, k + 1, Len(s))
<1>1. Len(s) \in Nat /\ k \in Nat
  OBVIOUS
<1>2. a \in Seq(S) /\ Len(a) = k - 1 /\ \A i \in 1..(k - 1) : a[i] = s[i]
  BY <1>1
<1>3. b \in Seq(S) /\ Len(b) = Len(s) - k /\ \A i \in 1..(Len(s) - k) : b[i] = s[k + i]
  BY <1>1
<1>4. RemoveAt(s, k) = a \o b
  BY DEF RemoveAt
<1> HIDE DEF a, b
<1>5. a \o b \in Seq(S) /\ Len(a \o b) = Len(s) - 1
  <2>1. a \in Seq(S) /\ b \in Seq(S) /\ Len(a) = k - 1 /\ Len(b) = Len(s) - k
    BY <1>2, <1>3
  <2>2. a \o b \in Seq(S) /\ Len(a \o b) = Len(a) + Len(b)
    BY <2>1
  <2> QED
    BY <1>1, <2>1, <2>2
<1>6. ASSUME NEW i \in 1..(Len(s) - 1)
      PROVE  (a \o b)[i] = IF i < k THEN s[i] ELSE s[i + 1]
  <2>1. CASE i < k
    BY <1>1, <1>2, <1>3, <2>1
  <2>2. CASE i >= k
    <3>1. i - Len(a) \in 1..(Len(s) - k) /\ k + (i - Len(a)) = i + 1
      BY <1>1, <1>2, <2>2
    <3>2. (a \o b)[i] = b[i - Len(a)]
      BY <1>1, <1>2, <1>3, <2>2, <3>1
    <3>3. b[i - Len(a)] = s[k + (i - Len(a))]
      BY <1>3, <3>1
    <3> QED
      BY <1>1, <2>2, <3>1, <3>2, <3>3
  <2>3. i < k \/ i >= k
    BY <1>1
  <2> QED
    BY <2>1, <2>2, <2>3
<1> QED
  BY <1>4, <1>5, <1>6

LEMMA SameSequence ==
  ASSUME NEW S, NEW s \in Seq(S), NEW t \in Seq(S), Len(s) = Len(t),
         \A i \in 1..Len(s) : s[i] = t[i]
  PROVE  s = t
OBVIOUS

\* The oldest is the first.
LEMMA TailIs ==
  ASSUME NEW S, NEW s \in Seq(S), Len(s) > 0
  PROVE  RemoveAt(s, 1) = Tail(s) /\ 1 \in 1..Len(s)
<1>1. 1 \in 1..Len(s) /\ Len(s) \in Nat
  OBVIOUS
<1>2. /\ RemoveAt(s, 1) \in Seq(S) /\ Len(RemoveAt(s, 1)) = Len(s) - 1
      /\ \A i \in 1..(Len(s) - 1) : RemoveAt(s, 1)[i] = s[i + 1]
  <2>1. /\ RemoveAt(s, 1) \in Seq(S) /\ Len(RemoveAt(s, 1)) = Len(s) - 1
        /\ \A i \in 1..(Len(s) - 1) : RemoveAt(s, 1)[i] = IF i < 1 THEN s[i] ELSE s[i + 1]
    BY <1>1, RemoveAtIs
  <2>2. \A i \in 1..(Len(s) - 1) : ~(i < 1)
    OBVIOUS
  <2> QED
    BY <2>1, <2>2
<1>3. Tail(s) \in Seq(S) /\ Len(Tail(s)) = Len(s) - 1
      /\ \A i \in 1..(Len(s) - 1) : Tail(s)[i] = s[i + 1]
  OBVIOUS
<1> QED
  BY <1>1, <1>2, <1>3, SameSequence

LEMMA RemoveAppend ==
  ASSUME NEW S, NEW s \in Seq(S), NEW x \in S, NEW k \in 1..Len(s)
  PROVE  RemoveAt(Append(s, x), k) = Append(RemoveAt(s, k), x)
<1> DEFINE t == Append(s, x)
           r == RemoveAt(s, k)
<1>1. Len(s) \in Nat /\ t \in Seq(S) /\ Len(t) = Len(s) + 1 /\ t[Len(s) + 1] = x
      /\ \A i \in 1..Len(s) : t[i] = s[i]
  OBVIOUS
<1>2. r \in Seq(S) /\ Len(r) = Len(s) - 1
      /\ \A i \in 1..(Len(s) - 1) : r[i] = IF i < k THEN s[i] ELSE s[i + 1]
  BY RemoveAtIs
<1> HIDE DEF t, r
<1>3. RemoveAt(t, k) \in Seq(S) /\ Len(RemoveAt(t, k)) = Len(s)
      /\ \A i \in 1..Len(s) : RemoveAt(t, k)[i] = IF i < k THEN t[i] ELSE t[i + 1]
  <2>1. k \in 1..Len(t) /\ Len(t) - 1 = Len(s)
    BY <1>1
  <2> QED
    BY <1>1, <2>1, RemoveAtIs
<1>4. Append(r, x) \in Seq(S) /\ Len(Append(r, x)) = Len(s)
      /\ \A i \in 1..Len(s) : Append(r, x)[i] = IF i <= Len(s) - 1 THEN r[i] ELSE x
  BY <1>1, <1>2
<1>5. ASSUME NEW i \in 1..Len(s)
      PROVE  RemoveAt(t, k)[i] = Append(r, x)[i]
  <2>1. k \in Nat /\ i \in Nat /\ k <= Len(s)
    BY <1>1
  <2>2. CASE i <= Len(s) - 1
    <3>1. i \in 1..(Len(s) - 1) /\ i + 1 \in 1..Len(s)
      BY <1>1, <2>1, <2>2
    <3>2. Append(r, x)[i] = r[i] /\ t[i] = s[i] /\ t[i + 1] = s[i + 1]
      BY <1>1, <1>4, <2>2, <3>1
    <3> QED
      BY <1>2, <1>3, <3>1, <3>2
  <2>3. CASE i = Len(s)
    <3>1. Append(r, x)[i] = x /\ t[i + 1] = x
      BY <1>1, <1>4, <2>3
    <3>2. ~(i < k)
      BY <1>1, <2>1, <2>3
    <3> QED
      BY <1>3, <3>1, <3>2
  <2>4. i <= Len(s) - 1 \/ i = Len(s)
    BY <1>1, <2>1
  <2> QED
    BY <2>2, <2>3, <2>4
<1> QED
  BY <1>3, <1>4, <1>5, SameSequence DEF t, r


\* References a decoder can tell apart: the last is the newest, and none is a
\* whole wrap behind.
Apart(w, c) ==
  /\ w \in Seq(Ref) /\ c \in Nat /\ Len(w) \in 1..2
  /\ w[Len(w)].n = c - 1 /\ c - w[1].n < MaxFrameNum
  /\ Len(w) = 2 => w[1].n < w[2].n

LEMMA DCardinality ==
  ASSUME NEW S
  PROVE  D!Cardinality(S) = Cardinality(S)
BY DEF D!Cardinality, Cardinality

LEMMA WrapUnique ==
  ASSUME NEW m \in Nat, m > 0, NEW r \in 0..(m - 1), NEW x \in Int, x = r \/ x = r - m
  PROVE  x % m = r
<1>1. CASE x = r
  <2>1. x = m * 0 + r
    BY <1>1
  <2> QED
    BY ONLY m \in Nat, m > 0, 0 \in Int, r \in 0..(m - 1), x \in Int, <2>1, DivUnique
<1>2. CASE x = r - m
  <2>1. x = m * (-1) + r
    BY <1>2
  <2>2. -1 \in Int
    OBVIOUS
  <2> QED
    BY ONLY m \in Nat, m > 0, r \in 0..(m - 1), x \in Int, <2>1, <2>2, DivUnique
<1> QED
  BY <1>1, <1>2

LEMMA Ages ==
  ASSUME NEW w, NEW c, Apart(w, c), NEW k \in 1..Len(w)
  PROVE  w[k].n \in Nat /\ w[k].n < c /\ c - w[k].n < MaxFrameNum /\ c - w[k].n \in Nat /\ c \in Nat
<1>1. w[k] \in Ref /\ w[k].n \in Nat /\ w[1] \in Ref /\ w[1].n \in Nat /\ c \in Nat
      /\ Len(w) \in {1, 2} /\ k \in {1, 2}
  <2>1. w \in Seq(Ref) /\ c \in Nat /\ Len(w) \in {1, 2}
    BY DEF Apart
  <2>2. 1 \in 1..Len(w) /\ k \in {1, 2}
    <3>1. \A n \in {1, 2} : 1 \in 1..n /\ \A j \in 1..n : j \in {1, 2}
      OBVIOUS
    <3> QED
      BY <2>1, <3>1
  <2>3. w[1] \in Ref /\ w[k] \in Ref
    BY <2>1, <2>2
  <2> QED
    BY <2>1, <2>2, <2>3 DEF Ref
<1>2. w[k].n < c /\ c - w[k].n < MaxFrameNum
  <2>1. /\ w[Len(w)].n = c - 1 /\ c - w[1].n < MaxFrameNum
        /\ Len(w) = 2 => w[1].n < w[2].n
    BY DEF Apart
  <2>2. CASE k = Len(w)
    <3>1. w[k].n = c - 1
      BY <2>1, <2>2
    <3> QED
      BY ONLY <1>1, <3>1, WrapAssumption
  <2>3. CASE k # Len(w)
    <3>1. k = 1 /\ Len(w) = 2
      <4>1. PICK l : l = Len(w)
        OBVIOUS
      <4>2. l \in {1, 2} /\ k \in 1..l /\ k # l
        BY <1>1, <2>3, <4>1
      <4>3. k = 1 /\ l = 2
        BY ONLY <4>2
      <4> QED
        BY <4>1, <4>3
    <3>2. w[2].n = c - 1 /\ w[1].n < w[2].n
      BY <2>1, <3>1
    <3> QED
      BY ONLY <1>1, <2>1, <3>1, <3>2
  <2> QED
    BY <2>2, <2>3
<1> QED
  BY <1>1, <1>2

LEMMA HeldNumbers ==
  ASSUME NEW st \in Seq(Slot), NEW w, NEW place, NEW c, Apart(w, c), Holds(st, w, place),
         NEW k \in 1..Len(w)
  PROVE  /\ w[k].n \in Nat /\ w[k].n < c /\ c - w[k].n < MaxFrameNum /\ c - w[k].n \in Nat
         /\ place[k] \in DOMAIN st /\ place[k] \in D!Taken(st) /\ place[k] \in Nat /\ place[k] > 0
         /\ D!Wrap(st[place[k]].frame_num, c % MaxFrameNum) = (c % MaxFrameNum) - (c - w[k].n)
<1>1. w[k].n \in Nat /\ c \in Nat /\ w[k].n < c /\ c - w[k].n \in Nat
  BY Ages
<1>2. c - w[k].n < MaxFrameNum
  BY Ages
<1>3. place \in Seq(DOMAIN st) /\ Len(place) = Len(w) /\ Is(st[place[k]], w[k])
  BY DEF Holds
<1>4. place[k] \in DOMAIN st /\ DOMAIN st = 1..Len(st) /\ Len(st) \in Nat
  BY <1>3
<1>5. place[k] \in D!Taken(st) /\ st[place[k]].frame_num = w[k].n % MaxFrameNum
  BY <1>3, <1>4 DEF Is, D!Taken
<1>6. D!Wrap(w[k].n % MaxFrameNum, c % MaxFrameNum) = (c % MaxFrameNum) - (c - w[k].n)
  BY <1>1, <1>2, WrapIs
<1> QED
  BY <1>1, <1>2, <1>4, <1>5, <1>6

LEMMA TakenIs ==
  ASSUME NEW st \in Seq(Slot), NEW w, NEW place, NEW c, Apart(w, c), Holds(st, w, place)
  PROVE  /\ Len(w) = 1 => D!Taken(st) = {place[1]} /\ Cardinality(D!Taken(st)) = 1
         /\ Len(w) = 2 => /\ D!Taken(st) = {place[1], place[2]} /\ place[1] # place[2]
                          /\ Cardinality(D!Taken(st)) = 2
         /\ Cardinality(D!Taken(st)) = Len(w)
<1>1. /\ Len(w) \in {1, 2}
      /\ \A j, k \in 1..Len(w) : place[j] = place[k] => j = k
      /\ \A i \in D!Taken(st) : \E k \in 1..Len(w) : place[k] = i
  BY DEF Apart, Holds
<1>2. \A k \in 1..Len(w) : place[k] \in D!Taken(st)
  BY HeldNumbers
<1>3. CASE Len(w) = 1
  <2>1. D!Taken(st) = {place[1]}
    BY <1>1, <1>2, <1>3
  <2>2. Cardinality({place[1]}) = 1
    BY FS_Singleton
  <2> QED
    BY <1>3, <2>1, <2>2
<1>4. CASE Len(w) = 2
  <2>1. D!Taken(st) = {place[1], place[2]} /\ place[1] # place[2]
    <3>1. place[1] \in D!Taken(st) /\ place[2] \in D!Taken(st) /\ place[1] # place[2]
      BY <1>1, <1>2, <1>4
    <3>2. ASSUME NEW i \in D!Taken(st) PROVE i \in {place[1], place[2]}
      BY <1>1, <1>4
    <3> QED
      BY <3>1, <3>2
  <2>2. Cardinality({place[1], place[2]}) = 2
    BY <2>1, Few
  <2> QED
    BY <1>4, <2>1, <2>2
<1> QED
  BY <1>1, <1>3, <1>4

\* The list before its modifications: the newest reference first.
LEMMA ByNumberIs ==
  ASSUME NEW st \in Seq(Slot), NEW w, NEW place, NEW c, Apart(w, c), Holds(st, w, place)
  PROVE  D!ByNumber(st, c % MaxFrameNum)
           = IF Len(w) = 1 THEN <<place[1]>> ELSE <<place[2], place[1]>>
<1> DEFINE number(i) == D!Wrap(st[i].frame_num, c % MaxFrameNum)
           before(i, j) == number(i) > number(j) \/ (number(i) = number(j) /\ i < j)
           sorted(f) == \A j, k \in DOMAIN f : j < k => before(f[j], f[k])
<1>1. D!ByNumber(st, c % MaxFrameNum)
        = CHOOSE f \in [1..Cardinality(D!Taken(st)) -> D!Taken(st)] : sorted(f)
  BY DCardinality DEF D!ByNumber
<1>2. Len(w) \in {1, 2}
  BY DEF Apart
<1>3. CASE Len(w) = 1
  <2>1. D!Taken(st) = {place[1]} /\ Cardinality(D!Taken(st)) = 1
    BY <1>3, TakenIs
  <2> DEFINE F == [1..1 -> {place[1]}]
  <2>2. \A f \in F : f = <<place[1]>>
    OBVIOUS
  <2>3. <<place[1]>> \in F /\ sorted(<<place[1]>>)
    <3>1. <<place[1]>> \in F /\ DOMAIN <<place[1]>> = {1}
      OBVIOUS
    <3>2. \A j, k \in {1} : ~(j < k)
      OBVIOUS
    <3> QED
      BY <3>1, <3>2
  <2> HIDE DEF sorted, F
  <2>4. (CHOOSE f \in F : sorted(f)) = <<place[1]>>
    BY <2>2, <2>3
  <2> QED
    BY <1>1, <1>3, <2>1, <2>4 DEF F
<1>4. CASE Len(w) = 2
  <2>1. D!Taken(st) = {place[1], place[2]} /\ place[1] # place[2] /\ Cardinality(D!Taken(st)) = 2
    BY <1>4, TakenIs
  <2>2. 1 \in 1..Len(w) /\ 2 \in 1..Len(w) /\ w[1].n < w[2].n /\ c \in Nat
    BY <1>4 DEF Apart
  <2>3. /\ number(place[1]) = (c % MaxFrameNum) - (c - w[1].n) /\ w[1].n \in Nat
        /\ number(place[2]) = (c % MaxFrameNum) - (c - w[2].n) /\ w[2].n \in Nat
    BY <2>2, HeldNumbers
  <2>4. c % MaxFrameNum \in Nat
    BY <2>2, WrapAssumption
  <2> HIDE DEF number
  <2>5. number(place[2]) > number(place[1]) /\ number(place[1]) \in Int /\ number(place[2]) \in Int
    <3>1. PICK x, y, m, older, newer :
            /\ x = w[1].n /\ y = w[2].n /\ m = c % MaxFrameNum
            /\ older = number(place[1]) /\ newer = number(place[2])
      OBVIOUS
    <3>2. /\ x \in Nat /\ y \in Nat /\ x < y /\ m \in Nat /\ c \in Nat
          /\ older = m - (c - x) /\ newer = m - (c - y)
      BY <2>2, <2>3, <2>4, <3>1
    <3>3. newer > older /\ older \in Int /\ newer \in Int
      BY ONLY <3>2
    <3> QED
      BY <3>1, <3>3
  <2> DEFINE a == place[1]
             b == place[2]
             F == [1..2 -> {a, b}]
  <2> HIDE DEF a, b
  <2>6. before(b, a) /\ ~before(a, b) /\ ~before(a, a) /\ ~before(b, b)
    <3>1. a \in Nat /\ b \in Nat
      BY <2>2, HeldNumbers DEF a, b
    <3> QED
      BY <2>5, <3>1 DEF a, b
  <2> HIDE DEF before
  <2>7. ASSUME NEW f \in F, sorted(f) PROVE f = <<b, a>>
    <3>1. DOMAIN f = 1..2 /\ f[1] \in {a, b} /\ f[2] \in {a, b}
      OBVIOUS
    <3>2. before(f[1], f[2])
      BY <2>7, <3>1
    <3>3. f[1] = b /\ f[2] = a
      BY <2>6, <3>1, <3>2
    <3> QED
      BY <3>1, <3>3
  <2>8. <<b, a>> \in F /\ sorted(<<b, a>>)
    <3>1. <<b, a>> \in F /\ DOMAIN <<b, a>> = {1, 2} /\ <<b, a>>[1] = b /\ <<b, a>>[2] = a
      OBVIOUS
    <3>2. \A j, k \in {1, 2} : j < k => j = 1 /\ k = 2
      OBVIOUS
    <3> QED
      BY <2>6, <3>1, <3>2
  <2> HIDE DEF sorted, F
  <2>9. (CHOOSE f \in F : sorted(f)) = <<b, a>>
    BY <2>7, <2>8
  <2> QED
    BY <1>1, <1>4, <2>1, <2>9 DEF F, a, b
<1> QED
  BY <1>2, <1>3, <1>4

Modified(st, u, base, mods) ==
  D!FoldLeftDomain(LAMBDA acc, j : D!Move(st, u, acc, j), base, mods)

\* A list with no modification, and one with the older of two references named.
LEMMA NoModification ==
  ASSUME NEW st, NEW u, NEW base
  PROVE  Modified(st, u, base, <<>>) = base
<1> DEFINE op(acc, k) == D!Move(st, u, acc, k)
           none == [i \in {} |-> i]
           F(i) == [t \in SUBSET {} |->
                      IF t = {} THEN base ELSE op(i[t \ {D!Max(t)}], none[D!Max(t)])]
           it == CHOOSE i : i = F(i)
<1>1. Modified(st, u, base, <<>>) = it[{}]
  <2>1. DOMAIN <<>> = {} /\ DOMAIN none = {}
    OBVIOUS
  <2> QED
    BY <2>1 DEF Modified, D!FoldLeftDomain, D!FoldLeft, D!MapThenFoldSet
<1> DEFINE g == [t \in SUBSET {} |-> base]
<1>2. g = F(g)
  OBVIOUS
<1>3. it = F(it)
  BY <1>2
<1> HIDE DEF it
<1>4. {} \in SUBSET {}
  OBVIOUS
<1>5. it[{}] = base
  BY <1>3, <1>4
<1> QED
  BY <1>1, <1>5

LEMMA OneModification ==
  ASSUME NEW st, NEW u, NEW base, NEW m
  PROVE  Modified(st, u, base, <<m>>)
           = D!Move(st, u, base, 1)
<1> DEFINE op(acc, k) == D!Move(st, u, acc, k)
           one == [i \in {1} |-> i]
           F(i) == [t \in SUBSET {1} |->
                      IF t = {} THEN base ELSE op(i[t \ {D!Max(t)}], one[D!Max(t)])]
           it == CHOOSE i : i = F(i)
<1>1. Modified(st, u, base, <<m>>) = it[{1}]
  <2>1. DOMAIN <<m>> = {1} /\ DOMAIN one = {1}
    OBVIOUS
  <2> QED
    BY <2>1 DEF Modified, D!FoldLeftDomain, D!FoldLeft, D!MapThenFoldSet
<1> HIDE DEF op
<1>2. D!Max({1}) = 1
  BY DEF D!Max
<1> DEFINE g == [t \in SUBSET {1} |-> IF t = {} THEN base ELSE op(base, 1)]
<1>3. g = F(g)
  <2>1. ASSUME NEW t \in SUBSET {1}, t # {}
        PROVE  op(g[t \ {D!Max(t)}], one[D!Max(t)]) = op(base, 1)
    <3>1. t = {1}
      BY <2>1
    <3>2. t \ {D!Max(t)} = {} /\ one[D!Max(t)] = 1
      BY <1>2, <3>1
    <3>3. g[{}] = base
      OBVIOUS
    <3> QED
      BY <3>2, <3>3
  <2> QED
    BY <2>1
<1>4. it = F(it)
  BY <1>3
<1> HIDE DEF it
<1>5. it[{}] = base
  BY <1>4
<1>6. it[{1}] = op(it[{}], 1)
  <2>1. {1} \in SUBSET {1} /\ {1} # {} /\ {1} \ {D!Max({1})} = {} /\ one[D!Max({1})] = 1
    BY <1>2
  <2>2. it[{1}] = op(it[{1} \ {D!Max({1})}], one[D!Max({1})])
    BY <1>4, <2>1
  <2> QED
    BY <2>1, <2>2
<1> QED
  BY <1>1, <1>5, <1>6 DEF op

LEMMA InsertFirst ==
  ASSUME NEW S, NEW s \in Seq(S), NEW e \in S
  PROVE  /\ D!InsertAt(s, 1, e) \in Seq(S) /\ Len(D!InsertAt(s, 1, e)) > 0
         /\ D!InsertAt(s, 1, e)[1] = e
<1> DEFINE x == SubSeq(s, 1, 1 - 1)
           y == SubSeq(s, 1, Len(s))
<1>1. x \in Seq(S) /\ Len(x) = 0 /\ y \in Seq(S) /\ Len(y) \in Nat
  OBVIOUS
<1>2. D!InsertAt(s, 1, e) = x \o <<e>> \o y
  BY DEF D!InsertAt
<1> HIDE DEF x, y
<1>3. x \o <<e>> \in Seq(S) /\ Len(x \o <<e>>) = 1 /\ (x \o <<e>>)[1] = e
  BY <1>1
<1> DEFINE z == x \o <<e>>
<1>4. z \in Seq(S) /\ Len(z) = 1 /\ z[1] = e
  BY <1>3
<1> HIDE DEF z
<1>5. z \o y \in Seq(S) /\ Len(z \o y) > 0 /\ (z \o y)[1] = e
  <2>1. z \in Seq(S) /\ y \in Seq(S)
    BY <1>1, <1>4
  <2>2. z \o y \in Seq(S) /\ Len(z \o y) = Len(z) + Len(y)
    BY <2>1
  <2>3. \A i \in 1..Len(z) : (z \o y)[i] = z[i]
    BY <2>1
  <2> QED
    BY <1>1, <1>4, <2>2, <2>3
<1> QED
  BY <1>2, <1>5 DEF z

LEMMA DRemoveAt ==
  ASSUME NEW s, NEW k
  PROVE  D!RemoveAt(s, k) = RemoveAt(s, k)
BY DEF D!RemoveAt, RemoveAt

\* The modification that names the older of two references.
LEMMA Moved ==
  ASSUME NEW st \in Seq(Slot), NEW w, NEW place, NEW c, Apart(w, c), Holds(st, w, place),
         Len(w) = 2,
         NEW u, u.frame_num = c % MaxFrameNum,
         u.mods = <<[idc |-> 0, value |-> c - w[1].n - 1]>>,
         NEW list, list = <<place[2], place[1]>>
  PROVE  LET moved == D!Move(st, u, [pred |-> u.frame_num, list |-> list], 1).list IN
         moved \in Seq(Nat) /\ Len(moved) > 0 /\ moved[1] = place[1]
<1>1. 1 \in 1..Len(w) /\ 2 \in 1..Len(w) /\ c \in Nat /\ w[1].n < w[2].n
  BY DEF Apart
<1>2. ASSUME NEW k \in 1..Len(w)
      PROVE  /\ w[k].n \in Nat /\ w[k].n < c /\ c - w[k].n < MaxFrameNum
             /\ place[k] \in Nat /\ place[k] > 0
             /\ D!Wrap(st[place[k]].frame_num, c % MaxFrameNum) = (c % MaxFrameNum) - (c - w[k].n)
  <2>1. Apart(w, c) /\ Holds(st, w, place) /\ st \in Seq(Slot) /\ k \in 1..Len(w)
    BY <1>2
  <2> QED
    BY ONLY <2>1, HeldNumbers
<1> DEFINE m == u.mods[1]
           n == w[1].n
           base == [pred |-> u.frame_num, list |-> list]
           pred == (u.frame_num - (m.value + 1)) % MaxFrameNum
           wanted == D!Wrap(pred, u.frame_num)
           Test(i) == D!Wrap(st[i].frame_num, u.frame_num) = wanted
           I == {i \in 1..Len(list) : Test(list[i])}
<1>3. /\ n \in Nat /\ n < c /\ c - n < MaxFrameNum
      /\ w[2].n \in Nat /\ place[1] \in Nat /\ place[1] > 0 /\ place[2] \in Nat
      /\ D!Wrap(st[place[1]].frame_num, c % MaxFrameNum) = (c % MaxFrameNum) - (c - n)
      /\ D!Wrap(st[place[2]].frame_num, c % MaxFrameNum) = (c % MaxFrameNum) - (c - w[2].n)
  BY <1>1, <1>2
<1>4. m.idc = 0 /\ m.value = c - n - 1
  OBVIOUS
<1>5. pred = n % MaxFrameNum
  <2> DEFINE r == c % MaxFrameNum
  <2>1. r \in Nat /\ m.value + 1 = c - n /\ u.frame_num = r
    BY <1>1, <1>3, <1>4, WrapAssumption
  <2>2. /\ n % MaxFrameNum \in 0..(MaxFrameNum - 1)
        /\ (IF n % MaxFrameNum > r THEN (n % MaxFrameNum) - MaxFrameNum ELSE n % MaxFrameNum)
             = r - (c - n)
    <3>1. n \in Nat /\ c \in Nat /\ n <= c /\ c - n < MaxFrameNum
          /\ MaxFrameNum \in Nat /\ MaxFrameNum > 0
      BY <1>1, <1>3, WrapAssumption
    <3> HIDE DEF n
    <3> QED
      BY <3>1, Wraps
  <2> DEFINE x == n % MaxFrameNum
             y == r - (c - n)
  <2>3. y % MaxFrameNum = x
    <3>1. x \in 0..(MaxFrameNum - 1) /\ y \in Int /\ MaxFrameNum \in Nat /\ MaxFrameNum > 0
      BY <1>1, <1>3, <2>1, <2>2, WrapAssumption
    <3>2. y = x \/ y = x - MaxFrameNum
      BY <2>1, <2>2, <3>1
    <3> HIDE DEF x, y
    <3> QED
      BY ONLY <3>1, <3>2, WrapUnique
  <2> HIDE DEF r
  <2> QED
    BY <2>1, <2>3
<1>6. wanted = (c % MaxFrameNum) - (c - n)
  BY <1>1, <1>3, <1>5, WrapIs
<1> HIDE DEF pred, m
<1>7. Test(place[1]) /\ ~Test(place[2])
  <2>1. c % MaxFrameNum \in Nat
    BY <1>1, WrapAssumption
  <2> DEFINE r == c % MaxFrameNum
             p == D!Wrap(st[place[1]].frame_num, u.frame_num)
             q == D!Wrap(st[place[2]].frame_num, u.frame_num)
  <2>2. r \in Nat /\ p = r - (c - n) /\ q = r - (c - w[2].n) /\ wanted = r - (c - n)
    BY <1>3, <1>6, <2>1
  <2> HIDE DEF r, p, q, wanted, n
  <2>3. p = wanted /\ q # wanted
    <3>1. PICK x, y : x = n /\ y = w[2].n
      OBVIOUS
    <3>2. x \in Nat /\ y \in Nat /\ x < y /\ c \in Nat
      BY <1>1, <1>3, <3>1 DEF n
    <3>3. r \in Nat /\ p = r - (c - x) /\ q = r - (c - y) /\ wanted = r - (c - x)
      BY <2>2, <3>1
    <3> QED
      BY ONLY <3>2, <3>3
  <2> QED
    BY <2>3 DEF p, q
<1>8. I = {2}
  <2>1. Len(list) = 2 /\ list[1] = place[2] /\ list[2] = place[1]
    OBVIOUS
  <2> HIDE DEF Test
  <2> QED
    BY <1>7, <2>1
<1> HIDE DEF wanted
<1>9. D!SelectInSeq(list, LAMBDA i : D!Wrap(st[i].frame_num, u.frame_num) = wanted) = 2
  <2>1. D!Min({2}) = 2
    BY DEF D!Min
  <2> QED
    BY <1>8, <2>1 DEF D!SelectInSeq
<1>10. list # D!Missing
  <2>1. Len(list) = 2 /\ Len(D!Missing) = 1
    BY DEF D!Missing
  <2> QED
    BY <2>1
<1> DEFINE new == D!InsertAt(D!RemoveAt(list, 2), 1, list[2])
<1>11. D!Move(st, u, base, 1).list = new
  <2>1. base.list = list /\ base.pred = u.frame_num
    OBVIOUS
  <2> HIDE DEF base
  <2>2. D!Move(st, u, base, 1)
          = [pred |-> pred, list |-> D!InsertAt(D!RemoveAt(base.list, 2), 1, base.list[2])]
    BY <1>4, <1>9, <1>10, <2>1 DEF D!Move, pred, wanted, m
  <2> QED
    BY <2>1, <2>2
<1>12. new \in Seq(Nat) /\ Len(new) > 0 /\ new[1] = place[1]
  <2>1. list \in Seq(Nat) /\ 2 \in 1..Len(list) /\ list[2] = place[1] /\ list[2] \in Nat
    BY <1>3
  <2>2. D!RemoveAt(list, 2) \in Seq(Nat)
    BY <2>1, RemoveAtIs, DRemoveAt
  <2>3. PICK x, e : x = D!RemoveAt(list, 2) /\ e = list[2]
    OBVIOUS
  <2>4. x \in Seq(Nat) /\ e \in Nat /\ e = place[1]
    BY <2>1, <2>2, <2>3
  <2>5. /\ D!InsertAt(x, 1, e) \in Seq(Nat) /\ Len(D!InsertAt(x, 1, e)) > 0
        /\ D!InsertAt(x, 1, e)[1] = e
    BY ONLY <2>4, InsertFirst
  <2> QED
    BY <2>3, <2>4, <2>5
<1> QED
  BY <1>11, <1>12

\* The first entry of the list is the reference the unit names.
LEMMA ListIs ==
  ASSUME NEW st \in Seq(Slot), NEW w, NEW place, NEW c, Apart(w, c), Holds(st, w, place),
         NEW u, u.frame_num = c % MaxFrameNum, NEW k \in 1..Len(w),
         u.mods = IF k = Len(w) THEN <<>> ELSE <<[idc |-> 0, value |-> c - w[k].n - 1]>>
  PROVE  /\ D!RefList0(st, u) # <<>> /\ D!RefList0(st, u) # D!Missing
         /\ D!RefList0(st, u)[1] = place[k]
<1> DEFINE list == D!RefList0(st, u)
           first == D!ByNumber(st, u.frame_num)
           base == [pred |-> u.frame_num, list |-> first]
<1>1. place[k] \in Nat /\ place[k] > 0
  BY HeldNumbers
<1>2. first = IF Len(w) = 1 THEN <<place[1]>> ELSE <<place[2], place[1]>>
  BY ByNumberIs
<1>3. k \in {1, 2} /\ Len(w) \in {1, 2} /\ (k # Len(w) => k = 1 /\ Len(w) = 2)
  <2>1. \A n \in {1, 2} : \A j \in 1..n : j \in {1, 2} /\ (j # n => j = 1 /\ n = 2)
    OBVIOUS
  <2>2. Len(w) \in {1, 2}
    BY DEF Apart
  <2> QED
    BY <2>1, <2>2
<1>4. Len(list) > 0 /\ list[1] = place[k]
  <2>1. CASE k = Len(w)
    <3>1. list = first
      <4>1. u.mods = <<>>
        BY <2>1
      <4>2. Modified(st, u, base, <<>>) = base
        BY NoModification
      <4>3. base.list = first
        OBVIOUS
      <4>4. list = Modified(st, u, base, u.mods).list
        BY DEF Modified, D!RefList0
      <4> QED
        BY <4>1, <4>2, <4>3, <4>4
    <3>2. Len(first) > 0 /\ first[1] = place[k]
      BY <1>2, <1>3, <2>1
    <3> QED
      BY <3>1, <3>2
  <2>2. CASE k # Len(w)
    <3>1. k = 1 /\ Len(w) = 2 /\ first = <<place[2], place[1]>>
      BY <1>2, <1>3, <2>2
    <3> DEFINE m == [idc |-> 0, value |-> c - w[1].n - 1]
    <3>2. u.mods = <<m>>
      BY <2>2, <3>1
    <3> HIDE DEF m
    <3>3. list = D!Move(st, u, base, 1).list
      <4>1. Modified(st, u, base, <<m>>)
              = D!Move(st, u, base, 1)
        BY OneModification
      <4> QED
        BY <3>2, <4>1 DEF Modified, D!RefList0
    <3> HIDE DEF first, list
    <3>4. Len(D!Move(st, u, base, 1).list) > 0 /\ D!Move(st, u, base, 1).list[1] = place[1]
      BY <3>1, <3>2, Moved DEF m
    <3> QED
      BY <3>1, <3>3, <3>4
  <2> QED
    BY <2>1, <2>2
<1> HIDE DEF list
<1>5. list # <<>>
  BY <1>4
<1>6. list # D!Missing
  <2>1. D!Missing[1] = 0
    BY DEF D!Missing
  <2> QED
    BY <1>1, <1>4, <2>1
<1> QED
  BY <1>4, <1>5, <1>6 DEF list

\* References, and perhaps the current picture, all told apart at the number c.
Ranked(v, c) ==
  /\ v \in Seq(Ref) /\ c \in Nat
  /\ \A k \in 1..Len(v) : v[k].n <= c /\ c - v[k].n < MaxFrameNum
  /\ \A j, k \in 1..Len(v) : j < k => v[j].n < v[k].n

LEMMA RankedNumbers ==
  ASSUME NEW st \in Seq(Slot), NEW v, NEW place, NEW c, Ranked(v, c), Holds(st, v, place),
         NEW k \in 1..Len(v)
  PROVE  /\ v[k].n \in Nat /\ v[k].n <= c /\ place[k] \in DOMAIN st /\ place[k] \in D!Taken(st)
         /\ D!Wrap(st[place[k]].frame_num, c % MaxFrameNum) = (c % MaxFrameNum) - (c - v[k].n)
<1>1. v[k] \in Ref /\ c \in Nat /\ v[k].n <= c /\ c - v[k].n < MaxFrameNum
  BY DEF Ranked
<1>2. v[k].n \in Nat
  BY <1>1 DEF Ref
<1>3. place \in Seq(DOMAIN st) /\ Len(place) = Len(v) /\ Is(st[place[k]], v[k])
  BY DEF Holds
<1>4. place[k] \in DOMAIN st
  BY <1>3
<1>5. place[k] \in D!Taken(st) /\ st[place[k]].frame_num = v[k].n % MaxFrameNum
  BY <1>3, <1>4 DEF Is, D!Taken
<1>6. D!Wrap(v[k].n % MaxFrameNum, c % MaxFrameNum) = (c % MaxFrameNum) - (c - v[k].n)
  BY <1>1, <1>2, WrapIs
<1> QED
  BY <1>1, <1>2, <1>4, <1>5, <1>6

\* The numbers are in the order of the references.
LEMMA RankedOrder ==
  ASSUME NEW st \in Seq(Slot), NEW v, NEW place, NEW c, Ranked(v, c), Holds(st, v, place),
         NEW j \in 1..Len(v), NEW k \in 1..Len(v)
  PROVE  LET number(i) == D!Wrap(st[place[i]].frame_num, c % MaxFrameNum) IN
         /\ number(j) \in Int /\ number(k) \in Int
         /\ j < k <=> number(j) < number(k)
         /\ number(j) = number(k) => j = k
<1> DEFINE r == c % MaxFrameNum
           x == D!Wrap(st[place[j]].frame_num, c % MaxFrameNum)
           y == D!Wrap(st[place[k]].frame_num, c % MaxFrameNum)
           m == v[j].n
           n == v[k].n
<1>1. x = r - (c - m) /\ m \in Nat
  BY RankedNumbers
<1>2. y = r - (c - n) /\ n \in Nat
  BY RankedNumbers
<1>3. c \in Nat /\ r \in Nat
  BY WrapAssumption DEF Ranked
<1>4. j \in Nat /\ k \in Nat
  BY DEF Ranked
<1>5. (j < k => m < n) /\ (k < j => n < m)
  BY DEF Ranked
<1> HIDE DEF x, y, r
<1> HIDE DEF m, n
<1>6. x \in Int /\ y \in Int /\ (x < y <=> m < n) /\ (x = y <=> m = n)
  BY <1>1, <1>2, <1>3
<1>7. m \in Nat /\ n \in Nat
  BY <1>1, <1>2
<1>8. j < k \/ k < j \/ j = k
  BY <1>4
<1> QED
  BY <1>1, <1>2, <1>4, <1>5, <1>6, <1>7, <1>8 DEF x, y

LEMMA FreedHolds ==
  ASSUME NEW st \in Seq(Slot), NEW v \in Seq(Ref), NEW place, Holds(st, v, place),
         NEW k \in 1..Len(v)
  PROVE  LET freed == [st EXCEPT ![place[k]] = D!Free] IN
         freed \in Seq(Slot) /\ Len(freed) = Len(st)
          /\ Holds(freed, RemoveAt(v, k), RemoveAt(place, k))
<1> DEFINE freed == [st EXCEPT ![place[k]] = D!Free]
           P == DOMAIN st
           u == RemoveAt(v, k)
           a == RemoveAt(place, k)
           up(i) == IF i < k THEN i ELSE i + 1
<1>1. /\ place \in Seq(P) /\ Len(place) = Len(v) /\ Len(v) \in Nat /\ k \in Nat
      /\ \A i \in 1..Len(v) : Is(st[place[i]], v[i])
      /\ \A i, j \in 1..Len(v) : place[i] = place[j] => i = j
      /\ \A i \in D!Taken(st) : \E j \in 1..Len(v) : place[j] = i
  BY DEF Holds
<1>2. place[k] \in P /\ P = 1..Len(st)
  BY <1>1
<1>3. freed \in Seq(Slot) /\ Len(freed) = Len(st) /\ DOMAIN freed = P
  <2>1. D!Free \in Slot
    BY DEF Slot
  <2> QED
    BY <1>2, <2>1
<1>4. u \in Seq(Ref) /\ Len(u) = Len(v) - 1 /\ \A i \in 1..(Len(v) - 1) : u[i] = v[up(i)]
  <2>1. /\ u \in Seq(Ref) /\ Len(u) = Len(v) - 1
        /\ \A i \in 1..(Len(v) - 1) : u[i] = IF i < k THEN v[i] ELSE v[i + 1]
    BY RemoveAtIs
  <2> QED
    BY <2>1
<1>5. a \in Seq(P) /\ Len(a) = Len(v) - 1 /\ \A i \in 1..(Len(v) - 1) : a[i] = place[up(i)]
  <2>1. k \in 1..Len(place)
    BY <1>1
  <2>2. /\ a \in Seq(P) /\ Len(a) = Len(place) - 1
        /\ \A i \in 1..(Len(place) - 1) : a[i] = IF i < k THEN place[i] ELSE place[i + 1]
    BY <1>1, <2>1, RemoveAtIs
  <2> QED
    BY <1>1, <2>2
<1>6. ASSUME NEW i \in 1..(Len(v) - 1)
      PROVE  up(i) \in 1..Len(v) /\ up(i) # k
  BY <1>1
<1>7. ASSUME NEW i \in 1..(Len(v) - 1), NEW j \in 1..(Len(v) - 1), up(i) = up(j)
      PROVE  i = j
  BY <1>1, <1>7
<1>8. ASSUME NEW i \in 1..Len(v), i # k
      PROVE  \E j \in 1..(Len(v) - 1) : up(j) = i
  <2>1. CASE i < k
    <3>1. i \in 1..(Len(v) - 1) /\ up(i) = i
      BY <1>1, <2>1
    <3> QED
      BY <3>1
  <2>2. CASE i > k
    <3>1. i - 1 \in 1..(Len(v) - 1) /\ up(i - 1) = i
      BY <1>1, <2>2
    <3> QED
      BY <3>1
  <2>3. i < k \/ i > k
    BY <1>1, <1>8
  <2> QED
    BY <2>1, <2>2, <2>3
<1> HIDE DEF u, a, up
<1>9. ASSUME NEW i \in 1..(Len(v) - 1)
      PROVE  Is(freed[a[i]], u[i])
  <2>1. a[i] = place[up(i)] /\ u[i] = v[up(i)] /\ up(i) \in 1..Len(v) /\ place[up(i)] # place[k]
    BY <1>1, <1>4, <1>5, <1>6
  <2>2. place[up(i)] \in P
    BY <1>1, <2>1
  <2>3. freed[a[i]] = st[place[up(i)]]
    BY <2>1, <2>2
  <2> QED
    BY <1>1, <2>1, <2>3
<1>10. ASSUME NEW i \in 1..(Len(v) - 1), NEW j \in 1..(Len(v) - 1), a[i] = a[j]
       PROVE  i = j
  <2>1. place[up(i)] = place[up(j)] /\ up(i) \in 1..Len(v) /\ up(j) \in 1..Len(v)
    BY <1>5, <1>6, <1>10
  <2> QED
    BY <1>1, <1>7, <2>1
<1>11. ASSUME NEW i \in D!Taken(freed)
       PROVE  \E j \in 1..(Len(v) - 1) : a[j] = i
  <2>1. i \in P /\ freed[i] # D!Free
    BY <1>3, <1>11 DEF D!Taken
  <2>2. i # place[k] /\ st[i] # D!Free
    BY <1>2, <2>1
  <2>3. i \in D!Taken(st)
    BY <2>1, <2>2 DEF D!Taken
  <2>4. PICK j \in 1..Len(v) : place[j] = i
    BY <1>1, <2>3
  <2>5. PICK h \in 1..(Len(v) - 1) : up(h) = j
    BY <1>8, <2>2, <2>4
  <2>6. a[h] = i
    BY <1>5, <2>4, <2>5
  <2> QED
    BY <2>6
<1> HIDE DEF freed
<1>12. Holds(freed, u, a)
  BY <1>3, <1>4, <1>5, <1>9, <1>10, <1>11 DEF Holds
<1> QED
  BY <1>3, <1>12 DEF freed, u, a

LEMMA EvictsFirst ==
  ASSUME NEW st \in Seq(Slot), NEW v, NEW place, NEW c, Ranked(v, c),
         Holds(st, v, place), Len(v) > 0
  PROVE  D!EvictOldest(st, c % MaxFrameNum) = [st EXCEPT ![place[1]] = D!Free]
<1> DEFINE number(i) == D!Wrap(st[i].frame_num, c % MaxFrameNum)
           older(i, j) == number(i) < number(j) \/ (number(i) = number(j) /\ i <= j)
           T == D!Taken(st)
<1>1. D!EvictOldest(st, c % MaxFrameNum)
        = [st EXCEPT ![CHOOSE i \in T : \A j \in T : older(i, j)] = D!Free]
  BY DEF D!EvictOldest
<1>2. 1 \in 1..Len(v) /\ v \in Seq(Ref)
  BY DEF Ranked
<1>3. place[1] \in T /\ place[1] \in DOMAIN st
  BY <1>2, RankedNumbers
<1>4. \A i \in T : \E k \in 1..Len(v) : place[k] = i
  BY DEF Holds
<1>5. ASSUME NEW k \in 1..Len(v)
      PROVE  older(place[1], place[k]) /\ (older(place[k], place[1]) => place[k] = place[1])
  <2>1. /\ number(place[1]) \in Int /\ number(place[k]) \in Int
        /\ 1 < k <=> number(place[1]) < number(place[k])
        /\ number(place[1]) = number(place[k]) => 1 = k
    BY <1>2, RankedOrder
  <2>2. k = 1 \/ 1 < k
    BY <1>2
  <2>3. place[1] \in Nat
    BY <1>3
  <2> HIDE DEF number
  <2> QED
    BY <2>1, <2>2, <2>3
<1> HIDE DEF older, T
<1>6. (CHOOSE i \in T : \A j \in T : older(i, j)) = place[1]
  <2>1. \A j \in T : older(place[1], j)
    BY <1>4, <1>5 DEF T
  <2>2. \A i \in T : (\A j \in T : older(i, j)) => i = place[1]
    BY <1>3, <1>4, <1>5 DEF T
  <2> QED
    BY <1>3, <2>1, <2>2
<1> QED
  BY <1>1, <1>6

Unmark(n) == [op |-> 1, difference_of_pic_nums_minus1 |-> n]

FreesOne(st, v, place, c, k) ==
  D!ApplyMmco(st, Unmark(c - v[k].n - 1), c % MaxFrameNum) = [st EXCEPT ![place[k]] = D!Free]

LEMMA MmcoFrees ==
  ASSUME NEW st \in Seq(Slot), NEW v, NEW place, NEW c, Ranked(v, c), Holds(st, v, place),
         NEW k \in 1..Len(v)
  PROVE  FreesOne(st, v, place, c, k)
<1> DEFINE o == Unmark(c - v[k].n - 1)
           number(i) == D!Wrap(st[i].frame_num, c % MaxFrameNum)
           back == (c % MaxFrameNum) - (o.difference_of_pic_nums_minus1 + 1)
           frees(i) == st[i] # D!Free /\ D!Unmarks(o, st[i], c % MaxFrameNum)
<1>1. D!ApplyMmco(st, o, c % MaxFrameNum)
        = [i \in DOMAIN st |-> IF frees(i) THEN D!Free ELSE st[i]]
  BY DEF D!ApplyMmco
<1>2. place[k] \in D!Taken(st) /\ place[k] \in DOMAIN st /\ v[k].n \in Nat /\ c \in Nat
      /\ number(place[k]) = (c % MaxFrameNum) - (c - v[k].n)
  <2>1. c \in Nat
    BY DEF Ranked
  <2>2. place[k] \in D!Taken(st) /\ place[k] \in DOMAIN st /\ v[k].n \in Nat
        /\ number(place[k]) = (c % MaxFrameNum) - (c - v[k].n)
    BY RankedNumbers
  <2> QED
    BY <2>1, <2>2
<1>3. number(place[k]) = back
  <2>1. o.difference_of_pic_nums_minus1 = c - v[k].n - 1 /\ c % MaxFrameNum \in Nat
    BY <1>2, WrapAssumption DEF Unmark
  <2> DEFINE r == c % MaxFrameNum
             t == o.difference_of_pic_nums_minus1
  <2>2. r \in Nat /\ t = c - v[k].n - 1 /\ number(place[k]) = r - (c - v[k].n) /\ back = r - (t + 1)
    BY <1>2, <2>1
  <2> HIDE DEF r, t, back, number
  <2> QED
    BY <1>2, <2>2
<1> HIDE DEF back
<1>4. o.op = 1
  BY DEF Unmark
<1>5. ASSUME NEW i \in DOMAIN st
      PROVE  frees(i) <=> i = place[k]
  <2>0. frees(i) <=> st[i] # D!Free /\ number(i) = back
    BY <1>4 DEF D!Unmarks, back
  <2> HIDE DEF frees
  <2>1. CASE i = place[k]
    BY <1>2, <1>3, <2>0, <2>1 DEF D!Taken
  <2>2. CASE i # place[k]
    <3>1. SUFFICES ASSUME st[i] # D!Free, number(i) = back PROVE FALSE
      BY <2>0, <2>2
    <3>2. i \in D!Taken(st)
      BY <3>1 DEF D!Taken
    <3>3. PICK j \in 1..Len(v) : place[j] = i
      BY <3>2 DEF Holds
    <3>4. number(place[j]) = number(place[k]) => j = k
      BY RankedOrder
    <3> QED
      BY <1>3, <2>2, <3>1, <3>3, <3>4
  <2> QED
    BY <2>1, <2>2
<1> HIDE DEF frees
<1> QED
  BY <1>1, <1>2, <1>5 DEF FreesOne

\* A command that names a picture of no slot frees none.
LEMMA MmcoMisses ==
  ASSUME NEW st \in Seq(Slot), NEW v, NEW place, NEW c, Ranked(v, c), Holds(st, v, place),
         NEW n \in Nat, \A k \in 1..Len(v) : v[k].n # n
  PROVE  D!ApplyMmco(st, Unmark(c - n - 1), c % MaxFrameNum) = st
<1> DEFINE o == Unmark(c - n - 1)
           number(i) == D!Wrap(st[i].frame_num, c % MaxFrameNum)
           back == (c % MaxFrameNum) - (o.difference_of_pic_nums_minus1 + 1)
           frees(i) == st[i] # D!Free /\ D!Unmarks(o, st[i], c % MaxFrameNum)
<1>1. D!ApplyMmco(st, o, c % MaxFrameNum)
        = [i \in DOMAIN st |-> IF frees(i) THEN D!Free ELSE st[i]]
  BY DEF D!ApplyMmco
<1>2. c \in Nat /\ c % MaxFrameNum \in Nat /\ o.op = 1
      /\ o.difference_of_pic_nums_minus1 = c - n - 1
  BY WrapAssumption DEF Ranked, Unmark
<1>3. ASSUME NEW i \in DOMAIN st, st[i] # D!Free
      PROVE  number(i) # back
  <2>1. i \in D!Taken(st)
    BY <1>3 DEF D!Taken
  <2>2. PICK j \in 1..Len(v) : place[j] = i
    BY <2>1 DEF Holds
  <2>3. number(i) = (c % MaxFrameNum) - (c - v[j].n) /\ v[j].n \in Nat /\ v[j].n # n
    BY <2>2, RankedNumbers
  <2> DEFINE r == c % MaxFrameNum
             m == v[j].n
             t == o.difference_of_pic_nums_minus1
  <2>4. r \in Nat /\ c \in Nat /\ n \in Nat /\ m \in Nat /\ m # n /\ t = c - n - 1
        /\ number(i) = r - (c - m) /\ back = r - (t + 1)
    BY <1>2, <2>3
  <2> HIDE DEF r, m, t, number, back
  <2> QED
    BY <2>4
<1>4. ASSUME NEW i \in DOMAIN st
      PROVE  ~frees(i)
  BY <1>2, <1>3 DEF D!Unmarks
<1> HIDE DEF frees
<1> QED
  BY <1>1, <1>4

\* Operation 5 frees every slot.
LEMMA ResetFrees ==
  ASSUME NEW st \in Seq(Slot), NEW o, o.op = 5, NEW cur
  PROVE  D!ApplyMmco(st, o, cur) \in Seq(Slot) /\ D!Taken(D!ApplyMmco(st, o, cur)) = {}
<1>1. D!ApplyMmco(st, o, cur) = [i \in DOMAIN st |-> D!Free]
  <2>1. \A i \in DOMAIN st : D!Unmarks(o, st[i], cur)
    BY DEF D!Unmarks
  <2> QED
    BY <2>1 DEF D!ApplyMmco
<1>2. D!Free \in Slot
  BY DEF Slot
<1> QED
  BY <1>1, <1>2 DEF D!Taken

LEMMA StoredHolds ==
  ASSUME NEW st \in Seq(Slot), NEW v \in Seq(Ref), NEW place, Holds(st, v, place),
         NEW f \in DOMAIN st, f \notin D!Taken(st), NEW cur \in Slot, NEW r \in Ref, Is(cur, r)
  PROVE  LET stored == [st EXCEPT ![f] = cur] IN
         /\ stored \in Seq(Slot) /\ Len(stored) = Len(st)
         /\ Holds(stored, Append(v, r), Append(place, f))
         /\ D!Taken(stored) = D!Taken(st) \cup {f}
<1>a. /\ place \in Seq(DOMAIN st) /\ Len(place) = Len(v)
      /\ \A i \in 1..Len(v) : Is(st[place[i]], v[i])
      /\ \A i, j \in 1..Len(v) : place[i] = place[j] => i = j
      /\ \A i \in D!Taken(st) : \E j \in 1..Len(v) : place[j] = i
  BY DEF Holds
<1>b. Len(v) \in Nat
  BY ONLY v \in Seq(Ref)
<1> DEFINE stored == [st EXCEPT ![f] = cur]
           P == DOMAIN st
           u == Append(v, r)
           a == Append(place, f)
<1>1. /\ place \in Seq(P) /\ Len(place) = Len(v) /\ Len(v) \in Nat
      /\ \A i \in 1..Len(v) : Is(st[place[i]], v[i])
      /\ \A i, j \in 1..Len(v) : place[i] = place[j] => i = j
      /\ \A i \in D!Taken(st) : \E j \in 1..Len(v) : place[j] = i
  BY <1>a, <1>b
<1>2. P = 1..Len(st)
  OBVIOUS
<1>3. stored \in Seq(Slot) /\ Len(stored) = Len(st) /\ DOMAIN stored = P /\ stored[f] = cur
      /\ \A i \in P : i # f => stored[i] = st[i]
  BY <1>2
<1>4. u \in Seq(Ref) /\ Len(u) = Len(v) + 1 /\ u[Len(v) + 1] = r
      /\ \A i \in 1..Len(v) : u[i] = v[i]
  OBVIOUS
<1>5. a \in Seq(P) /\ Len(a) = Len(v) + 1 /\ a[Len(v) + 1] = f
      /\ \A i \in 1..Len(v) : a[i] = place[i] /\ a[i] \in P /\ a[i] # f
  <2>1. a \in Seq(P) /\ Len(a) = Len(v) + 1 /\ a[Len(v) + 1] = f
        /\ \A i \in 1..Len(v) : a[i] = place[i] /\ place[i] \in P
    BY <1>1
  <2>2. ASSUME NEW i \in 1..Len(v) PROVE place[i] # f
    <3>1. st[place[i]] # D!Free /\ place[i] \in P
      BY <1>1 DEF Is
    <3> QED
      BY <3>1 DEF D!Taken
  <2> QED
    BY <2>1, <2>2
<1>6. cur # D!Free
  BY DEF Is
<1>7. D!Taken(stored) = D!Taken(st) \cup {f}
  BY <1>3, <1>6 DEF D!Taken
<1> HIDE DEF stored, u, a
<1>8. ASSUME NEW i \in 1..Len(u)
      PROVE  Is(stored[a[i]], u[i])
  <2>1. CASE i = Len(v) + 1
    BY <1>3, <1>4, <1>5, <2>1
  <2>2. CASE i \in 1..Len(v)
    <3>1. stored[a[i]] = st[place[i]] /\ u[i] = v[i]
      BY <1>3, <1>4, <1>5, <2>2
    <3> QED
      BY <1>1, <2>2, <3>1
  <2>3. i = Len(v) + 1 \/ i \in 1..Len(v)
    BY <1>1, <1>4
  <2> QED
    BY <2>1, <2>2, <2>3
<1>9. ASSUME NEW i \in 1..Len(u), NEW j \in 1..Len(u), a[i] = a[j]
      PROVE  i = j
  <2>1. (i = Len(v) + 1 \/ i \in 1..Len(v)) /\ (j = Len(v) + 1 \/ j \in 1..Len(v))
    BY <1>1, <1>4
  <2>2. CASE i \in 1..Len(v) /\ j \in 1..Len(v)
    BY <1>1, <1>5, <1>9, <2>2
  <2>3. CASE i \in 1..Len(v) /\ j = Len(v) + 1
    BY <1>5, <1>9, <2>3
  <2>4. CASE j \in 1..Len(v) /\ i = Len(v) + 1
    BY <1>5, <1>9, <2>4
  <2> QED
    BY <2>1, <2>2, <2>3, <2>4
<1>10. ASSUME NEW i \in D!Taken(stored)
       PROVE  \E j \in 1..Len(u) : a[j] = i
  <2>1. CASE i = f
    <3>1. Len(v) + 1 \in 1..Len(u)
      BY <1>1, <1>4
    <3> QED
      BY <1>5, <2>1, <3>1
  <2>2. CASE i \in D!Taken(st)
    <3>1. PICK j \in 1..Len(v) : place[j] = i
      BY <1>1, <2>2
    <3>2. j \in 1..Len(u) /\ a[j] = i
      BY <1>1, <1>4, <1>5, <3>1
    <3> QED
      BY <3>2
  <2> QED
    BY <1>7, <2>1, <2>2
<1>11. Holds(stored, u, a)
  BY <1>3, <1>4, <1>5, <1>8, <1>9, <1>10 DEF Holds
<1> QED
  BY <1>3, <1>7, <1>11 DEF stored, u, a

LEMMA PocSet ==
  ASSUME NEW p \in PocState, NEW a \in Int, NEW b \in Int
  PROVE  /\ [p EXCEPT !.prev_msb = a, !.prev_lsb = b] \in PocState
         /\ [p EXCEPT !.prev_msb = a, !.prev_lsb = b].prev_msb = a
         /\ [p EXCEPT !.prev_msb = a, !.prev_lsb = b].prev_lsb = b
BY DEF PocState

\* What the next picture is told from, after operation 5 and without.
Noted(p, u) == [p EXCEPT !.prev_frame_num = u.frame_num]
Restart(p) == [p EXCEPT !.prev_frame_num = 0, !.prev_offset = 0]

LEMMA ResetsIs ==
  ASSUME NEW u
  PROVE  /\ u.mmcos = <<>> => ~D!Resets(u)
         /\ \A o : u.mmcos = <<o>> => (D!Resets(u) <=> o.op = 5)
<1>1. DOMAIN <<>> = {} /\ \A o : DOMAIN <<o>> = {1} /\ <<o>>[1] = o
  OBVIOUS
<1> QED
  BY <1>1 DEF D!Resets

LEMMA NotedIs ==
  ASSUME NEW p \in PocState, NEW u, u.frame_num \in Int
  PROVE  /\ D!Noted(p, u) = IF D!Resets(u) THEN Restart(p) ELSE Noted(p, u)
         /\ D!Noted(p, u) \in PocState
<1>1. D!Noted(p, u) = IF D!Resets(u) THEN Restart(p) ELSE Noted(p, u)
  BY DEF D!Noted, Noted, Restart
<1>2. Restart(p) \in PocState
  <2>1. \A z \in Int : [p EXCEPT !.prev_frame_num = z, !.prev_offset = z] \in PocState
    BY DEF PocState
  <2>2. 0 \in Int
    OBVIOUS
  <2> QED
    BY <2>1, <2>2, Zenon DEF Restart
<1>3. Noted(p, u) \in PocState
  BY DEF PocState, Noted
<1> QED
  BY <1>1, <1>2, <1>3

LEMMA RestartCounts ==
  ASSUME NEW p \in PocState, PocType(sps) = 2
  PROVE  Counts(Restart(p), 1)
<1>1. Restart(p).prev_frame_num = 0 /\ Restart(p).prev_offset = 0
  BY DEF PocState, Restart
<1>2. 0 \in {1 - 1, 1} /\ 0 - 0 = 0
  OBVIOUS
<1> QED
  BY <1>1, <1>2, Zeroes DEF Counts

\* The order count of the next picture, across the wraps.
LEMMA DerivesOrder ==
  ASSUME NEW p \in PocState, NEW c \in Nat, c > 0, Counts(p, c),
         NEW u, ~u.idr, u.ref \in BOOLEAN, u.frame_num = c % MaxFrameNum,
         NEW type \in {0, 2}, type = PocType(sps),
         IF type = 0 THEN u.ref /\ u.poc = c /\ u.lsb = c % MaxPocLsb
         ELSE u.poc = IF u.ref THEN 2 * c ELSE 2 * c - 1
  PROVE  /\ D!Derive(p, u, type).value = u.poc /\ D!Derive(p, u, type).next \in PocState
         /\ Counts(Noted(D!Derive(p, u, type).next, u),
                   IF u.ref THEN c + 1 ELSE c)
<1> DEFINE o == D!Derive(p, u, type)
           next == Noted(o.next, u)
<1>1. /\ p.prev_msb \in Int /\ p.prev_lsb \in Int /\ p.prev_offset \in Int
      /\ p.prev_frame_num \in Int
  BY DEF PocState
<1>2. CASE type = 0
  <2> DEFINE L == MaxPocLsb
             lsb == c % L
             msb == D!PocMsb(p, u.lsb)
  <2>1. /\ L \in Nat /\ L > 1 /\ lsb \in 0..(L - 1) /\ (c - 1) % L \in 0..(L - 1)
        /\ lsb = 0 => (c - 1) % L = L - 1
        /\ lsb # 0 => (c - 1) % L = lsb - 1
    BY WrapAssumption, Increments
  <2>2. u.ref /\ u.poc = c /\ u.lsb = lsb
    BY <1>2
  <2>3. p.prev_lsb = (c - 1) % L /\ p.prev_msb + p.prev_lsb = c - 1
    BY <1>2 DEF Counts
  <2>4. L \div 2 \in Nat /\ L \div 2 >= 1 /\ L \div 2 <= L - 1
    BY <2>1
  <2> HIDE DEF L, lsb
  <2>5. msb + lsb = c /\ msb \in Int
    <3>1. CASE lsb = 0
      <4>1. p.prev_lsb = L - 1 /\ u.lsb < p.prev_lsb /\ p.prev_lsb - u.lsb >= L \div 2
        BY <2>1, <2>2, <2>3, <2>4, <3>1
      <4>2. msb = p.prev_msb + L
        BY <4>1 DEF D!PocMsb, L
      <4> QED
        BY <1>1, <2>1, <2>3, <3>1, <4>1, <4>2
    <3>2. CASE lsb # 0
      <4>1. p.prev_lsb = lsb - 1
        BY <2>1, <2>3, <3>2
      <4>2. ~(u.lsb < p.prev_lsb) /\ ~(u.lsb - p.prev_lsb > L \div 2)
        BY <2>1, <2>2, <2>4, <4>1
      <4>3. msb = p.prev_msb
        BY <4>2 DEF D!PocMsb, L
      <4> QED
        BY <1>1, <2>1, <2>3, <4>1, <4>3
    <3> QED
      BY <3>1, <3>2
  <2> HIDE DEF msb
  <2>6. o = [value |-> msb + u.lsb, next |-> [p EXCEPT !.prev_msb = msb, !.prev_lsb = u.lsb]]
    BY <1>2, <2>2 DEF D!Derive, msb
  <2>7. o.value = u.poc /\ o.next = [p EXCEPT !.prev_msb = msb, !.prev_lsb = u.lsb]
    BY <2>2, <2>5, <2>6
  <2>8. u.lsb \in Int
    BY <2>1, <2>2
  <2>9. o.next \in PocState
    BY <2>5, <2>7, <2>8 DEF PocState
  <2>10. next.prev_msb = msb /\ next.prev_lsb = u.lsb
    BY <2>7 DEF PocState, Noted
  <2>11. c + 1 - 1 = c
    OBVIOUS
  <2> HIDE DEF o, next
  <2>12. Counts(next, c + 1)
    BY <1>2, <2>2, <2>5, <2>10, <2>11 DEF Counts, lsb, L
  <2> QED
    BY <2>2, <2>7, <2>9, <2>12 DEF o, next
<1>3. CASE type = 2
  <2> DEFINE r == c % MaxFrameNum
             back == (c - 1) % MaxFrameNum
             wrapped == p.prev_frame_num > u.frame_num
             offset == p.prev_offset + (IF wrapped THEN MaxFrameNum ELSE 0)
  <2>1. PICK last \in {c - 1, c} :
               /\ p.prev_frame_num = last % MaxFrameNum
               /\ p.prev_offset = last - (last % MaxFrameNum)
    BY <1>3 DEF Counts
  <2>2. /\ MaxFrameNum \in Nat /\ MaxFrameNum > 2 /\ r \in 0..(MaxFrameNum - 1)
        /\ back \in 0..(MaxFrameNum - 1)
        /\ r = 0 => back = MaxFrameNum - 1
        /\ r # 0 => back = r - 1
    <3>1. MaxFrameNum \in Nat /\ MaxFrameNum > 1 /\ MaxFrameNum > 2
      BY WrapAssumption
    <3> QED
      BY <3>1, Increments
  <2>3. u.frame_num = r
    OBVIOUS
  <2>4. offset = c - r
    <3>1. CASE last = c
      <4>1. p.prev_frame_num = r /\ p.prev_offset = c - r
        BY <2>1, <3>1
      <4> HIDE DEF r
      <4> QED
        BY <2>2, <2>3, <4>1
    <3>2. CASE last = c - 1
      <4>1. p.prev_frame_num = back /\ p.prev_offset = c - 1 - back
        BY <2>1, <3>2
      <4> HIDE DEF r, back
      <4> QED
        BY <2>2, <2>3, <4>1
    <3> QED
      BY <2>1, <3>1, <3>2
  <2>5. /\ o.value = IF u.ref THEN 2 * (offset + u.frame_num) ELSE 2 * (offset + u.frame_num) - 1
        /\ o.next = [p EXCEPT !.prev_offset = offset]
    BY <1>3 DEF D!Derive
  <2> HIDE DEF offset
  <2>6. offset + u.frame_num = c /\ offset \in Int
    <3> HIDE DEF r
    <3> QED
      BY <2>2, <2>3, <2>4
  <2>7. o.value = u.poc
    BY <1>3, <2>5, <2>6
  <2>8. o.next \in PocState
    BY <2>5, <2>6 DEF PocState
  <2>9. next.prev_frame_num = c % MaxFrameNum /\ next.prev_offset = c - (c % MaxFrameNum)
    BY <2>4, <2>5 DEF PocState, Noted
  <2> HIDE DEF o, next
  <2>10. c \in {c + 1 - 1, c + 1}
    OBVIOUS
  <2>11. Counts(next, c + 1) /\ Counts(next, c)
    BY <1>3, <2>9, <2>10 DEF Counts
  <2> QED
    BY <2>7, <2>8, <2>11 DEF o, next
<1> QED
  BY <1>2, <1>3

\* An IDR starts the count anew.
LEMMA DerivesIdr ==
  ASSUME NEW p \in PocState, NEW u, u.idr, u.ref, u.frame_num = 0, u.lsb = 0,
         NEW type \in {0, 2}, type = PocType(sps)
  PROVE  /\ D!Derive(p, u, type).value = 0 /\ D!Derive(p, u, type).next \in PocState
         /\ Counts(Noted(D!Derive(p, u, type).next, u), 1)
<1> DEFINE o == D!Derive(p, u, type)
           next == Noted(o.next, u)
<1>0. 0 % MaxPocLsb = 0 /\ 0 % MaxFrameNum = 0 /\ 1 - 1 = 0 /\ 0 - 0 = 0
  BY Zeroes
<1>1. CASE type = 0
  <2> DEFINE msb == D!PocMsb(IF u.idr THEN D!ZeroPoc ELSE p, u.lsb)
             reset == [p EXCEPT !.prev_msb = 0, !.prev_lsb = 0]
  <2>1. msb = 0
    BY DEF D!PocMsb, D!ZeroPoc
  <2>2. o.value = msb + u.lsb /\ o.next = [p EXCEPT !.prev_msb = msb, !.prev_lsb = u.lsb]
    BY <1>1 DEF D!Derive
  <2> HIDE DEF msb, o
  <2>5. o.value = 0 /\ o.next = reset
    BY <2>1, <2>2
  <2>6. reset \in PocState /\ reset.prev_msb = 0 /\ reset.prev_lsb = 0
    <3>1. 0 \in Int
      OBVIOUS
    <3> QED
      BY <3>1, PocSet
  <2> HIDE DEF reset
  <2>7. Noted(reset, u).prev_msb = 0
        /\ Noted(reset, u).prev_lsb = 0
    BY <2>6 DEF PocState, Noted
  <2>3. o.value = 0 /\ o.next \in PocState /\ next.prev_msb = 0 /\ next.prev_lsb = 0
    BY <2>5, <2>6, <2>7
  <2> HIDE DEF o, next
  <2>4. Counts(next, 1)
    BY <1>0, <1>1, <2>3 DEF Counts
  <2> QED
    BY <2>3, <2>4 DEF o, next
<1>2. CASE type = 2
  <2>1. o.value = 0 /\ o.next = [p EXCEPT !.prev_offset = 0]
    BY <1>2 DEF D!Derive
  <2>2. o.next \in PocState /\ next.prev_offset = 0 /\ next.prev_frame_num = 0
    BY <2>1 DEF PocState, Noted
  <2> HIDE DEF o, next
  <2>3. Counts(next, 1)
    <3>1. 0 \in {1 - 1, 1} /\ next.prev_frame_num = 0 % MaxFrameNum
          /\ next.prev_offset = 0 - (0 % MaxFrameNum)
      BY <1>0, <2>2
    <3> QED
      BY <1>2, <3>1 DEF Counts
  <2> QED
    BY <2>1, <2>2, <2>3 DEF o, next
<1> QED
  BY <1>1, <1>2

LEMMA DerivesTyped ==
  ASSUME NEW p \in PocState, NEW u \in Unit, NEW type
  PROVE  D!Derive(p, u, type).next \in PocState /\ D!Derive(p, u, type).value \in Int
<1>1. /\ p.prev_msb \in Int /\ p.prev_lsb \in Int /\ p.prev_offset \in Int
      /\ p.prev_frame_num \in Int
  BY DEF PocState
<1>2. u.lsb \in Int /\ u.frame_num \in Int
  BY DEF Unit
<1>3. MaxPocLsb \in Int /\ MaxFrameNum \in Int
  BY WrapAssumption
<1>4. CASE type = 0
  <2> DEFINE from == IF u.idr THEN D!ZeroPoc ELSE p
             msb == D!PocMsb(from, u.lsb)
  <2>1. from \in PocState
    BY DEF D!ZeroPoc, PocState
  <2> HIDE DEF from
  <2>2. msb \in Int
    BY <1>3, <2>1 DEF D!PocMsb, PocState
  <2>3. D!Derive(p, u, type).value = msb + u.lsb
        /\ D!Derive(p, u, type).next
             = IF u.ref THEN [p EXCEPT !.prev_msb = msb, !.prev_lsb = u.lsb] ELSE p
    BY <1>4 DEF D!Derive, from
  <2> HIDE DEF msb
  <2>4. [p EXCEPT !.prev_msb = msb, !.prev_lsb = u.lsb] \in PocState
    BY <1>2, <2>2, PocSet
  <2> QED
    BY <1>2, <2>2, <2>3, <2>4
<1>5. CASE type # 0
  <2> DEFINE offset == IF u.idr THEN 0
                       ELSE p.prev_offset
                              + (IF p.prev_frame_num > u.frame_num THEN MaxFrameNum ELSE 0)
             n == offset + u.frame_num
  <2>1. offset \in Int
    BY <1>1, <1>2, <1>3
  <2>2. D!Derive(p, u, type).value = (IF u.idr THEN 0 ELSE IF u.ref THEN 2 * n ELSE 2 * n - 1)
        /\ D!Derive(p, u, type).next = [p EXCEPT !.prev_offset = offset]
    BY <1>5 DEF D!Derive
  <2> HIDE DEF offset
  <2> QED
    BY <1>2, <2>1, <2>2 DEF PocState
<1> QED
  BY <1>4, <1>5

\* Whatever the unit, the slots are left, and as many as before.
LEMMA SlotsKept ==
  ASSUME NEW st \in Seq(Slot), NEW i, NEW v \in Slot
  PROVE  [st EXCEPT ![i] = v] \in Seq(Slot) /\ Len([st EXCEPT ![i] = v]) = Len(st)
<1> DEFINE new == [st EXCEPT ![i] = v]
<1>1. DOMAIN st = 1..Len(st) /\ Len(st) \in Nat /\ \A j \in 1..Len(st) : st[j] \in Slot
  OBVIOUS
<1>2. DOMAIN new = 1..Len(st) /\ \A j \in 1..Len(st) : new[j] = IF j = i THEN v ELSE st[j]
  BY <1>1
<1>3. new \in [1..Len(st) -> Slot]
  BY <1>1, <1>2
<1> QED
  BY <1>1, <1>3

LEMMA MarkedTyped ==
  ASSUME NEW st \in Seq(Slot), NEW o, NEW cur, NEW refs
  PROVE  /\ D!ApplyMmco(st, o, cur) \in Seq(Slot) /\ Len(D!ApplyMmco(st, o, cur)) = Len(st)
         /\ D!EvictOldest(st, cur) \in Seq(Slot) /\ Len(D!EvictOldest(st, cur)) = Len(st)
         /\ D!SlidingWindow(st, cur, refs) \in Seq(Slot)
         /\ Len(D!SlidingWindow(st, cur, refs)) = Len(st)
<1>1. D!Free \in Slot
  BY DEF Slot
<1>2. D!EvictOldest(st, cur) \in Seq(Slot) /\ Len(D!EvictOldest(st, cur)) = Len(st)
  <2> DEFINE oldest == CHOOSE i \in D!Taken(st) : \A j \in D!Taken(st) :
                         \/ D!Wrap(st[i].frame_num, cur) < D!Wrap(st[j].frame_num, cur)
                         \/ /\ D!Wrap(st[i].frame_num, cur) = D!Wrap(st[j].frame_num, cur)
                            /\ i <= j
  <2>1. D!EvictOldest(st, cur) = [st EXCEPT ![oldest] = D!Free]
    BY DEF D!EvictOldest
  <2> HIDE DEF oldest
  <2> QED
    BY <1>1, <2>1, SlotsKept
<1>3. D!ApplyMmco(st, o, cur) \in Seq(Slot) /\ Len(D!ApplyMmco(st, o, cur)) = Len(st)
  <2> DEFINE frees(i) == st[i] # D!Free /\ D!Unmarks(o, st[i], cur)
  <2>1. D!ApplyMmco(st, o, cur) = [i \in DOMAIN st |-> IF frees(i) THEN D!Free ELSE st[i]]
    BY DEF D!ApplyMmco
  <2> HIDE DEF frees
  <2>2. DOMAIN st = 1..Len(st) /\ Len(st) \in Nat /\ \A i \in 1..Len(st) : st[i] \in Slot
    OBVIOUS
  <2> QED
    BY <1>1, <2>1, <2>2
<1> QED
  BY <1>2, <1>3 DEF D!SlidingWindow

LEMMA RenderedTyped ==
  ASSUME NEW u \in Unit, NEW st, NEW list, NEW value \in Int
  PROVE  D!Rendered(st, list, u, value) \in Slot
<1>1. u.id \in Nat /\ u.frame_num \in Nat /\ u.poc \in Nat /\ u.idr \in BOOLEAN
  BY DEF Unit
<1> DEFINE good == u.idr \/ D!Predicts(st, list, u)
<1>2. good \in BOOLEAN
  BY DEF D!Predicts
<1> HIDE DEF good
<1>3. D!Rendered(st, list, u, value)
        = [id |-> u.id, frame_num |-> u.frame_num, poc |-> value, due |-> u.poc, good |-> good]
  BY DEF D!Rendered, good
<1> QED
  BY <1>1, <1>2, <1>3 DEF Slot

LEMMA PictureTyped ==
  ASSUME NEW d, DecoderOK(d), d.open, NEW u \in Unit, NEW refs, NEW type, NEW fault
  PROVE  LET result == D!DecodePicture(d, u, refs, type, fault) IN
         /\ result.ok \in BOOLEAN /\ DecoderOK(result.d)
         /\ result.ok => result.d.last_output # D!Free /\ result.d.last_output.id = u.id
<1> DEFINE order == D!Derive(d.poc, u, type)
           cleared == IF u.idr THEN [i \in DOMAIN d.slots |-> D!Free] ELSE d.slots
           room == IF u.ref /\ D!Taken(cleared) = DOMAIN cleared
                   THEN D!EvictOldest(cleared, u.frame_num) ELSE cleared
           list == IF u.idr THEN <<>> ELSE D!RefList0(room, u)
           begun == [d EXCEPT !.poc = order.next, !.slots = room]
           current == D!Rendered(room, list, u, order.value)
           stored == [room EXCEPT ![D!Min(DOMAIN room \ D!Taken(room))] = current]
           named == D!FoldLeft(LAMBDA s, op : D!ApplyMmco(s, op, u.frame_num), stored, u.mmcos)
           left == CASE ~u.ref -> room
                      [] u.ref /\ u.mmcos # <<>> -> named
                      [] OTHER -> D!SlidingWindow(stored, u.frame_num, refs)
           result == D!DecodePicture(d, u, refs, type, fault)
<1>1. d \in Decoder /\ d.sps \in ParamSets /\ Len(d.slots) = Refs(d.sps) + 1
      /\ d.slots \in Seq(Slot) /\ d.poc \in PocState
  BY DEF DecoderOK, Decoder
<1>2. order.next \in PocState /\ order.value \in Int
  BY <1>1, DerivesTyped
<1>3. cleared \in Seq(Slot) /\ Len(cleared) = Len(d.slots)
  <2>1. D!Free \in Slot
    BY DEF Slot
  <2> QED
    BY <1>1, <2>1
<1> HIDE DEF order, cleared
<1>4. room \in Seq(Slot) /\ Len(room) = Len(d.slots)
  BY <1>3, MarkedTyped
<1> HIDE DEF room, list
<1>5. current \in Slot /\ current # D!Free /\ current.id = u.id
  <2>1. current \in Slot
    BY <1>2, RenderedTyped
  <2>2. current.id = u.id /\ D!Free.id = 0 /\ u.id # 0
    BY DEF D!Rendered, D!Free, Unit
  <2> HIDE DEF current
  <2> QED
    BY <2>1, <2>2
<1> HIDE DEF current
<1>6. stored \in Seq(Slot) /\ Len(stored) = Len(d.slots)
  BY <1>4, <1>5, SlotsKept
<1> HIDE DEF stored
<1>7. u.ref \in BOOLEAN /\ (u.mmcos = <<>> \/ \E x : u.mmcos = <<x>>)
  BY DEF Unit
<1>8. named \in Seq(Slot) /\ Len(named) = Len(d.slots)
  <2>1. CASE u.mmcos = <<>>
    <3> DEFINE A(s, op) == D!ApplyMmco(s, op, u.frame_num)
               F(i) == [t \in SUBSET {} |->
                          IF t = {} THEN stored ELSE A(i[t \ {D!Max(t)}], <<>>[D!Max(t)])]
               it == CHOOSE i : i = F(i)
               g == [t \in SUBSET {} |-> stored]
    <3>1. named = it[{}]
      BY <2>1 DEF D!FoldLeft, D!MapThenFoldSet
    <3> HIDE DEF A
    <3>2. g = F(g)
      OBVIOUS
    <3> HIDE DEF F
    <3>3. it = F(it)
      BY <3>2
    <3> HIDE DEF it
    <3>4. it[{}] = stored
      BY <3>3 DEF F
    <3> HIDE DEF named
    <3> QED
      BY <1>6, <3>1, <3>4
  <2>2. CASE \E x : u.mmcos = <<x>>
    <3>1. PICK x : u.mmcos = <<x>>
      BY <2>2
    <3>2. named = D!FoldLeft(LAMBDA s, op : D!ApplyMmco(s, op, u.frame_num), stored, <<x>>)
      BY <3>1
    <3>3. named = D!ApplyMmco(stored, x, u.frame_num)
      BY <3>2, OneOperation
    <3> HIDE DEF named
    <3> QED
      BY <1>6, <3>3, MarkedTyped
  <2> QED
    BY <1>7, <2>1, <2>2
<1> HIDE DEF named
<1>9. left \in Seq(Slot) /\ Len(left) = Len(d.slots)
  <2>1. CASE ~u.ref
    BY <1>4, <2>1
  <2>2. CASE u.ref /\ u.mmcos # <<>>
    BY <1>8, <2>2
  <2>3. CASE u.ref /\ u.mmcos = <<>>
    <3>1. left = D!SlidingWindow(stored, u.frame_num, refs)
      BY <2>3
    <3> HIDE DEF left
    <3> QED
      BY <1>6, <3>1, MarkedTyped
  <2> QED
    BY <1>7, <2>1, <2>2, <2>3
<1> HIDE DEF left
<1>10. \/ result = [ok |-> FALSE, d |-> begun]
      \/ result = [ok |-> FALSE, d |-> [begun EXCEPT !.slots = named]]
      \/ result = [ok |-> TRUE, d |-> [begun EXCEPT !.slots = left, !.last_output = current,
                                                    !.poc = D!Noted(@, u)]]
  BY DEF D!DecodePicture, D!Error, order, cleared, room, list, current, stored, named, left
<1>11. begun \in Decoder /\ begun.open /\ begun.sps = d.sps /\ begun.slots = room
       /\ begun.poc = order.next
  BY <1>1, <1>2, <1>4 DEF Decoder
<1> HIDE DEF begun
<1>12. DecoderOK(begun)
  BY <1>1, <1>4, <1>11 DEF DecoderOK
<1> DEFINE after == [begun EXCEPT !.slots = left, !.last_output = current,
                                  !.poc = D!Noted(@, u)]
           refused == [begun EXCEPT !.slots = named]
<1>13. after \in Decoder /\ after.sps = d.sps /\ after.slots = left /\ after.last_output = current
  <2>1. u.frame_num \in Int
    BY DEF Unit
  <2>2. D!Noted(begun.poc, u) \in PocState
    BY <1>2, <1>11, <2>1, NotedIs
  <2> QED
    BY <1>5, <1>9, <1>11, <2>2 DEF Decoder
<1>14. DecoderOK(after)
  BY <1>1, <1>9, <1>13 DEF DecoderOK
<1>15. DecoderOK(refused)
  <2>1. refused \in Decoder /\ refused.sps = d.sps /\ refused.slots = named
    BY <1>11, <1>8 DEF Decoder
  <2> HIDE DEF refused
  <2> QED
    BY <1>1, <1>8, <2>1 DEF DecoderOK
<1>16. \/ result = [ok |-> FALSE, d |-> begun] \/ result = [ok |-> FALSE, d |-> refused]
       \/ result = [ok |-> TRUE, d |-> after]
  BY <1>10
<1> HIDE DEF after, refused, result
<1>17. /\ result.ok \in BOOLEAN
       /\ \/ ~result.ok /\ (result.d = begun \/ result.d = refused)
          \/ result.d = after
  <2>1. CASE result = [ok |-> FALSE, d |-> begun]
    BY <2>1
  <2>2. CASE result = [ok |-> FALSE, d |-> refused]
    BY <2>2
  <2>3. CASE result = [ok |-> TRUE, d |-> after]
    BY <2>3
  <2> QED
    BY <1>16, <2>1, <2>2, <2>3
<1> QED
  BY <1>5, <1>12, <1>13, <1>14, <1>17, <1>15 DEF result

LEMMA DecodeTyped ==
  ASSUME NEW d, DecoderOK(d), NEW u \in Unit, NEW type, NEW fault
  PROVE  LET result == D!Decode(d, u, Refs(u.sps), type, fault) IN
         /\ result.ok \in BOOLEAN /\ DecoderOK(result.d)
         /\ result.ok => result.d.last_output # D!Free /\ result.d.last_output.id = u.id
<1> DEFINE refs == Refs(u.sps)
           o == D!Opened(d, u, refs)
           result == D!Decode(d, u, refs, type, fault)
           picture == D!DecodePicture(o, u, refs, type, fault)
<1>1. d \in Decoder /\ u.sps \in ParamSets
  BY DEF DecoderOK, Unit
<1>2. refs \in Nat
  BY <1>1, SpsIs
<1>3. D!Free \in Slot /\ D!ZeroPoc \in PocState /\ <<>> \in Seq(Slot)
  BY DEF Slot, D!ZeroPoc, PocState
<1>4. DecoderOK(D!NotOpened(d, u))
  BY <1>1, <1>3 DEF D!NotOpened, DecoderOK, Decoder
<1> HIDE DEF refs
<1>5. DecoderOK(o)
  <2> DEFINE fresh == [i \in 1..refs + 1 |-> D!Free]
             new == [sps |-> u.sps, open |-> TRUE, slots |-> fresh, last_output |-> D!Free,
                     poc |-> D!ZeroPoc]
  <2>1. fresh \in Seq(Slot) /\ Len(fresh) = refs + 1
    BY <1>2, <1>3
  <2> HIDE DEF fresh
  <2>2. new \in Decoder /\ new.sps = u.sps /\ new.slots = fresh
    BY <1>1, <1>3, <2>1 DEF Decoder
  <2> HIDE DEF new
  <2>3. DecoderOK(new)
    BY <1>1, <2>1, <2>2 DEF DecoderOK, refs
  <2>4. o = new \/ o = d
    BY DEF D!Opened, new, fresh
  <2> QED
    BY <2>3, <2>4
<1> HIDE DEF o
<1>6. o.open =>
        /\ picture.ok \in BOOLEAN /\ DecoderOK(picture.d)
        /\ picture.ok => picture.d.last_output # D!Free /\ picture.d.last_output.id = u.id
  BY <1>5, PictureTyped
<1> HIDE DEF picture
<1>7. \/ result = D!Error(d) \/ result = D!Error(D!NotOpened(d, u)) \/ result = D!Error(o)
      \/ o.open /\ result = picture
  BY <1>5 DEF D!Decode, DecoderOK, Decoder, o, picture
<1>8. \A e : D!Error(e).ok = FALSE /\ D!Error(e).d = e
  BY DEF D!Error
<1> HIDE DEF result
<1> QED
  BY <1>4, <1>5, <1>6, <1>7, <1>8 DEF result, refs

\* The parts of the decode of a picture.
Cleared(d, u) == IF u.idr THEN [i \in DOMAIN d.slots |-> D!Free] ELSE d.slots
Room(d, u) ==
  IF u.ref /\ D!Taken(Cleared(d, u)) = DOMAIN Cleared(d, u)
  THEN D!EvictOldest(Cleared(d, u), u.frame_num) ELSE Cleared(d, u)
ListFor(d, u) == IF u.idr THEN <<>> ELSE D!RefList0(Room(d, u), u)
Shown(d, u, type) ==
  D!Rendered(Room(d, u), ListFor(d, u), u, D!Derive(d.poc, u, type).value)
Place(d, u) == D!Min(DOMAIN Room(d, u) \ D!Taken(Room(d, u)))
StoredIn(d, u, type) == [Room(d, u) EXCEPT ![Place(d, u)] = Shown(d, u, type)]
LeftIn(d, u, refs, type) ==
  CASE ~u.ref -> Room(d, u)
    [] u.ref /\ u.mmcos # <<>> ->
         D!FoldLeft(LAMBDA s, op : D!ApplyMmco(s, op, u.frame_num), StoredIn(d, u, type), u.mmcos)
    [] OTHER -> D!SlidingWindow(StoredIn(d, u, type), u.frame_num, refs)
LEMMA PictureIs ==
  ASSUME NEW d \in Decoder, NEW fault,
         D!DecodePicture(d, unit, Refs(sps), PocType(sps), fault).ok
  PROVE  LET after == D!DecodePicture(d, unit, Refs(sps), PocType(sps), fault).d IN
         /\ after.open = d.open /\ after.sps = d.sps
         /\ after.slots = LeftIn(d, unit, Refs(sps), PocType(sps))
         /\ after.last_output = Shown(d, unit, PocType(sps))
         /\ after.poc = D!Noted(D!Derive(d.poc, unit, PocType(sps)).next, unit)
<1> DEFINE u == unit
           refs == Refs(sps)
           type == PocType(sps)
           next == D!Derive(d.poc, u, type).next
           begun == [d EXCEPT !.poc = next, !.slots = Room(d, u)]
           left == LeftIn(d, u, refs, type)
           current == Shown(d, u, type)
           after == [begun EXCEPT !.slots = left, !.last_output = current,
                                  !.poc = D!Noted(@, u)]
           result == D!DecodePicture(d, u, refs, type, fault)
<1>1. result.ok = FALSE \/ result = [ok |-> TRUE, d |-> after]
  BY DEF D!DecodePicture, D!Error, Cleared, Room, ListFor, Shown, Place, StoredIn, LeftIn
<1> HIDE DEF next, left, current
<1>2. begun.open = d.open /\ begun.sps = d.sps /\ begun.poc = next /\ DOMAIN begun = DOMAIN d
      /\ DOMAIN d = {"sps", "open", "slots", "last_output", "poc"}
  BY DEF Decoder
<1> HIDE DEF begun
<1>3. after.open = d.open /\ after.sps = d.sps /\ after.slots = left
      /\ after.last_output = current
      /\ after.poc = D!Noted(next, u)
  BY <1>2
<1> HIDE DEF after, result
<1>4. result.d = after
  <2>1. CASE result.ok = FALSE
    BY <2>1 DEF result
  <2>2. CASE result = [ok |-> TRUE, d |-> after]
    BY <2>2
  <2> QED
    BY <1>1, <2>1, <2>2 DEF after
<1> QED
  BY <1>3, <1>4 DEF result, left, current, next

\* There is always a place for the picture.
LEMMA HasPlace ==
  ASSUME NEW st \in Seq(Slot), D!Taken(st) # DOMAIN st
  PROVE  D!Min(DOMAIN st \ D!Taken(st)) \in DOMAIN st \ D!Taken(st)
<1> DEFINE S == DOMAIN st \ D!Taken(st)
<1>1. DOMAIN st = 1..Len(st) /\ Len(st) \in Nat /\ D!Taken(st) \subseteq DOMAIN st
  BY DEF D!Taken
<1>2. S \in SUBSET Nat /\ S # {}
  <2>1. \E i \in DOMAIN st : i \notin D!Taken(st)
    BY <1>1
  <2>2. \A i \in DOMAIN st : i \in Nat
    BY <1>1
  <2> QED
    BY <2>1, <2>2
<1> HIDE DEF S
<1>3. D!Min(S) \in S
  BY <1>2, MinIs
<1> QED
  BY <1>3 DEF S

LEMMA DecodesIdr ==
  ASSUME NEW d, DecoderOK(d), d.open, d.sps = sps, sps \in ParamSets, unit \in Unit, MadeIdr,
         NEW fault, D!DecodePicture(d, unit, Refs(sps), PocType(sps), fault).ok
  PROVE  LET after == D!DecodePicture(d, unit, Refs(sps), PocType(sps), fault).d IN
         /\ InStep(after, Window, Count, {})
         /\ after.last_output # D!Free /\ after.last_output.id = unit.id /\ after.last_output.good
<1> DEFINE after == D!DecodePicture(d, unit, Refs(sps), PocType(sps), fault).d
           u == unit
           type == PocType(sps)
           refs == Refs(sps)
           current == Shown(d, u, type)
           st == Cleared(d, u)
<1>1. /\ d \in Decoder /\ d.slots \in Seq(Slot) /\ Len(d.slots) = refs + 1 /\ d.poc \in PocState
      /\ refs \in {1, 2} /\ type \in {0, 2}
  BY SpsIs DEF DecoderOK, Decoder
<1>2. /\ u.idr /\ u.ref /\ u.frame_num = 0 /\ u.lsb = 0 /\ u.poc = 0 /\ u.mmcos = <<>>
      /\ Window = <<Current(0)>> /\ Count = 1 /\ u.id \in Nat \ {0}
  BY DEF MadeIdr, Unit
<1>3. /\ D!Derive(d.poc, u, type).value = 0 /\ D!Derive(d.poc, u, type).next \in PocState
      /\ Counts(Noted(D!Derive(d.poc, u, type).next, u), 1)
  BY <1>1, <1>2, DerivesIdr
<1>4. st \in Seq(Slot) /\ Len(st) = refs + 1 /\ D!Taken(st) = {} /\ DOMAIN st # {}
  <2>1. st = [i \in 1..Len(d.slots) |-> D!Free] /\ D!Free \in Slot
    BY <1>1, <1>2 DEF Cleared, Slot
  <2> HIDE DEF st, refs
  <2>2. st \in Seq(Slot) /\ Len(st) = refs + 1 /\ DOMAIN st = 1..(refs + 1)
        /\ \A i \in DOMAIN st : st[i] = D!Free
    BY <1>1, <2>1
  <2>3. 1 \in DOMAIN st
    BY <1>1, <2>2
  <2> QED
    BY <2>2, <2>3 DEF D!Taken
<1>5. Room(d, u) = st
  BY <1>4 DEF Room
<1> HIDE DEF st
<1>6. current = [id |-> u.id, frame_num |-> 0, poc |-> 0, due |-> 0, good |-> TRUE]
  BY <1>2, <1>3 DEF Shown, D!Rendered
<1> HIDE DEF current
<1>7. /\ Current(0) \in Ref /\ Is(current, Current(0)) /\ current \in Slot
      /\ Window = <<Current(0)>>
  <2>1. Current(0) = [id |-> u.id, n |-> 0] /\ u.id \in Nat
    BY <1>2 DEF Current
  <2>2. 0 % MaxFrameNum = 0
    <3>1. MaxFrameNum \in Nat /\ MaxFrameNum > 0
      BY WrapAssumption
    <3>2. 0 \in 0..(MaxFrameNum - 1) /\ 0 = MaxFrameNum * 0 + 0
      BY <3>1
    <3> QED
      BY <3>1, <3>2, DivUnique
  <2>3. current # D!Free
    BY <1>6 DEF D!Free
  <2> QED
    BY <1>2, <1>6, <2>1, <2>2, <2>3 DEF Ref, Is, Slot
<1> DEFINE f == Place(d, u)
           stored == [st EXCEPT ![f] = current]
<1>8. f \in DOMAIN st /\ f \notin D!Taken(st)
  BY <1>4, <1>5, HasPlace DEF Place
<1> HIDE DEF f
<1>9. Holds(st, <<>>, <<>>) /\ <<>> \in Seq(Ref)
  BY <1>4 DEF Holds
<1>10. /\ stored \in Seq(Slot) /\ Holds(stored, Append(<<>>, Current(0)), Append(<<>>, f))
       /\ D!Taken(stored) = {} \cup {f}
  BY <1>4, <1>7, <1>8, <1>9, StoredHolds
<1>11. Append(<<>>, Current(0)) = Window
  BY <1>7
<1>12. StoredIn(d, u, type) = stored
  BY <1>5 DEF StoredIn, f, current
<1> HIDE DEF stored
<1>13. LeftIn(d, u, refs, type) = stored
  <2>1. LeftIn(d, u, refs, type) = D!SlidingWindow(stored, u.frame_num, refs)
    BY <1>2, <1>12 DEF LeftIn
  <2>2. D!Cardinality(D!Taken(stored)) = 1
    <3>1. D!Taken(stored) = {f}
      BY <1>10
    <3> QED
      BY <3>1, DCardinality, FS_Singleton
  <2> QED
    BY <1>1, <2>1, <2>2 DEF D!SlidingWindow
<1>14. /\ after.open = d.open /\ after.sps = d.sps /\ after.slots = stored
       /\ after.last_output = current
       /\ after.poc = D!Noted(D!Derive(d.poc, u, type).next, u)
  <2>1. /\ after.open = d.open /\ after.sps = d.sps /\ after.slots = LeftIn(d, u, refs, type)
        /\ after.last_output = Shown(d, u, type)
        /\ after.poc = D!Noted(D!Derive(d.poc, u, type).next, u)
    <3>1. d \in Decoder /\ D!DecodePicture(d, unit, Refs(sps), PocType(sps), fault).ok
      BY <1>1
    <3> QED
      BY ONLY <3>1, PictureIs
  <2> HIDE DEF after
  <2> QED
    BY <1>13, <2>1 DEF current
<1> HIDE DEF after
<1>16. current.id = u.id /\ current.good /\ current # D!Free
  BY <1>6, <1>7 DEF Is
<1>15. InStep(after, Window, Count, {})
  <2>1. Kept(Window, {}) = Window
    BY DEF Kept
  <2>2. Holds(after.slots, Kept(Window, {}), Append(<<>>, f))
    BY <1>10, <1>11, <1>14, <2>1
  <2>3. Counts(after.poc, Count)
    <3>1. D!Noted(D!Derive(d.poc, u, type).next, u) = Noted(D!Derive(d.poc, u, type).next, u)
      BY <1>2, <1>3, NotedIs, ResetsIs
    <3> QED
      BY <1>2, <1>3, <1>14, <3>1
  <2>4. \A i \in D!Taken(after.slots) : after.slots[i].good
    <3>1. stored[f] = current /\ D!Taken(stored) = {f}
      BY <1>8, <1>10 DEF stored
    <3> QED
      BY <1>14, <1>16, <3>1
  <2> QED
    BY <1>14, <2>2, <2>3, <2>4 DEF InStep
<1> QED
  BY <1>14, <1>15, <1>16 DEF after

LEMMA MadeIs ==
  ASSUME NEW w, NEW c, MadeWith(w, c), sps \in ParamSets
  PROVE  /\ Apart(w, c) /\ w \in Seq(Ref) /\ c \in Nat /\ c > 0 /\ Len(w) <= Refs(sps)
         /\ Refs(sps) \in {1, 2} /\ PocType(sps) \in {0, 2} /\ Len(w) \in {1, 2}
<1>1. Refs(sps) \in {1, 2} /\ PocType(sps) \in {0, 2}
  BY SpsIs
<1>2. /\ w \in Seq(Ref) /\ c \in Nat /\ Len(w) <= Refs(sps) /\ Len(w) > 0
      /\ \A j, k \in 1..Len(w) : j < k => w[j].n < w[k].n
      /\ w[Len(w)].n = c - 1 /\ c - w[1].n < MaxFrameNum
  BY DEF MadeWith, WindowOK
<1>3. Len(w) \in Nat /\ Len(w) \in {1, 2} /\ Len(w) \in 1..2
  <2>1. Len(w) \in Nat
    BY <1>2
  <2>2. \A l, n \in Nat : l <= n /\ l > 0 /\ n \in {1, 2} => l \in {1, 2} /\ l \in 1..2
    OBVIOUS
  <2>3. Refs(sps) \in Nat /\ Len(w) <= Refs(sps) /\ Len(w) > 0
    BY <1>1, <1>2
  <2> QED
    BY <1>1, <2>1, <2>2, <2>3
<1>4. c > 0
  <2>1. Len(w) \in 1..Len(w)
    BY <1>3
  <2>2. w[Len(w)].n \in Nat
    <3>1. w \in Seq(Ref)
      BY <1>2
    <3>2. w[Len(w)] \in Ref
      BY <2>1, <3>1
    <3> QED
      BY <3>2 DEF Ref
  <2> QED
    BY <1>2, <2>2
<1>5. Len(w) = 2 => w[1].n < w[2].n
  BY <1>2
<1> QED
  BY <1>1, <1>2, <1>3, <1>4, <1>5 DEF Apart

\* With the current picture the references are still told apart.
LEMMA RankedWith ==
  ASSUME NEW w, NEW c, MadeWith(w, c), sps \in ParamSets, Current(c) \in Ref
  PROVE  Ranked(Append(w, Current(c)), c)
<1> DEFINE r == Current(c)
           v == Append(w, r)
<1>1. Apart(w, c) /\ w \in Seq(Ref) /\ c \in Nat /\ Len(w) \in Nat
  BY MadeIs
<1>2. r.n = c
  BY DEF Current
<1>3. v \in Seq(Ref) /\ Len(v) = Len(w) + 1 /\ v[Len(w) + 1] = r
      /\ \A k \in 1..Len(w) : v[k] = w[k]
  BY <1>1
<1> HIDE DEF r, v
<1>4. ASSUME NEW k \in 1..Len(w)
      PROVE  v[k].n < c /\ c - v[k].n < MaxFrameNum /\ v[k].n \in Nat
  <2>1. w[k].n \in Nat /\ w[k].n < c /\ c - w[k].n < MaxFrameNum
    BY <1>1, Ages
  <2> QED
    BY <1>3, <2>1
<1>5. ASSUME NEW k \in 1..Len(v)
      PROVE  v[k].n <= c /\ c - v[k].n < MaxFrameNum
  <2>1. k \in 1..Len(w) \/ k = Len(w) + 1
    BY <1>1, <1>3
  <2>2. CASE k \in 1..Len(w)
    BY <1>1, <1>4, <2>2
  <2>3. CASE k = Len(w) + 1
    BY <1>1, <1>2, <1>3, <2>3, WrapAssumption
  <2> QED
    BY <2>1, <2>2, <2>3
<1>6. ASSUME NEW j \in 1..Len(v), NEW k \in 1..Len(v), j < k
      PROVE  v[j].n < v[k].n
  <2>1. j \in 1..Len(w) /\ (k \in 1..Len(w) \/ k = Len(w) + 1)
    <3>1. PICK l : l = Len(w)
      OBVIOUS
    <3>2. l \in Nat /\ j \in 1..(l + 1) /\ k \in 1..(l + 1) /\ j < k
      BY <1>1, <1>3, <1>6, <3>1
    <3>3. j \in 1..l /\ (k \in 1..l \/ k = l + 1)
      BY ONLY <3>2
    <3> QED
      BY <3>1, <3>3
  <2>2. CASE k \in 1..Len(w)
    <3>1. w[j].n < w[k].n
      BY <1>6, <2>1, <2>2 DEF MadeWith, WindowOK
    <3> QED
      BY <1>3, <2>1, <2>2, <3>1
  <2>3. CASE k = Len(w) + 1
    BY <1>2, <1>3, <1>4, <2>1, <2>3
  <2> QED
    BY <2>1, <2>2, <2>3
<1>7. Ranked(v, c)
  BY <1>1, <1>3, <1>5, <1>6 DEF Ranked
<1> QED
  BY <1>7 DEF v, r

LEMMA RankedTail ==
  ASSUME NEW v, NEW c, Ranked(v, c), Len(v) > 0
  PROVE  Ranked(Tail(v), c)
<1>1. /\ v \in Seq(Ref) /\ c \in Nat
      /\ \A k \in 1..Len(v) : v[k].n <= c /\ c - v[k].n < MaxFrameNum
      /\ \A j, k \in 1..Len(v) : j < k => v[j].n < v[k].n
  BY DEF Ranked
<1>2. PICK u, l : u = Tail(v) /\ l = Len(v) - 1
  OBVIOUS
<1>3. /\ u \in Seq(Ref) /\ Len(u) = l /\ \A k \in 1..l : u[k] = v[k + 1] /\ k + 1 \in 1..Len(v)
      /\ \A j, k \in 1..l : j < k => j + 1 < k + 1
  BY <1>1, <1>2
<1>4. Ranked(u, c)
  BY <1>1, <1>3 DEF Ranked
<1> QED
  BY <1>2, <1>4

\* Of two references at most, the decoder may have forgotten the first.
LEMMA KeptIs ==
  ASSUME NEW w, NEW c, MadeWith(w, c), sps \in ParamSets, NEW g, NEW v, v = Kept(w, g)
  PROVE  /\ v \in Seq(Ref) /\ Len(v) \in Nat /\ Len(v) <= Len(w)
         /\ v = <<>> \/ Apart(v, c)
         /\ w[1].id \notin g => v = w
         /\ w[1].id \in g => v = Tail(w) /\ Len(v) = Len(w) - 1
<1>1. Apart(w, c) /\ w \in Seq(Ref) /\ c \in Nat /\ Len(w) \in {1, 2}
  BY MadeIs
<1>2. CASE w[1].id \notin g
  <2>1. v = w
    BY <1>2 DEF Kept
  <2> QED
    BY <1>1, <1>2, <2>1
<1>3. CASE w[1].id \in g
  <2>1. v = Tail(w)
    BY <1>1, <1>3 DEF Kept
  <2>2. v \in Seq(Ref) /\ Len(v) = Len(w) - 1 /\ \A k \in 1..(Len(w) - 1) : v[k] = w[k + 1]
    BY <1>1, <2>1
  <2>3. CASE Len(w) = 1
    <3>1. v = <<>>
      BY <2>2, <2>3
    <3>2. Len(v) = Len(w) - 1 /\ Len(v) \in Nat /\ Len(v) <= Len(w)
      BY <2>2, <2>3
    <3>3. v \in Seq(Ref) /\ v = Tail(w)
      BY <2>1, <2>2
    <3> QED
      BY ONLY <1>3, <3>1, <3>2, <3>3
  <2>4. CASE Len(w) = 2
    <3>1. Len(v) = 1 /\ v[1] = w[2] /\ w[2].n = c - 1
      BY <1>1, <2>2, <2>4 DEF Apart
    <3>2. Apart(v, c)
      <4>1. c - (c - 1) = 1 /\ 1 < MaxFrameNum
        BY <1>1, WrapAssumption
      <4> QED
        BY <1>1, <2>2, <3>1, <4>1 DEF Apart
    <3> QED
      BY <1>3, <2>1, <2>2, <2>4, <3>1, <3>2
  <2> QED
    BY <1>1, <2>3, <2>4
<1> QED
  BY <1>2, <1>3

LEMMA HeldCount ==
  ASSUME NEW st \in Seq(Slot), NEW v, NEW place, NEW c, v = <<>> \/ Apart(v, c),
         Holds(st, v, place)
  PROVE  Cardinality(D!Taken(st)) = Len(v) /\ IsFiniteSet(D!Taken(st))
<1>1. CASE v = <<>>
  <2>1. D!Taken(st) = {} /\ Len(v) = 0
    BY <1>1 DEF Holds
  <2> QED
    BY <2>1, FS_EmptySet
<1>2. CASE Apart(v, c)
  <2>1. Cardinality(D!Taken(st)) = Len(v)
    BY <1>2, TakenIs
  <2>2. IsFiniteSet(1..Len(st))
    <3>1. Len(st) \in Nat
      OBVIOUS
    <3> QED
      BY <3>1, FS_Interval
  <2>3. D!Taken(st) \subseteq 1..Len(st)
    BY DEF D!Taken
  <2> QED
    BY <2>1, <2>2, <2>3, FS_Subset
<1> QED
  BY <1>1, <1>2

\* One picture after the other fills the slots of the references and one more.
LEMMA HasRoom ==
  ASSUME NEW d, DecoderOK(d), d.open, d.sps = sps, sps \in ParamSets, ~unit.idr,
         NEW v, NEW place, NEW c, v = <<>> \/ Apart(v, c), Len(v) \in Nat, Len(v) <= Refs(sps),
         Holds(d.slots, v, place)
  PROVE  /\ Room(d, unit) = d.slots /\ D!Taken(d.slots) # DOMAIN d.slots
         /\ Cardinality(D!Taken(d.slots)) = Len(v) /\ IsFiniteSet(D!Taken(d.slots))
<1>1. d.slots \in Seq(Slot) /\ Len(d.slots) = Refs(sps) + 1
  BY DEF DecoderOK, Decoder
<1>2. Refs(sps) \in Nat
  BY SpsIs
<1>3. Cardinality(D!Taken(d.slots)) = Len(v) /\ IsFiniteSet(D!Taken(d.slots))
  BY <1>1, HeldCount
<1>4. Cardinality(DOMAIN d.slots) = Refs(sps) + 1
  <2>1. DOMAIN d.slots = 1..(Refs(sps) + 1)
    BY <1>1
  <2>2. Cardinality(1..(Refs(sps) + 1)) = Refs(sps) + 1
    <3>1. 1 \in Int /\ Refs(sps) + 1 \in Int /\ ~(1 > Refs(sps) + 1)
      BY <1>2
    <3>2. (Refs(sps) + 1) - 1 + 1 = Refs(sps) + 1
      BY <1>2
    <3> QED
      BY <3>1, <3>2, FS_Interval
  <2> QED
    BY <2>1, <2>2
<1>5. D!Taken(d.slots) # DOMAIN d.slots
  BY <1>2, <1>3, <1>4
<1>6. Cleared(d, unit) = d.slots
  BY DEF Cleared
<1> QED
  BY <1>3, <1>5, <1>6 DEF Room

\* The order count of the picture is the encoder's, and so is the next one.
LEMMA ShownIs ==
  ASSUME NEW d, DecoderOK(d), sps \in ParamSets, unit \in Unit, unit.sps = sps, NEW w, NEW c,
         MadeWith(w, c), Counts(d.poc, c)
  PROVE  LET current == Shown(d, unit, PocType(sps)) IN
         /\ current \in Slot /\ Is(current, Current(c)) /\ Current(c) \in Ref
         /\ current.id = unit.id /\ current # D!Free
         /\ Counts(D!Noted(D!Derive(d.poc, unit, PocType(sps)).next, unit), Count)
<1> DEFINE u == unit
           type == PocType(sps)
           order == D!Derive(d.poc, u, type)
           current == Shown(d, u, type)
<1>1. /\ d \in Decoder /\ d.poc \in PocState /\ c \in Nat /\ c > 0 /\ type \in {0, 2}
  BY MadeIs DEF DecoderOK, Decoder
<1>2. /\ ~u.idr /\ u.frame_num = c % MaxFrameNum /\ u.id \in Nat \ {0} /\ u.ref \in BOOLEAN
      /\ u.poc \in Nat /\ u.frame_num \in Int
  BY DEF MadeWith, Unit
<1>3. /\ order.value = u.poc /\ order.next \in PocState
      /\ Counts(Noted(order.next, u), IF u.ref THEN c + 1 ELSE c)
  <2>1. IF type = 0 THEN u.ref /\ u.poc = c /\ u.lsb = c % MaxPocLsb
        ELSE u.poc = IF u.ref THEN 2 * c ELSE 2 * c - 1
    BY DEF MadeWith
  <2> HIDE DEF type
  <2> QED
    BY <1>1, <1>2, <2>1, DerivesOrder DEF type
<1> HIDE DEF order
<1>4. Counts(D!Noted(order.next, u), Count)
  <2>1. CASE ~u.ref
    <3>1. Count = c /\ u.mmcos = <<>>
      BY <2>1 DEF MadeWith
    <3>2. D!Noted(order.next, u) = Noted(order.next, u)
      BY <1>2, <1>3, <3>1, ResetsIs, NotedIs
    <3> QED
      BY <1>3, <2>1, <3>1, <3>2
  <2>2. CASE u.ref /\ Count = c + 1 /\ Marked(w, c)
    <3>1. u.mmcos = <<>> \/ \E n : u.mmcos = <<Unmark(n)>>
      BY <2>2 DEF Marked, Unmark
    <3>2. \A n : Unmark(n).op = 1
      BY DEF Unmark
    <3>3. ~D!Resets(u)
      BY <3>1, <3>2, ResetsIs
    <3>4. D!Noted(order.next, u) = Noted(order.next, u)
      BY <1>2, <1>3, <3>3, NotedIs
    <3> QED
      BY <1>3, <2>2, <3>4
  <2>3. CASE Restarted
    <3>1. PICK o : o.op = 5 /\ u.mmcos = <<o>>
      BY <2>3 DEF Restarted
    <3>2. D!Resets(u) /\ PocType(sps) = 2 /\ Count = 1
      BY <2>3, <3>1, ResetsIs DEF Restarted
    <3>3. D!Noted(order.next, u) = Restart(order.next)
      BY <1>2, <1>3, <3>2, NotedIs
    <3> QED
      BY <1>3, <3>2, <3>3, RestartCounts
  <2> QED
    BY <1>2, <2>1, <2>2, <2>3 DEF MadeWith
<1>5. current = D!Rendered(Room(d, u), ListFor(d, u), u, order.value)
  BY DEF Shown, order
<1>6. /\ current.id = u.id /\ current.frame_num = u.frame_num /\ current.poc = order.value
      /\ current.due = u.poc
  BY <1>5 DEF D!Rendered
<1>7. current \in Slot
  BY <1>2, <1>3, <1>5, RenderedTyped
<1> HIDE DEF current
<1>8. Current(c) = [id |-> u.id, n |-> c]
  BY DEF Current
<1>9. current # D!Free
  BY <1>2, <1>6 DEF D!Free
<1>10. Current(c) \in Ref
  BY <1>1, <1>2, <1>8 DEF Ref
<1>11. Is(current, Current(c))
  BY <1>2, <1>3, <1>6, <1>8, <1>9 DEF Is
<1> QED
  BY <1>4, <1>6, <1>7, <1>9, <1>10, <1>11 DEF current, order

\* A decoder that holds every reference predicts from the one the encoder used.
LEMMA PredictsIs ==
  ASSUME NEW d, DecoderOK(d), sps \in ParamSets, NEW w, NEW c, MadeWith(w, c),
         NEW place, Holds(d.slots, w, place), Room(d, unit) = d.slots,
         \A i \in D!Taken(d.slots) : d.slots[i].good
  PROVE  Shown(d, unit, PocType(sps)).good
<1> DEFINE u == unit
           st == d.slots
           list == D!RefList0(st, u)
<1>1. st \in Seq(Slot) /\ Apart(w, c) /\ ~u.idr /\ u.frame_num = c % MaxFrameNum
  BY MadeIs DEF DecoderOK, Decoder, MadeWith
<1>2. PICK k \in 1..Len(w) :
             /\ u.from = w[k].id
             /\ u.mods = IF k = Len(w) THEN <<>> ELSE <<[idc |-> 0, value |-> c - w[k].n - 1]>>
  BY DEF MadeWith, Named
<1>3. list # <<>> /\ list[1] = place[k]
  BY <1>1, <1>2, ListIs
<1>4. ListFor(d, u) = list
  BY <1>1 DEF ListFor
<1> HIDE DEF list
<1>5. D!Predicts(st, list, u)
  <2>1. Is(st[place[k]], w[k])
    BY <1>2 DEF Holds
  <2>2. place[k] \in D!Taken(st)
    BY <1>1, <1>2, HeldNumbers
  <2> QED
    BY <1>2, <1>3, <2>1, <2>2 DEF D!Predicts, Is
<1> QED
  BY <1>4, <1>5 DEF Shown, D!Rendered

\* Marking frees slots, and changes no other.
Survive(left, st) == \A i \in D!Taken(left) : i \in D!Taken(st) /\ left[i] = st[i]

LEMMA Survivors ==
  ASSUME NEW st, NEW o, NEW cur, NEW refs
  PROVE  Survive(D!ApplyMmco(st, o, cur), st) /\ Survive(D!SlidingWindow(st, cur, refs), st)
<1>1. ASSUME NEW x, NEW i \in D!Taken([st EXCEPT ![x] = D!Free])
      PROVE  i \in D!Taken(st) /\ [st EXCEPT ![x] = D!Free][i] = st[i]
  BY <1>1 DEF D!Taken
<1>2. \E x : D!EvictOldest(st, cur) = [st EXCEPT ![x] = D!Free]
  BY DEF D!EvictOldest
<1>3. \A i \in D!Taken(D!EvictOldest(st, cur)) :
        i \in D!Taken(st) /\ D!EvictOldest(st, cur)[i] = st[i]
  BY <1>1, <1>2
<1>4. ASSUME NEW i \in D!Taken(D!ApplyMmco(st, o, cur))
      PROVE  i \in D!Taken(st) /\ D!ApplyMmco(st, o, cur)[i] = st[i]
  BY <1>4 DEF D!ApplyMmco, D!Taken
<1> QED
  BY <1>3, <1>4 DEF D!SlidingWindow, Survive

\* The window after a marking: the current picture comes, and at most one goes.
Remains(w, c, v) ==
  \/ unit.mmcos = <<>> /\ Len(v) <= Refs(sps) /\ Window = v
  \/ unit.mmcos = <<>> /\ Len(v) > Refs(sps) /\ Window = RemoveAt(v, 1)
  \/ \E k \in 1..Len(w) :
       unit.mmcos = <<Unmark(c - w[k].n - 1)>> /\ Window = RemoveAt(v, k)

LEMMA MarkedIs ==
  ASSUME NEW w, NEW c, MadeWith(w, c), sps \in ParamSets, Marked(w, c),
         NEW r \in Ref, r = Current(c), NEW v, v = Append(w, r)
  PROVE  Remains(w, c, v)
<1>1. w \in Seq(Ref) /\ Len(w) \in {1, 2} /\ Refs(sps) \in {1, 2}
  BY MadeIs
<1>2. v \in Seq(Ref) /\ Len(v) = Len(w) + 1
  BY <1>1, AppendProperties
<1>3. CASE unit.mmcos = <<>> /\ Window = Newest(Append(w, Current(c)))
  <2>1. Window = IF Len(v) > Refs(sps) THEN Tail(v) ELSE v
    BY <1>3 DEF Newest
  <2>2. RemoveAt(v, 1) = Tail(v)
    <3>1. Len(v) > 0
      BY <1>1, <1>2
    <3> QED
      BY <1>2, <3>1, TailIs
  <2>3. Len(v) > Refs(sps) \/ Len(v) <= Refs(sps)
    BY <1>1, <1>2
  <2> QED
    BY <1>3, <2>1, <2>2, <2>3 DEF Remains
<1>4. ASSUME NEW k \in 1..Len(w),
             unit.mmcos = <<[op |-> 1, difference_of_pic_nums_minus1 |-> c - w[k].n - 1]>>,
             Window = Append(RemoveAt(w, k), Current(c))
      PROVE  unit.mmcos = <<Unmark(c - w[k].n - 1)>> /\ Window = RemoveAt(v, k)
  <2>1. RemoveAt(v, k) = Append(RemoveAt(w, k), r)
    BY <1>1, RemoveAppend
  <2> QED
    BY <1>4, <2>1 DEF Unmark
<1> QED
  BY <1>3, <1>4 DEF Marked, Remains

LEMMA TailOfTwo ==
  ASSUME NEW u \in Seq(Ref), Len(u) = 2
  PROVE  Tail(u) = <<u[2]>>
<1>1. PICK r : r = u[2]
  OBVIOUS
<1>2. r \in Ref
  BY <1>1
<1>3. Tail(u) \in Seq(Ref) /\ Len(Tail(u)) = 1 /\ Tail(u)[1] = r
  BY <1>1
<1>4. <<r>> \in Seq(Ref) /\ Len(<<r>>) = 1 /\ <<r>>[1] = r /\ \A i \in 1..1 : i = 1
  BY <1>2
<1>5. Tail(u) = <<r>>
  BY <1>3, <1>4, SameSequence
<1> QED
  BY <1>1, <1>5

\* The marking leaves what the decoder kept of the new window: st are the slots
\* with the picture in its place.
LEMMA LeftHolds ==
  ASSUME NEW w, NEW c, MadeWith(w, c), sps \in ParamSets, Marked(w, c),
         NEW r \in Ref, r = Current(c), NEW g, r.id \notin g,
         \A k \in 1..Len(w) : k > 1 => w[k].id \notin g,
         NEW y, y = Append(Kept(w, g), r), NEW st \in Seq(Slot), NEW a, Holds(st, y, a),
         Cardinality(D!Taken(st)) = Len(y), NEW left,
         unit.mmcos = <<>> => left = D!SlidingWindow(st, c % MaxFrameNum, Refs(sps)),
         \A o : unit.mmcos = <<o>> => left = D!ApplyMmco(st, o, c % MaxFrameNum)
  PROVE  /\ \E x : Holds(left, Kept(Window, g), x)
         /\ \A k \in 1..Len(Window) : k > 1 => Window[k].id \notin g
<1>1. PICK v : v = Append(w, r)
  OBVIOUS
<1>2. /\ w \in Seq(Ref) /\ Len(w) \in {1, 2} /\ Len(w) <= Refs(sps) /\ Refs(sps) \in {1, 2}
  BY MadeIs
<1>3. /\ v \in Seq(Ref) /\ Len(v) = Len(w) + 1 /\ v[Len(w) + 1] = r
      /\ \A k \in 1..Len(w) : v[k] = w[k]
  BY <1>1, <1>2, AppendProperties
<1>4. Ranked(v, c)
  BY <1>1, RankedWith
<1>5. \A k \in 1..Len(v) : k > 1 => v[k].id \notin g
  <2>1. \A k \in 1..(Len(w) + 1) : k \in 1..Len(w) \/ k = Len(w) + 1
    BY <1>2
  <2> QED
    BY <1>3, <2>1
<1>6. ASSUME NEW k \in 1..Len(w), NEW u, u = RemoveAt(v, k)
      PROVE  /\ u \in Seq(Ref) /\ Len(u) = Len(w)
             /\ \A j \in 1..Len(w) : u[j] = IF j < k THEN v[j] ELSE v[j + 1]
             /\ \A j \in 1..Len(w) : j > 1 => u[j].id \notin g
             /\ (k = 1 \/ v[1].id \notin g) => \A j \in 1..Len(w) : u[j].id \notin g
  <2>1. k \in 1..Len(v) /\ Len(v) - 1 = Len(w)
    BY <1>2, <1>3
  <2>2. /\ u \in Seq(Ref) /\ Len(u) = Len(w)
        /\ \A j \in 1..Len(w) : u[j] = IF j < k THEN v[j] ELSE v[j + 1]
    BY <1>3, <1>6, <2>1, RemoveAtIs
  <2>3. \A j \in 1..Len(w) : /\ j + 1 \in 1..Len(v) /\ j + 1 > 1 /\ j \in 1..Len(v)
                             /\ (j < k => k # 1) /\ (j > 1 \/ j = 1)
    BY <1>2, <1>3
  <2>4. \A j \in 1..Len(w) : j > 1 => u[j].id \notin g
    BY <1>5, <2>2, <2>3
  <2>5. (k = 1 \/ v[1].id \notin g) => \A j \in 1..Len(w) : u[j].id \notin g
    BY <1>5, <2>2, <2>3
  <2> QED
    BY <2>2, <2>4, <2>5
<1>7. \/ unit.mmcos = <<>> /\ Len(v) <= Refs(sps) /\ Window = v
      \/ unit.mmcos = <<>> /\ Len(v) > Refs(sps) /\ Window = RemoveAt(v, 1)
      \/ \E k \in 1..Len(w) : unit.mmcos = <<Unmark(c - w[k].n - 1)>> /\ Window = RemoveAt(v, k)
  <2>1. Remains(w, c, v)
    BY <1>1, MarkedIs
  <2> QED
    BY <2>1 DEF Remains
<1>8. 1 \in 1..Len(w) /\ 1 \in 1..Len(v)
  BY <1>2, <1>3
<1>9. \A k \in 1..Len(Window) : k > 1 => Window[k].id \notin g
  BY <1>5, <1>6, <1>7, <1>8
<1>10. \A u \in Seq(Ref) : /\ Len(u) > 0 /\ u[1].id \in g => Kept(u, g) = Tail(u)
                           /\ u[1].id \notin g => Kept(u, g) = u
  BY DEF Kept
<1>11. CASE w[1].id \notin g
  <2>1. y = v
    BY <1>1, <1>11, KeptIs
  <2>2. v[1].id \notin g
    BY <1>3, <1>8, <1>11
  <2>3. Kept(Window, g) = Window
    BY <1>3, <1>6, <1>7, <1>8, <1>10, <2>2
  <2>4. D!Cardinality(D!Taken(st)) = Len(v) /\ Holds(st, v, a) /\ Len(v) > 0
    BY <1>2, <1>3, <2>1, DCardinality
  <2>5. CASE unit.mmcos = <<>> /\ Len(v) <= Refs(sps) /\ Window = v
    <3>1. left = st
      BY <1>2, <1>3, <2>4, <2>5 DEF D!SlidingWindow
    <3> QED
      BY <1>9, <2>3, <2>4, <2>5, <3>1
  <2>6. CASE unit.mmcos = <<>> /\ Len(v) > Refs(sps) /\ Window = RemoveAt(v, 1)
    <3>1. left = D!EvictOldest(st, c % MaxFrameNum)
      BY <2>4, <2>6 DEF D!SlidingWindow
    <3>2. left = [st EXCEPT ![a[1]] = D!Free]
      BY ONLY st \in Seq(Slot), <1>4, <2>4, <3>1, EvictsFirst
    <3>3. Holds(left, RemoveAt(v, 1), RemoveAt(a, 1))
      BY ONLY st \in Seq(Slot), <1>3, <1>8, <2>4, <3>2, FreedHolds
    <3> QED
      BY <1>9, <2>3, <2>6, <3>3
  <2>7. ASSUME NEW k \in 1..Len(w), unit.mmcos = <<Unmark(c - w[k].n - 1)>>,
               Window = RemoveAt(v, k)
        PROVE  \E x : Holds(left, Kept(Window, g), x)
    <3>0. k \in 1..Len(v)
      BY <1>2, <1>3
    <3>1. w[k] = v[k]
      BY <1>3
    <3>2. left = D!ApplyMmco(st, Unmark(c - v[k].n - 1), c % MaxFrameNum)
      BY <2>7, <3>1
    <3>3. left = [st EXCEPT ![a[k]] = D!Free]
      <4>1. D!ApplyMmco(st, Unmark(c - v[k].n - 1), c % MaxFrameNum)
              = [st EXCEPT ![a[k]] = D!Free]
        <5>1. FreesOne(st, v, a, c, k)
          BY ONLY st \in Seq(Slot), <1>4, <2>4, <3>0, MmcoFrees
        <5> QED
          BY <5>1 DEF FreesOne
      <4> QED
        BY <3>2, <4>1
    <3>4. Holds(left, RemoveAt(v, k), RemoveAt(a, k))
      BY ONLY st \in Seq(Slot), <1>3, <2>4, <3>0, <3>3, FreedHolds
    <3> QED
      BY <2>3, <2>7, <3>4
  <2> QED
    BY <1>7, <1>9, <2>5, <2>6, <2>7
<1>12. CASE w[1].id \in g
  <2>1. y = RemoveAt(v, 1) /\ y = Tail(v)
    <3>1. Kept(w, g) = Tail(w)
      BY <1>12, KeptIs
    <3>2. RemoveAt(w, 1) = Tail(w)
      BY <1>2, TailIs
    <3>3. RemoveAt(v, 1) = Append(RemoveAt(w, 1), r)
      BY <1>1, <1>2, <1>8, RemoveAppend
    <3>4. RemoveAt(v, 1) = Tail(v)
      <4>1. Len(v) > 0
        BY <1>2, <1>3
      <4> QED
        BY <1>3, <4>1, TailIs
    <3> QED
      BY <3>1, <3>2, <3>3, <3>4
  <2>2. y \in Seq(Ref) /\ Len(y) = Len(w) /\ (\A j \in 1..Len(w) : y[j] = v[j + 1])
        /\ \A j \in 1..Len(w) : y[j].id \notin g
    <3>1. \A j \in 1..Len(w) : ~(j < 1)
      BY <1>2
    <3> QED
      BY <1>6, <1>8, <2>1, <3>1
  <2>3. Ranked(y, c)
    <3>1. Len(v) > 0
      BY <1>2, <1>3
    <3> QED
      BY <1>4, <2>1, <3>1, RankedTail
  <2>4. v[1].id \in g /\ Kept(v, g) = y /\ Kept(y, g) = y
    <3>1. Len(v) > 0 /\ v[1] = w[1]
      BY <1>2, <1>3, <1>8
    <3> QED
      BY <1>3, <1>8, <1>10, <1>12, <2>1, <2>2, <3>1
  <2>5. CASE unit.mmcos = <<>>
    <3>1. left = st
      <4>1. D!Cardinality(D!Taken(st)) = Len(w)
        BY <2>2, DCardinality
      <4>2. ~(Len(w) > Refs(sps))
        BY <1>2
      <4> QED
        BY <2>5, <4>1, <4>2 DEF D!SlidingWindow
    <3>2. Kept(Window, g) = y
      BY <1>7, <2>1, <2>4, <2>5
    <3> QED
      BY <1>9, <3>1, <3>2
  <2>6. ASSUME NEW k \in 1..Len(w), unit.mmcos = <<Unmark(c - w[k].n - 1)>>,
               Window = RemoveAt(v, k)
        PROVE  \E x : Holds(left, Kept(Window, g), x)
    <3>1. left = D!ApplyMmco(st, Unmark(c - w[k].n - 1), c % MaxFrameNum)
      BY <2>6
    <3>2. CASE k = 1
      <4>1. w[1].n \in Nat
        <5>1. w[1] \in Ref
          BY <1>2, <1>8
        <5> QED
          BY <5>1 DEF Ref
      <4>2. \A j \in 1..Len(y) : y[j].n # w[1].n
        <5>1. \A j \in 1..Len(w) : j + 1 \in 1..Len(v) /\ 1 < j + 1
          BY <1>2, <1>3
        <5>2. \A j \in 1..Len(w) : v[1].n < v[j + 1].n
          BY <1>4, <1>8, <5>1 DEF Ranked
        <5>3. \A n \in Nat : \A m : n < m => m # n
          OBVIOUS
        <5> QED
          BY <1>3, <1>8, <2>2, <4>1, <5>2, <5>3
      <4>3. left = st
        <5>1. PICK n : n = w[1].n
          OBVIOUS
        <5>2. /\ n \in Nat /\ (\A j \in 1..Len(y) : y[j].n # n)
              /\ left = D!ApplyMmco(st, Unmark(c - n - 1), c % MaxFrameNum)
          BY <3>1, <3>2, <4>1, <4>2, <5>1
        <5> QED
          BY ONLY st \in Seq(Slot), Holds(st, y, a), <2>3, <5>2, MmcoMisses
      <4>4. Kept(Window, g) = y
        BY <2>1, <2>4, <2>6, <3>2
      <4> QED
        BY <4>3, <4>4
    <3>3. CASE k # 1
      <4>1. k = 2 /\ Len(w) = 2
        <5>1. \A l \in {1, 2} : \A j \in 1..l : j # 1 => j = 2 /\ l = 2
          OBVIOUS
        <5> QED
          BY <1>2, <3>3, <5>1
      <4>2. PICK z : z = RemoveAt(v, 2)
        OBVIOUS
      <4>3. z \in Seq(Ref) /\ Len(z) = 2 /\ z[1] = v[1] /\ z[2] = v[3]
        <5>1. 1 \in 1..2 /\ 2 \in 1..2 /\ 1 < 2 /\ ~(2 < 2) /\ 2 + 1 = 3
          OBVIOUS
        <5> QED
          BY <1>6, <4>1, <4>2, <5>1
      <4>4. y[1] = w[2] /\ y[2] = v[3] /\ 1 \in 1..Len(y) /\ Len(y) = 2
        <5>1. 1 \in 1..2 /\ 2 \in 1..2 /\ 1 + 1 = 2 /\ 2 + 1 = 3
          OBVIOUS
        <5> QED
          BY <1>3, <2>2, <4>1, <5>1
      <4>5. left = [st EXCEPT ![a[1]] = D!Free]
        <5>1. left = D!ApplyMmco(st, Unmark(c - y[1].n - 1), c % MaxFrameNum)
          BY <3>1, <4>1, <4>4
        <5>2. D!ApplyMmco(st, Unmark(c - y[1].n - 1), c % MaxFrameNum)
                = [st EXCEPT ![a[1]] = D!Free]
          <6>1. FreesOne(st, y, a, c, 1)
            BY ONLY st \in Seq(Slot), Holds(st, y, a), <2>3, <4>4, MmcoFrees
          <6> QED
            BY <6>1 DEF FreesOne
        <5> QED
          BY <5>1, <5>2
      <4>6. Holds(left, RemoveAt(y, 1), RemoveAt(a, 1))
        BY ONLY st \in Seq(Slot), Holds(st, y, a), <2>2, <4>4, <4>5, FreedHolds
      <4>7. RemoveAt(y, 1) = Tail(z)
        <5>1. RemoveAt(y, 1) = Tail(y)
          <6>1. Len(y) > 0
            BY <4>4
          <6> QED
            BY <2>2, <6>1, TailIs
        <5>2. Tail(y) = <<y[2]>> /\ Tail(z) = <<z[2]>>
          BY <2>2, <4>3, <4>4, TailOfTwo
        <5> QED
          BY <4>3, <4>4, <5>1, <5>2
      <4>8. Kept(Window, g) = Tail(z)
        <5>1. Len(z) > 0 /\ z[1].id \in g
          BY <2>4, <4>3
        <5> QED
          BY <1>10, <2>6, <4>1, <4>2, <4>3, <5>1
      <4> QED
        BY <4>6, <4>7, <4>8
    <3> QED
      BY <3>2, <3>3
  <2>7. unit.mmcos = <<>> \/ \E k \in 1..Len(w) :
          unit.mmcos = <<Unmark(c - w[k].n - 1)>> /\ Window = RemoveAt(v, k)
    BY <1>7
  <2> QED
    BY <1>9, <2>5, <2>6, <2>7
<1> QED
  BY <1>9, <1>11, <1>12

LEMMA DecodesNext ==
  ASSUME NEW d, DecoderOK(d), sps \in ParamSets, unit \in Unit, unit.sps = sps, NEW w, NEW c,
         NEW g, MadeWith(w, c), InStep(d, w, c, g), unit.id \notin g,
         NEW fault, D!DecodePicture(d, unit, Refs(sps), PocType(sps), fault).ok
  PROVE  LET after == D!DecodePicture(d, unit, Refs(sps), PocType(sps), fault).d IN
         /\ InStep(after, Window, Count, Forgets(g))
         /\ after.last_output # D!Free /\ after.last_output.id = unit.id
         /\ g = {} => after.last_output.good
<1> DEFINE after == D!DecodePicture(d, unit, Refs(sps), PocType(sps), fault).d
           u == unit
           type == PocType(sps)
           refs == Refs(sps)
           st == d.slots
           current == Shown(d, u, type)
           r == Current(c)
           v == Kept(w, g)
<1>1. /\ d \in Decoder /\ st \in Seq(Slot) /\ d.poc \in PocState /\ d.open /\ d.sps = sps
      /\ Apart(w, c) /\ w \in Seq(Ref) /\ c \in Nat /\ c > 0 /\ type \in {0, 2}
      /\ Len(w) <= refs /\ refs \in {1, 2} /\ Len(w) \in {1, 2} /\ Len(w) > 0
  <2>1. Len(w) > 0
    BY DEF MadeWith
  <2> QED
    BY <2>1, MadeIs DEF DecoderOK, Decoder, InStep
<1>2. /\ v \in Seq(Ref) /\ Len(v) \in Nat /\ Len(v) <= Len(w) /\ (v = <<>> \/ Apart(v, c))
      /\ Len(v) <= refs
  <2>1. /\ v \in Seq(Ref) /\ Len(v) \in Nat /\ Len(v) <= Len(w) /\ (v = <<>> \/ Apart(v, c))
    BY KeptIs
  <2> HIDE DEF v, refs
  <2> QED
    BY <1>1, <2>1
<1>3. /\ Counts(d.poc, c) /\ (\E place : Holds(st, v, place))
      /\ \A k \in 1..Len(w) : k > 1 => w[k].id \notin g
      /\ g = {} => \A i \in D!Taken(st) : st[i].good
  BY <1>1 DEF InStep
<1>4. PICK place : Holds(st, v, place)
  BY <1>3
<1>5. /\ u.frame_num = c % MaxFrameNum /\ u.ref \in BOOLEAN /\ ~u.idr
      /\ IF u.ref THEN (Count = c + 1 /\ Marked(w, c)) \/ Restarted
         ELSE Count = c /\ Window = w /\ u.mmcos = <<>>
  BY DEF MadeWith, Unit
<1>6. /\ current \in Slot /\ Is(current, r) /\ r \in Ref
      /\ current.id = u.id /\ current # D!Free
      /\ Counts(D!Noted(D!Derive(d.poc, u, type).next, u), Count)
  BY <1>3, ShownIs
<1>7. /\ Room(d, u) = st /\ D!Taken(st) # DOMAIN st
      /\ Cardinality(D!Taken(st)) = Len(v) /\ IsFiniteSet(D!Taken(st))
  <2> HIDE DEF v
  <2> QED
    BY <1>1, <1>2, <1>4, <1>5, HasRoom
<1> DEFINE f == Place(d, u)
           stored == [st EXCEPT ![f] = current]
           y == Append(v, r)
           a == Append(place, f)
           left == LeftIn(d, u, refs, type)
<1>8. f \in DOMAIN st /\ f \notin D!Taken(st)
  BY <1>1, <1>7, HasPlace DEF Place
<1>9. StoredIn(d, u, type) = stored
  BY <1>7 DEF StoredIn
<1>10. /\ stored \in Seq(Slot) /\ Holds(stored, y, a) /\ D!Taken(stored) = D!Taken(st) \cup {f}
  <2> HIDE DEF f, current, st, r, v
  <2> QED
    BY <1>1, <1>2, <1>4, <1>6, <1>8, StoredHolds
<1>11. Cardinality(D!Taken(stored)) = Len(y)
  <2> DEFINE t == D!Taken(st)
  <2>1. IsFiniteSet(t) /\ f \notin t /\ Cardinality(t) = Len(v) /\ D!Taken(stored) = t \cup {f}
    BY <1>7, <1>8, <1>10
  <2> HIDE DEF t, f, stored, v, r
  <2>2. Cardinality(t \cup {f}) = Len(v) + 1
    BY <2>1, FS_AddElement
  <2>3. Len(y) = Len(v) + 1
    BY <1>2, <1>6
  <2> QED
    BY <2>1, <2>2, <2>3
<1>12. /\ after.open = d.open /\ after.sps = d.sps /\ after.slots = left
       /\ after.last_output = current
       /\ after.poc = D!Noted(D!Derive(d.poc, u, type).next, u)
  BY <1>1, PictureIs
<1>13. r.id = u.id
  BY DEF Current
<1> HIDE DEF after, current, left
<1>14. /\ \E x : Holds(left, Kept(Window, Forgets(g)), x)
       /\ \A k \in 1..Len(Window) : k > 1 => Window[k].id \notin Forgets(g)
       /\ \A i \in D!Taken(left) : i \in D!Taken(stored) /\ left[i] = stored[i]
  <2>0. D!Resets(u) <=> \E o : o.op = 5 /\ u.mmcos = <<o>>
    <3>1. u.mmcos = <<>> \/ \E o \in Operation : u.mmcos = <<o>>
      BY DEF Unit
    <3> QED
      BY <3>1, ResetsIs
  <2>1. CASE ~u.ref
    <3>1. left = st /\ Window = w /\ Forgets(g) = g
      <4>1. ~D!Resets(u)
        BY <1>5, <2>1, ResetsIs
      <4> QED
        BY <1>5, <1>7, <2>1, <4>1 DEF LeftIn, left, Forgets
    <3>2. \A i \in D!Taken(st) : i \in D!Taken(stored) /\ st[i] = stored[i]
      BY <1>8, <1>10
    <3> HIDE DEF st, stored
    <3> QED
      BY <1>3, <3>1, <3>2
  <2>2. CASE u.ref /\ Count = c + 1 /\ Marked(w, c)
    <3>1. u.mmcos = <<>> \/ \E n : u.mmcos = <<Unmark(n)>>
      BY <2>2 DEF Marked, Unmark
    <3>2. Forgets(g) = g
      <4>1. \A n : Unmark(n).op = 1
        BY DEF Unmark
      <4>2. ~D!Resets(u)
        BY <3>1, <4>1, ResetsIs
      <4> QED
        BY <1>5, <4>2 DEF Forgets
    <3>3. u.mmcos = <<>> => left = D!SlidingWindow(stored, c % MaxFrameNum, refs)
      BY <1>5, <1>9, <2>2 DEF LeftIn, left
    <3>4. ASSUME NEW o, u.mmcos = <<o>>
          PROVE  left = D!ApplyMmco(stored, o, c % MaxFrameNum)
      <4>1. u.mmcos # <<>>
        BY <3>4
      <4>2. left = D!FoldLeft(LAMBDA s, op : D!ApplyMmco(s, op, u.frame_num), stored, <<o>>)
        BY <1>9, <2>2, <3>4, <4>1 DEF LeftIn, left
      <4> HIDE DEF stored
      <4> QED
        BY <1>5, <4>2, OneOperation
    <3> HIDE DEF stored, y, a, v, r, st, f
    <3>5. /\ \E x : Holds(left, Kept(Window, g), x)
          /\ \A k \in 1..Len(Window) : k > 1 => Window[k].id \notin g
      <4>1. y = Append(Kept(w, g), r) /\ r = Current(c)
        BY DEF y, v, r
      <4>2. r.id \notin g
        BY <1>13
      <4> QED
        BY <1>3, <1>6, <1>10, <1>11, <2>2, <3>3, <3>4, <4>1, <4>2, LeftHolds
    <3>6. \A i \in D!Taken(left) : i \in D!Taken(stored) /\ left[i] = stored[i]
      <4>1. PICK n : u.mmcos = <<>> \/ u.mmcos = <<Unmark(n)>>
        BY <3>1
      <4>2. Survive(left, stored)
        BY <3>3, <3>4, <4>1, Survivors
      <4> QED
        BY <4>2 DEF Survive
    <3> QED
      BY <3>2, <3>5, <3>6
  <2>3. CASE u.ref /\ Restarted
    <3>1. PICK o : o.op = 5 /\ u.mmcos = <<o>> /\ u.mmcos # <<>>
      BY <2>3 DEF Restarted
    <3>2. left = D!ApplyMmco(stored, o, u.frame_num)
      <4>1. left = D!FoldLeft(LAMBDA s, op : D!ApplyMmco(s, op, u.frame_num), stored, <<o>>)
        BY <1>9, <2>3, <3>1 DEF LeftIn, left
      <4> HIDE DEF stored
      <4> QED
        BY <4>1, OneOperation
    <3>3. D!Taken(left) = {}
      BY <1>10, <3>1, <3>2, ResetFrees
    <3>4. u.id \in Forgets(g)
      <4>1. D!Resets(u)
        BY <2>0, <3>1
      <4> QED
        BY <1>5, <4>1 DEF Forgets
    <3>5. Window = <<Current(0)>> /\ Current(0).id = u.id
      BY <2>3 DEF Restarted, Current
    <3>6. Kept(Window, Forgets(g)) = <<>> /\ Len(Window) = 1
      BY <3>4, <3>5 DEF Kept
    <3>7. Holds(left, <<>>, <<>>)
      BY <3>3 DEF Holds
    <3>8. \A k \in 1..1 : ~(k > 1)
      OBVIOUS
    <3> QED
      BY <3>3, <3>6, <3>7, <3>8
  <2> QED
    BY <1>5, <2>1, <2>2, <2>3
<1>15. g = {} => current.good
  <2>1. ASSUME g = {} PROVE current.good
    <3>1. v = w
      BY <2>1 DEF Kept
    <3>2. Holds(d.slots, w, place)
      BY <1>4, <3>1
    <3>3. \A i \in D!Taken(d.slots) : d.slots[i].good
      BY <1>3, <2>1
    <3> QED
      BY <1>7, <3>2, <3>3, PredictsIs DEF current
  <2> QED
    BY <2>1
<1>16. Forgets(g) = {} => \A i \in D!Taken(left) : left[i].good
  <2>1. ASSUME Forgets(g) = {}, NEW i \in D!Taken(left) PROVE left[i].good
    <3>1. g = {}
      BY <1>5, <2>1 DEF Forgets
    <3>2. i \in D!Taken(stored) /\ left[i] = stored[i]
      BY <1>14
    <3>3. stored[i] = IF i = f THEN current ELSE st[i]
      BY <1>8, <3>2 DEF D!Taken
    <3> HIDE DEF stored, f
    <3>4. i = f \/ i \in D!Taken(st)
      BY <1>10, <3>2
    <3> QED
      BY <1>3, <1>15, <3>1, <3>2, <3>3, <3>4
  <2> QED
    BY <2>1
<1>17. InStep(after, Window, Count, Forgets(g))
  BY <1>1, <1>6, <1>12, <1>14, <1>16 DEF InStep
<1> QED
  BY <1>6, <1>12, <1>15, <1>17 DEF after

\* A decoder in step decodes the unit as it was made, and is in step again.
LEMMA Decodes ==
  ASSUME NEW d, DecoderOK(d), sps \in ParamSets, unit \in Unit, unit.sps = sps,
         NEW g, unit.id \notin g,
         MadeIdr \/ \E w, c : MadeWith(w, c) /\ InStep(d, w, c, g),
         NEW fault, D!Decode(d, unit, Refs(unit.sps), PocType(unit.sps), fault).ok
  PROVE  LET after == D!Decode(d, unit, Refs(unit.sps), PocType(unit.sps), fault).d IN
         /\ InStep(after, Window, Count, Forgets(g))
         /\ after.last_output # D!Free /\ after.last_output.id = unit.id
         /\ g = {} \/ unit.idr => after.last_output.good
<1> DEFINE refs == Refs(sps)
           type == PocType(sps)
           o == D!Opened(d, unit, refs)
           result == D!Decode(d, unit, Refs(unit.sps), PocType(unit.sps), fault)
           picture == D!DecodePicture(o, unit, refs, type, fault)
<1>1. result = picture /\ o.open
  <2>1. \A e : D!Error(e).ok = FALSE
    BY DEF D!Error
  <2>2. result.ok
    OBVIOUS
  <2> HIDE DEF picture
  <2>3. \/ \E e : result = D!Error(e)
        \/ o.open /\ result = picture
    <3>1. d.open \in BOOLEAN
      BY DEF DecoderOK, Decoder
    <3> QED
      BY <3>1 DEF D!Decode, D!Opened, picture
  <2> HIDE DEF result
  <2> QED
    BY <2>1, <2>2, <2>3
<1>2. picture.ok
  BY <1>1
<1>3. CASE MadeIdr
  <2>1. DecoderOK(o) /\ o.sps = sps
    <3> DEFINE fresh == [i \in 1..refs + 1 |-> D!Free]
               new == [sps |-> unit.sps, open |-> TRUE, slots |-> fresh, last_output |-> D!Free,
                       poc |-> D!ZeroPoc]
    <3>1. D!Free \in Slot /\ D!ZeroPoc \in PocState /\ refs \in Nat
      BY SpsIs DEF Slot, D!ZeroPoc, PocState
    <3> HIDE DEF refs
    <3>2. fresh \in Seq(Slot) /\ Len(fresh) = refs + 1
      BY <3>1
    <3> HIDE DEF fresh
    <3>3. new \in Decoder /\ new.sps = sps /\ new.slots = fresh
      BY <3>1, <3>2 DEF Decoder
    <3> HIDE DEF new
    <3>4. DecoderOK(new)
      BY <3>2, <3>3 DEF DecoderOK, refs
    <3>5. o = new \/ (o = d /\ d.sps = sps)
      BY <1>3 DEF D!Opened, D!NewSps, new, fresh, MadeIdr
    <3> QED
      BY <3>3, <3>4, <3>5
  <2> HIDE DEF o
  <2>2. Forgets(g) = {}
    BY <1>3 DEF MadeIdr, Forgets
  <2> QED
    BY <1>1, <1>2, <1>3, <2>1, <2>2, DecodesIdr
<1>4. CASE \E w, c : MadeWith(w, c) /\ InStep(d, w, c, g)
  <2>1. PICK w, c : MadeWith(w, c) /\ InStep(d, w, c, g)
    BY <1>4
  <2>2. o = d /\ ~unit.idr
    BY <2>1 DEF D!Opened, D!NewSps, MadeWith
  <2> HIDE DEF o
  <2> QED
    BY <1>1, <1>2, <2>1, <2>2, DecodesNext
<1> QED
  BY <1>3, <1>4

\* The number after p, from p before or after it wraps.
LEMMA ModNext ==
  ASSUME NEW m \in Nat, m > 1, NEW p \in Nat
  PROVE  ((p % m) + 1) % m = (p + 1) % m /\ (p % m) % m = p % m /\ p % m \in 0..(m - 1)
<1> DEFINE r == p % m
           q == p \div m
<1>1. r \in 0..(m - 1) /\ p = m * q + r /\ q \in Int
  OBVIOUS
<1> HIDE DEF r, q
<1>2. m * 0 = 0 /\ m * 1 = m /\ m * (q + 1) = m * q + m
  BY <1>1
<1>3. r % m = r
  <2>1. r = m * 0 + r
    BY <1>1, <1>2
  <2> QED
    BY <1>1, <2>1, DivUnique
<1>4. CASE r + 1 < m
  <2>1. r + 1 \in 0..(m - 1) /\ r + 1 = m * 0 + (r + 1) /\ p + 1 = m * q + (r + 1)
    BY <1>1, <1>2, <1>4
  <2>2. (r + 1) % m = r + 1 /\ (p + 1) % m = r + 1
    <3> DEFINE t == r + 1
               z == p + 1
    <3>1. t \in 0..(m - 1) /\ t = m * 0 + t /\ z = m * q + t /\ t \in Int /\ z \in Int
      BY <1>1, <2>1
    <3> HIDE DEF t, z
    <3>2. t % m = t /\ z % m = t
      BY <1>1, <3>1, DivUnique
    <3> QED
      BY <3>2 DEF t, z
  <2> QED
    BY <1>1, <1>3, <2>2 DEF r
<1>5. CASE r + 1 = m
  <2> DEFINE t == r + 1
             z == p + 1
             k == q + 1
  <2>1. 0 \in 0..(m - 1) /\ t = m * 1 + 0 /\ z = m * k + 0 /\ t \in Int /\ z \in Int /\ k \in Int
    BY <1>1, <1>2, <1>5
  <2> HIDE DEF t, z, k
  <2>2. t % m = 0 /\ z % m = 0
    BY <1>1, <2>1, DivUnique
  <2> QED
    BY <1>1, <1>3, <2>2 DEF r, t, z
<1>6. r + 1 < m \/ r + 1 = m
  BY <1>1
<1> QED
  BY <1>4, <1>5, <1>6

\* The window of references as a picture comes and one goes.
LEMMA Grows ==
  ASSUME NEW w, NEW c, WindowOK(w, c), Len(w) > 0, pictures \in Nat,
         NEW r, r = [id |-> pictures + 1, n |-> c]
  PROVE  /\ Append(w, r) \in Seq(Ref) /\ Len(Append(w, r)) = Len(w) + 1
         /\ \A k \in 1..Len(Append(w, r)) : Append(w, r)[k].id \in 1..(pictures + 1)
         /\ \A j, k \in 1..Len(Append(w, r)) :
              j < k => /\ Append(w, r)[j].id < Append(w, r)[k].id
                       /\ Append(w, r)[j].n < Append(w, r)[k].n
         /\ Append(w, r)[Len(w) + 1] = r /\ r \in Ref /\ c > 0
         /\ \A k \in 1..Len(w) : w[k].n \in Nat /\ w[k].n < c /\ w[k].id \in Nat
<1> DEFINE v == Append(w, r)
<1>1. /\ w \in Seq(Ref) /\ c \in Nat /\ Len(w) \in Nat
      /\ \A k \in 1..Len(w) : w[k].id \in 1..pictures
      /\ \A j, k \in 1..Len(w) : j < k => w[j].id < w[k].id /\ w[j].n < w[k].n
      /\ w[Len(w)].n = c - 1
  BY DEF WindowOK
<1>2. r \in Ref /\ r.id = pictures + 1 /\ r.n = c
  BY <1>1 DEF Ref
<1>3. v \in Seq(Ref) /\ Len(v) = Len(w) + 1 /\ v[Len(w) + 1] = r
      /\ \A k \in 1..Len(w) : v[k] = w[k]
  BY <1>1, <1>2
<1> HIDE DEF v
<1>4. ASSUME NEW k \in 1..Len(w)
      PROVE  w[k].n \in Nat /\ w[k].n < c /\ w[k].id \in Nat
  <2>1. w[k] \in Ref /\ k \in Nat
    BY <1>1
  <2>2. w[k].n \in Nat /\ w[k].id \in Nat
    BY <2>1 DEF Ref
  <2>3. k = Len(w) \/ (k < Len(w) /\ Len(w) \in 1..Len(w))
    BY <1>1, <2>1
  <2>4. CASE k = Len(w)
    BY <1>1, <2>2, <2>4
  <2>5. CASE k < Len(w) /\ Len(w) \in 1..Len(w)
    <3>1. w[k].n < w[Len(w)].n
      BY <1>1, <2>5
    <3> QED
      BY <1>1, <2>2, <3>1
  <2> QED
    BY <2>3, <2>4, <2>5
<1>5. c > 0
  <2>1. Len(w) \in 1..Len(w)
    BY <1>1
  <2> QED
    BY <1>1, <1>4, <2>1
<1>6. ASSUME NEW k \in 1..Len(v)
      PROVE  v[k].id \in 1..(pictures + 1)
  <2>1. k \in 1..Len(w) \/ k = Len(w) + 1
    BY <1>1, <1>3
  <2>2. CASE k \in 1..Len(w)
    <3>1. v[k] = w[k] /\ w[k].id \in 1..pictures
      BY <1>1, <1>3, <2>2
    <3> QED
      BY <3>1
  <2>3. CASE k = Len(w) + 1
    BY <1>2, <1>3, <2>3
  <2> QED
    BY <2>1, <2>2, <2>3
<1>7. ASSUME NEW j \in 1..Len(v), NEW k \in 1..Len(v), j < k
      PROVE  v[j].id < v[k].id /\ v[j].n < v[k].n
  <2>1. j \in 1..Len(w) /\ (k \in 1..Len(w) \/ k = Len(w) + 1)
    BY <1>1, <1>3, <1>7
  <2>2. CASE k \in 1..Len(w)
    <3>1. v[j] = w[j] /\ v[k] = w[k]
      BY <1>3, <2>1, <2>2
    <3>2. w[j].id < w[k].id /\ w[j].n < w[k].n
      BY <1>1, <1>7, <2>1, <2>2
    <3> QED
      BY <3>1, <3>2
  <2>3. CASE k = Len(w) + 1
    <3>1. w[j].id \in 1..pictures /\ w[j].n < c
      BY <1>1, <1>4, <2>1
    <3>2. v[j] = w[j] /\ v[k] = r
      BY <1>3, <2>1, <2>3
    <3>3. w[j].id < pictures + 1
      BY <3>1
    <3> QED
      BY <1>2, <3>1, <3>2, <3>3
  <2> QED
    BY <2>1, <2>2, <2>3
<1>8. /\ v \in Seq(Ref) /\ Len(v) = Len(w) + 1
      /\ \A k \in 1..Len(v) : v[k].id \in 1..(pictures + 1)
      /\ \A j, k \in 1..Len(v) : j < k => v[j].id < v[k].id /\ v[j].n < v[k].n
      /\ v[Len(w) + 1] = r
  BY <1>3, <1>6, <1>7
<1> QED
  BY <1>2, <1>4, <1>5, <1>8 DEF v

LEMMA Shrinks ==
  ASSUME NEW v \in Seq(Ref), NEW p \in Nat, \A k \in 1..Len(v) : v[k].id \in 1..p,
         \A j, k \in 1..Len(v) : j < k => v[j].id < v[k].id /\ v[j].n < v[k].n,
         NEW k \in 1..Len(v), k < Len(v)
  PROVE  LET u == RemoveAt(v, k) IN
         /\ u \in Seq(Ref) /\ Len(u) = Len(v) - 1 /\ u[Len(u)] = v[Len(v)]
         /\ \A i \in 1..Len(u) : u[i].id \in 1..p
         /\ \A i, j \in 1..Len(u) : i < j => u[i].id < u[j].id /\ u[i].n < u[j].n
<1> DEFINE u == RemoveAt(v, k)
           up(i) == IF i < k THEN i ELSE i + 1
<1>1. /\ u \in Seq(Ref) /\ Len(u) = Len(v) - 1 /\ Len(v) \in Nat /\ k \in Nat
      /\ \A i \in 1..(Len(v) - 1) : u[i] = v[up(i)]
  <2>1. /\ u \in Seq(Ref) /\ Len(u) = Len(v) - 1
        /\ \A i \in 1..(Len(v) - 1) : u[i] = IF i < k THEN v[i] ELSE v[i + 1]
    BY RemoveAtIs
  <2> QED
    BY <2>1
<1>2. \A i \in 1..(Len(v) - 1) : up(i) \in 1..Len(v)
  BY <1>1
<1>3. \A i, j \in 1..(Len(v) - 1) : i < j => up(i) < up(j)
  BY <1>1
<1>4. Len(v) - 1 \in 1..(Len(v) - 1) /\ up(Len(v) - 1) = Len(v)
  BY <1>1
<1> HIDE DEF u, up
<1>5. u[Len(u)] = v[Len(v)]
  BY <1>1, <1>4
<1>6. \A i \in 1..Len(u) : u[i].id \in 1..p
  BY <1>1, <1>2
<1>7. ASSUME NEW i \in 1..Len(u), NEW j \in 1..Len(u), i < j
      PROVE  u[i].id < u[j].id /\ u[i].n < u[j].n
  <2>1. u[i] = v[up(i)] /\ u[j] = v[up(j)] /\ up(i) \in 1..Len(v) /\ up(j) \in 1..Len(v)
        /\ up(i) < up(j)
    BY <1>1, <1>2, <1>3, <1>7
  <2> QED
    BY <2>1
<1> QED
  BY <1>1, <1>5, <1>6, <1>7 DEF u

\* What the steps of the encoders establish.
EncodesWell ==
  /\ EncoderInv' /\ UnitInv' /\ unit' # NoUnit /\ sps' = sps
  /\ \/ MadeIdr'
     \/ Window # <<>> /\ \E w, c : w = Window /\ c = Count /\ MadeWith(w, c)'

LEMMA WindowStays ==
  ASSUME NEW w, NEW c, WindowOK(w, c), pictures \in Nat, pictures' = pictures + 1, sps' = sps
  PROVE  WindowOK(w, c)' /\ \A k \in 1..Len(w) : w[k].id < pictures'
<1>1. /\ w \in Seq(Ref) /\ c \in Nat /\ Len(w) <= Refs(sps)
      /\ \A k \in 1..Len(w) : w[k].id \in 1..pictures
      /\ \A j, k \in 1..Len(w) : j < k => w[j].id < w[k].id /\ w[j].n < w[k].n
      /\ Len(w) > 0 => w[Len(w)].n = c - 1
  BY DEF WindowOK
<1>2. \A k \in 1..Len(w) : w[k].id \in 1..pictures' /\ w[k].id < pictures'
  <2>1. \A i \in 1..pictures : i \in 1..(pictures + 1) /\ i < pictures + 1
    OBVIOUS
  <2> QED
    BY <1>1, <2>1
<1>3. Refs(sps)' = Refs(sps')
  BY DEF Refs, SpsOf
<1> QED
  BY <1>1, <1>2, <1>3 DEF WindowOK, Ref

LEMMA EmptyOK ==
  ASSUME sps \in ParamSets, NEW c \in Nat
  PROVE  WindowOK(<<>>, c)
<1>1. <<>> \in Seq(Ref) /\ Len(<<>>) = 0 /\ Refs(sps) \in {1, 2}
  BY SpsIs
<1> QED
  BY <1>1 DEF WindowOK

LEMMA SpsStays ==
  ASSUME sps' = sps
  PROVE  Refs(sps)' = Refs(sps) /\ PocType(sps)' = PocType(sps)
BY DEF Refs, PocType, SpsOf

\* The window that a step leaves.
LEMMA WindowNext ==
  ASSUME sps' = sps, NEW p \in Nat, pictures' = p, NEW w \in Seq(Ref), NEW c \in Nat,
         Window' = w, Count' = c, Len(w) <= Refs(sps),
         \A k \in 1..Len(w) : w[k].id \in 1..p,
         \A j, k \in 1..Len(w) : j < k => w[j].id < w[k].id /\ w[j].n < w[k].n,
         Len(w) > 0 => w[Len(w)].n = c - 1
  PROVE  WindowOK(Window, Count)'
<1>1. Refs(sps)' = Refs(sps) /\ Ref' = Ref
  BY SpsStays DEF Ref
<1> QED
  BY <1>1 DEF WindowOK

\* The unit of a step, by the arguments of Written.
UnitSays(number, order, idr, ref, from, mods, mmcos, unmarked) ==
  /\ unit' \in Unit /\ unit'.id = pictures' /\ unit'.sps = sps' /\ unit' # NoUnit
  /\ unit'.idr = idr /\ unit'.ref = ref /\ unit'.frame_num = number % MaxFrameNum
  /\ unit'.from = from /\ unit'.mods = mods /\ unit'.mmcos = mmcos
  /\ unit'.unmarked = unmarked /\ unit'.poc = order
  /\ unit'.lsb = IF PocType(sps) = 0 THEN order % MaxPocLsb ELSE 0

Flags == BOOLEAN
Modifications == {<<>>} \cup {<<m>> : m \in Modification}
Operations == {<<>>} \cup {<<o>> : o \in Operation}
LEMMA Says ==
  ASSUME sps \in ParamSets, pictures \in Nat, pictures' = pictures + 1, sps' = sps
  PROVE  \A number, order, from \in Nat, idr, ref \in Flags,
            mods \in Modifications, mmcos \in Operations, unmarked \in SUBSET Nat :
           Written(number, order, idr, ref, from, mods, mmcos, unmarked)
             => UnitSays(number, order, idr, ref, from, mods, mmcos, unmarked)
<1> SUFFICES ASSUME NEW number \in Nat, NEW order \in Nat, NEW from \in Nat,
                    NEW idr \in Flags, NEW ref \in Flags, NEW mods \in Modifications,
                    NEW mmcos \in Operations, NEW unmarked \in SUBSET Nat,
                    Written(number, order, idr, ref, from, mods, mmcos, unmarked)
             PROVE  UnitSays(number, order, idr, ref, from, mods, mmcos, unmarked)
  OBVIOUS
<1> DEFINE h == Header(number, order, idr, ref, from, mods, mmcos, unmarked)
           l == IF PocType(sps) = 0 THEN order % MaxPocLsb ELSE 0
           n == number % MaxFrameNum
<1>1. n \in Nat /\ order % MaxPocLsb \in Nat /\ pictures + 1 \in Nat \ {0}
  BY WrapAssumption
<1>2. unit' = Parsed(h)
  BY DEF Written
<1>3. h = [id |-> pictures + 1, sps |-> sps, idr |-> idr, ref |-> ref,
           frame_num |-> n, lsb |-> order % MaxPocLsb,
           mods |-> mods, mmcos |-> mmcos, from |-> from, unmarked |-> unmarked, poc |-> order]
  BY DEF Header
<1> DEFINE e == [id |-> pictures + 1, sps |-> sps, idr |-> idr, ref |-> ref,
                 frame_num |-> n, lsb |-> l,
                 mods |-> mods, mmcos |-> mmcos, from |-> from, unmarked |-> unmarked,
                 poc |-> order]
<1> HIDE DEF h, n
<1>4. Parsed(h) = e
  <2>1. h.sps = sps
    BY <1>3
  <2>2. CASE PocType(sps) = 0
    BY <1>3, <2>1, <2>2 DEF Parsed
  <2>3. CASE PocType(sps) # 0
    <3>1. Parsed(h) = [h EXCEPT !.lsb = 0]
      BY <2>1, <2>3 DEF Parsed
    <3>2. l = 0
      BY <2>3
    <3> HIDE DEF l
    <3> QED
      BY <1>3, <3>1, <3>2
  <2> QED
    BY <2>2, <2>3
<1>5. l \in Nat
  BY <1>1
<1> HIDE DEF l
<1>6. e \in Unit
  BY <1>1, <1>5 DEF Unit, Flags, Modifications, Operations
<1>7. e # NoUnit
  <2>1. e.id # 0 /\ NoUnit.id = 0
    BY <1>1 DEF NoUnit
  <2> QED
    BY <2>1
<1> QED
  BY <1>2, <1>4, <1>6, <1>7 DEF n, l, UnitSays

LEMMA SubmitWell ==
  ASSUME EncoderInv, NEW force \in BOOLEAN, Submit(force)
  PROVE  EncodesWell
<1>1. PICK idr, number, order, setup, from, p, c, ref, none, nobody :
        /\ idr = (force \/ ~started \/ current_ref = Unset)
        /\ number = IF idr THEN 0 ELSE frame_num
        /\ order = IF idr THEN 0 ELSE poc
        /\ setup = IF idr THEN 0 ELSE 1 - current_ref
        /\ from = IF idr THEN 0 ELSE slots[current_ref].id
        /\ p = pictures + 1 /\ c = order + 1
        /\ ref = TRUE /\ none = <<>> /\ nobody = {}
  OBVIOUS
<1>2. /\ sps.by = "va" /\ sps \in ParamSets /\ pictures \in Nat /\ pictures' = p
      /\ Written(number, order, idr, ref, from, none, none, nobody)
      /\ slots' = [slots EXCEPT ![setup] = [id |-> p, frame_num |-> number]]
      /\ current_ref' = setup /\ frame_num' = (number + 1) % MaxFrameNum
      /\ poc' = c /\ started' = TRUE /\ sps' = sps
      /\ slots \in [0..1 -> [id : Nat, frame_num : Nat]] /\ started \in BOOLEAN
      /\ started => current_ref \in 0..1 /\ frame_num = poc % MaxFrameNum
      /\ WindowOK(Window, Count)
  BY <1>1 DEF Submit, Picture, EncoderInv
<1>3. /\ MaxFrameNum \in Nat /\ MaxFrameNum > 2 /\ MaxFrameNum > 1
      /\ Refs(sps) = 1 /\ PocType(sps) = 0 /\ Refs(sps)' = 1 /\ PocType(sps)' = 0
      /\ sps'.by = "va"
  BY <1>2, SpsIs, SpsStays, WrapAssumption
<1>4. poc \in Nat
  BY <1>2 DEF WindowOK, Count
<1>5. ~idr => /\ started /\ current_ref \in 0..1
              /\ Window = <<[id |-> slots[current_ref].id, n |-> poc - 1]>> /\ Count = poc
  BY <1>1, <1>2 DEF Window, Count
<1>6. idr \in BOOLEAN /\ setup \in 0..1 /\ order \in Nat /\ from \in Nat
      /\ number = order % MaxFrameNum /\ number \in Nat
  <2>1. CASE idr
    <3>1. 0 \in 0..1 /\ 0 \in Nat
      OBVIOUS
    <3> QED
      BY <1>1, <1>2, <2>1, <3>1, Zeroes
  <2>2. CASE ~idr
    <3>1. current_ref \in 0..1 /\ frame_num = poc % MaxFrameNum
      BY <1>2, <1>5, <2>2
    <3>2. 1 - current_ref \in 0..1 /\ slots[current_ref].id \in Nat
      BY <1>2, <3>1
    <3>3. poc % MaxFrameNum \in Nat
      BY <1>3, <1>4
    <3> QED
      BY <1>1, <1>2, <1>4, <2>2, <3>1, <3>2, <3>3
  <2>3. idr \in BOOLEAN
    BY <1>1, <1>2
  <2> QED
    BY <2>1, <2>2, <2>3
<1>7. p \in Nat /\ p > 0 /\ c \in Nat /\ p = pictures + 1 /\ c = order + 1 /\ ref \in BOOLEAN
      /\ ref = TRUE /\ none = <<>> /\ nobody = {}
  <2>1. p = pictures + 1 /\ c = order + 1 /\ ref = TRUE /\ none = <<>> /\ nobody = {}
    BY <1>1
  <2>2. pictures \in Nat /\ order \in Nat
    BY <1>2, <1>6
  <2> QED
    BY ONLY <2>1, <2>2
<1>8. UnitSays(number, order, idr, ref, from, none, none, nobody)
  <2>1. /\ none \in {<<>>} \cup {<<m>> : m \in Modification}
        /\ none \in {<<>>} \cup {<<o>> : o \in Operation} /\ nobody \in SUBSET Nat
    BY <1>7
  <2>2. none \in Modifications /\ none \in Operations /\ idr \in Flags /\ ref \in Flags
    BY <1>6, <1>7, <2>1 DEF Modifications, Operations, Flags
  <2>3. sps \in ParamSets /\ pictures \in Nat /\ pictures' = pictures + 1 /\ sps' = sps
        /\ Written(number, order, idr, ref, from, none, none, nobody)
        /\ number \in Nat /\ order \in Nat /\ from \in Nat /\ nobody \in SUBSET Nat
    BY <1>2, <1>6, <1>7, <2>1
  <2> QED
    BY <2>2, <2>3, Says
<1>9. /\ unit' \in Unit /\ unit'.id = pictures' /\ unit'.sps = sps' /\ unit' # NoUnit
      /\ unit'.idr = idr /\ unit'.ref = TRUE /\ unit'.frame_num = number % MaxFrameNum
      /\ unit'.from = from /\ unit'.mods = <<>> /\ unit'.mmcos = <<>>
      /\ unit'.unmarked = {} /\ unit'.poc = order /\ unit'.lsb = order % MaxPocLsb
  BY <1>3, <1>7, <1>8 DEF UnitSays
<1>10. PICK r : r = [id |-> p, n |-> order]
  OBVIOUS
<1>11. r \in Ref /\ r.id = p /\ r.n = order
  BY <1>6, <1>7, <1>10 DEF Ref
<1>12. Window' = <<r>> /\ Count' = c
  <2>1. slots'[current_ref'].id = p /\ poc' - 1 = order
    BY <1>2, <1>6, <1>7
  <2>2. Window' = <<[id |-> slots'[current_ref'].id, n |-> poc' - 1]>>
    BY <1>2, <1>3 DEF Window
  <2>3. Count' = poc'
    BY <1>3 DEF Count
  <2> QED
    BY <1>2, <1>10, <2>1, <2>2, <2>3
<1>13. number % MaxFrameNum = number /\ frame_num' = poc' % MaxFrameNum
  BY <1>2, <1>3, <1>6, <1>7, ModNext
<1>14. EncoderInv'
  <2>1. PICK w : w = <<r>>
    OBVIOUS
  <2>2. w \in Seq(Ref) /\ Len(w) = 1 /\ w[1] = r /\ Window' = w
    BY <1>11, <1>12, <2>1
  <2>3. \A k \in 1..Len(w) : w[k].id \in 1..p
    BY <1>7, <1>11, <2>2
  <2>4. \A j, k \in 1..Len(w) : j < k => w[j].id < w[k].id /\ w[j].n < w[k].n
    BY <2>2
  <2>5. Len(w) <= Refs(sps) /\ w[Len(w)].n = c - 1
    BY <1>3, <1>6, <1>7, <1>11, <2>2
  <2>6. WindowOK(Window, Count)'
    BY <1>2, <1>7, <1>12, <2>2, <2>3, <2>4, <2>5, WindowNext
  <2>7. slots' \in [0..1 -> [id : Nat, frame_num : Nat]]
    <3>1. [id |-> p, frame_num |-> number] \in [id : Nat, frame_num : Nat]
      BY <1>6, <1>7
    <3> QED
      BY <1>2, <1>6, <3>1
  <2> QED
    BY <1>2, <1>6, <1>7, <1>13, <2>6, <2>7 DEF EncoderInv
<1>15. CASE idr
  <2>1. order = 0 /\ number = 0
    BY <1>1, <1>15
  <2>2. Current(0)' = r
    BY <1>2, <1>9, <1>10, <2>1 DEF Current
  <2>3. MadeIdr'
    BY <1>7, <1>9, <1>12, <1>15, <2>1, <2>2, Zeroes DEF MadeIdr
  <2> QED
    BY <1>2, <1>9, <1>14, <2>3 DEF EncodesWell, UnitInv
<1>16. CASE ~idr
  <2>1. PICK w, q : w = Window /\ q = [id |-> slots[current_ref].id, n |-> poc - 1]
    OBVIOUS
  <2>2. w = <<q>> /\ Count = order /\ order = poc /\ from = q.id /\ q.n = order - 1
    BY <1>1, <1>5, <1>16, <2>1
  <2>3. WindowOK(w, order)' /\ (\A k \in 1..Len(w) : w[k].id < pictures') /\ WindowOK(w, order)
    BY <1>2, <1>7, <2>1, <2>2, WindowStays
  <2>4. Len(w) = 1 /\ w[1] = q /\ order - w[1].n = 1 /\ w # <<>> /\ w \in Seq(Ref)
    BY <1>6, <2>2, <2>3 DEF WindowOK
  <2>5. Named(w, order)'
    <3>1. 1 \in 1..Len(w) /\ unit'.from = w[1].id
      BY <1>9, <2>2, <2>4
    <3> QED
      BY <1>9, <2>4, <3>1 DEF Named
  <2>6. Marked(w, order)'
    <3>1. Current(order)' = r
      BY <1>2, <1>9, <1>10 DEF Current
    <3>2. PICK v : v = Append(w, r)
      OBVIOUS
    <3>3. v \in Seq(Ref) /\ Len(v) = 2 /\ v[2] = r
      <4>1. r \in Ref /\ w \in Seq(Ref)
        BY <1>11, <2>4
      <4>2. /\ Append(w, r) \in Seq(Ref) /\ Len(Append(w, r)) = Len(w) + 1
            /\ Append(w, r)[Len(w) + 1] = r
        BY ONLY <4>1, AppendProperties
      <4>3. Len(w) + 1 = 2
        BY <2>4
      <4> QED
        BY <3>2, <4>2, <4>3
    <3>4. Tail(v) = <<r>>
      <4>1. PICK x : x = <<r>>
        OBVIOUS
      <4>2. Tail(v) \in Seq(Ref) /\ Len(Tail(v)) = 1 /\ Tail(v)[1] = r
        BY <3>3
      <4>3. x \in Seq(Ref) /\ Len(x) = 1 /\ x[1] = r
        BY <1>11, <4>1
      <4>4. \A i \in 1..Len(Tail(v)) : Tail(v)[i] = x[i]
        <5>1. \A i \in 1..1 : i = 1
          OBVIOUS
        <5> QED
          BY <4>2, <4>3, <5>1
      <4> QED
        BY <4>1, <4>2, <4>3, <4>4, SameSequence
    <3>5. Newest(v)' = Tail(v)
      BY <1>3, <3>3 DEF Newest
    <3>6. Window' = Newest(Append(w, Current(order)))'
      BY <1>12, <3>1, <3>2, <3>4, <3>5
    <3> QED
      BY <1>9, <3>6 DEF Marked
  <2>7. MadeWith(w, order)'
    <3>1. (/\ ~unit.idr /\ unit.ref /\ unit.frame_num = order % MaxFrameNum
           /\ PocType(sps) = 0 /\ unit.poc = order /\ unit.lsb = order % MaxPocLsb
           /\ Count = order + 1 /\ Len(w) > 0 /\ order - w[1].n < MaxFrameNum)'
      <4>1. ~unit'.idr /\ unit'.ref /\ unit'.poc = order /\ unit'.lsb = order % MaxPocLsb
        BY <1>9, <1>16
      <4>2. unit'.frame_num = order % MaxFrameNum
        BY <1>6, <1>9, <1>13
      <4>3. PocType(sps)' = 0 /\ Count' = order + 1
        BY <1>3, <1>7, <1>12
      <4>4. Len(w) > 0 /\ order - w[1].n < MaxFrameNum
        BY <1>3, <2>4
      <4> QED
        BY <4>1, <4>2, <4>3, <4>4
    <3>2. (WindowOK(w, order) /\ \A k \in 1..Len(w) : w[k].id < unit.id)'
      BY <1>9, <2>3
    <3> QED
      BY <2>5, <2>6, <3>1, <3>2 DEF MadeWith
  <2>8. Window # <<>> /\ \E x, y : x = Window /\ y = Count /\ MadeWith(x, y)'
    BY <2>1, <2>2, <2>4, <2>7
  <2>9. UnitInv'
    BY <1>9, <2>7 DEF UnitInv
  <2> QED
    BY <1>2, <1>9, <1>14, <2>8, <2>9 DEF EncodesWell
<1> QED
  BY <1>15, <1>16

\* Another encoder's numbers.
LEMMA OtherIs ==
  ASSUME EncoderInv, sps.by # "va"
  PROVE  /\ sps \in ParamSets /\ pictures \in Nat /\ Window = window /\ Count = count
         /\ WindowOK(window, count) /\ Refs(sps) = 2 /\ PocType(sps) = 2
         /\ sps' = sps =>
              /\ Window' = window' /\ Count' = count' /\ Refs(sps)' = 2 /\ PocType(sps)' = 2
              /\ pictures' \in Nat /\ WindowOK(Window, Count)' => EncoderInv'
<1>1. sps \in ParamSets /\ pictures \in Nat /\ Window = window /\ Count = count
      /\ WindowOK(Window, Count)
  BY DEF EncoderInv, Window, Count
<1>2. Refs(sps) = 2 /\ PocType(sps) = 2
  BY <1>1, SpsIs
<1>3. ASSUME sps' = sps
      PROVE  /\ Window' = window' /\ Count' = count' /\ Refs(sps)' = 2 /\ PocType(sps)' = 2
             /\ pictures' \in Nat /\ WindowOK(Window, Count)' => EncoderInv'
  <2>1. Refs(sps)' = 2 /\ PocType(sps)' = 2
    BY <1>2, <1>3, SpsStays
  <2>2. Window' = window' /\ Count' = count'
    BY <1>3 DEF Window, Count
  <2>3. pictures' \in Nat /\ WindowOK(Window, Count)' => EncoderInv'
    BY <1>1, <1>3 DEF EncoderInv
  <2> QED
    BY <2>1, <2>2, <2>3
<1> QED
  BY <1>1, <1>2, <1>3

LEMMA OtherIdrWell ==
  ASSUME EncoderInv, OtherIdr
  PROVE  EncodesWell
<1>1. PICK idr, p, none, nobody, r, w, one :
        idr = TRUE /\ p = pictures + 1 /\ none = <<>> /\ nobody = {} /\ one = 1
        /\ r = [id |-> p, n |-> 0] /\ w = <<r>>
  OBVIOUS
<1>2. sps.by # "va" /\ sps' = sps /\ pictures' = p /\ window' = w /\ count' = one
      /\ Written(0, 0, idr, idr, 0, none, none, nobody)
  BY <1>1 DEF OtherIdr, Picture
<1>3. sps \in ParamSets /\ pictures \in Nat /\ Refs(sps) = 2 /\ PocType(sps) = 2
      /\ Window' = w /\ Count' = one /\ pictures' \in Nat /\ p \in Nat /\ p > 0
      /\ (WindowOK(Window, Count)' => EncoderInv')
  BY <1>1, <1>2, OtherIs
<1>4. UnitSays(0, 0, idr, idr, 0, none, none, nobody)
  <2>1. none \in Modifications /\ none \in Operations /\ idr \in Flags /\ nobody \in SUBSET Nat
        /\ 0 \in Nat
    BY <1>1 DEF Modifications, Operations, Flags
  <2>2. pictures' = pictures + 1
    BY <1>1, <1>2
  <2> QED
    BY <1>2, <1>3, <2>1, <2>2, Says
<1>5. /\ unit' \in Unit /\ unit'.id = pictures' /\ unit'.sps = sps' /\ unit' # NoUnit
      /\ unit'.idr = TRUE /\ unit'.ref = TRUE /\ unit'.frame_num = 0
      /\ unit'.mods = <<>> /\ unit'.mmcos = <<>> /\ unit'.unmarked = {} /\ unit'.poc = 0
      /\ unit'.lsb = 0
  BY <1>1, <1>3, <1>4, Zeroes DEF UnitSays
<1>6. WindowOK(Window, Count)'
  <2>1. r \in Ref /\ r.id = p /\ r.n = 0
    BY <1>1, <1>3 DEF Ref
  <2>2. w \in Seq(Ref) /\ Len(w) = 1 /\ w[1] = r
    BY <1>1, <2>1
  <2>3. \A k \in 1..Len(w) : w[k].id \in 1..p
    BY <1>3, <2>1, <2>2
  <2>4. \A j, k \in 1..Len(w) : j < k => w[j].id < w[k].id /\ w[j].n < w[k].n
    BY <2>2
  <2>5. Len(w) <= Refs(sps) /\ w[Len(w)].n = one - 1 /\ one \in Nat
    BY <1>1, <1>3, <2>1, <2>2
  <2> QED
    BY <1>2, <1>3, <2>2, <2>3, <2>4, <2>5, WindowNext
<1>7. Current(0)' = r
  BY <1>1, <1>2, <1>5 DEF Current
<1>8. MadeIdr'
  BY <1>1, <1>3, <1>5, <1>7 DEF MadeIdr
<1> QED
  BY <1>2, <1>3, <1>5, <1>6, <1>8 DEF EncodesWell, UnitInv

\* What is left to show of a picture that is no IDR.
LEMMA MadeWell ==
  ASSUME EncoderInv, sps.by # "va", sps' = sps, pictures' = pictures + 1, Distinct,
         NEW w, NEW c, w = window, c = count,
         unit' \in Unit, unit'.id = pictures', unit'.sps = sps', unit' # NoUnit,
         unit'.idr = FALSE, unit'.frame_num = c % MaxFrameNum, Named(w, c)',
         unit'.poc = IF unit'.ref THEN 2 * c ELSE 2 * c - 1, WindowOK(Window, Count)',
         IF unit'.ref THEN (Count' = c + 1 /\ Marked(w, c)') \/ Restarted'
         ELSE Count' = c /\ Window' = w /\ unit'.mmcos = <<>> /\ unit'.unmarked = {}
  PROVE  EncodesWell
<1>1. /\ sps \in ParamSets /\ pictures \in Nat /\ Window = w /\ Count = c
      /\ WindowOK(w, c) /\ PocType(sps)' = 2 /\ pictures' \in Nat
      /\ EncoderInv'
  BY OtherIs
<1>2. WindowOK(w, c)' /\ \A k \in 1..Len(w) : w[k].id < unit'.id
  BY <1>1, WindowStays
<1>3. w # <<>> /\ Len(w) > 0 /\ c - w[1].n < MaxFrameNum
  <2>1. w # <<>> /\ c - Head(w).n < MaxFrameNum /\ w \in Seq(Ref)
    BY <1>1 DEF Distinct, WindowOK
  <2>2. Head(w) = w[1] /\ Len(w) > 0
    BY <2>1
  <2> QED
    BY <2>1, <2>2
<1>4. MadeWith(w, c)'
  BY <1>1, <1>2, <1>3 DEF MadeWith
<1>5. UnitInv'
  BY <1>4 DEF UnitInv
<1> QED
  BY <1>1, <1>3, <1>4, <1>5 DEF EncodesWell

\* A reference is named by its distance, the last one not at all.
LEMMA ModsAre ==
  ASSUME WindowOK(window, count), NEW k \in 1..Len(window), pictures \in Nat, NEW d,
         d = count - window[k].n - 1
  PROVE  /\ Behind(window[k]) = d /\ d \in Nat /\ window[k].id \in Nat
         /\ Mods(window[k]) = IF k = Len(window) THEN <<>> ELSE <<[idc |-> 0, value |-> d]>>
         /\ Mods(window[k]) \in Modifications
<1>1. /\ window \in Seq(Ref) /\ count \in Nat /\ Len(window) \in 1..Len(window) /\ k \in Nat
      /\ \A i, j \in 1..Len(window) :
           i < j => window[i].id < window[j].id /\ window[i].n < window[j].n
      /\ window[Len(window)].n = count - 1
  BY DEF WindowOK
<1>2. window[k] \in Ref /\ window[k].n \in Nat /\ window[k].id \in Nat
      /\ window[Len(window)].n \in Nat
  <2>1. window[k] \in Ref /\ window[Len(window)] \in Ref
    BY <1>1
  <2> QED
    BY <2>1 DEF Ref
<1>3. Last(window) = window[Len(window)]
  BY DEF Last
<1>4. Behind(window[k]) = d
  BY DEF Behind
<1>5. CASE k = Len(window)
  <2>1. d = 0
    BY <1>1, <1>5
  <2>2. Mods(window[k]) = <<>>
    BY <1>3, <1>5 DEF Mods
  <2> QED
    BY <1>2, <1>4, <1>5, <2>1, <2>2 DEF Modifications
<1>6. CASE k # Len(window)
  <2>1. k < Len(window)
    BY <1>1, <1>6
  <2>2. window[k].n < count - 1
    BY <1>1, <2>1
  <2>3. window[k] # Last(window)
    BY <1>1, <1>2, <1>3, <2>2
  <2>4. d \in Nat
    BY <1>1, <1>2, <2>2
  <2>5. Mods(window[k]) = <<[idc |-> 0, value |-> d]>>
    BY <1>4, <2>3 DEF Mods
  <2>6. [idc |-> 0, value |-> d] \in Modification
    BY <2>4 DEF Modification
  <2>7. Mods(window[k]) \in Modifications
    BY <2>5, <2>6 DEF Modifications
  <2> QED
    BY <1>2, <1>4, <1>6, <2>4, <2>5, <2>7
<1> QED
  BY <1>5, <1>6

LEMMA OtherDisposableWell ==
  ASSUME EncoderInv, OtherDisposable
  PROVE  EncodesWell
<1>1. PICK k \in DOMAIN window :
        Written(count, 2 * count - 1, FALSE, FALSE, window[k].id, Mods(window[k]), <<>>, {})
  BY DEF OtherDisposable
<1>2. PICK w, c, order, no, from, mods, none, nobody :
        w = window /\ c = count /\ order = 2 * count - 1 /\ no = FALSE /\ from = window[k].id
        /\ mods = Mods(window[k]) /\ none = <<>> /\ nobody = {}
  OBVIOUS
<1>3. sps.by # "va" /\ sps' = sps /\ pictures' = pictures + 1 /\ window' = w /\ count' = c
      /\ Distinct /\ Written(c, order, no, no, from, mods, none, nobody)
  BY <1>1, <1>2 DEF OtherDisposable, Picture
<1>4. /\ sps \in ParamSets /\ pictures \in Nat /\ WindowOK(w, c) /\ PocType(sps) = 2
      /\ Window' = w /\ Count' = c /\ w \in Seq(Ref) /\ Len(w) <= Refs(sps) /\ c \in Nat
  BY <1>2, <1>3, OtherIs DEF WindowOK
<1>5. k \in 1..Len(w) /\ k \in 1..Len(window) /\ Len(w) > 0
  BY <1>2, <1>4
<1>6. /\ mods = IF k = Len(w) THEN <<>> ELSE <<[idc |-> 0, value |-> c - w[k].n - 1]>>
      /\ mods \in Modifications /\ from \in Nat /\ from = w[k].id
  BY <1>2, <1>4, <1>5, ModsAre
<1>7. order \in Nat
  <2>1. w[k] \in Ref /\ w[Len(w)] \in Ref /\ w[Len(w)].n = c - 1
    BY <1>4, <1>5 DEF WindowOK
  <2>2. c - 1 \in Nat
    BY <2>1 DEF Ref
  <2> QED
    BY <1>2, <1>4, <2>2
<1>8. UnitSays(c, order, no, no, from, mods, none, nobody)
  <2>1. none \in Operations /\ no \in Flags /\ nobody \in SUBSET Nat
    BY <1>2 DEF Operations, Flags
  <2> QED
    BY <1>3, <1>4, <1>6, <1>7, <2>1, Says
<1>9. /\ unit' \in Unit /\ unit'.id = pictures' /\ unit'.sps = sps' /\ unit' # NoUnit
      /\ unit'.idr = FALSE /\ unit'.ref = FALSE /\ unit'.frame_num = c % MaxFrameNum
      /\ unit'.from = from /\ unit'.mods = mods /\ unit'.mmcos = <<>> /\ unit'.unmarked = {}
      /\ unit'.poc = 2 * c - 1
  BY <1>2, <1>8 DEF UnitSays
<1>10. Named(w, c)'
  BY <1>5, <1>6, <1>9 DEF Named
<1>11. WindowOK(Window, Count)'
  <2>1. WindowOK(w, c)'
    BY <1>3, <1>4, WindowStays
  <2> QED
    BY <1>4, <2>1 DEF WindowOK
<1> QED
  BY <1>2, <1>3, <1>4, <1>9, <1>10, <1>11, MadeWell

\* The window with a new picture, and without one of the old ones.
LEMMA NewWindow ==
  ASSUME NEW w, NEW c, WindowOK(w, c), Len(w) > 0, sps \in ParamSets, sps' = sps,
         pictures \in Nat, NEW p, p = pictures + 1, pictures' = p, NEW r, r = [id |-> p, n |-> c],
         NEW v, v = Append(w, r), Count' = c + 1, Len(w) <= 2, Refs(sps) = 2,
         \/ Window' = v /\ Len(v) <= 2
         \/ \E k \in 1..Len(w) : Window' = RemoveAt(v, k)
  PROVE  WindowOK(Window, Count)'
<1>1. /\ v \in Seq(Ref) /\ Len(v) = Len(w) + 1 /\ w \in Seq(Ref) /\ c \in Nat
      /\ \A k \in 1..Len(v) : v[k].id \in 1..p
      /\ \A j, k \in 1..Len(v) : j < k => v[j].id < v[k].id /\ v[j].n < v[k].n
      /\ v[Len(v)] = r /\ r.n = c /\ p \in Nat /\ Len(w) \in Nat
  <2>1. r = [id |-> pictures + 1, n |-> c] /\ w \in Seq(Ref) /\ c \in Nat /\ Len(w) \in Nat
    BY DEF WindowOK
  <2> QED
    BY <2>1, Grows
<1>2. CASE Window' = v /\ Len(v) <= 2
  <2>1. PICK d : d = c + 1
    OBVIOUS
  <2>2. d \in Nat /\ v[Len(v)].n = d - 1 /\ Len(v) <= Refs(sps) /\ Window' = v /\ Count' = d
    BY <1>1, <1>2, <2>1
  <2>3. /\ v \in Seq(Ref) /\ \A k \in 1..Len(v) : v[k].id \in 1..p
        /\ \A j, k \in 1..Len(v) : j < k => v[j].id < v[k].id /\ v[j].n < v[k].n
    BY <1>1
  <2>4. sps' = sps /\ p \in Nat /\ pictures' = p
    BY <1>1
  <2> QED
    BY ONLY <2>2, <2>3, <2>4, WindowNext
<1>3. ASSUME NEW k \in 1..Len(w), Window' = RemoveAt(v, k)
      PROVE  WindowOK(Window, Count)'
  <2>1. k \in 1..Len(v) /\ k < Len(v)
    BY <1>1
  <2>2. PICK u, d : u = RemoveAt(v, k) /\ d = c + 1
    OBVIOUS
  <2>3. /\ u \in Seq(Ref) /\ Len(u) = Len(v) - 1 /\ u[Len(u)] = v[Len(v)]
        /\ \A i \in 1..Len(u) : u[i].id \in 1..p
        /\ \A i, j \in 1..Len(u) : i < j => u[i].id < u[j].id /\ u[i].n < u[j].n
    <3>1. v \in Seq(Ref) /\ p \in Nat /\ (\A i \in 1..Len(v) : v[i].id \in 1..p)
      BY <1>1
    <3>2. \A i, j \in 1..Len(v) : i < j => v[i].id < v[j].id /\ v[i].n < v[j].n
      BY <1>1
    <3> QED
      BY ONLY <2>1, <2>2, <3>1, <3>2, Shrinks
  <2>4. d \in Nat /\ u[Len(u)].n = d - 1 /\ Len(u) <= Refs(sps) /\ Window' = u /\ Count' = d
    BY <1>1, <1>3, <2>2, <2>3
  <2>5. sps' = sps /\ p \in Nat /\ pictures' = p
    BY <1>1
  <2> QED
    BY ONLY <2>3, <2>4, <2>5, WindowNext
<1> QED
  BY <1>2, <1>3

LEMMA OtherReferenceWell ==
  ASSUME EncoderInv, OtherReference
  PROVE  EncodesWell
<1>1. PICK k \in DOMAIN window :
        \/ /\ Written(count, 2 * count, FALSE, TRUE, window[k].id, Mods(window[k]), <<>>, {})
           /\ window' = With(window)
        \/ \E u \in DOMAIN window :
             /\ Written(count, 2 * count, FALSE, TRUE, window[k].id, Mods(window[k]),
                        <<[op |-> 1, difference_of_pic_nums_minus1 |-> Behind(window[u])]>>,
                        {window[u].id})
             /\ window' = With(RemoveAt(window, u))
  BY DEF OtherReference
<1>2. PICK w, c, order, no, yes, from, mods, none, nobody, p, r, v :
        w = window /\ c = count /\ order = 2 * count /\ no = FALSE /\ yes = TRUE
        /\ from = window[k].id /\ mods = Mods(window[k]) /\ none = <<>> /\ nobody = {}
        /\ p = pictures + 1 /\ r = [id |-> p, n |-> c] /\ v = Append(w, r)
  OBVIOUS
<1>3. sps.by # "va" /\ sps' = sps /\ pictures' = pictures + 1 /\ count' = c + 1 /\ Distinct
  BY <1>2 DEF OtherReference, Picture
<1>4. /\ sps \in ParamSets /\ pictures \in Nat /\ WindowOK(w, c) /\ PocType(sps) = 2
      /\ Window' = window' /\ Count' = c + 1 /\ w \in Seq(Ref) /\ Len(w) <= 2 /\ c \in Nat
      /\ Refs(sps) = 2 /\ Refs(sps)' = 2 /\ pictures' = p /\ Len(w) \in Nat
  <2>1. /\ sps \in ParamSets /\ pictures \in Nat /\ WindowOK(window, count)
        /\ Refs(sps) = 2 /\ PocType(sps) = 2
        /\ Window' = window' /\ Count' = count' /\ Refs(sps)' = 2
    BY ONLY EncoderInv, <1>3, OtherIs
  <2>2. /\ sps \in ParamSets /\ pictures \in Nat /\ WindowOK(w, c) /\ PocType(sps) = 2
        /\ Window' = window' /\ Count' = c + 1 /\ Refs(sps) = 2 /\ Refs(sps)' = 2
        /\ pictures' = p
    BY ONLY <1>2, <1>3, <2>1
  <2>3. w \in Seq(Ref) /\ c \in Nat /\ Len(w) <= Refs(sps)
    BY ONLY <2>2 DEF WindowOK
  <2>4. Len(w) \in Nat /\ Len(w) <= 2
    BY ONLY <2>2, <2>3
  <2> QED
    BY <2>2, <2>3, <2>4
<1>5. k \in 1..Len(w) /\ k \in 1..Len(window) /\ Len(w) > 0 /\ order \in Nat
  BY <1>2, <1>4
<1>6. /\ mods = IF k = Len(w) THEN <<>> ELSE <<[idc |-> 0, value |-> c - w[k].n - 1]>>
      /\ mods \in Modifications /\ from \in Nat /\ from = w[k].id
  BY <1>2, <1>4, <1>5, ModsAre
<1>7. r \in Ref /\ v \in Seq(Ref) /\ Len(v) = Len(w) + 1
  <2>1. r \in Ref
    BY <1>2, <1>4 DEF Ref
  <2> QED
    BY <1>2, <1>4, <2>1, AppendProperties
<1>8. CASE /\ Written(count, 2 * count, FALSE, TRUE, window[k].id, Mods(window[k]), <<>>, {})
           /\ window' = With(window)
  <2>1. UnitSays(c, order, no, yes, from, mods, none, nobody)
    <3>1. none \in Operations /\ no \in Flags /\ yes \in Flags /\ nobody \in SUBSET Nat
          /\ Written(c, order, no, yes, from, mods, none, nobody)
      BY <1>2, <1>8 DEF Operations, Flags
    <3> QED
      BY <1>3, <1>4, <1>5, <1>6, <3>1, Says
  <2>2. /\ unit' \in Unit /\ unit'.id = pictures' /\ unit'.sps = sps' /\ unit' # NoUnit
        /\ unit'.idr = FALSE /\ unit'.ref = TRUE /\ unit'.frame_num = c % MaxFrameNum
        /\ unit'.from = from /\ unit'.mods = mods /\ unit'.mmcos = <<>> /\ unit'.unmarked = {}
        /\ unit'.poc = 2 * c
    BY <1>2, <2>1 DEF UnitSays
  <2>3. Named(w, c)'
    BY <1>5, <1>6, <2>2 DEF Named
  <2>4. window' = IF Len(v) > 2 THEN Tail(v) ELSE v
    BY <1>2, <1>4, <1>8 DEF With
  <2>5. Current(c)' = r
    BY <1>2, <1>4, <2>2 DEF Current
  <2>6. Marked(w, c)'
    <3>1. Newest(v)' = IF Len(v) > 2 THEN Tail(v) ELSE v
      BY <1>4 DEF Newest
    <3>2. Newest(Append(w, Current(c)))' = Newest(v)'
      BY <1>2, <2>5
    <3> QED
      BY <1>4, <2>2, <2>4, <3>1, <3>2 DEF Marked
  <2>7. WindowOK(Window, Count)'
    <3>1. CASE Len(v) > 2
      <4>1. RemoveAt(v, 1) = Tail(v) /\ 1 \in 1..Len(w)
        BY <1>5, <1>7, <1>4, TailIs
      <4>2. \E j \in 1..Len(w) : Window' = RemoveAt(v, j)
        BY <1>4, <2>4, <3>1, <4>1
      <4> QED
        BY <1>2, <1>3, <1>4, <1>5, <4>2, NewWindow
    <3>2. CASE ~(Len(v) > 2)
      <4>1. Window' = v /\ Len(v) <= 2
        BY <1>4, <1>7, <2>4, <3>2
      <4> QED
        BY <1>2, <1>3, <1>4, <1>5, <4>1, NewWindow
    <3> QED
      BY <3>1, <3>2
  <2> QED
    BY <1>2, <1>3, <1>4, <2>2, <2>3, <2>6, <2>7, MadeWell
<1>9. ASSUME NEW u \in DOMAIN window,
             Written(count, 2 * count, FALSE, TRUE, window[k].id, Mods(window[k]),
                     <<[op |-> 1, difference_of_pic_nums_minus1 |-> Behind(window[u])]>>,
                     {window[u].id}),
             window' = With(RemoveAt(window, u))
      PROVE  EncodesWell
  <2>1. u \in 1..Len(w) /\ u \in 1..Len(window)
    BY <1>2, <1>4
  <2>2. PICK d, op, ops, ids :
          d = w[u].id /\ op = [op |-> 1, difference_of_pic_nums_minus1 |-> Behind(window[u])]
          /\ ops = <<op>> /\ ids = {d}
    OBVIOUS
  <2>3. Behind(window[u]) = c - w[u].n - 1 /\ Behind(window[u]) \in Nat /\ d \in Nat
    BY <1>2, <1>4, <2>1, <2>2, ModsAre
  <2>4. op \in Operation /\ ops \in Operations /\ ids \in SUBSET Nat
    BY <2>2, <2>3 DEF Operation, Operations
  <2>5. UnitSays(c, order, no, yes, from, mods, ops, ids)
    <3>1. no \in Flags /\ yes \in Flags /\ Written(c, order, no, yes, from, mods, ops, ids)
      BY <1>2, <1>9, <2>2 DEF Flags
    <3> QED
      BY <1>3, <1>4, <1>5, <1>6, <2>4, <3>1, Says
  <2>6. /\ unit' \in Unit /\ unit'.id = pictures' /\ unit'.sps = sps' /\ unit' # NoUnit
        /\ unit'.idr = FALSE /\ unit'.ref = TRUE /\ unit'.frame_num = c % MaxFrameNum
        /\ unit'.from = from /\ unit'.mods = mods /\ unit'.mmcos = ops /\ unit'.unmarked = ids
        /\ unit'.poc = 2 * c
    BY <1>2, <2>5 DEF UnitSays
  <2>7. Named(w, c)'
    BY <1>5, <1>6, <2>6 DEF Named
  <2>8. PICK x : x = RemoveAt(w, u)
    OBVIOUS
  <2>9. x \in Seq(Ref) /\ Len(x) = Len(w) - 1
    BY <1>4, <2>1, <2>8, RemoveAtIs
  <2>10. Len(Append(x, r)) = Len(x) + 1
    BY <1>7, <2>9, AppendProperties
  <2>11. window' = Append(x, r)
    <3>1. Len(Append(x, r)) <= 2
      BY <1>4, <2>9, <2>10
    <3>2. window' = IF Len(Append(x, r)) > 2 THEN Tail(Append(x, r)) ELSE Append(x, r)
      BY <1>2, <1>4, <1>9, <2>8 DEF With
    <3>3. ~(Len(Append(x, r)) > 2)
      BY <1>4, <2>9, <2>10, <3>1
    <3> QED
      BY <3>2, <3>3
  <2>12. Current(c)' = r
    BY <1>2, <1>4, <2>6 DEF Current
  <2>13. Marked(w, c)'
    BY <1>4, <2>1, <2>2, <2>3, <2>6, <2>8, <2>11, <2>12 DEF Marked
  <2>14. WindowOK(Window, Count)'
    <3>1. RemoveAt(v, u) = Append(x, r)
      BY <1>2, <1>4, <1>7, <2>1, <2>8, RemoveAppend
    <3>2. \E j \in 1..Len(w) : Window' = RemoveAt(v, j)
      BY <1>4, <2>1, <2>11, <3>1
    <3> QED
      BY <1>2, <1>3, <1>4, <1>5, <3>2, NewWindow
  <2> QED
    BY <1>2, <1>3, <1>4, <2>6, <2>7, <2>13, <2>14, MadeWell
<1> QED
  BY <1>1, <1>8, <1>9

LEMMA OtherResetWell ==
  ASSUME EncoderInv, OtherReset
  PROVE  EncodesWell
<1>1. PICK k \in DOMAIN window :
        Written(count, 2 * count, FALSE, TRUE, window[k].id, Mods(window[k]),
                <<[op |-> 5, difference_of_pic_nums_minus1 |-> 0]>>,
                {window[j].id : j \in DOMAIN window})
  BY DEF OtherReset
<1>2. PICK w, c, order, no, yes, from, mods, op, ops, ids, p, r, x, one :
        /\ w = window /\ c = count /\ order = 2 * count /\ no = FALSE /\ yes = TRUE
        /\ from = window[k].id /\ mods = Mods(window[k])
        /\ op = [op |-> 5, difference_of_pic_nums_minus1 |-> 0] /\ ops = <<op>>
        /\ ids = {window[j].id : j \in DOMAIN window}
        /\ p = pictures + 1 /\ r = [id |-> p, n |-> 0] /\ x = <<r>> /\ one = 1
  OBVIOUS
<1>3. sps.by # "va" /\ sps' = sps /\ pictures' = pictures + 1 /\ window' = x /\ count' = one
      /\ Distinct /\ Written(c, order, no, yes, from, mods, ops, ids)
  BY <1>1, <1>2 DEF OtherReset, Picture
<1>4. /\ sps \in ParamSets /\ pictures \in Nat /\ WindowOK(w, c) /\ PocType(sps) = 2
      /\ Window' = x /\ Count' = one /\ w \in Seq(Ref) /\ c \in Nat
      /\ Refs(sps) = 2 /\ PocType(sps)' = 2 /\ p \in Nat /\ p > 0 /\ pictures' = p
  <2>1. /\ sps \in ParamSets /\ pictures \in Nat /\ WindowOK(w, c) /\ PocType(sps) = 2
        /\ Window' = x /\ Count' = one /\ Refs(sps) = 2 /\ PocType(sps)' = 2 /\ pictures' = p
    BY <1>2, <1>3, OtherIs
  <2>2. w \in Seq(Ref) /\ c \in Nat
    BY <2>1 DEF WindowOK
  <2> QED
    BY <1>2, <2>1, <2>2
<1>5. k \in 1..Len(w) /\ k \in 1..Len(window) /\ order \in Nat
  BY <1>2, <1>4
<1>6. /\ mods = IF k = Len(w) THEN <<>> ELSE <<[idc |-> 0, value |-> c - w[k].n - 1]>>
      /\ mods \in Modifications /\ from \in Nat /\ from = w[k].id
  BY <1>2, <1>4, <1>5, ModsAre
<1>7. op \in Operation /\ ops \in Operations /\ ids \in SUBSET Nat
  <2>1. op \in Operation /\ ops \in Operations
    BY <1>2 DEF Operation, Operations
  <2>2. \A j \in 1..Len(w) : w[j].id \in Nat
    <3>1. \A j \in 1..Len(w) : w[j] \in Ref
      BY <1>4
    <3> QED
      BY <3>1 DEF Ref
  <2>3. DOMAIN window = 1..Len(w)
    BY <1>2, <1>4
  <2> QED
    BY <1>2, <2>1, <2>2, <2>3
<1>8. UnitSays(c, order, no, yes, from, mods, ops, ids)
  <2>1. no \in Flags /\ yes \in Flags
    BY <1>2 DEF Flags
  <2> QED
    BY <1>3, <1>4, <1>5, <1>6, <1>7, <2>1, Says
<1>9. /\ unit' \in Unit /\ unit'.id = pictures' /\ unit'.sps = sps' /\ unit' # NoUnit
      /\ unit'.idr = FALSE /\ unit'.ref = TRUE /\ unit'.frame_num = c % MaxFrameNum
      /\ unit'.from = from /\ unit'.mods = mods /\ unit'.mmcos = ops /\ unit'.unmarked = ids
      /\ unit'.poc = 2 * c
  BY <1>2, <1>8 DEF UnitSays
<1>10. Named(w, c)'
  BY <1>5, <1>6, <1>9 DEF Named
<1>11. Restarted'
  <2>1. Current(0)' = r
    BY <1>2, <1>4, <1>9 DEF Current
  <2> QED
    BY <1>2, <1>4, <1>9, <2>1 DEF Restarted
<1>12. WindowOK(Window, Count)'
  <2>1. r \in Ref /\ r.id = p /\ r.n = 0
    BY <1>2, <1>4 DEF Ref
  <2>2. x \in Seq(Ref) /\ Len(x) = 1 /\ x[1] = r
    BY <1>2, <2>1
  <2>3. \A j \in 1..Len(x) : x[j].id \in 1..p
    BY <1>4, <2>1, <2>2
  <2>4. \A i, j \in 1..Len(x) : i < j => x[i].id < x[j].id /\ x[i].n < x[j].n
    BY <2>2
  <2>5. Len(x) <= Refs(sps) /\ x[Len(x)].n = one - 1 /\ one \in Nat
    BY <1>2, <1>4, <2>1, <2>2
  <2> QED
    BY <1>3, <1>4, <2>2, <2>3, <2>4, <2>5, WindowNext
<1> QED
  BY <1>2, <1>3, <1>9, <1>10, <1>11, <1>12, MadeWell

LEMMA EncodeWell ==
  ASSUME EncoderInv, Encode
  PROVE  EncodesWell
<1>1. ASSUME NEW force \in BOOLEAN, Submit(force)
      PROVE  EncodesWell
  BY <1>1, SubmitWell
<1> QED
  BY <1>1, OtherIdrWell, OtherReferenceWell, OtherResetWell, OtherDisposableWell DEF Encode

-----------------------------------------------------------------------------
\* The ring: what is handed out stays busy until it is released.
RingSafe == RingInv /\ HeldUntouched

LEMMA RingStarts ==
  ASSUME PipelineInit
  PROVE  RingSafe
BY DEF PipelineInit, RingSafe, RingInv, HeldUntouched

\* Releases of the ring free nothing a live frame shows.
LEMMA StaysBusy ==
  ASSUME RingSafe, ~stalled, NEW f \in frames, f.ring = ring
  PROVE  f.index \in StillBusy
<1>1. f.index \in busy /\ \A r \in releases : r.ring = ring => r.index # f.index
  BY DEF RingSafe, RingInv
<1> QED
  BY <1>1 DEF StillBusy, MarkFree

LEMMA RingUnmoved ==
  ASSUME RingSafe, ring' = ring, frames' = frames, stalled' = stalled,
         \/ busy' = busy /\ releases' = releases
         \/ busy' = StillBusy /\ releases' = {}
  PROVE  RingSafe'
<1>1. busy' \subseteq busy /\ releases' \subseteq releases
  BY DEF StillBusy, MarkFree
<1>2. ASSUME ~stalled, NEW f \in frames, f.ring = ring
      PROVE  f.index \in busy' /\ \A r \in releases' : r.ring = ring => r.index # f.index
  BY <1>2, StaysBusy DEF RingSafe, RingInv
<1>3. RingInv'
  BY <1>1, <1>2 DEF RingSafe, RingInv
<1> QED
  BY <1>3 DEF RingSafe, HeldUntouched

LEMMA RingHandsOut ==
  ASSUME RingSafe, NEW picture, HandOut(picture), FreeOutputs # {}, ring' = ring,
         stalled' = stalled, releases' = {}
  PROVE  RingSafe'
<1>1. PICK i : i = Min(FreeOutputs)
  OBVIOUS
<1>2. PICK g : g = [ring |-> ring, index |-> i, picture |-> picture]
  OBVIOUS
<1>3. i \in 1..DisplayRing /\ i \notin StillBusy
  <2>1. FreeOutputs \in SUBSET Nat
    BY RingAssumption DEF FreeOutputs
  <2>2. i \in FreeOutputs
    BY <1>1, <2>1, MinIs
  <2> QED
    BY <2>2 DEF FreeOutputs
<1>4. busy' = StillBusy \cup {i} /\ frames' = frames \cup {g} /\ g.ring = ring /\ g.index = i
  BY <1>1, <1>2 DEF HandOut
<1>5. /\ ring \in Nat /\ busy \subseteq 1..DisplayRing /\ stalled \in BOOLEAN
      /\ \A f \in frames : f.ring \in 0..ring
      /\ stalled \/ \A f, h \in frames : f.ring = h.ring /\ f.index = h.index => f = h
  BY DEF RingSafe, RingInv, HeldUntouched
<1>6. ASSUME ~stalled, NEW f \in frames, f.ring = ring
      PROVE  f.index \in StillBusy /\ f.index # i
  BY <1>3, <1>6, StaysBusy
<1>7. RingInv'
  <2>1. StillBusy \subseteq busy
    BY DEF StillBusy, MarkFree
  <2>2. ring \in 0..ring
    BY <1>5
  <2>3. busy' \subseteq 1..DisplayRing /\ \A f \in frames' : f.ring \in 0..ring
    BY <1>3, <1>4, <1>5, <2>1, <2>2
  <2>4. stalled \/ \A f \in frames' : f.ring = ring => f.index \in busy'
    BY <1>4, <1>6
  <2> QED
    BY <1>5, <2>3, <2>4 DEF RingInv
<1>8. HeldUntouched'
  <2>1. ASSUME ~stalled, NEW f \in frames', NEW h \in frames', f.ring = h.ring, f.index = h.index
        PROVE  f = h
    BY <1>4, <1>5, <1>6, <2>1
  <2> QED
    BY <1>5, <2>1 DEF HeldUntouched
<1> QED
  BY <1>7, <1>8 DEF RingSafe

LEMMA RingZooms ==
  ASSUME RingSafe, Zoom
  PROVE  RingSafe'
<1>1. /\ ring \in Nat /\ stalled' = stalled /\ ring' = ring + 1 /\ stalled \in BOOLEAN
      /\ \A f \in frames : f.ring \in 0..ring
      /\ \A r \in releases : r.ring \in 0..ring
      /\ stalled \/ \A f, h \in frames : f.ring = h.ring /\ f.index = h.index => f = h
  BY DEF Zoom, RingSafe, RingInv, HeldUntouched
<1>2. 1 \in 1..DisplayRing
  BY RingAssumption
<1>3. \A n \in 0..ring : n \in 0..(ring + 1) /\ n # ring + 1
  BY <1>1
<1>4. CASE last_complete
  <2>1. PICK g : g = [ring |-> ring + 1, index |-> 1, picture |-> Show(dec, broken, forgotten)]
    OBVIOUS
  <2>2. busy' = {1} /\ releases' = {} /\ frames' = frames \cup {g} /\ g.ring = ring + 1
        /\ g.index = 1
    BY <1>4, <2>1 DEF Zoom
  <2>3. \A f \in frames' : f.ring \in 0..(ring + 1) /\ (f.ring = ring + 1 => f = g)
    BY <1>1, <1>3, <2>2
  <2>4. RingInv'
    BY <1>1, <1>2, <2>2, <2>3 DEF RingInv
  <2>5. ASSUME ~stalled, NEW f \in frames', NEW h \in frames', f.ring = h.ring, f.index = h.index
        PROVE  f = h
    <3>1. CASE f.ring = ring + 1
      BY <2>3, <2>5, <3>1
    <3>2. CASE f.ring # ring + 1
      <4>1. f \in frames /\ h \in frames
        BY <2>2, <2>5, <3>2
      <4> QED
        BY <1>1, <2>5, <4>1
    <3> QED
      BY <3>1, <3>2
  <2> QED
    BY <1>1, <2>4, <2>5 DEF RingSafe, HeldUntouched
<1>5. CASE ~last_complete
  <2>1. busy' = {} /\ releases' = releases /\ frames' = frames
    BY <1>5 DEF Zoom
  <2>2. RingInv'
    BY <1>1, <1>3, <2>1 DEF RingInv
  <2> QED
    BY <1>1, <2>1, <2>2 DEF RingSafe, HeldUntouched
<1> QED
  BY <1>4, <1>5

LEMMA RingDrops ==
  ASSUME RingSafe, NEW f \in frames, Drop(f)
  PROVE  RingSafe'
<1>1. PICK q : q = [ring |-> f.ring, index |-> f.index]
  OBVIOUS
<1>2. /\ frames' = frames \ {f} /\ releases' = releases \cup {q} /\ ring' = ring
      /\ busy' = busy /\ stalled' = stalled /\ q.ring = f.ring /\ q.index = f.index
  BY <1>1 DEF Drop
<1>3. \A r \in releases' : r.ring \in 0..ring
  BY <1>2 DEF RingSafe, RingInv
<1>4. ASSUME ~stalled, NEW g \in frames', g.ring = ring
      PROVE  g.index \in busy' /\ \A r \in releases' : r.ring = ring => r.index # g.index
  <2>1. g \in frames /\ g # f
    BY <1>2, <1>4
  <2>2. g.index \in busy /\ \A r \in releases : r.ring = ring => r.index # g.index
    BY <1>4, <2>1 DEF RingSafe, RingInv
  <2>3. f.ring = ring => f.index # g.index
    BY <1>4, <2>1 DEF RingSafe, HeldUntouched
  <2> QED
    BY <1>2, <2>2, <2>3
<1>5. RingInv'
  BY <1>2, <1>3, <1>4 DEF RingSafe, RingInv
<1> QED
  BY <1>2, <1>5 DEF RingSafe, HeldUntouched

LEMMA RingStays ==
  ASSUME RingSafe, [PipelineNext]_pipelineVars
  PROVE  RingSafe'
<1>1. CASE UNCHANGED pipeline
  BY <1>1, RingUnmoved DEF pipeline
<1>2. ASSUME NEW fault, DecodeUnit(fault)
      PROVE  RingSafe'
  <2>1. FreeOutputs # {} /\ ring' = ring /\ stalled' = stalled /\ releases' = {}
        /\ (NoFrame \/ \E picture : HandOut(picture))
    BY <1>2 DEF DecodeUnit
  <2>2. CASE NoFrame
    BY <2>1, <2>2, RingUnmoved DEF NoFrame
  <2> QED
    BY <2>1, <2>2, RingHandsOut
<1>3. CASE Stall
  <2>1. busy' \subseteq busy /\ stalled' = TRUE /\ ring' = ring /\ frames' = frames
        /\ releases' = {}
    BY <1>3 DEF Stall, StillBusy, MarkFree
  <2> QED
    BY <2>1 DEF RingSafe, RingInv, HeldUntouched
<1>4. CASE DecodeOne \/ Fault
  BY <1>2, <1>4 DEF DecodeOne, Fault
<1>5. CASE UNCHANGED pipelineVars
  BY <1>1, <1>5 DEF pipelineVars
<1> QED
  BY <1>1, <1>3, <1>4, <1>5, RingZooms, RingDrops DEF PipelineNext

\* HeldUntouched, of the ring of display images (gliff-vk/src/pipeline.rs).
THEOREM FramesAreHeld == PipelineSpec => []HeldUntouched
<1>1. PipelineInit => RingSafe
  BY RingStarts
<1>2. RingSafe /\ [PipelineNext]_pipelineVars => RingSafe'
  BY RingStays
<1>3. RingSafe => HeldUntouched
  BY DEF RingSafe
<1> QED
  BY <1>1, <1>2, <1>3, PTL DEF PipelineSpec

-----------------------------------------------------------------------------
\* The streams.  InStep does not depend on what a step of another part changes.
LEMMA InStepStays ==
  ASSUME NEW d, NEW w, NEW c, NEW g, sps' = sps
  PROVE  InStep(d, w, c, g)' <=> InStep(d, w, c, g)
<1>1. PocType(sps)' = PocType(sps)
  BY SpsStays
<1>2. Counts(d.poc, c)' <=> Counts(d.poc, c)
  BY <1>1 DEF Counts
<1> QED
  BY <1>2 DEF InStep

LEMMA InStepNow ==
  ASSUME NEW d, NEW w, NEW c, NEW g, InStep(d, w, c, g)'
  PROVE  \A s \in Streams : d = dec'[s] /\ g = forgotten' =>
           /\ InStep(dec[s], w, c, forgotten)'
           /\ w = Window' /\ c = Count' => InStep(dec[s], Window, Count, forgotten)'
BY DEF InStep, Counts

\* A decoder in step has the order counts the encoder gave.
LEMMA InStepOrder ==
  ASSUME NEW d, NEW w, NEW c, NEW g, InStep(d, w, c, g), NEW i \in D!Taken(d.slots)
  PROVE  d.slots[i].poc = d.slots[i].due
<1>1. PICK v, place : v = Kept(w, g) /\ Holds(d.slots, v, place)
  BY DEF InStep
<1>2. PICK k \in 1..Len(v) : place[k] = i
  BY <1>1 DEF Holds
<1> QED
  BY <1>1, <1>2 DEF Holds, Is

\* One stream's part of a decode.
LEMMA StreamDecodes ==
  ASSUME NEW d, DecoderOK(d), EncoderInv, UnitInv, unit # NoUnit, NEW g, unit.id \notin g,
         NEW b, ~b => MadeIdr \/ \E w, c : MadeWith(w, c) /\ InStep(d, w, c, g),
         NEW fault, NEW result,
         result = D!Decode(d, unit, Refs(unit.sps), PocType(unit.sps), fault)
  PROVE  /\ result.ok \in BOOLEAN /\ DecoderOK(result.d)
         /\ result.ok => result.d.last_output # D!Free /\ result.d.last_output.id = unit.id
         /\ result.ok /\ (~b \/ unit.idr) =>
              /\ InStep(result.d, Window, Count, Forgets(g))
              /\ g = {} \/ unit.idr => result.d.last_output.good
<1>1. unit \in Unit /\ unit.sps = sps /\ sps \in ParamSets
      /\ (MadeIdr \/ \E w, c : MadeWith(w, c))
  BY DEF UnitInv, EncoderInv
<1>2. /\ result.ok \in BOOLEAN /\ DecoderOK(result.d)
      /\ result.ok => result.d.last_output # D!Free /\ result.d.last_output.id = unit.id
  BY <1>1, DecodeTyped
<1>3. ASSUME result.ok, ~b \/ unit.idr
      PROVE  /\ InStep(result.d, Window, Count, Forgets(g))
             /\ g = {} \/ unit.idr => result.d.last_output.good
  <2>1. unit.idr => MadeIdr
    BY <1>1 DEF MadeWith
  <2>2. MadeIdr \/ \E w, c : MadeWith(w, c) /\ InStep(d, w, c, g)
    BY <1>3, <2>1
  <2> QED
    BY <1>1, <1>3, <2>2, Decodes
<1> QED
  BY <1>2, <1>3

\* The invariant of the streams.
StreamsInv ==
  EncoderInv /\ UnitInv /\ ForgottenInv /\ DecodersInv /\ ShowsWhatWasSent /\ OrderRecovered

LEMMA StreamsStart ==
  ASSUME PipelineInit
  PROVE  StreamsInv
<1>1. Window = <<>> /\ Count = 0 /\ sps \in ParamSets /\ pictures = 0 /\ unit = NoUnit
      /\ started = FALSE /\ slots = [i \in 0..1 |-> NoPicture]
  BY DEF PipelineInit, EncoderInit, Window, Count
<1>2. EncoderInv
  <2>1. WindowOK(Window, Count)
    BY <1>1, EmptyOK
  <2>2. slots \in [0..1 -> [id : Nat, frame_num : Nat]]
    BY <1>1 DEF NoPicture
  <2> QED
    BY <1>1, <2>1, <2>2 DEF EncoderInv
<1>3. D!New \in Decoder /\ D!New.open = FALSE
  <2>1. D!Free \in Slot /\ D!ZeroPoc \in PocState /\ <<>> \in Seq(Slot)
    BY DEF Slot, D!ZeroPoc, PocState
  <2> QED
    BY <2>1 DEF D!New, Decoder
<1>4. DecodersInv /\ ShowsWhatWasSent /\ OrderRecovered
  <2>1. dec = [s \in Streams |-> D!New] /\ broken = [s \in Streams |-> TRUE]
        /\ last_complete = FALSE /\ frames = {}
    BY DEF PipelineInit
  <2>2. \A s \in Streams : DecoderOK(dec[s]) /\ broken[s] = TRUE
    BY <1>3, <2>1 DEF DecoderOK
  <2>3. dec \in [Streams -> Decoder] /\ broken \in [Streams -> BOOLEAN]
    BY <1>3, <2>1
  <2> QED
    BY <2>1, <2>2, <2>3 DEF DecodersInv, ShowsWhatWasSent, OrderRecovered
<1>5. ForgottenInv
  BY <1>1 DEF PipelineInit, ForgottenInv
<1> QED
  BY <1>1, <1>2, <1>4, <1>5 DEF StreamsInv, UnitInv

\* Steps that leave the decoders alone.
LEMMA DecodersStay ==
  ASSUME StreamsInv, dec' = dec, broken' = broken, forgotten' = forgotten,
         last_complete' = last_complete, frames' = frames, \A s \in Streams : Following(s) => Following(s)'
  PROVE  DecodersInv' /\ ShowsWhatWasSent' /\ OrderRecovered'
<1>1. /\ dec \in [Streams -> Decoder] /\ broken \in [Streams -> BOOLEAN]
      /\ last_complete \in BOOLEAN
      /\ \A s \in Streams : DecoderOK(dec[s]) /\ (~broken[s] => Following(s))
      /\ last_complete =>
           /\ dec["main"].last_output.id = dec["aux"].last_output.id
           /\ \A s \in Streams :
                /\ dec[s].last_output # D!Free
                /\ \/ broken[s] \/ forgotten \ {dec["main"].last_output.id} # {}
                   \/ dec[s].last_output.good
  BY DEF StreamsInv, DecodersInv
<1>2. \A s \in Streams : DecoderOK(dec[s])'
  BY <1>1 DEF DecoderOK, Decoder, Slot, PocState, Refs, SpsOf
<1>3. (Decoder)' = Decoder
  BY DEF Decoder, Slot, PocState
<1>4. DecodersInv'
  BY <1>1, <1>2, <1>3 DEF DecodersInv
<1> QED
  BY <1>4 DEF StreamsInv, ShowsWhatWasSent, OrderRecovered

LEMMA EncoderRests ==
  ASSUME StreamsInv, UNCHANGED <<encoder, unit>>
  PROVE  /\ EncoderInv' /\ UnitInv' /\ sps' = sps /\ Window' = Window /\ Count' = Count
         /\ (MadeIdr' <=> MadeIdr) /\ \A w, c : MadeWith(w, c)' <=> MadeWith(w, c)
<1>1. /\ sps' = sps /\ slots' = slots /\ current_ref' = current_ref /\ frame_num' = frame_num
      /\ poc' = poc /\ started' = started /\ window' = window /\ count' = count
      /\ pictures' = pictures /\ unit' = unit
  BY DEF encoder
<1>2. Window' = Window /\ Count' = Count
  BY <1>1 DEF Window, Count
<1>3. Refs(sps)' = Refs(sps) /\ PocType(sps)' = PocType(sps)
  BY <1>1, SpsStays
<1>4. ASSUME NEW w, NEW c
      PROVE  WindowOK(w, c)' <=> WindowOK(w, c)
  BY <1>1, <1>3 DEF WindowOK, Ref
<1>5. EncoderInv'
  <2>1. WindowOK(Window, Count)'
    <3>1. PICK w, c : w = Window /\ c = Count
      OBVIOUS
    <3>2. WindowOK(w, c)'
      BY <1>4, <3>1 DEF StreamsInv, EncoderInv
    <3> QED
      BY <1>2, <3>1, <3>2 DEF WindowOK
  <2> QED
    BY <1>1, <2>1 DEF StreamsInv, EncoderInv
<1>6. MadeIdr' <=> MadeIdr
  BY <1>1, <1>2 DEF MadeIdr, Current
<1>7. ASSUME NEW w, NEW c
      PROVE  MadeWith(w, c)' <=> MadeWith(w, c)
  <2>1. Named(w, c)' <=> Named(w, c)
    BY <1>1 DEF Named
  <2>2. Marked(w, c)' <=> Marked(w, c)
    BY <1>1, <1>2, <1>3 DEF Marked, Newest, Current
  <2>3. Restarted' <=> Restarted
    BY <1>1, <1>2, <1>3 DEF Restarted, Current
  <2> QED
    BY <1>1, <1>2, <1>3, <1>4, <2>1, <2>2, <2>3 DEF MadeWith
<1>8. UnitInv'
  BY <1>1, <1>6, <1>7 DEF StreamsInv, UnitInv, Unit
<1> QED
  BY <1>1, <1>2, <1>5, <1>6, <1>7, <1>8

LEMMA FollowingRests ==
  ASSUME StreamsInv, UNCHANGED <<encoder, unit>>, dec' = dec, forgotten' = forgotten,
         NEW s \in Streams, Following(s)
  PROVE  Following(s)'
<1>1. /\ sps' = sps /\ Window' = Window /\ Count' = Count /\ unit' = unit
      /\ (MadeIdr' <=> MadeIdr) /\ \A w, c : MadeWith(w, c)' <=> MadeWith(w, c)
  BY EncoderRests
<1>2. CASE unit = NoUnit
  <2>1. Window = <<>> \/ InStep(dec[s], Window, Count, forgotten)
    BY <1>2 DEF Following
  <2>2. PICK d, w, c, g : d = dec[s] /\ w = Window /\ c = Count /\ g = forgotten
    OBVIOUS
  <2>3. w = <<>> \/ InStep(d, w, c, g)'
    BY <1>1, <2>1, <2>2, InStepStays
  <2>4. d = dec'[s] /\ w = Window' /\ c = Count' /\ g = forgotten'
    BY <1>1, <2>2
  <2> QED
    BY <1>1, <1>2, <2>3, <2>4, InStepNow DEF Following
<1>3. CASE unit # NoUnit
  <2>1. MadeIdr \/ \E w, c : MadeWith(w, c) /\ InStep(dec[s], w, c, forgotten)
    BY <1>3 DEF Following
  <2>2. ASSUME NEW w, NEW c, MadeWith(w, c), InStep(dec[s], w, c, forgotten)
        PROVE  Following(s)'
    <3>1. PICK d, g : d = dec[s] /\ g = forgotten
      OBVIOUS
    <3>2. InStep(d, w, c, g)'
      BY <1>1, <2>2, <3>1, InStepStays
    <3>3. MadeWith(w, c)' /\ InStep(dec[s], w, c, forgotten)'
      BY <1>1, <2>2, <3>1, <3>2, InStepNow
    <3> QED
      BY <1>1, <1>3, <3>3 DEF Following
  <2> QED
    BY <1>1, <1>3, <2>1, <2>2 DEF Following
<1> QED
  BY <1>2, <1>3

LEMMA EncodeStays ==
  ASSUME StreamsInv, Encode, UNCHANGED pipeline
  PROVE  StreamsInv'
<1>1. EncodesWell
  BY EncodeWell DEF StreamsInv
<1>2. unit = NoUnit
  BY DEF Encode, Submit, OtherIdr, OtherReference, OtherReset, OtherDisposable, Picture
<1>3. /\ dec' = dec /\ broken' = broken /\ last_complete' = last_complete /\ frames' = frames
      /\ sps' = sps /\ unit' # NoUnit /\ forgotten' = forgotten
  BY <1>1 DEF pipeline, history, EncodesWell
<1>4. ASSUME NEW s \in Streams, Following(s)
      PROVE  Following(s)'
  <2>1. CASE MadeIdr'
    BY <1>3, <2>1 DEF Following
  <2>2. ASSUME Window # <<>>, NEW w, NEW c, w = Window, c = Count, MadeWith(w, c)'
        PROVE  Following(s)'
    <3>1. PICK d, g : d = dec[s] /\ g = forgotten
      OBVIOUS
    <3>2. InStep(d, w, c, g)
      BY <1>2, <1>4, <2>2, <3>1 DEF Following
    <3>3. InStep(d, w, c, g)'
      BY <1>3, <3>2, InStepStays
    <3>4. MadeWith(w, c)' /\ InStep(dec[s], w, c, forgotten)'
      BY <1>3, <2>2, <3>1, <3>3, InStepNow
    <3> QED
      BY <1>3, <3>4 DEF Following
  <2> QED
    BY <1>1, <2>1, <2>2 DEF EncodesWell
<1>5. ForgottenInv'
  <2>1. pictures' = pictures + 1 /\ pictures \in Nat /\ forgotten \subseteq 1..pictures
    BY DEF Encode, Submit, OtherIdr, OtherReference, OtherReset, OtherDisposable, Picture,
           StreamsInv, EncoderInv, ForgottenInv
  <2>2. unit'.id = pictures'
    BY <1>1, <1>3 DEF EncodesWell, UnitInv
  <2>3. \A i \in 1..pictures : i \in 1..(pictures + 1) /\ i # pictures + 1
    BY <2>1
  <2> QED
    BY <1>3, <2>1, <2>2, <2>3 DEF ForgottenInv
<1> QED
  BY <1>1, <1>3, <1>4, <1>5, DecodersStay DEF EncodesWell, StreamsInv

LEMMA StartStays ==
  ASSUME StreamsInv, Start, UNCHANGED pipeline
  PROVE  StreamsInv'
<1>1. /\ unit = NoUnit /\ unit' = NoUnit /\ sps' \in ParamSets /\ pictures' = pictures
      /\ slots' = [i \in 0..1 |-> NoPicture] /\ poc' = 0 /\ started' = FALSE
      /\ window' = <<>> /\ count' = 0 /\ pictures \in Nat
      /\ dec' = dec /\ broken' = broken /\ last_complete' = last_complete /\ frames' = frames
      /\ forgotten' = forgotten
  BY DEF Start, pipeline, history, StreamsInv, EncoderInv
<1>2. Window' = <<>> /\ Count' = 0
  BY <1>1 DEF Window, Count
<1>3. EncoderInv'
  <2>1. Refs(sps)' \in {1, 2}
    <3>1. PICK p \in ParamSets : p = sps'
      BY <1>1
    <3>2. Refs(p) \in {1, 2} /\ Refs(sps)' = Refs(p)
      BY <3>1, SpsIs DEF Refs, SpsOf
    <3> QED
      BY <3>2
  <2>2. PICK w : w = <<>>
    OBVIOUS
  <2>3. w \in Seq(Ref) /\ Len(w) = 0
    BY <2>2
  <2>4. WindowOK(Window, Count)'
    BY <1>2, <2>1, <2>2, <2>3 DEF WindowOK, Ref
  <2>5. slots' \in [0..1 -> [id : Nat, frame_num : Nat]]
    BY <1>1 DEF NoPicture
  <2> QED
    BY <1>1, <2>4, <2>5 DEF EncoderInv
<1>4. UnitInv' /\ ForgottenInv' /\ \A s \in Streams : Following(s)'
  BY <1>1, <1>2 DEF UnitInv, Following, ForgottenInv, StreamsInv
<1> QED
  BY <1>1, <1>3, <1>4, DecodersStay DEF StreamsInv

LEMMA ZoomStays ==
  ASSUME StreamsInv, Zoom
  PROVE  StreamsInv'
<1>1. /\ UNCHANGED <<encoder, unit>> /\ dec' = dec /\ broken' = broken
      /\ last_complete' = last_complete /\ forgotten' = forgotten
      /\ dec \in [Streams -> Decoder] /\ broken \in [Streams -> BOOLEAN]
  BY DEF Zoom, history, StreamsInv, DecodersInv
<1>2. EncoderInv' /\ UnitInv' /\ ForgottenInv'
  <2>1. pictures' = pictures /\ unit' = unit
    BY <1>1 DEF encoder
  <2>2. ForgottenInv'
    BY <1>1, <2>1 DEF StreamsInv, ForgottenInv
  <2> QED
    BY <1>1, <2>2, EncoderRests
<1>3. DecodersInv' /\ OrderRecovered'
  <2>1. /\ \A s \in Streams : Following(s) => Following(s)'
        /\ \A s \in Streams : DecoderOK(dec[s]) /\ (~broken[s] => Following(s))
    BY <1>1, FollowingRests DEF StreamsInv, DecodersInv
  <2>2. (Decoder)' = Decoder /\ \A s \in Streams : DecoderOK(dec[s])'
    BY <1>1, <2>1 DEF DecoderOK, Decoder, Slot, PocState, Refs, SpsOf
  <2>3. DecodersInv'
    BY <1>1, <2>1, <2>2 DEF StreamsInv, DecodersInv
  <2> QED
    BY <1>1, <2>3 DEF StreamsInv, OrderRecovered
<1>4. ShowsWhatWasSent'
  <2>1. CASE frames' = frames
    BY <2>1 DEF StreamsInv, ShowsWhatWasSent
  <2>2. CASE frames' # frames
    <3>1. last_complete
      BY <2>2 DEF Zoom
    <3>2. PICK g : g = [ring |-> ring + 1, index |-> 1, picture |-> Show(dec, broken, forgotten)]
      OBVIOUS
    <3>3. frames' = frames \cup {g} /\ g.picture = Show(dec, broken, forgotten)
      BY <3>1, <3>2 DEF Zoom
    <3>4. /\ dec["main"].last_output.id = dec["aux"].last_output.id
          /\ \A s \in Streams : \/ broken[s] \/ forgotten \ {dec["main"].last_output.id} # {}
                                \/ dec[s].last_output.good
      BY <3>1 DEF StreamsInv, DecodersInv
    <3>5. g.picture.main = g.picture.aux /\ (g.picture.exact \/ g.picture.excused)
      <4>1. PICK p : p = Show(dec, broken, forgotten)
        OBVIOUS
      <4>2. p.main = p.aux /\ (p.exact \/ p.excused)
        BY <3>4, <4>1 DEF Show
      <4> QED
        BY <3>3, <4>1, <4>2
    <3> QED
      BY <3>3, <3>5 DEF StreamsInv, ShowsWhatWasSent
  <2> QED
    BY <2>1, <2>2
<1> QED
  BY <1>2, <1>3, <1>4 DEF StreamsInv

LEMMA DecodeStays ==
  ASSUME StreamsInv, NEW fault, DecodeUnit(fault)
  PROVE  StreamsInv'
<1>1. PICK main, aux :
        /\ main = D!Decode(dec["main"], unit, Refs(unit.sps), PocType(unit.sps), fault["main"])
        /\ aux = D!Decode(dec["aux"], unit, Refs(unit.sps), PocType(unit.sps), fault["aux"])
  OBVIOUS
<1>2. PICK after, ok :
        /\ after = [dec EXCEPT !["main"] = main.d, !["aux"] = IF main.ok THEN aux.d ELSE @]
        /\ ok = [s \in Streams |-> main.ok /\ (s = "main" \/ aux.ok)]
  OBVIOUS
<1>3. /\ unit # NoUnit /\ unit' = NoUnit /\ dec' = after
      /\ last_complete' = Complete(ok["aux"], ~fault.recombine)
      /\ broken' = [s \in Streams |-> ~ok[s] \/ (broken[s] /\ ~unit.idr)]
      /\ forgotten' = Forgets(forgotten)
      /\ IF ok["aux"] /\ ~fault.recombine THEN HandOut(Show(after, broken', forgotten'))
         ELSE NoFrame
      /\ UNCHANGED encoder
  BY <1>1, <1>2 DEF DecodeUnit
<1>4. /\ dec \in [Streams -> Decoder] /\ broken \in [Streams -> BOOLEAN]
      /\ \A s \in Streams : DecoderOK(dec[s]) /\ (~broken[s] => Following(s))
      /\ "main" \in Streams /\ "aux" \in Streams
      /\ \A s \in Streams : s = "main" \/ s = "aux"
  BY DEF StreamsInv, DecodersInv, Streams
<1>5. /\ sps' = sps /\ Window' = Window /\ Count' = Count /\ EncoderInv'
  <2>1. /\ slots' = slots /\ current_ref' = current_ref /\ frame_num' = frame_num
        /\ poc' = poc /\ started' = started /\ window' = window /\ count' = count
        /\ pictures' = pictures /\ sps' = sps
    BY <1>3 DEF encoder
  <2>2. Window' = Window /\ Count' = Count
    BY <2>1 DEF Window, Count
  <2>3. Refs(sps)' = Refs(sps)
    BY <2>1, SpsStays
  <2>4. WindowOK(Window, Count)'
    BY <2>1, <2>2, <2>3 DEF StreamsInv, EncoderInv, WindowOK, Ref
  <2> QED
    BY <2>1, <2>2, <2>4 DEF StreamsInv, EncoderInv
<1>6. ASSUME NEW s \in Streams, ~broken[s]
      PROVE  MadeIdr \/ \E w, c : MadeWith(w, c) /\ InStep(dec[s], w, c, forgotten)
  BY <1>3, <1>4, <1>6 DEF Following
<1>a. unit.id \notin forgotten /\ unit.id \in 1..pictures /\ forgotten \subseteq 1..pictures
  <2>1. unit \in Unit /\ unit.id = pictures /\ pictures \in Nat
    BY <1>3 DEF StreamsInv, UnitInv, EncoderInv
  <2>2. unit.id \in Nat \ {0}
    BY <2>1 DEF Unit
  <2> QED
    BY <1>3, <2>1, <2>2 DEF StreamsInv, ForgottenInv
<1>b. forgotten' \ {unit.id} = {} => forgotten = {} \/ unit.idr
  BY <1>3, <1>a DEF Forgets
<1>7. /\ main.ok \in BOOLEAN /\ DecoderOK(main.d)
      /\ main.ok => main.d.last_output # D!Free /\ main.d.last_output.id = unit.id
      /\ main.ok /\ (~broken["main"] \/ unit.idr) =>
           /\ InStep(main.d, Window, Count, forgotten')
           /\ forgotten = {} \/ unit.idr => main.d.last_output.good
  BY <1>1, <1>3, <1>4, <1>6, <1>a, StreamDecodes DEF StreamsInv
<1>8. /\ aux.ok \in BOOLEAN /\ DecoderOK(aux.d)
      /\ aux.ok => aux.d.last_output # D!Free /\ aux.d.last_output.id = unit.id
      /\ aux.ok /\ (~broken["aux"] \/ unit.idr) =>
           /\ InStep(aux.d, Window, Count, forgotten')
           /\ forgotten = {} \/ unit.idr => aux.d.last_output.good
  BY <1>1, <1>3, <1>4, <1>6, <1>a, StreamDecodes DEF StreamsInv
<1>9. /\ after \in [Streams -> Decoder] /\ after["main"] = main.d
      /\ after["aux"] = IF main.ok THEN aux.d ELSE dec["aux"]
  BY <1>2, <1>4, <1>7, <1>8 DEF DecoderOK, Streams
<1>10. /\ ok["main"] = main.ok /\ ok["aux"] = (main.ok /\ aux.ok)
       /\ broken' \in [Streams -> BOOLEAN]
       /\ broken'["main"] = (~main.ok \/ (broken["main"] /\ ~unit.idr))
       /\ broken'["aux"] = (~(main.ok /\ aux.ok) \/ (broken["aux"] /\ ~unit.idr))
  <2>1. ok["main"] = main.ok /\ ok["aux"] = (main.ok /\ aux.ok)
    BY <1>2, <1>7, <1>8 DEF Streams
  <2>2. broken' \in [Streams -> BOOLEAN]
    BY <1>3
  <2>3. /\ broken'["main"] = (~ok["main"] \/ (broken["main"] /\ ~unit.idr))
        /\ broken'["aux"] = (~ok["aux"] \/ (broken["aux"] /\ ~unit.idr))
    BY <1>3, <1>4
  <2> QED
    BY <2>1, <2>2, <2>3
<1>11. ASSUME NEW s \in Streams
       PROVE  /\ DecoderOK(after[s])
              /\ ~broken'[s] =>
                   /\ InStep(after[s], Window, Count, forgotten')
                   /\ forgotten = {} \/ unit.idr => after[s].last_output.good
  <2>1. CASE s = "main"
    BY <1>4, <1>7, <1>9, <1>10, <2>1
  <2>2. CASE s = "aux"
    BY <1>4, <1>7, <1>8, <1>9, <1>10, <2>2
  <2> QED
    BY <1>4, <2>1, <2>2
<1>12. last_complete' =>
         /\ after["main"].last_output.id = unit.id /\ after["aux"].last_output.id = unit.id
         /\ after["main"].last_output # D!Free /\ after["aux"].last_output # D!Free
  BY <1>3, <1>7, <1>8, <1>9, <1>10 DEF Complete
<1>13. DecodersInv'
  <2>1. (Decoder)' = Decoder /\ \A s \in Streams : DecoderOK(dec[s])'
    BY <1>3, <1>11 DEF DecoderOK, Decoder, Slot, PocState, Refs, SpsOf
  <2>2. ASSUME NEW s \in Streams, ~broken'[s]
        PROVE  Following(s)'
    <3>1. PICK d, w, c, g : d = after[s] /\ w = Window /\ c = Count /\ g = forgotten'
      OBVIOUS
    <3>2. InStep(d, w, c, g)'
      BY <1>5, <1>11, <2>2, <3>1, InStepStays
    <3>3. d = dec'[s] /\ w = Window' /\ c = Count'
      BY <1>3, <1>5, <3>1
    <3> QED
      BY <1>3, <3>1, <3>2, <3>3, InStepNow DEF Following
  <2>3. last_complete' \in BOOLEAN
    BY <1>3 DEF Complete
  <2>4. last_complete' => \A s \in Streams :
          \/ broken'[s] \/ forgotten' \ {after["main"].last_output.id} # {}
          \/ after[s].last_output.good
    BY <1>11, <1>12, <1>b
  <2> QED
    BY <1>3, <1>4, <1>9, <1>10, <1>11, <1>12, <2>1, <2>2, <2>3, <2>4 DEF DecodersInv
<1>14. OrderRecovered'
  <2>1. ASSUME NEW s \in Streams, ~broken'[s], NEW i \in D!Taken(after[s].slots)
        PROVE  after[s].slots[i].poc = after[s].slots[i].due
    <3>1. PICK d, w, c, g : d = after[s] /\ w = Window /\ c = Count /\ g = forgotten'
      OBVIOUS
    <3> QED
      BY <1>11, <2>1, <3>1, InStepOrder
  <2> QED
    BY <1>3, <2>1 DEF OrderRecovered
<1>15. ShowsWhatWasSent'
  <2>1. CASE ~(ok["aux"] /\ ~fault.recombine)
    BY <1>3, <2>1 DEF NoFrame, StreamsInv, ShowsWhatWasSent
  <2>2. CASE ok["aux"] /\ ~fault.recombine
    <3>1. last_complete'
      BY <1>3, <2>2 DEF Complete
    <3>2. PICK p : p = Show(after, broken', forgotten')
      OBVIOUS
    <3>3. p.main = p.aux /\ (p.exact \/ p.excused)
      BY <1>11, <1>12, <1>b, <3>1, <3>2 DEF Show
    <3>4. HandOut(p)
      BY <1>3, <2>2, <3>2
    <3>5. PICK g : g = [ring |-> ring, index |-> Min(FreeOutputs), picture |-> p]
      OBVIOUS
    <3>6. frames' = frames \cup {g} /\ g.picture = p
      BY <3>4, <3>5 DEF HandOut
    <3> QED
      BY <3>3, <3>6 DEF StreamsInv, ShowsWhatWasSent
  <2> QED
    BY <2>1, <2>2
<1>16. ForgottenInv'
  <2>1. pictures' = pictures
    BY <1>3 DEF encoder
  <2>2. forgotten' \subseteq 1..pictures
    BY <1>3, <1>a DEF Forgets
  <2> QED
    BY <1>3, <2>1, <2>2 DEF ForgottenInv
<1> QED
  BY <1>3, <1>5, <1>13, <1>14, <1>15, <1>16 DEF StreamsInv, UnitInv

LEMMA StreamsStay ==
  ASSUME StreamsInv, [PipelineNext]_pipelineVars
  PROVE  StreamsInv'
<1>1. CASE \/ UNCHANGED pipelineVars \/ Stall \/ \E f \in frames : Drop(f)
  <2>1. /\ UNCHANGED <<encoder, unit>> /\ dec' = dec /\ broken' = broken
        /\ last_complete' = last_complete /\ frames' \subseteq frames
        /\ forgotten' = forgotten
    BY <1>1 DEF pipelineVars, pipeline, history, Stall, Drop
  <2>2. ASSUME NEW s \in Streams, Following(s)
        PROVE  Following(s)'
    BY <2>1, <2>2, FollowingRests
  <2>3. EncoderInv' /\ UnitInv' /\ ForgottenInv'
    <3>1. pictures' = pictures /\ unit' = unit
      BY <2>1 DEF encoder
    <3>2. ForgottenInv'
      BY <2>1, <3>1 DEF StreamsInv, ForgottenInv
    <3> QED
      BY <2>1, <3>2, EncoderRests
  <2>4. DecodersInv' /\ OrderRecovered'
    <3>1. (Decoder)' = Decoder /\ \A s \in Streams : DecoderOK(dec[s])'
      BY <2>1 DEF StreamsInv, DecodersInv, DecoderOK, Decoder, Slot, PocState, Refs, SpsOf
    <3>2. DecodersInv'
      BY <2>1, <2>2, <3>1 DEF StreamsInv, DecodersInv
    <3> QED
      BY <2>1, <3>2 DEF StreamsInv, OrderRecovered
  <2>5. ShowsWhatWasSent'
    BY <2>1 DEF StreamsInv, ShowsWhatWasSent
  <2> QED
    BY <2>3, <2>4, <2>5 DEF StreamsInv
<1>2. CASE DecodeOne \/ Fault
  BY <1>2, DecodeStays DEF DecodeOne, Fault
<1> QED
  BY <1>1, <1>2, EncodeStays, StartStays, ZoomStays DEF PipelineNext

\* ShowsWhatWasSent: every frame is one picture of both streams, predicted from
\* the reference its encoder used, but after a failed decode or the picture of an
\* operation 5, until the next IDR (H264Decoder and Decoder of gliff-vk).
THEOREM PicturesAreExact == PipelineSpec => []ShowsWhatWasSent
<1>1. PipelineInit => StreamsInv
  BY StreamsStart
<1>2. StreamsInv /\ [PipelineNext]_pipelineVars => StreamsInv'
  BY StreamsStay
<1>3. StreamsInv => ShowsWhatWasSent
  BY DEF StreamsInv
<1> QED
  BY <1>1, <1>2, <1>3, PTL DEF PipelineSpec

\* OrderRecovered: the order counts of the encoder come back, by PocState::derive,
\* across its wraps and the restart of operation 5.
THEOREM OrderIsRecovered == PipelineSpec => []OrderRecovered
<1>1. PipelineInit => StreamsInv
  BY StreamsStart
<1>2. StreamsInv /\ [PipelineNext]_pipelineVars => StreamsInv'
  BY StreamsStay
<1>3. StreamsInv => OrderRecovered
  BY DEF StreamsInv
<1> QED
  BY <1>1, <1>2, <1>3, PTL DEF PipelineSpec

-----------------------------------------------------------------------------
\* The marking.  The slots of a decoder in step hold the pictures of the window.
Ids(w) == {w[k].id : k \in 1..Len(w)}

LEMMA HeldIds ==
  ASSUME NEW d, NEW x, NEW c, NEW g, InStep(d, x, c, g), NEW w, w = Kept(x, g)
  PROVE  {d.slots[i].id : i \in D!Taken(d.slots)} = Ids(w)
<1>1. PICK place : Holds(d.slots, w, place)
  BY DEF InStep
<1>2. /\ place \in Seq(DOMAIN d.slots) /\ Len(place) = Len(w)
      /\ \A k \in 1..Len(w) : d.slots[place[k]] # D!Free /\ d.slots[place[k]].id = w[k].id
      /\ \A i \in D!Taken(d.slots) : \E k \in 1..Len(w) : place[k] = i
  BY <1>1 DEF Holds, Is
<1>3. \A k \in 1..Len(w) : place[k] \in D!Taken(d.slots)
  <2>1. \A k \in 1..Len(w) : place[k] \in DOMAIN d.slots
    BY <1>2
  <2> QED
    BY <1>2, <2>1 DEF D!Taken
<1> DEFINE H == {d.slots[i].id : i \in D!Taken(d.slots)}
<1>4. ASSUME NEW z \in H
      PROVE  z \in Ids(w)
  <2>1. PICK i \in D!Taken(d.slots) : z = d.slots[i].id
    BY <1>4
  <2>2. PICK k \in 1..Len(w) : place[k] = i
    BY <1>2
  <2> QED
    BY <1>2, <2>1, <2>2 DEF Ids
<1>5. ASSUME NEW z \in Ids(w)
      PROVE  z \in H
  <2>1. PICK k \in 1..Len(w) : z = w[k].id
    BY <1>5 DEF Ids
  <2>2. place[k] \in D!Taken(d.slots) /\ z = d.slots[place[k]].id
    BY <1>2, <1>3, <2>1
  <2> QED
    BY <2>2
<1> QED
  BY <1>4, <1>5

LEMMA IdsAppend ==
  ASSUME NEW w \in Seq(Ref), NEW r \in Ref
  PROVE  Ids(Append(w, r)) = Ids(w) \cup {r.id}
<1>1. PICK v : v = Append(w, r)
  OBVIOUS
<1>2. /\ Append(w, r) \in Seq(Ref) /\ Len(Append(w, r)) = Len(w) + 1
      /\ Append(w, r)[Len(w) + 1] = r /\ \A i \in 1..Len(w) : Append(w, r)[i] = w[i]
      /\ Len(w) \in Nat
  BY AppendProperties
<1>3. Len(v) = Len(w) + 1 /\ v[Len(w) + 1] = r /\ \A i \in 1..Len(w) : v[i] = w[i]
  BY <1>1, <1>2
<1>4. Len(w) + 1 \in 1..(Len(w) + 1)
      /\ (\A i \in 1..(Len(w) + 1) : i \in 1..Len(w) \/ i = Len(w) + 1)
      /\ \A i \in 1..Len(w) : i \in 1..(Len(w) + 1)
  BY <1>2
<1>5. Ids(v) = Ids(w) \cup {r.id}
  BY <1>3, <1>4 DEF Ids
<1> QED
  BY <1>1, <1>5

LEMMA IdsRemove ==
  ASSUME NEW v \in Seq(Ref), NEW k \in 1..Len(v),
         \A i, j \in 1..Len(v) : i < j => v[i].id < v[j].id
  PROVE  Ids(RemoveAt(v, k)) = Ids(v) \ {v[k].id}
<1>1. PICK u : u = RemoveAt(v, k)
  OBVIOUS
<1>2. Len(u) = Len(v) - 1 /\ Len(v) \in Nat /\ k \in Nat
      /\ \A i \in 1..(Len(v) - 1) : u[i] = IF i < k THEN v[i] ELSE v[i + 1]
  <2>1. v \in Seq(Ref) /\ k \in 1..Len(v) /\ Len(v) \in Nat /\ k \in Nat
    OBVIOUS
  <2>2. /\ Len(RemoveAt(v, k)) = Len(v) - 1
        /\ \A i \in 1..(Len(v) - 1) : RemoveAt(v, k)[i] = IF i < k THEN v[i] ELSE v[i + 1]
    BY ONLY <2>1, RemoveAtIs
  <2> QED
    BY <1>1, <2>1, <2>2
<1>3. \A i \in 1..Len(v) : v[i].id \in Nat
  <2>1. \A i \in 1..Len(v) : v[i] \in Ref
    OBVIOUS
  <2> QED
    BY <2>1 DEF Ref
<1>4. \A i \in 1..Len(v) : i # k => v[i].id # v[k].id
  <2>1. \A i \in 1..Len(v) : i # k => i < k \/ k < i
    BY <1>2
  <2> QED
    BY <1>3, <2>1
<1>5. ASSUME NEW x \in Ids(u)
      PROVE  x \in Ids(v) \ {v[k].id}
  <2>1. PICK i \in 1..(Len(v) - 1) : x = u[i].id
    BY <1>2, <1>5 DEF Ids
  <2>2. CASE i < k
    <3>1. i \in 1..Len(v) /\ i # k /\ u[i] = v[i]
      BY <1>2, <2>1, <2>2
    <3> QED
      BY <1>4, <2>1, <3>1 DEF Ids
  <2>3. CASE ~(i < k)
    <3>1. i + 1 \in 1..Len(v) /\ i + 1 # k /\ u[i] = v[i + 1]
      BY <1>2, <2>1, <2>3
    <3> QED
      BY <1>4, <2>1, <3>1 DEF Ids
  <2> QED
    BY <2>2, <2>3
<1>6. ASSUME NEW i \in 1..Len(v), i # k
      PROVE  v[i].id \in Ids(u)
  <2>1. CASE i < k
    <3>1. i \in 1..(Len(v) - 1) /\ u[i] = v[i]
      BY <1>2, <2>1
    <3> QED
      BY <1>2, <3>1 DEF Ids
  <2>2. CASE ~(i < k)
    <3>1. i - 1 \in 1..(Len(v) - 1) /\ ~(i - 1 < k) /\ (i - 1) + 1 = i
      BY <1>2, <1>6, <2>2
    <3>2. u[i - 1] = v[i]
      BY <1>2, <3>1
    <3> QED
      BY <1>2, <3>1, <3>2 DEF Ids
  <2> QED
    BY <2>1, <2>2
<1>7. Ids(v) \ {v[k].id} \subseteq Ids(u)
  BY <1>6 DEF Ids
<1> QED
  BY <1>1, <1>5, <1>7

\* How many there are, and the oldest of them.
LEMMA IdsCount ==
  ASSUME NEW v \in Seq(Ref), Len(v) \in {2, 3},
         \A i, j \in 1..Len(v) : i < j => v[i].id < v[j].id
  PROVE  Cardinality(Ids(v)) = Len(v) /\ Min(Ids(v)) = v[1].id
<1>1. \A i \in 1..Len(v) : v[i].id \in Nat
  <2>1. \A i \in 1..Len(v) : v[i] \in Ref
    OBVIOUS
  <2> QED
    BY <2>1 DEF Ref
<1>2. Min(Ids(v)) = v[1].id
  <2>1. 1 \in 1..Len(v) /\ \A i \in 1..Len(v) : i = 1 \/ 1 < i
    OBVIOUS
  <2>2. v[1].id \in Ids(v) /\ \A y \in Ids(v) : v[1].id <= y /\ y \in Nat
    BY <1>1, <2>1 DEF Ids
  <2>3. \A x \in Ids(v) : (\A y \in Ids(v) : x <= y) => x = v[1].id
    BY <2>2
  <2> QED
    BY <2>2, <2>3 DEF Min
<1>3. PICK a, b, c : a = v[1].id /\ b = v[2].id /\ c = v[3].id
  OBVIOUS
<1>4. CASE Len(v) = 2
  <2>1. 1 \in 1..2 /\ 2 \in 1..2 /\ \A i \in 1..2 : i = 1 \/ i = 2
    OBVIOUS
  <2>2. Ids(v) = {a, b} /\ a < b /\ a \in Nat /\ b \in Nat
    BY <1>1, <1>3, <1>4, <2>1 DEF Ids
  <2>3. a # b
    BY <2>2
  <2>4. Cardinality({a, b}) = 2
    BY <2>3, Few
  <2>5. Cardinality(Ids(v)) = 2
    BY ONLY <2>2, <2>4
  <2> QED
    BY <1>2, <1>4, <2>5
<1>5. CASE Len(v) = 3
  <2>1. 1 \in 1..3 /\ 2 \in 1..3 /\ 3 \in 1..3 /\ \A i \in 1..3 : i = 1 \/ i = 2 \/ i = 3
    OBVIOUS
  <2>2. Ids(v) = {a, b} \cup {c} /\ a < b /\ b < c /\ a \in Nat /\ b \in Nat /\ c \in Nat
    BY <1>1, <1>3, <1>5, <2>1 DEF Ids
  <2>3. a # b /\ c \notin {a, b}
    BY <2>2
  <2>4. Cardinality({a, b}) = 2 /\ IsFiniteSet({a, b})
    BY <2>3, Few
  <2>5. Cardinality({a, b} \cup {c}) = 2 + 1
    BY <2>3, <2>4, FS_AddElement
  <2>6. Cardinality(Ids(v)) = 2 + 1
    BY ONLY <2>2, <2>5
  <2> QED
    BY <1>2, <1>5, <2>6
<1> QED
  BY <1>4, <1>5

\* What the standard asks, of the pictures held before and after a unit.
Slides(pictureIds, n) ==
  IF Cardinality(pictureIds) > n THEN pictureIds \ {Min(pictureIds)} ELSE pictureIds
Commanded(c, before, after) ==
  /\ c.op \in {"idr", "sliding", "adaptive", "reset", "none", "broken"}
  /\ c.id \in Nat /\ c.refs \in Nat /\ c.unmarked \in SUBSET Nat
  /\ c = [op |-> c.op, id |-> c.id, refs |-> c.refs, unmarked |-> c.unmarked]
  /\ c.op = "idr" => after = {c.id}
  /\ c.op = "sliding" => after = Slides(before \cup {c.id}, c.refs)
  /\ c.op = "adaptive" => after = (before \ c.unmarked) \cup {c.id}
  /\ c.op = "reset" => after = {}
  /\ c.op = "none" => after = before
  /\ c.op = "broken" => after \in SUBSET Nat

\* What was forgotten is not held, and was the oldest.
LEMMA KeptIds ==
  ASSUME NEW w \in Seq(Ref), Len(w) > 0, NEW g, \A k \in 1..Len(w) : k > 1 => w[k].id \notin g,
         \A i, j \in 1..Len(w) : i < j => w[i].id < w[j].id
  PROVE  Ids(Kept(w, g)) = Ids(w) \ g
<1>1. 1 \in 1..Len(w) /\ \A k \in 1..Len(w) : k = 1 \/ k > 1
  OBVIOUS
<1>2. CASE w[1].id \notin g
  <2>1. Kept(w, g) = w
    BY <1>2 DEF Kept
  <2>2. \A k \in 1..Len(w) : w[k].id \notin g
    BY <1>1, <1>2
  <2> QED
    BY <2>1, <2>2 DEF Ids
<1>3. CASE w[1].id \in g
  <2>1. Kept(w, g) = RemoveAt(w, 1)
    <3>1. RemoveAt(w, 1) = Tail(w)
      BY TailIs
    <3> QED
      BY <1>3, <3>1 DEF Kept
  <2>2. Ids(RemoveAt(w, 1)) = Ids(w) \ {w[1].id}
    BY <1>1, IdsRemove
  <2>3. \A z \in Ids(w) : z \in g => z = w[1].id
    BY <1>1 DEF Ids
  <2>4. Ids(w) \ {w[1].id} = Ids(w) \ g
    BY <1>3, <2>3
  <2> QED
    BY <2>1, <2>2, <2>4
<1> QED
  BY <1>2, <1>3

\* The window slides over what is held as over all of it.
SlidesAlike(w, id, refs, g) ==
  Slides(Ids(w) \cup {id}, refs) \ g = Slides((Ids(w) \ g) \cup {id}, refs)

LEMMA SlidesKept ==
  ASSUME NEW w \in Seq(Ref), Len(w) \in {1, 2}, NEW g, NEW id \in Nat, id \notin g,
         \A k \in 1..Len(w) : (k > 1 => w[k].id \notin g) /\ w[k].id < id,
         \A i, j \in 1..Len(w) : i < j => w[i].id < w[j].id,
         NEW refs \in Nat, Len(w) <= refs
  PROVE  SlidesAlike(w, id, refs, g)
<1>1. PICK r, v, x, a :
        r = [id |-> id, n |-> 0] /\ v = Append(w, r) /\ x = Ids(w) \cup {id} /\ a = w[1].id
  OBVIOUS
<1>2. r \in Ref /\ r.id = id
  BY <1>1 DEF Ref
<1>3. /\ v \in Seq(Ref) /\ Len(v) = Len(w) + 1 /\ v[Len(w) + 1] = r
      /\ \A i \in 1..Len(w) : v[i] = w[i]
  BY <1>1, <1>2, AppendProperties
<1>4. \A i, j \in 1..Len(v) : i < j => v[i].id < v[j].id
  <2>1. \A i, j \in 1..(Len(w) + 1) :
          i < j => i \in 1..Len(w) /\ (j \in 1..Len(w) \/ j = Len(w) + 1)
    OBVIOUS
  <2> QED
    BY <1>2, <1>3, <2>1
<1>5. Ids(v) = x
  BY <1>1, <1>2, IdsAppend
<1>6. Cardinality(x) = Len(w) + 1 /\ Min(x) = a
  <2>1. Len(v) \in {2, 3} /\ 1 \in 1..Len(w)
    BY <1>3
  <2>2. Cardinality(Ids(v)) = Len(v) /\ Min(Ids(v)) = v[1].id
    BY <1>3, <1>4, <2>1, IdsCount
  <2> QED
    BY <1>1, <1>3, <1>5, <2>1, <2>2
<1>7. \A z \in x : z # a => z \notin g
  <2>1. \A k \in 1..Len(w) : k = 1 \/ k > 1
    OBVIOUS
  <2> QED
    BY <1>1, <2>1 DEF Ids
<1>8. a \in Ids(w) /\ a # id
  <2>1. 1 \in 1..Len(w) /\ w[1] \in Ref
    OBVIOUS
  <2>2. w[1].id \in Nat /\ w[1].id < id
    BY <2>1 DEF Ref
  <2> QED
    BY <1>1, <2>1, <2>2 DEF Ids
<1>9. Slides(x, refs) = x \/ Slides(x, refs) = x \ {a}
  BY <1>6 DEF Slides
<1>10. CASE a \notin g
  <2>1. \A z \in x : z \notin g
    BY <1>7, <1>10
  <2>2. (Ids(w) \ g) \cup {id} = x /\ Slides(x, refs) \ g = Slides(x, refs)
    BY <1>1, <1>9, <2>1
  <2> QED
    BY <1>1, <2>2 DEF SlidesAlike
<1>11. CASE a \in g
  <2>1. Slides(x, refs) \ g = x \ {a} /\ (Ids(w) \ g) \cup {id} = x \ {a}
    BY <1>1, <1>7, <1>8, <1>9, <1>11
  <2>2. Cardinality(x \ {a}) = Len(w)
    <3>1. IsFiniteSet(x)
      <4>1. \A k \in 1..Len(w) : w[k].id \in 0..id
        <5>1. \A k \in 1..Len(w) : w[k] \in Ref
          OBVIOUS
        <5> QED
          BY <5>1 DEF Ref
      <4>2. x \subseteq 0..id
        BY <1>1, <4>1 DEF Ids
      <4>3. IsFiniteSet(0..id)
        BY FS_Interval
      <4> QED
        BY <4>2, <4>3, FS_Subset
    <3>2. Cardinality(x \ {a}) = Cardinality(x) - 1
      BY <1>1, <1>8, <3>1, FS_RemoveElement
    <3> QED
      BY <1>6, <3>2
  <2>3. Slides(x \ {a}, refs) = x \ {a}
    BY <2>2 DEF Slides
  <2> QED
    BY <1>1, <2>1, <2>3 DEF SlidesAlike
<1> QED
  BY <1>10, <1>11

\* A reference that is marked: the window slides, or one picture was named.
LEMMA MarksReference ==
  ASSUME EncoderInv, NEW u, u = unit, u \in Unit, u.ref, NEW w, NEW c, MadeWith(w, c),
         Marked(w, c), NEW refs, refs = Refs(sps)
  PROVE  /\ Ids(Window) = IF u.mmcos = <<>> THEN Slides(Ids(w) \cup {u.id}, refs)
                          ELSE (Ids(w) \ u.unmarked) \cup {u.id}
         /\ Window # <<>>
<1>1. /\ w \in Seq(Ref) /\ c \in Nat /\ Len(w) <= refs /\ Len(w) > 0 /\ Len(w) \in Nat
      /\ \A j, k \in 1..Len(w) : j < k => w[j].id < w[k].id
      /\ \A k \in 1..Len(w) : w[k].id < u.id
      /\ Marked(w, c)
  BY DEF MadeWith, WindowOK
<1>2. refs \in {1, 2} /\ u.id \in Nat
  BY SpsIs DEF EncoderInv, Unit
<1>3. PICK r : r = Current(c)
  OBVIOUS
<1>4. r \in Ref /\ r.id = u.id
  BY <1>1, <1>2, <1>3 DEF Current, Ref
<1>5. PICK v : v = Append(w, r)
  OBVIOUS
<1>6. /\ Append(w, r) \in Seq(Ref) /\ Len(Append(w, r)) = Len(w) + 1
      /\ Append(w, r)[Len(w) + 1] = r /\ \A i \in 1..Len(w) : Append(w, r)[i] = w[i]
  BY <1>1, <1>4, AppendProperties
<1>7. /\ v \in Seq(Ref) /\ Len(v) = Len(w) + 1 /\ v[Len(w) + 1] = r
      /\ \A i \in 1..Len(w) : v[i] = w[i]
  BY <1>5, <1>6
<1>8. \A i, j \in 1..Len(v) : i < j => v[i].id < v[j].id
  <2>1. \A i, j \in 1..(Len(w) + 1) :
          i < j => i \in 1..Len(w) /\ (j \in 1..Len(w) \/ j = Len(w) + 1)
    BY <1>1
  <2> QED
    BY <1>1, <1>4, <1>7, <2>1
<1>9. Ids(v) = Ids(w) \cup {u.id}
  BY <1>1, <1>4, <1>5, IdsAppend
<1>10. \A x \in Seq(Ref) : Len(x) > 0 => x # <<>>
  OBVIOUS
<1>11. CASE u.mmcos = <<>>
  <2>1. Window = Newest(v)
    <3>1. \A x : <<x>> # <<>>
      OBVIOUS
    <3> QED
      BY <1>1, <1>3, <1>5, <1>11, <3>1 DEF Marked
  <2>2. Len(v) \in {2, 3}
    BY <1>1, <1>2, <1>7
  <2>3. Cardinality(Ids(v)) = Len(v) /\ Min(Ids(v)) = v[1].id
    BY <1>7, <1>8, <2>2, IdsCount
  <2>4. CASE Len(v) > refs
    <3>1. Window = Tail(v)
      BY <2>1, <2>4 DEF Newest
    <3>2. RemoveAt(v, 1) = Tail(v) /\ 1 \in 1..Len(v)
      BY <1>7, <2>2, TailIs
    <3>3. Ids(RemoveAt(v, 1)) = Ids(v) \ {v[1].id}
      BY <1>7, <1>8, <3>2, IdsRemove
    <3>4. Slides(Ids(v), refs) = Ids(v) \ {v[1].id}
      BY <2>3, <2>4 DEF Slides
    <3>5. Tail(v) # <<>>
      <4>1. Tail(v) \in Seq(Ref) /\ Len(Tail(v)) = Len(v) - 1 /\ Len(v) - 1 > 0
        BY <1>7, <2>2
      <4> QED
        BY <1>10, <4>1
    <3> QED
      BY <1>9, <1>11, <3>1, <3>2, <3>3, <3>4, <3>5
  <2>5. CASE ~(Len(v) > refs)
    <3>1. Window = v
      BY <2>1, <2>5 DEF Newest
    <3>2. Slides(Ids(v), refs) = Ids(v)
      BY <2>3, <2>5 DEF Slides
    <3>3. v # <<>>
      BY <1>7, <1>10, <2>2
    <3> QED
      BY <1>9, <1>11, <3>1, <3>2, <3>3
  <2> QED
    BY <2>4, <2>5
<1>12. CASE u.mmcos # <<>>
  <2>1. PICK k \in 1..Len(w) : u.unmarked = {w[k].id} /\ Window = Append(RemoveAt(w, k), r)
    BY <1>1, <1>3, <1>12 DEF Marked
  <2>2. PICK x : x = RemoveAt(w, k)
    OBVIOUS
  <2>3. x \in Seq(Ref) /\ Ids(x) = Ids(w) \ {w[k].id}
    BY <1>1, <2>2, RemoveAtIs, IdsRemove
  <2>4. Ids(Append(x, r)) = Ids(x) \cup {r.id}
    BY <1>4, <2>3, IdsAppend
  <2>5. Append(x, r) # <<>>
    <3>1. Append(x, r) \in Seq(Ref) /\ Len(Append(x, r)) = Len(x) + 1 /\ Len(x) \in Nat
      BY <1>4, <2>3, AppendProperties
    <3> QED
      BY <1>10, <3>1
  <2> QED
    BY <1>4, <1>12, <2>1, <2>2, <2>3, <2>4, <2>5
<1> QED
  BY <1>11, <1>12

LEMMA MarksWell ==
  ASSUME StreamsInv, StreamsInv', NEW fault, DecodeUnit(fault), NEW s \in Streams
  PROVE  Commanded(marked'[s], Held(s), Held(s)')
<1>1. PICK ok, b, d :
        /\ broken' = [x \in Streams |-> ~ok[x] \/ (broken[x] /\ ~unit.idr)]
        /\ b = broken'[s] /\ d = dec'[s]
  BY DEF DecodeUnit
<1>2. PICK u, refs, m, held, left :
        u = unit /\ refs = Refs(unit.sps) /\ m = marked'[s] /\ held = Held(s) /\ left = Held(s)'
  OBVIOUS
<1>3. /\ unit # NoUnit /\ unit' = NoUnit /\ m = Marking(broken'[s])
      /\ UNCHANGED encoder
  BY <1>2 DEF DecodeUnit
<1>4. b \in BOOLEAN /\ (b = FALSE => unit.idr \/ ~broken[s])
  BY <1>1 DEF StreamsInv, DecodersInv
<1>5. /\ u \in Unit /\ u.sps = sps /\ sps \in ParamSets /\ refs \in Nat
      /\ (MadeIdr \/ \E w, c : MadeWith(w, c))
  <2>1. u \in Unit /\ u.sps = sps /\ sps \in ParamSets
        /\ (MadeIdr \/ \E w, c : MadeWith(w, c))
    BY <1>2, <1>3 DEF StreamsInv, UnitInv, EncoderInv
  <2>2. refs \in {1, 2}
    BY <1>2, <2>1, SpsIs
  <2> QED
    BY <2>1, <2>2
<1>6. u.id \in Nat /\ u.unmarked \in SUBSET Nat /\ u.idr \in BOOLEAN /\ u.ref \in BOOLEAN
  BY <1>5 DEF Unit
<1>7. /\ m = [op |-> m.op, id |-> u.id, refs |-> refs, unmarked |-> u.unmarked]
      /\ m.id = u.id /\ m.refs = refs /\ m.unmarked = u.unmarked
      /\ m.op = IF b THEN "broken"
                ELSE IF u.idr THEN "idr" ELSE IF ~u.ref THEN "none"
                ELSE IF D!Resets(u) THEN "reset"
                ELSE IF u.mmcos # <<>> THEN "adaptive" ELSE "sliding"
  BY <1>1, <1>2, <1>3 DEF Marking
<1>8. left = {d.slots[i].id : i \in D!Taken(d.slots)}
  BY <1>1, <1>2 DEF Held
<1>9. CASE b
  <2>1. left \in SUBSET Nat
    <3>1. d \in Decoder
      BY <1>1 DEF StreamsInv, DecodersInv, Decoder, Slot, PocState
    <3>2. d.slots \in Seq(Slot)
      BY <3>1 DEF Decoder
    <3>3. \A i \in D!Taken(d.slots) : d.slots[i] \in Slot /\ d.slots[i] # D!Free
      BY <3>2 DEF D!Taken
    <3>4. \A x \in Slot : x # D!Free => x.id \in Nat
      BY DEF Slot
    <3> QED
      BY <1>8, <3>3, <3>4
  <2>2. m.op = "broken"
    BY <1>7, <1>9
  <2> QED
    BY <1>2, <1>5, <1>6, <1>7, <2>1, <2>2 DEF Commanded
<1>10. CASE ~b
  <2>1. sps' = sps /\ Window' = Window /\ Count' = Count
    BY <1>3 DEF encoder, Window, Count
  <2>2. PICK w, c, g, h : w = Window /\ c = Count /\ g = forgotten /\ h = forgotten'
    OBVIOUS
  <2>a. /\ h = IF u.idr THEN {} ELSE g \cup IF D!Resets(u) THEN {u.id} ELSE {}
        /\ u.id \notin g
    BY <1>2, <1>3, <2>2 DEF DecodeUnit, Forgets, StreamsInv, ForgottenInv
  <2>b. /\ w \in Seq(Ref) /\ \A i, j \in 1..Len(w) : i < j => w[i].id < w[j].id
        /\ \A v \in Seq(Ref) : v # <<>> => Len(v) > 0
    BY <2>2 DEF StreamsInv, EncoderInv, WindowOK
  <2>3. w # <<>> => left = Ids(w) \ h
    <3>1. ASSUME w # <<>>
          PROVE  left = Ids(w) \ h
      <4>1. Following(s)'
        BY <1>1, <1>10 DEF StreamsInv, DecodersInv
      <4>2. InStep(dec[s], Window, Count, forgotten)'
        BY <1>3, <2>1, <2>2, <3>1, <4>1 DEF Following
      <4>3. InStep(d, w, c, h)'
        BY <1>1, <2>1, <2>2, <4>2 DEF InStep, Counts
      <4>4. InStep(d, w, c, h)
        BY <2>1, <4>3, InStepStays
      <4>5. left = Ids(Kept(w, h))
        BY <1>8, <4>4, HeldIds
      <4>6. \A k \in 1..Len(w) : k > 1 => w[k].id \notin h
        BY <4>4 DEF InStep
      <4> QED
        BY <2>b, <3>1, <4>5, <4>6, KeptIds
    <3> QED
      BY <3>1
  <2>4. CASE u.idr
    <3>1. Window = <<Current(0)>>
      BY <1>2, <1>5, <2>4 DEF MadeIdr, MadeWith
    <3>2. PICK r : r = Current(0)
      OBVIOUS
    <3>3. r.id = u.id /\ w = <<r>>
      BY <1>2, <2>2, <3>1, <3>2 DEF Current
    <3>4. Len(w) = 1 /\ w[1] = r /\ w # <<>> /\ \A i \in 1..1 : i = 1
      BY <3>3
    <3>5. Ids(w) = {u.id}
      BY <3>3, <3>4 DEF Ids
    <3>6. m.op = "idr" /\ left = {m.id}
      BY <1>7, <1>10, <2>3, <2>4, <2>a, <3>4, <3>5
    <3> QED
      BY <1>2, <1>5, <1>6, <1>7, <3>6 DEF Commanded
  <2>5. CASE ~u.idr
    <3>1. ~broken[s] /\ ~MadeIdr
      BY <1>2, <1>4, <1>10, <2>5 DEF MadeIdr
    <3>2. Following(s)
      BY <3>1 DEF StreamsInv, DecodersInv
    <3>3. PICK x, y : MadeWith(x, y) /\ InStep(dec[s], x, y, g)
      BY <1>3, <2>2, <3>1, <3>2 DEF Following
    <3>a. /\ x \in Seq(Ref) /\ Len(x) \in {1, 2} /\ Len(x) > 0 /\ Len(x) <= refs
          /\ \A i, j \in 1..Len(x) : i < j => x[i].id < x[j].id
          /\ \A k \in 1..Len(x) : (k > 1 => x[k].id \notin g) /\ x[k].id < u.id
      <4>1. x \in Seq(Ref) /\ Len(x) \in {1, 2} /\ Len(x) <= refs
        BY <1>2, <1>5, <3>3, MadeIs
      <4>2. Len(x) > 0 /\ \A i, j \in 1..Len(x) : i < j => x[i].id < x[j].id
        BY <3>3 DEF MadeWith, WindowOK
      <4>3. \A k \in 1..Len(x) : (k > 1 => x[k].id \notin g) /\ x[k].id < u.id
        BY <1>2, <3>3 DEF MadeWith, InStep
      <4> QED
        BY <4>1, <4>2, <4>3
    <3>4. held = Ids(x) \ g
      <4>1. held = Ids(Kept(x, g))
        BY <1>2, <3>3, HeldIds DEF Held
      <4> QED
        BY <3>a, <4>1, KeptIds
    <3>5. CASE ~u.ref
      <4>1. w = x /\ w # <<>> /\ ~D!Resets(u)
        BY <1>2, <2>2, <3>3, <3>5, ResetsIs DEF MadeWith
      <4>2. m.op = "none" /\ left = held
        BY <1>7, <1>10, <2>3, <2>5, <2>a, <3>4, <3>5, <4>1
      <4> QED
        BY <1>2, <1>5, <1>6, <1>7, <4>2 DEF Commanded
    <3>6. CASE u.ref /\ Marked(x, y)
      <4>0. ~D!Resets(u) /\ h = g
        <5>1. u.mmcos = <<>> \/ \E n : u.mmcos = <<Unmark(n)>>
          BY <1>2, <3>6 DEF Marked, Unmark
        <5>2. \A n : Unmark(n).op = 1
          BY DEF Unmark
        <5>3. ~D!Resets(u)
          BY <5>1, <5>2, ResetsIs
        <5> QED
          BY <2>5, <2>a, <5>3
      <4>1. /\ Ids(w) = IF u.mmcos = <<>> THEN Slides(Ids(x) \cup {u.id}, refs)
                        ELSE (Ids(x) \ u.unmarked) \cup {u.id}
            /\ w # <<>>
        BY <1>2, <1>5, <2>2, <3>3, <3>6, MarksReference DEF StreamsInv
      <4>2. left = Ids(w) \ g
        BY <2>3, <4>0, <4>1
      <4>3. CASE u.mmcos = <<>>
        <5>1. Slides(Ids(x) \cup {u.id}, refs) \ g = Slides((Ids(x) \ g) \cup {u.id}, refs)
          <6>1. /\ x \in Seq(Ref) /\ Len(x) \in {1, 2} /\ u.id \in Nat /\ u.id \notin g
                /\ refs \in Nat /\ Len(x) <= refs
            BY <1>5, <1>6, <2>a, <3>a
          <6>2. \A k \in 1..Len(x) : (k > 1 => x[k].id \notin g) /\ x[k].id < u.id
            BY <3>a
          <6>3. \A i, j \in 1..Len(x) : i < j => x[i].id < x[j].id
            BY <3>a
          <6>4. PICK id : id = u.id
            OBVIOUS
          <6>5. id \in Nat /\ id \notin g /\ \A k \in 1..Len(x) : x[k].id < id
            BY <6>1, <6>2, <6>4
          <6>6. SlidesAlike(x, id, refs, g)
            BY ONLY <6>1, <6>2, <6>3, <6>5, SlidesKept
          <6> QED
            BY <6>4, <6>6 DEF SlidesAlike
        <5>2. m.op = "sliding" /\ left = Slides(held \cup {m.id}, m.refs)
          BY <1>7, <1>10, <2>5, <3>4, <3>6, <4>0, <4>1, <4>2, <4>3, <5>1
        <5> QED
          BY <1>2, <1>5, <1>6, <1>7, <5>2 DEF Commanded
      <4>4. CASE u.mmcos # <<>>
        <5>1. left = (held \ u.unmarked) \cup {u.id}
          BY <2>a, <3>4, <4>1, <4>2, <4>4
        <5>2. m.op = "adaptive" /\ left = (held \ m.unmarked) \cup {m.id}
          BY <1>7, <1>10, <2>5, <3>6, <4>0, <4>4, <5>1
        <5> QED
          BY <1>2, <1>5, <1>6, <1>7, <5>2 DEF Commanded
      <4> QED
        BY <4>3, <4>4
    <3>7. CASE u.ref /\ Restarted
      <4>1. D!Resets(u)
        <5>1. PICK o : o.op = 5 /\ u.mmcos = <<o>>
          BY <1>2, <3>7 DEF Restarted
        <5> QED
          BY <5>1, ResetsIs
      <4>2. PICK r : r = Current(0)
        OBVIOUS
      <4>3. w = <<r>> /\ r.id = u.id
        BY <1>2, <2>2, <3>7, <4>2 DEF Restarted, Current
      <4>4. Ids(w) = {u.id} /\ w # <<>>
        <5>1. Len(w) = 1 /\ w[1] = r /\ w # <<>> /\ \A i \in 1..1 : i = 1
          BY <4>3
        <5> QED
          BY <4>3, <5>1 DEF Ids
      <4>5. m.op = "reset" /\ left = {}
        BY <1>7, <1>10, <2>3, <2>5, <2>a, <3>7, <4>1, <4>4
      <4> QED
        BY <1>2, <1>5, <1>6, <1>7, <4>5 DEF Commanded
    <3>8. u.ref => Marked(x, y) \/ Restarted
      BY <1>2, <3>3 DEF MadeWith
    <3> QED
      BY <1>6, <3>5, <3>6, <3>7, <3>8
  <2> QED
    BY <1>6, <2>4, <2>5
<1> QED
  BY <1>4, <1>9, <1>10

\* The standard's sliding window, in the words of the model.
LEMMA SlidesMain ==
  ASSUME NEW pictureIds, NEW n
  PROVE  Main!Slid(pictureIds, n) = Slides(pictureIds, n)
<1>1. Main!Cardinality(pictureIds) = Cardinality(pictureIds)
  BY DEF Main!Cardinality, Cardinality
<1>2. Main!Min(pictureIds) = Min(pictureIds)
  BY DEF Main!Min, Min
<1> QED
  BY <1>1, <1>2 DEF Main!Slid, Slides

LEMMA SlidesAux ==
  ASSUME NEW pictureIds, NEW n
  PROVE  Aux!Slid(pictureIds, n) = Slides(pictureIds, n)
<1>1. Aux!Cardinality(pictureIds) = Cardinality(pictureIds)
  BY DEF Aux!Cardinality, Cardinality
<1>2. Aux!Min(pictureIds) = Min(pictureIds)
  BY DEF Aux!Min, Min
<1> QED
  BY <1>1, <1>2 DEF Aux!Slid, Slides

\* A unit marks its picture as the standard asks, on each stream.
LEMMA MarksMain ==
  ASSUME Commanded(marked'["main"], Held("main"), Held("main")')
  PROVE  Main!Next
<1>1. PICK c, before, after :
        c = marked'["main"] /\ before = Held("main") /\ after = Held("main")'
  OBVIOUS
<1>2. Commanded(c, before, after)
  BY <1>1
<1>3. /\ c.op \in {"idr", "sliding", "adaptive", "reset", "none", "broken"}
      /\ c.id \in Nat /\ c.refs \in Nat /\ c.unmarked \in SUBSET Nat
      /\ c = [op |-> c.op, id |-> c.id, refs |-> c.refs, unmarked |-> c.unmarked]
  BY <1>2 DEF Commanded
<1>4. c \in Main!Commands
  BY <1>3 DEF Main!Commands
<1>5. Main!Slid(before \cup {c.id}, c.refs) = Slides(before \cup {c.id}, c.refs)
  BY SlidesMain
<1>6. Main!After(c)
  BY <1>1, <1>2, <1>3, <1>5 DEF Main!After, Commanded
<1> QED
  BY <1>1, <1>4, <1>6 DEF Main!Next

LEMMA MarksAux ==
  ASSUME Commanded(marked'["aux"], Held("aux"), Held("aux")')
  PROVE  Aux!Next
<1>1. PICK c, before, after :
        c = marked'["aux"] /\ before = Held("aux") /\ after = Held("aux")'
  OBVIOUS
<1>2. Commanded(c, before, after)
  BY <1>1
<1>3. /\ c.op \in {"idr", "sliding", "adaptive", "reset", "none", "broken"}
      /\ c.id \in Nat /\ c.refs \in Nat /\ c.unmarked \in SUBSET Nat
      /\ c = [op |-> c.op, id |-> c.id, refs |-> c.refs, unmarked |-> c.unmarked]
  BY <1>2 DEF Commanded
<1>4. c \in Aux!Commands
  BY <1>3 DEF Aux!Commands
<1>5. Aux!Slid(before \cup {c.id}, c.refs) = Slides(before \cup {c.id}, c.refs)
  BY SlidesAux
<1>6. Aux!After(c)
  BY <1>1, <1>2, <1>3, <1>5 DEF Aux!After, Commanded
<1> QED
  BY <1>1, <1>4, <1>6 DEF Aux!Next

\* Every step of the pipeline is a step of the standard on both streams, or none.
LEMMA StandardStarts ==
  ASSUME PipelineInit
  PROVE  Main!Init /\ Aux!Init
<1>1. /\ dec = [s \in Streams |-> D!New]
      /\ marked = [s \in Streams |-> [op |-> "none", id |-> 0, refs |-> 0, unmarked |-> {}]]
  BY DEF PipelineInit
<1>2. "main" \in Streams /\ "aux" \in Streams
  BY DEF Streams
<1>3. \A s \in Streams : Held(s) = {}
  <2>1. \A s \in Streams : dec[s].slots = <<>>
    BY <1>1 DEF D!New
  <2>2. D!Taken(<<>>) = {}
    BY DEF D!Taken
  <2> QED
    BY <2>1, <2>2 DEF Held
<1> QED
  BY <1>1, <1>2, <1>3 DEF Main!Init, Aux!Init

LEMMA StandardSteps ==
  ASSUME StreamsInv, StreamsInv', [PipelineNext]_pipelineVars
  PROVE  /\ [Main!Next]_<<marked["main"], Held("main")>>
         /\ [Aux!Next]_<<marked["aux"], Held("aux")>>
<1>1. "main" \in Streams /\ "aux" \in Streams
  BY DEF Streams
<1>2. CASE DecodeOne \/ Fault
  <2>1. PICK fault : DecodeUnit(fault)
    BY <1>2 DEF DecodeOne, Fault
  <2>2. \A s \in Streams : Commanded(marked'[s], Held(s), Held(s)')
    BY <2>1, MarksWell
  <2>3. Main!Next /\ Aux!Next
    BY <1>1, <2>2, MarksMain, MarksAux
  <2> QED
    BY <2>3
<1>3. CASE ~(DecodeOne \/ Fault)
  <2>1. dec' = dec /\ marked' = marked
    BY <1>3 DEF PipelineNext, pipelineVars, pipeline, history, Stall, Drop, Zoom
  <2>2. Held("main")' = Held("main") /\ Held("aux")' = Held("aux")
    BY <2>1 DEF Held, D!Taken
  <2> QED
    BY <2>1, <2>2
<1> QED
  BY <1>2, <1>3

\* MarksAsTheStandard: the numbered slots, with their numbers that wrap, hold what
\* the standard's marking asks, on both streams, but for the picture of an operation
\* 5, which they do not hold (sliding_window and apply_mmco of decoder.rs).
THEOREM ImplementsTheStandard == PipelineSpec => MarksAsTheStandard
<1>1. PipelineInit => StreamsInv /\ Main!Init /\ Aux!Init
  BY StreamsStart, StandardStarts
<1>2. StreamsInv /\ [PipelineNext]_pipelineVars => StreamsInv'
  BY StreamsStay
<1>3. StreamsInv /\ StreamsInv' /\ [PipelineNext]_pipelineVars =>
        /\ [Main!Next]_<<marked["main"], Held("main")>>
        /\ [Aux!Next]_<<marked["aux"], Held("aux")>>
  BY StandardSteps
<1> QED
  BY <1>1, <1>2, <1>3, PTL DEF PipelineSpec, MarksAsTheStandard, Main!Spec, Aux!Spec

-----------------------------------------------------------------------------
\* The packing of 4:4:4 pictures, at every even size.

\* Division with a remainder, in the one form that is needed.
LEMMA DivisionIsUnique ==
  ASSUME NEW m \in Nat, m > 0, NEW q \in Int, NEW r \in 0..(m - 1), NEW x \in Int, x = q * m + r
  PROVE  x \div m = q /\ x % m = r
<1>1. x % m \in 0..(m - 1) /\ x = m * (x \div m) + (x % m) /\ x \div m \in Int
  OBVIOUS
<1> DEFINE e == q - (x \div m)
<1>2. e \in Int /\ m * e = (x % m) - r
  BY <1>1
<1> HIDE DEF e
<1>3. m * e < m /\ -m < m * e
  BY <1>1, <1>2
<1>4. ~(e >= 1)
  BY <1>2, <1>3
<1>5. ~(e <= -1)
  BY <1>2, <1>3
<1>6. e = 0
  BY <1>2, <1>4, <1>5
<1>7. q = x \div m
  BY <1>1, <1>6 DEF e
<1> QED
  BY <1>1, <1>2, <1>6, <1>7

\* A cell of a plane of h rows, by its row and column.
LEMMA CellOfRowAndColumn ==
  ASSUME EvenSize, NEW h \in Nat, NEW r \in 0..(h - 1), NEW c \in 0..(Width - 1)
  PROVE  /\ At(r, c) \in 0..(Width * h - 1)
         /\ Row(At(r, c)) = r /\ Column(At(r, c)) = c
<1>1. Width \in Nat /\ Width > 0 /\ r \in Nat /\ c \in Nat /\ c < Width /\ r + 1 <= h
  BY DEF EvenSize
<1>2. PICK x, p : p = r * Width /\ x = p + c
  OBVIOUS
<1>3. p \in Nat /\ x \in Nat
  BY <1>1, <1>2
<1>4. x \div Width = r /\ x % Width = c
  BY <1>1, <1>2, <1>3, DivisionIsUnique
<1>5. (r + 1) * Width <= h * Width
  BY <1>1
<1>6. (r + 1) * Width = p + Width /\ h * Width = Width * h /\ Width * h \in Nat
  BY <1>1, <1>2
<1>7. x <= Width * h - 1
  BY <1>1, <1>2, <1>3, <1>5, <1>6
<1> QED
  BY <1>2, <1>3, <1>4, <1>6, <1>7 DEF At, Row, Column

\* And every cell is one.
LEMMA RowAndColumnOfCell ==
  ASSUME EvenSize, NEW h \in Nat, NEW i \in 0..(Width * h - 1)
  PROVE  Row(i) \in 0..(h - 1) /\ Column(i) \in 0..(Width - 1) /\ i = At(Row(i), Column(i))
<1>1. Width \in Nat /\ Width > 0 /\ i \in Nat /\ Width * h \in Nat /\ i < Width * h
  BY DEF EvenSize
<1>2. i % Width \in 0..(Width - 1) /\ i = Width * (i \div Width) + (i % Width) /\ i \div Width \in Int
  BY <1>1
<1>3. PICK q, r : q = i \div Width /\ r = i % Width
  OBVIOUS
<1>4. q \in Int /\ r \in Nat /\ r < Width /\ i = Width * q + r
  BY <1>1, <1>2, <1>3
<1>5. ~(q < 0)
  <2>1. q < 0 => q + 1 <= 0
    BY <1>4
  <2>2. q + 1 <= 0 => Width * (q + 1) <= 0
    BY <1>1, <1>4
  <2>3. Width * (q + 1) = Width * q + Width
    BY <1>1, <1>4
  <2> QED
    BY <1>1, <1>4, <2>1, <2>2, <2>3
<1>6. ~(q >= h)
  <2>1. q >= h => Width * q >= Width * h
    BY <1>1, <1>4
  <2> QED
    BY <1>1, <1>4, <2>1
<1>7. q \in 0..(h - 1) /\ Width * q = q * Width
  BY <1>1, <1>4, <1>5, <1>6
<1> QED
  BY <1>2, <1>3, <1>4, <1>7 DEF At, Row, Column

\* An even size in halves.
LEMMA HalfSizes ==
  ASSUME EvenSize
  PROVE  /\ Half \in Nat /\ Half > 0 /\ Height = 2 * Half
         /\ Width \in Nat /\ Width > 0 /\ Width = 2 * (Width \div 2)
  BY DEF EvenSize, Half

\* Sample `side` of the pair that stands for one place of an even row.
LEMMA PairRead ==
  ASSUME EvenSize, NEW src \in Yuv444, NEW k \in 0..(Half - 1), NEW j \in 0..(Width \div 2 - 1),
         NEW side \in {0, 1}, NEW plane \in {0, 1}
  PROVE  Interleaved(src, side)[At(k, 2 * j + plane)]
           = (IF plane = 0 THEN src.u ELSE src.v)[At(2 * k, 2 * j + side)]
<1>1. Half \in Nat /\ Width \in Nat /\ Width = 2 * (Width \div 2)
  BY HalfSizes
<1>2. k \in Nat /\ j \in Nat /\ 2 * j + plane \in 0..(Width - 1) /\ 2 * j + plane \in Nat
  BY <1>1
<1>3. PICK c : c = 2 * j + plane
  OBVIOUS
<1>4. At(k, c) \in Pairs /\ Row(At(k, c)) = k /\ Column(At(k, c)) = c
  BY <1>1, <1>2, <1>3, CellOfRowAndColumn DEF Pairs
<1>5. c \div 2 = j /\ c % 2 = plane
  BY <1>2, <1>3
<1>6. Interleaved(src, side)[At(k, c)]
        = IF plane = 0 THEN src.u[At(2 * k, 2 * j + side)] ELSE src.v[At(2 * k, 2 * j + side)]
  BY <1>4, <1>5 DEF Interleaved
<1> QED
  BY <1>3, <1>6

\* An odd row of a plane, where the luma of the second stream keeps it.
LEMMA OddRowRead ==
  ASSUME EvenSize, NEW src \in Yuv444, NEW k \in 0..(Half - 1), NEW c \in 0..(Width - 1),
         NEW plane \in {0, 1}
  PROVE  OddRows(src)[At(plane * Half + k, c)]
           = (IF plane = 0 THEN src.u ELSE src.v)[At(2 * k + 1, c)]
<1>1. Half \in Nat /\ Height = 2 * Half /\ k \in Nat /\ k < Half /\ Height \in Nat
  BY HalfSizes
<1>2. PICK r : r = plane * Half + k
  OBVIOUS
<1>3. r \in 0..(Height - 1) /\ (plane = 0 => r = k /\ r < Half) /\ (plane = 1 => ~(r < Half) /\ r - Half = k)
  BY <1>1, <1>2
<1>4. At(r, c) \in Pixels /\ Row(At(r, c)) = r /\ Column(At(r, c)) = c
  BY <1>1, <1>3, CellOfRowAndColumn DEF Pixels
<1>5. OddRows(src)[At(r, c)]
        = IF plane = 0 THEN src.u[At(2 * k + 1, c)] ELSE src.v[At(2 * k + 1, c)]
  <2>1. CASE plane = 0
    BY <1>3, <1>4, <2>1 DEF OddRows
  <2>2. CASE plane = 1
    BY <1>3, <1>4, <2>2 DEF OddRows
  <2> QED
    BY <2>1, <2>2
<1> QED
  BY <1>2, <1>5

\* Either plane comes back as it was.
LEMMA PlaneComesBack ==
  ASSUME EvenSize, NEW src \in Yuv444, NEW plane \in {0, 1}, NEW i \in Pixels
  PROVE  Recombined(MainOf(src), AuxOf(src), plane)[i] = (IF plane = 0 THEN src.u ELSE src.v)[i]
<1>1. /\ Half \in Nat /\ Height = 2 * Half /\ Height \in Nat
      /\ Width \in Nat /\ Width = 2 * (Width \div 2)
  BY HalfSizes
<1>2. Row(i) \in 0..(Height - 1) /\ Column(i) \in 0..(Width - 1) /\ i = At(Row(i), Column(i))
  BY <1>1, RowAndColumnOfCell DEF Pixels
<1>3. PICK r, c : r = Row(i) /\ c = Column(i)
  OBVIOUS
<1>4. r \in 0..(Height - 1) /\ c \in 0..(Width - 1) /\ i = At(r, c)
  BY <1>2, <1>3
<1>5. PICK k, j : k = r \div 2 /\ j = c \div 2
  OBVIOUS
<1>6. /\ k \in 0..(Half - 1) /\ j \in 0..(Width \div 2 - 1)
      /\ r = 2 * k + (r % 2) /\ r % 2 \in {0, 1}
      /\ c = 2 * j + (c % 2) /\ c % 2 \in {0, 1}
  BY <1>1, <1>4, <1>5
<1>7. Recombined(MainOf(src), AuxOf(src), plane)[i]
        = IF r % 2 = 1 THEN OddRows(src)[At(plane * Half + k, c)]
          ELSE IF c % 2 = 0 THEN Interleaved(src, 0)[At(k, 2 * j + plane)]
               ELSE Interleaved(src, 1)[At(k, 2 * j + plane)]
  BY <1>3, <1>5 DEF Recombined, MainOf, AuxOf
<1>8. CASE r % 2 = 1
  BY <1>4, <1>6, <1>7, <1>8, OddRowRead
<1>9. CASE r % 2 = 0 /\ c % 2 = 0
  <2>1. r = 2 * k /\ c = 2 * j + 0
    BY <1>6, <1>9
  <2>2. Interleaved(src, 0)[At(k, 2 * j + plane)]
          = (IF plane = 0 THEN src.u ELSE src.v)[At(2 * k, 2 * j + 0)]
    BY <1>6, PairRead
  <2> QED
    BY <1>4, <1>7, <1>9, <2>1, <2>2
<1>10. CASE r % 2 = 0 /\ c % 2 = 1
  <2>1. r = 2 * k /\ c = 2 * j + 1
    BY <1>6, <1>10
  <2>2. Interleaved(src, 1)[At(k, 2 * j + plane)]
          = (IF plane = 0 THEN src.u ELSE src.v)[At(2 * k, 2 * j + 1)]
    BY <1>6, PairRead
  <2> QED
    BY <1>4, <1>7, <1>10, <2>1, <2>2
<1> QED
  BY <1>6, <1>8, <1>9, <1>10

\* Two 4:2:0 pictures carry one 4:4:4 picture of any even size without loss:
\* recombine_yuv444 of what split_yuv444 makes is the picture.
THEOREM PackingIsLossless ==
  ASSUME EvenSize, NEW src \in Yuv444
  PROVE  Recombine(Split(src).main, Split(src).aux) = src
<1>1. Recombined(MainOf(src), AuxOf(src), 0) = src.u
  BY PlaneComesBack DEF Recombined, Yuv444
<1>2. Recombined(MainOf(src), AuxOf(src), 1) = src.v
  BY PlaneComesBack DEF Recombined, Yuv444
<1>3. Recombine(Split(src).main, Split(src).aux) = [y |-> src.y, u |-> src.u, v |-> src.v]
  BY <1>1, <1>2 DEF Recombine, Split, MainOf
<1> QED
  BY <1>3 DEF Yuv444

\* A picture each of whose blocks of two by two has one colour is all that the
\* main picture alone brings: nv12_to_yuv444 of it is the picture.
THEOREM MainBringsTheBlocks ==
  ASSUME EvenSize, NEW src \in Yuv444,
         \A i \in Pixels : /\ src.u[i] = src.u[At(2 * (Row(i) \div 2), 2 * (Column(i) \div 2))]
                           /\ src.v[i] = src.v[At(2 * (Row(i) \div 2), 2 * (Column(i) \div 2))]
  PROVE  Upsample(Split(src).main) = src
<1>1. ASSUME NEW plane \in {0, 1}, NEW i \in Pixels
      PROVE  Upsampled(MainOf(src), plane)[i] = (IF plane = 0 THEN src.u ELSE src.v)[i]
  <2>1. /\ Half \in Nat /\ Height = 2 * Half /\ Height \in Nat
        /\ Width \in Nat /\ Width = 2 * (Width \div 2)
    BY HalfSizes
  <2>2. Row(i) \in 0..(Height - 1) /\ Column(i) \in 0..(Width - 1)
    BY <2>1, RowAndColumnOfCell DEF Pixels
  <2>3. PICK k, j : k = Row(i) \div 2 /\ j = Column(i) \div 2
    OBVIOUS
  <2>4. k \in 0..(Half - 1) /\ j \in 0..(Width \div 2 - 1)
    BY <2>1, <2>2, <2>3
  <2>5. Upsampled(MainOf(src), plane)[i] = Interleaved(src, 0)[At(k, 2 * j + plane)]
    BY <2>3 DEF Upsampled, MainOf
  <2>6. Interleaved(src, 0)[At(k, 2 * j + plane)]
          = (IF plane = 0 THEN src.u ELSE src.v)[At(2 * k, 2 * j + 0)]
    BY <2>4, PairRead
  <2>7. At(2 * k, 2 * j + 0) = At(2 * k, 2 * j)
    BY <2>4
  <2> QED
    BY <2>3, <2>5, <2>6, <2>7
<1>2. Upsampled(MainOf(src), 0) = src.u /\ Upsampled(MainOf(src), 1) = src.v
  BY <1>1 DEF Upsampled, Yuv444
<1>3. Upsample(Split(src).main) = [y |-> src.y, u |-> src.u, v |-> src.v]
  BY <1>2 DEF Upsample, Split, MainOf
<1> QED
  BY <1>3 DEF Yuv444
===============================================================================

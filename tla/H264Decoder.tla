----------------------------- MODULE H264Decoder ------------------------------
(* H264Decoder of gliff-va/src/decoder.rs: the bookkeeping a hardware decoder   *)
(* leaves to the program.  One access unit takes a decoder to the next; the     *)
(* pictures in the slots carry their number and whether they are the encoder's  *)
(* (good), and the order count it gave them (due), for the properties.           *)
EXTENDS Integers, Sequences, FiniteSets, FiniteSetsExt, SequencesExt

CONSTANTS MaxFrameNum, MaxPocLsb

Free == [id |-> 0]
ZeroPoc == [prev_msb |-> 0, prev_lsb |-> 0, prev_offset |-> 0, prev_frame_num |-> 0]
New == [sps |-> Free, open |-> FALSE, slots |-> <<>>, last_output |-> Free, poc |-> ZeroPoc]

-------------------------------------------------------------------------------
(* open_stream, for an SPS that differs from the last one.  The SPS is noted     *)
(* before the surfaces are made, and stays noted when making them fails.         *)
NewSps(d, u) == u.idr /\ u.sps # d.sps
Opened(d, u, refs) ==
  IF NewSps(d, u)
  THEN [sps |-> u.sps, open |-> TRUE, slots |-> [i \in 1..refs + 1 |-> Free],
        last_output |-> Free, poc |-> ZeroPoc]
  ELSE d
NotOpened(d, u) == [d EXCEPT !.sps = u.sps, !.open = FALSE, !.slots = <<>>, !.last_output = Free]

-------------------------------------------------------------------------------
(* Frame numbers.  A reference with a greater one is from before the wrap.       *)

\* Mutant: the wrap is forgotten.
WrapIgnored(number, current) == number
Wrap(number, current) == IF number > current THEN number - MaxFrameNum ELSE number

Taken(slots) == {i \in DOMAIN slots : slots[i] # Free}
EvictOldest(slots, current) ==
  LET older(i, j) == \/ Wrap(slots[i].frame_num, current) < Wrap(slots[j].frame_num, current)
                     \/ /\ Wrap(slots[i].frame_num, current) = Wrap(slots[j].frame_num, current)
                        /\ i <= j
      oldest == CHOOSE i \in Taken(slots) : \A j \in Taken(slots) : older(i, j)
  IN  [slots EXCEPT ![oldest] = Free]

\* One pass frees enough: a picture adds one.
SlidingWindow(slots, current, refs) ==
  IF Cardinality(Taken(slots)) > refs THEN EvictOldest(slots, current) ELSE slots

\* apply_mmco; the current picture is already in its slot, and operation 5 frees
\* that one too.  It refuses the long-term operations, with the picture in its
\* slot (the fault "mark").
Unmarks(op, picture, current) ==
  \/ op.op = 5
  \/ op.op = 1 /\ Wrap(picture.frame_num, current) = current - (op.difference_of_pic_nums_minus1 + 1)
ApplyMmco(slots, op, current) ==
  [i \in DOMAIN slots |->
     IF slots[i] # Free /\ Unmarks(op, slots[i], current) THEN Free ELSE slots[i]]

\* mmco5, after which the next picture counts from frame 0.
Resets(u) == \E k \in DOMAIN u.mmcos : u.mmcos[k].op = 5

-------------------------------------------------------------------------------
(* ref_list0: the references by descending number, then the modifications, each  *)
(* of which moves the picture it names to the next place.                        *)
Missing == <<0>>
ByNumber(slots, current) ==
  LET number(i) == Wrap(slots[i].frame_num, current)
      before(i, j) == number(i) > number(j) \/ (number(i) = number(j) /\ i < j)
  IN  CHOOSE f \in [1..Cardinality(Taken(slots)) -> Taken(slots)] :
        \A j, k \in DOMAIN f : j < k => before(f[j], f[k])
Move(slots, u, acc, k) ==
  LET m == u.mods[k]
      pred == (IF m.idc = 0 THEN acc.pred - (m.value + 1) ELSE acc.pred + m.value + 1)
                % MaxFrameNum
      wanted == Wrap(pred, u.frame_num)
      at == SelectInSeq(acc.list, LAMBDA i : Wrap(slots[i].frame_num, u.frame_num) = wanted)
  IN  IF acc.list = Missing \/ at = 0 THEN [acc EXCEPT !.list = Missing]
      ELSE [pred |-> pred, list |-> InsertAt(RemoveAt(acc.list, at), k, acc.list[at])]
RefList0(slots, u) ==
  FoldLeftDomain(LAMBDA acc, k : Move(slots, u, acc, k),
                 [pred |-> u.frame_num, list |-> ByNumber(slots, u.frame_num)], u.mods).list

-------------------------------------------------------------------------------
(* PocState::derive *)

\* Mutant: a step back by half the range is not a wrap.
PocMsbLate(prev, lsb) ==
  IF lsb < prev.prev_lsb /\ prev.prev_lsb - lsb > MaxPocLsb \div 2 THEN prev.prev_msb + MaxPocLsb
  ELSE IF lsb > prev.prev_lsb /\ lsb - prev.prev_lsb > MaxPocLsb \div 2 THEN prev.prev_msb - MaxPocLsb
  ELSE prev.prev_msb
PocMsb(prev, lsb) ==
  IF lsb < prev.prev_lsb /\ prev.prev_lsb - lsb >= MaxPocLsb \div 2 THEN prev.prev_msb + MaxPocLsb
  ELSE IF lsb > prev.prev_lsb /\ lsb - prev.prev_lsb > MaxPocLsb \div 2 THEN prev.prev_msb - MaxPocLsb
  ELSE prev.prev_msb

Derive(p, u, type) ==
  IF type = 0
  THEN LET msb == PocMsb(IF u.idr THEN ZeroPoc ELSE p, u.lsb)
       IN  [value |-> msb + u.lsb,
            next |-> IF u.ref THEN [p EXCEPT !.prev_msb = msb, !.prev_lsb = u.lsb] ELSE p]
  ELSE LET offset == IF u.idr THEN 0
                     ELSE p.prev_offset + (IF p.prev_frame_num > u.frame_num THEN MaxFrameNum ELSE 0)
           n == offset + u.frame_num
       IN  [value |-> IF u.idr THEN 0 ELSE IF u.ref THEN 2 * n ELSE 2 * n - 1,
            next |-> [p EXCEPT !.prev_offset = offset]]

-------------------------------------------------------------------------------
(* What the hardware is given: the reference the first entry of the list names   *)
(* (slice_params), and the picture with its numbers (picture_params).            *)
Predicts(slots, list, u) ==
  list # <<>> /\ slots[list[1]].id = u.from /\ slots[list[1]].good
Rendered(slots, list, u, poc) ==
  [id |-> u.id, frame_num |-> u.frame_num, poc |-> poc, due |-> u.poc,
   good |-> u.idr \/ Predicts(slots, list, u)]

\* The frame number, and its offset, that the next picture is told from.
Noted(p, u) ==
  IF Resets(u) THEN [p EXCEPT !.prev_frame_num = 0, !.prev_offset = 0]
  ELSE [p EXCEPT !.prev_frame_num = u.frame_num]

\* decode: the picture order count, a slot, the reference list, the hardware,
\* the marking.  A failure leaves what was done before it; an operation that is
\* refused comes after those of the unit.
Error(d) == [ok |-> FALSE, d |-> d]
DecodePicture(d, u, refs, type, fault) ==
  LET order == Derive(d.poc, u, type)
      cleared == IF u.idr THEN [i \in DOMAIN d.slots |-> Free] ELSE d.slots
      room == IF u.ref /\ Taken(cleared) = DOMAIN cleared
              THEN EvictOldest(cleared, u.frame_num) ELSE cleared
      list == IF u.idr THEN <<>> ELSE RefList0(room, u)
      begun == [d EXCEPT !.poc = order.next, !.slots = room]
      current == Rendered(room, list, u, order.value)
      stored == [room EXCEPT ![Min(DOMAIN room \ Taken(room))] = current]
      named == FoldLeft(LAMBDA s, op : ApplyMmco(s, op, u.frame_num), stored, u.mmcos)
      slots == CASE ~u.ref -> room
                 [] u.ref /\ u.mmcos # <<>> -> named
                 [] OTHER -> SlidingWindow(stored, u.frame_num, refs)
  IN  IF fault = "render" \/ list = Missing THEN Error(begun)
      ELSE IF fault = "mark" /\ u.ref /\ ~u.idr THEN Error([begun EXCEPT !.slots = named])
      ELSE [ok |-> TRUE,
            d |-> [begun EXCEPT !.slots = slots, !.last_output = current, !.poc = Noted(@, u)]]

\* The parameter sets are taken in, then the slice header is read.
Decode(d, u, refs, type, fault) ==
  IF fault = "parse" THEN Error(d)
  ELSE IF fault = "open" /\ NewSps(d, u) THEN Error(NotOpened(d, u))
  ELSE LET o == Opened(d, u, refs) IN
       IF fault = "slice" \/ ~o.open THEN Error(o)
       ELSE DecodePicture(o, u, refs, type, fault)
===============================================================================

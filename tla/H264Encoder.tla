----------------------------- MODULE H264Encoder ------------------------------
(* The encoders of a stream of access units: H264Encoder of                     *)
(* gliff-va/src/encoder.rs (IDR, then P pictures that each refer to the one      *)
(* before) and another of which the decoder accepts more: two references, order  *)
(* counts of type 2, pictures that are not references, a modified reference      *)
(* list, marking by a sliding window or by the operations 1 and 5.  Pictures are *)
(* numbered for the properties; the numbers in the stream are its frame numbers  *)
(* and picture order counts, which wrap.                                         *)
EXTENDS Integers, Sequences, FiniteSets, SequencesExt

CONSTANTS MaxFrameNum, MaxPocLsb,   \* where the stream's numbers wrap
          ParamSets,                \* the SPS an encoder may write
          MaxPictures               \* bound

ASSUME WrapAssumption ==
  MaxFrameNum \in Nat /\ MaxFrameNum > 2 /\ MaxPocLsb \in Nat /\ MaxPocLsb > 1
ASSUME ParamAssumption == ParamSets \subseteq [by : {"va", "other"}, n : Nat]

VARIABLES sps, slots, current_ref, frame_num, poc, started,  \* H264Encoder
          window, count,                \* another encoder's references, and its pictures
          pictures,                     \* how many were made
          unit                          \* the access unit on its way, if any
encoder == <<sps, slots, current_ref, frame_num, poc, started, window, count, pictures>>

NoUnit == [id |-> 0]
NoPicture == [id |-> 0, frame_num |-> 0]
Unset == 2    \* current_ref is None

(* The parameter sets, bit by bit: one reference and order counts, or two and none. *)
Syntax == INSTANCE H264Syntax
SpsOf ==
  [va |-> Syntax!OwnSps(64, 50),
   other |-> [Syntax!OwnSps(64, 50) EXCEPT !.max_num_ref_frames = 2, !.pic_order_cnt_type = 2,
                                           !.log2_max_pic_order_cnt_lsb_minus4 = 0]]
Refs(s) == SpsOf[s.by].max_num_ref_frames
PocType(s) == SpsOf[s.by].pic_order_cnt_type

EncoderInit ==
  /\ sps \in ParamSets
  /\ slots = [i \in 0..1 |-> NoPicture] /\ current_ref = Unset
  /\ frame_num = 0 /\ poc = 0 /\ started = FALSE
  /\ window = <<>> /\ count = 0
  /\ pictures = 0 /\ unit = NoUnit

\* A fresh encoder, as after a rate change on the CPU or a fallback to it; its
\* SPS may be the old one.
Start ==
  /\ unit = NoUnit
  /\ sps' \in ParamSets
  /\ slots' = [i \in 0..1 |-> NoPicture] /\ current_ref' = Unset
  /\ frame_num' = 0 /\ poc' = 0 /\ started' = FALSE
  /\ window' = <<>> /\ count' = 0
  /\ UNCHANGED <<pictures, unit>>

\* The SliceHeader of a picture; its numbers keep the width the SPS gives them.
\* from, unmarked and poc are the encoder's intention, not in the stream.
Header(number, order, idr, ref, from, mods, mmcos, unmarked) ==
  [id |-> pictures + 1, sps |-> sps, idr |-> idr, ref |-> ref,
   frame_num |-> number % MaxFrameNum, lsb |-> order % MaxPocLsb,
   mods |-> mods, mmcos |-> mmcos, from |-> from, unmarked |-> unmarked, poc |-> order]

\* The header the decoder reads of it: order counts of type 2 are not written.
Parsed(header) == IF PocType(header.sps) = 0 THEN header ELSE [header EXCEPT !.lsb = 0]
Written(number, order, idr, ref, from, mods, mmcos, unmarked) ==
  unit' = Parsed(Header(number, order, idr, ref, from, mods, mmcos, unmarked))

Picture ==
  /\ unit = NoUnit /\ pictures < MaxPictures
  /\ pictures' = pictures + 1

\* H264Encoder::submit, and finish: an IDR restarts the numbers; the picture
\* takes the slot its reference does not use.
Submit(force) ==
  LET idr == force \/ ~started \/ current_ref = Unset
      number == IF idr THEN 0 ELSE frame_num
      order == IF idr THEN 0 ELSE poc
      setup == IF idr THEN 0 ELSE 1 - current_ref
  IN
  /\ sps.by = "va" /\ Picture
  /\ Written(number, order, idr, TRUE, IF idr THEN 0 ELSE slots[current_ref].id, <<>>, <<>>, {})
  /\ slots' = [slots EXCEPT ![setup] = [id |-> pictures + 1, frame_num |-> number]]
  /\ current_ref' = setup
  /\ frame_num' = (number + 1) % MaxFrameNum
  /\ poc' = order + 1
  /\ started' = TRUE
  /\ UNCHANGED <<sps, window, count>>

-------------------------------------------------------------------------------
(* Another encoder: window holds its references with their frame numbers before *)
(* they wrap, count is the next one.                                            *)
OtherIdr ==
  /\ sps.by # "va" /\ Picture
  /\ Written(0, 0, TRUE, TRUE, 0, <<>>, <<>>, {})
  /\ window' = <<[id |-> pictures + 1, n |-> 0]>> /\ count' = 1 /\ poc' = 0
  /\ UNCHANGED <<sps, slots, current_ref, frame_num, started>>

\* No reference outlives its frame number: a later picture may not bear it.
Distinct == window # <<>> /\ count - Head(window).n < MaxFrameNum

\* A distance in frame numbers, as modifications and marking operations code it.
Behind(r) == count - r.n - 1
Mods(r) == IF r = Last(window) THEN <<>> ELSE <<[idc |-> 0, value |-> Behind(r)]>>
With(references) ==
  LET all == Append(references, [id |-> pictures + 1, n |-> count])
  IN  IF Len(all) > Refs(sps) THEN Tail(all) ELSE all

OtherReference ==
  /\ sps.by # "va" /\ Distinct /\ Picture
  /\ \E k \in DOMAIN window :
       \/ /\ Written(count, 2 * count, FALSE, TRUE, window[k].id, Mods(window[k]), <<>>, {})
          /\ window' = With(window)
       \/ \E u \in DOMAIN window :
            /\ Written(count, 2 * count, FALSE, TRUE, window[k].id, Mods(window[k]),
                       <<[op |-> 1, difference_of_pic_nums_minus1 |-> Behind(window[u])]>>,
                       {window[u].id})
            /\ window' = With(RemoveAt(window, u))
  /\ count' = count + 1 /\ poc' = 2 * count
  /\ UNCHANGED <<sps, slots, current_ref, frame_num, started>>

\* Operation 5: it alone is a reference from now on, and the count restarts with
\* it as frame 0.
OtherReset ==
  /\ sps.by # "va" /\ Distinct /\ Picture
  /\ \E k \in DOMAIN window :
       Written(count, 2 * count, FALSE, TRUE, window[k].id, Mods(window[k]),
               <<[op |-> 5, difference_of_pic_nums_minus1 |-> 0]>>,
               {window[j].id : j \in DOMAIN window})
  /\ window' = <<[id |-> pictures + 1, n |-> 0]>> /\ count' = 1 /\ poc' = 0
  /\ UNCHANGED <<sps, slots, current_ref, frame_num, started>>

\* Not a reference; two of them never follow each other.
OtherDisposable ==
  /\ sps.by # "va" /\ Distinct /\ 2 * count - 1 > poc /\ Picture
  /\ \E k \in DOMAIN window :
       Written(count, 2 * count - 1, FALSE, FALSE, window[k].id, Mods(window[k]), <<>>, {})
  /\ poc' = 2 * count - 1
  /\ UNCHANGED <<sps, slots, current_ref, frame_num, started, window, count>>

Encode == \/ \E force \in BOOLEAN : Submit(force)
          \/ OtherIdr \/ OtherReference \/ OtherReset \/ OtherDisposable
===============================================================================

----------------------------- MODULE H264Syntax -------------------------------
(* The headers of an H.264 stream, bit by bit: gliff-va/src/h264, whose writer  *)
(* (writer.rs) and reader (parser.rs, bits.rs, annexb.rs) state the syntax       *)
(* separately.  Bits are sequences of 0 and 1, bytes sequences of 0..255.  Left  *)
(* out: scaling lists and prediction weights, which are read and never written.  *)
EXTENDS Integers, Sequences, FiniteSets, FiniteSetsExt, SequencesExt, TLC

NAL_SLICE == 1
NAL_IDR == 5
NAL_SPS == 7
NAL_PPS == 8

\* FoldLeft, by a recursive function: TLC takes it over long sequences.
Fold(op(_, _), base, seq) ==
  LET f[i \in 0..Len(seq)] == IF i = 0 THEN base ELSE op(f[i - 1], seq[i])
  IN  f[Len(seq)]

-------------------------------------------------------------------------------
(* BitWriter: the bits pushed, padded to whole bytes.                            *)
U(n, v) == [i \in 1..n |-> (v \div 2^(n - i)) % 2]
Flag(b) == IF b THEN <<1>> ELSE <<0>>
BitLen(x) == CHOOSE n \in 1..30 : 2^(n - 1) <= x /\ x < 2^n
Ue(v) == [i \in 1..BitLen(v + 1) - 1 |-> 0] \o U(BitLen(v + 1), v + 1)
Se(v) == Ue(IF v > 0 THEN 2 * v - 1 ELSE -2 * v)
Align(bits) == bits \o [i \in 1..((-Len(bits)) % 8) |-> 0]
TrailingBits(bits) == Align(bits \o <<1>>)

Value(bits) == Fold(LAMBDA v, b : 2 * v + b, 0, bits)
Bytes(bits) == [i \in 1..(Len(bits) \div 8) |-> Value(SubSeq(bits, 8 * i - 7, 8 * i))]
BitsOf(bytes) == FlattenSeq([i \in DOMAIN bytes |-> U(8, bytes[i])])

\* No 00 00 0x with x <= 3 is left.
EscapeRbsp(raw) ==
  LET push(a, b) ==
        IF a.zeros >= 2 /\ b <= 3
        THEN [out |-> a.out \o <<3, b>>, zeros |-> IF b = 0 THEN 1 ELSE 0]
        ELSE [out |-> Append(a.out, b), zeros |-> IF b = 0 THEN a.zeros + 1 ELSE 0]
  IN  Fold(push, [out |-> <<>>, zeros |-> 0], raw).out

NalUnit(ref_idc, nal_type, rbsp) == <<(ref_idc % 4) * 32 + (nal_type % 32)>> \o EscapeRbsp(rbsp)

-------------------------------------------------------------------------------
(* The writer.  A list of operations is a sequence of records, <<>> for none;    *)
(* mmcos is the empty set for the sliding window, or the set of its one list.    *)
HighProfiles == {100, 110, 122, 244, 44, 83, 86, 118, 128, 138, 139, 134, 135}

If(condition, bits) == IF condition THEN bits ELSE <<>>
Each(list, Code(_)) == FlattenSeq([i \in DOMAIN list |-> Code(list[i])])

WriteSps(s) ==
  Bytes(TrailingBits(
    U(8, s.profile_idc) \o U(8, s.constraint_flags) \o U(8, s.level_idc) \o Ue(s.sps_id)
    \o If(s.profile_idc \in HighProfiles,
          Ue(s.chroma_format_idc)
          \o If(s.chroma_format_idc = 3, Flag(s.separate_colour_plane))
          \o Ue(s.bit_depth_luma_minus8) \o Ue(s.bit_depth_chroma_minus8)
          \o Flag(s.qpprime_y_zero_transform_bypass) \o Flag(FALSE))
    \o Ue(s.log2_max_frame_num_minus4) \o Ue(s.pic_order_cnt_type)
    \o If(s.pic_order_cnt_type = 0, Ue(s.log2_max_pic_order_cnt_lsb_minus4))
    \o If(s.pic_order_cnt_type = 1,
          Flag(s.delta_pic_order_always_zero) \o Se(s.offset_for_non_ref_pic)
          \o Se(s.offset_for_top_to_bottom_field)
          \o Ue(Len(s.offset_for_ref_frame)) \o Each(s.offset_for_ref_frame, Se))
    \o Ue(s.max_num_ref_frames) \o Flag(s.gaps_in_frame_num_allowed)
    \o Ue(s.pic_width_in_mbs_minus1) \o Ue(s.pic_height_in_map_units_minus1)
    \o Flag(s.frame_mbs_only) \o If(~s.frame_mbs_only, Flag(s.mb_adaptive_frame_field))
    \o Flag(s.direct_8x8_inference)
    \o Flag(s.frame_cropping # <<>>) \o Each(s.frame_cropping, Ue)
    \o Flag(FALSE)))

WritePps(p) ==
  Bytes(TrailingBits(
    Ue(p.pps_id) \o Ue(p.sps_id) \o Flag(p.entropy_coding_mode)
    \o Flag(p.bottom_field_pic_order_in_frame_present) \o Ue(0)
    \o Ue(p.num_ref_idx_l0_default_active_minus1) \o Ue(p.num_ref_idx_l1_default_active_minus1)
    \o Flag(p.weighted_pred) \o U(2, p.weighted_bipred_idc)
    \o Se(p.pic_init_qp_minus26) \o Se(p.pic_init_qs_minus26) \o Se(p.chroma_qp_index_offset)
    \o Flag(p.deblocking_filter_control_present) \o Flag(p.constrained_intra_pred)
    \o Flag(p.redundant_pic_cnt_present)
    \o If(p.transform_8x8_mode \/ p.second_chroma_qp_index_offset # p.chroma_qp_index_offset,
          Flag(p.transform_8x8_mode) \o Flag(FALSE) \o Se(p.second_chroma_qp_index_offset))))

IsIdr(sh) == sh.nal_type = NAL_IDR
IsReference(sh) == sh.ref_idc # 0

WriteMod(m) == Ue(m.idc) \o Ue(m.value)
WriteMmco(m) ==
  Ue(m.op)
  \o If(m.op \in {1, 3}, Ue(m.difference_of_pic_nums_minus1))
  \o If(m.op = 2, Ue(m.long_term_pic_num))
  \o If(m.op \in {3, 6}, Ue(m.long_term_frame_idx))
  \o If(m.op = 4, Ue(m.max_long_term_frame_idx_plus1))

\* The header's bits, with no stop bit: the slice's data follows.
WriteSliceHeader(sh, sps, pps) ==
  LET p == sh.slice_type = "P"
      bottom == pps.bottom_field_pic_order_in_frame_present
  IN
  Ue(sh.first_mb_in_slice) \o Ue(IF p THEN 0 ELSE 2) \o Ue(sh.pps_id)
  \o If(sps.separate_colour_plane, U(2, 0))
  \o U(sps.log2_max_frame_num_minus4 + 4, sh.frame_num)
  \o If(IsIdr(sh), Ue(sh.idr_pic_id))
  \o If(sps.pic_order_cnt_type = 0,
        U(sps.log2_max_pic_order_cnt_lsb_minus4 + 4, sh.pic_order_cnt_lsb)
        \o If(bottom, Se(sh.delta_pic_order_cnt_bottom)))
  \o If(sps.pic_order_cnt_type = 1 /\ ~sps.delta_pic_order_always_zero,
        Se(sh.delta_pic_order_cnt_0) \o If(bottom, Se(sh.delta_pic_order_cnt_1)))
  \o If(pps.redundant_pic_cnt_present, Ue(0))
  \o If(p, Flag(sh.num_ref_idx_active_override)
           \o If(sh.num_ref_idx_active_override, Ue(sh.num_ref_idx_l0_active_minus1))
           \o Flag(sh.ref_list_mods_l0 # <<>>)
           \o If(sh.ref_list_mods_l0 # <<>>, Each(sh.ref_list_mods_l0, WriteMod) \o Ue(3)))
  \o If(IsReference(sh) /\ IsIdr(sh),
        Flag(sh.no_output_of_prior_pics) \o Flag(sh.long_term_reference))
  \o If(IsReference(sh) /\ ~IsIdr(sh),
        Flag(sh.mmcos # {})
        \o FlattenSeq([i \in 1..Cardinality(sh.mmcos) |->
             Each(CHOOSE ops \in sh.mmcos : TRUE, WriteMmco) \o Ue(0)]))
  \o If(pps.entropy_coding_mode /\ p, Ue(sh.cabac_init_idc))
  \o Se(sh.slice_qp_delta)
  \o If(pps.deblocking_filter_control_present,
        Ue(sh.disable_deblocking_filter_idc)
        \o If(sh.disable_deblocking_filter_idc # 1,
              Se(sh.slice_alpha_c0_offset_div2) \o Se(sh.slice_beta_offset_div2)))

-------------------------------------------------------------------------------
(* An access unit, in Annex B: the parameter sets in front of an IDR.  data are  *)
(* the bits of the slice after its header, the driver's.                         *)
StartCode == <<0, 0, 0, 1>>
AccessUnit(sps, pps, sh, data) ==
  If(IsIdr(sh), StartCode \o NalUnit(3, NAL_SPS, WriteSps(sps))
                \o StartCode \o NalUnit(3, NAL_PPS, WritePps(pps)))
  \o StartCode
  \o NalUnit(sh.ref_idc, sh.nal_type,
             Bytes(TrailingBits(WriteSliceHeader(sh, sps, pps) \o data)))

\* nal_units: the bytes between start codes, less the zeros at their end.
NalUnits(data) ==
  LET starts == SetToSortSeq({i \in 1..Len(data) - 2 : SubSeq(data, i, i + 2) = <<0, 0, 1>>}, <)
      end(n) == IF n = Len(starts) THEN Len(data) ELSE starts[n + 1] - 1
      last(n) == Max({starts[n] + 2} \cup {i \in starts[n] + 3..end(n) : data[i] # 0})
      units == [n \in DOMAIN starts |-> SubSeq(data, starts[n] + 3, last(n))]
  IN  SelectSeq(units, LAMBDA unit : unit # <<>>)
NalType(unit) == unit[1] % 32
RefIdc(unit) == (unit[1] \div 32) % 4

-------------------------------------------------------------------------------
(* The reader: r has the bits, how many were read, the fields h read so far, and *)
(* whether no read failed.  A syntax is the sequence of its fields, each with    *)
(* its code and the width or the greatest value, and the condition it is there.  *)
UnescapeRbsp(nal) ==
  LET take(a, b) ==
        IF a.zeros >= 2 /\ b = 3 THEN [a EXCEPT !.zeros = 0]
        ELSE [out |-> Append(a.out, b), zeros |-> IF b = 0 THEN a.zeros + 1 ELSE 0]
  IN  Fold(take, [out |-> <<>>, zeros |-> 0], nal).out

Reader(unit, h) == [bits |-> BitsOf(UnescapeRbsp(Tail(unit))), pos |-> 0, ok |-> TRUE, h |-> h]
AnyValue == 2^29
Failed == [ok |-> FALSE]
Got(v, pos) == [ok |-> TRUE, v |-> v, pos |-> pos]

ReadBits(bits, pos, n) ==
  IF pos + n > Len(bits) THEN Failed ELSE Got(Value(SubSeq(bits, pos + 1, pos + n)), pos + n)
ReadUe(bits, pos, max) ==
  LET one == SelectInSubSeq(bits, pos + 1, Len(bits), LAMBDA b : b = 1)
      zeros == one - pos - 1
      rest == ReadBits(bits, one, zeros)
  IN  IF one = 0 \/ zeros > 31 \/ ~rest.ok \/ 2^zeros - 1 + rest.v > max THEN Failed
      ELSE Got(2^zeros - 1 + rest.v, rest.pos)
ReadSe(bits, pos) ==
  LET k == ReadUe(bits, pos, AnyValue)
  IN  IF ~k.ok THEN Failed
      ELSE Got(IF k.v % 2 = 1 THEN (k.v + 1) \div 2 ELSE -(k.v \div 2), k.pos)

\* `as u8` and `as i8`.
AsU8(x) == IF x.ok THEN [x EXCEPT !.v = @ % 256] ELSE x
AsI8(x) == IF x.ok THEN [x EXCEPT !.v = ((@ + 128) % 256) - 128] ELSE x

\* n values of one code, Read(pos).
ReadEach(pos, n, Read(_)) ==
  LET next(a, i) ==
        IF ~a.ok THEN a
        ELSE LET x == Read(a.pos) IN IF x.ok THEN Got(Append(a.v, x.v), x.pos) ELSE Failed
  IN  Fold(next, Got(<<>>, pos), [i \in 1..n |-> i])
Ues(bits, pos, n, max) == ReadEach(pos, n, LAMBDA at : ReadUe(bits, at, max))

ReadCrop(bits, pos) ==
  LET present == ReadBits(bits, pos, 1)
  IN  IF ~present.ok THEN Failed ELSE Ues(bits, present.pos, 4 * present.v, 8192)
ReadOffsets(bits, pos) ==
  LET n == ReadUe(bits, pos, 255)
  IN  IF ~n.ok THEN Failed ELSE ReadEach(n.pos, n.v, LAMBDA at : ReadSe(bits, at))

\* Entries up to the one that ends the list, and no more than a sane number.
ReadUntil(pos, end, most, ReadEntry(_)) ==
  LET next(a, i) ==
        IF a = Failed \/ a.done THEN a
        ELSE LET x == ReadEntry(a.pos)
             IN  IF ~x.ok THEN Failed
                 ELSE IF x.v = end THEN [a EXCEPT !.done = TRUE, !.pos = x.pos]
                 ELSE IF i > most THEN Failed
                 ELSE [a EXCEPT !.v = Append(@, x.v), !.pos = x.pos]
      start == [ok |-> TRUE, done |-> FALSE, v |-> <<>>, pos |-> pos]
  IN  Fold(next, start, [i \in 1..most + 1 |-> i])

\* An entry of ref_pic_list_modification, a pair; idc 3 ends them.
EndOfMods == [idc |-> 3, value |-> 0]
ReadMod(bits, pos) ==
  LET idc == ReadUe(bits, pos, 5)
      value == ReadUe(bits, idc.pos, AnyValue)
  IN  IF ~idc.ok THEN Failed
      ELSE IF idc.v = 3 THEN Got(EndOfMods, idc.pos)
      ELSE IF ~value.ok THEN Failed
      ELSE Got([idc |-> idc.v, value |-> value.v], value.pos)

\* The operands of a memory management operation, in their order.
Operands(op) ==
  CASE op = 1 -> <<"difference_of_pic_nums_minus1">>
    [] op = 2 -> <<"long_term_pic_num">>
    [] op = 3 -> <<"difference_of_pic_nums_minus1", "long_term_frame_idx">>
    [] op = 4 -> <<"max_long_term_frame_idx_plus1">>
    [] op = 6 -> <<"long_term_frame_idx">>
    [] OTHER -> <<>>
Mmco(op, values) ==
  LET of(field) == LET k == SelectInSeq(Operands(op), LAMBDA f : f = field)
                   IN  IF k = 0 THEN 0 ELSE values[k]
  IN  [op |-> op,
       difference_of_pic_nums_minus1 |-> of("difference_of_pic_nums_minus1"),
       long_term_pic_num |-> of("long_term_pic_num"),
       long_term_frame_idx |-> of("long_term_frame_idx"),
       max_long_term_frame_idx_plus1 |-> of("max_long_term_frame_idx_plus1")]
ReadMmco(bits, pos) ==
  LET op == ReadUe(bits, pos, 6)
      values == Ues(bits, op.pos, Len(Operands(op.v)), AnyValue)
  IN  IF ~op.ok \/ ~values.ok THEN Failed ELSE Got(Mmco(op.v, values.v), values.pos)

InSet(x) == IF x.ok THEN [x EXCEPT !.v = {@}] ELSE x

\* A list behind a flag.
IfFlagged(bits, pos, none, Read(_)) ==
  LET present == ReadBits(bits, pos, 1)
  IN  IF ~present.ok THEN Failed
      ELSE IF present.v = 0 THEN Got(none, present.pos) ELSE Read(present.pos)

\* more_rbsp_data: there is a 1 after this bit, the stop bit.
MoreData(bits, pos) == \E i \in pos + 2..Len(bits) : bits[i] = 1

ReadCode(bits, pos, code, n) ==
  CASE code = "u" -> ReadBits(bits, pos, n)
    [] code = "flag" -> LET b == ReadBits(bits, pos, 1)
                        IN  IF b.ok THEN Got(b.v = 1, b.pos) ELSE Failed
    [] code = "ue" -> ReadUe(bits, pos, n)
    [] code = "u8" -> AsU8(ReadUe(bits, pos, n))
    [] code = "se" -> ReadSe(bits, pos)
    [] code = "i8" -> AsI8(ReadSe(bits, pos))
    [] code = "crop" -> ReadCrop(bits, pos)
    [] code = "offsets" -> ReadOffsets(bits, pos)
    [] code = "mods" -> 
         IfFlagged(bits, pos, <<>>, LAMBDA at :
           ReadUntil(at, EndOfMods, 64, LAMBDA p : ReadMod(bits, p)))
    [] code = "mmcos" -> 
         IfFlagged(bits, pos, {}, LAMBDA at :
           InSet(ReadUntil(at, Mmco(0, <<>>), 32, LAMBDA p : ReadMmco(bits, p))))
    [] code = "more" -> Got(MoreData(bits, pos), pos)
    [] code = "position" -> Got(pos, pos)
    [] code = "type" -> LET t == ReadUe(bits, pos, AnyValue)
                        IN  IF ~t.ok \/ t.v % 5 > 2 THEN Failed
                            ELSE Got(<<"P", "B", "I">>[(t.v % 5) + 1], t.pos)

ReadFields(r, syntax, Present(_, _)) ==
  LET read(a, k) ==
        LET field == syntax[k]
            x == ReadCode(a.bits, a.pos, field[2], field[3])
        IN  IF ~a.ok \/ ~Present(a.h, field[1]) THEN a
            ELSE IF x.ok THEN [a EXCEPT !.pos = x.pos, !.h = (field[1] :> x.v) @@ @]
            ELSE [a EXCEPT !.ok = FALSE]
  IN  Fold(read, r, [k \in DOMAIN syntax |-> k])

-------------------------------------------------------------------------------
(* The three syntaxes, as the parser reads them.                                 *)
DefaultSps ==
  [profile_idc |-> 0, constraint_flags |-> 0, level_idc |-> 0, sps_id |-> 0,
   chroma_format_idc |-> 1, separate_colour_plane |-> FALSE, bit_depth_luma_minus8 |-> 0,
   bit_depth_chroma_minus8 |-> 0, qpprime_y_zero_transform_bypass |-> FALSE,
   log2_max_frame_num_minus4 |-> 0, pic_order_cnt_type |-> 0,
   log2_max_pic_order_cnt_lsb_minus4 |-> 0, delta_pic_order_always_zero |-> FALSE,
   offset_for_non_ref_pic |-> 0, offset_for_top_to_bottom_field |-> 0,
   offset_for_ref_frame |-> <<>>, max_num_ref_frames |-> 0, gaps_in_frame_num_allowed |-> FALSE,
   pic_width_in_mbs_minus1 |-> 0, pic_height_in_map_units_minus1 |-> 0,
   frame_mbs_only |-> FALSE, mb_adaptive_frame_field |-> FALSE, direct_8x8_inference |-> FALSE,
   frame_cropping |-> <<>>, vui_present |-> FALSE]

SpsSyntax ==
  <<<<"profile_idc", "u", 8>>, <<"constraint_flags", "u", 8>>, <<"level_idc", "u", 8>>,
    <<"sps_id", "u8", AnyValue>>, <<"chroma_format_idc", "u8", AnyValue>>,
    <<"separate_colour_plane", "flag", 1>>, <<"bit_depth_luma_minus8", "u8", AnyValue>>,
    <<"bit_depth_chroma_minus8", "u8", AnyValue>>,
    <<"qpprime_y_zero_transform_bypass", "flag", 1>>, <<"scaling_lists", "flag", 1>>,
    <<"log2_max_frame_num_minus4", "ue", 12>>, <<"pic_order_cnt_type", "u8", AnyValue>>,
    <<"log2_max_pic_order_cnt_lsb_minus4", "ue", 12>>,
    <<"delta_pic_order_always_zero", "flag", 1>>, <<"offset_for_non_ref_pic", "se", 0>>,
    <<"offset_for_top_to_bottom_field", "se", 0>>, <<"offset_for_ref_frame", "offsets", 255>>,
    <<"max_num_ref_frames", "ue", 16>>, <<"gaps_in_frame_num_allowed", "flag", 1>>,
    <<"pic_width_in_mbs_minus1", "ue", 1023>>, <<"pic_height_in_map_units_minus1", "ue", 1023>>,
    <<"frame_mbs_only", "flag", 1>>, <<"mb_adaptive_frame_field", "flag", 1>>,
    <<"direct_8x8_inference", "flag", 1>>, <<"frame_cropping", "crop", 8192>>,
    <<"vui_present", "flag", 1>>>>

InSps(h, field) ==
  CASE field \in {"chroma_format_idc", "bit_depth_luma_minus8", "bit_depth_chroma_minus8",
                  "qpprime_y_zero_transform_bypass", "scaling_lists"} ->
         h.profile_idc \in HighProfiles
    [] field = "separate_colour_plane" ->
         h.profile_idc \in HighProfiles /\ h.chroma_format_idc = 3
    [] field = "log2_max_pic_order_cnt_lsb_minus4" -> h.pic_order_cnt_type = 0
    [] field \in {"delta_pic_order_always_zero", "offset_for_non_ref_pic",
                  "offset_for_top_to_bottom_field", "offset_for_ref_frame"} ->
         h.pic_order_cnt_type = 1
    [] field = "mb_adaptive_frame_field" -> ~h.frame_mbs_only
    [] OTHER -> TRUE

\* Read, and of the kind the decoder takes.
ParseSps(unit) ==
  LET r == ReadFields(Reader(unit, "scaling_lists" :> FALSE @@ DefaultSps), SpsSyntax, InSps)
  IN  [r EXCEPT !.ok = /\ r.ok /\ ~r.h.scaling_lists /\ r.h.pic_order_cnt_type <= 2
                       /\ r.h.frame_mbs_only /\ r.h.chroma_format_idc = 1
                       /\ r.h.bit_depth_luma_minus8 = 0 /\ r.h.bit_depth_chroma_minus8 = 0]

DefaultPps ==
  [pps_id |-> 0, sps_id |-> 0, entropy_coding_mode |-> FALSE,
   bottom_field_pic_order_in_frame_present |-> FALSE,
   num_ref_idx_l0_default_active_minus1 |-> 0, num_ref_idx_l1_default_active_minus1 |-> 0,
   weighted_pred |-> FALSE, weighted_bipred_idc |-> 0, pic_init_qp_minus26 |-> 0,
   pic_init_qs_minus26 |-> 0, chroma_qp_index_offset |-> 0,
   deblocking_filter_control_present |-> FALSE, constrained_intra_pred |-> FALSE,
   redundant_pic_cnt_present |-> FALSE, transform_8x8_mode |-> FALSE,
   second_chroma_qp_index_offset |-> 0]

PpsSyntax ==
  <<<<"pps_id", "u8", AnyValue>>, <<"sps_id", "u8", AnyValue>>,
    <<"entropy_coding_mode", "flag", 1>>,
    <<"bottom_field_pic_order_in_frame_present", "flag", 1>>, <<"slice_groups", "ue", 0>>,
    <<"num_ref_idx_l0_default_active_minus1", "u8", AnyValue>>,
    <<"num_ref_idx_l1_default_active_minus1", "u8", AnyValue>>,
    <<"weighted_pred", "flag", 1>>, <<"weighted_bipred_idc", "u", 2>>,
    <<"pic_init_qp_minus26", "i8", 0>>, <<"pic_init_qs_minus26", "i8", 0>>,
    <<"chroma_qp_index_offset", "i8", 0>>, <<"deblocking_filter_control_present", "flag", 1>>,
    <<"constrained_intra_pred", "flag", 1>>, <<"redundant_pic_cnt_present", "flag", 1>>,
    <<"more", "more", 0>>, <<"transform_8x8_mode", "flag", 1>>, <<"scaling_lists", "flag", 1>>,
    <<"second_chroma_qp_index_offset", "i8", 0>>>>

InPps(h, field) ==
  field \in {"transform_8x8_mode", "scaling_lists", "second_chroma_qp_index_offset"} => h.more

ParsePps(unit) ==
  LET r == ReadFields(Reader(unit, "scaling_lists" :> FALSE @@ DefaultPps), PpsSyntax, InPps)
  IN  [r EXCEPT !.ok = r.ok /\ ~r.h.scaling_lists,
                !.h.second_chroma_qp_index_offset =
                   IF r.ok /\ ~r.h.more THEN r.h.chroma_qp_index_offset ELSE @]
DefaultSlice ==
  [nal_type |-> NAL_SLICE, ref_idc |-> 0, first_mb_in_slice |-> 0, slice_type |-> "P",
   pps_id |-> 0, frame_num |-> 0, idr_pic_id |-> 0, pic_order_cnt_lsb |-> 0,
   delta_pic_order_cnt_bottom |-> 0, delta_pic_order_cnt_0 |-> 0, delta_pic_order_cnt_1 |-> 0,
   num_ref_idx_active_override |-> FALSE, num_ref_idx_l0_active_minus1 |-> 0,
   ref_list_mods_l0 |-> <<>>, no_output_of_prior_pics |-> FALSE, long_term_reference |-> FALSE,
   mmcos |-> {}, cabac_init_idc |-> 0, slice_qp_delta |-> 0,
   disable_deblocking_filter_idc |-> 0, slice_alpha_c0_offset_div2 |-> 0,
   slice_beta_offset_div2 |-> 0]

SliceSyntax(sps) ==
  <<<<"first_mb_in_slice", "ue", AnyValue>>, <<"slice_type", "type", 0>>,
    <<"pps_id", "u8", AnyValue>>, <<"colour_plane", "u", 2>>,
    <<"frame_num", "u", sps.log2_max_frame_num_minus4 + 4>>, <<"idr_pic_id", "ue", AnyValue>>,
    <<"pic_order_cnt_lsb", "u", sps.log2_max_pic_order_cnt_lsb_minus4 + 4>>,
    <<"delta_pic_order_cnt_bottom", "se", 0>>, <<"delta_pic_order_cnt_0", "se", 0>>,
    <<"delta_pic_order_cnt_1", "se", 0>>, <<"redundant_pic_cnt", "ue", AnyValue>>,
    <<"direct_spatial_mv_pred", "flag", 1>>, <<"num_ref_idx_active_override", "flag", 1>>,
    <<"num_ref_idx_l0_active_minus1", "ue", 31>>, <<"num_ref_idx_l1_active_minus1", "ue", 31>>,
    <<"ref_list_mods_l0", "mods", 64>>, <<"ref_list_mods_l1", "mods", 64>>,
    <<"no_output_of_prior_pics", "flag", 1>>, <<"long_term_reference", "flag", 1>>,
    <<"mmcos", "mmcos", 32>>, <<"cabac_init_idc", "ue", 2>>, <<"slice_qp_delta", "i8", 0>>,
    <<"disable_deblocking_filter_idc", "ue", 2>>, <<"slice_alpha_c0_offset_div2", "i8", 0>>,
    <<"slice_beta_offset_div2", "i8", 0>>, <<"header_bits", "position", 0>>>>

InSlice(sps, pps, h, field) ==
  LET bottom == pps.bottom_field_pic_order_in_frame_present
      deltas == sps.pic_order_cnt_type = 1 /\ ~sps.delta_pic_order_always_zero
  IN
  CASE field = "colour_plane" -> sps.separate_colour_plane
    [] field = "idr_pic_id" -> IsIdr(h)
    [] field = "pic_order_cnt_lsb" -> sps.pic_order_cnt_type = 0
    [] field = "delta_pic_order_cnt_bottom" -> sps.pic_order_cnt_type = 0 /\ bottom
    [] field = "delta_pic_order_cnt_0" -> deltas
    [] field = "delta_pic_order_cnt_1" -> deltas /\ bottom
    [] field = "redundant_pic_cnt" -> pps.redundant_pic_cnt_present
    [] field \in {"direct_spatial_mv_pred", "ref_list_mods_l1"} -> h.slice_type = "B"
    [] field \in {"num_ref_idx_active_override", "ref_list_mods_l0"} -> h.slice_type # "I"
    [] field = "num_ref_idx_l0_active_minus1" -> h.num_ref_idx_active_override
    [] field = "num_ref_idx_l1_active_minus1" ->
         h.num_ref_idx_active_override /\ h.slice_type = "B"
    [] field \in {"no_output_of_prior_pics", "long_term_reference"} -> IsReference(h) /\ IsIdr(h)
    [] field = "mmcos" -> IsReference(h) /\ ~IsIdr(h)
    [] field = "cabac_init_idc" -> pps.entropy_coding_mode /\ h.slice_type # "I"
    [] field = "disable_deblocking_filter_idc" -> pps.deblocking_filter_control_present
    [] field \in {"slice_alpha_c0_offset_div2", "slice_beta_offset_div2"} ->
         pps.deblocking_filter_control_present /\ h.disable_deblocking_filter_idc # 1
    [] OTHER -> TRUE

ParseSliceHeader(unit, sps, pps) ==
  LET h == [DefaultSlice EXCEPT
              !.nal_type = NalType(unit), !.ref_idc = RefIdc(unit),
              !.num_ref_idx_l0_active_minus1 = pps.num_ref_idx_l0_default_active_minus1]
  IN  ReadFields(Reader(unit, h), SliceSyntax(sps), LAMBDA a, f : InSlice(sps, pps, a, f))

-------------------------------------------------------------------------------
(* H264Decoder::decode, up to the first slice's header: the parameter sets of    *)
(* the access unit, or those known from an earlier one.                          *)
OfType(units, t) == SelectSeq(units, LAMBDA unit : NalType(unit) \in t)
ReadUnit(access_unit, known) ==
  LET units == NalUnits(access_unit)
      spss == OfType(units, {NAL_SPS})
      ppss == OfType(units, {NAL_PPS})
      sps == IF spss = <<>> THEN known.sps ELSE ParseSps(Head(spss))
      pps == IF ppss = <<>> THEN known.pps ELSE ParsePps(Head(ppss))
  IN  [sps |-> sps, pps |-> pps,
       slice |-> ParseSliceHeader(Head(OfType(units, {NAL_SLICE, NAL_IDR})), sps.h, pps.h)]

\* What was written is read: each of the record's fields, and nothing failed.
Survives(record, r) == r.ok /\ \A field \in DOMAIN record : r.h[field] = record[field]

-------------------------------------------------------------------------------
(* Sizes, in whole macroblocks and cropped; and what H264Encoder writes.         *)
CodedSize(sps) ==
  <<(sps.pic_width_in_mbs_minus1 + 1) * 16,
    (sps.pic_height_in_map_units_minus1 + 1) * 16 * (IF sps.frame_mbs_only THEN 1 ELSE 2)>>
DisplaySize(sps) ==
  LET crop == IF sps.frame_cropping = <<>> THEN <<0, 0, 0, 0>> ELSE sps.frame_cropping
      size == CodedSize(sps)
      less(a, b) == IF a < b THEN 0 ELSE a - b
  IN  <<less(size[1], 2 * (crop[1] + crop[2])), less(size[2], 2 * (crop[3] + crop[4]))>>

Coded(n) == ((n + 15) \div 16) * 16
OwnSps(width, height) ==
  LET cw == Coded(width)
      ch == Coded(height)
  IN  [DefaultSps EXCEPT
         !.profile_idc = 100, !.level_idc = 51, !.log2_max_frame_num_minus4 = 12,
         !.log2_max_pic_order_cnt_lsb_minus4 = 12, !.max_num_ref_frames = 1,
         !.pic_width_in_mbs_minus1 = cw \div 16 - 1, !.pic_height_in_map_units_minus1 = ch \div 16 - 1,
         !.frame_mbs_only = TRUE, !.direct_8x8_inference = TRUE,
         !.frame_cropping = IF cw # width \/ ch # height
                            THEN <<0, (cw - width) \div 2, 0, (ch - height) \div 2>> ELSE <<>>]
OwnPps ==
  [DefaultPps EXCEPT !.entropy_coding_mode = TRUE, !.deblocking_filter_control_present = TRUE]
OwnSlice(idr, number, idr_pic_id, lsb) ==
  [DefaultSlice EXCEPT
     !.nal_type = IF idr THEN NAL_IDR ELSE NAL_SLICE, !.ref_idc = 3,
     !.slice_type = IF idr THEN "I" ELSE "P", !.frame_num = number,
     !.idr_pic_id = idr_pic_id, !.pic_order_cnt_lsb = lsb,
     !.disable_deblocking_filter_idc = 1]
===============================================================================

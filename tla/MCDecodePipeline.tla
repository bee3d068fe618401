--------------------------- MODULE MCDecodePipeline ----------------------------
(* The GPU encoder's stream and another encoder's; and the header                  *)
(* syntax over samples of what either may write.                                 *)
EXTENDS DecodePipeline
MCParamSets == {[by |-> "va", n |-> 1], [by |-> "other", n |-> 1]}

MCOtherSps(type) ==
  [Syntax!OwnSps(64, 50) EXCEPT
     !.pic_order_cnt_type = type, !.log2_max_frame_num_minus4 = 0, !.max_num_ref_frames = 2,
     !.log2_max_pic_order_cnt_lsb_minus4 = IF type = 0 THEN 1 ELSE 0,
     !.offset_for_ref_frame = IF type = 1 THEN <<3, -4>> ELSE <<>>]
MCSps ==
  {Syntax!OwnSps(w, h) : w \in {64, 1366, 1920}, h \in {64, 1080, 4096}}
  \cup {[MCOtherSps(t) EXCEPT !.profile_idc = p] : t \in 0..2, p \in {66, 77, 100}}
MCPps ==
  {Syntax!OwnPps}
  \cup {[Syntax!DefaultPps EXCEPT
           !.transform_8x8_mode = t, !.second_chroma_qp_index_offset = q,
           !.bottom_field_pic_order_in_frame_present = b, !.redundant_pic_cnt_present = b,
           !.pic_init_qp_minus26 = -26] : t, b \in BOOLEAN, q \in {0, -12}}
MCMmcos ==
  {{}, {<<>>}, {<<Syntax!Mmco(1, <<2>>), Syntax!Mmco(3, <<5, 1>>)>>},
   {<<Syntax!Mmco(4, <<1>>), Syntax!Mmco(2, <<0>>), Syntax!Mmco(5, <<>>), Syntax!Mmco(6, <<3>>)>>}}
MCSlices ==
  {Syntax!OwnSlice(idr, n, 0, lsb) : idr \in BOOLEAN, n, lsb \in {0, 1, 255, 65535}}
  \cup {[Syntax!OwnSlice(FALSE, 0, 0, lsb) EXCEPT
           !.ref_list_mods_l0 = mods, !.mmcos = mmcos, !.slice_qp_delta = qp,
           !.disable_deblocking_filter_idc = 0, !.slice_alpha_c0_offset_div2 = -6] :
         lsb \in {0, 5}, mmcos \in MCMmcos, qp \in {-3, 0, 20},
         mods \in {<<>>, <<[idc |-> 0, value |-> 0], [idc |-> 1, value |-> 7]>>}}

\* What writer.rs writes of a parameter set, parser.rs reads back.
ASSUME SpsSurvive ==
  \A s \in MCSps : Syntax!Survives(s, Syntax!ParseSps(Syntax!NalUnit(3, Syntax!NAL_SPS, Syntax!WriteSps(s))))
ASSUME PpsSurvive ==
  \A p \in MCPps : Syntax!Survives(p, Syntax!ParsePps(Syntax!NalUnit(3, Syntax!NAL_PPS, Syntax!WritePps(p))))

\* A whole access unit is split into its units and each is read back.
ASSUME SlicesSurvive ==
  LET own == Syntax!OwnSps(1920, 1080)
      known == [sps |-> [h |-> own], pps |-> [h |-> Syntax!OwnPps]]
  IN  \A sh \in MCSlices :
        LET read == Syntax!ReadUnit(Syntax!AccessUnit(own, Syntax!OwnPps, sh, <<0, 0, 1>>), known)
        IN  /\ Syntax!Survives(sh, read.slice)
            /\ Syntax!IsIdr(sh) => Syntax!Survives(own, read.sps) /\ Syntax!Survives(Syntax!OwnPps, read.pps)

\* The headers of the model's own streams: H264Encoder's Parsed is what comes of
\* coding a header, framing it, splitting the access unit and reading it again.
MCDistances == 0..MaxFrameNum - 2
MCHeaders ==
  [sps : ParamSets, idr : BOOLEAN, ref : BOOLEAN, frame_num : 0..MaxFrameNum - 1,
   lsb : 0..MaxPocLsb - 1, mods : {<<>>} \cup {<<[idc |-> 0, value |-> v]>> : v \in MCDistances},
   mmcos : {<<>>, <<[op |-> 5, difference_of_pic_nums_minus1 |-> 0]>>}
           \cup {<<[op |-> 1, difference_of_pic_nums_minus1 |-> v]>> : v \in MCDistances}]
MCSliceOf(h) ==
  [Syntax!OwnSlice(h.idr, h.frame_num, 0, h.lsb) EXCEPT
     !.ref_idc = IF h.ref THEN 3 ELSE 0, !.ref_list_mods_l0 = h.mods,
     !.mmcos = {[k \in DOMAIN h.mmcos |->
                   LET o == h.mmcos[k] IN
                   Syntax!Mmco(o.op, IF o.op = 1 THEN <<o.difference_of_pic_nums_minus1>> ELSE <<>>)]}
               \ {<<>>}]
MCParses(h) == /\ (h.idr => h.mods = <<>>) /\ (h.mmcos # <<>> => h.ref /\ ~h.idr)
ASSUME HeadersParse ==
  \A h \in {x \in MCHeaders : MCParses(x)} :
    LET known == [sps |-> [h |-> SpsOf[h.sps.by]], pps |-> [h |-> Syntax!OwnPps]]
        slice == Syntax!ReadUnit(
          Syntax!AccessUnit(SpsOf[h.sps.by], Syntax!OwnPps, MCSliceOf(h), <<1, 0, 0, 1>>), known).slice
    IN  /\ Parsed(h).lsb = slice.h.pic_order_cnt_lsb
        /\ Syntax!Survives(MCSliceOf(Parsed(h)), slice)

\* Escaping is undone, and leaves nothing that looks like a start code.
ASSUME EscapesSurvive ==
  \A n \in 0..6 : \A raw \in [1..n -> {0, 1, 3, 7}] :
    LET e == Syntax!EscapeRbsp(raw)
    IN  /\ Syntax!UnescapeRbsp(e) = raw
        /\ \A i \in 1..Len(e) - 2 : ~(e[i] = 0 /\ e[i + 1] = 0 /\ e[i + 2] < 3)

\* The crop gives every even size back.
ASSUME SizesSurvive ==
  \A w, h \in {2 * k : k \in 1..40} : Syntax!DisplaySize(Syntax!OwnSps(w, h)) = <<w, h>>

\* A picture of which every sample is another, and one whose colour is the same in
\* each block of two by two.
MCSizes == {2, 4, 6}
Packed(w, h) == INSTANCE Chroma WITH Width <- w, Height <- h, Sample <- {"y", "u", "v"} \X Nat
MCPicture(w, h) == [y |-> [i \in 0..w * h - 1 |-> <<"y", i>>], u |-> [i \in 0..w * h - 1 |-> <<"u", i>>],
                    v |-> [i \in 0..w * h - 1 |-> <<"v", i>>]]
MCBlocks(w, h) ==
  LET block == [i \in 0..w * h - 1 |-> ((i \div w) \div 2) * w + (i % w) \div 2] IN
  [MCPicture(w, h) EXCEPT !.u = [i \in DOMAIN @ |-> <<"u", block[i]>>],
                          !.v = [i \in DOMAIN @ |-> <<"v", block[i]>>]]

\* The two streams together lose nothing of a picture.
ASSUME TwoStreamsAreLossless ==
  \A w, h \in MCSizes :
    LET two == Packed(w, h)!Split(MCPicture(w, h)) IN
    Packed(w, h)!Recombine(two.main, two.aux) = MCPicture(w, h)

\* One stream keeps the luma, and colours that are the same in each block.
ASSUME OneStreamKeepsBlocks ==
  \A w, h \in MCSizes :
    /\ Packed(w, h)!Upsample(Packed(w, h)!MainOf(MCBlocks(w, h))) = MCBlocks(w, h)
    /\ Packed(w, h)!Upsample(Packed(w, h)!MainOf(MCPicture(w, h))).y = MCPicture(w, h).y
===============================================================================

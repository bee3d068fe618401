------------------------------- MODULE Chroma -------------------------------
(* The packing of 4:4:4 pictures into two 4:2:0 ones (gliff-proto/src/chroma.rs): *)
(* planes are indexed as the code's vectors are, by row * Width + column, and     *)
(* an NV12 frame interleaves U and V.                                             *)
EXTENDS Integers

CONSTANTS Width, Height, Sample

\* "dimensions must be even"
EvenSize == Width \in Nat \ {0} /\ Width % 2 = 0 /\ Height \in Nat \ {0} /\ Height % 2 = 0

Half == Height \div 2
Pixels == 0..Width * Height - 1
Pairs == 0..Width * Half - 1

Yuv444 == [y : [Pixels -> Sample], u : [Pixels -> Sample], v : [Pixels -> Sample]]
Nv12 == [y : [Pixels -> Sample], uv : [Pairs -> Sample]]

Row(i) == i \div Width
Column(i) == i % Width
At(row, column) == row * Width + column

\* Every other column of the even rows, U and V in turn.
Interleaved(src, side) ==
  [i \in Pairs |->
    LET from == At(2 * Row(i), 2 * (Column(i) \div 2) + side) IN
    IF Column(i) % 2 = 0 THEN src.u[from] ELSE src.v[from]]

MainOf(src) == [y |-> src.y, uv |-> Interleaved(src, 0)]

\* The odd rows: of U above, of V below.
OddRows(src) ==
  [i \in Pixels |->
    IF Row(i) < Half THEN src.u[At(2 * Row(i) + 1, Column(i))]
    ELSE src.v[At(2 * (Row(i) - Half) + 1, Column(i))]]

AuxOf(src) == [y |-> OddRows(src), uv |-> Interleaved(src, 1)]

\* split_yuv444
Split(src) == [main |-> MainOf(src), aux |-> AuxOf(src)]

\* Plane 0 is U, plane 1 is V.
Recombined(main, aux, plane) ==
  [i \in Pixels |->
    LET pair == At(Row(i) \div 2, 2 * (Column(i) \div 2) + plane) IN
    IF Row(i) % 2 = 1 THEN aux.y[At(plane * Half + Row(i) \div 2, Column(i))]
    ELSE IF Column(i) % 2 = 0 THEN main.uv[pair] ELSE aux.uv[pair]]

\* recombine_yuv444
Recombine(main, aux) ==
  [y |-> main.y, u |-> Recombined(main, aux, 0), v |-> Recombined(main, aux, 1)]

\* nv12_to_yuv444: one sample for its block of two by two.
Upsampled(main, plane) ==
  [i \in Pixels |-> main.uv[At(Row(i) \div 2, 2 * (Column(i) \div 2) + plane)]]
Upsample(main) == [y |-> main.y, u |-> Upsampled(main, 0), v |-> Upsampled(main, 1)]
=============================================================================

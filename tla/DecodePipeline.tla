---------------------------- MODULE DecodePipeline -----------------------------
(* The GPU client's Decoder (gliff-vk/src/pipeline.rs): two H.264 streams, main *)
(* and aux, whose pictures are recombined into one of a ring of display images, *)
(* handed to the GTK thread and released by it.  The encoders work in step, so  *)
(* one access unit of H264Encoder stands for the pair; each stream's decoder    *)
(* may fail on its own.  The decode worker of net.rs is in VideoSession.        *)
EXTENDS H264Encoder

CONSTANTS DisplayRing,   \* images in the ring
          MaxSteps       \* bound on the pictures, starts, faults, zooms and stalls together

ASSUME RingAssumption == DisplayRing \in Nat \ {0} /\ MaxSteps \in Nat

VARIABLES dec,             \* the decoders of the two streams
          ring, busy, handed_out, last_complete,
          releases,        \* on their way to the worker
          frames,          \* the DisplayFrames alive in the display
          events, stalled,
          broken, marked,  \* a stream failed since its IDR; how it marked last
          forgotten        \* pictures with operation 5 since the IDR
history == <<broken, marked, forgotten>>
pipeline == <<dec, ring, busy, handed_out, releases, last_complete, frames, stalled, history>>
pipelineVars == <<encoder, unit, pipeline, events>>

Streams == {"main", "aux"}
D == INSTANCE H264Decoder
NoFault == [main |-> "none", aux |-> "none", recombine |-> FALSE]

PipelineInit ==
  /\ EncoderInit
  /\ dec = [s \in Streams |-> D!New]
  /\ ring = 0 /\ busy = {} /\ handed_out = <<>> /\ releases = {} /\ last_complete = FALSE
  /\ frames = {}
  /\ events = 0 /\ stalled = FALSE
  /\ broken = [s \in Streams |-> TRUE]
  /\ marked = [s \in Streams |-> [op |-> "none", id |-> 0, refs |-> 0, unmarked |-> {}]]
  /\ forgotten = {}

-------------------------------------------------------------------------------
(* The ring.  free_output takes in the releases first; a release of an older    *)
(* ring is ignored.                                                             *)

\* Mutant: the ring is not compared.
MarkFreeAnyRing(b) == b \ {r.index : r \in releases}
MarkFree(b) == b \ {r.index : r \in {r \in releases : r.ring = ring}}

StillBusy == MarkFree(busy)
StillOut == SelectSeq(handed_out, LAMBDA i : i \in StillBusy)
FreeOutputs == 1..DisplayRing \ StillBusy

\* free_output and hand_out: the first free image shows the picture.
HandOut(picture) ==
  LET i == Min(FreeOutputs)
  IN  /\ busy' = StillBusy \cup {i} /\ handed_out' = Append(StillOut, i)
      /\ frames' = frames \cup {[ring |-> ring, index |-> i, picture |-> picture]}

\* The releases are taken in, and no frame comes of it.
NoFrame == busy' = StillBusy /\ handed_out' = StillOut /\ UNCHANGED frames

StepsLeft == pictures + events < MaxSteps
Event == StepsLeft /\ events' = events + 1

\* 100 ms without a release: the image handed out longest ago is reused.
Stall ==
  /\ unit # NoUnit /\ FreeOutputs = {} /\ Event
  /\ busy' = StillBusy \ {Head(StillOut)} /\ handed_out' = Tail(StillOut)
  /\ releases' = {} /\ stalled' = TRUE
  /\ UNCHANGED <<encoder, unit, dec, ring, last_complete, frames, history>>

\* DisplayFrame's drop, in the display's own time.
Drop(f) ==
  /\ f \in frames /\ frames' = frames \ {f}
  /\ releases' = releases \cup {[ring |-> f.ring, index |-> f.index]}
  /\ UNCHANGED <<encoder, unit, dec, ring, busy, handed_out, last_complete, stalled, history, events>>

-------------------------------------------------------------------------------
(* decode_to_output: both streams, then the recombine into the image.  The picture *)
(* is excused when a stream failed since its IDR, or an earlier picture that was *)
(* to be its reference carried operation 5 and was forgotten.                    *)
Show(d, b, g) ==
  [main |-> d["main"].last_output.id, aux |-> d["aux"].last_output.id,
   exact |-> \A s \in Streams : d[s].last_output.good,
   excused |-> (\E s \in Streams : b[s]) \/ g \ {d["main"].last_output.id} # {}]

\* How a unit marks its picture; nothing is promised of a broken stream.
Marking(b) ==
  [op |-> IF b THEN "broken"
          ELSE IF unit.idr THEN "idr" ELSE IF ~unit.ref THEN "none"
          ELSE IF D!Resets(unit) THEN "reset"
          ELSE IF unit.mmcos # <<>> THEN "adaptive" ELSE "sliding",
   id |-> unit.id, refs |-> Refs(unit.sps), unmarked |-> unit.unmarked]

\* apply_mmco frees the slot of a picture with operation 5 too.
Forgets(g) == IF unit.idr THEN {} ELSE g \cup IF D!Resets(unit) THEN {unit.id} ELSE {}

\* Mutant: a redraw may follow a decode that failed part way.
CompleteAlways(ok, recombined) == last_complete \/ (ok /\ recombined)
Complete(ok, recombined) == ok /\ recombined

\* The aux stream is not decoded when the main one failed; the recombine can
\* fail when both are decoded.
DecodeUnit(fault) ==
  LET result(s) == D!Decode(dec[s], unit, Refs(unit.sps), PocType(unit.sps), fault[s])
      main == result("main")
      aux == result("aux")
      after == [dec EXCEPT !["main"] = main.d, !["aux"] = IF main.ok THEN aux.d ELSE @]
      ok == [s \in Streams |-> main.ok /\ (s = "main" \/ aux.ok)]
      shown == ok["aux"] /\ ~fault.recombine
  IN
  /\ unit # NoUnit /\ FreeOutputs # {}
  /\ unit' = NoUnit /\ releases' = {}
  /\ dec' = after
  /\ last_complete' = Complete(ok["aux"], ~fault.recombine)
  /\ broken' = [s \in Streams |-> ~ok[s] \/ (broken[s] /\ ~unit.idr)]
  /\ marked' = [s \in Streams |-> Marking(broken'[s])]
  /\ forgotten' = Forgets(forgotten)
  /\ IF shown THEN HandOut(Show(after, broken', forgotten')) ELSE NoFrame
  /\ UNCHANGED <<encoder, ring, stalled>>

DecodeOne == DecodeUnit(NoFault) /\ UNCHANGED events
Fault ==
  /\ Event
  /\ \/ \E s \in Streams, f \in {"parse", "open", "slice", "render", "mark"} :
            DecodeUnit([NoFault EXCEPT ![s] = f])
     \/ DecodeUnit([NoFault EXCEPT !.recombine = TRUE])

-------------------------------------------------------------------------------
(* set_zoom and redraw: a fresh ring, then the last picture again, if the last   *)
(* decode was complete.                                                          *)
Zoom ==
  /\ Event
  /\ ring' = ring + 1
  /\ IF last_complete
     THEN /\ busy' = {1} /\ handed_out' = <<1>> /\ releases' = {}
          /\ frames' = frames \cup {[ring |-> ring + 1, index |-> 1, picture |-> Show(dec, broken, forgotten)]}
     ELSE busy' = {} /\ handed_out' = <<>> /\ UNCHANGED <<releases, frames>>
  /\ UNCHANGED <<encoder, unit, dec, last_complete, stalled, history>>

PipelineNext ==
  \/ Encode /\ StepsLeft /\ UNCHANGED <<pipeline, events>>
  \/ Start /\ Event /\ UNCHANGED pipeline
  \/ DecodeOne \/ Fault
  \/ Zoom \/ Stall \/ \E f \in frames : Drop(f)
PipelineSpec == PipelineInit /\ [][PipelineNext]_pipelineVars

-------------------------------------------------------------------------------
(* Properties. *)

\* The decoder's slots, with their wrapping numbers, hold the reference pictures
\* of the standard, on both streams; but for operation 5, which leaves none.
Held(s) == {dec[s].slots[i].id : i \in D!Taken(dec[s].slots)}
Main == INSTANCE ReferenceMarking WITH marked <- marked["main"], held <- Held("main")
Aux == INSTANCE ReferenceMarking WITH marked <- marked["aux"], held <- Held("aux")
MarksAsTheStandard == Main!Spec /\ Aux!Spec

\* Every frame recombines the two streams' halves of one picture, each predicted
\* from the reference its encoder used; after a failed decode, and after the
\* picture of an operation 5, this is promised again from the next IDR, for
\* decodes and redraws alike.
ShowsWhatWasSent ==
  \A f \in frames : f.picture.main = f.picture.aux /\ (f.picture.exact \/ f.picture.excused)

\* The order counts come back as the encoder numbered its pictures, across the
\* wraps of the counts and the frame numbers in the stream, and across the
\* restart of operation 5.
OrderRecovered ==
  \A s \in Streams : ~broken[s] =>
    \A i \in D!Taken(dec[s].slots) : dec[s].slots[i].poc = dec[s].slots[i].due

\* decode's comment on operation 5 (decoder.rs, 231 to 233): the picture that
\* carries it "looks like frame 0 to the next one", which refers to it.
LooksLikeFrameZero ==
  \A s \in Streams : ~broken[s] /\ dec[s].last_output.id \in forgotten =>
    \E i \in D!Taken(dec[s].slots) :
       dec[s].slots[i].id = dec[s].last_output.id /\ dec[s].slots[i].frame_num = 0

\* An image is not drawn on while a frame of it is alive, until a display that
\* did not release in time had one taken away.
HeldUntouched ==
  stalled \/ \A f, g \in frames : f.ring = g.ring /\ f.index = g.index => f = g
===============================================================================

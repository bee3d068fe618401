\* Wrapping frame numbers and order counts, two display images, five steps: four
\* pictures and one event (a failure, a zoom, a stall, a fresh encoder), or fewer
\* pictures and more events; the stream ends.
SPECIFICATION PipelineSpec
CONSTANTS
  MaxFrameNum = 3
  MaxPocLsb = 2
  ParamSets <- MCParamSets
  MaxPictures = 4
  DisplayRing = 2
  MaxSteps = 5
INVARIANTS ShowsWhatWasSent OrderRecovered HeldUntouched
PROPERTY MarksAsTheStandard
CHECK_DEADLOCK FALSE

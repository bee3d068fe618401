\* Two pastes of one or two offers, two of what the user may do or a kill, and a
\* second session; the bounds end it.
SPECIFICATION Spec
CONSTANTS
  Files = 2
  MaxOffers = 2
  MaxJobs = 2
  MaxTicks = 1
  MaxEvents = 5
  Pids = {1, 2}
  Neighbour = 3
INVARIANTS HandedFilesStay ScreenShowsRunning
PROPERTY SpoolsGo
CHECK_DEADLOCK FALSE

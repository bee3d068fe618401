----------------------------- MODULE TransferJobs -----------------------------
(* Pastes as the user sees them: the jobs of a bridge (progress.rs), the spool   *)
(* directory a file paste fills once per offer (files.rs, Bridge::on_paste and   *)
(* Bridge::fetch), and where a job is shown: the remote desktop's notifications  *)
(* (notify.rs, surface "notes") or the client's bars (clipboard_ui.rs, "rows").  *)
(* The bytes of a fetch are ClipboardTransfer's; here it arrives or fails.       *)
EXTENDS Integers, Sequences, FiniteSets, SequencesExt, FiniteSetsExt

CONSTANTS
  Files,        \* entries of an offer that are files
  MaxOffers, MaxJobs,   \* bounds: offers and jobs of a session
  MaxTicks,             \* bound: reports of a running job
  MaxEvents,            \* bound: offers, pastes, reports, presses and ends in all
  Pids, Neighbour   \* process numbers; one of another process that stays

ASSUME JobsAssumption ==
  /\ {Files, MaxOffers, MaxJobs} \subseteq Nat \ {0}
  /\ Pids \subseteq Nat \ {0} /\ Pids # {} /\ Neighbour \in (Nat \ {0}) \ Pids

VARIABLES
  surface,
  session, pid, alive,                  \* the process with the bridge
  remote, cell, retired,                \* RemoteOffer, OnceCells, retire's tasks
  job, dirs,                            \* Jobs::running with their tasks; the disk
  reports, cancels,                     \* channels to and from the surface
  notes, calling,                       \* Notes, and the report being posted
  screen, signals, lingers,             \* what is shown; the bus; bars' timers
  handed, recent, crossed,              \* history, for the properties
  events

bridge == <<session, pid, alive, remote, cell, retired, dirs, handed, recent>>
display == <<notes, calling, screen, signals, lingers, crossed>>
vars == <<surface, bridge, job, reports, cancels, display, events>>

Event == events < MaxEvents /\ events' = events + 1

JobIds == 1..MaxJobs
NoDir == <<0, 0>>
NoJob == [pc |-> "none", kind |-> "item", serial |-> 0, dir |-> NoDir, file |-> 0,
          listed |-> FALSE, shown |-> FALSE, ticks |-> 0]
NoOffer == [serial |-> 0, files |-> FALSE, dir |-> NoDir]
NoNotes == [by_job |-> <<>>, by_note |-> <<>>, silenced |-> {}]
NotCalling == [job |-> 0, state |-> "none", replaces |-> 0]
Empty == 0      \* a OnceCell nobody fills; otherwise the job that fills it
Set == MaxJobs + 1

Without(f, k) == [x \in DOMAIN f \ {k} |-> f[x]]
With(f, k, v) == [x \in DOMAIN f \cup {k} |-> IF x = k THEN v ELSE f[x]]
Spooled(serial, state) ==
  [session |-> session, serial |-> serial, content |-> [f \in 1..Files |-> state]]

EmptyCells == [s \in 1..MaxOffers |-> Empty]
NoJobs == [j \in JobIds |-> NoJob]

Init ==
  /\ surface \in {"notes", "rows"}
  /\ session = 1 /\ pid = Min(Pids) /\ alive = TRUE
  /\ remote = NoOffer /\ cell = EmptyCells /\ retired = {} /\ recent = {}
  /\ job = NoJobs /\ reports = <<>> /\ cancels = <<>> /\ notes = NoNotes /\ calling = NotCalling
  /\ dirs = [d \in {<<Neighbour, 0>>} |->
               [session |-> 0, serial |-> 0, content |-> [f \in 1..Files |-> "whole"]]]
  /\ handed = {} /\ crossed = {}
  /\ screen = <<>> /\ signals = <<>> /\ lingers = {} /\ events = 0

-------------------------------------------------------------------------------
(* The spool.  A directory lasts while something holds it: the offer, the task    *)
(* of its grace, or a paste.                                                      *)
Live(j) == job[j].pc \notin {"none", "ended"}
Held == ({remote.dir} \cup retired \cup {job[j].dir : j \in {k \in JobIds : Live(k)}}) \ {NoDir}
Dropped(disk) ==
  [d \in {x \in DOMAIN disk : disk[x].session = session => x \in Held'} |-> disk[d]]

Alive(p) == p \in {pid, Neighbour}

\* Directories left by processes that no longer exist.
SweepStale(disk) ==
  [d \in {x \in DOMAIN disk : x[1] = pid \/ Alive(x[1])} |-> disk[d]]

\* Spool::create: <pid>-<n>, for the first n not taken.
NewDir == <<pid, CHOOSE n \in 0..Cardinality(DOMAIN dirs) :
                   /\ <<pid, n>> \notin DOMAIN dirs
                   /\ \A m \in 0..n - 1 : <<pid, m>> \in DOMAIN dirs>>
Create(serial) == With(SweepStale(dirs), NewDir, Spooled(serial, "absent"))

\* retire: a task holds it for SPOOL_GRACE.
Retire(d) == IF d = NoDir THEN retired ELSE retired \cup {d}

\* The peer's offer, with files or none, replaces the last.
OnRemoteOffer(files) ==
  /\ alive /\ remote.serial < MaxOffers /\ Event
  /\ remote' = [serial |-> remote.serial + 1, files |-> files, dir |-> NoDir]
  /\ retired' = Retire(remote.dir)
  /\ recent' = recent \cup {remote.serial}
  /\ UNCHANGED job /\ dirs' = Dropped(dirs)
  /\ UNCHANGED <<surface, session, pid, alive, cell, handed, reports, cancels, display>>

\* SPOOL_GRACE has passed since the offer was replaced.
Grace(s) ==
  /\ alive /\ s \in recent
  /\ recent' = recent \ {s}
  /\ retired' = {d \in retired : dirs[d].serial # s}
  /\ UNCHANGED <<remote, job>> /\ dirs' = Dropped(dirs)
  /\ UNCHANGED <<surface, session, pid, alive, cell, handed, reports, cancels, display, events>>

-------------------------------------------------------------------------------
(* Jobs.                                                                         *)
Report(j, state) == reports' = Append(reports, [job |-> j, state |-> state])

\* on_paste takes the newest offer; fetch is given the provider's, which must be
\* the newest for files.
Serials(kind) ==
  IF surface = "notes" \/ kind = "files" THEN {remote.serial} ELSE 1..remote.serial

Paste(j, kind) ==
  /\ alive /\ remote.serial > 0 /\ job[j].pc = "none" /\ \A k \in 1..j - 1 : job[k].pc # "none"
  /\ Event
  /\ kind = "files" => remote.files
  /\ \E s \in Serials(kind) :
       LET new == kind = "files" /\ remote.dir = NoDir
           dir == IF kind = "item" THEN NoDir ELSE IF new THEN NewDir ELSE remote.dir
       IN
       /\ dirs' = IF new THEN Create(s) ELSE dirs
       /\ remote' = IF new THEN [remote EXCEPT !.dir = dir] ELSE remote
       /\ job' = [job EXCEPT ![j] = [NoJob EXCEPT !.pc = "starts", !.kind = kind, !.serial = s,
                                                  !.dir = dir, !.listed = TRUE]]
  /\ UNCHANGED <<surface, session, pid, alive, cell, retired, handed, recent, reports, cancels,
                 display>>

\* Mutant: every paste fetches for itself.
MayFillAlways(j) == cell[job[j].serial] \in {Empty, Set}

\* The jobs that go on, and fill the cell no other does or find it filled: of
\* those that wait at get_or_try_init any one is next.
Filled(j) == cell[job[j].serial] = Set
MayFill(j) == cell[job[j].serial] = Empty

Begin(j) ==
  /\ alive /\ job[j].pc = "starts"
  /\ \/ job[j].kind = "item" /\ job' = [job EXCEPT ![j].pc = "fetches"] /\ UNCHANGED cell
     \/ /\ job[j].kind = "files" /\ MayFill(j)
        /\ job' = [job EXCEPT ![j].pc = "fills", ![j].file = 1]
        /\ cell' = [cell EXCEPT ![job[j].serial] = j]
     \/ /\ job[j].kind = "files" /\ Filled(j) /\ ~MayFill(j)
        /\ job' = [job EXCEPT ![j].pc = "writes"] /\ UNCHANGED cell
  /\ UNCHANGED <<surface, session, pid, alive, remote, retired, dirs, handed, recent, reports,
                 cancels, display, events>>

\* fetch_files: File::create truncates what is there.
CreateFile(j) ==
  /\ alive /\ job[j].pc = "fills"
  /\ job' = [job EXCEPT ![j].pc = "fetches"]
  /\ dirs' = [dirs EXCEPT ![job[j].dir].content[job[j].file] = "part"]
  /\ UNCHANGED <<surface, session, pid, alive, remote, cell, retired, handed, recent, reports,
                 cancels, display, events>>

\* Jobs::finish, with what the task held dropped.
Finish(j, state) ==
  /\ job' = [job EXCEPT ![j].pc = "ended", ![j].listed = FALSE]
  /\ IF job[j].listed /\ (job[j].shown \/ state = "failed")
     THEN Report(j, state) ELSE UNCHANGED reports

\* Mutant: the cell stays taken.
ReleasedNever(j) == cell

\* A OnceCell whose initializer is dropped or fails is for the next to fill.
Released(j) == [s \in DOMAIN cell |-> IF cell[s] = j THEN Empty ELSE cell[s]]

\* An entry has come whole, of the size it was offered with.
FileArrives(j) ==
  LET last == job[j].file = Files IN
  /\ alive /\ job[j].pc = "fetches" /\ job[j].kind = "files"
  /\ dirs' = [dirs EXCEPT ![job[j].dir].content[job[j].file] = "whole"]
  /\ job' = [job EXCEPT ![j].pc = IF last THEN "writes" ELSE "fills", ![j].file = @ + 1]
  /\ cell' = IF last THEN [cell EXCEPT ![job[j].serial] = Set] ELSE cell
  /\ UNCHANGED <<surface, session, pid, alive, remote, retired, handed, recent, reports, cancels,
                 display, events>>

ItemArrives(j) ==
  /\ alive /\ job[j].pc = "fetches" /\ job[j].kind = "item" /\ Finish(j, "done")
  /\ UNCHANGED <<surface, bridge, cancels, display, events>>

\* A fetch that fails or ends short, a file that cannot be created.
Fails(j) ==
  /\ alive /\ job[j].pc \in {"fills", "fetches"} /\ Finish(j, "failed")
  /\ cell' = Released(j)
  /\ UNCHANGED <<remote, retired>> /\ dirs' = Dropped(dirs)
  /\ UNCHANGED <<surface, session, pid, alive, handed, recent, cancels, display, events>>

\* The list of files is written to the application, or it has closed its end,
\* which only the client reports.
Write(j) ==
  /\ alive /\ job[j].pc = "writes"
  /\ \/ Finish(j, "done")
        /\ handed' = handed \cup {[session |-> session, serial |-> job[j].serial, dir |-> job[j].dir]}
     \/ Finish(j, IF surface = "notes" THEN "done" ELSE "failed") /\ UNCHANGED handed
  /\ UNCHANGED <<remote, retired>> /\ dirs' = Dropped(dirs)
  /\ UNCHANGED <<surface, session, pid, alive, cell, recent, cancels, display, events>>

\* watch: QUIET has passed, or CADENCE since the last report.
Tick(j) ==
  /\ alive /\ job[j].pc \in {"starts", "fills", "fetches", "writes"} /\ job[j].listed
  /\ job[j].ticks < MaxTicks /\ Event
  /\ job' = [job EXCEPT ![j].shown = TRUE, ![j].ticks = @ + 1]
  /\ Report(j, "running")
  /\ UNCHANGED <<surface, bridge, cancels, display>>

\* Jobs::cancel for the next id: the task is told to stop, and is dropped later.
Cancel ==
  /\ alive /\ cancels # <<>>
  /\ cancels' = Tail(cancels)
  /\ LET j == Head(cancels) IN
       IF job[j].listed
       THEN /\ job' = [job EXCEPT ![j].listed = FALSE, ![j].pc = "aborted"]
            /\ IF job[j].shown THEN Report(j, "cancelled") ELSE UNCHANGED reports
       ELSE UNCHANGED <<job, reports>>
  /\ UNCHANGED <<surface, bridge, display, events>>

DropTask(j) ==
  /\ alive /\ job[j].pc = "aborted"
  /\ job' = [job EXCEPT ![j].pc = "ended"]
  /\ cell' = Released(j)
  /\ UNCHANGED <<remote, retired>> /\ dirs' = Dropped(dirs)
  /\ UNCHANGED <<surface, session, pid, alive, handed, recent, reports, cancels, display, events>>

-------------------------------------------------------------------------------
(* The session ends, and drops everything; or its process is killed, and drops   *)
(* nothing.  The client's next session is of the same window, which still takes   *)
(* the reports of the last.                                                      *)
Ends(killed) ==
  /\ alive /\ alive' = FALSE
  /\ Event
  /\ remote' = NoOffer /\ cell' = EmptyCells /\ retired' = {} /\ recent' = {}
  /\ job' = NoJobs /\ cancels' = <<>> /\ notes' = NoNotes /\ calling' = NotCalling
  /\ reports' = IF killed \/ surface = "notes" THEN <<>> ELSE reports
  /\ dirs' = IF killed THEN dirs ELSE Dropped(dirs)
  /\ screen' = IF killed /\ surface = "rows" THEN <<>> ELSE screen
  /\ lingers' = IF killed THEN {} ELSE lingers
  /\ handed' = {} /\ crossed' = {}
  /\ UNCHANGED <<surface, session, pid, signals>>

Starts ==
  /\ ~alive /\ alive' = TRUE
  /\ session' = session + 1 /\ pid' \in Pids
  /\ reports' = <<>> /\ signals' = <<>>
  /\ UNCHANGED <<surface, remote, cell, retired, dirs, handed, recent, job, cancels,
                 notes, calling, screen, lingers, crossed, events>>

-------------------------------------------------------------------------------
(* The client's bars.  Their keys are the ids of jobs, of any session.           *)
Shown(j, state) == [session |-> session, job |-> j, state |-> state]

Update ==
  /\ surface = "rows" /\ reports # <<>>
  /\ reports' = Tail(reports)
  /\ LET r == Head(reports) IN
       /\ screen' = IF r.state \in {"running", "failed"}
                    THEN With(screen, r.job, Shown(r.job, r.state)) ELSE Without(screen, r.job)
       /\ lingers' = IF r.state = "failed" THEN lingers \cup {r.job} ELSE lingers
  /\ UNCHANGED <<surface, bridge, job, cancels, notes, calling, signals, crossed, events>>

\* FAILURE_LINGER has passed: the bar of that id goes, whatever it shows now.
Linger(j) ==
  /\ j \in lingers
  /\ lingers' = lingers \ {j} /\ screen' = Without(screen, j)
  /\ crossed' = crossed \cup {j}
  /\ UNCHANGED <<surface, bridge, job, reports, cancels, notes, calling, signals, events>>

\* The bar's button, to the session there is.
PressRow(j) ==
  /\ surface = "rows" /\ j \in DOMAIN screen /\ Event
  /\ cancels' = IF alive THEN Append(cancels, j) ELSE cancels
  /\ UNCHANGED <<surface, bridge, job, reports, display>>

-------------------------------------------------------------------------------
(* The notification thread, and the desktop's daemon.                            *)
\* Mutant: every report is a notification of its own.
SlotForNew(r) == 0

\* slot_for: the notification to replace, or none to post.
Silenced(r) == r.job \in notes.silenced /\ r.state # "failed"
SlotFor(r) ==
  IF r.job \in DOMAIN notes.by_job /\ r.job \notin notes.silenced THEN notes.by_job[r.job] ELSE 0

TakeReport ==
  /\ surface = "notes" /\ alive /\ calling = NotCalling /\ reports # <<>>
  /\ reports' = Tail(reports)
  /\ LET r == Head(reports) IN
       IF Silenced(r) THEN UNCHANGED <<calling, notes>>
       ELSE /\ calling' = [job |-> r.job, state |-> r.state, replaces |-> SlotFor(r)]
            /\ notes' = [notes EXCEPT !.silenced = @ \ {r.job}]
  /\ UNCHANGED <<surface, bridge, job, cancels, screen, signals, lingers, crossed, events>>

\* The daemon shows it, under the id it replaces, and answers: Notes::shown.
NewNote == Cardinality(DOMAIN screen) + Len(signals) + 1
Notify ==
  /\ calling # NotCalling
  /\ LET id == IF calling.replaces # 0 THEN calling.replaces
               ELSE CHOOSE n \in 1..NewNote + MaxJobs :
                      /\ n \notin DOMAIN screen \cup DOMAIN notes.by_note
                      /\ \A i \in DOMAIN signals : signals[i].note # n
         j == calling.job
         known == j \in DOMAIN notes.by_job
     IN
     /\ screen' = With(screen, id, Shown(j, calling.state))
     /\ notes' = IF calling.state = "running"
                 THEN [notes EXCEPT !.by_job = With(@, j, id), !.by_note = With(@, id, j)]
                 ELSE IF known
                 THEN [notes EXCEPT !.by_job = Without(@, j), !.by_note = Without(@, notes.by_job[j])]
                 ELSE notes
     /\ crossed' = IF calling.replaces # 0 /\ calling.replaces \notin DOMAIN screen
                   THEN crossed \cup {j} ELSE crossed
  /\ calling' = NotCalling
  /\ UNCHANGED <<surface, bridge, job, reports, cancels, signals, lingers, events>>

\* The user presses Cancel, which the daemon may answer by closing it, or closes
\* it.  One that is not running has no action, and expires.
Signal(kind, id) == [kind |-> kind, note |-> id]
PressNote(id) ==
  /\ surface = "notes" /\ id \in DOMAIN screen /\ Event
  /\ \/ /\ screen[id].state = "running"
        /\ signals' = Append(signals, Signal("action", id)) /\ UNCHANGED screen
     \/ /\ screen[id].state = "running"
        /\ signals' = signals \o <<Signal("action", id), Signal("closed", id)>>
        /\ screen' = Without(screen, id)
     \/ signals' = Append(signals, Signal("closed", id)) /\ screen' = Without(screen, id)
  /\ UNCHANGED <<surface, bridge, job, reports, cancels, notes, calling, lingers, crossed>>

\* ActionInvoked and NotificationClosed, between two reports.
Dispatch ==
  /\ surface = "notes" /\ alive /\ calling = NotCalling /\ signals # <<>>
  /\ signals' = Tail(signals)
  /\ LET s == Head(signals)
         known == s.note \in DOMAIN notes.by_note
         j == notes.by_note[s.note]
     IN
     /\ cancels' = IF s.kind = "action" /\ known THEN Append(cancels, j) ELSE cancels
     /\ notes' = IF s.kind = "closed" /\ known
                 THEN [by_job |-> Without(notes.by_job, j), by_note |-> Without(notes.by_note, s.note),
                       silenced |-> notes.silenced \cup {j}]
                 ELSE notes
  /\ UNCHANGED <<surface, bridge, job, reports, calling, screen, lingers, crossed, events>>

-------------------------------------------------------------------------------
JobStep(j) ==
  \/ Begin(j) \/ CreateFile(j) \/ FileArrives(j) \/ ItemArrives(j) \/ Fails(j)
  \/ Write(j) \/ DropTask(j)
SurfaceStep ==
  \/ Update \/ TakeReport \/ Notify \/ Dispatch
  \/ \E j \in JobIds : Linger(j) \/ PressRow(j)
  \/ \E id \in DOMAIN screen : PressNote(id)

Next ==
  \/ \E files \in BOOLEAN : OnRemoteOffer(files)
  \/ \E s \in recent : Grace(s)
  \/ \E j \in JobIds, kind \in {"item", "files"} : Paste(j, kind)
  \/ \E j \in JobIds : JobStep(j) \/ Tick(j)
  \/ Cancel
  \/ \E killed \in BOOLEAN : Ends(killed)
  \/ Starts
  \/ SurfaceStep

\* Timers fire; a fetch ends (TransfersEnd of ClipboardTransfer); the application
\* reads its list, or closes its end; tasks and threads are scheduled.
Fairness ==
  /\ \A s \in 1..MaxOffers : WF_vars(Grace(s))
  /\ \A j \in JobIds : WF_vars(JobStep(j))
  /\ WF_vars(Cancel)

Spec == Init /\ [][Next]_vars /\ Fairness

-------------------------------------------------------------------------------
\* Files whose list was handed to an application are there, whole and unchanged,
\* while their offer stands and for SPOOL_GRACE after it was replaced, whatever
\* other pastes of the same files do; those of another process are never swept
\* (files.rs:171-192, server/clipboard.rs:230).
Stands(h) == h.session = session /\ alive /\ h.serial \in {remote.serial} \cup recent
HandedFilesStay ==
  /\ <<Neighbour, 0>> \in DOMAIN dirs
  /\ \A h \in handed :
       Stands(h) => /\ h.dir \in DOMAIN dirs
                    /\ dirs[h.dir].serial = h.serial
                    /\ \A f \in 1..Files : dirs[h.dir].content[f] = "whole"

\* Once every report and signal was handled, the screen shows the jobs that run
\* and were long enough to be shown, unless the user closed them, and no other
\* of this session as running: no bar or notification outlives its job, and
\* each running one has its Cancel (notify.rs:130-162, clipboard_ui.rs:342).
Quiet == alive /\ reports = <<>> /\ calling = NotCalling /\ signals = <<>>
ScreenShowsRunning ==
  Quiet =>
    \A j \in JobIds \ crossed :
      (\E id \in DOMAIN screen : screen[id] = Shown(j, "running"))
        <=> job[j].listed /\ job[j].shown /\ j \notin notes.silenced

\* Once offers stop, the directories of replaced ones go, whatever becomes of the
\* pastes that wait for one another to fill them, and only the standing offer's is
\* left (files.rs:132-133, 175-182).
SpoolsGo ==
  <>[](alive => \A d \in DOMAIN dirs : dirs[d].session = session => d = remote.dir)
===============================================================================

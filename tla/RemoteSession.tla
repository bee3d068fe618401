---------------------------- MODULE RemoteSession -----------------------------
(* The window's life with its machines: the GTK side connects, reconnects and *)
(* follows its own size (gliff/src/main.rs), a worker thread per connection   *)
(* speaks to a server of its own (gliff/src/net.rs), and the servers share    *)
(* the compositor of their machine (gliff-server/src/session.rs, module       *)
(* ServerSession).  Connections are numbered by the session generation.       *)
EXTENDS ServerSession, TLC

CONSTANTS Machines, Old,          \* Old: machines that speak another version
          Screen,                 \* the machines' own monitor
          HeadlessOn,             \* machines whose server makes an output
          Windows, MinView,       \* sizes of the video widget; smallest asked for
          OtherModes,             \* modes the compositor may settle on instead
          Modes,                  \* sizes the mirrored screen may change to
          MaxRetries,
          MaxEvents               \* bound: what the user, the window and fate do

\* A session takes an event: a connection, or the fault it makes up for; but a
\* server may also take its output with it that a later one had taken for its own.
Epochs == 1..(2 * MaxEvents - 1)

VARIABLES view, settle, reqd, serverView,                \* App: geometry
          session, endpoint, machine, retries, offered,  \* App: connection
          timers,                                        \* pending reconnects
          wk, host, st, toC, toS, cut,                   \* per connection
          srv, mons,                                     \* servers, monitors
          events
app == <<view, settle, reqd, serverView>>
dialing == <<session, endpoint, machine, retries, offered, timers>>
links == <<wk, host, st, toC, toS, cut>>
remote == <<srv, mons>>
sessionVars == <<app, dialing, links, remote, events>>

Nowhere == "nowhere"
None == <<0, 0>>
Live(e) == wk[e] \in {"connect", "wait", "run"}
ReadsEnd(e) == wk[e] = "ended" \/ cut[e]                 \* the server reads EOF
Output(e) == "gliff-" \o ToString(e)                 \* the name it asks for
Set(f, e, v) == [f EXCEPT ![e] = v]
Event == events < MaxEvents /\ events' = events + 1

SessionInit ==
  /\ view = None /\ settle = {} /\ reqd = None /\ serverView = None
  /\ session = 0 /\ endpoint = Nowhere /\ machine = Nowhere /\ retries = 0
  /\ offered = FALSE /\ timers = {}
  /\ wk = [e \in Epochs |-> "none"] /\ host = [e \in Epochs |-> Nowhere]
  /\ st = [e \in Epochs |-> <<>>]
  /\ toC = [e \in Epochs |-> <<>>] /\ toS = [e \in Epochs |-> <<>>]
  /\ cut = [e \in Epochs |-> FALSE]
  /\ srv = [e \in Epochs |-> NoServer]
  /\ mons = [m \in Machines |-> {Screen}]
  /\ events = 0

-------------------------------------------------------------------------------
(* The GTK thread. *)

\* start_session: a new generation; replacing the sender closes the old input.
StartSessionOn(m) ==
  /\ session + 1 \in Epochs
  /\ session' = session + 1
  /\ endpoint' = m
  /\ wk' = Set(wk, session + 1, "connect") /\ host' = Set(host, session + 1, m)
  /\ st' = [e \in Epochs |-> <<>>]

\* connect_to, from the address bar, the recents or the Reconnect button.
ConnectTo(m) ==
  /\ Event
  /\ machine' = m /\ retries' = 0 /\ offered' = FALSE
  /\ serverView' = None
  /\ StartSessionOn(m)
  /\ UNCHANGED <<view, settle, reqd, timers, toC, toS, cut, remote>>

\* Mutant: gives up without offering the button.
GiveUpSilently ==
  /\ retries' = retries + 1
  /\ UNCHANGED offered
  /\ timers' = IF retries + 1 > MaxRetries THEN timers ELSE timers \cup {<<session, endpoint>>}

\* schedule_reconnect, of the session whose end was polled.
ScheduleReconnect ==
  /\ retries' = retries + 1
  /\ IF retries + 1 > MaxRetries
     THEN offered' = TRUE /\ UNCHANGED timers
     ELSE timers' = timers \cup {<<session, endpoint>>} /\ UNCHANGED offered

\* Mutant: the timer does not look at the generation.
TimerFiresAnyway(t) ==
  /\ t \in timers /\ timers' = timers \ {t}
  /\ StartSessionOn(t[2])
  /\ UNCHANGED <<app, machine, retries, offered, toC, toS, cut, remote, events>>

\* Its timer: only the session that scheduled it is replaced.
TimerFires(t) ==
  /\ t \in timers /\ timers' = timers \ {t}
  /\ IF t[1] = session THEN StartSessionOn(t[2]) ELSE UNCHANGED <<session, endpoint, wk, host, st>>
  /\ UNCHANGED <<app, machine, retries, offered, toC, toS, cut, remote, events>>

\* request_resize, given the view the server is known to have and what was
\* asked of it since: at most one Resize on the current connection.
RequestResize(shown, asked) ==
  IF view[1] < MinView \/ view[2] < MinView \/ view = shown \/ view = asked
  THEN reqd' = asked /\ UNCHANGED toS
  ELSE /\ reqd' = view
       /\ toS' = IF session # 0 /\ Live(session)
                 THEN Set(toS, session, Append(toS[session], view)) ELSE toS

\* The poll of the widget's size; each new size waits 200 ms.
PollView(size) ==
  /\ Event
  /\ size # view
  /\ view' = size /\ settle' = settle \cup {size}
  /\ UNCHANGED <<reqd, serverView, dialing, links, remote>>

SettleFires(size) ==
  /\ size \in settle /\ settle' = settle \ {size}
  /\ IF view = size THEN RequestResize(serverView, reqd) ELSE UNCHANGED <<reqd, toS>>
  /\ UNCHANGED <<view, serverView, dialing, wk, host, st, toC, cut, remote, events>>

\* What a Connected does to the request: it is forgotten, and made again.
\* Mutant: what was asked is kept.
AskOnce(shown) == RequestResize(shown, reqd)
AskAgain(shown) == RequestResize(shown, None)

\* poll_status, one status of the current session.  A Connected resets the
\* request and the retries and asks again; the others end the polling.
PollStatus ==
  /\ session # 0 /\ st[session] # <<>>
  /\ LET s == Head(st[session]) IN
     /\ st' = Set(st, session, IF s[1] = "Connected" THEN Tail(st[session]) ELSE <<>>)
     /\ \/ /\ s[1] = "Connected"
           /\ serverView' = s[2] /\ retries' = 0
           /\ AskAgain(s[2])
           /\ UNCHANGED <<offered, timers>>
        \/ /\ s[1] = "Ended"
           /\ serverView' = None /\ ScheduleReconnect
           /\ UNCHANGED <<reqd, toS>>
        \/ /\ s[1] = "Incompatible"
           /\ serverView' = None /\ offered' = TRUE
           /\ UNCHANGED <<reqd, toS, retries, timers>>
  /\ UNCHANGED <<view, settle, session, endpoint, machine, wk, host, toC, cut, remote, events>>

-------------------------------------------------------------------------------
(* The worker thread of connection e. *)

\* Only the current session's channels are still read, and only a live
\* worker's socket.
Report(e, s) == st' = IF e = session THEN Set(st, e, Append(st[e], s)) ELSE st
WorkerEnded(e, s) == wk' = Set(wk, e, "ended") /\ Report(e, s) /\ toC' = Set(toC, e, <<>>)

\* run: connects, or spawns ssh, whose failure reads as an error; then Hello.
WorkerConnects(e) ==
  /\ wk[e] = "connect"
  /\ wk' = Set(wk, e, "wait") /\ srv' = Set(srv, e, Started(host[e] \in HeadlessOn))
  /\ UNCHANGED <<app, dialing, host, st, toC, toS, cut, mons, events>>
WorkerRefused(e) ==
  /\ wk[e] = "connect" /\ Event
  /\ WorkerEnded(e, <<"Ended">>)
  /\ UNCHANGED <<app, dialing, host, toS, cut, remote>>

\* session: the answer to Hello, later configs, or an error of the server's
\* version.  Until the first config the worker does not look at its input, so
\* one the window has left ends only with the server's answer.
WorkerReads(e) ==
  /\ wk[e] \in {"wait", "run"} /\ toC[e] # <<>>
  /\ LET msg == Head(toC[e]) IN
     \/ /\ msg[1] = "StreamConfig"
        /\ wk' = Set(wk, e, "run") /\ Report(e, <<"Connected", msg[2]>>)
        /\ toC' = Set(toC, e, Tail(toC[e]))
     \/ /\ msg[1] = "ErrorVersion"
        /\ WorkerEnded(e, <<"Incompatible">>)
  /\ UNCHANGED <<app, dialing, host, toS, cut, remote, events>>

\* The connection closed under it.
WorkerReadsEnd(e) ==
  /\ wk[e] \in {"wait", "run"} /\ toC[e] = <<>>
  /\ srv[e].stage = "ended" \/ cut[e]
  /\ WorkerEnded(e, <<"Ended">>)
  /\ UNCHANGED <<app, dialing, host, toS, cut, remote, events>>

\* Mutant: the closed input is only noticed with the next message.
WorkerLeftLate(e) ==
  /\ wk[e] = "run" /\ e # session /\ toC[e] # <<>>
  /\ WorkerEnded(e, <<"Ended">>)
  /\ UNCHANGED <<app, dialing, host, toS, cut, remote, events>>

\* The window went to another session: the input closes and the loop ends.
WorkerLeft(e) ==
  /\ wk[e] = "run" /\ e # session
  /\ WorkerEnded(e, <<"Ended">>)
  /\ UNCHANGED <<app, dialing, host, toS, cut, remote, events>>

\* The network or ssh fails: both ends read the end of the stream, perhaps
\* after what had already arrived.
LinkLost(e) ==
  /\ wk[e] \in {"wait", "run"} /\ ~cut[e] /\ Event
  /\ cut' = Set(cut, e, TRUE)
  /\ \E heard \in {toC[e], <<>>} : toC' = Set(toC, e, heard)
  /\ UNCHANGED <<app, dialing, host, wk, st, toS, remote>>

-------------------------------------------------------------------------------
(* The server of connection e (run, in gliff-server/src/session.rs). *)

At(e, stage) == srv[e].stage = stage
Sent(e, msg) == toC' = IF ReadsEnd(e) THEN toC ELSE Set(toC, e, Append(toC[e], msg))
Config(s) == <<"StreamConfig", s.base>>
Here(e) == mons[host[e]]
NowHere(e, names) == mons' = Set(mons, host[e], names)
Becomes(e, s) == srv' = Set(srv, e, s)
Rest == UNCHANGED <<app, dialing, wk, host, st, cut>>

\* handshake: a client of another version is told so.  Then setup_output
\* mirrors the machine's screen, or lists the monitors...
ServerGreets(e) ==
  /\ At(e, "hello")
  /\ IF host[e] \in Old THEN Becomes(e, Exited) /\ Sent(e, <<"ErrorVersion">>)
     ELSE /\ Becomes(e, IF srv[e].headless THEN Listed(srv[e], Here(e)) ELSE Mirrored(srv[e], Screen))
          /\ UNCHANGED toC
  /\ Rest /\ UNCHANGED <<toS, mons, events>>

\* ...creates one...
ServerCreates(e) ==
  /\ At(e, "create")
  /\ Becomes(e, Created(srv[e], Output(e))) /\ NowHere(e, Here(e) \cup {Output(e)})
  /\ Rest /\ UNCHANGED <<toC, toS, events>>

\* ...takes one that was not in the list, whatever its name...
ServerFinds(e) ==
  /\ At(e, "appear")
  /\ LET new == Here(e) \ srv[e].before IN
     \/ \E name \in new : Becomes(e, Appeared(srv[e], name))
     \/ new = {} /\ Becomes(e, Abandoned(srv[e]))
  /\ Rest /\ UNCHANGED <<toC, toS, mons, events>>

\* ...and streams whatever size it settles on.
ServerSizes(e) ==
  /\ At(e, "mode")
  /\ \/ /\ srv[e].output \in Here(e)
        /\ \E size \in {FirstMode} \cup OtherModes : Becomes(e, ModeSet(srv[e], size))
     \/ /\ srv[e].output \notin Here(e)
        /\ Becomes(e, Abandoned(srv[e]))
  /\ Rest /\ UNCHANGED <<toC, toS, mons, events>>

\* VideoTier::open, HelloAck, VideoStart::open, the first config.
ServerOpensVideo(e) ==
  /\ At(e, "video")
  /\ \E tier \in Tiers : LET s == VideoOpened(srv[e], tier) IN Becomes(e, s) /\ Sent(e, Config(s))
  /\ Rest /\ UNCHANGED <<toS, mons, events>>

ServerStartsThreads(e) ==
  /\ At(e, "capture") /\ Becomes(e, Running(srv[e]))
  /\ Rest /\ UNCHANGED <<toC, toS, mons, events>>

\* A step of the setup fails, or a write finds the client gone: the locals drop.
ServerAbandons(e) ==
  /\ srv[e].stage \in {"hello", "create", "appear", "mode", "video", "capture"}
  /\ \/ Event
     \/ ReadsEnd(e) /\ At(e, "video") /\ UNCHANGED events
  /\ Becomes(e, Abandoned(srv[e]))
  /\ Rest /\ UNCHANGED <<toC, toS, mons>>

\* on_client_msg, of a Resize.  Nothing comes before the worker forwards it.
ServerResizes(e) ==
  /\ At(e, "loop") /\ toS[e] # <<>> /\ wk[e] # "wait"
  /\ toS' = Set(toS, e, Tail(toS[e]))
  /\ LET size == Asked(Head(toS[e]))
         s == srv[e]
     IN  IF TooSmall(size) THEN UNCHANGED <<srv, toC, events>>
         ELSE IF Unchanged(s, size)
         THEN Becomes(e, [s EXCEPT !.extent = size, !.refused = FALSE]) /\ UNCHANGED <<toC, events>>
         ELSE \/ /\ Becomes(e, Resized(s, size)) /\ Sent(e, Config(Resized(s, size)))
                 /\ UNCHANGED events
              \/ /\ Event /\ Becomes(e, Refused(s, size)) /\ UNCHANGED toC
  /\ Rest /\ UNCHANGED <<mons>>

\* A config of the server's own: a rung of the ladder, which leaves the view,
\* a mirrored screen that changed its mode, or the fallback to the CPU encoder
\* when the first encode fails.  Frames are left out, so the first may come as
\* late as it likes.
ServerReconfigures(e) ==
  /\ At(e, "loop") /\ Event
  /\ \/ Sent(e, Config(srv[e])) /\ UNCHANGED srv
     \/ /\ ~srv[e].headless
        /\ \E size \in Modes \ {srv[e].size} : \E s \in ScreenChanged(srv[e], size) :
             Becomes(e, s) /\ Sent(e, Config(s))
     \/ /\ FallsBack(srv[e])
        /\ Becomes(e, FallenBack(srv[e])) /\ Sent(e, Config(srv[e]))
  /\ Rest /\ UNCHANGED <<toS, mons>>

\* The loop ends: the reader reads the end of the stream, or the capture stops
\* because its output was removed, or for a reason of its own.
ServerLeft(e) ==
  /\ At(e, "loop")
  /\ ReadsEnd(e) \/ srv[e].output \notin Here(e)
  /\ Becomes(e, LoopEnded(srv[e])) /\ toS' = Set(toS, e, <<>>)
  /\ Rest /\ UNCHANGED <<toC, mons, events>>
ServerStops(e) ==
  /\ At(e, "loop") /\ Event
  /\ Becomes(e, LoopEnded(srv[e])) /\ toS' = Set(toS, e, <<>>)
  /\ Rest /\ UNCHANGED <<toC, mons>>

\* An error leaves the loop: of the writer, whose client is gone, or of the
\* encoder.
ServerFails(e) ==
  /\ At(e, "loop")
  /\ (ReadsEnd(e) /\ UNCHANGED events) \/ Event
  /\ Becomes(e, LoopFailed(srv[e])) /\ toS' = Set(toS, e, <<>>)
  /\ Rest /\ UNCHANGED <<toC, mons>>

\* The next of its parts is dropped; a created output is removed by its name.
ServerDrops(e) ==
  /\ At(e, "dropping")
  /\ Becomes(e, Dropped(srv[e])) /\ NowHere(e, Here(e) \ RemovedBy(srv[e]))
  /\ Rest /\ UNCHANGED <<toC, toS, events>>

-------------------------------------------------------------------------------
Worker(e) == WorkerConnects(e) \/ WorkerReads(e) \/ WorkerReadsEnd(e) \/ WorkerLeft(e)
Setup(e) == \/ ServerGreets(e) \/ ServerCreates(e) \/ ServerFinds(e)
            \/ ServerSizes(e) \/ ServerOpensVideo(e) \/ ServerStartsThreads(e)
Server(e) == Setup(e) \/ ServerResizes(e) \/ ServerLeft(e) \/ ServerDrops(e)

SessionNext ==
  \/ \E m \in Machines : ConnectTo(m)
  \/ \E t \in timers : TimerFires(t)
  \/ \E size \in Windows : PollView(size) \/ SettleFires(size)
  \/ PollStatus
  \/ \E e \in Epochs : \/ Worker(e) \/ Server(e)
                       \/ WorkerRefused(e) \/ LinkLost(e)
                       \/ ServerAbandons(e) \/ ServerReconfigures(e)
                       \/ ServerStops(e) \/ ServerFails(e)

\* The main loop runs its timers, the threads and processes run; what fails,
\* what the user does and the server's own configs may stop coming.
SessionFairness ==
  /\ WF_sessionVars(PollStatus)
  /\ WF_sessionVars(\E size \in Windows : SettleFires(size))
  /\ WF_sessionVars(\E t \in timers : TimerFires(t))
  /\ \A e \in Epochs : WF_sessionVars(Worker(e)) /\ WF_sessionVars(Server(e))
SessionSpec == SessionInit /\ [][SessionNext]_sessionVars /\ SessionFairness

-------------------------------------------------------------------------------
(* Properties. *)

\* A connection the window has left ends on both sides: the worker's loop
\* notices that its input closed (ui_gone), the server that its reader ended.
StaleSessionsEnd ==
  <>[](\A e \in Epochs : e < session => wk[e] = "ended" /\ srv[e].stage \in {"none", "ended"})

\* Once the user is done, the window is connected, or idle with the Reconnect
\* button: poll_status and schedule_reconnect never leave it waiting for
\* nothing.
Reachable == session = 0 \/ offered \/ (wk[session] = "run" /\ srv[session].stage = "loop")
EndsConnectedOrOffered == <>[]Reachable

\* Reconnects stay with the machine the user chose last, whatever timers of
\* an earlier machine are still pending (schedule_reconnect's generation).
ReconnectsToItsMachine == endpoint = machine

\* Once the window rests, the stream is the one its size asks for, unless the
\* size is too small or the compositor or the encoder refused the last fit; and
\* the window knows the server's view.  request_resize drops what it believes
\* asked or shown, so each config must make it ask again.  A headless output
\* keeps the stream that its first encoder allowed when the CPU took over since:
\* a repeated Resize finds the output at its size.
Connected == session # 0 /\ wk[session] = "run" /\ srv[session].stage = "loop"
Follows(s) == \/ TooSmall(Asked(view)) \/ s.refused
              \/ s.base = Wanted(s, Asked(view))
              \/ s.headless /\ s.base = FitFor(s, Asked(view), s.fitted)
ResizeSettles == <>[](Connected => serverView = srv[session].base /\ Follows(srv[session]))

\* run's comment: "end the capture and input threads before dropping the
\* output", for Hyprland aborts if a capture is alive when its monitor goes.
OutputOutlivesCapture ==
  \A e \in Epochs : srv[e].capture => srv[e].output \in mons[host[e]]
===============================================================================

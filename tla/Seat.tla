-------------------------------- MODULE Seat --------------------------------
(* The keyboard of a session, from the window of the client  *)
(* to the virtual keyboard on the remote compositor: the key tracking and    *)
(* focus handling of the client UI (gliff/src/main.rs), the thread that      *)
(* watches the local keymap (hypr-input/src/keymap_watch.rs), the task that  *)
(* forwards keymaps and input in one order (gliff/src/net.rs), the session   *)
(* loop that injects them (gliff-server/src/session.rs) and the input thread *)
(* with its xkb state (hypr-input/src/thread.rs, keymap.rs).                 *)
(* The compositors and libxkbcommon are external.                            *)
EXTENDS Naturals, Sequences, FiniteSets, SequencesExt

CONSTANTS Keys,             \* codes of keys
          Keymaps,          \* texts of the local keymaps
          DefaultMap,       \* the "us" keymap the server falls back to
          NoMap,            \* the empty text
          Rejected,         \* keymaps the server's libxkbcommon cannot compile
          Role,             \* [keymap -> [key -> "char", "mod" or "lock"]]
          HotkeyKey,        \* the key of --release-hotkey
          UiCap, WireCap, CmdCap,   \* bounds of the (unbounded) channels
          MaxSwitches,      \* changes of the local keymap
          MaxSessions

ASSUME KeysAreCodes == Keys \subseteq Nat /\ IsFiniteSet(Keys)

VARIABLES focus,      \* the video widget has the keyboard focus
          pressed,    \* App.pressed_keys
          local,      \* the keymap of the local compositor
          watched,    \* the value in the watch channel, State.last of the thread
          changed,    \* the worker has not borrowed that value yet
          conn,       \* stage of the session
          hello,      \* the keymap sent in Hello
          uiQ, wire,  \* ToWorker commands; messages written to the socket
          cmds,       \* commands of the input thread
          th,         \* the input thread: pressed_keys and KeyState
          comp,       \* the virtual keyboard as the remote compositor has it
          armed,      \* history: keys pressed or replayed while the lock was on
          switches, sessions

vars == <<focus, pressed, local, watched, changed, conn, hello, uiQ, wire,
          cmds, th, comp, armed, switches, sessions>>
uiVars == <<focus, pressed>>
mapVars == <<local, watched, switches>>
remoteVars == <<cmds, th, comp, armed>>

Key(k, down) == [type |-> "Key", key |-> k, pressed |-> down]
Keymap(m) == [type |-> "Keymap", map |-> m]
ReleaseAll == [type |-> "ReleaseAll"]
Stop == [type |-> "Stop"]

Dead == [alive |-> FALSE, keys |-> {}, map |-> NoMap,
         dep |-> {}, lock |-> FALSE, clears |-> {}]
Gone == [down |-> {}, map |-> NoMap, dep |-> {}, lock |-> FALSE]

Init == /\ focus = FALSE /\ pressed = {}
        /\ local \in Keymaps /\ watched = NoMap /\ changed = FALSE
        /\ conn = "down" /\ hello = NoMap
        /\ uiQ = <<>> /\ wire = <<>> /\ cmds = <<>>
        /\ th = Dead /\ comp = Gone /\ armed = {}
        /\ switches = 0 /\ sessions = 0

-----------------------------------------------------------------------------
(* The client's window.  Commands go to the worker of the current session;   *)
(* with no worker they are dropped with the closed channel.                  *)

HasWorker == conn \in {"greeting", "starting", "up"}

Send(ms) == uiQ' = IF HasWorker THEN uiQ \o ms ELSE uiQ

\* Mutant: only one of the recorded keys is released.
ReleaseOne == IF pressed = {} THEN <<>> ELSE <<Key(CHOOSE k \in pressed : TRUE, FALSE)>>

\* The releases for every key recorded as held on the remote.
Releases == [i \in DOMAIN SetToSeq(pressed) |-> Key(SetToSeq(pressed)[i], FALSE)]

\* A chord depends on the modifiers held, a double tap on the time since the
\* last tap: for the hotkey's key both outcomes are possible.
Matches(k) == IF k = HotkeyKey THEN BOOLEAN ELSE {FALSE}

UiRoom == Len(uiQ) < UiCap /\ Len(uiQ) + Cardinality(pressed) <= UiCap

\* track_key drops an auto-repeat press.
KeyPressed(k) ==
  /\ focus /\ UiRoom
  /\ \E hot \in Matches(k) :
       IF hot
       THEN /\ Send(Releases) /\ pressed' = {} /\ focus' = FALSE
       ELSE /\ pressed' = pressed \cup {k}
            /\ Send(IF k \in pressed THEN <<>> ELSE <<Key(k, TRUE)>>)
            /\ UNCHANGED focus
  /\ UNCHANGED <<mapVars, changed, conn, hello, wire, remoteVars, sessions>>

\* track_key drops the release of a key whose press was never sent.
KeyReleased(k) ==
  /\ focus /\ UiRoom
  /\ pressed' = pressed \ {k}
  /\ Send(IF k \in pressed THEN <<Key(k, FALSE)>> ELSE <<>>)
  /\ UNCHANGED <<focus, mapVars, changed, conn, hello, wire, remoteVars, sessions>>

FocusLeave ==
  /\ focus /\ UiRoom
  /\ focus' = FALSE /\ pressed' = {} /\ Send(Releases)
  /\ UNCHANGED <<mapVars, changed, conn, hello, wire, remoteVars, sessions>>

\* A click into the picture, a new connection or the end of an address edit.
FocusEnter ==
  /\ ~focus /\ focus' = TRUE
  /\ UNCHANGED <<pressed, mapVars, changed, conn, hello, uiQ, wire, remoteVars, sessions>>

-----------------------------------------------------------------------------
(* The local keymap: the compositor changes it (another keyboard, another    *)
(* layout), a thread reads it and puts it in a watch channel that keeps only *)
(* the newest text.                                                          *)

SwitchKeymap ==
  /\ switches < MaxSwitches /\ switches' = switches + 1
  /\ local' \in Keymaps \ {local}
  /\ UNCHANGED <<uiVars, watched, changed, conn, hello, uiQ, wire, remoteVars, sessions>>

WatchKeymap ==
  /\ local # watched
  /\ watched' = local /\ changed' = TRUE
  /\ UNCHANGED <<uiVars, local, switches, conn, hello, uiQ, wire, remoteVars, sessions>>

-----------------------------------------------------------------------------
(* The worker of a session.                                                  *)

\* A new session has new channels; the window keeps pressed_keys.
StartSession ==
  /\ conn = "down" /\ ~th.alive /\ cmds = <<>>
  /\ sessions < MaxSessions /\ sessions' = sessions + 1
  /\ conn' = "greeting" /\ uiQ' = <<>> /\ wire' = <<>>
  /\ UNCHANGED <<uiVars, mapVars, changed, hello, remoteVars>>

\* Mutant: keymap changes are forwarded only until the session is up.
ForwardKeymapOnce ==
  /\ conn = "starting" /\ changed /\ Len(wire) < WireCap
  /\ changed' = FALSE /\ wire' = Append(wire, Keymap(watched))
  /\ UNCHANGED <<uiVars, mapVars, conn, hello, uiQ, remoteVars, sessions>>

\* Waits FIRST_KEYMAP_WAIT at most: the text may still be empty.
SendHello ==
  /\ conn = "greeting" /\ conn' = "starting"
  /\ hello' = watched /\ changed' = FALSE
  /\ UNCHANGED <<uiVars, mapVars, uiQ, wire, remoteVars, sessions>>

\* The forwarding task: biased, keymaps first.
ForwardKeymap ==
  /\ conn \in {"starting", "up"} /\ changed /\ Len(wire) < WireCap
  /\ changed' = FALSE /\ wire' = Append(wire, Keymap(watched))
  /\ UNCHANGED <<uiVars, mapVars, conn, hello, uiQ, remoteVars, sessions>>

ForwardInput ==
  /\ conn \in {"starting", "up"} /\ ~changed /\ uiQ # <<>> /\ Len(wire) < WireCap
  /\ wire' = Append(wire, Head(uiQ)) /\ uiQ' = Tail(uiQ)
  /\ UNCHANGED <<uiVars, mapVars, changed, conn, hello, remoteVars, sessions>>

\* The user turns to another machine or the connection breaks: what was not
\* written is lost, and so is any tail of what was.
Disconnect ==
  /\ HasWorker
  /\ conn' = IF conn = "up" THEN "ending" ELSE "down"
  /\ \E n \in 0..Len(wire) : wire' = IF conn = "up" THEN SubSeq(wire, 1, n) ELSE <<>>
  /\ uiQ' = <<>> /\ hello' = NoMap
  /\ UNCHANGED <<uiVars, mapVars, changed, remoteVars, sessions>>

-----------------------------------------------------------------------------
(* The server's session.                                                     *)

\* The thread compiles the keymap of Hello, uploads it and signals ready; the
\* session ends when the thread fails instead.
StartInput ==
  /\ conn = "starting" /\ hello' = NoMap
  /\ LET m == IF hello = NoMap THEN DefaultMap ELSE hello IN
     \/ /\ m \notin Rejected
        /\ conn' = "up"
        /\ th' = [Dead EXCEPT !.alive = TRUE, !.map = m]
        /\ comp' = [Gone EXCEPT !.map = m]
        /\ UNCHANGED <<uiQ, wire>>
     \/ /\ conn' = "down" /\ uiQ' = <<>> /\ wire' = <<>>
        /\ UNCHANGED <<th, comp>>
  /\ UNCHANGED <<uiVars, mapVars, changed, cmds, armed, sessions>>

Inject ==
  /\ conn \in {"up", "ending"} /\ wire # <<>> /\ Len(cmds) < CmdCap
  /\ cmds' = IF Head(wire) = Keymap(NoMap) THEN cmds ELSE Append(cmds, Head(wire))
  /\ wire' = Tail(wire)
  /\ UNCHANGED <<uiVars, mapVars, changed, conn, hello, uiQ, th, comp, armed, sessions>>

\* The loop ends at the end of the messages and releases everything; an error
\* ends it earlier.  Either way Input::drop follows.
EndSession ==
  /\ conn = "ending" /\ conn' = "down" /\ wire' = <<>>
  /\ \/ wire = <<>> /\ cmds' = cmds \o <<ReleaseAll, ReleaseAll, Stop>>
     \/ cmds' = cmds \o <<ReleaseAll, Stop>>
  /\ UNCHANGED <<uiVars, mapVars, changed, hello, uiQ, th, comp, armed, sessions>>

-----------------------------------------------------------------------------
(* The input thread.  A lock key locks when pressed; if the lock was set     *)
(* before, its release clears it (libxkbcommon).                             *)

XkbDown(s, k) ==
  CASE Role[s.map][k] = "char" -> s
    [] Role[s.map][k] = "mod" -> [s EXCEPT !.dep = @ \cup {k}]
    [] OTHER -> [s EXCEPT !.dep = @ \cup {k}, !.lock = TRUE,
                          !.clears = IF s.lock THEN @ \cup {k} ELSE @]

XkbUp(s, k) == [s EXCEPT !.dep = @ \ {k}, !.clears = @ \ {k},
                         !.lock = @ /\ k \notin s.clears]

\* The modifiers are sent when they changed.
ShowMods(c, s) == [c EXCEPT !.dep = s.dep, !.lock = s.lock]

OnKey(m) ==
  LET s == [th EXCEPT !.keys = IF m.pressed THEN @ \cup {m.key} ELSE @ \ {m.key}]
      c == [comp EXCEPT !.down = IF m.pressed THEN @ \cup {m.key} ELSE @ \ {m.key}]
  IN  /\ th' = IF m.pressed THEN XkbDown(s, m.key) ELSE XkbUp(s, m.key)
      /\ comp' = ShowMods(c, th')

\* The lock keys of m that are held together with one of a lower code: they are
\* replayed when that one has locked already, and count as pressed then.
Seconds(m) == {k \in th.keys : /\ Role[m][k] = "lock"
                               /\ \E j \in th.keys : j < k /\ Role[m][j] = "lock"}

\* Mutant: the held keys are not replayed.
CarryOverLocks(m) ==
  [th EXCEPT !.map = m, !.dep = {}, !.clears = {}]

\* Mutant: the held keys are replayed after the locks were taken over.
CarryOverSwapped(m) ==
  LET locks == {k \in th.keys : Role[m][k] = "lock"} IN
  [th EXCEPT !.map = m, !.dep = {k \in th.keys : Role[m][k] # "char"},
             !.lock = @ \/ locks # {},
             !.clears = IF th.lock THEN locks ELSE Seconds(m)]

\* A fresh state replays the held keys in the order of their codes, then takes
\* over the locks.
CarryOver(m) ==
  [th EXCEPT !.map = m, !.dep = {k \in th.keys : Role[m][k] # "char"},
             !.clears = Seconds(m)]

\* A text that does not compile leaves everything as it was.
OnSetKeymap(m) ==
  \/ /\ m.map \notin Rejected
     /\ th' = CarryOver(m.map)
     /\ comp' = ShowMods([comp EXCEPT !.map = m.map], th')
  \/ m.map \in Rejected /\ UNCHANGED <<th, comp>>

Released(s) == [s EXCEPT !.keys = {}, !.dep = {}, !.lock = FALSE, !.clears = {}]

OnReleaseAll ==
  /\ th' = Released(th)
  /\ comp' = [comp EXCEPT !.down = @ \ th.keys, !.dep = {}, !.lock = FALSE]

\* The loop ends, everything is released once more and the devices destroyed.
OnStop == th' = Dead /\ comp' = Gone

\* The history of what a command makes of the lock.
Armed(m) ==
  CASE m.type = "Key" -> IF ~m.pressed THEN armed \ {m.key}
                         ELSE armed \cup {k \in {m.key} : comp.lock}
    [] m.type = "Keymap" -> IF m.map \in Rejected THEN armed ELSE Seconds(m.map)
    [] OTHER -> {}

OnCmd ==
  /\ th.alive /\ cmds # <<>> /\ cmds' = Tail(cmds)
  /\ LET m == Head(cmds) IN
     \/ m.type = "Key" /\ OnKey(m)
     \/ m.type = "Keymap" /\ OnSetKeymap(m)
     \/ m.type = "ReleaseAll" /\ OnReleaseAll
     \/ m.type = "Stop" /\ OnStop
  /\ armed' = Armed(Head(cmds))
  /\ UNCHANGED <<uiVars, mapVars, changed, conn, hello, uiQ, wire, sessions>>

-----------------------------------------------------------------------------
Next == \/ \E k \in Keys : KeyPressed(k) \/ KeyReleased(k)
        \/ FocusLeave \/ FocusEnter
        \/ SwitchKeymap \/ WatchKeymap
        \/ StartSession \/ SendHello \/ ForwardKeymap \/ ForwardInput \/ Disconnect
        \/ StartInput \/ Inject \/ EndSession \/ OnCmd

\* Threads and tasks run on; the user, the network and failures need not act.
Fairness == /\ WF_vars(WatchKeymap)
            /\ WF_vars(SendHello) /\ WF_vars(StartInput)
            /\ WF_vars(ForwardKeymap) /\ WF_vars(ForwardInput)
            /\ WF_vars(Inject) /\ WF_vars(EndSession) /\ WF_vars(OnCmd)

Spec == Init /\ [][Next]_vars /\ Fairness

-----------------------------------------------------------------------------
(* What must hold.                                                           *)

Drained == uiQ = <<>> /\ wire = <<>> /\ cmds = <<>>

\* Once everything on its way has arrived, the remote holds no key that the
\* user does not hold in the window, none at all when the focus is elsewhere
\* (hotkey, other window), and nothing is left when the session has ended:
\* whatever the focus, the connection and reconnects did in between.
NothingStuck ==
  Drained => /\ conn = "up" => comp.down \subseteq pressed
             /\ conn = "up" /\ ~focus => comp.down = {}
             /\ conn = "down" => comp = Gone

\* The compositor applies exactly the modifiers of the keys it holds down,
\* under the keymap it has: a keymap that arrives while keys are held neither
\* strands a modifier nor loses one, and never turns a lock off.
ModifiersFollowKeys ==
  th.alive => /\ comp.map = th.map
              /\ comp.down = th.keys
              /\ comp.dep = {k \in comp.down : Role[comp.map][k] # "char"}
              /\ comp.lock = th.lock

\* A lock goes off only when everything is released, or when a key is released
\* that was pressed while the lock was on, under this very keymap, or replayed
\* after another lock key: a keymap that arrives while a single lock key is held
\* does not turn its release into an unlock.
LocksSurvive ==
  [][comp.lock /\ ~comp'.lock => \/ Head(cmds).type \in {"ReleaseAll", "Stop"}
                                 \/ Head(cmds) \in {Key(k, FALSE) : k \in armed}]_vars

\* In a session that stays up the remote ends up with the local keymap for
\* good, whichever Hello or queued message carried an older one, unless the
\* server cannot compile it.
KeymapConverges ==
  <>[](conn = "up" /\ local \notin Rejected) => <>[](comp.map = local)
=============================================================================

----------------------------- MODULE WindowProofs ---------------------------
(***************************************************************************)
(* The safety of Seat, for any set of keys, keymaps and roles, and any     *)
(* bounds of the channels.  What the compositor shows mirrors what the     *)
(* input thread keeps.  For the keys held down, the channels from the      *)
(* window to the thread are read as one: a key the window does not record  *)
(* is up once all that is on its way has been applied.                     *)
(*                                                                         *)
(* And of RemoteSession, for any machines: a reconnect, whatever timers    *)
(* are pending, is to the machine the user chose last.                     *)
(***************************************************************************)
EXTENDS Seat, RemoteSession, FiniteSetTheorems, SequenceTheorems, TLAPS

Maps == Keymaps \cup {NoMap}
Msg == [type : {"Key"}, key : Keys, pressed : BOOLEAN]
         \cup [type : {"Keymap"}, map : Maps]
Cmd == Msg \cup {ReleaseAll, Stop}

TypeOK ==
  /\ focus \in BOOLEAN /\ pressed \in SUBSET Keys
  /\ local \in Keymaps /\ watched \in Maps /\ changed \in BOOLEAN
  /\ conn \in {"down", "greeting", "starting", "up", "ending"} /\ hello \in Maps
  /\ uiQ \in Seq(Msg) /\ wire \in Seq(Msg) /\ cmds \in Seq(Cmd)
  /\ th \in [alive : BOOLEAN, keys : SUBSET Keys, map : Maps \cup {DefaultMap},
             dep : SUBSET Keys, lock : BOOLEAN, clears : SUBSET Keys]
  /\ comp \in [down : SUBSET Keys, map : Maps \cup {DefaultMap},
               dep : SUBSET Keys, lock : BOOLEAN]
  /\ armed \in SUBSET Keys

-----------------------------------------------------------------------------
\* The compositor shows what the input thread keeps, dead or alive; a key whose
\* release clears the lock is one the history knows.
MirrorsThread ==
  /\ comp.map = th.map /\ comp.down = th.keys
  /\ comp.dep = th.dep /\ comp.lock = th.lock
  /\ th.dep = {k \in th.keys : Role[th.map][k] # "char"}
  /\ th.clears \subseteq armed

\* The thread lives from the start of a session to the Stop that is the last
\* command of it.
Lives ==
  /\ ~th.alive => th = Dead /\ comp = Gone /\ cmds = <<>>
  /\ conn \in {"greeting", "starting"} => ~th.alive
  /\ conn \in {"up", "ending"} => th.alive /\ \A i \in 1..Len(cmds) : cmds[i] \in Msg
  /\ conn = "down" /\ th.alive => /\ cmds # <<>> /\ cmds[Len(cmds)] = Stop
                                  /\ \A i \in 1..(Len(cmds) - 1) : cmds[i] # Stop

Press(k) == Key(k, TRUE)
Release(k) == Key(k, FALSE)

\* Every press of k in q is followed by a release; k is released in q.
Lifted(q, k) ==
  \A i \in 1..Len(q) : q[i] = Press(k) =>
    \E j \in 1..Len(q) : i < j /\ q[j] = Release(k)
Lifts(q, k) == \E j \in 1..Len(q) : q[j] = Release(k)

\* The key is up when the commands, the wire and the window's queue have been
\* applied in this order.
EndsUp(k) ==
  /\ Lifted(uiQ, k)
  /\ \/ Lifts(uiQ, k)
     \/ /\ Lifted(wire, k)
        /\ \/ Lifts(wire, k)
           \/ Lifted(cmds, k) /\ (Lifts(cmds, k) \/ k \notin comp.down)

Recorded ==
  /\ ~focus => pressed = {}
  /\ conn \in {"greeting", "starting", "up"} => \A k \in Keys \ pressed : EndsUp(k)

IInv == TypeOK /\ MirrorsThread /\ Lives /\ Recorded

-----------------------------------------------------------------------------
(* Commands and sequences of them.                                           *)

LEMMA Commands ==
  /\ \A k \in Keys : Press(k) \in Msg /\ Release(k) \in Msg
  /\ \A m \in Maps : Keymap(m) \in Msg
  /\ Msg \subseteq Cmd /\ ReleaseAll \in Cmd /\ Stop \in Cmd
  /\ ReleaseAll \notin Msg /\ Stop \notin Msg /\ ReleaseAll # Stop
  /\ \A m \in Cmd : m.type \in {"Key", "Keymap", "ReleaseAll", "Stop"}
  /\ \A m \in Cmd : m.type = "Keymap" => m.map \in Maps /\ m \in Msg
  /\ \A m \in Cmd : m.type = "Stop" => m = Stop
  /\ \A m \in Cmd : m.type = "ReleaseAll" => m = ReleaseAll
  /\ \A j, k : /\ Press(j) = Press(k) <=> j = k
               /\ Release(j) = Release(k) <=> j = k
               /\ Press(j) # Release(k)
  <1>1. \A j, k : /\ Press(j).key = j /\ Press(j).pressed = TRUE
                  /\ Release(k).key = k /\ Release(k).pressed = FALSE
    BY DEF Press, Release, Key
  <1>2. \A j, k : /\ Press(j) = Press(k) <=> j = k
                  /\ Release(j) = Release(k) <=> j = k
                  /\ Press(j) # Release(k)
    BY <1>1
  <1>3. \A k \in Keys : Press(k) \in Msg /\ Release(k) \in Msg
    BY DEF Msg, Press, Release, Key
  <1>4. \A m \in Maps : Keymap(m) \in Msg
    BY DEF Msg, Keymap
  <1>5. /\ Msg \subseteq Cmd /\ ReleaseAll \in Cmd /\ Stop \in Cmd
        /\ ReleaseAll \notin Msg /\ Stop \notin Msg /\ ReleaseAll # Stop
        /\ \A m \in Cmd : m.type \in {"Key", "Keymap", "ReleaseAll", "Stop"}
        /\ \A m \in Cmd : m.type = "Keymap" => m.map \in Maps /\ m \in Msg
        /\ \A m \in Cmd : m.type = "Stop" => m = Stop
        /\ \A m \in Cmd : m.type = "ReleaseAll" => m = ReleaseAll
    BY DEF Msg, Cmd, ReleaseAll, Stop
  <1> QED
    BY <1>2, <1>3, <1>4, <1>5

LEMMA KeyCommand ==
  ASSUME NEW m \in Cmd, m.type = "Key"
  PROVE  /\ m.key \in Keys /\ m.pressed \in BOOLEAN /\ m \in Msg
         /\ m.pressed => m = Press(m.key)
         /\ ~m.pressed => m = Release(m.key)
  BY DEF Msg, Cmd, Press, Release, Key, ReleaseAll, Stop

LEMMA Ends ==
  ASSUME NEW S, NEW q \in Seq(S), q # <<>>
  PROVE  /\ Head(q) \in S /\ Head(q) = q[1] /\ Tail(q) \in Seq(S)
         /\ Len(q) \in Nat /\ Len(q) > 0 /\ Len(Tail(q)) = Len(q) - 1
         /\ \A i \in 1..Len(Tail(q)) : Tail(q)[i] = q[i + 1]
  BY HeadTailProperties, ElementOfSeq, LenProperties

LEMMA Grown ==
  ASSUME NEW S, NEW q \in Seq(S), NEW m \in S
  PROVE  /\ Append(q, m) \in Seq(S) /\ Len(q) \in Nat
         /\ Len(Append(q, m)) = Len(q) + 1
         /\ \A i \in 1..Len(q) : Append(q, m)[i] = q[i]
         /\ Append(q, m)[Len(q) + 1] = m
  BY AppendProperties, LenProperties

LEMMA Joined ==
  ASSUME NEW S, NEW q \in Seq(S), NEW r \in Seq(S)
  PROVE  /\ q \o r \in Seq(S) /\ Len(q) \in Nat /\ Len(r) \in Nat
         /\ Len(q \o r) = Len(q) + Len(r)
         /\ \A i \in 1..Len(q) : (q \o r)[i] = q[i]
         /\ \A i \in 1..Len(r) : (q \o r)[Len(q) + i] = r[i]
  <1>1. Len(q) \in Nat /\ Len(r) \in Nat
    BY LenProperties
  <1>2. q \o r \in Seq(S) /\ Len(q \o r) = Len(q) + Len(r)
    BY ConcatProperties
  <1>3. \A i \in 1..(Len(q) + Len(r)) :
          (q \o r)[i] = IF i <= Len(q) THEN q[i] ELSE r[i - Len(q)]
    BY ConcatProperties
  <1> QED
    BY <1>1, <1>2, <1>3

\* The releases of the recorded keys are releases, one of each.
LEMMA ReleasesAll ==
  ASSUME pressed \in SUBSET Keys
  PROVE  /\ Releases \in Seq(Msg)
         /\ \A i \in 1..Len(Releases) : \E k \in pressed : Releases[i] = Release(k)
         /\ \A k \in pressed : \E i \in 1..Len(Releases) : Releases[i] = Release(k)
  <1> DEFINE n == Cardinality(pressed)
             f == SetToSeq(pressed)
  <1>1. IsFiniteSet(pressed)
    BY KeysAreCodes, FS_Subset
  <1>2. n \in Nat /\ ExistsBijection(1..n, pressed)
    BY <1>1, FS_CardinalityType
  <1>3. PICK g \in [1..n -> pressed] : IsInjective(g)
    BY <1>2 DEF ExistsBijection, Bijection, Injection, IsInjective
  <1>4. f \in [1..n -> pressed] /\ IsInjective(f)
    BY <1>3 DEF SetToSeq
  <1>5. f \in Injection(1..n, pressed)
    BY <1>4 DEF Injection
  <1>6. Cardinality(1..n) = n /\ IsFiniteSet(1..n)
    BY <1>2, FS_Interval
  <1>7. f \in Surjection(1..n, pressed)
    BY <1>1, <1>5, <1>6, FS_Injection
  <1>8. \A k \in pressed : \E i \in 1..n : f[i] = k
    BY <1>7 DEF Surjection
  <1>9. Releases = [i \in 1..n |-> Release(f[i])]
    BY <1>4 DEF Releases, Release
  <1>10. \A i \in 1..n : Release(f[i]) \in Msg
    BY <1>4, Commands
  <1>11. Releases \in Seq(Msg) /\ Len(Releases) = n
    <2>1. Releases \in [1..n -> Msg]
      BY <1>9, <1>10
    <2>2. Releases \in Seq(Msg)
      BY <1>2, <2>1, SeqDef
    <2>3. DOMAIN Releases = 1..Len(Releases) /\ Len(Releases) \in Nat
      BY <2>2, LenProperties
    <2>4. DOMAIN Releases = 1..n
      BY <2>1
    <2>5. \A a, b \in Nat : 1..a = 1..b => a = b
      <3> SUFFICES ASSUME NEW a \in Nat, NEW b \in Nat, 1..a = 1..b
                   PROVE  a = b
        OBVIOUS
      <3>1. CASE a = 0 \/ b = 0
        BY <3>1
      <3>2. CASE a > 0 /\ b > 0
        <4>1. a \in 1..b /\ b \in 1..a
          BY <3>2
        <4> QED
          BY <4>1
      <3> QED
        BY <3>1, <3>2
    <2> HIDE DEF n
    <2>6. n = Len(Releases)
      BY <1>2, <2>3, <2>4, <2>5
    <2> QED
      BY <2>2, <2>6
  <1> QED
    BY <1>4, <1>8, <1>9, <1>11

-----------------------------------------------------------------------------
(* Types.                                                                    *)

LEMMA InitTyped == Init => TypeOK
  <1> SUFFICES ASSUME Init
               PROVE  TypeOK
    OBVIOUS
  <1>1. uiQ \in Seq(Msg) /\ wire \in Seq(Msg) /\ cmds \in Seq(Cmd)
    BY EmptySeq DEF Init
  <1>2. /\ Dead \in [alive : BOOLEAN, keys : SUBSET Keys, map : Maps \cup {DefaultMap},
                    dep : SUBSET Keys, lock : BOOLEAN, clears : SUBSET Keys]
        /\ Gone \in [down : SUBSET Keys, map : Maps \cup {DefaultMap},
                     dep : SUBSET Keys, lock : BOOLEAN]
    BY DEF Dead, Gone, Maps
  <1> QED
    BY <1>1, <1>2 DEF Init, TypeOK, Maps

\* What the window may send.
LEMMA SendTyped ==
  ASSUME TypeOK, NEW ms \in Seq(Msg), Send(ms)
  PROVE  uiQ' \in Seq(Msg)
  BY Joined DEF Send, TypeOK

LEMMA OneMessage ==
  ASSUME NEW k \in Keys
  PROVE  /\ <<>> \in Seq(Msg)
         /\ <<Key(k, TRUE)>> \in Seq(Msg) /\ <<Key(k, FALSE)>> \in Seq(Msg)
  <1>1. Key(k, TRUE) \in Msg /\ Key(k, FALSE) \in Msg
    BY Commands DEF Press, Release
  <1>2. \A m \in Msg : <<m>> \in Seq(Msg)
    OBVIOUS
  <1> QED
    BY <1>1, <1>2, EmptySeq

LEMMA ThreadTyped ==
  ASSUME TypeOK, OnCmd
  PROVE  TypeOK'
  <1> USE DEF TypeOK
  <1>1. cmds # <<>> /\ Head(cmds) \in Cmd /\ cmds' \in Seq(Cmd)
    BY Ends DEF OnCmd
  <1> DEFINE m == Head(cmds)
  <1> HIDE DEF m
  <1>2. m \in Cmd
    BY <1>1 DEF m
  <1>3. UNCHANGED <<uiVars, mapVars, changed, conn, hello, uiQ, wire, sessions>>
    BY DEF OnCmd
  <1>4. armed' = Armed(m)
    BY DEF OnCmd, m
  <1>5. armed' \in SUBSET Keys
    BY <1>2, <1>4, KeyCommand DEF Armed, Seconds
  <1>6. /\ th' \in [alive : BOOLEAN, keys : SUBSET Keys, map : Maps \cup {DefaultMap},
                    dep : SUBSET Keys, lock : BOOLEAN, clears : SUBSET Keys]
        /\ comp' \in [down : SUBSET Keys, map : Maps \cup {DefaultMap},
                      dep : SUBSET Keys, lock : BOOLEAN]
    <2>1. CASE m.type = "Key" /\ OnKey(m)
      <3>1. m.key \in Keys /\ m.pressed \in BOOLEAN
        BY <1>2, <2>1, Commands, KeyCommand
      <3> DEFINE Thread == [alive : BOOLEAN, keys : SUBSET Keys, map : Maps \cup {DefaultMap},
                            dep : SUBSET Keys, lock : BOOLEAN, clears : SUBSET Keys]
                 Shown == [down : SUBSET Keys, map : Maps \cup {DefaultMap},
                           dep : SUBSET Keys, lock : BOOLEAN]
      <3>2. PICK k, s, c :
              /\ k = m.key
              /\ s = [th EXCEPT !.keys = IF m.pressed THEN @ \cup {k} ELSE @ \ {k}]
              /\ c = [comp EXCEPT !.down = IF m.pressed THEN @ \cup {k} ELSE @ \ {k}]
              /\ th' = IF m.pressed THEN XkbDown(s, k) ELSE XkbUp(s, k)
              /\ comp' = ShowMods(c, th')
        BY <2>1 DEF OnKey
      <3>3. k \in Keys /\ s \in Thread /\ c \in Shown
        BY <3>1, <3>2
      <3>4. XkbDown(s, k) \in Thread
        BY ONLY <3>3 DEF XkbDown
      <3>5. XkbUp(s, k) \in Thread
        BY ONLY <3>3 DEF XkbUp
      <3>6. th' \in Thread
        BY <3>2, <3>4, <3>5
      <3>7. comp' \in Shown
        <4>1. PICK t : t = th'
          OBVIOUS
        <4>2. t \in Thread /\ comp' = ShowMods(c, t)
          BY <3>2, <3>6, <4>1
        <4>3. ShowMods(c, t) \in Shown
          BY ONLY <3>3, <4>2 DEF ShowMods
        <4> QED
          BY <4>2, <4>3
      <3> QED
        BY <3>6, <3>7
    <2>2. CASE m.type = "Keymap" /\ OnSetKeymap(m)
      <3>1. m.map \in Maps /\ Seconds(m.map) \in SUBSET Keys
        BY <1>2, <2>2, Commands DEF Seconds
      <3>2. CarryOver(m.map) \in
              [alive : BOOLEAN, keys : SUBSET Keys, map : Maps \cup {DefaultMap},
               dep : SUBSET Keys, lock : BOOLEAN, clears : SUBSET Keys]
        BY <3>1 DEF CarryOver
      <3> QED
        BY <2>2, <3>1, <3>2 DEF OnSetKeymap, ShowMods
    <2>3. CASE m.type = "ReleaseAll" /\ OnReleaseAll
      BY <2>3 DEF OnReleaseAll, Released
    <2>4. CASE m.type = "Stop" /\ OnStop
      BY <2>4 DEF OnStop, Dead, Gone, Maps
    <2> QED
      BY <2>1, <2>2, <2>3, <2>4 DEF OnCmd, m
  <1> QED
    BY <1>1, <1>3, <1>5, <1>6 DEF uiVars, mapVars

LEMMA StepTyped ==
  ASSUME TypeOK, [Next]_vars
  PROVE  TypeOK'
  <1> USE DEF TypeOK
  <1>1. ASSUME NEW k \in Keys, KeyPressed(k)
        PROVE  TypeOK'
    <2>1. uiQ' \in Seq(Msg)
      BY <1>1, SendTyped, ReleasesAll, OneMessage DEF KeyPressed
    <2> QED
      BY <1>1, <2>1 DEF KeyPressed, mapVars, remoteVars
  <1>2. ASSUME NEW k \in Keys, KeyReleased(k)
        PROVE  TypeOK'
    <2>1. uiQ' \in Seq(Msg)
      BY <1>2, SendTyped, OneMessage DEF KeyReleased
    <2> QED
      BY <1>2, <2>1 DEF KeyReleased, mapVars, remoteVars
  <1>3. CASE FocusLeave
    <2>1. uiQ' \in Seq(Msg)
      BY <1>3, SendTyped, ReleasesAll DEF FocusLeave
    <2> QED
      BY <1>3, <2>1 DEF FocusLeave, mapVars, remoteVars
  <1>4. CASE FocusEnter
    BY <1>4 DEF FocusEnter, mapVars, remoteVars
  <1>5. CASE SwitchKeymap
    BY <1>5 DEF SwitchKeymap, uiVars, remoteVars
  <1>6. CASE WatchKeymap
    BY <1>6 DEF WatchKeymap, uiVars, remoteVars, Maps
  <1>7. CASE StartSession
    BY <1>7, EmptySeq DEF StartSession, uiVars, mapVars, remoteVars
  <1>8. CASE SendHello
    BY <1>8 DEF SendHello, uiVars, mapVars, remoteVars
  <1>9. CASE ForwardKeymap
    <2>1. wire' \in Seq(Msg)
      BY <1>9, Commands, Grown DEF ForwardKeymap
    <2> QED
      BY <1>9, <2>1 DEF ForwardKeymap, uiVars, mapVars, remoteVars
  <1>10. CASE ForwardInput
    <2>1. wire' \in Seq(Msg) /\ uiQ' \in Seq(Msg)
      BY <1>10, Ends, Grown DEF ForwardInput
    <2> QED
      BY <1>10, <2>1 DEF ForwardInput, uiVars, mapVars, remoteVars
  <1>11. CASE Disconnect
    <2>1. \A n \in 0..Len(wire) : SubSeq(wire, 1, n) \in Seq(Msg)
      BY LenProperties, ElementOfSeq, SubSeqProperties
    <2>2. wire' \in Seq(Msg)
      BY <1>11, <2>1, EmptySeq DEF Disconnect
    <2>3. uiQ' \in Seq(Msg) /\ hello' \in Maps
      BY <1>11, EmptySeq DEF Disconnect, Maps
    <2> QED
      BY <1>11, <2>2, <2>3 DEF Disconnect, uiVars, mapVars, remoteVars
  <1>12. CASE StartInput
    <2>1. /\ th' \in [alive : BOOLEAN, keys : SUBSET Keys, map : Maps \cup {DefaultMap},
                      dep : SUBSET Keys, lock : BOOLEAN, clears : SUBSET Keys]
          /\ comp' \in [down : SUBSET Keys, map : Maps \cup {DefaultMap},
                        dep : SUBSET Keys, lock : BOOLEAN]
          /\ conn' \in {"down", "up"}
      BY <1>12 DEF StartInput, Dead, Gone, Maps
    <2>2. uiQ' \in Seq(Msg) /\ wire' \in Seq(Msg) /\ hello' \in Maps
      BY <1>12, EmptySeq DEF StartInput, Maps
    <2> QED
      BY <1>12, <2>1, <2>2 DEF StartInput, uiVars, mapVars
  <1>13. CASE Inject
    <2>1. Head(wire) \in Cmd /\ wire' \in Seq(Msg)
      BY <1>13, Ends, Commands DEF Inject
    <2>2. cmds' \in Seq(Cmd)
      BY <1>13, <2>1, Grown DEF Inject
    <2> QED
      BY <1>13, <2>1, <2>2 DEF Inject, uiVars, mapVars
  <1>14. CASE EndSession
    <2>1. <<ReleaseAll, ReleaseAll, Stop>> \in Seq(Cmd) /\ <<ReleaseAll, Stop>> \in Seq(Cmd)
      BY Commands
    <2>2. \A r \in Seq(Cmd) : cmds \o r \in Seq(Cmd)
      BY Joined
    <2>3. cmds' \in Seq(Cmd) /\ wire' \in Seq(Msg)
      BY <1>14, <2>1, <2>2, EmptySeq DEF EndSession
    <2> QED
      BY <1>14, <2>3 DEF EndSession, uiVars, mapVars
  <1>15. CASE OnCmd
    BY <1>15, ThreadTyped
  <1>16. CASE UNCHANGED vars
    BY <1>16 DEF vars
  <1> HIDE DEF TypeOK
  <1> QED
    BY <1>1, <1>2, <1>3, <1>4, <1>5, <1>6, <1>7, <1>8, <1>9, <1>10, <1>11, <1>12,
       <1>13, <1>14, <1>15, <1>16 DEF Next

-----------------------------------------------------------------------------
(* The compositor mirrors the thread.                                        *)

LEMMA CommandMirrored ==
  ASSUME TypeOK, MirrorsThread, OnCmd
  PROVE  MirrorsThread'
  <1> DEFINE m == Head(cmds)
  <1>1. m \in Cmd
    BY Ends DEF OnCmd, TypeOK
  <1> HIDE DEF m
  <1>2. armed' = Armed(m)
    BY DEF OnCmd, m
  <1>3. CASE m.type = "Key" /\ OnKey(m)
    <2>1. m.key \in Keys /\ m.pressed \in BOOLEAN
      BY <1>1, <1>3, Commands, KeyCommand
    <2>2. CASE m.pressed
      <3>1. armed' = armed \cup {k \in {m.key} : comp.lock}
        BY <1>2, <1>3, <2>2 DEF Armed
      <3>2. /\ th'.keys = th.keys \cup {m.key} /\ th'.map = th.map
            /\ th'.dep = th.dep \cup {k \in {m.key} : Role[th.map][k] # "char"}
            /\ th'.clears \subseteq th.clears \cup {k \in {m.key} : th.lock}
        BY <1>3, <2>1, <2>2 DEF OnKey, XkbDown, TypeOK
      <3>3. /\ comp'.down = comp.down \cup {m.key} /\ comp'.map = comp.map
            /\ comp'.dep = th'.dep /\ comp'.lock = th'.lock
        BY <1>3, <2>2 DEF OnKey, ShowMods, TypeOK
      <3> QED
        BY <3>1, <3>2, <3>3 DEF MirrorsThread
    <2>3. CASE ~m.pressed
      <3>1. armed' = armed \ {m.key}
        BY <1>2, <1>3, <2>3 DEF Armed
      <3>2. /\ th'.keys = th.keys \ {m.key} /\ th'.map = th.map
            /\ th'.dep = th.dep \ {m.key} /\ th'.clears = th.clears \ {m.key}
        BY <1>3, <2>1, <2>3 DEF OnKey, XkbUp, TypeOK
      <3>3. /\ comp'.down = comp.down \ {m.key} /\ comp'.map = comp.map
            /\ comp'.dep = th'.dep /\ comp'.lock = th'.lock
        BY <1>3, <2>3 DEF OnKey, ShowMods, TypeOK
      <3> QED
        BY <3>1, <3>2, <3>3 DEF MirrorsThread
    <2> QED
      BY <2>2, <2>3
  <1>4. CASE m.type = "Keymap" /\ OnSetKeymap(m)
    <2>1. CASE m.map \in Rejected
      <3>1. armed' = armed /\ UNCHANGED <<th, comp>>
        BY <1>2, <1>4, <2>1 DEF Armed, OnSetKeymap
      <3> QED
        BY <3>1 DEF MirrorsThread
    <2>2. CASE m.map \notin Rejected
      <3>1. armed' = Seconds(m.map)
        BY <1>2, <1>4, <2>2 DEF Armed
      <3>2. th' = CarryOver(m.map) /\ comp' = ShowMods([comp EXCEPT !.map = m.map], th')
        BY <1>4, <2>2 DEF OnSetKeymap
      <3>3. /\ th'.keys = th.keys /\ th'.map = m.map /\ th'.clears = Seconds(m.map)
            /\ th'.dep = {k \in th.keys : Role[m.map][k] # "char"}
        BY <3>2 DEF CarryOver, TypeOK
      <3>4. /\ comp'.down = comp.down /\ comp'.map = m.map
            /\ comp'.dep = th'.dep /\ comp'.lock = th'.lock
        BY <3>2 DEF ShowMods, TypeOK
      <3> QED
        BY <3>1, <3>3, <3>4 DEF MirrorsThread
    <2> QED
      BY <2>1, <2>2
  <1>5. CASE m.type = "ReleaseAll" /\ OnReleaseAll
    <2>1. /\ th'.keys = {} /\ th'.map = th.map /\ th'.dep = {}
          /\ th'.lock = FALSE /\ th'.clears = {}
      BY <1>5 DEF OnReleaseAll, Released, TypeOK
    <2>2. /\ comp'.down = comp.down \ th.keys /\ comp'.map = comp.map
          /\ comp'.dep = {} /\ comp'.lock = FALSE
      BY <1>5 DEF OnReleaseAll, TypeOK
    <2> QED
      BY <2>1, <2>2 DEF MirrorsThread
  <1>6. CASE m.type = "Stop" /\ OnStop
    BY <1>6 DEF OnStop, MirrorsThread, Dead, Gone
  <1> QED
    BY <1>3, <1>4, <1>5, <1>6 DEF OnCmd, m

LEMMA StepMirrored ==
  ASSUME TypeOK, MirrorsThread, Lives, [Next]_vars
  PROVE  MirrorsThread'
  <1>1. CASE UNCHANGED <<th, comp, armed>>
    BY <1>1 DEF MirrorsThread
  <1>2. CASE StartInput
    <2>1. th = Dead /\ comp = Gone
      BY <1>2 DEF StartInput, Lives
    <2>2. armed' = armed
      BY <1>2 DEF StartInput
    <2>3. CASE UNCHANGED <<th, comp>>
      BY <2>2, <2>3 DEF MirrorsThread
    <2>4. ASSUME NEW m, th' = [Dead EXCEPT !.alive = TRUE, !.map = m],
                 comp' = [Gone EXCEPT !.map = m]
          PROVE  MirrorsThread'
      <3>1. /\ th'.keys = {} /\ th'.map = m /\ th'.dep = {}
            /\ th'.lock = FALSE /\ th'.clears = {}
        BY <2>4 DEF Dead
      <3>2. comp'.down = {} /\ comp'.map = m /\ comp'.dep = {} /\ comp'.lock = FALSE
        BY <2>4 DEF Gone
      <3> QED
        BY <3>1, <3>2 DEF MirrorsThread
    <2> QED
      BY <1>2, <2>3, <2>4 DEF StartInput
  <1>3. CASE OnCmd
    BY <1>3, CommandMirrored
  <1>4. [Next]_vars => StartInput \/ OnCmd \/ UNCHANGED <<th, comp, armed>>
    BY DEF Next, vars, KeyPressed, KeyReleased, FocusLeave, FocusEnter, SwitchKeymap,
           WatchKeymap, StartSession, SendHello, ForwardKeymap, ForwardInput,
           Disconnect, Inject, EndSession, remoteVars
  <1> QED
    BY <1>1, <1>2, <1>3, <1>4

-----------------------------------------------------------------------------
(* The thread's life.                                                        *)

LEMMA CommandLives ==
  ASSUME TypeOK, Lives, OnCmd
  PROVE  Lives'
  <1> DEFINE m == Head(cmds)
  <1>1. /\ cmds \in Seq(Cmd) /\ cmds # <<>> /\ th.alive
        /\ cmds' = Tail(cmds) /\ conn' = conn
    BY DEF OnCmd, TypeOK
  <1>2. /\ m \in Cmd /\ m = cmds[1] /\ Len(cmds) \in Nat /\ Len(cmds) > 0
        /\ cmds' \in Seq(Cmd) /\ Len(cmds') = Len(cmds) - 1
        /\ \A i \in 1..Len(cmds') : cmds'[i] = cmds[i + 1]
    BY <1>1, Ends
  <1>3. conn \notin {"greeting", "starting"}
    BY <1>1 DEF Lives
  <1> HIDE DEF m
  <1>4. CASE m = Stop
    <2>1. th' = Dead /\ comp' = Gone
      <3>1. m.type = "Stop"
        BY <1>4 DEF Stop
      <3> QED
        BY <3>1 DEF OnCmd, OnStop, m
    <2>2. conn = "down"
      <3>1. cmds[1] \notin Msg
        BY <1>2, <1>4, Commands
      <3>2. conn \notin {"up", "ending"}
        BY <1>2, <3>1 DEF Lives
      <3> QED
        BY <1>3, <3>2 DEF TypeOK
    <2>3. Len(cmds) = 1
      <3>1. \A i \in 1..(Len(cmds) - 1) : cmds[i] # Stop
        BY <1>1, <2>2 DEF Lives
      <3>2. Len(cmds) # 1 => 1 \in 1..(Len(cmds) - 1)
        BY <1>2
      <3> QED
        BY <1>2, <1>4, <3>1, <3>2
    <2>4. cmds' = <<>>
      BY <1>2, <2>3, EmptySeq
    <2>5. ~th'.alive
      BY <2>1 DEF Dead
    <2> QED
      BY <1>1, <2>1, <2>2, <2>4, <2>5 DEF Lives
  <1>5. CASE m # Stop
    <2>1. th'.alive
      <3>1. m.type # "Stop"
        BY <1>2, <1>5, Commands
      <3>2. OnKey(m) \/ OnSetKeymap(m) \/ OnReleaseAll
        BY <3>1 DEF OnCmd, m
      <3> QED
        BY <1>1, <3>2 DEF OnKey, XkbDown, XkbUp, OnSetKeymap, CarryOver,
                          OnReleaseAll, Released, TypeOK
    <2>2. CASE conn \in {"up", "ending"}
      <3>1. \A i \in 1..Len(cmds') : cmds'[i] \in Msg
        BY <1>2, <2>2 DEF Lives
      <3> QED
        BY <1>1, <2>1, <2>2, <3>1 DEF Lives
    <2>3. CASE conn = "down"
      <3>1. cmds[Len(cmds)] = Stop /\ \A i \in 1..(Len(cmds) - 1) : cmds[i] # Stop
        BY <1>1, <2>3 DEF Lives
      <3>2. Len(cmds) > 1
        BY <1>2, <1>5, <3>1
      <3>3. cmds'[Len(cmds')] = Stop /\ \A i \in 1..(Len(cmds') - 1) : cmds'[i] # Stop
        BY <1>2, <3>1, <3>2
      <3>4. cmds' # <<>>
        BY <1>2, <3>2, EmptySeq
      <3> QED
        BY <1>1, <2>1, <2>3, <3>3, <3>4 DEF Lives
    <2> QED
      BY <1>3, <2>2, <2>3 DEF TypeOK
  <1> QED
    BY <1>4, <1>5

LEMMA StepLives ==
  ASSUME TypeOK, Lives, [Next]_vars
  PROVE  Lives'
  <1>1. CASE UNCHANGED <<conn, th, comp, cmds>>
    BY <1>1 DEF Lives
  <1>2. CASE StartSession
    <2>1. ~th.alive /\ conn' = "greeting" /\ UNCHANGED <<th, comp, cmds>>
      BY <1>2 DEF StartSession, remoteVars
    <2> QED
      BY <2>1 DEF Lives
  <1>3. CASE SendHello
    <2>1. conn = "greeting" /\ conn' = "starting" /\ UNCHANGED <<th, comp, cmds>>
      BY <1>3 DEF SendHello, remoteVars
    <2> QED
      BY <2>1 DEF Lives
  <1>4. CASE Disconnect
    <2>1. /\ UNCHANGED <<th, comp, cmds>>
          /\ \/ conn = "up" /\ conn' = "ending"
             \/ conn \in {"greeting", "starting"} /\ conn' = "down"
      BY <1>4 DEF Disconnect, HasWorker, remoteVars
    <2> QED
      BY <2>1 DEF Lives
  <1>5. CASE StartInput
    <2>1. ~th.alive /\ th = Dead /\ comp = Gone /\ cmds = <<>> /\ cmds' = cmds
      BY <1>5 DEF StartInput, Lives
    <2>2. CASE conn' = "up" /\ th'.alive
      BY <2>1, <2>2, EmptySeq DEF Lives
    <2>3. CASE conn' = "down" /\ UNCHANGED <<th, comp>>
      BY <2>1, <2>3 DEF Lives
    <2> QED
      BY <1>5, <2>2, <2>3 DEF StartInput, Dead
  <1>6. CASE Inject
    <2>1. conn \in {"up", "ending"} /\ UNCHANGED <<conn, th, comp>> /\ th.alive
      BY <1>6 DEF Inject, Lives
    <2>2. Head(wire) \in Msg
      BY <1>6, Ends DEF Inject, TypeOK
    <2>3. \A i \in 1..Len(cmds') : cmds'[i] \in Msg
      <3>1. CASE cmds' = cmds
        BY <2>1, <3>1 DEF Lives
      <3>2. CASE cmds' = Append(cmds, Head(wire))
        <4>1. \A i \in 1..Len(cmds) : cmds[i] \in Msg
          BY <2>1 DEF Lives
        <4>2. cmds \in Seq(Cmd) /\ Head(wire) \in Cmd
          BY <2>2, Commands DEF TypeOK
        <4> QED
          BY <2>2, <3>2, <4>1, <4>2, Grown
      <3> QED
        BY <1>6, <3>1, <3>2 DEF Inject
    <2> QED
      BY <2>1, <2>3 DEF Lives
  <1>7. CASE EndSession
    <2>1. /\ conn = "ending" /\ conn' = "down" /\ th.alive /\ UNCHANGED <<th, comp>>
          /\ \A i \in 1..Len(cmds) : cmds[i] \in Msg
      BY <1>7 DEF EndSession, Lives
    <2>2. PICK r \in Seq(Cmd) : /\ cmds' = cmds \o r /\ Len(r) > 0 /\ r[Len(r)] = Stop
                                /\ \A i \in 1..(Len(r) - 1) : r[i] # Stop
      <3>1. CASE cmds' = cmds \o <<ReleaseAll, ReleaseAll, Stop>>
        <4> DEFINE r == <<ReleaseAll, ReleaseAll, Stop>>
        <4>1. /\ r \in Seq(Cmd) /\ Len(r) = 3
              /\ r[1] = ReleaseAll /\ r[2] = ReleaseAll /\ r[3] = Stop
          BY Commands
        <4> HIDE DEF r
        <4>2. /\ Len(r) > 0 /\ r[Len(r)] = Stop
              /\ \A i \in 1..(Len(r) - 1) : r[i] # Stop
          BY <4>1, Commands
        <4> QED
          BY <3>1, <4>1, <4>2 DEF r
      <3>2. CASE cmds' = cmds \o <<ReleaseAll, Stop>>
        <4> DEFINE r == <<ReleaseAll, Stop>>
        <4>1. r \in Seq(Cmd) /\ Len(r) = 2 /\ r[1] = ReleaseAll /\ r[2] = Stop
          BY Commands
        <4> HIDE DEF r
        <4>2. /\ Len(r) > 0 /\ r[Len(r)] = Stop
              /\ \A i \in 1..(Len(r) - 1) : r[i] # Stop
          BY <4>1, Commands
        <4> QED
          BY <3>2, <4>1, <4>2 DEF r
      <3> QED
        BY <1>7, <3>1, <3>2 DEF EndSession
    <2>3. cmds \in Seq(Cmd)
      BY DEF TypeOK
    <2> DEFINE n == Len(cmds)
    <2>4. /\ n \in Nat /\ Len(r) \in Nat /\ Len(cmds') = n + Len(r)
          /\ cmds' \in Seq(Cmd)
          /\ \A i \in 1..n : cmds'[i] = cmds[i]
          /\ \A i \in 1..Len(r) : cmds'[n + i] = r[i]
      BY <2>2, <2>3, Joined
    <2>5. \A i \in 1..n : cmds[i] # Stop
      BY <2>1, Commands
    <2> HIDE DEF n
    <2>6. cmds'[Len(cmds')] = Stop
      BY <2>2, <2>4
    <2>7. \A i \in 1..(Len(cmds') - 1) : cmds'[i] # Stop
      <3> SUFFICES ASSUME NEW i \in 1..(Len(cmds') - 1)
                   PROVE  cmds'[i] # Stop
        OBVIOUS
      <3>1. CASE i <= n
        <4>1. i \in 1..n
          BY <2>4, <3>1
        <4> QED
          BY <2>4, <2>5, <4>1
      <3>2. CASE i > n
        <4>1. i - n \in 1..(Len(r) - 1) /\ n + (i - n) = i
          BY <2>4, <3>2
        <4> QED
          BY <2>2, <2>4, <4>1
      <3> QED
        BY <2>4, <3>1, <3>2
    <2>8. cmds' # <<>>
      BY <2>2, <2>4, EmptySeq
    <2> QED
      BY <2>1, <2>6, <2>7, <2>8 DEF Lives
  <1>8. CASE OnCmd
    BY <1>8, CommandLives
  <1>9. \/ StartSession \/ SendHello \/ Disconnect \/ StartInput \/ Inject
        \/ EndSession \/ OnCmd \/ UNCHANGED <<conn, th, comp, cmds>>
    BY DEF Next, vars, KeyPressed, KeyReleased, FocusLeave, FocusEnter, SwitchKeymap,
           WatchKeymap, ForwardKeymap, ForwardInput, remoteVars
  <1> QED
    BY <1>1, <1>2, <1>3, <1>4, <1>5, <1>6, <1>7, <1>8, <1>9

-----------------------------------------------------------------------------
(* The keys the window does not record end up released.                      *)

LEMMA LiftEmpty == ASSUME NEW k PROVE Lifted(<<>>, k) /\ ~Lifts(<<>>, k)
  BY EmptySeq DEF Lifted, Lifts

LEMMA LiftTail ==
  ASSUME NEW q \in Seq(Cmd), q # <<>>, NEW k \in Keys
  PROVE  /\ Tail(q) \in Seq(Cmd) /\ Head(q) \in Cmd
         /\ Lifted(q, k) => Lifted(Tail(q), k)
         /\ Lifted(q, k) /\ Head(q) = Press(k) => Lifts(Tail(q), k)
         /\ Lifts(q, k) /\ Head(q) # Release(k) => Lifts(Tail(q), k)
  <1>1. /\ Head(q) = q[1] /\ Len(q) \in Nat /\ Len(q) > 0 /\ Len(Tail(q)) = Len(q) - 1
        /\ \A i \in 1..Len(Tail(q)) : Tail(q)[i] = q[i + 1]
        /\ Tail(q) \in Seq(Cmd) /\ Head(q) \in Cmd
    BY Ends
  <1>2. \A j \in 1..Len(q) : j > 1 => j - 1 \in 1..Len(Tail(q)) /\ Tail(q)[j - 1] = q[j]
    BY <1>1
  <1>3. Lifted(q, k) => Lifted(Tail(q), k)
    <2> SUFFICES ASSUME Lifted(q, k), NEW i \in 1..Len(Tail(q)),
                        Tail(q)[i] = Press(k)
                 PROVE  \E j \in 1..Len(Tail(q)) : i < j /\ Tail(q)[j] = Release(k)
      BY DEF Lifted
    <2>1. i + 1 \in 1..Len(q) /\ q[i + 1] = Press(k)
      BY <1>1
    <2>2. PICK j \in 1..Len(q) : i + 1 < j /\ q[j] = Release(k)
      BY <2>1 DEF Lifted
    <2>3. j - 1 \in 1..Len(Tail(q)) /\ i < j - 1 /\ Tail(q)[j - 1] = Release(k)
      BY <1>2, <2>2
    <2> QED
      BY <2>3
  <1>4. Lifted(q, k) /\ Head(q) = Press(k) => Lifts(Tail(q), k)
    <2> SUFFICES ASSUME Lifted(q, k), Head(q) = Press(k)
                 PROVE  Lifts(Tail(q), k)
      OBVIOUS
    <2>1. 1 \in 1..Len(q) /\ q[1] = Press(k)
      BY <1>1
    <2>2. PICK j \in 1..Len(q) : 1 < j /\ q[j] = Release(k)
      BY <2>1 DEF Lifted
    <2> QED
      BY <1>2, <2>2 DEF Lifts
  <1>5. Lifts(q, k) /\ Head(q) # Release(k) => Lifts(Tail(q), k)
    <2> SUFFICES ASSUME Lifts(q, k), Head(q) # Release(k)
                 PROVE  Lifts(Tail(q), k)
      OBVIOUS
    <2>1. PICK j \in 1..Len(q) : q[j] = Release(k)
      BY DEF Lifts
    <2>2. j > 1
      BY <1>1, <2>1
    <2> QED
      BY <1>2, <2>1, <2>2 DEF Lifts
  <1> QED
    BY <1>1, <1>3, <1>4, <1>5

LEMMA LiftConcat ==
  ASSUME NEW q \in Seq(Cmd), NEW r \in Seq(Cmd), NEW k \in Keys,
         \A i \in 1..Len(r) : r[i] # Press(k)
  PROVE  /\ Lifted(q, k) => Lifted(q \o r, k)
         /\ Lifts(q, k) => Lifts(q \o r, k)
         /\ Lifts(r, k) => Lifted(q \o r, k) /\ Lifts(q \o r, k)
  <1> DEFINE n == Len(q)
             s == q \o r
  <1>1. /\ n \in Nat /\ Len(r) \in Nat /\ Len(s) = n + Len(r)
        /\ \A i \in 1..n : s[i] = q[i]
        /\ \A i \in 1..Len(r) : s[n + i] = r[i]
    BY Joined
  <1> HIDE DEF s
  <1>2. \A i \in 1..Len(s) : s[i] = Press(k) => i \in 1..n /\ q[i] = Press(k)
    <2> SUFFICES ASSUME NEW i \in 1..Len(s), s[i] = Press(k)
                 PROVE  i \in 1..n /\ q[i] = Press(k)
      OBVIOUS
    <2>1. CASE i \in 1..n
      BY <1>1, <2>1
    <2>2. CASE i \notin 1..n
      <3>1. i - n \in 1..Len(r) /\ n + (i - n) = i
        BY <1>1, <2>2
      <3>2. s[i] = r[i - n]
        BY <1>1, <3>1
      <3> QED
        BY <3>1, <3>2
    <2> QED
      BY <2>1, <2>2
  <1>3. Lifted(q, k) => Lifted(s, k)
    <2> SUFFICES ASSUME Lifted(q, k), NEW i \in 1..Len(s), s[i] = Press(k)
                 PROVE  \E j \in 1..Len(s) : i < j /\ s[j] = Release(k)
      BY DEF Lifted
    <2>1. PICK j \in 1..n : i < j /\ q[j] = Release(k)
      BY <1>2 DEF Lifted
    <2>2. j \in 1..Len(s) /\ s[j] = q[j]
      BY <1>1
    <2> QED
      BY <2>1, <2>2
  <1>4. Lifts(q, k) => Lifts(s, k)
    BY <1>1 DEF Lifts
  <1>5. Lifts(r, k) => Lifted(s, k) /\ Lifts(s, k)
    <2> SUFFICES ASSUME Lifts(r, k)
                 PROVE  Lifted(s, k) /\ Lifts(s, k)
      OBVIOUS
    <2>1. PICK j \in 1..Len(r) : r[j] = Release(k)
      BY DEF Lifts
    <2>2. n + j \in 1..Len(s) /\ s[n + j] = Release(k) /\ \A i \in 1..n : i < n + j
      BY <1>1, <2>1
    <2> QED
      BY <1>2, <2>2 DEF Lifted, Lifts
  <1> QED
    BY <1>3, <1>4, <1>5 DEF s

LEMMA LiftAppend ==
  ASSUME NEW q \in Seq(Cmd), NEW m \in Cmd, NEW k \in Keys
  PROVE  /\ Append(q, m) \in Seq(Cmd)
         /\ m # Press(k) /\ Lifted(q, k) => Lifted(Append(q, m), k)
         /\ Lifts(q, k) => Lifts(Append(q, m), k)
         /\ m = Release(k) => Lifted(Append(q, m), k) /\ Lifts(Append(q, m), k)
  <1> DEFINE r == <<m>>
  <1>1. r \in Seq(Cmd) /\ Len(r) = 1 /\ r[1] = m
    OBVIOUS
  <1>2. Append(q, m) = q \o r
    BY AppendIsConcat
  <1>3. Append(q, m) \in Seq(Cmd)
    BY Grown
  <1> HIDE DEF r
  <1>4. CASE m = Press(k)
    <2>1. m # Release(k)
      BY <1>4, Commands
    <2>2. Lifts(q, k) => Lifts(Append(q, m), k)
      <3>1. Len(q) \in Nat /\ Len(Append(q, m)) = Len(q) + 1
        BY Grown
      <3>2. \A i \in 1..Len(q) : Append(q, m)[i] = q[i]
        BY Grown
      <3> QED
        BY <3>1, <3>2 DEF Lifts
    <2> QED
      BY <1>3, <1>4, <2>1, <2>2
  <1>5. CASE m # Press(k)
    <2>1. \A i \in 1..Len(r) : r[i] # Press(k)
      BY <1>1, <1>5
    <2>2. m = Release(k) => Lifts(r, k)
      BY <1>1 DEF Lifts
    <2> QED
      BY <1>1, <1>2, <1>3, <2>1, <2>2, LiftConcat
  <1> QED
    BY <1>4, <1>5

\* A step of the window: what it sends presses no key it does not record, and
\* releases those it no longer records.
LEMMA WindowRecorded ==
  ASSUME TypeOK, Recorded, NEW ms \in Seq(Msg), Send(ms),
         UNCHANGED <<conn, wire, cmds, comp>>,
         pressed' \in SUBSET Keys, ~focus' => pressed' = {},
         \A k \in Keys \ pressed' :
           /\ \A i \in 1..Len(ms) : ms[i] # Press(k)
           /\ k \in pressed => Lifts(ms, k)
  PROVE  Recorded'
  <1>1. SUFFICES ASSUME conn \in {"greeting", "starting", "up"}, NEW k \in Keys \ pressed'
                 PROVE  EndsUp(k)'
    BY DEF Recorded
  <1>2. uiQ \in Seq(Cmd) /\ ms \in Seq(Cmd) /\ uiQ' = uiQ \o ms
    BY <1>1, SeqMonotonic, Commands DEF TypeOK, Send, HasWorker
  <1>3. /\ Lifted(uiQ, k) => Lifted(uiQ', k)
        /\ Lifts(uiQ, k) => Lifts(uiQ', k)
        /\ Lifts(ms, k) => Lifted(uiQ', k) /\ Lifts(uiQ', k)
    BY <1>1, <1>2, LiftConcat
  <1>4. CASE k \in pressed
    BY <1>1, <1>3, <1>4 DEF EndsUp
  <1>5. CASE k \notin pressed
    <2>1. EndsUp(k)
      BY <1>1, <1>5 DEF Recorded
    <2> QED
      BY <1>3, <2>1 DEF EndsUp
  <1> QED
    BY <1>4, <1>5

\* Leaving the window releases every recorded key.
LEMMA ReleasesRecorded ==
  ASSUME TypeOK, Recorded, Send(Releases), UNCHANGED <<conn, wire, cmds, comp>>,
         pressed' = {}
  PROVE  Recorded'
  <1> DEFINE ms == Releases
  <1>1. /\ ms \in Seq(Msg)
        /\ \A i \in 1..Len(ms) : \E k \in pressed : ms[i] = Release(k)
        /\ \A k \in pressed : Lifts(ms, k)
    BY ReleasesAll DEF TypeOK, Lifts
  <1>2. \A k \in Keys \ pressed' : /\ \A i \in 1..Len(ms) : ms[i] # Press(k)
                                   /\ k \in pressed => Lifts(ms, k)
    BY <1>1, Commands
  <1>3. Send(ms) /\ pressed' \in SUBSET Keys
    OBVIOUS
  <1> HIDE DEF ms
  <1> QED
    BY <1>1, <1>2, <1>3, WindowRecorded

LEMMA ForwardRecorded ==
  ASSUME TypeOK, Recorded, ForwardKeymap \/ ForwardInput
  PROVE  Recorded'
  <1>1. /\ UNCHANGED <<focus, pressed, conn, cmds, comp>>
        /\ conn \in {"starting", "up"}
    BY DEF ForwardKeymap, ForwardInput, uiVars, remoteVars
  <1>2. SUFFICES ASSUME NEW k \in Keys \ pressed
                 PROVE  EndsUp(k)'
    BY <1>1 DEF Recorded
  <1>3. EndsUp(k)
    BY <1>1 DEF Recorded
  <1>4. wire \in Seq(Cmd) /\ uiQ \in Seq(Cmd)
    BY SeqMonotonic, Commands DEF TypeOK
  <1>5. CASE ForwardKeymap
    <2>1. Keymap(watched) \in Cmd /\ Keymap(watched) # Press(k)
      BY Commands DEF TypeOK, Keymap, Press, Key
    <2>2. wire' = Append(wire, Keymap(watched)) /\ uiQ' = uiQ
      BY <1>5 DEF ForwardKeymap
    <2>3. /\ Lifted(wire, k) => Lifted(wire', k)
          /\ Lifts(wire, k) => Lifts(wire', k)
      BY <1>4, <2>1, <2>2, LiftAppend
    <2> QED
      BY <1>1, <1>3, <2>2, <2>3 DEF EndsUp
  <1>6. CASE ForwardInput
    <2> DEFINE m == Head(uiQ)
    <2>1. uiQ # <<>> /\ uiQ' = Tail(uiQ) /\ wire' = Append(wire, m)
      BY <1>6 DEF ForwardInput
    <2>2. /\ m \in Cmd
          /\ Lifted(uiQ, k) => Lifted(uiQ', k)
          /\ Lifted(uiQ, k) /\ m = Press(k) => Lifts(uiQ', k)
          /\ Lifts(uiQ, k) /\ m # Release(k) => Lifts(uiQ', k)
      BY <1>4, <2>1, LiftTail
    <2> HIDE DEF m
    <2>3. /\ m # Press(k) /\ Lifted(wire, k) => Lifted(wire', k)
          /\ Lifts(wire, k) => Lifts(wire', k)
          /\ m = Release(k) => Lifted(wire', k) /\ Lifts(wire', k)
      BY <1>4, <2>1, <2>2, LiftAppend
    <2> QED
      BY <1>1, <1>3, <2>2, <2>3 DEF EndsUp
  <1> QED
    BY <1>5, <1>6

LEMMA InjectRecorded ==
  ASSUME TypeOK, Recorded, Inject
  PROVE  Recorded'
  <1>1. UNCHANGED <<focus, pressed, conn, uiQ, comp>>
    BY DEF Inject, uiVars
  <1>2. SUFFICES ASSUME conn \in {"greeting", "starting", "up"}, NEW k \in Keys \ pressed
                 PROVE  EndsUp(k)'
    BY <1>1 DEF Recorded
  <1>3. EndsUp(k)
    BY <1>2 DEF Recorded
  <1>4. wire \in Seq(Cmd) /\ cmds \in Seq(Cmd) /\ wire # <<>> /\ wire' = Tail(wire)
    BY SeqMonotonic, Commands DEF TypeOK, Inject
  <1> DEFINE m == Head(wire)
  <1>5. /\ m \in Cmd
        /\ Lifted(wire, k) => Lifted(wire', k)
        /\ Lifted(wire, k) /\ m = Press(k) => Lifts(wire', k)
        /\ Lifts(wire, k) /\ m # Release(k) => Lifts(wire', k)
    BY <1>4, LiftTail
  <1>6. \/ cmds' = cmds /\ m # Press(k) /\ m # Release(k)
        \/ cmds' = Append(cmds, m)
    BY DEF Inject, Keymap, Press, Release, Key
  <1> HIDE DEF m
  <1>7. CASE cmds' = cmds /\ m # Press(k) /\ m # Release(k)
    BY <1>1, <1>3, <1>5, <1>7 DEF EndsUp
  <1>8. CASE cmds' = Append(cmds, m)
    <2>1. /\ m # Press(k) /\ Lifted(cmds, k) => Lifted(cmds', k)
          /\ Lifts(cmds, k) => Lifts(cmds', k)
          /\ m = Release(k) => Lifted(cmds', k) /\ Lifts(cmds', k)
      BY <1>4, <1>5, <1>8, LiftAppend
    <2> QED
      BY <1>1, <1>3, <1>5, <2>1 DEF EndsUp
  <1> QED
    BY <1>6, <1>7, <1>8

LEMMA CommandRecorded ==
  ASSUME TypeOK, MirrorsThread, Lives, Recorded, OnCmd
  PROVE  Recorded'
  <1>1. UNCHANGED <<focus, pressed, conn, uiQ, wire>>
    BY DEF OnCmd, uiVars
  <1>2. SUFFICES ASSUME conn \in {"greeting", "starting", "up"}, NEW k \in Keys \ pressed
                 PROVE  EndsUp(k)'
    BY <1>1 DEF Recorded
  <1>3. EndsUp(k)
    BY <1>2 DEF Recorded
  <1>4. cmds \in Seq(Cmd) /\ cmds # <<>> /\ cmds' = Tail(cmds) /\ th.alive
    BY DEF TypeOK, OnCmd
  <1> DEFINE m == Head(cmds)
  <1>5. /\ m \in Cmd
        /\ Lifted(cmds, k) => Lifted(cmds', k)
        /\ Lifted(cmds, k) /\ m = Press(k) => Lifts(cmds', k)
        /\ Lifts(cmds, k) /\ m # Release(k) => Lifts(cmds', k)
    BY <1>4, LiftTail
  <1>6. m \in Msg
    <2>1. conn = "up"
      BY <1>2, <1>4 DEF Lives
    <2>2. Len(cmds) \in Nat /\ Len(cmds) > 0 /\ m = cmds[1]
      BY <1>4, Ends
    <2> QED
      BY <2>1, <2>2 DEF Lives
  <1>7. \/ m.type = "Key" /\ OnKey(m)
        \/ m.type = "Keymap" /\ OnSetKeymap(m)
    BY <1>6, Commands DEF OnCmd, Msg, ReleaseAll, Stop
  <1> HIDE DEF m
  <1>8. CASE m.type = "Key" /\ OnKey(m)
    <2>1. /\ m.key \in Keys /\ m.pressed \in BOOLEAN
          /\ (m.pressed => m = Press(m.key)) /\ (~m.pressed => m = Release(m.key))
      BY <1>5, <1>8, Commands, KeyCommand
    <2>2. comp'.down = IF m.pressed THEN comp.down \cup {m.key} ELSE comp.down \ {m.key}
      BY <1>8 DEF OnKey, ShowMods, TypeOK
    <2>3. CASE m.key = k
      <3>1. m = Press(k) \/ (m = Release(k) /\ k \notin comp'.down)
        BY <2>1, <2>2, <2>3
      <3>2. m = Press(k) => m # Release(k)
        BY Commands
      <3> QED
        BY <1>1, <1>3, <1>5, <3>1, <3>2 DEF EndsUp
    <2>4. CASE m.key # k
      <3>1. m # Press(k) /\ m # Release(k)
        BY <2>1, <2>4, Commands
      <3>2. k \in comp'.down <=> k \in comp.down
        BY <2>1, <2>2, <2>4
      <3> QED
        BY <1>1, <1>3, <1>5, <3>1, <3>2 DEF EndsUp
    <2> QED
      BY <2>3, <2>4
  <1>9. CASE m.type = "Keymap" /\ OnSetKeymap(m)
    <2>1. m # Press(k) /\ m # Release(k)
      BY <1>9 DEF Press, Release, Key
    <2>2. comp'.down = comp.down
      BY <1>9 DEF OnSetKeymap, ShowMods, TypeOK
    <2> QED
      BY <1>1, <1>3, <1>5, <2>1, <2>2 DEF EndsUp
  <1> QED
    BY <1>7, <1>8, <1>9

LEMMA StepRecorded ==
  ASSUME TypeOK, MirrorsThread, Lives, Recorded, [Next]_vars
  PROVE  Recorded'
  <1>1. CASE UNCHANGED <<focus, pressed, conn, uiQ, wire, cmds, comp>>
    BY <1>1 DEF Recorded, EndsUp
  <1>2. ASSUME NEW k \in Keys, KeyPressed(k)
        PROVE  Recorded'
    <2>1. UNCHANGED <<conn, wire, cmds, comp>> /\ focus /\ pressed \in SUBSET Keys
      BY <1>2 DEF KeyPressed, remoteVars, TypeOK
    <2>2. CASE Send(Releases) /\ pressed' = {} /\ focus' = FALSE
      BY <2>1, <2>2, ReleasesRecorded DEF TypeOK
    <2>3. CASE k \in pressed /\ pressed' = pressed /\ Send(<<>>) /\ focus' = focus
      <3> DEFINE ms == <<>>
      <3>1. ms \in Seq(Msg) /\ Len(ms) = 0 /\ Send(ms)
        BY <2>3, EmptySeq
      <3> HIDE DEF ms
      <3>2. /\ pressed' \in SUBSET Keys
            /\ ~focus' => pressed' = {}
            /\ \A j \in Keys \ pressed' : /\ \A i \in 1..Len(ms) : ms[i] # Press(j)
                                          /\ j \in pressed => Lifts(ms, j)
        BY <2>1, <2>3, <3>1
      <3> QED
        BY <2>1, <3>1, <3>2, WindowRecorded
    <2>4. CASE k \notin pressed /\ pressed' = pressed \cup {k}
               /\ Send(<<Key(k, TRUE)>>) /\ focus' = focus
      <3> DEFINE ms == <<Press(k)>>
      <3>1. ms \in Seq(Msg) /\ Len(ms) = 1 /\ ms[1] = Press(k)
        BY Commands
      <3> HIDE DEF ms
      <3>2. \A j \in Keys \ pressed' : /\ \A i \in 1..Len(ms) : ms[i] # Press(j)
                                       /\ j \in pressed => Lifts(ms, j)
        BY <2>4, <3>1, Commands
      <3>3. Send(ms)
        BY <2>4 DEF ms, Press
      <3> QED
        BY <2>1, <2>4, <3>1, <3>2, <3>3, WindowRecorded
    <2> QED
      BY <1>2, <2>2, <2>3, <2>4 DEF KeyPressed
  <1>3. ASSUME NEW k \in Keys, KeyReleased(k)
        PROVE  Recorded'
    <2>1. /\ UNCHANGED <<conn, wire, cmds, comp>> /\ focus /\ pressed \in SUBSET Keys
          /\ focus' = focus /\ pressed' = pressed \ {k}
      BY <1>3 DEF KeyReleased, remoteVars, TypeOK
    <2>2. CASE k \notin pressed /\ Send(<<>>)
      <3> DEFINE ms == <<>>
      <3>1. ms \in Seq(Msg) /\ Len(ms) = 0 /\ Send(ms)
        BY <2>2, EmptySeq
      <3> HIDE DEF ms
      <3>2. /\ pressed' \in SUBSET Keys
            /\ ~focus' => pressed' = {}
            /\ \A j \in Keys \ pressed' : /\ \A i \in 1..Len(ms) : ms[i] # Press(j)
                                          /\ j \in pressed => Lifts(ms, j)
        BY <2>1, <2>2, <3>1
      <3> QED
        BY <2>1, <3>1, <3>2, WindowRecorded
    <2>3. CASE k \in pressed /\ Send(<<Key(k, FALSE)>>)
      <3> DEFINE ms == <<Release(k)>>
      <3>1. ms \in Seq(Msg) /\ Len(ms) = 1 /\ ms[1] = Release(k)
        BY Commands
      <3> HIDE DEF ms
      <3>2. \A j \in Keys \ pressed' : /\ \A i \in 1..Len(ms) : ms[i] # Press(j)
                                       /\ j \in pressed => Lifts(ms, j)
        BY <2>1, <3>1, Commands DEF Lifts
      <3>3. Send(ms)
        BY <2>3 DEF ms, Release
      <3> QED
        BY <2>1, <3>1, <3>2, <3>3, WindowRecorded
    <2> QED
      BY <1>3, <2>2, <2>3 DEF KeyReleased
  <1>4. CASE FocusLeave
    BY <1>4, ReleasesRecorded DEF FocusLeave, remoteVars
  <1>5. CASE FocusEnter
    BY <1>5 DEF FocusEnter, remoteVars, Recorded, EndsUp
  <1>6. CASE StartSession
    <2>1. /\ uiQ' = <<>> /\ wire' = <<>> /\ cmds' = <<>> /\ comp' = Gone
          /\ UNCHANGED <<focus, pressed>>
      BY <1>6 DEF StartSession, uiVars, remoteVars, Lives
    <2> QED
      BY <2>1, LiftEmpty DEF Recorded, EndsUp, Gone
  <1>7. CASE SendHello
    BY <1>7 DEF SendHello, uiVars, remoteVars, Recorded, EndsUp
  <1>8. CASE ForwardKeymap \/ ForwardInput
    BY <1>8, ForwardRecorded
  <1>9. CASE UNCHANGED uiVars /\ conn' \in {"down", "ending"}
    BY <1>9 DEF Recorded, uiVars
  <1>10. CASE StartInput
    <2>1. CASE conn' = "down"
      BY <1>10, <2>1 DEF StartInput, Recorded, uiVars
    <2>2. CASE conn' # "down"
      <3>1. /\ UNCHANGED <<focus, pressed, uiQ, wire, cmds>> /\ comp'.down = {}
            /\ conn = "starting"
        BY <1>10, <2>2 DEF StartInput, uiVars, Gone
      <3>2. comp.down = {}
        BY <3>1 DEF Lives, Gone
      <3> QED
        BY <3>1, <3>2 DEF Recorded, EndsUp
    <2> QED
      BY <2>1, <2>2
  <1>11. CASE Inject
    BY <1>11, InjectRecorded
  <1>12. CASE OnCmd
    BY <1>12, CommandRecorded
  <1>13. Disconnect \/ EndSession => UNCHANGED uiVars /\ conn' \in {"down", "ending"}
    BY DEF Disconnect, EndSession
  <1>14. SwitchKeymap \/ WatchKeymap \/ UNCHANGED vars =>
           UNCHANGED <<focus, pressed, conn, uiQ, wire, cmds, comp>>
    BY DEF SwitchKeymap, WatchKeymap, vars, uiVars, remoteVars
  <1> QED
    BY <1>1, <1>2, <1>3, <1>4, <1>5, <1>6, <1>7, <1>8, <1>9, <1>10, <1>11, <1>12,
       <1>13, <1>14 DEF Next

-----------------------------------------------------------------------------
(* The theorems.                                                             *)

LEMMA InitSound == Init => IInv
  <1> SUFFICES ASSUME Init
               PROVE  IInv
    OBVIOUS
  <1>1. MirrorsThread
    BY DEF Init, MirrorsThread, Dead, Gone
  <1>2. Lives
    BY DEF Init, Lives, Dead
  <1>3. Recorded
    BY DEF Init, Recorded
  <1> QED
    BY <1>1, <1>2, <1>3, InitTyped DEF IInv

LEMMA StepSound == IInv /\ [Next]_vars => IInv'
  BY StepTyped, StepMirrored, StepLives, StepRecorded DEF IInv

LEMMA Invariant == Spec => []IInv
  BY InitSound, StepSound, PTL DEF Spec

\* The state of the keyboard is well formed: what is on its way are messages of
\* the protocol, what the thread and the compositor keep are keys and keymaps.
THEOREM TypeCorrect == Spec => []TypeOK
  <1>1. IInv => TypeOK
    BY DEF IInv
  <1> QED
    BY <1>1, Invariant, PTL

\* The compositor applies exactly the modifiers of the keys it holds down, under
\* the keymap it has, whatever keymaps arrive while keys are held.
THEOREM ModifiersMatch == Spec => []ModifiersFollowKeys
  <1>1. IInv => ModifiersFollowKeys
    BY DEF IInv, MirrorsThread, ModifiersFollowKeys
  <1> QED
    BY <1>1, Invariant, PTL

\* When all that was on its way has arrived, the remote holds no key that the
\* user does not hold in the window, and nothing once the session has ended.
THEOREM NoKeyStuck == Spec => []NothingStuck
  <1>1. IInv => NothingStuck
    <2> SUFFICES ASSUME IInv, Drained
                 PROVE  /\ conn = "up" => comp.down \subseteq pressed
                        /\ conn = "up" /\ ~focus => comp.down = {}
                        /\ conn = "down" => comp = Gone
      BY DEF NothingStuck
    <2>1. TypeOK /\ Lives /\ Recorded
      BY DEF IInv
    <2>2. uiQ = <<>> /\ wire = <<>> /\ cmds = <<>>
      BY DEF Drained
    <2>3. \A k \in Keys : EndsUp(k) => k \notin comp.down
      BY <2>2, LiftEmpty DEF EndsUp
    <2>4. conn = "up" => comp.down \subseteq pressed
      BY <2>1, <2>3 DEF Recorded, TypeOK
    <2>5. ~focus => pressed = {}
      BY <2>1 DEF Recorded
    <2>6. conn = "down" => comp = Gone
      BY <2>1, <2>2 DEF Lives, TypeOK
    <2> QED
      BY <2>4, <2>5, <2>6
  <1> QED
    BY <1>1, Invariant, PTL

\* A lock that is on goes off only in a release of everything or when a key is
\* released that was pressed, or replayed, while a lock was on.
THEOREM LocksStay == Spec => LocksSurvive
  <1> DEFINE Goes == comp.lock /\ ~comp'.lock
             Why == \/ Head(cmds).type \in {"ReleaseAll", "Stop"}
                    \/ Head(cmds) \in {Key(k, FALSE) : k \in armed}
  <1>1. ASSUME IInv, [Next]_vars, Goes
        PROVE  Why
    <2> DEFINE m == Head(cmds)
    <2>1. TypeOK /\ MirrorsThread /\ Lives
      BY <1>1 DEF IInv
    <2>2. OnCmd
      <3>1. comp # Gone
        BY <1>1 DEF Gone
      <3>2. ~StartInput
        BY <2>1, <3>1 DEF StartInput, Lives
      <3>3. comp' # comp
        BY <1>1
      <3> QED
        BY <1>1, <3>2, <3>3 DEF Next, vars, KeyPressed, KeyReleased, FocusLeave,
           FocusEnter, SwitchKeymap, WatchKeymap, StartSession, SendHello,
           ForwardKeymap, ForwardInput, Disconnect, Inject, EndSession, remoteVars
    <2>3. m \in Cmd
      BY <2>1, <2>2, Ends DEF OnCmd, TypeOK
    <2>4. \/ m.type = "Key" /\ OnKey(m)
          \/ m.type = "Keymap" /\ OnSetKeymap(m)
          \/ m.type \in {"ReleaseAll", "Stop"}
      BY <2>2 DEF OnCmd
    <2> HIDE DEF m
    <2>5. CASE m.type = "Key" /\ OnKey(m)
      <3>1. /\ m.key \in Keys /\ m.pressed \in BOOLEAN
            /\ ~m.pressed => m = Key(m.key, FALSE)
        BY <2>3, <2>5, Commands, KeyCommand DEF Release
      <3>2. comp'.lock = th'.lock /\ comp.lock = th.lock
        BY <2>1, <2>5 DEF OnKey, ShowMods, TypeOK, MirrorsThread
      <3>3. ~m.pressed /\ m.key \in th.clears
        BY <1>1, <2>1, <2>5, <3>1, <3>2 DEF OnKey, XkbDown, XkbUp, TypeOK
      <3>4. m = Key(m.key, FALSE) /\ m.key \in armed
        BY <2>1, <3>1, <3>3 DEF MirrorsThread
      <3> QED
        BY <3>4 DEF m
    <2>6. CASE m.type = "Keymap" /\ OnSetKeymap(m)
      <3>1. comp'.lock = comp.lock
        BY <2>1, <2>6 DEF OnSetKeymap, CarryOver, ShowMods, TypeOK, MirrorsThread
      <3> QED
        BY <1>1, <3>1
    <2> QED
      BY <2>4, <2>5, <2>6 DEF m
  <1>2. IInv /\ [Next]_vars => [Goes => Why]_vars
    BY <1>1
  <1> QED
    BY <1>2, Invariant, PTL DEF Spec, LocksSurvive

-----------------------------------------------------------------------------
\* The window's machine.

\* A pending reconnect is of a generation that has been, and of the current
\* one only to the machine that is connected.
TimersOfTheMachine ==
  \A t \in timers : t[1] \in Nat /\ t[1] <= session /\ (t[1] = session => t[2] = endpoint)

SessionInv == session \in Nat /\ TimersOfTheMachine /\ ReconnectsToItsMachine

LEMMA InitSession == SessionInit => SessionInv
BY DEF SessionInit, SessionInv, TimersOfTheMachine, ReconnectsToItsMachine

\* After a new generation no pending reconnect is of the current one.
LEMMA NewGeneration ==
  ASSUME SessionInv, NEW m, StartSessionOn(m), timers' \subseteq timers
  PROVE  session' \in Nat /\ TimersOfTheMachine' /\ endpoint' = m
BY DEF SessionInv, StartSessionOn, TimersOfTheMachine

LEMMA PollKeepsMachine ==
  ASSUME SessionInv, PollStatus
  PROVE  SessionInv'
<1>1. session' = session /\ endpoint' = endpoint /\ machine' = machine
  BY DEF PollStatus
<1>2. timers' = timers \/ timers' = timers \cup {<<session, endpoint>>}
  BY DEF PollStatus, ScheduleReconnect
<1> QED
  BY <1>1, <1>2 DEF SessionInv, TimersOfTheMachine, ReconnectsToItsMachine

LEMMA StepKeepsMachine == SessionInv /\ [SessionNext]_sessionVars => SessionInv'
<1> SUFFICES ASSUME SessionInv, [SessionNext]_sessionVars
             PROVE  SessionInv'
  OBVIOUS
<1>1. ASSUME NEW m \in Machines, ConnectTo(m)
      PROVE  SessionInv'
  <2>1. timers' = timers /\ machine' = m /\ StartSessionOn(m)
    BY <1>1 DEF ConnectTo
  <2> QED
    BY <2>1, NewGeneration DEF SessionInv, ReconnectsToItsMachine
<1>2. ASSUME NEW t \in timers, TimerFires(t)
      PROVE  SessionInv'
  <2>1. timers' \subseteq timers /\ machine' = machine
    BY <1>2 DEF TimerFires
  <2>2. CASE t[1] = session
    <3>1. StartSessionOn(t[2]) /\ t[2] = endpoint
      BY <1>2, <2>2 DEF TimerFires, SessionInv, TimersOfTheMachine
    <3> QED
      BY <2>1, <3>1, NewGeneration DEF SessionInv, ReconnectsToItsMachine
  <2>3. CASE t[1] # session
    BY <1>2, <2>1, <2>3 DEF TimerFires, SessionInv, TimersOfTheMachine, ReconnectsToItsMachine
  <2> QED
    BY <2>2, <2>3
<1>3. CASE PollStatus
  BY <1>3, PollKeepsMachine
<1> DEFINE Kept == UNCHANGED <<session, endpoint, machine, timers>>
<1>4. ASSUME NEW size \in Windows, PollView(size) \/ SettleFires(size)
      PROVE  Kept
  BY <1>4 DEF PollView, SettleFires, dialing
<1>5. ASSUME NEW e \in Epochs, Worker(e) \/ WorkerRefused(e) \/ LinkLost(e)
      PROVE  Kept
  BY <1>5 DEF Worker, WorkerConnects, WorkerReads, WorkerReadsEnd, WorkerLeft, WorkerRefused,
              LinkLost, dialing
<1>6. ASSUME NEW e \in Epochs,
             \/ Server(e) \/ ServerAbandons(e) \/ ServerReconfigures(e)
             \/ ServerStops(e) \/ ServerFails(e)
      PROVE  Kept
  <2>1. Rest
    BY <1>6 DEF Server, Setup, ServerGreets, ServerCreates, ServerFinds, ServerSizes,
                ServerOpensVideo, ServerStartsThreads, ServerResizes, ServerLeft, ServerDrops,
                ServerAbandons, ServerReconfigures, ServerStops, ServerFails
  <2> QED
    BY <2>1 DEF Rest, dialing
<1>7. CASE UNCHANGED sessionVars
  BY <1>7 DEF sessionVars, dialing, SessionInv, TimersOfTheMachine, ReconnectsToItsMachine
<1>8. Kept => SessionInv'
  BY DEF SessionInv, TimersOfTheMachine, ReconnectsToItsMachine
<1> QED
  BY <1>1, <1>2, <1>3, <1>4, <1>5, <1>6, <1>7, <1>8 DEF SessionNext

\* Whatever timers of earlier connections are still pending, and for any
\* machines and number of retries, the window is connected, or reconnects, to
\* the machine the user chose last.
THEOREM ReconnectsStay == SessionSpec => []ReconnectsToItsMachine
<1>1. SessionInv => ReconnectsToItsMachine
  BY DEF SessionInv
<1> QED
  BY <1>1, InitSession, StepKeepsMachine, PTL DEF SessionSpec

=============================================================================

------------------------ MODULE ClipboardBridgeProofs -------------------------
(* What ClipboardBridge promises, for any number of copies, clears and pastes: *)
(* no offer goes back to the desktop its item was copied on, and a paste       *)
(* brings the item its proxy promised, none, or one whose news was under way.  *)
EXTENDS ClipboardBridge, TLAPS

(* The inductive invariant.                                                   *)

\* The items copied on a side, and those an offer of that side may carry.
Made(side) == {i \in DOMAIN copies : copies[i] = side}
Offered(side) == Made(side) \cup {0}

\* What the side's own clipboard may hold, the other side's items proxied.
Proxies(side) == {"proxy"} \X Nat \X Made(side)
Contents(side, other) == {Empty} \cup ({"app"} \X Made(side)) \cup Proxies(other)

\* What each queue may carry.
Offers(side) == {"Offer"} \X Nat \X Offered(side)
WorkerCmds == ({"LocalOffer"} \X Offered("client")) \cup ({"Fetch"} \X Nat \X Made("server"))
StatusMsgs == Offers("server") \cup ({"Read"} \X Made("client") \X BOOLEAN \X Nat)
ToServer == Offers("client") \cup ({"Request"} \X Nat \X Made("server") \X {FALSE})
ToClient == Offers("server") \cup ({"Request"} \X Nat \X Made("client") \X BOOLEAN)
Events == ({"Selection"} \X Offered("server")) \cup ({"Paste"} \X Made("client"))
Requests == ({"Set"} \X ({Empty} \cup Proxies("client"))) \cup ({"Sync"} \X Nat)
Reports == ({"Selection"} \X Contents("server", "client")) \cup ({"Send"} \X Nat \X Made("client"))
             \cup ({"Cancelled", "Done"} \X Nat)

ClientFlow ==
  /\ clip \in Contents("client", "server") /\ lgen \in Nat
  /\ listing \in SUBSET (Nat \X Offered("client"))
  /\ toWorker \in Seq(WorkerCmds) /\ status \in Seq(StatusMsgs)
WireFlow == lserial \in Nat /\ c2s \in Seq(ToServer) /\ s2c \in Seq(ToClient)
BridgeFlow ==
  /\ gen \in Nat /\ listed \in SUBSET (Nat \X Offered("server"))
  /\ remote \in Nat \X Offered("client") /\ cmds \in Seq(Offered("client"))
  /\ events \in Seq(Events)
ThreadFlow ==
  /\ source \in Nat /\ sources \in Nat /\ withdrawn \in Nat /\ settled \in Nat
  /\ current \in Contents("server", "client")
CompositorFlow ==
  /\ requests \in Seq(Requests) /\ reports \in Seq(Reports)
  /\ selection \in Contents("server", "client")

\* Whose items each part of the system holds.
Flow == /\ copies \in Seq({"client", "server"})
        /\ ClientFlow /\ WireFlow /\ BridgeFlow /\ ThreadFlow /\ CompositorFlow

\* The newest message of a kind in q, if there is one, has x at position at.
Newest(q, kind, at, x) ==
  \A k \in DOMAIN q :
    q[k][1] = kind /\ (\A j \in DOMAIN q : j > k => q[j][1] # kind) => q[k][at] = x

In(m, q) == \E k \in DOMAIN q : m = q[k]

\* The client's offers come in the order of their serials, newer than remote,
\* the newest under lserial; an unraced paste asks for the item that stands for.
Asks(serial, item, raced) ==
  serial <= lserial /\ (serial = lserial /\ ~raced => remote = <<lserial, item>>)
OfferOrder ==
  /\ remote[1] <= lserial
  /\ \A k \in DOMAIN c2s : c2s[k][1] = "Offer" => remote[1] < c2s[k][2] /\ c2s[k][2] <= lserial
  /\ \A j, k \in DOMAIN c2s :
       j < k /\ c2s[j][1] = "Offer" /\ c2s[k][1] = "Offer" => c2s[j][2] < c2s[k][2]
NewestSerial == /\ Newest(c2s, "Offer", 2, lserial)
                /\ ~Has(c2s, "Offer") => remote[1] = lserial
Asked ==
  /\ \A k \in DOMAIN s2c : s2c[k][1] = "Request" => Asks(s2c[k][2], s2c[k][3], s2c[k][4])
  /\ \A k \in DOMAIN status :
       status[k][1] = "Read" => Asks(status[k][4], status[k][2], status[k][3])

\* The client's clipboard is what the newest of its news says, wherever that is.
Listing == \A l \in listing : l[1] <= lgen /\ (l[1] = lgen => ~IsProxy(clip) /\ l[2] = ItemOf(clip))
Unlisted == \E l \in listing : l[1] = lgen
TellsOf(item) ==
  /\ Newest(toWorker, "LocalOffer", 2, item)
  /\ ~Has(toWorker, "LocalOffer") => Newest(c2s, "Offer", 3, item)
  /\ ~Has(toWorker, "LocalOffer") /\ ~Has(c2s, "Offer") => remote[2] = item
Told == ~IsProxy(clip) /\ ~Unlisted => TellsOf(ItemOf(clip))

\* An item of the server's that the client holds or will hear of.
Live(item) ==
  \/ In(<<"Selection", App(item)>>, reports) \/ In(<<"Selection", item>>, events)
  \/ \E l \in listed : l[2] = item
  \/ \E k \in DOMAIN s2c : s2c[k][1] = "Offer" /\ s2c[k][3] = item
  \/ \E k \in DOMAIN status : status[k][1] = "Offer" /\ status[k][3] = item
  \/ IsProxy(clip) /\ clip[3] = item

\* One no change of the client's has crossed: none is on its way, nor its echo,
\* so that what the thread reports after the item is the desktop's own doing.
Uncrossed(item) == Live(item) /\ item > crossed
Own(report) == report[1] # "Done" /\ (report[1] = "Selection" => ~IsProxy(report[2]))
OwnAfter(item, q, content) ==
  /\ \A p, k \in DOMAIN q : p < k /\ q[p] = <<"Selection", App(item)>> => Own(q[k])
  /\ ~In(<<"Selection", App(item)>>, q) => ~IsProxy(content) /\ \A k \in DOMAIN q : Own(q[k])
Undisturbed ==
  /\ crossed \in 0 .. Len(copies)
  /\ \A item \in Made("server") :
       Uncrossed(item) => ~LocalUnheard /\ OwnAfter(item, reports, current)

\* The bridge has been told, or will be, of the selection the thread has: an
\* application's, or the one after an item no change of the client's crossed.
Accounted ==
  \/ current[1] = "app"
  \/ \E item \in Made("server") : Uncrossed(item) /\ ~In(<<"Selection", App(item)>>, reports)

\* The item a serial of the server's stands for: the current one, once the
\* bridge has seen every selection the thread reported.
StandsFor(serial, item) ==
  /\ serial <= gen
  /\ serial = gen /\ Accounted /\ ~Has(events, "Selection") => item = ItemOf(current)
Serials ==
  /\ \A l \in listed : StandsFor(l[1], l[2])
  /\ \A k \in DOMAIN s2c : s2c[k][1] = "Offer" => StandsFor(s2c[k][2], s2c[k][3])
  /\ \A k \in DOMAIN status : status[k][1] = "Offer" => StandsFor(status[k][2], status[k][3])
  /\ IsProxy(clip) => StandsFor(clip[2], clip[3])
  /\ \A k \in DOMAIN toWorker :
       toWorker[k][1] = "Fetch" => StandsFor(toWorker[k][2], toWorker[k][3])
  /\ \A k \in DOMAIN c2s : c2s[k][1] = "Request" => StandsFor(c2s[k][2], c2s[k][3])
Reported == Accounted => Newest(events, "Selection", 2, ItemOf(current))

\* The newest offer of the server's is the newest selection's, on its way or in
\* the proxy.
Offering == \E l \in listed : l[1] = gen
Latest == ~Offering =>
  /\ Newest(s2c, "Offer", 2, gen)
  /\ ~Has(s2c, "Offer") => Newest(status, "Offer", 2, gen)
  /\ ~Has(s2c, "Offer") /\ ~Has(status, "Offer") /\ IsProxy(clip) => clip[2] = gen

\* The thread has, or will have, the compositor's selection.
Tracks == /\ Newest(reports, "Selection", 2, selection)
          /\ ~Has(reports, "Selection") => current = selection

\* A withdrawal that may still be echoed has its sync's answer before it.
Withdrawals == PendingEcho =>
  In(<<"Sync", withdrawn>>, requests) \/ In(<<"Done", withdrawn>>, reports)

\* Our sources are set in the order of their numbers, so that the one cancelled
\* is never the newest the requests still set.
Sets(k) == requests[k][1] = "Set" /\ IsProxy(requests[k][2])
SourceOrder ==
  /\ IsProxy(selection) => 0 < selection[2] /\ selection[2] <= sources
  /\ \A k \in DOMAIN requests : Sets(k) =>
       /\ 0 < requests[k][2][2] /\ requests[k][2][2] <= sources
       /\ IsProxy(selection) => selection[2] < requests[k][2][2]
       /\ \A j \in DOMAIN requests : j < k /\ Sets(j) => requests[j][2][2] < requests[k][2][2]
  /\ \A k \in DOMAIN reports : reports[k][1] = "Cancelled" => reports[k][2] <= sources

\* Our own selection, set or about to be, is the thread's source, not cancelled,
\* and stands for the newest command.
LastSet(k) == /\ requests[k][1] = "Set"
              /\ \A j \in DOMAIN requests : j > k => requests[j][1] # "Set"
Mine(content) == IsProxy(content) =>
  /\ content[2] = source /\ source = sources /\ ~In(<<"Cancelled", sources>>, reports)
  /\ cmds = <<>> => content[3] = remote[2]
Ownership == /\ ~Has(requests, "Set") => Mine(selection)
             /\ \A k \in DOMAIN requests : LastSet(k) => Mine(requests[k][2])

\* What the compositor will have selected once its requests are handled.
Settling(c) == IF Has(requests, "Set")
               THEN \E k \in DOMAIN requests : LastSet(k) /\ requests[k][2] = c
               ELSE c = selection
Commands == cmds # <<>> => cmds[Len(cmds)] = remote[2]

\* Two applications' items that face each other are about to be shared.
ClientComing == \/ Unlisted \/ Has(toWorker, "LocalOffer") \/ Has(c2s, "Offer") \/ cmds # <<>>
                \/ \E k \in DOMAIN requests : LastSet(k) /\ IsProxy(requests[k][2])
ServerComing == \/ Has(reports, "Selection") \/ Has(events, "Selection") \/ Offering
                \/ Has(s2c, "Offer") \/ Has(status, "Offer")
Facing == clip[1] = "app" /\ selection[1] = "app" => ClientComing \/ ServerComing

IInv == /\ Flow /\ OfferOrder /\ NewestSerial /\ Asked /\ Listing /\ Told
        /\ Undisturbed /\ Serials /\ Reported /\ Latest /\ Tracks /\ Withdrawals
        /\ SourceOrder /\ Ownership /\ Commands /\ Facing
        /\ PasteIsPromised

-------------------------------------------------------------------------------
(* Queues. *)

\* A sequence over a set is one over every larger set.
LEMMA SeqGrows ==
  ASSUME NEW S, NEW T, S \subseteq T, NEW q \in Seq(S)
  PROVE  q \in Seq(T)
  OBVIOUS

\* Two queues of the same messages make one.
LEMMA Joined ==
  ASSUME NEW S, NEW q \in Seq(S), NEW r \in Seq(S)
  PROVE  q \o r \in Seq(S)
  OBVIOUS

\* What is taken from a queue and what is left belong to it.
LEMMA HeadAndTail ==
  ASSUME NEW S, NEW q \in Seq(S), q # <<>>
  PROVE  Head(q) \in S /\ Tail(q) \in Seq(S)
  OBVIOUS

-------------------------------------------------------------------------------
(* Whose items each part holds. *)

\* A copy is its side's, and takes none away from anybody.
LEMMA CopyMakes ==
  ASSUME Flow, NEW side \in {"client", "server"}, Copied(side)
  PROVE  /\ copies' \in Seq({"client", "server"})
         /\ Len(copies) + 1 \in Made(side)'
         /\ \A s \in {"client", "server"} : Made(s) \subseteq Made(s)'
  BY DEF Flow, Copied, Made

\* Whatever a part may hold it may hold after a copy.
LEMMA FlowGrows ==
  ASSUME \A s \in {"client", "server"} : Made(s) \subseteq Made(s)'
  PROVE  /\ \A s \in {"client", "server"} : Offered(s) \subseteq Offered(s)'
         /\ Contents("client", "server") \subseteq Contents("client", "server")'
         /\ Contents("server", "client") \subseteq Contents("server", "client")'
         /\ WorkerCmds \subseteq WorkerCmds' /\ StatusMsgs \subseteq StatusMsgs'
         /\ ToServer \subseteq ToServer' /\ ToClient \subseteq ToClient'
         /\ Events \subseteq Events' /\ Requests \subseteq Requests' /\ Reports \subseteq Reports'
<1>1. \A s \in {"client", "server"} : Offered(s) \subseteq Offered(s)'
  BY DEF Offered
<1>2. \A s \in {"client", "server"} : Proxies(s) \subseteq Proxies(s)'
  BY DEF Proxies
<1>3. \A s \in {"client", "server"} : Offers(s) \subseteq Offers(s)'
  BY <1>1 DEF Offers
<1>4. /\ Contents("client", "server") \subseteq Contents("client", "server")'
      /\ Contents("server", "client") \subseteq Contents("server", "client")'
  BY <1>2 DEF Contents
<1>5. WorkerCmds \subseteq WorkerCmds'
  BY <1>1 DEF WorkerCmds
<1>6. StatusMsgs \subseteq StatusMsgs'
  BY <1>3 DEF StatusMsgs
<1>7. ToServer \subseteq ToServer'
  BY <1>3 DEF ToServer
<1>8. ToClient \subseteq ToClient'
  BY <1>3 DEF ToClient
<1>9. Events \subseteq Events'
  BY <1>1 DEF Events
<1>10. Requests \subseteq Requests'
  BY <1>2 DEF Requests
<1>11. Reports \subseteq Reports'
  BY <1>4 DEF Reports
<1> QED
  BY <1>1, <1>4, <1>5, <1>6, <1>7, <1>8, <1>9, <1>10, <1>11

LEMMA ClientFlowKept ==
  ASSUME ClientFlow, \A s \in {"client", "server"} : Made(s) \subseteq Made(s)', UNCHANGED gtk
  PROVE  ClientFlow'
  BY FlowGrows, SeqGrows DEF ClientFlow, gtk
LEMMA WireFlowKept ==
  ASSUME WireFlow, \A s \in {"client", "server"} : Made(s) \subseteq Made(s)', UNCHANGED wire
  PROVE  WireFlow'
  BY FlowGrows, SeqGrows DEF WireFlow, wire
LEMMA BridgeFlowKept ==
  ASSUME BridgeFlow, \A s \in {"client", "server"} : Made(s) \subseteq Made(s)', UNCHANGED bridge
  PROVE  BridgeFlow'
  BY FlowGrows, SeqGrows DEF BridgeFlow, bridge
LEMMA ThreadFlowKept ==
  ASSUME ThreadFlow, \A s \in {"client", "server"} : Made(s) \subseteq Made(s)', UNCHANGED thread
  PROVE  ThreadFlow'
  BY FlowGrows DEF ThreadFlow, thread
LEMMA CompositorFlowKept ==
  ASSUME CompositorFlow, \A s \in {"client", "server"} : Made(s) \subseteq Made(s)',
         UNCHANGED compositor
  PROVE  CompositorFlow'
  BY FlowGrows, SeqGrows DEF CompositorFlow, compositor

\* With no copy, whatever a part may hold stays the same.
LEMMA SetsKept ==
  ASSUME UNCHANGED copies
  PROVE  /\ \A s \in {"client", "server"} : Made(s) \subseteq Made(s)'
         /\ Offered("client")' = Offered("client") /\ Offered("server")' = Offered("server")
         /\ Contents("client", "server")' = Contents("client", "server")
         /\ Contents("server", "client")' = Contents("server", "client")
         /\ WorkerCmds' = WorkerCmds /\ StatusMsgs' = StatusMsgs
         /\ ToServer' = ToServer /\ ToClient' = ToClient
         /\ Events' = Events /\ Requests' = Requests /\ Reports' = Reports
  BY DEF Made, Offered, Proxies, Contents, Offers, WorkerCmds, StatusMsgs, ToServer, ToClient,
         Events, Requests, Reports

\* A clipboard's content is empty, an application's or a proxy.
LEMMA ContentIs ==
  ASSUME NEW own, NEW other, NEW c \in Contents(own, other)
  PROVE  /\ c = Empty \/ (\E i \in Made(own) : c = App(i))
              \/ (\E s \in Nat, i \in Made(other) : c = Proxy(s, i))
         /\ ~IsProxy(c) => ItemOf(c) \in Offered(own)
         /\ IsProxy(c) => c # Empty /\ c[2] \in Nat /\ c[3] \in Made(other) /\ c = Proxy(c[2], c[3])
         /\ c[1] = "app" => c # Empty /\ c[2] \in Made(own) /\ c = App(c[2])
         /\ ~IsProxy(c) /\ c # Empty => c[1] = "app"
<1>1. c = Empty \/ (\E i \in Made(own) : c = App(i))
        \/ (\E s \in Nat, i \in Made(other) : c = Proxy(s, i))
  BY DEF Contents, Proxies, App, Proxy
<1>2. CASE c = Empty
  BY <1>1, <1>2 DEF Empty, IsProxy, ItemOf, Offered
<1>3. CASE \E i \in Made(own) : c = App(i)
  BY <1>1, <1>3 DEF App, Empty, IsProxy, ItemOf, Offered
<1>4. CASE \E s \in Nat, i \in Made(other) : c = Proxy(s, i)
  BY <1>1, <1>4 DEF Proxy, Empty, IsProxy
<1> QED
  BY <1>1, <1>2, <1>3, <1>4

\* The shapes ItemOf and IsProxy tell apart.
LEMMA Shapes ==
  /\ \A s, i : IsProxy(Proxy(s, i)) /\ Proxy(s, i)[2] = s /\ Proxy(s, i)[3] = i
  /\ \A i : ~IsProxy(App(i)) /\ App(i)[1] = "app" /\ App(i)[2] = i /\ ItemOf(App(i)) = i
              /\ App(i) # Empty
  /\ ~IsProxy(Empty) /\ ItemOf(Empty) = 0 /\ Empty[1] # "app"
  BY DEF Proxy, App, Empty, IsProxy, ItemOf

\* A change of the client's clipboard is listed under its own side's item.
LEMMA ChangedFlow ==
  ASSUME ClientFlow, \A s \in {"client", "server"} : Made(s) \subseteq Made(s)',
         NEW c \in Contents("client", "server")', Changed(c), UNCHANGED toWorker,
         status' \in Seq(StatusMsgs)
  PROVE  ClientFlow'
<1>1. ~IsProxy(c) => ItemOf(c) \in Offered("client")'
  <2>1. c = Empty \/ (\E i \in Made("client")' : c = App(i))
          \/ (\E s \in Nat, i \in Made("server")' : c = Proxy(s, i))
    BY DEF Contents, Proxies, App, Proxy
  <2> QED
    BY <2>1, Shapes DEF Offered
<1>2. listing' \in SUBSET (Nat \X Offered("client")')
  BY <1>1, FlowGrows DEF Changed, ClientFlow
<1>3. toWorker' \in Seq(WorkerCmds') /\ status' \in Seq(StatusMsgs')
  BY FlowGrows, SeqGrows DEF ClientFlow
<1> QED
  BY <1>2, <1>3 DEF ClientFlow, Changed

\* So is a change of the server's: the compositor reports what it selected.
LEMMA SelectedFlow ==
  ASSUME CompositorFlow, \A s \in {"client", "server"} : Made(s) \subseteq Made(s)',
         NEW c \in Contents("server", "client")', Selected(c), requests' \in Seq(Requests)
  PROVE  CompositorFlow'
<1>1. \A m : m \in {"Cancelled"} \X Nat => m \in Reports'
  BY DEF Reports
<1>2. <<"Selection", c>> \in Reports'
  BY DEF Reports
<1>3. IsProxy(selection) => <<"Cancelled", selection[2]>> \in Reports'
  BY <1>1, ContentIs DEF CompositorFlow
<1> DEFINE cancels == IF IsProxy(selection) THEN <<<<"Cancelled", selection[2]>>>> ELSE <<>>
           news == IF c = selection THEN <<>> ELSE <<<<"Selection", c>>>>
<1>4. cancels \in Seq(Reports')
  BY <1>3
<1>5. news \in Seq(Reports')
  BY <1>2
<1>6. reports \in Seq(Reports')
  BY FlowGrows, SeqGrows DEF CompositorFlow
<1>7. reports' = reports \o cancels \o news
  BY DEF Selected
<1>8. reports' \in Seq(Reports')
  <2> HIDE DEF cancels, news
  <2> QED
    BY <1>4, <1>5, <1>6, <1>7, Joined
<1>9. requests' \in Seq(Requests')
  BY FlowGrows, SeqGrows
<1> QED
  BY <1>8, <1>9 DEF CompositorFlow, Selected

\* Every step of the client's side keeps the items where they belong.
LEMMA ClientSideFlow ==
  ASSUME Flow,
         \/ LocalCopy \/ LocalClear \/ (\E l \in listing : LocalListed(l))
         \/ SetRemoteOffer \/ ReadLocal \/ LocalPaste \/ OnUi \/ OnServerMsg
  PROVE  Flow'
<1> USE DEF Flow
<1> DEFINE Grow == \A s \in {"client", "server"} : Made(s) \subseteq Made(s)'
<1>c. CASE LocalCopy
  <2>1. copies' \in Seq({"client", "server"}) /\ Len(copies) + 1 \in Made("client")' /\ Grow
    BY <1>c, CopyMakes DEF LocalCopy
  <2>2. App(Len(copies) + 1) \in Contents("client", "server")'
    BY <2>1 DEF Contents, App
  <2>3. ClientFlow'
    <3>1. UNCHANGED <<toWorker, status>> /\ Changed(App(Len(copies) + 1))
      BY <1>c DEF LocalCopy
    <3> QED
      BY <2>1, <2>2, <3>1, ChangedFlow DEF ClientFlow
  <2>4. UNCHANGED <<wire, bridge, thread, compositor>>
    BY <1>c DEF LocalCopy
  <2> QED
    BY <2>1, <2>3, <2>4, WireFlowKept, BridgeFlowKept, ThreadFlowKept, CompositorFlowKept
<1>0. SUFFICES ASSUME UNCHANGED copies PROVE Flow'
  BY <1>c DEF LocalClear, LocalListed, SetRemoteOffer, ReadLocal, LocalPaste, OnUi, OnServerMsg,
              user
<1>g. Grow
  BY <1>0, SetsKept
<1> HIDE DEF Grow
<1>k. /\ UNCHANGED wire => WireFlow'
      /\ UNCHANGED bridge => BridgeFlow'
      /\ UNCHANGED thread => ThreadFlow'
      /\ UNCHANGED compositor => CompositorFlow'
  BY <1>g, WireFlowKept, BridgeFlowKept, ThreadFlowKept, CompositorFlowKept DEF Grow
<1>h. \A c \in Contents("client", "server") :
        Changed(c) /\ UNCHANGED toWorker /\ status' \in Seq(StatusMsgs) => ClientFlow'
  BY <1>0, <1>g, SetsKept, ChangedFlow DEF Grow
<1>e. Empty \in Contents("client", "server")
  BY DEF Contents
<1>1. CASE LocalClear
  <2>1. ClientFlow'
    BY <1>1, <1>h, <1>e DEF LocalClear, ClientFlow
  <2> QED
    BY <1>1, <1>0, <1>k, <2>1 DEF LocalClear
<1>2. ASSUME NEW l \in listing, LocalListed(l) PROVE Flow'
  <2>1. <<"LocalOffer", l[2]>> \in WorkerCmds
    BY DEF ClientFlow, WorkerCmds
  <2>2. toWorker' \in Seq(WorkerCmds)
    BY <1>2, <2>1 DEF LocalListed, ClientFlow
  <2>3. ClientFlow'
    BY <1>2, <1>0, <2>2, SetsKept DEF LocalListed, ClientFlow
  <2> QED
    BY <1>2, <1>0, <1>k, <2>3 DEF LocalListed
<1>3. CASE SetRemoteOffer
  <2> DEFINE msg == Head(status)
  <2>1. msg \in StatusMsgs /\ msg[1] = "Offer" /\ status' \in Seq(StatusMsgs)
    BY <1>3, HeadAndTail DEF SetRemoteOffer, ClientFlow
  <2>2. msg \in Offers("server") /\ msg[2] \in Nat /\ msg[3] \in Offered("server")
    BY <2>1 DEF StatusMsgs, Offers
  <2>3. msg[3] # 0 => Proxy(msg[2], msg[3]) \in Contents("client", "server")
    BY <2>2 DEF Contents, Proxies, Proxy, Offered
  <2>4. ClientFlow'
    <3>1. UNCHANGED toWorker
      BY <1>3 DEF SetRemoteOffer
    <3>2. CASE msg[3] # 0
      BY <1>3, <2>1, <2>3, <3>1, <3>2, <1>h DEF SetRemoteOffer
    <3>3. CASE msg[3] = 0 /\ IsProxy(clip)
      BY <1>3, <2>1, <1>e, <3>1, <3>3, <1>h DEF SetRemoteOffer
    <3>4. CASE msg[3] = 0 /\ ~IsProxy(clip)
      <4>1. UNCHANGED <<clip, lgen, listing>>
        BY <1>3, <3>4 DEF SetRemoteOffer
      <4> QED
        BY <4>1, <3>1, <2>1, <1>0, SetsKept DEF ClientFlow
    <3> QED
      BY <3>2, <3>3, <3>4
  <2> QED
    BY <1>3, <1>0, <1>k, <2>4 DEF SetRemoteOffer
<1>4. CASE ReadLocal
  <2>1. status' \in Seq(StatusMsgs)
    BY <1>4, HeadAndTail DEF ReadLocal, ClientFlow
  <2>2. ClientFlow'
    BY <1>4, <1>0, <2>1, SetsKept DEF ReadLocal, ClientFlow
  <2> QED
    BY <1>4, <1>0, <1>k, <2>2 DEF ReadLocal
<1>5. CASE LocalPaste
  <2>1. clip[2] \in Nat /\ clip[3] \in Made("server")
    BY <1>5, ContentIs DEF LocalPaste, ClientFlow
  <2>2. toWorker' \in Seq(WorkerCmds)
    BY <1>5, <2>1 DEF LocalPaste, ClientFlow, WorkerCmds
  <2>3. ClientFlow'
    BY <1>5, <1>0, <2>2, SetsKept DEF LocalPaste, ClientFlow
  <2> QED
    BY <1>5, <1>0, <1>k, <2>3 DEF LocalPaste
<1>6. CASE OnUi
  <2> DEFINE cmd == Head(toWorker)
  <2>1. cmd \in WorkerCmds /\ toWorker' \in Seq(WorkerCmds)
    BY <1>6, HeadAndTail DEF OnUi, ClientFlow
  <2>2. ClientFlow'
    BY <1>6, <1>0, <2>1, SetsKept DEF OnUi, ClientFlow
  <2>3. cmd[1] = "LocalOffer" => <<"Offer", lserial + 1, cmd[2]>> \in ToServer
    <3>1. cmd[1] = "LocalOffer" => cmd[2] \in Offered("client")
      BY <2>1 DEF WorkerCmds
    <3>2. lserial + 1 \in Nat
      BY DEF WireFlow
    <3> QED
      BY <3>1, <3>2 DEF ToServer, Offers
  <2>4. cmd[1] = "Fetch" => <<"Request", cmd[2], cmd[3], FALSE>> \in ToServer
    BY <2>1 DEF WorkerCmds, ToServer
  <2>5. lserial' \in Nat /\ c2s' \in Seq(ToServer) /\ s2c' = s2c
    <3>1. CASE cmd[1] = "LocalOffer"
      <4>1. /\ lserial' = lserial + 1 /\ s2c' = s2c
            /\ c2s' = Append(c2s, <<"Offer", lserial + 1, cmd[2]>>)
        BY <1>6, <3>1 DEF OnUi
      <4> QED
        BY <3>1, <4>1, <2>3 DEF WireFlow
    <3>2. CASE cmd[1] = "Fetch"
      <4>1. /\ lserial' = lserial /\ s2c' = s2c
            /\ c2s' = Append(c2s, <<"Request", cmd[2], cmd[3], FALSE>>)
        BY <1>6, <3>2 DEF OnUi
      <4> QED
        BY <3>2, <4>1, <2>4 DEF WireFlow
    <3> QED
      BY <1>6, <3>1, <3>2 DEF OnUi
  <2>6. WireFlow'
    BY <1>0, <2>5, SetsKept DEF WireFlow
  <2> QED
    BY <1>6, <1>0, <1>k, <2>2, <2>6 DEF OnUi
<1>7. CASE OnServerMsg
  <2> DEFINE msg == Head(s2c)
  <2>1. msg \in ToClient /\ s2c' \in Seq(ToClient)
    BY <1>7, HeadAndTail DEF OnServerMsg, WireFlow
  <2>2. WireFlow'
    BY <1>7, <1>0, <2>1, SetsKept DEF OnServerMsg, WireFlow
  <2>3. msg[1] = "Offer" => msg \in StatusMsgs
    BY <2>1 DEF ToClient, StatusMsgs
  <2>4. msg[1] = "Request" => <<"Read", msg[3], msg[4], lserial>> \in StatusMsgs
    BY <2>1 DEF ToClient, StatusMsgs, Offers, WireFlow
  <2>5. status' \in Seq(StatusMsgs)
    <3>1. CASE msg[1] = "Offer"
      <4>1. status' = Append(status, msg)
        BY <1>7, <3>1 DEF OnServerMsg
      <4> QED
        BY <3>1, <4>1, <2>3 DEF ClientFlow
    <3>2. CASE msg[1] = "Request" /\ msg[2] = lserial
      <4>1. status' = Append(status, <<"Read", msg[3], msg[4], lserial>>)
        BY <1>7, <3>2 DEF OnServerMsg
      <4> QED
        BY <3>2, <4>1, <2>4 DEF ClientFlow
    <3>3. CASE msg[1] = "Request" /\ msg[2] # lserial
      BY <1>7, <3>3 DEF OnServerMsg, ClientFlow
    <3> QED
      BY <1>7, <3>1, <3>2, <3>3 DEF OnServerMsg
  <2>6. ClientFlow'
    BY <1>7, <1>0, <2>5, SetsKept DEF OnServerMsg, ClientFlow
  <2> QED
    BY <1>7, <1>0, <1>k, <2>2, <2>6 DEF OnServerMsg
<1> QED
  BY <1>c, <1>1, <1>2, <1>3, <1>4, <1>5, <1>6, <1>7

\* Every step of the server's side keeps the items where they belong.
LEMMA ServerSideFlow ==
  ASSUME Flow,
         \/ OnSelection \/ (\E l \in listed : Listed(l)) \/ OnPaste \/ OnRemoteOffer \/ OnRequest
         \/ OnCmd \/ OnReport \/ HandleRequest \/ RemoteCopy \/ RemoteClear \/ RemotePaste
  PROVE  Flow'
<1> USE DEF Flow
<1> DEFINE Grow == \A s \in {"client", "server"} : Made(s) \subseteq Made(s)'
<1>c. CASE RemoteCopy
  <2>1. copies' \in Seq({"client", "server"}) /\ Len(copies) + 1 \in Made("server")' /\ Grow
    BY <1>c, CopyMakes DEF RemoteCopy
  <2>2. App(Len(copies) + 1) \in Contents("server", "client")'
    BY <2>1 DEF Contents, App
  <2>3. CompositorFlow'
    <3>1. UNCHANGED requests /\ Selected(App(Len(copies) + 1))
      BY <1>c DEF RemoteCopy
    <3> QED
      BY <2>1, <2>2, <3>1, SelectedFlow DEF CompositorFlow
  <2>4. UNCHANGED <<gtk, wire, bridge, thread>>
    BY <1>c DEF RemoteCopy
  <2> QED
    BY <2>1, <2>3, <2>4, WireFlowKept, BridgeFlowKept, ThreadFlowKept, ClientFlowKept
<1>0. SUFFICES ASSUME UNCHANGED copies PROVE Flow'
  BY <1>c DEF OnSelection, Listed, OnPaste, OnRemoteOffer, OnRequest, OnCmd, OnReport,
              HandleRequest, RemoteClear, RemotePaste, user
<1>g. Grow
  BY <1>0, SetsKept
<1> HIDE DEF Grow
<1>k. /\ UNCHANGED gtk => ClientFlow'
      /\ UNCHANGED wire => WireFlow'
      /\ UNCHANGED bridge => BridgeFlow'
      /\ UNCHANGED thread => ThreadFlow'
      /\ UNCHANGED compositor => CompositorFlow'
  BY <1>g, ClientFlowKept, WireFlowKept, BridgeFlowKept, ThreadFlowKept, CompositorFlowKept
     DEF Grow
<1>h. \A c \in Contents("server", "client") :
        Selected(c) /\ requests' \in Seq(Requests) => CompositorFlow'
  BY <1>0, <1>g, SetsKept, SelectedFlow DEF Grow
<1>e. Empty \in Contents("server", "client")
  BY DEF Contents
<1>1. CASE OnSelection
  <2>1. Head(events) \in Events /\ Head(events)[1] = "Selection" /\ events' \in Seq(Events)
    BY <1>1, HeadAndTail DEF OnSelection, BridgeFlow
  <2>2. Head(events)[2] \in Offered("server")
    BY <2>1 DEF Events
  <2>3. listed' \in SUBSET (Nat \X Offered("server")) /\ gen' \in Nat
    BY <1>1, <2>2 DEF OnSelection, BridgeFlow
  <2>4. BridgeFlow'
    BY <1>1, <1>0, <2>1, <2>3, SetsKept DEF OnSelection, BridgeFlow
  <2> QED
    BY <1>1, <1>0, <1>k, <2>4 DEF OnSelection
<1>2. ASSUME NEW l \in listed, Listed(l) PROVE Flow'
  <2>1. <<"Offer", l[1], l[2]>> \in ToClient
    BY DEF BridgeFlow, ToClient, Offers
  <2>2. s2c' \in Seq(ToClient)
    BY <1>2, <2>1 DEF Listed, WireFlow
  <2>3. WireFlow'
    BY <1>2, <1>0, <2>2, SetsKept DEF Listed, WireFlow
  <2>4. BridgeFlow'
    BY <1>2, <1>0, SetsKept DEF Listed, BridgeFlow
  <2> QED
    BY <1>2, <1>0, <1>k, <2>3, <2>4 DEF Listed
<1>3. CASE OnPaste
  <2>1. Head(events) \in Events /\ Head(events)[1] = "Paste" /\ events' \in Seq(Events)
    BY <1>3, HeadAndTail DEF OnPaste, BridgeFlow
  <2>2. Head(events)[2] \in Made("client")
    BY <2>1 DEF Events
  <2>3. <<"Request", remote[1], Head(events)[2], remote[2] # Head(events)[2]>> \in ToClient
    BY <2>2 DEF ToClient, BridgeFlow
  <2>4. s2c' \in Seq(ToClient)
    BY <1>3, <2>3 DEF OnPaste, WireFlow
  <2>5. WireFlow'
    BY <1>3, <1>0, <2>4, SetsKept DEF OnPaste, WireFlow
  <2>6. BridgeFlow'
    BY <1>3, <1>0, <2>1, SetsKept DEF OnPaste, BridgeFlow
  <2> QED
    BY <1>3, <1>0, <1>k, <2>5, <2>6 DEF OnPaste
<1>4. CASE OnRemoteOffer
  <2> DEFINE msg == Head(c2s)
  <2>1. msg \in ToServer /\ msg[1] = "Offer" /\ c2s' \in Seq(ToServer)
    BY <1>4, HeadAndTail DEF OnRemoteOffer, WireFlow
  <2>2. msg[2] \in Nat /\ msg[3] \in Offered("client")
    BY <2>1 DEF ToServer, Offers
  <2>3. remote' \in Nat \X Offered("client")
    BY <1>4, <2>2 DEF OnRemoteOffer
  <2>4. remote' \in Nat \X Offered("client") /\ cmds' \in Seq(Offered("client"))
    BY <1>4, <2>2, <2>3 DEF OnRemoteOffer, BridgeFlow
  <2>5. WireFlow'
    BY <1>4, <1>0, <2>1, SetsKept DEF OnRemoteOffer, WireFlow
  <2>6. BridgeFlow'
    BY <1>4, <1>0, <2>4, SetsKept DEF OnRemoteOffer, BridgeFlow
  <2> QED
    BY <1>4, <1>0, <1>k, <2>5, <2>6 DEF OnRemoteOffer
<1>5. CASE OnRequest
  <2>1. c2s' \in Seq(ToServer)
    BY <1>5, HeadAndTail DEF OnRequest, WireFlow
  <2>2. WireFlow'
    BY <1>5, <1>0, <2>1, SetsKept DEF OnRequest, WireFlow
  <2> QED
    BY <1>5, <1>0, <1>k, <2>2 DEF OnRequest
<1>6. CASE OnCmd
  <2> DEFINE cmd == Head(cmds)
  <2>1. cmd \in Offered("client") /\ cmds' \in Seq(Offered("client"))
    BY <1>6, HeadAndTail DEF OnCmd, BridgeFlow
  <2>2. BridgeFlow'
    BY <1>6, <1>0, <2>1, SetsKept DEF OnCmd, BridgeFlow
  <2>3. cmd # 0 => <<"Set", Proxy(sources + 1, cmd)>> \in Requests
    <3>1. sources + 1 \in Nat /\ (cmd # 0 => cmd \in Made("client"))
      BY <2>1 DEF ThreadFlow, Offered
    <3>2. cmd # 0 => Proxy(sources + 1, cmd) \in Proxies("client")
      BY <3>1 DEF Proxy, Proxies
    <3> QED
      BY <3>2 DEF Requests
  <2>4. <<<<"Set", Empty>>, <<"Sync", withdrawn + 1>>>> \in Seq(Requests)
    <3>1. <<"Set", Empty>> \in Requests
      BY DEF Requests
    <3>2. <<"Sync", withdrawn + 1>> \in Requests
      BY DEF Requests, ThreadFlow
    <3> QED
      BY <3>1, <3>2
  <2>5. requests' \in Seq(Requests)
    <3>1. CASE cmd # 0
      <4>1. requests' = Append(requests, <<"Set", Proxy(sources + 1, cmd)>>)
        BY <1>6, <3>1 DEF OnCmd
      <4> QED
        BY <2>3, <3>1, <4>1 DEF CompositorFlow
    <3>2. CASE cmd = 0 /\ source # 0
      <4>1. requests' = requests \o <<<<"Set", Empty>>, <<"Sync", withdrawn + 1>>>>
        BY <1>6, <3>2 DEF OnCmd
      <4> QED
        BY <2>4, <4>1, Joined DEF CompositorFlow
    <3>3. CASE cmd = 0 /\ source = 0
      BY <1>6, <3>3 DEF OnCmd, CompositorFlow
    <3> QED
      BY <3>1, <3>2, <3>3
  <2>6. CompositorFlow'
    BY <1>6, <1>0, <2>5, SetsKept DEF OnCmd, CompositorFlow
  <2>7. ThreadFlow'
    BY <1>6, <1>0, SetsKept DEF OnCmd, ThreadFlow
  <2> QED
    BY <1>6, <1>0, <1>k, <2>2, <2>6, <2>7 DEF OnCmd
<1>7. CASE OnReport
  <2> DEFINE ev == Head(reports)
  <2>1. ev \in Reports /\ reports' \in Seq(Reports)
    BY <1>7, HeadAndTail DEF OnReport, CompositorFlow
  <2>2. CompositorFlow'
    BY <1>7, <1>0, <2>1, SetsKept DEF OnReport, CompositorFlow
  <2>3. UNCHANGED <<gtk, wire, gen, listed, remote, cmds, sources, withdrawn>>
    BY <1>7 DEF OnReport
  <2>4. SUFFICES events' \in Seq(Events) /\ ThreadFlow'
    <3>1. ASSUME events' \in Seq(Events) PROVE BridgeFlow'
      BY <1>0, <2>3, <3>1, SetsKept DEF BridgeFlow
    <3> QED
      BY <1>0, <1>k, <2>2, <2>3, <3>1
  <2>5. CASE ev[1] = "Selection"
    <3>1. ev[2] \in Contents("server", "client")
      BY <2>1, <2>5 DEF Reports
    <3>2. ~IsEcho(ev[2]) => <<"Selection", ItemOf(ev[2])>> \in Events
      <4>1. ~IsEcho(ev[2]) => ~IsProxy(ev[2])
        BY Shapes DEF IsEcho
      <4>2. ~IsEcho(ev[2]) => ItemOf(ev[2]) \in Offered("server")
        BY <3>1, <4>1, ContentIs
      <4> QED
        BY <4>2 DEF Events
    <3>3. /\ current' = ev[2]
          /\ settled' = IF ev[2] = Empty /\ PendingEcho THEN settled + 1 ELSE settled
          /\ events' = IF IsEcho(ev[2]) THEN events
                       ELSE Append(events, <<"Selection", ItemOf(ev[2])>>)
          /\ source' = source
      BY <1>7, <2>5 DEF OnReport
    <3>4. events' \in Seq(Events)
      BY <3>2, <3>3 DEF BridgeFlow
    <3> QED
      BY <1>0, <2>3, <3>1, <3>3, <3>4, SetsKept DEF ThreadFlow
  <2>6. CASE ev[1] = "Send" /\ ev[2] = source
    <3>1. ev[3] \in Made("client")
      BY <2>1, <2>6 DEF Reports
    <3>2. <<"Paste", ev[3]>> \in Events
      BY <3>1 DEF Events
    <3>3. events' = Append(events, <<"Paste", ev[3]>>) /\ UNCHANGED <<source, current, settled>>
      BY <1>7, <2>6 DEF OnReport
    <3> QED
      BY <1>0, <2>3, <3>2, <3>3, SetsKept DEF ThreadFlow, BridgeFlow
  <2>7. CASE ev[1] = "Send" /\ ev[2] # source
    <3>1. UNCHANGED <<source, current, settled, events>>
      BY <1>7, <2>7 DEF OnReport
    <3> QED
      BY <1>0, <2>3, <3>1, SetsKept DEF ThreadFlow, BridgeFlow
  <2>8. CASE ev[1] = "Cancelled"
    <3>1. source' \in {0, source} /\ UNCHANGED <<current, settled, events>>
      BY <1>7, <2>8 DEF OnReport
    <3> QED
      BY <1>0, <2>3, <3>1, SetsKept DEF ThreadFlow, BridgeFlow
  <2>9. CASE ev[1] = "Done"
    <3>1. ev[2] \in Nat
      BY <2>1, <2>9 DEF Reports
    <3>2. settled' \in {settled, ev[2]} /\ UNCHANGED <<source, current, events>>
      BY <1>7, <2>9 DEF OnReport, Settle
    <3> QED
      BY <1>0, <2>3, <3>1, <3>2, SetsKept DEF ThreadFlow, BridgeFlow
  <2> QED
    BY <1>7, <2>5, <2>6, <2>7, <2>8, <2>9 DEF OnReport
<1>8. CASE HandleRequest
  <2> DEFINE req == Head(requests)
  <2>1. req \in Requests /\ requests' \in Seq(Requests)
    BY <1>8, HeadAndTail DEF HandleRequest, CompositorFlow
  <2>2. CASE req[1] = "Set"
    <3>1. req[2] \in Contents("server", "client")
      BY <2>1, <2>2 DEF Requests, Contents
    <3>2. CompositorFlow'
      BY <1>8, <2>1, <2>2, <3>1, <1>h DEF HandleRequest
    <3> QED
      BY <1>8, <1>0, <1>k, <3>2 DEF HandleRequest
  <2>3. CASE req[1] = "Sync"
    <3>1. <<"Done", req[2]>> \in Reports
      BY <2>1, <2>3 DEF Requests, Reports
    <3>2. reports' = Append(reports, <<"Done", req[2]>>) /\ UNCHANGED selection
      BY <1>8, <2>3 DEF HandleRequest
    <3>3. CompositorFlow'
      BY <1>0, <2>1, <3>1, <3>2, SetsKept DEF CompositorFlow
    <3> QED
      BY <1>8, <1>0, <1>k, <3>3 DEF HandleRequest
  <2> QED
    BY <1>8, <2>2, <2>3 DEF HandleRequest
<1>9. CASE RemoteClear
  <2>1. CompositorFlow'
    BY <1>9, <1>h, <1>e DEF RemoteClear, CompositorFlow
  <2> QED
    BY <1>9, <1>0, <1>k, <2>1 DEF RemoteClear
<1>10. CASE RemotePaste
  <2>1. selection[2] \in Nat /\ selection[3] \in Made("client")
    BY <1>10, ContentIs DEF RemotePaste, CompositorFlow
  <2>2. <<"Send", selection[2], selection[3]>> \in Reports
    BY <2>1 DEF Reports
  <2>3. CompositorFlow'
    BY <1>10, <1>0, <2>2, SetsKept DEF RemotePaste, CompositorFlow
  <2> QED
    BY <1>10, <1>0, <1>k, <2>3 DEF RemotePaste
<1> QED
  BY <1>c, <1>1, <1>2, <1>3, <1>4, <1>5, <1>6, <1>7, <1>8, <1>9, <1>10

-------------------------------------------------------------------------------
(* No offer goes back. *)

\* Nobody holds anything at the start.
LEMMA FlowInit == Init => Flow
<1> SUFFICES ASSUME Init PROVE Flow
  OBVIOUS
<1>1. \A side \in {"client", "server"} : 0 \in Offered(side)
  BY DEF Offered
<1>2. \A own, other \in {"client", "server"} : Empty \in Contents(own, other)
  BY DEF Contents
<1> QED
  BY <1>1, <1>2 DEF Init, Flow, ClientFlow, WireFlow, BridgeFlow, ThreadFlow, CompositorFlow

\* Every step leaves each item with its side.
LEMMA FlowStep == Flow /\ [Next]_vars => Flow'
<1>1. Flow /\ Next => Flow'
  BY ClientSideFlow, ServerSideFlow DEF Next, Steps
<1>2. ASSUME Flow, UNCHANGED vars PROVE Flow'
  <2>1. UNCHANGED copies /\ UNCHANGED <<gtk, wire, bridge, thread, compositor>>
    BY <1>2 DEF vars, user
  <2> QED
    BY <1>2, <2>1, SetsKept, ClientFlowKept, WireFlowKept, BridgeFlowKept, ThreadFlowKept,
       CompositorFlowKept DEF Flow
<1> QED
  BY <1>1, <1>2

\* So an offer carries its sender's own item, or none.
LEMMA FlowForeign == Flow => OffersAreForeign
<1> SUFFICES ASSUME Flow PROVE OffersAreForeign
  OBVIOUS
<1>1. ASSUME NEW k \in DOMAIN c2s, c2s[k][1] = "Offer"
      PROVE  c2s[k][3] = 0 \/ copies[c2s[k][3]] = "client"
  <2>1. c2s[k] \in ToServer
    BY DEF Flow, WireFlow
  <2>2. c2s[k][3] \in Offered("client")
    BY <1>1, <2>1 DEF ToServer, Offers
  <2> QED
    BY <2>2 DEF Offered, Made
<1>2. ASSUME NEW k \in DOMAIN s2c, s2c[k][1] = "Offer"
      PROVE  s2c[k][3] = 0 \/ copies[s2c[k][3]] = "server"
  <2>1. s2c[k] \in ToClient
    BY DEF Flow, WireFlow
  <2>2. s2c[k][3] \in Offered("server")
    BY <1>2, <2>1 DEF ToClient, Offers
  <2> QED
    BY <2>2 DEF Offered, Made
<1> QED
  BY <1>1, <1>2 DEF OffersAreForeign, From

\* No echo: what a side offers was copied on that side, or is nothing, however
\* the changes of the two clipboards and the proxies they set overlap.
THEOREM Foreign == Spec => []OffersAreForeign
<1>1. Spec => []Flow
  BY FlowInit, FlowStep, PTL DEF Spec
<1> QED
  BY <1>1, FlowForeign, PTL

-------------------------------------------------------------------------------
(* Messages of a kind in a queue. *)

\* Which kinds of message a queue has, as messages come and go.
LEMMA HasAppend ==
  ASSUME NEW S, NEW q \in Seq(S), NEW m, NEW kind
  PROVE  Has(Append(q, m), kind) <=> Has(q, kind) \/ m[1] = kind
<1> DEFINE r == Append(q, m)
<1>1. \A k \in DOMAIN q : k \in DOMAIN r /\ r[k] = q[k]
  OBVIOUS
<1>2. Len(q) + 1 \in DOMAIN r /\ r[Len(q) + 1] = m
  OBVIOUS
<1>3. \A k \in DOMAIN r : k \in DOMAIN q \/ k = Len(q) + 1
  OBVIOUS
<1> HIDE DEF r
<1>4. Has(r, kind) <=> Has(q, kind) \/ m[1] = kind
  BY <1>1, <1>2, <1>3 DEF Has
<1> QED
  BY <1>4 DEF r

LEMMA HasTail ==
  ASSUME NEW S, NEW q \in Seq(S), q # <<>>, NEW kind
  PROVE  Has(q, kind) <=> Has(Tail(q), kind) \/ Head(q)[1] = kind
<1>1. \A k \in DOMAIN Tail(q) : k + 1 \in DOMAIN q /\ Tail(q)[k] = q[k + 1]
  OBVIOUS
<1>2. \A k \in DOMAIN q : k = 1 \/ (k - 1 \in DOMAIN Tail(q) /\ Tail(q)[k - 1] = q[k])
  OBVIOUS
<1>3. 1 \in DOMAIN q /\ Head(q) = q[1]
  OBVIOUS
<1> QED
  BY <1>1, <1>2, <1>3 DEF Has

\* The newest message of a kind, as messages come and go.
LEMMA NewestAppend ==
  ASSUME NEW S, NEW q \in Seq(S), NEW m, NEW kind, NEW at, NEW x,
         IF m[1] = kind THEN m[at] = x ELSE Newest(q, kind, at, x)
  PROVE  Newest(Append(q, m), kind, at, x)
<1> DEFINE r == Append(q, m)
<1>1. \A k \in DOMAIN q : k \in DOMAIN r /\ r[k] = q[k]
  OBVIOUS
<1>2. Len(q) + 1 \in DOMAIN r /\ r[Len(q) + 1] = m
  OBVIOUS
<1>3. \A k \in DOMAIN r : k \in DOMAIN q \/ k = Len(q) + 1
  OBVIOUS
<1>4. \A k \in DOMAIN q : k < Len(q) + 1
  OBVIOUS
<1> HIDE DEF r
<1>5. ASSUME NEW k \in DOMAIN r, r[k][1] = kind, \A j \in DOMAIN r : j > k => r[j][1] # kind
      PROVE  r[k][at] = x
  <2>1. CASE m[1] = kind
    <3>1. k = Len(q) + 1
      BY <1>2, <1>3, <1>4, <1>5, <2>1
    <3> QED
      BY <1>2, <2>1, <3>1
  <2>2. CASE m[1] # kind
    <3>1. k \in DOMAIN q /\ q[k] = r[k]
      BY <1>1, <1>2, <1>3, <1>5, <2>2
    <3>2. \A j \in DOMAIN q : j > k => q[j][1] # kind
      BY <1>1, <1>5
    <3> QED
      BY <1>5, <2>2, <3>1, <3>2 DEF Newest
  <2> QED
    BY <2>1, <2>2
<1> QED
  BY <1>5 DEF Newest, r

LEMMA NewestTail ==
  ASSUME NEW S, NEW q \in Seq(S), q # <<>>, NEW kind, NEW at, NEW x, Newest(q, kind, at, x)
  PROVE  /\ Newest(Tail(q), kind, at, x)
         /\ Head(q)[1] = kind /\ ~Has(Tail(q), kind) => Head(q)[at] = x
<1> DEFINE r == Tail(q)
<1>1. \A k \in DOMAIN r : k + 1 \in DOMAIN q /\ r[k] = q[k + 1]
  OBVIOUS
<1>2. \A k \in DOMAIN q : k \in Nat /\ (k = 1 \/ (k - 1 \in DOMAIN r /\ r[k - 1] = q[k]))
  OBVIOUS
<1>3. 1 \in DOMAIN q /\ Head(q) = q[1]
  OBVIOUS
<1>4. \A k \in DOMAIN r : k \in Nat /\ k >= 1
  OBVIOUS
<1> HIDE DEF r
<1>5. ASSUME NEW k \in DOMAIN r, r[k][1] = kind, \A j \in DOMAIN r : j > k => r[j][1] # kind
      PROVE  r[k][at] = x
  <2>1. \A j \in DOMAIN q : j > k + 1 => q[j][1] # kind
    BY <1>2, <1>4, <1>5
  <2> QED
    BY <1>1, <1>5, <2>1 DEF Newest
<1>6. ASSUME Head(q)[1] = kind, ~Has(r, kind) PROVE Head(q)[at] = x
  <2>1. \A j \in DOMAIN q : j > 1 => q[j][1] # kind
    BY <1>2, <1>6 DEF Has
  <2> QED
    BY <1>3, <1>6, <2>1 DEF Newest
<1> QED
  BY <1>5, <1>6 DEF Newest, r

\* A queue with no message of the kind has no newest.
LEMMA NewestNone ==
  ASSUME NEW q, NEW kind, NEW at, NEW x, ~Has(q, kind)
  PROVE  Newest(q, kind, at, x)
  BY DEF Has, Newest

\* What holds of every message of a queue holds of them after one is taken, and
\* after one more for which it holds.
LEMMA AtTail ==
  ASSUME NEW S, NEW q \in Seq(S), q # <<>>
  PROVE  /\ \A k \in DOMAIN Tail(q) : k + 1 \in DOMAIN q /\ Tail(q)[k] = q[k + 1]
         /\ 1 \in DOMAIN q /\ Head(q) = q[1]
  OBVIOUS
\* Where a message stands once another one is queued behind it.
LEMMA AtAppend ==
  ASSUME NEW S, NEW q \in Seq(S), NEW m
  PROVE  \A k \in DOMAIN Append(q, m) :
           (k \in DOMAIN q /\ Append(q, m)[k] = q[k]) \/ (k = Len(q) + 1 /\ Append(q, m)[k] = m)
  OBVIOUS

-------------------------------------------------------------------------------
(* The client's offers on their way, and what is asked for. *)

\* Who touches the client's offers.
LEMMA OfferMoves ==
  ASSUME Next
  PROVE  UNCHANGED <<c2s, lserial, remote>> \/ OnUi \/ OnRemoteOffer \/ OnRequest
  BY DEF Next, Steps, LocalCopy, LocalClear, LocalListed, SetRemoteOffer, ReadLocal, LocalPaste,
         OnServerMsg, OnSelection, Listed, OnPaste, OnCmd, OnReport, HandleRequest, RemoteCopy,
         RemoteClear, RemotePaste, wire, bridge

\* Offers stay in the order of their serials.
LEMMA OfferOrderStep ==
  ASSUME Flow, OfferOrder, Next
  PROVE  OfferOrder'
<1> USE DEF OfferOrder
<1>0. c2s \in Seq(ToServer) /\ lserial \in Nat /\ remote \in Nat \X Offered("client")
  BY DEF Flow, WireFlow, BridgeFlow
<1>t. \A k \in DOMAIN c2s : c2s[k][1] = "Offer" => c2s[k][2] \in Nat
  <2>1. \A m \in ToServer : m[1] = "Offer" => m[2] \in Nat
    BY DEF ToServer, Offers
  <2> QED
    BY <1>0, <2>1
<1>1. CASE OnUi
  <2>1. CASE Head(toWorker)[1] = "LocalOffer"
    <3>1. PICK item : c2s' = Append(c2s, <<"Offer", lserial + 1, item>>)
      BY <1>1, <2>1 DEF OnUi
    <3>2. lserial' = lserial + 1 /\ remote' = remote
      BY <1>1, <2>1 DEF OnUi, bridge
    <3>3. \A k \in DOMAIN c2s' : \/ k \in DOMAIN c2s /\ c2s'[k] = c2s[k]
                                 \/ k = Len(c2s) + 1 /\ c2s'[k] = <<"Offer", lserial + 1, item>>
      BY <1>0, <3>1, AtAppend
    <3>4. \A k \in DOMAIN c2s : k \in Nat /\ k < Len(c2s) + 1
      BY <1>0
    <3>5. <<"Offer", lserial + 1, item>>[2] = lserial + 1 /\ remote[1] \in Nat
      BY <1>0
    <3>6. \A k \in DOMAIN c2s' : c2s'[k][1] = "Offer" =>
            remote'[1] < c2s'[k][2] /\ c2s'[k][2] <= lserial'
      BY <1>0, <1>t, <3>2, <3>3, <3>5
    <3>7. \A j, k \in DOMAIN c2s' :
            j < k /\ c2s'[j][1] = "Offer" /\ c2s'[k][1] = "Offer" => c2s'[j][2] < c2s'[k][2]
      <4> SUFFICES ASSUME NEW j \in DOMAIN c2s', NEW k \in DOMAIN c2s', j < k,
                          c2s'[j][1] = "Offer", c2s'[k][1] = "Offer"
                   PROVE  c2s'[j][2] < c2s'[k][2]
        OBVIOUS
      <4>1. CASE k \in DOMAIN c2s /\ c2s'[k] = c2s[k]
        <5>1. j \in DOMAIN c2s /\ c2s'[j] = c2s[j]
          BY <3>3, <3>4, <4>1
        <5> QED
          BY <4>1, <5>1
      <4>2. CASE k = Len(c2s) + 1 /\ c2s'[k] = <<"Offer", lserial + 1, item>>
        <5>1. j \in DOMAIN c2s /\ c2s'[j] = c2s[j]
          BY <1>0, <3>3, <4>2
        <5>2. c2s[j][2] \in Nat /\ c2s[j][2] <= lserial
          BY <1>t, <5>1
        <5> QED
          BY <1>0, <3>5, <4>2, <5>1, <5>2
      <4> QED
        BY <3>3, <4>1, <4>2
    <3>8. remote'[1] <= lserial'
      BY <1>0, <3>2, <3>5
    <3> QED
      BY <3>6, <3>7, <3>8
  <2>2. CASE Head(toWorker)[1] = "Fetch"
    <3> DEFINE m == <<"Request", Head(toWorker)[2], Head(toWorker)[3], FALSE>>
    <3>1. c2s' = Append(c2s, m) /\ m[1] = "Request"
      BY <1>1, <2>2 DEF OnUi
    <3> HIDE DEF m
    <3>2. lserial' = lserial /\ remote' = remote
      BY <1>1, <2>2 DEF OnUi, bridge
    <3>3. \A k \in DOMAIN c2s' : \/ k \in DOMAIN c2s /\ c2s'[k] = c2s[k]
                                 \/ k = Len(c2s) + 1 /\ c2s'[k] = m
      BY <1>0, <3>1, AtAppend
    <3> QED
      BY <1>0, <1>t, <3>1, <3>2, <3>3
  <2> QED
    BY <1>1, <2>1, <2>2 DEF OnUi
<1>2. CASE OnRemoteOffer \/ OnRequest
  <2>1. c2s # <<>> /\ c2s' = Tail(c2s) /\ lserial' = lserial
    BY <1>2 DEF OnRemoteOffer, OnRequest
  <2>2. \A k \in DOMAIN c2s' : k \in Nat /\ k >= 1 /\ k + 1 \in DOMAIN c2s /\ c2s'[k] = c2s[k + 1]
    BY <1>0, <2>1, AtTail
  <2>3. 1 \in DOMAIN c2s /\ Head(c2s) = c2s[1]
    BY <1>0, <2>1, AtTail
  <2>4. CASE OnRequest
    <3>1. remote' = remote
      BY <2>4 DEF OnRequest, bridge
    <3> QED
      BY <1>0, <1>t, <2>1, <2>2, <3>1
  <2>5. CASE OnRemoteOffer
    <3>1. Head(c2s)[1] = "Offer" /\ remote'[1] = Head(c2s)[2]
      BY <2>5 DEF OnRemoteOffer
    <3>2. \A k \in DOMAIN c2s' : c2s'[k][1] = "Offer" => remote'[1] < c2s'[k][2]
      BY <2>2, <2>3, <3>1
    <3> QED
      BY <1>0, <1>t, <2>1, <2>2, <2>3, <3>1, <3>2
  <2> QED
    BY <1>2, <2>4, <2>5
<1> QED
  BY <1>1, <1>2, OfferMoves

\* What was asked for stays right: a newer offer only makes the serial older.
LEMMA AsksKept ==
  ASSUME Flow, OfferOrder, Next, NEW serial \in Nat, NEW item, NEW raced,
         Asks(serial, item, raced)
  PROVE  Asks(serial, item, raced)'
<1>0. c2s \in Seq(ToServer) /\ lserial \in Nat
  BY DEF Flow, WireFlow
<1>1. CASE OnUi
  <2>1. lserial' \in {lserial, lserial + 1} /\ remote' = remote
    BY <1>1 DEF OnUi, bridge
  <2> QED
    BY <1>0, <2>1 DEF Asks
<1>2. CASE OnRemoteOffer
  <2>1. c2s # <<>> /\ Head(c2s)[1] = "Offer" /\ lserial' = lserial
    BY <1>2 DEF OnRemoteOffer
  <2>2. 1 \in DOMAIN c2s /\ Head(c2s) = c2s[1]
    BY <1>0, <2>1, AtTail
  <2>3. remote[1] < c2s[1][2] /\ c2s[1][2] <= lserial
    BY <2>1, <2>2 DEF OfferOrder
  <2>4. remote[1] # lserial
    <3>1. c2s[1][2] \in Nat /\ remote[1] \in Nat
      <4>1. c2s[1] \in ToServer
        BY <1>0, <2>2
      <4> QED
        BY <2>1, <2>2, <4>1 DEF ToServer, Offers, Flow, BridgeFlow
    <3> QED
      BY <1>0, <2>3, <3>1
  <2> QED
    BY <2>1, <2>4 DEF Asks
<1>3. CASE UNCHANGED <<lserial, remote>>
  BY <1>3 DEF Asks
<1> QED
  BY <1>1, <1>2, <1>3, OfferMoves DEF OnRequest, bridge

-------------------------------------------------------------------------------
(* Where the messages of each queue come from. *)

\* Which messages a queue has, as messages come and go.
LEMMA InTail ==
  ASSUME NEW S, NEW q \in Seq(S), q # <<>>
  PROVE  In(Head(q), q) /\ (\A m : In(m, Tail(q)) => In(m, q))
  BY AtTail DEF In
LEMMA InAppend ==
  ASSUME NEW S, NEW q \in Seq(S), NEW m, NEW n, In(n, Append(q, m))
  PROVE  In(n, q) \/ n = m
  BY AtAppend DEF In

\* What the server has just sent is a finished listing or a paste.
LEMMA ToClientFrom ==
  ASSUME Flow, Next, NEW m, In(m, s2c')
  PROVE  \/ In(m, s2c)
         \/ \E l \in listed : m = <<"Offer", l[1], l[2]>>
         \/ \E item : m = <<"Request", remote[1], item, remote[2] # item>> /\ UNCHANGED remote
                      /\ UNCHANGED lserial
<1>0. s2c \in Seq(ToClient)
  BY DEF Flow, WireFlow
<1>1. ASSUME NEW l \in listed, Listed(l)
      PROVE  In(m, s2c) \/ m = <<"Offer", l[1], l[2]>>
  <2> DEFINE new == <<"Offer", l[1], l[2]>>
  <2>1. s2c' = s2c \/ s2c' = Append(s2c, new)
    BY <1>1 DEF Listed
  <2> HIDE DEF new
  <2>2. In(m, s2c) \/ m = new
    BY <1>0, <2>1, InAppend
  <2> QED
    BY <2>2 DEF new
<1>2. CASE OnPaste
  <2> DEFINE item == Head(events)[2]
             new == <<"Request", remote[1], item, remote[2] # item>>
  <2>1. s2c' = Append(s2c, new) /\ UNCHANGED remote /\ UNCHANGED lserial
    BY <1>2 DEF OnPaste
  <2>2. In(m, s2c) \/ m = new
    <3> HIDE DEF new
    <3> QED
      BY <1>0, <2>1, InAppend
  <2> QED
    BY <2>1, <2>2
<1>3. CASE OnServerMsg
  BY <1>0, <1>3, InTail DEF OnServerMsg
<1>4. CASE UNCHANGED s2c
  BY <1>4
<1>5. \/ \E l \in listed : Listed(l)
      \/ OnPaste \/ OnServerMsg \/ UNCHANGED s2c
  BY DEF Next, Steps, LocalCopy, LocalClear, LocalListed, SetRemoteOffer, ReadLocal, LocalPaste,
         OnUi, OnSelection, OnRemoteOffer, OnRequest, OnCmd, OnReport, HandleRequest, RemoteCopy,
         RemoteClear, RemotePaste, wire
<1> QED
  BY <1>1, <1>2, <1>3, <1>4, <1>5

\* What the GTK thread is told is what the server sent, under the serial it asked for.
LEMMA StatusFrom ==
  ASSUME Flow, Next, NEW m, In(m, status')
  PROVE  \/ In(m, status)
         \/ In(m, s2c) /\ m[1] = "Offer"
         \/ \E n : /\ In(n, s2c) /\ n[1] = "Request" /\ n[2] = lserial
                   /\ m = <<"Read", n[3], n[4], lserial>>
                   /\ UNCHANGED <<lserial, remote>>
<1>0. status \in Seq(StatusMsgs) /\ s2c \in Seq(ToClient)
  BY DEF Flow, ClientFlow, WireFlow
<1>1. CASE OnServerMsg
  <2> DEFINE n == Head(s2c)
             new == <<"Read", n[3], n[4], lserial>>
  <2>1. In(n, s2c)
    BY <1>0, <1>1, InTail DEF OnServerMsg
  <2>2. CASE n[1] = "Offer"
    <3>1. status' = Append(status, n)
      BY <1>1, <2>2 DEF OnServerMsg
    <3>2. In(m, status) \/ m = n
      <4> HIDE DEF n
      <4> QED
        BY <1>0, <3>1, InAppend
    <3> QED
      BY <2>1, <2>2, <3>2
  <2>3. CASE n[1] = "Request" /\ n[2] = lserial
    <3>1. status' = Append(status, new) /\ UNCHANGED <<lserial, remote>>
      BY <1>1, <2>3 DEF OnServerMsg, bridge
    <3>2. In(m, status) \/ m = new
      <4> HIDE DEF new
      <4> QED
        BY <1>0, <3>1, InAppend
    <3> QED
      BY <2>1, <2>3, <3>1, <3>2
  <2>4. CASE n[1] = "Request" /\ n[2] # lserial
    BY <1>1, <2>4 DEF OnServerMsg
  <2> QED
    BY <1>1, <2>2, <2>3, <2>4 DEF OnServerMsg
<1>2. CASE SetRemoteOffer \/ ReadLocal
  <2>1. status # <<>> /\ status' = Tail(status)
    BY <1>2 DEF SetRemoteOffer, ReadLocal
  <2> QED
    BY <1>0, <2>1, InTail
<1>3. CASE UNCHANGED status
  BY <1>3
<1>4. OnServerMsg \/ SetRemoteOffer \/ ReadLocal \/ UNCHANGED status
  BY DEF Next, Steps, LocalCopy, LocalClear, LocalListed, LocalPaste, OnUi, OnSelection, Listed,
         OnPaste, OnRemoteOffer, OnRequest, OnCmd, OnReport, HandleRequest, RemoteCopy,
         RemoteClear, RemotePaste, gtk
<1> QED
  BY <1>1, <1>2, <1>3, <1>4

\* A fetch is for what the proxy holds.
LEMMA WorkerFrom ==
  ASSUME Flow, Next, NEW m, In(m, toWorker'), m[1] = "Fetch"
  PROVE  In(m, toWorker) \/ (IsProxy(clip) /\ m = <<"Fetch", clip[2], clip[3]>>)
<1>0. toWorker \in Seq(WorkerCmds)
  BY DEF Flow, ClientFlow
<1>1. ASSUME NEW l \in listing, LocalListed(l) PROVE In(m, toWorker)
  <2> DEFINE new == <<"LocalOffer", l[2]>>
  <2>1. toWorker' = toWorker \/ toWorker' = Append(toWorker, new)
    BY <1>1 DEF LocalListed
  <2>2. new[1] # "Fetch"
    OBVIOUS
  <2> HIDE DEF new
  <2> QED
    BY <1>0, <1>1, <2>1, <2>2, InAppend
<1>2. CASE LocalPaste
  <2> DEFINE new == <<"Fetch", clip[2], clip[3]>>
  <2>1. toWorker' = Append(toWorker, new) /\ IsProxy(clip)
    BY <1>2 DEF LocalPaste
  <2>2. In(m, toWorker) \/ m = new
    <3> HIDE DEF new
    <3> QED
      BY <1>0, <2>1, InAppend
  <2> QED
    BY <2>1, <2>2
<1>3. CASE OnUi
  BY <1>0, <1>3, InTail DEF OnUi
<1>4. CASE UNCHANGED toWorker
  BY <1>4
<1>5. \/ \E l \in listing : LocalListed(l)
      \/ LocalPaste \/ OnUi \/ UNCHANGED toWorker
  BY DEF Next, Steps, LocalCopy, LocalClear, SetRemoteOffer, ReadLocal, OnServerMsg,
         OnSelection, Listed, OnPaste, OnRemoteOffer, OnRequest, OnCmd, OnReport, HandleRequest,
         RemoteCopy, RemoteClear, RemotePaste, gtk
<1> QED
  BY <1>1, <1>2, <1>3, <1>4, <1>5

\* A request is a fetch of the GTK thread's.
LEMMA ToServerFrom ==
  ASSUME Flow, Next, NEW m, In(m, c2s'), m[1] = "Request"
  PROVE  \/ In(m, c2s)
         \/ \E n : In(n, toWorker) /\ n[1] = "Fetch" /\ m = <<"Request", n[2], n[3], FALSE>>
<1>0. c2s \in Seq(ToServer) /\ toWorker \in Seq(WorkerCmds)
  BY DEF Flow, WireFlow, ClientFlow
<1>1. CASE OnUi
  <2> DEFINE n == Head(toWorker)
             offer == <<"Offer", lserial + 1, n[2]>>
             request == <<"Request", n[2], n[3], FALSE>>
  <2>1. In(n, toWorker)
    BY <1>0, <1>1, InTail DEF OnUi
  <2>2. \/ c2s' = Append(c2s, offer)
        \/ c2s' = Append(c2s, request) /\ n[1] = "Fetch"
    BY <1>1 DEF OnUi
  <2>3. offer[1] = "Offer"
    OBVIOUS
  <2>4. In(m, c2s) \/ (m = request /\ n[1] = "Fetch")
    <3> HIDE DEF offer, request, n
    <3> QED
      BY <1>0, <2>2, <2>3, InAppend
  <2> QED
    BY <2>1, <2>4
<1>2. CASE OnRemoteOffer \/ OnRequest
  <2>1. c2s # <<>> /\ c2s' = Tail(c2s)
    BY <1>2 DEF OnRemoteOffer, OnRequest
  <2> QED
    BY <1>0, <2>1, InTail
<1> QED
  BY <1>1, <1>2, OfferMoves

\* The serials of the messages.
LEMMA Fields ==
  ASSUME Flow
  PROVE  /\ \A k \in DOMAIN s2c : s2c[k][2] \in Nat
         /\ \A k \in DOMAIN status : /\ status[k][1] = "Read" => status[k][4] \in Nat
                                     /\ status[k][1] = "Offer" => status[k][2] \in Nat
         /\ \A k \in DOMAIN toWorker : toWorker[k][1] = "Fetch" => toWorker[k][2] \in Nat
         /\ \A k \in DOMAIN c2s : c2s[k][2] \in Nat
<1>1. \A m \in ToClient : m[2] \in Nat
  BY DEF ToClient, Offers
<1>2. \A m \in StatusMsgs : (m[1] = "Read" => m[4] \in Nat) /\ (m[1] = "Offer" => m[2] \in Nat)
  BY DEF StatusMsgs, Offers
<1>3. \A m \in WorkerCmds : m[1] = "Fetch" => m[2] \in Nat
  BY DEF WorkerCmds
<1>4. \A m \in ToServer : m[2] \in Nat
  BY DEF ToServer, Offers
<1>5. s2c \in Seq(ToClient) /\ status \in Seq(StatusMsgs) /\ toWorker \in Seq(WorkerCmds)
      /\ c2s \in Seq(ToServer)
  BY DEF Flow, ClientFlow, WireFlow
<1> QED
  BY <1>1, <1>2, <1>3, <1>4, <1>5

-------------------------------------------------------------------------------
(* What the server's pastes ask for. *)

\* Every request a step sends or passes on asks for what remote stands for.
LEMMA AskedStep ==
  ASSUME Flow, OfferOrder, Asked, Next
  PROVE  Asked'
<1>0. remote \in Nat \X Offered("client") /\ lserial \in Nat
  BY DEF Flow, WireFlow, BridgeFlow
<1>1. \A s \in Nat : \A i, r : Asks(s, i, r) => Asks(s, i, r)'
  BY AsksKept
<1>2. \A n : In(n, s2c) /\ n[1] = "Request" => n[2] \in Nat /\ Asks(n[2], n[3], n[4])
  BY Fields DEF In, Asked
<1>3. \A n : In(n, status) /\ n[1] = "Read" => n[4] \in Nat /\ Asks(n[4], n[2], n[3])
  BY Fields DEF In, Asked
<1>4. ASSUME NEW m, In(m, s2c'), m[1] = "Request" PROVE Asks(m[2], m[3], m[4])'
  <2>1. CASE In(m, s2c)
    BY <1>1, <1>2, <1>4, <2>1
  <2>2. CASE \E item : m = <<"Request", remote[1], item, remote[2] # item>> /\ UNCHANGED remote
                       /\ UNCHANGED lserial
    <3>1. PICK item : m = <<"Request", remote[1], item, remote[2] # item>> /\ UNCHANGED remote
                      /\ UNCHANGED lserial
      BY <2>2
    <3>2. m[2] = remote[1] /\ m[3] = item /\ (m[4] <=> remote[2] # item)
      BY <3>1
    <3>3. remote[1] <= lserial /\ remote = <<remote[1], remote[2]>>
      BY <1>0 DEF OfferOrder
    <3>4. Asks(m[2], m[3], m[4])
      BY <3>2, <3>3 DEF Asks
    <3> QED
      BY <3>1, <3>4 DEF Asks
  <2>3. CASE \E l \in listed : m = <<"Offer", l[1], l[2]>>
    BY <1>4, <2>3
  <2> QED
    BY <1>4, <2>1, <2>2, <2>3, ToClientFrom
<1>5. ASSUME NEW m, In(m, status'), m[1] = "Read" PROVE Asks(m[4], m[2], m[3])'
  <2>1. CASE In(m, status)
    BY <1>1, <1>3, <1>5, <2>1
  <2>2. CASE \E n : /\ In(n, s2c) /\ n[1] = "Request" /\ n[2] = lserial
                    /\ m = <<"Read", n[3], n[4], lserial>>
                    /\ UNCHANGED <<lserial, remote>>
    <3>1. PICK n : /\ In(n, s2c) /\ n[1] = "Request" /\ n[2] = lserial
                   /\ m = <<"Read", n[3], n[4], lserial>>
                   /\ UNCHANGED <<lserial, remote>>
      BY <2>2
    <3>2. Asks(lserial, n[3], n[4])
      BY <1>2, <3>1
    <3>3. m[4] = lserial /\ m[2] = n[3] /\ m[3] = n[4]
      BY <3>1
    <3> QED
      BY <3>1, <3>2, <3>3 DEF Asks
  <2> QED
    BY <1>5, <2>1, <2>2, StatusFrom
<1>6. ASSUME NEW k \in DOMAIN s2c', s2c'[k][1] = "Request"
      PROVE  Asks(s2c[k][2], s2c[k][3], s2c[k][4])'
  <2>1. PICK m : m = s2c'[k]
    OBVIOUS
  <2>2. Asks(m[2], m[3], m[4])'
    BY <1>4, <1>6, <2>1 DEF In
  <2> QED
    BY <2>1, <2>2 DEF Asks
<1>7. ASSUME NEW k \in DOMAIN status', status'[k][1] = "Read"
      PROVE  Asks(status[k][4], status[k][2], status[k][3])'
  <2>1. PICK m : m = status'[k]
    OBVIOUS
  <2>2. Asks(m[4], m[2], m[3])'
    BY <1>5, <1>7, <2>1 DEF In
  <2> QED
    BY <2>1, <2>2 DEF Asks
<1> QED
  BY <1>6, <1>7 DEF Asked

-------------------------------------------------------------------------------
(* The server's items under way. *)

\* Who touches the thread's reports and its selection.
LEMMA ReportsMoves ==
  ASSUME Next
  PROVE  \/ UNCHANGED <<reports, current>>
         \/ OnReport
         \/ /\ HandleRequest \/ RemoteCopy \/ RemoteClear \/ RemotePaste
            /\ UNCHANGED current
  BY DEF Next, Steps, LocalCopy, LocalClear, LocalListed, SetRemoteOffer, ReadLocal, LocalPaste,
         OnUi, OnServerMsg, OnSelection, Listed, OnPaste, OnRemoteOffer, OnRequest, OnCmd,
         HandleRequest, RemoteCopy, RemoteClear, RemotePaste, compositor, thread

\* What a change of the compositor's selection reports: the end of our source if
\* it was selected, then the change, if it is one.
LEMMA SelectedReports ==
  ASSUME Flow, NEW content, Selected(content)
  PROVE  \E mid \in Seq(Reports) :
           /\ IF IsProxy(selection) THEN mid = Append(reports, <<"Cancelled", selection[2]>>)
              ELSE mid = reports
           /\ IF content = selection THEN reports' = mid
              ELSE reports' = Append(mid, <<"Selection", content>>)
<1> DEFINE cancels == IF IsProxy(selection) THEN <<<<"Cancelled", selection[2]>>>> ELSE <<>>
           news == IF content = selection THEN <<>> ELSE <<<<"Selection", content>>>>
           mid == IF IsProxy(selection) THEN Append(reports, <<"Cancelled", selection[2]>>)
                  ELSE reports
<1>0. reports \in Seq(Reports)
  BY DEF Flow, CompositorFlow
<1>1. reports' = reports \o cancels \o news
  BY DEF Selected
<1>2. mid \in Seq(Reports)
  <2>1. IsProxy(selection) => selection[2] \in Nat
    BY ContentIs DEF Flow, CompositorFlow
  <2>2. IsProxy(selection) => <<"Cancelled", selection[2]>> \in Reports
    BY <2>1 DEF Reports
  <2> QED
    BY <1>0, <2>2
<1>3. reports \o cancels = mid
  BY <1>0
<1>4. mid \o <<>> = mid /\ \A m : mid \o <<m>> = Append(mid, m)
  <2> HIDE DEF mid
  <2> QED
    BY <1>2
<1>5. IF content = selection THEN reports' = mid
      ELSE reports' = Append(mid, <<"Selection", content>>)
  <2> HIDE DEF mid
  <2> QED
    BY <1>1, <1>3, <1>4
<1> QED
  BY <1>2, <1>5

\* A message sent is there, and takes none away.
LEMMA InAppendNew ==
  ASSUME NEW S, NEW q \in Seq(S), NEW m
  PROVE  In(m, Append(q, m)) /\ \A n : In(n, q) => In(n, Append(q, m))
<1> DEFINE r == Append(q, m)
<1>1. \A k \in DOMAIN q : k \in DOMAIN r /\ r[k] = q[k]
  OBVIOUS
<1>2. Len(q) + 1 \in DOMAIN r /\ r[Len(q) + 1] = m
  OBVIOUS
<1> HIDE DEF r
<1>3. In(m, r) /\ \A n : In(n, q) => In(n, r)
  BY <1>1, <1>2 DEF In
<1> QED
  BY <1>3 DEF r

\* Only the head leaves a queue.
LEMMA InTailOther ==
  ASSUME NEW S, NEW q \in Seq(S), q # <<>>, NEW m, In(m, q), m # Head(q)
  PROVE  In(m, Tail(q))
<1>1. \A k \in DOMAIN q : k = 1 \/ (k - 1 \in DOMAIN Tail(q) /\ Tail(q)[k - 1] = q[k])
  OBVIOUS
<1>2. Head(q) = q[1]
  OBVIOUS
<1> QED
  BY <1>1, <1>2 DEF In

\* An application's selection is reported when it is made, and only then.
LEMMA AppReported ==
  ASSUME Flow, Next, NEW item, In(<<"Selection", App(item)>>, reports')
  PROVE  In(<<"Selection", App(item)>>, reports) \/ (RemoteCopy /\ item = Len(copies) + 1)
<1>0. reports \in Seq(Reports) /\ requests \in Seq(Requests)
  BY DEF Flow, CompositorFlow
<1>m. PICK m : m = <<"Selection", App(item)>>
  OBVIOUS
<1>b. ASSUME NEW c, Selected(c) PROVE In(m, reports) \/ c = App(item)
  <2>0. PICK mid \in Seq(Reports) :
           /\ IF IsProxy(selection) THEN mid = Append(reports, <<"Cancelled", selection[2]>>)
              ELSE mid = reports
           /\ IF c = selection THEN reports' = mid ELSE reports' = Append(mid, <<"Selection", c>>)
    BY <1>b, SelectedReports
  <2>1. In(m, mid) \/ m = <<"Selection", c>>
    BY <1>m, <2>0, InAppend
  <2>2. In(m, mid) => In(m, reports) \/ m = <<"Cancelled", selection[2]>>
    <3>1. PICK n : n = <<"Cancelled", selection[2]>>
      OBVIOUS
    <3>2. mid = reports \/ mid = Append(reports, n)
      BY <2>0, <3>1
    <3>3. In(m, Append(reports, n)) => In(m, reports) \/ m = n
      BY <1>0, InAppend
    <3> QED
      BY <3>1, <3>2, <3>3
  <2> QED
    BY <1>m, <2>1, <2>2
<1>1. CASE RemoteCopy
  <2>1. In(m, reports) \/ App(Len(copies) + 1) = App(item)
    BY <1>1, <1>b DEF RemoteCopy
  <2> QED
    BY <1>1, <1>m, <2>1, Shapes
<1>2. CASE RemoteClear
  <2>1. In(m, reports) \/ Empty = App(item)
    BY <1>2, <1>b DEF RemoteClear
  <2> QED
    BY <1>m, <2>1, Shapes
<1>3. CASE RemotePaste
  <2> DEFINE n == <<"Send", selection[2], selection[3]>>
  <2>1. reports' = Append(reports, n)
    BY <1>3 DEF RemotePaste
  <2>2. m # n
    BY <1>m
  <2> HIDE DEF n
  <2> QED
    BY <1>0, <1>m, <2>1, <2>2, InAppend
<1>4. CASE HandleRequest
  <2>1. PICK req \in Requests : req = Head(requests)
    BY <1>0, <1>4, HeadAndTail DEF HandleRequest
  <2>2. CASE req[1] = "Set"
    <3>1. req[2] # App(item)
      BY <2>1, <2>2, Shapes DEF Requests, Proxies, IsProxy
    <3> QED
      BY <1>4, <1>b, <1>m, <2>1, <2>2, <3>1 DEF HandleRequest
  <2>3. CASE req[1] = "Sync"
    <3> DEFINE n == <<"Done", req[2]>>
    <3>1. reports' = Append(reports, n)
      BY <1>4, <2>1, <2>3 DEF HandleRequest
    <3>2. m # n
      BY <1>m
    <3> HIDE DEF n
    <3> QED
      BY <1>0, <1>m, <3>1, <3>2, InAppend
  <2> QED
    BY <1>4, <2>1, <2>2, <2>3 DEF HandleRequest
<1>5. CASE OnReport
  BY <1>0, <1>5, InTail DEF OnReport
<1> QED
  BY <1>1, <1>2, <1>3, <1>4, <1>5, ReportsMoves

\* An event tells of an item reported before it.
LEMMA EventFrom ==
  ASSUME Flow, Next, NEW item \in Nat, item # 0, In(<<"Selection", item>>, events')
  PROVE  In(<<"Selection", item>>, events) \/ In(<<"Selection", App(item)>>, reports)
<1>0. events \in Seq(Events) /\ reports \in Seq(Reports)
  BY DEF Flow, BridgeFlow, CompositorFlow
<1>m. PICK m : m = <<"Selection", item>>
  OBVIOUS
<1>1. CASE OnReport
  <2>1. PICK ev \in Reports : ev = Head(reports)
    BY <1>0, <1>1, HeadAndTail DEF OnReport
  <2>2. In(ev, reports)
    BY <1>0, <1>1, <2>1, InTail DEF OnReport
  <2>3. CASE ev[1] = "Selection"
    <3>1. ev[2] \in Contents("server", "client") /\ ev = <<"Selection", ev[2]>>
      BY <2>1, <2>3 DEF Reports
    <3>2. events' = events
          \/ (~IsProxy(ev[2]) /\ events' = Append(events, <<"Selection", ItemOf(ev[2])>>))
      BY <1>1, <2>1, <2>3, Shapes DEF OnReport, IsEcho
    <3>3. \A n : In(m, Append(events, n)) => In(m, events) \/ m = n
      BY <1>0, InAppend
    <3>4. In(m, events) \/ (~IsProxy(ev[2]) /\ m = <<"Selection", ItemOf(ev[2])>>)
      BY <1>m, <3>2, <3>3
    <3>5. CASE ~IsProxy(ev[2]) /\ m = <<"Selection", ItemOf(ev[2])>>
      <4>1. ItemOf(ev[2]) = item
        BY <1>m, <3>5
      <4>2. ev[2] = App(item)
        <5>1. ev[2] # Empty
          BY <4>1, Shapes
        <5>2. ev[2] = App(ev[2][2])
          BY <3>1, <3>5, <5>1, ContentIs
        <5> QED
          BY <4>1, <5>2, Shapes
      <4> QED
        BY <2>2, <3>1, <4>2
    <3> QED
      BY <1>m, <3>4, <3>5
  <2>4. CASE ev[1] = "Send" /\ ev[2] = source
    <3> DEFINE n == <<"Paste", ev[3]>>
    <3>1. events' = Append(events, n)
      BY <1>1, <2>1, <2>4 DEF OnReport
    <3>2. m # n
      BY <1>m
    <3> HIDE DEF n
    <3> QED
      BY <1>0, <1>m, <3>1, <3>2, InAppend
  <2>5. CASE (ev[1] = "Send" /\ ev[2] # source) \/ ev[1] = "Cancelled" \/ ev[1] = "Done"
    BY <1>1, <2>1, <2>5 DEF OnReport
  <2> QED
    BY <1>1, <2>1, <2>3, <2>4, <2>5 DEF OnReport
<1>2. CASE OnSelection \/ OnPaste
  <2>1. events # <<>> /\ events' = Tail(events)
    BY <1>2 DEF OnSelection, OnPaste
  <2> QED
    BY <1>0, <2>1, InTail
<1>3. OnReport \/ OnSelection \/ OnPaste \/ events' = events
  BY DEF Next, Steps, LocalCopy, LocalClear, LocalListed, SetRemoteOffer, ReadLocal, LocalPaste,
         OnUi, OnServerMsg, Listed, OnRemoteOffer, OnRequest, OnCmd, HandleRequest, RemoteCopy,
         RemoteClear, RemotePaste, bridge
<1> QED
  BY <1>1, <1>2, <1>3

\* A listing begins when the bridge hears of a selection.
LEMMA ListedFrom ==
  ASSUME Flow, Next, NEW l \in listed'
  PROVE  l \in listed
         \/ /\ OnSelection /\ UNCHANGED current
            /\ events # <<>> /\ Head(events)[1] = "Selection" /\ events' = Tail(events)
            /\ gen' = gen + 1 /\ l = <<gen + 1, Head(events)[2]>>
<1> SUFFICES ASSUME l \notin listed
             PROVE  /\ OnSelection /\ UNCHANGED current
                    /\ events # <<>> /\ Head(events)[1] = "Selection" /\ events' = Tail(events)
                    /\ gen' = gen + 1 /\ l = <<gen + 1, Head(events)[2]>>
  OBVIOUS
<1>1. OnSelection
  BY DEF Next, Steps, LocalCopy, LocalClear, LocalListed, SetRemoteOffer, ReadLocal, LocalPaste,
         OnUi, OnServerMsg, Listed, OnPaste, OnRemoteOffer, OnRequest, OnCmd, OnReport,
         HandleRequest, RemoteCopy, RemoteClear, RemotePaste, bridge
<1> QED
  BY <1>1 DEF OnSelection, thread

\* A proxy is made of an offer of the server's.
LEMMA ProxyFrom ==
  ASSUME Flow, Next, IsProxy(clip'), clip' # clip
  PROVE  /\ SetRemoteOffer /\ In(Head(status), status) /\ Head(status)[1] = "Offer"
         /\ clip'[2] = Head(status)[2] /\ clip'[3] = Head(status)[3]
<1>1. SetRemoteOffer
  <2>1. SetRemoteOffer \/ LocalCopy \/ LocalClear
    BY DEF Next, Steps, LocalListed, ReadLocal, LocalPaste, OnUi, OnServerMsg, OnSelection,
           Listed, OnPaste, OnRemoteOffer, OnRequest, OnCmd, OnReport, HandleRequest, RemoteCopy,
           RemoteClear, RemotePaste, gtk
  <2> QED
    BY <2>1, Shapes DEF LocalCopy, LocalClear, Changed
<1>2. In(Head(status), status) /\ Head(status)[1] = "Offer"
  BY <1>1, InTail DEF SetRemoteOffer, Flow, ClientFlow
<1>3. clip' = Proxy(Head(status)[2], Head(status)[3])
  BY <1>1, Shapes DEF SetRemoteOffer, Changed
<1> QED
  BY <1>1, <1>2, <1>3, Shapes

\* An item the client holds or will hear of is a copy just made, or it was one
\* already.
LEMMA LiveFrom ==
  ASSUME Flow, Next, NEW item \in Nat, item # 0, Live(item)'
  PROVE  Live(item) \/ (RemoteCopy /\ item = Len(copies) + 1)
<1>1. CASE In(<<"Selection", App(item)>>, reports')
  BY <1>1, AppReported DEF Live
<1>2. CASE In(<<"Selection", item>>, events')
  BY <1>2, EventFrom DEF Live
<1>3. CASE \E l \in listed' : l[2] = item
  <2>1. PICK l \in listed' : l[2] = item
    BY <1>3
  <2>2. CASE l \in listed
    BY <2>1, <2>2 DEF Live
  <2>3. CASE OnSelection /\ Head(events)[1] = "Selection" /\ l = <<gen + 1, Head(events)[2]>>
    <3>1. In(Head(events), events) /\ Head(events) \in Events
      BY <2>3, InTail, HeadAndTail DEF OnSelection, Flow, BridgeFlow
    <3>2. Head(events)[2] = item
      BY <2>1, <2>3
    <3>3. Head(events) = <<"Selection", item>>
      BY <2>3, <3>1, <3>2 DEF Events
    <3> QED
      BY <3>1, <3>3 DEF Live
  <2> QED
    BY <2>2, <2>3, ListedFrom
<1>4. ASSUME NEW m, In(m, s2c'), m[1] = "Offer", m[3] = item PROVE Live(item)
  <2>1. CASE In(m, s2c)
    BY <1>4, <2>1 DEF Live, In
  <2>2. CASE \E l \in listed : m = <<"Offer", l[1], l[2]>>
    BY <1>4, <2>2 DEF Live
  <2>3. CASE \E i : m = <<"Request", remote[1], i, remote[2] # i>>
    BY <1>4, <2>3
  <2> QED
    BY <1>4, <2>1, <2>2, <2>3, ToClientFrom
<1>5. ASSUME NEW m, In(m, status'), m[1] = "Offer", m[3] = item PROVE Live(item)
  <2>1. CASE In(m, status)
    BY <1>5, <2>1 DEF Live, In
  <2>2. CASE In(m, s2c)
    BY <1>5, <2>2 DEF Live, In
  <2>3. CASE \E n : m = <<"Read", n[3], n[4], lserial>>
    BY <1>5, <2>3
  <2> QED
    BY <1>5, <2>1, <2>2, <2>3, StatusFrom
<1>6. CASE IsProxy(clip') /\ clip'[3] = item
  <2>1. CASE clip' = clip
    BY <1>6, <2>1 DEF Live
  <2>2. CASE clip' # clip
    <3>1. In(Head(status), status) /\ Head(status)[1] = "Offer" /\ Head(status)[3] = item
      BY <1>6, <2>2, ProxyFrom
    <3> QED
      BY <3>1 DEF In, Live
  <2> QED
    BY <2>1, <2>2
<1>7. CASE \E k \in DOMAIN s2c' : s2c'[k][1] = "Offer" /\ s2c'[k][3] = item
  BY <1>4, <1>7 DEF In
<1>8. CASE \E k \in DOMAIN status' : status'[k][1] = "Offer" /\ status'[k][3] = item
  BY <1>5, <1>8 DEF In
<1> QED
  BY <1>1, <1>2, <1>3, <1>6, <1>7, <1>8 DEF Live

\* Such an item is one copied on the server.
LEMMA LiveMade ==
  ASSUME Flow, NEW item \in Nat, item # 0, Live(item)
  PROVE  item \in Made("server")
<1>0. /\ reports \in Seq(Reports) /\ events \in Seq(Events) /\ s2c \in Seq(ToClient)
      /\ status \in Seq(StatusMsgs) /\ listed \in SUBSET (Nat \X Offered("server"))
      /\ clip \in Contents("client", "server")
  BY DEF Flow, ClientFlow, WireFlow, BridgeFlow, CompositorFlow
<1>1. CASE In(<<"Selection", App(item)>>, reports)
  <2>0. PICK m : m = <<"Selection", App(item)>>
    OBVIOUS
  <2>1. m \in Reports
    <3>1. PICK k \in DOMAIN reports : reports[k] = m
      BY <1>1, <2>0 DEF In
    <3>2. reports[k] \in Reports
      BY <1>0
    <3> QED
      BY <3>1, <3>2
  <2>2. App(item) \in Contents("server", "client")
    BY <2>0, <2>1 DEF Reports
  <2>3. App(item)[2] \in Made("server")
    BY <2>2, ContentIs, Shapes
  <2> QED
    BY <2>3, Shapes
<1>2. CASE In(<<"Selection", item>>, events)
  <2>0. PICK m : m = <<"Selection", item>>
    OBVIOUS
  <2>1. m \in Events
    <3>1. PICK k \in DOMAIN events : events[k] = m
      BY <1>2, <2>0 DEF In
    <3>2. events[k] \in Events
      BY <1>0
    <3> QED
      BY <3>1, <3>2
  <2>2. item \in Offered("server")
    BY <2>0, <2>1 DEF Events
  <2> QED
    BY <2>2 DEF Offered
<1>3. CASE \E l \in listed : l[2] = item
  BY <1>0, <1>3 DEF Offered
<1>4. CASE \E k \in DOMAIN s2c : s2c[k][1] = "Offer" /\ s2c[k][3] = item
  <2>1. \A m \in ToClient : m[1] = "Offer" => m[3] \in Offered("server")
    BY DEF ToClient, Offers
  <2> QED
    BY <1>0, <1>4, <2>1 DEF Offered
<1>5. CASE \E k \in DOMAIN status : status[k][1] = "Offer" /\ status[k][3] = item
  <2>1. \A m \in StatusMsgs : m[1] = "Offer" => m[3] \in Offered("server")
    BY DEF StatusMsgs, Offers
  <2> QED
    BY <1>0, <1>5, <2>1 DEF Offered
<1>6. CASE IsProxy(clip) /\ clip[3] = item
  BY <1>0, <1>6, ContentIs
<1> QED
  BY <1>1, <1>2, <1>3, <1>4, <1>5, <1>6 DEF Live

\* The last crossing is one of the copies, and does not go back.
LEMMA CrossedGrows ==
  ASSUME Flow, Undisturbed, Next
  PROVE  crossed' \in 0 .. Len(copies') /\ crossed <= crossed'
<1>0. copies \in Seq({"client", "server"}) /\ crossed \in 0 .. Len(copies)
  BY DEF Flow, Undisturbed
<1>1. CASE LocalCopy
  <2>1. crossed' \in {crossed, Len(copies)} /\ copies' = Append(copies, "client")
    BY <1>1 DEF LocalCopy, Copied, Changed, Crosses
  <2> QED
    BY <1>0, <2>1
<1>2. CASE RemoteCopy
  <2>1. crossed' \in {crossed, Len(copies) + 1} /\ copies' = Append(copies, "server")
    BY <1>2 DEF RemoteCopy, Copied, Crosses
  <2> QED
    BY <1>0, <2>1
<1>3. CASE SetRemoteOffer
  <2>1. crossed' \in {crossed, Len(copies)} /\ copies' = copies
    BY <1>3 DEF SetRemoteOffer, Changed, Crosses
  <2> QED
    BY <1>0, <2>1
<1>4. CASE LocalClear \/ RemoteClear
  <2>1. crossed' \in {crossed, Len(copies)} /\ copies' = copies
    BY <1>4 DEF LocalClear, RemoteClear, Changed, Crosses
  <2> QED
    BY <1>0, <2>1
<1>5. CASE UNCHANGED <<copies, crossed>>
  BY <1>0, <1>5
<1> QED
  BY <1>1, <1>2, <1>3, <1>4, <1>5
     DEF Next, Steps, LocalListed, ReadLocal, LocalPaste, OnUi, OnServerMsg, OnSelection, Listed,
         OnPaste, OnRemoteOffer, OnRequest, OnCmd, OnReport, HandleRequest, RemotePaste, user

\* What is alive and uncrossed after a step was so before, unless just copied.
LEMMA UncrossedFrom ==
  ASSUME Flow, Undisturbed, Next, NEW item \in Made("server")', Uncrossed(item)'
  PROVE  \/ item \in Made("server") /\ Uncrossed(item)
         \/ RemoteCopy /\ item = Len(copies) + 1
<1>1. item \in Nat
  <2>1. copies' \in Seq({"client", "server"})
    BY FlowStep DEF Flow
  <2> QED
    BY <2>1 DEF Made
<1>2. item > crossed' /\ crossed \in Nat /\ crossed' \in Nat /\ crossed <= crossed'
  <2>1. copies \in Seq({"client", "server"}) /\ copies' \in Seq({"client", "server"})
    BY FlowStep DEF Flow
  <2> QED
    BY <2>1, CrossedGrows DEF Undisturbed, Uncrossed
<1>3. item > crossed /\ item # 0
  BY <1>1, <1>2
<1>4. Live(item)'
  BY DEF Uncrossed
<1> QED
  BY <1>1, <1>3, <1>4, LiveFrom, LiveMade DEF Uncrossed

\* No change of the client's gets under way while such an item is.
LEMMA HeardKept ==
  ASSUME Flow, Undisturbed, Next, NEW item \in Made("server"), Uncrossed(item), Uncrossed(item)'
  PROVE  ~LocalUnheard'
<1>0. /\ toWorker \in Seq(WorkerCmds) /\ c2s \in Seq(ToServer) /\ status \in Seq(StatusMsgs)
      /\ cmds \in Seq(Offered("client")) /\ requests \in Seq(Requests)
      /\ copies \in Seq({"client", "server"})
  BY DEF Flow, ClientFlow, WireFlow, BridgeFlow, CompositorFlow
<1>u. ~LocalUnheard
  BY DEF Undisturbed
<1>1. listing = {} /\ ~Has(toWorker, "LocalOffer") /\ ~Has(c2s, "Offer")
      /\ cmds = <<>> /\ requests = <<>>
  <2>1. cmds \o requests = <<>>
    BY <1>u DEF LocalUnheard
  <2>2. cmds = <<>> /\ requests = <<>>
    <3>1. Len(cmds \o requests) = Len(cmds) + Len(requests)
      <4>1. /\ cmds \in Seq(Offered("client") \cup Requests)
            /\ requests \in Seq(Offered("client") \cup Requests)
        BY <1>0, SeqGrows
      <4> QED
        BY <4>1
    <3>2. Len(cmds) = 0 /\ Len(requests) = 0
      BY <1>0, <2>1, <3>1
    <3> QED
      BY <1>0, <3>2
  <2> QED
    BY <1>u, <2>2 DEF LocalUnheard
<1>2. SUFFICES /\ listing' = {} /\ ~Has(toWorker', "LocalOffer") /\ ~Has(c2s', "Offer")
               /\ cmds' = <<>> /\ requests' = <<>>
  BY DEF LocalUnheard
<1>3. crossed' # Len(copies)
  BY <1>0, CrossedGrows DEF Uncrossed, Made, Undisturbed
<1>4. ~LocalCopy /\ ~LocalClear
  <2> SUFFICES ASSUME LocalCopy \/ LocalClear PROVE FALSE
    OBVIOUS
  <2>1. PICK c : Changed(c) /\ ~IsProxy(c) /\ UNCHANGED <<status, wire, bridge, compositor>>
    BY Shapes DEF LocalCopy, LocalClear
  <2>2. ~RemoteUnheard
    BY <1>3, <2>1 DEF Changed, Crosses
  <2>3. ~IsProxy(clip')
    BY <2>1 DEF Changed
  <2>4. UNCHANGED <<reports, events, listed, s2c, status>>
    BY <2>1 DEF wire, bridge, compositor
  <2>5. ~In(<<"Selection", App(item)>>, reports) /\ ~In(<<"Selection", item>>, events)
    BY <2>2 DEF RemoteUnheard, Has, In
  <2>6. /\ listed = {} /\ \A k \in DOMAIN s2c : s2c[k][1] # "Offer"
        /\ \A k \in DOMAIN status : status[k][1] # "Offer"
    BY <2>2 DEF RemoteUnheard, Has
  <2>7. ~Live(item)'
    BY <2>3, <2>4, <2>5, <2>6 DEF Live, In
  <2> QED
    BY <2>7 DEF Uncrossed
<1>5. CASE SetRemoteOffer
  <2>1. RemoteUnheard
    <3>1. In(Head(status), status) /\ Head(status)[1] = "Offer"
      BY <1>0, <1>5, InTail DEF SetRemoteOffer
    <3> QED
      BY <3>1 DEF RemoteUnheard, Has, In
  <2>2. UNCHANGED <<toWorker, c2s, cmds, requests>>
    BY <1>5 DEF SetRemoteOffer, wire, bridge, compositor
  <2>3. \/ \E s, i : Changed(Proxy(s, i))
        \/ Changed(Empty)
        \/ UNCHANGED listing
    BY <1>5 DEF SetRemoteOffer
  <2>4. UNCHANGED listing
    BY <1>3, <2>1, <2>3, Shapes DEF Changed, Crosses
  <2> QED
    BY <1>1, <2>2, <2>4
<1>6. CASE LocalPaste
  <2>1. PICK m \in WorkerCmds : m[1] = "Fetch" /\ toWorker' = Append(toWorker, m)
    <3>1. clip[2] \in Nat /\ clip[3] \in Made("server")
      BY <1>6, ContentIs DEF LocalPaste, Flow, ClientFlow
    <3>2. <<"Fetch", clip[2], clip[3]>> \in WorkerCmds
      BY <3>1 DEF WorkerCmds
    <3> QED
      BY <1>6, <3>2 DEF LocalPaste
  <2>2. ~Has(toWorker', "LocalOffer")
    BY <1>0, <1>1, <2>1, HasAppend
  <2> QED
    BY <1>1, <1>6, <2>2 DEF LocalPaste, wire, bridge, compositor
<1>7. CASE OnUi
  <2>1. Head(toWorker)[1] # "LocalOffer" /\ toWorker # <<>>
    <3>1. toWorker # <<>>
      BY <1>7 DEF OnUi
    <3> QED
      BY <1>0, <1>1, <3>1, HasTail
  <2>2. PICK m : m[1] = "Request" /\ c2s' = Append(c2s, m)
    <3> DEFINE m == <<"Request", Head(toWorker)[2], Head(toWorker)[3], FALSE>>
    <3>1. m[1] = "Request"
      OBVIOUS
    <3>2. c2s' = Append(c2s, m)
      BY <1>7, <2>1 DEF OnUi
    <3> HIDE DEF m
    <3> QED
      BY <3>1, <3>2
  <2>3. ~Has(c2s', "Offer")
    BY <1>0, <1>1, <2>2, HasAppend
  <2>4. toWorker' = Tail(toWorker) /\ UNCHANGED <<listing, cmds, requests>>
    BY <1>7 DEF OnUi, bridge, compositor
  <2>5. ~Has(toWorker', "LocalOffer")
    BY <1>0, <1>1, <2>1, <2>4, HasTail
  <2> QED
    BY <1>1, <2>3, <2>4, <2>5
<1>8. CASE OnRemoteOffer \/ OnRequest
  <2>1. c2s # <<>> /\ c2s' = Tail(c2s)
    BY <1>8 DEF OnRemoteOffer, OnRequest
  <2>2. ~Has(c2s', "Offer") /\ Head(c2s)[1] # "Offer"
    BY <1>0, <1>1, <2>1, HasTail
  <2>3. OnRequest
    BY <1>8, <2>2 DEF OnRemoteOffer
  <2>4. UNCHANGED <<listing, toWorker, cmds, requests>>
    BY <2>3 DEF OnRequest, gtk, bridge, compositor
  <2> QED
    BY <1>1, <2>2, <2>4
<1>9. CASE UNCHANGED <<listing, toWorker, c2s, cmds, requests>>
  BY <1>1, <1>9
<1>10. ~(\E l \in listing : LocalListed(l)) /\ ~OnCmd /\ ~HandleRequest
  BY <1>1 DEF OnCmd, HandleRequest
<1> QED
  BY <1>4, <1>5, <1>6, <1>7, <1>8, <1>9, <1>10
     DEF Next, Steps, ReadLocal, OnServerMsg, OnSelection, Listed, OnPaste, OnReport,
         RemoteCopy, RemoteClear, RemotePaste, gtk, wire, bridge, compositor

\* A report of the desktop's own behind an item's leaves it undisturbed.
LEMMA OwnAppend ==
  ASSUME NEW S, NEW q \in Seq(S), NEW m, Own(m), NEW item, NEW content, OwnAfter(item, q, content)
  PROVE  OwnAfter(item, Append(q, m), content)
<1> DEFINE r == Append(q, m)
<1>1. \A k \in DOMAIN r : (k \in DOMAIN q /\ r[k] = q[k]) \/ (k = Len(q) + 1 /\ r[k] = m)
  BY AtAppend
<1>2. \A n : In(n, q) => In(n, r)
  BY InAppendNew
<1>3. \A k \in DOMAIN q : k < Len(q) + 1 /\ k \in Nat
  OBVIOUS
<1>4. Len(q) \in Nat
  OBVIOUS
<1> HIDE DEF r
<1>5. ASSUME NEW p \in DOMAIN r, NEW k \in DOMAIN r, p < k, r[p] = <<"Selection", App(item)>>
      PROVE  Own(r[k])
  <2>1. CASE k = Len(q) + 1 /\ r[k] = m
    BY <2>1
  <2>2. CASE k \in DOMAIN q /\ r[k] = q[k]
    <3>1. p \in DOMAIN q /\ q[p] = r[p]
      BY <1>1, <1>3, <1>4, <1>5, <2>2
    <3> QED
      BY <1>5, <2>2, <3>1 DEF OwnAfter
  <2> QED
    BY <1>1, <2>1, <2>2
<1>6. ASSUME ~In(<<"Selection", App(item)>>, r)
      PROVE  ~IsProxy(content) /\ \A k \in DOMAIN r : Own(r[k])
  <2>1. ~In(<<"Selection", App(item)>>, q)
    BY <1>2, <1>6
  <2> QED
    BY <1>1, <2>1 DEF OwnAfter
<1>7. OwnAfter(item, r, content)
  BY <1>5, <1>6 DEF OwnAfter
<1> QED
  BY <1>7 DEF r

\* So does the thread's taking the first report.
LEMMA OwnTail ==
  ASSUME NEW S, NEW q \in Seq(S), q # <<>>, NEW item, NEW content, OwnAfter(item, q, content),
         NEW next, Head(q)[1] # "Selection" => next = content,
         Head(q)[1] = "Selection" => next = Head(q)[2]
  PROVE  OwnAfter(item, Tail(q), next)
<1> DEFINE r == Tail(q)
<1>1. \A k \in DOMAIN r : k + 1 \in DOMAIN q /\ r[k] = q[k + 1] /\ k \in Nat /\ k >= 1
  BY AtTail
<1>2. 1 \in DOMAIN q /\ Head(q) = q[1]
  BY AtTail
<1>3. \A n : In(n, q) /\ n # Head(q) => In(n, r)
  BY InTailOther
<1> HIDE DEF r
<1>4. ASSUME NEW p \in DOMAIN r, NEW k \in DOMAIN r, p < k, r[p] = <<"Selection", App(item)>>
      PROVE  Own(r[k])
  <2>1. p + 1 < k + 1 /\ q[p + 1] = <<"Selection", App(item)>> /\ p + 1 \in DOMAIN q
        /\ k + 1 \in DOMAIN q /\ r[k] = q[k + 1]
    BY <1>1, <1>4
  <2> QED
    BY <2>1 DEF OwnAfter
<1>5. ASSUME ~In(<<"Selection", App(item)>>, r)
      PROVE  ~IsProxy(next) /\ \A k \in DOMAIN r : Own(r[k])
  <2>1. CASE Head(q) = <<"Selection", App(item)>>
    <3>1. next = App(item)
      BY <2>1
    <3>2. \A k \in DOMAIN r : Own(q[k + 1])
      BY <1>1, <1>2, <2>1 DEF OwnAfter
    <3> QED
      BY <1>1, <3>1, <3>2, Shapes
  <2>2. CASE Head(q) # <<"Selection", App(item)>>
    <3>1. PICK n : n = <<"Selection", App(item)>>
      OBVIOUS
    <3>2. ~In(n, q)
      BY <1>3, <1>5, <2>2, <3>1
    <3>3. ~IsProxy(content) /\ \A k \in DOMAIN q : Own(q[k])
      BY <3>1, <3>2 DEF OwnAfter
    <3>4. ~IsProxy(next)
      BY <1>2, <3>3 DEF Own
    <3> QED
      BY <1>1, <3>3, <3>4
  <2> QED
    BY <2>1, <2>2
<1>6. OwnAfter(item, r, next)
  BY <1>4, <1>5 DEF OwnAfter
<1> QED
  BY <1>6 DEF r

\* An item that is not crossed stays undisturbed.
LEMMA UndisturbedStep ==
  ASSUME Flow, Undisturbed, Next
  PROVE  Undisturbed'
<1>0. /\ reports \in Seq(Reports) /\ copies \in Seq({"client", "server"})
      /\ selection \in Contents("server", "client")
  BY DEF Flow, CompositorFlow
<1>1. ASSUME NEW item \in Made("server")', Uncrossed(item)', RemoteCopy, item = Len(copies) + 1
      PROVE  ~LocalUnheard' /\ OwnAfter(item, reports', current')
  <2>0. Selected(App(item)) /\ UNCHANGED <<gtk, wire, bridge, thread, requests>>
        /\ Crosses(LocalUnheard, item)
    BY <1>1 DEF RemoteCopy
  <2>1. ~LocalUnheard'
    <3>1. crossed' # item
      BY <1>0, <1>1, CrossedGrows, FlowStep DEF Uncrossed, Flow
    <3>2. ~LocalUnheard
      BY <2>0, <3>1 DEF Crosses
    <3> QED
      BY <2>0, <3>2 DEF LocalUnheard, Has, gtk, wire, bridge
  <2>2. item \notin Made("server")
    BY <1>0, <1>1 DEF Made
  <2>3. App(item) # selection
    BY <1>0, <2>2, ContentIs, Shapes
  <2>m. PICK m : m = <<"Selection", App(item)>>
    OBVIOUS
  <2>4. PICK mid \in Seq(Reports) :
          reports' = Append(mid, m)
    BY <2>0, <2>3, <2>m, SelectedReports
  <2>5. \A k \in DOMAIN mid : mid[k] # m
    <3> SUFFICES ASSUME NEW k \in DOMAIN mid, mid[k] = m PROVE FALSE
      OBVIOUS
    <3>1. m \in Reports
      BY <2>4
    <3>2. App(item) \in Contents("server", "client")
      BY <2>m, <3>1 DEF Reports
    <3> QED
      BY <2>2, <3>2, ContentIs, Shapes
  <2>6. \A k \in DOMAIN reports' : (k \in DOMAIN mid /\ reports'[k] = mid[k])
                                   \/ (k = Len(mid) + 1 /\ reports'[k] = m)
    BY <2>4, AtAppend
  <2>7. \A k \in DOMAIN mid : k < Len(mid) + 1 /\ k \in Nat
    OBVIOUS
  <2>8. \A p, k \in DOMAIN reports' : ~(p < k /\ reports'[p] = m)
    <3>1. \A p \in DOMAIN reports' : reports'[p] = m => p = Len(mid) + 1
      BY <2>5, <2>6
    <3>2. \A k \in DOMAIN reports' : k <= Len(mid) + 1 /\ k \in Nat
      BY <2>6, <2>7
    <3> QED
      BY <3>1, <3>2
  <2>9. In(m, reports')
    BY <2>4, InAppendNew
  <2> QED
    BY <2>1, <2>m, <2>8, <2>9 DEF OwnAfter
<1>2. ASSUME NEW item \in Made("server"), Uncrossed(item), Uncrossed(item)'
      PROVE  ~LocalUnheard' /\ OwnAfter(item, reports', current')
  <2>1. ~LocalUnheard'
    BY <1>2, HeardKept
  <2>2. OwnAfter(item, reports, current) /\ ~LocalUnheard
    BY <1>2 DEF Undisturbed
  <2>3. OwnAfter(item, reports', current')
    <3>1. CASE UNCHANGED <<reports, current>>
      BY <2>2, <3>1
    <3>2. CASE OnReport
      <4>1. reports # <<>> /\ reports' = Tail(reports)
        BY <3>2 DEF OnReport
      <4>2. /\ Head(reports)[1] # "Selection" => current' = current
            /\ Head(reports)[1] = "Selection" => current' = Head(reports)[2]
        BY <3>2 DEF OnReport
      <4> QED
        BY <1>0, <2>2, <4>1, <4>2, OwnTail
    <3>3. ~HandleRequest
      <4> SUFFICES ASSUME HandleRequest PROVE FALSE
        OBVIOUS
      <4>1. requests \in Seq(Requests) /\ requests # <<>> /\ cmds \in Seq(Offered("client"))
        BY DEF HandleRequest, Flow, CompositorFlow, BridgeFlow
      <4>2. cmds \o requests = <<>>
        BY <2>2 DEF LocalUnheard
      <4>3. requests \in Seq(Offered("client") \cup Requests)
            /\ cmds \in Seq(Offered("client") \cup Requests)
        BY <4>1, SeqGrows
      <4>4. Len(cmds \o requests) = Len(cmds) + Len(requests)
        BY <4>3
      <4>5. Len(requests) > 0 /\ Len(cmds) \in Nat
        BY <4>1
      <4> QED
        BY <4>2, <4>4, <4>5
    <3>4. ASSUME NEW c, Selected(c), ~IsProxy(c), UNCHANGED current
          PROVE  OwnAfter(item, reports', current')
      <4>1. PICK mid \in Seq(Reports) :
              /\ IF IsProxy(selection) THEN mid = Append(reports, <<"Cancelled", selection[2]>>)
                 ELSE mid = reports
              /\ IF c = selection THEN reports' = mid
                 ELSE reports' = Append(mid, <<"Selection", c>>)
        BY <3>4, SelectedReports
      <4>2. Own(<<"Cancelled", selection[2]>>) /\ Own(<<"Selection", c>>)
        BY <3>4 DEF Own
      <4>3. OwnAfter(item, mid, current)
        BY <1>0, <2>2, <4>1, <4>2, OwnAppend
      <4>4. OwnAfter(item, Append(mid, <<"Selection", c>>), current)
        BY <4>2, <4>3, OwnAppend
      <4> QED
        BY <3>4, <4>1, <4>3, <4>4
    <3>5. CASE (RemoteCopy \/ RemoteClear) /\ UNCHANGED current
      BY <3>4, <3>5, Shapes DEF RemoteCopy, RemoteClear
    <3>6. CASE RemotePaste /\ UNCHANGED current
      <4>1. reports' = Append(reports, <<"Send", selection[2], selection[3]>>)
        BY <3>6 DEF RemotePaste
      <4>2. Own(<<"Send", selection[2], selection[3]>>)
        BY DEF Own
      <4>3. OwnAfter(item, Append(reports, <<"Send", selection[2], selection[3]>>), current)
        BY <1>0, <2>2, <4>2, OwnAppend
      <4> QED
        BY <3>6, <4>1, <4>3
    <3> QED
      BY <3>1, <3>2, <3>3, <3>5, <3>6, ReportsMoves
  <2> QED
    BY <2>1, <2>3
<1>3. ASSUME NEW item \in Made("server")', Uncrossed(item)'
      PROVE  ~LocalUnheard' /\ OwnAfter(item, reports', current')
  BY <1>1, <1>2, <1>3, UncrossedFrom
<1> QED
  BY <1>3, CrossedGrows DEF Undisturbed, OwnAfter

-------------------------------------------------------------------------------
(* What the server's serials stand for. *)

\* The thread's selection stays accounted for but by a new report of one.
LEMMA AccountedKept ==
  ASSUME Flow, Undisturbed, Next, ~(OnReport /\ Head(reports)[1] = "Selection")
  PROVE  UNCHANGED current /\ (Accounted' => Accounted)
<1>0. reports \in Seq(Reports)
  BY DEF Flow, CompositorFlow
<1>1. UNCHANGED current
  BY ReportsMoves DEF OnReport
<1>2. ASSUME NEW item \in Made("server")', Uncrossed(item)',
             ~In(<<"Selection", App(item)>>, reports')
      PROVE  item \in Made("server") /\ Uncrossed(item)
             /\ ~In(<<"Selection", App(item)>>, reports)
  <2>m. PICK m : m = <<"Selection", App(item)>>
    OBVIOUS
  <2>1. CASE RemoteCopy /\ item = Len(copies) + 1
    <3>1. Selected(App(item))
      BY <2>1 DEF RemoteCopy
    <3>2. App(item) # selection
      <4>1. item \notin Made("server")
        BY <2>1 DEF Made, Flow
      <4> QED
        BY <4>1, ContentIs, Shapes DEF Flow, CompositorFlow
    <3>3. PICK mid \in Seq(Reports) : reports' = Append(mid, m)
      BY <2>m, <3>1, <3>2, SelectedReports
    <3> QED
      BY <1>2, <2>m, <3>3, InAppendNew
  <2>2. CASE item \in Made("server") /\ Uncrossed(item)
    <3>1. ASSUME In(m, reports) PROVE In(m, reports')
      <4>1. CASE OnReport
        <5>1. reports # <<>> /\ reports' = Tail(reports)
          BY <4>1 DEF OnReport
        <5>2. m[1] = "Selection" /\ Head(reports)[1] # "Selection"
          BY <2>m, <4>1
        <5> QED
          BY <1>0, <3>1, <5>1, <5>2, InTailOther
      <4>2. ASSUME NEW c, Selected(c) PROVE In(m, reports')
        <5>1. PICK mid \in Seq(Reports) :
                /\ IF IsProxy(selection) THEN mid = Append(reports, <<"Cancelled", selection[2]>>)
                   ELSE mid = reports
                /\ IF c = selection THEN reports' = mid
                   ELSE reports' = Append(mid, <<"Selection", c>>)
          BY <4>2, SelectedReports
        <5>2. In(m, mid)
          BY <1>0, <3>1, <5>1, InAppendNew
        <5> QED
          BY <5>1, <5>2, InAppendNew
      <4>3. CASE HandleRequest \/ RemoteCopy \/ RemoteClear \/ RemotePaste
        <5>1. (\E c : Selected(c)) \/ (\E n : reports' = Append(reports, n))
          BY <4>3 DEF HandleRequest, RemoteCopy, RemoteClear, RemotePaste
        <5> QED
          BY <1>0, <3>1, <4>2, <5>1, InAppendNew
      <4> QED
        BY <3>1, <4>1, <4>3, ReportsMoves
    <3> QED
      BY <1>2, <2>m, <2>2, <3>1
  <2> QED
    BY <1>2, <2>1, <2>2, UncrossedFrom
<1> QED
  BY <1>1, <1>2 DEF Accounted

\* Who touches what a serial is checked against.
LEMMA ReportMoves ==
  ASSUME Next
  PROVE  \/ UNCHANGED <<gen, current, events>> /\ ~OnReport
         \/ (OnSelection \/ OnPaste) /\ ~OnReport /\ UNCHANGED current
         \/ OnReport
  BY DEF Next, Steps, LocalCopy, LocalClear, LocalListed, SetRemoteOffer, ReadLocal, LocalPaste,
         OnUi, OnServerMsg, Listed, OnSelection, OnPaste, OnRemoteOffer, OnRequest, OnCmd,
         HandleRequest, RemoteCopy, RemoteClear, RemotePaste, bridge, thread

\* What a report does to the bridge's events: a selection that is accounted for
\* is told, a withdrawal's echo is not.
LEMMA ReportEffect ==
  ASSUME Flow, Undisturbed, Withdrawals, Next, OnReport
  PROVE  \/ UNCHANGED <<current, events>> /\ (Accounted' => Accounted)
         \/ /\ UNCHANGED current /\ (Accounted' => Accounted)
            /\ \E item : events' = Append(events, <<"Paste", item>>)
         \/ ~Accounted'
         \/ events' = Append(events, <<"Selection", ItemOf(current')>>)
<1> DEFINE ev == Head(reports)
<1>0. reports # <<>> /\ reports \in Seq(Reports) /\ reports' = Tail(reports)
  BY DEF OnReport, Flow, CompositorFlow
<1>1. ev \in Reports /\ In(ev, reports)
  BY <1>0, HeadAndTail, InTail
<1>2. CASE ev[1] = "Selection"
  <2>1. ev[2] \in Contents("server", "client")
    BY <1>1, <1>2 DEF Reports
  <2>2. /\ current' = ev[2]
        /\ events' = IF IsEcho(ev[2]) THEN events
                     ELSE Append(events, <<"Selection", ItemOf(ev[2])>>)
    BY <1>2 DEF OnReport
  <2>3. CASE ev[2] # Empty /\ ~IsProxy(ev[2])
    BY <2>2, <2>3 DEF IsEcho
  <2>4. ASSUME Accounted', ev[2] = Empty \/ IsProxy(ev[2])
        PROVE  ~IsProxy(ev[2]) /\ ~PendingEcho
    <3>1. current'[1] # "app"
      BY <2>2, <2>4, Shapes DEF IsProxy
    <3>2. PICK item \in Made("server")' :
            Uncrossed(item)' /\ ~In(<<"Selection", App(item)>>, reports')
      BY <2>4, <3>1 DEF Accounted
    <3>3. ~RemoteCopy
      <4>1. copies' = copies /\ copies \in Seq({"client", "server"})
        BY DEF OnReport, Flow
      <4>2. Append(copies, "server") # copies
        BY <4>1
      <4> QED
        BY <4>1, <4>2 DEF RemoteCopy, Copied
    <3>4. item \in Made("server") /\ Uncrossed(item)
      BY <3>2, <3>3, UncrossedFrom
    <3>5. PICK m : m = <<"Selection", App(item)>>
      OBVIOUS
    <3>6. m # ev
      BY <2>4, <3>5, Shapes
    <3>7. ~In(m, reports)
      BY <1>0, <3>2, <3>5, <3>6, InTailOther
    <3>8. ~LocalUnheard /\ \A k \in DOMAIN reports : Own(reports[k])
      BY <3>4, <3>5, <3>7 DEF Undisturbed, OwnAfter
    <3>9. ~IsProxy(ev[2])
      BY <1>1, <1>2, <3>8 DEF In, Own
    <3>10. ~In(<<"Done", withdrawn>>, reports)
      BY <3>8 DEF In, Own
    <3>11. ~In(<<"Sync", withdrawn>>, requests)
      <4>1. cmds \o requests = <<>>
        BY <3>8 DEF LocalUnheard
      <4>2. requests \in Seq(Offered("client") \cup Requests)
            /\ cmds \in Seq(Offered("client") \cup Requests)
        BY SeqGrows DEF Flow, BridgeFlow, CompositorFlow
      <4>3. Len(cmds \o requests) = Len(cmds) + Len(requests)
        BY <4>2
      <4>4. DOMAIN requests = {}
        BY <4>1, <4>2, <4>3
      <4> QED
        BY <4>4 DEF In
    <3> QED
      BY <3>9, <3>10, <3>11 DEF Withdrawals
  <2>5. CASE ev[2] = Empty \/ IsProxy(ev[2])
    BY <2>2, <2>4, <2>5, Shapes DEF IsEcho
  <2> QED
    BY <2>3, <2>5
<1>3. CASE ev[1] # "Selection"
  <2>0. UNCHANGED current /\ (Accounted' => Accounted)
    BY <1>3, AccountedKept
  <2>1. CASE ev[1] = "Send" /\ ev[2] = source
    <3>1. events' = Append(events, <<"Paste", ev[3]>>)
      BY <2>1 DEF OnReport
    <3> QED
      BY <2>0, <3>1
  <2>2. CASE (ev[1] = "Send" /\ ev[2] # source) \/ ev[1] = "Cancelled" \/ ev[1] = "Done"
    BY <2>0, <2>2 DEF OnReport
  <2> QED
    BY <1>3, <2>1, <2>2 DEF OnReport
<1> QED
  BY <1>2, <1>3

\* The newest event is the thread's selection, where it is accounted for.
LEMMA ReportedStep ==
  ASSUME Flow, Undisturbed, Withdrawals, Reported, Next
  PROVE  Reported'
<1>0. events \in Seq(Events)
  BY DEF Flow, BridgeFlow
<1>x. PICK x : x = ItemOf(current')
  OBVIOUS
<1>s. SUFFICES ASSUME Accounted' PROVE Newest(events', "Selection", 2, x)
  BY <1>x DEF Reported, Newest
<1>n. Accounted /\ UNCHANGED current => Newest(events, "Selection", 2, x)
  BY <1>x DEF Reported
<1>1. CASE (OnSelection \/ OnPaste) /\ ~OnReport
  <2>1. events # <<>> /\ events' = Tail(events)
    BY <1>1 DEF OnSelection, OnPaste
  <2>2. Newest(events, "Selection", 2, x)
    BY <1>s, <1>n, <1>1, AccountedKept
  <2> QED
    BY <1>0, <2>1, <2>2, NewestTail
<1>2. CASE OnReport
  <2>1. CASE UNCHANGED <<current, events>> /\ (Accounted' => Accounted)
    BY <1>s, <1>n, <2>1
  <2>2. CASE /\ UNCHANGED current /\ (Accounted' => Accounted)
             /\ \E item : events' = Append(events, <<"Paste", item>>)
    <3>1. PICK item : events' = Append(events, <<"Paste", item>>)
      BY <2>2
    <3>2. Newest(events, "Selection", 2, x)
      BY <1>s, <1>n, <2>2
    <3>3. Newest(Append(events, <<"Paste", item>>), "Selection", 2, x)
      BY <1>0, <3>2, NewestAppend
    <3> QED
      BY <3>1, <3>3
  <2>3. CASE events' = Append(events, <<"Selection", ItemOf(current')>>)
    <3>1. Newest(Append(events, <<"Selection", x>>), "Selection", 2, x)
      BY <1>0, NewestAppend
    <3> QED
      BY <1>x, <2>3, <3>1
  <2> QED
    BY <1>s, <1>2, <2>1, <2>2, <2>3, ReportEffect
<1>3. CASE UNCHANGED <<gen, current, events>> /\ ~OnReport
  BY <1>s, <1>n, <1>3, AccountedKept
<1> QED
  BY <1>1, <1>2, <1>3, ReportMoves

\* What a serial stood for it stands for, until a newer one takes its place.
LEMMA StandsKept ==
  ASSUME Flow, Undisturbed, Withdrawals, Next, NEW serial \in Nat, NEW item,
         StandsFor(serial, item)
  PROVE  StandsFor(serial, item)'
<1>0. events \in Seq(Events) /\ gen \in Nat
  BY DEF Flow, BridgeFlow
<1>1. CASE OnSelection /\ ~OnReport
  <2>1. gen' = gen + 1
    BY <1>1 DEF OnSelection
  <2> QED
    BY <1>0, <2>1 DEF StandsFor
<1>2. CASE OnPaste /\ ~OnReport
  <2>1. events # <<>> /\ Head(events)[1] = "Paste" /\ events' = Tail(events) /\ UNCHANGED gen
    BY <1>2 DEF OnPaste
  <2>2. Has(events', "Selection") <=> Has(events, "Selection")
    BY <1>0, <2>1, HasTail
  <2>3. UNCHANGED current /\ (Accounted' => Accounted)
    BY <1>2, AccountedKept
  <2> QED
    BY <2>1, <2>2, <2>3 DEF StandsFor
<1>3. CASE OnReport
  <2>0. gen' = gen
    BY <1>3 DEF OnReport
  <2>1. CASE UNCHANGED <<current, events>> /\ (Accounted' => Accounted)
    BY <2>0, <2>1 DEF StandsFor, Has
  <2>2. CASE /\ UNCHANGED current /\ (Accounted' => Accounted)
             /\ \E i : events' = Append(events, <<"Paste", i>>)
    <3>1. PICK i : events' = Append(events, <<"Paste", i>>)
      BY <2>2
    <3>2. Has(Append(events, <<"Paste", i>>), "Selection") <=> Has(events, "Selection")
      BY <1>0, HasAppend
    <3> QED
      BY <2>0, <2>2, <3>1, <3>2 DEF StandsFor
  <2>3. CASE ~Accounted'
    BY <2>0, <2>3 DEF StandsFor
  <2>4. CASE events' = Append(events, <<"Selection", ItemOf(current')>>)
    <3>1. PICK x : x = ItemOf(current')
      OBVIOUS
    <3>2. Has(Append(events, <<"Selection", x>>), "Selection")
      BY <1>0, HasAppend
    <3> QED
      BY <2>0, <2>4, <3>1, <3>2 DEF StandsFor
  <2> QED
    BY <1>3, <2>1, <2>2, <2>3, <2>4, ReportEffect
<1>4. CASE UNCHANGED <<gen, current, events>> /\ ~OnReport
  <2>1. Accounted' => Accounted
    BY <1>4, AccountedKept
  <2> QED
    BY <1>4, <2>1 DEF StandsFor, Has
<1> QED
  BY <1>1, <1>2, <1>3, <1>4, ReportMoves

\* Every serial under way keeps standing for its item.
LEMMA SerialsStep ==
  ASSUME Flow, Undisturbed, Withdrawals, Reported, Serials, Next
  PROVE  Serials'
<1>k. \A s \in Nat : \A i : StandsFor(s, i) => StandsFor(s, i)'
  BY StandsKept
<1>t. listed \in SUBSET (Nat \X Offered("server")) /\ clip \in Contents("client", "server")
      /\ events \in Seq(Events) /\ gen \in Nat
  BY DEF Flow, ClientFlow, BridgeFlow
<1>a. \A l \in listed : l[1] \in Nat /\ StandsFor(l[1], l[2])
  BY <1>t DEF Serials
<1>b. \A n : In(n, s2c) /\ n[1] = "Offer" => n[2] \in Nat /\ StandsFor(n[2], n[3])
  BY Fields DEF In, Serials
<1>c. \A n : In(n, status) /\ n[1] = "Offer" => n[2] \in Nat /\ StandsFor(n[2], n[3])
  BY Fields DEF In, Serials
<1>d. IsProxy(clip) => clip[2] \in Nat /\ StandsFor(clip[2], clip[3])
  BY <1>t, ContentIs DEF Serials
<1>e. \A n : In(n, toWorker) /\ n[1] = "Fetch" => n[2] \in Nat /\ StandsFor(n[2], n[3])
  BY Fields DEF In, Serials
<1>f. \A n : In(n, c2s) /\ n[1] = "Request" => n[2] \in Nat /\ StandsFor(n[2], n[3])
  BY Fields DEF In, Serials
<1>1. ASSUME NEW l \in listed' PROVE StandsFor(l[1], l[2])'
  <2>1. CASE l \in listed
    BY <1>a, <1>k, <2>1
  <2>2. CASE /\ OnSelection /\ UNCHANGED current
             /\ events # <<>> /\ Head(events)[1] = "Selection" /\ events' = Tail(events)
             /\ gen' = gen + 1 /\ l = <<gen + 1, Head(events)[2]>>
    <3>1. ~OnReport
      <4>1. gen' # gen
        BY <1>t, <2>2
      <4> QED
        BY <4>1 DEF OnReport
    <3>2. Accounted' => Accounted
      BY <3>1, AccountedKept
    <3>3. Accounted /\ ~Has(Tail(events), "Selection") => Head(events)[2] = ItemOf(current)
      BY <1>t, <2>2, NewestTail DEF Reported
    <3> QED
      BY <1>t, <2>2, <3>2, <3>3 DEF StandsFor
  <2> QED
    BY <2>1, <2>2, ListedFrom
<1>2. ASSUME NEW m, In(m, s2c'), m[1] = "Offer" PROVE StandsFor(m[2], m[3])'
  <2>1. CASE In(m, s2c)
    BY <1>b, <1>k, <1>2, <2>1
  <2>2. CASE \E l \in listed : m = <<"Offer", l[1], l[2]>>
    <3>1. PICK l \in listed : m = <<"Offer", l[1], l[2]>>
      BY <2>2
    <3>2. m[2] = l[1] /\ m[3] = l[2]
      BY <3>1
    <3> QED
      BY <1>a, <1>k, <3>2
  <2>3. CASE \E item : m = <<"Request", remote[1], item, remote[2] # item>>
    BY <1>2, <2>3
  <2> QED
    BY <1>2, <2>1, <2>2, <2>3, ToClientFrom
<1>3. ASSUME NEW m, In(m, status'), m[1] = "Offer" PROVE StandsFor(m[2], m[3])'
  <2>1. CASE In(m, status)
    BY <1>c, <1>k, <1>3, <2>1
  <2>2. CASE In(m, s2c)
    BY <1>b, <1>k, <1>3, <2>2
  <2>3. CASE \E n : m = <<"Read", n[3], n[4], lserial>>
    BY <1>3, <2>3
  <2> QED
    BY <1>3, <2>1, <2>2, <2>3, StatusFrom
<1>4. ASSUME IsProxy(clip') PROVE StandsFor(clip[2], clip[3])'
  <2>0. PICK c : c = clip'
    OBVIOUS
  <2>1. CASE UNCHANGED clip
    BY <1>d, <1>k, <1>4, <2>0, <2>1 DEF StandsFor
  <2>2. CASE clip' # clip
    <3>0. PICK m : m = Head(status)
      OBVIOUS
    <3>1. In(m, status) /\ m[1] = "Offer" /\ c[2] = m[2] /\ c[3] = m[3]
      BY <1>4, <2>0, <2>2, <3>0, ProxyFrom
    <3>2. StandsFor(m[2], m[3])'
      BY <1>c, <1>k, <3>1
    <3> QED
      BY <2>0, <3>1, <3>2 DEF StandsFor
  <2> QED
    BY <2>1, <2>2
<1>5. ASSUME NEW m, In(m, toWorker'), m[1] = "Fetch" PROVE StandsFor(m[2], m[3])'
  <2>1. CASE In(m, toWorker)
    BY <1>e, <1>k, <1>5, <2>1
  <2>2. CASE IsProxy(clip) /\ m = <<"Fetch", clip[2], clip[3]>>
    <3>1. m[2] = clip[2] /\ m[3] = clip[3]
      BY <2>2
    <3>2. StandsFor(m[2], m[3]) /\ m[2] \in Nat
      BY <1>d, <2>2, <3>1
    <3> QED
      BY <1>k, <3>2
  <2> QED
    BY <1>5, <2>1, <2>2, WorkerFrom
<1>6. ASSUME NEW m, In(m, c2s'), m[1] = "Request" PROVE StandsFor(m[2], m[3])'
  <2>1. CASE In(m, c2s)
    BY <1>f, <1>k, <1>6, <2>1
  <2>2. CASE \E n : In(n, toWorker) /\ n[1] = "Fetch" /\ m = <<"Request", n[2], n[3], FALSE>>
    <3>1. PICK n : In(n, toWorker) /\ n[1] = "Fetch" /\ m = <<"Request", n[2], n[3], FALSE>>
      BY <2>2
    <3>2. m[2] = n[2] /\ m[3] = n[3]
      BY <3>1
    <3> QED
      BY <1>e, <1>k, <3>1, <3>2
  <2> QED
    BY <1>6, <2>1, <2>2, ToServerFrom
<1>7. \A l \in listed' : StandsFor(l[1], l[2])'
  BY <1>1
<1>8. \A k \in DOMAIN s2c' : s2c'[k][1] = "Offer" => (StandsFor(s2c[k][2], s2c[k][3]))'
  BY <1>2 DEF In, StandsFor
<1>9. \A k \in DOMAIN status' : status'[k][1] = "Offer" => (StandsFor(status[k][2], status[k][3]))'
  BY <1>3 DEF In, StandsFor
<1>10. \A k \in DOMAIN toWorker' :
         toWorker'[k][1] = "Fetch" => (StandsFor(toWorker[k][2], toWorker[k][3]))'
  BY <1>5 DEF In, StandsFor
<1>11. \A k \in DOMAIN c2s' : c2s'[k][1] = "Request" => (StandsFor(c2s[k][2], c2s[k][3]))'
  BY <1>6 DEF In, StandsFor
<1> QED
  BY <1>7, <1>8, <1>4, <1>9, <1>10, <1>11 DEF Serials

-------------------------------------------------------------------------------
(* What the server is told of the client's clipboard. *)

\* Who touches the client's clipboard, its listings and its news.
LEMMA ClipMoves ==
  ASSUME Next
  PROVE  \/ UNCHANGED <<clip, lgen, listing>>
         \/ \E c : Changed(c) /\ UNCHANGED toWorker
         \/ \E l \in listing : LocalListed(l)
  BY DEF Next, Steps, LocalCopy, LocalClear, SetRemoteOffer, ReadLocal, LocalPaste, OnUi,
         OnServerMsg, OnSelection, Listed, OnPaste, OnRemoteOffer, OnRequest, OnCmd, OnReport,
         HandleRequest, RemoteCopy, RemoteClear, RemotePaste, gtk

\* Only the newest listing is of the clipboard.
LEMMA ListingStep ==
  ASSUME Flow, Listing, Next
  PROVE  Listing'
<1>0. lgen \in Nat /\ \A l \in listing : l[1] \in Nat
  BY DEF Flow, ClientFlow
<1>1. CASE UNCHANGED <<clip, lgen, listing>>
  BY <1>1 DEF Listing
<1>2. CASE \E c : Changed(c)
  <2>1. PICK c : Changed(c)
    BY <1>2
  <2>2. clip' = c /\ lgen' = lgen + 1
    BY <2>1 DEF Changed
  <2>3. ASSUME NEW l \in listing', l \notin listing
        PROVE  ~IsProxy(c) /\ l[1] = lgen + 1 /\ l[2] = ItemOf(c)
    BY <2>1, <2>3 DEF Changed
  <2> QED
    BY <1>0, <2>2, <2>3 DEF Listing
<1>3. CASE \E l \in listing : LocalListed(l)
  <2>1. listing' \subseteq listing /\ UNCHANGED <<clip, lgen>>
    BY <1>3 DEF LocalListed
  <2> QED
    BY <2>1 DEF Listing
<1> QED
  BY <1>1, <1>2, <1>3, ClipMoves

\* The worker and the server's bridge pass the news on, the newest last.
LEMMA TellsKept ==
  ASSUME Flow, Next, ~(\E l \in listing : LocalListed(l)), NEW item, TellsOf(item)
  PROVE  TellsOf(item)'
<1>0. toWorker \in Seq(WorkerCmds) /\ c2s \in Seq(ToServer) /\ Flow'
  BY FlowStep DEF Flow, ClientFlow, WireFlow
<1>1. CASE OnUi
  <2>0. PICK cmd : cmd = Head(toWorker)
    OBVIOUS
  <2>1. toWorker # <<>> /\ toWorker' = Tail(toWorker) /\ UNCHANGED remote
    BY <1>1 DEF OnUi, bridge
  <2>2. Newest(toWorker', "LocalOffer", 2, item)
    BY <1>0, <2>1, NewestTail DEF TellsOf
  <2>3. CASE cmd[1] = "LocalOffer"
    <3> DEFINE m == <<"Offer", lserial + 1, cmd[2]>>
    <3>1. c2s' = Append(c2s, m)
      BY <1>1, <2>0, <2>3 DEF OnUi
    <3>2. m[1] = "Offer" /\ m[3] = cmd[2] /\ m \in ToServer
      <4>1. cmd \in WorkerCmds
        BY <1>0, <2>0, <2>1, HeadAndTail
      <4>2. cmd[2] \in Offered("client")
        BY <2>3, <4>1 DEF WorkerCmds
      <4>3. lserial + 1 \in Nat
        BY DEF Flow, WireFlow
      <4> QED
        BY <4>2, <4>3 DEF ToServer, Offers
    <3> HIDE DEF m
    <3>3. ~Has(toWorker', "LocalOffer") => cmd[2] = item
      BY <1>0, <2>0, <2>1, <2>3, NewestTail DEF TellsOf
    <3>4. Has(c2s', "Offer")
      BY <1>0, <3>1, <3>2, HasAppend
    <3>5. ~Has(toWorker', "LocalOffer") => Newest(c2s', "Offer", 3, item)
      BY <1>0, <3>1, <3>2, <3>3, NewestAppend
    <3> QED
      BY <2>2, <3>4, <3>5 DEF TellsOf
  <2>4. CASE cmd[1] = "Fetch"
    <3> DEFINE m == <<"Request", cmd[2], cmd[3], FALSE>>
    <3>1. c2s' = Append(c2s, m)
      BY <1>1, <2>0, <2>4 DEF OnUi
    <3>2. m[1] = "Request" /\ m \in ToServer
      <4>1. cmd \in WorkerCmds
        BY <1>0, <2>0, <2>1, HeadAndTail
      <4> QED
        BY <2>4, <4>1 DEF WorkerCmds, ToServer
    <3> HIDE DEF m
    <3>3. Has(toWorker', "LocalOffer") <=> Has(toWorker, "LocalOffer")
      BY <1>0, <2>0, <2>1, <2>4, HasTail
    <3>4. Has(c2s', "Offer") <=> Has(c2s, "Offer")
      BY <1>0, <3>1, <3>2, HasAppend
    <3>5. Newest(c2s, "Offer", 3, item) => Newest(c2s', "Offer", 3, item)
      BY <1>0, <3>1, <3>2, NewestAppend
    <3> QED
      BY <2>1, <2>2, <3>3, <3>4, <3>5 DEF TellsOf
  <2> QED
    BY <1>1, <2>0, <2>3, <2>4 DEF OnUi
<1>2. CASE OnRemoteOffer \/ OnRequest
  <2>1. c2s # <<>> /\ c2s' = Tail(c2s) /\ UNCHANGED toWorker
    BY <1>2 DEF OnRemoteOffer, OnRequest, gtk
  <2>2. Newest(c2s, "Offer", 3, item) =>
          /\ Newest(c2s', "Offer", 3, item)
          /\ Head(c2s)[1] = "Offer" /\ ~Has(c2s', "Offer") => Head(c2s)[3] = item
    BY <1>0, <2>1, NewestTail
  <2>3. CASE OnRemoteOffer
    <3>1. Head(c2s)[1] = "Offer" /\ remote'[2] = Head(c2s)[3]
      BY <2>3 DEF OnRemoteOffer
    <3> QED
      BY <2>1, <2>2, <3>1 DEF TellsOf
  <2>4. CASE OnRequest
    <3>1. Head(c2s)[1] = "Request" /\ UNCHANGED remote
      BY <2>4 DEF OnRequest, bridge
    <3>2. Has(c2s', "Offer") <=> Has(c2s, "Offer")
      BY <1>0, <2>1, <3>1, HasTail
    <3> QED
      BY <2>1, <2>2, <3>1, <3>2 DEF TellsOf
  <2> QED
    BY <1>2, <2>3, <2>4
<1>3. CASE LocalPaste
  <2> DEFINE m == <<"Fetch", clip[2], clip[3]>>
  <2>1. toWorker' = Append(toWorker, m) /\ UNCHANGED <<c2s, remote>>
    BY <1>3 DEF LocalPaste, wire, bridge
  <2>2. m[1] = "Fetch" /\ m \in WorkerCmds
    <3>1. clip[2] \in Nat /\ clip[3] \in Made("server")
      BY <1>3, ContentIs DEF LocalPaste, Flow, ClientFlow
    <3> QED
      BY <3>1 DEF WorkerCmds
  <2> HIDE DEF m
  <2>3. Has(toWorker', "LocalOffer") <=> Has(toWorker, "LocalOffer")
    BY <1>0, <2>1, <2>2, HasAppend
  <2>4. Newest(toWorker', "LocalOffer", 2, item)
    BY <1>0, <2>1, <2>2, NewestAppend DEF TellsOf
  <2> QED
    BY <2>1, <2>3, <2>4 DEF TellsOf
<1>4. CASE UNCHANGED <<toWorker, c2s, remote>>
  BY <1>4 DEF TellsOf
<1>5. OnUi \/ OnRemoteOffer \/ OnRequest \/ LocalPaste \/ UNCHANGED <<toWorker, c2s, remote>>
  BY DEF Next, Steps, LocalCopy, LocalClear, SetRemoteOffer, ReadLocal, OnServerMsg,
         OnSelection, Listed, OnPaste, OnCmd, OnReport, HandleRequest, RemoteCopy, RemoteClear,
         RemotePaste, gtk, wire, bridge
<1> QED
  BY <1>1, <1>2, <1>3, <1>4, <1>5

\* The newest news of the client's clipboard is of what it holds.
LEMMA ToldStep ==
  ASSUME Flow, Listing, Told, Next
  PROVE  Told'
<1>0. toWorker \in Seq(WorkerCmds)
  BY DEF Flow, ClientFlow
<1>t. Told <=> (~IsProxy(clip) /\ ~Unlisted => TellsOf(ItemOf(clip)))
  BY DEF Told, TellsOf
<1>n. SUFFICES ASSUME ~IsProxy(clip'), ~Unlisted' PROVE TellsOf(ItemOf(clip))'
  BY DEF Told, TellsOf
<1>x. PICK x : x = ItemOf(clip')
  OBVIOUS
<1>s. SUFFICES TellsOf(x)'
  BY <1>x DEF TellsOf
<1>1. ASSUME NEW l \in listing, LocalListed(l) PROVE TellsOf(x)'
  <2>1. listing' = listing \ {l} /\ UNCHANGED <<clip, lgen, c2s, remote>>
    BY <1>1 DEF LocalListed, wire, bridge
  <2>2. CASE l[1] = lgen
    <3> DEFINE m == <<"LocalOffer", l[2]>>
    <3>1. toWorker' = Append(toWorker, m)
      BY <1>1, <2>2 DEF LocalListed
    <3>2. l[2] = x
      BY <2>1, <2>2, <1>x DEF Listing
    <3>3. m \in WorkerCmds /\ m[1] = "LocalOffer" /\ m[2] = x
      BY <3>2 DEF WorkerCmds, Flow, ClientFlow
    <3> HIDE DEF m
    <3>4. Has(toWorker', "LocalOffer") /\ Newest(toWorker', "LocalOffer", 2, x)
      BY <1>0, <3>1, <3>3, HasAppend, NewestAppend
    <3> QED
      BY <3>4 DEF TellsOf
  <2>3. CASE l[1] # lgen
    <3>1. toWorker' = toWorker
      BY <1>1, <2>3 DEF LocalListed
    <3>2. ~Unlisted
      BY <1>n, <2>1, <2>3 DEF Unlisted
    <3>3. TellsOf(x)
      BY <1>n, <1>t, <1>x, <2>1, <3>2
    <3> QED
      BY <2>1, <3>1, <3>3 DEF TellsOf
  <2> QED
    BY <2>2, <2>3
<1>2. CASE \E c : Changed(c)
  <2>1. PICK c : Changed(c)
    BY <1>2
  <2>2. clip' = c /\ lgen' = lgen + 1 /\ <<lgen + 1, ItemOf(c)>> \in listing'
    BY <1>n, <2>1 DEF Changed
  <2> QED
    BY <1>n, <2>2 DEF Unlisted
<1>3. CASE UNCHANGED <<clip, lgen, listing>>
  <2>1. TellsOf(x)
    BY <1>n, <1>t, <1>x, <1>3 DEF Unlisted
  <2> QED
    BY <1>1, <2>1, TellsKept
<1> QED
  BY <1>1, <1>2, <1>3, ClipMoves

\* The newest offer carries the newest serial.
LEMMA NewestSerialStep ==
  ASSUME Flow, NewestSerial, Next
  PROVE  NewestSerial'
<1>0. toWorker \in Seq(WorkerCmds) /\ c2s \in Seq(ToServer) /\ lserial \in Nat
  BY DEF Flow, ClientFlow, WireFlow
<1>x. PICK x : x = lserial'
  OBVIOUS
<1>1. CASE OnUi
  <2>1. CASE Head(toWorker)[1] = "LocalOffer"
    <3> DEFINE m == <<"Offer", lserial + 1, Head(toWorker)[2]>>
    <3>1. c2s' = Append(c2s, m) /\ lserial' = lserial + 1
      BY <1>1, <2>1 DEF OnUi
    <3>2. m[1] = "Offer" /\ m[2] = x
      BY <1>x, <3>1
    <3> HIDE DEF m
    <3>3. Newest(c2s', "Offer", 2, x) /\ Has(c2s', "Offer")
      BY <1>0, <3>1, <3>2, NewestAppend, HasAppend
    <3> QED
      BY <1>x, <3>3 DEF NewestSerial
  <2>2. CASE Head(toWorker)[1] = "Fetch"
    <3> DEFINE m == <<"Request", Head(toWorker)[2], Head(toWorker)[3], FALSE>>
    <3>1. c2s' = Append(c2s, m) /\ UNCHANGED <<lserial, remote>>
      BY <1>1, <2>2 DEF OnUi, bridge
    <3>2. m[1] = "Request"
      OBVIOUS
    <3> HIDE DEF m
    <3>3. Newest(c2s, "Offer", 2, x)
      BY <1>x, <3>1 DEF NewestSerial
    <3>4. Newest(c2s', "Offer", 2, x) /\ (Has(c2s', "Offer") <=> Has(c2s, "Offer"))
      BY <1>0, <3>1, <3>2, <3>3, NewestAppend, HasAppend
    <3> QED
      BY <1>x, <3>1, <3>4 DEF NewestSerial
  <2> QED
    BY <1>1, <2>1, <2>2 DEF OnUi
<1>2. CASE OnRemoteOffer \/ OnRequest
  <2>1. c2s # <<>> /\ c2s' = Tail(c2s) /\ UNCHANGED lserial
    BY <1>2 DEF OnRemoteOffer, OnRequest
  <2>2. /\ Newest(c2s', "Offer", 2, x)
        /\ Head(c2s)[1] = "Offer" /\ ~Has(c2s', "Offer") => Head(c2s)[2] = x
    BY <1>0, <1>x, <2>1, NewestTail DEF NewestSerial
  <2>3. CASE OnRemoteOffer
    BY <1>x, <2>1, <2>2, <2>3 DEF OnRemoteOffer, NewestSerial
  <2>4. CASE OnRequest
    <3>1. Head(c2s)[1] = "Request" /\ UNCHANGED remote
      BY <2>4 DEF OnRequest, bridge
    <3>2. Has(c2s', "Offer") <=> Has(c2s, "Offer")
      BY <1>0, <2>1, <3>1, HasTail
    <3> QED
      BY <1>x, <2>1, <2>2, <3>1, <3>2 DEF NewestSerial
  <2> QED
    BY <1>2, <2>3, <2>4
<1>3. CASE UNCHANGED <<c2s, lserial, remote>>
  BY <1>3 DEF NewestSerial
<1> QED
  BY <1>1, <1>2, <1>3, OfferMoves

\* Who touches the server's offers.
LEMMA LatestMoves ==
  ASSUME Next
  PROVE  \/ UNCHANGED <<listed, gen, s2c, status, clip>>
         \/ (LocalCopy \/ LocalClear) /\ UNCHANGED <<listed, gen, s2c, status>>
         \/ SetRemoteOffer /\ UNCHANGED <<listed, gen, s2c>>
         \/ (ReadLocal \/ OnServerMsg) /\ UNCHANGED <<listed, gen, clip>>
         \/ OnSelection
         \/ \E l \in listed : Listed(l) /\ UNCHANGED <<gen, status, clip>>
         \/ OnPaste /\ UNCHANGED <<listed, gen, status, clip>>
  BY DEF Next, Steps, LocalCopy, LocalClear, LocalListed, SetRemoteOffer, ReadLocal, LocalPaste,
         OnUi, OnServerMsg, Listed, OnPaste, OnRemoteOffer, OnRequest, OnCmd, OnReport,
         HandleRequest, RemoteCopy, RemoteClear, RemotePaste, gtk, wire, bridge

\* The newest of the server's offers is the newest selection's.
LEMMA LatestStep ==
  ASSUME Flow, Latest, Next
  PROVE  Latest'
<1>0. s2c \in Seq(ToClient) /\ status \in Seq(StatusMsgs) /\ gen \in Nat
  BY DEF Flow, ClientFlow, WireFlow, BridgeFlow
<1>1. CASE UNCHANGED <<listed, gen, s2c, status, clip>>
  BY <1>1 DEF Latest, Offering
<1>2. CASE (LocalCopy \/ LocalClear) /\ UNCHANGED <<listed, gen, s2c, status>>
  <2>1. ~IsProxy(clip')
    BY <1>2, Shapes DEF LocalCopy, LocalClear, Changed
  <2> QED
    BY <1>2, <2>1 DEF Latest, Offering
<1>3. CASE SetRemoteOffer /\ UNCHANGED <<listed, gen, s2c>>
  <2> SUFFICES ASSUME ~Offering PROVE Latest'
    BY <1>3 DEF Latest, Offering
  <2>1. status # <<>> /\ Head(status)[1] = "Offer" /\ status' = Tail(status)
    BY <1>3 DEF SetRemoteOffer
  <2>2. Newest(s2c, "Offer", 2, gen)
    BY DEF Latest
  <2>3. ASSUME ~Has(s2c, "Offer")
        PROVE  /\ Newest(status', "Offer", 2, gen)
               /\ ~Has(status', "Offer") => Head(status)[2] = gen
    <3>1. Newest(status, "Offer", 2, gen)
      BY <2>3 DEF Latest
    <3> QED
      BY <1>0, <2>1, <3>1, NewestTail
  <2>4. IsProxy(clip') => clip'[2] = Head(status)[2]
    BY <1>3, Shapes DEF SetRemoteOffer, Changed
  <2> QED
    BY <1>3, <2>2, <2>3, <2>4 DEF Latest
<1>4. CASE (ReadLocal \/ OnServerMsg) /\ UNCHANGED <<listed, gen, clip>>
  <2> SUFFICES ASSUME ~Offering PROVE Latest'
    BY <1>4 DEF Latest, Offering
  <2>g. PICK g : g = gen
    OBVIOUS
  <2>0. /\ Newest(s2c, "Offer", 2, g)
        /\ ~Has(s2c, "Offer") => Newest(status, "Offer", 2, g)
        /\ ~Has(s2c, "Offer") /\ ~Has(status, "Offer") /\ IsProxy(clip) => clip[2] = g
    BY <2>g DEF Latest
  <2>s. SUFFICES /\ Newest(s2c', "Offer", 2, g)
                 /\ ~Has(s2c', "Offer") => Newest(status', "Offer", 2, g)
                 /\ ~Has(s2c', "Offer") /\ ~Has(status', "Offer") /\ IsProxy(clip) => clip[2] = g
    BY <1>4, <2>g DEF Latest
  <2>1. CASE ReadLocal
    <3>1. status # <<>> /\ Head(status)[1] = "Read" /\ status' = Tail(status) /\ UNCHANGED s2c
      BY <2>1 DEF ReadLocal, wire
    <3>2. Has(status', "Offer") <=> Has(status, "Offer")
      BY <1>0, <3>1, HasTail
    <3>3. Newest(status, "Offer", 2, g) => Newest(status', "Offer", 2, g)
      BY <1>0, <3>1, NewestTail
    <3> QED
      BY <2>0, <3>1, <3>2, <3>3
  <2>2. CASE OnServerMsg
    <3>0. PICK m : m = Head(s2c)
      OBVIOUS
    <3>1. s2c # <<>> /\ s2c' = Tail(s2c)
      BY <2>2 DEF OnServerMsg
    <3>2. /\ Newest(s2c', "Offer", 2, g)
          /\ m[1] = "Offer" /\ ~Has(s2c', "Offer") => m[2] = g
      BY <1>0, <2>0, <3>0, <3>1, NewestTail
    <3>3. CASE m[1] = "Offer"
      <4>1. status' = Append(status, m)
        BY <2>2, <3>0, <3>3 DEF OnServerMsg
      <4>2. Has(status', "Offer") /\ (m[2] = g => Newest(status', "Offer", 2, g))
        BY <1>0, <3>3, <4>1, HasAppend, NewestAppend
      <4> QED
        BY <3>2, <3>3, <4>2
    <3>4. CASE m[1] = "Request"
      <4>1. Has(s2c', "Offer") <=> Has(s2c, "Offer")
        BY <1>0, <3>0, <3>1, <3>4, HasTail
      <4>2. status' = status \/ \E n : n[1] = "Read" /\ status' = Append(status, n)
        <5> DEFINE n == <<"Read", m[3], m[4], lserial>>
        <5>1. n[1] = "Read"
          OBVIOUS
        <5>2. status' = status \/ status' = Append(status, n)
          BY <2>2, <3>0, <3>4 DEF OnServerMsg
        <5> HIDE DEF n
        <5> QED
          BY <5>1, <5>2
      <4>3. /\ Has(status', "Offer") <=> Has(status, "Offer")
            /\ Newest(status, "Offer", 2, g) => Newest(status', "Offer", 2, g)
        BY <1>0, <4>2, HasAppend, NewestAppend
      <4> QED
        BY <2>0, <3>2, <4>1, <4>3
    <3> QED
      BY <2>2, <3>0, <3>3, <3>4 DEF OnServerMsg
  <2> QED
    BY <1>4, <2>1, <2>2
<1>5. CASE OnSelection
  <2>1. gen' = gen + 1 /\ <<gen + 1, Head(events)[2]>> \in listed'
    BY <1>5 DEF OnSelection
  <2>2. <<gen + 1, Head(events)[2]>>[1] = gen + 1
    OBVIOUS
  <2>3. Offering'
    BY <2>1, <2>2 DEF Offering
  <2> QED
    BY <2>3 DEF Latest
<1>6. ASSUME NEW l \in listed, Listed(l), UNCHANGED <<gen, status, clip>> PROVE Latest'
  <2>g. PICK g : g = gen
    OBVIOUS
  <2>1. listed' = listed \ {l}
    BY <1>6 DEF Listed
  <2>2. CASE l[1] = gen
    <3> DEFINE m == <<"Offer", l[1], l[2]>>
    <3>1. s2c' = Append(s2c, m)
      BY <1>6, <2>2 DEF Listed
    <3>2. m[1] = "Offer" /\ m[2] = g
      BY <2>2, <2>g
    <3> HIDE DEF m
    <3>3. Has(s2c', "Offer") /\ Newest(s2c', "Offer", 2, g)
      BY <1>0, <3>1, <3>2, HasAppend, NewestAppend
    <3> QED
      BY <1>6, <2>g, <3>3 DEF Latest
  <2>3. CASE l[1] # gen
    <3>1. s2c' = s2c
      BY <1>6, <2>3 DEF Listed
    <3> QED
      BY <1>6, <2>1, <2>3, <3>1 DEF Latest, Offering
  <2> QED
    BY <2>2, <2>3
<1>7. CASE OnPaste /\ UNCHANGED <<listed, gen, status, clip>>
  <2>g. PICK g : g = gen
    OBVIOUS
  <2> DEFINE m == <<"Request", remote[1], Head(events)[2], remote[2] # Head(events)[2]>>
  <2>1. s2c' = Append(s2c, m)
    BY <1>7 DEF OnPaste
  <2>2. m[1] = "Request"
    OBVIOUS
  <2> HIDE DEF m
  <2>3. /\ Has(s2c', "Offer") <=> Has(s2c, "Offer")
        /\ Newest(s2c, "Offer", 2, g) => Newest(s2c', "Offer", 2, g)
    BY <1>0, <2>1, <2>2, HasAppend, NewestAppend
  <2> QED
    BY <1>7, <2>g, <2>3 DEF Latest, Offering
<1> QED
  BY <1>1, <1>2, <1>3, <1>4, <1>5, <1>6, <1>7, LatestMoves

-------------------------------------------------------------------------------
(* The thread and its compositor. *)

\* A change of the compositor's selection, message by message.
LEMMA SelectedKeeps ==
  ASSUME Flow, NEW c, Selected(c), NEW kind, NEW x
  PROVE  /\ selection' = c
         /\ kind \notin {"Cancelled", "Selection"} =>
              /\ Has(reports', kind) <=> Has(reports, kind)
         /\ c = selection /\ Newest(reports, "Selection", 2, x) =>
              Newest(reports', "Selection", 2, x)
         /\ c = selection => (Has(reports', "Selection") <=> Has(reports, "Selection"))
         /\ c # selection => Has(reports', "Selection") /\ Newest(reports', "Selection", 2, c)
         /\ \A m : In(m, reports) => In(m, reports')
         /\ \A m : m[1] = "Cancelled" /\ In(m, reports') =>
              In(m, reports) \/ (IsProxy(selection) /\ m[2] = selection[2])
<1>0. reports \in Seq(Reports)
  BY DEF Flow, CompositorFlow
<1> DEFINE cancel == <<"Cancelled", selection[2]>>
           news == <<"Selection", c>>
<1>1. PICK mid \in Seq(Reports) :
        /\ IF IsProxy(selection) THEN mid = Append(reports, cancel) ELSE mid = reports
        /\ IF c = selection THEN reports' = mid ELSE reports' = Append(mid, news)
  BY SelectedReports
<1>2. cancel[1] = "Cancelled" /\ cancel[2] = selection[2] /\ news[1] = "Selection" /\ news[2] = c
  OBVIOUS
<1>3. selection' = c
  BY DEF Selected
<1> HIDE DEF cancel, news
<1>4. /\ kind # "Cancelled" => (Has(mid, kind) <=> Has(reports, kind))
      /\ Has(mid, "Selection") <=> Has(reports, "Selection")
      /\ Newest(reports, "Selection", 2, x) => Newest(mid, "Selection", 2, x)
      /\ \A m : In(m, reports) => In(m, mid)
      /\ \A m : In(m, mid) => In(m, reports) \/ (IsProxy(selection) /\ m = cancel)
  <2>1. CASE mid = reports
    BY <2>1
  <2>2. CASE IsProxy(selection) /\ mid = Append(reports, cancel)
    BY <1>0, <1>2, <2>2, HasAppend, NewestAppend, InAppend, InAppendNew
  <2> QED
    BY <1>1, <2>1, <2>2
<1>5. CASE c = selection
  BY <1>1, <1>2, <1>3, <1>4, <1>5
<1>6. CASE c # selection
  <2>1. reports' = Append(mid, news)
    BY <1>1, <1>6
  <2>2. /\ kind # "Selection" => (Has(reports', kind) <=> Has(mid, kind))
        /\ Has(reports', "Selection") /\ Newest(reports', "Selection", 2, c)
        /\ \A m : In(m, mid) => In(m, reports')
        /\ \A m : In(m, reports') => In(m, mid) \/ m = news
    BY <1>2, <2>1, HasAppend, NewestAppend, InAppend, InAppendNew
  <2> QED
    BY <1>2, <1>3, <1>4, <1>6, <2>2
<1> QED
  BY <1>5, <1>6

\* Who touches the compositor's selection and its reports.
LEMMA TrackMoves ==
  ASSUME Next
  PROVE  \/ UNCHANGED <<reports, selection, current>>
         \/ OnReport /\ UNCHANGED selection
         \/ (\E c : Selected(c)) /\ UNCHANGED current
         \/ \E m : /\ reports' = Append(reports, m) /\ UNCHANGED <<selection, current>>
                   /\ m[1] \in {"Done", "Send"}
<1>1. CASE HandleRequest
  <2>1. UNCHANGED current
    BY <1>1 DEF HandleRequest, thread
  <2>2. CASE Head(requests)[1] = "Set"
    BY <1>1, <2>1, <2>2 DEF HandleRequest
  <2>3. CASE Head(requests)[1] = "Sync"
    <3> DEFINE m == <<"Done", Head(requests)[2]>>
    <3>1. reports' = Append(reports, m) /\ UNCHANGED selection
      BY <1>1, <2>3 DEF HandleRequest
    <3>2. m[1] = "Done"
      OBVIOUS
    <3> HIDE DEF m
    <3> QED
      BY <2>1, <3>1, <3>2
  <2> QED
    BY <1>1, <2>2, <2>3 DEF HandleRequest
<1>2. CASE RemotePaste
  <2> DEFINE m == <<"Send", selection[2], selection[3]>>
  <2>1. reports' = Append(reports, m) /\ UNCHANGED <<selection, current>>
    BY <1>2 DEF RemotePaste, thread
  <2>2. m[1] = "Send"
    OBVIOUS
  <2> HIDE DEF m
  <2> QED
    BY <2>1, <2>2
<1>3. CASE RemoteCopy \/ RemoteClear
  <2>1. (\E c : Selected(c)) /\ UNCHANGED current
    BY <1>3 DEF RemoteCopy, RemoteClear, thread
  <2> QED
    BY <2>1
<1>4. CASE OnReport
  BY <1>4 DEF OnReport
<1> QED
  BY <1>1, <1>2, <1>3, <1>4
     DEF Next, Steps, LocalCopy, LocalClear, LocalListed, SetRemoteOffer, ReadLocal, LocalPaste,
         OnUi, OnServerMsg, OnSelection, Listed, OnPaste, OnRemoteOffer, OnRequest, OnCmd,
         compositor, thread

\* The newest report is the compositor's selection.
LEMMA TracksStep ==
  ASSUME Flow, Tracks, Next
  PROVE  Tracks'
<1>0. reports \in Seq(Reports)
  BY DEF Flow, CompositorFlow
<1>x. PICK x : x = selection'
  OBVIOUS
<1>1. CASE UNCHANGED <<reports, selection, current>>
  BY <1>1 DEF Tracks
<1>2. CASE OnReport /\ UNCHANGED selection
  <2>1. reports # <<>> /\ reports' = Tail(reports)
    BY <1>2 DEF OnReport
  <2>2. /\ Newest(reports', "Selection", 2, x)
        /\ Head(reports)[1] = "Selection" /\ ~Has(reports', "Selection") => Head(reports)[2] = x
    BY <1>0, <1>x, <1>2, <2>1, NewestTail DEF Tracks
  <2>3. Has(reports, "Selection") <=> Has(reports', "Selection") \/ Head(reports)[1] = "Selection"
    BY <1>0, <2>1, HasTail
  <2>4. IF Head(reports)[1] = "Selection" THEN current' = Head(reports)[2] ELSE current' = current
    BY <1>2 DEF OnReport
  <2> QED
    BY <1>x, <1>2, <2>2, <2>3, <2>4 DEF Tracks
<1>3. CASE (\E c : Selected(c)) /\ UNCHANGED current
  <2>1. PICK c : Selected(c)
    BY <1>3
  <2>2. c = x
    BY <1>x, <2>1 DEF Selected
  <2>3. CASE c = selection
    <3>1. /\ Newest(reports', "Selection", 2, x)
          /\ Has(reports', "Selection") <=> Has(reports, "Selection")
      BY <2>1, <2>2, <2>3, SelectedKeeps DEF Tracks
    <3> QED
      BY <1>x, <1>3, <2>2, <2>3, <3>1 DEF Tracks
  <2>4. CASE c # selection
    <3>1. Has(reports', "Selection") /\ Newest(reports', "Selection", 2, c)
      BY <2>1, <2>4, SelectedKeeps
    <3> QED
      BY <1>x, <2>2, <3>1 DEF Tracks
  <2> QED
    BY <2>3, <2>4
<1>4. CASE \E m : /\ reports' = Append(reports, m) /\ UNCHANGED <<selection, current>>
                  /\ m[1] \in {"Done", "Send"}
  <2>1. PICK m : /\ reports' = Append(reports, m) /\ UNCHANGED <<selection, current>>
                 /\ m[1] \in {"Done", "Send"}
    BY <1>4
  <2>2. /\ Newest(reports', "Selection", 2, x)
        /\ Has(reports', "Selection") <=> Has(reports, "Selection")
    BY <1>0, <1>x, <2>1, NewestAppend, HasAppend DEF Tracks
  <2> QED
    BY <1>x, <2>1, <2>2 DEF Tracks
<1> QED
  BY <1>1, <1>2, <1>3, <1>4, TrackMoves

\* A pending echo has its sync's answer before it.
LEMMA WithdrawalsStep ==
  ASSUME Flow, Withdrawals, Next
  PROVE  Withdrawals'
<1>0. /\ reports \in Seq(Reports) /\ requests \in Seq(Requests)
      /\ withdrawn \in Nat /\ settled \in Nat
  BY DEF Flow, CompositorFlow, ThreadFlow
<1>w. PICK w : w = withdrawn'
  OBVIOUS
<1>p. SUFFICES ASSUME PendingEcho' PROVE In(<<"Sync", w>>, requests') \/ In(<<"Done", w>>, reports')
  BY <1>w DEF Withdrawals, In
<1>a. PICK sync, done : sync = <<"Sync", w>> /\ done = <<"Done", w>>
  OBVIOUS
<1>s. SUFFICES In(sync, requests') \/ In(done, reports')
  BY <1>a
<1>b. PendingEcho /\ UNCHANGED withdrawn => In(sync, requests) \/ In(done, reports)
  BY <1>a, <1>w DEF Withdrawals
<1>1. CASE OnCmd
  <2>1. CASE Head(cmds) = 0 /\ source # 0
    <3>1. withdrawn' = withdrawn + 1
          /\ requests' = requests \o <<<<"Set", Empty>>, <<"Sync", withdrawn + 1>>>>
      BY <1>1, <2>1 DEF OnCmd
    <3>2. requests' = requests \o <<<<"Set", Empty>>, sync>>
      BY <1>a, <1>w, <3>1
    <3>3. requests' = Append(Append(requests, <<"Set", Empty>>), sync)
      <4>1. \A m, n : requests \o <<m, n>> = Append(Append(requests, m), n)
        BY <1>0
      <4> QED
        BY <3>2, <4>1
    <3>4. Append(requests, <<"Set", Empty>>) \in Seq(Requests)
      BY <1>0 DEF Requests
    <3> QED
      BY <3>3, <3>4, InAppendNew
  <2>2. CASE ~(Head(cmds) = 0 /\ source # 0)
    <3>1. UNCHANGED <<withdrawn, settled, reports>>
      BY <1>1, <2>2 DEF OnCmd
    <3>2. requests' = requests \/ \E n : requests' = Append(requests, n)
      BY <1>1, <2>2 DEF OnCmd
    <3>3. PendingEcho
      BY <1>p, <3>1 DEF PendingEcho
    <3> QED
      BY <1>0, <1>b, <3>1, <3>2, <3>3, InAppendNew
  <2> QED
    BY <2>1, <2>2
<1>2. CASE OnReport
  <2>0. PICK ev \in Reports : ev = Head(reports)
    BY <1>0, <1>2, HeadAndTail DEF OnReport
  <2>1. reports # <<>> /\ reports' = Tail(reports) /\ UNCHANGED <<withdrawn, requests>>
    BY <1>2 DEF OnReport
  <2>2. settled' \in Nat /\ settled <= settled' /\ (ev[1] = "Done" => ev[2] <= settled')
    <3>1. CASE ev[1] = "Done"
      <4>1. ev[2] \in Nat
        BY <2>0, <3>1 DEF Reports
      <4>2. settled' = IF ev[2] > settled THEN ev[2] ELSE settled
        BY <1>2, <2>0, <3>1 DEF OnReport, Settle
      <4> QED
        BY <1>0, <4>1, <4>2
    <3>2. CASE ev[1] # "Done"
      <4>1. settled' \in {settled, settled + 1}
        BY <1>2, <2>0, <3>2 DEF OnReport
      <4> QED
        BY <1>0, <3>2, <4>1
    <3> QED
      BY <3>1, <3>2
  <2>3. PendingEcho
    BY <1>0, <1>p, <2>1, <2>2 DEF PendingEcho
  <2>4. done # ev
    BY <1>0, <1>a, <1>p, <1>w, <2>1, <2>2 DEF PendingEcho
  <2> QED
    BY <1>0, <1>b, <2>0, <2>1, <2>3, <2>4, InTailOther
<1>3. CASE HandleRequest
  <2>1. requests # <<>> /\ requests' = Tail(requests) /\ UNCHANGED <<withdrawn, settled>>
    BY <1>3 DEF HandleRequest, thread
  <2>2. PendingEcho
    BY <1>p, <2>1 DEF PendingEcho
  <2>3. CASE Head(requests)[1] = "Set"
    <3>1. sync # Head(requests)
      BY <1>a, <2>3
    <3>2. \A m : In(m, reports) => In(m, reports')
      BY <1>3, <2>3, SelectedKeeps DEF HandleRequest
    <3> QED
      BY <1>0, <1>b, <2>1, <2>2, <3>1, <3>2, InTailOther
  <2>4. CASE Head(requests)[1] = "Sync"
    <3>1. PICK n : n = <<"Done", Head(requests)[2]>>
      OBVIOUS
    <3>2. reports' = Append(reports, n)
      BY <1>3, <2>4, <3>1 DEF HandleRequest
    <3>3. sync = Head(requests) => n = done
      BY <1>a, <3>1
    <3>4. In(n, reports') /\ \A m : In(m, reports) => In(m, reports')
      BY <1>0, <3>2, InAppendNew
    <3> QED
      BY <1>0, <1>b, <2>1, <2>2, <3>3, <3>4, InTailOther
  <2> QED
    BY <1>3, <2>3, <2>4 DEF HandleRequest
<1>4. CASE RemoteCopy \/ RemoteClear \/ RemotePaste
  <2>1. UNCHANGED <<withdrawn, settled, requests>>
    BY <1>4 DEF RemoteCopy, RemoteClear, RemotePaste, thread
  <2>2. (\E c : Selected(c)) \/ (\E n : reports' = Append(reports, n))
    BY <1>4 DEF RemoteCopy, RemoteClear, RemotePaste
  <2>3. \A m : In(m, reports) => In(m, reports')
    BY <1>0, <2>2, SelectedKeeps, InAppendNew
  <2>4. PendingEcho
    BY <1>p, <2>1 DEF PendingEcho
  <2> QED
    BY <1>b, <2>1, <2>3, <2>4
<1>5. CASE UNCHANGED <<reports, requests, withdrawn, settled>>
  BY <1>b, <1>p, <1>5 DEF PendingEcho
<1> QED
  BY <1>1, <1>2, <1>3, <1>4, <1>5
     DEF Next, Steps, LocalCopy, LocalClear, LocalListed, SetRemoteOffer, ReadLocal, LocalPaste,
         OnUi, OnServerMsg, OnSelection, Listed, OnPaste, OnRemoteOffer, OnRequest,
         compositor, thread

-------------------------------------------------------------------------------
(* Our own selections. *)

\* What the requests are made of.
LEMMA RequestFields ==
  ASSUME Flow
  PROVE  /\ \A k \in DOMAIN requests : Sets(k) =>
              requests[k][2][2] \in Nat /\ requests[k][2] \in Contents("server", "client")
         /\ IsProxy(selection) => selection[2] \in Nat /\ ItemOf(selection) = selection[3]
         /\ sources \in Nat /\ source \in Nat
         /\ \A k \in DOMAIN reports : reports[k][1] = "Cancelled" => reports[k][2] \in Nat
<1>1. \A c \in Proxies("client") : c \in Contents("server", "client") /\ c[2] \in Nat
  BY DEF Proxies, Contents
<1>2. \A m \in Requests : m[1] = "Set" => m[2] = Empty \/ m[2] \in Proxies("client")
  BY DEF Requests
<1>3. \A m \in Reports : m[1] = "Cancelled" => m[2] \in Nat
  BY DEF Reports
<1>4. \A k \in DOMAIN requests : requests[k] \in Requests
  BY DEF Flow, CompositorFlow
<1>5. \A k \in DOMAIN reports : reports[k] \in Reports
  BY DEF Flow, CompositorFlow
<1>6. \A s, i : ItemOf(Proxy(s, i)) = i
  BY DEF ItemOf, Proxy, Empty
<1>7. IsProxy(selection) => selection[2] \in Nat /\ ItemOf(selection) = selection[3]
  BY <1>6, ContentIs DEF Flow, CompositorFlow
<1> QED
  BY <1>1, <1>2, <1>3, <1>4, <1>5, <1>7, Shapes DEF Sets, Flow, ThreadFlow

\* Who touches the requests and the sources.
LEMMA SourceMoves ==
  ASSUME Next
  PROVE  \/ UNCHANGED <<selection, requests, reports, source, sources>>
         \/ OnCmd /\ UNCHANGED <<selection, reports>>
         \/ OnReport /\ UNCHANGED <<selection, requests, sources>>
         \/ HandleRequest /\ UNCHANGED <<source, sources>>
         \/ (RemoteCopy \/ RemoteClear \/ RemotePaste) /\ UNCHANGED <<requests, source, sources>>
  BY DEF Next, Steps, LocalCopy, LocalClear, LocalListed, SetRemoteOffer, ReadLocal, LocalPaste,
         OnUi, OnServerMsg, OnSelection, Listed, OnPaste, OnRemoteOffer, OnRequest, OnCmd,
         OnReport, HandleRequest, RemoteCopy, RemoteClear, RemotePaste, compositor, thread

\* The sources cancelled so far, while requests may go but not come.
LEMMA CancelledKept ==
  ASSUME Flow, SourceOrder, Next, UNCHANGED sources, NEW m, m[1] = "Cancelled", In(m, reports')
  PROVE  m[2] <= sources
<1>0. reports \in Seq(Reports)
  BY DEF Flow, CompositorFlow
<1>1. In(m, reports) => m[2] <= sources
  BY DEF SourceOrder, In
<1>2. IsProxy(selection) => selection[2] <= sources
  BY DEF SourceOrder
<1>3. CASE UNCHANGED <<reports, selection, current>>
  BY <1>1, <1>3
<1>4. CASE OnReport
  BY <1>0, <1>1, <1>4, InTail DEF OnReport
<1>5. CASE \E c : Selected(c)
  BY <1>1, <1>2, <1>5, SelectedKeeps
<1>6. CASE \E n : reports' = Append(reports, n) /\ n[1] \in {"Done", "Send"}
  BY <1>0, <1>1, <1>6, InAppend
<1> QED
  BY <1>3, <1>4, <1>5, <1>6, TrackMoves

\* Our sources are set in the order of their numbers.
LEMMA SourceOrderStep ==
  ASSUME Flow, SourceOrder, Next
  PROVE  SourceOrder'
<1>0. requests \in Seq(Requests) /\ reports \in Seq(Reports) /\ sources \in Nat
  BY DEF Flow, CompositorFlow, ThreadFlow
<1>f. \A k \in DOMAIN requests : Sets(k) => requests[k][2][2] \in Nat
  BY RequestFields
<1>g. IsProxy(selection) => selection[2] \in Nat
  BY RequestFields
<1>c. UNCHANGED sources =>
        \A k \in DOMAIN reports' : reports'[k][1] = "Cancelled" => reports'[k][2] <= sources'
  BY CancelledKept DEF In
<1>1. CASE UNCHANGED <<selection, requests, sources>>
  BY <1>1, <1>c DEF SourceOrder, Sets
<1>2. CASE OnCmd /\ UNCHANGED <<selection, reports>>
  <2>1. CASE Head(cmds) # 0
    <3> DEFINE m == <<"Set", Proxy(sources + 1, Head(cmds))>>
    <3>1. requests' = Append(requests, m) /\ sources' = sources + 1
      BY <1>2, <2>1 DEF OnCmd
    <3>2. m[1] = "Set" /\ IsProxy(m[2]) /\ m[2][2] = sources + 1
      BY Shapes
    <3> HIDE DEF m
    <3>3. \A k \in DOMAIN requests' : (k \in DOMAIN requests /\ requests'[k] = requests[k])
                                      \/ (k = Len(requests) + 1 /\ requests'[k] = m)
      BY <1>0, <3>1, AtAppend
    <3>4. \A k \in DOMAIN requests : k \in Nat /\ k < Len(requests) + 1
      BY <1>0
    <3>5. IsProxy(selection') => 0 < selection'[2] /\ selection'[2] <= sources'
      BY <1>0, <1>2, <1>g, <3>1 DEF SourceOrder
    <3>6. \A k \in DOMAIN reports' : reports'[k][1] = "Cancelled" => reports'[k][2] <= sources'
      BY <1>0, <1>2, <3>1, RequestFields DEF SourceOrder
    <3>7. ASSUME NEW k \in DOMAIN requests', Sets(k)'
          PROVE  /\ 0 < requests'[k][2][2] /\ requests'[k][2][2] <= sources'
                 /\ IsProxy(selection') => selection'[2] < requests'[k][2][2]
                 /\ \A j \in DOMAIN requests' :
                      j < k /\ Sets(j)' => requests'[j][2][2] < requests'[k][2][2]
      <4>1. CASE k \in DOMAIN requests /\ requests'[k] = requests[k]
        <5>1. Sets(k)
          BY <3>7, <4>1 DEF Sets
        <5>2. \A j \in DOMAIN requests' :
                j < k => j \in DOMAIN requests /\ requests'[j] = requests[j]
          BY <3>3, <3>4, <4>1
        <5>3. \A j \in DOMAIN requests' : j < k /\ Sets(j)' => Sets(j)
          BY <5>2 DEF Sets
        <5> QED
          BY <1>0, <1>2, <1>f, <3>1, <4>1, <5>1, <5>2, <5>3 DEF SourceOrder
      <4>2. CASE k = Len(requests) + 1 /\ requests'[k] = m
        <5>1. ASSUME NEW j \in DOMAIN requests', j < k, Sets(j)'
              PROVE  requests'[j][2][2] <= sources /\ requests'[j][2][2] \in Nat
          <6>1. j \in DOMAIN requests /\ requests'[j] = requests[j]
            BY <3>3, <4>2, <5>1
          <6>2. Sets(j)
            BY <5>1, <6>1 DEF Sets
          <6> QED
            BY <1>f, <6>1, <6>2 DEF SourceOrder
        <5>2. IsProxy(selection') => selection'[2] <= sources /\ selection'[2] \in Nat
          BY <1>2, <1>g DEF SourceOrder
        <5> QED
          BY <1>0, <3>1, <3>2, <4>2, <5>1, <5>2
      <4> QED
        BY <3>3, <4>1, <4>2
    <3> QED
      BY <3>5, <3>6, <3>7 DEF SourceOrder
  <2>2. CASE Head(cmds) = 0 /\ source # 0
    <3>1. requests' = requests \o <<<<"Set", Empty>>, <<"Sync", withdrawn + 1>>>>
          /\ UNCHANGED sources
      BY <1>2, <2>2 DEF OnCmd
    <3>2. PICK m, n : m = <<"Set", Empty>> /\ n = <<"Sync", withdrawn + 1>>
      OBVIOUS
    <3>3. requests' = requests \o <<m, n>>
      BY <3>1, <3>2
    <3>4. \A k \in DOMAIN requests' : \/ k \in DOMAIN requests /\ requests'[k] = requests[k]
                                      \/ requests'[k] = m \/ requests'[k] = n
      BY <1>0, <3>3
    <3>5. \A k \in DOMAIN requests' : Sets(k)' =>
            k \in DOMAIN requests /\ requests'[k] = requests[k] /\ Sets(k)
      BY <3>2, <3>4, Shapes DEF Sets
    <3> QED
      BY <1>2, <1>c, <3>1, <3>5 DEF SourceOrder
  <2>3. CASE Head(cmds) = 0 /\ source = 0
    BY <1>1, <1>2, <2>3 DEF OnCmd
  <2> QED
    BY <2>1, <2>2, <2>3
<1>3. CASE HandleRequest /\ UNCHANGED <<source, sources>>
  <2>1. requests # <<>> /\ requests' = Tail(requests)
    BY <1>3 DEF HandleRequest
  <2>2. \A k \in DOMAIN requests' : k \in Nat /\ k >= 1 /\ k + 1 \in DOMAIN requests
                                    /\ requests'[k] = requests[k + 1]
    BY <1>0, <2>1, AtTail
  <2>3. 1 \in DOMAIN requests /\ Head(requests) = requests[1]
    BY <1>0, <2>1, AtTail
  <2>4. \A k \in DOMAIN requests' : Sets(k)' => Sets(k + 1)
    BY <2>2 DEF Sets
  <2>5. selection' = selection \/ (requests[1][1] = "Set" /\ selection' = requests[1][2])
    BY <1>3, <2>3 DEF HandleRequest, Selected
  <2>6. ASSUME IsProxy(selection'), selection' # selection
        PROVE  Sets(1) /\ selection' = requests[1][2]
    BY <2>5, <2>6 DEF Sets
  <2>7. IsProxy(selection') => 0 < selection'[2] /\ selection'[2] <= sources
    BY <2>3, <2>6 DEF SourceOrder
  <2>8. ASSUME NEW k \in DOMAIN requests', Sets(k)'
        PROVE  /\ 0 < requests'[k][2][2] /\ requests'[k][2][2] <= sources'
               /\ IsProxy(selection') => selection'[2] < requests'[k][2][2]
               /\ \A j \in DOMAIN requests' :
                    j < k /\ Sets(j)' => requests'[j][2][2] < requests'[k][2][2]
    <3>1. Sets(k + 1) /\ k + 1 \in DOMAIN requests /\ requests'[k] = requests[k + 1] /\ 1 < k + 1
      BY <2>2, <2>4, <2>8
    <3>2. IsProxy(selection') => selection'[2] < requests[k + 1][2][2]
      BY <2>3, <2>6, <3>1 DEF SourceOrder
    <3>3. ASSUME NEW j \in DOMAIN requests', j < k, Sets(j)'
          PROVE  requests'[j][2][2] < requests'[k][2][2]
      <4>1. /\ Sets(j + 1) /\ j + 1 \in DOMAIN requests
            /\ requests'[j] = requests[j + 1] /\ j + 1 < k + 1
        BY <2>2, <2>4, <3>3
      <4> QED
        BY <3>1, <4>1 DEF SourceOrder
    <3> QED
      BY <1>3, <3>1, <3>2, <3>3 DEF SourceOrder
  <2> QED
    BY <1>3, <1>c, <2>7, <2>8 DEF SourceOrder
<1>4. CASE RemoteCopy \/ RemoteClear \/ RemotePaste
  <2>1. UNCHANGED <<requests, sources>>
    BY <1>4 DEF RemoteCopy, RemoteClear, RemotePaste, thread
  <2>2. selection' = selection \/ ~IsProxy(selection')
    BY <1>4, Shapes DEF RemoteCopy, RemoteClear, RemotePaste, Selected
  <2> QED
    BY <1>c, <2>1, <2>2 DEF SourceOrder, Sets
<1>5. CASE OnReport /\ UNCHANGED <<selection, requests, sources>>
  BY <1>1, <1>5
<1> QED
  BY <1>1, <1>2, <1>3, <1>4, <1>5, SourceMoves

\* The newest command is the newest offer's.
LEMMA CommandsStep ==
  ASSUME Flow, Commands, Next
  PROVE  Commands'
<1>0. cmds \in Seq(Offered("client"))
  BY DEF Flow, BridgeFlow
<1>1. CASE OnRemoteOffer
  <2>1. PICK i : i = Head(c2s)[3]
    OBVIOUS
  <2>2. cmds' = Append(cmds, i) /\ remote' = <<Head(c2s)[2], i>>
    BY <1>1, <2>1 DEF OnRemoteOffer
  <2> QED
    BY <1>0, <2>2 DEF Commands
<1>2. CASE OnCmd
  <2>1. cmds # <<>> /\ cmds' = Tail(cmds) /\ UNCHANGED remote
    BY <1>2 DEF OnCmd
  <2>2. cmds' # <<>> => cmds'[Len(cmds')] = cmds[Len(cmds)]
    BY <1>0, <2>1
  <2> QED
    BY <2>1, <2>2 DEF Commands
<1>3. CASE UNCHANGED <<cmds, remote>>
  BY <1>3 DEF Commands
<1> QED
  BY <1>1, <1>2, <1>3
     DEF Next, Steps, LocalCopy, LocalClear, LocalListed, SetRemoteOffer, ReadLocal, LocalPaste,
         OnUi, OnServerMsg, OnSelection, Listed, OnPaste, OnRequest, OnReport, HandleRequest,
         RemoteCopy, RemoteClear, RemotePaste, bridge

\* The last request to set a selection, as requests come and go.
LEMMA LastSetAppend ==
  ASSUME Flow, NEW m, requests' = Append(requests, m), NEW k \in DOMAIN requests', LastSet(k)'
  PROVE  IF m[1] = "Set" THEN requests'[k] = m
         ELSE k \in DOMAIN requests /\ requests'[k] = requests[k] /\ LastSet(k)
<1>0. requests \in Seq(Requests)
  BY DEF Flow, CompositorFlow
<1>1. \A j \in DOMAIN requests' : \/ j \in DOMAIN requests /\ requests'[j] = requests[j]
                                  \/ j = Len(requests) + 1 /\ requests'[j] = m
  BY <1>0, AtAppend
<1>2. Len(requests) + 1 \in DOMAIN requests' /\ requests'[Len(requests) + 1] = m
  BY <1>0
<1>3. \A j \in DOMAIN requests : /\ j \in DOMAIN requests' /\ requests'[j] = requests[j]
                                 /\ j < Len(requests) + 1
  BY <1>0
<1>4. requests'[k][1] = "Set" /\ \A j \in DOMAIN requests' : j > k => requests'[j][1] # "Set"
  BY DEF LastSet
<1>5. CASE m[1] = "Set"
  <2>1. k = Len(requests) + 1
    <3> SUFFICES ASSUME k # Len(requests) + 1 PROVE FALSE
      OBVIOUS
    <3>1. k < Len(requests) + 1 /\ Len(requests) + 1 > k
      BY <1>0, <1>1, <1>3
    <3> QED
      BY <1>2, <1>4, <1>5, <3>1
  <2> QED
    BY <1>2, <1>5, <2>1
<1>6. CASE m[1] # "Set"
  <2>1. k \in DOMAIN requests /\ requests'[k] = requests[k]
    BY <1>1, <1>4, <1>6
  <2>2. LastSet(k)
    BY <1>3, <1>4, <2>1 DEF LastSet
  <2> QED
    BY <1>6, <2>1, <2>2
<1> QED
  BY <1>5, <1>6

\* The same as the compositor takes the first.
LEMMA LastSetTail ==
  ASSUME Flow, requests # <<>>, requests' = Tail(requests)
  PROVE  /\ \A k \in DOMAIN requests' : LastSet(k)' =>
              k + 1 \in DOMAIN requests /\ requests'[k] = requests[k + 1] /\ LastSet(k + 1)
         /\ Head(requests)[1] = "Set" /\ ~Has(requests', "Set") =>
              1 \in DOMAIN requests /\ Head(requests) = requests[1] /\ LastSet(1)
<1>0. requests \in Seq(Requests)
  BY DEF Flow, CompositorFlow
<1>1. /\ \A k \in DOMAIN requests' : k + 1 \in DOMAIN requests /\ requests'[k] = requests[k + 1]
      /\ 1 \in DOMAIN requests /\ Head(requests) = requests[1]
  BY <1>0, AtTail
<1>2. \A j \in DOMAIN requests :
        j > 1 => j - 1 \in DOMAIN requests' /\ requests'[j - 1] = requests[j]
  BY <1>0
<1>3. ASSUME NEW k \in DOMAIN requests', LastSet(k)' PROVE LastSet(k + 1)
  <2>1. k \in Nat /\ k >= 1
    BY <1>0
  <2>2. ASSUME NEW j \in DOMAIN requests, j > k + 1 PROVE requests[j][1] # "Set"
    <3>1. j - 1 \in DOMAIN requests' /\ requests'[j - 1] = requests[j] /\ j - 1 > k
      BY <1>0, <1>2, <2>1, <2>2
    <3> QED
      BY <1>3, <3>1 DEF LastSet
  <2> QED
    BY <1>1, <1>3, <2>2 DEF LastSet
<1>4. ASSUME Head(requests)[1] = "Set", ~Has(requests', "Set") PROVE LastSet(1)
  <2>1. ASSUME NEW j \in DOMAIN requests, j > 1 PROVE requests[j][1] # "Set"
    BY <1>2, <1>4, <2>1 DEF Has
  <2> QED
    BY <1>1, <1>4, <2>1 DEF LastSet
<1> QED
  BY <1>1, <1>3, <1>4

\* What settles is a newer command's selection, no longer ours, or what settled
\* before.
LEMMA SettlingFrom ==
  ASSUME Flow, Next, NEW c, Settling(c)'
  PROVE  \/ OnCmd /\ Head(cmds) # 0 /\ c = Proxy(sources + 1, Head(cmds))
         \/ ~IsProxy(c)
         \/ Settling(c) /\ ~(OnCmd /\ Head(cmds) # 0) /\ ~(OnCmd /\ source # 0)
<1>0. requests \in Seq(Requests)
  BY DEF Flow, CompositorFlow
<1>1. CASE UNCHANGED <<selection, requests>> /\ ~OnCmd
  BY <1>1 DEF Settling, LastSet, Has
<1>2. CASE OnCmd /\ UNCHANGED selection
  <2>1. CASE Head(cmds) # 0
    <3>1. PICK m : m = <<"Set", Proxy(sources + 1, Head(cmds))>>
      OBVIOUS
    <3>2. requests' = Append(requests, m)
      BY <1>2, <2>1, <3>1 DEF OnCmd
    <3>3. m[1] = "Set" /\ m[2] = Proxy(sources + 1, Head(cmds))
      BY <3>1
    <3>4. Has(requests', "Set")
      BY <1>0, <3>2, <3>3, HasAppend
    <3>5. PICK k \in DOMAIN requests' : LastSet(k)' /\ requests'[k][2] = c
      BY <3>4 DEF Settling
    <3> QED
      BY <1>2, <2>1, <3>2, <3>3, <3>5, LastSetAppend
  <2>2. CASE Head(cmds) = 0 /\ source # 0
    <3>1. requests' = requests \o <<<<"Set", Empty>>, <<"Sync", withdrawn + 1>>>>
      BY <1>2, <2>2 DEF OnCmd
    <3>2. PICK m, n : m = <<"Set", Empty>> /\ n = <<"Sync", withdrawn + 1>>
      OBVIOUS
    <3>3. requests' = requests \o <<m, n>>
      BY <3>1, <3>2
    <3>4. /\ Len(requests) + 1 \in DOMAIN requests' /\ requests'[Len(requests) + 1] = m
          /\ \A k \in DOMAIN requests' : \/ k \in Nat /\ k < Len(requests) + 1
                                         \/ requests'[k] = m \/ requests'[k] = n
      BY <1>0, <3>3
    <3>5. m[1] = "Set" /\ n[1] # "Set"
      BY <3>2
    <3>6. Has(requests', "Set")
      BY <3>4, <3>5 DEF Has
    <3>7. PICK k \in DOMAIN requests' : LastSet(k)' /\ requests'[k][2] = c
      BY <3>6 DEF Settling
    <3>8. requests'[k] = m
      <4>1. ~(k \in Nat /\ k < Len(requests) + 1)
        BY <1>0, <3>4, <3>5, <3>7 DEF LastSet
      <4> QED
        BY <3>4, <3>5, <3>7, <4>1 DEF LastSet
    <3>9. c = Empty
      BY <3>2, <3>7, <3>8
    <3> QED
      BY <3>9, Shapes
  <2>3. CASE Head(cmds) = 0 /\ source = 0
    <3>1. UNCHANGED <<requests, selection>>
      BY <1>2, <2>3 DEF OnCmd
    <3> QED
      BY <2>3, <3>1 DEF Settling, LastSet, Has
  <2> QED
    BY <2>1, <2>2, <2>3
<1>3. CASE HandleRequest /\ ~OnCmd
  <2>1. requests # <<>> /\ requests' = Tail(requests)
    BY <1>3 DEF HandleRequest
  <2>2. Has(requests, "Set") <=> Has(requests', "Set") \/ Head(requests)[1] = "Set"
    BY <1>0, <2>1, HasTail
  <2>3. CASE Has(requests', "Set")
    BY <1>3, <2>1, <2>2, <2>3, LastSetTail DEF Settling
  <2>4. CASE ~Has(requests', "Set") /\ Head(requests)[1] = "Set"
    <3>1. c = Head(requests)[2]
      BY <1>3, <2>4 DEF Settling, HandleRequest, Selected
    <3> QED
      BY <1>3, <2>1, <2>2, <2>4, <3>1, LastSetTail DEF Settling
  <2>5. CASE ~Has(requests', "Set") /\ Head(requests)[1] # "Set"
    BY <1>3, <2>2, <2>5 DEF Settling, HandleRequest
  <2> QED
    BY <2>3, <2>4, <2>5
<1>4. CASE (RemoteCopy \/ RemoteClear \/ RemotePaste) /\ ~OnCmd
  <2>1. UNCHANGED requests
    BY <1>4 DEF RemoteCopy, RemoteClear, RemotePaste
  <2>2. selection' = selection \/ ~IsProxy(selection')
    BY <1>4, Shapes DEF RemoteCopy, RemoteClear, RemotePaste, Selected
  <2> QED
    BY <1>4, <2>1, <2>2 DEF Settling, LastSet, Has
<1>5. OnCmd => UNCHANGED selection
  BY DEF OnCmd
<1>6. CASE OnCmd
  BY <1>2, <1>5, <1>6
<1>7. CASE ~OnCmd
  BY <1>1, <1>3, <1>4, <1>7, SourceMoves
<1> QED
  BY <1>6, <1>7

\* Our own selection is numbered among our sources, after the one selected before.
LEMMA SettlingFields ==
  ASSUME Flow, SourceOrder, NEW c, Settling(c), IsProxy(c)
  PROVE  /\ 0 < c[2] /\ c[2] <= sources /\ c[2] \in Nat
         /\ Has(requests, "Set") /\ IsProxy(selection) => selection[2] < c[2]
<1>1. CASE Has(requests, "Set")
  <2>1. PICK k \in DOMAIN requests : LastSet(k) /\ requests[k][2] = c
    BY <1>1 DEF Settling
  <2>2. Sets(k)
    BY <2>1 DEF LastSet, Sets
  <2> QED
    BY <2>1, <2>2, RequestFields DEF SourceOrder
<1>2. CASE ~Has(requests, "Set")
  BY <1>2, RequestFields DEF Settling, SourceOrder
<1> QED
  BY <1>1, <1>2

\* What is still to be set is not cancelled.
LEMMA NotCancelled ==
  ASSUME Flow, SourceOrder, Next, NEW c, IsProxy(c), Settling(c)', Settling(c),
         NEW m, m[1] = "Cancelled", m[2] = c[2], ~In(m, reports)
  PROVE  ~In(m, reports')
<1>0. reports \in Seq(Reports)
  BY DEF Flow, CompositorFlow
<1>1. CASE UNCHANGED <<reports, selection, current>>
  BY <1>1
<1>2. CASE OnReport
  BY <1>0, <1>2, InTail DEF OnReport
<1>3. CASE \E n : reports' = Append(reports, n) /\ n[1] \in {"Done", "Send"}
  BY <1>0, <1>3, InAppend
<1>4. CASE HandleRequest /\ Head(requests)[1] = "Set"
  <2>1. requests \in Seq(Requests) /\ requests # <<>>
    BY <1>4 DEF Flow, CompositorFlow, HandleRequest
  <2>2. Has(requests, "Set")
    BY <1>4, <2>1, HasTail
  <2>3. IsProxy(selection) => selection[2] < c[2] /\ selection[2] \in Nat /\ c[2] \in Nat
    BY <2>2, SettlingFields, RequestFields
  <2>4. \E x : Selected(x)
    BY <1>4 DEF HandleRequest
  <2> QED
    BY <2>3, <2>4, SelectedKeeps
<1>5. CASE RemoteCopy \/ RemoteClear
  <2>1. PICK x : Selected(x) /\ ~IsProxy(x) /\ UNCHANGED requests
    BY <1>5, Shapes DEF RemoteCopy, RemoteClear
  <2>2. Has(requests, "Set")
    BY <2>1 DEF Settling, Selected, Has
  <2>3. IsProxy(selection) => selection[2] < c[2] /\ selection[2] \in Nat /\ c[2] \in Nat
    BY <2>2, SettlingFields, RequestFields
  <2> QED
    BY <2>1, <2>3, SelectedKeeps
<1>6. \/ HandleRequest /\ Head(requests)[1] = "Set"
      \/ RemoteCopy \/ RemoteClear
      \/ OnReport
      \/ UNCHANGED <<reports, selection, current>>
      \/ \E n : reports' = Append(reports, n) /\ n[1] \in {"Done", "Send"}
  <2>1. CASE HandleRequest /\ Head(requests)[1] # "Set"
    <3>1. PICK n : n = <<"Done", Head(requests)[2]>>
      OBVIOUS
    <3>2. reports' = Append(reports, n) /\ n[1] = "Done"
      BY <2>1, <3>1 DEF HandleRequest
    <3> QED
      BY <3>2
  <2>2. CASE RemotePaste
    <3>1. PICK n : n = <<"Send", selection[2], selection[3]>>
      OBVIOUS
    <3>2. reports' = Append(reports, n) /\ n[1] = "Send"
      BY <2>2, <3>1 DEF RemotePaste
    <3> QED
      BY <3>2
  <2> QED
    BY <2>1, <2>2
       DEF Next, Steps, LocalCopy, LocalClear, LocalListed, SetRemoteOffer, ReadLocal, LocalPaste,
           OnUi, OnServerMsg, OnSelection, Listed, OnPaste, OnRemoteOffer, OnRequest, OnCmd,
           compositor, thread
<1> QED
  BY <1>1, <1>2, <1>3, <1>4, <1>5, <1>6

\* Our own selection stays ours, and the newest command's once it has run.
LEMMA OwnershipStep ==
  ASSUME Flow, SourceOrder, Commands, Ownership, Next
  PROVE  Ownership'
<1>0. /\ cmds \in Seq(Offered("client")) /\ source \in Nat /\ sources \in Nat
      /\ reports \in Seq(Reports)
  BY DEF Flow, BridgeFlow, ThreadFlow, CompositorFlow
<1>1. \A c : Settling(c) => Mine(c)
  BY DEF Ownership, Settling
<1>2. SUFFICES ASSUME NEW c, Settling(c)', IsProxy(c) PROVE Mine(c)'
  <2>1. \A c : Settling(c)' => Mine(c)'
    BY <1>2 DEF Mine
  <2>2. ~Has(requests', "Set") => Settling(selection)'
    BY DEF Settling
  <2>3. \A k \in DOMAIN requests' : LastSet(k)' => Settling(requests[k][2])'
    BY DEF Settling, LastSet, Has
  <2> QED
    BY <2>1, <2>2, <2>3 DEF Ownership
<1>3. CASE OnCmd /\ Head(cmds) # 0 /\ c = Proxy(sources + 1, Head(cmds))
  <2>1. source' = sources + 1 /\ sources' = sources + 1 /\ UNCHANGED <<reports, remote>>
    BY <1>3 DEF OnCmd
  <2>2. c[2] = sources + 1 /\ c[3] = Head(cmds)
    BY <1>3, Shapes
  <2>3. ASSUME In(<<"Cancelled", sources + 1>>, reports) PROVE FALSE
    <3>1. PICK k \in DOMAIN reports : <<"Cancelled", sources + 1>> = reports[k]
      BY <2>3 DEF In
    <3>2. reports[k][1] = "Cancelled" /\ reports[k][2] = sources + 1
      BY <3>1
    <3> QED
      BY <1>0, <3>2 DEF SourceOrder
  <2>4. cmds' = <<>> => Head(cmds) = remote[2]
    <3>1. cmds # <<>> /\ cmds' = Tail(cmds)
      BY <1>3 DEF OnCmd
    <3>2. Head(cmds) = cmds[1] /\ Len(cmds) = Len(cmds') + 1
      BY <1>0, <3>1
    <3>3. cmds' = <<>> => Len(cmds) = 1
      BY <3>2
    <3> QED
      BY <3>1, <3>2, <3>3 DEF Commands
  <2>5. ~In(<<"Cancelled", sources>>, reports)'
    BY <2>1, <2>3 DEF In
  <2> QED
    BY <2>1, <2>2, <2>4, <2>5 DEF Mine
<1>4. CASE Settling(c) /\ ~(OnCmd /\ Head(cmds) # 0) /\ ~(OnCmd /\ source # 0)
  <2>1. /\ c[2] = source /\ source = sources /\ ~In(<<"Cancelled", sources>>, reports)
        /\ cmds = <<>> => c[3] = remote[2]
    BY <1>1, <1>2, <1>4 DEF Mine
  <2>2. source # 0
    BY <1>0, <1>2, <1>4, <2>1, SettlingFields
  <2>3. ~OnCmd
    BY <1>4, <2>2
  <2>4. UNCHANGED <<source, sources>>
    <3>1. CASE OnReport
      <4>0. reports # <<>> /\ UNCHANGED sources
        BY <3>1 DEF OnReport
      <4>1. In(Head(reports), reports) /\ Head(reports) \in Reports
        BY <1>0, <4>0, InTail, HeadAndTail
      <4>2. Head(reports)[1] = "Cancelled" /\ Head(reports)[2] = source =>
              Head(reports) = <<"Cancelled", source>>
        BY <4>1 DEF Reports
      <4>3. UNCHANGED source
        BY <2>1, <3>1, <4>1, <4>2 DEF OnReport
      <4> QED
        BY <4>0, <4>3
    <3>2. CASE ~OnReport
      BY <2>3, <3>2, SourceMoves
    <3> QED
      BY <3>1, <3>2
  <2>5. cmds' = <<>> => cmds = <<>> /\ UNCHANGED remote
    <3>1. CASE OnRemoteOffer
      BY <1>0, <3>1 DEF OnRemoteOffer
    <3>2. CASE ~OnRemoteOffer
      BY <2>3, <3>2
         DEF Next, Steps, LocalCopy, LocalClear, LocalListed, SetRemoteOffer, ReadLocal, LocalPaste,
             OnUi, OnServerMsg, OnSelection, Listed, OnPaste, OnRequest, OnReport, HandleRequest,
             RemoteCopy, RemoteClear, RemotePaste, bridge
    <3> QED
      BY <3>1, <3>2
  <2>6. ~In(<<"Cancelled", sources>>, reports)'
    <3>1. PICK m : m = <<"Cancelled", sources>>
      OBVIOUS
    <3>2. m[1] = "Cancelled" /\ m[2] = c[2] /\ ~In(m, reports)
      BY <2>1, <3>1
    <3>3. ~In(m, reports')
      BY <1>2, <1>4, <3>2, NotCancelled
    <3> QED
      BY <2>4, <3>1, <3>3 DEF In
  <2> QED
    BY <2>1, <2>4, <2>5, <2>6 DEF Mine
<1> QED
  BY <1>2, <1>3, <1>4, SettlingFrom

-------------------------------------------------------------------------------
(* Two applications' items that face each other. *)

\* An application's selection is somebody's item.
LEMMA AppItems ==
  ASSUME Flow
  PROVE  /\ clip[1] = "app" => ~IsProxy(clip) /\ ItemOf(clip) # 0
         /\ selection[1] = "app" => ~IsProxy(selection) /\ ItemOf(selection) # 0
<1>1. \A own, other : \A c \in Contents(own, other) :
        c[1] = "app" => ~IsProxy(c) /\ ItemOf(c) # 0
  <2> SUFFICES ASSUME NEW own, NEW other, NEW c \in Contents(own, other), c[1] = "app"
               PROVE  ~IsProxy(c) /\ ItemOf(c) # 0
    OBVIOUS
  <2>1. c[2] \in Made(own) /\ c = App(c[2])
    BY ContentIs
  <2>2. c[2] # 0
    BY <2>1 DEF Made, Flow
  <2> QED
    BY <2>1, <2>2, Shapes
<1> QED
  BY <1>1 DEF Flow, ClientFlow, CompositorFlow

\* What the client is about to share keeps coming, until it is a request.
LEMMA ClientComingKept ==
  ASSUME Flow, Told, Commands, Next, clip[1] = "app", selection[1] = "app",
         UNCHANGED <<clip, selection>>, ClientComing
  PROVE  ClientComing' \/ LocalCopy
<1>0. /\ toWorker \in Seq(WorkerCmds) /\ c2s \in Seq(ToServer) /\ requests \in Seq(Requests)
      /\ cmds \in Seq(Offered("client"))
  BY DEF Flow, ClientFlow, WireFlow, CompositorFlow, BridgeFlow
<1>1. CASE \E l \in listing : LocalListed(l)
  <2>1. PICK l \in listing : LocalListed(l)
    BY <1>1
  <2>2. CASE l[1] = lgen
    <3>1. PICK m : m = <<"LocalOffer", l[2]>>
      OBVIOUS
    <3>2. toWorker' = Append(toWorker, m) /\ m[1] = "LocalOffer"
      BY <2>1, <2>2, <3>1 DEF LocalListed
    <3> QED
      BY <1>0, <3>2, HasAppend DEF ClientComing
  <2>3. CASE l[1] # lgen
    <3>1. UNCHANGED <<toWorker, c2s, cmds, requests, lgen>> /\ listing' = listing \ {l}
      BY <2>1, <2>3 DEF LocalListed, wire, bridge, compositor
    <3> QED
      BY <2>3, <3>1 DEF ClientComing, Unlisted, LastSet
  <2> QED
    BY <2>2, <2>3
<1>2. CASE LocalPaste
  <2>1. PICK m : m = <<"Fetch", clip[2], clip[3]>>
    OBVIOUS
  <2>2. toWorker' = Append(toWorker, m) /\ UNCHANGED <<c2s, cmds, requests, lgen, listing>>
    BY <1>2, <2>1 DEF LocalPaste, wire, bridge, compositor
  <2>3. Has(toWorker, "LocalOffer") => Has(toWorker', "LocalOffer")
    BY <1>0, <2>2, HasAppend
  <2> QED
    BY <2>2, <2>3 DEF ClientComing, Unlisted, LastSet
<1>3. CASE OnUi
  <2>0. toWorker # <<>> /\ toWorker' = Tail(toWorker)
        /\ UNCHANGED <<cmds, requests, lgen, listing>>
    BY <1>3 DEF OnUi, bridge, compositor
  <2>1. CASE Head(toWorker)[1] = "LocalOffer"
    <3>1. PICK m : m = <<"Offer", lserial + 1, Head(toWorker)[2]>>
      OBVIOUS
    <3>2. c2s' = Append(c2s, m) /\ m[1] = "Offer"
      BY <1>3, <2>1, <3>1 DEF OnUi
    <3> QED
      BY <1>0, <3>2, HasAppend DEF ClientComing
  <2>2. CASE Head(toWorker)[1] = "Fetch"
    <3>1. PICK m : m = <<"Request", Head(toWorker)[2], Head(toWorker)[3], FALSE>>
      OBVIOUS
    <3>2. c2s' = Append(c2s, m)
      BY <1>3, <2>2, <3>1 DEF OnUi
    <3>3. /\ Has(toWorker, "LocalOffer") => Has(toWorker', "LocalOffer")
          /\ Has(c2s, "Offer") => Has(c2s', "Offer")
      BY <1>0, <2>0, <2>2, <3>2, HasAppend, HasTail
    <3> QED
      BY <2>0, <3>3 DEF ClientComing, Unlisted, LastSet
  <2> QED
    BY <1>3, <2>1, <2>2 DEF OnUi
<1>4. CASE OnRemoteOffer
  BY <1>0, <1>4 DEF OnRemoteOffer, ClientComing
<1>5. CASE OnRequest
  <2>1. c2s # <<>> /\ c2s' = Tail(c2s) /\ Head(c2s)[1] = "Request"
        /\ UNCHANGED <<toWorker, cmds, requests, lgen, listing>>
    BY <1>5 DEF OnRequest, gtk, bridge, compositor
  <2>2. Has(c2s, "Offer") => Has(c2s', "Offer")
    BY <1>0, <2>1, HasTail
  <2> QED
    BY <2>1, <2>2 DEF ClientComing, Unlisted, LastSet
<1>6. CASE OnCmd
  <2>0. cmds # <<>> /\ cmds' = Tail(cmds) /\ UNCHANGED <<toWorker, c2s, lgen, listing, remote>>
    BY <1>6 DEF OnCmd, gtk, wire
  <2>1. CASE cmds' # <<>>
    BY <2>1 DEF ClientComing
  <2>2. CASE Unlisted \/ Has(toWorker, "LocalOffer") \/ Has(c2s, "Offer")
    BY <2>0, <2>2 DEF ClientComing, Unlisted
  <2>3. CASE cmds' = <<>> /\ ~(Unlisted \/ Has(toWorker, "LocalOffer") \/ Has(c2s, "Offer"))
    <3>1. remote[2] = ItemOf(clip) /\ ItemOf(clip) # 0
      BY <2>3, AppItems DEF Told, TellsOf
    <3>2. Head(cmds) = cmds[1] /\ Len(cmds) = Len(cmds') + 1
      BY <1>0, <2>0
    <3>3. Head(cmds) # 0
      BY <2>0, <2>3, <3>1, <3>2 DEF Commands
    <3>4. PICK m : m = <<"Set", Proxy(sources + 1, Head(cmds))>>
      OBVIOUS
    <3>5. requests' = Append(requests, m)
      BY <1>6, <3>3, <3>4 DEF OnCmd
    <3>6. m[1] = "Set" /\ IsProxy(m[2])
      BY <3>4, Shapes
    <3>7. PICK k : k = Len(requests) + 1
      OBVIOUS
    <3>8. /\ k \in DOMAIN requests' /\ requests'[k] = m
          /\ \A j \in DOMAIN requests' : ~(j > k)
      BY <1>0, <3>5, <3>7
    <3> QED
      BY <3>6, <3>8 DEF ClientComing, LastSet
  <2> QED
    BY <2>1, <2>2, <2>3
<1>7. CASE HandleRequest
  <2>0. requests # <<>> /\ requests' = Tail(requests)
        /\ UNCHANGED <<toWorker, c2s, cmds, lgen, listing>>
    BY <1>7 DEF HandleRequest, gtk, wire, bridge
  <2>1. \A k \in DOMAIN requests' : k \in Nat /\ k + 1 \in DOMAIN requests
                                     /\ requests'[k] = requests[k + 1]
    BY <1>0, <2>0, AtTail
  <2>2. \A k \in DOMAIN requests : k = 1 \/ (k - 1 \in DOMAIN requests' /\ k - 1 + 1 = k)
    BY <1>0, <2>0
  <2>3. ASSUME NEW k \in DOMAIN requests, LastSet(k), IsProxy(requests[k][2])
        PROVE  \E j \in DOMAIN requests' : LastSet(j)' /\ IsProxy(requests'[j][2])
    <3>1. k # 1
      <4> SUFFICES ASSUME k = 1 PROVE FALSE
        OBVIOUS
      <4>1. selection' = requests[1][2]
        BY <1>0, <1>7, <2>0, <2>3, AtTail DEF HandleRequest, Selected, LastSet
      <4> QED
        BY <2>3, <4>1, AppItems
    <3>2. PICK i : i = k - 1
      OBVIOUS
    <3>3. i \in DOMAIN requests' /\ i + 1 = k /\ i \in Nat
      BY <2>1, <2>2, <3>1, <3>2
    <3>4. requests'[i] = requests[k]
      BY <2>1, <3>3
    <3>5. \A j \in DOMAIN requests' : j > i => j + 1 \in DOMAIN requests /\ j + 1 > k
      BY <2>1, <3>3
    <3>6. LastSet(i)'
      BY <2>1, <2>3, <3>4, <3>5 DEF LastSet
    <3> QED
      BY <2>3, <3>3, <3>4, <3>6
  <2> QED
    BY <2>0, <2>3 DEF ClientComing, Unlisted
<1>8. CASE UNCHANGED <<toWorker, c2s, cmds, requests, lgen, listing>>
  BY <1>8 DEF ClientComing, Unlisted, LastSet
<1>9. ~LocalClear /\ (SetRemoteOffer => UNCHANGED <<listing, lgen>>)
  BY Shapes, AppItems DEF LocalClear, SetRemoteOffer, Changed
<1> QED
  BY <1>1, <1>2, <1>3, <1>4, <1>5, <1>6, <1>7, <1>8, <1>9
     DEF Next, Steps, LocalCopy, LocalClear, SetRemoteOffer, ReadLocal, OnServerMsg, OnSelection,
         Listed, OnPaste, OnReport, RemoteCopy, RemoteClear, RemotePaste, gtk, wire, bridge,
         compositor

\* What the server is about to share keeps coming, until it is a proxy.
LEMMA ServerComingKept ==
  ASSUME Flow, Tracks, Latest, Serials, Next, clip[1] = "app", selection[1] = "app",
         UNCHANGED <<clip, selection>>, ServerComing
  PROVE  ServerComing'
<1>0. /\ reports \in Seq(Reports) /\ events \in Seq(Events) /\ s2c \in Seq(ToClient)
      /\ status \in Seq(StatusMsgs)
  BY DEF Flow, ClientFlow, WireFlow, CompositorFlow, BridgeFlow
<1>1. CASE SetRemoteOffer
  <2>0. /\ status # <<>> /\ Head(status)[1] = "Offer" /\ status' = Tail(status)
        /\ UNCHANGED <<reports, events, listed, gen, s2c>>
    BY <1>1 DEF SetRemoteOffer, wire, bridge, compositor
  <2>1. ASSUME ~Has(reports, "Selection"), ~Has(events, "Selection"), ~Offering,
               ~Has(s2c, "Offer"), ~Has(status', "Offer")
        PROVE  FALSE
    <3>1. Head(status)[2] = gen
      <4>1. Newest(status, "Offer", 2, gen)
        BY <2>1 DEF Latest
      <4> QED
        BY <1>0, <2>0, <2>1, <4>1, NewestTail
    <3>2. StandsFor(gen, Head(status)[3])
      BY <1>0, <2>0, <3>1, AtTail DEF Serials
    <3>3. current = selection
      BY <2>1 DEF Tracks
    <3>4. Head(status)[3] = ItemOf(selection)
      BY <2>1, <3>2, <3>3 DEF StandsFor, Accounted
    <3>5. Head(status)[3] # 0
      BY <3>4, AppItems
    <3>6. IsProxy(clip')
      BY <1>1, <3>5, Shapes DEF SetRemoteOffer, Changed
    <3> QED
      BY <3>6, AppItems
  <2> QED
    BY <2>0, <2>1 DEF ServerComing, Offering
<1>2. CASE ReadLocal
  <2>1. status # <<>> /\ status' = Tail(status) /\ Head(status)[1] = "Read"
        /\ UNCHANGED <<reports, events, listed, gen, s2c>>
    BY <1>2 DEF ReadLocal, wire, bridge, compositor
  <2>2. Has(status, "Offer") => Has(status', "Offer")
    BY <1>0, <2>1, HasTail
  <2> QED
    BY <2>1, <2>2 DEF ServerComing, Offering
<1>3. CASE OnServerMsg
  <2>0. s2c # <<>> /\ s2c' = Tail(s2c) /\ UNCHANGED <<reports, events, listed, gen>>
    BY <1>3 DEF OnServerMsg, bridge, compositor
  <2>m. PICK m : m = Head(s2c)
    OBVIOUS
  <2>1. CASE m[1] = "Offer"
    <3>1. status' = Append(status, m)
      BY <1>3, <2>m, <2>1 DEF OnServerMsg
    <3> QED
      BY <1>0, <2>1, <3>1, HasAppend DEF ServerComing
  <2>2. CASE m[1] = "Request"
    <3>1. PICK n : n = <<"Read", m[3], m[4], lserial>>
      OBVIOUS
    <3>2. status' = status \/ status' = Append(status, n)
      BY <1>3, <2>m, <2>2, <3>1 DEF OnServerMsg
    <3>a. Has(status, "Offer") => Has(Append(status, n), "Offer")
      BY <1>0, HasAppend
    <3>3. /\ Has(s2c, "Offer") => Has(s2c', "Offer")
          /\ Has(status, "Offer") => Has(status', "Offer")
      BY <1>0, <2>0, <2>m, <2>2, <3>2, <3>a, HasTail
    <3> QED
      BY <2>0, <3>3 DEF ServerComing, Offering
  <2> QED
    BY <1>3, <2>m, <2>1, <2>2 DEF OnServerMsg
<1>4. CASE OnSelection
  <2>1. gen' = gen + 1 /\ <<gen + 1, Head(events)[2]>> \in listed'
    BY <1>4 DEF OnSelection
  <2>2. <<gen + 1, Head(events)[2]>>[1] = gen + 1
    OBVIOUS
  <2> QED
    BY <2>1, <2>2 DEF ServerComing, Offering
<1>5. CASE OnPaste
  <2>1. events # <<>> /\ events' = Tail(events) /\ Head(events)[1] = "Paste"
        /\ UNCHANGED <<reports, listed, gen, status>>
    BY <1>5 DEF OnPaste, gtk, compositor
  <2>2. PICK m : m = <<"Request", remote[1], Head(events)[2], remote[2] # Head(events)[2]>>
    OBVIOUS
  <2>3. s2c' = Append(s2c, m)
    BY <1>5, <2>2 DEF OnPaste
  <2>4. /\ Has(events, "Selection") => Has(events', "Selection")
        /\ Has(s2c, "Offer") => Has(s2c', "Offer")
    BY <1>0, <2>1, <2>3, HasTail, HasAppend
  <2> QED
    BY <2>1, <2>4 DEF ServerComing, Offering
<1>6. CASE \E l \in listed : Listed(l)
  <2>1. PICK l \in listed : Listed(l)
    BY <1>6
  <2>2. CASE l[1] = gen
    <3>1. PICK m : m = <<"Offer", l[1], l[2]>>
      OBVIOUS
    <3>2. s2c' = Append(s2c, m) /\ m[1] = "Offer"
      BY <2>1, <2>2, <3>1 DEF Listed
    <3> QED
      BY <1>0, <3>2, HasAppend DEF ServerComing
  <2>3. CASE l[1] # gen
    <3>1. UNCHANGED <<reports, events, gen, s2c, status>> /\ listed' = listed \ {l}
      BY <2>1, <2>3 DEF Listed, gtk, compositor
    <3> QED
      BY <2>3, <3>1 DEF ServerComing, Offering
  <2> QED
    BY <2>2, <2>3
<1>7. CASE OnReport
  <2>0. reports # <<>> /\ reports' = Tail(reports) /\ UNCHANGED <<listed, gen, s2c, status>>
    BY <1>7 DEF OnReport, gtk, wire
  <2>h. Has(reports, "Selection") <=> Has(reports', "Selection") \/ Head(reports)[1] = "Selection"
    BY <1>0, <2>0, HasTail
  <2>1. CASE Has(reports', "Selection")
    BY <2>1 DEF ServerComing
  <2>2. CASE ~Has(reports', "Selection") /\ Head(reports)[1] = "Selection"
    <3>1. Head(reports)[2] = selection
      BY <1>0, <2>0, <2>2, NewestTail DEF Tracks
    <3>2. ~IsEcho(selection)
      BY AppItems, Shapes DEF IsEcho
    <3>3. PICK m : m = <<"Selection", ItemOf(selection)>>
      OBVIOUS
    <3>4. events' = Append(events, m) /\ m[1] = "Selection"
      BY <1>7, <2>2, <3>1, <3>2, <3>3 DEF OnReport
    <3> QED
      BY <1>0, <3>4, HasAppend DEF ServerComing
  <2>3. CASE Head(reports)[1] # "Selection"
    <3>1. PICK m : m = <<"Paste", Head(reports)[3]>>
      OBVIOUS
    <3>2. events' = events \/ events' = Append(events, m)
      BY <1>7, <2>3, <3>1 DEF OnReport
    <3>a. Has(events, "Selection") => Has(Append(events, m), "Selection")
      BY <1>0, HasAppend
    <3>3. Has(events, "Selection") => Has(events', "Selection")
      BY <3>2, <3>a
    <3> QED
      BY <2>0, <2>h, <2>3, <3>3 DEF ServerComing, Offering
  <2> QED
    BY <2>1, <2>2, <2>3
<1>8. CASE (\E c : Selected(c)) /\ UNCHANGED <<events, listed, gen, s2c, status>>
  <2>1. Has(reports, "Selection") => Has(reports', "Selection")
    <3>1. PICK c : Selected(c)
      BY <1>8
    <3>2. CASE c = selection
      BY <3>1, <3>2, SelectedKeeps
    <3>3. CASE c # selection
      BY <3>1, <3>3, SelectedKeeps
    <3> QED
      BY <3>2, <3>3
  <2> QED
    BY <1>8, <2>1 DEF ServerComing, Offering
<1>9. CASE (\E m : reports' = Append(reports, m)) /\ UNCHANGED <<events, listed, gen, s2c, status>>
  <2>1. Has(reports, "Selection") => Has(reports', "Selection")
    BY <1>0, <1>9, HasAppend
  <2> QED
    BY <1>9, <2>1 DEF ServerComing, Offering
<1>10. CASE UNCHANGED <<reports, events, listed, gen, s2c, status>>
  BY <1>10 DEF ServerComing, Offering
<1>11. HandleRequest => /\ (\E c : Selected(c)) \/ (\E m : reports' = Append(reports, m))
                        /\ UNCHANGED <<events, listed, gen, s2c, status>>
  BY DEF HandleRequest, gtk, wire, bridge
<1>12. RemoteCopy \/ RemoteClear \/ RemotePaste =>
         /\ (\E c : Selected(c)) \/ (\E m : reports' = Append(reports, m))
         /\ UNCHANGED <<events, listed, gen, s2c, status>>
  BY DEF RemoteCopy, RemoteClear, RemotePaste, gtk, wire, bridge
<1> QED
  BY <1>1, <1>2, <1>3, <1>4, <1>5, <1>6, <1>7, <1>8, <1>9, <1>10, <1>11, <1>12
     DEF Next, Steps, LocalCopy, LocalClear, LocalListed, LocalPaste, OnUi, OnRemoteOffer,
         OnRequest, OnCmd, gtk, wire, bridge, compositor

\* Two applications' items that face each other are about to be shared: the
\* latest copy of the two is on its way.
LEMMA FacingStep ==
  ASSUME Flow, Told, Commands, Tracks, Latest, Serials, Facing, Next
  PROVE  Facing'
<1> SUFFICES ASSUME clip'[1] = "app", selection'[1] = "app" PROVE ClientComing' \/ ServerComing'
  BY DEF Facing
<1>1. CASE LocalCopy
  <2>1. Changed(App(Len(copies) + 1))
    BY <1>1 DEF LocalCopy
  <2>2. lgen' = lgen + 1 /\ <<lgen + 1, ItemOf(App(Len(copies) + 1))>> \in listing'
    BY <2>1, Shapes DEF Changed
  <2>3. <<lgen + 1, ItemOf(App(Len(copies) + 1))>>[1] = lgen + 1
    OBVIOUS
  <2> QED
    BY <2>2, <2>3 DEF ClientComing, Unlisted
<1>2. CASE RemoteCopy
  <2>1. selection # App(Len(copies) + 1)
    <3>1. selection[1] = "app" =>
            selection[2] \in DOMAIN copies /\ copies \in Seq({"client", "server"})
      BY ContentIs DEF Flow, CompositorFlow, Made
    <3> QED
      BY <3>1, Shapes
  <2>2. Has(reports', "Selection")
    BY <1>2, <2>1, SelectedKeeps DEF RemoteCopy
  <2> QED
    BY <2>2 DEF ServerComing
<1>3. CASE ~LocalCopy /\ ~RemoteCopy
  <2>1. UNCHANGED clip
    BY <1>3, Shapes
       DEF Next, Steps, LocalClear, LocalListed, SetRemoteOffer, ReadLocal, LocalPaste, OnUi,
           OnServerMsg, OnSelection, Listed, OnPaste, OnRemoteOffer, OnRequest, OnCmd, OnReport,
           HandleRequest, RemoteClear, RemotePaste, Changed, gtk, IsProxy, Proxy
  <2>2. UNCHANGED selection
    <3>1. HandleRequest => UNCHANGED selection
      <4> SUFFICES ASSUME HandleRequest, Head(requests)[1] = "Set" PROVE FALSE
        BY DEF HandleRequest
      <4>1. Head(requests) \in Requests
        BY HeadAndTail DEF HandleRequest, Flow, CompositorFlow
      <4>2. Head(requests)[2] = Empty \/ Head(requests)[2] \in Proxies("client")
        BY <4>1 DEF Requests
      <4>3. Head(requests)[2][1] # "app"
        BY <4>2, Shapes DEF Proxies
      <4> QED
        BY <4>3 DEF HandleRequest, Selected
    <3>2. ~RemoteClear
      BY Shapes DEF RemoteClear, Selected
    <3> QED
      BY <1>3, <3>1, <3>2
         DEF Next, Steps, LocalClear, LocalListed, SetRemoteOffer, ReadLocal, LocalPaste, OnUi,
             OnServerMsg, OnSelection, Listed, OnPaste, OnRemoteOffer, OnRequest, OnCmd, OnReport,
             RemotePaste, compositor
  <2>3. ClientComing \/ ServerComing
    BY <2>1, <2>2 DEF Facing
  <2> QED
    BY <1>3, <2>1, <2>2, <2>3, ClientComingKept, ServerComingKept
<1> QED
  BY <1>1, <1>2, <1>3

-------------------------------------------------------------------------------
(* What a paste brings. *)

\* A paste on the server: the client's serial is the newest, so there is no
\* newer offer than remote, and remote is what the clipboard holds.
LEMMA ReadPromised ==
  ASSUME Flow, OfferOrder, Asked, Told, ReadLocal, clip # Empty, ~IsProxy(clip),
         ~Head(status)[3], Head(status)[4] = lserial, listing = {},
         ~Has(toWorker, "LocalOffer")
  PROVE  ItemOf(clip) = Head(status)[2]
<1>1. 1 \in DOMAIN status /\ Head(status) = status[1] /\ status[1][1] = "Read"
  BY AtTail DEF ReadLocal, Flow, ClientFlow
<1>2. remote = <<lserial, Head(status)[2]>>
  BY <1>1 DEF Asked, Asks
<1>3. ~Has(c2s, "Offer")
  <2> SUFFICES ASSUME NEW k \in DOMAIN c2s, c2s[k][1] = "Offer" PROVE FALSE
    BY DEF Has
  <2>1. lserial < c2s[k][2] /\ c2s[k][2] <= lserial
    BY <1>2 DEF OfferOrder
  <2> QED
    BY <2>1, Fields DEF Flow, WireFlow
<1>4. remote[2] = ItemOf(clip)
  BY <1>3 DEF Told, TellsOf, Unlisted
<1> QED
  BY <1>2, <1>4

\* What every paste brings.
LEMMA PastedStep ==
  ASSUME Flow, OfferOrder, Asked, Told, Serials, PasteIsPromised, Next
  PROVE  PasteIsPromised'
<1>1. CASE ReadLocal
  <2> DEFINE got == IF clip = Empty \/ IsProxy(clip) THEN 0 ELSE ItemOf(clip)
             raced == \/ Head(status)[3] \/ Head(status)[4] # lserial
                      \/ listing # {} \/ Has(toWorker, "LocalOffer")
  <2>1. got \in {0, Head(status)[2]} \/ raced
    BY <1>1, ReadPromised
  <2>2. pasted' = pasted \cup {[promised |-> Head(status)[2], got |-> got, raced |-> raced]}
    BY <1>1 DEF ReadLocal, Pasted
  <2> HIDE DEF got, raced
  <2> QED
    BY <2>1, <2>2 DEF PasteIsPromised
<1>2. CASE OnServerMsg
  <2>1. \/ UNCHANGED pasted
        \/ pasted' = pasted \cup {[promised |-> Head(s2c)[3], got |-> 0, raced |-> FALSE]}
    BY <1>2 DEF OnServerMsg, Pasted
  <2> QED
    BY <2>1 DEF PasteIsPromised
<1>3. CASE OnRequest
  <2> DEFINE msg == Head(c2s)
             got == IF Readable(msg[2]) THEN ItemOf(current) ELSE 0
             raced == Has(events, "Selection")
  <2>1. In(msg, c2s) /\ msg[1] = "Request"
    BY <1>3, InTail DEF OnRequest, Flow, WireFlow
  <2>2. StandsFor(msg[2], msg[3])
    BY <2>1 DEF In, Serials
  <2>3. Readable(msg[2]) => msg[2] = gen /\ Accounted
    BY ContentIs DEF Readable, Accounted, Flow, ThreadFlow
  <2>4. got \in {0, msg[3]} \/ raced
    BY <2>2, <2>3 DEF StandsFor
  <2>5. pasted' = pasted \cup {[promised |-> msg[3], got |-> got, raced |-> raced]}
    BY <1>3 DEF OnRequest, Pasted
  <2> HIDE DEF got, raced
  <2> QED
    BY <2>4, <2>5 DEF PasteIsPromised
<1>4. CASE OnReport
  <2>1. \/ UNCHANGED pasted
        \/ pasted' = pasted \cup {[promised |-> Head(reports)[3], got |-> 0, raced |-> FALSE]}
    BY <1>4 DEF OnReport, Pasted
  <2> QED
    BY <2>1 DEF PasteIsPromised
<1>5. CASE UNCHANGED pasted
  BY <1>5 DEF PasteIsPromised
<1> QED
  BY <1>1, <1>2, <1>3, <1>4, <1>5
     DEF Next, Steps, LocalCopy, LocalClear, LocalListed, SetRemoteOffer, LocalPaste, OnUi,
         OnSelection, Listed, OnPaste, OnRemoteOffer, OnCmd, HandleRequest, RemoteCopy,
         RemoteClear, RemotePaste, user

-------------------------------------------------------------------------------
(* What is shared once nothing is on its way. *)

\* Nothing is on its way: every queue is empty.
LEMMA QuietIs ==
  ASSUME Flow, Quiet
  PROVE  /\ listing = {} /\ listed = {} /\ toWorker = <<>> /\ status = <<>> /\ c2s = <<>>
         /\ s2c = <<>> /\ cmds = <<>> /\ events = <<>> /\ requests = <<>> /\ reports = <<>>
<1>1. \A S1, S2 : \A q \in Seq(S1), r \in Seq(S2) : q \o r = <<>> <=> q = <<>> /\ r = <<>>
  <2> SUFFICES ASSUME NEW S1, NEW S2, NEW q \in Seq(S1), NEW r \in Seq(S2)
               PROVE  q \o r = <<>> <=> q = <<>> /\ r = <<>>
    OBVIOUS
  <2> DEFINE U == S1 \cup S2
  <2>1. q \in Seq(U) /\ r \in Seq(U)
    BY SeqGrows
  <2>2. Len(q \o r) = Len(q) + Len(r) /\ Len(q) \in Nat /\ Len(r) \in Nat
    BY <2>1
  <2>3. \A s \in Seq(U) : s = <<>> <=> Len(s) = 0
    OBVIOUS
  <2>4. q \o r \in Seq(U)
    BY <2>1
  <2> HIDE DEF U
  <2> QED
    BY <2>1, <2>2, <2>3, <2>4
<1>2. \A S1, S2 : \A q \in Seq(S1), r \in Seq(S2) : q \o r \in Seq(S1 \cup S2)
  <2> SUFFICES ASSUME NEW S1, NEW S2, NEW q \in Seq(S1), NEW r \in Seq(S2)
               PROVE  q \o r \in Seq(S1 \cup S2)
    OBVIOUS
  <2>1. q \in Seq(S1 \cup S2) /\ r \in Seq(S1 \cup S2)
    BY SeqGrows
  <2> QED
    BY <2>1, Joined
<1>3. /\ toWorker \in Seq(WorkerCmds) /\ status \in Seq(StatusMsgs) /\ c2s \in Seq(ToServer)
      /\ s2c \in Seq(ToClient) /\ cmds \in Seq(Offered("client")) /\ events \in Seq(Events)
      /\ requests \in Seq(Requests) /\ reports \in Seq(Reports)
  BY DEF Flow, ClientFlow, WireFlow, BridgeFlow, CompositorFlow
<1>4. PICK q1, q2, q3, q4, q5, q6 :
        /\ q1 = toWorker \o status /\ q2 = q1 \o c2s /\ q3 = q2 \o s2c /\ q4 = q3 \o cmds
        /\ q5 = q4 \o events /\ q6 = q5 \o requests
  OBVIOUS
<1>5. q6 \o reports = <<>>
  BY <1>4 DEF Quiet
<1>6. PICK T1, T2, T3, T4, T5, T6 :
        /\ q1 \in Seq(T1) /\ q2 \in Seq(T2) /\ q3 \in Seq(T3) /\ q4 \in Seq(T4)
        /\ q5 \in Seq(T5) /\ q6 \in Seq(T6)
  <2>1. PICK T1 : q1 \in Seq(T1)
    BY <1>2, <1>3, <1>4
  <2>2. PICK T2 : q2 \in Seq(T2)
    BY <1>2, <1>3, <1>4, <2>1
  <2>3. PICK T3 : q3 \in Seq(T3)
    BY <1>2, <1>3, <1>4, <2>2
  <2>4. PICK T4 : q4 \in Seq(T4)
    BY <1>2, <1>3, <1>4, <2>3
  <2>5. PICK T5 : q5 \in Seq(T5)
    BY <1>2, <1>3, <1>4, <2>4
  <2>6. PICK T6 : q6 \in Seq(T6)
    BY <1>2, <1>3, <1>4, <2>5
  <2> QED
    BY <2>1, <2>2, <2>3, <2>4, <2>5, <2>6
<1>7. q6 = <<>> /\ reports = <<>>
  BY <1>1, <1>3, <1>5, <1>6
<1>8. q5 = <<>> /\ requests = <<>>
  <2>1. q5 \o requests = <<>>
    BY <1>4, <1>7
  <2> QED
    BY <1>1, <1>3, <1>6, <2>1
<1>9. q4 = <<>> /\ events = <<>>
  <2>1. q4 \o events = <<>>
    BY <1>4, <1>8
  <2> QED
    BY <1>1, <1>3, <1>6, <2>1
<1>10. q3 = <<>> /\ cmds = <<>>
  <2>1. q3 \o cmds = <<>>
    BY <1>4, <1>9
  <2> QED
    BY <1>1, <1>3, <1>6, <2>1
<1>11. q2 = <<>> /\ s2c = <<>>
  <2>1. q2 \o s2c = <<>>
    BY <1>4, <1>10
  <2> QED
    BY <1>1, <1>3, <1>6, <2>1
<1>12. q1 = <<>> /\ c2s = <<>>
  <2>1. q1 \o c2s = <<>>
    BY <1>4, <1>11
  <2> QED
    BY <1>1, <1>3, <1>6, <2>1
<1>13. toWorker = <<>> /\ status = <<>>
  <2>1. toWorker \o status = <<>>
    BY <1>4, <1>12
  <2> QED
    BY <1>1, <1>3, <2>1
<1> QED
  BY <1>7, <1>8, <1>9, <1>10, <1>11, <1>12, <1>13 DEF Quiet

\* Each side's proxy by the invariant of the way its offer came; two items that
\* face each other would still have one of them on its way.
LEMMA SharedHolds ==
  ASSUME Flow, NewestSerial, Told, Serials, Latest, Tracks, Ownership, Facing, Undisturbed
  PROVE  Shared
<1> SUFFICES ASSUME Quiet
             PROVE  /\ IsProxy(clip) /\ ~IsProxy(selection)
                         => \/ ItemOf(clip) = ItemOf(selection) /\ clip[2] = gen
                            \/ ItemOf(clip) <= crossed
                    /\ IsProxy(selection) /\ ~IsProxy(clip)
                         => ItemOf(selection) = ItemOf(clip) /\ remote[1] = lserial
                    /\ ~(clip[1] = "app" /\ selection[1] = "app")
  BY DEF Shared
<1>1. \A kind : /\ ~Has(toWorker, kind) /\ ~Has(status, kind) /\ ~Has(c2s, kind)
                /\ ~Has(s2c, kind) /\ ~Has(events, kind) /\ ~Has(requests, kind)
                /\ ~Has(reports, kind)
  BY QuietIs DEF Has
<1>2. ~Unlisted /\ ~Offering /\ cmds = <<>> /\ ~\E k \in DOMAIN requests : TRUE
  BY QuietIs DEF Unlisted, Offering
<1>3. ItemOf(clip) = IF clip = Empty THEN 0 ELSE clip[Len(clip)]
  BY DEF ItemOf
<1>4. ASSUME IsProxy(clip), ~IsProxy(selection)
      PROVE  \/ ItemOf(clip) = ItemOf(selection) /\ clip[2] = gen
             \/ ItemOf(clip) <= crossed
  <2>1. clip[2] = gen
    BY <1>1, <1>2, <1>4 DEF Latest
  <2>2. current = selection
    BY <1>1 DEF Tracks
  <2>3. clip[3] \in Made("server") /\ clip[3] \in Nat /\ ItemOf(clip) = clip[3]
    <3>1. clip[3] \in Made("server") /\ clip = Proxy(clip[2], clip[3])
      BY <1>4, ContentIs DEF Flow, ClientFlow
    <3>2. clip[3] \in Nat
      BY <3>1 DEF Made, Flow
    <3>3. \A s, i : ItemOf(Proxy(s, i)) = i
      BY DEF ItemOf, Proxy, Empty
    <3> QED
      BY <3>1, <3>2, <3>3
  <2>4. StandsFor(clip[2], clip[3])
    BY <1>4 DEF Serials
  <2>5. CASE Accounted
    BY <1>1, <2>1, <2>2, <2>3, <2>4, <2>5 DEF StandsFor
  <2>6. CASE ~Accounted
    <3>1. Live(clip[3])
      BY <1>4 DEF Live
    <3>2. ~In(<<"Selection", App(clip[3])>>, reports)
      BY QuietIs DEF In
    <3>3. ~(clip[3] > crossed)
      BY <2>3, <2>6, <3>1, <3>2 DEF Accounted, Uncrossed
    <3>4. crossed \in Int
      BY DEF Undisturbed
    <3> QED
      BY <2>3, <3>3, <3>4
  <2> QED
    BY <2>5, <2>6
<1>5. ASSUME IsProxy(selection), ~IsProxy(clip)
      PROVE  ItemOf(selection) = ItemOf(clip) /\ remote[1] = lserial
  <2>1. selection[3] = remote[2] /\ ItemOf(selection) = selection[3]
    BY <1>1, <1>2, <1>5, RequestFields DEF Ownership, Mine
  <2>2. remote[2] = ItemOf(clip)
    BY <1>1, <1>2, <1>5 DEF Told, TellsOf
  <2>3. remote[1] = lserial
    BY <1>1 DEF NewestSerial
  <2> QED
    BY <2>1, <2>2, <2>3
<1>6. ~(clip[1] = "app" /\ selection[1] = "app")
  BY <1>1, <1>2 DEF Facing, ClientComing, ServerComing
<1> QED
  BY <1>4, <1>5, <1>6

-------------------------------------------------------------------------------
(* The invariant and what it gives. *)

\* The invariant holds at the start, is kept by every step, and so always holds.
LEMMA IInvInit == Init => IInv
<1> SUFFICES ASSUME Init PROVE IInv
  OBVIOUS
<1>1. Flow
  BY FlowInit
<1>2. OfferOrder /\ Asked /\ Withdrawals /\ Commands
  BY DEF Init, OfferOrder, Asked, Withdrawals, PendingEcho, Commands
<1>3. \A kind : /\ ~Has(toWorker, kind) /\ ~Has(status, kind) /\ ~Has(c2s, kind)
                /\ ~Has(s2c, kind) /\ ~Has(events, kind) /\ ~Has(requests, kind)
                /\ ~Has(reports, kind)
  BY DEF Init, Has
<1>4. /\ ~IsProxy(clip) /\ ~IsProxy(selection) /\ ~IsProxy(current)
      /\ ItemOf(clip) = 0 /\ ItemOf(current) = 0 /\ clip[1] # "app" /\ current[1] # "app"
  BY Shapes DEF Init
<1>5. remote[1] = 0 /\ remote[2] = 0 /\ lserial = 0
  BY DEF Init
<1>6. Listing /\ Told /\ NewestSerial
  BY <1>3, <1>4, <1>5, NewestNone DEF Init, Listing, Told, TellsOf, NewestSerial
<1>7. Undisturbed
  BY DEF Init, Undisturbed, Made
<1>8. Serials /\ Reported /\ Latest /\ Tracks
  BY <1>3, <1>4, NewestNone DEF Init, Serials, Reported, Latest, Tracks
<1>9. SourceOrder /\ Ownership /\ Facing
  BY <1>3, <1>4 DEF Init, SourceOrder, Ownership, Mine, Facing
<1>10. PasteIsPromised
  BY DEF Init, PasteIsPromised
<1> QED
  BY <1>1, <1>2, <1>6, <1>7, <1>8, <1>9, <1>10 DEF IInv

LEMMA IInvStep == IInv /\ [Next]_vars => IInv'
<1>1. ASSUME IInv, Next PROVE IInv'
  <2>1. Flow' /\ OfferOrder' /\ NewestSerial' /\ Asked' /\ Listing' /\ Told'
    BY <1>1, FlowStep, OfferOrderStep, NewestSerialStep, AskedStep, ListingStep, ToldStep DEF IInv
  <2>2. Undisturbed' /\ Serials' /\ Reported' /\ Latest' /\ Tracks' /\ Withdrawals'
    BY <1>1, UndisturbedStep, SerialsStep, ReportedStep, LatestStep, TracksStep, WithdrawalsStep
       DEF IInv
  <2>3. SourceOrder' /\ Ownership' /\ Commands' /\ Facing' /\ PasteIsPromised'
    BY <1>1, SourceOrderStep, OwnershipStep, CommandsStep, FacingStep, PastedStep DEF IInv
  <2> QED
    BY <2>1, <2>2, <2>3 DEF IInv
<1>2. ASSUME IInv, UNCHANGED vars PROVE IInv'
  <2>1. UNCHANGED <<clip, lgen, listing, toWorker, status, lserial, c2s, s2c, gen, listed,
                    remote, cmds, events, source, sources, current, withdrawn, settled,
                    requests, reports, selection, copies, pasted, crossed>>
    BY <1>2 DEF vars, gtk, wire, bridge, thread, compositor, user
  <2>2. Flow'
    BY <1>2, FlowStep DEF IInv
  <2>3. OfferOrder' /\ Asked' /\ NewestSerial'
    BY <1>2, <2>1 DEF IInv, OfferOrder, Asked, Asks, NewestSerial
  <2>4. Listing' /\ Told'
    BY <1>2, <2>1 DEF IInv, Listing, Told, TellsOf, Unlisted
  <2>5. /\ \A item : Uncrossed(item)' = Uncrossed(item)
        /\ Made("server")' = Made("server") /\ LocalUnheard' = LocalUnheard
        /\ Accounted' = Accounted
    BY <2>1 DEF Uncrossed, Live, Made, LocalUnheard, Accounted
  <2>6. Undisturbed'
    BY <1>2, <2>1, <2>5 DEF IInv, Undisturbed
  <2>7. Serials' /\ Reported'
    BY <1>2, <2>1, <2>5 DEF IInv, Serials, Reported, StandsFor
  <2>8. Latest' /\ Tracks' /\ Withdrawals'
    BY <1>2, <2>1 DEF IInv, Latest, Offering, Tracks, Withdrawals, PendingEcho
  <2>9. SourceOrder' /\ Ownership' /\ Commands'
    BY <1>2, <2>1 DEF IInv, SourceOrder, Sets, Ownership, LastSet, Mine, Commands
  <2>10. Facing'
    BY <1>2, <2>1 DEF IInv, Facing, ClientComing, ServerComing, Unlisted, Offering, LastSet
  <2>11. PasteIsPromised'
    BY <1>2, <2>1 DEF IInv, PasteIsPromised
  <2> QED
    BY <2>2, <2>3, <2>4, <2>6, <2>7, <2>8, <2>9, <2>10, <2>11 DEF IInv
<1> QED
  BY <1>1, <1>2

LEMMA Invariant == Spec => []IInv
  BY IInvInit, IInvStep, PTL DEF Spec

\* A paste brings what its proxy promised, or nothing; anything else only while
\* the news that it was replaced is on its way.  The serial an offer goes out
\* under names its item on both sides: at the client by what remote and the
\* offers behind it carry, at the server by the thread's selection and the
\* events behind it.
THEOREM PastesArePromised == Spec => []PasteIsPromised
<1>1. IInv => PasteIsPromised
  BY DEF IInv
<1> QED
  BY <1>1, Invariant, PTL

\* Once nothing is on its way the two desktops agree: a proxy stands for what
\* the other holds, under the serial served there, and no two applications'
\* items face each other.  It is so because the news of a change is always on
\* its way until the proxy is: the newest of the queued messages is the newest
\* change, from the clipboard through offers and commands to the compositor,
\* and back through reports and events; what a crossing may break is named.
THEOREM ClipboardsAgree == Spec => []Shared
<1>1. IInv => Shared
  BY SharedHolds DEF IInv
<1> QED
  BY <1>1, Invariant, PTL

=============================================================================

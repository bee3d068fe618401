--------------------------- MODULE ClipboardBridge ----------------------------
(* One clipboard for two desktops.  A copy on either side is offered to the   *)
(* other, which puts a proxy in its own clipboard; a paste from the proxy      *)
(* asks for the item under the serial of its offer.  The client is the GTK     *)
(* thread (gliff/src/clipboard_ui.rs) and the worker's bridge                  *)
(* (gliff/src/clipboard.rs); the server is the bridge                          *)
(* (gliff-server/src/clipboard.rs) and the data-control thread                 *)
(* (hypr-input/src/clipboard.rs) with its compositor.  The bytes move in       *)
(* ClipboardTransfer.                                                          *)
EXTENDS Integers, Sequences

CONSTANTS MaxCopies, MaxClears, MaxPastes   \* bounds

\* Items are numbered in the order of the copies; 0 is no item.
Empty == <<"none">>
App(i) == <<"app", i>>                   \* an application's selection
Proxy(serial, i) == <<"proxy", serial, i>>  \* RemoteProvider, or our source

VARIABLES clip, lgen, listing, toWorker, status,      \* the GTK thread
          lserial,                                    \* the worker's bridge
          c2s, s2c,                                   \* the connection
          gen, listed, remote, cmds, events,   \* the server's bridge
          source, sources, current, withdrawn, settled,  \* the data-control thread
          requests, reports, selection,               \* the compositor
          copies, clears, pastes, pasted, crossed
gtk == <<clip, lgen, listing, toWorker, status>>
wire == <<lserial, c2s, s2c>>
bridge == <<gen, listed, remote, cmds, events>>
thread == <<source, sources, current, withdrawn, settled>>
compositor == <<requests, reports, selection>>
user == <<copies, clears, pastes, pasted, crossed>>
vars == <<gtk, wire, bridge, thread, compositor, user>>

ItemOf(content) == IF content = Empty THEN 0 ELSE content[Len(content)]
IsProxy(content) == content[1] = "proxy"

Init ==
  /\ clip = Empty /\ lgen = 0 /\ listing = {} /\ toWorker = <<>> /\ status = <<>>
  /\ lserial = 0 /\ c2s = <<>> /\ s2c = <<>>
  /\ gen = 0 /\ listed = {} /\ remote = <<0, 0>> /\ cmds = <<>> /\ events = <<>>
  /\ source = 0 /\ sources = 0 /\ current = Empty /\ withdrawn = 0 /\ settled = 0
  /\ requests = <<>> /\ reports = <<>> /\ selection = Empty
  /\ copies = <<>> /\ clears = 0 /\ pastes = 0 /\ pasted = {} /\ crossed = 0

\* What a paste promised and what it brought; raced: the item was replaced on
\* its own desktop and the news of it was still on its way.
Pasted(promised, got, raced) ==
  pasted' = pasted \cup {[promised |-> promised, got |-> got, raced |-> raced]}

\* The history of the copies: whose desktop each was made on.
Copied(side) == Len(copies) < MaxCopies /\ copies' = Append(copies, side)

\* The history of the crossings: the last item copied when a change of the
\* client's clipboard met one of the server's under way.
Has(q, kind) == \E k \in DOMAIN q : q[k][1] = kind
LocalUnheard == \/ listing # {} \/ Has(toWorker, "LocalOffer") \/ Has(c2s, "Offer")
                \/ cmds \o requests # <<>>
RemoteUnheard == \/ Has(reports, "Selection") \/ Has(events, "Selection") \/ listed # {}
                 \/ Has(s2c, "Offer") \/ Has(status, "Offer")
Crosses(unheard, item) == crossed' = IF unheard THEN item ELSE crossed

-------------------------------------------------------------------------------
(* The client's desktop and the GTK thread. *)

\* Mutant: our own proxy is reported like any selection.
ChangedEchoing(content) ==
  /\ clip' = content /\ lgen' = lgen + 1
  /\ listing' = listing \cup {<<lgen + 1, ItemOf(content)>>}
  /\ Crosses(RemoteUnheard /\ ~IsProxy(content), Len(copies))

\* watch_local's handler: a change of ours is not reported; any other one is,
\* once its files are listed.
Changed(content) ==
  /\ clip' = content /\ lgen' = lgen + 1
  /\ listing' = IF IsProxy(content) THEN listing
                ELSE listing \cup {<<lgen + 1, ItemOf(content)>>}
  /\ Crosses(RemoteUnheard /\ ~IsProxy(content), Len(copies))

LocalCopy ==
  /\ Copied("client") /\ Changed(App(Len(copies) + 1))
  /\ UNCHANGED <<toWorker, status, wire, bridge, thread, compositor, clears, pastes, pasted>>
LocalClear ==
  /\ clip # Empty /\ clears < MaxClears /\ clears' = clears + 1
  /\ Changed(Empty)
  /\ UNCHANGED <<toWorker, status, wire, bridge, thread, compositor, copies, pastes, pasted>>

\* Mutant: a late listing is reported.
LocalListedLate(l) ==
  /\ l \in listing /\ listing' = listing \ {l}
  /\ toWorker' = Append(toWorker, <<"LocalOffer", l[2]>>)
  /\ UNCHANGED <<clip, lgen, status, wire, bridge, thread, compositor, user>>

\* The files are listed; a selection since then drops the listing.
LocalListed(l) ==
  /\ l \in listing /\ listing' = listing \ {l}
  /\ toWorker' = IF l[1] = lgen THEN Append(toWorker, <<"LocalOffer", l[2]>>) ELSE toWorker
  /\ UNCHANGED <<clip, lgen, status, wire, bridge, thread, compositor, user>>

\* set_remote_offer: a proxy for the server's offer, or none for an empty one.
SetRemoteOffer ==
  /\ status # <<>> /\ Head(status)[1] = "Offer" /\ status' = Tail(status)
  /\ LET serial == Head(status)[2]
         item == Head(status)[3]
     IN  IF item # 0 THEN Changed(Proxy(serial, item))
         ELSE IF IsProxy(clip) THEN Changed(Empty)
         ELSE UNCHANGED <<clip, lgen, listing, crossed>>
  /\ UNCHANGED <<toWorker, wire, bridge, thread, compositor, copies, clears, pastes, pasted>>

\* read_local: never from the server's own offer.
ReadLocal ==
  /\ status # <<>> /\ Head(status)[1] = "Read" /\ status' = Tail(status)
  /\ LET got == IF clip = Empty \/ IsProxy(clip) THEN 0 ELSE ItemOf(clip)
     IN  Pasted(Head(status)[2], got, \/ Head(status)[3] \/ Head(status)[4] # lserial
                                      \/ listing # {} \/ Has(toWorker, "LocalOffer"))
  /\ UNCHANGED <<clip, lgen, listing, toWorker, wire, bridge, thread, compositor, copies, clears, pastes, crossed>>

\* RemoteProvider: an application pastes the proxied item.
LocalPaste ==
  /\ IsProxy(clip) /\ pastes < MaxPastes /\ pastes' = pastes + 1
  /\ toWorker' = Append(toWorker, <<"Fetch", clip[2], clip[3]>>)
  /\ UNCHANGED <<clip, lgen, listing, status, wire, bridge, thread, compositor, copies, clears, pasted, crossed>>

-------------------------------------------------------------------------------
(* The worker's bridge. *)

\* on_ui: an offer under the next serial, or a request under the proxy's.
OnUi ==
  /\ toWorker # <<>> /\ toWorker' = Tail(toWorker)
  /\ LET cmd == Head(toWorker) IN
     \/ /\ cmd[1] = "LocalOffer"
        /\ lserial' = lserial + 1 /\ c2s' = Append(c2s, <<"Offer", lserial + 1, cmd[2]>>)
     \/ /\ cmd[1] = "Fetch"
        /\ c2s' = Append(c2s, <<"Request", cmd[2], cmd[3], FALSE>>) /\ UNCHANGED lserial
  /\ UNCHANGED <<clip, lgen, listing, status, s2c, bridge, thread, compositor, user>>

\* on_peer_msg: the offer goes to the GTK thread; a request against a replaced
\* offer is refused, the current one is read there.
OnServerMsg ==
  /\ s2c # <<>> /\ s2c' = Tail(s2c)
  /\ LET msg == Head(s2c) IN
     \/ /\ msg[1] = "Offer"
        /\ status' = Append(status, msg) /\ UNCHANGED pasted
     \/ /\ msg[1] = "Request" /\ msg[2] = lserial
        /\ status' = Append(status, <<"Read", msg[3], msg[4], lserial>>) /\ UNCHANGED pasted
     \/ /\ msg[1] = "Request" /\ msg[2] # lserial
        /\ Pasted(msg[3], 0, FALSE) /\ UNCHANGED status
  /\ UNCHANGED <<clip, lgen, listing, toWorker, lserial, c2s, bridge, thread, compositor, copies, clears, pastes, crossed>>

-------------------------------------------------------------------------------
(* The server's bridge. *)

\* on_compositor_event, a selection: the old offer is refused from here on, and
\* the new one is sent once its files are listed.
OnSelection ==
  /\ events # <<>> /\ Head(events)[1] = "Selection" /\ events' = Tail(events)
  /\ gen' = gen + 1
  /\ listed' = listed \cup {<<gen + 1, Head(events)[2]>>}
  /\ UNCHANGED <<gtk, wire, remote, cmds, thread, compositor, user>>

\* The listing task; superseded, it offers nothing.
Listed(l) ==
  /\ l \in listed /\ listed' = listed \ {l}
  /\ s2c' = IF l[1] = gen THEN Append(s2c, <<"Offer", l[1], l[2]>>) ELSE s2c
  /\ UNCHANGED <<gtk, lserial, c2s, gen, remote, cmds, events, thread, compositor, user>>

\* on_paste: whichever offer of the client's is the newest.
OnPaste ==
  /\ events # <<>> /\ Head(events)[1] = "Paste" /\ events' = Tail(events)
  /\ LET promised == Head(events)[2]
     IN  s2c' = Append(s2c, <<"Request", remote[1], promised, remote[2] # promised>>)
  /\ UNCHANGED <<gtk, lserial, c2s, gen, listed, remote, cmds, thread, compositor, user>>

\* on_peer_msg: the client's offer becomes our selection, or withdraws it.
OnRemoteOffer ==
  /\ c2s # <<>> /\ Head(c2s)[1] = "Offer" /\ c2s' = Tail(c2s)
  /\ remote' = <<Head(c2s)[2], Head(c2s)[3]>> /\ cmds' = Append(cmds, Head(c2s)[3])
  /\ UNCHANGED <<gtk, lserial, s2c, gen, listed, events, thread, compositor, user>>

\* Mutant: the serial is not compared.
ReadableAnyway(serial) == current # Empty /\ ~IsProxy(current)

\* on_request: refused for a replaced offer; otherwise the thread is asked, after
\* the commands before it, for its current selection, which must not be ours.
Readable(serial) == serial = gen /\ current # Empty /\ ~IsProxy(current)

OnRequest ==
  /\ c2s # <<>> /\ Head(c2s)[1] = "Request" /\ c2s' = Tail(c2s)
  /\ Head(c2s)[2] = gen => cmds = <<>>
  /\ LET msg == Head(c2s) IN
     Pasted(msg[3], IF Readable(msg[2]) THEN ItemOf(current) ELSE 0,
            Has(events, "Selection"))
  /\ UNCHANGED <<gtk, lserial, s2c, bridge, thread, compositor, copies, clears, pastes, crossed>>

-------------------------------------------------------------------------------
(* The data-control thread and its compositor.  Its own sources are numbered. *)

\* on_cmd: set_selection replaces our source, withdraw gives up the selection
\* if we have a source, and marks the report to come as an echo.
OnCmd ==
  /\ cmds # <<>> /\ cmds' = Tail(cmds)
  /\ \/ /\ Head(cmds) # 0
        /\ sources' = sources + 1 /\ source' = sources + 1
        /\ requests' = Append(requests, <<"Set", Proxy(sources + 1, Head(cmds))>>)
        /\ UNCHANGED withdrawn
     \/ /\ Head(cmds) = 0 /\ source # 0
        /\ source' = 0 /\ withdrawn' = withdrawn + 1
        /\ requests' = requests \o <<<<"Set", Empty>>, <<"Sync", withdrawn + 1>>>>
        /\ UNCHANGED sources
     \/ /\ Head(cmds) = 0 /\ source = 0
        /\ UNCHANGED <<sources, source, withdrawn, requests>>
  /\ UNCHANGED <<gtk, wire, gen, listed, remote, events, current, settled, reports, selection, user>>

\* EchoGuard.
PendingEcho == settled < withdrawn
IsEcho(content) == IF content = Empty THEN PendingEcho ELSE IsProxy(content)

\* A sync's answer expires the withdrawal before it.
Settle(w) == settled' = IF w > settled THEN w ELSE settled

OnReport ==
  /\ reports # <<>> /\ reports' = Tail(reports)
  /\ LET ev == Head(reports) IN
     \/ /\ ev[1] = "Selection"
        /\ current' = ev[2]
        /\ settled' = IF ev[2] = Empty /\ PendingEcho THEN settled + 1 ELSE settled
        /\ events' = IF IsEcho(ev[2]) THEN events ELSE Append(events, <<"Selection", ItemOf(ev[2])>>)
        /\ UNCHANGED <<source, pasted>>
     \/ /\ ev[1] = "Send" /\ ev[2] = source
        /\ events' = Append(events, <<"Paste", ev[3]>>)
        /\ UNCHANGED <<source, current, settled, pasted>>
     \/ /\ ev[1] = "Send" /\ ev[2] # source
        /\ Pasted(ev[3], 0, FALSE)
        /\ UNCHANGED <<source, current, settled, events>>
     \/ /\ ev[1] = "Cancelled"
        /\ source' = IF ev[2] = source THEN 0 ELSE source
        /\ UNCHANGED <<current, settled, events, pasted>>
     \/ /\ ev[1] = "Done"
        /\ Settle(ev[2])
        /\ UNCHANGED <<source, current, events, pasted>>
  /\ UNCHANGED <<gtk, wire, gen, listed, remote, cmds, sources, withdrawn, requests, selection,
                 copies, clears, pastes, crossed>>

\* The compositor replaces its selection, cancelling our source if it was it.
Selected(content) ==
  /\ selection' = content
  /\ reports' = reports
       \o (IF IsProxy(selection) THEN <<<<"Cancelled", selection[2]>>>> ELSE <<>>)
       \o (IF content = selection THEN <<>> ELSE <<<<"Selection", content>>>>)

HandleRequest ==
  /\ requests # <<>> /\ requests' = Tail(requests)
  /\ LET req == Head(requests) IN
     \/ /\ req[1] = "Set" /\ Selected(req[2])
     \/ /\ req[1] = "Sync" /\ reports' = Append(reports, <<"Done", req[2]>>)
        /\ UNCHANGED selection
  /\ UNCHANGED <<gtk, wire, bridge, thread, user>>

RemoteCopy ==
  /\ Copied("server") /\ Selected(App(Len(copies) + 1))
  /\ Crosses(LocalUnheard, Len(copies) + 1)
  /\ UNCHANGED <<gtk, wire, bridge, thread, requests, clears, pastes, pasted>>
RemoteClear ==
  /\ selection # Empty /\ clears < MaxClears /\ clears' = clears + 1
  /\ Selected(Empty) /\ Crosses(LocalUnheard, Len(copies))
  /\ UNCHANGED <<gtk, wire, bridge, thread, requests, copies, pastes, pasted>>
RemotePaste ==
  /\ IsProxy(selection) /\ pastes < MaxPastes /\ pastes' = pastes + 1
  /\ reports' = Append(reports, <<"Send", selection[2], selection[3]>>)
  /\ UNCHANGED <<gtk, wire, bridge, thread, requests, selection, copies, clears, pasted, crossed>>

-------------------------------------------------------------------------------
Steps ==
  \/ \E l \in listing : LocalListed(l)
  \/ SetRemoteOffer \/ ReadLocal
  \/ OnUi \/ OnServerMsg
  \/ OnSelection \/ OnPaste \/ OnRemoteOffer \/ OnRequest
  \/ \E l \in listed : Listed(l)
  \/ OnCmd \/ OnReport \/ HandleRequest
Next ==
  \/ Steps
  \/ LocalCopy \/ LocalClear \/ LocalPaste
  \/ RemoteCopy \/ RemoteClear \/ RemotePaste
Spec == Init /\ [][Next]_vars

-------------------------------------------------------------------------------
(* Properties. *)

\* Nothing is on its way.
Quiet == /\ listing = {} /\ listed = {}
         /\ toWorker \o status \o c2s \o s2c \o cmds \o events \o requests \o reports = <<>>

\* No echo: an offer carries an item copied on the side that sends it, or
\* none.  Our own selections come back as changes on both desktops, and a
\* report of one would bounce between them.
From(q, side) == \A k \in DOMAIN q :
                   q[k][1] = "Offer" => q[k][3] = 0 \/ copies[q[k][3]] = side
OffersAreForeign == From(c2s, "client") /\ From(s2c, "server")

\* Once nothing is on its way, a proxy stands for what the other desktop holds,
\* under the serial that is served there, and two applications' items never
\* face each other unshared.  Two exceptions: copies that cross may leave two
\* proxies, and our selection or its withdrawal may have taken the place of an
\* item copied on the server just before it came (crossed), already offered.
Shared ==
  Quiet => /\ IsProxy(clip) /\ ~IsProxy(selection)
                => \/ ItemOf(clip) = ItemOf(selection) /\ clip[2] = gen
                   \/ ItemOf(clip) <= crossed
           /\ IsProxy(selection) /\ ~IsProxy(clip)
                => ItemOf(selection) = ItemOf(clip) /\ remote[1] = lserial
           /\ ~(clip[1] = "app" /\ selection[1] = "app")

\* A paste brings the item its proxy promised or nothing; another item only
\* when it replaced the promised one and the news was still on its way to the
\* end that checks the serial.
PasteIsPromised == \A p \in pasted : p.got \in {0, p.promised} \/ p.raced
===============================================================================

# Verification of gliff

gliff shows one Hyprland output, remote or virtual, in a window on another
machine. `gliff` (the client, GTK) starts `gliff-server` over ssh; the server
captures the output, encodes it as H.264 and streams it over one ordered byte
stream; input, acknowledgements and the clipboard share that stream.

This directory holds TLA+ modules of the program's state machines, the TLC
configurations that check them on small instances, and proofs that TLAPS checks
for every value of the constants. `PROJECT.json` lists the components, the runs,
the source lines behind every definition, and, for every property, a small
change of the code (a *mutant*: an operator marked `Mutant:` before the
definition it replaces) under which the property fails.

Contents: [inventory](#inventory), [plan](#plan), [modules](#modules),
[runs](#runs-and-bounds), [fairness](#fairness), [proofs](#proofs),
[limits](#what-is-not-modelled).

## Inventory

All paths are under `src/crates/`.

| Component | State it keeps | Operations | What makes it correct |
|---|---|---|---|
| **Server writer task** (`gliff-server/src/writer.rs`) | queue of packets, `Notify` permit, report channel of one | `send` (coalescing push), pop, write, report, abort on drop | the queue is bounded; coalescing separates no frame from its config and no cursor position from its shape; clipboard messages are reliable and ordered; no lost wake-up |
| **Capture thread, screen** (`hypr-capture/src/thread.rs`, `lib.rs`) | ring of buffers with a generation and `busy` flags, capture in flight, `want_frame`, `stopped`, `quit` | commands request, recapture, release, stop; session events; frame events; teardown | no buffer is captured into while its picture is in use; no slot leaks; a wanted capture is not forgotten |
| **Capture thread, cursor** (`thread.rs` 682-872, `cursor.rs`) | a second capture session with one buffer, position, restart flags | restart, reallocation, frame and session events | the cursor's picture and position stay paired; a stopped session restarts |
| **Session loop** (`gliff-server/src/session.rs`) | `pending`, `last_frame`, pace and refinement timers, `want_keyframe`, bytes in flight, the encoder's stream, output size | the arms of one `select!`: capture events, client messages, write reports, timers, clipboard, first-frame rescue; then `pump_encoder` | the client ends on the current content; a resize leaves no permanent mismatch; a keyframe request is served on a still screen |
| **Rate control** (`gliff-server/src/rate.rs`) | link estimator (send and ack history), controller (target, quality), ladder of stream levels | on sent, on ack, on idle, step | the target follows the link and stays within bounds; the ladder steps back up; all encoder streams together use the target |
| **Client decode loop** (`gliff/src/net.rs`) | decoder, coded stream, `undelivered` picture, zoom | stream config, frame, ack, keyframe request, idle drain | every access unit meets its decoder; every frame is acked once; no final picture is kept back |
| **Client UI** (`gliff/src/main.rs`, `paintable.rs`, `clipboard_ui.rs`, ...) | session handle with an epoch, resize request, reconnect timer, painted picture | `poll_frames`, `poll_status`, reconnect, resize | a late event of an old session does not touch the new one; resize requests converge |
| **Clipboard transfer engine** (`gliff-transport/src/clipboard/mod.rs`, `gliff-proto/src/clipboard.rs`) | fetches and serves by transfer id, windows, timeouts, one task per serve | fetch, serve, data, ack, abort, timeout | a fetch that succeeds has every byte in order; every fetch ends; windows bound memory; a late abort hits no other transfer |
| **Clipboard bridges** (`gliff-server/src/clipboard.rs`, `gliff/src/clipboard.rs`, `hypr-input/src/clipboard.rs`) | local and remote offers with serials, pending pastes, spools, the echo guard | offer, paste, withdraw, clear, source cancelled | no echo loop; both desktops end sharing one item; a paste brings what its proxy promised |
| **Transfer progress, spool, notifications** (`gliff-transport/src/clipboard/{progress,files}.rs`, `gliff-server/src/notify.rs`, `gliff/src/clipboard_ui.rs`) | running jobs, a spool directory per offer filled once, a notification or a bar per job | run, watch, finish, cancel; create, fill, retire, sweep; post, replace, close | files handed out stay whole; directories go; what is shown is what runs |
| **Framing** (`gliff-transport/src/lib.rs`) | read buffer, payloads still to skip | read message, read payload, write | a cancelled read loses nothing; skipped payloads never desynchronise the stream |
| **Protocol messages** (`gliff-proto/src/{msg,cbor,frame,chroma,color}.rs`) | none | encode, decode, chroma packing | what is decoded is what was encoded; the packing of 4:4:4 in two pictures loses nothing |
| **Input thread** (`hypr-input/src/{thread,keymap,keymap_watch,lib}.rs`) | pressed keys and buttons, keymap, virtual devices | key, button, motion, keymap change, release all | nothing stays pressed after the session or a focus change |
| **H.264 on VA-API** (`gliff-va/src/{encoder,decoder,surface}.rs`, `h264/*`) | reconstructed surfaces, decoded picture buffer, parameter sets | encode, decode, reset | a picture is referenced only while its surface holds it; the bit writer and the parser agree |
| **VA-API bindings and context** (`gliff-va/src/{bindings,display,context,settings}.rs`) | driver handles | calls into libva | the driver's |
| **Vulkan conversion** (`gliff-vk/src/*`) | pipelines, images, a pool of output images | convert, import, export | an image is reused only when nothing reads it |
| **CPU codec** (`gliff-sw/src/*`) | openh264 encoder and decoder | encode, decode, flush | the picture the decoder holds back is flushed |
| **Hyprland IPC** (`hypr-ipc/src/lib.rs`) | none | request over a socket | the compositor's |
| **Entry points** (`gliff-server/src/main.rs`, `gliff-transport/src/ssh.rs`, `gliff-probe`) | none | argument parsing, process start | |

How they interact:

```
 compositor --wayland--> capture thread --events--> session loop --send--> writer task --stream--> client loop --ch(2)--> UI
                 ^            ^  commands / release     |  ^ report             |                       |
                 |            +-------------------------+  +--------------------+                       |
                 +--- set mode (IPC) -------------------+  <------------ acks, keyframe requests, input-+
```

* The session loop, the writer task and the clipboard tasks run on one thread
  (tokio `LocalSet`) and interleave at their awaits only. The capture and input
  threads are OS threads with unbounded channels; a frame that is dropped sends
  its own release to the thread, from whatever place the drop happens.
* The client's loop runs on its own thread and meets the UI in a
  `sync_channel(2)` that the UI polls.

What is hard here: frames of an old ring whose releases arrive late; a resize in
three places at once (compositor, thread, session) that can be rejected late;
guards of a `select!` that are evaluated only when a turn ends, so a timer that
should be armed and is not is a lost wake-up; coalescing in front of a decoder
whose state depends on every packet; acks as the only flow control; pictures
that a decoder, a full channel or a pacing rule keeps back when nothing follows
them; and the clipboard's concurrent transfers with timeouts and aborts in both
directions; one window with many workers and servers at different stages of
their lives; a shared clipboard whose two owners change it at once; a keymap
that changes while keys are held; numbers of pictures that wrap; pastes that
share one directory. `PROJECT.json` lists these as hazards, each at its line.

## Plan

In order of importance to the user, who wants the remote screen in front of
them and no stale or broken picture. Done:

1. `PacketQueue`, `WriterTask`, `PacketStream`: the writer, and its stream read
   by the client.
2. `CaptureThread`, `CapturePath`: the thread with any consumer, then composed
   with the session that resizes under it. `ServerThreadsProofs` has the proofs of
   both threads and of the stream.
3. `VideoSession`, the abstract `ScreenMirror` and `VideoSessionProofs`: encoder to
   painted picture.
4. `ClipboardTransfer`, `ClipboardTransferProofs`: two engines back to back.
5. `LinkEstimator`, `RateController`, `Ladder`, over `RateTerms`, and `RateProofs`
   of all three.
6. `ServerSession` and `RemoteSession`: the window with its connections, the
   servers they start and the machines' monitors.
7. `ClipboardBridge`, `ClipboardBridgeProofs`: offers, proxies and pastes over both
   desktops.
8. `Seat`: the keyboard from the window to the remote compositor. `WindowProofs`
   has its proofs and those of `RemoteSession`.
9. `H264Encoder`, `H264Decoder`, `H264Syntax`, `ReferenceMarking` (abstract),
   `DecodePipeline`, `DecodePipelineProofs`: reference pictures, headers, and the
   ring of display images.
10. `TransferJobs`, `TransferJobsProofs`, `ClipboardLists`, `Chroma`: pastes as the
    user sees them, and the pure rules of offers and of packed pictures.

Left: `CursorCapture` (the cursor's capture session and its restart rules), the
pointer in `Seat`, the estimator, controller and ladder composed, the choice of
tier and codec.

Every safety property a run checks is now also a theorem, and so is that `Chroma`'s
packing is lossless for every even size. Theorems worth proving next: more of
`RemoteSession`: a stale worker never touches the window.

## Modules

### PacketQueue and WriterTask: the server's writer

`PacketQueue` is `Queue`. The deque is only appended to, filtered and popped at
the front, so it is modelled as a set of packets numbered in the order of their
pushes: `retain` is a set difference, and the front is the least number. The
five clipboard messages are one kind because `push` treats them alike.

`WriterTask` is the `Writer`, its task and the part of the session that talks to
it. A step is what runs between two awaits. The task has three: the
notification (`Wake`), the socket (`WriteDone`, which may fail) and the report
channel of capacity one (`SendReport`). Dropping the `Writer` aborts the task at
any of them. `ref` on a packet names what it depends on: the config a frame was
encoded under, the shape a cursor position is for. Payloads are left out.
`received` is the history of packets written whole, which is what the client
reads, since the stream is ordered.

### PacketStream: the writer's stream, read

Extends `WriterTask` with the framing of `gliff-transport`: the stream is cells
(two of a header, one of a body, one or two of a payload), and the client's loop
races `read_msg` against its other arms, so a read may be dropped between any two
cells (`Framed` keeps the header and what is left to skip). Kinds that this
client has no variant for are skipped with their payload. A write that is broken
off leaves a cut packet. The reader's steps are taken after the writer's last:
nothing it does reaches the writer, so another order reads the same stream.
Limits on sizes are left out, and the server's reader, which is the same code
with no unknown messages.

### CaptureThread: the ring

The thread handles one command or Wayland event at a time and never blocks, so
each handler is one action, with `maybe_capture` (`MaybeCapture`) at its end as
in the code. Commands, events to the consumer and unread Wayland events are
three queues. The compositor is external: it may change the size, complete or
fail the capture it owes, or end the session, at any moment (`EndCapture` tells
the session and fails the capture it owes, in either order). Names of frame
objects are drawn from a small set and may be reused as soon as no unread event
bears them, as the connection does: an event of an abandoned capture must not be
taken for one of the current capture. The consumer is *any* consumer: it may
hold frames for ever and drop them in any order. The proofs are about this
module; TLC checks its invariants where the session is the consumer, in
`CapturePath`.

Left out: formats, planes, damage, the cursor.

### CapturePath: the ring under the session

Extends `CaptureThread` and replaces the arbitrary consumer by the session loop:
`pending` and `last_frame` (the only frames it holds), one request kept
outstanding (`capture_asked`), `resize` with its wait for the mode
(`BeginResize` and `FinishResize`, since the loop awaits in between), an encoder
that may reject the new size, stale frames, the first-frame rescue, and the end
(`Leave`, then `DropFrames`, in the order the drops happen). Whether a pump
finds room on the link is a free choice here. `capture_asked` is true at every
await because every turn ends in `pump_encoder`; it is therefore not a variable.

### VideoSession: from encoder to painted picture

The session loop's turn (`Turn`) is one of its arms followed by `pump_encoder`
and the guards of the next `select!` (`armed`). Time is abstract: a deadline has
passed or not. A timer's own arm knows its deadline has passed; any other arm
may find it so. The byte cap is abstract with frames in flight and open with
none. `Encodes` covers new frames, refinements of a still one (which may
converge early) and the fallback to the CPU pipeline when the first GPU encode
fails. A ladder step picks any geometry; the encoder may reject it; the config
is sent as in `apply_stream_params`. The queue is `PacketQueue`'s.

The client decodes, acks, requests keyframes, drains on idle and offers a
picture again that the full channel refused. The client has a GPU or a CPU tier
(`dec.tier`); the CPU tier's decoder holds back one picture until it is flushed. The decoder is external: a
new one needs a keyframe; one that fails can go on from the next keyframe.

### ScreenMirror: what remote display promises

The abstract specification: the shown content only moves forward through the
contents the screen has had, and on a still screen it ends on the current one.
`VideoSession` implements it with the identity mapping on `screen` and `shown`
(`MirrorSpec`, safety and liveness).

### ClipboardTransfer: the transfer engine

Two instances of `Transfers`, one per side, with the messages on their way as one
sequence per direction (`out`): the owner forwards what the engine posts, in
order, and the peer handles one message at a time. `out` is the engine's bounded
channel and everything behind it; that it may be full (`OutCap`) is what makes
the awaits of `out.send` real awaits, where a fetch may be cancelled. A fetch is
a future with a program counter: `request`, `recv`, `write`, `ack`, `finish`, then
its result. It may be dropped at any await (`Cancel`), which runs the guard's
`drop` (`GiveUp`). A serve is a task: `opening` (the server's and the client's
bridges open a file in a task of their own before they call `serve`), `credit`,
`read`, `send`. `reg` says that the fetch or serve is in the engine's table;
`AbortLater` is the task that `send_later` spawns, so an Abort may be overtaken
by whatever else is sent meanwhile. Chunks are one unit long and numbered.

Left out: the choice of an item and the offers' serials (`ClipboardBridge`), the wrap
of ids after 2^31 transfers, `PeerGone` (both engines end with the session), and
peers that do not run this engine: a chunk of the wrong length or over `CHUNK`
cannot come from `serve_loop`.

### LinkEstimator, RateController and Ladder: the rate control

Three modules over integers. Instants become ages that `Tick` advances together
and that stop beyond every hold, so the controller and the ladder run for ever
in a finite model; the estimator, whose samples carry their times, has a clock
and a bound on it. Fractions are compared by cross multiplication, and
conversions to `u32` truncate as the code's do.

`LinkEstimator` is fed by a link whose capacity is known (a unit of data a tick
and a fixed delay), which is what its samples are compared with. With `Stalls` an
ack may be late, and later ones behind it. The smoothed values are left out: the
log and the byte cap use them, the rate does not.

`RateController` is the controller and the session around it: `Ack` is the
handler of a `FrameAck` (the estimate is any input), followed by whatever stream
the ladder then wants; `Stream` is `apply_stream_params` with its early return
and its rejection; `Send` notes a busy link and may program the encoder again.
`Block` is `note_blocked`. The base round trip is fixed, so the holds that depend on it
are constants.

`Ladder` is the ladder with its real levels and thresholds; only the holds and
the bounds of the rates are small. `Measure` is what an ack brings. Congestion
is only noted when slow start ends or after it, because `Cut` in
`RateController` does both at once.

### ServerSession and RemoteSession: connections, ends and sizes

`ServerSession` is one run of `gliff-server` as values: the stages of `run`, the
sizes (`FitExtent` and `FitMirror` with the code's rounding and clamps), and what
is left to drop on each way out. An operator gives the set of servers that an
event may leave where the encoder has a say: a mirrored screen that changes its mode
(`ScreenChanged`) is fitted to the last window again or, when the encoder rejects
that, keeps the old stream, and its config goes out either way. `fitted` is the tier that
the stream was fitted for, from which the fallback at the first encode (`FallenBack`)
departs. `RemoteSession` is the window: `start_session`
with its generation, `poll_status` and `schedule_reconnect`, the timers, the
resize negotiation (`view`, `reqd`, `serverView`), a worker per connection with its
handshake, a server per connection, and the monitors of each machine, which
servers of one machine share. A worker that the window has left finds out at its
next await; while it is in the handshake, that is when the server answers.
Statuses are polled one at a time, and settle timers are a set, as in GTK's main
loop. The capture and input threads of a server are one part. Fractional scales
are left out; the zoom is `VideoSession`'s.

### ClipboardBridge: one clipboard for two desktops

A copy on one desktop is offered to the other, which puts a proxy in its own
clipboard. The GTK thread with its `local_gen` and its listing of files, the
worker's bridge, the two directions of the connection, the server's bridge with
its generation, and the data-control thread with the compositor's requests and
reports are each a queue or a few variables. Items are numbered in the order of
the copies, so that an echo is an offer of an item copied on the other side
(`OffersAreForeign`). What the code does not promise is excused by history
variables: `crossed` is the last item whose offer met another change under way,
and `raced` marks a paste of an item whose replacement was still being reported.

### Seat: the keyboard

The window's `pressed_keys` and focus, the thread that watches the local keymap,
the task that forwards keymaps and input in one order, the session loop, and the
input thread with its xkb state and the virtual keyboard. A key's role is a
function of the keymap, so a key may be a modifier under one and a lock under
another; a keymap may be one that the server's library rejects. A key is its code,
since a keymap replays the held keys in the order of their codes (`pressed_keys` is a
`BTreeSet`), and of two lock keys held together the second counts the first's lock
as its own and clears it when it is let go (`Seconds`). One session at a
time; buttons, motion and layout groups are left out.

### H264Syntax, H264Encoder, H264Decoder, DecodePipeline: the GPU codec

`H264Syntax` is `gliff-va/src/h264` bit by bit: what `writer.rs` writes (SPS, PPS,
slice header, escaping, units) and what `parser.rs`, `bits.rs` and `annexb.rs` read.
`H264Encoder` is the program's encoder (one reference, order counts of type 0), and
another (two references, order counts of type 2, pictures that are not references,
modified lists, marking by a sliding window or by the operations 1 and 5): the decoder
is written for more than its own encoder sends. `H264Decoder` maps one access unit and
a decoder to the next, as the code does before it calls the driver: parameter sets,
slots, both kinds of marking, the reference list, order counts, the restart of
operation 5, and a failure at each stage, which includes the marking's: a long-term
operation is refused when the picture is in its slot already.
`DecodePipeline` is the client's decoder of two such streams: the halves are
recombined in a ring of display images that the GTK thread holds and releases.
One access unit stands for the pair, since the encoders work in step.

`ReferenceMarking` is the abstract specification: the marking process as the
standard has it, over a set of pictures with numbers that do not wrap. The decoder's
numbered surfaces with wrapping frame numbers implement it on both streams
(`MarksAsTheStandard`, with `held` the set of the pictures in the slots: the
sliding window takes out the least number, which is the oldest picture). One command
is as the decoder has it, and not the standard: operation 5 leaves no picture, where
the standard keeps the one that carries it (see [observations](#observations)). What follows from it is kept in a history variable:
`forgotten` has the pictures with operation 5 since the IDR, and a later picture is excused
from being exact (`excused`), because its reference may be one of them. Nothing
else is: the other reference pictures, their order counts and the pairing of the halves
must still be right after operation 5.

The headers are too long to carry through a state space, so `H264Encoder` sends
the record that parsing yields, and `MCDecodePipeline` checks by assumptions that TLC
evaluates that this is what comes of writing, framing, splitting and parsing:
`HeadersParse` for every header of the model, and for samples of every field's
range `SpsSurvive`, `PpsSurvive`, `SlicesSurvive`, `EscapesSurvive`, `SizesSurvive`.
`Chroma` is the packing of a 4:4:4 picture in two 4:2:0 ones, with the code's
index arithmetic; `TwoStreamsAreLossless` and `OneStreamKeepsBlocks` are checked
over pictures of up to six by six whose samples are all different, and proved for
every picture of an even size in `DecodePipelineProofs`.

### TransferJobs and ClipboardLists: pastes as the user sees them

`TransferJobs` has the jobs of a bridge (`Jobs::run`, `watch`, `finish`, `cancel`), the
spool directory that the first paste of an offer's files fills and the others
wait for (`OnceCell`: any waiter may be next), its grace after the offer was
replaced, and where a job is shown: the server's notification thread with the
desktop's daemon (`surface` is `"notes"`) or the client's bars (`"rows"`), chosen at
the start. A task that is aborted runs on until it is dropped (`Cancel`, then
`DropTask`). A session may end or be killed, and the next one sweeps what a dead
process left. How a fetch gets its bytes is `ClipboardTransfer`'s: here a file arrives
or fails. The daemon is external and keeps the id it is asked to replace.

`ClipboardLists` has the pure rules (`gliff-proto/src/clipboard.rs`, `files.rs`): the
MIME types of an offer, URI lists byte by byte, the checks on a peer's list, the walk
that makes one and the tree that a paste makes of it. `MCTransferJobs` states what they
are for as assumptions that TLC evaluates on small inputs: what is offered can be
read (`ForwardedCanBeRead`), a proxy's offer says the same (`OffersComeBack`), a list
names the very files (`ListsNameTheFiles`, `OtherHostsAreSkipped`), any accepted list
stays under the spool, each entry once (`PastesStayInTheSpool`), and a selection
that is offered is pasted as the same tree (`PastesAreCopies`).

## Runs and bounds

| Run | Question | Bounds |
|---|---|---|
| `writer` | Does coalescing ever separate what belongs together or lose a reliable message? Is every queued packet written or superseded? Does a reader that is dropped anywhere, and skips what it does not know, stay in step? | four sends of any kinds: enough for a config pushed behind a queued frame, or a shape behind a position, while a write blocks; three packets read |
| `capture` | Is a buffer in use ever captured into, is a wanted capture forgotten, do pictures fit again after a resize that is late or rejected? | a ring of 2 (tighter than the real 3), a headless output resized once or a mirrored one, two object names: a release may be a ring late |
| `video` | Does every access unit meet its reference; does either tier implement `ScreenMirror`, the CPU's decoder holding a picture back; does a decoder that lost its reference get a keyframe? | two contents; two of ladder steps, decode errors and zooms in all; one frame in flight |
| `clip` | Can a fetch succeed without the whole item; can an Abort hit the wrong transfer; can a queue overflow? Does a transfer need a timer to get on? Do the timers end everything when an application hangs? | one fetch in each direction at once, a window of 1, a source one chunk over the cap, two messages on the way |
| `ladder` | Does the ladder oscillate at a steady rate? Is a level the link can pay for reached? | the seven real levels, five rates on both sides of their thresholds, two stream sizes, holds of 1, 2 and up to 4 ticks |
| `rate` | Is every clamp ordered, does the encoder have the target, does a target once cut climb back? | both encoders; a dual and a small single stream whose floor is above its ceiling before the clamp, each of which may be rejected; rates below and far above the bounds; holds of 2 evaluations |
| `link` | Are the samples what the link carries? | four frames of one or two units, eight ticks, a window of 2 or 3 ticks: samples leave the window and frames follow an idle spell |
| `session` | Do connections the window left end, does a window that is done end connected or with its button, to the machine chosen last, and does the stream end at the window's size? | three machines (headless, mirrored, another version), one retry, three windows (one too large for the encoder, one too small), a smaller maximum on the CPU than on the GPU; three events: connections, resizes, changes of the screen, rejections, faults |
| `bridge` | Does a selection echo; do both desktops end sharing one item; does a paste bring what was promised? | three copies on either side, two clears, one paste |
| `seat` | Can a key stay pressed; do modifiers and locks survive a keymap change; does the last keymap arrive? | two keys, both locks under one keymap (the order of their codes matters), a modifier and a character under another, three keymaps with one that is rejected, two changes, two sessions |
| `codec` | Are the pictures that are shown the ones that were sent; is an image on screen drawn on; does the decoder mark as the standard, but for operation 5? | four pictures, frame numbers that wrap at 3 and order counts at 2, two display images; five of pictures, failures, zooms, stalls and fresh encoders, at most four of them pictures |
| `jobs` | Do files handed out stay, do directories go, does the screen show the jobs that run? | two files, two offers, two pastes, one report each while running; five of offers, pastes, reports, presses, ends and kills |

The bounds named `Max...` in the modules are guards on counters that the code
does not limit. `MaxEvents` bounds together what the user, the window and fate do,
so that each kind of event meets each other kind without a product of bounds;
`MaxSteps` of `DecodePipeline` counts the pictures with them.
Two contents are enough for "newest wins" because frames carry nothing but their
content; `MaxWire = 1` makes the writer block while a packet is unread, which
is what fills the queue. In `session`, `Epochs` is `2 * MaxEvents - 1` because a
server may take its output with it that a later one had taken for its own, and the
connection that makes up for this needs a number too. No run uses symmetry.
`CHECK_DEADLOCK FALSE` is set where the machine may stop: the session ends, the
user stops, the stream ends, or the clock of `LinkEstimator` has reached its
bound. The controller and the ladder never stop.

### Observations

Behaviour of the code that the models show and no property forbids. The first
four can be seen as violations of definitions that no run checks:

* `session.rs:974`: the controller is reconfigured before the new encoder is made.
  When the ladder drops the auxiliary stream and the encoder cannot be made, the
  old encoder with its two streams stays, but the controller counts one, and the
  next `apply_rate` gives each stream the whole target. (`TargetIsForAllStreams` of
  `RateController` fails with a dual and a quarter-size stream.) When both agree on
  the geometry again, the encoder has the target again (`EncoderFollows`).
* `rate.rs:135`: the time of the last ack before a send is never after the send,
  so the `max` of the two intervals is always the first. When that ack was late,
  the interval starts late, and the sample is above the link's capacity.
  (`RateNotOverstated` of `LinkEstimator` fails with `Stalls = TRUE`.)
* `session.rs:320`: "end the capture and input threads before dropping the
  output", for Hyprland aborts if a capture is alive when its monitor goes. The
  end of `run` does so. An error that leaves the loop by `?` (242-312) drops the
  `Session` instead, whose fields go in declaration order: `output` (406), which
  removes the monitor, before `capturer` (424), which joins the thread.
  (`OutputOutlivesCapture` of `RemoteSession` fails.)
* `decoder.rs:616`: the comment at 231 has operation 5 make "the current picture look
  like frame 0 to the next one", and 8.2.5.4 of the standard keeps that picture.
  `decode` stores it in its slot (220), and `apply_mmco` then frees every slot, so the
  next picture finds no reference. (`LooksLikeFrameZero` of `DecodePipeline` fails with
  an IDR and one picture with the operation.) The program's own encoder never sends
  it. Besides, `decode` leaves `prev_msb` and `prev_lsb`, from which order counts of
  type 0 go on; the other encoder of the models has them of type 2, where nothing
  else is kept.
* `session.rs:1449`: two servers that start together may list the monitors before
  either made its output, and the later then takes the earlier's, which removes
  it when it ends; the comment at 1346 has such names unique. The client
  reconnects.
* `session.rs:744`: a mirrored screen whose new fit the encoder rejects keeps a stream
  that may have the window's size, for which the client never asks again; and
  `session.rs:1059` lowers or raises `encoder_max` under a headless output that
  `resize` does not fit again at the same size. `ResizeSettles` excuses just these: a
  refused last fit, and a headless stream that is right for the tier it was fitted for.
* `decoder.rs:121`: an SPS is noted before its stream is opened, so that an open
  that fails is not tried again until another SPS comes. `pipeline.rs:457`: after a
  wait of 100 ms for a release, the oldest image is taken back, and a late
  release frees an image in use; the model's stalls excuse `HeldUntouched`.
* A paste resolves against the server's newest offer (`gliff-server/clipboard.rs:258`),
  and a withdrawal passes for another's clear (`hypr-input/clipboard.rs:226`); when
  copies on both desktops cross, one of them is replaced by the other's proxy.
* A lock key that is held across a keymap change keeps its lock.
* A notification that the user closes while a report of its job is being posted is
  shown again, and then not updated or removed (`notify.rs:120` has it stay closed).
* A session that ends during a paste leaves its notification or bar. The client's
  bar keeps its id, and its Cancel, or an old failure's timer, then means the
  next session's job of that id (`clipboard_ui.rs:303`, `main.rs:781`).
* A paste that takes longer than the grace after its offer was replaced loses its
  directory as it ends, when its list has just been handed out (`files.rs:171`).
* `forwardable_mimes` trims a type and `resolve_mime` compares it untrimmed, so a
  padded type can be offered and not read.

## Fairness

* The runtime polls a ready task: `WF` on the writer task's steps and on the
  client's. `tokio::select!` picks among ready arms at random, so a ready arm is
  not passed over for ever: `WF` on each arm of the session loop.
* calloop dispatches every ready source and looks at `stop_requested` after
  every dispatch: `WF` on the capture thread's handlers and on `Quit`. The loss of
  the Wayland connection (`Disconnected`) is possible at any time and never
  assumed; a model in which it must happen ends every session by itself.
* A write ends while the client reads or the connection fails (`WriteDone`).
* The compositor answers a capture and applies the mode it was asked for. This
  is strong fairness, because `MaxWl`, a bound of the model, may disable it for
  a while. `PicturesFitAgain` also assumes that the screen goes on changing (a
  still one completes no capture) and that the link has room again and again.
* `ClipboardTransfer`: messages are forwarded, ready tasks run, timers fire, and
  a file is opened or closed in time (the code puts no timer on `open` and
  `finish`). Sources and sinks may hang for ever in a read or a write. One weak
  fairness for all of these together is enough, and less than the runtime gives,
  because no step can be repeated for ever. That the timers are not needed while
  applications answer is the invariant `NobodyWaitsForNobody`: a fetch never waits
  for a serve that waits for it.
* `Ladder` and `RateController`: time passes, frames are sent and acked (`WF` on
  `Tick`, `Consider`, `Send`, and on the steps that are `Acked`): `ClimbsBack` assumes
  nothing else, not even that the rate stays, and `Recovers` only that the link is
  calm from some moment on.
* `RemoteSession`: the GTK main loop polls and its timers fire; each worker and each
  server takes its next step, which includes that a server answers its client and
  that the compositor answers a request. Faults, users and windows are never
  assumed. `Seat`: the keymap watcher, the forwarding task, the session and the input
  thread go on; keys and focus are the user's.
* `TransferJobs`: a grace ends, jobs go on (a fetch ends by `TransfersEnd` of
  `ClipboardTransfer`; the application reads its list or closes its end), and cancels
  are taken. The application's part is an assumption: `write_body` has no timer.
* Nothing makes the screen change in `VideoSession`, the user zoom, or the
  ladder step: `MirrorSpec` and `DecoderRecovers` hold for a still screen.

## Proofs

The first part of `ServerThreadsProofs` proves, for any number of sends, the writer's safety invariants:
those that the `writer` run checks, and that the queue stays bounded
(`QueueStaysBounded`) and no wake-up is lost (`WakeupsAreKept`), which no run needs to
repeat. `PositionsKeepTheirShape` is the cursor's analogue of `FramesKeepTheirConfig`,
by the same dependencies. The inductive invariant: `Fifo` (the packets on the wire, being written
and queued are in the order of their sends), `ConfigsInOrder` and `Dependencies`
(what a live packet depends on is itself still live, or on the wire). The safety
invariants say what the client has received; they are not inductive alone,
because a push removes queued packets before the client has seen anything. Only
`Dependencies` says that what is removed is not what a queued frame waits for;
its hard case is a config pushed behind a queued frame, which supersedes only
the configs behind that frame. The assumption is `MaxSent \in Nat`.

`StreamStaysInSync`, behind it, is about the client's reader of that stream, for any
kinds the client has no variant for and whatever reads are dropped:
`StreamInSync`. The reader starts when the writer has written its last, in a state
that superseded nothing (any stream is one of those), so the first
half of the argument is the writer's: the packets written have every number once
(`ReadsWhole`, by pigeonhole from `Fifo`), so that the stream is consecutive packets and a
cell's place in it follows from its packet's length (`Ahead`). The reader's
invariant (`Reading`) then has one number `n`, the next packet to be handled, and the
reader at one of three places: in front of `n`, or with the rest of a skipped payload
still to discard (`Between`); behind its header, which is stored, whatever became of the
read (`HeaderRead`); or so many cells into its payload (`InPayload`). What was
delivered are the known messages before `n`, in order and each with the cells of
its own payload (`Follows`). `StreamInSync` alone says nothing of a dropped read: that
`taken`, `pending` and `skip_left` together still point at a packet's boundary is what
makes it inductive. The assumption is `StreamAssumption`.

The second part of `ServerThreadsProofs` proves, for a ring of any size, any sizes and any
consumer of `CaptureThread`, the types of its state, `NoOverwrite`, `SlotsAccounted`, `WantedIsCaptured`
and `GenerationsInOrder`; the `capture` run checks the first and the third. The inductive invariant
(`Books`) gives every slot at most one owner, a live frame or a release of the
current generation, and says that an owned slot is busy (`OwnersTaken`), that a
busy slot has an owner (`BusyOwned`) and that two owners are never in one slot
(`OwnersApart`, by pairs of places). `Flight` says that the capture in flight is
in a slot that is not busy. `NoOverwrite` and `SlotsAccounted` follow; neither is
inductive, since each says nothing about releases of older rings that are still
on the way, and the generation counter never running back is what makes those
harmless. The assumption is `CaptureAssumption`.

`RateProofs` proves, for any bounds, geometries, `--bitrate`, rates and
timing of `RateController`, that the target stays between a floor and a ceiling that are in order
(`TargetStaysInBounds`): the code's clamps never panic. The inductive invariant is
`TypeOK` with the bounds taken at the *controller's* geometry (`InBounds`), not at the
encoder's, since a rejection leaves the two apart. `Bounds` is the lemma about
`set_bounds`; each step of `on_ack` has a lemma that it keeps a sound controller
sound (`ApplySound`, `SlowStartSound`, `CutSound`, `RaiseSound`). `EncoderHasTheTarget`
proves `EncoderFollows` on top of it, which is inductive there: every change of the
target leaves a reason, and a reason programs the encoder or makes a new one in
the same turn; controller and encoder come to one geometry only by a new
encoder or by never having left it. The assumption is `RateAssumption`.

`LadderSettles` is `SettlesAtOnce` for any rates, streams, holds and frame rate, with
the code's levels and thresholds: while the estimate and the stream stay, the ladder moves at most once. `Select` is monotone in the
estimate (`SelectMonotone`), so the level that a move down picks is not one to climb
from, and one that a move up picks, with the margin `UpMult`, is not below what the
down threshold asks. The invariant (`Settled`) says which of the two moves it was. The assumption is
`LadderAssumption`.

`RateIsMeasured` is `RateMeasured` for any delay, windows, sizes and times of sending,
under the hypothesis `~Stalls`, which is the run's too: with a late ack a sample may
be above the capacity (see [observations](#observations)), so the hypothesis is
what separates the true statement from the false one, and not a convenience. The
invariant compares the estimator's books with the link's: the frames in flight are due
one after another, each by its bytes behind the last (`OneByOne`), without a gap
while the link is busy (`BackToBack`); and what was delivered since a frame's
snapshot fits into the time since, and fills it if the link was busy (`Carried`).
The other assumption is `LinkAssumption`.

`ClipboardTransferProofs` proves, for any number of transfers, any window, cap and
channel, the types and all four invariants of the `clip` run. A transfer's state is
spread over a fetch, a serve on the other side, two sequences of messages and two
sets of late Aborts; the inductive invariant is about the tuple of them for
one id (`Transfer`), and a step is confined to one id (`Confined`), so that each
step is proved for one transfer, and `Numbered` (an id belongs to the side that
numbered it, and is fresh until then) keeps the others apart. Of the parts,
`Fetching` numbers the chunks in the sink, in hand and in the channel without a gap,
`Serving` keeps the serve within a window of its acks, `Forward` and `Backward` say
what is on its way whenever one end lags behind the other (a request, the ack of
the last chunk taken, the chunk before the serve's offset), and `Aborting` says
who has given up when an Abort is under way. `NoticeFits` follows because no ack
overtakes the sink (`Matched`), `WholeInOrder` from the numbering at the final
chunk, and `NobodyWaitsForNobody` from `Forward` and `Backward` with nothing on the
way. That chunks arrive in order is the order of the channel (`Ordered`).

`ClipboardBridgeProofs` proves, for any number of copies, clears and pastes,
`OffersAreForeign`, `PasteIsPromised` and `Shared`. The first follows from `Flow`: whose
items each variable and each queue may hold. The other two are about moments when
news has arrived, or a paste asks before it has; neither is inductive. The inductive
invariant follows a change from one clipboard to the other: what a queue will tell is
its *newest* message of a kind (`Newest`), and when it has none, the next place says it.
From client to server that chain is `Told` (the clipboard, its listing, the worker's
commands, the offers, `remote`), `Commands` and `Ownership` (the newest selection of
ours that is requested or set is the thread's source, and stands for the newest
command; `SourceOrder` keeps a cancelled source from being the newest). From server to
client it is `Tracks` (the compositor's selection, its reports, `current`), `Reported`
(the events) and `Latest` (the offers, the status, the proxy). `Serials` and `Asked`
say what a serial stands for, so that a paste under the newest serial finds its item,
and `Facing` that two applications' items that face each other have one of their
offers under way. The hard part is what a crossing breaks. A report of ours is an echo
and is not told, so `Reported` cannot hold of every selection: it holds of those that
are `Accounted`, an application's or one behind an item that no change of the
client's crossed (`Undisturbed`), after which every report is the desktop's own;
and a cleared clipboard counts as an echo only while a withdrawal's sync is out
(`Withdrawals`). There are no assumptions: the constants only bound the runs.

The first part of `WindowProofs` proves, for any set of key codes, any keymaps and roles, and any number
of sessions, the types, `ModifiersFollowKeys`, `NothingStuck` and the action
property `LocksSurvive`. `NothingStuck` speaks of the moment when everything has
arrived; the inductive invariant says of every key where it *will* be then: `EndsUp` reads the window's queue, the wire and the thread's commands as one
channel, in which the last word about a key counts, and that word is a release
whenever the key is not pressed in the window (`Recorded`). Its hard cases are the
ends of sessions: what a dead connection drops is covered by the `ReleaseAll` that
`Input::drop` puts behind it, and `Lives` has the thread end after that. `Mirrored` is
that the compositor shows the thread's
state, `Recorded` ties the history of locks to what the xkb state would
clear. The assumption is `KeysAreCodes` (codes are numbers, finitely many).

Its second part proves `ReconnectsToItsMachine` of `RemoteSession`, for any machines,
retries and sizes. A reconnect is started by a timer that a dead connection
left, which may be of any earlier connection; the invariant is that a timer's
generation is not ahead of the window's, and that one of the current generation
has the machine of the current connection (`TimersOfTheMachine`).

`DecodePipelineProofs` proves all four properties of the `codec` run, for both encoders
of `H264Encoder` (operation 5 included), any widths of the frame numbers and the
order counts, any ring, and any number of pictures, fresh encoders, failures, zooms
and stalls. `FramesAreHeld` is the ring's (`RingInv`): a live frame of the current
ring is busy and no release of its image is under way; releases of older rings,
which bear the same indexes, are told apart by the ring's number, which only grows.
The other three rest on one invariant of the streams (`StreamsInv`). `EncoderInv`
reads both encoders as a `Window` of references, oldest first, and the `Count` of
the next picture, none of which wraps. `UnitInv` says how the unit on its way was
made (`MadeWith`): with a window and a count from before, a modification that names
one reference, and the marking that led to the window of now. `DecodersInv` says that a
decoder whose stream is unbroken is *in step* (`InStep`): its slots hold just the
pictures of the window, each under its number modulo `MaxFrameNum` and with the order
count it was given (`Holds`), and its `PocState` is at the count before. After
operation 5 the decoder lacks one picture of the window, and it is always the oldest,
since the encoder dropped all before it (`Kept`, with `ForgottenInv`): so the slots are
the rest of the window, the numbers and counts agree from the restart on
(`OtherResetWell`), and the sliding window still drops what the standard's does
(`SlidesKept`); only what is predicted from a forgotten picture is not exact. A unit
lost to a failure breaks this, until the next IDR brings it back whatever the decoder held.
`Decodes` is the step: as no reference is a whole wrap behind, `Wrap` recovers the
differences of the numbers (`HeldNumbers`), so the sorted list begins with the newest
(`ByNumber`), the modification moves the reference it names to the front (`Moved`), the
sliding window evicts the oldest, the command frees the one it names, and the
order count derived is the encoder's. From this `PicturesAreExact` and
`OrderIsRecovered` follow, the first also for redraws (`last_complete`).
`ImplementsTheStandard` is the refinement: the start maps to the standard's start, a
decode to the marking that the unit commands (`MarksWell`), operation 5 to its own
(see [observations](#observations)), and every other step leaves the slots alone. The
assumptions are `WrapAssumption` (frame numbers wrap above 2, order counts above 1; the code's are powers of two from 16), `ParamAssumption`
and `RingAssumption`.

Its last part is `Chroma`'s, for every picture of an even width and height:
`PackingIsLossless`, that the two 4:2:0 pictures give the 4:4:4 picture back, and
`MainBringsTheBlocks`, that the main one alone gives back a picture whose colour is
the same in each block of two by two. An index is its row and column
(`RowAndColumnOfCell`, `CellOfRowAndColumn`, from the uniqueness of division by a width
that is a constant); `PairRead` and `OddRowRead` then read one sample of either packing.

`TransferJobsProofs` proves, for any number of offers, pastes, reports, presses and
sessions and on both surfaces, the types, `HandedFilesStay` and `ScreenShowsRunning`.
Neither is inductive. The first rests on `Books`: an offer has one directory, which
the offer, its grace or a paste holds (`OnePerOffer`, `Pasting`), the paste that fills
an offer's cell is the only one that writes there, in the order of the files
(`Filling`), and in the directory of a cell that is set every file is whole (`Cells`),
so that nobody truncates a file that was handed out. The second rests on `Display`:
the *last word* about a job, wherever it is (in the channel, in the call to the daemon, or
taken in by the surface), says whether it runs (`Truth`); the two maps of
`Notes` are each other's inverse (`Mapped`), so a report replaces the notification of
its job; and a notification that is gone while its job is in the maps has its signal
on the way (`Posted`), except for the jobs in `crossed`, whose notification was
closed while a report about them was being posted. `NewDirFresh` and `NewNoteFresh` are the pigeonhole lemmas that a
free directory number and a free notification id exist. The assumption is
`JobsAssumption` (counts and process numbers are positive, the neighbour has its own).

`VideoSessionProofs` proves, for any number of contents, ladder steps and zooms, any
wire and either tier, the types, `ReferenceAvailable`, and that every step of the
session is a step of `ScreenMirror` or a stutter (`MirrorsTheScreen`; what
`MirrorSpec` adds, that the mirror catches up, is fairness). The inductive
invariant says that there is *one line of packets* (`Sound`), of which the wire,
the packet being written and the queue are consecutive parts; coalescing takes
superseded configs and no frame out of its end (`Cut`). Along the line every frame
is behind a config of its geometry, or the decoder has it (`Announcing`), between a
frame that is no keyframe and the frame before, or the decoder's reference, lies
nothing of another geometry (`Referencing`), and the contents from the painted picture over
what the client holds, along the line, to the encoder and the screen never run
back (`ServerOrder`, `LineOrder`, `ClientBehind`, `ClientOrder`). None of these is
inductive alone: that no frame is dropped between two others needs the guard that
keeps frames out of the queue, and the client's part holds for whatever the line
brings. A decoder that has failed is excused until its next keyframe, as in
`ReferenceAvailable`.

Each inductive invariant was given to TLC before it was proved: those of
`ClipboardTransfer`, `Seat`, `TransferJobs` and `VideoSession` on the instances of their
runs (`TransferJobs` also with seven events, 8.4 million states, `VideoSession` with three
contents and two packets on the wire, `ClipboardBridge` with three copies, two clears
and a paste, 2.7 million states; those of `DecodePipeline` with four pictures and two
other events, before it had operation 5, 373405 states), without an error.

What stays with TLC: liveness (`QueueDrains`, `PicturesFitAgain`, `DecoderRecovers`,
`TransfersEnd`, `ClimbsBack`, `Recovers`, `SpoolsGo`, `KeymapConverges`,
`StaleSessionsEnd`, `EndsConnectedOrOffered`, `ResizeSettles` and the liveness half of
`MirrorSpec`: temporal properties under fairness, with ENABLED, are out of the
prover's reach), and what the recursive definitions of `H264Syntax` and
`ClipboardLists` compute (induction over data is, too).

## What is not modelled

* Real time and sizes in bytes: in `VideoSession`, deadlines are "may have passed"
  and the byte cap is a choice. Of the rate control's numbers, the smoothed round
  trip and its deviation, the size of the byte cap, the delivered frame rate and
  the size of the encoder's rate buffer.
* The contents of messages: pixels, damage, slice data, CBOR (derived code).
* The cursor's capture session: a second, independent session of the capture
  thread with one buffer. What it sends is `PacketQueue`'s shapes and positions.
* GPU objects, VA-API and Vulkan calls, shaders, the CPU tier's codec and
  conversion: drivers, libraries and arithmetic on pixels, not state machines of this
  program. Encode failures after the first GPU frame end the session.
* Of the codec: scaling lists, prediction weights, streams whose order counts are of
  type 1, or of type 0 from another encoder, the import of images; the first stage's reset of a fence in `Commands::run`.
* Of the clipboard: the wrap of transfer ids, `PeerGone`, byte counts and rates,
  failed calls to the notification daemon (a slow one may get a job twice), names
  that are not ASCII or not UTF-8.
* Of the keyboard and pointer: buttons, axes, motion, layout groups, an upload of a
  keymap that fails, grabs and hotkeys beyond one key.
* Hyprland's IPC, GTK presentation, argument parsing, ssh's process, the probe
  tool: no protocol state.

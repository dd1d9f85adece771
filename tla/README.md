# A verification of mcrt_dataio

mcrt_dataio moves images and information between the processes of a distributed
renderer: several **MCRT computations** render the same scene, a **merge
computation** combines what they send to one image, and a **client** decodes
and shows it. This directory holds TLA+ modules that model the logic of that
traffic, TLC configurations that check small instances, and proofs for every
instance that TLAPS checks.

    tlc -config single_frame.cfg MCFbMsgMultiFrames
    tlapm ProgressiveFeedbackProofs.tla

The runs (module, configuration, properties) are listed in `PROJECT.json`, with
the source lines every definition stands for.

## 1. The system

    MCRT 1 ──ProgressiveFrame──▶ ┌────────────┐
    MCRT 2 ──ProgressiveFrame──▶ │   merge    │ ──ProgressiveFrame──▶ client
       ▲ ▲ ◀──clock sockets────▶ │computation │ ◀──clock sockets────▶   │
       │ └──progressive feedback─┤            │                         │
       └──MCRT-control commands──┴────────────┘                      overlay

| component (`src/lib/...`) | state it keeps | operations | what is hard |
| --- | --- | --- | --- |
| `engine/merger/FbMsgSingleChan`, `FbMsgMultiChans` | the undecoded messages of one machine, its last `syncId`, its feedback id | push, reset, decodeAll, pushAuxInfo | buffers wait per channel: the order of the channels is not the order of the messages |
| `engine/merger/FbMsgSingleFrame` | per machine: received, progress, status, coarse pass, frame buffer; the merged buffer; the window of partial merges | push, decodeAllPushedData, merge, calcCurrentFrameStatus, resets, feedback | which counters survive a restart; which tiles are merged when; first and later merges |
| `engine/merger/FbMsgMultiFrames` | the cached frames, the pointer table and its window of `syncId`s, the displayed frame, the merge type | push for `SEAMLESS_COMBINE`, `PICKUP_LATEST`, `SYNCID_LINEUP`; changeMergeType, initNumMachines, changeTaskType | arrival in every order, gaps, reuse of frames, change of type between messages, a callback that fails |
| `engine/merger/MergeActionTracker`, `MergeSequence*` | the encoded list of what was decoded and merged since the last send | decodeAll, mergeFull, mergePartial, encodeData, replay | run-length compression must replay to the same image |
| progressive feedback (`FbMsgSingleFrame`, `MergeActionTracker`) | as above, and a copy at each MCRT computation | encode at the merge computation, replay at the MCRT computation | the record arrives late, when a newer frame is rendered |
| `engine/mcrt/McrtNodeInfo`, `McrtNodeInfoMapItem`, `engine/merger/GlobalNodeInfo`, `share/codec/InfoCodec` | values of one MCRT computation, a queue of changes, a work area for render prep, comments | set, flush, encode, encodeTable, decode, enq/deqGenericComment, getRenderPrepProgress | only changes travel; several threads; a relay in between |
| `engine/mcrt/McrtControl` | – | clockDeltaClient, clockOffset, completed, globalProgress, forceRenderStart | commands are broadcast and filtered |
| `share/util/ClockDelta`, `share/sock` | sockets, accepted connections, the sums of a measurement | open, accept loop, serverMain, clientMain, shutdown | one server thread for two sockets; clients die; a shift is only as good as the round trip |
| `engine/merger/MergeFbSender`, `MergeStats`, `MsgSendHandler` | a copy of what was sent; the message that is being packed | snapshot, add and encode buffers | what is sent are differences; precision by pass and content |
| `client/receiver/ClientReceiverFb` | header and frame buffer of the image, status, progress, callbacks | decodeProgressiveFrame, the functions that read images, with locks or without | a decoder thread and a reader thread, resolution changes, info-only messages, failures half-way |
| `client/receiver/ClientReceiverDenoiser` | set-up, last result, what denoising costs | denoiseBeauty | intervals, and an engine that fails |
| `client/receiver/VectorPacketManager` | packets of path visualisation by rank, the current line, modes | push, decode, pick, next, previous | the choice is made during the pass that draws |
| `client/receiver/Telemetry*`, `ScanConvert*` | the overlay with its items, the panels, the image kept for later | draw items, flush, bake, switch panels | pools of items, ranges of sizes, anti-aliased lines, a stack of tables |
| `share/codec/InfoRec` with `ClientReceiverFb::infoRecUpdate` | a record of a session | update, save, span of a rendering | messages tell late of machines that start and stop |
| `share/util/ValueTimeTracker`, `BandwidthTracker`, `FpsTracker` | recent events | push, clean up, resample, rates | the event at the beginning of an interval; a pool of events |
| `cmd/verifyMcrtFeedback` | the buffers that were read | init, read, verify | options in any order, files that are missing |

How they interact: the merge computation calls `FbMsgMultiFrames::push` for
every message of an MCRT computation; at its own rate it asks the displayed
frame to `decodeAll`, `merge` (all tiles, or the next few) and resets the
counts of the last interval. With feedback on, a `MergeActionTracker` per
machine records what is decoded and merged, and the record goes back.
`MergeFbSender` packs what differs from the last image, and
`ClientReceiverFb` decodes it. Node information rides in the same messages as
`auxInfo` and ends in `GlobalNodeInfo::decode`, at the merge computation and
again at the client. `GlobalNodeInfo` sends MCRT-control commands through a
callback; one of them makes a process measure its clock over a socket.

What makes it correct, component by component:

* cached frames: each frame holds exactly the newest rendering of its syncId
  of every machine; the counts that decide completeness are the counts of what
  arrived; the displayed frame never goes back, no complete frame is skipped,
  and the pointer table stays a permutation.
* images: what is sent shows one frame only; progress does not drop; status
  and coarse pass agree with what the machines reported; the client ends up
  with the image that was sent.
* partial merges: every tile has its turn within one sweep.
* records: replaying the compressed record gives the same frame buffer and
  image as at the merge computation, even when it arrives late.
* node information: no change is lost or overtaken, comments come once and in
  order, and the client catches up.
* clocks: a process that was told an offset has the one shown for its host; a
  measured shift is as good as the round trips were short; every client of the
  clock server returns.
* client: no image is read while the frame buffer is rebuilt, and every call
  returns; the current line belongs to the packet that is shown; the recorder's
  files hold one run each; the overlay is drawn over the newest image.

## 2. Modules

| module | models | depends on |
| --- | --- | --- |
| `PartialMerge` | `partialMergeTilesTblGen`: the tiles of a partial merge and where the next begins, as operators | |
| `PartialMergeSweep` | the window that goes over the image, with a history `age` of each tile | `PartialMerge` |
| `MergeActionTracker` | the record of decodes and merges, its compression and the loop that replays it | |
| `LaggingCopy` | abstract: a copy that shows, late but one after the other, the states that were sent | |
| `MergeTrackerReplay` | one machine's data with the sweep, its tracker, a channel and the copy that replays; implements `LaggingCopy` | `MergeActionTracker`, `PartialMergeSweep` |
| `FbMsgSingleFrame` | one frame with its machines' channels: operators from a frame to a frame, one per method | `PartialMerge`, `MergeActionTracker` |
| `FbMsgMultiFrames`, `MCFbMsgMultiFrames` | the state machine: machines send messages, the cache takes them, the merge computation sends images | `FbMsgSingleFrame` |
| `LoopTheorems` | proofs: induction and loops, and lemmas about records | `MergeActionTracker` |
| `SeparatePartsProofs` | proofs about the parts of `MCSeparateParts`: replay and sweep, messages, panels, verdicts | `MergeTrackerReplay`, `MachineMessages`, `TelemetryDisplay`, `VerifyFeedback`, `LoopTheorems` |
| `FbMsgMultiFramesProofs` | proofs about the frames' counts and the window, and about what frames, display and image hold | `FbMsgMultiFrames`, `LoopTheorems` |
| `ProgressiveFeedback`, `MCProgressiveFeedback`, `ProgressiveFeedbackProofs` | the composition: `FbMsgMultiFrames`, feedback channels and replaying copies | `FbMsgMultiFrames`; the proofs on `FbMsgMultiFramesProofs` |
| `FbMsgMultiChans`, `MachineMessages` | the buffers of messages, channel by channel; several machines on one frame, decoded late or at once | |
| `McrtNodeInfo`, `GlobalNodeInfo`, `GlobalNodeInfoProofs` | MCRT computations, merge computation, client and the clock commands between them | the proofs on `LoopTheorems` |
| `ClockDelta`, `MCClockDelta` | the clock server and its clients over the two sockets | |
| `ShareUtilProofs` | proofs about the tools of `share/util`: trackers and clocks | `ClockDelta`, `ValueTimeTracker`, `LoopTheorems` |
| `MergeFbSender` | what the merge computation packs for the client, as operators | |
| `ClientReceiverFb` | header, frame buffer and the pieces of `decodeProgressiveFrame`, as operators | `MergeFbSender` |
| `FrameDelivery` | the composition: sender, channel, client | `ClientReceiverFb` |
| `ClientReceiverDenoiser` | set-up, interval and result, as operators | |
| `FrameReading`, `MCFrameReading`, `FrameReadingProofs` | the decoding thread and the reading thread with their mutex and the denoiser | `ClientReceiverFb`, `ClientReceiverDenoiser` |
| `InfoRec`, `InfoRecSession`, `MCInfoRecSession` | the record, and the client's recorder with the machines it hears of | |
| `VectorPacketManager` | packets by rank, the pass over their lines, the user's commands | |
| `ValueTimeTracker` | the three trackers of the telemetry | |
| `ScanConversion` | anti-aliased lines, circles and polygons | |
| `TelemetryOverlay`, `TelemetryDisplay` | items, pools, blending; panels and the image under them | |
| `VerifyFeedback` | the command and its four checks | |
| `MCSeparateParts`, `MCClientParts` | six, and two, of these parts, which share no state, side by side | |
| `ClientPartsProofs` | proofs about parts of the client: delivery, path visualisation and the recorder | `FrameDelivery`, `VectorPacketManager`, `InfoRecSession`, `LoopTheorems` |

State and code. `frames` is `mFbMsgMultiFrames`, `ptrTable`,
`startSyncFrameId`, `endSyncFrameId`, `displayFrame`, `displaySyncFrameId` and
`displaySyncFrameInitialize` are the members of the same name (frames are
numbered, where the code has pointers). A frame is a record: `received` and
`receivedAll`, `messages`, `progressAll`, `statusAll`, `coarseAll`, `active`,
`first`, `merged`, the partial merge's start tile and a channel record per
machine stand for the members `mReceived`, `mReceivedAll` and so on. `image`,
`rendered` and `mcrt` are not in the code: they are the image that goes out,
what every machine has sent for every syncId, and its last message. A pixel is
abstracted to *which messages it was made of*: a machine's frame buffer is the
set of messages decoded into it, a tile of the image maps each machine to such
a set. That is what tells a stale tile from a fresh one. `FbMsgMultiChans`
keeps for each pixel the number of the message that wrote it last;
`MergeFbSender` and `ClientReceiverFb` keep how large the values of a buffer
are, which is what precision depends on; an overlay pixel records the colours
that make it up.

Actions: `ReceiveStarted` and `ReceiveLater` are a message and the whole of
`FbMsgMultiFrames::push` for it, through `FbMsgSingleFrame::push` and
`FbMsgMultiChans::push`, including the failing feedback callback. `SendImage`
is `decodeAllPushedData`, `merge` and `resetLastHistory` of the displayed
frame, in that order, with the garbage collection and the switch of the tunnel
machine that `merge` makes. `ChangeMergeType`, `SetFeedback`, `StageTunnel` are
the settings. In `GlobalNodeInfo`, `BeginEncode` and `EndEncode` split
`encodeTable` where it leaves the item unlocked; `MergeMeets` and
`MergeDecode` split `decode` between the command to measure the clock and the
decoding of the item. A message is a function from those it tells of to their
changes, `nodes`, `merge.nodes` and `client.nodes` are the `McrtNodeInfo`s at the
three places, each with its values, its queue (the item's array), its comments
and its work area.

`FrameReading` splits `decodeProgressiveFrame` at the header, the lock, each
buffer and the end, and a call that reads an image at the lock, the denoiser's
test, the copies and the engine: these are the points between which the other
thread can run. `GetBeautyMTSafe` takes the lock for the copy alone,
`GetBufferMTSafe` and `GetRenderOutputMTSafe` for all of the call. In
`ClockDelta` each step of a connection is a system call that may wait, find the
other side gone, or fail although the other side lives (`HostNameFails`,
`AnswerFails`, `ServerMainFails`); `failed` remembers whose connection saw a send
or a receive fail. In `VectorPacketManager` a draw goes rank by rank
(`DecodeAll`, `DecodeStarts`, `DecodeEnds`). User commands do not run during a draw,
as one thread does both, but packets and resets come at any point of it: the
thread that decodes messages pushes them without a lock, and
`getBeautyRgb888MTSafe` draws outside of it (`ClientReceiverFb.cc:899-903`). A pass
over a packet reads the packet and `mDecodeCounter` when it begins and counts that
up when it ends; all else that it changes belongs to the drawing thread, so it
is taken as one step, at the end.

Faulty variants (`..._Keep`, `..._NoWrap` and the like) are not part of any
specification. Each is a plausible error in the operator it is named after;
substituting it makes a property fail, which shows that the property sees
that kind of error.

## 3. What is checked

* **single_frame** – `PICKUP_LATEST` and `SEAMLESS_COMBINE`, two machines, two
  scene updates, and machines that start the same update again. Two machines
  and two ids already give every overlap of "old frame / new frame / same frame
  again" the handlers distinguish; a third machine adds only more of the same,
  the code never compares two others. Four messages of a machine are a
  rendering that is started, goes on, is started again and goes on.
  `StatusAgreesWithReports` is said of the displayed frame of `PICKUP_LATEST` and
  of the one frame of `SEAMLESS_COMBINE`. The image, of which this run asks nothing
  and which no other state depends on, is left out of the states compared
  (`AllButImage`). Messages
  carry no id for feedback here; they do in feedback and lineup.
* **lineup** – `SYNCID_LINEUP`, a cache of two frames, syncIds 1, 2, 3, 5 in
  every order and with gaps of one and two ids, more ids than frames so that
  frames are recycled. `ShiftedIsShiftLoop` compares the model's one-step shift
  with the code's loop for gaps up to 2 * CacheFrames + 1.
* **switch_types** – merge type (three), tunnel machine and feedback change,
  and the callback fails, between messages.
* **feedback** – `PICKUP_LATEST` with partial merges (and the full ones that
  the code chooses); records travel back with one in flight, feedback is
  switched off and on, two scene updates. `ImageIsOfOneFrame`: what is sent
  shows one frame although only some tiles are refreshed.
  `FeedbackRebuildsRendering`: the copy, after the records in flight and the
  one being written, is what the merge computation has of the machine's
  rendering. Machines do not start the same update again here (see section 5).
* **node_info** – two MCRT computations, three inputs in a behaviour of one
  kind: values, render prep stages, comments, or clocks (each behaviour has one
  kind, as the kinds touch different fields; hosts vary only with clocks). One
  message may wait in each channel. Liveness `ClientCatchesUp`. Three inputs are
  the shortest phase (start, progress, end), the shortest `cpuTotal`,
  `coreUsage`, `cpuTotal`, and comments around an encode. Values are set between
  two encodings (`ConcurrentSets` = FALSE; run lost_update has TRUE).
* **reading** – the decoder takes three messages, with two frames and two
  sizes, while the reader makes calls of every kind, in three denoise modes and
  with an engine that may refuse its set-up or fail. Three messages let a frame
  start twice with a call that spans both. Safety of the frame buffer, and
  `CallsReturn`.
* **session** – two machines that start three times in all, restart, complete
  and stop; the client hears of each of them and of the merge computation late
  and independently, also by messages of which another buffer then fails to
  decode, so that `infoRecUpdate` is skipped; records of up to three items. Three
  items are the shortest record with a rendering that has progress, restarts and is
  completed.
* **sockets** – a client on the server's host (unix socket) and a remote one
  (inet), two round trips, two attempts to connect, a clock of two ticks that
  passes at any time, clients that die, a shutdown at any point, a server that
  cannot open one of its sockets, and sends and receives that fail on either side
  while the other lives. Two ticks are a way there and a way back that take
  different times. The shift is compared with the true offset; only a failed call
  ends a measurement early; every client returns.
* **separate_parts** – six parts that share neither state nor calls. TLC is
  given their disjoint sum: the initial state picks a part and `PartsNext` only
  takes steps of it, leaving the others at their first state, so the states of
  the run are those of six separate runs and every property is checked on the
  behaviours of its own part.
  - replay: four tiles, requests of two and three in every mixture with full
    merges, three messages grouped to decodes in every way; records are sent with
    up to two pending. `WaitBound`: a tile is refreshed within one sweep.
    `ReplicaIsOnItsWay` relates the copy, the records on their way, the unsent
    codes and the merge computation's data at every step.
    `ImplementsLaggingCopy` is a refinement: under the mapping given in
    `MergeTrackerReplay` every step is a step of `LaggingCopy` or a stutter.
    Three ids are the shortest run with two kinds of range (one id, several).
  - messages: four messages of two machines whose beauty buffer changes size
    and type and whose AOV is a reference before it has data; an image is sent,
    or the frame reused, at any time. What waits in the channels amounts to what
    decoding at once would give; logs and packets are sent on once.
  - trackers: five events with steps of 0, 1 or 3 ticks and a memory of four:
    events expire one by one, together, and with one that still covers the
    start of the interval. Resampling is compared with the step function
    computed from all events ever pushed.
  - verify: two and three machines, three renderings, dumps with any one buffer
    altered, missing or of the wrong length, four options in any order.
  - scan: lines of several directions, lengths and widths and two circles, one
    across the border, in a window of 5 x 4 pixels of 48 parts; two shapes on
    one canvas. Coverage is compared with counting sub-pixel centres inside the
    shape.
  - display: sizes 2 x 2 and 3 x 2, three panels, one with two below it, two
    images, two calls that change settings. The picture is compared with one
    made point by point, and the current panel with a path kept beside it.
* **client_parts** – two parts of the client, as a disjoint sum in the same way.
  - delivery: three frames, two sizes, beauty and an AOV, a precision decided at
    run time, messages without an image in between, one message that cannot be
    decoded. Three messages are an image, its delta and the first one of the
    next frame; three frames are a change of size and the change back, of which
    no image shows the one between. A buffer has nothing or an HDR value: what
    low precision clips shows up with these, and the proof covers the rest.
    `ImageArrives`: nothing is lost between what the sender believes the client
    has and what it has. `ProgressDropsOnlyForNewFrame` orders images and
    messages that only tell of progress.
  - path visualisation: two ranks with three packets (lines with both, one or no
    valid end, and a shorter packet than the line that is current), four inputs
    of the user or the network, those of the network also during draws. Four are
    a packet, the mode and a choice, and a packet under the pass over the former
    one (which violates `CurrentLineIsOfShownPacket` when `lost` is not excepted) or
    after it.
* **partial_sweep_single**, **lost_update** – two runs whose property must fail,
  because what the source says of the code does not hold: with requests of one
  tile the sweep gets stuck at the last tile, against the comment on the order of
  tiles (`WaitBound`, whose proof excludes this case); and a value that is set
  while another thread is in `encodeTable` is dropped, against `MTsafe`
  (`NoChangeIsLost`). Both are findings in `PROJECT.json`.

Deadlock is checked in the runs of the merge computation, where some step is
always possible. In the others inputs are bounded and everything may have been
said, or the programs end.

Fairness. `GlobalNodeInfo`: weak fairness of encoding and decoding, as MCRT
computation, merge computation and client are loops that go on sending (every
snapshot, every merge interval) and receiving. `FrameReading`: weak fairness of
each thread, as both run code that does not wait for anything but the mutex;
between a reader that calls without a pause and a decoder that waits nothing is
assumed, because `std::mutex` promises no order. `ClockDelta`: weak fairness of
the server thread and of every client, and strong fairness of accepting a
connection in each domain: what makes `accept` fail comes and goes. No fairness
is assumed of inputs, failing sends and receives, deaths or the shutdown.

Assumptions about the environment: channels between processes are reliable and
first-in first-out per sender (they are streams); an MCRT computation does not
go back to an older syncId; progress grows within a rendering.

## 4. What is proved

For every value of the constants that satisfies the modules' assumptions:

* `SweepTypeCorrect`, `SweepReachesEveryTile` (`SeparatePartsProofs`). A tile's
  age plus its distance from the start of the window, in tiles and modulo the
  image, is bounded; a step of two tiles or more brings the start closer to
  every tile it does not cover (`StepCloser`), so the bound is inductive.
* `FramesAlwaysCountMachines` (`FbMsgMultiFramesProofs`): `mActiveMachines` is
  the number of machines that have sent something on the frame, which is what
  readiness is decided by. `FramesCountMachines` is not inductive by itself; `Counts`
  adds the shape of the frame and that `receivedAll` is a set of machines, and
  `CountsBut` describes a frame while `push` starts a machine over. One lemma
  per method says that it keeps `Counts`; one per action of `Next` puts them
  together.
* `WindowAlwaysOK` (the same module): the pointer table is a rotation of
  the frames (`IsTable`), the window is as long as the cache, and the displayed
  frame lies in it at its own id. The invariant adds the type of the window and
  that ids are integers. The arithmetic is in `ModUnique`, `ModSmall` and
  `RotationIsTable`: rotating by any gap permutes, also by more than the
  cache's size.
* `ShiftIsTheLoop` (the same module): the model moves the window in one step
  (`Shifted`), the code by a loop that moves it by one frame at a time.
  `ShiftedOnceMore` says that shifting by n and then by one is shifting by n + 1:
  of the table by `NextTableRotates`, of the frames by `NextFrames`, where
  recycling a frame a second time leaves nothing of the first (`RecycledTwice`).
  The rest is induction over the rounds of the loop.
* In the same module, for all machines, syncIds, image sizes, cache
  sizes, messages per rendering and orders of arrival. The inductive invariant
  is `ContentsInv == WindowInv /\ Senders /\ Contents`. `Senders`: the messages of
  a machine are numbered, it has sent something for the syncId it is at and
  nothing for a later one. `Contents`: the frames from the displayed one on are
  of their syncIds (`IsOf`: a frame has heard exactly the machines that sent
  something for its syncId, holds, decoded or queued, exactly their newest
  renderings, and drops a machine's coarse pass only for more than a first
  message); none of those that wait behind the display is complete or merged; no
  machine is beyond the newest of them; and before the first message every frame
  is unheard. `Collects` adds what `decodeAll` needs: a queue that is not empty
  belongs to a machine in `received`, so that nothing is left behind that the
  reset would throw away. Every operator on a frame has a lemma (`PushFrameIsOf`,
  `RecycledFrame`, `SentFrameShowsSame`), every way through `push` one
  (`LineUpContents`, `PickupContents`, `SeamlessContents`, `DropOlderContents`),
  and `StepContents` puts them together. From it follow
  - `FramesAlwaysHoldTheirRenderings`, `SeamlessAlwaysHoldsNewest`: neither is a
    message lost nor does an older one stay;
  - `CoarsePassAlwaysEndsWithAll`;
  - `NoCompleteFrameIsEverOverlooked` and `DisplayAlwaysMovesForward`, for
    every cache size and every gap between ids;
  - `ImagesAreOfOneFrame`, with `ImageOfFrame`: what is in the tiles belongs
    to the frame that was shown last, so that a frame that is merged for the
    first time finds either nothing or data of another frame, which it resets;
  - `ProgressNeverGoesBack`: what the client is shown of the progress of the
    displayed frame. `IsOf` also says that the progress of a machine is less than
    the number of messages of its newest rendering, `ProgressStep` compares the
    frame before and after a step machine by machine (`PushFrameShowsNoLess`), and
    `SumExists` and `SumGrows` carry that, by induction over the number of
    machines, to the sum;
  - `StatusAlwaysAgreesWithReports`, with `ReportsInv`: a machine's last message
    is about the display frame unless the machine has gone on. With
    `SEAMLESS_COMBINE` every machine that was heard is on the one frame with its
    newest message (`SeamlessReports`). The status says nothing of machines that
    were not heard (section 5).

  These theorems have hypotheses on the constants, each with a behaviour that
  breaks the property without it (section 5). `MergeTypes = {}` and
  `CallbackOutcomes \subseteq {TRUE}`: the merge type is the one that the session
  began with, which may be any, and the feedback callback works. A change of type
  takes over a frame with the counts and data it has, and a callback that fails
  loses the STARTED message. `Restarts = FALSE`, for the image and the progress only: a
  machine that starts a syncId again leaves tiles of its former rendering, and its
  progress begins at 0 again.
  `"SYNCID_LINEUP" \notin InitialMergeTypes`, for the status only: there a
  machine goes on to its next syncId while the frame of the last one waits, and
  its last message is not about that frame.
* `LoopTheorems`: the compressed record says neither more nor less
  than what was done. `RangesCover`: the ranges that the encoder makes of a
  sequence of ids cover exactly these ids. `TrackedDecode`, `TrackedMergePartial`
  and `TrackedMergeFull`: replaying a record that was extended by an operation is
  replaying the record and then doing the operation. `DecodeLoopConcat`: records
  may be cut anywhere. These are inductions over sequences. The library's
  induction theorems take a predicate, which the provers here cannot
  instantiate; `NatSetInduction` is induction for a *set* of numbers, from the
  least element that well-foundedness gives, and every use defines its set.
* `ReplicaIsAlwaysOnItsWay`, `ReplayImplementsLaggingCopy`
  (`SeparatePartsProofs`): any image, requests, ids and channel bounds.
  `Leads`: each record on its way leads from what the record before it left to
  what the merge computation had when it was sent, and the unsent codes lead from
  there to what it has. The refinement maps a send to a snapshot and a replay to
  a step of the copy, everything else to a stutter.
* `FeedbackAlwaysRebuildsRendering` (`ProgressiveFeedbackProofs`), on the two
  before: any machines, syncIds, images, requests and length of the channels.
  `FeedbackInv` adds three parts to the invariant of the frames. `Kept`: the ids
  that the frame keeps of a machine are numbers of its messages, and there are
  some when the machine is in `received`; the tracker of a machine that has not
  been heard on the frame is empty. `OnTheirWay`: what is on its way to a machine
  is of no newer syncId than the one it renders, so that a machine that begins a
  new rendering takes none of it (`OlderAreNotTaken`). `Followed`: for every
  machine on the display frame, the ids, *as far as they are of its present
  rendering*, are what is queued (`QueueIsNoted`; ids of messages that were
  thrown away stay among them), and the copy that the records lead to has of
  that rendering what the frame buffer and the tiles have (`Follows`). The last
  is kept by a decode (`FollowsDecode`), a merge (`FollowsMerge`) and a message
  of the rendering (`FollowsGrown`), and begins anew with a STARTED message
  (`StartedFollowed`). A copy may hold more than the rendering: numbers that were
  never decoded at the merge computation lie in a range of the record, and the
  property compares the rendering only.

  Its hypotheses are those of the frames, for one session of `PICKUP_LATEST`
  (the code switches feedback off with the other types), with `Restarts = FALSE`
  (a machine that starts the same syncId again takes records of the former
  rendering as well), `ActionIds = TRUE` (without ids there is nothing to record)
  and `Tunnels = {NoMachine}` (a merge leaves the tunnel machine out of the
  tiles, those it was in before included, and its record does not say so).
* `ValuesArrive`, `CommentsArrive` (`GlobalNodeInfoProofs`): any MCRT
  computations, values, bounds of inputs and of channels. The properties speak of
  decoding what is in a channel and then what the sender has queued (`AtMerge`,
  `AtClient`), so their proof is about that function of two states and a
  sequence. What is done to a sender reaches its queue (`Passes`: a receiver that
  would have had its values will have the new ones, and so many more comments);
  sending moves the queue to the channel (`HopSends`), decoding moves a message
  into the receiver (`HopReceives`). As every change assigns a value or appends
  comments, what a receiver will be depends on its values and comments alone
  (`Ahead`), not on what a relay has queued itself, and the two hops can be put
  one after the other (`Way`). One lemma for each thing that can happen on a way
  (`InfoSets`, `InfoSays`, `InfoFlushes`, `InfoSends`, `RelayDecodes`,
  `RelaySetsClock`, `RelaySends`, `ShownDecodes`) and one for each action make the
  invariant `OnTheWay`. It adds to the ways that what is being encoded is what is
  queued (`EncodesWhatIsQueued`), that a message of an MCRT computation tells of
  that one alone (`MessagesAreOwn`), and that the merge computation, which decodes
  stages but does not report any, never has a count of render prep to flush
  (`MergeIsCalm`): otherwise its flush would add values that no MCRT computation
  sent. `ValuesArrive` has the hypothesis `ConcurrentSets = FALSE`; run lost_update
  is the counterexample without it. `CommentsArrive` has none: with a concurrent
  set, `UpKeys` leaves the values of the first hop out of the invariant, and what
  is encoded and what is queued still say the same comments (`SaysSame`).
* `ClocksAlwaysAgree` (the same module): any MCRT computations and hosts, any
  interleaving, with concurrent sets or without. `ClocksInv`: an MCRT computation
  queues, encodes and sends no value of a clock and no host but its own
  (`OwnChanges`), so the host name that the merge computation finds is that of the
  computation's host and decoding never changes a shift (`LearnsAll`); and the
  last offset among a computation's commands undoes a shift that is set at its
  host (`ClockOf`, `OffsetAppend`, `OffsetTail`). The property is one of all
  computations of a host because only one of them shows the shift (section 5).
* `MeasuredShiftIsWithinRoundTrip`, `MeasurementsAreCutShortByFailures`
  (`ShareUtilProofs`): any number of clients, any offsets, any delays. The
  invariant says what is on the wire in each stage of a connection (`WireOK`):
  a time that comes back was sent before the client read its clock, and that was
  before now; and that a connection on which no call failed is closed by the
  server only after its last round trip or when its client is gone (`EndOK`).
  `DeltaIsWithin` is the arithmetic of one round trip, with the half unit that
  the division loses; the sums follow.
* `FrameIsNotReadWhileRebuilt`, `ShownImageExists` (`FrameReadingProofs`): any
  buffers, sizes, messages and denoise modes. `MutexOK` says who holds the lock
  from what the two threads are doing, which includes the calls that hold it
  while the denoiser runs; `DenoiserOK` that a cost is only known together with a
  result. Every step through the denoiser either answers (`AnswerKeeps`) or
  goes on to the buffer (`ToBufferKeeps`).

* `ImageAlwaysArrives`, `ProgressDropsOnlyWithNewFrame` (`ClientPartsProofs`): any
  buffers, values, sizes, precisions, failures and bounds. `DeliveryInv` says that
  there is a sequence of *what was said*, one before the first message on its way
  and one after each (`Told`): frame, progress, size and image that the sender
  believes to be at the client. The client is at the first of them, the sender at
  the last, and every message leads from one to the next (`Says`): its buffers are
  a difference to the image said before or, after a reset, to no image
  (`IsDelta`). Sending appends to the sequence (`SendImageKeeps`), decoding takes
  its head off (`ReceivedImageKeeps`). `PackedPacksAll` says that all that has
  changed is packed, at a precision that clips no more than the property allows;
  `DecodeIsAt` and `DecodeHas` that a client at what was said before is, after the
  message, at what is said after it. `NothingExtra` is what makes a second STARTED
  message of one frame right, for which the sender begins anew and the client does
  not. The run checks the property, and `DeliveryInv` was checked with the
  sequence kept in a variable before it was proved.
* `CurrentLineIsAlwaysOfShownPacket`, `SelectionIsAlwaysTheOneAsked`
  (`ClientPartsProofs`): any ranks, packets and commands. The code chooses the
  next, previous or picked line in the one pass over the packet that draws it. The
  state of a rank after n lines says what the request would give if there were no
  more: `PassNext`, `PassPrev` and `PassPick` for the three requests, by
  induction over the lines (`PassGoes`), and the end that is marked of a picked
  line (`PickEndGoes`). `PathVisInv` adds to the property that a current line has a
  valid end, which the step of the line after it needs, and says of the pass in
  progress (`PassOK`) that unless data came or went under it, its packet and its
  freshness are still those of the rank. A pass under which a packet came may
  choose any line of the old one or of what is left of it; then the rank is fresh
  or in `lost`, which the next packet ends (`DecodeEndsKeeps`).

* `CompletionIsAlwaysSaved`, `FinalRecordIsAlwaysOneRun` (`ClientPartsProofs`): any
  machines, orders of reports, intervals, failing messages and lengths. `KnewLess`:
  if `infoRecUpdate` saw less than the whole when it last ran (`seenPrg`), the last
  item has less too, because a drop of the progress is an item at once; so the
  step to the whole is noticed however rarely items are taken and however many
  messages failed in between. `StoppedFirst`: the items with all machines stopped are the
  first ones of the record, as an item with a machine that renders can only be
  followed by more of them or by the end. The second has the hypothesis
  `Unnumbered = {}`: a machine with a negative id, which the code calls a user error
  (`ClientReceiverFb.cc:2644`), is asked whether it renders but is not in the items
  (section 5).
* `SpanIsAlwaysOneRendering` (the same module): what `calcRenderSpan` has found
  after n items is said of these n items (`Scanned`: where the last rendering
  begins, where it first has progress, where it is complete), round by round
  (`RoundIsSpan`), up to the first item that ends the record (`ScanIs`). From where
  a rendering begins its progress only rises (`RisesFromBegin`), so the items
  between start and completion are of one rendering. It needs nothing of the
  session but that items are numbered in the order in which they are taken.

* `DelayedDecodeIsAlwaysDirect` (`SeparatePartsProofs`): any computations that
  send, messages, buffers, pixels and sizes. A machine queues the buffers of its
  messages by name and decodes one name after the other, although they came in
  another order. `DecodedLate` therefore compares the two frame buffers plane by
  plane (`Matches`): every plane is written by the buffers of one name only, so
  decoding the queues leaves in it what its own queue makes of it (`DecodeAllAt`),
  and a buffer that is added at the end of that queue does there what it does
  when decoded at once (`PushBufferMatches`). That planes are disjoint is
  `ContentsAssumption`, on which the code's parallel decoding of channels rests.
  Each of the code's decoders changes planes and nothing else, pixel by pixel,
  and says what it makes of a plane from that plane alone (`Decodes`). An image
  decodes the machines heard since the one before and then empties every queue,
  so the invariant has to say that the others have nothing waiting
  (`IdleIsEmpty`); otherwise their buffers would be lost.
* `UpstreamIsAlwaysFresh` (the same): what waits in a machine is of messages
  later than the last image and no later than the last message, and the packet
  among it is the newest of its rendering (`WaitingIsNew`); every image was sent
  after all that it carries and before all that a later one carries
  (`SentInOrder`), which implies that no two carry the same.
* `PanelsAlwaysFollowTheStack` (the same): any tree of panels, images and sizes.
  `DisplayInv` adds that no table is on the stack twice: otherwise the choice of
  another panel in the last table could change what is selected further up. No
  table is, because a name stands for one panel (`PanelsAssumption`), so that the
  tables on the stack go down the tree (`ChildOk`). `EnterOk` is one round of the loop of
  `switchPanelByName`, `PathIsEntered` the loop. The panels that are drawn, also
  for the first time, keep the path (`BakeKeepsPanels`).
* `RatesAlwaysKeepInterval` (`ShareUtilProofs`): any interval, least number and times
  between events. One tracker keeps the newest first and takes from the end, the
  other the oldest first and takes from the front; `RatesInv` says of both which
  end of everything that was pushed they hold (`KeepsEnd`), that all they dropped
  is too old and that, beyond the least number, nothing they hold is
  (`KeepsRecent`). As time does not go back, the place at which each loop stops
  is the same (`DroppedIsOld`).

* `ResampleIsAlwaysStepFunction` (the same): any interval, numbers of samples that
  divide it, values and times between events. An event that `ValueTimeTracker`
  holds is an object that may have been used before. `EventsInv` says that no
  object is in two places, list or pool (`Apart`), that the list holds the end
  of everything that was pushed (`HoldsEnd`), and that its oldest event is older
  than the interval unless nothing was dropped (`KeepsOld`), for which
  `cleanUpOverflow` puts one back (`OverflowMoves`). Such a list, with 0 before
  its first event, says what the value is at every time of the interval
  (`Tells`, `ListTells`). Of a list that does, a sample is the sum of the values of
  its ticks: that sum is cut where the events are, and is value times length in
  each piece (`SegmentSum`). The one walk over the list that `getResampleValue`
  makes for all samples has, after n events, the sum up to the last one that it
  stepped over (`OverEventWalks`, `ResampleIsSums`), and can begin each sample
  where the one before ended; `getResampleValueExhaust` adds the pieces of all
  events for each sample (`SegmentIsClipped`, `ExhaustIsSums`). Sums are taken in
  the order of `CHOOSE`, so `SumTakesAny` (`LoopTheorems`) shows first that any order
  gives the same.

* `VerdictIsAlwaysRight` (`SeparatePartsProofs`): any number of machines, sets of
  dumps, size of images and tolerance, and options in any order. `VerifyInv` says
  that, unless a read failed or `-init` came since, the buffers of all machines
  are what the files of one feedback hold (`LoadedFrom`); that a read which goes
  through in the code's order leaves no buffer out is `SlotsRange` and
  `ReadAllReads`. What the loop of `merge` has made of some machines is their
  average: the colour times the number of samples is all the light of these
  machines (`MergedOf`, kept by `MergeFbMerges`, so `CombineMergedIs`). An image is
  then within the tolerance of what was merged if and only if it is within the
  tolerance of the average that `Consistent` computes in one sum
  (`MergedIsAverage`). The checks of `verify` take sizes from the first machine
  only; that they agree on all of them needs the first check (step 7 of
  `VerifyIsConsistent`). `DumpsAssumption` says in which unit the colours are
  integers: one in which the averages of any of the machines are whole. So the
  rounding of the code's floats is left out, for which its tolerance stands.

Only model-checked: the coverage of scan conversion and the picture under a panel.
These compare a computation over data with a definition of its own, for all
inputs of a small size. Of the frames, what happens
after a change of the merge type, a failing callback or, for image and
progress, a restart is left to TLC (run switch_types and the counterexamples of
section 5). Liveness (`ClientCatchesUp`, `CallsReturn`, `ClientsReturn`) is out of
the provers' reach.

## 5. Noted while modelling

Places where code and comments disagree, or where a property has to stop. Two
have a run of their own, which is named; where a constant of a module shows
another, it is named.

Merge computation:

* When one tile is asked for, the sweep of partial merges stops at the last tile
  (`FbMsgSingleFrame.cc:820`, comment `:785`): run
  partial_sweep_single.
* A machine not heard of counts as FINISHED (`FbMsgSingleFrame.h:303`, comment
  `FbMsgSingleFrame.cc:445`), and when all machines are FINISHED from STARTED in
  one interval the frame can stay STARTED for that interval (`:192-198`).
* A machine that starts a frame id again leaves tiles of its former rendering
  when merges are partial (`FbMsgSingleFrame.cc:274`, comments `:98`, `:276`):
  `Restarts` = TRUE violates `ImageIsOfOneFrame` in feedback.
* `changeMergeType` leaves the counts of a reused frame
  (`FbMsgMultiFrames.cc:36`, comment `:303`): a frame is ready that is not
  complete.
* A feedback callback that fails loses the STARTED message it was called for, so
  the frame keeps former data (`FbMsgMultiFrames.cc:281`, against `:236`).
* `MergeActionTracker::decodeAll` does not update the last id for a single id
  (`MergeActionTracker.cc:41-61`), although `MergeActionTracker.h:68` describes
  it as the last id sent.
* `mSendImageActionIdData` survives `FbMsgMultiChans::reset`
  (`FbMsgMultiChans.h:183`, `FbMsgMultiChans.cc:44`): ids of dropped messages are
  recorded if the decode comes before the first message of the new frame.
* The tunnel shows one machine, but the other machines are still merged in
  progress and feedback (`FbMsgSingleFrame.cc:627`, `FbMsgSingleFrame.h:153`).
* The first window of `SYNCID_LINEUP` leaves `mMySyncId` at 0
  (`FbMsgSingleFrame.h:332`).
* `auxInfo` in a message that is dropped for its old syncId is dropped with it
  (`FbMsgMultiFrames.cc:262-270`, `FbMsgMultiChans.cc:304`). As only changes
  travel, such a change never reaches the merge computation. The model of node
  information takes the messages that are decoded.
* The first image of a frame carries the latency log of its first machine only,
  and its start time, even if another machine's message is older
  (`FbMsgSingleFrame.h:382-387`). With immediate decoding, latency logs and
  vector packets of one message are pushed to one array by parallel threads.

Node information and clocks:

* `encodeTable` copies the item's values and clears them without its mutex
  (`InfoCodec.cc:239-242`; `InfoCodec.h:71` says MTsafe): a value set in between
  is never sent. Run lost_update.
* Of two MCRT computations on one host only one gets the clock's values in its
  node information (`GlobalNodeInfo.cc:600`); both apply the offset.
* A clock measurement that fails is not repeated (`McrtControl.cc:199`), and one
  that ends before the host name is decoded is dropped
  (`GlobalNodeInfo.cc:428`, before `:431`).
* The server's sockets are never closed: a client that connects after the
  shutdown waits for ever, as does one whose connection is lost by a failing
  `setInetSock`, and a remote one of a server with port 0 whose unix path is
  refused after the inet socket was opened (`SockServer.cc:58-62`).
  `ClientsReturn` excludes these.
* A send or receive that fails ends a measurement, and `clientMain` returns true
  (`ClockDelta.cc:106-118`), `serverMain` with the average of fewer round trips
  (`ClockDelta.cc:48-61`).

Client:

* A change of size resets the sender's copy (`MergeFbSender.cc:15-25`), the client
  resets its own only when an image comes in another size
  (`ClientReceiverFb.cc:696`). When the size changes and changes back before an
  image is sent, a buffer that has lost all its samples is not sent as changed, and
  the client keeps it until the next STARTED image. `ImageArrives` leaves this
  interval out (`unseenInit`).
* `mLastFrameId {!0}` is 1, so the reset for a first frame with id 1 is left out
  (`ClientReceiverFb.cc:316`).
* The albedo and normal inputs of the denoiser are read without the mutex when
  `getBeautyMTSafe` is used, and in the coarse pass readers extrapolate, that is
  write, in the frame buffer while messages that do not start a frame are decoded
  without the lock (`ClientReceiverFb.cc:669`): both are races on pixels, and
  `NoReaderWhileFrameIsRebuilt` claims no more than the lock covers.
* The denoised image that is shown again may have a former size, width and
  height are then not set, and a set-up that failed is not tried again.
* `getRenderOutput` without MTSafe returns the number of channels through a
  `bool` (`ClientReceiverFb.cc:1235-1294`).
* PREV with no valid line before the current one picks the first valid line, not
  the last (`VectorPacketManager.cc:264`, comment `:266-270`); a PICK that waits
  for new data compares with the distance of the last pick (`:409`).
* A packet that is pushed during the pass over the former one is not taken as
  new: `mDecodeCounter++` at the end of the pass (`VectorPacketManager.cc:436`) hides
  that the push set it to 0, and the current line of the former packet stays,
  against the comment at `:396`, until the next packet. The pass may also read
  the former packet after it was freed, which is undefined; the model lets it
  find any lines.
* After new data came while the current line was switched off, the position of
  the current line and its panel are those of a former packet.
* Statistics: `FpsTracker` divides n events by n-1 intervals,
  `ValueTimeTracker`'s maximum never drops, and the maximum in
  `InfoRec` starts at the smallest positive float.
* A machine with a negative id is left out of the items of the recorder, but
  whether all machines have stopped is asked of it too
  (`ClientReceiverFb.cc:2641-2648`, `GlobalNodeInfo.cc:275-283`): with one more machine a
  final record may hold two runs of that one (`Unnumbered` = {m1} violates
  `FinalRecordIsOneRun` in session).
* A message of which a buffer fails to decode may have changed what the client
  knows of the machines, and skips `infoRecUpdate` (`ClientReceiverFb.cc:588-590`,
  `:724-726`, `:746`): a rendering that restarts and completes within such messages
  is not saved as complete.
* A recorder that hears of an all-stop before progress is complete saves no
  `.iRec-C`; an item that first sees progress above 1 never completes.
* Lines are drawn in parallel without locks on pixels (accepted by the comment at
  `TelemetryOverlay.cc:1424-1432`): `FlushOrders` makes every order possible.
* Crossings left of the window are converted to unsigned from a negative float
  (`TelemetryOverlay.cc:1090`), which is undefined: the model takes every value.
* The image kept for the next frame is compared by its bytes only (comment
  `:435-436` of `TelemetryDisplay.cc`), and a change of the overlay's size while
  it is kept makes the next picture black.

Command `verifyMcrtFeedback`: `-read` before `-init` succeeds without reading;
`-verify` after `-init` without a read indexes a table with the id of no feedback
(`VerifyFeedback.cc:98-100`); a read that fails leaves the data of two feedbacks.

## 6. Not modelled, and why

* Pixel encodings (`PackTiles`), the denoising engine and the arithmetic of
  merging pixels: a library, and floats.
* `MergeStats`, `MsgSendHandler`, `FbMsgUtil`, `TimingRecorderHydra`,
  `TimingAnalysis`, `ClientReceiverStats`, the console and the parsers of debug
  commands: they report to a reader and decide nothing.
* `SysUsage`, `MiscUtil`: values of the operating system, string formatting.
* The layouts of the telemetry panels (what text is where) and fonts; the
  summaries that `GlobalNodeInfo` and `InfoRec` print.
* The region of interest and the shared memory output of `ClientReceiverFb`; its
  functions without MTSafe, which are for programs with one thread.
* `initNumMachines` in the middle of a session; `completed`, `globalProgress` and
  `forceRenderStart` of `McrtControl`, which only call a callback; the queue of
  connections of `share/sock`, which only a test uses.
* Where the code has no defined outcome: indexing by an unknown machine id, maps
  that two threads change.

A component whose status in `PROJECT.json` is `partly` says what is left out.

## 7. What would come next

1. A proof that drawing a panel leaves the picture below it alone.
2. The region of interest, in `ClientReceiverFb` and in partial merges.
3. An abstract register of changes that `GlobalNodeInfo` implements, as
   `LaggingCopy` is for merge feedback.

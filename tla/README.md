# Verification of the CCTV firmware

TLA+ models, TLC runs and TLAPS proofs for the firmware in
`src/MDK/CCTV3_F407_MDK_REV200`: an STM32F407 with an OV2640 camera that streams
motion JPEG over Ethernet. Paths below are relative to its `User/` directory.

Contents: 1 the system, 2 how it runs, 3 the modules, 4 the runs, 5 fairness,
6 what disagrees with the code's own words, 7 what is proved, 8 what is not
modelled, 9 the plan.

## 1. The system: inventory

About 200 of the repository's 3049 source files are the program; the rest is lwIP,
FatFs, ST drivers, USB stacks, examples and tools.

| Component (files) | State | Operations | Talks to | What makes it correct |
|---|---|---|---|---|
| Frame and its semaphore (`app/mjpegd/mjpegd_frame.*`, `bsp/sys/semaphore.h`) | buffer, `frame_len`, `capture_time`, `_sem` | TryLock, Unlock, TryAcquire, Release, Clear, SetLenAndTime, Write* | used by main and the interrupts | the counter always accounts for its holders; one writer or several readers |
| Frame pool (`mjpegd_framepool.*`) | the frames, the idle callback | GetLatest, Release, GetIdle, ReturnIdle, TryClear, Sort | calls back `AssignNewframe` | no frame is lost; only published frames are handed out; newest first |
| Frame processing (`mjpegd_frameproc.*`) | `_pending_frame`, drop counter | NextFrame, ProcPending, ProcessRawFrame, RecvBroken | interrupt to service loop, by an exchange of one pointer | the frame is in one hand at a time; the newest survives |
| Camera and capture driver (`mjpegd_camera.*`, `device/cam_ov2640`, `bsp/hal/dcmi.c`, `dma.c`) | `pExtension`, buffer, DMA and DCMI enable bits | Start, Stop, DoSnap, frame-end and DMA-end callbacks | calls NextFrame, RecvBroken in the interrupt | DMA writes only to a locked frame; the camera does not stay stopped |
| Service loop (`mjpegd.c`) | idle timer, counters | ProcPending, AssignNewframe, Stream_Output, CheckIdle, every 10 ms | all of the above, tcp_output | waiting clients get the newest frame; idle camera off, active camera on |
| Clients and requests (`mjpegd_client.*`, `mjpegd_stream.c`, `mjpegd_request.*`, callbacks of `mjpegd.c`) | list of `ClientState_t`, two counters | accept, recv, sent, poll, err | lwIP raw API | frame taken and given back once; whole frames on the wire; limits hold; nobody idles for ever |
| Concurrent queue (`bsp/sys/concurrent_queue.*`) | three indices, slots | TryPush, TryPop in main and interrupts | debug serial | a FIFO without loss or duplication |
| Ring buffer (`bsp/sys/buffer.h`) | head, tail | push, pop, move | USART streams | bytes in order |
| Deferred callbacks and flags (`bsp/sys/callback.h`, `bitflag.h`) | pending bits | set in the interrupt, served in main | ADC, DMA | no event lost, order kept |
| Debug serial, USART (`bsp/sys/dbg_serial.c`, `bsp/hal/usart.c`) | two queues, transmit buffer, interrupt and DMA enables | printf from any context, TXE and TC interrupts, wake-up, receive | queue, interrupts | bytes out once and in order, transmitter never asleep with work, printf returns |
| Webhook (`app/webhook`) | `webhook_httpc_state`, retries left, timers | trigger, result, retry, timeout | lwIP's client and timers | never locked, bounded retries |
| Configuration store (`device/config_storage.*`) | flash sector, write buffer | load, write, commit, erase | flash, web API, button, console | a start runs with what was committed or with defaults, across power loss and flash faults |
| Current trigger (`device/current_trig.c`) | ADC halves, thresholds | DMA half and full, service | webhook, flash light | every half processed once |
| Web API, HTTP server (`app/httpd`) | request fields | read and write configuration | configuration store | |
| Network time, UART commands, button, buzzer, LEDs, flash light | small | polling | | |
| File system, flash disk (`app/filesys`, `device/flash_w25qx.c`) | | read, write, erase | FatFs, USB | |
| System control, start-up (`main.c`, `bsp/sys/sysctrl.c`) | delayed reset | main loop | everything | |
| Remaining HAL drivers, Ethernet and USB glue | registers | | vendor stacks | |

The hard behaviour is in the frame path: it is the only place where a large shared
structure is written by an interrupt and read by the main loop without disabling
interrupts, and where resources (a handful of frames) are held by remote parties.
After it come the primitives used from both contexts (queue, flags), then the
components with timers or persistent state (webhook, configuration store).
The full list of hazards, each at its line and with the properties that cover it,
is in `PROJECT.json`.

## 2. How the program runs

* One core, no operating system. `main.c` loops over the services; lwIP is polled
  from that loop, so every lwIP callback runs in main.
* Interrupts: DCMI (end of frame) and the DMA stream (end of transfer) run at the
  same priority and do not nest. An interrupt may fall between any two instructions
  of main; main is still until it returns.
* `_sem` and `_pending_frame` change by compare-and-exchange and exchange, and so
  do the indices of the concurrent queue; nothing else is protected.
* The USART interrupt is above every interrupt that prints. Flash is erased and
  written with interrupts off.

`FramePipeline` therefore has two contexts, `main` and `isr`, each with a point
`pc[x]`. `At("main", l)` requires the interrupt to be at rest; the interrupt
starts at any time (`FrameEnd`, `DmaFull`). A step of main is a stretch of code
with at most one access to data an interrupt may change, or with accesses only to
a frame main holds locked. Code that runs in both contexts (GetIdle, DoSnap,
ReturnIdle, AssignNewframe) is one set of actions with the context as parameter.

## 3. The modules

```
FrameShare <-- refines -- FramePipeline -- refines --> ClientFrames <-- refines -- ClientConn
                          FramePipelineMC                                          ClientConnMC
                          FramePipelineProofs, FramePipelineNews                   ClientConnProofs

ClaimQueue <-- refines -- ConcurrentQueue      ClaimQueue <-- uses -- DebugSerial
                          ConcurrentQueueMC                           DebugSerialMC
                          ConcurrentQueueProofs, ConcurrentQueueFifo  DebugSerialProofs
ConfigStorage                                  Webhook
ConfigStorageMC, ConfigStorageProofs           WebhookMC, WebhookProofs
```

**FramePipeline** models the frame, pool, processing, camera, capture driver and
service loop, and of a client what it does to frames. Actions bear the names of the
functions; a function split at interruptible points gives several
(`GetLatestSort`, `GetLatestTry`, `GetLatestCas`, `StoreFrame` for one turn of
`AssignNewframe`). `ReadSem` and `CasPasses` are the two halves of
`Semaphore_TryDownMulti`. Abstractions:

* Of an image only its length class, its capture time and whether its header has
  been written are kept. `frame_len` is 0, good, or equal to `payload_len`, which the
  code takes for a partial image; the inserted comment may bring a whole one there
  (`ProcessRawFrame`).
* The JPEG search at the end of a transfer finds an image or not. When the buffer
  fills before the frame ends, `Overrun` says what it may contain: no end
  (`truncated`), a whole JPEG whose frame has not ended (`complete`), or an end tag
  that makes `frame_len` equal to `payload_len` (`full`).
* The capture clock moves once per capture, up to `MaxTime`. GetLatest subtracts
  times of a clock it read before; a frame stamped after that may look outdated,
  which `GetLatestNone` allows.
* `SortFrames` reads all capture times in one step: an interrupt between two
  reads changes only frames that it leaves locked, which later steps refuse. The
  order among equal times is left open.
* `DoSnap` is one step in main because the camera is then still (`QuietCamera`);
  in the interrupt every step is undisturbed anyway.
* The order of clients and the frame period are left open: a walk may visit
  waiting clients in any order and find any of them not due.
* A search that finds nothing stores its NULL over `cs->frame` (`NothingFound`), as
  the code does; after a walk of the interrupt that can forget a frame.
* `malloc` may fail wherever the code calls it (`MallocFails`).
* Counters that only feed the console are left out, and `FrameProc_RecvRaw`, which
  nobody calls.

**FrameShare** is what the pool promises: a frame is locked by one owner, or read
by at most `MAX` clients; only an owner changes its contents. The mapping reads
`writer` off the places that hold a frame (pending, camera, main, interrupt) and
`readers` off the clients' pointers, counting a frame acquired but not yet stored
in `cs->frame`.

**ClientConn** models the TCP side: `ClientState_t`, the linked list, the two
counters and lwIP's send queue of each connection. A callback is one step.
Abstractions:

* A file (the response in flash, or a frame) is a number of units, about a
  segment each; of a queued unit only its source is kept. `Write` takes up to
  `2*tcp_mss`, up to the room in the send buffer, or less when memory is short.
* The pool gives any frame, or none: which, and whether it is new, is
  FramePipeline's subject. The frame period is left open.
* A request is a stream, a snap, a page with a fixed answer, or one that cannot
  be parsed. A second request is ignored by the code and is not a step.
* A client of the model is a connection lwIP can hold. lwIP acknowledges,
  refuses, fails, polls and frees at any time (`Sent`, `RecvClosed`, `Err`, `Poll`,
  `PcbGone`). `tcp_close` of a connected pcb always succeeds in the version in the
  repository, so the "try again later in poll" branch of CloseConn is not reached.
  `tcp_write` fails there only for lack of memory.

**ClientFrames** is the contract between the two: a connection opens, asks, is given
a frame only while it waits for one, gives it back once, may fail with it, closes.
FramePipeline implements it under every interleaving with the interrupt and
ClientConn under every order of network events. It is what lets each leave the
other's state out: FramePipeline's free choice of `FrameSent`, `CloseConn` and
output errors is allowed to be any ClientFrames behaviour, and ClientConn's free
choice of frames likewise.

**ConcurrentQueue** splits TryPush and TryPop at every access to an index or a slot;
any number of calls are under way at once and may be overtaken anywhere. A call's
copies of the indices (`snap_r`, ...) are reset when they are dead, so that they do
not tell states apart. The mode `allow_push_preempt` is chosen at the start. The
indices count modulo `IndexRange`, in the code 2^32: no call may be overtaken by a
whole round of them, which the header asks of its users ("as large as possible to
avoid ABA problem") and `SizesAssumption` of the constants. A thread of the model is
a call, and a call is a push or a pop: `Pushers` and `Poppers` are disjoint.

**ClaimQueue** is what the queue promises: places are claimed in order, filled in
any, taken from the front and only when filled. The mapping reads the places from
`r_idx` up to `w_idx` off the slots, or off the claimant's argument while a place
is not filled.

**DebugSerial** uses ClaimQueue (its actions, not the code of the queue) for
`tx_con_queue` and models `fputc`, the wake-up, the transmit half of the USART
interrupt and the DMA. Contexts are numbered by priority and nest; `Running` lets a
context step only when all above it are done. The wake-up of an idle transmitter is
three steps: the test, TC off, TXE on. A byte is its number in the order of
acceptance, so "once and in order" is a counter on the wire. `WindowPrints` says
whether an interrupt may print between those three steps; with it the transmitter
can be lost (section 6).

**ConfigStorage** has one action per object written, per half of the final checksum
entry, and for the erase and the comparison; power may fail before, between and
inside them, the flash may refuse a write or an erase, in the middle of an object too,
or spoil a write. The sector is a function of its slots, a field of an object each; a
field is a setting, the default, blank or scrap, and the checksum is the contents it
was computed from, or none.

* `Save` is a SET of the web interface or the console's `dhcp`: some fields change, the
  others are what `Config_Storage_Read` returns, which is the sector and never the
  buffer; the object then goes over the one in the buffer.
* `Pointed` are the fields an object keeps as pointers (the webhook's host and URI, the
  time server's name); `InUse` follows them into the sector.
* `Sound` is the part of an object's check that all objects share: settings are taken.
  What a check says of anything else is left open. It may be yes even for erased bytes:
  a webhook that is off, or a network with a DHCP flag that is not 0
  (`ethernetif.c:463`).
* `intent` (what the sector should come to hold), `reverted` (fields a SET has put back
  to what the sector held), `settled` (what every later start must run with) and
  `exposed` (has a save collected torn bytes?) are history and occur only in
  properties.

**Webhook** keeps of each request that it is under way, of each delay that it is
running, and of the handle whether it is set. Whether lwIP accepts a request and how
it ends are choices. `Pool` is the number of lwIP timers others leave to it;
`sys_timeout` does nothing when none is left.

`*MC` modules hold the symmetry sets and, for ConfigStorage, the choice of `Pointed`. Operators whose comment
describes a different behaviour from the code's (`ReleaseForgotten`,
`SentTooMuch`, ...) are the mutated forms `PROJECT.json` lists: each property fails
when its definition is replaced by that form.

## 4. The runs

| Run | Bounds | Checks |
|---|---|---|
| frame_safety | 4 frames, 2 clients, MAX 2, 4 captures, truncated overruns, failing malloc | types, Conservation, OneHolder, PendingIsNews, QuietCamera, FrameShare, ClientFrames, NewerEachTime |
| frame_overrun | 3 frames, 2 clients, MAX 2, 3 captures, every overrun, failing malloc | DmaOwnsTarget, ClientsHoldPublished: what remains true when units leak (section 6); WalksInOverrunOnly: when they can |
| frame_liveness | 3 frames, 1 client, MAX 2, 3 captures, no overrun | LockedComesBack, CameraResumes |
| conn_safety | 3 connections, 1 of them may stream, 2 frames of 2 units, writes and buffer of 1, 1 retry | types, CountsMatch, ListIsClients, WritesItsFrame, ClientFrames, FramesWhole, OneFramePerSnap |
| conn_liveness | 2 connections, 1 frame of 3 units, writes of 1 | FrameComesBack, NoIdleForever |
| queue_fifo | 2 pushers, 2 poppers, 2 slots, indices modulo 4 starting at 3, 3 pushes, both modes | types, IndexOrder, ClaimQueue, EmptyIsTrue, ClaimsFilled |
| serial_print | main and 2 interrupts, queue of 4, buffer of 2, 9 prints | types, OnceInOrder, HasTransmitter, MainPrintReturns |
| config_powerloss | 2 objects of 2 fields, the last one pointed at, 1 setting besides the default, 1 kind of scrap, 2 saves, 2 faults | types, NothingForgotten, NothingTornInUse, Durable, Heals |
| webhook_retry | 2 retries, 3 timers, 7 triggers | types, BusyHasCause, AttemptsBounded, BecomesFree |
| old_frame, unacked_frame, serial_window | as small as shows it | section 6 |

Why these bounds are enough to be of interest:

* Frames: one attached, one pending, one in main's hands and one with a client is
  the largest number of different roles at once; with four frames all occur
  together, with three the pool runs out.
* Clients: two share one frame (`MAX` 2 is then the limit) and hold different ones.
  In the code `MJPEGD_FRAME_SEMAPHORE_MAX` is above the number of clients.
* Captures: four distinct times fill four frames, and sending, dropping and replacing
  the pending frame all happen within three. The bound stops the camera at
  `MaxTime`, never main, which goes on with what has been captured; in the
  liveness run it can only make fewer captures happen.
* Units: a frame takes at least two writes and two acknowledgements, and the
  response one, so every file straddles callbacks; in unacked_frame the queue holds
  a whole frame and acknowledgements of part of it. A longer frame repeats the same
  steps.
* Three connections make a list with a first, a middle and a last element. A
  connection refused at the limit leaves no trace, so none beyond it is needed.
* One retry: a poll that counts and a poll that gives up.
* Queue: two slots and four indices wrap with the first pushes; three pushes fill the
  queue, find it full, and refill a slot a popper has read. Pops are not bounded.
  `MaxCalls` below `IndexRange` is the assumption about overtaking.
* Serial: a buffer smaller than the queue, so one interrupt does not empty it; three
  contexts, so that an interrupted interrupt prints as well; nine prints fill queue
  and buffer and still leave main waiting.
* Configuration: two objects are a first and a last one, two fields one that a SET
  gives and one that it reads back. Two faults are a failure and one during the recovery
  from it, two saves the one that fails and the one that follows. Each property fails
  when its exception is left out (`reverted`, `exposed`, `Pointed`), so the cases the
  exceptions are about do occur.
* Webhook: seven triggers start chains beside chains and exhaust the pool of three,
  with a retry that is followed by a retry.

The deadlock check is off in the serial and webhook runs, which end when all prints
and triggers are used up. Symmetry is used only in runs without liveness;
the specifications treat frames and clients alike (`Listed` walks the pointers, and
the walk's choices do not depend on order).

## 5. Fairness

* `FramePipeline!Fairness`: weak fairness of main's service (a `sys_timeout` that
  rearms itself, and straight-line code) and of the interrupt's own steps. None of
  the sensor, of clients or of lwIP.
* `ClientConn!FairSpec`: weak fairness of `Poll` for each connection: lwIP's slow
  timer polls every active pcb. None of the peer, the camera or acknowledgements:
  a peer that stays silent is the case the retry limit exists for.
* `ConcurrentQueue!Fairness`: weak fairness of a call once begun. That is a scheduler
  which returns to every thread; a pusher in an interrupt that waits for the pusher
  below it has no such scheduler, and the header's second mode is for it.
* `DebugSerial!Fairness`: weak fairness of each context's steps (enabled only when
  nothing above it runs), of the USART interrupt and of the DMA.
* `ConfigStorage!FairSpec`: weak fairness of the start and of a commit under way. A
  device that is never switched on again heals nothing, but one that is off and has
  power starts.
* `Webhook!FairSpec`: weak fairness of results and timeouts: lwIP's client times out
  by itself, and main polls lwIP's timers.

## 6. Where the code differs from its own words

Three runs expect a violation, each of one statement found in a comment:

| Run | Statement | What happens |
|---|---|---|
| old_frame | an old frame in DoSnap "should never happen" (`mjpegd_camera.c:31`) | after a frame larger than the buffer it happens every time |
| unacked_frame | nothing may be closed until acknowledged (`mjpegd.c:520`) | a frame is released on the acknowledgement of any part once all is written |
| serial_window | printf may be called everywhere "including ISR" (`dbg_serial.c:5`) | an interrupt that prints inside main's wake-up of the transmitter can leave it without the interrupt that ends its transfer; main's printf never returns |

Six more are stated as definitions and not run; each fails as an INVARIANT (the
fourth and the sixth as a PROPERTY) of a configuration like that of old_frame or unacked_frame,
or the one named:

| Definition | Statement | What happens |
|---|---|---|
| FramePipeline!OneLockAtMost | more than one locked frame refuses an idle frame (`mjpegd_framepool.c:185`) | the count is returned as `bool`, so the test never fires |
| FramePipeline!NothingLeaks, with `Overrun = {"complete"}` | RecvBroken is thread safe (`mjpegd_frameproc.c:16`) | its callback walks the clients; a frame can be acquired twice for one client |
| FramePipeline!NoHeapReentry | NextFrame is thread safe (`mjpegd_frameproc.c:67`) | it calls malloc in the interrupt while main may be in malloc |
| ClientConn!TransferDone | a frame is assigned when the transfer is done (`mjpegd.c:647`) | a half-written response is overwritten |
| ClientConn!NoFreedPbufKept | lwIP: a handler that returns an error has not freed the pbuf (`tcp.c:2006`) | the handler always frees it |
| ConfigStorage!CopiedToRam, in config_powerloss | "Data verified and copied to ram" (`config_storage.h:69`) | the webhook and the network time keep pointers into the sector (`webhook.c:26`, `nettime.c:22`) and read what the next commit makes of it |

Smaller ones are visible in the code without a run. The recommended pool of
clients + 2 frames (`mjpegd_opts.h:23-27`) counts one frame per client, one pending
and one being captured, and not the one the service is processing; while it does,
the interrupt may find no idle frame, and CheckIdle restarts the camera
(CameraResumes holds all the same). And "It'll retry in poll" (`mjpegd.c:352`)
names a retry that is commented out: a write that found no memory, with nothing
under way that could be acknowledged, waits for the retry limit (FrameComesBack
holds all the same).

The release of an unacknowledged frame is why ClientFrames and FrameShare speak of
`cs->frame` and not of the bytes lwIP still refers to: the code's own discipline
holds, and is not enough for the wire.

Outside the frame path:

* TryPush compares a copy of `w_idx` with a later `r_idx`. If others push and pop past
  that copy in between, the difference wraps and a queue with room is "full". A full
  answer therefore means nothing certain; an empty one does (EmptyIsTrue).
* A failed commit leaves a half-written sector and the buffer with the whole. Every SET
  starts from the sector (`Config_Storage_Read`, `config_storage.c:179`) and writes the
  whole object to the buffer. So the next SET of the same object puts the fields it does
  not give back to what the sector holds, old or half-written, and what the failed
  SET had changed there is lost; if the object's check takes them, half-written bytes
  are committed under a valid checksum. NothingForgotten and NothingTornInUse hold up
  to these saves (`reverted`, `exposed`) and not beyond.
* `Config_Storage_Erase` frees the buffer before it knows whether the erase succeeds;
  after a failed one the next save copies the whole sector, unchecked, with the same
  result for every object.
* With its DHCP flag anything but 0, `Ethernetif_IsConfigValid` takes any addresses
  (`ethernetif.c:463`), so also an erased object: under a valid checksum the network's
  check cannot catch what a save has collected.
* `Config_Storage_Load` does not advance past an object it skips or cannot allocate
  for. Every object of the list has its three functions and the heap is empty at that
  point, so neither happens.
* `SysCtrl_IsThreadInIRq` (`sysctrl.h:7`) tests one bit of the active vector number.
  The interrupts that print have odd numbers, so it answers rightly for them.
* A webhook request that fails at once leaves the hook free during its delay; each
  further trigger then starts a chain beside it. They share one retry count and take
  a timer of lwIP's pool each, and an empty pool drops the retry silently (lwIP's
  assertion is compiled out). AttemptsBounded and BusyHasCause hold all the same,
  the latter because a pool the webhook has emptied means that another chain's timer
  runs; others must leave it at least one timer for that (`WebhookAssumption`).
* `Webhook_Send` warns when the hook is disabled and goes on; its only caller asks
  first.

## 7. What is proved

Every invariant and every action property that a passing run checks is also a theorem,
and so are the four refinements; each holds for every value of the constants that
satisfies the assumptions and hypotheses named below. What stays with TLC is at the end
of this section.

### The frame path: FramePipelineProofs, FramePipelineNews

For any number of frames and clients, any `MAX` and any bound on time:

| Theorem | Property |
|---|---|
| TypeCorrect | TypeOK |
| FramesConserved | Conservation |
| LockedOnce | OneHolder |
| DmaSafe | DmaOwnsTarget |
| CameraQuiet | QuietCamera |
| WalksOnlyInOverrun | WalksInOverrunOnly |
| ImplementsFrameShare | SharesFrames |
| ImplementsClientFrames | KeepsContract |
| PendingNewest | PendingIsNews |
| FramesHeldPublished | ClientsHoldPublished |
| NewerFramesOnly | NewerEachTime |

All assume `ConstantsAssumption` (finite sets, `MAX` at least 1), and all but
WalksOnlyInOverrun assume `NoWholeOverrun`: a buffer that fills before its frame ends holds no whole image.
Without it NothingLeaks is false (section 6), and so are the theorems on Conservation
and FrameShare; DmaOwnsTarget and ClientsHoldPublished remain true in frame_overrun,
where they are only model-checked. WalksOnlyInOverrun holds whatever an overrun leaves
behind; it has a small invariant of its own (`Walks`), on the camera, the interrupt and
who is connected, and nothing of the frames.

The argument. `Conservation` alone is not inductive: a compare-and-exchange may only
be trusted if the value read was worth taking (`Trying`), a release only if the local
that holds the frame is set exactly where the code has one (`Locals`), the
interrupt's steps only if it never reaches the client walk while clients are
there (`Control`, `Camera`), and the store of `cs->frame` only if main's client
still waits (`ServesWaiting`). `IInv` is the conjunction of these with the types,
OneHolder and Conservation.
Each conjunct has a lemma with one step per action. The last two go through
`OneThing`: every action locks one frame, unlocks one, acquires one for one client,
releases one, writes one it has locked, passes one from hand to hand, or leaves the
locks alone (`StepsDoOneThing`). From it follow both the preservation of
Conservation, once per kind of step rather than once per action, and the refinement
of FrameShare, whose actions are those kinds.
For ClientFrames the contract carries its own invariant (`AskedFor`) and ServesWaiting
gives the only step that hands out a frame.

What is *in* the frames is the second module's subject; its invariant is `IInv` and
`Dated`. No time is later than the clock (`Past`), so a capture is newer than all
before it; the stamp of a capture only repeats the last time at the bound, when the
camera is disabled and the frame is thrown away. A frame is unlocked only with its
header or clear (`Published`), which makes whatever GetLatest finds publishable
without looking at its header, as the code does. The pending frame, and one the
interrupt is handing over, is newer than every other but the one in the interrupt's
hands (`News`); that exception is what an exchange of the pending frame leaves behind
until it is cleared. Last, between the search and the exchange the interrupt may lock and clear
the frame main has chosen. `Chosen` says that the frame is then still locked when main
goes on, so the exchange fails, or else is still newer than the client's last: nothing
is unlocked while main is serving, because the interrupt gives frames back only from
`Camera_Stop`. Conservation turns "locked" into a semaphore of 0, which the exchange
sees.

### The connections: ClientConnProofs

For any number of connections and frames, any limits, lengths and send buffer:

| Theorem | Property |
|---|---|
| ConnsTypeCorrect | TypeOK |
| CountsAlwaysMatch | CountsMatch |
| ListHoldsTheClients | ListIsClients |
| FramesWrittenAreHeld | WritesItsFrame |
| FramesStayWhole | FramesWhole |
| SnapsGetOneFrame | OneFramePerSnap |
| ConnsImplementClientFrames | KeepsContract |

They assume `ConstantsAssumption`: finitely many connections, no frame or request that
is NULL, files of at least one unit. The records and the list are proved apart. Each
callback is shown to do to the record of every connection one of a few things (`Does`:
it opens, ends, asks, writes, is given a frame, fails, or stays); types, `Good` and
the properties of one connection follow from that list, not from the callbacks again.
Of the list a step only sees that a client comes, goes or stays (`Moves`), and `Linked`
says that `next` leads from `head` through every client once and ends: unlinking is
correct because the element before the one removed is unique. `Listed` computes the
walk; that it keeps to the chain is an argument by the least step at which it would
leave it (`NatMinimum`), since induction over the walk is out of reach.

### The queue: ConcurrentQueueProofs, ConcurrentQueueFifo

For any number of pushers and poppers, any length that divides the range of the
indices, both modes and any starting index:

| Theorem | Property |
|---|---|
| QueueTypeCorrect | TypeOK |
| IndicesKeepOrder | IndexOrder |
| EmptyMeansEmpty | EmptyIsTrue |
| QueueIsFifo | IsFifo |

They assume `SizesAssumption`. The part of it that matters is `MaxCalls < IndexRange`:
a compare-and-exchange of an index succeeds wrongly only if a whole round went by since
the copy was taken. `Counted` makes that a sum: the distance an index has moved since a
copy, what the queue holds and the claims still to come never exceed `MaxCalls`
(`PushCopy`, `PopCopy`). A copy that is still equal is then still right, so a claim
finds room and a pop finds something filled. `IndexOrder` and `EmptyIsTrue` follow.
For the refinement, `Filled` adds what the slots hold (`Settled`: claims not counted yet
stand at indices of their own, and every other slot between `r_idx` and `w_idx` has its
value) and what a popper has read of the front place (`Seen`). Slots are apart because
indices less than `MemLen` from `r_idx` differ modulo `MemLen` (`SlotsApart`), which is
where "divides" is used. Then one lemma per action: a claim appends a place, a write
and its commit fill it, an exchange takes the front, and all other steps leave the
mapped queue as it is.

### The debug serial: DebugSerialProofs

For any number of priorities, any queue, buffer and number of bytes:

| Theorem | Property | Hypothesis |
|---|---|---|
| SerialTypeCorrect | TypeOK | |
| PrintsGoOutInOrder | OnceInOrder | `~WindowPrints` |
| BytesHaveTransmitter | HasTransmitter | `~WindowPrints` |

The hypothesis is the one serial_print runs with: no interrupt prints between the three
register writes of another context's wake-up. serial_window shows what is lost without
it (section 6). The invariant `SerialInv` says that whoever is between those writes is
alone there and the transmitter idle (`Alone`), that the DMA sends the whole buffer or
the buffer has nothing (`Transmitter`), that waiting bytes have an interrupt coming or a
context on its way to ask for one (`Woken`), that a place not yet filled is that of a
context about to fill it (`Claimed`), and that the bytes on the wire, in the buffer and
in the queue carry consecutive numbers (`Numbered`). `Woken` with `Claimed` is what
makes it safe for the interrupt to go to sleep behind an unfilled place.

### Configuration and webhook: ConfigStorageProofs, WebhookProofs

For any number of objects, any settings and any number of saves and faults:

| Theorem | Property |
|---|---|
| ConfigTypes | TypeOK |
| ConfigRemembers | NothingForgotten |
| ConfigSound | NothingTornInUse |
| ConfigDurable | Durable |

They assume `ConfigAssumption`: erased and torn bytes are no settings. The exceptions
are part of what is proved: `Collected` (NothingForgotten) says that the buffer, or the
sector when there is none, owes the next commit every field that was meant, but those a
SET has put back. `TornApart` follows torn bytes to every place a start or a save could
take them from, and shows that, until a save has collected some, only the sector has
them and then does not verify: what was taken from it, the buffer and what the checksum
sums are free of them. `Points` says which fields may be pointers; with it an
object reads torn bytes only through one. `Settled` says why a start finds what a commit
left: the sector is as it was, and verifies, or has no mark and the promise is the defaults; every step that touches it
first ends the promise. `Writing` keeps the object being written within the list.
Durable is an action property: one start, from the invariant.

For any number of retries, timers and triggers:

| Theorem | Property |
|---|---|
| WebhookTypes | TypeOK |
| NeverLocked | BusyHasCause |
| RetriesBounded | AttemptsBounded |

They assume `WebhookAssumption`: lwIP's pool has a timer for the hook. The argument is
a count: attempts made, timers running and retries left together never exceed what
the sends allow (`Counting`), since a failure turns a retry into a timer, a timer
into an attempt, and only a send adds to the sum. Without counting the timers a
retry in its delay would be missing from the bound.

### Only model-checked

* Liveness under fairness, which the prover does not do: LockedComesBack,
  CameraResumes, FrameComesBack, NoIdleForever, ClaimsFilled, MainPrintReturns, Heals,
  BecomesFree.
* DmaOwnsTarget and ClientsHoldPublished when an overrun may leave a whole image in the
  buffer (frame_overrun).
* The statements of section 6, which are false.

## 8. What is not modelled, and why

* Third-party and generated code, which is nearly all of the repository: of its half
  a million lines the program's own are about 19,000, and of those most are register
  set-up, tables, web pages turned into C, and formatting. The models cover the
  parts that decide something under concurrency, failure or time; no reading of the
  rest as a state machine would say anything. lwIP appears only as the order in
  which it may call back.
* Bytes: JPEG contents, HTTP text, the comment and headers inserted, and whether
  the tail still fits behind an image of nearly `payload_len`.
* The wrap of the millisecond clock (49 days), sensor registers, I2C, SPI, ADC.
* Receiving on the debug serial: the interrupt moves the receive buffer into a queue
  with one pusher and one popper, a case of ConcurrentQueue; the byte dropped when
  the queue is full, and the part of a line ReadLine discards, are lost by design.
* The current trigger's two pending bits: set by the DMA interrupt and cleared by
  main with a plain read-modify-write, in an order that favours the later half. Both
  are harmless unless main is late by half a buffer, about 640 ms, when the samples
  are overwritten anyway; the code reports it. Its arithmetic is floating point.
* Polling drivers, the file system and formatting code have no state worth a model.

## 9. The plan

Done: FramePipeline, FrameShare, ClientConn, ClientFrames, ClaimQueue, ConcurrentQueue,
DebugSerial, ConfigStorage, Webhook, their runs, the proofs of section 7.

Next:

1. FramePipeline without `NoWholeOverrun`: DmaOwnsTarget and ClientsHoldPublished from a
   weaker account of the semaphores, in which units may be lost and never gained.
2. FrameShare, ClientFrames and ClaimQueue: what each promises by itself, so that the
   refinements carry it to the detailed modules.

--------------------------- MODULE FramePipeline ---------------------------
(***************************************************************************)
(* The frame path of the MJPEG daemon: the frame pool, the camera that     *)
(* fills frames by DMA, the service loop that publishes them and the       *)
(* clients that send them.                                                 *)
(*                                                                         *)
(* There is one core and no RTOS.  Code runs in two contexts: "main" (the  *)
(* loop of main.c, with every lwIP callback) and "isr" (the DCMI and DMA   *)
(* interrupts, which share a priority and therefore never nest).  An       *)
(* interrupt may fall between any two steps of main; main does not move    *)
(* until it has returned.  The same functions run in both contexts, so the *)
(* actions take the context x as a parameter and pc[x] is where it stands. *)
(*                                                                         *)
(* One step of main is a stretch of code with at most one access to data   *)
(* that an interrupt can change, or whose other accesses are to a frame    *)
(* main holds locked.                                                      *)
(***************************************************************************)
EXTENDS Integers, FiniteSets

CONSTANTS
    Frames,      \* the frame pool
    Clients,     \* connections, at most MJPEGD_TOTAL_CLIENT_LIMIT of them
    MAX,         \* MJPEGD_FRAME_SEMAPHORE_MAX
    MaxTime,     \* bound on the captures considered
    Overrun,     \* what a DMA buffer may hold when it fills before the frame ends
    MallocFails, \* whether BSP_MALLOC may return NULL
    NULL

ASSUME ConstantsAssumption ==
    /\ IsFiniteSet(Frames) /\ IsFiniteSet(Clients)
    /\ NULL \notin Frames /\ NULL \notin Clients
    /\ MAX \in Nat \ {0}
    /\ MaxTime \in Nat \ {0}
    /\ Overrun \subseteq {"truncated", "complete", "full"}
    /\ MallocFails \in BOOLEAN

VARIABLES
    sem,         \* sem[f]: _sem of the frame
    img,         \* img[f]: frame_len, capture_time and whether the header is written
    pending,     \* mjpegd->_pending_frame
    ext,         \* pExtension: the frame attached to the camera
    buf,         \* CamOV2640_Buffer, as the frame it is the payload of
    dma,         \* the frame the enabled DMA stream writes to, NULL when disabled
    capturing,   \* DCMI_CR_CAPTURE
    enabled,     \* DCMI_CR_ENABLE
    now,         \* the capture clock: sys_now() at the last capture
    st,          \* st[c]: conn_state of a connection, "free" when it has none
    frame,       \* frame[c]: cs->frame
    prev,        \* prev[c]: cs->previous_frame_time
    expired,     \* no client for longer than MJPEGD_IDLE_TIMEOUT
    pc,          \* pc[x]: the point context x has reached
    ret,         \* ret[x]: where the running AssignNewframe returns to
    todo,        \* todo[x]: clients its walk has still to visit
    cs,          \* cs[x]: the client it serves
    fr,          \* fr[x]: the locked frame x has in hand
    got,         \* got[x]: the acquired frame not yet stored in cs->frame
    try,         \* try[x]: the frame whose semaphore x is taking
    snap,        \* snap[x]: the value of that semaphore when read
    cand,        \* cand[x]: frames of sorted_idx not yet tried
    key          \* key[x]: the capture times sorted_idx was sorted by

frameVars  == <<sem, img>>
cameraVars == <<ext, buf, dma, capturing, enabled>>
clientVars == <<st, frame, prev, expired>>
walkVars   == <<ret, todo, cs, got>>
scanVars   == <<try, snap, cand, key>>
vars == <<frameVars, pending, cameraVars, now, clientVars, pc, walkVars, fr, scanVars>>

Ctx == {"main", "isr"}
FrameOrNull == Frames \cup {NULL}

\* frame_len as the code tells it apart: 0, in between, payload_len
Length == {"none", "good", "full"}

Image == [len : Length, ct : Nat, hdr : BOOLEAN]
Blank == [len |-> "none", ct |-> 0, hdr |-> FALSE]

Labels == {"loop", "process", "again", "output", "check", "stop", "clear",
           "tc_try", "tc_cas", "tc_wipe", "tc_unlock",
           "off", "nextframe",
           "gi_sort", "gi_try", "gi_cas", "snap", "broken", "return",
           "assign", "gl_sort", "gl_try", "gl_cas", "store"}

TypeOK ==
    /\ sem \in [Frames -> 0..MAX]
    /\ img \in [Frames -> Image]
    /\ pending \in FrameOrNull /\ ext \in FrameOrNull
    /\ buf \in FrameOrNull /\ dma \in FrameOrNull
    /\ capturing \in BOOLEAN /\ enabled \in BOOLEAN /\ expired \in BOOLEAN
    /\ now \in Nat
    /\ st \in [Clients -> {"free", "request", "stream", "closing"}]
    /\ frame \in [Clients -> FrameOrNull]
    /\ prev \in [Clients -> Nat]
    /\ pc \in [Ctx -> Labels]
    /\ ret \in [Ctx -> {"loop", "again", "output", "off"}]
    /\ todo \in [Ctx -> SUBSET Clients]
    /\ cs \in [Ctx -> Clients \cup {NULL}]
    /\ fr \in [Ctx -> FrameOrNull] /\ got \in [Ctx -> FrameOrNull]
    /\ try \in [Ctx -> FrameOrNull]
    /\ snap \in [Ctx -> 0..MAX]
    /\ cand \in [Ctx -> SUBSET Frames]
    /\ key \in [Ctx -> [Frames -> Nat]]

Unsorted == [f \in Frames |-> 0]

\* Mjpegd_Init: every frame clear and free, camera off, no client, first
\* service call about to start.
Init ==
    /\ sem = [f \in Frames |-> MAX]
    /\ img = [f \in Frames |-> Blank]
    /\ pending = NULL /\ ext = NULL /\ buf = NULL /\ dma = NULL
    /\ capturing = FALSE /\ enabled = FALSE /\ expired = FALSE
    /\ now = 0
    /\ st = [c \in Clients |-> "free"]
    /\ frame = [c \in Clients |-> NULL]
    /\ prev = [c \in Clients |-> 0]
    /\ pc = [x \in Ctx |-> IF x = "main" THEN "loop" ELSE "off"]
    /\ ret = [x \in Ctx |-> IF x = "main" THEN "loop" ELSE "off"]
    /\ todo = [x \in Ctx |-> {}]
    /\ cs = [x \in Ctx |-> NULL]
    /\ fr = [x \in Ctx |-> NULL] /\ got = [x \in Ctx |-> NULL]
    /\ try = [x \in Ctx |-> NULL] /\ snap = [x \in Ctx |-> 0]
    /\ cand = [x \in Ctx |-> {}] /\ key = [x \in Ctx |-> Unsorted]

-----------------------------------------------------------------------------
\* Contexts.

\* Main runs only while no interrupt does.
At(x, l) == pc[x] = l /\ (x = "isr" \/ pc["isr"] = "off")
Goto(x, l) == pc' = [pc EXCEPT ![x] = l]

\* Where a context goes when the code that started its work is done.
Home(x) == IF x = "main" THEN "loop" ELSE "off"

Valid(f) == img[f].len = "good"                        \* Mjpegd_Frame_IsValid
IsClear(f) == img[f].len = "none" /\ img[f].ct = 0     \* Mjpegd_Frame_IsClear

-----------------------------------------------------------------------------
\* The clients, as far as frames go.  lwIP calls these from main's loop.

\* Mjpegd_Client_New, from the accept handler.
Accept(c) ==
    /\ At("main", "loop") /\ st[c] = "free"
    /\ st' = [st EXCEPT ![c] = "request"]
    /\ prev' = [prev EXCEPT ![c] = 0]
    /\ expired' = FALSE
    /\ UNCHANGED <<frameVars, pending, cameraVars, now, frame, pc, walkVars, fr, scanVars>>

\* The request arrives: a stream or a snap, which gets frames, or another one,
\* which never does.
RecvRequest(c) ==
    /\ At("main", "loop") /\ st[c] = "request"
    /\ \E s \in {"stream", "closing"} : st' = [st EXCEPT ![c] = s]
    /\ UNCHANGED <<frameVars, pending, cameraVars, now, frame, prev, expired,
                   pc, walkVars, fr, scanVars>>

\* A release that forgets the semaphore.
ReleaseForgotten(c) ==
    /\ sem' = sem
    /\ frame' = [frame EXCEPT ![c] = NULL]

\* FramePool_Release of the frame a client holds, if it holds one.
ReleaseFrame(c) ==
    /\ sem' = IF frame[c] = NULL THEN sem ELSE [sem EXCEPT ![frame[c]] = @ + 1]
    /\ frame' = [frame EXCEPT ![c] = NULL]

\* Mjpegd_Stream_FrameSent, when an ACK finds nothing left to send.  A stream
\* waits for the next frame, a snap closes.
FrameSent(c) ==
    /\ At("main", "loop") /\ st[c] = "stream" /\ frame[c] # NULL
    /\ ReleaseFrame(c)
    /\ \E s \in {"stream", "closing"} : st' = [st EXCEPT ![c] = s]
    /\ UNCHANGED <<img, pending, cameraVars, now, prev, expired, pc, walkVars, fr, scanVars>>

\* Mjpegd_CloseConn, from the recv, poll and err handlers, at any time.
CloseConn(c) ==
    /\ At("main", "loop") /\ st[c] # "free"
    /\ ReleaseFrame(c)
    /\ st' = [st EXCEPT ![c] = "free"]
    /\ UNCHANGED <<img, pending, cameraVars, now, prev, expired, pc, walkVars, fr, scanVars>>

ClientStep(c) == Accept(c) \/ RecvRequest(c) \/ FrameSent(c) \/ CloseConn(c)

-----------------------------------------------------------------------------
\* Mjpegd_AssignNewframe: walk the client list, give each waiting client the
\* newest frame it has not sent.  r is where the walk returns to.

StartAssign(x, r) ==
    /\ Goto(x, "assign")
    /\ ret' = [ret EXCEPT ![x] = r]
    /\ todo' = [todo EXCEPT ![x] = Clients]

\* Conditions that do not look at the frame a client already has.
WaitingAny(c) == st[c] = "stream"
\* The conditions of the loop body, all but the frame period.
Waiting(c) == st[c] = "stream" /\ frame[c] = NULL

\* The walk reaches a waiting client whose frame period is over ...
AssignClient(x) ==
    /\ At(x, "assign")
    /\ \E c \in todo[x] :
          /\ Waiting(c)
          /\ todo' = [todo EXCEPT ![x] = @ \ {c}]
          /\ cs' = [cs EXCEPT ![x] = c]
    /\ Goto(x, "gl_sort")
    /\ UNCHANGED <<frameVars, pending, cameraVars, now, clientVars, ret, got, fr, scanVars>>

\* ... or passes by the rest, none of them waiting or due.
AssignDone(x) ==
    /\ At(x, "assign")
    /\ Goto(x, ret[x])
    /\ todo' = [todo EXCEPT ![x] = {}]
    /\ UNCHANGED <<frameVars, pending, cameraVars, now, clientVars, ret, cs, got, fr, scanVars>>

\* The order FramePool_Sort computes.  The capture times are read in one step:
\* an interrupt between two reads changes only frames it leaves locked.
SortFrames(x) ==
    /\ key' = [key EXCEPT ![x] = [f \in Frames |-> img[f].ct]]
    /\ cand' = [cand EXCEPT ![x] = Frames]
    /\ UNCHANGED <<try, snap>>

EndScan(x) ==
    /\ key' = [key EXCEPT ![x] = Unsorted]
    /\ cand' = [cand EXCEPT ![x] = {}]
    /\ try' = [try EXCEPT ![x] = NULL]
    /\ snap' = [snap EXCEPT ![x] = 0]

PassBy(x, f) ==
    /\ cand' = [cand EXCEPT ![x] = @ \ {f}]
    /\ UNCHANGED <<try, snap, key>>

\* First half of Semaphore_TryDownMulti: read _sem of f.
ReadSem(x, f) ==
    /\ try' = [try EXCEPT ![x] = f]
    /\ snap' = [snap EXCEPT ![x] = sem[f]]
    /\ cand' = [cand EXCEPT ![x] = @ \ {f}]
    /\ UNCHANGED key

\* GetLatest returns NULL, and cs->frame is stored all the same.
NothingFound(x) ==
    /\ frame' = [frame EXCEPT ![cs[x]] = NULL]
    /\ cs' = [cs EXCEPT ![x] = NULL]

GetLatestSort(x) ==
    /\ At(x, "gl_sort")
    /\ \/ /\ Goto(x, "gl_try") /\ SortFrames(x) /\ UNCHANGED <<frame, cs>>
       \/ /\ MallocFails
          /\ Goto(x, "assign") /\ NothingFound(x) /\ UNCHANGED scanVars
    /\ UNCHANGED <<frameVars, pending, cameraVars, now, st, prev, expired, ret, todo, got, fr>>

Newest(x, f) == f \in cand[x] /\ \A g \in cand[x] : key[x][g] <= key[x][f]
Oldest(x, f) == f \in cand[x] /\ \A g \in cand[x] : key[x][f] <= key[x][g]

\* A comparison that would let the frame just sent through again.
NotOlderThanSent(x, f) == prev[cs[x]] = 0 \/ img[f].ct >= prev[cs[x]]
NewerThanSent(x, f) == prev[cs[x]] = 0 \/ img[f].ct > prev[cs[x]]

\* The loop of GetLatest: the next frame in the order is skipped, tried, or
\* found outdated, which ends the search.  A frame stamped after the function
\* read the clock may look outdated too: the difference wraps.
GetLatestSkip(x) ==
    /\ At(x, "gl_try")
    /\ \E f \in Frames :
          /\ Newest(x, f)
          /\ \/ ~Valid(f) \/ img[f].ct = 0
             \/ NewerThanSent(x, f) /\ sem[f] < 1
          /\ PassBy(x, f)
    /\ UNCHANGED <<frameVars, pending, cameraVars, now, clientVars, pc, walkVars, fr>>

GetLatestTry(x) ==
    /\ At(x, "gl_try")
    /\ \E f \in Frames :
          /\ Newest(x, f) /\ Valid(f) /\ img[f].ct # 0
          /\ NewerThanSent(x, f) /\ sem[f] >= 1
          /\ ReadSem(x, f)
    /\ Goto(x, "gl_cas")
    /\ UNCHANGED <<frameVars, pending, cameraVars, now, clientVars, walkVars, fr>>

GetLatestNone(x) ==
    /\ At(x, "gl_try")
    /\ \/ cand[x] = {}
       \/ \E f \in Frames :
             /\ Newest(x, f) /\ Valid(f) /\ img[f].ct # 0
             /\ prev[cs[x]] # 0
             /\ ~NewerThanSent(x, f) \/ img[f].ct # key[x][f]
    /\ Goto(x, "assign")
    /\ EndScan(x)
    /\ NothingFound(x)
    /\ UNCHANGED <<frameVars, pending, cameraVars, now, st, prev, expired, ret, todo, got, fr>>

\* Second half of TryDown: the compare-and-exchange, where a plain store would
\* always go through.
StorePasses(x) == TRUE
CasPasses(x) == sem[try[x]] = snap[x]

GetLatestCas(x) ==
    /\ At(x, "gl_cas")
    /\ IF CasPasses(x)
       THEN /\ sem' = [sem EXCEPT ![try[x]] = snap[x] - 1]
            /\ got' = [got EXCEPT ![x] = try[x]]
            /\ Goto(x, "store")
            /\ EndScan(x)
       ELSE /\ Goto(x, "gl_try")
            /\ try' = [try EXCEPT ![x] = NULL] /\ snap' = [snap EXCEPT ![x] = 0]
            /\ UNCHANGED <<sem, got, cand, key>>
    /\ UNCHANGED <<img, pending, cameraVars, now, clientVars, ret, todo, cs, fr>>

\* cs->frame is stored, checked again, and its time recorded.
StoreFrame(x) ==
    /\ At(x, "store")
    /\ IF Valid(got[x])
       THEN /\ frame' = [frame EXCEPT ![cs[x]] = got[x]]
            /\ prev' = [prev EXCEPT ![cs[x]] = img[got[x]].ct]
            /\ UNCHANGED sem
       ELSE /\ sem' = [sem EXCEPT ![got[x]] = @ + 1]
            /\ frame' = [frame EXCEPT ![cs[x]] = NULL]
            /\ UNCHANGED prev
    /\ Goto(x, "assign")
    /\ cs' = [cs EXCEPT ![x] = NULL]
    /\ got' = [got EXCEPT ![x] = NULL]
    /\ UNCHANGED <<img, pending, cameraVars, now, st, expired, ret, todo, fr, scanVars>>

AssignStep(x) ==
    \/ AssignClient(x) \/ AssignDone(x)
    \/ GetLatestSort(x) \/ GetLatestSkip(x) \/ GetLatestTry(x) \/ GetLatestNone(x)
    \/ GetLatestCas(x) \/ StoreFrame(x)

-----------------------------------------------------------------------------
\* FramePool_GetIdle, Camera_DoSnap, FrameProc_RecvBroken, FramePool_ReturnIdle:
\* called by the service loop and by the interrupt.

\* GetLockedFrameCount counts into a u16_t and returns bool.
LockedFrameCount == IF \E f \in Frames : sem[f] = 0 THEN 1 ELSE 0

GetIdleSort(x) ==
    /\ At(x, "gi_sort")
    /\ \/ /\ ~(LockedFrameCount > 1)
          /\ Goto(x, "gi_try") /\ SortFrames(x)
       \/ /\ LockedFrameCount > 1 \/ MallocFails
          /\ Goto(x, Home(x)) /\ UNCHANGED scanVars
    /\ UNCHANGED <<frameVars, pending, cameraVars, now, clientVars, walkVars, fr>>

\* A lock that does not wait for the last reader.
LockNeedsLess == MAX - 1
\* The least semaphore value TryLock takes a frame at.
LockNeeds == MAX

GetIdleSkip(x) ==
    /\ At(x, "gi_try")
    /\ \E f \in Frames : Oldest(x, f) /\ sem[f] < LockNeeds /\ PassBy(x, f)
    /\ UNCHANGED <<frameVars, pending, cameraVars, now, clientVars, pc, walkVars, fr>>

GetIdleTry(x) ==
    /\ At(x, "gi_try")
    /\ \E f \in Frames : Oldest(x, f) /\ sem[f] >= LockNeeds /\ ReadSem(x, f)
    /\ Goto(x, "gi_cas")
    /\ UNCHANGED <<frameVars, pending, cameraVars, now, clientVars, walkVars, fr>>

GetIdleNone(x) ==
    /\ At(x, "gi_try") /\ cand[x] = {}
    /\ Goto(x, Home(x))
    /\ EndScan(x)
    /\ UNCHANGED <<frameVars, pending, cameraVars, now, clientVars, walkVars, fr>>

GetIdleCas(x) ==
    /\ At(x, "gi_cas")
    /\ IF CasPasses(x)
       THEN /\ sem' = [sem EXCEPT ![try[x]] = snap[x] - LockNeeds]
            /\ fr' = [fr EXCEPT ![x] = try[x]]
            /\ Goto(x, "snap")
            /\ EndScan(x)
       ELSE /\ Goto(x, "gi_try")
            /\ try' = [try EXCEPT ![x] = NULL] /\ snap' = [snap EXCEPT ![x] = 0]
            /\ UNCHANGED <<sem, fr, cand, key>>
    /\ UNCHANGED <<img, pending, cameraVars, now, clientVars, walkVars>>

\* The checks DoSnap makes before it attaches the frame.
CanSnap == enabled /\ ~capturing /\ ext = NULL

\* Device_CamOV2640_CaptureCmd(true) with b as the buffer: starts the DMA, or
\* answers BUSY and leaves it off while the DCMI captures.
CaptureCmd(b, busy) ==
    /\ capturing' = TRUE
    /\ dma' = IF busy THEN NULL ELSE b

\* Attach the frame and start the DMA and the capture.  CaptureCmd repeats
\* checks that hold here, so its failure branch is never taken.
DoSnap(x) ==
    /\ At(x, "snap")
    /\ IF CanSnap
       THEN /\ ext' = fr[x] /\ buf' = fr[x]
            /\ img' = [img EXCEPT ![fr[x]] = Blank]
            /\ CaptureCmd(fr[x], FALSE)
            /\ fr' = [fr EXCEPT ![x] = NULL]
            /\ Goto(x, Home(x))
       ELSE /\ Goto(x, "broken")
            /\ UNCHANGED <<ext, buf, dma, img, capturing, fr>>
    /\ UNCHANGED <<sem, pending, enabled, now, clientVars, walkVars, scanVars>>

RecvBroken(x) ==
    /\ At(x, "broken")
    /\ img' = [img EXCEPT ![fr[x]] = Blank]
    /\ ret' = [ret EXCEPT ![x] = Home(x)]
    /\ Goto(x, "return")
    /\ UNCHANGED <<sem, pending, cameraVars, now, clientVars, todo, cs, got, fr, scanVars>>

\* A published frame that is never unlocked.
ReturnIdleLocked(x) ==
    /\ At(x, "return")
    /\ fr' = [fr EXCEPT ![x] = NULL]
    /\ StartAssign(x, ret[x])
    /\ UNCHANGED <<frameVars, pending, cameraVars, now, clientVars, cs, got, scanVars>>

\* Unlock, then the pool's callback: Mjpegd_RecvNewFrame_handler.
ReturnIdle(x) ==
    /\ At(x, "return")
    /\ sem' = [sem EXCEPT ![fr[x]] = @ + MAX]
    /\ fr' = [fr EXCEPT ![x] = NULL]
    /\ StartAssign(x, ret[x])
    /\ UNCHANGED <<img, pending, cameraVars, now, clientVars, cs, got, scanVars>>

FrameStep(x) ==
    \/ GetIdleSort(x) \/ GetIdleSkip(x) \/ GetIdleTry(x) \/ GetIdleNone(x) \/ GetIdleCas(x)
    \/ DoSnap(x) \/ RecvBroken(x) \/ ReturnIdle(x)

-----------------------------------------------------------------------------
\* The interrupt: the DMA transfer ends, because the frame did or because the
\* buffer is full.

\* The clock moves once per capture, up to the bound.
Stamp == IF now < MaxTime THEN now + 1 ELSE now

\* DcmiRxDmaTcCallback and, when there is a frame to hand over, the detaching
\* half of Cam2640_NewFrame_Handler.  len is what the JPEG search made of the
\* buffer, cap whether the DCMI still captures.
DmaTc(len, cap) ==
    IF len = "none" /\ enabled
    THEN \* bad frame: capture again into the same buffer
         /\ CaptureCmd(buf, cap)
         /\ UNCHANGED <<img, ext, buf, now, fr>>
    ELSE /\ capturing' = cap
         /\ dma' = NULL
         /\ ext' = NULL
         /\ img' = IF ext = NULL THEN img
                   ELSE [img EXCEPT ![ext].len = len, ![ext].ct = Stamp]
         /\ buf' = IF cap THEN buf ELSE NULL
         /\ now' = Stamp
         /\ fr' = [fr EXCEPT !["isr"] = ext]

\* The point of the interrupt after DmaTc.
AfterTc(len) ==
    IF enabled THEN (IF len = "none" THEN "off" ELSE "nextframe")
    ELSE (IF ext = NULL THEN "off" ELSE "broken")

\* VSYNC ends the frame: the snapshot capture stops, FrameCallback disables the
\* DMA, which raises TC if it was running.
FrameEnd ==
    /\ pc["isr"] = "off" /\ capturing /\ now < MaxTime
    /\ IF dma = NULL
       THEN /\ capturing' = FALSE
            /\ UNCHANGED <<img, ext, buf, dma, now, fr, pc>>
       ELSE \E len \in {"none", "good"} : DmaTc(len, FALSE) /\ Goto("isr", AfterTc(len))
    /\ UNCHANGED <<sem, pending, enabled, clientVars, walkVars, scanVars>>

\* The transfer count runs out while the frame is still arriving.
DmaFull ==
    /\ pc["isr"] = "off" /\ capturing /\ dma # NULL /\ now < MaxTime
    /\ \E kind \in Overrun :
          LET len == CASE kind = "truncated" -> "none"
                       [] kind = "complete" -> "good"
                       [] kind = "full" -> "full"
          IN  DmaTc(len, TRUE) /\ Goto("isr", AfterTc(len))
    /\ UNCHANGED <<sem, pending, enabled, clientVars, walkVars, scanVars>>

\* A hand-over that keeps using the frame it made pending.
NextFrameKept ==
    /\ At("isr", "nextframe")
    /\ pending' = IF Valid(fr["isr"]) THEN fr["isr"] ELSE pending
    /\ Goto("isr", "snap")
    /\ UNCHANGED <<frameVars, cameraVars, now, clientVars, walkVars, fr, scanVars>>

\* FrameProc_NextFrame: hand the frame over as the pending one, and go on with
\* the one it replaces, with the same one if it is bad, or with an idle one.
NextFrame ==
    /\ At("isr", "nextframe")
    /\ IF fr["isr"] # NULL /\ Valid(fr["isr"])
       THEN /\ pending' = fr["isr"]
            /\ fr' = [fr EXCEPT !["isr"] = pending]
            /\ Goto("isr", IF pending = NULL THEN "gi_sort" ELSE "snap")
       ELSE /\ Goto("isr", IF fr["isr"] = NULL THEN "gi_sort" ELSE "snap")
            /\ UNCHANGED <<pending, fr>>
    /\ UNCHANGED <<frameVars, cameraVars, now, clientVars, walkVars, scanVars>>

-----------------------------------------------------------------------------
\* The service loop, every MJPEGD_SERVICE_PERIOD.

\* A read of the pending pointer where the code exchanges it.
ServiceBeginRead ==
    /\ At("main", "loop")
    /\ IF pending = NULL
       THEN StartAssign("main", "output") /\ UNCHANGED fr
       ELSE /\ fr' = [fr EXCEPT !["main"] = pending]
            /\ Goto("main", "process")
            /\ UNCHANGED <<ret, todo>>
    /\ UNCHANGED <<frameVars, pending, cameraVars, now, clientVars, cs, got, scanVars>>

\* FrameProc_ProcPending takes the pending frame.
ServiceBegin ==
    /\ At("main", "loop")
    /\ IF pending = NULL
       THEN StartAssign("main", "output") /\ UNCHANGED <<pending, fr>>
       ELSE /\ pending' = NULL
            /\ fr' = [fr EXCEPT !["main"] = pending]
            /\ Goto("main", "process")
            /\ UNCHANGED <<ret, todo>>
    /\ UNCHANGED <<frameVars, cameraVars, now, clientVars, cs, got, scanVars>>

\* ProcessRawFrame writes comment, header and tail once, to a valid frame.  The
\* comment lengthens the image, which may make it look like a partial one.
ProcessRawFrame ==
    /\ At("main", "process")
    /\ LET f == fr["main"] IN
       IF Valid(f) /\ ~img[f].hdr
       THEN \E len \in {"good", "full"} :
               img' = [img EXCEPT ![f] = [len |-> len, ct |-> img[f].ct, hdr |-> TRUE]]
       ELSE img' = img
    /\ ret' = [ret EXCEPT !["main"] = "again"]
    /\ Goto("main", "return")
    /\ UNCHANGED <<sem, pending, cameraVars, now, clientVars, todo, cs, got, fr, scanVars>>

\* The service's own call of AssignNewframe, after the callback's.
AssignAgain ==
    /\ At("main", "again")
    /\ StartAssign("main", "output")
    /\ UNCHANGED <<frameVars, pending, cameraVars, now, clientVars, cs, got, fr, scanVars>>

\* Mjpegd_Stream_Output: a tcp_output error makes a client wait for its close.
StreamOutput ==
    /\ At("main", "output")
    /\ \E E \in SUBSET {c \in Clients : st[c] = "stream"} :
          st' = [c \in Clients |-> IF c \in E THEN "closing" ELSE st[c]]
    /\ Goto("main", "check")
    /\ UNCHANGED <<frameVars, pending, cameraVars, now, frame, prev, expired,
                   walkVars, fr, scanVars>>

Connected == {c \in Clients : st[c] # "free"}

\* An idle timer that clients do not restart.
CheckIdleTimerOnly ==
    /\ At("main", "check")
    /\ expired' = TRUE
    /\ enabled' = FALSE
    /\ Goto("main", IF enabled THEN "stop" ELSE "clear")
    /\ UNCHANGED <<frameVars, pending, ext, buf, dma, capturing, now, st, frame, prev,
                   walkVars, fr, scanVars>>

\* Mjpegd_CheckIdle.  The idle timer may be past its limit once nobody is
\* connected, and stays so until somebody is: Camera_Stop then clears the
\* enable bit ...
CheckIdle ==
    /\ At("main", "check") /\ Connected = {}
    /\ expired' = TRUE
    /\ enabled' = FALSE
    /\ Goto("main", IF enabled THEN "stop" ELSE "clear")
    /\ UNCHANGED <<frameVars, pending, ext, buf, dma, capturing, now, st, frame, prev,
                   walkVars, fr, scanVars>>

\* ... and the capture bit; disabling a running DMA raises TC.
StopCapture ==
    /\ At("main", "stop")
    /\ IF dma = NULL
       THEN /\ capturing' = FALSE
            /\ Goto("main", "clear")
            /\ UNCHANGED <<img, ext, buf, dma, now, fr>>
       ELSE \E len \in {"none", "good"} :
               /\ DmaTc(len, FALSE)
               /\ pc' = [pc EXCEPT !["isr"] = AfterTc(len), !["main"] = "clear"]
    /\ UNCHANGED <<sem, pending, enabled, clientVars, walkVars, scanVars>>

\* FramePool_TryClear, if the pool is not clear: lock, clear and unlock each
\* frame until one cannot be locked.
ClearPool ==
    /\ At("main", "clear")
    /\ IF \A f \in Frames : IsClear(f)
       THEN Goto("main", "loop") /\ UNCHANGED cand
       ELSE Goto("main", "tc_try") /\ cand' = [cand EXCEPT !["main"] = Frames]
    /\ UNCHANGED <<frameVars, pending, cameraVars, now, clientVars, walkVars, fr, try, snap, key>>

ClearTry ==
    /\ At("main", "tc_try")
    /\ \E f \in cand["main"] : sem[f] >= LockNeeds /\ ReadSem("main", f)
    /\ Goto("main", "tc_cas")
    /\ UNCHANGED <<frameVars, pending, cameraVars, now, clientVars, walkVars, fr>>

ClearEnd ==
    /\ At("main", "tc_try")
    /\ cand["main"] = {} \/ \E f \in cand["main"] : sem[f] < LockNeeds
    /\ Goto("main", "loop")
    /\ EndScan("main")
    /\ UNCHANGED <<frameVars, pending, cameraVars, now, clientVars, walkVars, fr>>

ClearCas ==
    /\ At("main", "tc_cas")
    /\ IF CasPasses("main")
       THEN /\ sem' = [sem EXCEPT ![try["main"]] = snap["main"] - LockNeeds]
            /\ fr' = [fr EXCEPT !["main"] = try["main"]]
            /\ Goto("main", "tc_wipe")
            /\ try' = [try EXCEPT !["main"] = NULL] /\ snap' = [snap EXCEPT !["main"] = 0]
            /\ UNCHANGED <<cand, key>>
       ELSE Goto("main", "loop") /\ EndScan("main") /\ UNCHANGED <<sem, fr>>
    /\ UNCHANGED <<img, pending, cameraVars, now, clientVars, walkVars>>

ClearWipe ==
    /\ At("main", "tc_wipe")
    /\ img' = [img EXCEPT ![fr["main"]] = Blank]
    /\ Goto("main", "tc_unlock")
    /\ UNCHANGED <<sem, pending, cameraVars, now, clientVars, walkVars, fr, scanVars>>

ClearUnlock ==
    /\ At("main", "tc_unlock")
    /\ sem' = [sem EXCEPT ![fr["main"]] = @ + MAX]
    /\ fr' = [fr EXCEPT !["main"] = NULL]
    /\ Goto("main", "tc_try")
    /\ UNCHANGED <<img, pending, cameraVars, now, clientVars, walkVars, scanVars>>

ClearStep == ClearPool \/ ClearTry \/ ClearEnd \/ ClearCas \/ ClearWipe \/ ClearUnlock

\* A capture started without looking whether one is running.
CheckActiveAlways ==
    /\ At("main", "check") /\ ~expired
    /\ enabled' = TRUE
    /\ Goto("main", IF enabled THEN "gi_sort" ELSE "loop")
    /\ UNCHANGED <<frameVars, pending, ext, buf, dma, capturing, now, clientVars,
                   walkVars, fr, scanVars>>

\* Otherwise CheckIdle starts the camera, or a capture if none is running.
CheckActive ==
    /\ At("main", "check") /\ ~expired
    /\ enabled' = TRUE
    /\ Goto("main", IF enabled /\ ~capturing THEN "gi_sort" ELSE "loop")
    /\ UNCHANGED <<frameVars, pending, ext, buf, dma, capturing, now, clientVars,
                   walkVars, fr, scanVars>>

ServiceStep ==
    \/ ServiceBegin \/ ProcessRawFrame \/ AssignAgain \/ StreamOutput
    \/ CheckIdle \/ StopCapture \/ ClearStep \/ CheckActive

-----------------------------------------------------------------------------
Context(x) == AssignStep(x) \/ FrameStep(x)

Next ==
    \/ \E c \in Clients : ClientStep(c)
    \/ \E x \in Ctx : Context(x)
    \/ FrameEnd \/ DmaFull \/ NextFrame
    \/ ServiceStep

Spec == Init /\ [][Next]_vars

\* The service timer fires again and again, and neither context stops in the
\* middle of a function.  Nothing is assumed of clients or of the sensor.
Fairness ==
    /\ WF_vars(ServiceStep \/ Context("main"))
    /\ WF_vars(NextFrame \/ Context("isr"))

FairSpec == Spec /\ Fairness

-----------------------------------------------------------------------------
\* Who has a frame.

\* The places that hold a frame locked.
Roles == {"pending", "camera", "main", "isr"}
Holds(r) == CASE r = "pending" -> pending [] r = "camera" -> ext [] OTHER -> fr[r]
Locked(f) == \E r \in Roles : Holds(r) = f

\* The clients that read a frame: they have it, or it is about to be stored.
Readers(f) == {c \in Clients : frame[c] = f \/ \E x \in Ctx : got[x] = f /\ cs[x] = c}

(***************************************************************************)
(* Safety.                                                                 *)
(***************************************************************************)

\* A frame's semaphore always accounts for exactly what the code holds of it:
\* all of it for the one place that has it locked, one unit for each client
\* that reads it, and no lock without its holder.  TryAcquire, Release, TryLock
\* and Unlock run in two contexts and in many paths; one forgotten or repeated
\* release, or a lost update, and a frame leaves the pool for good.
Conservation ==
    \A f \in Frames :
        IF Locked(f)
        THEN sem[f] = 0 /\ Readers(f) = {}
        ELSE sem[f] = MAX - Cardinality(Readers(f))

\* No frame is in two of the locked places at once: handed over as pending,
\* attached to the camera, or in the hands of the service loop or the interrupt.
OneHolder ==
    \A r, s \in Roles : r # s /\ Holds(r) # NULL => Holds(r) # Holds(s)

\* While the DMA stream runs it writes to the frame attached to the camera,
\* and no client is sending that frame.
DmaOwnsTarget ==
    dma # NULL => dma = ext /\ Readers(dma) = {}

\* A client only ever has a frame that is whole, that carries its HTTP header,
\* and whose capture time is the one recorded for the client.
ClientsHoldPublished ==
    \A c \in Clients :
        frame[c] # NULL => /\ Valid(frame[c]) /\ img[frame[c]].hdr
                           /\ img[frame[c]].ct = prev[c]

\* The pending frame is whole, not yet published, and newer than anything any
\* client was ever given: the exchange that drops frames keeps the newest.
PendingIsNews ==
    pending # NULL => /\ Valid(pending) /\ ~img[pending].hdr
                      /\ \A c \in Clients : prev[c] < img[pending].ct

\* When the service loop looks for an idle frame, restarts the camera or clears
\* the pool, the camera is still and no interrupt can come in between.
QuietCamera ==
    pc["main"] \in {"gi_sort", "gi_try", "gi_cas", "snap", "broken",
                    "tc_try", "tc_cas", "tc_wipe", "tc_unlock"}
        => pc["isr"] = "off" /\ ~capturing

\* The interrupt walks the clients only when a stopped camera returns its frame,
\* and then none is connected, or when a buffer ran over with a whole image in it
\* and the camera still captures: an interrupt at the end of a frame never shares
\* cs->frame with main.
WalksInOverrunOnly ==
    pc["isr"] \in {"assign", "gl_sort", "gl_try", "gl_cas", "store"} /\ Connected # {}
        => enabled /\ capturing

\* The pool keeps the promise of FrameShare: what the counters, the roles and the
\* clients' pointers do to a frame is locking, writing, unlocking, acquiring and
\* releasing it, one at a time and in an order that discipline allows.  Between
\* the compare-and-exchange and the store a frame already counts as read.
Share == INSTANCE FrameShare WITH
            writer <- {f \in Frames : Locked(f)},
            readers <- [f \in Frames |-> Readers(f)],
            data <- img, Contents <- Image
SharesFrames == Share!Spec

\* Seen from a connection, whichever context serves it, frames come and go as
\* ClientFrames says: one at a time, only while it waits for one, and each given
\* back once.  ClientConn keeps the same contract from the TCP side.
Contract == INSTANCE ClientFrames
KeepsContract == Contract!Spec

(***************************************************************************)
(* Action properties.                                                      *)
(***************************************************************************)

\* A connection is never given a frame twice, nor an older one after a newer.
NewerEachTime ==
    [][\A c \in Clients : frame[c] = NULL /\ frame'[c] # NULL => prev'[c] > prev[c]]_vars

(***************************************************************************)
(* Liveness.                                                               *)
(***************************************************************************)

\* A locked frame comes back to the pool or goes to the camera: it is never kept
\* in a place nobody looks at again.  (MAX is above the number of clients in the
\* runs that check this, so a count of 0 is a lock.)
LockedComesBack == \A f \in Frames : sem[f] = 0 /\ ext # f ~> sem[f] # 0 \/ ext = f

\* A camera that is on and idle captures again, or is turned off: no sequence of
\* failed hand-overs leaves it waiting for a frame that never comes.
CameraResumes == enabled /\ ~capturing ~> capturing \/ ~enabled

(***************************************************************************)
(* What the repository says of itself and the code does not keep.          *)
(***************************************************************************)

\* "if more than 1 frame locked, we refuse to get new idle frame"
\* (mjpegd_framepool.c:185-186): past that check at most one frame is locked.
OneLockAtMost ==
    \A x \in Ctx : pc[x] \in {"gi_try", "gi_cas"}
        => Cardinality({f \in Frames : sem[f] = 0}) <= 1

\* "check if old frame is not released, should never happen"
\* (mjpegd_camera.c:31): DoSnap finds no frame attached.
NoOldFrame ==
    \A x \in Ctx : pc[x] = "snap" /\ enabled /\ ~capturing => ext = NULL

\* RecvBroken "is thread safe" (mjpegd_frameproc.c:16), so is the walk over the
\* clients its callback makes: when both contexts are at rest, every unit taken
\* from a semaphore belongs to a client that still has the frame.
NothingLeaks == pc["main"] = "loop" /\ pc["isr"] = "off" => Conservation

\* NextFrame "is thread safe" (mjpegd_frameproc.c:67), so is what it calls: it
\* does not enter malloc while main is inside it.
NoHeapReentry ==
    ~(pc["main"] \in {"gl_sort", "gi_sort"} /\ pc["isr"] \in {"gl_sort", "gi_sort"})
=============================================================================

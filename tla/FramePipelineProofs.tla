------------------------ MODULE FramePipelineProofs ------------------------
(***************************************************************************)
(* Proofs about FramePipeline, for any number of frames and clients and    *)
(* any MAX.  All but WalksOnlyInOverrun assume that a buffer which fills   *)
(* before its frame ends holds no whole frame: otherwise the interrupt     *)
(* walks the clients, and Conservation is lost (see NothingLeaks).         *)
(***************************************************************************)
EXTENDS FramePipeline, FiniteSetTheorems, TLAPS

NoWholeOverrun == Overrun \subseteq {"truncated"}

USE DEF CaptureCmd

-----------------------------------------------------------------------------
\* The inductive invariant.

ScanIdle == {"gi_sort", "gi_try", "gi_cas"}
Serving  == {"gl_sort", "gl_try", "gl_cas", "store"}
InHand   == {"process", "nextframe", "snap", "broken", "return", "tc_wipe", "tc_unlock"}
Clearing == {"tc_try", "tc_cas", "tc_wipe", "tc_unlock"}

\* Types, of everything but the semaphores, and the labels each context reaches.
Types ==
    /\ img \in [Frames -> Image]
    /\ pending \in FrameOrNull /\ ext \in FrameOrNull
    /\ buf \in FrameOrNull /\ dma \in FrameOrNull
    /\ capturing \in BOOLEAN /\ enabled \in BOOLEAN /\ expired \in BOOLEAN
    /\ now \in Nat
    /\ st \in [Clients -> {"free", "request", "stream", "closing"}]
    /\ frame \in [Clients -> FrameOrNull]
    /\ prev \in [Clients -> Nat]
    /\ todo \in [Ctx -> SUBSET Clients]
    /\ cs \in [Ctx -> Clients \cup {NULL}]
    /\ fr \in [Ctx -> FrameOrNull] /\ got \in [Ctx -> FrameOrNull]
    /\ try \in [Ctx -> FrameOrNull]
    /\ cand \in [Ctx -> SUBSET Frames]
    /\ key \in [Ctx -> [Frames -> Nat]]

Control ==
    /\ pc \in [Ctx -> Labels]
    /\ pc["main"] \notin {"off", "nextframe"}
    /\ pc["isr"] \in {"off", "nextframe", "snap", "broken", "return", "assign"} \cup ScanIdle
    /\ ret \in [Ctx -> {"loop", "again", "output", "off"}]
    /\ ret["main"] # "off" /\ ret["isr"] = "off"

\* A local holds a value exactly where the code has one.
Locals ==
    \A x \in Ctx :
        /\ fr[x] # NULL <=> pc[x] \in InHand
        /\ got[x] # NULL <=> pc[x] = "store"
        /\ cs[x] # NULL <=> pc[x] \in Serving

\* The client main serves waits for a frame all the while.
ServesWaiting ==
    pc["main"] \in Serving => st[cs["main"]] = "stream" /\ frame[cs["main"]] = NULL

\* A running DMA writes to the attached frame; a disabled camera captures
\* nothing once stopped; each label of the interrupt has its camera state.
Camera ==
    /\ dma # NULL => dma = ext /\ dma = buf /\ capturing
    /\ ~enabled /\ capturing => pc["main"] = "stop"
    /\ pc["main"] \in {"stop", "clear"} \cup Clearing => Connected = {} /\ ~enabled
    /\ pc["isr"] \in {"broken", "return", "assign"} =>
           Connected = {} /\ ~enabled /\ pc["main"] \in {"stop", "clear"}
    /\ pc["isr"] \in {"nextframe", "snap"} \cup ScanIdle =>
           enabled /\ ~capturing /\ ext = NULL
    /\ QuietCamera

\* What a compare-and-exchange is about to swap in is worth taking.
Trying ==
    /\ snap \in [Ctx -> 0..MAX]
    /\ \A x \in Ctx :
        /\ pc[x] = "gl_cas" => try[x] # NULL /\ snap[x] >= 1
        /\ pc[x] \in {"gi_cas", "tc_cas"} => try[x] # NULL /\ snap[x] = MAX

SemType == sem \in [Frames -> 0..MAX]

IInv ==
    /\ Types /\ Control /\ Locals /\ ServesWaiting /\ Camera
    /\ SemType /\ Trying
    /\ OneHolder /\ Conservation

-----------------------------------------------------------------------------
\* Types and control.

\* Both ways a transfer ends with its frame run the callback of DmaTc.
LEMMA TransferEnds ==
    ASSUME FrameEnd \/ StopCapture, dma # NULL
    PROVE  \E len \in Length : DmaTc(len, FALSE)
BY DEF FrameEnd, StopCapture, Length

\* The clock counts in Nat.
LEMMA StampType ==
    ASSUME Types PROVE Stamp \in Nat
BY ConstantsAssumption DEF Stamp, Types

\* A cleared frame is a frame.
LEMMA BlankType == Blank \in Image
BY DEF Blank, Image, Length

\* What the end of a transfer does to the types.
LEMMA DmaTcTypes ==
    ASSUME Types, NEW len \in Length, NEW cap \in BOOLEAN, DmaTc(len, cap)
    PROVE  /\ img' \in [Frames -> Image] /\ ext' \in FrameOrNull /\ buf' \in FrameOrNull
           /\ dma' \in FrameOrNull /\ capturing' \in BOOLEAN /\ now' \in Nat
           /\ fr' \in [Ctx -> FrameOrNull]
<1>1. img' \in [Frames -> Image]
  <2>1. CASE (len = "none" /\ enabled) \/ ext = NULL
    BY <2>1 DEF DmaTc, Types
  <2>2. CASE ~(len = "none" /\ enabled) /\ ext # NULL
    <3>1. img[ext] \in Image
      BY <2>2 DEF Types, FrameOrNull
    <3>2. img' = [img EXCEPT ![ext] = [[img[ext] EXCEPT !.len = len] EXCEPT !.ct = Stamp]]
      BY <2>2, <3>1 DEF DmaTc, Types, Image
    <3>3. [[img[ext] EXCEPT !.len = len] EXCEPT !.ct = Stamp] \in Image
      BY <3>1, StampType DEF Image
    <3> QED BY <3>2, <3>3 DEF Types
  <2> QED BY <2>1, <2>2
<1>2. /\ ext' \in FrameOrNull /\ buf' \in FrameOrNull
      /\ dma' \in FrameOrNull /\ capturing' \in BOOLEAN /\ now' \in Nat
      /\ fr' \in [Ctx -> FrameOrNull]
  BY StampType DEF DmaTc, Types, FrameOrNull, Ctx
<1> QED BY <1>1, <1>2

\* A search that finds nothing stores NULL over NULL: the client still waits.
LEMMA NothingFoundKeeps ==
    ASSUME IInv, NEW x \in Ctx, GetLatestSort(x) \/ GetLatestNone(x)
    PROVE  UNCHANGED clientVars
<1>1. x = "main" /\ pc["main"] \in Serving
  BY DEF GetLatestSort, GetLatestNone, At, IInv, Control, ScanIdle, Serving, Ctx
<1>2. frame[cs[x]] = NULL /\ cs[x] # NULL /\ cs[x] \in Clients \cup {NULL}
  BY <1>1 DEF IInv, ServesWaiting, Locals, Types
<1>3. UNCHANGED <<st, prev, expired>>
  BY DEF GetLatestSort, GetLatestNone
<1>4. frame' = frame \/ frame' = [frame EXCEPT ![cs[x]] = NULL]
  BY DEF GetLatestSort, GetLatestNone, NothingFound
<1>5. frame' = frame
  BY <1>2, <1>4 DEF IInv, Types
<1> QED BY <1>3, <1>5 DEF clientVars

\* Every step keeps the types.
LEMMA TypesStep ==
    ASSUME NoWholeOverrun, IInv, Next
    PROVE  Types'
<1> USE ConstantsAssumption, BlankType DEF NoWholeOverrun, IInv, Types, FrameOrNull,
      Unsorted,
      frameVars, cameraVars, clientVars, walkVars, scanVars, At, Goto, Home, Ctx
<1>1. ASSUME NEW c \in Clients, Accept(c) PROVE Types'
  BY <1>1 DEF Accept
<1>2. ASSUME NEW c \in Clients, RecvRequest(c) PROVE Types'
  BY <1>2 DEF RecvRequest
<1>3. ASSUME NEW c \in Clients, FrameSent(c) PROVE Types'
  BY <1>3 DEF FrameSent, ReleaseFrame
<1>4. ASSUME NEW c \in Clients, CloseConn(c) PROVE Types'
  BY <1>4 DEF CloseConn, ReleaseFrame
<1>5. ASSUME NEW x \in Ctx, AssignClient(x) PROVE Types'
  BY <1>5 DEF AssignClient, Waiting
<1>6. ASSUME NEW x \in Ctx, AssignDone(x) PROVE Types'
  BY <1>6 DEF AssignDone
<1>7. ASSUME NEW x \in Ctx, GetLatestSort(x) PROVE Types'
  BY <1>7, NothingFoundKeeps DEF GetLatestSort, NothingFound, SortFrames, Image
<1>8. ASSUME NEW x \in Ctx, GetLatestSkip(x) PROVE Types'
  BY <1>8 DEF GetLatestSkip, PassBy
<1>9. ASSUME NEW x \in Ctx, GetLatestTry(x) PROVE Types'
  BY <1>9 DEF GetLatestTry, ReadSem
<1>10. ASSUME NEW x \in Ctx, GetLatestNone(x) PROVE Types'
  BY <1>10, NothingFoundKeeps DEF GetLatestNone, NothingFound, EndScan
<1>11. ASSUME NEW x \in Ctx, GetLatestCas(x) PROVE Types'
  BY <1>11 DEF GetLatestCas, EndScan
<1>12. ASSUME NEW x \in Ctx, StoreFrame(x) PROVE Types'
  <2>1. got[x] \in Frames /\ cs[x] \in Clients
    BY <1>12 DEF StoreFrame, At, Locals, Serving
  <2>2. img[got[x]].ct \in Nat
    BY <2>1 DEF Image
  <2>3. prev' \in [Clients -> Nat] /\ frame' \in [Clients -> FrameOrNull]
    BY <1>12, <2>1, <2>2 DEF StoreFrame
  <2> QED BY <1>12, <2>3 DEF StoreFrame
<1>13. ASSUME NEW x \in Ctx, GetIdleSort(x) PROVE Types'
  BY <1>13 DEF GetIdleSort, SortFrames, Image
<1>14. ASSUME NEW x \in Ctx, GetIdleSkip(x) PROVE Types'
  BY <1>14 DEF GetIdleSkip, PassBy
<1>15. ASSUME NEW x \in Ctx, GetIdleTry(x) PROVE Types'
  BY <1>15 DEF GetIdleTry, ReadSem
<1>16. ASSUME NEW x \in Ctx, GetIdleNone(x) PROVE Types'
  BY <1>16 DEF GetIdleNone, EndScan
<1>17. ASSUME NEW x \in Ctx, GetIdleCas(x) PROVE Types'
  BY <1>17 DEF GetIdleCas, EndScan
<1>18. ASSUME NEW x \in Ctx, DoSnap(x) PROVE Types'
  <2>1. img' \in [Frames -> Image]
    BY <1>18 DEF DoSnap
  <2>2. CASE CanSnap
    BY <1>18, <2>1, <2>2 DEF DoSnap
  <2>3. CASE ~CanSnap
    BY <1>18, <2>1, <2>3 DEF DoSnap
  <2> QED BY <2>2, <2>3
<1>19. ASSUME NEW x \in Ctx, RecvBroken(x) PROVE Types'
  BY <1>19 DEF RecvBroken
<1>20. ASSUME NEW x \in Ctx, ReturnIdle(x) PROVE Types'
  BY <1>20 DEF ReturnIdle, StartAssign
<1>21. ASSUME FrameEnd PROVE Types'
  <2>1. CASE dma = NULL
    BY <1>21, <2>1 DEF FrameEnd
  <2>2. CASE dma # NULL
    <3>1. PICK len \in Length : DmaTc(len, FALSE)
      BY <1>21, <2>2, TransferEnds
    <3> QED BY <1>21, <3>1, DmaTcTypes DEF FrameEnd, Length
  <2> QED BY <2>1, <2>2
<1>22. ASSUME DmaFull PROVE Types'
  <2>1. PICK len \in Length : DmaTc(len, TRUE)
    BY <1>22 DEF DmaFull, Length
  <2> QED BY <1>22, <2>1, DmaTcTypes DEF DmaFull
<1>23. ASSUME NextFrame PROVE Types'
  BY <1>23 DEF NextFrame
<1>24. ASSUME ServiceBegin PROVE Types'
  BY <1>24 DEF ServiceBegin, StartAssign
<1>25. ASSUME ProcessRawFrame PROVE Types'
  <2>1. fr["main"] \in Frames
    BY <1>25 DEF ProcessRawFrame, At, Locals, InHand
  <2>2. img[fr["main"]].ct \in Nat
    BY <2>1 DEF Image
  <2>3. CASE Valid(fr["main"]) /\ ~img[fr["main"]].hdr
    <3>1. PICK len \in {"good", "full"} :
            img' = [img EXCEPT ![fr["main"]] =
                       [len |-> len, ct |-> img[fr["main"]].ct, hdr |-> TRUE]]
      BY <1>25, <2>3 DEF ProcessRawFrame
    <3>2. [len |-> len, ct |-> img[fr["main"]].ct, hdr |-> TRUE] \in Image
      BY <2>2, <3>1 DEF Image, Length
    <3> QED BY <1>25, <2>1, <3>1, <3>2 DEF ProcessRawFrame
  <2>4. CASE ~(Valid(fr["main"]) /\ ~img[fr["main"]].hdr)
    <3>1. img' = img
      BY <1>25, <2>4 DEF ProcessRawFrame
    <3> QED BY <1>25, <3>1 DEF ProcessRawFrame
  <2> QED BY <2>3, <2>4
<1>26. ASSUME AssignAgain PROVE Types'
  BY <1>26 DEF AssignAgain, StartAssign
<1>27. ASSUME StreamOutput PROVE Types'
  BY <1>27 DEF StreamOutput
<1>28. ASSUME CheckIdle PROVE Types'
  BY <1>28 DEF CheckIdle
<1>29. ASSUME StopCapture PROVE Types'
  <2>1. CASE dma = NULL
    BY <1>29, <2>1 DEF StopCapture
  <2>2. CASE dma # NULL
    <3>1. PICK len \in Length : DmaTc(len, FALSE)
      BY <1>29, <2>2, TransferEnds
    <3> QED BY <1>29, <3>1, DmaTcTypes DEF StopCapture, Length
  <2> QED BY <2>1, <2>2
<1>30. ASSUME ClearPool PROVE Types'
  BY <1>30 DEF ClearPool
<1>31. ASSUME ClearTry PROVE Types'
  BY <1>31 DEF ClearTry, ReadSem
<1>32. ASSUME ClearEnd PROVE Types'
  BY <1>32 DEF ClearEnd, EndScan
<1>33. ASSUME ClearCas PROVE Types'
  BY <1>33 DEF ClearCas, EndScan
<1>34. ASSUME ClearWipe PROVE Types'
  BY <1>34 DEF ClearWipe
<1>35. ASSUME ClearUnlock PROVE Types'
  BY <1>35 DEF ClearUnlock
<1>36. ASSUME CheckActive PROVE Types'
  BY <1>36 DEF CheckActive
<1> QED BY <1>1, <1>2, <1>3, <1>4, <1>5, <1>6, <1>7, <1>8, <1>9, <1>10, <1>11,
       <1>12, <1>13, <1>14, <1>15, <1>16, <1>17, <1>18, <1>19, <1>20, <1>21,
       <1>22, <1>23, <1>24, <1>25, <1>26, <1>27, <1>28, <1>29, <1>30, <1>31,
       <1>32, <1>33, <1>34, <1>35, <1>36 DEF Next, ClientStep, Context,
       AssignStep, FrameStep, ServiceStep, ClearStep

\* Every step keeps each context where it belongs.
LEMMA ControlStep ==
    ASSUME NoWholeOverrun, IInv, Next
    PROVE  Control'
<1> USE ConstantsAssumption DEF NoWholeOverrun, IInv, Control, Types, Labels, ScanIdle,
      frameVars, cameraVars, clientVars, walkVars, scanVars, At, Goto, Home, Ctx
<1>1. ASSUME NEW c \in Clients, Accept(c) PROVE Control'
  BY <1>1 DEF Accept
<1>2. ASSUME NEW c \in Clients, RecvRequest(c) PROVE Control'
  BY <1>2 DEF RecvRequest
<1>3. ASSUME NEW c \in Clients, FrameSent(c) PROVE Control'
  BY <1>3 DEF FrameSent, ReleaseFrame
<1>4. ASSUME NEW c \in Clients, CloseConn(c) PROVE Control'
  BY <1>4 DEF CloseConn, ReleaseFrame
<1>5. ASSUME NEW x \in Ctx, AssignClient(x) PROVE Control'
  BY <1>5 DEF AssignClient, Waiting, Camera, Connected
<1>6. ASSUME NEW x \in Ctx, AssignDone(x) PROVE Control'
  BY <1>6 DEF AssignDone
<1>7. ASSUME NEW x \in Ctx, GetLatestSort(x) PROVE Control'
  BY <1>7, NothingFoundKeeps DEF GetLatestSort, NothingFound, SortFrames
<1>8. ASSUME NEW x \in Ctx, GetLatestSkip(x) PROVE Control'
  BY <1>8 DEF GetLatestSkip, PassBy
<1>9. ASSUME NEW x \in Ctx, GetLatestTry(x) PROVE Control'
  BY <1>9 DEF GetLatestTry, ReadSem
<1>10. ASSUME NEW x \in Ctx, GetLatestNone(x) PROVE Control'
  BY <1>10, NothingFoundKeeps DEF GetLatestNone, NothingFound, EndScan
<1>11. ASSUME NEW x \in Ctx, GetLatestCas(x) PROVE Control'
  BY <1>11 DEF GetLatestCas, EndScan
<1>12. ASSUME NEW x \in Ctx, StoreFrame(x) PROVE Control'
  BY <1>12 DEF StoreFrame
<1>13. ASSUME NEW x \in Ctx, GetIdleSort(x) PROVE Control'
  BY <1>13 DEF GetIdleSort, SortFrames
<1>14. ASSUME NEW x \in Ctx, GetIdleSkip(x) PROVE Control'
  BY <1>14 DEF GetIdleSkip, PassBy
<1>15. ASSUME NEW x \in Ctx, GetIdleTry(x) PROVE Control'
  BY <1>15 DEF GetIdleTry, ReadSem
<1>16. ASSUME NEW x \in Ctx, GetIdleNone(x) PROVE Control'
  BY <1>16 DEF GetIdleNone, EndScan
<1>17. ASSUME NEW x \in Ctx, GetIdleCas(x) PROVE Control'
  BY <1>17 DEF GetIdleCas, EndScan
<1>18. ASSUME NEW x \in Ctx, DoSnap(x) PROVE Control'
  BY <1>18 DEF DoSnap
<1>19. ASSUME NEW x \in Ctx, RecvBroken(x) PROVE Control'
  BY <1>19 DEF RecvBroken
<1>20. ASSUME NEW x \in Ctx, ReturnIdle(x) PROVE Control'
  BY <1>20 DEF ReturnIdle, StartAssign
<1>21. ASSUME FrameEnd PROVE Control'
  BY <1>21 DEF FrameEnd, DmaTc, AfterTc
<1>22. ASSUME DmaFull PROVE Control'
  BY <1>22 DEF DmaFull, DmaTc, AfterTc
<1>23. ASSUME NextFrame PROVE Control'
  BY <1>23 DEF NextFrame
<1>24. ASSUME ServiceBegin PROVE Control'
  BY <1>24 DEF ServiceBegin, StartAssign
<1>25. ASSUME ProcessRawFrame PROVE Control'
  BY <1>25 DEF ProcessRawFrame
<1>26. ASSUME AssignAgain PROVE Control'
  BY <1>26 DEF AssignAgain, StartAssign
<1>27. ASSUME StreamOutput PROVE Control'
  BY <1>27 DEF StreamOutput
<1>28. ASSUME CheckIdle PROVE Control'
  BY <1>28 DEF CheckIdle
<1>29. ASSUME StopCapture PROVE Control'
  BY <1>29 DEF StopCapture, DmaTc, AfterTc
<1>30. ASSUME ClearPool PROVE Control'
  BY <1>30 DEF ClearPool
<1>31. ASSUME ClearTry PROVE Control'
  BY <1>31 DEF ClearTry, ReadSem
<1>32. ASSUME ClearEnd PROVE Control'
  BY <1>32 DEF ClearEnd, EndScan
<1>33. ASSUME ClearCas PROVE Control'
  BY <1>33 DEF ClearCas, EndScan
<1>34. ASSUME ClearWipe PROVE Control'
  BY <1>34 DEF ClearWipe
<1>35. ASSUME ClearUnlock PROVE Control'
  BY <1>35 DEF ClearUnlock
<1>36. ASSUME CheckActive PROVE Control'
  BY <1>36 DEF CheckActive
<1> QED BY <1>1, <1>2, <1>3, <1>4, <1>5, <1>6, <1>7, <1>8, <1>9, <1>10, <1>11,
       <1>12, <1>13, <1>14, <1>15, <1>16, <1>17, <1>18, <1>19, <1>20, <1>21,
       <1>22, <1>23, <1>24, <1>25, <1>26, <1>27, <1>28, <1>29, <1>30, <1>31,
       <1>32, <1>33, <1>34, <1>35, <1>36 DEF Next, ClientStep, Context,
       AssignStep, FrameStep, ServiceStep, ClearStep

\* Every step sets the locals its destination needs and resets the others.
LEMMA LocalsStep ==
    ASSUME NoWholeOverrun, IInv, Next
    PROVE  Locals'
<1> USE ConstantsAssumption DEF NoWholeOverrun, IInv, Control, Types, Labels,
      FrameOrNull, ScanIdle, Serving, InHand, Locals, Camera, QuietCamera,
      Connected, frameVars, cameraVars, clientVars, walkVars, scanVars,
      At, Goto, Home, Ctx
<1>1. ASSUME NEW c \in Clients, Accept(c) PROVE Locals'
  BY <1>1 DEF Accept
<1>2. ASSUME NEW c \in Clients, RecvRequest(c) PROVE Locals'
  BY <1>2 DEF RecvRequest
<1>3. ASSUME NEW c \in Clients, FrameSent(c) PROVE Locals'
  BY <1>3 DEF FrameSent, ReleaseFrame
<1>4. ASSUME NEW c \in Clients, CloseConn(c) PROVE Locals'
  BY <1>4 DEF CloseConn, ReleaseFrame
<1>5. ASSUME NEW x \in Ctx, AssignClient(x) PROVE Locals'
  BY <1>5 DEF AssignClient, Waiting
<1>6. ASSUME NEW x \in Ctx, AssignDone(x) PROVE Locals'
  BY <1>6 DEF AssignDone
<1>7. ASSUME NEW x \in Ctx, GetLatestSort(x) PROVE Locals'
  BY <1>7, NothingFoundKeeps DEF GetLatestSort, NothingFound, SortFrames
<1>8. ASSUME NEW x \in Ctx, GetLatestSkip(x) PROVE Locals'
  BY <1>8 DEF GetLatestSkip, PassBy
<1>9. ASSUME NEW x \in Ctx, GetLatestTry(x) PROVE Locals'
  BY <1>9 DEF GetLatestTry, ReadSem
<1>10. ASSUME NEW x \in Ctx, GetLatestNone(x) PROVE Locals'
  BY <1>10, NothingFoundKeeps DEF GetLatestNone, NothingFound, EndScan
<1>11. ASSUME NEW x \in Ctx, GetLatestCas(x) PROVE Locals'
  BY <1>11 DEF GetLatestCas, EndScan, Trying
<1>12. ASSUME NEW x \in Ctx, StoreFrame(x) PROVE Locals'
  BY <1>12 DEF StoreFrame
<1>13. ASSUME NEW x \in Ctx, GetIdleSort(x) PROVE Locals'
  BY <1>13 DEF GetIdleSort, SortFrames
<1>14. ASSUME NEW x \in Ctx, GetIdleSkip(x) PROVE Locals'
  BY <1>14 DEF GetIdleSkip, PassBy
<1>15. ASSUME NEW x \in Ctx, GetIdleTry(x) PROVE Locals'
  BY <1>15 DEF GetIdleTry, ReadSem
<1>16. ASSUME NEW x \in Ctx, GetIdleNone(x) PROVE Locals'
  BY <1>16 DEF GetIdleNone, EndScan
<1>17. ASSUME NEW x \in Ctx, GetIdleCas(x) PROVE Locals'
  BY <1>17 DEF GetIdleCas, EndScan, Trying
<1>18. ASSUME NEW x \in Ctx, DoSnap(x) PROVE Locals'
  BY <1>18 DEF DoSnap, CanSnap
<1>19. ASSUME NEW x \in Ctx, RecvBroken(x) PROVE Locals'
  BY <1>19 DEF RecvBroken
<1>20. ASSUME NEW x \in Ctx, ReturnIdle(x) PROVE Locals'
  BY <1>20 DEF ReturnIdle, StartAssign
<1>21. ASSUME FrameEnd PROVE Locals'
  BY <1>21 DEF FrameEnd, DmaTc, AfterTc
<1>22. ASSUME DmaFull PROVE Locals'
  BY <1>22 DEF DmaFull, DmaTc, AfterTc
<1>23. ASSUME NextFrame PROVE Locals'
  BY <1>23 DEF NextFrame
<1>24. ASSUME ServiceBegin PROVE Locals'
  BY <1>24 DEF ServiceBegin, StartAssign
<1>25. ASSUME ProcessRawFrame PROVE Locals'
  BY <1>25 DEF ProcessRawFrame
<1>26. ASSUME AssignAgain PROVE Locals'
  BY <1>26 DEF AssignAgain, StartAssign
<1>27. ASSUME StreamOutput PROVE Locals'
  BY <1>27 DEF StreamOutput
<1>28. ASSUME CheckIdle PROVE Locals'
  BY <1>28 DEF CheckIdle
<1>29. ASSUME StopCapture PROVE Locals'
  BY <1>29 DEF StopCapture, DmaTc, AfterTc
<1>30. ASSUME ClearPool PROVE Locals'
  BY <1>30 DEF ClearPool
<1>31. ASSUME ClearTry PROVE Locals'
  BY <1>31 DEF ClearTry, ReadSem
<1>32. ASSUME ClearEnd PROVE Locals'
  BY <1>32 DEF ClearEnd, EndScan
<1>33. ASSUME ClearCas PROVE Locals'
  BY <1>33 DEF ClearCas, EndScan, Trying
<1>34. ASSUME ClearWipe PROVE Locals'
  BY <1>34 DEF ClearWipe
<1>35. ASSUME ClearUnlock PROVE Locals'
  BY <1>35 DEF ClearUnlock
<1>36. ASSUME CheckActive PROVE Locals'
  BY <1>36 DEF CheckActive
<1> QED BY <1>1, <1>2, <1>3, <1>4, <1>5, <1>6, <1>7, <1>8, <1>9, <1>10, <1>11,
       <1>12, <1>13, <1>14, <1>15, <1>16, <1>17, <1>18, <1>19, <1>20, <1>21,
       <1>22, <1>23, <1>24, <1>25, <1>26, <1>27, <1>28, <1>29, <1>30, <1>31,
       <1>32, <1>33, <1>34, <1>35, <1>36 DEF Next, ClientStep, Context,
       AssignStep, FrameStep, ServiceStep, ClearStep

\* No step touches the client main is serving.
LEMMA ServesWaitingStep ==
    ASSUME NoWholeOverrun, IInv, Next
    PROVE  ServesWaiting'
<1> USE ConstantsAssumption DEF NoWholeOverrun, IInv, Control, Types, Labels,
      FrameOrNull, ScanIdle, Serving, InHand, ServesWaiting, Locals, Camera,
      Connected, frameVars, cameraVars, clientVars, walkVars, scanVars,
      At, Goto, Home, Ctx
<1>1. ASSUME NEW c \in Clients, Accept(c) PROVE ServesWaiting'
  BY <1>1 DEF Accept
<1>2. ASSUME NEW c \in Clients, RecvRequest(c) PROVE ServesWaiting'
  BY <1>2 DEF RecvRequest
<1>3. ASSUME NEW c \in Clients, FrameSent(c) PROVE ServesWaiting'
  BY <1>3 DEF FrameSent, ReleaseFrame
<1>4. ASSUME NEW c \in Clients, CloseConn(c) PROVE ServesWaiting'
  BY <1>4 DEF CloseConn, ReleaseFrame
<1>5. ASSUME NEW x \in Ctx, AssignClient(x) PROVE ServesWaiting'
  BY <1>5 DEF AssignClient, Waiting
<1>6. ASSUME NEW x \in Ctx, AssignDone(x) PROVE ServesWaiting'
  BY <1>6 DEF AssignDone
<1>7. ASSUME NEW x \in Ctx, GetLatestSort(x) PROVE ServesWaiting'
  BY <1>7, NothingFoundKeeps DEF GetLatestSort, NothingFound, SortFrames
<1>8. ASSUME NEW x \in Ctx, GetLatestSkip(x) PROVE ServesWaiting'
  BY <1>8 DEF GetLatestSkip, PassBy
<1>9. ASSUME NEW x \in Ctx, GetLatestTry(x) PROVE ServesWaiting'
  BY <1>9 DEF GetLatestTry, ReadSem
<1>10. ASSUME NEW x \in Ctx, GetLatestNone(x) PROVE ServesWaiting'
  BY <1>10, NothingFoundKeeps DEF GetLatestNone, NothingFound, EndScan
<1>11. ASSUME NEW x \in Ctx, GetLatestCas(x) PROVE ServesWaiting'
  BY <1>11 DEF GetLatestCas, EndScan
<1>12. ASSUME NEW x \in Ctx, StoreFrame(x) PROVE ServesWaiting'
  BY <1>12 DEF StoreFrame
<1>13. ASSUME NEW x \in Ctx, GetIdleSort(x) PROVE ServesWaiting'
  BY <1>13 DEF GetIdleSort, SortFrames
<1>14. ASSUME NEW x \in Ctx, GetIdleSkip(x) PROVE ServesWaiting'
  BY <1>14 DEF GetIdleSkip, PassBy
<1>15. ASSUME NEW x \in Ctx, GetIdleTry(x) PROVE ServesWaiting'
  BY <1>15 DEF GetIdleTry, ReadSem
<1>16. ASSUME NEW x \in Ctx, GetIdleNone(x) PROVE ServesWaiting'
  BY <1>16 DEF GetIdleNone, EndScan
<1>17. ASSUME NEW x \in Ctx, GetIdleCas(x) PROVE ServesWaiting'
  BY <1>17 DEF GetIdleCas, EndScan
<1>18. ASSUME NEW x \in Ctx, DoSnap(x) PROVE ServesWaiting'
  BY <1>18 DEF DoSnap
<1>19. ASSUME NEW x \in Ctx, RecvBroken(x) PROVE ServesWaiting'
  BY <1>19 DEF RecvBroken
<1>20. ASSUME NEW x \in Ctx, ReturnIdle(x) PROVE ServesWaiting'
  BY <1>20 DEF ReturnIdle, StartAssign
<1>21. ASSUME FrameEnd PROVE ServesWaiting'
  BY <1>21 DEF FrameEnd, DmaTc, AfterTc
<1>22. ASSUME DmaFull PROVE ServesWaiting'
  BY <1>22 DEF DmaFull, DmaTc, AfterTc
<1>23. ASSUME NextFrame PROVE ServesWaiting'
  BY <1>23 DEF NextFrame
<1>24. ASSUME ServiceBegin PROVE ServesWaiting'
  BY <1>24 DEF ServiceBegin, StartAssign
<1>25. ASSUME ProcessRawFrame PROVE ServesWaiting'
  BY <1>25 DEF ProcessRawFrame
<1>26. ASSUME AssignAgain PROVE ServesWaiting'
  BY <1>26 DEF AssignAgain, StartAssign
<1>27. ASSUME StreamOutput PROVE ServesWaiting'
  BY <1>27 DEF StreamOutput
<1>28. ASSUME CheckIdle PROVE ServesWaiting'
  BY <1>28 DEF CheckIdle
<1>29. ASSUME StopCapture PROVE ServesWaiting'
  BY <1>29 DEF StopCapture, DmaTc, AfterTc
<1>30. ASSUME ClearPool PROVE ServesWaiting'
  BY <1>30 DEF ClearPool
<1>31. ASSUME ClearTry PROVE ServesWaiting'
  BY <1>31 DEF ClearTry, ReadSem
<1>32. ASSUME ClearEnd PROVE ServesWaiting'
  BY <1>32 DEF ClearEnd, EndScan
<1>33. ASSUME ClearCas PROVE ServesWaiting'
  BY <1>33 DEF ClearCas, EndScan
<1>34. ASSUME ClearWipe PROVE ServesWaiting'
  BY <1>34 DEF ClearWipe
<1>35. ASSUME ClearUnlock PROVE ServesWaiting'
  BY <1>35 DEF ClearUnlock
<1>36. ASSUME CheckActive PROVE ServesWaiting'
  BY <1>36 DEF CheckActive
<1> QED BY <1>1, <1>2, <1>3, <1>4, <1>5, <1>6, <1>7, <1>8, <1>9, <1>10, <1>11,
       <1>12, <1>13, <1>14, <1>15, <1>16, <1>17, <1>18, <1>19, <1>20, <1>21,
       <1>22, <1>23, <1>24, <1>25, <1>26, <1>27, <1>28, <1>29, <1>30, <1>31,
       <1>32, <1>33, <1>34, <1>35, <1>36 DEF Next, ClientStep, Context,
       AssignStep, FrameStep, ServiceStep, ClearStep

\* Every step keeps the camera in the state each label expects.
LEMMA CameraStep ==
    ASSUME NoWholeOverrun, IInv, Next
    PROVE  Camera'
<1> USE ConstantsAssumption DEF NoWholeOverrun, IInv, Control, Types, Labels,
      FrameOrNull, ScanIdle, Serving, InHand, Clearing, Camera, Locals,
      QuietCamera, Connected, frameVars, cameraVars, clientVars, walkVars,
      scanVars,
      At, Goto, Home, Ctx
<1>1. ASSUME NEW c \in Clients, Accept(c) PROVE Camera'
  BY <1>1 DEF Accept
<1>2. ASSUME NEW c \in Clients, RecvRequest(c) PROVE Camera'
  BY <1>2 DEF RecvRequest
<1>3. ASSUME NEW c \in Clients, FrameSent(c) PROVE Camera'
  BY <1>3 DEF FrameSent, ReleaseFrame
<1>4. ASSUME NEW c \in Clients, CloseConn(c) PROVE Camera'
  BY <1>4 DEF CloseConn, ReleaseFrame
<1>5. ASSUME NEW x \in Ctx, AssignClient(x) PROVE Camera'
  BY <1>5 DEF AssignClient, Waiting, Waiting
<1>6. ASSUME NEW x \in Ctx, AssignDone(x) PROVE Camera'
  BY <1>6 DEF AssignDone
<1>7. ASSUME NEW x \in Ctx, GetLatestSort(x) PROVE Camera'
  BY <1>7, NothingFoundKeeps DEF GetLatestSort, NothingFound, SortFrames
<1>8. ASSUME NEW x \in Ctx, GetLatestSkip(x) PROVE Camera'
  BY <1>8 DEF GetLatestSkip, PassBy
<1>9. ASSUME NEW x \in Ctx, GetLatestTry(x) PROVE Camera'
  BY <1>9 DEF GetLatestTry, ReadSem
<1>10. ASSUME NEW x \in Ctx, GetLatestNone(x) PROVE Camera'
  BY <1>10, NothingFoundKeeps DEF GetLatestNone, NothingFound, EndScan
<1>11. ASSUME NEW x \in Ctx, GetLatestCas(x) PROVE Camera'
  BY <1>11 DEF GetLatestCas, EndScan
<1>12. ASSUME NEW x \in Ctx, StoreFrame(x) PROVE Camera'
  BY <1>12 DEF StoreFrame
<1>13. ASSUME NEW x \in Ctx, GetIdleSort(x) PROVE Camera'
  BY <1>13 DEF GetIdleSort, SortFrames
<1>14. ASSUME NEW x \in Ctx, GetIdleSkip(x) PROVE Camera'
  BY <1>14 DEF GetIdleSkip, PassBy
<1>15. ASSUME NEW x \in Ctx, GetIdleTry(x) PROVE Camera'
  BY <1>15 DEF GetIdleTry, ReadSem
<1>16. ASSUME NEW x \in Ctx, GetIdleNone(x) PROVE Camera'
  BY <1>16 DEF GetIdleNone, EndScan
<1>17. ASSUME NEW x \in Ctx, GetIdleCas(x) PROVE Camera'
  BY <1>17 DEF GetIdleCas, EndScan
<1>18. ASSUME NEW x \in Ctx, DoSnap(x) PROVE Camera'
  BY <1>18 DEF DoSnap, CanSnap
<1>19. ASSUME NEW x \in Ctx, RecvBroken(x) PROVE Camera'
  BY <1>19 DEF RecvBroken
<1>20. ASSUME NEW x \in Ctx, ReturnIdle(x) PROVE Camera'
  BY <1>20 DEF ReturnIdle, StartAssign
<1>21. ASSUME FrameEnd PROVE Camera'
  BY <1>21 DEF FrameEnd, DmaTc, AfterTc
<1>22. ASSUME DmaFull PROVE Camera'
  BY <1>22 DEF DmaFull, DmaTc, AfterTc
<1>23. ASSUME NextFrame PROVE Camera'
  BY <1>23 DEF NextFrame
<1>24. ASSUME ServiceBegin PROVE Camera'
  BY <1>24 DEF ServiceBegin, StartAssign
<1>25. ASSUME ProcessRawFrame PROVE Camera'
  BY <1>25 DEF ProcessRawFrame
<1>26. ASSUME AssignAgain PROVE Camera'
  BY <1>26 DEF AssignAgain, StartAssign
<1>27. ASSUME StreamOutput PROVE Camera'
  BY <1>27 DEF StreamOutput
<1>28. ASSUME CheckIdle PROVE Camera'
  BY <1>28 DEF CheckIdle
<1>29. ASSUME StopCapture PROVE Camera'
  BY <1>29 DEF StopCapture, DmaTc, AfterTc
<1>30. ASSUME ClearPool PROVE Camera'
  BY <1>30 DEF ClearPool
<1>31. ASSUME ClearTry PROVE Camera'
  BY <1>31 DEF ClearTry, ReadSem
<1>32. ASSUME ClearEnd PROVE Camera'
  BY <1>32 DEF ClearEnd, EndScan
<1>33. ASSUME ClearCas PROVE Camera'
  BY <1>33 DEF ClearCas, EndScan
<1>34. ASSUME ClearWipe PROVE Camera'
  BY <1>34 DEF ClearWipe
<1>35. ASSUME ClearUnlock PROVE Camera'
  BY <1>35 DEF ClearUnlock
<1>36. ASSUME CheckActive PROVE Camera'
  BY <1>36 DEF CheckActive
<1> QED BY <1>1, <1>2, <1>3, <1>4, <1>5, <1>6, <1>7, <1>8, <1>9, <1>10, <1>11,
       <1>12, <1>13, <1>14, <1>15, <1>16, <1>17, <1>18, <1>19, <1>20, <1>21,
       <1>22, <1>23, <1>24, <1>25, <1>26, <1>27, <1>28, <1>29, <1>30, <1>31,
       <1>32, <1>33, <1>34, <1>35, <1>36 DEF Next, ClientStep, Context,
       AssignStep, FrameStep, ServiceStep, ClearStep

\* Only a semaphore worth taking gets as far as the compare-and-exchange.
LEMMA TryingStep ==
    ASSUME NoWholeOverrun, IInv, Next
    PROVE  Trying'
<1> USE ConstantsAssumption DEF NoWholeOverrun, IInv, Control, Types, Labels,
      FrameOrNull, ScanIdle, Serving, InHand, Trying, SemType, frameVars,
      cameraVars, clientVars, walkVars, scanVars,
      At, Goto, Home, Ctx
<1>1. ASSUME NEW c \in Clients, Accept(c) PROVE Trying'
  BY <1>1 DEF Accept
<1>2. ASSUME NEW c \in Clients, RecvRequest(c) PROVE Trying'
  BY <1>2 DEF RecvRequest
<1>3. ASSUME NEW c \in Clients, FrameSent(c) PROVE Trying'
  BY <1>3 DEF FrameSent, ReleaseFrame
<1>4. ASSUME NEW c \in Clients, CloseConn(c) PROVE Trying'
  BY <1>4 DEF CloseConn, ReleaseFrame
<1>5. ASSUME NEW x \in Ctx, AssignClient(x) PROVE Trying'
  BY <1>5 DEF AssignClient, Waiting
<1>6. ASSUME NEW x \in Ctx, AssignDone(x) PROVE Trying'
  BY <1>6 DEF AssignDone
<1>7. ASSUME NEW x \in Ctx, GetLatestSort(x) PROVE Trying'
  BY <1>7, NothingFoundKeeps DEF GetLatestSort, NothingFound, SortFrames
<1>8. ASSUME NEW x \in Ctx, GetLatestSkip(x) PROVE Trying'
  BY <1>8 DEF GetLatestSkip, PassBy
<1>9. ASSUME NEW x \in Ctx, GetLatestTry(x) PROVE Trying'
  BY <1>9 DEF GetLatestTry, ReadSem
<1>10. ASSUME NEW x \in Ctx, GetLatestNone(x) PROVE Trying'
  BY <1>10, NothingFoundKeeps DEF GetLatestNone, NothingFound, EndScan
<1>11. ASSUME NEW x \in Ctx, GetLatestCas(x) PROVE Trying'
  BY <1>11 DEF GetLatestCas, EndScan
<1>12. ASSUME NEW x \in Ctx, StoreFrame(x) PROVE Trying'
  BY <1>12 DEF StoreFrame
<1>13. ASSUME NEW x \in Ctx, GetIdleSort(x) PROVE Trying'
  BY <1>13 DEF GetIdleSort, SortFrames
<1>14. ASSUME NEW x \in Ctx, GetIdleSkip(x) PROVE Trying'
  BY <1>14 DEF GetIdleSkip, PassBy
<1>15. ASSUME NEW x \in Ctx, GetIdleTry(x) PROVE Trying'
  BY <1>15 DEF GetIdleTry, ReadSem, LockNeeds
<1>16. ASSUME NEW x \in Ctx, GetIdleNone(x) PROVE Trying'
  BY <1>16 DEF GetIdleNone, EndScan
<1>17. ASSUME NEW x \in Ctx, GetIdleCas(x) PROVE Trying'
  BY <1>17 DEF GetIdleCas, EndScan
<1>18. ASSUME NEW x \in Ctx, DoSnap(x) PROVE Trying'
  BY <1>18 DEF DoSnap
<1>19. ASSUME NEW x \in Ctx, RecvBroken(x) PROVE Trying'
  BY <1>19 DEF RecvBroken
<1>20. ASSUME NEW x \in Ctx, ReturnIdle(x) PROVE Trying'
  BY <1>20 DEF ReturnIdle, StartAssign
<1>21. ASSUME FrameEnd PROVE Trying'
  BY <1>21 DEF FrameEnd, DmaTc, AfterTc
<1>22. ASSUME DmaFull PROVE Trying'
  BY <1>22 DEF DmaFull, DmaTc, AfterTc
<1>23. ASSUME NextFrame PROVE Trying'
  BY <1>23 DEF NextFrame
<1>24. ASSUME ServiceBegin PROVE Trying'
  BY <1>24 DEF ServiceBegin, StartAssign
<1>25. ASSUME ProcessRawFrame PROVE Trying'
  BY <1>25 DEF ProcessRawFrame
<1>26. ASSUME AssignAgain PROVE Trying'
  BY <1>26 DEF AssignAgain, StartAssign
<1>27. ASSUME StreamOutput PROVE Trying'
  BY <1>27 DEF StreamOutput
<1>28. ASSUME CheckIdle PROVE Trying'
  BY <1>28 DEF CheckIdle
<1>29. ASSUME StopCapture PROVE Trying'
  BY <1>29 DEF StopCapture, DmaTc, AfterTc
<1>30. ASSUME ClearPool PROVE Trying'
  BY <1>30 DEF ClearPool
<1>31. ASSUME ClearTry PROVE Trying'
  BY <1>31 DEF ClearTry, ReadSem, LockNeeds
<1>32. ASSUME ClearEnd PROVE Trying'
  BY <1>32 DEF ClearEnd, EndScan
<1>33. ASSUME ClearCas PROVE Trying'
  BY <1>33 DEF ClearCas, EndScan
<1>34. ASSUME ClearWipe PROVE Trying'
  BY <1>34 DEF ClearWipe
<1>35. ASSUME ClearUnlock PROVE Trying'
  BY <1>35 DEF ClearUnlock
<1>36. ASSUME CheckActive PROVE Trying'
  BY <1>36 DEF CheckActive
<1> QED BY <1>1, <1>2, <1>3, <1>4, <1>5, <1>6, <1>7, <1>8, <1>9, <1>10, <1>11,
       <1>12, <1>13, <1>14, <1>15, <1>16, <1>17, <1>18, <1>19, <1>20, <1>21,
       <1>22, <1>23, <1>24, <1>25, <1>26, <1>27, <1>28, <1>29, <1>30, <1>31,
       <1>32, <1>33, <1>34, <1>35, <1>36 DEF Next, ClientStep, Context,
       AssignStep, FrameStep, ServiceStep, ClearStep

-----------------------------------------------------------------------------
\* What a step may do to the frames: nothing, or one thing to one frame.

SameLocks   == \A f \in Frames : Locked(f)' <=> Locked(f)
SameReaders == \A f \in Frames, c \in Clients : c \in Readers(f)' <=> c \in Readers(f)

Idles == SameLocks /\ SameReaders /\ UNCHANGED frameVars

Writes(f) ==
    /\ Locked(f) /\ \A g \in Frames \ {f} : img'[g] = img[g]
    /\ SameLocks /\ SameReaders /\ UNCHANGED sem

Locks(f) ==
    /\ sem[f] = MAX /\ sem' = [sem EXCEPT ![f] = 0]
    /\ \A g \in Frames : Locked(g)' <=> Locked(g) \/ g = f
    /\ SameReaders /\ UNCHANGED img

Unlocks(f) ==
    /\ Locked(f) /\ sem' = [sem EXCEPT ![f] = @ + MAX]
    /\ \A g \in Frames : Locked(g)' <=> Locked(g) /\ g # f
    /\ SameReaders /\ UNCHANGED img

Acquires(f, c) ==
    /\ sem[f] >= 1 /\ sem' = [sem EXCEPT ![f] = @ - 1]
    /\ c \notin Readers(f)
    /\ \A g \in Frames, k \in Clients :
          k \in Readers(g)' <=> k \in Readers(g) \/ (g = f /\ k = c)
    /\ SameLocks /\ UNCHANGED img

Releases(f, c) ==
    /\ c \in Readers(f) /\ sem' = [sem EXCEPT ![f] = @ + 1]
    /\ \A g \in Frames, k \in Clients :
          k \in Readers(g)' <=> k \in Readers(g) /\ ~(g = f /\ k = c)
    /\ SameLocks /\ UNCHANGED img

OneThing ==
    \/ Idles
    \/ \E f \in Frames : \/ Writes(f) \/ Locks(f) \/ Unlocks(f)
                         \/ \E c \in Clients : Acquires(f, c) \/ Releases(f, c)

\* Locked, role by role.
LEMMA LockedRoles ==
    /\ \A f : Locked(f) <=> pending = f \/ ext = f \/ fr["main"] = f \/ fr["isr"] = f
    /\ \A f : Locked(f)' <=> pending' = f \/ ext' = f \/ fr'["main"] = f \/ fr'["isr"] = f
BY DEF Locked, Roles, Holds

\* The three pairs of roles OneHolder is about.
LEMMA OneHolderRoles ==
    /\ OneHolder <=> /\ pending # NULL => pending \notin {ext, fr["main"], fr["isr"]}
                     /\ ext # NULL => ext \notin {fr["main"], fr["isr"]}
                     /\ fr["main"] # NULL => fr["main"] # fr["isr"]
    /\ OneHolder' <=> /\ pending' # NULL => pending' \notin {ext', fr'["main"], fr'["isr"]}
                      /\ ext' # NULL => ext' \notin {fr'["main"], fr'["isr"]}
                      /\ fr'["main"] # NULL => fr'["main"] # fr'["isr"]
BY DEF OneHolder, Roles, Holds

\* Only main serves clients, before a step ...
LEMMA ReadersOfMain ==
    ASSUME Control, Locals, NEW f \in Frames, NEW c \in Clients
    PROVE  c \in Readers(f) <=> frame[c] = f \/ (got["main"] = f /\ cs["main"] = c)
<1>1. got["isr"] # f
  BY ConstantsAssumption DEF Control, Locals, Ctx, ScanIdle
<1>2. (\E x \in Ctx : got[x] = f /\ cs[x] = c) <=> (got["main"] = f /\ cs["main"] = c)
  BY <1>1 DEF Ctx
<1> QED BY <1>2 DEF Readers

\* ... and after it.
LEMMA ReadersOfMainNext ==
    (Control /\ Locals)' =>
        (\A f \in Frames, c \in Clients :
            c \in Readers(f) <=> frame[c] = f \/ (got["main"] = f /\ cs["main"] = c))'
<1>1. Control /\ Locals =>
        \A f \in Frames, c \in Clients :
            c \in Readers(f) <=> frame[c] = f \/ (got["main"] = f /\ cs["main"] = c)
  BY ReadersOfMain
<1> QED BY <1>1, PTL

\* Both at once, at a step.
LEMMA ReadersStep ==
    ASSUME NoWholeOverrun, IInv, Next
    PROVE  \A f \in Frames, c \in Clients :
              /\ c \in Readers(f) <=> frame[c] = f \/ (got["main"] = f /\ cs["main"] = c)
              /\ c \in Readers(f)' <=> frame'[c] = f \/ (got'["main"] = f /\ cs'["main"] = c)
BY ReadersOfMain, ReadersOfMainNext, ControlStep, LocalsStep DEF IInv

\* Every step moves a locked frame, never copies it.
LEMMA OneHolderStep ==
    ASSUME NoWholeOverrun, IInv, Next
    PROVE  OneHolder'
<1> USE ConstantsAssumption, OneHolderRoles DEF NoWholeOverrun, IInv, Control, Types,
      Labels,
      FrameOrNull, ScanIdle, Serving, InHand, Locals, Camera, QuietCamera,
      frameVars, cameraVars, clientVars, walkVars, scanVars,
      At, Goto, Home, Ctx
<1>1. ASSUME NEW c \in Clients, Accept(c) PROVE OneHolder'
  BY <1>1 DEF Accept
<1>2. ASSUME NEW c \in Clients, RecvRequest(c) PROVE OneHolder'
  BY <1>2 DEF RecvRequest
<1>3. ASSUME NEW c \in Clients, FrameSent(c) PROVE OneHolder'
  BY <1>3 DEF FrameSent, ReleaseFrame
<1>4. ASSUME NEW c \in Clients, CloseConn(c) PROVE OneHolder'
  BY <1>4 DEF CloseConn, ReleaseFrame
<1>5. ASSUME NEW x \in Ctx, AssignClient(x) PROVE OneHolder'
  BY <1>5 DEF AssignClient, Waiting
<1>6. ASSUME NEW x \in Ctx, AssignDone(x) PROVE OneHolder'
  BY <1>6 DEF AssignDone
<1>7. ASSUME NEW x \in Ctx, GetLatestSort(x) PROVE OneHolder'
  BY <1>7, NothingFoundKeeps DEF GetLatestSort, NothingFound, SortFrames
<1>8. ASSUME NEW x \in Ctx, GetLatestSkip(x) PROVE OneHolder'
  BY <1>8 DEF GetLatestSkip, PassBy
<1>9. ASSUME NEW x \in Ctx, GetLatestTry(x) PROVE OneHolder'
  BY <1>9 DEF GetLatestTry, ReadSem
<1>10. ASSUME NEW x \in Ctx, GetLatestNone(x) PROVE OneHolder'
  BY <1>10, NothingFoundKeeps DEF GetLatestNone, NothingFound, EndScan
<1>11. ASSUME NEW x \in Ctx, GetLatestCas(x) PROVE OneHolder'
  BY <1>11 DEF GetLatestCas, EndScan
<1>12. ASSUME NEW x \in Ctx, StoreFrame(x) PROVE OneHolder'
  BY <1>12 DEF StoreFrame
<1>13. ASSUME NEW x \in Ctx, GetIdleSort(x) PROVE OneHolder'
  BY <1>13 DEF GetIdleSort, SortFrames
<1>14. ASSUME NEW x \in Ctx, GetIdleSkip(x) PROVE OneHolder'
  BY <1>14 DEF GetIdleSkip, PassBy
<1>15. ASSUME NEW x \in Ctx, GetIdleTry(x) PROVE OneHolder'
  BY <1>15 DEF GetIdleTry, ReadSem
<1>16. ASSUME NEW x \in Ctx, GetIdleNone(x) PROVE OneHolder'
  BY <1>16 DEF GetIdleNone, EndScan
<1>17. ASSUME NEW x \in Ctx, GetIdleCas(x) PROVE OneHolder'
  <2>1. CASE CasPasses(x)
    <3>1. ~Locked(try[x])
      BY <1>17, <2>1 DEF GetIdleCas, CasPasses, Trying, Conservation
    <3> QED BY <1>17, <2>1, <3>1, LockedRoles DEF GetIdleCas
  <2>2. CASE ~CasPasses(x)
    BY <1>17, <2>2 DEF GetIdleCas
  <2> QED BY <2>1, <2>2
<1>18. ASSUME NEW x \in Ctx, DoSnap(x) PROVE OneHolder'
  BY <1>18 DEF DoSnap
<1>19. ASSUME NEW x \in Ctx, RecvBroken(x) PROVE OneHolder'
  BY <1>19 DEF RecvBroken
<1>20. ASSUME NEW x \in Ctx, ReturnIdle(x) PROVE OneHolder'
  BY <1>20 DEF ReturnIdle, StartAssign
<1>21. ASSUME FrameEnd PROVE OneHolder'
  BY <1>21 DEF FrameEnd, DmaTc, AfterTc
<1>22. ASSUME DmaFull PROVE OneHolder'
  BY <1>22 DEF DmaFull, DmaTc, AfterTc
<1>23. ASSUME NextFrame PROVE OneHolder'
  BY <1>23 DEF NextFrame
<1>24. ASSUME ServiceBegin PROVE OneHolder'
  BY <1>24 DEF ServiceBegin, StartAssign
<1>25. ASSUME ProcessRawFrame PROVE OneHolder'
  BY <1>25 DEF ProcessRawFrame
<1>26. ASSUME AssignAgain PROVE OneHolder'
  BY <1>26 DEF AssignAgain, StartAssign
<1>27. ASSUME StreamOutput PROVE OneHolder'
  BY <1>27 DEF StreamOutput
<1>28. ASSUME CheckIdle PROVE OneHolder'
  BY <1>28 DEF CheckIdle
<1>29. ASSUME StopCapture PROVE OneHolder'
  BY <1>29 DEF StopCapture, DmaTc, AfterTc
<1>30. ASSUME ClearPool PROVE OneHolder'
  BY <1>30 DEF ClearPool
<1>31. ASSUME ClearTry PROVE OneHolder'
  BY <1>31 DEF ClearTry, ReadSem
<1>32. ASSUME ClearEnd PROVE OneHolder'
  BY <1>32 DEF ClearEnd, EndScan
<1>33. ASSUME ClearCas PROVE OneHolder'
  <2>1. CASE CasPasses("main")
    <3>1. ~Locked(try["main"])
      BY <1>33, <2>1 DEF ClearCas, CasPasses, Trying, Conservation
    <3> QED BY <1>33, <2>1, <3>1, LockedRoles DEF ClearCas
  <2>2. CASE ~CasPasses("main")
    BY <1>33, <2>2 DEF ClearCas
  <2> QED BY <2>1, <2>2
<1>34. ASSUME ClearWipe PROVE OneHolder'
  BY <1>34 DEF ClearWipe
<1>35. ASSUME ClearUnlock PROVE OneHolder'
  BY <1>35 DEF ClearUnlock
<1>36. ASSUME CheckActive PROVE OneHolder'
  BY <1>36 DEF CheckActive
<1> QED BY <1>1, <1>2, <1>3, <1>4, <1>5, <1>6, <1>7, <1>8, <1>9, <1>10, <1>11,
       <1>12, <1>13, <1>14, <1>15, <1>16, <1>17, <1>18, <1>19, <1>20, <1>21,
       <1>22, <1>23, <1>24, <1>25, <1>26, <1>27, <1>28, <1>29, <1>30, <1>31,
       <1>32, <1>33, <1>34, <1>35, <1>36 DEF Next, ClientStep, Context,
       AssignStep, FrameStep, ServiceStep, ClearStep

\* The end of a transfer writes to the attached frame and may pass it to the
\* interrupt's hands.
LEMMA DmaTcWrites ==
    ASSUME NoWholeOverrun, IInv, Next, NEW len, NEW cap, DmaTc(len, cap),
           pc["isr"] = "off", UNCHANGED <<sem, pending, clientVars, walkVars>>
    PROVE  OneThing
<1> USE ConstantsAssumption, LockedRoles, ReadersStep
    DEF IInv, Control, Types, FrameOrNull, InHand, Locals, SameLocks, SameReaders,
        clientVars, walkVars, Ctx, DmaTc
<1>1. SameLocks /\ SameReaders
  OBVIOUS
<1>2. CASE img' = img
  BY <1>1, <1>2 DEF OneThing, Idles, frameVars
<1>3. CASE img' # img
  <2>1. ext \in Frames /\ \A g \in Frames \ {ext} : img'[g] = img[g]
    BY <1>3
  <2>2. Writes(ext)
    BY <1>1, <2>1 DEF Writes
  <2> QED BY <2>1, <2>2 DEF OneThing
<1> QED BY <1>2, <1>3

\* Every step does at most one thing to one frame.
LEMMA StepsDoOneThing ==
    ASSUME NoWholeOverrun, IInv, Next
    PROVE  OneThing
<1> USE ConstantsAssumption, LockedRoles, ReadersStep
    DEF NoWholeOverrun, IInv, Control, Types, Labels, FrameOrNull, ScanIdle, Serving,
        InHand, Locals, Camera, QuietCamera, Idles, SameLocks, SameReaders,
        OneThing, frameVars, cameraVars, clientVars, walkVars, scanVars,
        At, Goto, Home, Ctx
<1>1. ASSUME NEW c \in Clients, Accept(c) PROVE OneThing
  BY <1>1 DEF Accept
<1>2. ASSUME NEW c \in Clients, RecvRequest(c) PROVE OneThing
  BY <1>2 DEF RecvRequest
<1>3. ASSUME NEW c \in Clients, FrameSent(c) PROVE OneThing
  <2>1. frame[c] \in Frames /\ c \in Readers(frame[c])
    BY <1>3 DEF FrameSent
  <2>2. \A g \in Frames, k \in Clients :
          k \in Readers(g)' <=> k \in Readers(g) /\ ~(g = frame[c] /\ k = c)
    BY <1>3, <2>1 DEF FrameSent, ReleaseFrame
  <2>3. Releases(frame[c], c)
    BY <1>3, <2>1, <2>2 DEF Releases, FrameSent, ReleaseFrame
  <2> QED BY <2>1, <2>3
<1>4. ASSUME NEW c \in Clients, CloseConn(c) PROVE OneThing
  <2>1. CASE frame[c] = NULL
    BY <1>4, <2>1 DEF CloseConn, ReleaseFrame
  <2>2. CASE frame[c] # NULL
    <3>1. frame[c] \in Frames /\ c \in Readers(frame[c])
      BY <1>4, <2>2 DEF CloseConn
    <3>2. \A g \in Frames, k \in Clients :
            k \in Readers(g)' <=> k \in Readers(g) /\ ~(g = frame[c] /\ k = c)
      BY <1>4, <2>2, <3>1 DEF CloseConn, ReleaseFrame
    <3>3. Releases(frame[c], c)
      BY <1>4, <2>2, <3>1, <3>2 DEF Releases, CloseConn, ReleaseFrame
    <3> QED BY <3>1, <3>3
  <2> QED BY <2>1, <2>2
<1>5. ASSUME NEW x \in Ctx, AssignClient(x) PROVE OneThing
  BY <1>5 DEF AssignClient, Waiting
<1>6. ASSUME NEW x \in Ctx, AssignDone(x) PROVE OneThing
  BY <1>6 DEF AssignDone
<1>7. ASSUME NEW x \in Ctx, GetLatestSort(x) PROVE OneThing
  <2>1. UNCHANGED clientVars
    BY <1>7, NothingFoundKeeps
  <2>2. UNCHANGED <<sem, img, pending, ext, got, fr>> /\ got[x] = NULL
    BY <1>7 DEF GetLatestSort
  <2>3. \A y \in Ctx \ {x} : cs'[y] = cs[y]
    BY <1>7 DEF GetLatestSort, NothingFound
  <2> QED BY <2>1, <2>2, <2>3
<1>8. ASSUME NEW x \in Ctx, GetLatestSkip(x) PROVE OneThing
  BY <1>8 DEF GetLatestSkip, PassBy
<1>9. ASSUME NEW x \in Ctx, GetLatestTry(x) PROVE OneThing
  BY <1>9 DEF GetLatestTry, ReadSem
<1>10. ASSUME NEW x \in Ctx, GetLatestNone(x) PROVE OneThing
  <2>1. UNCHANGED clientVars
    BY <1>10, NothingFoundKeeps
  <2>2. UNCHANGED <<sem, img, pending, ext, got, fr>> /\ got[x] = NULL
    BY <1>10 DEF GetLatestNone
  <2>3. \A y \in Ctx \ {x} : cs'[y] = cs[y]
    BY <1>10 DEF GetLatestNone, NothingFound
  <2> QED BY <2>1, <2>2, <2>3
<1>11. ASSUME NEW x \in Ctx, GetLatestCas(x) PROVE OneThing
  <2>1. CASE CasPasses(x)
    <3>1. /\ x = "main" /\ try[x] \in Frames /\ cs[x] \in Clients
          /\ sem[try[x]] = snap[x] /\ snap[x] >= 1
      BY <1>11, <2>1 DEF GetLatestCas, CasPasses, Trying
    <3>2. cs[x] \notin Readers(try[x])
      BY <1>11, <3>1 DEF GetLatestCas, ServesWaiting
    <3>3. \A g \in Frames, k \in Clients :
            k \in Readers(g)' <=> k \in Readers(g) \/ (g = try[x] /\ k = cs[x])
      BY <1>11, <2>1, <3>1 DEF GetLatestCas, ServesWaiting
    <3>4. Acquires(try[x], cs[x])
      BY <1>11, <2>1, <3>1, <3>2, <3>3 DEF Acquires, GetLatestCas
    <3> QED BY <3>1, <3>4
  <2>2. CASE ~CasPasses(x)
    BY <1>11, <2>2 DEF GetLatestCas
  <2> QED BY <2>1, <2>2
<1>12. ASSUME NEW x \in Ctx, StoreFrame(x) PROVE OneThing
  <2>1. /\ x = "main" /\ got[x] \in Frames /\ cs[x] \in Clients
        /\ frame[cs[x]] = NULL
    BY <1>12 DEF StoreFrame, ServesWaiting
  <2>2. CASE Valid(got[x])
    BY <1>12, <2>1, <2>2 DEF StoreFrame
  <2>3. CASE ~Valid(got[x])
    <3>1. \A g \in Frames, k \in Clients :
            k \in Readers(g)' <=> k \in Readers(g) /\ ~(g = got[x] /\ k = cs[x])
      BY <1>12, <2>1, <2>3 DEF StoreFrame
    <3>2. cs[x] \in Readers(got[x])
      BY <2>1
    <3>3. Releases(got[x], cs[x])
      BY <1>12, <2>1, <2>3, <3>1, <3>2 DEF Releases, StoreFrame
    <3> QED BY <2>1, <3>3
  <2> QED BY <2>2, <2>3
<1>13. ASSUME NEW x \in Ctx, GetIdleSort(x) PROVE OneThing
  BY <1>13 DEF GetIdleSort, SortFrames
<1>14. ASSUME NEW x \in Ctx, GetIdleSkip(x) PROVE OneThing
  BY <1>14 DEF GetIdleSkip, PassBy
<1>15. ASSUME NEW x \in Ctx, GetIdleTry(x) PROVE OneThing
  BY <1>15 DEF GetIdleTry, ReadSem
<1>16. ASSUME NEW x \in Ctx, GetIdleNone(x) PROVE OneThing
  BY <1>16 DEF GetIdleNone, EndScan
<1>17. ASSUME NEW x \in Ctx, GetIdleCas(x) PROVE OneThing
  <2>1. CASE CasPasses(x)
    <3>1. try[x] \in Frames /\ sem[try[x]] = MAX
      BY <1>17, <2>1 DEF GetIdleCas, CasPasses, Trying
    <3>2. \A g \in Frames : Locked(g)' <=> Locked(g) \/ g = try[x]
      BY <1>17, <2>1, <3>1 DEF GetIdleCas
    <3>3. sem' = [sem EXCEPT ![try[x]] = 0]
      BY <1>17, <2>1, <3>1 DEF GetIdleCas, Trying, LockNeeds
    <3>4. Locks(try[x])
      BY <1>17, <2>1, <3>1, <3>2, <3>3 DEF Locks, GetIdleCas
    <3> QED BY <3>1, <3>4
  <2>2. CASE ~CasPasses(x)
    BY <1>17, <2>2 DEF GetIdleCas
  <2> QED BY <2>1, <2>2
<1>18. ASSUME NEW x \in Ctx, DoSnap(x) PROVE OneThing
  <2>1. CASE CanSnap
    <3>1. fr[x] \in Frames
      BY <1>18 DEF DoSnap
    <3>2. Writes(fr[x])
      BY <1>18, <2>1, <3>1 DEF Writes, DoSnap, CanSnap
    <3> QED BY <3>1, <3>2
  <2>2. CASE ~CanSnap
    BY <1>18, <2>2 DEF DoSnap
  <2> QED BY <2>1, <2>2
<1>19. ASSUME NEW x \in Ctx, RecvBroken(x) PROVE OneThing
  <2>1. Writes(fr[x])
    BY <1>19 DEF Writes, RecvBroken
  <2>2. fr[x] \in Frames
    BY <1>19 DEF RecvBroken
  <2> QED BY <2>1, <2>2
<1>20. ASSUME NEW x \in Ctx, ReturnIdle(x) PROVE OneThing
  <2>1. fr[x] \in Frames
    BY <1>20 DEF ReturnIdle
  <2>2. \A g \in Frames : Locked(g)' <=> Locked(g) /\ g # fr[x]
    BY <1>20, <2>1, OneHolderRoles DEF ReturnIdle, StartAssign
  <2>3. Unlocks(fr[x])
    BY <1>20, <2>1, <2>2 DEF Unlocks, ReturnIdle, StartAssign
  <2> QED BY <2>1, <2>3
<1>21. ASSUME FrameEnd PROVE OneThing
  <2>1. CASE dma = NULL
    BY <1>21, <2>1 DEF FrameEnd
  <2>2. CASE dma # NULL
    <3>1. PICK len \in Length : DmaTc(len, FALSE)
      BY <1>21, <2>2, TransferEnds
    <3> QED BY <1>21, <3>1, DmaTcWrites DEF FrameEnd
  <2> QED BY <2>1, <2>2
<1>22. ASSUME DmaFull PROVE OneThing
  <2>1. PICK len : DmaTc(len, TRUE)
    BY <1>22 DEF DmaFull
  <2> QED BY <1>22, <2>1, DmaTcWrites DEF DmaFull
<1>23. ASSUME NextFrame PROVE OneThing
  BY <1>23 DEF NextFrame
<1>24. ASSUME ServiceBegin PROVE OneThing
  BY <1>24 DEF ServiceBegin, StartAssign
<1>25. ASSUME ProcessRawFrame PROVE OneThing
  <2>1. Writes(fr["main"])
    BY <1>25 DEF Writes, ProcessRawFrame
  <2>2. fr["main"] \in Frames
    BY <1>25 DEF ProcessRawFrame
  <2> QED BY <2>1, <2>2
<1>26. ASSUME AssignAgain PROVE OneThing
  BY <1>26 DEF AssignAgain, StartAssign
<1>27. ASSUME StreamOutput PROVE OneThing
  BY <1>27 DEF StreamOutput
<1>28. ASSUME CheckIdle PROVE OneThing
  BY <1>28 DEF CheckIdle
<1>29. ASSUME StopCapture PROVE OneThing
  <2>1. CASE dma = NULL
    BY <1>29, <2>1 DEF StopCapture
  <2>2. CASE dma # NULL
    <3>1. PICK len \in Length : DmaTc(len, FALSE)
      BY <1>29, <2>2, TransferEnds
    <3> QED BY <1>29, <3>1, DmaTcWrites DEF StopCapture
  <2> QED BY <2>1, <2>2
<1>30. ASSUME ClearPool PROVE OneThing
  BY <1>30 DEF ClearPool
<1>31. ASSUME ClearTry PROVE OneThing
  BY <1>31 DEF ClearTry, ReadSem
<1>32. ASSUME ClearEnd PROVE OneThing
  BY <1>32 DEF ClearEnd, EndScan
<1>33. ASSUME ClearCas PROVE OneThing
  <2>1. CASE CasPasses("main")
    <3>1. try["main"] \in Frames /\ sem[try["main"]] = MAX
      BY <1>33, <2>1 DEF ClearCas, CasPasses, Trying
    <3>2. \A g \in Frames : Locked(g)' <=> Locked(g) \/ g = try["main"]
      BY <1>33, <2>1, <3>1 DEF ClearCas
    <3>3. sem' = [sem EXCEPT ![try["main"]] = 0]
      BY <1>33, <2>1, <3>1 DEF ClearCas, Trying, LockNeeds
    <3>4. Locks(try["main"])
      BY <1>33, <2>1, <3>1, <3>2, <3>3 DEF Locks, ClearCas
    <3> QED BY <3>1, <3>4
  <2>2. CASE ~CasPasses("main")
    BY <1>33, <2>2 DEF ClearCas
  <2> QED BY <2>1, <2>2
<1>34. ASSUME ClearWipe PROVE OneThing
  <2>1. Writes(fr["main"])
    BY <1>34 DEF Writes, ClearWipe
  <2>2. fr["main"] \in Frames
    BY <1>34 DEF ClearWipe
  <2> QED BY <2>1, <2>2
<1>35. ASSUME ClearUnlock PROVE OneThing
  <2>1. fr["main"] \in Frames
    BY <1>35 DEF ClearUnlock
  <2>2. \A g \in Frames : Locked(g)' <=> Locked(g) /\ g # fr["main"]
    BY <1>35, <2>1, OneHolderRoles DEF ClearUnlock
  <2>3. Unlocks(fr["main"])
    BY <1>35, <2>1, <2>2 DEF Unlocks, ClearUnlock
  <2> QED BY <2>1, <2>3
<1>36. ASSUME CheckActive PROVE OneThing
  BY <1>36 DEF CheckActive
<1> QED BY <1>1, <1>2, <1>3, <1>4, <1>5, <1>6, <1>7, <1>8, <1>9, <1>10, <1>11,
       <1>12, <1>13, <1>14, <1>15, <1>16, <1>17, <1>18, <1>19, <1>20, <1>21,
       <1>22, <1>23, <1>24, <1>25, <1>26, <1>27, <1>28, <1>29, <1>30, <1>31,
       <1>32, <1>33, <1>34, <1>35, <1>36 DEF Next, ClientStep, Context,
       AssignStep, FrameStep, ServiceStep, ClearStep

-----------------------------------------------------------------------------
\* Counting.

\* Sets of readers are finite.
LEMMA ReadersFinite ==
    ASSUME NEW f
    PROVE  /\ Readers(f) \subseteq Clients /\ Readers(f)' \subseteq Clients
           /\ IsFiniteSet(Readers(f)) /\ Cardinality(Readers(f)) \in Nat
           /\ IsFiniteSet(Readers(f)') /\ Cardinality(Readers(f)') \in Nat
<1>1. Readers(f) \subseteq Clients /\ Readers(f)' \subseteq Clients
  BY DEF Readers
<1> QED BY <1>1, ConstantsAssumption, FS_Subset, FS_CardinalityType

\* Whatever a step does to one frame, the counters keep account of it.
LEMMA CountersStep ==
    ASSUME SemType, Conservation, OneThing
    PROVE  SemType' /\ Conservation'
<1> USE ConstantsAssumption DEF SemType, Conservation, SameLocks
<1>1. ASSUME NEW f \in Frames,
             \A c \in Clients : c \in Readers(f)' <=> c \in Readers(f)
      PROVE  Readers(f)' = Readers(f)
  BY <1>1, ReadersFinite
<1>2. CASE SameReaders /\ SameLocks /\ UNCHANGED sem
  <2>1. \A f \in Frames : Readers(f)' = Readers(f)
    BY <1>1, <1>2 DEF SameReaders
  <2> QED BY <1>2, <2>1
<1>3. ASSUME NEW f \in Frames, Locks(f) PROVE SemType' /\ Conservation'
  <2>1. \A g \in Frames : Readers(g)' = Readers(g)
    BY <1>1, <1>3 DEF Locks, SameReaders
  <2>2. ~Locked(f) /\ Cardinality(Readers(f)) = 0
    BY <1>3, ReadersFinite DEF Locks
  <2>3. Readers(f) = {}
    BY <2>2, ReadersFinite, FS_EmptySet
  <2> QED BY <1>3, <2>1, <2>3 DEF Locks
<1>4. ASSUME NEW f \in Frames, Unlocks(f) PROVE SemType' /\ Conservation'
  <2>1. \A g \in Frames : Readers(g)' = Readers(g)
    BY <1>1, <1>4 DEF Unlocks, SameReaders
  <2>2. Readers(f)' = {} /\ sem[f] = 0 /\ sem'[f] = MAX
    BY <1>4, <2>1 DEF Unlocks
  <2>3. Cardinality(Readers(f)') = 0
    BY <2>2, FS_EmptySet
  <2> QED BY <1>4, <2>1, <2>2, <2>3 DEF Unlocks
<1>5. ASSUME NEW f \in Frames, NEW c \in Clients, Acquires(f, c)
      PROVE  SemType' /\ Conservation'
  <2>1. \A g \in Frames \ {f} : Readers(g)' = Readers(g)
    BY <1>1, <1>5 DEF Acquires
  <2>2. Readers(f)' = Readers(f) \cup {c}
    BY <1>5, ReadersFinite DEF Acquires
  <2>3. Cardinality(Readers(f)') = Cardinality(Readers(f)) + 1
    BY <1>5, <2>2, ReadersFinite, FS_AddElement DEF Acquires
  <2>4. ~Locked(f)
    BY <1>5 DEF Acquires
  <2> QED BY <1>5, <2>1, <2>3, <2>4, ReadersFinite DEF Acquires
<1>6. ASSUME NEW f \in Frames, NEW c \in Clients, Releases(f, c)
      PROVE  SemType' /\ Conservation'
  <2>1. \A g \in Frames \ {f} : Readers(g)' = Readers(g)
    BY <1>1, <1>6 DEF Releases
  <2>2. Readers(f)' = Readers(f) \ {c}
    BY <1>6, ReadersFinite DEF Releases
  <2>3. Cardinality(Readers(f)') = Cardinality(Readers(f)) - 1
    BY <1>6, <2>2, ReadersFinite, FS_RemoveElement DEF Releases
  <2>4. ~Locked(f)
    BY <1>6 DEF Releases
  <2> QED BY <1>6, <2>1, <2>3, <2>4, ReadersFinite DEF Releases
<1> QED BY <1>2, <1>3, <1>4, <1>5, <1>6 DEF OneThing, Idles, Writes, frameVars

-----------------------------------------------------------------------------
\* The invariant holds initially.
LEMMA InitIInv == Init => IInv
<1> SUFFICES ASSUME Init PROVE IInv
  OBVIOUS
<1> USE ConstantsAssumption DEF Init
<1>1. Types
  BY BlankType DEF Types, FrameOrNull, Unsorted, Ctx
<1>2. Control /\ Locals /\ ServesWaiting /\ Camera /\ Trying
  BY DEF Control, Locals, ServesWaiting, Camera, Trying, QuietCamera, Connected, Labels, Ctx,
         Serving, InHand, Clearing, ScanIdle
<1>3. SemType
  BY DEF SemType
<1>4. OneHolder
  BY OneHolderRoles DEF Ctx
<1>5. Conservation
  <2>1. \A f \in Frames : ~Locked(f)
    BY LockedRoles DEF Ctx
  <2>2. \A f \in Frames : Readers(f) = {}
    BY DEF Readers, Ctx
  <2>3. \A f \in Frames : Cardinality(Readers(f)) = 0
    BY <2>2, FS_EmptySet
  <2> QED BY <2>1, <2>3 DEF Conservation
<1> QED BY <1>1, <1>2, <1>3, <1>4, <1>5 DEF IInv

\* Between them the lemmas above keep every part of the invariant.
LEMMA NextIInv ==
    ASSUME NoWholeOverrun, IInv, Next PROVE IInv'
<1>1. SemType' /\ Conservation'
  BY StepsDoOneThing, CountersStep DEF IInv
<1> QED BY <1>1, TypesStep, ControlStep, LocalsStep, ServesWaitingStep, CameraStep,
           TryingStep, OneHolderStep DEF IInv

\* So does a step that changes nothing.
LEMMA StutterIInv ==
    ASSUME IInv, UNCHANGED vars PROVE IInv'
<1> USE DEF IInv, vars, frameVars, cameraVars, clientVars, walkVars, scanVars
<1>1. Types' /\ Control' /\ Locals' /\ Trying' /\ SemType'
  BY DEF Types, Control, Locals, Trying, SemType
<1>2. ServesWaiting' /\ Camera'
  BY DEF ServesWaiting, Camera, QuietCamera, Connected
<1>3. \A f : (Locked(f)' <=> Locked(f)) /\ Readers(f)' = Readers(f)
  BY LockedRoles DEF Readers
<1>4. OneHolder' /\ Conservation'
  BY <1>3, OneHolderRoles DEF Conservation
<1> QED BY <1>1, <1>2, <1>4

\* IInv always holds.
THEOREM Invariance == NoWholeOverrun => (Spec => []IInv)
<1> SUFFICES ASSUME NoWholeOverrun PROVE Spec => []IInv
  OBVIOUS
<1>1. IInv /\ [Next]_vars => IInv'
  BY NextIInv, StutterIInv
<1> QED BY <1>1, InitIInv, PTL DEF Spec

-----------------------------------------------------------------------------
\* The properties.

\* Every variable stays within its type, the semaphores between 0 and MAX.
THEOREM TypeCorrect == NoWholeOverrun => (Spec => []TypeOK)
<1>1. IInv => TypeOK
  BY DEF IInv, Types, Control, Trying, SemType, TypeOK
<1> QED BY <1>1, Invariance, PTL

\* The semaphore of every frame accounts for all that is held of it.
THEOREM FramesConserved == NoWholeOverrun => (Spec => []Conservation)
<1>1. IInv => Conservation
  BY DEF IInv
<1> QED BY <1>1, Invariance, PTL

\* No frame is in two locked places.
THEOREM LockedOnce == NoWholeOverrun => (Spec => []OneHolder)
<1>1. IInv => OneHolder
  BY DEF IInv
<1> QED BY <1>1, Invariance, PTL

\* The DMA writes only to the attached frame, which nobody reads.
THEOREM DmaSafe == NoWholeOverrun => (Spec => []DmaOwnsTarget)
<1>1. IInv => DmaOwnsTarget
  BY LockedRoles DEF IInv, Camera, Types, FrameOrNull, Conservation, DmaOwnsTarget
<1> QED BY <1>1, Invariance, PTL

\* Main handles idle frames only while the camera is still.
THEOREM CameraQuiet == NoWholeOverrun => (Spec => []QuietCamera)
<1>1. IInv => QuietCamera
  BY DEF IInv, Camera
<1> QED BY <1>1, Invariance, PTL

-----------------------------------------------------------------------------
\* Where the interrupt walks the clients, whatever a full buffer holds.

\* What the interrupt's labels say of the camera and of main.
Walks ==
    /\ pc \in [Ctx -> Labels]
    /\ ret \in [Ctx -> {"loop", "again", "output", "off"}] /\ ret["isr"] = "off"
    /\ pc["isr"] \in {"off", "nextframe", "snap", "broken", "return", "assign"}
                     \cup ScanIdle \cup Serving
    /\ pc["main"] \in {"stop", "clear"} \cup Clearing => Connected = {} /\ ~enabled
    /\ ~enabled /\ capturing => pc["main"] = "stop"
    /\ pc["isr"] \in {"nextframe", "snap"} \cup ScanIdle =>
           enabled /\ (capturing \/ ext = NULL)
    /\ pc["isr"] \in {"broken", "return", "assign"} \cup Serving =>
           \/ enabled /\ capturing
           \/ ~enabled /\ pc["main"] \in {"stop", "clear"}

\* Every step keeps this.
LEMMA WalksStep ==
    ASSUME Walks, Next
    PROVE  Walks'
<1> USE DEF Walks, Labels, ScanIdle, Serving, Clearing, Connected,
      frameVars, cameraVars, clientVars, walkVars, scanVars, At, Goto, Home, Ctx
<1>1. ASSUME NEW c \in Clients, Accept(c) PROVE Walks'
  BY <1>1 DEF Accept
<1>2. ASSUME NEW c \in Clients, RecvRequest(c) PROVE Walks'
  BY <1>2 DEF RecvRequest
<1>3. ASSUME NEW c \in Clients, FrameSent(c) PROVE Walks'
  BY <1>3 DEF FrameSent
<1>4. ASSUME NEW c \in Clients, CloseConn(c) PROVE Walks'
  BY <1>4 DEF CloseConn
<1>5. ASSUME NEW x \in Ctx, AssignClient(x) PROVE Walks'
  BY <1>5 DEF AssignClient
<1>6. ASSUME NEW x \in Ctx, AssignDone(x) PROVE Walks'
  BY <1>6 DEF AssignDone
<1>7. ASSUME NEW x \in Ctx, GetLatestSort(x) PROVE Walks'
  BY <1>7 DEF GetLatestSort
<1>8. ASSUME NEW x \in Ctx, GetLatestSkip(x) PROVE Walks'
  BY <1>8 DEF GetLatestSkip
<1>9. ASSUME NEW x \in Ctx, GetLatestTry(x) PROVE Walks'
  BY <1>9 DEF GetLatestTry
<1>10. ASSUME NEW x \in Ctx, GetLatestNone(x) PROVE Walks'
  BY <1>10 DEF GetLatestNone
<1>11. ASSUME NEW x \in Ctx, GetLatestCas(x) PROVE Walks'
  BY <1>11 DEF GetLatestCas
<1>12. ASSUME NEW x \in Ctx, StoreFrame(x) PROVE Walks'
  BY <1>12 DEF StoreFrame
<1>13. ASSUME NEW x \in Ctx, GetIdleSort(x) PROVE Walks'
  BY <1>13 DEF GetIdleSort
<1>14. ASSUME NEW x \in Ctx, GetIdleSkip(x) PROVE Walks'
  BY <1>14 DEF GetIdleSkip
<1>15. ASSUME NEW x \in Ctx, GetIdleTry(x) PROVE Walks'
  BY <1>15 DEF GetIdleTry
<1>16. ASSUME NEW x \in Ctx, GetIdleNone(x) PROVE Walks'
  BY <1>16 DEF GetIdleNone
<1>17. ASSUME NEW x \in Ctx, GetIdleCas(x) PROVE Walks'
  BY <1>17 DEF GetIdleCas
<1>18. ASSUME NEW x \in Ctx, DoSnap(x) PROVE Walks'
  BY <1>18 DEF DoSnap, CanSnap
<1>19. ASSUME NEW x \in Ctx, RecvBroken(x) PROVE Walks'
  BY <1>19 DEF RecvBroken
<1>20. ASSUME NEW x \in Ctx, ReturnIdle(x) PROVE Walks'
  BY <1>20 DEF ReturnIdle, StartAssign
<1>21. ASSUME FrameEnd PROVE Walks'
  BY <1>21 DEF FrameEnd, DmaTc, AfterTc
<1>22. ASSUME DmaFull PROVE Walks'
  BY <1>22 DEF DmaFull, DmaTc, AfterTc
<1>23. ASSUME NextFrame PROVE Walks'
  BY <1>23 DEF NextFrame
<1>24. ASSUME ServiceBegin PROVE Walks'
  BY <1>24 DEF ServiceBegin, StartAssign
<1>25. ASSUME ProcessRawFrame PROVE Walks'
  BY <1>25 DEF ProcessRawFrame
<1>26. ASSUME AssignAgain PROVE Walks'
  BY <1>26 DEF AssignAgain, StartAssign
<1>27. ASSUME StreamOutput PROVE Walks'
  BY <1>27 DEF StreamOutput
<1>28. ASSUME CheckIdle PROVE Walks'
  BY <1>28 DEF CheckIdle
<1>29. ASSUME StopCapture PROVE Walks'
  BY <1>29 DEF StopCapture, DmaTc, AfterTc
<1>30. ASSUME ClearPool PROVE Walks'
  BY <1>30 DEF ClearPool
<1>31. ASSUME ClearTry PROVE Walks'
  BY <1>31 DEF ClearTry
<1>32. ASSUME ClearEnd PROVE Walks'
  BY <1>32 DEF ClearEnd
<1>33. ASSUME ClearCas PROVE Walks'
  BY <1>33 DEF ClearCas
<1>34. ASSUME ClearWipe PROVE Walks'
  BY <1>34 DEF ClearWipe
<1>35. ASSUME ClearUnlock PROVE Walks'
  BY <1>35 DEF ClearUnlock
<1>36. ASSUME CheckActive PROVE Walks'
  BY <1>36 DEF CheckActive
<1> QED BY <1>1, <1>2, <1>3, <1>4, <1>5, <1>6, <1>7, <1>8, <1>9, <1>10, <1>11,
       <1>12, <1>13, <1>14, <1>15, <1>16, <1>17, <1>18, <1>19, <1>20, <1>21,
       <1>22, <1>23, <1>24, <1>25, <1>26, <1>27, <1>28, <1>29, <1>30, <1>31,
       <1>32, <1>33, <1>34, <1>35, <1>36 DEF Next, ClientStep, Context,
       AssignStep, FrameStep, ServiceStep, ClearStep

\* With clients there, the interrupt walks them only during an overrun; main's walk
\* and the interrupt's at the end of a frame never meet (mjpegd.c:645-680).
THEOREM WalksOnlyInOverrun == Spec => []WalksInOverrunOnly
<1>1. Init => Walks
  BY DEF Init, Walks, Labels, ScanIdle, Serving, Clearing, Ctx
<1>2. Walks /\ [Next]_vars => Walks'
  <2>1. ASSUME Walks, UNCHANGED vars PROVE Walks'
    BY <2>1 DEF Walks, Connected, vars, cameraVars, clientVars, walkVars
  <2> QED BY <2>1, WalksStep
<1>3. Walks => WalksInOverrunOnly
  BY DEF Walks, WalksInOverrunOnly, Serving
<1> QED BY <1>1, <1>2, <1>3, PTL DEF Spec

-----------------------------------------------------------------------------
\* The pool implements FrameShare.

\* It starts as FrameShare does.
LEMMA InitShares == ASSUME Init PROVE Share!Init
<1>1. IInv
  BY InitIInv
<1>2. img \in [Frames -> Image]
  BY <1>1 DEF IInv, Types
<1>3. {f \in Frames : Locked(f)} = {}
  BY LockedRoles, ConstantsAssumption DEF Init, Ctx
<1>4. \A f \in Frames : Readers(f) = {}
  BY ConstantsAssumption DEF Init, Readers, Ctx
<1> QED BY <1>2, <1>3, <1>4 DEF Share!Init

\* FrameShare's Cardinality is this module's.
LEMMA SameCardinality == ASSUME NEW S PROVE Share!Cardinality(S) = Cardinality(S)
BY DEF Share!Cardinality, Cardinality

\* What a step does to one frame is a step of FrameShare.
LEMMA OneThingShares ==
    ASSUME IInv, IInv', OneThing PROVE Share!Next \/ UNCHANGED Share!vars
<1> DEFINE writer == {f \in Frames : Locked(f)}
           readers == [f \in Frames |-> Readers(f)]
<1> USE DEF Share!vars, SameLocks
<1>1. ASSUME SameLocks PROVE writer' = writer
  BY <1>1
<1>2. ASSUME NEW f \in Frames, \A c \in Clients : c \in Readers(f)' <=> c \in Readers(f)
      PROVE  Readers(f)' = Readers(f)
  BY <1>2, ReadersFinite
<1>3. ASSUME SameReaders PROVE readers' = readers
  BY <1>2, <1>3 DEF SameReaders
<1>4. CASE Idles
  BY <1>1, <1>3, <1>4 DEF Idles, frameVars
<1>5. ASSUME NEW f \in Frames, Writes(f) PROVE Share!Write(f)
  BY <1>1, <1>3, <1>5 DEF Writes, Share!Write, IInv, Types
<1>6. ASSUME NEW f \in Frames, Locks(f) PROVE Share!Lock(f)
  <2>1. Locked(f)' /\ ~Locked(f)
    BY <1>6, ConstantsAssumption DEF Locks, IInv, Conservation
  <2>2. Readers(f)' = {} /\ Readers(f)' = Readers(f)
    BY <1>2, <1>6, <2>1 DEF Locks, SameReaders, IInv, Conservation
  <2>3. writer' = writer \cup {f}
    BY <1>6 DEF Locks
  <2> QED BY <1>3, <1>6, <2>1, <2>2, <2>3 DEF Locks, Share!Lock
<1>7. ASSUME NEW f \in Frames, Unlocks(f) PROVE Share!Unlock(f)
  <2>1. writer' = writer \ {f}
    BY <1>7 DEF Unlocks
  <2> QED BY <1>3, <1>7, <2>1 DEF Unlocks, Share!Unlock
<1>8. ASSUME NEW f \in Frames, NEW c \in Clients, Acquires(f, c) PROVE Share!Acquire(f, c)
  <2>1. ~Locked(f) /\ Cardinality(Readers(f)) < MAX
    BY <1>8, ReadersFinite, ConstantsAssumption DEF Acquires, IInv, Conservation, SemType
  <2>2. Readers(f)' = Readers(f) \cup {c}
    BY <1>8, ReadersFinite DEF Acquires
  <2>3. \A g \in Frames \ {f} : Readers(g)' = Readers(g)
    BY <1>2, <1>8 DEF Acquires
  <2>4. readers' = [readers EXCEPT ![f] = @ \cup {c}]
    BY <2>2, <2>3
  <2>5. f \notin writer /\ c \notin readers[f] /\ Cardinality(readers[f]) < MAX
    BY <1>8, <2>1 DEF Acquires
  <2>6. writer' = writer /\ UNCHANGED img
    BY <1>1, <1>8 DEF Acquires
  <2> QED BY <2>4, <2>5, <2>6, SameCardinality DEF Share!Acquire
<1>9. ASSUME NEW f \in Frames, NEW c \in Clients, Releases(f, c) PROVE Share!Release(f, c)
  <2>1. Readers(f)' = Readers(f) \ {c}
    BY <1>9, ReadersFinite DEF Releases
  <2>2. \A g \in Frames \ {f} : Readers(g)' = Readers(g)
    BY <1>2, <1>9 DEF Releases
  <2>3. readers' = [readers EXCEPT ![f] = @ \ {c}]
    BY <2>1, <2>2
  <2> QED BY <1>1, <1>9, <2>3 DEF Releases, Share!Release
<1> QED BY <1>4, <1>5, <1>6, <1>7, <1>8, <1>9 DEF OneThing, Share!Next

\* A step that changes nothing changes nothing there.
LEMMA StutterShares ==
    ASSUME UNCHANGED vars PROVE UNCHANGED Share!vars
BY DEF vars, frameVars, cameraVars, clientVars, walkVars, Share!vars, Locked, Readers, Holds

\* Every behaviour of the pipeline, seen through Locked and Readers, is one of
\* FrameShare.
THEOREM ImplementsFrameShare == NoWholeOverrun => (Spec => SharesFrames)
<1> SUFFICES ASSUME NoWholeOverrun PROVE Spec => SharesFrames
  OBVIOUS
<1>1. IInv /\ IInv' /\ [Next]_vars => [Share!Next]_(Share!vars)
  BY StepsDoOneThing, OneThingShares, StutterShares
<1>2. Init => Share!Init
  BY InitShares
<1>3. Spec => []IInv
  BY Invariance
<1> QED BY <1>1, <1>2, <1>3, PTL DEF Spec, SharesFrames, Share!Spec

-----------------------------------------------------------------------------
\* The pipeline implements ClientFrames.

\* What the contract keeps by itself: a frame is only with a client whose request
\* asked for frames.
AskedFor == \A c \in Clients : st[c] \in {"free", "request"} => frame[c] = NULL

\* Whatever the contract allows a step to do keeps it.
LEMMA ContractKeepsAskedFor ==
    ASSUME AskedFor, Contract!Next PROVE AskedFor'
BY DEF AskedFor, Contract!Next, Contract!Step, Contract!Open, Contract!Ask,
       Contract!Give, Contract!Done, Contract!Fail, Contract!Close

\* A step that leaves the clients alone is allowed.
LEMMA SameClientsKeep ==
    ASSUME Types, UNCHANGED <<st, frame>> PROVE Contract!Next
BY DEF Types, Contract!Next, Contract!Step

\* So is one that does to a single client what Step allows.
LEMMA OneClientKeeps ==
    ASSUME NEW c \in Clients, Contract!Step(c),
           DOMAIN st' = Clients, DOMAIN frame' = Clients,
           \A d \in Clients \ {c} : st'[d] = st[d] /\ frame'[d] = frame[d]
    PROVE  Contract!Next
<1>1. ASSUME NEW d \in Clients, d # c PROVE Contract!Step(d)
  BY <1>1 DEF Contract!Step
<1> QED BY <1>1 DEF Contract!Next

\* The callbacks of lwIP.
LEMMA ClientStepKeeps ==
    ASSUME IInv, AskedFor, NEW c \in Clients, ClientStep(c) PROVE Contract!Next
<1> USE DEF IInv, Types, AskedFor, Contract!Step
<1>1. CASE Accept(c)
  BY <1>1, OneClientKeeps DEF Accept, Contract!Open
<1>2. CASE RecvRequest(c)
  BY <1>2, OneClientKeeps DEF RecvRequest, Contract!Ask
<1>3. CASE FrameSent(c)
  BY <1>3, OneClientKeeps DEF FrameSent, ReleaseFrame, Contract!Done
<1>4. CASE CloseConn(c)
  BY <1>4, OneClientKeeps DEF CloseConn, ReleaseFrame, Contract!Close
<1> QED BY <1>1, <1>2, <1>3, <1>4 DEF ClientStep

\* The store of a frame: only main reaches it, for a client that waits.
LEMMA StoreFrameKeeps ==
    ASSUME IInv, NEW x \in Ctx, StoreFrame(x) PROVE Contract!Next
<1> USE DEF IInv, Types
<1>1. x = "main"
  BY DEF StoreFrame, At, Control, ScanIdle, Ctx
<1>2. /\ cs[x] \in Clients /\ got[x] \in Frames
      /\ st[cs[x]] = "stream" /\ frame[cs[x]] = NULL
  BY <1>1 DEF StoreFrame, At, Locals, ServesWaiting, Serving, FrameOrNull, Ctx
<1>3. CASE Valid(got[x])
  BY <1>2, <1>3, OneClientKeeps DEF StoreFrame, Contract!Step, Contract!Give
<1>4. CASE ~Valid(got[x])
  BY <1>2, <1>4, OneClientKeeps DEF StoreFrame, Contract!Step
<1> QED BY <1>3, <1>4

\* Every step of the pipeline is one of the contract.
LEMMA NextKeeps ==
    ASSUME IInv, AskedFor, Next PROVE Contract!Next
<1> USE DEF clientVars
<1>1. ASSUME NEW c \in Clients, ClientStep(c) PROVE Contract!Next
  BY <1>1, ClientStepKeeps
<1>2. ASSUME NEW x \in Ctx, AssignStep(x) PROVE Contract!Next
  <2>1. CASE StoreFrame(x)
    BY <2>1, StoreFrameKeeps
  <2>2. CASE ~StoreFrame(x)
    <3>1. UNCHANGED <<st, frame>>
      BY <1>2, <2>2, NothingFoundKeeps
         DEF AssignStep, AssignClient, AssignDone, GetLatestSkip, GetLatestTry, GetLatestCas
    <3> QED BY <3>1, SameClientsKeep DEF IInv
  <2> QED BY <2>1, <2>2
<1>3. ASSUME NEW x \in Ctx, FrameStep(x) PROVE Contract!Next
  <2>1. UNCHANGED <<st, frame>>
    BY <1>3 DEF FrameStep, GetIdleSort, GetIdleSkip, GetIdleTry, GetIdleNone,
       GetIdleCas, DoSnap, RecvBroken, ReturnIdle
  <2> QED BY <2>1, SameClientsKeep DEF IInv
<1>4. ASSUME FrameEnd \/ DmaFull \/ NextFrame PROVE Contract!Next
  <2>1. UNCHANGED <<st, frame>>
    BY <1>4 DEF FrameEnd, DmaFull, NextFrame
  <2> QED BY <2>1, SameClientsKeep DEF IInv
<1>5. ASSUME StreamOutput PROVE Contract!Next
  <2>1. PICK E \in SUBSET {c \in Clients : st[c] = "stream"} :
          st' = [c \in Clients |-> IF c \in E THEN "closing" ELSE st[c]]
    BY <1>5 DEF StreamOutput
  <2>2. frame' = frame
    BY <1>5 DEF StreamOutput
  <2>3. ASSUME NEW c \in Clients PROVE Contract!Step(c)
    BY <2>1, <2>2 DEF Contract!Step, Contract!Fail
  <2> QED BY <2>1, <2>2, <2>3 DEF Contract!Next, IInv, Types
<1>6. ASSUME ServiceStep, ~StreamOutput PROVE Contract!Next
  <2>1. UNCHANGED <<st, frame>>
    BY <1>6 DEF ServiceStep, ServiceBegin, ProcessRawFrame, AssignAgain, CheckIdle,
       StopCapture, ClearStep, ClearPool, ClearTry, ClearEnd, ClearCas, ClearWipe,
       ClearUnlock, CheckActive
  <2> QED BY <2>1, SameClientsKeep DEF IInv
<1> QED BY <1>1, <1>2, <1>3, <1>4, <1>5, <1>6 DEF Next, Context

\* Whatever the interrupt does between the steps of main, a connection sees frames
\* come and go as ClientFrames says.
THEOREM ImplementsClientFrames == NoWholeOverrun => (Spec => KeepsContract)
<1> SUFFICES ASSUME NoWholeOverrun PROVE Spec => KeepsContract
  OBVIOUS
<1>1. Init => Contract!Init /\ AskedFor
  BY DEF Init, Contract!Init, AskedFor
<1>2. IInv /\ AskedFor /\ [Next]_vars => [Contract!Next]_(Contract!vars)
  BY NextKeeps DEF vars, clientVars, Contract!vars
<1>3. AskedFor /\ [Contract!Next]_(Contract!vars) => AskedFor'
  BY ContractKeepsAskedFor DEF AskedFor, Contract!vars
<1>4. Spec => []IInv
  BY Invariance
<1> QED BY <1>1, <1>2, <1>3, <1>4, PTL DEF Spec, KeepsContract, Contract!Spec
=============================================================================

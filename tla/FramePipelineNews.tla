-------------------------- MODULE FramePipelineNews --------------------------
(***************************************************************************)
(* Proofs about FramePipeline, continued: what is in the frames.  Capture  *)
(* times, the header and the JPEG search decide which frame a client gets; *)
(* with the locking proved in FramePipelineProofs they give every client   *)
(* whole, published frames, each newer than the one before.                *)
(***************************************************************************)
EXTENDS FramePipelineProofs

-----------------------------------------------------------------------------
\* The inductive invariant, beside IInv.

\* No capture is later than the clock.
Past ==
    /\ \A f \in Frames : img[f].ct <= now
    /\ \A c \in Clients : prev[c] <= now

\* A whole frame outside the locked places has its header, and a frame about to
\* leave them has, or is clear; the camera writes to a clear frame.
Shown(f) == Valid(f) => img[f].hdr

Published ==
    /\ \A f \in Frames : ~Locked(f) => Shown(f)
    /\ pc["main"] \in {"return", "tc_unlock"} => Shown(fr["main"])
    /\ pc["isr"] = "return" => img[fr["isr"]] = Blank
    /\ ext # NULL => img[ext] = Blank

\* Newer than any frame but the one in the interrupt's hands, which is newer still or
\* about to be cleared, and than all a client was given.
Newer(f) ==
    /\ ~img[f].hdr /\ img[f].ct > 0 /\ \A c \in Clients : prev[c] < img[f].ct
    /\ \A g \in Frames : g # f /\ g # fr["isr"] => img[g].ct < img[f].ct

News ==
    /\ pending # NULL => Valid(pending) /\ Newer(pending)
    /\ pc["isr"] = "nextframe" => Newer(fr["isr"])

\* A frame main chose for a client stays newer than the client's last, or is locked
\* by the interrupt and lost to the exchange: what is locked is not unlocked while
\* main serves.
Chosen ==
    /\ pc["main"] = "gl_cas" =>
          Locked(try["main"]) \/ img[try["main"]].ct > prev[cs["main"]]
    /\ pc["main"] = "store" => img[got["main"]].ct > prev[cs["main"]]

Dated == Past /\ Published /\ News /\ Chosen /\ ClientsHoldPublished /\ AskedFor

-----------------------------------------------------------------------------
\* Steps that touch no frame.

\* What a context does without the data of a frame, on its way to no label the
\* invariant is about.
Quiet ==
    /\ UNCHANGED <<img, pending, ext, fr, got, now, prev, frame>>
    /\ pc'["main"] \in {"return", "tc_unlock", "gl_cas", "store"} =>
          pc'["main"] = pc["main"] /\ try'["main"] = try["main"] /\ cs'["main"] = cs["main"]
    /\ pc'["isr"] \in {"return", "nextframe"} => pc'["isr"] = pc["isr"]

\* Such a step keeps the invariant.
LEMMA QuietDated ==
    ASSUME IInv, Dated, Quiet, AskedFor' PROVE Dated'
<1> USE DEF Quiet, Dated
<1>1. Past'
  BY DEF Past
<1>2. Published'
  BY LockedRoles DEF Published, Shown, Valid
<1>3. News'
  BY DEF News, Newer, Valid
<1>4. Chosen'
  BY LockedRoles DEF Chosen
<1>5. ClientsHoldPublished'
  BY DEF ClientsHoldPublished, Valid
<1> QED BY <1>1, <1>2, <1>3, <1>4, <1>5

\* The scans of the walk and of GetIdle, and the choices of the service loop.
LEMMA QuietSteps ==
    ASSUME IInv, NEW x \in Ctx,
           \/ AssignClient(x) \/ AssignDone(x) \/ GetLatestSort(x) \/ GetLatestSkip(x)
           \/ GetLatestNone(x) \/ (GetLatestCas(x) /\ ~CasPasses(x))
           \/ GetIdleSort(x) \/ GetIdleSkip(x) \/ GetIdleTry(x) \/ GetIdleNone(x)
           \/ (GetIdleCas(x) /\ ~CasPasses(x))
    PROVE  Quiet
<1> USE DEF IInv, Control, Types, Quiet, frameVars, cameraVars, clientVars, walkVars, scanVars,
            At, Goto, Home, Ctx
<1>1. CASE AssignClient(x)
  BY <1>1 DEF AssignClient
<1>2. CASE AssignDone(x)
  BY <1>2 DEF AssignDone
<1>3. CASE GetLatestSort(x)
  <2>1. pc'[x] \in {"gl_try", "assign"} /\ \A y \in Ctx \ {x} : pc'[y] = pc[y]
    BY <1>3 DEF GetLatestSort
  <2>2. UNCHANGED <<img, pending, ext, fr, got, now, prev, frame>>
    BY <1>3, NothingFoundKeeps DEF GetLatestSort
  <2>3. \A y \in Ctx \ {x} : try'[y] = try[y] /\ cs'[y] = cs[y]
    BY <1>3 DEF GetLatestSort, NothingFound, SortFrames
  <2> QED BY <2>1, <2>2, <2>3
<1>4. CASE GetLatestSkip(x)
  BY <1>4 DEF GetLatestSkip, PassBy
<1>5. CASE GetLatestNone(x)
  <2>1. pc' = [pc EXCEPT ![x] = "assign"]
    BY <1>5 DEF GetLatestNone
  <2>2. UNCHANGED <<img, pending, ext, fr, got, now, prev, frame>>
    BY <1>5, NothingFoundKeeps DEF GetLatestNone
  <2>3. \A y \in Ctx \ {x} : try'[y] = try[y] /\ cs'[y] = cs[y]
    BY <1>5 DEF GetLatestNone, NothingFound, EndScan
  <2> QED BY <2>1, <2>2, <2>3
<1>6. CASE GetLatestCas(x) /\ ~CasPasses(x)
  BY <1>6 DEF GetLatestCas
<1>7. CASE GetIdleSort(x)
  <2>1. pc'[x] \in {"gi_try", "loop", "off"} /\ \A y \in Ctx \ {x} : pc'[y] = pc[y]
    BY <1>7 DEF GetIdleSort
  <2>2. UNCHANGED <<try, cs>>
    BY <1>7 DEF GetIdleSort, SortFrames
  <2> QED BY <1>7, <2>1, <2>2 DEF GetIdleSort
<1>8. CASE GetIdleSkip(x)
  BY <1>8 DEF GetIdleSkip, PassBy
<1>9. CASE GetIdleTry(x)
  BY <1>9 DEF GetIdleTry, ReadSem
<1>10. CASE GetIdleNone(x)
  BY <1>10 DEF GetIdleNone, EndScan
<1>11. CASE GetIdleCas(x) /\ ~CasPasses(x)
  BY <1>11 DEF GetIdleCas
<1> QED BY <1>1, <1>2, <1>3, <1>4, <1>5, <1>6, <1>7, <1>8, <1>9, <1>10, <1>11

\* Most of the service loop, and transfers that end without a frame.
LEMMA QuietService ==
    ASSUME IInv,
           \/ \E c \in Clients : RecvRequest(c)
           \/ (ServiceBegin /\ pending = NULL) \/ AssignAgain \/ StreamOutput \/ CheckIdle
           \/ ClearPool \/ ClearTry \/ ClearEnd \/ (ClearCas /\ ~CasPasses("main"))
           \/ CheckActive
           \/ (FrameEnd /\ dma = NULL) \/ (StopCapture /\ dma = NULL)
    PROVE  Quiet
<1> USE DEF IInv, Control, Types, Quiet, frameVars, cameraVars, clientVars, walkVars, scanVars,
            At, Goto, Ctx
<1>1. CASE \E c \in Clients : RecvRequest(c)
  BY <1>1 DEF RecvRequest
<1>2. CASE ServiceBegin /\ pending = NULL
  BY <1>2 DEF ServiceBegin, StartAssign
<1>3. CASE AssignAgain
  BY <1>3 DEF AssignAgain, StartAssign
<1>4. CASE StreamOutput
  BY <1>4 DEF StreamOutput
<1>5. CASE CheckIdle \/ CheckActive
  BY <1>5 DEF CheckIdle, CheckActive
<1>6. CASE ClearPool \/ ClearTry \/ ClearEnd
  BY <1>6 DEF ClearPool, ClearTry, ClearEnd
<1>7. CASE ClearCas /\ ~CasPasses("main")
  BY <1>7 DEF ClearCas
<1>8. CASE FrameEnd /\ dma = NULL
  BY <1>8 DEF FrameEnd
<1>9. CASE StopCapture /\ dma = NULL
  BY <1>9 DEF StopCapture
<1> QED BY <1>1, <1>2, <1>3, <1>4, <1>5, <1>6, <1>7, <1>8, <1>9

-----------------------------------------------------------------------------
\* Steps of main that serve a client or lose one.

\* Any step of main but a few keeps out of the interrupt's way.
LEMMA MainAlone ==
    ASSUME IInv, pc["isr"] = "off" PROVE fr["isr"] = NULL
BY DEF IInv, Locals, InHand, Ctx

\* A new client has been given nothing yet.
LEMMA AcceptDated ==
    ASSUME IInv, Dated, NEW c \in Clients, Accept(c), AskedFor' PROVE Dated'
<1> USE DEF Dated, clientVars, cameraVars, frameVars, walkVars, scanVars, At
<1>1. /\ UNCHANGED <<img, pending, ext, fr, got, now, frame, pc, try, cs>>
      /\ pc["main"] = "loop" /\ pc["isr"] = "off"
      /\ prev'[c] = 0 /\ \A d \in Clients \ {c} : prev'[d] = prev[d]
      /\ frame[c] = NULL
  BY DEF Accept, IInv, Types, AskedFor
<1>2. now \in Nat /\ \A f \in Frames : img[f].ct \in Nat
  BY DEF IInv, Types, Image
<1>3. Past'
  BY <1>1, <1>2 DEF Past
<1>4. Published'
  BY <1>1, LockedRoles DEF Published, Shown, Valid
<1>5. News'
  <2>1. pending # NULL => /\ Valid(pending)' /\ ~img'[pending].hdr /\ img'[pending].ct > 0
                          /\ \A g \in Frames : g # pending /\ g # fr'["isr"] =>
                                                  img'[g].ct < img'[pending].ct
    BY <1>1 DEF News, Newer, Valid
  <2>2. pending # NULL => \A d \in Clients : prev'[d] < img'[pending].ct
    BY <1>1, <1>2 DEF News, Newer
  <2> QED BY <1>1, <2>1, <2>2 DEF News, Newer
<1>6. Chosen'
  BY <1>1 DEF Chosen
<1>7. ClientsHoldPublished'
  BY <1>1 DEF ClientsHoldPublished, Valid
<1> QED BY <1>3, <1>4, <1>5, <1>6, <1>7

\* A client gives its frame back.
LEMMA GiveBackDated ==
    ASSUME IInv, Dated, NEW c \in Clients, FrameSent(c) \/ CloseConn(c), AskedFor' PROVE Dated'
<1> USE DEF Dated, clientVars, cameraVars, frameVars, walkVars, scanVars, At
<1>1. /\ UNCHANGED <<img, pending, ext, fr, got, now, prev, pc, try, cs>>
      /\ frame'[c] = NULL /\ \A d \in Clients \ {c} : frame'[d] = frame[d]
  BY DEF FrameSent, CloseConn, ReleaseFrame, IInv, Types
<1>2. Past' /\ Published' /\ News' /\ Chosen'
  BY <1>1, LockedRoles DEF Past, Published, Shown, Valid, News, Newer, Chosen
<1>3. ClientsHoldPublished'
  BY <1>1 DEF ClientsHoldPublished, Valid
<1> QED BY <1>2, <1>3

\* GetLatest tries a frame that is not outdated: it is newer than the client's last,
\* if there was one.
LEMMA TryDated ==
    ASSUME IInv, Dated, NEW x \in Ctx, GetLatestTry(x), AskedFor' PROVE Dated'
<1> USE DEF Dated, clientVars, cameraVars, frameVars, walkVars, scanVars, At, Goto
<1>0. x = "main" /\ pc["main"] = "gl_try"
  BY DEF GetLatestTry, IInv, Control, ScanIdle, Ctx
<1>1. /\ UNCHANGED <<img, pending, ext, fr, got, now, prev, frame, cs>>
      /\ pc'["main"] = "gl_cas" /\ pc'["isr"] = pc["isr"]
  BY <1>0 DEF GetLatestTry, IInv, Control, Ctx
<1>2. PICK f \in Frames : /\ img[f].ct # 0 /\ NewerThanSent(x, f) /\ try'["main"] = f
  BY <1>0 DEF GetLatestTry, ReadSem, IInv, Types, Ctx
<1>3. img[f].ct \in Nat /\ cs[x] # NULL /\ cs[x] \in Clients
  BY <1>0 DEF IInv, Types, Image, Locals, Serving, Ctx
<1>4. img[f].ct > prev[cs["main"]]
  BY <1>0, <1>2, <1>3 DEF NewerThanSent
<1>5. Past' /\ Published' /\ News' /\ ClientsHoldPublished'
  BY <1>1, LockedRoles
  DEF Past, Published, Shown, Valid, News, Newer, ClientsHoldPublished
<1>6. Chosen'
  BY <1>1, <1>2, <1>4 DEF Chosen
<1> QED BY <1>5, <1>6

\* The exchange goes through only for a frame nobody locked.
LEMMA TakeDated ==
    ASSUME IInv, Dated, NEW x \in Ctx, GetLatestCas(x), CasPasses(x), AskedFor' PROVE Dated'
<1> USE DEF Dated, clientVars, cameraVars, frameVars, walkVars, scanVars, At, Goto
<1>0. x = "main" /\ pc["main"] = "gl_cas"
  BY DEF GetLatestCas, IInv, Control, ScanIdle, Ctx
<1>1. /\ UNCHANGED <<img, pending, ext, fr, now, prev, frame, cs>>
      /\ pc'["main"] = "store" /\ pc'["isr"] = pc["isr"] /\ got'["main"] = try["main"]
  BY <1>0 DEF GetLatestCas, IInv, Control, Types, Ctx
<1>2. ~Locked(try["main"])
  <2>1. try["main"] \in Frames /\ sem[try["main"]] >= 1
    BY <1>0 DEF CasPasses, IInv, Trying, Types, FrameOrNull, Ctx
  <2> QED BY <2>1 DEF IInv, Conservation
<1>3. img[try["main"]].ct > prev[cs["main"]]
  BY <1>0, <1>2 DEF Chosen
<1>4. Past' /\ Published' /\ News' /\ ClientsHoldPublished'
  BY <1>1, LockedRoles
  DEF Past, Published, Shown, Valid, News, Newer, ClientsHoldPublished
<1>5. Chosen'
  BY <1>1, <1>3 DEF Chosen
<1> QED BY <1>4, <1>5

\* The frame stored is published, older than any to come and newer than the last.
LEMMA StoreDated ==
    ASSUME IInv, Dated, NEW x \in Ctx, StoreFrame(x), AskedFor'
    PROVE  /\ Dated'
           /\ \A c \in Clients : frame[c] = NULL /\ frame'[c] # NULL => prev'[c] > prev[c]
<1> USE DEF Dated, clientVars, cameraVars, frameVars, walkVars, scanVars, At, Goto
<1>0. x = "main" /\ pc["main"] = "store" /\ pc["isr"] = "off"
  BY DEF StoreFrame, IInv, Control, ScanIdle, Ctx
<1>1. /\ UNCHANGED <<img, pending, ext, fr, now>>
      /\ pc'["main"] = "assign" /\ pc'["isr"] = "off"
  BY <1>0 DEF StoreFrame, IInv, Control, Types, Ctx
<1>2. /\ got["main"] \in Frames /\ cs["main"] \in Clients
      /\ img[got["main"]].ct > prev[cs["main"]]
      /\ img[got["main"]].ct \in Nat
  BY <1>0 DEF Chosen, IInv, Types, FrameOrNull, Image, Locals, Serving, Ctx
<1>3. ~Locked(got["main"]) /\ fr["isr"] = NULL
  BY <1>0, <1>2, MainAlone DEF IInv, Conservation, Readers, Ctx
<1>4. \/ UNCHANGED prev /\ \A d \in Clients : frame'[d] # NULL => frame'[d] = frame[d]
      \/ /\ Valid(got["main"])
         /\ prev' = [prev EXCEPT ![cs["main"]] = img[got["main"]].ct]
         /\ frame' = [frame EXCEPT ![cs["main"]] = got["main"]]
  BY <1>0 DEF StoreFrame, IInv, Types
<1>5. CASE UNCHANGED prev /\ \A d \in Clients : frame'[d] # NULL => frame'[d] = frame[d]
  <2>1. Past' /\ Published' /\ News'
    BY <1>1, <1>5, LockedRoles DEF Past, Published, Shown, Valid, News, Newer
  <2>2. Chosen' /\ ClientsHoldPublished'
    BY <1>1, <1>5 DEF Chosen, ClientsHoldPublished, Valid
  <2> QED BY <1>5, <2>1, <2>2
<1>6. CASE /\ Valid(got["main"])
           /\ prev' = [prev EXCEPT ![cs["main"]] = img[got["main"]].ct]
           /\ frame' = [frame EXCEPT ![cs["main"]] = got["main"]]
  <2>1. /\ prev'[cs["main"]] = img[got["main"]].ct /\ frame'[cs["main"]] = got["main"]
        /\ \A d \in Clients \ {cs["main"]} : prev'[d] = prev[d] /\ frame'[d] = frame[d]
    BY <1>2, <1>6 DEF IInv, Types
  <2>2. img[got["main"]].hdr /\ Valid(got["main"])
    BY <1>2, <1>3, <1>6 DEF Published, Shown
  <2>3. Past'
    BY <1>1, <1>2, <2>1 DEF Past
  <2>4. Published'
    BY <1>1, LockedRoles DEF Published, Shown, Valid
  <2>5. News'
    <3>1. pending # NULL => pending # got["main"] /\ img[got["main"]].ct < img[pending].ct
      BY <1>2, <1>3, LockedRoles, ConstantsAssumption DEF News, Newer
    <3>2. pending # NULL => Newer(pending)'
      BY <1>1, <2>1, <3>1 DEF News, Newer
    <3> QED BY <1>1, <3>2 DEF News, Valid
  <2>6. Chosen'
    BY <1>1 DEF Chosen
  <2>7. ClientsHoldPublished'
    BY <1>1, <2>1, <2>2 DEF ClientsHoldPublished, Valid
  <2>8. \A c \in Clients : frame[c] = NULL /\ frame'[c] # NULL => prev'[c] > prev[c]
    BY <1>2, <2>1
  <2> QED BY <2>3, <2>4, <2>5, <2>6, <2>7, <2>8
<1> QED BY <1>4, <1>5, <1>6

-----------------------------------------------------------------------------
\* Steps on the way of a frame.

\* Clients keep what they have or were chosen when only locked frames are written, and
\* none is unlocked while main is about to take one.
LEMMA ServeKept ==
    ASSUME IInv, Dated, UNCHANGED <<prev, frame, got>>,
           pc'["main"] \in {"gl_cas", "store"} =>
               /\ pc'["main"] = pc["main"] /\ try'["main"] = try["main"] /\ cs'["main"] = cs["main"]
               /\ \A g \in Frames : Locked(g) => Locked(g)',
           \A g \in Frames : ~Locked(g) => img'[g] = img[g]
    PROVE  Chosen' /\ ClientsHoldPublished'
<1> USE DEF Dated
<1>1. \A c \in Clients : frame[c] # NULL => frame[c] \in Frames /\ ~Locked(frame[c])
  BY DEF IInv, Types, FrameOrNull, Conservation, Readers
<1>2. pc["main"] = "store" => got["main"] \in Frames /\ ~Locked(got["main"])
  <2> SUFFICES ASSUME pc["main"] = "store" PROVE got["main"] \in Frames /\ ~Locked(got["main"])
    OBVIOUS
  <2>1. got["main"] \in Frames /\ cs["main"] \in Clients
    BY DEF IInv, Types, FrameOrNull, Locals, Serving, Ctx
  <2>2. cs["main"] \in Readers(got["main"])
    BY <2>1 DEF Readers, Ctx
  <2> QED BY <2>1, <2>2 DEF IInv, Conservation
<1>3. pc["main"] = "gl_cas" => try["main"] \in Frames
  BY DEF IInv, Types, Trying, FrameOrNull, Ctx
<1>4. ClientsHoldPublished'
  BY <1>1 DEF ClientsHoldPublished, Valid
<1>5. Chosen'
  BY <1>2, <1>3 DEF Chosen
<1> QED BY <1>4, <1>5

\* A free frame is locked, to capture into or to clear.
LEMMA LockDated ==
    ASSUME IInv, Dated, AskedFor', NEW x \in Ctx, CasPasses(x),
           GetIdleCas(x) \/ (ClearCas /\ x = "main")
    PROVE  Dated'
<1> USE DEF Dated, clientVars, cameraVars, frameVars, walkVars, scanVars, At, Goto
<1>1. /\ UNCHANGED <<img, pending, ext, now, prev, frame, got, cs>>
      /\ pc'[x] \in {"snap", "tc_wipe"} /\ fr[x] = NULL
      /\ pc[x] \in {"gi_cas", "tc_cas"} /\ (x = "main" => pc["isr"] = "off")
      /\ \A y \in Ctx \ {x} : pc'[y] = pc[y] /\ fr'[y] = fr[y] /\ try'[y] = try[y]
  BY DEF GetIdleCas, ClearCas, EndScan, IInv, Control, Types, Locals, InHand, Ctx
<1>2. x = "main" \/ x = "isr"
  BY DEF Ctx
<1>3. \A g \in Frames : Locked(g) => Locked(g)'
  BY <1>1, <1>2, LockedRoles, ConstantsAssumption DEF Ctx
<1>4. Past'
  BY <1>1 DEF Past
<1>5. Published'
  BY <1>1, <1>2, <1>3 DEF Published, Shown, Valid, Ctx
<1>6. News'
  <2>1. pending # NULL => pending \in Frames
    BY DEF IInv, Types, FrameOrNull
  <2>2. \A g \in Frames : g # fr'["isr"] => g # fr["isr"]
    BY <1>1, <1>2, ConstantsAssumption DEF Ctx
  <2>3. pc'["isr"] # "nextframe"
    BY <1>1, <1>2 DEF Ctx
  <2> QED BY <1>1, <2>1, <2>2, <2>3 DEF News, Newer, Valid
<1>7. Chosen' /\ ClientsHoldPublished'
  BY <1>1, <1>2, <1>3, ServeKept DEF Ctx
<1> QED BY <1>4, <1>5, <1>6, <1>7

\* The frame attached to the camera is cleared first.
LEMMA SnapDated ==
    ASSUME IInv, Dated, AskedFor', NEW x \in Ctx, DoSnap(x) PROVE Dated'
<1> USE DEF Dated, clientVars, cameraVars, frameVars, walkVars, scanVars, At, Goto
<1>1. /\ UNCHANGED <<pending, now, prev, frame, got, cs, try>>
      /\ pc[x] = "snap" /\ (x = "main" => pc["isr"] = "off")
      /\ \A y \in Ctx \ {x} : pc'[y] = pc[y] /\ fr'[y] = fr[y]
      /\ fr[x] \in Frames
  BY DEF DoSnap, IInv, Control, Types, FrameOrNull, Locals, InHand, Ctx
<1>2. x = "main" \/ x = "isr"
  BY DEF Ctx
<1>3. CASE ~CanSnap
  <2>1. Quiet
    BY <1>1, <1>2, <1>3 DEF Quiet, DoSnap, IInv, Control, Ctx
  <2> QED BY <2>1, QuietDated
<1>4. CASE CanSnap
  <2>1. /\ ext = NULL /\ ext' = fr[x] /\ fr'[x] = NULL /\ pc'[x] \in {"loop", "off"}
        /\ img'[fr[x]] = Blank /\ \A g \in Frames \ {fr[x]} : img'[g] = img[g]
    BY <1>1, <1>4 DEF DoSnap, CanSnap, CaptureCmd, Home, IInv, Control, Types, Ctx
  <2>2. /\ pending # NULL => pending \in Frames /\ pending # fr[x]
        /\ fr["isr"] # NULL => fr["isr"] \in Frames
        /\ (x = "isr" /\ fr["main"] # NULL) => fr["main"] # fr[x] /\ fr["main"] \in Frames
    BY <1>1, <1>2, OneHolderRoles DEF IInv, Types, FrameOrNull, Ctx
  <2>3. \A g \in Frames : Locked(g)' <=> Locked(g)
    BY <1>1, <1>2, <2>1, LockedRoles, ConstantsAssumption DEF Ctx
  <2>4. Blank.ct = 0 /\ Blank.len = "none" /\ Locked(fr[x])
    BY <1>1, <1>2, LockedRoles DEF Blank, Ctx
  <2>5. now \in Nat
    BY DEF IInv, Types
  <2>6. Past'
    <3>1. \A f \in Frames : img'[f].ct <= now
      BY <2>1, <2>4, <2>5 DEF Past
    <3> QED BY <1>1, <3>1 DEF Past
  <2>7. Published'
    <3>1. \A g \in Frames : ~Locked(g)' => Shown(g)'
      BY <2>1, <2>3, <2>4 DEF Published, Shown, Valid
    <3>2. pc'["main"] \in {"return", "tc_unlock"} => Shown(fr["main"])' /\ fr'["main"] = fr["main"]
      <4> SUFFICES ASSUME pc'["main"] \in {"return", "tc_unlock"}
                   PROVE  Shown(fr["main"])' /\ fr'["main"] = fr["main"]
        OBVIOUS
      <4>1. x = "isr" /\ pc["main"] \in {"return", "tc_unlock"}
        BY <1>1, <1>2, <2>1 DEF Ctx
      <4>2. fr["main"] # NULL
        BY <4>1 DEF IInv, Locals, InHand, Ctx
      <4>3. img'[fr["main"]] = img[fr["main"]] /\ fr'["main"] = fr["main"]
        BY <1>1, <2>1, <2>2, <4>1, <4>2 DEF Ctx
      <4> QED BY <4>1, <4>3 DEF Published, Shown, Valid
    <3>3. pc'["isr"] # "return"
      BY <1>1, <1>2, <2>1 DEF Ctx
    <3> QED BY <2>1, <3>1, <3>2, <3>3 DEF Published, Shown, Valid
  <2>8. News'
    <3>1. pc'["isr"] # "nextframe"
      BY <1>1, <1>2, <2>1 DEF Ctx
    <3>2. ASSUME pending # NULL PROVE Valid(pending)' /\ Newer(pending)'
      <4>1. img'[pending] = img[pending] /\ Newer(pending) /\ Valid(pending)
        BY <2>1, <2>2, <3>2 DEF News
      <4>2. \A g \in Frames : g # pending /\ g # fr'["isr"] => img'[g].ct < img[pending].ct
        BY <1>1, <1>2, <2>1, <2>4, <4>1 DEF Newer, Ctx
      <4> QED BY <1>1, <4>1, <4>2 DEF Newer, Valid
    <3> QED BY <1>1, <3>1, <3>2 DEF News
  <2>9. Chosen' /\ ClientsHoldPublished'
    BY <1>1, <1>2, <2>1, <2>3, <2>4, ServeKept DEF Ctx
  <2> QED BY <2>6, <2>7, <2>8, <2>9
<1> QED BY <1>3, <1>4

\* A bad frame is cleared before it is given back.
LEMMA BrokenDated ==
    ASSUME IInv, Dated, AskedFor', NEW x \in Ctx,
           RecvBroken(x) \/ (ClearWipe /\ x = "main")
    PROVE  Dated'
<1> USE DEF Dated, clientVars, cameraVars, frameVars, walkVars, scanVars, At, Goto
<1>1. /\ UNCHANGED <<pending, ext, fr, now, prev, frame, got, cs, try>>
      /\ pc'[x] \in {"return", "tc_unlock"} /\ pc[x] \in {"broken", "tc_wipe"}
      /\ x = "main" => pc["isr"] = "off"
      /\ x = "isr" => pc'[x] = "return"
      /\ \A y \in Ctx \ {x} : pc'[y] = pc[y]
      /\ fr[x] \in Frames
      /\ img'[fr[x]] = Blank /\ \A g \in Frames \ {fr[x]} : img'[g] = img[g]
  BY DEF RecvBroken, ClearWipe, IInv, Control, Types, FrameOrNull, Locals, InHand, Ctx
<1>2. x = "main" \/ x = "isr"
  BY DEF Ctx
<1>3. /\ pending # NULL => pending \in Frames /\ pending # fr[x]
      /\ ext # NULL => ext \in Frames /\ ext # fr[x]
      /\ (x = "isr" /\ fr["main"] # NULL) => fr["main"] # fr[x] /\ fr["main"] \in Frames
  BY <1>1, <1>2, OneHolderRoles DEF IInv, Types, FrameOrNull, Ctx
<1>4. \A g \in Frames : Locked(g)' <=> Locked(g)
  BY <1>1, LockedRoles
<1>5. Blank.ct = 0 /\ Blank.len = "none" /\ Locked(fr[x])
  BY <1>1, <1>2, LockedRoles DEF Blank
<1>6. now \in Nat
  BY DEF IInv, Types
<1>7. Past'
  <2>1. \A f \in Frames : img'[f].ct <= now
    BY <1>1, <1>5, <1>6 DEF Past
  <2> QED BY <1>1, <2>1 DEF Past
<1>8. Published'
  <2>1. \A g \in Frames : ~Locked(g)' => Shown(g)'
    BY <1>1, <1>4, <1>5 DEF Published, Shown, Valid
  <2>2. CASE x = "main"
    <3>1. Shown(fr["main"])' /\ pc'["isr"] = "off"
      BY <1>1, <1>5, <2>2 DEF Shown, Valid, Ctx
    <3>2. ext' # NULL => img'[ext'] = Blank
      BY <1>1, <1>3 DEF Published
    <3> QED BY <2>1, <3>1, <3>2 DEF Published
  <2>3. CASE x = "isr"
    <3>1. img'[fr'["isr"]] = Blank
      BY <1>1, <2>3
    <3>2. ext' # NULL => img'[ext'] = Blank
      BY <1>1, <1>3 DEF Published
    <3>3. pc'["main"] \in {"return", "tc_unlock"} => Shown(fr["main"])'
      <4> SUFFICES ASSUME pc'["main"] \in {"return", "tc_unlock"} PROVE Shown(fr["main"])'
        OBVIOUS
      <4>1. pc["main"] = pc'["main"]
        BY <1>1, <2>3 DEF Ctx
      <4>2. fr["main"] # NULL
        BY <4>1 DEF IInv, Locals, InHand, Ctx
      <4>3. img'[fr["main"]] = img[fr["main"]] /\ fr'["main"] = fr["main"]
        BY <1>1, <1>3, <2>3, <4>2
      <4> QED BY <4>1, <4>3 DEF Published, Shown, Valid
    <3> QED BY <2>1, <3>1, <3>2, <3>3 DEF Published
  <2> QED BY <1>2, <2>2, <2>3
<1>9. News'
  <2>1. pc'["isr"] # "nextframe"
    BY <1>1, <1>2 DEF Ctx
  <2>2. ASSUME pending # NULL PROVE Valid(pending)' /\ Newer(pending)'
    <3>1. img'[pending] = img[pending] /\ Newer(pending) /\ Valid(pending)
      BY <1>1, <1>3, <2>2 DEF News
    <3>2. \A g \in Frames : g # pending /\ g # fr'["isr"] => img'[g].ct < img[pending].ct
      BY <1>1, <1>5, <3>1 DEF Newer
    <3> QED BY <1>1, <3>1, <3>2 DEF Newer, Valid
  <2> QED BY <1>1, <2>1, <2>2 DEF News
<1>10. Chosen' /\ ClientsHoldPublished'
  BY <1>1, <1>2, <1>4, <1>5, ServeKept DEF Ctx
<1> QED BY <1>7, <1>8, <1>9, <1>10

\* A frame is unlocked published or clear: what the interrupt gives back is clear, and
\* main is not serving a client meanwhile.
LEMMA UnlockDated ==
    ASSUME IInv, Dated, AskedFor', NEW x \in Ctx,
           ReturnIdle(x) \/ (ClearUnlock /\ x = "main")
    PROVE  Dated'
<1> USE DEF Dated, clientVars, cameraVars, frameVars, walkVars, scanVars, At, Goto
<1>1. /\ UNCHANGED <<img, pending, ext, now, prev, frame, got, cs, try>>
      /\ pc'[x] \in {"assign", "tc_try"} /\ pc[x] \in {"return", "tc_unlock"}
      /\ x = "main" => pc["isr"] = "off"
      /\ x = "isr" => pc["isr"] = "return"
      /\ \A y \in Ctx \ {x} : pc'[y] = pc[y] /\ fr'[y] = fr[y]
      /\ fr[x] \in Frames /\ fr'[x] = NULL
  BY DEF ReturnIdle, ClearUnlock, StartAssign, IInv, Control, Types, FrameOrNull, Locals,
         InHand, Ctx
<1>2. x = "main" \/ x = "isr"
  BY DEF Ctx
<1>3. Shown(fr[x]) /\ (x = "isr" => img[fr[x]].ct = 0)
  BY <1>1, <1>2 DEF Published, Shown, Valid, Blank
<1>4. \A g \in Frames : ~Locked(g)' => ~Locked(g) \/ g = fr[x]
  BY <1>1, <1>2, LockedRoles DEF Ctx
<1>5. Past'
  BY <1>1 DEF Past
<1>6. Published'
  <2>1. \A g \in Frames : ~Locked(g)' => Shown(g)'
    BY <1>1, <1>3, <1>4 DEF Published, Shown, Valid
  <2>2. pc'["main"] \in {"return", "tc_unlock"} => Shown(fr["main"])'
    BY <1>1, <1>2 DEF Published, Shown, Valid, Ctx
  <2>3. pc'["isr"] # "return"
    BY <1>1, <1>2 DEF Ctx
  <2> QED BY <1>1, <2>1, <2>2, <2>3 DEF Published
<1>7. News'
  <2>1. pc'["isr"] # "nextframe"
    BY <1>1, <1>2 DEF Ctx
  <2>2. ASSUME pending # NULL PROVE Newer(pending)'
    <3>1. Newer(pending)
      BY <2>2 DEF News
    <3>2. \A g \in Frames : g # pending /\ g # fr'["isr"] => img[g].ct < img[pending].ct
      <4> SUFFICES ASSUME NEW g \in Frames, g # pending, g # fr'["isr"]
                   PROVE  img[g].ct < img[pending].ct
        OBVIOUS
      <4>1. CASE g # fr["isr"]
        BY <3>1, <4>1 DEF Newer
      <4>2. CASE g = fr["isr"]
        <5>1. x = "isr"
          BY <1>1, <1>2, <4>2 DEF Ctx
        <5> QED BY <1>3, <3>1, <4>2, <5>1 DEF Newer
      <4> QED BY <4>1, <4>2
    <3> QED BY <1>1, <3>1, <3>2 DEF Newer
  <2> QED BY <1>1, <2>1, <2>2 DEF News, Valid
<1>8. pc'["main"] \notin {"gl_cas", "store"}
  <2>1. x = "isr" => pc["main"] \in {"stop", "clear"}
    BY <1>1 DEF IInv, Camera
  <2> QED BY <1>1, <1>2, <2>1 DEF Ctx
<1>9. Chosen' /\ ClientsHoldPublished'
  BY <1>1, <1>8, ServeKept
<1> QED BY <1>5, <1>6, <1>7, <1>9

\* The frame the interrupt hands over becomes the pending one; the one it replaces is
\* captured into again.
LEMMA NextFrameDated ==
    ASSUME IInv, Dated, AskedFor', NextFrame PROVE Dated'
<1> USE DEF Dated, clientVars, cameraVars, frameVars, walkVars, scanVars, At, Goto
<1>1. /\ UNCHANGED <<img, ext, now, prev, frame, got, cs, try>>
      /\ pc["isr"] = "nextframe" /\ pc'["isr"] \in {"gi_sort", "snap"}
      /\ pc'["main"] = pc["main"] /\ fr'["main"] = fr["main"]
      /\ fr["isr"] \in Frames
  BY DEF NextFrame, IInv, Control, Types, FrameOrNull, Locals, InHand, Ctx
<1>2. \/ pending' = pending /\ fr' = fr
      \/ Valid(fr["isr"]) /\ pending' = fr["isr"] /\ fr'["isr"] = pending
  BY DEF NextFrame, IInv, Types, Ctx
<1>3. \A g \in Frames : Locked(g)' <=> Locked(g)
  BY <1>1, <1>2, LockedRoles
<1>4. Past'
  BY <1>1 DEF Past
<1>5. Published'
  BY <1>1, <1>3 DEF Published, Shown, Valid
<1>6. News'
  BY <1>1, <1>2 DEF News, Newer, Valid
<1>7. Chosen' /\ ClientsHoldPublished'
  BY <1>1, <1>3, ServeKept
<1> QED BY <1>4, <1>5, <1>6, <1>7

\* The service takes the pending frame.
LEMMA TakePendingDated ==
    ASSUME IInv, Dated, AskedFor', ServiceBegin, pending # NULL PROVE Dated'
<1> USE DEF Dated, clientVars, cameraVars, frameVars, walkVars, scanVars, At, Goto
<1>1. /\ UNCHANGED <<img, ext, now, prev, frame, got, cs, try>>
      /\ pc["isr"] = "off" /\ pc'["isr"] = "off" /\ pc["main"] = "loop"
      /\ pc'["main"] = "process" /\ fr'["main"] = pending /\ fr'["isr"] = fr["isr"]
      /\ pending' = NULL /\ fr["main"] = NULL
  BY DEF ServiceBegin, IInv, Control, Types, Locals, InHand, Ctx
<1>2. \A g \in Frames : Locked(g)' <=> Locked(g)
  BY <1>1, LockedRoles, ConstantsAssumption
<1>3. Past' /\ News'
  BY <1>1 DEF Past, News
<1>4. Published'
  BY <1>1, <1>2 DEF Published, Shown, Valid
<1>5. Chosen' /\ ClientsHoldPublished'
  BY <1>1, <1>2, ServeKept
<1> QED BY <1>3, <1>4, <1>5

\* Processing completes the frame and leaves its time.
LEMMA ProcessDated ==
    ASSUME IInv, Dated, AskedFor', ProcessRawFrame PROVE Dated'
<1> USE DEF Dated, clientVars, cameraVars, frameVars, walkVars, scanVars, At, Goto
<1>1. /\ UNCHANGED <<pending, ext, fr, now, prev, frame, got, cs, try>>
      /\ pc["isr"] = "off" /\ pc'["isr"] = "off" /\ pc["main"] = "process"
      /\ pc'["main"] = "return" /\ fr["main"] \in Frames
  BY DEF ProcessRawFrame, IInv, Control, Types, FrameOrNull, Locals, InHand, Ctx
<1>2. /\ img'[fr["main"]].ct = img[fr["main"]].ct /\ Shown(fr["main"])'
      /\ \A g \in Frames \ {fr["main"]} : img'[g] = img[g]
  <2>1. CASE Valid(fr["main"]) /\ ~img[fr["main"]].hdr
    <3>1. PICK len \in {"good", "full"} :
            img' = [img EXCEPT ![fr["main"]] =
                       [len |-> len, ct |-> img[fr["main"]].ct, hdr |-> TRUE]]
      BY <2>1 DEF ProcessRawFrame
    <3>2. /\ img'[fr["main"]] = [len |-> len, ct |-> img[fr["main"]].ct, hdr |-> TRUE]
          /\ \A g \in Frames \ {fr["main"]} : img'[g] = img[g]
      BY <1>1, <3>1 DEF IInv, Types
    <3> QED BY <1>1, <3>2 DEF Shown, Valid
  <2>2. CASE ~(Valid(fr["main"]) /\ ~img[fr["main"]].hdr)
    <3>1. img' = img
      BY <2>2 DEF ProcessRawFrame
    <3> QED BY <1>1, <2>2, <3>1 DEF Shown, Valid
  <2> QED BY <2>1, <2>2
<1>3. /\ pending # NULL => pending \in Frames /\ pending # fr["main"]
      /\ ext # NULL => ext \in Frames /\ ext # fr["main"]
  BY <1>1, OneHolderRoles DEF IInv, Types, FrameOrNull
<1>4. \A g \in Frames : Locked(g)' <=> Locked(g)
  BY <1>1, LockedRoles
<1>5. Locked(fr["main"]) /\ \A g \in Frames : img'[g].ct = img[g].ct
  BY <1>1, <1>2, LockedRoles
<1>6. Past'
  BY <1>1, <1>5 DEF Past
<1>7. Published'
  <2>1. \A g \in Frames : ~Locked(g)' => Shown(g)'
    BY <1>2, <1>4, <1>5 DEF Published, Shown, Valid
  <2>2. ext' # NULL => img'[ext'] = Blank
    BY <1>1, <1>2, <1>3 DEF Published
  <2> QED BY <1>1, <1>2, <2>1, <2>2 DEF Published
<1>8. News'
  <2>1. ASSUME pending # NULL PROVE Valid(pending)' /\ Newer(pending)'
    <3>1. img'[pending] = img[pending] /\ Newer(pending) /\ Valid(pending)
      BY <1>2, <1>3, <2>1 DEF News
    <3> QED BY <1>1, <1>5, <3>1 DEF Newer, Valid
  <2> QED BY <1>1, <2>1 DEF News
<1>9. Chosen' /\ ClientsHoldPublished'
  BY <1>1, <1>2, <1>4, <1>5, ServeKept
<1> QED BY <1>6, <1>7, <1>8, <1>9

\* The end of a transfer stamps the frame with a time no other has, and detaches it.
LEMMA CaptureDated ==
    ASSUME IInv, Dated, AskedFor', NEW len \in Length, NEW cap \in BOOLEAN,
           DmaTc(len, cap), dma # NULL, pc["isr"] = "off", enabled => now < MaxTime,
           pc'["isr"] = AfterTc(len),
           pc'["main"] \in {"return", "tc_unlock", "gl_cas", "store"} =>
               pc'["main"] = pc["main"],
           UNCHANGED <<pending, prev, frame, got, cs, try>>
    PROVE  Dated'
<1> USE DEF Dated
<1>1. /\ fr["isr"] = NULL /\ ext \in Frames /\ now \in Nat /\ MaxTime \in Nat
      /\ img[ext] = Blank
  BY MainAlone, ConstantsAssumption DEF IInv, Camera, Types, FrameOrNull, Published
<1>2. CASE len = "none" /\ enabled
  BY <1>2, QuietDated DEF DmaTc, AfterTc, Quiet
<1>3. CASE ~(len = "none" /\ enabled)
  <2>1. /\ ext' = NULL /\ now' = Stamp /\ fr'["isr"] = ext /\ fr'["main"] = fr["main"]
        /\ pc'["isr"] \in {"nextframe", "broken"}
        /\ pc'["isr"] = "nextframe" => enabled
    BY <1>1, <1>3, ConstantsAssumption DEF DmaTc, AfterTc, IInv, Types, Ctx
  <2>2. img'[ext].ct = Stamp /\ ~img'[ext].hdr /\ \A g \in Frames \ {ext} : img'[g] = img[g]
    <3>1. img' = [img EXCEPT ![ext] = [[img[ext] EXCEPT !.len = len] EXCEPT !.ct = Stamp]]
      BY <1>1, <1>3, ConstantsAssumption DEF DmaTc, IInv, Types, Image
    <3>2. img[ext] \in Image /\ img[ext].hdr = FALSE
      <4>1. Blank.hdr = FALSE
        BY DEF Blank
      <4> QED BY <1>1, <4>1, BlankType
    <3>3. img'[ext] = [[img[ext] EXCEPT !.len = len] EXCEPT !.ct = Stamp]
      BY <1>1, <3>1 DEF IInv, Types
    <3>4. img'[ext].ct = Stamp /\ ~img'[ext].hdr
      BY <3>2, <3>3 DEF Image
    <3> QED BY <1>1, <3>1, <3>4 DEF IInv, Types
  <2>3. Stamp \in Nat /\ Stamp >= now /\ (enabled => Stamp > now)
    BY <1>1 DEF Stamp
  <2>4. /\ pending # NULL => pending \in Frames /\ pending # ext
        /\ fr["main"] # NULL => fr["main"] \in Frames /\ fr["main"] # ext
    BY <1>1, OneHolderRoles DEF IInv, Types, FrameOrNull, Ctx
  <2>5. \A g \in Frames : Locked(g)' <=> Locked(g)
    BY <1>1, <2>1, LockedRoles, ConstantsAssumption
  <2>6. Locked(ext)
    BY LockedRoles
  <2>7. /\ \A g \in Frames : img[g].ct \in Nat
        /\ \A c \in Clients : prev[c] \in Nat
    BY DEF IInv, Types, Image
  <2>8. Past'
    <3>1. \A g \in Frames : img'[g].ct <= Stamp
      BY <1>1, <2>2, <2>3, <2>7 DEF Past
    <3>2. \A c \in Clients : prev[c] <= Stamp
      BY <1>1, <2>3, <2>7 DEF Past
    <3> QED BY <2>1, <3>1, <3>2 DEF Past
  <2>9. Published'
    <3>1. \A g \in Frames : ~Locked(g)' => Shown(g)'
      BY <2>2, <2>5, <2>6 DEF Published, Shown, Valid
    <3>2. pc'["main"] \in {"return", "tc_unlock"} => Shown(fr["main"])'
      <4> SUFFICES ASSUME pc'["main"] \in {"return", "tc_unlock"} PROVE Shown(fr["main"])'
        OBVIOUS
      <4>1. fr["main"] # NULL /\ pc["main"] \in {"return", "tc_unlock"}
        BY DEF IInv, Locals, InHand, Ctx
      <4>2. img'[fr["main"]] = img[fr["main"]]
        BY <2>2, <2>4, <4>1
      <4> QED BY <2>1, <4>1, <4>2 DEF Published, Shown, Valid
    <3> QED BY <2>1, <3>1, <3>2 DEF Published
  <2>10. News'
    <3>1. ASSUME pending # NULL PROVE Valid(pending)' /\ Newer(pending)'
      <4>1. img'[pending] = img[pending] /\ Newer(pending) /\ Valid(pending)
        BY <2>2, <2>4, <3>1 DEF News
      <4>2. \A g \in Frames : g # pending /\ g # fr'["isr"] => img'[g].ct < img[pending].ct
        <5> SUFFICES ASSUME NEW g \in Frames, g # pending, g # fr'["isr"]
                     PROVE  img'[g].ct < img[pending].ct
          OBVIOUS
        <5>1. g # ext /\ g # fr["isr"]
          BY <1>1, <2>1, ConstantsAssumption
        <5>2. img'[g] = img[g]
          BY <2>2, <5>1
        <5> QED BY <4>1, <5>1, <5>2 DEF Newer
      <4> QED BY <4>1, <4>2 DEF Newer, Valid
    <3>2. ASSUME pc'["isr"] = "nextframe" PROVE Newer(fr["isr"])'
      <4>1. Stamp > now
        BY <2>1, <2>3, <3>2
      <4>2. \A c \in Clients : prev[c] < Stamp
        BY <1>1, <2>3, <2>7, <4>1 DEF Past
      <4>3. \A g \in Frames : g # ext => img'[g].ct < Stamp
        BY <1>1, <2>2, <2>3, <2>7, <4>1 DEF Past
      <4>4. Stamp > 0
        BY <1>1, <2>3, <4>1
      <4> QED BY <2>1, <2>2, <4>2, <4>3, <4>4 DEF Newer
    <3> QED BY <3>1, <3>2 DEF News
  <2>11. Chosen' /\ ClientsHoldPublished'
    BY <2>2, <2>5, <2>6, ServeKept
  <2> QED BY <2>8, <2>9, <2>10, <2>11
<1> QED BY <1>2, <1>3

\* Every transfer ends in one of three ways: the frame is over, the buffer is full, or
\* the camera is stopped, once it is disabled.
LEMMA TransferDated ==
    ASSUME IInv, Dated, AskedFor', FrameEnd \/ DmaFull \/ StopCapture, dma # NULL PROVE Dated'
<1> USE DEF clientVars, walkVars, scanVars, At
<1>1. UNCHANGED <<pending, prev, frame, got, cs, try>>
  BY DEF FrameEnd, DmaFull, StopCapture
<1>2. CASE FrameEnd
  <2>1. PICK len \in Length : DmaTc(len, FALSE) /\ pc' = [pc EXCEPT !["isr"] = AfterTc(len)]
    BY <1>2 DEF FrameEnd, Goto, Length
  <2>2. pc'["isr"] = AfterTc(len) /\ pc'["main"] = pc["main"]
    BY <2>1 DEF IInv, Control, Ctx
  <2> QED BY <1>1, <1>2, <2>1, <2>2, CaptureDated DEF FrameEnd
<1>3. CASE DmaFull
  <2>1. PICK len \in Length : DmaTc(len, TRUE) /\ pc' = [pc EXCEPT !["isr"] = AfterTc(len)]
    <3>1. \E len \in Length : DmaTc(len, TRUE) /\ Goto("isr", AfterTc(len))
      BY <1>3, ConstantsAssumption DEF DmaFull, Length
    <3> QED BY <3>1 DEF Goto
  <2>2. pc'["isr"] = AfterTc(len) /\ pc'["main"] = pc["main"]
    BY <2>1 DEF IInv, Control, Ctx
  <2> QED BY <1>1, <1>3, <2>1, <2>2, CaptureDated DEF DmaFull
<1>4. CASE StopCapture
  <2>1. PICK len \in Length : /\ DmaTc(len, FALSE)
                              /\ pc' = [pc EXCEPT !["isr"] = AfterTc(len), !["main"] = "clear"]
    BY <1>4 DEF StopCapture, Length
  <2>2. pc'["isr"] = AfterTc(len) /\ pc'["main"] = "clear" /\ pc["isr"] = "off" /\ ~enabled
    BY <1>4, <2>1 DEF StopCapture, IInv, Control, Camera, Ctx
  <2> QED BY <1>1, <2>1, <2>2, CaptureDated
<1> QED BY <1>2, <1>3, <1>4

-----------------------------------------------------------------------------
\* The invariant holds.

\* At the start every frame is clear and every time 0.
LEMMA InitDated == ASSUME Init PROVE Dated
<1> USE DEF Init
<1>1. Past /\ Chosen /\ News /\ ClientsHoldPublished /\ AskedFor
  BY DEF Past, Chosen, News, ClientsHoldPublished, AskedFor, Blank, Ctx
<1>2. Published
  BY DEF Published, Shown, Valid, Blank, Ctx
<1> QED BY <1>1, <1>2 DEF Dated

\* The walk over the clients, in either context.
LEMMA AssignStepDated ==
    ASSUME IInv, Dated, AskedFor', NEW x \in Ctx, AssignStep(x) PROVE Dated'
BY QuietSteps, QuietDated, TryDated, TakeDated, StoreDated DEF AssignStep

\* What either context does with the frame in its hands.
LEMMA FrameStepDated ==
    ASSUME IInv, Dated, AskedFor', NEW x \in Ctx, FrameStep(x) PROVE Dated'
BY QuietSteps, QuietDated, LockDated, SnapDated, BrokenDated, UnlockDated DEF FrameStep

\* The service loop.
LEMMA ServiceStepDated ==
    ASSUME IInv, Dated, AskedFor', ServiceStep PROVE Dated'
<1>1. CASE ClearStep
  BY <1>1, QuietService, QuietDated, LockDated, BrokenDated, UnlockDated DEF ClearStep, Ctx
<1>2. CASE StopCapture
  BY <1>2, QuietService, QuietDated, TransferDated
<1>3. CASE ServiceBegin
  BY <1>3, QuietService, QuietDated, TakePendingDated
<1>4. CASE ProcessRawFrame
  BY <1>4, ProcessDated
<1>5. CASE AssignAgain \/ StreamOutput \/ CheckIdle \/ CheckActive
  BY <1>5, QuietService, QuietDated
<1> QED BY <1>1, <1>2, <1>3, <1>4, <1>5 DEF ServiceStep

\* Every step keeps the invariant.
LEMMA NextDated ==
    ASSUME NoWholeOverrun, IInv, Dated, Next PROVE Dated'
<1>1. AskedFor'
  BY NextKeeps, ContractKeepsAskedFor DEF Dated
<1>2. ASSUME NEW c \in Clients, ClientStep(c) PROVE Dated'
  BY <1>1, <1>2, AcceptDated, GiveBackDated, QuietService, QuietDated DEF ClientStep
<1>3. ASSUME NEW x \in Ctx, Context(x) PROVE Dated'
  BY <1>1, <1>3, AssignStepDated, FrameStepDated DEF Context
<1>4. CASE FrameEnd \/ DmaFull
  <2>1. DmaFull => dma # NULL
    BY DEF DmaFull
  <2> QED BY <1>1, <1>4, <2>1, QuietService, QuietDated, TransferDated
<1>5. CASE NextFrame
  BY <1>1, <1>5, NextFrameDated
<1>6. CASE ServiceStep
  BY <1>1, <1>6, ServiceStepDated
<1> QED BY <1>2, <1>3, <1>4, <1>5, <1>6 DEF Next

\* So does a step that changes nothing.
LEMMA StutterDated ==
    ASSUME IInv, Dated, UNCHANGED vars PROVE Dated'
<1> USE DEF vars, frameVars, cameraVars, clientVars, walkVars, scanVars
<1>1. Quiet
  BY DEF Quiet
<1>2. AskedFor'
  BY DEF Dated, AskedFor
<1> QED BY <1>1, <1>2, QuietDated

\* The invariant holds in every reachable state.
THEOREM DatedInvariance == NoWholeOverrun => (Spec => [](IInv /\ Dated))
<1> SUFFICES ASSUME NoWholeOverrun PROVE Spec => [](IInv /\ Dated)
  OBVIOUS
<1>1. (IInv /\ Dated) /\ [Next]_vars => (IInv /\ Dated)'
  BY NextIInv, StutterIInv, NextDated, StutterDated
<1>2. Init => IInv /\ Dated
  BY InitIInv, InitDated
<1> QED BY <1>1, <1>2, PTL DEF Spec

-----------------------------------------------------------------------------
\* What it says.

\* The pending frame is whole, not yet published and newer than all any client was
\* given: the exchange of NextFrame drops the older frame.
THEOREM PendingNewest == NoWholeOverrun => (Spec => []PendingIsNews)
<1>1. IInv /\ Dated => PendingIsNews
  BY DEF Dated, News, Newer, PendingIsNews
<1> QED BY <1>1, DatedInvariance, PTL

\* What a client has in hand is whole, carries its header and is the capture recorded
\* for it.
THEOREM FramesHeldPublished == NoWholeOverrun => (Spec => []ClientsHoldPublished)
<1>1. IInv /\ Dated => ClientsHoldPublished
  BY DEF Dated
<1> QED BY <1>1, DatedInvariance, PTL

\* Only StoreFrame gives a client a frame.
LEMMA OthersGiveNothing ==
    ASSUME IInv, Next, \A x \in Ctx : ~StoreFrame(x)
    PROVE  \A c \in Clients : frame'[c] # NULL => frame'[c] = frame[c]
<1> USE DEF clientVars, IInv, Types
<1>1. ASSUME NEW c \in Clients, ClientStep(c)
      PROVE  \A d \in Clients : frame'[d] # NULL => frame'[d] = frame[d]
  BY <1>1 DEF ClientStep, Accept, RecvRequest, FrameSent, CloseConn, ReleaseFrame
<1>2. ASSUME NEW x \in Ctx, Context(x) PROVE UNCHANGED frame
  BY <1>2, NothingFoundKeeps
     DEF Context, AssignStep, AssignClient, AssignDone, GetLatestSkip, GetLatestTry,
         GetLatestCas, FrameStep, GetIdleSort, GetIdleSkip, GetIdleTry, GetIdleNone,
         GetIdleCas, DoSnap, RecvBroken, ReturnIdle
<1>3. CASE FrameEnd \/ DmaFull \/ NextFrame
  BY <1>3 DEF FrameEnd, DmaFull, NextFrame
<1>4. CASE ServiceStep
  BY <1>4 DEF ServiceStep, ServiceBegin, ProcessRawFrame, AssignAgain, StreamOutput,
              CheckIdle, StopCapture, ClearStep, ClearPool, ClearTry, ClearEnd, ClearCas,
              ClearWipe, ClearUnlock, CheckActive
<1> QED BY <1>1, <1>2, <1>3, <1>4 DEF Next

\* No client is given a frame twice, nor an older one after a newer: the search, the
\* exchange and the store are three steps, and the frame chosen stays newer than the
\* client's last through all of them.
THEOREM NewerFramesOnly == NoWholeOverrun => (Spec => NewerEachTime)
<1> SUFFICES ASSUME NoWholeOverrun PROVE Spec => NewerEachTime
  OBVIOUS
<1> DEFINE Given == \A c \in Clients : frame[c] = NULL /\ frame'[c] # NULL => prev'[c] > prev[c]
<1>1. (IInv /\ Dated) /\ [Next]_vars => [Given]_vars
  <2>1. ASSUME IInv, Dated, Next PROVE Given
    <3>1. AskedFor'
      BY <2>1, NextKeeps, ContractKeepsAskedFor DEF Dated
    <3>2. ASSUME NEW x \in Ctx, StoreFrame(x) PROVE Given
      BY <2>1, <3>1, <3>2, StoreDated
    <3>3. CASE \A x \in Ctx : ~StoreFrame(x)
      BY <2>1, <3>3, OthersGiveNothing
    <3> QED BY <3>2, <3>3
  <2> QED BY <2>1
<1> QED BY <1>1, DatedInvariance, PTL DEF Spec, NewerEachTime
=============================================================================

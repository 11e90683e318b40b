---------------------------- MODULE ClientFrames ----------------------------
(***************************************************************************)
(* What the frame path may expect of a connection, and a connection of the *)
(* frame path: who is connected, who waits for frames, who has one.        *)
(* FramePipeline (which sees the frames and no TCP) and ClientConn (which  *)
(* sees the TCP side and no frame counters) both implement it.             *)
(***************************************************************************)
CONSTANTS Clients, Frames, NULL

VARIABLES
    st,      \* "free", "request" (none yet), "stream" (gets frames), "closing"
    frame    \* frame[c]: the frame the connection has

vars == <<st, frame>>

Init ==
    /\ st = [c \in Clients |-> "free"]
    /\ frame = [c \in Clients |-> NULL]

\* One connection's part of a step.

\* The accept handler.
Open(c) == st[c] = "free" /\ st'[c] = "request" /\ frame'[c] = NULL

\* The one request a connection may make.
Ask(c) ==
    /\ st[c] = "request" /\ st'[c] \in {"stream", "closing"}
    /\ frame'[c] = NULL

\* A frame is given to a connection that waits for one ...
Give(c) ==
    /\ st[c] = "stream" /\ frame[c] = NULL
    /\ st'[c] = "stream" /\ frame'[c] \in Frames

\* ... and given back by one that has one.
Done(c) ==
    /\ st[c] = "stream" /\ frame[c] # NULL
    /\ st'[c] \in {"stream", "closing"} /\ frame'[c] = NULL

\* The connection fails; it keeps its frame until it is closed.
Fail(c) == st[c] = "stream" /\ st'[c] = "closing" /\ frame'[c] = frame[c]

\* A connection closed from any state gives its frame back.
Close(c) == st[c] # "free" /\ st'[c] = "free" /\ frame'[c] = NULL

Step(c) ==
    \/ Open(c) \/ Ask(c) \/ Give(c) \/ Done(c) \/ Fail(c) \/ Close(c)
    \/ st'[c] = st[c] /\ frame'[c] = frame[c]

\* One pass over the list of clients may serve several.
Next ==
    /\ DOMAIN st' = Clients /\ DOMAIN frame' = Clients
    /\ \A c \in Clients : Step(c)

Spec == Init /\ [][Next]_vars
=============================================================================

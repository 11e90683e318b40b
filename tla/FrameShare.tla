----------------------------- MODULE FrameShare -----------------------------
(***************************************************************************)
(* What the frame pool promises: a frame is either written by one owner    *)
(* that has it to itself, or read by up to MAX clients while nobody writes *)
(* it.  FramePipeline implements this with one counter per frame.          *)
(***************************************************************************)
EXTENDS Integers, FiniteSets

CONSTANTS Frames, Clients, MAX, Contents

VARIABLES
    writer,   \* the frames that are locked
    readers,  \* readers[f]: the clients that have acquired f
    data      \* data[f]: what is in f

vars == <<writer, readers, data>>

Init ==
    /\ writer = {}
    /\ readers = [f \in Frames |-> {}]
    /\ data \in [Frames -> Contents]

\* Mjpegd_Frame_TryLock, when it succeeds.
Lock(f) ==
    /\ f \notin writer /\ readers[f] = {}
    /\ writer' = writer \cup {f}
    /\ UNCHANGED <<readers, data>>

\* Mjpegd_Frame_Unlock.
Unlock(f) ==
    /\ f \in writer
    /\ writer' = writer \ {f}
    /\ UNCHANGED <<readers, data>>

\* Any of the functions of mjpegd_frame.c: only the owner calls them.
Write(f) ==
    /\ f \in writer
    /\ data' \in [Frames -> Contents]
    /\ \A g \in Frames \ {f} : data'[g] = data[g]
    /\ UNCHANGED <<writer, readers>>

\* Mjpegd_Frame_TryAcquire, when it succeeds.
Acquire(f, c) ==
    /\ f \notin writer /\ c \notin readers[f] /\ Cardinality(readers[f]) < MAX
    /\ readers' = [readers EXCEPT ![f] = @ \cup {c}]
    /\ UNCHANGED <<writer, data>>

\* Mjpegd_Frame_Release.
Release(f, c) ==
    /\ c \in readers[f]
    /\ readers' = [readers EXCEPT ![f] = @ \ {c}]
    /\ UNCHANGED <<writer, data>>

Next ==
    \E f \in Frames :
        \/ Lock(f) \/ Unlock(f) \/ Write(f)
        \/ \E c \in Clients : Acquire(f, c) \/ Release(f, c)

Spec == Init /\ [][Next]_vars
=============================================================================

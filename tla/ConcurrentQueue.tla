--------------------------- MODULE ConcurrentQueue ---------------------------
(***************************************************************************)
(* bsp/sys/concurrent_queue.c: TryPush and TryPop, split at every access   *)
(* to the three indices and the slots. Between any two steps of a call     *)
(* another may run: pushers and poppers are tasks and interrupts in any    *)
(* number and order.                                                       *)
(***************************************************************************)
EXTENDS Integers, Sequences, FiniteSets

CONSTANTS Pushers, Poppers,     \* those who call TryPush and TryPop
          Values,               \* CONCURRENT_QUEUE_STORAGE_T
          MemLen,               \* mem_len
          IndexRange,           \* indices are unsigned: they count modulo this
          Starts,               \* where the indices may stand at first
          MaxCalls,             \* bound: calls of TryPush
          NULL

(* A power of two, like the length, so that the remainder of a wrapped     *)
(* index is still its slot. No call may be overtaken by a whole round of   *)
(* the index ("it should be as large as possible to avoid ABA problem").   *)
(* A thread is a call, of TryPush or of TryPop.                            *)
ASSUME SizesAssumption == /\ MemLen \in Nat \ {0}
                          /\ IndexRange \in Nat \ {0}
                          /\ IndexRange % MemLen = 0
                          /\ IndexRange > MemLen
                          /\ MaxCalls \in Nat
                          /\ MaxCalls < IndexRange
                          /\ Starts \subseteq 0 .. IndexRange - 1
                          /\ NULL \notin Values \cup Pushers
                          /\ Pushers \cap Poppers = {}

Index == 0 .. IndexRange - 1

VARIABLES r_idx, w_idx, l_idx,      \* next to pop, next to claim, filled
          mem,                      \* the slots
          allow_push_preempt,       \* the mode, fixed when the queue is made
          pc,                       \* where each call stands
          snap_r, snap_l, snap_w,   \* its copies of the indices, while they matter
          val,                      \* a pusher's argument, what a popper read
          calls                     \* pushes still allowed

shared == <<r_idx, w_idx, l_idx, mem>>
local  == <<pc, snap_r, snap_l, snap_w, val>>
vars   == <<shared, local, allow_push_preempt, calls>>

Threads == Pushers \cup Poppers

IncWide(i) == i + 1

Inc(i)      == (i + 1) % IndexRange
Minus(i, j) == (i - j) % IndexRange
Slot(i)    == i % MemLen

PushAt == {"idle", "readW", "readR", "cas", "write", "commit"}
PopAt  == {"idle", "readR", "readL", "readW", "slot", "cas", "popped"}

TypeOK == /\ r_idx \in Index /\ w_idx \in Index /\ l_idx \in Index
          /\ mem \in [0 .. MemLen - 1 -> Values \cup {NULL}]
          /\ allow_push_preempt \in BOOLEAN
          /\ \A p \in Pushers : pc[p] \in PushAt
          /\ \A c \in Poppers : pc[c] \in PopAt
          /\ snap_r \in [Poppers -> Index]
          /\ snap_l \in [Poppers -> Index]
          /\ snap_w \in [Pushers -> Index]
          /\ val \in [Threads -> Values \cup {NULL}]
          /\ calls \in 0 .. MaxCalls

Init == /\ r_idx \in Starts
        /\ w_idx = r_idx
        /\ l_idx = r_idx
        /\ mem = [s \in 0 .. MemLen - 1 |-> NULL]
        /\ allow_push_preempt \in BOOLEAN
        /\ pc = [t \in Threads |-> "idle"]
        /\ snap_r = [c \in Poppers |-> 0]
        /\ snap_l = [c \in Poppers |-> 0]
        /\ snap_w = [p \in Pushers |-> 0]
        /\ val = [t \in Threads |-> NULL]
        /\ calls = MaxCalls

-----------------------------------------------------------------------------

(* A call moves on; a call that returns leaves nothing behind.             *)
Go(t, from, to) == /\ pc[t] = from
                   /\ pc' = [pc EXCEPT ![t] = to]

TryPush(p, v) == /\ Go(p, "idle", "readW")
                 /\ calls > 0
                 /\ calls' = calls - 1
                 /\ val' = [val EXCEPT ![p] = v]
                 /\ UNCHANGED <<shared, snap_r, snap_l, snap_w, allow_push_preempt>>

PushReadW(p) == /\ Go(p, "readW", "readR")
                /\ snap_w' = [snap_w EXCEPT ![p] = w_idx]
                /\ UNCHANGED <<shared, snap_r, snap_l, val, allow_push_preempt, calls>>

PushDone(p) == /\ snap_w' = [snap_w EXCEPT ![p] = 0]
               /\ val' = [val EXCEPT ![p] = NULL]
               /\ UNCHANGED <<snap_r, snap_l>>

FullLate(w) == Minus(w, r_idx) > MemLen

(* The copy of w_idx is older than r_idx: if others pushed and popped past *)
(* it in between, the difference wraps and a queue with room is refused.   *)
Full(w) == Minus(w, r_idx) >= MemLen

PushReadR(p) == /\ \/ /\ Full(snap_w[p])
                      /\ Go(p, "readR", "idle")
                      /\ PushDone(p)
                   \/ /\ ~Full(snap_w[p])
                      /\ Go(p, "readR", "cas")
                      /\ UNCHANGED <<snap_r, snap_l, snap_w, val>>
                /\ UNCHANGED <<shared, allow_push_preempt, calls>>

(* The exchange claims the slot if nobody else claimed it first.           *)
PushCas(p) == /\ \/ /\ w_idx = snap_w[p]
                    /\ Go(p, "cas", "write")
                    /\ w_idx' = Inc(w_idx)
                 \/ /\ w_idx # snap_w[p]
                    /\ Go(p, "cas", "readW")
                    /\ UNCHANGED w_idx
              /\ UNCHANGED <<r_idx, l_idx, mem, snap_r, snap_l, snap_w, val,
                             allow_push_preempt, calls>>

PushWrite(p) == /\ Go(p, "write", "commit")
                /\ mem' = [mem EXCEPT ![Slot(snap_w[p])] = val[p]]
                /\ UNCHANGED <<r_idx, w_idx, l_idx, snap_r, snap_l, snap_w, val,
                               allow_push_preempt, calls>>

MayCommitNext(p) == allow_push_preempt \/ l_idx = Inc(snap_w[p])

(* With preemption any pusher counts its slot; without it pushers count    *)
(* them in the order of the claims, and spin until it is their turn.       *)
MayCommit(p) == allow_push_preempt \/ l_idx = snap_w[p]

PushCommit(p) == /\ MayCommit(p)
                 /\ Go(p, "commit", "idle")
                 /\ l_idx' = Inc(l_idx)
                 /\ PushDone(p)
                 /\ UNCHANGED <<r_idx, w_idx, mem, allow_push_preempt, calls>>

-----------------------------------------------------------------------------

TryPop(c) == /\ Go(c, "idle", "readR")
             /\ UNCHANGED <<shared, snap_r, snap_l, snap_w, val, allow_push_preempt,
                            calls>>

PopReadR(c) == /\ Go(c, "readR", "readL")
               /\ snap_r' = [snap_r EXCEPT ![c] = r_idx]
               /\ UNCHANGED <<shared, snap_l, snap_w, val, allow_push_preempt, calls>>

PopReadL(c) == /\ Go(c, "readL", "readW")
               /\ snap_l' = [snap_l EXCEPT ![c] = l_idx]
               /\ UNCHANGED <<shared, snap_r, snap_w, val, allow_push_preempt, calls>>

UnfilledUnseen(l) == FALSE

(* The claims are read last: only then do equal copies mean that every     *)
(* claim had been filled at one moment.                                    *)
Unfilled(l) == allow_push_preempt /\ l # w_idx

PopReadW(c) ==
  LET refused == Unfilled(snap_l[c]) \/ snap_r[c] = snap_l[c]
  IN  /\ \/ /\ refused
            /\ Go(c, "readW", "idle")
            /\ snap_r' = [snap_r EXCEPT ![c] = 0]
         \/ /\ ~refused
            /\ Go(c, "readW", "slot")
            /\ UNCHANGED snap_r
      /\ snap_l' = [snap_l EXCEPT ![c] = 0]
      /\ UNCHANGED <<shared, snap_w, val, allow_push_preempt, calls>>

PopSlot(c) == /\ Go(c, "slot", "cas")
              /\ val' = [val EXCEPT ![c] = mem[Slot(snap_r[c])]]
              /\ UNCHANGED <<shared, snap_r, snap_l, snap_w, allow_push_preempt, calls>>

StillThereBlind(c) == TRUE

(* The slot was read before the exchange: what was read counts only if     *)
(* nobody popped the slot, and so nobody refilled it, meanwhile.           *)
StillThere(c) == r_idx = snap_r[c]

PopCas(c) == /\ \/ /\ StillThere(c)
                   /\ Go(c, "cas", "popped")
                   /\ r_idx' = Inc(snap_r[c])
                   /\ UNCHANGED val
                \/ /\ ~StillThere(c)
                   /\ Go(c, "cas", "readR")
                   /\ val' = [val EXCEPT ![c] = NULL]
                   /\ UNCHANGED r_idx
             /\ snap_r' = [snap_r EXCEPT ![c] = 0]
             /\ UNCHANGED <<w_idx, l_idx, mem, snap_l, snap_w, allow_push_preempt, calls>>

PopReturn(c) == /\ Go(c, "popped", "idle")
                /\ val' = [val EXCEPT ![c] = NULL]
                /\ UNCHANGED <<shared, snap_r, snap_l, snap_w, allow_push_preempt, calls>>

(* Concurrent_Queue_Clear runs with interrupts off and, in this program,   *)
(* before any pusher or popper has been started.                           *)
Clear == /\ \A t \in Threads : pc[t] = "idle"
         /\ r_idx' = 0
         /\ w_idx' = 0
         /\ l_idx' = 0
         /\ UNCHANGED <<mem, local, allow_push_preempt, calls>>

PushStep(p) == \/ PushReadW(p)
               \/ PushReadR(p)
               \/ PushCas(p)
               \/ PushWrite(p)
               \/ PushCommit(p)

PopStep(c) == \/ PopReadR(c)
              \/ PopReadL(c)
              \/ PopReadW(c)
              \/ PopSlot(c)
              \/ PopCas(c)
              \/ PopReturn(c)

Next == \/ \E p \in Pushers : PushStep(p) \/ \E v \in Values : TryPush(p, v)
        \/ \E c \in Poppers : PopStep(c) \/ TryPop(c)
        \/ Clear

Spec == Init /\ [][Next]_vars

(* Every thread that has begun a call is given the processor again.        *)
Fairness == /\ \A p \in Pushers : WF_vars(PushStep(p))
            /\ \A c \in Poppers : WF_vars(PopStep(c))

FairSpec == Spec /\ Fairness

-----------------------------------------------------------------------------

(* The claimed slots, from the oldest.                                     *)
Size == Minus(w_idx, r_idx)

IndexAt(i) == (r_idx + i - 1) % IndexRange

Claimant(i) == {p \in Pushers : /\ pc[p] \in {"write", "commit"}
                                /\ snap_w[p] = IndexAt(i)}

PlaceAt(i) ==
  IF Claimant(i) = {}
  THEN [val |-> mem[Slot(IndexAt(i))], by |-> NULL]
  ELSE LET p == CHOOSE q \in Claimant(i) : TRUE
       IN  [val |-> val[p], by |-> p]

Fifo == INSTANCE ClaimQueue
          WITH queue <- [i \in 1 .. Size |-> PlaceAt(i)],
               got <- [c \in Poppers |-> IF pc[c] = "popped" THEN val[c] ELSE NULL],
               Capacity <- MemLen

(* The indices keep their order around the wrap: what has been popped had  *)
(* been filled, and no more is claimed than there are slots.               *)
IndexOrder == /\ Minus(l_idx, r_idx) =< Size
              /\ Size =< MemLen
              /\ Minus(w_idx, l_idx)
                   = Cardinality({p \in Pushers : pc[p] \in {"write", "commit"}})

(* The queue is the bounded FIFO its header calls it, whatever the         *)
(* interleaving and in both modes (concurrent_queue.h:6).                  *)
IsFifo == Fifo!Spec

(* A pop says "empty" only if there was a moment at which nothing that had *)
(* been filled was left (TryPop, line 105).                                *)
EmptyIsTrue == [][\A c \in Poppers :
                    PopReadL(c) /\ snap_r[c] = l_idx => r_idx = l_idx]_vars

(* Every claim is filled in the end: no pusher spins for ever in TryPush   *)
(* as long as the pushers before it run (line 81).                         *)
ClaimsFilled == \A p \in Pushers : pc[p] = "write" ~> pc[p] = "idle"
=============================================================================

----------------------- MODULE ConcurrentQueueProofs -----------------------
(***************************************************************************)
(* Proofs about ConcurrentQueue: for any number of pushers and poppers,    *)
(* any power-of-two or other length that divides the range of the indices, *)
(* both modes, and any run of calls shorter than a round of the index.     *)
(***************************************************************************)
EXTENDS ConcurrentQueue, FiniteSetTheorems, SequenceTheorems, TLAPS

-----------------------------------------------------------------------------
\* Arithmetic of the wrapping indices.

\* A remainder is below its divisor.
LEMMA RemainderRange == ASSUME NEW n \in Nat \ {0}, NEW a \in Int PROVE a % n \in 0 .. n - 1
OBVIOUS

\* A number below the divisor is its own remainder.
LEMMA RemainderSame == ASSUME NEW n \in Nat \ {0}, NEW a \in 0 .. n - 1 PROVE a % n = a
OBVIOUS

\* A divisor added changes no remainder.
LEMMA RemainderAbove ==
    ASSUME NEW n \in Nat \ {0}, NEW a \in 0 .. n - 1 PROVE (a + n) % n = a
OBVIOUS

\* Nor does a divisor taken away.
LEMMA RemainderBelow ==
    ASSUME NEW n \in Nat \ {0}, NEW a \in 0 .. n - 1 PROVE (a - n) % n = a
OBVIOUS

\* The index after the last is the first.
LEMMA IncIs ==
    ASSUME NEW i \in Index
    PROVE  Inc(i) \in Index /\ Inc(i) = IF i = IndexRange - 1 THEN 0 ELSE i + 1
<1>1. IndexRange \in Nat \ {0} /\ i \in 0 .. IndexRange - 1
  BY SizesAssumption DEF Index
<1>2. CASE i = IndexRange - 1
  <2>1. i + 1 = 0 + IndexRange /\ 0 \in 0 .. IndexRange - 1
    BY <1>1, <1>2
  <2> QED BY <1>1, <1>2, <2>1, RemainderAbove DEF Inc, Index
<1>3. CASE i # IndexRange - 1
  <2>1. i + 1 \in 0 .. IndexRange - 1
    BY <1>1, <1>3
  <2> QED BY <1>1, <1>3, <2>1, RemainderSame DEF Inc, Index
<1> QED BY <1>2, <1>3

\* The difference of two indices counts from the second up to the first, around the
\* wrap.
LEMMA MinusIs ==
    ASSUME NEW i \in Index, NEW j \in Index
    PROVE  /\ Minus(i, j) \in Index
           /\ Minus(i, j) = IF i >= j THEN i - j ELSE i - j + IndexRange
<1>1. IndexRange \in Nat \ {0} /\ i \in 0 .. IndexRange - 1 /\ j \in 0 .. IndexRange - 1
  BY SizesAssumption DEF Index
<1>2. CASE i >= j
  <2>1. i - j \in 0 .. IndexRange - 1
    BY <1>1, <1>2
  <2> QED BY <1>1, <1>2, <2>1, RemainderSame DEF Minus, Index
<1>3. CASE ~(i >= j)
  <2> DEFINE d == i - j + IndexRange
  <2>1. d \in 0 .. IndexRange - 1 /\ i - j = d - IndexRange
    BY <1>1, <1>3
  <2> HIDE DEF d
  <2>2. (i - j) % IndexRange = d
    BY <1>1, <2>1, RemainderBelow
  <2> QED BY <1>3, <2>1, <2>2 DEF Minus, Index, d
<1> QED BY <1>2, <1>3

\* The distance from one index to another: none only to itself, and a step of either
\* end changes it by one.
LEMMA Distance ==
    ASSUME NEW i \in Index, NEW j \in Index
    PROVE  /\ Minus(i, j) \in 0 .. IndexRange - 1
           /\ Minus(i, j) = 0 <=> i = j
           /\ Minus(i, j) < IndexRange - 1 => Minus(Inc(i), j) = Minus(i, j) + 1
           /\ i # j => Minus(i, Inc(j)) = Minus(i, j) - 1
<1>1. IndexRange \in Nat \ {0} /\ i \in 0 .. IndexRange - 1 /\ j \in 0 .. IndexRange - 1
  BY SizesAssumption DEF Index
<1>2. /\ Inc(i) \in 0 .. IndexRange - 1 /\ Inc(i) = IF i = IndexRange - 1 THEN 0 ELSE i + 1
      /\ Inc(j) \in 0 .. IndexRange - 1 /\ Inc(j) = IF j = IndexRange - 1 THEN 0 ELSE j + 1
      /\ Minus(i, j) = IF i >= j THEN i - j ELSE i - j + IndexRange
  BY IncIs, MinusIs DEF Index
<1>3. /\ Minus(Inc(i), j) = IF Inc(i) >= j THEN Inc(i) - j ELSE Inc(i) - j + IndexRange
      /\ Minus(i, Inc(j)) = IF i >= Inc(j) THEN i - Inc(j) ELSE i - Inc(j) + IndexRange
  BY <1>2, MinusIs DEF Index
<1> QED BY <1>1, <1>2, <1>3

\* Distances add up, less a round.
LEMMA DistancesAdd ==
    ASSUME NEW i \in Index, NEW j \in Index, NEW k \in Index
    PROVE  Minus(i, k) = IF Minus(i, j) + Minus(j, k) < IndexRange
                         THEN Minus(i, j) + Minus(j, k)
                         ELSE Minus(i, j) + Minus(j, k) - IndexRange
<1>1. /\ IndexRange \in Nat \ {0}
      /\ i \in 0 .. IndexRange - 1 /\ j \in 0 .. IndexRange - 1 /\ k \in 0 .. IndexRange - 1
  BY SizesAssumption DEF Index
<1>2. /\ Minus(i, j) = IF i >= j THEN i - j ELSE i - j + IndexRange
      /\ Minus(j, k) = IF j >= k THEN j - k ELSE j - k + IndexRange
      /\ Minus(i, k) = IF i >= k THEN i - k ELSE i - k + IndexRange
  BY MinusIs
<1> QED BY <1>1, <1>2

-----------------------------------------------------------------------------
\* Types.

Types == TypeOK /\ pc \in [Threads -> PushAt \cup PopAt]

\* A call moves from one point to the next; no other call moves with it.
LEMMA GoIs ==
    ASSUME Types, NEW t \in Threads, NEW from, NEW to \in PushAt \cup PopAt, Go(t, from, to)
    PROVE  /\ pc[t] = from /\ pc'[t] = to /\ \A u \in Threads \ {t} : pc'[u] = pc[u]
           /\ pc' \in [Threads -> PushAt \cup PopAt]
           /\ t \in Pushers => t \notin Poppers /\ \A c \in Poppers : pc'[c] = pc[c]
           /\ t \in Poppers => t \notin Pushers /\ \A p \in Pushers : pc'[p] = pc[p]
<1>1. /\ pc[t] = from /\ pc'[t] = to /\ \A u \in Threads \ {t} : pc'[u] = pc[u]
      /\ pc' \in [Threads -> PushAt \cup PopAt]
  BY DEF Go, Types
<1>2. /\ t \in Pushers => t \notin Poppers
      /\ t \in Poppers => t \notin Pushers
  BY SizesAssumption
<1> QED BY <1>1, <1>2 DEF Threads

\* Every index has a slot.
LEMMA SlotIs == \A i \in Int : Slot(i) \in 0 .. MemLen - 1
BY SizesAssumption, RemainderRange DEF Slot

\* A push keeps the types.
LEMMA PushTypes ==
    ASSUME Types, NEW p \in Pushers, PushStep(p) \/ \E v \in Values : TryPush(p, v)
    PROVE  Types'
<1>0. p \in Threads /\ 0 \in Index /\ Index \subseteq Int
  BY SizesAssumption DEF Threads, Index
<1>1. PICK from \in PushAt, to \in PushAt : Go(p, from, to)
  BY DEF PushStep, TryPush, PushReadW, PushReadR, PushCas, PushWrite, PushCommit, PushAt
<1>2. /\ pc' \in [Threads -> PushAt \cup PopAt]
      /\ \A q \in Pushers : pc'[q] \in PushAt
      /\ \A c \in Poppers : pc'[c] \in PopAt
  BY <1>0, <1>1, GoIs DEF Types, TypeOK, Threads
<1> USE <1>0, <1>2 DEF Types, TypeOK, shared
<1>3. CASE \E v \in Values : TryPush(p, v)
  BY <1>3, SizesAssumption DEF TryPush
<1>4. CASE PushReadW(p)
  BY <1>4 DEF PushReadW
<1>5. CASE PushReadR(p)
  BY <1>5 DEF PushReadR, PushDone
<1>6. CASE PushCas(p)
  BY <1>6, IncIs DEF PushCas
<1>7. CASE PushWrite(p)
  BY <1>7, SlotIs DEF PushWrite
<1>8. CASE PushCommit(p)
  BY <1>8, IncIs DEF PushCommit, PushDone
<1> QED BY <1>3, <1>4, <1>5, <1>6, <1>7, <1>8 DEF PushStep

\* A pop keeps the types.
LEMMA PopTypes ==
    ASSUME Types, NEW c \in Poppers, PopStep(c) \/ TryPop(c)
    PROVE  Types'
<1>0. c \in Threads /\ 0 \in Index /\ Index \subseteq Int
  BY SizesAssumption DEF Threads, Index
<1>1. PICK from \in PopAt, to \in PopAt : Go(c, from, to)
  BY DEF PopStep, TryPop, PopReadR, PopReadL, PopReadW, PopSlot, PopCas, PopReturn, PopAt
<1>2. /\ pc' \in [Threads -> PushAt \cup PopAt]
      /\ \A q \in Pushers : pc'[q] \in PushAt
      /\ \A d \in Poppers : pc'[d] \in PopAt
  BY <1>0, <1>1, GoIs DEF Types, TypeOK, Threads
<1> USE <1>0, <1>2 DEF Types, TypeOK, shared
<1>3. CASE TryPop(c)
  BY <1>3 DEF TryPop
<1>4. CASE PopReadR(c)
  BY <1>4 DEF PopReadR
<1>5. CASE PopReadL(c)
  BY <1>5 DEF PopReadL
<1>6. CASE PopReadW(c)
  BY <1>6 DEF PopReadW
<1>7. CASE PopSlot(c)
  BY <1>7, SlotIs DEF PopSlot
<1>8. CASE PopCas(c)
  BY <1>8, IncIs DEF PopCas
<1>9. CASE PopReturn(c)
  BY <1>9 DEF PopReturn
<1> QED BY <1>3, <1>4, <1>5, <1>6, <1>7, <1>8, <1>9 DEF PopStep

\* The types hold at the start and through every step.
LEMMA TypesHold == (Init => Types) /\ (Types /\ [Next]_vars => Types')
<1>0. 0 \in Index
  BY SizesAssumption DEF Index
<1>1. Init => Types
  BY <1>0, SizesAssumption DEF Init, Types, TypeOK, Index, PushAt, PopAt, Threads
<1>2. ASSUME Types, Clear PROVE Types'
  BY <1>0, <1>2 DEF Clear, Types, TypeOK, local
<1>3. ASSUME Types, UNCHANGED vars PROVE Types'
  BY <1>3 DEF Types, TypeOK, vars, shared, local
<1> QED BY <1>1, <1>2, <1>3, PushTypes, PopTypes DEF Next

\* Indices stay in range through the wrap, every call stands where its code has a step,
\* and slots and results hold values.
THEOREM QueueTypeCorrect == Spec => []TypeOK
<1>1. Types => TypeOK
  BY DEF Types
<1> QED BY <1>1, TypesHold, PTL DEF Spec

-----------------------------------------------------------------------------
\* What the copies of the indices are worth.  No call sees a full round of an index
\* go by: the claims since a copy was taken and those still to come are no more than
\* MaxCalls.

Writers  == {p \in Pushers : pc[p] \in {"write", "commit"}}
Claiming == {p \in Pushers : pc[p] \in {"readW", "readR", "cas"}}

\* Claims that may still be made.
Left == Cardinality(Claiming) + calls

Accounted ==
    /\ IsFiniteSet(Claiming) /\ IsFiniteSet(Writers)
    /\ Minus(l_idx, r_idx) + Minus(w_idx, l_idx) = Size
    /\ Size <= MemLen
    /\ Minus(w_idx, l_idx) = Cardinality(Writers)
    /\ Size + Left <= MaxCalls

\* A pusher's copy of w_idx that is still right was taken of a queue with room.
PushCopy(p) ==
    /\ pc[p] \in {"readR", "cas"} => Minus(w_idx, snap_w[p]) + Left <= MaxCalls
    /\ pc[p] = "cas" /\ snap_w[p] = w_idx => Size < MemLen

\* A popper's copy of r_idx that is still right is that of a place to pop.
PopCopy(c) ==
    /\ pc[c] \in {"readL", "readW", "slot", "cas"}
          => Minus(r_idx, snap_r[c]) + Size + Left <= MaxCalls
    /\ pc[c] = "readW" => Minus(l_idx, snap_l[c]) + Minus(w_idx, l_idx) + Left <= MaxCalls
    /\ pc[c] = "readW" /\ snap_r[c] = r_idx /\ snap_l[c] # snap_r[c] => l_idx # r_idx
    /\ pc[c] \in {"slot", "cas"} /\ snap_r[c] = r_idx => l_idx # r_idx

Counted ==
    /\ Types /\ Accounted
    /\ \A p \in Pushers : PushCopy(p)
    /\ \A c \in Poppers : PopCopy(c)

\* One element more or less counts as one.
LEMMA Joined ==
    ASSUME NEW S, IsFiniteSet(S), NEW x
    PROVE  /\ Cardinality(S) \in Nat
           /\ IsFiniteSet(S \cup {x}) /\ IsFiniteSet(S \ {x})
           /\ x \notin S => Cardinality(S \cup {x}) = Cardinality(S) + 1
           /\ x \in S => Cardinality(S) # 0 /\ Cardinality(S \ {x}) = Cardinality(S) - 1
BY FS_CardinalityType, FS_AddElement, FS_RemoveElement, FS_EmptySet

\* All that is counted is a number, below a round of the index.
LEMMA Numbers ==
    ASSUME Types, Accounted
    PROVE  /\ r_idx \in Index /\ w_idx \in Index /\ l_idx \in Index
           /\ Minus(l_idx, r_idx) \in Nat /\ Minus(w_idx, l_idx) \in Nat /\ Size \in Nat
           /\ Cardinality(Claiming) \in Nat /\ calls \in Nat /\ Left \in Nat
           /\ IndexRange \in Nat /\ MemLen \in Nat /\ MaxCalls \in Nat
           /\ MaxCalls < IndexRange /\ MemLen < IndexRange
<1>1. /\ r_idx \in Index /\ w_idx \in Index /\ l_idx \in Index /\ calls \in Nat
      /\ IndexRange \in Nat /\ MemLen \in Nat /\ MaxCalls \in Nat
      /\ MaxCalls < IndexRange /\ MemLen < IndexRange
  BY SizesAssumption DEF Types, TypeOK
<1>2. Minus(l_idx, r_idx) \in Nat /\ Minus(w_idx, l_idx) \in Nat /\ Size \in Nat
  BY <1>1, Distance DEF Size
<1>3. Cardinality(Claiming) \in Nat
  BY Joined DEF Accounted
<1> QED BY <1>1, <1>2, <1>3 DEF Left

\* Which sets a pusher belongs to before and after a step.
LEMMA PushSets ==
    ASSUME Types, NEW p \in Pushers, NEW from, NEW to \in PushAt, Go(p, from, to)
    PROVE  /\ p \in Claiming <=> from \in {"readW", "readR", "cas"}
           /\ p \in Writers <=> from \in {"write", "commit"}
           /\ Claiming' = IF to \in {"readW", "readR", "cas"} THEN Claiming \cup {p}
                          ELSE Claiming \ {p}
           /\ Writers' = IF to \in {"write", "commit"} THEN Writers \cup {p} ELSE Writers \ {p}
           /\ pc[p] = from /\ pc'[p] = to
           /\ \A q \in Pushers \ {p} : pc'[q] = pc[q]
           /\ \A c \in Poppers : pc'[c] = pc[c]
<1>1. /\ pc[p] = from /\ pc'[p] = to
      /\ \A q \in Pushers \ {p} : pc'[q] = pc[q]
      /\ \A c \in Poppers : pc'[c] = pc[c]
  BY GoIs DEF Threads
<1> QED BY <1>1 DEF Claiming, Writers

\* A pop changes nothing about the pushers.
LEMMA PopSets ==
    ASSUME Types, NEW c \in Poppers, NEW from, NEW to \in PopAt, Go(c, from, to)
    PROVE  /\ Claiming' = Claiming /\ Writers' = Writers
           /\ pc[c] = from /\ pc'[c] = to
           /\ \A d \in Poppers \ {c} : pc'[d] = pc[d]
           /\ \A p \in Pushers : pc'[p] = pc[p]
<1>1. /\ pc[c] = from /\ pc'[c] = to
      /\ \A d \in Poppers \ {c} : pc'[d] = pc[d]
      /\ \A p \in Pushers : pc'[p] = pc[p]
  BY GoIs DEF Threads
<1> QED BY <1>1 DEF Claiming, Writers

\* A step that moves no index and makes or gives up no claim.
LEMMA Unmoved ==
    ASSUME Counted, UNCHANGED <<r_idx, w_idx, l_idx>>, Claiming' = Claiming,
           Writers' = Writers, calls' = calls
    PROVE  Accounted' /\ Left' = Left /\ Size' = Size
BY DEF Counted, Accounted, Left, Size

\* A call that begins is one less to come.
LEMMA TryPushCounted ==
    ASSUME Counted, NEW p \in Pushers, NEW v \in Values, TryPush(p, v)
    PROVE  Accounted' /\ (\A q \in Pushers : PushCopy(q)') /\ (\A c \in Poppers : PopCopy(c)')
<1>1. /\ p \notin Claiming /\ Claiming' = Claiming \cup {p}
      /\ p \notin Writers /\ Writers' = Writers \ {p}
      /\ pc'[p] = "readW" /\ \A q \in Pushers \ {p} : pc'[q] = pc[q]
      /\ \A c \in Poppers : pc'[c] = pc[c]
  BY PushSets DEF TryPush, Counted, PushAt
<1>2. Writers' = Writers
  BY <1>1
<1> HIDE DEF Claiming, Writers
<1>3. /\ IsFiniteSet(Claiming') /\ Cardinality(Claiming') = Cardinality(Claiming) + 1
      /\ Cardinality(Claiming) \in Nat
  BY <1>1, Joined DEF Counted, Accounted
<1>4. calls' = calls - 1 /\ calls \in Nat
  BY SizesAssumption DEF TryPush, Counted, Types, TypeOK
<1>5. Left' = Left /\ Size' = Size
  BY <1>3, <1>4 DEF Left, Size, TryPush, shared
<1>6. Accounted'
  BY <1>2, <1>3, <1>5 DEF Counted, Accounted, TryPush, shared
<1> QED BY <1>1, <1>5, <1>6 DEF Counted, PushCopy, PopCopy, TryPush, shared

\* A fresh copy of w_idx has seen nothing go by.
LEMMA PushReadWCounted ==
    ASSUME Counted, NEW p \in Pushers, PushReadW(p)
    PROVE  Accounted' /\ (\A q \in Pushers : PushCopy(q)') /\ (\A c \in Poppers : PopCopy(c)')
<1>1. /\ Claiming' = Claiming /\ Writers' = Writers
      /\ pc'[p] = "readR" /\ \A q \in Pushers \ {p} : pc'[q] = pc[q]
      /\ \A c \in Poppers : pc'[c] = pc[c]
  BY PushSets DEF PushReadW, Counted, PushAt
<1>2. /\ UNCHANGED <<r_idx, w_idx, l_idx, calls, snap_r, snap_l>>
      /\ snap_w'[p] = w_idx /\ \A q \in Pushers \ {p} : snap_w'[q] = snap_w[q]
  BY DEF PushReadW, shared, Counted, Types, TypeOK
<1>3. Accounted' /\ Left' = Left /\ Size' = Size
  BY <1>1, <1>2, Unmoved
<1>4. Minus(w_idx, w_idx) = 0 /\ Left \in Nat /\ Left <= MaxCalls
  BY Numbers, Distance DEF Counted, Accounted
<1>5. PushCopy(p)'
  BY <1>1, <1>2, <1>3, <1>4 DEF PushCopy
<1>6. \A q \in Pushers \ {p} : PushCopy(q)'
  BY <1>1, <1>2, <1>3 DEF Counted, PushCopy
<1>7. \A c \in Poppers : PopCopy(c)'
  BY <1>1, <1>2, <1>3 DEF Counted, PopCopy
<1> QED BY <1>3, <1>5, <1>6, <1>7

\* A pusher that goes on has seen room, if its copy of w_idx is still right.
LEMMA PushReadRCounted ==
    ASSUME Counted, NEW p \in Pushers, PushReadR(p)
    PROVE  Accounted' /\ (\A q \in Pushers : PushCopy(q)') /\ (\A c \in Poppers : PopCopy(c)')
<1>1. /\ UNCHANGED <<r_idx, w_idx, l_idx, calls, snap_r, snap_l>>
      /\ \A q \in Pushers \ {p} : snap_w'[q] = snap_w[q]
  BY DEF PushReadR, PushDone, shared, Counted, Types, TypeOK
<1>2. CASE Go(p, "readR", "idle")
  <2>1. /\ p \in Claiming /\ Claiming' = Claiming \ {p}
        /\ Writers' = Writers
        /\ pc'[p] = "idle" /\ \A q \in Pushers \ {p} : pc'[q] = pc[q]
        /\ \A c \in Poppers : pc'[c] = pc[c]
    BY <1>2, PushSets DEF Counted, PushAt
  <2> HIDE DEF Claiming, Writers
  <2>2. /\ IsFiniteSet(Claiming') /\ Cardinality(Claiming') = Cardinality(Claiming) - 1
        /\ Cardinality(Claiming) \in Nat
    BY <2>1, Joined DEF Counted, Accounted
  <2>3. Left' = Left - 1 /\ Left \in Nat /\ Size' = Size /\ Size \in Nat /\ MaxCalls \in Nat
    BY <1>1, <2>2, Numbers DEF Left, Size, Counted
  <2>4. Accounted'
    BY <1>1, <2>1, <2>2, <2>3 DEF Counted, Accounted
  <2>5. \A q \in Pushers \ {p} : PushCopy(q)'
    <3> SUFFICES ASSUME NEW q \in Pushers \ {p} PROVE PushCopy(q)'
      OBVIOUS
    <3>1. Minus(w_idx, snap_w[q]) \in Nat
      BY Distance, SizesAssumption DEF Counted, Types, TypeOK
    <3> QED BY <1>1, <2>1, <2>3, <3>1 DEF Counted, PushCopy
  <2>6. \A c \in Poppers : PopCopy(c)'
    <3> SUFFICES ASSUME NEW c \in Poppers PROVE PopCopy(c)'
      OBVIOUS
    <3>1. /\ Minus(r_idx, snap_r[c]) \in Nat /\ Minus(l_idx, snap_l[c]) \in Nat
          /\ Minus(w_idx, l_idx) \in Nat
      BY Distance, SizesAssumption DEF Counted, Types, TypeOK
    <3> QED BY <1>1, <2>1, <2>3, <3>1 DEF Counted, PopCopy
  <2> QED BY <2>1, <2>4, <2>5, <2>6 DEF PushCopy
<1>3. CASE ~Full(snap_w[p]) /\ Go(p, "readR", "cas") /\ UNCHANGED snap_w
  <2>1. /\ Claiming' = Claiming /\ Writers' = Writers
        /\ pc[p] = "readR" /\ pc'[p] = "cas" /\ \A q \in Pushers \ {p} : pc'[q] = pc[q]
        /\ \A c \in Poppers : pc'[c] = pc[c]
    BY <1>3, PushSets DEF Counted, PushAt
  <2>2. Accounted' /\ Left' = Left /\ Size' = Size
    BY <1>1, <2>1, Unmoved
  <2>3. snap_w[p] = w_idx => Size < MemLen
    BY <1>3, Numbers DEF Full, Size, Counted
  <2> QED BY <1>1, <1>3, <2>1, <2>2, <2>3 DEF Counted, PushCopy, PopCopy
<1> QED BY <1>2, <1>3 DEF PushReadR

\* A claim takes a slot that was free: the copy the exchange trusts is no round old.
LEMMA PushCasCounted ==
    ASSUME Counted, NEW p \in Pushers, PushCas(p)
    PROVE  Accounted' /\ (\A q \in Pushers : PushCopy(q)') /\ (\A c \in Poppers : PopCopy(c)')
<1>1. UNCHANGED <<r_idx, l_idx, calls, snap_r, snap_l, snap_w>>
  BY DEF PushCas
<1>2. CASE w_idx = snap_w[p] /\ Go(p, "cas", "write") /\ w_idx' = Inc(w_idx)
  <2>1. /\ p \in Claiming /\ Claiming' = Claiming \ {p}
        /\ p \notin Writers /\ Writers' = Writers \cup {p}
        /\ pc[p] = "cas" /\ pc'[p] = "write" /\ \A q \in Pushers \ {p} : pc'[q] = pc[q]
        /\ \A c \in Poppers : pc'[c] = pc[c]
    BY <1>2, PushSets DEF Counted, PushAt
  <2> HIDE DEF Claiming, Writers
  <2>2. /\ IsFiniteSet(Claiming') /\ Cardinality(Claiming') = Cardinality(Claiming) - 1
        /\ Cardinality(Claiming) \in Nat \ {0}
        /\ IsFiniteSet(Writers') /\ Cardinality(Writers') = Cardinality(Writers) + 1
    BY <2>1, Joined DEF Counted, Accounted
  <2>3. Left' = Left - 1 /\ Left \in Nat \ {0}
    BY <1>1, <2>2, Numbers DEF Left, Counted
  <2>4. Size < MemLen
    BY <1>2, <2>1 DEF Counted, PushCopy
  <2>5. /\ w_idx' \in Index /\ Size' = Size + 1
        /\ Minus(w_idx', l_idx) = Minus(w_idx, l_idx) + 1
    <3>1. /\ Size < IndexRange - 1 /\ Minus(w_idx, l_idx) < IndexRange - 1
      BY <2>4, Numbers DEF Counted, Accounted
    <3> QED BY <1>1, <1>2, <3>1, Numbers, Distance, IncIs DEF Size, Counted
  <2>6. Accounted'
    BY <1>1, <2>2, <2>3, <2>4, <2>5, Numbers DEF Counted, Accounted
  <2>7. \A q \in Pushers \ {p} : PushCopy(q)'
    <3> SUFFICES ASSUME NEW q \in Pushers \ {p}, pc[q] \in {"readR", "cas"}
                 PROVE  /\ Minus(w_idx', snap_w[q]) + Left' <= MaxCalls
                        /\ snap_w[q] # w_idx'
      BY <1>1, <2>1 DEF PushCopy
    <3>1. snap_w[q] \in Index /\ Minus(w_idx, snap_w[q]) + Left <= MaxCalls
      BY DEF Counted, PushCopy, Types, TypeOK
    <3>2. Minus(w_idx, snap_w[q]) \in Nat /\ Minus(w_idx, snap_w[q]) < IndexRange - 1
      BY <2>3, <3>1, Numbers, Distance DEF Counted
    <3>3. Minus(w_idx', snap_w[q]) = Minus(w_idx, snap_w[q]) + 1
      BY <1>2, <3>1, <3>2, Numbers, Distance DEF Counted
    <3>4. snap_w[q] # w_idx'
      BY <2>5, <3>1, <3>2, <3>3, Distance
    <3> QED BY <2>3, <3>1, <3>2, <3>3, <3>4, Numbers DEF Counted
  <2>8. \A c \in Poppers : PopCopy(c)'
    <3> SUFFICES ASSUME NEW c \in Poppers PROVE PopCopy(c)'
      OBVIOUS
    <3>1. Minus(r_idx, snap_r[c]) \in Nat /\ Minus(l_idx, snap_l[c]) \in Nat
      BY Distance, SizesAssumption DEF Counted, Types, TypeOK
    <3>2. Minus(w_idx, l_idx) \in Nat /\ Size \in Nat /\ MaxCalls \in Nat
      BY Numbers DEF Counted
    <3> QED BY <1>1, <2>1, <2>3, <2>5, <3>1, <3>2 DEF Counted, PopCopy
  <2> QED BY <2>1, <2>6, <2>7, <2>8 DEF PushCopy
<1>3. CASE Go(p, "cas", "readW") /\ UNCHANGED w_idx
  <2>1. /\ Claiming' = Claiming /\ Writers' = Writers
        /\ pc'[p] = "readW" /\ \A q \in Pushers \ {p} : pc'[q] = pc[q]
        /\ \A c \in Poppers : pc'[c] = pc[c]
    BY <1>3, PushSets DEF Counted, PushAt
  <2>2. Accounted' /\ Left' = Left /\ Size' = Size
    BY <1>1, <1>3, <2>1, Unmoved
  <2> QED BY <1>1, <1>3, <2>1, <2>2 DEF Counted, PushCopy, PopCopy
<1> QED BY <1>2, <1>3 DEF PushCas

\* Writing the slot moves no index.
LEMMA PushWriteCounted ==
    ASSUME Counted, NEW p \in Pushers, PushWrite(p)
    PROVE  Accounted' /\ (\A q \in Pushers : PushCopy(q)') /\ (\A c \in Poppers : PopCopy(c)')
<1>1. /\ Claiming' = Claiming /\ Writers' = Writers
      /\ pc'[p] = "commit" /\ \A q \in Pushers \ {p} : pc'[q] = pc[q]
      /\ \A c \in Poppers : pc'[c] = pc[c]
  BY PushSets DEF PushWrite, Counted, PushAt
<1>2. UNCHANGED <<r_idx, w_idx, l_idx, calls, snap_r, snap_l, snap_w>>
  BY DEF PushWrite
<1>3. Accounted' /\ Left' = Left /\ Size' = Size
  BY <1>1, <1>2, Unmoved
<1> QED BY <1>1, <1>2, <1>3 DEF Counted, PushCopy, PopCopy

\* The count of filled places follows one of the claims.
LEMMA PushCommitCounted ==
    ASSUME Counted, NEW p \in Pushers, PushCommit(p)
    PROVE  Accounted' /\ (\A q \in Pushers : PushCopy(q)') /\ (\A c \in Poppers : PopCopy(c)')
<1>1. /\ UNCHANGED <<r_idx, w_idx, calls, snap_r, snap_l>> /\ l_idx' = Inc(l_idx)
      /\ \A q \in Pushers \ {p} : snap_w'[q] = snap_w[q]
  BY DEF PushCommit, PushDone, Counted, Types, TypeOK
<1>2. /\ p \in Writers /\ Writers' = Writers \ {p} /\ Claiming' = Claiming
      /\ pc'[p] = "idle" /\ \A q \in Pushers \ {p} : pc'[q] = pc[q]
      /\ \A c \in Poppers : pc'[c] = pc[c]
  BY PushSets DEF PushCommit, Counted, PushAt
<1> HIDE DEF Claiming, Writers
<1>3. /\ IsFiniteSet(Writers') /\ Cardinality(Writers') = Cardinality(Writers) - 1
      /\ Cardinality(Writers) \in Nat \ {0}
  BY <1>2, Joined DEF Counted, Accounted
<1>4. Left' = Left /\ Size' = Size
  BY <1>1, <1>2 DEF Left, Size
<1>5. Minus(w_idx, l_idx) # 0 /\ w_idx # l_idx /\ Minus(l_idx, r_idx) < IndexRange - 1
  BY <1>3, Numbers, Distance DEF Counted, Accounted
<1>6. /\ l_idx' \in Index /\ Minus(w_idx, l_idx') = Minus(w_idx, l_idx) - 1
      /\ Minus(l_idx', r_idx) = Minus(l_idx, r_idx) + 1
  BY <1>1, <1>5, Numbers, Distance, IncIs DEF Counted
<1>7. Accounted'
  BY <1>1, <1>2, <1>3, <1>4, <1>6, Numbers DEF Counted, Accounted
<1>8. \A q \in Pushers : PushCopy(q)'
  BY <1>1, <1>2, <1>4 DEF Counted, PushCopy
<1>9. l_idx' # r_idx
  BY <1>6, Numbers, Distance DEF Counted
<1>10. \A c \in Poppers : PopCopy(c)'
  <2> SUFFICES ASSUME NEW c \in Poppers PROVE PopCopy(c)'
    OBVIOUS
  <2>1. pc[c] = "readW" =>
          Minus(l_idx', snap_l[c]) + Minus(w_idx, l_idx') = Minus(l_idx, snap_l[c]) + Minus(w_idx, l_idx)
    <3> SUFFICES ASSUME pc[c] = "readW"
                 PROVE  Minus(l_idx', snap_l[c]) + Minus(w_idx, l_idx')
                           = Minus(l_idx, snap_l[c]) + Minus(w_idx, l_idx)
      OBVIOUS
    <3>1. /\ snap_l[c] \in Index
          /\ Minus(l_idx, snap_l[c]) + Minus(w_idx, l_idx) + Left <= MaxCalls
      BY DEF Counted, PopCopy, Types, TypeOK
    <3>2. Minus(l_idx, snap_l[c]) \in Nat /\ Minus(l_idx, snap_l[c]) < IndexRange - 1
      BY <1>5, <3>1, Numbers, Distance DEF Counted
    <3>3. Minus(l_idx', snap_l[c]) = Minus(l_idx, snap_l[c]) + 1
      BY <1>1, <3>1, <3>2, Numbers, Distance DEF Counted
    <3> QED BY <1>6, <3>2, <3>3, Numbers DEF Counted
  <2> QED BY <1>1, <1>2, <1>4, <1>9, <2>1 DEF Counted, PopCopy
<1> QED BY <1>7, <1>8, <1>10

\* A step of a popper that moves no index.
LEMMA PopQuiet ==
    ASSUME Counted, NEW c \in Poppers, NEW from, NEW to \in PopAt, Go(c, from, to),
           UNCHANGED <<r_idx, w_idx, l_idx, calls, snap_w>>,
           \A d \in Poppers \ {c} : snap_r'[d] = snap_r[d] /\ snap_l'[d] = snap_l[d],
           PopCopy(c)'
    PROVE  Accounted' /\ (\A q \in Pushers : PushCopy(q)') /\ (\A d \in Poppers : PopCopy(d)')
<1>1. /\ Claiming' = Claiming /\ Writers' = Writers
      /\ \A d \in Poppers \ {c} : pc'[d] = pc[d]
      /\ \A q \in Pushers : pc'[q] = pc[q]
  BY PopSets DEF Counted
<1>2. Accounted' /\ Left' = Left /\ Size' = Size
  BY <1>1, Unmoved
<1>3. \A q \in Pushers : PushCopy(q)'
  BY <1>1, <1>2 DEF Counted, PushCopy
<1>4. \A d \in Poppers \ {c} : PopCopy(d)'
  BY <1>1, <1>2 DEF Counted, PopCopy
<1> QED BY <1>2, <1>3, <1>4

\* A popper that goes on has seen something filled, if its copy of r_idx is still
\* right.
LEMMA PopReadCounted ==
    ASSUME Counted, NEW c \in Poppers,
           TryPop(c) \/ PopReadR(c) \/ PopReadL(c) \/ PopReadW(c) \/ PopSlot(c) \/ PopReturn(c)
    PROVE  Accounted' /\ (\A q \in Pushers : PushCopy(q)') /\ (\A d \in Poppers : PopCopy(d)')
<1>1. /\ Size + Left <= MaxCalls /\ Size \in Nat /\ Left \in Nat
      /\ Minus(w_idx, l_idx) \in Nat /\ Minus(w_idx, l_idx) <= Size
      /\ Minus(r_idx, r_idx) = 0 /\ Minus(l_idx, l_idx) = 0
  BY Numbers, Distance DEF Counted, Accounted
<1>2. /\ UNCHANGED <<r_idx, w_idx, l_idx, calls, snap_w>>
      /\ \A d \in Poppers \ {c} : snap_r'[d] = snap_r[d] /\ snap_l'[d] = snap_l[d]
  BY DEF TryPop, PopReadR, PopReadL, PopReadW, PopSlot, PopReturn, shared, Counted, Types, TypeOK
<1>3. PICK from \in PopAt, to \in PopAt : Go(c, from, to)
  BY DEF TryPop, PopReadR, PopReadL, PopReadW, PopSlot, PopReturn, PopAt
<1>4. /\ pc[c] = from /\ pc'[c] = to /\ Left' = Left /\ Size' = Size
  BY <1>2, <1>3, PopSets DEF Counted, Left, Size
<1>5. snap_r \in [Poppers -> Index] /\ snap_l \in [Poppers -> Index]
  BY DEF Counted, Types, TypeOK
<1>6. PopCopy(c)'
  <2>1. CASE TryPop(c) \/ PopReturn(c)
    <3>1. pc'[c] \in {"readR", "idle"}
      BY <1>3, <1>4, <2>1, PopSets DEF TryPop, PopReturn, Counted, PopAt
    <3> QED BY <3>1 DEF PopCopy
  <2>2. CASE PopReadR(c)
    <3>1. pc'[c] = "readL" /\ snap_r'[c] = r_idx
      BY <1>5, <2>2, PopSets DEF PopReadR, Counted, PopAt
    <3> QED BY <1>1, <1>2, <1>4, <3>1 DEF PopCopy
  <2>3. CASE PopReadL(c)
    <3>1. /\ pc[c] = "readL" /\ pc'[c] = "readW" /\ snap_l'[c] = l_idx /\ snap_r'[c] = snap_r[c]
      BY <1>5, <2>3, PopSets DEF PopReadL, Counted, PopAt
    <3>2. Minus(w_idx, l_idx) + Left <= MaxCalls
      BY <1>1, SizesAssumption
    <3> QED BY <1>1, <1>2, <1>4, <3>1, <3>2 DEF PopCopy, Counted
  <2>4. CASE PopReadW(c)
    <3>1. /\ pc[c] = "readW"
          /\ \/ pc'[c] = "idle"
             \/ pc'[c] = "slot" /\ snap_r'[c] = snap_r[c] /\ snap_r[c] # snap_l[c]
      BY <2>4, PopSets DEF PopReadW, Counted, PopAt
    <3> QED BY <1>2, <1>4, <3>1 DEF PopCopy, Counted
  <2>5. CASE PopSlot(c)
    <3>1. /\ pc[c] = "slot" /\ pc'[c] = "cas" /\ snap_r'[c] = snap_r[c]
      BY <2>5, PopSets DEF PopSlot, Counted, PopAt
    <3> QED BY <1>2, <1>4, <3>1 DEF PopCopy, Counted
  <2> QED BY <2>1, <2>2, <2>3, <2>4, <2>5
<1> QED BY <1>2, <1>3, <1>6, PopQuiet

\* A pop takes the front place, which had been filled.
LEMMA PopCasCounted ==
    ASSUME Counted, NEW c \in Poppers, PopCas(c)
    PROVE  Accounted' /\ (\A q \in Pushers : PushCopy(q)') /\ (\A d \in Poppers : PopCopy(d)')
<1>1. /\ UNCHANGED <<w_idx, l_idx, calls, snap_l, snap_w>>
      /\ \A d \in Poppers \ {c} : snap_r'[d] = snap_r[d]
  BY DEF PopCas, Counted, Types, TypeOK
<1>2. CASE r_idx = snap_r[c] /\ Go(c, "cas", "popped") /\ r_idx' = Inc(snap_r[c])
  <2>1. /\ Claiming' = Claiming /\ Writers' = Writers
        /\ pc[c] = "cas" /\ pc'[c] = "popped" /\ \A d \in Poppers \ {c} : pc'[d] = pc[d]
        /\ \A q \in Pushers : pc'[q] = pc[q]
    BY <1>2, PopSets DEF Counted, PopAt
  <2>2. l_idx # r_idx
    BY <1>2, <2>1 DEF Counted, PopCopy
  <2>3. Minus(l_idx, r_idx) # 0 /\ Size # 0 /\ w_idx # r_idx
    BY <2>2, Numbers, Distance DEF Counted, Accounted, Size
  <2>4. /\ r_idx' \in Index /\ r_idx' = Inc(r_idx) /\ Size' = Size - 1
        /\ Minus(l_idx, r_idx') = Minus(l_idx, r_idx) - 1
    BY <1>1, <1>2, <2>2, <2>3, Numbers, Distance, IncIs DEF Size, Counted
  <2>5. Left' = Left
    BY <1>1, <2>1 DEF Left
  <2>6. Accounted'
    BY <1>1, <2>1, <2>4, <2>5, Numbers DEF Counted, Accounted
  <2>7. \A q \in Pushers : PushCopy(q)'
    BY <1>1, <2>1, <2>4, <2>5, Numbers DEF Counted, PushCopy, Accounted
  <2>8. ASSUME NEW d \in Poppers \ {c}, pc[d] \in {"readL", "readW", "slot", "cas"}
        PROVE  /\ Minus(r_idx', snap_r[d]) + Size' + Left' <= MaxCalls
               /\ snap_r[d] # r_idx'
    <3>1. snap_r[d] \in Index /\ Minus(r_idx, snap_r[d]) + Size + Left <= MaxCalls
      BY <2>8 DEF Counted, PopCopy, Types, TypeOK
    <3>2. Minus(r_idx, snap_r[d]) \in Nat /\ Minus(r_idx, snap_r[d]) < IndexRange - 1
      BY <2>3, <3>1, Numbers, Distance DEF Counted
    <3>3. Minus(r_idx', snap_r[d]) = Minus(r_idx, snap_r[d]) + 1
      BY <2>4, <3>1, <3>2, Numbers, Distance DEF Counted
    <3>4. snap_r[d] # r_idx'
      BY <2>4, <3>1, <3>2, <3>3, Distance
    <3> QED BY <2>4, <2>5, <3>1, <3>2, <3>3, <3>4, Numbers DEF Counted
  <2>9. \A d \in Poppers \ {c} : PopCopy(d)'
    BY <1>1, <2>1, <2>5, <2>8 DEF Counted, PopCopy
  <2> QED BY <2>1, <2>6, <2>7, <2>9 DEF PopCopy
<1>3. CASE Go(c, "cas", "readR") /\ UNCHANGED r_idx
  <2>1. pc'[c] = "readR"
    BY <1>3, PopSets DEF Counted, PopAt
  <2>2. PopCopy(c)'
    BY <2>1 DEF PopCopy
  <2> QED BY <1>1, <1>3, <2>2, PopQuiet DEF PopAt
<1> QED BY <1>2, <1>3 DEF PopCas, StillThere

\* Clear empties a queue nobody uses.
LEMMA ClearCounted ==
    ASSUME Counted, Clear
    PROVE  Accounted' /\ (\A q \in Pushers : PushCopy(q)') /\ (\A d \in Poppers : PopCopy(d)')
<1>1. /\ r_idx' = 0 /\ w_idx' = 0 /\ l_idx' = 0 /\ pc' = pc /\ calls' = calls
      /\ \A t \in Threads : pc[t] = "idle"
      /\ 0 \in Index
  BY SizesAssumption DEF Clear, local, Index
<1>2. Writers = {} /\ Writers' = {} /\ Claiming' = Claiming
  BY <1>1 DEF Writers, Claiming, Threads
<1>3. Minus(0, 0) = 0
  BY <1>1, Distance
<1>4. IsFiniteSet(Writers') /\ Cardinality(Writers') = 0
  BY <1>2, FS_EmptySet
<1>5. Left' = Left /\ Size' = 0
  BY <1>1, <1>2, <1>3 DEF Left, Size
<1>6. Accounted'
  BY <1>1, <1>2, <1>3, <1>4, <1>5, Numbers DEF Counted, Accounted
<1> QED BY <1>1, <1>6 DEF PushCopy, PopCopy, Threads

\* The invariant holds at the start and through every step.
LEMMA CountedHolds == (Init => Counted) /\ (Counted /\ [Next]_vars => Counted')
<1>1. ASSUME Init PROVE Counted
  <2>1. Writers = {} /\ Claiming = {}
    BY <1>1 DEF Init, Writers, Claiming, Threads
  <2>2. /\ IsFiniteSet(Writers) /\ Cardinality(Writers) = 0
        /\ IsFiniteSet(Claiming) /\ Cardinality(Claiming) = 0
    BY <2>1, FS_EmptySet
  <2>3. /\ r_idx \in Index /\ w_idx = r_idx /\ l_idx = r_idx /\ calls = MaxCalls
        /\ \A t \in Threads : pc[t] = "idle"
    BY <1>1, SizesAssumption DEF Init, Index
  <2>4. Minus(r_idx, r_idx) = 0
    BY <2>3, Distance
  <2>5. Accounted
    BY <2>2, <2>3, <2>4, SizesAssumption DEF Accounted, Size, Left
  <2> QED BY <1>1, <2>3, <2>5, TypesHold DEF Counted, PushCopy, PopCopy, Threads
<1>2. ASSUME Counted, [Next]_vars PROVE Counted'
  <2>1. Types'
    BY <1>2, TypesHold DEF Counted
  <2>2. CASE Next
    <3>1. Accounted' /\ (\A q \in Pushers : PushCopy(q)') /\ (\A d \in Poppers : PopCopy(d)')
      BY <1>2, <2>2, TryPushCounted, PushReadWCounted, PushReadRCounted, PushCasCounted,
         PushWriteCounted, PushCommitCounted, PopReadCounted, PopCasCounted, ClearCounted
      DEF Next, PushStep, PopStep
    <3> QED BY <2>1, <3>1 DEF Counted
  <2>3. CASE UNCHANGED vars
    BY <1>2, <2>3 DEF Counted, vars, shared, local, Types, TypeOK, Accounted, PushCopy,
       PopCopy, Writers, Claiming, Left, Size
  <2> QED BY <1>2, <2>2, <2>3
<1> QED BY <1>1, <1>2

\* What is popped had been filled, no more is claimed than there are slots, and the
\* claims not yet filled are those of the pushers about to fill them, around every
\* wrap of the indices and in both modes.
THEOREM IndicesKeepOrder == Spec => []IndexOrder
<1>1. Counted => IndexOrder
  <2> SUFFICES ASSUME Counted PROVE IndexOrder
    OBVIOUS
  <2>1. Minus(l_idx, r_idx) <= Size
    BY Numbers DEF Counted, Accounted
  <2> QED BY <2>1 DEF Counted, Accounted, IndexOrder, Writers
<1> QED BY <1>1, CountedHolds, PTL DEF Spec

\* A popper that takes the queue for empty is right at the moment it reads l_idx: equal
\* copies are never a round apart.
THEOREM EmptyMeansEmpty == Spec => EmptyIsTrue
<1>1. Counted /\ [Next]_vars =>
        \A c \in Poppers : PopReadL(c) /\ snap_r[c] = l_idx => r_idx = l_idx
  <2> SUFFICES ASSUME Counted, NEW c \in Poppers, PopReadL(c), snap_r[c] = l_idx
               PROVE  r_idx = l_idx
    OBVIOUS
  <2>1. pc[c] = "readL"
    BY DEF PopReadL, Go
  <2>2. Minus(r_idx, l_idx) + Size + Left <= MaxCalls
    BY <2>1 DEF Counted, PopCopy
  <2>3. Minus(r_idx, l_idx) + Minus(l_idx, r_idx) < IndexRange
    BY <2>2, Numbers, Distance DEF Counted, Accounted
  <2>4. Minus(r_idx, r_idx) = Minus(r_idx, l_idx) + Minus(l_idx, r_idx)
    BY <2>3, Numbers, DistancesAdd DEF Counted
  <2> QED BY <2>4, Numbers, Distance DEF Counted
<1> QED BY <1>1, CountedHolds, PTL DEF Spec, EmptyIsTrue
=============================================================================

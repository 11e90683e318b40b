------------------------ MODULE ConcurrentQueueFifo ------------------------
(***************************************************************************)
(* Proof that ConcurrentQueue implements ClaimQueue: the slots between the *)
(* two indices, read with the pushers that have claimed but not counted    *)
(* them, are a bounded FIFO of claimed places.                             *)
(***************************************************************************)
EXTENDS ConcurrentQueueProofs

-----------------------------------------------------------------------------
\* Places and slots.

\* The k-th index from r is k - 1 away from it, and every index is one of these.
LEMMA PlaceOfIndex ==
    ASSUME NEW r \in Index
    PROVE  /\ \A k \in 1 .. IndexRange : /\ (r + k - 1) % IndexRange \in Index
                                         /\ Minus((r + k - 1) % IndexRange, r) = k - 1
           /\ \A i \in Index : (r + (Minus(i, r) + 1) - 1) % IndexRange = i
<1>1. IndexRange \in Nat \ {0} /\ r \in 0 .. IndexRange - 1
  BY SizesAssumption DEF Index
<1>2. ASSUME NEW k \in 1 .. IndexRange
      PROVE  /\ (r + k - 1) % IndexRange \in Index
             /\ (r + k - 1) % IndexRange = IF r + k - 1 < IndexRange THEN r + k - 1
                                           ELSE r + k - 1 - IndexRange
  <2>1. CASE r + k - 1 < IndexRange
    <3>1. r + k - 1 \in 0 .. IndexRange - 1
      BY <1>1, <2>1
    <3> QED BY <1>1, <2>1, <3>1, RemainderSame DEF Index
  <2>2. CASE ~(r + k - 1 < IndexRange)
    <3> DEFINE d == r + k - 1 - IndexRange
    <3>1. d \in 0 .. IndexRange - 1 /\ r + k - 1 = d + IndexRange
      BY <1>1, <2>2
    <3> HIDE DEF d
    <3>2. (r + k - 1) % IndexRange = d
      BY <1>1, <3>1, RemainderAbove
    <3> QED BY <2>2, <3>1, <3>2 DEF Index, d
  <2> QED BY <2>1, <2>2
<1>3. ASSUME NEW k \in 1 .. IndexRange
      PROVE  Minus((r + k - 1) % IndexRange, r) = k - 1
  <2> DEFINE j == (r + k - 1) % IndexRange
  <2>1. j \in Index /\ j = IF r + k - 1 < IndexRange THEN r + k - 1 ELSE r + k - 1 - IndexRange
    BY <1>2
  <2> HIDE DEF j
  <2>2. Minus(j, r) = IF j >= r THEN j - r ELSE j - r + IndexRange
    BY <2>1, MinusIs
  <2>3. Minus(j, r) = k - 1
    BY <1>1, <2>1, <2>2
  <2> QED BY <2>3 DEF j
<1>4. ASSUME NEW i \in Index PROVE (r + (Minus(i, r) + 1) - 1) % IndexRange = i
  <2> DEFINE k == Minus(i, r) + 1
  <2>1. /\ Minus(i, r) \in 0 .. IndexRange - 1 /\ i \in 0 .. IndexRange - 1
        /\ Minus(i, r) = IF i >= r THEN i - r ELSE i - r + IndexRange
    BY MinusIs DEF Index
  <2>2. k \in 1 .. IndexRange /\ k = IF i >= r THEN i - r + 1 ELSE i - r + IndexRange + 1
    BY <1>1, <2>1
  <2> HIDE DEF k
  <2>3. (r + k - 1) % IndexRange = i
    BY <1>1, <1>2, <2>1, <2>2
  <2> QED BY <2>3 DEF k
<1> QED BY <1>2, <1>3, <1>4

\* Indices equally far from a third are the same.
LEMMA SameDistance ==
    ASSUME NEW i \in Index, NEW j \in Index, NEW r \in Index, Minus(i, r) = Minus(j, r)
    PROVE  i = j
<1>1. (r + (Minus(i, r) + 1) - 1) % IndexRange = i
  BY PlaceOfIndex
<1>2. (r + (Minus(j, r) + 1) - 1) % IndexRange = j
  BY PlaceOfIndex
<1> QED BY <1>1, <1>2

\* A number is a multiple of the divisor and its remainder.
LEMMA Quotient == ASSUME NEW n \in Nat \ {0}, NEW a \in Int
                  PROVE  \E q \in Int : a = n * q + (a % n)
<1>1. a \div n \in Int /\ a = n * (a \div n) + (a % n)
  OBVIOUS
<1> QED BY <1>1

\* A number without remainder is a multiple.
LEMMA Multiple == ASSUME NEW n \in Nat \ {0}, NEW a \in Int, a % n = 0
                  PROVE  \E q \in Int : a = n * q
<1>1. PICK q \in Int : a = n * q + (a % n)
  BY Quotient
<1>2. n * q \in Int
  OBVIOUS
<1>3. a = n * q
  BY <1>1, <1>2
<1> QED BY <1>3

\* The only multiple nearer to 0 than the divisor is 0.
LEMMA NearMultiple == ASSUME NEW n \in Nat \ {0}, NEW q \in Int, n * q < n, n * q > -n
                      PROVE  q = 0
<1>1. CASE q >= 1
  <2>1. n * q >= n
    BY <1>1
  <2> QED BY <2>1
<1>2. CASE q =< -1
  <2>1. n * q =< -n
    BY <1>2
  <2> QED BY <2>1
<1> QED BY <1>1, <1>2

\* Indices less than a queue's length apart have slots of their own: the remainder of
\* a wrapped index is still its slot.
LEMMA SlotsApart ==
    ASSUME NEW i \in Index, NEW j \in Index, NEW r \in Index,
           Minus(i, r) < MemLen, Minus(j, r) < MemLen, Slot(i) = Slot(j)
    PROVE  i = j
<1>1. /\ IndexRange \in Nat \ {0} /\ MemLen \in Nat \ {0} /\ i \in Int /\ j \in Int /\ r \in Int
  BY SizesAssumption DEF Index
<1>2. PICK q \in Int : IndexRange = MemLen * q
  BY <1>1, SizesAssumption, Multiple
<1>3. PICK u \in Int : i = MemLen * u + Slot(i)
  BY <1>1, Quotient DEF Slot
<1>4. PICK v \in Int : j = MemLen * v + Slot(i)
  BY <1>1, Quotient DEF Slot
<1>5. /\ Minus(i, r) \in Nat /\ Minus(j, r) \in Nat /\ Slot(i) \in Int
  BY <1>1, Distance, SlotIs DEF Index
<1>6. ASSUME NEW k \in Index PROVE \E x \in Int : Minus(k, r) = k - r + MemLen * x
  <2>1. k \in Int
    BY <1>1 DEF Index
  <2>2. CASE k >= r
    <3>1. Minus(k, r) = k - r + MemLen * 0
      BY <1>1, <2>1, <2>2, MinusIs
    <3> QED BY <3>1
  <2>3. CASE ~(k >= r)
    <3>1. Minus(k, r) = k - r + MemLen * q
      BY <1>1, <1>2, <2>1, <2>3, MinusIs
    <3> QED BY <3>1
  <2> QED BY <2>2, <2>3
<1>7. PICK x \in Int : Minus(i, r) = i - r + MemLen * x
  BY <1>6
<1>8. PICK y \in Int : Minus(j, r) = j - r + MemLen * y
  BY <1>6
<1> DEFINE a == Minus(i, r)
           b == Minus(j, r)
           s == Slot(i)
<1>9. a \in Nat /\ b \in Nat /\ s \in Int /\ a < MemLen /\ b < MemLen
  BY <1>5
<1>10. /\ a = i - r + MemLen * x /\ i = MemLen * u + s
      /\ b = j - r + MemLen * y /\ j = MemLen * v + s
  BY <1>3, <1>4, <1>7, <1>8
<1> HIDE DEF a, b, s
<1>11. a - b = MemLen * (u + x - v - y)
  BY <1>1, <1>9, <1>10
<1>12. u + x - v - y \in Int
  OBVIOUS
<1>13. u + x - v - y = 0
  BY <1>1, <1>9, <1>11, <1>12, NearMultiple
<1>14. a = b
  BY <1>1, <1>9, <1>11, <1>13
<1> QED BY <1>14, SameDistance DEF a, b

-----------------------------------------------------------------------------
\* What the slots hold.  Claims not yet counted stand at indices of their own between
\* r_idx and w_idx, past l_idx where pushers count in order; every other claimed slot
\* holds what was pushed there.
Settled ==
    /\ \A p \in Writers : Minus(snap_w[p], r_idx) < Size
    /\ \A p, q \in Writers : snap_w[p] = snap_w[q] => p = q
    /\ ~allow_push_preempt => \A p \in Writers : Minus(snap_w[p], r_idx) >= Minus(l_idx, r_idx)
    /\ \A p \in Pushers : pc[p] = "commit" => mem[Slot(snap_w[p])] = val[p]
    /\ \A p \in Pushers : pc[p] # "idle" => val[p] \in Values
    /\ \A i \in Index : /\ Minus(i, r_idx) < Size
                        /\ \A p \in Writers : snap_w[p] # i
                        => mem[Slot(i)] \in Values

\* What a popper goes on to take has been filled, and is what it read.
Seen(c) ==
    /\ pc[c] \in {"slot", "cas"} /\ snap_r[c] = r_idx => \A p \in Writers : snap_w[p] # r_idx
    /\ pc[c] = "cas" /\ snap_r[c] = r_idx => val[c] = mem[Slot(r_idx)]
    /\ pc[c] = "popped" => val[c] \in Values

Filled == Counted /\ Settled /\ \A c \in Poppers : Seen(c)

\* A pusher that has claimed has an index and a value.
LEMMA WriterIs ==
    ASSUME Filled, NEW p \in Writers
    PROVE  /\ p \in Pushers /\ p \in Threads /\ pc[p] \in {"write", "commit"}
           /\ snap_w[p] \in Index /\ val[p] \in Values
BY DEF Filled, Counted, Types, TypeOK, Settled, Writers, Threads

\* The oldest claim, if there is one, is at r_idx.
LEMMA FrontIs == ASSUME Filled PROVE Minus(r_idx, r_idx) = 0 /\ (l_idx # r_idx => Size > 0)
<1>1. l_idx # r_idx => Minus(l_idx, r_idx) # 0
  BY Numbers, Distance DEF Filled, Counted
<1> QED BY <1>1, Numbers, Distance DEF Filled, Counted, Accounted

\* A step of a pusher that has not claimed a slot, or gives up.
LEMMA PushQuiet ==
    ASSUME Filled, NEW p \in Pushers, NEW from, NEW to \in PushAt, Go(p, from, to),
           from \in {"idle", "readW", "readR", "cas"}, to \in {"idle", "readW", "readR", "cas"},
           UNCHANGED <<r_idx, w_idx, l_idx, mem, snap_r, allow_push_preempt>>,
           \A q \in Pushers \ {p} : snap_w'[q] = snap_w[q],
           \A t \in Threads \ {p} : val'[t] = val[t],
           to = "idle" \/ val'[p] \in Values
    PROVE  Settled' /\ \A c \in Poppers : Seen(c)'
<1>1. /\ Writers' = Writers /\ p \notin Writers
      /\ pc[p] = from /\ pc'[p] = to /\ \A q \in Pushers \ {p} : pc'[q] = pc[q]
      /\ \A c \in Poppers : pc'[c] = pc[c]
  <2>1. Types
    BY DEF Filled, Counted
  <2> QED BY <2>1, PushSets
<1>2. \A q \in Writers : q # p /\ q \in Pushers /\ snap_w'[q] = snap_w[q]
  BY <1>1, WriterIs
<1>3. /\ Size' = Size
      /\ \A q \in Pushers \ {p} : val'[q] = val[q]
      /\ \A c \in Poppers : val'[c] = val[c]
  BY SizesAssumption DEF Size, Threads
<1>4. Settled'
  BY <1>1, <1>2, <1>3 DEF Filled, Settled
<1> QED BY <1>1, <1>2, <1>3, <1>4 DEF Filled, Seen

\* Up to its claim a push changes nothing that is settled.
LEMMA PushPrelude ==
    ASSUME Filled, NEW p \in Pushers,
           \/ \E v \in Values : TryPush(p, v)
           \/ PushReadW(p) \/ PushReadR(p)
           \/ PushCas(p) /\ w_idx # snap_w[p]
    PROVE  Settled' /\ \A c \in Poppers : Seen(c)'
<1>1. /\ p \in Threads /\ val \in [Threads -> Values \cup {NULL}] /\ snap_w \in [Pushers -> Index]
      /\ pc[p] # "idle" => val[p] \in Values
  BY DEF Filled, Counted, Types, TypeOK, Settled, Threads
<1>2. CASE \E v \in Values : TryPush(p, v)
  <2>1. PICK v \in Values : TryPush(p, v)
    BY <1>2
  <2> QED BY <1>1, <2>1, PushQuiet DEF TryPush, shared, PushAt
<1>3. CASE PushReadW(p)
  <2>1. val'[p] \in Values
    BY <1>1, <1>3 DEF PushReadW, Go
  <2> QED BY <1>1, <1>3, <2>1, PushQuiet DEF PushReadW, shared, PushAt
<1>4. CASE PushReadR(p)
  <2>1. CASE Go(p, "readR", "idle") /\ PushDone(p)
    BY <1>1, <1>4, <2>1, PushQuiet DEF PushReadR, PushDone, shared, PushAt
  <2>2. CASE Go(p, "readR", "cas") /\ UNCHANGED <<snap_r, snap_w, val>>
    <3>1. val'[p] \in Values
      BY <1>1, <2>2 DEF Go
    <3> QED BY <1>1, <1>4, <2>2, <3>1, PushQuiet DEF PushReadR, shared, PushAt
  <2> QED BY <1>4, <2>1, <2>2 DEF PushReadR
<1>5. CASE PushCas(p) /\ w_idx # snap_w[p]
  <2>1. val'[p] \in Values
    BY <1>1, <1>5 DEF PushCas, Go
  <2> QED BY <1>1, <1>5, <2>1, PushQuiet DEF PushCas, PushAt
<1> QED BY <1>2, <1>3, <1>4, <1>5

\* The exchange adds the slot at w_idx to those claimed.
LEMMA ClaimSettles ==
    ASSUME Filled, NEW p \in Pushers, PushCas(p), w_idx = snap_w[p]
    PROVE  /\ p \notin Writers /\ Writers' = Writers \cup {p} /\ Size' = Size + 1
           /\ Settled' /\ \A c \in Poppers : Seen(c)'
<1>1. /\ Writers' = Writers \cup {p} /\ p \notin Writers
      /\ pc[p] = "cas" /\ pc'[p] = "write" /\ \A q \in Pushers \ {p} : pc'[q] = pc[q]
      /\ \A c \in Poppers : pc'[c] = pc[c]
  BY PushSets DEF PushCas, PushAt, Filled, Counted
<1>2. /\ UNCHANGED <<r_idx, l_idx, mem, snap_r, snap_w, val, allow_push_preempt>>
      /\ w_idx' = Inc(w_idx)
  BY DEF PushCas
<1>3. Size < MemLen /\ Size < IndexRange - 1 /\ Size \in Nat /\ Minus(l_idx, r_idx) <= Size
  BY <1>1, Numbers DEF Filled, Counted, PushCopy, Accounted
<1>4. Size' = Size + 1
  BY <1>2, <1>3, Numbers, Distance DEF Size, Filled, Counted
<1>5. Minus(snap_w[p], r_idx) = Size
  BY DEF Size
<1>6. \A q \in Writers : snap_w[q] # snap_w[p] /\ Minus(snap_w[q], r_idx) < Size
  BY <1>3, <1>5 DEF Filled, Settled
<1>7. \A i \in Index : Minus(i, r_idx) < Size + 1 /\ i # snap_w[p] => Minus(i, r_idx) < Size
  <2> SUFFICES ASSUME NEW i \in Index, Minus(i, r_idx) < Size + 1, i # snap_w[p]
               PROVE  Minus(i, r_idx) < Size
    OBVIOUS
  <2>1. r_idx \in Index /\ snap_w[p] \in Index
    BY DEF Filled, Counted, Types, TypeOK
  <2>2. Minus(i, r_idx) # Size /\ Minus(i, r_idx) \in Int
    BY <1>5, <2>1, SameDistance, Distance
  <2> QED BY <1>3, <2>2
<1> HIDE DEF Writers, Size
<1>8. \A q \in Writers' : Minus(snap_w'[q], r_idx') < Size'
  <2>1. \A q \in Writers : Minus(snap_w[q], r_idx) < Size + 1
    BY <1>3, <1>6, WriterIs, Numbers, Distance DEF Filled, Counted
  <2> QED BY <1>1, <1>2, <1>3, <1>4, <1>5, <2>1
<1>9. \A q, t \in Writers' : snap_w'[q] = snap_w'[t] => q = t
  BY <1>1, <1>2, <1>6 DEF Filled, Settled
<1>10. ~allow_push_preempt' =>
         \A q \in Writers' : Minus(snap_w'[q], r_idx') >= Minus(l_idx', r_idx')
  BY <1>1, <1>2, <1>3, <1>5 DEF Filled, Settled
<1>11. /\ \A q \in Pushers : pc'[q] = "commit" => mem'[Slot(snap_w'[q])] = val'[q]
       /\ \A q \in Pushers : pc'[q] # "idle" => val'[q] \in Values
  BY <1>1, <1>2 DEF Filled, Settled
<1>12. \A i \in Index : /\ Minus(i, r_idx') < Size'
                        /\ \A q \in Writers' : snap_w'[q] # i
                        => mem'[Slot(i)] \in Values
  BY <1>1, <1>2, <1>4, <1>7 DEF Filled, Settled
<1>13. Settled'
  BY <1>8, <1>9, <1>10, <1>11, <1>12 DEF Settled
<1>14. \A c \in Poppers : pc[c] \in {"slot", "cas"} /\ snap_r[c] = r_idx => snap_w[p] # r_idx
  <2> SUFFICES ASSUME NEW c \in Poppers, pc[c] \in {"slot", "cas"}, snap_r[c] = r_idx
               PROVE  snap_w[p] # r_idx
    OBVIOUS
  <2>1. l_idx # r_idx
    BY DEF Filled, Counted, PopCopy
  <2> QED BY <1>3, <1>5, <2>1, FrontIs
<1>15. \A c \in Poppers : Seen(c)'
  BY <1>1, <1>2, <1>14 DEF Filled, Seen
<1> QED BY <1>1, <1>4, <1>13, <1>15

\* A slot is written by the only claim that stands in it.
LEMMA WriteSettles ==
    ASSUME Filled, NEW p \in Pushers, PushWrite(p)
    PROVE  /\ Writers' = Writers /\ Size' = Size
           /\ \A i \in Index : Minus(i, r_idx) < Size /\ i # snap_w[p]
                                 => mem'[Slot(i)] = mem[Slot(i)]
           /\ Settled' /\ \A c \in Poppers : Seen(c)'
<1>1. /\ Writers' = Writers /\ p \in Writers
      /\ pc[p] = "write" /\ pc'[p] = "commit" /\ \A q \in Pushers \ {p} : pc'[q] = pc[q]
      /\ \A c \in Poppers : pc'[c] = pc[c]
  BY PushSets DEF PushWrite, PushAt, Filled, Counted, Writers
<1>2. /\ UNCHANGED <<r_idx, w_idx, l_idx, snap_r, snap_w, val, allow_push_preempt>>
      /\ Size' = Size
  BY DEF PushWrite, Size
<1>3. /\ mem'[Slot(snap_w[p])] = val[p]
      /\ \A s \in 0 .. MemLen - 1 : s # Slot(snap_w[p]) => mem'[s] = mem[s]
  <2>1. Slot(snap_w[p]) \in 0 .. MemLen - 1
    BY <1>1, WriterIs, SlotIs, SizesAssumption DEF Index
  <2> QED BY <2>1 DEF PushWrite, Filled, Counted, Types, TypeOK
<1>4. ASSUME NEW i \in Index, Minus(i, r_idx) < Size, i # snap_w[p]
      PROVE  mem'[Slot(i)] = mem[Slot(i)]
  <2>1. /\ r_idx \in Index /\ snap_w[p] \in Index /\ Minus(snap_w[p], r_idx) < Size
        /\ Size <= MemLen
    BY <1>1 DEF Filled, Counted, Types, TypeOK, Settled, Accounted
  <2>2. Minus(i, r_idx) < MemLen /\ Minus(snap_w[p], r_idx) < MemLen
    BY <1>4, <2>1, Numbers, Distance DEF Filled, Counted
  <2>3. Slot(i) # Slot(snap_w[p])
    BY <1>4, <2>1, <2>2, SlotsApart
  <2>4. Slot(i) \in 0 .. MemLen - 1
    BY SlotIs, SizesAssumption DEF Index
  <2> QED BY <1>3, <2>3, <2>4
<1> HIDE DEF Writers, Size
<1>5. \A q \in Pushers : pc'[q] = "commit" => mem'[Slot(snap_w'[q])] = val'[q]
  <2> SUFFICES ASSUME NEW q \in Pushers \ {p}, pc[q] = "commit"
               PROVE  mem'[Slot(snap_w[q])] = val[q]
    BY <1>1, <1>2, <1>3
  <2>1. q \in Writers
    BY DEF Writers
  <2>2. snap_w[q] # snap_w[p] /\ snap_w[q] \in Index /\ Minus(snap_w[q], r_idx) < Size
    BY <1>1, <2>1, WriterIs DEF Filled, Settled
  <2> QED BY <1>4, <2>2 DEF Filled, Settled
<1>6. \A q \in Pushers : pc'[q] # "idle" => val'[q] \in Values
  BY <1>1, <1>2 DEF Filled, Settled
<1>7. \A i \in Index : /\ Minus(i, r_idx') < Size'
                       /\ \A q \in Writers' : snap_w'[q] # i
                       => mem'[Slot(i)] \in Values
  BY <1>1, <1>2, <1>4 DEF Filled, Settled
<1>8. Settled'
  BY <1>1, <1>2, <1>5, <1>6, <1>7 DEF Filled, Settled
<1>9. \A c \in Poppers : Seen(c)'
  <2> SUFFICES ASSUME NEW c \in Poppers PROVE Seen(c)'
    OBVIOUS
  <2>1. pc[c] \in {"slot", "cas"} /\ snap_r[c] = r_idx => mem'[Slot(r_idx)] = mem[Slot(r_idx)]
    <3> SUFFICES ASSUME pc[c] \in {"slot", "cas"}, snap_r[c] = r_idx
                 PROVE  mem'[Slot(r_idx)] = mem[Slot(r_idx)]
      OBVIOUS
    <3>1. l_idx # r_idx /\ snap_w[p] # r_idx /\ r_idx \in Index
      BY <1>1 DEF Filled, Counted, PopCopy, Seen, Types, TypeOK
    <3>2. Minus(r_idx, r_idx) < Size
      BY <3>1, FrontIs
    <3> QED BY <1>4, <3>1, <3>2
  <2> QED BY <1>1, <1>2, <2>1 DEF Filled, Seen
<1> QED BY <1>1, <1>2, <1>4, <1>8, <1>9

\* Counting a slot leaves what was written there; in order, it was the oldest claim.
LEMMA CommitSettles ==
    ASSUME Filled, NEW p \in Pushers, PushCommit(p)
    PROVE  /\ p \in Writers /\ Writers' = Writers \ {p} /\ Size' = Size
           /\ Settled' /\ \A c \in Poppers : Seen(c)'
<1>1. /\ Writers' = Writers \ {p} /\ p \in Writers
      /\ pc[p] = "commit" /\ pc'[p] = "idle" /\ \A q \in Pushers \ {p} : pc'[q] = pc[q]
      /\ \A c \in Poppers : pc'[c] = pc[c]
  BY PushSets DEF PushCommit, PushAt, Filled, Counted, Writers
<1>2. /\ UNCHANGED <<r_idx, w_idx, mem, snap_r, allow_push_preempt>> /\ Size' = Size
      /\ l_idx' = Inc(l_idx)
      /\ \A q \in Pushers \ {p} : snap_w'[q] = snap_w[q] /\ val'[q] = val[q]
      /\ \A c \in Poppers : val'[c] = val[c]
  BY SizesAssumption DEF PushCommit, PushDone, Size, Filled, Counted, Types, TypeOK, Threads
<1>3. \A q \in Writers' : q \in Writers /\ q # p /\ q \in Pushers
  BY <1>1, WriterIs
<1>4. ~allow_push_preempt =>
        \A q \in Writers' : Minus(snap_w'[q], r_idx') >= Minus(l_idx', r_idx')
  <2> SUFFICES ASSUME ~allow_push_preempt, NEW q \in Writers'
               PROVE  Minus(snap_w[q], r_idx) >= Minus(l_idx', r_idx)
    BY <1>2, <1>3
  <2>1. /\ snap_w[q] \in Index /\ r_idx \in Index /\ l_idx \in Index
        /\ snap_w[q] # l_idx /\ Minus(snap_w[q], r_idx) >= Minus(l_idx, r_idx)
    <3>1. l_idx = snap_w[p]
      BY DEF PushCommit, MayCommit
    <3>2. snap_w[q] # snap_w[p] /\ Minus(snap_w[q], r_idx) >= Minus(l_idx, r_idx)
      BY <1>1, <1>3 DEF Filled, Settled
    <3> QED BY <1>3, <3>1, <3>2, WriterIs DEF Filled, Counted, Types, TypeOK
  <2>2. Minus(snap_w[q], r_idx) # Minus(l_idx, r_idx)
    BY <2>1, SameDistance
  <2>3. /\ Minus(snap_w[q], r_idx) \in 0 .. IndexRange - 1
        /\ Minus(l_idx, r_idx) \in 0 .. IndexRange - 1 /\ IndexRange \in Nat
    BY <2>1, Distance, SizesAssumption
  <2>4. Minus(l_idx, r_idx) < IndexRange - 1
    BY <2>1, <2>2, <2>3
  <2>5. Minus(l_idx', r_idx) = Minus(l_idx, r_idx) + 1
    BY <1>2, <2>1, <2>4, Distance
  <2> QED BY <2>1, <2>2, <2>3, <2>5
<1>5. \A i \in Index : /\ Minus(i, r_idx') < Size'
                       /\ \A q \in Writers' : snap_w'[q] # i
                       => mem'[Slot(i)] \in Values
  <2> SUFFICES ASSUME NEW i \in Index, Minus(i, r_idx) < Size,
                      \A q \in Writers' : snap_w'[q] # i
               PROVE  mem[Slot(i)] \in Values
    BY <1>2
  <2>1. CASE i = snap_w[p]
    BY <1>1, <2>1, WriterIs DEF Filled, Settled
  <2>2. CASE i # snap_w[p]
    <3>1. \A q \in Writers : snap_w[q] # i
      BY <1>1, <1>2, <1>3, <2>2
    <3> QED BY <3>1 DEF Filled, Settled
  <2> QED BY <2>1, <2>2
<1> HIDE DEF Writers, Size
<1>6. /\ \A q \in Writers' : Minus(snap_w'[q], r_idx') < Size'
      /\ \A q, t \in Writers' : snap_w'[q] = snap_w'[t] => q = t
  BY <1>2, <1>3 DEF Filled, Settled
<1>7. /\ \A q \in Pushers : pc'[q] = "commit" => mem'[Slot(snap_w'[q])] = val'[q]
      /\ \A q \in Pushers : pc'[q] # "idle" => val'[q] \in Values
  BY <1>1, <1>2 DEF Filled, Settled
<1>8. Settled'
  BY <1>2, <1>4, <1>5, <1>6, <1>7 DEF Settled
<1>9. \A c \in Poppers : Seen(c)'
  BY <1>1, <1>2, <1>3 DEF Filled, Seen
<1> QED BY <1>1, <1>2, <1>8, <1>9

-----------------------------------------------------------------------------

\* A step of a popper that moves no index.
LEMMA PopKeeps ==
    ASSUME Filled, NEW c \in Poppers, NEW from, NEW to \in PopAt, Go(c, from, to),
           UNCHANGED <<shared, snap_w, allow_push_preempt>>,
           \A d \in Poppers \ {c} : snap_r'[d] = snap_r[d],
           \A t \in Threads \ {c} : val'[t] = val[t],
           Seen(c)'
    PROVE  Settled' /\ \A d \in Poppers : Seen(d)'
<1>1. /\ Writers' = Writers /\ Size' = Size
      /\ \A d \in Poppers \ {c} : pc'[d] = pc[d]
      /\ \A p \in Pushers : pc'[p] = pc[p]
  BY PopSets DEF Filled, Counted, Size, shared
<1>2. \A p \in Pushers : val'[p] = val[p]
  BY SizesAssumption DEF Threads
<1>0. UNCHANGED <<r_idx, l_idx, mem, snap_w, allow_push_preempt>>
  BY DEF shared
<1> HIDE DEF Writers, Size
<1>3. Settled'
  <2>1. \A p \in Pushers : pc'[p] = "commit" => mem'[Slot(snap_w'[p])] = val'[p]
    BY <1>0, <1>1, <1>2 DEF Filled, Settled
  <2>2. \A p \in Pushers : pc'[p] # "idle" => val'[p] \in Values
    BY <1>1, <1>2 DEF Filled, Settled
  <2>3. /\ \A p \in Writers' : Minus(snap_w'[p], r_idx') < Size'
        /\ \A p, q \in Writers' : snap_w'[p] = snap_w'[q] => p = q
    BY <1>0, <1>1 DEF Filled, Settled
  <2>4. ~allow_push_preempt' =>
          \A p \in Writers' : Minus(snap_w'[p], r_idx') >= Minus(l_idx', r_idx')
    BY <1>0, <1>1 DEF Filled, Settled
  <2>5. \A i \in Index : /\ Minus(i, r_idx') < Size'
                         /\ \A p \in Writers' : snap_w'[p] # i
                         => mem'[Slot(i)] \in Values
    BY <1>0, <1>1 DEF Filled, Settled
  <2> QED BY <2>1, <2>2, <2>3, <2>4, <2>5 DEF Settled
<1>4. \A d \in Poppers \ {c} : Seen(d)'
  BY <1>1 DEF Filled, Seen, shared, Threads
<1> QED BY <1>3, <1>4

\* What the copies of l_idx and w_idx are for: a popper that goes on to the slot it
\* copied finds it filled.
LEMMA NotEmptySettles ==
    ASSUME Filled, NEW c \in Poppers, pc[c] = "readW", snap_r[c] = r_idx,
           ~Unfilled(snap_l[c]), snap_r[c] # snap_l[c]
    PROVE  \A p \in Writers : snap_w[p] # r_idx
<1>1. /\ r_idx \in Index /\ l_idx \in Index /\ w_idx \in Index /\ snap_l[c] \in Index
      /\ l_idx # r_idx
      /\ Minus(l_idx, snap_l[c]) + Minus(w_idx, l_idx) + Left <= MaxCalls
  BY DEF Filled, Counted, Types, TypeOK, PopCopy
<1>2. CASE allow_push_preempt
  <2>1. snap_l[c] = w_idx
    BY <1>2 DEF Unfilled
  <2>2. Minus(l_idx, w_idx) \in Nat /\ Minus(l_idx, w_idx) + Minus(w_idx, l_idx) < IndexRange
    BY <1>1, <2>1, Numbers, Distance DEF Filled, Counted
  <2>3. Minus(l_idx, w_idx) + Minus(w_idx, l_idx) = 0
    BY <1>1, <2>2, Distance, DistancesAdd
  <2>4. Cardinality(Writers) = 0 /\ IsFiniteSet(Writers)
    BY <2>2, <2>3, Numbers DEF Filled, Counted, Accounted
  <2>5. Writers = {}
    BY <2>4, FS_EmptySet
  <2> QED BY <2>5
<1>3. CASE ~allow_push_preempt
  <2> SUFFICES ASSUME NEW p \in Writers, snap_w[p] = r_idx PROVE FALSE
    OBVIOUS
  <2>1. Minus(r_idx, r_idx) >= Minus(l_idx, r_idx)
    BY <1>3 DEF Filled, Settled
  <2> QED BY <1>1, <2>1, Distance, SizesAssumption
<1> QED BY <1>2, <1>3 DEF Filled, Counted, Types, TypeOK

\* Up to its exchange, and when that fails, a pop changes nothing that is settled.
LEMMA PopPrelude ==
    ASSUME Filled, NEW c \in Poppers,
           \/ TryPop(c) \/ PopReadR(c) \/ PopReadL(c) \/ PopReadW(c) \/ PopSlot(c)
           \/ PopReturn(c) \/ (PopCas(c) /\ ~StillThere(c))
    PROVE  Settled' /\ \A d \in Poppers : Seen(d)'
<1>1. /\ c \in Threads /\ snap_r \in [Poppers -> Index] /\ r_idx \in Index
      /\ val \in [Threads -> Values \cup {NULL}]
  BY DEF Filled, Counted, Types, TypeOK, Threads
<1>2. /\ UNCHANGED <<shared, snap_w, allow_push_preempt>>
      /\ \A d \in Poppers \ {c} : snap_r'[d] = snap_r[d]
      /\ \A t \in Threads \ {c} : val'[t] = val[t]
  BY <1>1 DEF TryPop, PopReadR, PopReadL, PopReadW, PopSlot, PopReturn, PopCas, shared
<1>3. PICK from \in PopAt, to \in PopAt : Go(c, from, to)
  BY DEF TryPop, PopReadR, PopReadL, PopReadW, PopSlot, PopReturn, PopCas, PopAt
<1>4. /\ pc[c] = from /\ pc'[c] = to /\ Writers' = Writers
  BY <1>3, PopSets DEF Filled, Counted
<1>5. Seen(c)'
  <2>1. CASE to \notin {"slot", "cas", "popped"}
    BY <1>4, <2>1 DEF Seen
  <2>2. CASE PopReadW(c) /\ to = "slot"
    <3>1. /\ pc[c] = "readW" /\ snap_r'[c] = snap_r[c]
          /\ ~Unfilled(snap_l[c]) /\ snap_r[c] # snap_l[c]
      BY <1>4, <2>2, GoIs DEF PopReadW, PopAt, Filled, Counted, Threads
    <3>2. snap_r[c] = r_idx => \A p \in Writers : snap_w[p] # r_idx
      BY <3>1, NotEmptySettles
    <3> QED BY <1>2, <1>4, <2>2, <3>1, <3>2 DEF Seen, shared
  <2>3. CASE PopSlot(c)
    <3>1. /\ pc[c] = "slot" /\ to = "cas" /\ snap_r'[c] = snap_r[c]
          /\ val'[c] = mem[Slot(snap_r[c])]
      BY <1>1, <1>4, <2>3, GoIs DEF PopSlot, PopAt, Filled, Counted
    <3> QED BY <1>2, <1>4, <3>1 DEF Filled, Seen, shared
  <2>4. to \notin {"slot", "cas", "popped"} \/ (PopReadW(c) /\ to = "slot") \/ PopSlot(c)
    <3>1. \A f, t : Go(c, f, t) /\ t \in PopAt => to = t
      BY <1>1, <1>4, GoIs DEF Filled, Counted
    <3> QED BY <3>1 DEF TryPop, PopReadR, PopReadL, PopReadW, PopReturn, PopCas, PopAt
  <2> QED BY <2>1, <2>2, <2>3, <2>4
<1> QED BY <1>2, <1>3, <1>5, PopKeeps

\* The exchange gives up the oldest claimed slot to the popper that read it.
LEMMA TakeSettles ==
    ASSUME Filled, NEW c \in Poppers, PopCas(c), StillThere(c)
    PROVE  /\ Writers' = Writers /\ Size' = Size - 1 /\ Size > 0 /\ r_idx' = Inc(r_idx)
           /\ \A p \in Writers : snap_w[p] # r_idx
           /\ val[c] = mem[Slot(r_idx)] /\ val[c] \in Values
           /\ Settled' /\ \A d \in Poppers : Seen(d)'
<1>1. /\ UNCHANGED <<w_idx, l_idx, mem, snap_w, allow_push_preempt>>
      /\ Go(c, "cas", "popped") /\ r_idx' = Inc(r_idx) /\ snap_r[c] = r_idx /\ val' = val
      /\ \A d \in Poppers \ {c} : snap_r'[d] = snap_r[d]
  BY DEF PopCas, StillThere, Filled, Counted, Types, TypeOK
<1>2. /\ Writers' = Writers
      /\ pc[c] = "cas" /\ pc'[c] = "popped" /\ \A d \in Poppers \ {c} : pc'[d] = pc[d]
      /\ \A p \in Pushers : pc'[p] = pc[p]
  BY <1>1, PopSets DEF Filled, Counted, PopAt
<1>3. l_idx # r_idx /\ \A p \in Writers : snap_w[p] # r_idx
  BY <1>1, <1>2 DEF Filled, Counted, PopCopy, Seen
<1>4. /\ Size \in Nat /\ Size > 0 /\ r_idx \in Index /\ w_idx \in Index /\ l_idx \in Index
      /\ Minus(r_idx, r_idx) = 0 /\ r_idx # w_idx /\ Size <= MemLen
      /\ Size < IndexRange /\ IndexRange \in Nat
  <2>1. Size \in Nat /\ Size > 0 /\ Minus(r_idx, r_idx) = 0 /\ r_idx \in Index
    BY <1>3, Numbers, FrontIs DEF Filled, Counted
  <2>2. r_idx # w_idx
    BY <2>1 DEF Size
  <2> QED BY <2>1, <2>2, Numbers DEF Filled, Counted, Accounted
<1>5. val[c] = mem[Slot(r_idx)] /\ val[c] \in Values
  BY <1>1, <1>2, <1>3, <1>4 DEF Filled, Settled, Seen
<1>6. r_idx' \in Index /\ Size' = Size - 1 /\ Minus(l_idx, r_idx') = Minus(l_idx, r_idx) - 1
  BY <1>1, <1>3, <1>4, IncIs, Distance DEF Size
<1>7. ASSUME NEW i \in Index, i # r_idx PROVE Minus(i, r_idx') = Minus(i, r_idx) - 1
  BY <1>1, <1>4, <1>7, Distance
<1>8. ASSUME NEW i \in Index, Minus(i, r_idx') < Size' PROVE i # r_idx /\ Minus(i, r_idx) < Size
  <2>1. Minus(r_idx', r_idx) = 1
    <3>1. IndexRange > 1
      BY <1>4
    <3> QED BY <1>1, <1>4, Distance
  <2>2. Minus(i, r_idx') \in Nat /\ Minus(i, r_idx') + 1 < IndexRange
    BY <1>4, <1>6, <1>8, Distance
  <2>3. Minus(i, r_idx) = Minus(i, r_idx') + 1
    BY <1>4, <1>6, <2>1, <2>2, DistancesAdd
  <2> QED BY <1>4, <1>6, <1>8, <2>2, <2>3
<1> HIDE DEF Writers, Size
<1>9. Settled'
  <2>1. \A p \in Writers' : Minus(snap_w'[p], r_idx') < Size'
    <3> SUFFICES ASSUME NEW p \in Writers PROVE Minus(snap_w[p], r_idx') < Size'
      BY <1>1, <1>2
    <3>1. /\ Minus(snap_w[p], r_idx) < Size /\ snap_w[p] \in Index
          /\ Minus(snap_w[p], r_idx) \in Int
      BY <1>4, WriterIs, Distance DEF Filled, Settled
    <3> QED BY <1>3, <1>4, <1>6, <1>7, <3>1
  <2>2. \A p, q \in Writers' : snap_w'[p] = snap_w'[q] => p = q
    BY <1>1, <1>2 DEF Filled, Settled
  <2>3. ~allow_push_preempt' =>
          \A p \in Writers' : Minus(snap_w'[p], r_idx') >= Minus(l_idx', r_idx')
    <3> SUFFICES ASSUME ~allow_push_preempt, NEW p \in Writers
                 PROVE  Minus(snap_w[p], r_idx') >= Minus(l_idx, r_idx')
      BY <1>1, <1>2
    <3>1. /\ Minus(snap_w[p], r_idx) >= Minus(l_idx, r_idx) /\ snap_w[p] \in Index
          /\ Minus(snap_w[p], r_idx) \in Int /\ Minus(l_idx, r_idx) \in Int
      BY <1>4, WriterIs, Distance DEF Filled, Settled
    <3> QED BY <1>3, <1>6, <1>7, <3>1
  <2>4. \A p \in Pushers : pc'[p] = "commit" => mem'[Slot(snap_w'[p])] = val'[p]
    BY <1>1, <1>2 DEF Filled, Settled
  <2>5. \A p \in Pushers : pc'[p] # "idle" => val'[p] \in Values
    BY <1>1, <1>2 DEF Filled, Settled
  <2>6. \A i \in Index : /\ Minus(i, r_idx') < Size'
                         /\ \A p \in Writers' : snap_w'[p] # i
                         => mem'[Slot(i)] \in Values
    BY <1>1, <1>2, <1>8 DEF Filled, Settled
  <2> QED BY <2>1, <2>2, <2>3, <2>4, <2>5, <2>6 DEF Settled
<1>10. ASSUME NEW d \in Poppers PROVE Seen(d)'
  <2>1. CASE d = c
    BY <1>2, <1>1, <1>5, <2>1 DEF Seen
  <2>2. CASE d # c
    <3>1. pc[d] \in {"slot", "cas"} => snap_r[d] # r_idx'
      <4> SUFFICES ASSUME pc[d] \in {"slot", "cas"}, snap_r[d] = r_idx' PROVE FALSE
        OBVIOUS
      <4>1. /\ Minus(r_idx, r_idx') + Size + Left <= MaxCalls
        BY DEF Filled, Counted, PopCopy
      <4>2. Minus(r_idx', r_idx) = 1
        <5>1. IndexRange > 1
          BY <1>4
        <5> QED BY <1>1, <1>4, <5>1, Distance
      <4>3. Minus(r_idx, r_idx') \in Nat /\ Minus(r_idx, r_idx') + 1 < IndexRange
        BY <1>4, <1>6, <4>1, Numbers, Distance DEF Filled, Counted
      <4>4. Minus(r_idx, r_idx) = Minus(r_idx, r_idx') + 1
        BY <1>4, <1>6, <4>2, <4>3, DistancesAdd
      <4> QED BY <1>4, <4>3, <4>4
    <3> QED BY <1>1, <1>2, <2>2, <3>1 DEF Filled, Seen
  <2> QED BY <2>1, <2>2
<1> QED BY <1>1, <1>2, <1>3, <1>4, <1>5, <1>6, <1>9, <1>10

\* A cleared queue holds nothing.
LEMMA ClearSettles ==
    ASSUME Filled, Clear
    PROVE  Size' = 0 /\ Writers = {} /\ Settled' /\ \A c \in Poppers : Seen(c)'
<1>1. /\ r_idx' = 0 /\ w_idx' = 0 /\ pc' = pc
      /\ \A t \in Threads : pc[t] = "idle"
      /\ 0 \in Index
  BY SizesAssumption DEF Clear, local, Index
<1>2. Writers = {} /\ Writers' = {}
  BY <1>1 DEF Writers, Threads
<1>3. Size' = 0
  BY <1>1, Distance DEF Size
<1>4. \A i \in Index : ~(Minus(i, 0) < 0)
  BY <1>1, Distance, SizesAssumption
<1>5. Settled'
  BY <1>1, <1>2, <1>3, <1>4 DEF Settled, Threads
<1> QED BY <1>1, <1>2, <1>3, <1>5 DEF Seen, Threads

\* The invariant holds at the start and through every step.
LEMMA FilledHolds == (Init => Filled) /\ (Filled /\ [Next]_vars => Filled')
<1>1. ASSUME Init PROVE Filled
  <2>1. Counted
    BY <1>1, CountedHolds
  <2>2. /\ r_idx \in Index /\ w_idx = r_idx /\ \A t \in Threads : pc[t] = "idle"
    BY <1>1, SizesAssumption DEF Init, Index
  <2>3. Writers = {} /\ Size = 0
    BY <2>2, Distance DEF Writers, Threads, Size
  <2>4. \A i \in Index : ~(Minus(i, r_idx) < 0)
    BY <2>2, Distance, SizesAssumption
  <2> QED BY <2>1, <2>2, <2>3, <2>4 DEF Filled, Settled, Seen, Threads
<1>2. ASSUME Filled, [Next]_vars PROVE Filled'
  <2>1. Counted'
    BY <1>2, CountedHolds DEF Filled
  <2>2. CASE Next
    <3>1. Settled' /\ \A c \in Poppers : Seen(c)'
      BY <1>2, <2>2, PushPrelude, ClaimSettles, WriteSettles, CommitSettles, PopPrelude,
         TakeSettles, ClearSettles
      DEF Next, PushStep, PopStep
    <3> QED BY <2>1, <3>1 DEF Filled
  <2>3. CASE UNCHANGED vars
    BY <1>2, <2>1, <2>3 DEF Filled, vars, shared, local, Settled, Seen, Writers, Size
  <2> QED BY <1>2, <2>2, <2>3
<1> QED BY <1>1, <1>2

-----------------------------------------------------------------------------
\* The places of ClaimQueue.

Queue == [i \in 1 .. Size |-> PlaceAt(i)]

Got == [c \in Poppers |-> IF pc[c] = "popped" THEN val[c] ELSE NULL]

\* A claimed slot is its pusher's until it has been counted; then it is what was pushed.
Places ==
    /\ Size \in Nat /\ Size <= MemLen
    /\ DOMAIN Queue = 1 .. Size /\ Len(Queue) = Size /\ Queue \in Seq(Fifo!Place)
    /\ Got \in [Poppers -> Values \cup {NULL}]
    /\ \A i \in 1 .. Size :
          /\ IndexAt(i) \in Index /\ Minus(IndexAt(i), r_idx) = i - 1
          /\ \A p \in Writers : snap_w[p] = IndexAt(i) => Queue[i] = [val |-> val[p], by |-> p]
          /\ (\A p \in Writers : snap_w[p] # IndexAt(i))
                => /\ mem[Slot(IndexAt(i))] \in Values
                   /\ Queue[i] = [val |-> mem[Slot(IndexAt(i))], by |-> NULL]

\* What the mapping reads as a place is a place.
LEMMA PlaceIs == Filled => Places
<1> SUFFICES ASSUME Filled PROVE Places
  OBVIOUS
<1>1. /\ Size \in Nat /\ Size <= MemLen /\ Size < IndexRange /\ r_idx \in Index
      /\ IndexRange \in Nat
  BY Numbers DEF Filled, Counted, Accounted
<1>2. ASSUME NEW i \in 1 .. Size
      PROVE  IndexAt(i) \in Index /\ Minus(IndexAt(i), r_idx) = i - 1
  <2>1. i \in 1 .. IndexRange
    BY <1>1
  <2> QED BY <1>1, <2>1, PlaceOfIndex DEF IndexAt
<1>3. ASSUME NEW i \in 1 .. Size, NEW p \in Writers, snap_w[p] = IndexAt(i)
      PROVE  PlaceAt(i) = [val |-> val[p], by |-> p]
  <2>1. Claimant(i) = {p}
    BY <1>3 DEF Claimant, Writers, Filled, Settled
  <2>2. Claimant(i) # {} /\ (CHOOSE q \in Claimant(i) : TRUE) = p
    BY <2>1
  <2> QED BY <2>2 DEF PlaceAt
<1>4. ASSUME NEW i \in 1 .. Size, \A p \in Writers : snap_w[p] # IndexAt(i)
      PROVE  /\ mem[Slot(IndexAt(i))] \in Values
             /\ PlaceAt(i) = [val |-> mem[Slot(IndexAt(i))], by |-> NULL]
  <2>1. Claimant(i) = {}
    BY <1>4 DEF Claimant, Writers
  <2>2. Minus(IndexAt(i), r_idx) < Size
    BY <1>1, <1>2
  <2> QED BY <1>2, <1>4, <2>1, <2>2 DEF PlaceAt, Filled, Settled
<1>5. \A i \in 1 .. Size : PlaceAt(i) \in Fifo!Place
  <2> SUFFICES ASSUME NEW i \in 1 .. Size PROVE PlaceAt(i) \in Fifo!Place
    OBVIOUS
  <2>1. CASE \E p \in Writers : snap_w[p] = IndexAt(i)
    BY <1>3, <2>1, WriterIs DEF Fifo!Place
  <2>2. CASE \A p \in Writers : snap_w[p] # IndexAt(i)
    BY <1>4, <2>2 DEF Fifo!Place
  <2> QED BY <2>1, <2>2
<1> HIDE DEF PlaceAt
<1>6. Queue \in [1 .. Size -> Fifo!Place] /\ \A i \in 1 .. Size : Queue[i] = PlaceAt(i)
  BY <1>5 DEF Queue
<1>7. DOMAIN Queue = 1 .. Size /\ Len(Queue) = Size /\ Queue \in Seq(Fifo!Place)
  BY <1>1, <1>6
<1>8. Got \in [Poppers -> Values \cup {NULL}]
  BY DEF Got, Filled, Seen
<1> QED BY <1>1, <1>2, <1>3, <1>4, <1>6, <1>7, <1>8 DEF Places

\* Two queues of the same length and places are one.
LEMMA SameQueue ==
    ASSUME NEW s \in Seq(Fifo!Place), NEW t \in Seq(Fifo!Place), Len(s) = Len(t),
           \A i \in 1 .. Len(s) : s[i] = t[i]
    PROVE  s = t
BY SeqEqual

\* The same of the next state.
LEMMA PlaceIsNext == Filled' => Places'
BY PlaceIs, PTL

-----------------------------------------------------------------------------
\* Each step is a step of ClaimQueue or leaves its queue and results alone.

\* The mapped queue depends only on the indices, the claims and the claimed slots that
\* are filled.
LEMMA QueueKept ==
    ASSUME Filled, Filled', UNCHANGED <<r_idx, w_idx>>, Writers' = Writers,
           \A p \in Writers : snap_w'[p] = snap_w[p] /\ val'[p] = val[p],
           \A i \in Index : /\ Minus(i, r_idx) < Size
                            /\ \A p \in Writers : snap_w[p] # i
                            => mem'[Slot(i)] = mem[Slot(i)]
    PROVE  Queue' = Queue
<1>1. Places /\ Places'
  BY PlaceIs, PlaceIsNext
<1>2. Size' = Size /\ \A i : IndexAt(i)' = IndexAt(i)
  BY DEF Size, IndexAt
<1> HIDE DEF Size, IndexAt, Queue, Writers
<1>3. ASSUME NEW i \in 1 .. Size PROVE Queue'[i] = Queue[i]
  <2>1. CASE \E p \in Writers : snap_w[p] = IndexAt(i)
    BY <1>1, <1>2, <2>1 DEF Places
  <2>2. CASE \A p \in Writers : snap_w[p] # IndexAt(i)
    <3>1. IndexAt(i) \in Index /\ Minus(IndexAt(i), r_idx) < Size
      <4>1. Size \in Nat /\ IndexAt(i) \in Index /\ Minus(IndexAt(i), r_idx) = i - 1
        BY <1>1 DEF Places
      <4> QED BY <4>1
    <3>2. mem'[Slot(IndexAt(i))] = mem[Slot(IndexAt(i))]
      BY <2>2, <3>1
    <3>3. Queue[i] = [val |-> mem[Slot(IndexAt(i))], by |-> NULL]
      BY <1>1, <2>2 DEF Places
    <3>4. Queue'[i] = [val |-> mem'[Slot(IndexAt(i))], by |-> NULL]
      BY <1>1, <1>2, <2>2 DEF Places
    <3> QED BY <3>2, <3>3, <3>4
  <2> QED BY <2>1, <2>2
<1> QED BY <1>1, <1>2, <1>3, SameQueue DEF Places

\* What has been popped depends only on the calls that are about to return.
LEMMA GotKept ==
    ASSUME \A c \in Poppers : /\ pc'[c] = "popped" <=> pc[c] = "popped"
                              /\ pc[c] = "popped" => val'[c] = val[c]
    PROVE  Got' = Got
BY DEF Got

\* No claim stands where a pusher has none.
LEMMA ClaimsAre ==
    ASSUME Filled
    PROVE  \A p \in Pushers : Fifo!Claims(p) = {i \in 1 .. Size : p \in Writers /\ snap_w[p] = IndexAt(i)}
<1>1. Places
  BY PlaceIs
<1>2. ASSUME NEW p \in Pushers, NEW i \in 1 .. Size
      PROVE  Queue[i].by = p <=> p \in Writers /\ snap_w[p] = IndexAt(i)
  <2>1. CASE \E q \in Writers : snap_w[q] = IndexAt(i)
    <3>1. PICK q \in Writers : snap_w[q] = IndexAt(i)
      BY <2>1
    <3>2. Queue[i].by = q
      BY <1>1, <3>1 DEF Places
    <3> QED BY <3>1, <3>2 DEF Filled, Settled
  <2>2. CASE \A q \in Writers : snap_w[q] # IndexAt(i)
    <3>1. Queue[i].by = NULL
      BY <1>1, <2>2 DEF Places
    <3> QED BY <2>2, <3>1, SizesAssumption
  <2> QED BY <2>1, <2>2
<1> QED BY <1>1, <1>2 DEF Fifo!Claims, Places, Queue

\* The steps between claim, commit and exchange are stutters of the FIFO.
LEMMA QuietImplements ==
    ASSUME Filled, Filled',
           \/ \E p \in Pushers : \/ \E v \in Values : TryPush(p, v)
                                 \/ PushReadW(p) \/ PushReadR(p)
                                 \/ PushCas(p) /\ w_idx # snap_w[p]
                                 \/ PushWrite(p)
           \/ \E c \in Poppers : \/ TryPop(c) \/ PopReadR(c) \/ PopReadL(c) \/ PopReadW(c)
                                 \/ PopSlot(c)
                                 \/ PopCas(c) /\ ~StillThere(c)
    PROVE  Queue' = Queue /\ Got' = Got
<1>0. /\ Types /\ val \in [Threads -> Values \cup {NULL}] /\ snap_w \in [Pushers -> Index]
  BY DEF Filled, Counted, Types, TypeOK
<1>1. ASSUME NEW p \in Pushers,
             \/ \E v \in Values : TryPush(p, v)
             \/ PushReadW(p) \/ PushReadR(p)
             \/ PushCas(p) /\ w_idx # snap_w[p]
             \/ PushWrite(p)
      PROVE  Queue' = Queue /\ Got' = Got
  <2>1. PICK from \in PushAt, to \in PushAt : Go(p, from, to)
    BY <1>1 DEF TryPush, PushReadW, PushReadR, PushCas, PushWrite, PushAt
  <2>2. \A c \in Poppers : pc'[c] = pc[c] /\ val'[c] = val[c]
    BY <1>0, <1>1, <2>1, GoIs, SizesAssumption
    DEF TryPush, PushReadW, PushReadR, PushDone, PushCas, PushWrite, Threads
  <2>3. Got' = Got
    BY <2>2, GotKept
  <2>4. CASE PushWrite(p)
    <3>1. /\ UNCHANGED <<r_idx, w_idx, snap_w, val>> /\ Writers' = Writers /\ p \in Writers
          /\ \A i \in Index : Minus(i, r_idx) < Size /\ i # snap_w[p]
                                => mem'[Slot(i)] = mem[Slot(i)]
      BY <2>4, WriteSettles DEF PushWrite, Writers, Go
    <3> QED BY <2>3, <3>1, QueueKept
  <2>5. CASE ~PushWrite(p)
    <3>1. /\ UNCHANGED <<r_idx, w_idx, mem>>
          /\ \A q \in Pushers \ {p} : snap_w'[q] = snap_w[q] /\ val'[q] = val[q]
      BY <1>0, <1>1, <2>5, SizesAssumption
      DEF TryPush, PushReadW, PushReadR, PushDone, PushCas, Threads, shared
    <3>2. PICK f \in {"idle", "readW", "readR", "cas"}, t \in {"idle", "readW", "readR", "cas"} :
            Go(p, f, t)
      BY <1>1, <2>5 DEF TryPush, PushReadW, PushReadR, PushCas
    <3>3. p \notin Writers /\ Writers' = Writers
      BY <1>0, <3>2, PushSets DEF PushAt
    <3> QED BY <2>3, <3>1, <3>3, QueueKept, WriterIs
  <2> QED BY <2>4, <2>5
<1>2. ASSUME NEW c \in Poppers,
             \/ TryPop(c) \/ PopReadR(c) \/ PopReadL(c) \/ PopReadW(c) \/ PopSlot(c)
             \/ PopCas(c) /\ ~StillThere(c)
      PROVE  Queue' = Queue /\ Got' = Got
  <2>1. PICK from \in PopAt \ {"popped"}, to \in PopAt \ {"popped"} : Go(c, from, to)
    BY <1>2 DEF TryPop, PopReadR, PopReadL, PopReadW, PopSlot, PopCas, PopAt
  <2>2. /\ UNCHANGED <<r_idx, w_idx, mem, snap_w>>
        /\ \A t \in Threads \ {c} : val'[t] = val[t]
    BY <1>0, <1>2 DEF TryPop, PopReadR, PopReadL, PopReadW, PopSlot, PopCas, shared
  <2>3. /\ Writers' = Writers /\ pc[c] # "popped" /\ pc'[c] # "popped"
        /\ \A d \in Poppers \ {c} : pc'[d] = pc[d] /\ val'[d] = val[d]
        /\ \A p \in Writers : val'[p] = val[p]
    BY <1>0, <2>1, <2>2, PopSets, WriterIs, SizesAssumption DEF Threads
  <2> QED BY <2>2, <2>3, QueueKept, GotKept
<1> QED BY <1>1, <1>2

\* The exchange claims a place at the back.
LEMMA ClaimImplements ==
    ASSUME Filled, Filled', NEW p \in Pushers, PushCas(p), w_idx = snap_w[p]
    PROVE  Fifo!Claim(p, val[p]) /\ val[p] \in Values
<1>1. Places /\ Places'
  BY PlaceIs, PlaceIsNext
<1>2. /\ p \notin Writers /\ Writers' = Writers \cup {p} /\ Size' = Size + 1
      /\ UNCHANGED <<r_idx, mem, snap_w, val>> /\ pc[p] = "cas"
      /\ \A c \in Poppers : pc'[c] = pc[c]
  BY ClaimSettles, PushSets DEF PushCas, Go, PushAt, Filled, Counted
<1>3. val[p] \in Values
  BY <1>2 DEF Filled, Settled
<1>4. \A i : IndexAt(i)' = IndexAt(i)
  BY <1>2 DEF IndexAt
<1>5. snap_w[p] = IndexAt(Size + 1) /\ \A i \in 1 .. Size : snap_w[p] # IndexAt(i)
  <2>1. w_idx \in Index /\ r_idx \in Index
    BY DEF Filled, Counted, Types, TypeOK
  <2>2. \A i \in 1 .. Size : Minus(IndexAt(i), r_idx) # Size
    BY <1>1 DEF Places
  <2> QED BY <2>1, <2>2, PlaceOfIndex DEF Size, IndexAt
<1> DEFINE new == [val |-> val[p], by |-> p]
<1> HIDE DEF Size, IndexAt, Queue, Writers
<1>6. new \in Fifo!Place
  BY <1>3 DEF Fifo!Place
<1>7. ASSUME NEW i \in 1 .. Size PROVE Queue'[i] = Queue[i]
  <2>1. i \in 1 .. Size'
    BY <1>1, <1>2 DEF Places
  <2>2. CASE \E q \in Writers : snap_w[q] = IndexAt(i)
    BY <1>1, <1>2, <1>4, <2>1, <2>2 DEF Places
  <2>3. CASE \A q \in Writers : snap_w[q] # IndexAt(i)
    <3>1. \A q \in Writers' : snap_w'[q] # IndexAt(i)'
      BY <1>2, <1>4, <1>5, <2>3
    <3>2. Queue'[i] = [val |-> mem[Slot(IndexAt(i))], by |-> NULL]
      BY <1>1, <1>2, <1>4, <2>1, <3>1 DEF Places
    <3> QED BY <1>1, <2>3, <3>2 DEF Places
  <2> QED BY <2>2, <2>3
<1>8. Queue'[Size + 1] = new
  <2>1. Size + 1 \in 1 .. Size'
    BY <1>1, <1>2 DEF Places
  <2> QED BY <1>1, <1>2, <1>4, <1>5, <2>1 DEF Places
<1>9. Queue' = Append(Queue, new)
  <2>1. /\ Append(Queue, new) \in Seq(Fifo!Place) /\ Len(Append(Queue, new)) = Size + 1
        /\ \A i \in 1 .. Size : Append(Queue, new)[i] = Queue[i]
        /\ Append(Queue, new)[Size + 1] = new
    <3> HIDE DEF new
    <3> QED BY <1>1, <1>6, AppendProperties DEF Places
  <2>2. \A i \in 1 .. Size + 1 : Queue'[i] = Append(Queue, new)[i]
    <3>1. \A i \in 1 .. Size + 1 : i \in 1 .. Size \/ i = Size + 1
      BY <1>1 DEF Places
    <3> QED BY <1>7, <1>8, <2>1, <3>1
  <2> QED BY <1>1, <1>2, <2>1, <2>2, SameQueue DEF Places
<1>10. Fifo!Claims(p) = {}
  BY <1>2, ClaimsAre
<1>11. Len(Queue) < MemLen
  <2>1. Len(Queue) = Size /\ Size \in Nat /\ Size + 1 <= MemLen
    BY <1>1, <1>2 DEF Places
  <2> QED BY <2>1, SizesAssumption
<1>12. Got' = Got
  BY <1>2, GotKept
<1> QED BY <1>3, <1>9, <1>10, <1>11, <1>12 DEF Fifo!Claim, Queue, Got

\* Counting a slot fills its place.
LEMMA CommitImplements ==
    ASSUME Filled, Filled', NEW p \in Pushers, PushCommit(p)
    PROVE  Fifo!Fill(p)
<1>1. Places /\ Places'
  BY PlaceIs, PlaceIsNext
<1>2. /\ p \in Writers /\ Writers' = Writers \ {p} /\ Size' = Size
      /\ UNCHANGED <<r_idx, mem>> /\ pc[p] = "commit"
      /\ \A q \in Pushers \ {p} : snap_w'[q] = snap_w[q] /\ val'[q] = val[q]
      /\ \A c \in Poppers : pc'[c] = pc[c] /\ val'[c] = val[c]
  <2>1. p \in Writers /\ Writers' = Writers \ {p} /\ Size' = Size
    BY CommitSettles
  <2>2. pc[p] = "commit" /\ \A c \in Poppers : pc'[c] = pc[c]
    BY PushSets DEF PushCommit, PushAt, Filled, Counted
  <2>3. /\ UNCHANGED <<r_idx, mem>>
        /\ \A q \in Pushers \ {p} : snap_w'[q] = snap_w[q] /\ val'[q] = val[q]
        /\ \A c \in Poppers : val'[c] = val[c]
    BY SizesAssumption DEF PushCommit, PushDone, Filled, Counted, Types, TypeOK, Threads
  <2> QED BY <2>1, <2>2, <2>3
<1>3. /\ \A q \in Writers' : q \in Writers /\ q # p /\ snap_w'[q] = snap_w[q] /\ val'[q] = val[q]
      /\ \A q \in Writers : q # p => q \in Writers' /\ snap_w[q] # snap_w[p]
      /\ mem[Slot(snap_w[p])] = val[p] /\ snap_w[p] \in Index
  BY <1>2, WriterIs DEF Filled, Settled
<1>4. \A i : IndexAt(i)' = IndexAt(i)
  BY <1>2 DEF IndexAt
<1>5. PICK i \in 1 .. Size : snap_w[p] = IndexAt(i)
  <2>1. /\ r_idx \in Index /\ Minus(snap_w[p], r_idx) < Size
        /\ Minus(snap_w[p], r_idx) \in Nat /\ Size \in Nat
    BY <1>2, <1>3, Numbers, Distance DEF Filled, Counted, Settled
  <2>2. Minus(snap_w[p], r_idx) + 1 \in 1 .. Size
    BY <2>1
  <2>3. snap_w[p] = IndexAt(Minus(snap_w[p], r_idx) + 1)
    BY <1>3, <2>1, PlaceOfIndex DEF IndexAt
  <2> QED BY <2>2, <2>3
<1>6. \A j \in 1 .. Size : j # i => snap_w[p] # IndexAt(j)
  <2> SUFFICES ASSUME NEW j \in 1 .. Size, snap_w[p] = IndexAt(j) PROVE j = i
    OBVIOUS
  <2>1. Minus(snap_w[p], r_idx) = j - 1 /\ Minus(snap_w[p], r_idx) = i - 1
    BY <1>1, <1>5 DEF Places
  <2> QED BY <2>1
<1> HIDE DEF Size, IndexAt, Queue, Writers
<1>7. ASSUME NEW j \in 1 .. Size, j # i PROVE Queue'[j] = Queue[j]
  <2>1. j \in 1 .. Size'
    BY <1>2
  <2>2. CASE \E q \in Writers : snap_w[q] = IndexAt(j)
    <3>1. PICK q \in Writers : snap_w[q] = IndexAt(j)
      BY <2>2
    <3>2. q \in Writers' /\ snap_w'[q] = IndexAt(j)' /\ val'[q] = val[q]
      BY <1>3, <1>4, <1>6, <1>7, <3>1
    <3> QED BY <1>1, <2>1, <3>1, <3>2 DEF Places
  <2>3. CASE \A q \in Writers : snap_w[q] # IndexAt(j)
    <3>1. \A q \in Writers' : snap_w'[q] # IndexAt(j)'
      BY <1>3, <1>4, <2>3
    <3>2. Queue'[j] = [val |-> mem[Slot(IndexAt(j))], by |-> NULL]
      BY <1>1, <1>2, <1>4, <2>1, <3>1 DEF Places
    <3> QED BY <1>1, <2>3, <3>2 DEF Places
  <2> QED BY <2>2, <2>3
<1>8. Queue'[i] = [val |-> val[p], by |-> NULL]
  <2>1. i \in 1 .. Size'
    BY <1>2
  <2>2. \A q \in Writers' : snap_w'[q] # IndexAt(i)'
    BY <1>3, <1>4, <1>5
  <2>3. Queue'[i] = [val |-> mem[Slot(IndexAt(i))], by |-> NULL]
    BY <1>1, <1>2, <1>4, <2>1, <2>2 DEF Places
  <2> QED BY <1>3, <1>5, <2>3
<1>9. Queue[i] = [val |-> val[p], by |-> p]
  BY <1>1, <1>2, <1>5 DEF Places
<1>10. Queue' = [Queue EXCEPT ![i].by = NULL]
  <2> DEFINE filled == [Queue EXCEPT ![i].by = NULL]
             place == [val |-> val[p], by |-> NULL]
  <2>0. [Queue[i] EXCEPT !.by = NULL] = place
    BY <1>9
  <2>1. filled = [Queue EXCEPT ![i] = place]
    <3> HIDE DEF place
    <3> QED BY <2>0, Zenon
  <2>2. place \in Fifo!Place
    BY <1>2, WriterIs DEF Fifo!Place
  <2>3. place = Queue'[i]
    BY <1>8
  <2> HIDE DEF place
  <2>4. [Queue EXCEPT ![i] = place] \in Seq(Fifo!Place) /\ Len([Queue EXCEPT ![i] = place]) = Size
    BY <1>1, <2>2, ExceptSeq DEF Places
  <2>5. \A j \in 1 .. Size : [Queue EXCEPT ![i] = place][j] = Queue'[j]
    BY <1>1, <1>7, <2>3 DEF Places
  <2> QED BY <1>1, <1>2, <2>1, <2>4, <2>5, SameQueue DEF Places
<1>11. i \in Fifo!Claims(p)
  BY <1>2, <1>5, ClaimsAre
<1>12. Got' = Got
  BY <1>2, GotKept
<1> QED BY <1>10, <1>11, <1>12 DEF Fifo!Fill, Queue, Got

\* The exchange of a popper takes the front place, which has been filled.
LEMMA TakeImplements ==
    ASSUME Filled, Filled', NEW c \in Poppers, PopCas(c), StillThere(c)
    PROVE  Fifo!Take(c)
<1>1. Places /\ Places'
  BY PlaceIs, PlaceIsNext
<1>2. /\ Writers' = Writers /\ Size' = Size - 1 /\ Size > 0
      /\ \A p \in Writers : snap_w[p] # r_idx
      /\ val[c] = mem[Slot(r_idx)] /\ val[c] \in Values
      /\ UNCHANGED <<mem, snap_w, val>>
      /\ pc[c] = "cas" /\ pc'[c] = "popped" /\ \A d \in Poppers \ {c} : pc'[d] = pc[d]
  BY TakeSettles, GoIs DEF PopCas, PopAt, Filled, Counted, Threads
<1>3. /\ r_idx \in Index /\ r_idx' \in Index /\ Size \in Nat /\ Size < IndexRange
      /\ Minus(r_idx', r_idx) = 1 /\ IndexRange \in Nat /\ IndexRange > 1
  <2>1. /\ r_idx \in Index /\ r_idx' \in Index /\ Size \in Nat /\ Size < IndexRange
        /\ Minus(r_idx, r_idx) = 0 /\ IndexRange \in Nat
    BY FrontIs, Numbers DEF Filled, Counted, Types, TypeOK, Accounted
  <2>2. IndexRange > 1
    BY <1>2, <2>1
  <2> QED BY <2>1, <2>2, TakeSettles, Distance
<1>4. IndexAt(1) = r_idx
  <2>1. Minus(r_idx, r_idx) + 1 = 1
    BY <1>3, Distance
  <2>2. (r_idx + (Minus(r_idx, r_idx) + 1) - 1) % IndexRange = r_idx
    BY <1>3, PlaceOfIndex
  <2> QED BY <2>1, <2>2 DEF IndexAt
<1>5. \A i \in 1 .. Size' : IndexAt(i)' = IndexAt(i + 1)
  <2> SUFFICES ASSUME NEW i \in 1 .. Size' PROVE IndexAt(i)' = IndexAt(i + 1)
    OBVIOUS
  <2>1. i + 1 \in 1 .. Size /\ i \in Int /\ i >= 1 /\ i < IndexRange
    BY <1>2, <1>3
  <2>2. IndexAt(i)' \in Index /\ Minus(IndexAt(i)', r_idx') = i - 1
    BY <1>1 DEF Places
  <2>3. IndexAt(i + 1) \in Index /\ Minus(IndexAt(i + 1), r_idx) = (i + 1) - 1
    BY <1>1, <2>1 DEF Places
  <2> HIDE DEF IndexAt
  <2>4. Minus(IndexAt(i)', r_idx) = (i - 1) + 1
    BY <1>3, <2>1, <2>2, DistancesAdd
  <2> QED BY <1>3, <2>1, <2>2, <2>3, <2>4, SameDistance
<1> HIDE DEF Size, IndexAt, Queue, Writers
<1>6. /\ 1 \in 1 .. Size /\ \A i \in 1 .. Size' : i + 1 \in 1 .. Size
      /\ Size - 1 \in Nat
  BY <1>2, <1>3
<1>7. ASSUME NEW i \in 1 .. Size' PROVE Queue'[i] = Queue[i + 1]
  <2>1. CASE \E q \in Writers : snap_w[q] = IndexAt(i + 1)
    <3>1. PICK q \in Writers : snap_w[q] = IndexAt(i + 1)
      BY <2>1
    <3>2. q \in Writers' /\ snap_w'[q] = IndexAt(i)' /\ val'[q] = val[q]
      BY <1>2, <1>5, <3>1
    <3>3. Queue[i + 1] = [val |-> val[q], by |-> q]
      BY <1>1, <1>6, <3>1 DEF Places
    <3>4. Queue'[i] = [val |-> val'[q], by |-> q]
      BY <1>1, <3>2 DEF Places
    <3> QED BY <3>2, <3>3, <3>4
  <2>2. CASE \A q \in Writers : snap_w[q] # IndexAt(i + 1)
    <3>1. \A q \in Writers' : snap_w'[q] # IndexAt(i)'
      BY <1>2, <1>5, <2>2
    <3>2. Queue'[i] = [val |-> mem[Slot(IndexAt(i + 1))], by |-> NULL]
      BY <1>1, <1>2, <1>5, <3>1 DEF Places
    <3> QED BY <1>1, <1>6, <2>2, <3>2 DEF Places
  <2> QED BY <2>1, <2>2
<1>8. Queue[1] = [val |-> val[c], by |-> NULL]
  BY <1>1, <1>2, <1>4, <1>6 DEF Places
<1>9. /\ Queue # << >> /\ Head(Queue) = Queue[1]
      /\ Tail(Queue) \in Seq(Fifo!Place) /\ Len(Tail(Queue)) = Size - 1
      /\ \A i \in 1 .. Size - 1 : Tail(Queue)[i] = Queue[i + 1]
  <2>1. Queue \in Seq(Fifo!Place) /\ Len(Queue) = Size /\ Queue # << >>
    BY <1>1, <1>2, EmptySeq DEF Places
  <2> QED BY <1>3, <2>1, HeadTailProperties
<1>10. Queue' = Tail(Queue)
  BY <1>1, <1>2, <1>7, <1>9, SameQueue DEF Places
<1>11. Got[c] = NULL /\ Got' = [Got EXCEPT ![c] = val[c]]
  BY <1>2 DEF Got
<1>12. Head(Queue).by = NULL /\ Head(Queue).val = val[c]
  BY <1>8, <1>9
<1> QED BY <1>9, <1>10, <1>11, <1>12 DEF Fifo!Take, Queue, Got

\* A pop that returns hands over what it took.
LEMMA ReturnImplements ==
    ASSUME Filled, Filled', NEW c \in Poppers, PopReturn(c)
    PROVE  Fifo!Return(c)
<1>1. /\ UNCHANGED <<r_idx, w_idx, mem, snap_w>>
      /\ \A t \in Threads \ {c} : val'[t] = val[t]
  BY DEF PopReturn, shared, Filled, Counted, Types, TypeOK
<1>2. /\ Writers' = Writers /\ pc[c] = "popped" /\ pc'[c] = "idle"
      /\ \A d \in Poppers \ {c} : pc'[d] = pc[d]
  BY PopSets DEF PopReturn, PopAt, Filled, Counted
<1>3. /\ \A d \in Poppers \ {c} : val'[d] = val[d]
      /\ \A p \in Writers : val'[p] = val[p]
  BY <1>1, WriterIs, PopSets, SizesAssumption DEF Threads
<1>4. Queue' = Queue
  BY <1>1, <1>2, <1>3, QueueKept
<1>5. Got[c] # NULL /\ Got' = [Got EXCEPT ![c] = NULL]
  BY <1>2, <1>3, SizesAssumption DEF Got, Filled, Seen
<1> QED BY <1>4, <1>5 DEF Fifo!Return, Queue, Got

\* Clear is the Clear of the FIFO.
LEMMA ClearImplements ==
    ASSUME Filled, Filled', Clear
    PROVE  Fifo!Clear
<1>1. Places /\ Places'
  BY PlaceIs, PlaceIsNext
<1>2. Size' = 0 /\ Writers = {} /\ UNCHANGED <<pc, val>>
  BY ClearSettles DEF Clear, local
<1>3. Queue' = << >>
  BY <1>1, <1>2, EmptySeq DEF Places
<1>4. \A p \in Pushers : Fifo!Claims(p) = {}
  BY <1>2, ClaimsAre
<1>5. Got' = Got
  BY <1>2 DEF Got
<1> QED BY <1>3, <1>4, <1>5 DEF Fifo!Clear, Queue, Got

\* The initial states map to the empty FIFO.
LEMMA InitImplements == Init => Fifo!Init
<1> SUFFICES ASSUME Init PROVE Fifo!Init
  OBVIOUS
<1>1. Filled /\ Size = 0 /\ \A c \in Poppers : pc[c] # "popped"
  BY FilledHolds, FrontIs DEF Init, Size, Threads
<1>2. Queue = << >>
  BY <1>1, PlaceIs, EmptySeq DEF Places
<1>3. Got = [c \in Poppers |-> NULL]
  BY <1>1 DEF Got
<1> QED BY <1>2, <1>3 DEF Fifo!Init, Queue, Got

\* Every step maps to a step of the FIFO or to a stutter.
LEMMA StepImplements == Filled /\ Filled' /\ [Next]_vars => [Fifo!Next]_(Fifo!vars)
<1> SUFFICES ASSUME Filled, Filled', [Next]_vars PROVE Fifo!Next \/ UNCHANGED <<Queue, Got>>
  BY DEF Fifo!vars, Queue, Got
<1>1. ASSUME NEW p \in Pushers, PushStep(p) \/ \E v \in Values : TryPush(p, v)
      PROVE  Fifo!Next \/ UNCHANGED <<Queue, Got>>
  <2>1. CASE PushCas(p) /\ w_idx = snap_w[p]
    <3>1. Fifo!Claim(p, val[p]) /\ val[p] \in Values
      BY <2>1, ClaimImplements
    <3> QED BY <3>1 DEF Fifo!Next
  <2>2. CASE PushCommit(p)
    BY <2>2, CommitImplements DEF Fifo!Next
  <2>3. CASE \/ \E v \in Values : TryPush(p, v)
             \/ PushReadW(p) \/ PushReadR(p)
             \/ PushCas(p) /\ w_idx # snap_w[p]
             \/ PushWrite(p)
    BY <2>3, QuietImplements
  <2> QED BY <1>1, <2>1, <2>2, <2>3 DEF PushStep
<1>2. ASSUME NEW c \in Poppers, PopStep(c) \/ TryPop(c)
      PROVE  Fifo!Next \/ UNCHANGED <<Queue, Got>>
  <2>1. CASE PopCas(c) /\ StillThere(c)
    BY <2>1, TakeImplements DEF Fifo!Next
  <2>2. CASE PopReturn(c)
    BY <2>2, ReturnImplements DEF Fifo!Next
  <2>3. CASE \/ TryPop(c) \/ PopReadR(c) \/ PopReadL(c) \/ PopReadW(c) \/ PopSlot(c)
             \/ PopCas(c) /\ ~StillThere(c)
    BY <2>3, QuietImplements
  <2> QED BY <1>2, <2>1, <2>2, <2>3 DEF PopStep
<1>3. CASE Clear
  BY <1>3, ClearImplements DEF Fifo!Next
<1>4. CASE UNCHANGED vars
  <2>1. Queue' = Queue /\ Got' = Got
    BY <1>4 DEF vars, shared, local, Queue, Got, Size, PlaceAt, Claimant, IndexAt
  <2> QED BY <2>1
<1> QED BY <1>1, <1>2, <1>3, <1>4 DEF Next

\* The queue is the bounded FIFO its header calls it, whatever the interleaving of
\* pushers and poppers and in both modes: nothing is lost, doubled, overtaken, or taken
\* before it has been filled (concurrent_queue.h:6).
THEOREM QueueIsFifo == Spec => IsFifo
<1>1. Spec => []Filled
  BY FilledHolds, PTL DEF Spec
<1> QED BY <1>1, InitImplements, StepImplements, PTL DEF Spec, IsFifo, Fifo!Spec
=============================================================================

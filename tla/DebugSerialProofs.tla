------------------------- MODULE DebugSerialProofs -------------------------
(***************************************************************************)
(* Proofs about DebugSerial, for any number of printing contexts, any      *)
(* queue and buffer and any number of bytes.  What the queue and the       *)
(* transmitter promise each other needs that no interrupt prints between   *)
(* the register writes of another's wake-up (~WindowPrints): with one that *)
(* does, a byte may stay for ever, see MainPrintReturns.                   *)
(***************************************************************************)
EXTENDS DebugSerial, FiniteSetTheorems, SequenceTheorems, TLAPS

-----------------------------------------------------------------------------
\* Types and bounds.

Pushing == {x \in Contexts : pc[x] = "push"}

\* The bytes granted, being pushed and still to come are no more than MaxPrints; all
\* the buffer has promised to the transmitter or the DMA is bytes.
Bounded ==
    /\ pc \in [Contexts -> {"idle", "push", "fill", "wake", "tcOff", "txeOn"}]
    /\ queue \in Seq(Q!Place) /\ Len(queue) <= QueueLen
    /\ mem \in [1 .. BufLen -> Bytes \cup {NULL}]
    /\ filled \in 0 .. BufLen /\ popped \in 0 .. filled
    /\ txe_it \in BOOLEAN /\ tc_it \in BOOLEAN /\ dmat \in BOOLEAN
    /\ dma_next \in 1 .. BufLen + 1 /\ dma_end \in 0 .. BufLen
    /\ sent \in Nat /\ line \in Bytes \cup {0}
    /\ accepted \in Nat /\ prints \in Nat
    /\ accepted + prints + Cardinality(Pushing) <= MaxPrints
    /\ \A i \in 1 .. BufLen : i <= filled \/ i <= dma_end => mem[i] \in Bytes

\* One context more or less at its push counts as one.
LEMMA PushingCounted ==
    /\ Cardinality(Pushing) \in Nat
    /\ \A x \in Pushing : /\ Cardinality(Pushing) # 0
                          /\ Cardinality(Pushing \ {x}) = Cardinality(Pushing) - 1
    /\ \A x \in Contexts \ Pushing : Cardinality(Pushing \cup {x}) = Cardinality(Pushing) + 1
<1>1. IsFiniteSet(Contexts)
  BY SerialAssumption, FS_Interval DEF Contexts
<1>2. IsFiniteSet(Pushing)
  BY <1>1, FS_Subset DEF Pushing
<1> QED BY <1>2, FS_CardinalityType, FS_AddElement, FS_RemoveElement, FS_EmptySet

\* A context moves from one point to another while all above it are done.
LEMMA GoIs ==
    ASSUME Bounded, NEW x \in Contexts, NEW from,
           NEW to \in {"idle", "push", "fill", "wake", "tcOff", "txeOn"}, Go(x, from, to)
    PROVE  /\ pc' \in [Contexts -> {"idle", "push", "fill", "wake", "tcOff", "txeOn"}]
           /\ pc[x] = from /\ pc'[x] = to /\ \A y \in Contexts \ {x} : pc'[y] = pc[y]
           /\ \A y \in Contexts : y > x => pc[y] = "idle"
           /\ from # "push" /\ to # "push" => Pushing' = Pushing
           /\ from # "push" /\ to = "push" => x \notin Pushing /\ Pushing' = Pushing \cup {x}
           /\ from = "push" /\ to # "push" => x \in Pushing /\ Pushing' = Pushing \ {x}
<1>1. /\ pc' \in [Contexts -> {"idle", "push", "fill", "wake", "tcOff", "txeOn"}]
      /\ pc[x] = from /\ pc'[x] = to /\ \A y \in Contexts \ {x} : pc'[y] = pc[y]
  BY DEF Bounded, Go
<1>2. \A y \in Contexts : y > x => pc[y] = "idle"
  BY SerialAssumption DEF Go, Running, Contexts
<1> QED BY <1>1, <1>2 DEF Pushing

\* The interrupt moves what is filled, as much as the buffer has room for.
LEMMA MovedIs ==
    ASSUME queue \in Seq(Q!Place)
    PROVE  /\ Moved \in 0 .. BufLen /\ Moved <= Len(queue)
           /\ Moved = 0 /\ queue # <<>> => \E i \in DOMAIN queue : queue[i].by # NULL
<1>1. Len(queue) \in Nat /\ BufLen \in Nat \ {0} /\ (queue # <<>> => Len(queue) # 0)
  BY SerialAssumption, LenProperties, EmptySeq
<1>2. CASE \A i \in DOMAIN queue : queue[i].by = NULL
  BY <1>1, <1>2 DEF Moved, Poppable
<1>3. CASE \E i \in DOMAIN queue : queue[i].by # NULL
  BY <1>1, <1>3 DEF Moved, Poppable
<1> QED BY <1>2, <1>3

\* The interrupt takes from the front of the queue what it puts into the buffer.
LEMMA TxEmptyIs ==
    ASSUME Bounded, NEW txe \in BOOLEAN, NEW dma \in BOOLEAN, NEW tc \in BOOLEAN,
           TxEmpty(txe, dma, tc)
    PROVE  /\ queue' \in Seq(Q!Place) /\ Len(queue') = Len(queue) - Moved
           /\ \A i \in 1 .. Len(queue') : queue'[i] = queue[i + Moved]
           /\ mem' \in [1 .. BufLen -> Bytes \cup {NULL}]
           /\ \A i \in 1 .. BufLen :
                 mem'[i] = IF i <= Moved THEN queue[i].val ELSE mem[i]
           /\ \A i \in 1 .. Moved : queue[i].val \in Bytes
<1>1. /\ queue \in Seq(Q!Place) /\ Len(queue) \in Nat /\ DOMAIN queue = 1 .. Len(queue)
      /\ \A i \in 1 .. Len(queue) : queue[i] \in Q!Place
  BY LenProperties, ElementOfSeq DEF Bounded
<1>2. Moved \in 0 .. BufLen /\ Moved <= Len(queue) /\ BufLen \in Nat
  BY <1>1, MovedIs, SerialAssumption
<1>3. /\ mem' = [i \in 1 .. BufLen |-> IF i <= Moved THEN queue[i].val ELSE mem[i]]
      /\ queue' = SubSeq(queue, Moved + 1, Len(queue))
  BY DEF TxEmpty
<1> HIDE DEF Moved
<1>4. \A i \in 1 .. Moved : queue[i].val \in Bytes
  BY <1>1, <1>2 DEF Q!Place
<1>5. \A i \in Moved + 1 .. Len(queue) : queue[i] \in Q!Place
  BY <1>1, <1>2
<1>6. /\ queue' \in Seq(Q!Place)
      /\ Len(queue') = IF Moved + 1 <= Len(queue) THEN Len(queue) - (Moved + 1) + 1 ELSE 0
      /\ \A i \in 1 .. Len(queue) - (Moved + 1) + 1 : queue'[i] = queue[Moved + 1 + i - 1]
  BY <1>1, <1>2, <1>3, <1>5, SubSeqProperties
<1> DEFINE n == Len(queue)
           m == Moved
<1>7. Len(queue') = n - m
  <2>1. n \in Nat /\ m \in Nat /\ m <= n
    BY <1>1, <1>2
  <2>2. Len(queue') = IF m + 1 <= n THEN n - (m + 1) + 1 ELSE 0
    BY <1>6, Zenon
  <2> HIDE DEF n, m
  <2> QED BY <2>1, <2>2
<1>8. \A i \in 1 .. Len(queue') : queue'[i] = queue[i + Moved]
  <2>1. ASSUME NEW i \in 1 .. Len(queue') PROVE queue'[i] = queue[i + m]
    <3>1. i \in 1 .. n - (m + 1) + 1 /\ m + 1 + i - 1 = i + m
      BY <1>1, <1>2, <1>7
    <3> QED BY <1>6, <3>1
  <2> QED BY <2>1
<1>9. mem' \in [1 .. BufLen -> Bytes \cup {NULL}]
  BY <1>2, <1>3, <1>4 DEF Bounded
<1> QED BY <1>3, <1>4, <1>6, <1>7, <1>8, <1>9

\* It keeps types and bounds.
LEMMA TxEmptyBounded ==
    ASSUME Bounded, NEW txe \in BOOLEAN, NEW dma \in BOOLEAN, NEW tc \in BOOLEAN,
           TxEmpty(txe, dma, tc), UNCHANGED <<pc, accepted, wire, prints>>
    PROVE  Bounded'
<1>1. /\ queue' \in Seq(Q!Place) /\ Len(queue') = Len(queue) - Moved
      /\ mem' \in [1 .. BufLen -> Bytes \cup {NULL}]
      /\ \A i \in 1 .. BufLen : mem'[i] = IF i <= Moved THEN queue[i].val ELSE mem[i]
      /\ \A i \in 1 .. Moved : queue[i].val \in Bytes
      /\ Moved \in 0 .. BufLen /\ Moved <= Len(queue) /\ Len(queue) \in Nat
      /\ BufLen \in Nat /\ QueueLen \in Nat
  BY TxEmptyIs, MovedIs, LenProperties, SerialAssumption DEF Bounded
<1>2. /\ popped' = 0 /\ filled' = Moved /\ txe_it' = txe
      /\ tc_it' \in BOOLEAN /\ dmat' \in BOOLEAN
      /\ \/ dma_next' = 1 /\ dma_end' = Moved
         \/ UNCHANGED <<dma_next, dma_end>>
  BY DEF TxEmpty
<1> HIDE DEF Moved
<1>3. /\ filled' \in 0 .. BufLen /\ popped' \in 0 .. filled'
      /\ dma_next' \in 1 .. BufLen + 1 /\ dma_end' \in 0 .. BufLen
      /\ Len(queue') <= QueueLen
  BY <1>1, <1>2 DEF Bounded
<1>4. \A i \in 1 .. BufLen : i <= filled' \/ i <= dma_end' => mem'[i] \in Bytes
  BY <1>1, <1>2 DEF Bounded
<1>5. Pushing' = Pushing /\ accepted' = accepted /\ prints' = prints
      /\ pc' = pc /\ sent' = sent /\ line' = line
  BY DEF Pushing, wire
<1> QED BY <1>1, <1>2, <1>3, <1>4, <1>5 DEF Bounded

\* A context about to push has a byte left to number.
LEMMA NextByte ==
    ASSUME Bounded, NEW x \in Pushing
    PROVE  accepted + 1 \in Bytes
<1> DEFINE k == Cardinality(Pushing)
<1>1. k \in Nat /\ k # 0
  BY PushingCounted, Zenon
<1>2. accepted \in Nat /\ prints \in Nat /\ accepted + prints + k <= MaxPrints
  BY DEF Bounded
<1> HIDE DEF k
<1> QED BY <1>1, <1>2, SerialAssumption DEF Bytes

\* A push keeps types and bounds.
LEMMA PushBounded == ASSUME Bounded, NEW x \in Contexts, Push(x) PROVE Bounded'
<1>0. /\ Cardinality(Pushing) \in Nat /\ MaxPrints \in Nat
      /\ accepted \in Nat /\ prints \in Nat
      /\ accepted + prints + Cardinality(Pushing) <= MaxPrints
  BY PushingCounted, SerialAssumption DEF Bounded
<1>1. CASE Go(x, "push", "fill") /\ Q!Claim(x, accepted + 1) /\ accepted' = accepted + 1
           /\ UNCHANGED <<buf, usart, wire, prints>>
  <2>1. /\ pc' \in [Contexts -> {"idle", "push", "fill", "wake", "tcOff", "txeOn"}]
        /\ x \in Pushing /\ Pushing' = Pushing \ {x}
    BY <1>1, GoIs
  <2>2. Cardinality(Pushing') = Cardinality(Pushing) - 1
    BY <2>1, PushingCounted
  <2> HIDE DEF Pushing
  <2>4. accepted + 1 \in Bytes
    BY <2>1, NextByte
  <2> DEFINE e == [val |-> accepted + 1, by |-> x]
  <2>5. queue' = Append(queue, e) /\ Len(queue) < QueueLen
    BY <1>1 DEF Q!Claim
  <2>6. e \in Q!Place
    BY <2>4 DEF Q!Place
  <2> HIDE DEF e
  <2>7. queue' \in Seq(Q!Place) /\ Len(queue') = Len(queue) + 1 /\ Len(queue) \in Nat
    BY <2>5, <2>6, AppendProperties, LenProperties DEF Bounded
  <2>8. Len(queue') <= QueueLen
    BY <2>5, <2>7, SerialAssumption
  <2>9. accepted' \in Nat /\ accepted' + prints' + Cardinality(Pushing') <= MaxPrints
    BY <1>0, <1>1, <2>2
  <2> QED BY <1>1, <2>1, <2>7, <2>8, <2>9 DEF Bounded, buf, usart, wire
<1>2. CASE Go(x, "push", "wake")
           /\ UNCHANGED <<queue, buf, usart, accepted, wire, prints>>
  <2>1. /\ pc' \in [Contexts -> {"idle", "push", "fill", "wake", "tcOff", "txeOn"}]
        /\ x \in Pushing /\ Pushing' = Pushing \ {x}
    BY <1>2, GoIs
  <2>2. Cardinality(Pushing') = Cardinality(Pushing) - 1
    BY <2>1, PushingCounted
  <2> HIDE DEF Pushing
  <2>3. accepted' + prints' + Cardinality(Pushing') <= MaxPrints
    BY <1>0, <1>2, <2>2
  <2> QED BY <1>2, <2>1, <2>3 DEF Bounded, buf, usart, wire
<1> QED BY <1>1, <1>2 DEF Push

\* A step of a context that neither begins nor ends a push.
LEMMA QuietBounded ==
    ASSUME Bounded, NEW x \in Contexts, NEW from \in {"idle", "fill", "wake", "tcOff", "txeOn"},
           NEW to \in {"idle", "fill", "wake", "tcOff", "txeOn"}, Go(x, from, to),
           queue' \in Seq(Q!Place), Len(queue') = Len(queue),
           txe_it' \in BOOLEAN, tc_it' \in BOOLEAN,
           UNCHANGED <<buf, dmat, dma_next, dma_end, accepted, wire, prints>>
    PROVE  Bounded'
<1>1. /\ pc' \in [Contexts -> {"idle", "push", "fill", "wake", "tcOff", "txeOn"}]
      /\ Pushing' = Pushing
  BY GoIs
<1> QED BY <1>1 DEF Bounded, buf, wire

\* Filling the place a context has claimed changes who owes it, and nothing else.
LEMMA FillIs ==
    ASSUME queue \in Seq(Q!Place), NEW x \in Contexts, Q!Fill(x)
    PROVE  /\ queue' \in Seq(Q!Place) /\ Len(queue') = Len(queue)
           /\ \A i \in 1 .. Len(queue) : /\ queue'[i].val = queue[i].val
                                         /\ queue'[i].by \in {queue[i].by, NULL}
           /\ \E i \in 1 .. Len(queue) : queue[i].by = x /\ queue'[i].by = NULL
<1>1. PICK k \in Q!Claims(x) : queue' = [queue EXCEPT ![k].by = NULL]
  BY DEF Q!Fill
<1>2. DOMAIN queue = 1 .. Len(queue) /\ Len(queue) \in Nat
      /\ \A i \in 1 .. Len(queue) : queue[i] \in Q!Place
  BY LenProperties, ElementOfSeq
<1>3. k \in 1 .. Len(queue) /\ queue[k].by = x
  BY <1>1, <1>2 DEF Q!Claims
<1> DEFINE e == [queue[k] EXCEPT !.by = NULL]
<1>4. e \in Q!Place /\ e.val = queue[k].val /\ e.by = NULL
  BY <1>2, <1>3 DEF Q!Place
<1>5. queue' = [queue EXCEPT ![k] = e]
  BY <1>1
<1> HIDE DEF e
<1>6. /\ queue' \in Seq(Q!Place) /\ Len(queue') = Len(queue)
      /\ \A i \in 1 .. Len(queue) : queue'[i] = IF i = k THEN e ELSE queue[i]
  BY <1>3, <1>4, <1>5, ExceptSeq
<1> QED BY <1>3, <1>4, <1>6

\* Every step keeps types and bounds, whatever interrupts print.
LEMMA BoundedHolds == Bounded /\ [Next]_vars => Bounded'
<1> SUFFICES ASSUME Bounded, [Next]_vars PROVE Bounded'
  OBVIOUS
<1>1. ASSUME NEW x \in Contexts, fputc(x) PROVE Bounded'
  <2>1. /\ pc' \in [Contexts -> {"idle", "push", "fill", "wake", "tcOff", "txeOn"}]
        /\ x \notin Pushing /\ Pushing' = Pushing \cup {x}
    BY <1>1, GoIs DEF fputc
  <2>2. Cardinality(Pushing') = Cardinality(Pushing) + 1 /\ Cardinality(Pushing) \in Nat
    BY <2>1, PushingCounted
  <2> HIDE DEF Pushing
  <2>3. /\ prints' \in Nat /\ accepted' = accepted
        /\ accepted' + prints' + Cardinality(Pushing') <= MaxPrints
    BY <1>1, <2>2, SerialAssumption DEF Bounded, fputc
  <2> QED BY <1>1, <2>1, <2>3 DEF Bounded, fputc, buf, usart, wire
<1>2. ASSUME NEW x \in Contexts, Push(x) PROVE Bounded'
  BY <1>2, PushBounded
<1>3. ASSUME NEW x \in Contexts, Fill(x) PROVE Bounded'
  BY <1>3, FillIs, QuietBounded DEF Fill, Bounded, usart
<1>4. ASSUME NEW x \in Contexts, Wake(x) PROVE Bounded'
  BY <1>4, QuietBounded DEF Wake, Bounded, usart
<1>5. ASSUME NEW x \in Contexts, TcOff(x) \/ TxeOn(x) PROVE Bounded'
  BY <1>5, QuietBounded DEF TcOff, TxeOn, Bounded
<1>6. CASE UsartTxe
  <2>1. CASE /\ popped < filled /\ Send(mem[popped + 1]) /\ popped' = popped + 1
             /\ UNCHANGED <<queue, mem, filled, usart>>
    <3>1. mem[popped + 1] \in Bytes /\ popped' \in 0 .. filled'
      BY <2>1, SerialAssumption DEF Bounded
    <3>2. Pushing' = Pushing /\ line' \in Bytes /\ sent' \in Nat
      BY <1>6, <2>1, <3>1 DEF UsartTxe, Pushing, Send, Bounded
    <3> QED BY <1>6, <2>1, <3>1, <3>2 DEF UsartTxe, Bounded, usart
  <2>2. CASE TxEmpty(FALSE, dmat, tc_it) /\ UNCHANGED wire
    BY <1>6, <2>2, TxEmptyBounded DEF UsartTxe, Bounded, wire
  <2> QED BY <1>6, <2>1, <2>2 DEF UsartTxe
<1>7. CASE UsartTc
  BY <1>7, TxEmptyBounded DEF UsartTc, Bounded, wire
<1>8. CASE DmaByte
  <2>1. mem[dma_next] \in Bytes /\ dma_next' \in 1 .. BufLen + 1
    BY <1>8, SerialAssumption DEF DmaByte, Bounded
  <2>2. Pushing' = Pushing /\ line' \in Bytes /\ sent' \in Nat
    BY <1>8, <2>1 DEF DmaByte, Pushing, Send, Bounded
  <2> QED BY <1>8, <2>1, <2>2 DEF DmaByte, Bounded, buf
<1>9. CASE UNCHANGED vars
  BY <1>9 DEF Bounded, vars, Pushing, buf, usart, wire
<1> QED BY <1>1, <1>2, <1>3, <1>4, <1>5, <1>6, <1>7, <1>8, <1>9 DEF Next, Step

\* Types and bounds hold at the start.
LEMMA SerialStarts == Init => Bounded
<1> SUFFICES ASSUME Init PROVE Bounded
  OBVIOUS
<1>1. Pushing = {}
  BY DEF Init, Pushing
<1>2. Cardinality(Pushing) = 0
  BY <1>1, FS_EmptySet
<1>3. queue \in Seq(Q!Place) /\ Len(queue) = 0
  BY EmptySeq DEF Init
<1> HIDE DEF Pushing
<1>4. accepted + prints + Cardinality(Pushing) <= MaxPrints
  BY <1>2, SerialAssumption DEF Init
<1>5. \A i \in 1 .. BufLen : i <= filled \/ i <= dma_end => mem[i] \in Bytes
  BY SerialAssumption DEF Init
<1>6. /\ mem \in [1 .. BufLen -> Bytes \cup {NULL}]
      /\ pc \in [Contexts -> {"idle", "push", "fill", "wake", "tcOff", "txeOn"}]
      /\ filled \in 0 .. BufLen /\ popped \in 0 .. filled
      /\ dma_next \in 1 .. BufLen + 1 /\ dma_end \in 0 .. BufLen
      /\ sent \in Nat /\ line \in Bytes \cup {0}
      /\ accepted \in Nat /\ prints \in Nat
  BY SerialAssumption DEF Init
<1>7. txe_it \in BOOLEAN /\ tc_it \in BOOLEAN /\ dmat \in BOOLEAN
  BY DEF Init
<1> QED BY <1>3, <1>4, <1>5, <1>6, <1>7, SerialAssumption DEF Bounded

\* Every byte that reaches the line was printed, the queue and the buffer keep to
\* their places, and the DMA reads nothing it was not given.
THEOREM SerialTypeCorrect == Spec => []TypeOK
<1>1. Bounded => TypeOK
  <2> SUFFICES ASSUME Bounded PROVE TypeOK
    OBVIOUS
  <2>1. <<>> \in [{} -> Bytes \cup {NULL}]
    <3>1. <<>> \in Seq(Bytes \cup {NULL}) /\ Len(<<>>) = 0 /\ 1 .. 0 = {}
      BY EmptySeq
    <3> QED BY <3>1, LenProperties
  <2>2. Q!TypeOK
    BY <2>1 DEF Bounded, Q!TypeOK
  <2>3. accepted \in 0 .. MaxPrints /\ prints \in 0 .. MaxPrints
    BY PushingCounted, SerialAssumption DEF Bounded
  <2> QED BY <2>2, <2>3 DEF Bounded, TypeOK
<1> QED BY <1>1, SerialStarts, BoundedHolds, PTL DEF Spec

-----------------------------------------------------------------------------
\* The invariant behind order and progress, as long as nobody prints inside another's
\* wake-up.

\* A place that is not filled yet is that of a context about to fill it, which has
\* no other.
Claimed ==
    /\ \A i \in 1 .. Len(queue) : queue[i].by # NULL => pc[queue[i].by] = "fill"
    /\ \A i, j \in 1 .. Len(queue) : queue[i].by # NULL /\ queue[i].by = queue[j].by => i = j

\* Who is between the register writes of a wake-up is alone, and the transmitter idle.
Alone ==
    \A x \in Contexts : InWindow(x) =>
        /\ ~dmat /\ ~txe_it
        /\ \A y \in Contexts : (y > x => pc[y] = "idle") /\ (y # x => ~InWindow(y))

\* Either the DMA sends the whole buffer and its end will be reported, or the buffer
\* has nothing.
Transmitter ==
    /\ ~(dmat /\ txe_it) /\ (dmat => tc_it) /\ (tc_it => dmat)
    /\ dmat => popped = 0 /\ filled = dma_end /\ dma_next <= dma_end + 1
    /\ ~dmat => popped = filled

\* Bytes that wait have an interrupt coming or a context about to ask for one.
Woken ==
    queue # <<>> =>
        txe_it \/ dmat \/ \E x \in Contexts : pc[x] \in {"fill", "wake", "tcOff", "txeOn"}

Pending == IF dmat THEN dma_end - dma_next + 1 ELSE 0

\* The bytes not sent yet, in the buffer and then in the queue, carry on from the last
\* one sent.
Numbered ==
    /\ line = sent
    /\ accepted = sent + Pending + Len(queue)
    /\ dmat => \A i \in dma_next .. dma_end : mem[i] = sent + (i - dma_next + 1)
    /\ \A i \in 1 .. Len(queue) : queue[i].val = sent + Pending + i

SerialInv == Bounded /\ Claimed /\ Alone /\ Transmitter /\ Woken /\ Numbered

\* What the queue is made of.
LEMMA QueueType ==
    ASSUME Bounded
    PROVE  /\ queue \in Seq(Q!Place) /\ Len(queue) \in Nat /\ DOMAIN queue = 1 .. Len(queue)
           /\ \A i \in 1 .. Len(queue) : /\ queue[i] \in Q!Place
                                         /\ queue[i].val \in Bytes
                                         /\ queue[i].by \in Contexts \cup {NULL}
           /\ NULL \notin Contexts
<1>1. /\ queue \in Seq(Q!Place) /\ Len(queue) \in Nat /\ DOMAIN queue = 1 .. Len(queue)
      /\ \A i \in 1 .. Len(queue) : queue[i] \in Q!Place
  BY LenProperties, ElementOfSeq DEF Bounded
<1> QED BY <1>1, SerialAssumption DEF Q!Place, Contexts

\* A context that runs and is not idle finds nobody else in the window.
LEMMA NoOtherInWindow ==
    ASSUME Alone, Bounded, NEW x \in Contexts, pc[x] # "idle",
           \A y \in Contexts : y > x => pc[y] = "idle"
    PROVE  \A y \in Contexts \ {x} : ~InWindow(y)
<1> SUFFICES ASSUME NEW y \in Contexts \ {x}, InWindow(y) PROVE FALSE
  OBVIOUS
<1>1. ~(y > x)
  BY DEF InWindow
<1>2. ~(x > y)
  BY DEF Alone
<1> QED BY <1>1, <1>2, SerialAssumption DEF Contexts

\* A step of a context that leaves queue, buffer and line.
LEMMA ContextOnly ==
    ASSUME SerialInv, NEW x \in Contexts, NEW from,
           NEW to \in {"idle", "push", "wake", "tcOff", "txeOn"}, Go(x, from, to),
           from # "fill",
           UNCHANGED <<queue, buf, dmat, dma_next, dma_end, accepted, wire>>
    PROVE  Claimed' /\ Numbered'
<1>1. /\ pc[x] = from /\ pc'[x] = to /\ \A y \in Contexts \ {x} : pc'[y] = pc[y]
  BY GoIs DEF SerialInv
<1>2. \A i \in 1 .. Len(queue) : queue[i].by # NULL => queue[i].by \in Contexts \ {x}
  BY <1>1, QueueType DEF SerialInv, Claimed
<1>3. Claimed'
  BY <1>1, <1>2 DEF SerialInv, Claimed
<1>4. Numbered'
  BY DEF SerialInv, Numbered, Pending, buf, wire
<1> QED BY <1>3, <1>4

\* A print begins only where no wake-up is half done below it.
LEMMA PutcKeeps ==
    ASSUME ~WindowPrints, SerialInv, NEW x \in Contexts, fputc(x)
    PROVE  Claimed' /\ Alone' /\ Transmitter' /\ Woken' /\ Numbered'
<1>1. /\ Go(x, "idle", "push") /\ \A z \in 0 .. x - 1 : ~InWindow(z)
      /\ UNCHANGED <<queue, buf, usart, accepted, wire>>
  BY DEF fputc
<1>2. /\ pc[x] = "idle" /\ pc'[x] = "push" /\ \A y \in Contexts \ {x} : pc'[y] = pc[y]
      /\ \A y \in Contexts : y > x => pc[y] = "idle"
  BY <1>1, GoIs DEF SerialInv
<1>3. Claimed' /\ Numbered'
  BY <1>1, ContextOnly DEF usart
<1>4. \A y \in Contexts : ~InWindow(y) /\ ~InWindow(y)'
  <2> SUFFICES ASSUME NEW y \in Contexts PROVE ~InWindow(y) /\ ~InWindow(y)'
    OBVIOUS
  <2>1. y = x \/ y > x \/ y \in 0 .. x - 1
    BY SerialAssumption DEF Contexts
  <2> QED BY <1>1, <1>2, <2>1 DEF InWindow
<1>5. Alone'
  BY <1>4 DEF Alone
<1> QED BY <1>1, <1>2, <1>3, <1>5 DEF SerialInv, Transmitter, Woken, usart, buf

\* A push claims a place behind the others and numbers its byte.
LEMMA PushKeeps ==
    ASSUME SerialInv, NEW x \in Contexts, Push(x)
    PROVE  Claimed' /\ Alone' /\ Transmitter' /\ Woken' /\ Numbered'
<1>0. /\ \/ Go(x, "push", "fill") \/ Go(x, "push", "wake")
      /\ UNCHANGED <<buf, usart, wire>>
  BY DEF Push
<1>1. /\ pc[x] = "push" /\ pc'[x] \in {"fill", "wake"}
      /\ \A y \in Contexts \ {x} : pc'[y] = pc[y]
      /\ \A y \in Contexts : y > x => pc[y] = "idle"
  BY <1>0, GoIs DEF SerialInv
<1>2. \A y \in Contexts : ~InWindow(y)'
  BY <1>1, NoOtherInWindow DEF InWindow, SerialInv
<1>3. Alone' /\ Transmitter' /\ Woken'
  BY <1>0, <1>1, <1>2 DEF SerialInv, Alone, Transmitter, Woken, usart, buf
<1>4. CASE Go(x, "push", "fill") /\ Q!Claim(x, accepted + 1) /\ accepted' = accepted + 1
  <2> DEFINE e == [val |-> accepted + 1, by |-> x]
             n == Len(queue)
  <2>1. /\ queue' = Append(queue, e) /\ e \in Q!Place /\ e.val = accepted + 1 /\ e.by = x
        /\ Q!Claims(x) = {}
    <3>1. accepted + 1 \in Bytes
      BY <1>1, NextByte DEF SerialInv, Pushing
    <3> QED BY <1>4, <3>1 DEF Q!Claim, Q!Place
  <2> HIDE DEF e
  <2>2. /\ n \in Nat /\ Len(queue') = n + 1 /\ queue'[n + 1] = e
        /\ \A i \in 1 .. n : queue'[i] = queue[i] /\ queue[i].by # x
        /\ \A i \in 1 .. n + 1 : i = n + 1 \/ i \in 1 .. n
    BY <2>1, QueueType, AppendProperties DEF SerialInv, Q!Claims
  <2>3. pc'[x] = "fill"
    BY <1>4, GoIs DEF SerialInv
  <2>4. \A i \in 1 .. n : queue[i].by # NULL => /\ pc[queue[i].by] = "fill"
                                                /\ pc'[queue[i].by] = "fill"
    BY <1>1, <2>2, QueueType DEF SerialInv, Claimed
  <2>5. Claimed'
    BY <2>1, <2>2, <2>3, <2>4 DEF SerialInv, Claimed
  <2>6. Pending' = Pending /\ Pending \in Int /\ sent \in Nat
    BY <1>0 DEF Pending, usart, SerialInv, Bounded
  <2>7. /\ accepted' = sent' + Pending' + Len(queue') /\ sent' = sent /\ line' = line
        /\ queue'[n + 1].val = sent' + Pending' + (n + 1)
    BY <1>0, <1>4, <2>1, <2>2, <2>6 DEF SerialInv, Numbered, wire
  <2>8. \A i \in 1 .. n + 1 : queue'[i].val = sent' + Pending' + i
    BY <2>2, <2>6, <2>7 DEF SerialInv, Numbered
  <2>9. Numbered'
    BY <1>0, <2>2, <2>7, <2>8 DEF SerialInv, Numbered, buf, usart
  <2> QED BY <1>3, <2>5, <2>9
<1>5. CASE Go(x, "push", "wake") /\ UNCHANGED <<queue, buf, usart, accepted, wire>>
  BY <1>3, <1>5, ContextOnly DEF usart
<1> QED BY <1>4, <1>5 DEF Push

\* Filling makes a place poppable; the context then sees to the transmitter.
LEMMA FillKeeps ==
    ASSUME SerialInv, NEW x \in Contexts, Fill(x)
    PROVE  Claimed' /\ Alone' /\ Transmitter' /\ Woken' /\ Numbered'
<1>1. /\ Go(x, "fill", "wake") /\ Q!Fill(x)
      /\ UNCHANGED <<buf, usart, accepted, wire>>
  BY DEF Fill
<1>2. /\ pc[x] = "fill" /\ pc'[x] = "wake"
      /\ \A y \in Contexts \ {x} : pc'[y] = pc[y]
      /\ \A y \in Contexts : y > x => pc[y] = "idle"
  BY <1>1, GoIs DEF SerialInv
<1>3. \A y \in Contexts : ~InWindow(y)'
  BY <1>2, NoOtherInWindow DEF InWindow, SerialInv
<1>4. Alone' /\ Transmitter' /\ Woken'
  BY <1>1, <1>2, <1>3 DEF SerialInv, Alone, Transmitter, Woken, usart, buf
<1>5. /\ Len(queue') = Len(queue)
      /\ \A i \in 1 .. Len(queue) : /\ queue'[i].val = queue[i].val
                                    /\ queue'[i].by \in {queue[i].by, NULL}
      /\ \E i \in 1 .. Len(queue) : queue[i].by = x /\ queue'[i].by = NULL
  BY <1>1, FillIs DEF SerialInv, Bounded
<1>6. Numbered'
  BY <1>1, <1>5 DEF SerialInv, Numbered, Pending, buf, usart, wire
<1>7. Claimed'
  <2>1. ASSUME NEW i \in 1 .. Len(queue), queue'[i].by # NULL
        PROVE  queue'[i].by = queue[i].by /\ pc'[queue[i].by] = "fill"
    <3>1. queue'[i].by = queue[i].by /\ queue[i].by \in Contexts
      BY <1>5, <2>1, QueueType DEF SerialInv
    <3>2. queue[i].by # x
      BY <1>5, <2>1, <3>1, QueueType DEF SerialInv, Claimed
    <3> QED BY <1>2, <2>1, <3>1, <3>2 DEF SerialInv, Claimed
  <2> QED BY <1>5, <2>1 DEF SerialInv, Claimed
<1> QED BY <1>4, <1>6, <1>7

\* The wake-up leaves an interrupt behind, or finds one.
LEMMA WakeKeeps ==
    ASSUME SerialInv, NEW x \in Contexts, Wake(x) \/ TcOff(x) \/ TxeOn(x)
    PROVE  Claimed' /\ Alone' /\ Transmitter' /\ Woken' /\ Numbered'
<1>1. /\ \/ Go(x, "wake", "idle") /\ IsTransmitting /\ UNCHANGED <<txe_it, tc_it>>
         \/ Go(x, "wake", "tcOff") /\ ~IsTransmitting /\ UNCHANGED <<txe_it, tc_it>>
         \/ Go(x, "tcOff", "txeOn") /\ tc_it' = FALSE /\ UNCHANGED txe_it
         \/ Go(x, "txeOn", "idle") /\ txe_it' = TRUE /\ UNCHANGED tc_it
      /\ UNCHANGED <<queue, buf, dmat, dma_next, dma_end, accepted, wire>>
  BY DEF Wake, TcOff, TxeOn, usart
<1>2. Claimed' /\ Numbered'
  BY <1>1, ContextOnly
<1>3. /\ pc[x] \in {"wake", "tcOff", "txeOn"}
      /\ \A y \in Contexts \ {x} : pc'[y] = pc[y]
      /\ \A y \in Contexts : y > x => pc[y] = "idle" /\ pc'[y] = "idle"
      /\ \/ pc[x] = "wake" /\ pc'[x] = "idle" /\ (dmat \/ txe_it) /\ UNCHANGED <<txe_it, tc_it>>
         \/ pc[x] = "wake" /\ pc'[x] = "tcOff" /\ ~dmat /\ ~txe_it /\ UNCHANGED <<txe_it, tc_it>>
         \/ pc[x] = "tcOff" /\ pc'[x] = "txeOn" /\ tc_it' = FALSE /\ UNCHANGED txe_it
         \/ pc[x] = "txeOn" /\ pc'[x] = "idle" /\ txe_it' = TRUE /\ UNCHANGED tc_it
  BY <1>1, GoIs, SerialAssumption DEF SerialInv, IsTransmitting, Contexts
<1>4. \A y \in Contexts \ {x} : ~InWindow(y)'
  BY <1>3, NoOtherInWindow DEF InWindow, SerialInv
<1>5. Alone'
  <2>1. InWindow(x)' => ~dmat' /\ ~txe_it'
    BY <1>1, <1>3 DEF InWindow, SerialInv, Alone
  <2> QED BY <1>3, <1>4, <2>1 DEF Alone
<1>6. InWindow(x) => ~dmat /\ ~txe_it
  BY DEF SerialInv, Alone
<1>7. Transmitter'
  BY <1>1, <1>3, <1>6 DEF SerialInv, Transmitter, buf, InWindow
<1>8. Woken'
  BY <1>1, <1>3 DEF SerialInv, Woken
<1> QED BY <1>2, <1>5, <1>7, <1>8

\* The interrupt that finds the buffer sent fills it again from the queue.
LEMMA RefillKeeps ==
    ASSUME SerialInv, Pending = 0, \A x \in Contexts : ~InWindow(x),
           TxEmpty(FALSE, FALSE, FALSE), UNCHANGED <<pc, accepted, wire, prints>>
    PROVE  Claimed' /\ Alone' /\ Transmitter' /\ Woken' /\ Numbered'
<1>1. /\ Len(queue') = Len(queue) - Moved /\ queue' \in Seq(Q!Place)
      /\ \A i \in 1 .. Len(queue') : queue'[i] = queue[i + Moved]
      /\ \A i \in 1 .. BufLen : mem'[i] = IF i <= Moved THEN queue[i].val ELSE mem[i]
      /\ Moved \in 0 .. BufLen /\ Moved <= Len(queue) /\ Len(queue) \in Nat
      /\ Moved = 0 /\ queue # <<>> => \E i \in DOMAIN queue : queue[i].by # NULL
      /\ BufLen \in Nat
  BY TxEmptyIs, MovedIs, QueueType, SerialAssumption DEF SerialInv, Bounded
<1>2. /\ popped' = 0 /\ filled' = Moved /\ txe_it' = FALSE
      /\ Moved > 0 => tc_it' = TRUE /\ dmat' = TRUE /\ dma_next' = 1 /\ dma_end' = Moved
      /\ ~(Moved > 0) => tc_it' = FALSE /\ dmat' = FALSE
      /\ queue' = SubSeq(queue, Moved + 1, Len(queue))
  BY DEF TxEmpty
<1> DEFINE m == Moved
           n == Len(queue)
<1>3. /\ m \in Nat /\ n \in Nat /\ m <= n /\ Len(queue') = n - m /\ n - m \in Nat
      /\ \A i \in 1 .. n - m : i + m \in 1 .. n /\ queue'[i] = queue[i + m]
      /\ \A i \in 1 .. m : i \in 1 .. n /\ i \in 1 .. BufLen /\ mem'[i] = queue[i].val
  <2>1. m \in Nat /\ n \in Nat /\ m <= n /\ m <= BufLen /\ BufLen \in Nat
    BY <1>1
  <2>2. Len(queue') = n - m
    BY <1>1, Zenon
  <2> HIDE DEF m, n
  <2>3. n - m \in Nat /\ \A i \in 1 .. n - m : i + m \in 1 .. n
    BY <2>1
  <2>4. \A i \in 1 .. m : i \in 1 .. n /\ i \in 1 .. BufLen
    BY <2>1
  <2>5. \A i \in 1 .. n - m : queue'[i] = queue[i + m]
    BY <1>1, <2>2 DEF m
  <2>6. \A i \in 1 .. m : mem'[i] = queue[i].val
    BY <1>1, <2>1, <2>4 DEF m
  <2> QED BY <2>1, <2>2, <2>3, <2>4, <2>5, <2>6
<1>4. Alone'
  BY DEF Alone, InWindow
<1>5. Transmitter'
  BY <1>1, <1>2 DEF Transmitter
<1>6. Woken'
  <2>1. CASE Moved > 0
    BY <1>2, <2>1 DEF Woken
  <2>2. CASE Moved = 0
    <3>1. Len(queue') = Len(queue)
      BY <1>1, <2>2
    <3>2. queue' # <<>> => queue # <<>>
      BY <1>1, <3>1, EmptySeq, QueueType DEF SerialInv
    <3>3. queue # <<>> => \E x \in Contexts : pc[x] = "fill"
      BY <1>1, <2>2, QueueType DEF SerialInv, Claimed
    <3> QED BY <3>2, <3>3 DEF Woken
  <2> QED BY <1>1, <2>1, <2>2
<1> HIDE DEF m, n
<1>7. Claimed'
  <2>1. /\ \A i \in 1 .. n : queue[i].by # NULL => pc[queue[i].by] = "fill"
        /\ \A i, j \in 1 .. n : queue[i].by # NULL /\ queue[i].by = queue[j].by => i = j
    BY DEF SerialInv, Claimed, n
  <2>2. \A i, j \in 1 .. n - m : i + m = j + m => i = j
    BY <1>3
  <2>3. pc' = pc
    OBVIOUS
  <2> QED BY <1>3, <2>1, <2>2, <2>3 DEF Claimed
<1>8. Numbered'
  <2>1. /\ accepted = sent + n /\ \A i \in 1 .. n : queue[i].val = sent + i
        /\ line = sent /\ sent \in Nat
    BY QueueType DEF SerialInv, Numbered, Bounded, n
  <2>2. Pending' = m
    BY <1>1, <1>2 DEF Pending, m
  <2>3. accepted' = accepted /\ sent' = sent /\ line' = line
    BY DEF wire
  <2>4. dmat' => \A i \in dma_next' .. dma_end' :
                    mem'[i] = sent' + (i - dma_next' + 1)
    BY <1>1, <1>2, <1>3, <2>1, <2>3 DEF m
  <2>5. \A i \in 1 .. n - m : queue'[i].val = sent' + m + i
    <3> SUFFICES ASSUME NEW i \in 1 .. n - m PROVE queue'[i].val = sent' + m + i
      OBVIOUS
    <3>1. queue'[i] = queue[i + m] /\ queue[i + m].val = sent + (i + m)
      BY <1>3, <2>1
    <3> QED BY <1>3, <2>1, <2>3, <3>1
  <2>6. accepted' = sent' + m + (n - m)
    BY <1>3, <2>1, <2>3
  <2> QED BY <1>3, <2>1, <2>2, <2>3, <2>4, <2>5, <2>6 DEF Numbered
<1> QED BY <1>4, <1>5, <1>6, <1>7, <1>8

\* The interrupts move what is filled and go to sleep only when nothing is.
LEMMA UsartKeeps ==
    ASSUME SerialInv, UsartTxe \/ UsartTc
    PROVE  Claimed' /\ Alone' /\ Transmitter' /\ Woken' /\ Numbered'
<1>1. CASE UsartTxe
  <2>1. txe_it /\ dmat = FALSE /\ tc_it = FALSE /\ popped = filled
    BY <1>1, Zenon DEF UsartTxe, SerialInv, Transmitter, Bounded
  <2>2. ~(popped < filled)
    BY <2>1 DEF SerialInv, Bounded
  <2>3. TxEmpty(FALSE, dmat, tc_it) /\ UNCHANGED <<pc, accepted, wire, prints>>
    BY <1>1, <2>2 DEF UsartTxe
  <2>4. TxEmpty(FALSE, FALSE, FALSE)
    BY <2>1, <2>3
  <2>5. Pending = 0 /\ \A x \in Contexts : ~InWindow(x)
    BY <2>1 DEF Pending, SerialInv, Alone
  <2> QED BY <2>3, <2>4, <2>5, RefillKeeps
<1>2. CASE UsartTc
  <2>1. dmat /\ txe_it = FALSE /\ dma_next > dma_end /\ dma_next <= dma_end + 1
    BY <1>2, Zenon DEF UsartTc, DmaDone, SerialInv, Transmitter, Bounded
  <2>2. TxEmpty(txe_it, FALSE, FALSE) /\ UNCHANGED <<pc, accepted, wire, prints>>
    BY <1>2 DEF UsartTc
  <2>3. TxEmpty(FALSE, FALSE, FALSE)
    BY <2>1, <2>2
  <2>4. Pending = 0 /\ \A x \in Contexts : ~InWindow(x)
    BY <2>1 DEF Pending, SerialInv, Alone, Bounded
  <2> QED BY <2>2, <2>3, <2>4, RefillKeeps
<1> QED BY <1>1, <1>2

\* The DMA sends the bytes of the buffer in order.
LEMMA DmaKeeps ==
    ASSUME SerialInv, DmaByte
    PROVE  Claimed' /\ Alone' /\ Transmitter' /\ Woken' /\ Numbered'
<1>1. /\ dmat /\ dma_next <= dma_end /\ dma_next' = dma_next + 1
      /\ sent' = sent + 1 /\ line' = mem[dma_next]
      /\ UNCHANGED <<pc, queue, mem, filled, popped, txe_it, tc_it, dmat, dma_end, accepted>>
  BY DEF DmaByte, Send, buf
<1>2. Claimed' /\ Alone' /\ Transmitter' /\ Woken'
  BY <1>1 DEF SerialInv, Bounded, Claimed, Alone, InWindow, Transmitter, Woken
<1>3. /\ dma_next \in Nat /\ dma_end \in Nat /\ sent \in Nat /\ Len(queue) \in Nat
  BY QueueType DEF SerialInv, Bounded
<1>4. /\ Pending = dma_end - dma_next + 1 /\ Pending' = dma_end - (dma_next + 1) + 1
  BY <1>1 DEF Pending
<1>5. line' = sent'
  BY <1>1, <1>3 DEF SerialInv, Numbered
<1>6. \A i \in dma_next + 1 .. dma_end : mem[i] = sent + 1 + (i - (dma_next + 1) + 1)
  <2> SUFFICES ASSUME NEW i \in dma_next + 1 .. dma_end
               PROVE  mem[i] = sent + 1 + (i - (dma_next + 1) + 1)
    OBVIOUS
  <2>1. i \in dma_next .. dma_end
    BY <1>3
  <2>2. mem[i] = sent + (i - dma_next + 1)
    BY <1>1, <2>1 DEF SerialInv, Numbered
  <2> QED BY <1>3, <2>2
<1>7. \A i \in 1 .. Len(queue) : queue[i].val = sent + 1 + Pending' + i
  BY <1>1, <1>3, <1>4 DEF SerialInv, Numbered
<1>8. accepted = sent + 1 + Pending' + Len(queue)
  BY <1>1, <1>3, <1>4 DEF SerialInv, Numbered
<1>9. Numbered'
  BY <1>1, <1>5, <1>6, <1>7, <1>8 DEF Numbered
<1> QED BY <1>2, <1>9

\* The invariant holds at the start and through every step.
LEMMA SerialInvHolds ==
    ASSUME ~WindowPrints
    PROVE  (Init => SerialInv) /\ (SerialInv /\ [Next]_vars => SerialInv')
<1>1. ASSUME Init PROVE SerialInv
  <2>1. Bounded
    BY <1>1, SerialStarts
  <2>2. queue = <<>> /\ Len(queue) = 0
    BY <1>1, EmptySeq DEF Init
  <2>3. Claimed /\ Woken
    BY <2>2 DEF Claimed, Woken
  <2>4. Alone /\ Transmitter /\ Numbered
    BY <1>1, <2>2 DEF Init, Alone, InWindow, Transmitter, Numbered, Pending
  <2> QED BY <2>1, <2>3, <2>4 DEF SerialInv
<1>2. ASSUME SerialInv, [Next]_vars PROVE SerialInv'
  <2>1. Bounded'
    BY <1>2, BoundedHolds DEF SerialInv
  <2>2. CASE Next
    <3>1. Claimed' /\ Alone' /\ Transmitter' /\ Woken' /\ Numbered'
      BY <1>2, <2>2, PutcKeeps, PushKeeps, FillKeeps, WakeKeeps, UsartKeeps, DmaKeeps
      DEF Next, Step
    <3> QED BY <2>1, <3>1 DEF SerialInv
  <2>3. CASE UNCHANGED vars
    BY <1>2, <2>1, <2>3 DEF SerialInv, vars, buf, usart, wire, Claimed, Alone, InWindow,
       Transmitter, Woken, Numbered, Pending
  <2> QED BY <1>2, <2>2, <2>3
<1> QED BY <1>1, <1>2

\* With no printing inside a wake-up, every byte granted to printf goes out once and in
\* order, however main and the interrupts preempt each other between claim and fill.
THEOREM PrintsGoOutInOrder ==
    ASSUME ~WindowPrints
    PROVE  Spec => []OnceInOrder
<1>1. SerialInv => OnceInOrder
  <2> SUFFICES ASSUME SerialInv PROVE OnceInOrder
    OBVIOUS
  <2> DEFINE a == IF dmat THEN SubSeq(mem, dma_next, dma_end)
                  ELSE SubSeq(mem, popped + 1, filled)
             b == [i \in DOMAIN queue |-> queue[i].val]
             c == [i \in 1 .. accepted - sent |-> sent + i]
             n == Len(queue)
             k == Pending
  <2>1. /\ n \in Nat /\ DOMAIN queue = 1 .. n /\ k \in Nat /\ sent \in Nat
        /\ accepted - sent = k + n /\ line = sent
        /\ \A i \in 1 .. n : queue[i].val = sent + k + i
    BY QueueType DEF SerialInv, Numbered, Pending, Transmitter, Bounded
  <2>2. a \in Seq(Nat) /\ Len(a) = k /\ \A i \in 1 .. k : a[i] = sent + i
    <3>1. CASE dmat
      <4>1. \A i \in dma_next .. dma_end : mem[i] = sent + (i - dma_next + 1)
        BY <3>1 DEF SerialInv, Numbered
      <4>2. dma_next \in Nat /\ dma_end \in Nat /\ k = dma_end - dma_next + 1
        BY <3>1 DEF SerialInv, Bounded, Pending
      <4>3. \A i \in dma_next .. dma_end : mem[i] \in Nat
        BY <2>1, <4>1, <4>2
      <4>4. /\ a \in Seq(Nat)
            /\ Len(a) = IF dma_next <= dma_end THEN dma_end - dma_next + 1 ELSE 0
            /\ \A i \in 1 .. dma_end - dma_next + 1 : a[i] = mem[dma_next + i - 1]
        BY <3>1, <4>2, <4>3, SubSeqProperties
      <4>5. Len(a) = k
        BY <2>1, <4>2, <4>4
      <4>6. \A i \in 1 .. k : a[i] = sent + i
        BY <2>1, <4>1, <4>2, <4>4
      <4> QED BY <4>4, <4>5, <4>6
    <3>2. CASE ~dmat
      <4>1. k = 0 /\ popped = filled /\ filled \in Nat
        BY <3>2 DEF SerialInv, Pending, Transmitter, Bounded
      <4>2. a = <<>>
        BY <3>2, <4>1, SubSeqEmpty
      <4>3. <<>> \in Seq(Nat) /\ Len(<<>>) = 0
        BY EmptySeq
      <4>4. \A i \in 1 .. k : FALSE
        BY <4>1
      <4> HIDE DEF a
      <4> QED BY <4>1, <4>2, <4>3, <4>4
    <3> QED BY <3>1, <3>2
  <2> HIDE DEF a, k
  <2>3. b \in Seq(Nat) /\ Len(b) = n /\ \A i \in 1 .. n : b[i] = sent + k + i
    <3>1. b \in [1 .. n -> Nat] /\ \A i \in 1 .. n : b[i] = sent + k + i
      BY <2>1
    <3> HIDE DEF b, n
    <3> QED BY <2>1, <3>1, SeqDef, LenProperties
  <2>4. c \in Seq(Nat) /\ Len(c) = k + n /\ \A i \in 1 .. k + n : c[i] = sent + i
    <3>1. c \in [1 .. k + n -> Nat] /\ k + n \in Nat
      BY <2>1
    <3>2. \A i \in 1 .. k + n : c[i] = sent + i
      BY <2>1
    <3> HIDE DEF c, n
    <3> QED BY <3>1, <3>2, SeqDef, LenProperties
  <2> HIDE DEF b, c, n
  <2>5. /\ a \o b \in Seq(Nat) /\ Len(a \o b) = k + n
        /\ \A i \in 1 .. k + n : (a \o b)[i] = IF i <= k THEN a[i] ELSE b[i - k]
    BY <2>2, <2>3, ConcatProperties
  <2>6. \A i \in 1 .. k + n : (a \o b)[i] = c[i]
    <3> SUFFICES ASSUME NEW i \in 1 .. k + n PROVE (a \o b)[i] = c[i]
      OBVIOUS
    <3>1. CASE i <= k
      BY <2>1, <2>2, <2>4, <2>5, <3>1
    <3>2. CASE ~(i <= k)
      <4>1. i - k \in 1 .. n /\ sent + k + (i - k) = sent + i
        BY <2>1, <3>2
      <4>2. (a \o b)[i] = b[i - k]
        BY <2>5, <3>2
      <4> QED BY <2>3, <2>4, <4>1, <4>2
    <3> QED BY <3>1, <3>2
  <2>7. a \o b = c
    BY <2>4, <2>5, <2>6, SeqEqual
  <2> QED BY <2>1, <2>7 DEF OnceInOrder, Outstanding, a, b, c
<1> QED BY <1>1, SerialInvHolds, PTL DEF Spec

\* With no printing inside a wake-up, no wake-up is lost: bytes in the queue always have
\* an interrupt coming, or a context that will still ask for one.
THEOREM BytesHaveTransmitter ==
    ASSUME ~WindowPrints
    PROVE  Spec => []HasTransmitter
<1>1. SerialInv => HasTransmitter
  BY DEF SerialInv, Woken, Transmitter, HasTransmitter
<1> QED BY <1>1, SerialInvHolds, PTL DEF Spec
=============================================================================

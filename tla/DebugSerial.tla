---------------------------- MODULE DebugSerial ----------------------------
(***************************************************************************)
(* printf over the debug serial: fputc (bsp/sys/dbg_serial.c) pushes into  *)
(* a concurrent queue and wakes the USART, whose interrupt moves the queue *)
(* into a buffer and has a DMA send it (bsp/hal/usart.c). Main prints, and *)
(* so do interrupts of several priorities; the USART interrupt is above    *)
(* all of them and runs as one step.                                       *)
(***************************************************************************)
EXTENDS Integers, Sequences

CONSTANTS Top,              \* printing contexts: 0 is main, 1 .. Top interrupts
          QueueLen,         \* places in tx_con_queue
          BufLen,           \* bytes in USART_Tx_Buf
          WindowPrints,     \* may an interrupt print inside another's wake-up?
          MaxPrints,        \* bound: calls of fputc
          NULL

ASSUME SerialAssumption == /\ Top \in Nat
                           /\ QueueLen \in Nat \ {0}
                           /\ BufLen \in Nat \ {0}
                           /\ MaxPrints \in Nat
                           /\ WindowPrints \in BOOLEAN
                           /\ NULL \notin 0 .. Top

VARIABLES pc,                   \* where each context stands in fputc
          queue,                \* tx_con_queue, see ClaimQueue
          mem, filled, popped,  \* USART_Tx_Buf: memory, bytes put in, bytes taken out
          txe_it, tc_it,        \* the two interrupts of the transmitter
          dmat,                 \* does the DMA feed the transmitter?
          dma_next, dma_end,    \* what it still has to read of mem
          accepted,             \* bytes pushed so far; the n-th byte is called n
          sent, line,           \* bytes sent so far, and the last of them
          prints                \* calls of fputc still allowed

usart == <<txe_it, tc_it, dmat, dma_next, dma_end>>
buf   == <<mem, filled, popped>>
wire  == <<sent, line>>
vars  == <<pc, queue, buf, usart, accepted, wire, prints>>

Contexts == 0 .. Top
Bytes    == 1 .. MaxPrints

Q == INSTANCE ClaimQueue WITH Pushers <- Contexts, Poppers <- {}, Values <- Bytes,
                              Capacity <- QueueLen, got <- <<>>

TypeOK == /\ pc \in [Contexts -> {"idle", "push", "fill", "wake", "tcOff", "txeOn"}]
          /\ Q!TypeOK
          /\ mem \in [1 .. BufLen -> Bytes \cup {NULL}]
          /\ filled \in 0 .. BufLen /\ popped \in 0 .. filled
          /\ txe_it \in BOOLEAN /\ tc_it \in BOOLEAN /\ dmat \in BOOLEAN
          /\ dma_next \in 1 .. BufLen + 1 /\ dma_end \in 0 .. BufLen
          /\ accepted \in 0 .. MaxPrints
          /\ sent \in Nat /\ line \in Bytes \cup {0}
          /\ prints \in 0 .. MaxPrints

Init == /\ pc = [x \in Contexts |-> "idle"]
        /\ queue = <<>>
        /\ mem = [i \in 1 .. BufLen |-> NULL]
        /\ filled = 0 /\ popped = 0
        /\ txe_it = FALSE /\ tc_it = FALSE /\ dmat = FALSE
        /\ dma_next = 1 /\ dma_end = 0
        /\ accepted = 0 /\ sent = 0 /\ line = 0
        /\ prints = MaxPrints

-----------------------------------------------------------------------------

(* A context runs while every interrupt above it is done.                  *)
Running(x) == \A y \in x + 1 .. Top : pc[y] = "idle"

Go(x, from, to) == /\ Running(x)
                   /\ pc[x] = from
                   /\ pc' = [pc EXCEPT ![x] = to]

InWindow(x) == pc[x] \in {"tcOff", "txeOn"}

fputc(x) == /\ Go(x, "idle", "push")
            /\ prints > 0
            /\ WindowPrints \/ \A z \in 0 .. x - 1 : ~InWindow(z)
            /\ prints' = prints - 1
            /\ UNCHANGED <<queue, buf, usart, accepted, wire>>

(* Main tries until there is room, an interrupt drops the byte. One that   *)
(* pushes and pops have overtaken may find a queue with room full, see     *)
(* Full in ConcurrentQueue.                                                *)
Push(x) == \/ /\ Go(x, "push", "fill")
              /\ Q!Claim(x, accepted + 1)
              /\ accepted' = accepted + 1
              /\ UNCHANGED <<buf, usart, wire, prints>>
           \/ /\ Go(x, "push", "wake")
              /\ x > 0
              /\ Len(queue) = QueueLen \/ x < Top
              /\ UNCHANGED <<queue, buf, usart, accepted, wire, prints>>

FillMainWakes(x) == /\ Go(x, "fill", IF x = 0 THEN "wake" ELSE "idle")
                    /\ Q!Fill(x)
                    /\ UNCHANGED <<buf, usart, accepted, wire, prints>>

Fill(x) == /\ Go(x, "fill", "wake")
           /\ Q!Fill(x)
           /\ UNCHANGED <<buf, usart, accepted, wire, prints>>

IsStreaming == txe_it

IsTransmitting == dmat \/ txe_it

(* HAL_USART_TxStreamWake leaves a transmitter at work alone. If it is     *)
(* idle, the interrupts are set one after the other, each by a             *)
(* read-modify-write of the control register.                              *)
Wake(x) == /\ \/ IsTransmitting /\ Go(x, "wake", "idle")
              \/ ~IsTransmitting /\ Go(x, "wake", "tcOff")
           /\ UNCHANGED <<queue, buf, usart, accepted, wire, prints>>

TcOff(x) == /\ Go(x, "tcOff", "txeOn")
            /\ tc_it' = FALSE
            /\ UNCHANGED <<queue, buf, txe_it, dmat, dma_next, dma_end, accepted, wire,
                           prints>>

TxeOn(x) == /\ Go(x, "txeOn", "idle")
            /\ txe_it' = TRUE
            /\ UNCHANGED <<queue, buf, tc_it, dmat, dma_next, dma_end, accepted, wire,
                           prints>>

-----------------------------------------------------------------------------

Send(b) == /\ sent' = sent + 1
           /\ line' = b

(* The queue lets pushers preempt each other and so refuses every pop      *)
(* while one of them has not filled its place.                             *)
Poppable == IF \A i \in DOMAIN queue : queue[i].by = NULL THEN Len(queue) ELSE 0

MovedAll == Poppable

Moved == IF Poppable < BufLen THEN Poppable ELSE BufLen

(* DBG_Serial_UsartTxEmptyCallback, with the transmitter as the interrupt  *)
(* has left it: the buffer starts afresh with what the queue yields, and   *)
(* the DMA sends it unless the transmitter is at work.                     *)
TxEmpty(txe, dma, tc) ==
  /\ mem' = [i \in 1 .. BufLen |-> IF i =< Moved THEN queue[i].val ELSE mem[i]]
  /\ popped' = 0
  /\ filled' = Moved
  /\ queue' = SubSeq(queue, Moved + 1, Len(queue))
  /\ txe_it' = txe
  /\ IF Moved > 0 /\ ~txe /\ ~dma
     THEN tc_it' = TRUE /\ dmat' = TRUE /\ dma_next' = 1 /\ dma_end' = Moved
     ELSE tc_it' = tc /\ dmat' = dma /\ UNCHANGED <<dma_next, dma_end>>

UsartTxe ==
  /\ txe_it
  /\ \/ /\ popped < filled
        /\ Send(mem[popped + 1])
        /\ popped' = popped + 1
        /\ UNCHANGED <<queue, mem, filled, usart>>
     \/ /\ popped = filled
        /\ TxEmpty(FALSE, dmat, tc_it)
        /\ UNCHANGED wire
  /\ UNCHANGED <<pc, accepted, prints>>

(* The transmission is complete when the DMA's last byte has left.         *)
DmaDone == tc_it /\ dmat /\ dma_next > dma_end

UsartTcKeepsDma == /\ DmaDone
                   /\ TxEmpty(txe_it, dmat, FALSE)
                   /\ UNCHANGED <<pc, accepted, wire, prints>>

UsartTc == /\ DmaDone
           /\ TxEmpty(txe_it, FALSE, FALSE)
           /\ UNCHANGED <<pc, accepted, wire, prints>>

DmaByte == /\ dmat
           /\ dma_next =< dma_end
           /\ Send(mem[dma_next])
           /\ dma_next' = dma_next + 1
           /\ UNCHANGED <<pc, queue, buf, txe_it, tc_it, dmat, dma_end, accepted, prints>>

Step(x) == \/ Push(x)
           \/ Fill(x)
           \/ Wake(x)
           \/ TcOff(x)
           \/ TxeOn(x)

Next == \/ \E x \in Contexts : fputc(x) \/ Step(x)
        \/ UsartTxe
        \/ UsartTc
        \/ DmaByte

Spec == Init /\ [][Next]_vars

(* The processor runs the context whose turn it is, and the hardware goes  *)
(* on by itself.                                                           *)
Fairness == /\ \A x \in Contexts : WF_vars(Step(x))
            /\ WF_vars(UsartTxe)
            /\ WF_vars(UsartTc)
            /\ WF_vars(DmaByte)

FairSpec == Spec /\ Fairness

-----------------------------------------------------------------------------

(* What is in the buffer still to be sent, then the queue.                 *)
Outstanding ==
  (IF dmat THEN SubSeq(mem, dma_next, dma_end) ELSE SubSeq(mem, popped + 1, filled))
    \o [i \in DOMAIN queue |-> queue[i].val]

(* Every byte printf was granted goes out once and in order: none is lost  *)
(* between queue, buffer and DMA, none is sent twice (TxEmptyCallback and  *)
(* the interrupt handler, usart.c:359-379).                                *)
OnceInOrder == /\ line = sent
               /\ Outstanding = [i \in 1 .. accepted - sent |-> sent + i]

(* When nobody is about to wake the transmitter, bytes in the queue have   *)
(* an interrupt coming that will move them: a wake-up skipped because the  *)
(* transmitter was at work is never lost (usart.c:161).                    *)
HasTransmitter == queue # <<>> /\ (\A x \in Contexts : pc[x] \in {"idle", "push"})
                    => txe_it \/ (dmat /\ tc_it)

(* "printf in task/main is blocking when tx queue is full" (dbg_serial.c,  *)
(* above fputc): it waits, but not for ever.                               *)
MainPrintReturns == pc[0] = "push" ~> pc[0] = "idle"
=============================================================================

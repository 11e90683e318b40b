----------------------------- MODULE ClaimQueue -----------------------------
(***************************************************************************)
(* What a Concurrent_Queue promises to those who push and pop: a bounded   *)
(* FIFO whose places are claimed first and filled later. A place is taken  *)
(* in the order of the claims, and only once it has been filled; nothing   *)
(* is lost, doubled or overtaken.                                          *)
(***************************************************************************)
EXTENDS Naturals, Sequences

CONSTANTS Pushers, Poppers, Values, Capacity, NULL

VARIABLES queue,    \* places in the order of their claims: what is pushed there, and
                    \* the pusher that has not filled it yet, or NULL
          got       \* for each popper the value its call returns, or NULL

vars == <<queue, got>>

Place == [val : Values, by : Pushers \cup {NULL}]

TypeOK == /\ queue \in Seq(Place)
          /\ Len(queue) =< Capacity
          /\ got \in [Poppers -> Values \cup {NULL}]

Init == /\ queue = <<>>
        /\ got = [c \in Poppers |-> NULL]

Claims(p) == {i \in DOMAIN queue : queue[i].by = p}

Claim(p, v) == /\ Claims(p) = {}
               /\ Len(queue) < Capacity
               /\ queue' = Append(queue, [val |-> v, by |-> p])
               /\ UNCHANGED got

Fill(p) == /\ \E i \in Claims(p) : queue' = [queue EXCEPT ![i].by = NULL]
           /\ UNCHANGED got

Take(c) == /\ got[c] = NULL
           /\ queue # <<>>
           /\ Head(queue).by = NULL
           /\ got' = [got EXCEPT ![c] = Head(queue).val]
           /\ queue' = Tail(queue)

Return(c) == /\ got[c] # NULL
             /\ got' = [got EXCEPT ![c] = NULL]
             /\ UNCHANGED queue

Clear == /\ \A p \in Pushers : Claims(p) = {}
         /\ queue' = <<>>
         /\ UNCHANGED got

Next == \/ \E p \in Pushers : Fill(p) \/ \E v \in Values : Claim(p, v)
        \/ \E c \in Poppers : Take(c) \/ Return(c)
        \/ Clear

Spec == Init /\ [][Next]_vars
=============================================================================

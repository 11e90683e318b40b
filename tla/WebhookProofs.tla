---------------------------- MODULE WebhookProofs ----------------------------
(***************************************************************************)
(* Proofs about Webhook, for any number of retries, timers and triggers.   *)
(***************************************************************************)
EXTENDS Webhook, Integers, TLAPS

(* A retry still allowed counts as an attempt to come: a send allows       *)
(* 1 + Webhook_Retrys of them, and every step moves one from retries to    *)
(* timers to attempts, or drops some.                                      *)
Counting == attempts + timers + webhook_retrys_left =< sends * (1 + Webhook_Retrys)

(* Every send has used up a trigger.                                       *)
SendsTriggered == sends + triggers =< MaxTriggers

IInv == TypeOK /\ SendsTriggered /\ BusyHasCause /\ Counting

(* What a step leaves of timers and retries: at most "sum" together.       *)
Leaves(t, l, sum) == /\ timers' = t
                     /\ webhook_retrys_left' = l
                     /\ t + l =< sum

-----------------------------------------------------------------------------

(* One more send is worth 1 + Webhook_Retrys attempts.                     *)
LEMMA SendCounts ==
  ASSUME NEW n \in Nat
  PROVE  /\ n * (1 + Webhook_Retrys) \in Nat
         /\ (n + 1) * (1 + Webhook_Retrys) = n * (1 + Webhook_Retrys) + 1 + Webhook_Retrys
BY WebhookAssumption

\* The invariant holds at the start.
LEMMA InitInv == Init => IInv
<1> SUFFICES ASSUME Init PROVE IInv
  OBVIOUS
<1>1. TypeOK
  <2>1. webhook_httpc_state \in BOOLEAN
    BY DEF Init
  <2>2. /\ webhook_retrys_left \in 0 .. Webhook_Retrys
        /\ requests \in Nat
        /\ timers \in 0 .. Pool
        /\ triggers \in 0 .. MaxTriggers
        /\ sends \in 0 .. MaxTriggers
        /\ attempts \in Nat
    BY WebhookAssumption DEF Init
  <2> QED BY <2>1, <2>2 DEF TypeOK
<1>2. BusyHasCause
  BY DEF Init, BusyHasCause, Webhook_IsBusy
<1>3. Counting
  BY WebhookAssumption DEF Init, Counting
<1>4. SendsTriggered
  BY WebhookAssumption DEF Init, SendsTriggered
<1> QED BY <1>1, <1>2, <1>3, <1>4 DEF IInv

(* A failure passes one retry to a timer, or ends the chain; the hook      *)
(* stays busy only if a timer runs.                                        *)
LEMMA RetryStep ==
  ASSUME NEW left \in 0 .. Webhook_Retrys, NEW running \in 0 .. Pool,
         NEW state \in BOOLEAN, Retry(left, running, state)
  PROVE  /\ webhook_httpc_state' \in BOOLEAN
         /\ \E t \in 0 .. Pool, l \in 0 .. Webhook_Retrys :
              /\ Leaves(t, l, running + left)
              /\ t > 0 \/ webhook_httpc_state' = FALSE
<1>1. CASE left > 0
  <2> DEFINE t == IF running < Pool THEN running + 1 ELSE running
             l == left - 1
  <2>1. webhook_httpc_state' = state /\ timers' = t /\ webhook_retrys_left' = l
    BY <1>1 DEF Retry, sys_timeout
  <2>2. t \in 0 .. Pool /\ t > 0 /\ l \in 0 .. Webhook_Retrys /\ t + l =< running + left
    BY <1>1, WebhookAssumption
  <2> HIDE DEF t, l
  <2>3. Leaves(t, l, running + left)
    BY <2>1, <2>2 DEF Leaves
  <2> QED BY <2>1, <2>2, <2>3
<1>2. CASE ~(left > 0)
  <2>1. webhook_httpc_state' = FALSE /\ timers' = running /\ webhook_retrys_left' = 0
    BY <1>2 DEF Retry
  <2>2. running + 0 =< running + left /\ 0 \in 0 .. Webhook_Retrys
    BY WebhookAssumption
  <2>3. Leaves(running, 0, running + left)
    BY <2>1, <2>2 DEF Leaves
  <2> QED BY <2>1, <2>2, <2>3
<1> QED BY <1>1, <1>2

(* An attempt, accepted or not, leaves a request or a timer if the hook is *)
(* busy afterwards.                                                        *)
LEMMA GetFileStep ==
  ASSUME requests \in Nat,
         NEW left \in 0 .. Webhook_Retrys, NEW running \in 0 .. Pool,
         NEW state \in BOOLEAN, GetFile(left, running, state)
  PROVE  /\ webhook_httpc_state' \in BOOLEAN
         /\ attempts' = attempts + 1
         /\ \E t \in 0 .. Pool, l \in 0 .. Webhook_Retrys, r \in Nat :
              /\ Leaves(t, l, running + left)
              /\ requests' = r
              /\ r + t > 0 \/ webhook_httpc_state' = FALSE
<1>1. attempts' = attempts + 1
  BY DEF GetFile
<1>2. CASE requests' = requests + 1 /\ webhook_httpc_state' = TRUE
           /\ webhook_retrys_left' = left /\ timers' = running
  <2>1. Leaves(running, left, running + left)
    BY <1>2 DEF Leaves
  <2>2. requests + 1 \in Nat /\ requests + 1 + running > 0
    BY WebhookAssumption
  <2> QED BY <1>1, <1>2, <2>1, <2>2
<1>3. CASE Retry(left, running, state) /\ UNCHANGED requests
  <2>1. PICK t \in 0 .. Pool, l \in 0 .. Webhook_Retrys :
          /\ Leaves(t, l, running + left)
          /\ t > 0 \/ webhook_httpc_state' = FALSE
    BY <1>3, RetryStep
  <2>2. webhook_httpc_state' \in BOOLEAN
    BY <1>3, RetryStep
  <2>3. t > 0 => requests + t > 0
    BY WebhookAssumption
  <2> QED BY <1>1, <1>3, <2>1, <2>2, <2>3
<1> QED BY <1>2, <1>3 DEF GetFile

(* The invariant after a step, from the values it leaves.                  *)
LEMMA Restored ==
  ASSUME TypeOK,
         NEW t \in 0 .. Pool, NEW l \in 0 .. Webhook_Retrys, NEW r \in Nat,
         NEW a \in Nat, NEW s \in 0 .. MaxTriggers, NEW left \in 0 .. MaxTriggers,
         timers' = t, webhook_retrys_left' = l, requests' = r, attempts' = a,
         sends' = s, triggers' = left,
         webhook_httpc_state' \in BOOLEAN,
         r + t > 0 \/ webhook_httpc_state' = FALSE,
         s + left =< MaxTriggers,
         a + t + l =< s * (1 + Webhook_Retrys)
  PROVE  IInv'
<1>1. TypeOK'
  BY DEF TypeOK
<1>2. SendsTriggered'
  BY DEF SendsTriggered
<1>3. BusyHasCause'
  <2>1. requests' + timers' = r + t
    OBVIOUS
  <2> QED BY <2>1 DEF BusyHasCause, Webhook_IsBusy
<1>4. Counting'
  BY DEF Counting
<1> QED BY <1>1, <1>2, <1>3, <1>4 DEF IInv

\* Every step keeps the invariant.
LEMMA StepInv == IInv /\ [Next]_vars => IInv'
<1> SUFFICES ASSUME IInv, [Next]_vars PROVE IInv'
  OBVIOUS
<1>1. TypeOK /\ SendsTriggered /\ BusyHasCause /\ Counting
  BY DEF IInv
<1>2. /\ webhook_httpc_state \in BOOLEAN
      /\ webhook_retrys_left \in 0 .. Webhook_Retrys /\ timers \in 0 .. Pool
      /\ requests \in Nat /\ attempts \in Nat
      /\ sends \in 0 .. MaxTriggers /\ triggers \in 0 .. MaxTriggers
  BY <1>1 DEF TypeOK
<1>3. /\ sends * (1 + Webhook_Retrys) \in Nat
      /\ (sends + 1) * (1 + Webhook_Retrys)
           = sends * (1 + Webhook_Retrys) + 1 + Webhook_Retrys
  BY <1>2, SendCounts, WebhookAssumption
<1>4. /\ attempts + timers + webhook_retrys_left =< sends * (1 + Webhook_Retrys)
      /\ sends + triggers =< MaxTriggers
  BY <1>1 DEF Counting, SendsTriggered
<1>5. requests + timers > 0 \/ webhook_httpc_state = FALSE
  BY <1>1, <1>2 DEF BusyHasCause, Webhook_IsBusy
<1>6. CASE Triggered
  <2>1. triggers > 0 /\ triggers' = triggers - 1
    BY <1>6 DEF Triggered
  <2>2. triggers - 1 \in 0 .. MaxTriggers /\ sends + (triggers - 1) =< MaxTriggers
    BY <1>2, <1>4, <2>1, WebhookAssumption
  <2>3. CASE UNCHANGED <<webhook_httpc_state, webhook_retrys_left, requests, timers,
                         sends, attempts>>
    BY <1>1, <1>2, <1>4, <1>5, <2>1, <2>2, <2>3, Restored
  <2>4. CASE sends' = sends + 1 /\ GetFile(Webhook_Retrys, timers, FALSE)
    <3>1. Webhook_Retrys \in 0 .. Webhook_Retrys
      BY WebhookAssumption
    <3>2. webhook_httpc_state' \in BOOLEAN /\ attempts' = attempts + 1
      BY <1>2, <2>4, <3>1, GetFileStep
    <3>3. PICK t \in 0 .. Pool, l \in 0 .. Webhook_Retrys, r \in Nat :
            /\ Leaves(t, l, timers + Webhook_Retrys)
            /\ requests' = r
            /\ r + t > 0 \/ webhook_httpc_state' = FALSE
      BY <1>2, <2>4, <3>1, GetFileStep
    <3>4. timers' = t /\ webhook_retrys_left' = l /\ t + l =< timers + Webhook_Retrys
      BY <3>3 DEF Leaves
    <3>5. /\ sends + 1 \in 0 .. MaxTriggers /\ sends + 1 + (triggers - 1) =< MaxTriggers
          /\ attempts + 1 \in Nat
      BY <1>2, <1>4, <2>1, WebhookAssumption
    <3>6. attempts + 1 + t + l =< sends * (1 + Webhook_Retrys) + 1 + Webhook_Retrys
      BY <1>2, <1>3, <1>4, <3>4, WebhookAssumption
    <3>7. attempts + 1 + t + l =< (sends + 1) * (1 + Webhook_Retrys)
      BY <1>3, <3>6
    <3> QED BY <1>1, <2>1, <2>2, <2>4, <3>2, <3>3, <3>4, <3>5, <3>7, Restored
  <2> QED BY <1>6, <2>3, <2>4 DEF Triggered
<1>7. CASE Result
  <2>1. /\ requests > 0 /\ requests' = requests - 1
        /\ UNCHANGED <<triggers, sends, attempts>>
    BY <1>7 DEF Result
  <2>2. requests - 1 \in Nat
    BY <1>2, <2>1
  <2>3. CASE webhook_httpc_state' = FALSE /\ UNCHANGED <<webhook_retrys_left, timers>>
    BY <1>1, <1>2, <1>4, <2>1, <2>2, <2>3, Restored
  <2>4. CASE Retry(webhook_retrys_left, timers, webhook_httpc_state)
    <3>1. webhook_httpc_state' \in BOOLEAN
      BY <1>2, <2>4, RetryStep
    <3>2. PICK t \in 0 .. Pool, l \in 0 .. Webhook_Retrys :
            /\ Leaves(t, l, timers + webhook_retrys_left)
            /\ t > 0 \/ webhook_httpc_state' = FALSE
      BY <1>2, <2>4, RetryStep
    <3>3. /\ timers' = t /\ webhook_retrys_left' = l
          /\ t + l =< timers + webhook_retrys_left
      BY <3>2 DEF Leaves
    <3>4. attempts + t + l =< sends * (1 + Webhook_Retrys)
      BY <1>2, <1>3, <1>4, <3>3, WebhookAssumption
    <3>5. t > 0 => requests - 1 + t > 0
      BY <2>2, WebhookAssumption
    <3> QED BY <1>1, <1>2, <1>4, <2>1, <2>2, <3>1, <3>2, <3>3, <3>4, <3>5, Restored
  <2> QED BY <1>7, <2>3, <2>4 DEF Result
<1>8. CASE Timeout
  <2>1. /\ timers > 0 /\ UNCHANGED <<triggers, sends>>
        /\ GetFile(webhook_retrys_left, timers - 1, webhook_httpc_state)
    BY <1>8 DEF Timeout
  <2>2. timers - 1 \in 0 .. Pool /\ attempts + 1 \in Nat
    BY <1>2, <2>1, WebhookAssumption
  <2>3. webhook_httpc_state' \in BOOLEAN /\ attempts' = attempts + 1
    BY <1>2, <2>1, <2>2, GetFileStep
  <2>4. PICK t \in 0 .. Pool, l \in 0 .. Webhook_Retrys, r \in Nat :
          /\ Leaves(t, l, timers - 1 + webhook_retrys_left)
          /\ requests' = r
          /\ r + t > 0 \/ webhook_httpc_state' = FALSE
    BY <1>2, <2>1, <2>2, GetFileStep
  <2>5. /\ timers' = t /\ webhook_retrys_left' = l
        /\ t + l =< timers - 1 + webhook_retrys_left
    BY <2>4 DEF Leaves
  <2>6. attempts + 1 + t + l =< sends * (1 + Webhook_Retrys)
    BY <1>2, <1>3, <1>4, <2>5, WebhookAssumption
  <2> QED BY <1>1, <1>2, <1>4, <2>1, <2>2, <2>3, <2>4, <2>5, <2>6, Restored
<1>9. CASE UNCHANGED vars
  BY <1>1, <1>2, <1>4, <1>5, <1>9, Restored DEF vars
<1> QED BY <1>6, <1>7, <1>8, <1>9 DEF Next

\* It holds in every reachable state.
LEMMA Invariant == Spec => []IInv
BY InitInv, StepInv, PTL DEF Spec

-----------------------------------------------------------------------------

(* Every variable keeps its type; the pool is never overdrawn.             *)
THEOREM WebhookTypes == Spec => []TypeOK
<1>1. IInv => TypeOK
  BY DEF IInv
<1> QED BY <1>1, Invariant, PTL

(* A busy hook always has a request or a timer that may free it            *)
(* (webhook.c:151-170).                                                    *)
THEOREM NeverLocked == Spec => []BusyHasCause
<1>1. IInv => BusyHasCause
  BY DEF IInv
<1> QED BY <1>1, Invariant, PTL

(* However chains of attempts overlap and share their retry count, there   *)
(* are no more attempts than the sends and their retries allow.            *)
THEOREM RetriesBounded == Spec => []AttemptsBounded
<1>1. ASSUME IInv PROVE AttemptsBounded
  <2>1. /\ webhook_retrys_left \in Nat /\ timers \in Nat /\ attempts \in Nat
        /\ sends * (1 + Webhook_Retrys) \in Nat
    BY <1>1, WebhookAssumption, SendCounts DEF IInv, TypeOK
  <2> QED BY <1>1, <2>1 DEF IInv, Counting, AttemptsBounded
<1> QED BY <1>1, Invariant, PTL
=============================================================================

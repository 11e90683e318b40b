------------------------------ MODULE Webhook ------------------------------
(***************************************************************************)
(* app/webhook/webhook.c and the handler in platform_callbacks.c that uses *)
(* it: a current trigger sends an HTTP request unless one is under way;    *)
(* what fails is tried again after a delay, from a timer of lwIP's pool.   *)
(* All of it runs in main, callback by callback.                           *)
(*                                                                         *)
(* A request may fail at once, before it has a connection. It then does    *)
(* not count as under way, and a trigger during its delay starts another   *)
(* chain of attempts beside the first.                                     *)
(***************************************************************************)
EXTENDS Naturals

CONSTANTS Webhook_Retrys,   \* attempts after the first
          Pool,             \* timers lwIP's pool has left for the webhook
          MaxTriggers       \* bound

ASSUME WebhookAssumption == /\ Webhook_Retrys \in Nat
                            /\ Pool \in Nat \ {0}
                            /\ MaxTriggers \in Nat

VARIABLES webhook_httpc_state,  \* is it set?
          webhook_retrys_left,
          requests,             \* requests lwIP is working on
          timers,               \* delays running
          triggers,             \* triggers still to come
          sends, attempts       \* history: calls of Webhook_Send, requests tried

vars == <<webhook_httpc_state, webhook_retrys_left, requests, timers, triggers, sends,
          attempts>>

TypeOK == /\ webhook_httpc_state \in BOOLEAN
          /\ webhook_retrys_left \in 0 .. Webhook_Retrys
          /\ requests \in Nat
          /\ timers \in 0 .. Pool
          /\ triggers \in 0 .. MaxTriggers
          /\ sends \in 0 .. MaxTriggers
          /\ attempts \in Nat

Init == /\ webhook_httpc_state = FALSE
        /\ webhook_retrys_left = 0
        /\ requests = 0
        /\ timers = 0
        /\ triggers = MaxTriggers
        /\ sends = 0
        /\ attempts = 0

Webhook_IsBusy == webhook_httpc_state

-----------------------------------------------------------------------------

(* lwIP's sys_timeout: with the pool empty it asserts, which this port     *)
(* compiles to nothing, and returns; nobody is told.                       *)
SysTimeoutGrows(running) == timers' = running + 1

sys_timeout(running) == timers' = IF running < Pool THEN running + 1 ELSE running

RetryKeepsState(left, running, state) ==
  /\ webhook_httpc_state' = state
  /\ IF left > 0
     THEN sys_timeout(running) /\ webhook_retrys_left' = left - 1
     ELSE timers' = running /\ webhook_retrys_left' = 0

RetryUncounted(left, running, state) ==
  /\ webhook_retrys_left' = left
  /\ IF left > 0
     THEN sys_timeout(running) /\ webhook_httpc_state' = state
     ELSE timers' = running /\ webhook_httpc_state' = FALSE

(* With "left" retries, "running" timers and the state a failure leaves:   *)
(* during the delay after a late failure the old state stands.             *)
Retry(left, running, state) ==
  IF left > 0
  THEN /\ sys_timeout(running)
       /\ webhook_retrys_left' = left - 1
       /\ webhook_httpc_state' = state
  ELSE /\ timers' = running
       /\ webhook_retrys_left' = 0
       /\ webhook_httpc_state' = FALSE

GetFile(left, running, state) ==
  /\ attempts' = attempts + 1
  /\ \/ /\ requests' = requests + 1         \* accepted
        /\ webhook_httpc_state' = TRUE
        /\ webhook_retrys_left' = left
        /\ timers' = running
     \/ /\ Retry(left, running, state)      \* no route, no memory, no pcb
        /\ UNCHANGED requests

(* HardwareCtrl_CurrentTrig_Triggered_Handler and Webhook_Send; the hook   *)
(* is enabled, otherwise the handler never gets to it.                     *)
Triggered == /\ triggers > 0
             /\ triggers' = triggers - 1
             /\ \/ /\ Webhook_IsBusy
                   /\ UNCHANGED <<webhook_httpc_state, webhook_retrys_left, requests,
                                  timers, sends, attempts>>
                \/ /\ ~Webhook_IsBusy
                   /\ sends' = sends + 1
                   /\ GetFile(Webhook_Retrys, timers, FALSE)

ResultForgotten == /\ requests > 0
                   /\ requests' = requests - 1
                   /\ \/ UNCHANGED <<webhook_httpc_state, webhook_retrys_left, timers>>
                      \/ Retry(webhook_retrys_left, timers, webhook_httpc_state)
                   /\ UNCHANGED <<triggers, sends, attempts>>

(* Webhook_HTTPC_Result_Callback, once for each accepted request.          *)
Result == /\ requests > 0
          /\ requests' = requests - 1
          /\ \/ /\ webhook_httpc_state' = FALSE
                /\ UNCHANGED <<webhook_retrys_left, timers>>
             \/ Retry(webhook_retrys_left, timers, webhook_httpc_state)
          /\ UNCHANGED <<triggers, sends, attempts>>

(* The timer is back in the pool before its handler, GetFile, runs.        *)
Timeout == /\ timers > 0
           /\ GetFile(webhook_retrys_left, timers - 1, webhook_httpc_state)
           /\ UNCHANGED <<triggers, sends>>

Next == Triggered \/ Result \/ Timeout

Spec == Init /\ [][Next]_vars

(* lwIP's own timeouts end every request, and main polls its timers.       *)
FairSpec == Spec /\ WF_vars(Result) /\ WF_vars(Timeout)

-----------------------------------------------------------------------------

(* The hook is never locked: whatever chains overwrite each other's state  *)
(* and retries, and even if the pool refuses a timer, as long as it is     *)
(* busy something is coming that may free it (webhook.c:151-170).          *)
BusyHasCause == Webhook_IsBusy => requests + timers > 0

(* Triggers are not multiplied: however chains overlap, there are never    *)
(* more attempts than the sends and their retries allow.                   *)
AttemptsBounded == attempts + timers =< sends * (1 + Webhook_Retrys)

(* A busy hook is free again in the end, and takes the next trigger.       *)
BecomesFree == Webhook_IsBusy ~> ~Webhook_IsBusy
=============================================================================

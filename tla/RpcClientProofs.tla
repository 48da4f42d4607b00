-------------------------- MODULE RpcClientProofs --------------------------
(***************************************************************************)
(* Proofs about RpcClient, for any number of references and calls and any  *)
(* faults: the types, and the two safety properties. Every step case names *)
(* the actions that touch what its invariant speaks of.                    *)
(***************************************************************************)
EXTENDS RpcClient, TLAPS

LEMMA TypeInit == Init => RpcTypeOK
  BY RpcAssumption DEF Init, RpcTypeOK, Load

\* Every step of RpcClient keeps the types.
LEMMA TypeStep == RpcTypeOK /\ [Next]_vars => RpcTypeOK'
<1> SUFFICES ASSUME RpcTypeOK, [Next]_vars PROVE RpcTypeOK'
  OBVIOUS
<1> USE RpcAssumption DEF RpcTypeOK, Load, loading, calling
<1>1. CASE MainStep
  <2>1. CASE Submit
    BY <2>1 DEF Submit
  <2>2. CASE Attach
    BY <2>2 DEF Attach, Proceed
  <2>3. CASE AttachLate
    BY <2>3 DEF AttachLate
  <2>4. CASE CallbackReturns
    BY <2>4 DEF CallbackReturns, Proceed
  <2> QED
    BY <1>1, <2>1, <2>2, <2>3, <2>4 DEF MainStep
<1>2. ASSUME NEW l \in Load, LoadStep(l) PROVE RpcTypeOK'
  <2>1. CASE RunTask(l)
    BY <2>1 DEF RunTask
  <2>2. CASE Connects(l)
    BY <2>2 DEF Connects
  <2>3. CASE ConnectFails(l)
    BY <2>3 DEF ConnectFails
  <2>4. CASE OnSuccessWaits(l)
    BY <2>4 DEF OnSuccessWaits
  <2>5. CASE OnSuccess(l)
    BY <2>5 DEF OnSuccess, CallersWake
  <2> QED
    BY <1>2, <2>1, <2>2, <2>3, <2>4, <2>5 DEF LoadStep
<1>3. ASSUME NEW L \in SUBSET Load, CloseAll(L),
             UNCHANGED <<main, next, task, callback, handler, pc, via, mapCallBack,
                         response, surprises>>
      PROVE  RpcTypeOK'
  <2>1. conn' \in [Load -> {"none", "connecting", "open", "failed", "closed"}]
    BY <1>3 DEF CloseAll
  <2>2. handler # NoLoad => conn'[handler] \in {"open", "closed"}
    BY <1>3 DEF CloseAll
  <2>4. \A l \in Load : conn'[l] = "none" <=> task[l] # "done"
    BY <1>3 DEF CloseAll
  <2>3. wire' \in [Calls -> {"none", "request", "response", "gone"}]
    BY <1>3 DEF CloseAll
  <2> QED
    BY <1>3, <2>1, <2>2, <2>3, <2>4
<1>4. ASSUME NEW l \in Load, Drop(l) PROVE RpcTypeOK'
  BY <1>3, <1>4 DEF Drop
<1>5. ASSUME NEW c \in Calls, CallStep(c) PROVE RpcTypeOK'
  <2>1. CASE GetHandler(c)
    BY <2>1 DEF GetHandler
  <2>2. CASE AwaitHandler(c)
    BY <2>2 DEF AwaitHandler
  <2>3. CASE GetHandlerAwake(c)
    BY <2>3 DEF GetHandlerAwake
  <2>4. CASE NoHandler(c)
    BY <2>4 DEF NoHandler
  <2>5. CASE PutCallBack(c)
    BY <2>5 DEF PutCallBack
  <2>6. CASE WriteRequest(c)
    BY <2>6 DEF WriteRequest
  <2>7. CASE Start(c)
    BY <2>7 DEF Start
  <2>8. CASE TimeOut(c)
    BY <2>8 DEF TimeOut
  <2>9. CASE Return(c)
    BY <2>9 DEF Return
  <2> QED
    BY <1>5, <2>1, <2>2, <2>3, <2>4, <2>5, <2>6, <2>7, <2>8, <2>9 DEF CallStep
<1>6. ASSUME NEW c \in Calls, ServerStep(c) PROVE RpcTypeOK'
  <2>1. CASE Answer(c)
    BY <2>1 DEF Answer
  <2>2. CASE AnswerFails(c)
    BY <2>2 DEF AnswerFails
  <2>3. CASE Read(c)
    <3>1. CASE c \in mapCallBack
      <4>1. /\ pc' = [pc EXCEPT ![c] = IF pc[c] = "waiting" THEN "awake" ELSE pc[c]]
            /\ wire' = [wire EXCEPT ![c] = "gone"]
            /\ response' = [response EXCEPT ![c] = TRUE]
            /\ mapCallBack' = mapCallBack \ {c}
            /\ UNCHANGED <<loading, via, surprises>>
        BY <2>3, <3>1 DEF Read
      <4> QED
        BY <4>1
    <3>2. CASE c \notin mapCallBack
      BY <2>3, <3>2 DEF Read
    <3> QED
      BY <3>1, <3>2
  <2> QED
    BY <1>6, <2>1, <2>2, <2>3 DEF ServerStep
<1>7. CASE Surprise
  <2>1. /\ surprises' \in 0 .. MaxSurprises
        /\ UNCHANGED <<main, next, task, conn, handler, via, mapCallBack, wire, response>>
    BY <1>7 DEF Surprise
  <2>2. CASE \E c \in Calls : /\ pc[c] = "await"
                              /\ pc' = [pc EXCEPT ![c] = "woken"]
                              /\ UNCHANGED callback
    BY <2>1, <2>2
  <2>3. CASE \E l \in Load : /\ callback[l] = "await"
                             /\ callback' = [callback EXCEPT ![l] = "woken"]
                             /\ UNCHANGED pc
    BY <2>1, <2>3
  <2> QED
    BY <1>7, <2>2, <2>3 DEF Surprise
<1>8. CASE Unload
  BY <1>3, <1>8 DEF Unload
<1>9. CASE UNCHANGED vars
  BY <1>9 DEF vars
<1> QED
  BY <1>1, <1>2, <1>4, <1>5, <1>6, <1>7, <1>8, <1>9 DEF Next

\* RpcClient is type correct.
THEOREM RpcTypeCorrect == Spec => []RpcTypeOK
  BY TypeInit, TypeStep, PTL DEF Spec

-----------------------------------------------------------------------------
(* The two conditions of RpcServerLoader.                                  *)

\* A loader whose callback is still to look at the handler, or is awake.
OnItsWay(l) ==
    \/ callback[l] \in {"attached", "ready", "woken"}
    \/ (task[l] # "none" /\ callback[l] = "none")

\* A loader is only awake, or through, when there is a handler: so while there is
\* none, the one whose connection comes up next is on its way or waiting.
WakeInv ==
    surprises = 0 =>
        /\ \A l \in Load : callback[l] \in {"woken", "done"} => handler # NoLoad
        /\ NoLostWakeUp

LEMMA WakeInit == Init => WakeInv
  BY DEF Init, WakeInv, NoLostWakeUp

\* Every step keeps WakeInv.
LEMMA WakeStep == RpcTypeOK /\ WakeInv /\ [Next]_vars => WakeInv'
<1> SUFFICES ASSUME RpcTypeOK, WakeInv, [Next]_vars PROVE WakeInv'
  OBVIOUS
<1>a. /\ task \in [Load -> {"none", "queued", "done"}]
      /\ callback \in [Load -> {"none", "attached", "ready", "await", "woken", "done"}]
      /\ \A l \in Load : conn[l] = "none" <=> task[l] # "done"
      /\ pc \in [Calls -> {"idle", "await", "woken", "got", "put", "sent", "waiting",
                           "awake", "returned", "threw"}]
      /\ handler \in Load \cup {NoLoad}
      /\ main # "up" => next \in Load
      /\ surprises \in Nat
  BY RpcAssumption DEF RpcTypeOK
<1>b. surprises' = 0 => surprises = 0
  <2>1. CASE Surprise
    BY <1>a, <2>1 DEF Surprise
  <2>2. CASE \E c \in Calls : CallStep(c) \/ ServerStep(c)
    BY <2>2 DEF CallStep, GetHandler, AwaitHandler, GetHandlerAwake, NoHandler,
       PutCallBack, WriteRequest, Start, TimeOut, Return, ServerStep, Answer,
       AnswerFails, Read
  <2>3. CASE \E l \in Load : LoadStep(l) \/ Drop(l)
    BY <2>3 DEF LoadStep, RunTask, Connects, ConnectFails, OnSuccessWaits, OnSuccess,
       Drop
  <2>4. CASE MainStep \/ Unload \/ UNCHANGED vars
    BY <2>4 DEF MainStep, Submit, Attach, AttachLate, CallbackReturns, Unload, vars
  <2> QED
    BY <2>1, <2>2, <2>3, <2>4 DEF Next
<1>c. SUFFICES ASSUME surprises' = 0
               PROVE  /\ \A l \in Load :
                           callback'[l] \in {"woken", "done"} => handler' # NoLoad
                      /\ handler' # NoLoad /\ (\E c \in Calls : pc'[c] = "await")
                           => \E l \in Load : OnItsWay(l)'
  BY DEF WakeInv, NoLostWakeUp, OnItsWay
<1>d. /\ \A l \in Load : callback[l] \in {"woken", "done"} => handler # NoLoad
      /\ handler # NoLoad /\ (\E c \in Calls : pc[c] = "await")
           => \E l \in Load : OnItsWay(l)
  BY <1>b, <1>c DEF WakeInv, NoLostWakeUp, OnItsWay
<1> USE <1>a, <1>d DEF OnItsWay
<1>1. CASE MainStep
  BY <1>1 DEF MainStep, Submit, Attach, AttachLate, CallbackReturns, Proceed, calling
<1>2. ASSUME NEW l \in Load, LoadStep(l)
      PROVE  /\ \A k \in Load : callback'[k] \in {"woken", "done"} => handler' # NoLoad
             /\ handler' # NoLoad /\ (\E c \in Calls : pc'[c] = "await")
                  => \E k \in Load : OnItsWay(k)'
  <2>1. CASE RunTask(l)
    BY <2>1 DEF RunTask, calling
  <2>2. CASE Connects(l)
    <3>1. handler' = l /\ l # NoLoad /\ UNCHANGED <<task, pc>> /\ task[l] = "done"
      BY <2>2, RpcAssumption DEF Connects, calling, Load
    <3>2. CASE \E k \in Load : callback[k] = "await"
      BY <2>2, <3>1, <3>2 DEF Connects
    <3>3. CASE ~(\E k \in Load : callback[k] = "await")
      <4>1. UNCHANGED callback
        BY <2>2, <3>3 DEF Connects
      <4>2. CASE handler = NoLoad
        <5>1. callback[l] \in {"none", "attached", "ready"}
          BY <3>3, <4>2
        <5> QED
          BY <3>1, <4>1, <5>1
      <4>3. CASE handler # NoLoad
        BY <3>1, <4>1, <4>3
      <4> QED
        BY <4>2, <4>3
    <3> QED
      BY <3>2, <3>3
  <2>3. CASE ConnectFails(l)
    BY <2>3 DEF ConnectFails, calling
  <2>4. CASE OnSuccessWaits(l)
    BY <2>4 DEF OnSuccessWaits, calling
  <2>5. CASE OnSuccess(l)
    BY <2>5 DEF OnSuccess, CallersWake
  <2> QED
    BY <1>2, <2>1, <2>2, <2>3, <2>4, <2>5 DEF LoadStep
<1>3. ASSUME NEW l \in Load, Drop(l)
      PROVE  UNCHANGED <<task, callback, handler, pc>>
  BY <1>3 DEF Drop
<1>4. ASSUME NEW c \in Calls, CallStep(c)
      PROVE  /\ UNCHANGED <<task, callback, handler>>
             /\ handler # NoLoad => \A k \in Calls : pc'[k] = "await" => pc[k] = "await"
  BY <1>4 DEF CallStep, GetHandler, AwaitHandler, GetHandlerAwake, NoHandler, PutCallBack,
     WriteRequest, Start, TimeOut, Return, loading
<1>5. ASSUME NEW c \in Calls, ServerStep(c)
      PROVE  /\ UNCHANGED <<task, callback, handler>>
             /\ \A k \in Calls : pc'[k] = "await" => pc[k] = "await"
  BY <1>5 DEF ServerStep, Answer, AnswerFails, Read, loading
<1>6. CASE Surprise
  BY <1>6, <1>c DEF Surprise
<1>7. CASE Unload
  BY <1>7 DEF Unload
<1>8. CASE UNCHANGED vars
  BY <1>8 DEF vars, loading, calling
<1> QED
  BY <1>1, <1>2, <1>3, <1>4, <1>5, <1>6, <1>7, <1>8 DEF Next

\* As long as no await returns by itself, a caller of getMessageSendHandler that
\* waits although there is a handler is going to be woken, for any number of
\* references and calls.
THEOREM WaitersAreWoken == Spec => []NoLostWakeUp
<1>1. WakeInv => NoLostWakeUp
  BY DEF WakeInv, NoLostWakeUp
<1> QED
  BY WakeInit, WakeStep, TypeInit, TypeStep, <1>1, PTL DEF Spec

-----------------------------------------------------------------------------
(* Responses and the map of callbacks.                                     *)

\* Nothing is on the wire, and nothing has come back, before the request is
\* written, which is after the callback was registered.
MapInv ==
    /\ \A c \in Calls :
         /\ pc[c] \in {"idle", "await", "woken", "got", "put", "threw"} =>
                wire[c] = "none" /\ ~response[c]
         /\ pc[c] = "put" => c \in mapCallBack
    /\ ResponsesFindTheirCall

LEMMA MapInit == Init => MapInv
  BY DEF Init, MapInv, ResponsesFindTheirCall

\* Every step keeps MapInv.
LEMMA MapStep == RpcTypeOK /\ MapInv /\ [Next]_vars => MapInv'
<1> SUFFICES ASSUME RpcTypeOK, MapInv, [Next]_vars PROVE MapInv'
  OBVIOUS
<1>a. /\ pc \in [Calls -> {"idle", "await", "woken", "got", "put", "sent", "waiting",
                           "awake", "returned", "threw"}]
      /\ wire \in [Calls -> {"none", "request", "response", "gone"}]
      /\ response \in [Calls -> BOOLEAN]
  BY DEF RpcTypeOK
<1> USE <1>a DEF MapInv, ResponsesFindTheirCall
<1>1. CASE MainStep
  BY <1>1 DEF MainStep, Submit, Attach, AttachLate, CallbackReturns, calling
<1>2. ASSUME NEW l \in Load, LoadStep(l) PROVE MapInv'
  <2>1. UNCHANGED <<mapCallBack, wire, response>>
    BY <1>2 DEF LoadStep, RunTask, Connects, ConnectFails, OnSuccessWaits, OnSuccess,
       calling
  <2>2. pc' = pc \/ CallersWake
    BY <1>2 DEF LoadStep, RunTask, Connects, ConnectFails, OnSuccessWaits, OnSuccess,
       calling
  <2> QED
    BY <2>1, <2>2 DEF CallersWake
<1>3. ASSUME NEW L \in SUBSET Load, CloseAll(L), UNCHANGED <<pc, mapCallBack, response>>
      PROVE  MapInv'
  BY <1>3 DEF CloseAll
<1>4. ASSUME NEW l \in Load, Drop(l) PROVE MapInv'
  BY <1>3, <1>4 DEF Drop
<1>5. ASSUME NEW c \in Calls, CallStep(c) PROVE MapInv'
  <2>1. CASE GetHandler(c) \/ AwaitHandler(c) \/ GetHandlerAwake(c) \/ NoHandler(c)
    BY <2>1 DEF GetHandler, AwaitHandler, GetHandlerAwake, NoHandler
  <2>2. CASE PutCallBack(c)
    BY <2>2 DEF PutCallBack
  <2>3. CASE WriteRequest(c)
    BY <2>3 DEF WriteRequest
  <2>4. CASE Start(c) \/ TimeOut(c) \/ Return(c)
    BY <2>4 DEF Start, TimeOut, Return
  <2> QED
    BY <1>5, <2>1, <2>2, <2>3, <2>4 DEF CallStep
<1>6. ASSUME NEW c \in Calls, ServerStep(c) PROVE MapInv'
  <2>1. CASE Answer(c) \/ AnswerFails(c)
    BY <2>1 DEF Answer, AnswerFails
  <2>2. CASE Read(c)
    BY <2>2 DEF Read
  <2> QED
    BY <1>6, <2>1, <2>2 DEF ServerStep
<1>7. CASE Surprise
  BY <1>7 DEF Surprise
<1>8. CASE Unload
  BY <1>3, <1>8 DEF Unload
<1>9. CASE UNCHANGED vars
  BY <1>9 DEF vars, calling
<1> QED
  BY <1>1, <1>2, <1>4, <1>5, <1>6, <1>7, <1>8, <1>9 DEF Next

\* A response finds the callback of its call, for any number of calls and
\* connections, and whatever times out or breaks.
THEOREM ResponsesAreTaken == Spec => []ResponsesFindTheirCall
<1>1. MapInv => ResponsesFindTheirCall
  BY DEF MapInv
<1> QED
  BY MapInit, MapStep, TypeInit, TypeStep, <1>1, PTL DEF Spec

=============================================================================

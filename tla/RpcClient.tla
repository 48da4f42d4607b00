----------------------------- MODULE RpcClient -----------------------------
(***************************************************************************)
(* netty-rpc-imp: proxies whose calls go over one Netty connection.        *)
(*                                                                         *)
(* Each reference of the Spring context loads a connection of its own; the *)
(* last one that connects is used. A thread of a pool starts to connect,   *)
(* and a callback waits for the outcome on the condition handlerStatus and *)
(* wakes the callers, who wait on connectStatus. Guava runs that callback  *)
(* in the pool, or in main itself if the pool was faster.                  *)
(*                                                                         *)
(* A call registers a callback under its message id, writes the request    *)
(* and waits ten seconds on the condition of the callback. The server      *)
(* answers from a pool of threads, in any order.                           *)
(*                                                                         *)
(* What runs under RpcServerLoader.lock from one await to the next is one  *)
(* action. Netty, Guava and java.util.concurrent are external.             *)
(***************************************************************************)
EXTENDS Naturals

CONSTANTS
    Loads,         \* the number of references
    Calls,         \* calls, each with its message id and a thread of its own
    NoLoad,
    Faults,        \* the kinds of failure that may happen
    MaxSurprises   \* bound: wake-ups without a signal

ASSUME RpcAssumption ==
    /\ Loads \in Nat
    /\ NoLoad \notin 1 .. Loads
    /\ Faults \subseteq {"connect", "drop", "answer", "unload"}
    /\ MaxSurprises \in Nat

Load == 1 .. Loads

VARIABLES
    main, next,   \* what the thread that builds the context does, for which load
    task,         \* MessageSendInitializeTask: was it run?
    callback,     \* the FutureCallback of the task
    conn,         \* each load's connection
    handler,      \* messageSendHandler
    pc, via,      \* each call: what its thread does, the connection it uses
    mapCallBack,  \* calls registered with the handler of their connection
    wire,         \* where the request or the response of each call is
    response,     \* has the call's MessageCallBack got one?
    surprises

loading == <<main, next, task, callback, conn, handler>>
calling == <<pc, via, mapCallBack, wire, response>>
vars == <<loading, calling, surprises>>

RpcTypeOK ==
    /\ main \in {"load", "attach", "callback", "up"}
    /\ next \in 1 .. Loads + 1
    /\ main # "up" => next \in Load
    /\ task \in [Load -> {"none", "queued", "done"}]
    /\ \A l \in Load : task[l] = "none" <=> l > next \/ (l = next /\ main = "load")
    /\ callback \in [Load -> {"none", "attached", "ready", "await", "woken", "done"}]
    /\ conn \in [Load -> {"none", "connecting", "open", "failed", "closed"}]
    /\ \A l \in Load : conn[l] = "none" <=> task[l] # "done"
    /\ handler \in Load \cup {NoLoad}
    /\ handler # NoLoad => conn[handler] \in {"open", "closed"}
    /\ pc \in [Calls -> {"idle", "await", "woken", "got", "put", "sent", "waiting",
                         "awake", "returned", "threw"}]
    /\ via \in [Calls -> Load \cup {NoLoad}]
    /\ \A c \in Calls :
          via[c] = NoLoad <=> pc[c] \in {"idle", "await", "woken", "threw"}
    /\ mapCallBack \subseteq {c \in Calls : via[c] # NoLoad}
    /\ wire \in [Calls -> {"none", "request", "response", "gone"}]
    /\ response \in [Calls -> BOOLEAN]
    /\ surprises \in 0 .. MaxSurprises

Init ==
    /\ main = (IF Loads = 0 THEN "up" ELSE "load") /\ next = 1
    /\ task = [l \in Load |-> "none"] /\ callback = [l \in Load |-> "none"]
    /\ conn = [l \in Load |-> "none"] /\ handler = NoLoad
    /\ pc = [c \in Calls |-> "idle"] /\ via = [c \in Calls |-> NoLoad]
    /\ mapCallBack = {}
    /\ wire = [c \in Calls |-> "none"] /\ response = [c \in Calls |-> FALSE]
    /\ surprises = 0

-----------------------------------------------------------------------------
(* RpcServerLoader.load, in main.                                          *)

Submit ==
    /\ main = "load"
    /\ task' = [task EXCEPT ![next] = "queued"]
    /\ main' = "attach"
    /\ UNCHANGED <<next, callback, conn, handler, calling, surprises>>

\* Main goes on to the next reference.
Proceed ==
    /\ next' = next + 1
    /\ main' = IF next = Loads THEN "up" ELSE "load"

\* addCallback on a task that is still to run.
Attach ==
    /\ main = "attach" /\ task[next] = "queued"
    /\ callback' = [callback EXCEPT ![next] = "attached"]
    /\ Proceed
    /\ UNCHANGED <<task, conn, handler, calling, surprises>>

\* The task is done: onSuccess runs here.
AttachLate ==
    /\ main = "attach" /\ task[next] = "done"
    /\ callback' = [callback EXCEPT ![next] = "ready"]
    /\ main' = "callback"
    /\ UNCHANGED <<next, task, conn, handler, calling, surprises>>

CallbackReturns ==
    /\ main = "callback" /\ callback[next] = "done"
    /\ Proceed
    /\ UNCHANGED <<task, callback, conn, handler, calling, surprises>>

-----------------------------------------------------------------------------
(* The pool and Netty's event loop.                                        *)

\* call: connect does not wait, TRUE is returned at once.
RunTask(l) ==
    /\ task[l] = "queued"
    /\ task' = [task EXCEPT ![l] = "done"]
    /\ conn' = [conn EXCEPT ![l] = "connecting"]
    /\ callback' = [callback EXCEPT ![l] = IF @ = "attached" THEN "ready" ELSE @]
    /\ UNCHANGED <<main, next, handler, calling, surprises>>

\* Mutant: the loaders are not told.
ConnectsSilently(l) ==
    /\ conn[l] = "connecting"
    /\ conn' = [conn EXCEPT ![l] = "open"]
    /\ handler' = l
    /\ UNCHANGED <<main, next, task, callback, calling, surprises>>

\* operationComplete, setMessageSendHandler: signal wakes one of the loaders.
Connects(l) ==
    /\ conn[l] = "connecting"
    /\ conn' = [conn EXCEPT ![l] = "open"]
    /\ handler' = l
    /\ IF \E k \in Load : callback[k] = "await"
       THEN \E k \in Load :
              /\ callback[k] = "await"
              /\ callback' = [callback EXCEPT ![k] = "woken"]
       ELSE UNCHANGED callback
    /\ UNCHANGED <<main, next, task, calling, surprises>>

\* Mutant: the outcome is not looked at.
ConnectFailsUnseen(l) ==
    /\ "connect" \in Faults
    /\ conn[l] = "connecting"
    /\ conn' = [conn EXCEPT ![l] = "failed"]
    /\ handler' = l
    /\ UNCHANGED <<main, next, task, callback, calling, surprises>>

\* The listener does nothing, and nobody tries again.
ConnectFails(l) ==
    /\ "connect" \in Faults
    /\ conn[l] = "connecting"
    /\ conn' = [conn EXCEPT ![l] = "failed"]
    /\ UNCHANGED <<main, next, task, callback, handler, calling, surprises>>

\* Mutant: signal for signalAll.
OneCallerWakes ==
    \/ ~(\E c \in Calls : pc[c] = "await") /\ UNCHANGED pc
    \/ \E c \in Calls : pc[c] = "await" /\ pc' = [pc EXCEPT ![c] = "woken"]

CallersWake ==
    pc' = [c \in Calls |-> IF pc[c] = "await" THEN "woken" ELSE pc[c]]

\* onSuccess without a handler waits on handlerStatus, ...
OnSuccessWaits(l) ==
    /\ callback[l] = "ready" /\ handler = NoLoad
    /\ callback' = [callback EXCEPT ![l] = "await"]
    /\ UNCHANGED <<main, next, task, conn, handler, calling, surprises>>

\* ... with one it calls connectStatus.signalAll; awake, it does not wait again.
OnSuccess(l) ==
    /\ callback[l] = "woken" \/ (callback[l] = "ready" /\ handler # NoLoad)
    /\ callback' = [callback EXCEPT ![l] = "done"]
    /\ IF handler # NoLoad THEN CallersWake ELSE UNCHANGED pc
    /\ UNCHANGED <<main, next, task, conn, handler, via, mapCallBack, wire, response,
                   surprises>>

-----------------------------------------------------------------------------
(* MessageSendProxy.handleInvocation, in the thread of the call.           *)

\* getMessageSendHandler
GetHandler(c) ==
    /\ pc[c] = "idle" /\ handler # NoLoad
    /\ pc' = [pc EXCEPT ![c] = "got"]
    /\ via' = [via EXCEPT ![c] = handler]
    /\ UNCHANGED <<loading, mapCallBack, wire, response, surprises>>

AwaitHandler(c) ==
    /\ pc[c] = "idle" /\ handler = NoLoad
    /\ pc' = [pc EXCEPT ![c] = "await"]
    /\ UNCHANGED <<loading, via, mapCallBack, wire, response, surprises>>

GetHandlerAwake(c) ==
    /\ pc[c] = "woken" /\ handler # NoLoad
    /\ pc' = [pc EXCEPT ![c] = "got"]
    /\ via' = [via EXCEPT ![c] = handler]
    /\ UNCHANGED <<loading, mapCallBack, wire, response, surprises>>

\* Awake without a handler: NullPointerException.
NoHandler(c) ==
    /\ pc[c] = "woken" /\ handler = NoLoad
    /\ pc' = [pc EXCEPT ![c] = "threw"]
    /\ UNCHANGED <<loading, via, mapCallBack, wire, response, surprises>>

\* Mutant: the request is on its way before the callback is registered.
WritesFirst(c) ==
    /\ pc[c] = "got"
    /\ wire' = [wire EXCEPT ![c] = IF conn[via[c]] = "open" THEN "request" ELSE "gone"]
    /\ pc' = [pc EXCEPT ![c] = "put"]
    /\ UNCHANGED <<loading, via, mapCallBack, response, surprises>>

\* sendRequest: mapCallBack.put, then writeAndFlush, whose failure nobody sees.
PutCallBack(c) ==
    /\ pc[c] = "got"
    /\ mapCallBack' = mapCallBack \cup {c}
    /\ pc' = [pc EXCEPT ![c] = "put"]
    /\ UNCHANGED <<loading, via, wire, response, surprises>>

WriteRequest(c) ==
    /\ pc[c] = "put"
    /\ wire' = [wire EXCEPT ![c] = IF conn[via[c]] = "open" THEN "request" ELSE "gone"]
    /\ pc' = [pc EXCEPT ![c] = "sent"]
    /\ UNCHANGED <<loading, via, mapCallBack, response, surprises>>

\* start: it waits without looking whether the response is there already.
Start(c) ==
    /\ pc[c] = "sent"
    /\ pc' = [pc EXCEPT ![c] = "waiting"]
    /\ UNCHANGED <<loading, via, mapCallBack, wire, response, surprises>>

\* Mutant: await without a limit.
WaitsForEver(c) == FALSE /\ UNCHANGED vars

\* Ten seconds are over.
TimeOut(c) ==
    /\ pc[c] = "waiting"
    /\ pc' = [pc EXCEPT ![c] = "awake"]
    /\ UNCHANGED <<loading, via, mapCallBack, wire, response, surprises>>

\* With the result, if it came before the lock was free again, or with null.
\* A call without a response stays in mapCallBack.
Return(c) ==
    /\ pc[c] = "awake"
    /\ pc' = [pc EXCEPT ![c] = "returned"]
    /\ UNCHANGED <<loading, via, mapCallBack, wire, response, surprises>>

\* Condition.await may return without a signal, and no caller of it loops.
Surprise ==
    /\ surprises < MaxSurprises
    /\ surprises' = surprises + 1
    /\ \/ \E c \in Calls : /\ pc[c] = "await"
                           /\ pc' = [pc EXCEPT ![c] = "woken"]
                           /\ UNCHANGED callback
       \/ \E l \in Load : /\ callback[l] = "await"
                          /\ callback' = [callback EXCEPT ![l] = "woken"]
                          /\ UNCHANGED pc
    /\ UNCHANGED <<main, next, task, conn, handler, via, mapCallBack, wire, response>>

-----------------------------------------------------------------------------
(* The server.                                                             *)

\* MessageRecHandler hands the request to the pool, MessageRecInitializeTask runs
\* the method; a response is sent even if it has thrown.
Answer(c) ==
    /\ wire[c] = "request"
    /\ wire' = [wire EXCEPT ![c] = "response"]
    /\ UNCHANGED <<loading, pc, via, mapCallBack, response, surprises>>

\* The response cannot be encoded.
AnswerFails(c) ==
    /\ "answer" \in Faults
    /\ wire[c] = "request"
    /\ wire' = [wire EXCEPT ![c] = "gone"]
    /\ UNCHANGED <<loading, pc, via, mapCallBack, response, surprises>>

\* MessageSendHandler.channelRead, MessageCallBack.over.
Read(c) ==
    /\ wire[c] = "response"
    /\ wire' = [wire EXCEPT ![c] = "gone"]
    /\ IF c \in mapCallBack
       THEN /\ mapCallBack' = mapCallBack \ {c}
            /\ response' = [response EXCEPT ![c] = TRUE]
            /\ pc' = [pc EXCEPT ![c] = IF @ = "waiting" THEN "awake" ELSE @]
       ELSE UNCHANGED <<mapCallBack, response, pc>>
    /\ UNCHANGED <<loading, via, surprises>>

-----------------------------------------------------------------------------
(* The end of connections.                                                 *)

CloseAll(L) ==
    /\ conn' = [l \in Load |-> CASE l \notin L -> conn[l]
                                 [] conn[l] = "open" -> "closed"
                                 [] conn[l] = "connecting" -> "failed"
                                 [] OTHER -> conn[l]]
    /\ wire' = [c \in Calls |-> IF via[c] \in L /\ wire[c] # "none" THEN "gone"
                                ELSE wire[c]]

\* An exception in the pipeline of either side, or the network: the handler of
\* the connection is kept, and there is no other attempt.
Drop(l) ==
    /\ "drop" \in Faults
    /\ conn[l] = "open"
    /\ CloseAll({l})
    /\ UNCHANGED <<main, next, task, callback, handler, pc, via, mapCallBack, response,
                   surprises>>

\* unLoad: without a handler it throws before it has stopped anything.
Unload ==
    /\ "unload" \in Faults
    /\ main = "up" /\ handler # NoLoad
    /\ \E l \in Load : conn[l] \in {"open", "connecting"}
    /\ CloseAll(Load)
    /\ UNCHANGED <<main, next, task, callback, handler, pc, via, mapCallBack, response,
                   surprises>>

-----------------------------------------------------------------------------
MainStep == Submit \/ Attach \/ AttachLate \/ CallbackReturns

LoadStep(l) ==
    RunTask(l) \/ Connects(l) \/ ConnectFails(l) \/ OnSuccessWaits(l) \/ OnSuccess(l)

CallStep(c) ==
    \/ GetHandler(c) \/ AwaitHandler(c) \/ GetHandlerAwake(c) \/ NoHandler(c)
    \/ PutCallBack(c) \/ WriteRequest(c) \/ Start(c) \/ TimeOut(c) \/ Return(c)

ServerStep(c) == Answer(c) \/ AnswerFails(c) \/ Read(c)

Next ==
    \/ MainStep
    \/ \E l \in Load : LoadStep(l) \/ Drop(l)
    \/ \E c \in Calls : CallStep(c) \/ ServerStep(c)
    \/ Surprise
    \/ Unload

Spec == Init /\ [][Next]_vars

\* Threads run, an attempt to connect ends, and ten seconds pass.
FairSpec ==
    /\ Spec
    /\ WF_vars(MainStep)
    /\ \A l \in Load : WF_vars(LoadStep(l))
    /\ \A c \in Calls : WF_vars(CallStep(c))

-----------------------------------------------------------------------------
(* Properties.                                                             *)

\* getMessageSendHandler waits without a limit, for a signal that takes two steps
\* over two conditions and is given once: as long as no await returns by itself,
\* a caller that waits although there is a handler has a loader on its way to
\* wake it.
NoLostWakeUp ==
    surprises = 0 /\ handler # NoLoad /\ (\E c \in Calls : pc[c] = "await")
      => \E l \in Load : callback[l] \in {"attached", "ready", "woken"}
                            \/ (task[l] # "none" /\ callback[l] = "none")

\* A response on its way finds the callback of its call, in the map of the
\* connection it was sent over, however fast the server is and whether the
\* call has timed out; so no response is thrown away, and none is given twice.
ResponsesFindTheirCall ==
    \A c \in Calls : wire[c] \in {"request", "response"} =>
        /\ c \in mapCallBack
        /\ ~response[c]

Ended(c) == pc[c] \in {"returned", "threw"}

\* Once there is a handler every call ends, whether it began before or after, and
\* whatever becomes of the connections, unless an await has returned by itself.
CallsEnd ==
    \A c \in Calls :
        pc[c] # "idle" /\ handler # NoLoad ~> Ended(c) \/ surprises > 0

\* The context is built, on whatever thread the callbacks run, unless one of the
\* connections fails: main may have to wait for it.
MainComesUp == <>(main = "up" \/ \E l \in Load : conn[l] = "failed")

=============================================================================

--------------------------- MODULE SessionLifecycle ---------------------------
(***************************************************************************)
(* Session.Start, Stop and Wait as the application sees them, and the      *)
(* goroutines Start puts into the session's errgroup: cleanup, the         *)
(* stopper, the two message loops, and either the one that waits for the   *)
(* handler or the one that carries the handler's failure to start.         *)
(*                                                                         *)
(* The message loops are reduced to what the lifecycle sees of them: they  *)
(* run, may fail, return when the context is cancelled, and the outgoing   *)
(* one takes from the queue Stop puts its message into.  SessionIncoming   *)
(* and SessionOutgoing have their insides, with Read and Write.  A handler *)
(* is any implementation of the Handler interface that behaves as those of *)
(* the library do: Stop is remembered even when it comes before Start; a   *)
(* started handler may fail at any time, finishes without an error only    *)
(* after a Stop, and Wait reports how it finished.                         *)
(***************************************************************************)
EXTENDS Naturals, FiniteSets

CONSTANTS
    Stoppers,    \* concurrent calls of Session.Stop
    Waiters,     \* concurrent calls of Session.Wait
    ControlCap   \* capacity of outgoingControlMessages

ASSUME StoppersAssumption == IsFiniteSet(Stoppers)
ASSUME CapAssumption == ControlCap \in Nat \ {0}

VARIABLES
    start,             \* where the call of Start is, or how it returned
    goroutine,         \* where each goroutine of the errgroup is
    cause,             \* the errgroup's first error
    stopped,           \* the channel closed by signalStop
    ws,                \* the websocket
    handler,           \* the handler's own state
    handlerStop,       \* who has called Handler.Stop: "none", "user" or "session"
    stop,              \* where each call of Stop is
    wait,              \* where each call of Wait is, or what it returned
    terminates         \* terminate messages in outgoingControlMessages

appVars == <<stop, wait>>
handlerVars == <<handler, handlerStop>>
vars == <<start, goroutine, cause, stopped, ws, handlerVars, appVars, terminates>>

Loops == {"writer", "reader"}
Goroutines == {"cleanup", "stopper", "handlerWait", "startFailure"} \union Loops

Errors == {"errSessionStopRequested", "loop", "handlerStart", "handler"}

Init ==
    /\ start = "idle"
    /\ goroutine = [g \in Goroutines |-> "none"]
    /\ cause = "none"
    /\ stopped = "open"
    /\ ws = "none"
    /\ handler = "new"
    /\ handlerStop = "none"
    /\ stop = [s \in Stoppers |-> "idle"]
    /\ wait = [w \in Waiters |-> "idle"]
    /\ terminates = 0

cancelled == cause # "none"

(* A goroutine returns with an error; the first one cancels the context. *)
ReturnsError(g, error) ==
    /\ goroutine' = [goroutine EXCEPT ![g] = "done"]
    /\ cause' = IF cancelled THEN cause ELSE error

(* errgrp.Wait() gets past its WaitGroup. *)
AllDone == \A g \in Goroutines : goroutine[g] \in {"none", "done"}

--------------------------------------------------------------------------------
(* Start.                                                                    *)

CallStart ==
    /\ start = "idle"
    /\ start' = "dialing"
    /\ UNCHANGED <<goroutine, cause, stopped, ws, handlerVars, appVars, terminates>>

Dial ==
    /\ start = "dialing"
    /\ \/ start' = "error" /\ UNCHANGED ws
       \/ start' = "opening" /\ ws' = "open"
    /\ UNCHANGED <<goroutine, cause, stopped, handlerVars, appVars, terminates>>

(* openDataChannel: on failure ws.Close(), on success the first four goroutines. *)
OpenDataChannel ==
    /\ start = "opening"
    /\ \/ start' = "error" /\ ws' = "closed" /\ UNCHANGED goroutine
       \/ /\ start' = "starting"
          /\ goroutine' = [g \in Goroutines |->
                 IF g \in {"cleanup", "stopper"} \union Loops THEN "running" ELSE goroutine[g]]
          /\ UNCHANGED ws
    /\ UNCHANGED <<cause, stopped, handlerVars, appVars, terminates>>

(* Handler.Start returns nil: one more goroutine waits for the handler. *)
HandlerStarts ==
    /\ start = "starting"
    /\ start' = "nil"
    /\ handler' = "running"
    /\ goroutine' = [goroutine EXCEPT !["handlerWait"] = "running"]
    /\ UNCHANGED <<cause, stopped, ws, handlerStop, appVars, terminates>>

(* Handler.Start fails: one more goroutine returns that error, and Start *)
(* waits for the whole errgroup.                                         *)
HandlerFailsToStart ==
    /\ start = "starting"
    /\ start' = "failing"
    /\ goroutine' = [goroutine EXCEPT !["startFailure"] = "running"]
    /\ UNCHANGED <<cause, stopped, ws, handlerVars, appVars, terminates>>

(* A slip that returns as soon as the failure is known. *)
StartDoesNotWait == cancelled

(* "return s.errgrp.Wait()" *)
StartWaits == AllDone

StartFails ==
    /\ start = "failing"
    /\ StartWaits
    /\ start' = "error"
    /\ UNCHANGED <<goroutine, cause, stopped, ws, handlerVars, appVars, terminates>>

--------------------------------------------------------------------------------
(* The goroutines.                                                           *)

StartFailure ==
    /\ goroutine["startFailure"] = "running"
    /\ ReturnsError("startFailure", "handlerStart")
    /\ UNCHANGED <<start, stopped, ws, handlerVars, appVars, terminates>>

(* A slip that leaves the websocket to the loops. *)
WebsocketLeft == ws

(* "ws.Close()" *)
WebsocketClosed == "closed"

(* "<-s.errctx.Done()" and ws.Close() *)
CleanupCloses ==
    /\ goroutine["cleanup"] = "running"
    /\ cancelled
    /\ ws' = WebsocketClosed
    /\ goroutine' = [goroutine EXCEPT !["cleanup"] = "stopHandler"]
    /\ UNCHANGED <<start, cause, stopped, handlerVars, appVars, terminates>>

(* A slip that leaves the handler to notice for itself. *)
CleanupSparesHandler == handlerStop

(* "s.Handler.Stop()" *)
CleanupStops == "session"

CleanupStopsHandler ==
    /\ goroutine["cleanup"] = "stopHandler"
    /\ handlerStop' = CleanupStops
    /\ goroutine' = [goroutine EXCEPT !["cleanup"] = "signalStop"]
    /\ UNCHANGED <<start, cause, stopped, ws, handler, appVars, terminates>>

(* A slip that does not wake the stopper when something else failed. *)
CleanupSignalsNobody == stopped

(* "s.signalStop()" *)
CleanupSignals == "closed"

(* The cleanup goroutine returns nil. *)
CleanupReturns ==
    /\ goroutine["cleanup"] = "signalStop"
    /\ stopped' = CleanupSignals
    /\ goroutine' = [goroutine EXCEPT !["cleanup"] = "done"]
    /\ UNCHANGED <<start, cause, ws, handlerVars, appVars, terminates>>

(* "<-s.stopped; return errSessionStopRequested" *)
StopperReturns ==
    /\ goroutine["stopper"] = "running"
    /\ stopped = "closed"
    /\ ReturnsError("stopper", "errSessionStopRequested")
    /\ UNCHANGED <<start, stopped, ws, handlerVars, appVars, terminates>>

(* A loop returns an error of its own: a failed read, channel_closed, or    *)
(* ErrAckTimeout; or, once the context is cancelled, the context's.         *)
LoopReturns(g) ==
    /\ goroutine[g] = "running"
    /\ ReturnsError(g, "loop")
    /\ UNCHANGED <<start, stopped, ws, handlerVars, appVars, terminates>>

(* The outgoing loop takes a control message; that writing it fails is only *)
(* logged.                                                                  *)
WriterSendsControl ==
    /\ goroutine["writer"] = "running"
    /\ terminates > 0
    /\ terminates' = terminates - 1
    /\ UNCHANGED <<start, goroutine, cause, stopped, ws, handlerVars, appVars>>

(* Handler.Wait returns, with the error the handler finished with or nil.   *)
(* A goroutine that returns nil cancels nothing.                            *)
HandlerWaitReturns ==
    /\ goroutine["handlerWait"] = "running"
    /\ \/ handler = "failed" /\ ReturnsError("handlerWait", "handler")
       \/ /\ handler = "finished"
          /\ goroutine' = [goroutine EXCEPT !["handlerWait"] = "done"]
          /\ UNCHANGED cause
    /\ UNCHANGED <<start, stopped, ws, handlerVars, appVars, terminates>>

--------------------------------------------------------------------------------
(* The handler.                                                              *)

(* A running handler fails by itself, or because the session it reads from *)
(* and writes to has stopped.                                              *)
HandlerFails ==
    /\ handler = "running"
    /\ handler' = "failed"
    /\ UNCHANGED <<start, goroutine, cause, stopped, ws, handlerStop, appVars, terminates>>

(* A handler that has been told to stop finishes gracefully. *)
HandlerFinishes ==
    /\ handler = "running"
    /\ handlerStop # "none"
    /\ handler' = "finished"
    /\ UNCHANGED <<start, goroutine, cause, stopped, ws, handlerStop, appVars, terminates>>

(* The application holds the handler and may stop it by itself. *)
UserStopsHandler ==
    /\ handlerStop = "none"
    /\ handlerStop' = "user"
    /\ UNCHANGED <<start, goroutine, cause, stopped, ws, handler, appVars, terminates>>

--------------------------------------------------------------------------------
(* Stop and Wait.                                                            *)

(* A slip that queues whether or not there is room. *)
TakesAny == TRUE

(* The select's send is ready only while the channel has room. *)
ControlHasRoom == terminates < ControlCap

(* Stop queues a terminate message if there is room for it right now; other *)
(* control messages may have taken the room.                                *)
StopQueues(s) ==
    /\ stop[s] = "idle"
    /\ stop' = [stop EXCEPT ![s] = "queued"]
    /\ \/ ControlHasRoom /\ terminates' = terminates + 1
       \/ UNCHANGED terminates
    /\ UNCHANGED <<start, goroutine, cause, stopped, ws, handlerVars, wait>>

(* The deferred signalStop. *)
StopSignals(s) ==
    /\ stop[s] = "queued"
    /\ stop' = [stop EXCEPT ![s] = "done"]
    /\ stopped' = "closed"
    /\ UNCHANGED <<start, goroutine, cause, ws, handlerVars, wait, terminates>>

(* Wait is called after Start has returned. *)
CallWait(w) ==
    /\ start \in {"nil", "error"}
    /\ wait[w] = "idle"
    /\ wait' = [wait EXCEPT ![w] = "waiting"]
    /\ UNCHANGED <<start, goroutine, cause, stopped, ws, handlerVars, stop, terminates>>

(* "case <-ctx.Done()": the caller's context. *)
WaitGivesUp(w) ==
    /\ wait[w] = "waiting"
    /\ wait' = [wait EXCEPT ![w] = "ctx"]
    /\ UNCHANGED <<start, goroutine, cause, stopped, ws, handlerVars, stop, terminates>>

(* "case <-s.errctx.Done()": from here on the caller's context is not watched. *)
WaitJoins(w) ==
    /\ wait[w] = "waiting"
    /\ cancelled
    /\ wait' = [wait EXCEPT ![w] = "joining"]
    /\ UNCHANGED <<start, goroutine, cause, stopped, ws, handlerVars, stop, terminates>>

(* A slip that calls every end a graceful one as long as Stop's channel is closed. *)
ResultByChannel == IF stopped = "closed" THEN "nil" ELSE cause

(* "if err != errSessionStopRequested { return err }; return nil" *)
WaitResult == IF cause = "errSessionStopRequested" THEN "nil" ELSE cause

(* A slip that does not wait for the goroutines. *)
WaitsForCancel == cancelled

(* "err := s.errgrp.Wait()" *)
WaitsForAll == AllDone

WaitReturns(w) ==
    /\ wait[w] = "joining"
    /\ WaitsForAll
    /\ wait' = [wait EXCEPT ![w] = WaitResult]
    /\ UNCHANGED <<start, goroutine, cause, stopped, ws, handlerVars, stop, terminates>>

--------------------------------------------------------------------------------
StartStep ==
    CallStart \/ Dial \/ OpenDataChannel \/ HandlerStarts \/ HandlerFailsToStart \/ StartFails

GroupStep ==
    \/ StartFailure
    \/ CleanupCloses \/ CleanupStopsHandler \/ CleanupReturns
    \/ StopperReturns
    \/ \E g \in Loops : LoopReturns(g)
    \/ WriterSendsControl
    \/ HandlerWaitReturns

HandlerStep == HandlerFails \/ HandlerFinishes \/ UserStopsHandler

AppStep ==
    \/ \E s \in Stoppers : StopQueues(s) \/ StopSignals(s)
    \/ \E w \in Waiters : CallWait(w) \/ WaitGivesUp(w) \/ WaitJoins(w) \/ WaitReturns(w)

Next == StartStep \/ GroupStep \/ HandlerStep \/ AppStep

(* Goroutines run.  A loop may be in a read or a write of the websocket that *)
(* never returns by itself, and so is only sure to return once the context   *)
(* is cancelled and the websocket closed.  Calls that have begun go on.      *)
(* Handler.Start is only sure to return when the session it reads from has   *)
(* stopped, and a handler to finish when it has been told to.                *)
Fairness ==
    /\ WF_vars(Dial) /\ WF_vars(OpenDataChannel) /\ WF_vars(StartFails)
    /\ WF_vars(cancelled /\ (HandlerStarts \/ HandlerFailsToStart))
    /\ WF_vars(StartFailure)
    /\ WF_vars(CleanupCloses) /\ WF_vars(CleanupStopsHandler) /\ WF_vars(CleanupReturns)
    /\ WF_vars(StopperReturns)
    /\ \A g \in Loops : WF_vars(cancelled /\ ws = "closed" /\ LoopReturns(g))
    /\ WF_vars(HandlerWaitReturns)
    /\ WF_vars(handlerStop # "none" /\ (HandlerFails \/ HandlerFinishes))
    /\ \A s \in Stoppers : WF_vars(StopSignals(s))
    /\ \A w \in Waiters : WF_vars(WaitJoins(w)) /\ WF_vars(WaitReturns(w))

Spec == Init /\ [][Next]_vars

FairSpec == Spec /\ Fairness

--------------------------------------------------------------------------------
(* Properties.                                                               *)

(* Every variable has its type and the control queue keeps to its capacity.   *)
TypeOK ==
    /\ start \in {"idle", "dialing", "opening", "starting", "failing", "nil", "error"}
    /\ goroutine \in [Goroutines -> {"none", "running", "stopHandler", "signalStop", "done"}]
    /\ cause \in Errors \union {"none"}
    /\ stopped \in {"open", "closed"}
    /\ ws \in {"none", "open", "closed"}
    /\ handler \in {"new", "running", "failed", "finished"}
    /\ handlerStop \in {"none", "user", "session"}
    /\ stop \in [Stoppers -> {"idle", "queued", "done"}]
    /\ wait \in [Waiters -> {"idle", "waiting", "joining", "ctx", "nil"} \union Errors]
    /\ terminates \in 0 .. ControlCap

(* Wait returns nil only if the application asked the session to stop.  The   *)
(* cleanup goroutine signals the same channel as Stop after every failure, so *)
(* the error of the stopper must not be mistaken for a request.               *)
NilMeansStopRequested ==
    (\E w \in Waiters : wait[w] = "nil") => \E s \in Stoppers : stop[s] = "done"

Joined(w) == wait[w] \in Errors \union {"nil"}

(* When Wait returns, other than for its own context, nothing of the session  *)
(* is left: every goroutine has returned, the websocket is closed, and the    *)
(* handler was told to stop and runs no more.                                 *)
WaitMeansCompletelyStopped ==
    \A w \in Waiters : Joined(w) =>
        /\ AllDone
        /\ ws = "closed"
        /\ handlerStop = "session"
        /\ handler # "running"

(* A Start that fails leaves nothing behind: no goroutine, no open websocket, *)
(* and a handler that failed to start has been told to stop.                  *)
FailedStartLeavesNothing ==
    start = "error" =>
        /\ AllDone
        /\ ws # "open"
        /\ goroutine["startFailure"] = "done" => handlerStop = "session"

(* Shutdown completes: once the context is cancelled every goroutine returns, *)
(* whatever failed first and whether or not the handler ever started.         *)
ShutdownCompletes == cancelled ~> AllDone

(* Stop ends a session whose goroutines run, even when it was called before   *)
(* or during Start.                                                           *)
StopEndsSession ==
    (stopped = "closed" /\ goroutine["stopper"] = "running") ~> (cancelled /\ AllDone)

(* Start does not outlive its session: it returns when the session breaks     *)
(* while the handler is starting, and when the handler has failed to start.   *)
StartReturns ==
    ((start = "starting" /\ cancelled) \/ start = "failing") ~> (start \in {"nil", "error"})

(* "Ensure that if the handler stops, everything else exits too."             *)
HandlerStopEndsSession == (handler = "finished") ~> AllDone

================================================================================

----------------------------- MODULE MuxPortForward -----------------------------
(***************************************************************************)
(* handler.MuxPortForward: Start, Stop, Wait, the goroutines of its own    *)
(* errgroup, and Dial, which asks one of them for a smux stream.           *)
(*                                                                         *)
(* A Dial is two goroutines.  Its caller sends a request on the unbuffered *)
(* dialRequests and then waits on responseC; a helper it has spawned waits *)
(* for the response to the request and passes it on to responseC.  The     *)
(* dial goroutine answers with a send that does not block: if the helper   *)
(* is not waiting at that moment, it takes the request for abandoned and   *)
(* closes the stream it has just opened.                                   *)
(*                                                                         *)
(* Start begins with PerformHandshake (Handshake).  The smux session (a    *)
(* library) opens streams while it is open, may fail to, and closes all    *)
(* its streams when it is closed.                                          *)
(***************************************************************************)
EXTENDS Naturals, Sequences

CONSTANTS
    Dials,     \* concurrent calls of Dial
    NoDial,    \* not a member of Dials
    MaxActions, InboxCap   \* bounds of Handshake

ASSUME NoDialAssumption == NoDial \notin Dials
ASSUME HandshakeBounds == MaxActions \in Nat /\ InboxCap \in Nat

VARIABLES
    start,       \* where the call of Start is, or how it returned
    goroutine,   \* where each goroutine of the errgroup is
    cause,       \* the errgroup's first error
    stopped,     \* the channel closed by signalStop
    stop,        \* whether Stop was called
    wait,        \* "idle", or what Wait returned
    smux,        \* the smux session
    serving,     \* the request the dial goroutine has taken, or NoDial
    dial,        \* where each Dial is, or what it returned
    helper,      \* where the goroutine each Dial has spawned is
    callerCtx,   \* the context each Dial was given
    stream,      \* the stream opened for each Dial
    handshake,   \* where PerformHandshake is
    inbox, remote, request, response, lost, startCtx,   \* as in Handshake
    abandoned    \* the requests the dial goroutine took for abandoned

groupVars == <<goroutine, cause, stopped>>
agreement == <<handshake, inbox, remote, request, response, lost, startCtx>>
appVars == <<start, stop, wait, agreement>>
dialVars == <<serving, dial, helper, callerCtx, stream, abandoned>>
vars == <<groupVars, appVars, smux, dialVars>>

Hs == INSTANCE Handshake WITH pc <- handshake, ctx <- startCtx

Copiers == {"fromSession", "toSession"}
Goroutines == {"cleanup", "stopper", "dialer"} \union Copiers

Errors == {"errMuxStopRequested", "copy"}

Init ==
    /\ Hs!Idle
    /\ start = "idle"
    /\ goroutine = [g \in Goroutines |-> "none"]
    /\ cause = "none"
    /\ stopped = "open"
    /\ stop = "idle"
    /\ wait = "idle"
    /\ smux = "none"
    /\ serving = NoDial
    /\ dial = [d \in Dials |-> "idle"]
    /\ helper = [d \in Dials |-> "none"]
    /\ callerCtx = [d \in Dials |-> "live"]
    /\ stream = [d \in Dials |-> "none"]
    /\ abandoned = {}

cancelled == cause # "none"

(* A goroutine returns with an error; the first one cancels the context. *)
ReturnsError(g, error) ==
    /\ goroutine' = [goroutine EXCEPT ![g] = "done"]
    /\ cause' = IF cancelled THEN cause ELSE error

AllDone == \A g \in Goroutines : goroutine[g] \in {"none", "done"}

--------------------------------------------------------------------------------
(* Start, Stop and Wait.                                                     *)

CallStart ==
    /\ start = "idle"
    /\ start' = "handshake"
    /\ Hs!Call
    /\ UNCHANGED <<groupVars, stop, wait, smux, dialVars>>

PerformHandshake ==
    /\ start = "handshake"
    /\ Hs!HandshakeStep
    /\ UNCHANGED <<groupVars, start, stop, wait, smux, dialVars>>

(* The handshake fails, the remote is too old, or smux refuses: nothing has *)
(* been started.                                                            *)
StartFails ==
    /\ start = "handshake"
    /\ handshake \in {"failed", "done"}
    /\ start' = "error"
    /\ Hs!Forget
    /\ UNCHANGED <<groupVars, stop, wait, smux, dialVars>>

StartSucceeds ==
    /\ start = "handshake"
    /\ handshake = "done"
    /\ start' = "nil"
    /\ Hs!Forget
    /\ smux' = "open"
    /\ goroutine' = [g \in Goroutines |-> IF g = "dialer" THEN "select" ELSE "running"]
    /\ UNCHANGED <<cause, stopped, stop, wait, dialVars>>

Stop ==
    /\ stop = "idle"
    /\ stop' = "done"
    /\ stopped' = "closed"
    /\ UNCHANGED <<goroutine, cause, start, wait, agreement, smux, dialVars>>

(* A slip that calls every end a graceful one as long as Stop's channel is closed. *)
ResultByChannel == IF stopped = "closed" THEN "nil" ELSE cause

(* "if err != errMuxStopRequested { return err }; return nil" *)
WaitResult == IF cause = "errMuxStopRequested" THEN "nil" ELSE cause

(* A slip that does not wait for the goroutines. *)
WaitsForCancel == cancelled

(* "<-m.errctx.Done()", then "m.errgrp.Wait()" *)
WaitsForAll == cancelled /\ AllDone

(* Wait, called after Start, gets past both of its waits.  Giving up earlier *)
(* because of its own context changes nothing.                               *)
WaitReturns ==
    /\ start \in {"nil", "error"}
    /\ wait = "idle"
    /\ WaitsForAll
    /\ wait' = WaitResult
    /\ UNCHANGED <<groupVars, start, stop, agreement, smux, dialVars>>

--------------------------------------------------------------------------------
(* The goroutines of the errgroup.                                           *)

(* smuxSession.Close() and the two ends of the pipe, once the context is *)
(* cancelled: every stream goes with the smux session.                   *)
CleanupCloses ==
    /\ goroutine["cleanup"] = "running"
    /\ cancelled
    /\ smux' = "closed"
    /\ stream' = [d \in Dials |-> IF stream[d] = "open" THEN "closed" ELSE stream[d]]
    /\ goroutine' = [goroutine EXCEPT !["cleanup"] = "signalStop"]
    /\ UNCHANGED <<cause, stopped, appVars, serving, dial, helper, callerCtx, abandoned>>

(* A slip that does not wake the stopper when something else failed. *)
CleanupSignalsNobody == stopped

(* "m.signalStop()" *)
CleanupSignals == "closed"

CleanupReturns ==
    /\ goroutine["cleanup"] = "signalStop"
    /\ stopped' = CleanupSignals
    /\ goroutine' = [goroutine EXCEPT !["cleanup"] = "done"]
    /\ UNCHANGED <<cause, appVars, smux, dialVars>>

StopperReturns ==
    /\ goroutine["stopper"] = "running"
    /\ stopped = "closed"
    /\ ReturnsError("stopper", "errMuxStopRequested")
    /\ UNCHANGED <<stopped, appVars, smux, dialVars>>

(* A copy loop fails, or returns because the context is cancelled. *)
CopierReturns(g) ==
    /\ goroutine[g] = "running"
    /\ ReturnsError(g, "copy")
    /\ UNCHANGED <<stopped, appVars, smux, dialVars>>

(* handleDialRequests, "case <-ctx.Done()" *)
DialerReturns ==
    /\ goroutine["dialer"] = "select"
    /\ cancelled
    /\ ReturnsError("dialer", cause)
    /\ UNCHANGED <<stopped, appVars, smux, dialVars>>

(* "case dialRequest := <-m.dialRequests" meets "m.dialRequests <- request": *)
(* the channel is unbuffered.                                                *)
TakeRequest(d) ==
    /\ goroutine["dialer"] = "select"
    /\ dial[d] = "sending"
    /\ goroutine' = [goroutine EXCEPT !["dialer"] = "opening"]
    /\ serving' = d
    /\ dial' = [dial EXCEPT ![d] = "waiting"]
    /\ UNCHANGED <<cause, stopped, appVars, smux, helper, callerCtx, stream, abandoned>>

(* smuxSession.OpenStream() *)
OpenStream ==
    /\ goroutine["dialer"] = "opening"
    /\ goroutine' = [goroutine EXCEPT !["dialer"] = "responding"]
    /\ \/ smux = "open" /\ stream' = [stream EXCEPT ![serving] = "open"]
       \/ UNCHANGED stream
    /\ UNCHANGED <<cause, stopped, appVars, smux, serving, dial, helper, callerCtx, abandoned>>

(* A slip that leaves the stream of an abandoned request open. *)
LeftOpen(state) == state

(* "if smuxConn != nil { smuxConn.Close() }" *)
ClosedIfOpen(state) == IF state = "open" THEN "closed" ELSE state

(* The response: the helper takes it if it is waiting for it right now. *)
Respond ==
    /\ goroutine["dialer"] = "responding"
    /\ goroutine' = [goroutine EXCEPT !["dialer"] = "select"]
    /\ serving' = NoDial
    /\ IF helper[serving] = "listening"
       THEN /\ helper' = [helper EXCEPT ![serving] =
                            IF stream[serving] = "none" THEN "err" ELSE "conn"]
            /\ UNCHANGED <<stream, abandoned>>
       ELSE /\ stream' = [stream EXCEPT ![serving] = ClosedIfOpen(@)]
            /\ abandoned' = abandoned \union {serving}
            /\ UNCHANGED helper
    /\ UNCHANGED <<cause, stopped, appVars, smux, dial, callerCtx>>

--------------------------------------------------------------------------------
(* Dial.                                                                     *)

(* The helper is spawned, but has not run yet. *)
CallDial(d) ==
    /\ dial[d] = "idle"
    /\ dial' = [dial EXCEPT ![d] = "sending"]
    /\ helper' = [helper EXCEPT ![d] = "starting"]
    /\ UNCHANGED <<groupVars, appVars, smux, serving, callerCtx, stream, abandoned>>

InProgress(d) == dial[d] \in {"sending", "waiting"}

(* The caller of Dial cancels the context it gave, while that still matters. *)
CallerCancels(d) ==
    /\ InProgress(d)
    /\ callerCtx[d] = "live"
    /\ callerCtx' = [callerCtx EXCEPT ![d] = "done"]
    /\ UNCHANGED <<groupVars, appVars, smux, serving, dial, helper, stream, abandoned>>

(* The helper reaches its select. *)
HelperListens(d) ==
    /\ helper[d] = "starting"
    /\ helper' = [helper EXCEPT ![d] = "listening"]
    /\ UNCHANGED <<groupVars, appVars, smux, serving, dial, callerCtx, stream, abandoned>>

(* A slip that leaves the handler's own context out of the helper's select. *)
WokenByCaller(d) == callerCtx[d] = "done"

(* Either context wakes the helper. *)
HelperWoken(d) == callerCtx[d] = "done" \/ cancelled

(* "case <-ctx.Done()" and "case <-m.errctx.Done()" of the helper. *)
HelperGivesUp(d) ==
    /\ helper[d] = "listening"
    /\ HelperWoken(d)
    /\ helper' = [helper EXCEPT ![d] = "err"]
    /\ UNCHANGED <<groupVars, appVars, smux, serving, dial, callerCtx, stream, abandoned>>

(* The same cases of the caller, before the request is sent.  The helper is *)
(* left to itself.                                                          *)
DialGivesUp(d) ==
    /\ dial[d] = "sending"
    /\ \/ callerCtx[d] = "done" /\ dial' = [dial EXCEPT ![d] = "ctx"]
       \/ cancelled /\ dial' = [dial EXCEPT ![d] = "ErrFailedDial"]
    /\ UNCHANGED <<groupVars, appVars, smux, serving, helper, callerCtx, stream, abandoned>>

(* A slip that hands the response's error on as it is. *)
UnwrappedResult(d) == helper[d]

(* "if response.err != nil { return nil, ErrFailedDial }" *)
DialResult(d) == IF helper[d] = "conn" THEN "conn" ELSE "ErrFailedDial"

(* "responseC <- response" meets "response := <-responseC" *)
DialReturns(d) ==
    /\ dial[d] = "waiting"
    /\ helper[d] \in {"conn", "err"}
    /\ dial' = [dial EXCEPT ![d] = DialResult(d)]
    /\ helper' = [helper EXCEPT ![d] = "done"]
    /\ UNCHANGED <<groupVars, appVars, smux, serving, callerCtx, stream, abandoned>>

--------------------------------------------------------------------------------
AppStep ==
    \/ CallStart \/ PerformHandshake \/ StartFails \/ StartSucceeds
    \/ Stop
    \/ WaitReturns

GroupStep ==
    \/ CleanupCloses \/ CleanupReturns
    \/ StopperReturns
    \/ \E g \in Copiers : CopierReturns(g)
    \/ DialerReturns \/ OpenStream \/ Respond
    \/ \E d \in Dials : TakeRequest(d)

DialStep ==
    \E d \in Dials :
        \/ CallDial(d) \/ CallerCancels(d)
        \/ HelperListens(d) \/ HelperGivesUp(d)
        \/ DialGivesUp(d) \/ DialReturns(d)

Next == AppStep \/ GroupStep \/ DialStep

(* Nothing is assumed of the remote agent; Start goes on when PerformHandshake *)
(* returns, which a cancelled context makes it do.                           *)
StartFairness ==
    /\ WF_vars(start = "handshake" /\ Hs!FailForContext /\ PerformHandshake)
    /\ WF_vars(StartFails \/ StartSucceeds)

(* Goroutines that can go on do; a copy loop is only sure to return when the *)
(* context is cancelled.  OpenStream returns in the end: smux gives it a     *)
(* deadline.  Nothing is assumed of the caller's contexts.                   *)
Fairness ==
    /\ StartFairness
    /\ WF_vars(CleanupCloses) /\ WF_vars(CleanupReturns) /\ WF_vars(StopperReturns)
    /\ \A g \in Copiers : WF_vars(cancelled /\ CopierReturns(g))
    /\ WF_vars(DialerReturns) /\ WF_vars(OpenStream) /\ WF_vars(Respond)
    /\ \A d \in Dials :
        /\ WF_vars(HelperListens(d)) /\ WF_vars(HelperGivesUp(d))
        /\ WF_vars(DialGivesUp(d)) /\ WF_vars(DialReturns(d))

Spec == Init /\ [][Next]_vars

FairSpec == Spec /\ Fairness

--------------------------------------------------------------------------------
(* Properties.                                                               *)

(* Every variable has its type.  In particular a Dial that fails says so with *)
(* ErrFailedDial, or with its own context's error.                            *)
TypeOK ==
    /\ Hs!HandshakeTypes
    /\ start \in {"idle", "handshake", "nil", "error"}
    /\ goroutine \in [Goroutines ->
                        {"none", "running", "signalStop", "select", "opening", "responding", "done"}]
    /\ cause \in Errors \union {"none"}
    /\ stopped \in {"open", "closed"}
    /\ stop \in {"idle", "done"}
    /\ wait \in {"idle", "nil"} \union Errors
    /\ smux \in {"none", "open", "closed"}
    /\ serving \in Dials \union {NoDial}
    /\ dial \in [Dials -> {"idle", "sending", "waiting", "conn", "ErrFailedDial", "ctx"}]
    /\ helper \in [Dials -> {"none", "starting", "listening", "conn", "err", "done"}]
    /\ callerCtx \in [Dials -> {"live", "done"}]
    /\ stream \in [Dials -> {"none", "open", "closed"}]
    /\ abandoned \subseteq Dials

(* Somebody answers for the stream of d: Dial has returned it, the dial        *)
(* goroutine still holds it, or the helper does and Dial waits for the helper. *)
Owned(d) ==
    \/ dial[d] = "conn"
    \/ serving = d
    \/ dial[d] = "waiting" /\ helper[d] = "conn"

(* No stream is lost and none is handed out dead: an open stream has an owner *)
(* although caller, helper and dial goroutine may each give up at any moment, *)
(* and what Dial returned stays open until the handler ends.                  *)
StreamsAreOwned ==
    \A d \in Dials :
        /\ stream[d] = "open" => Owned(d)
        /\ dial[d] = "conn" => stream[d] = "open" \/ cancelled

(* When Wait returns, every goroutine of the handler has returned and no      *)
(* stream is open: not even one the dial goroutine was opening while the      *)
(* handler stopped.  It returns nil only if Stop was called, although cleanup *)
(* signals Stop's channel after every failure.                                *)
WaitTellsTheEnd ==
    wait # "idle" =>
        /\ AllDone /\ smux = "closed" /\ \A d \in Dials : stream[d] # "open"
        /\ wait = "nil" => stop = "done"

(* The handler starts on a handshake both ends agree is complete: the remote  *)
(* had an outcome for every action it asked for and has sent its completion,  *)
(* nothing speaks smux before, and the stream data it finds begins right      *)
(* behind that completion, with nothing dropped.                              *)
HandshakeBeforeData ==
    /\ Hs!AgreedHandshake
    /\ (\E g \in Goroutines : goroutine[g] # "none") => remote = "completed"

(* Start returns when its context is cancelled, wherever the handshake is and *)
(* whatever the remote goes on sending.                                       *)
StartReturns ==
    (start = "handshake" /\ startCtx = "done") ~> start \in {"nil", "error"}

(* Dial returns when its context is cancelled or the handler ends, at every   *)
(* point of the exchange, even when its request was taken for abandoned.      *)
DialDoesNotHang ==
    \A d \in Dials :
        (InProgress(d) /\ (callerCtx[d] = "done" \/ cancelled)) ~> ~InProgress(d)

(* Once the context is cancelled every goroutine of the errgroup returns, the *)
(* dial goroutine too, whatever it was doing for a Dial.                      *)
ShutdownCompletes == cancelled ~> AllDone

(* "We need to start listening for the response *before* we send the         *)
(* request": no request is taken for abandoned while both its contexts live. *)
ListensBeforeRequest ==
    \A d \in abandoned : callerCtx[d] = "done" \/ cancelled

(* "This method blocks until a connection is established, the context is      *)
(* cancelled, or the handler has stopped": a Dial does not outlast a handler  *)
(* that failed to start and was stopped, as Session does with it.             *)
DialEndsWithHandler ==
    \A d \in Dials :
        (InProgress(d) /\ start = "error" /\ stopped = "closed") ~> ~InProgress(d)

================================================================================

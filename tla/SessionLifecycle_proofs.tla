------------------------ MODULE SessionLifecycle_proofs ------------------------
(***************************************************************************)
(* What SessionLifecycle keeps for any number of calls of Stop and Wait    *)
(* and a control queue of any capacity: what a return of Wait and a failed *)
(* Start mean.                                                             *)
(***************************************************************************)
EXTENDS SessionLifecycle, TLAPS

(* Some call of Stop has returned. *)
UserStopped == \E s \in Stoppers : stop[s] = "done"

(* Start launches the goroutines, cleanup among the first, and nothing is     *)
(* cancelled before.  What cleanup has done can be read off where it is, and  *)
(* a running handler is being waited for.                                     *)
Launched ==
    /\ start \in {"idle", "dialing", "opening"} => \A g \in Goroutines : goroutine[g] = "none"
    /\ start \in {"idle", "dialing"} => ws = "none"
    /\ start \in {"starting", "failing", "nil"} => goroutine["cleanup"] # "none"
    /\ \A g \in Goroutines : goroutine[g] # "none" => goroutine["cleanup"] # "none"
    /\ cancelled => goroutine["cleanup"] # "none"

CleanedUp ==
    /\ goroutine["cleanup"] \in {"stopHandler", "signalStop", "done"} =>
         cancelled /\ ws = "closed"
    /\ goroutine["cleanup"] \in {"signalStop", "done"} => handlerStop = "session"

HandlerIsAwaited == handler = "running" => goroutine["handlerWait"] = "running"

(* The channel Stop closes is closed by a Stop or after a cancellation, and   *)
(* the stopper's error comes first only in the first case.                    *)
StopIsRequested ==
    /\ stopped = "closed" => UserStopped \/ cancelled
    /\ cause = "errSessionStopRequested" => UserStopped

(* What each point of Wait has seen. *)
WaitHasSeen ==
    \A w \in Waiters :
        /\ wait[w] # "idle" => start \in {"nil", "error"}
        /\ wait[w] = "joining" \/ Joined(w) => cancelled
        /\ Joined(w) => AllDone
        /\ wait[w] = "nil" => cause = "errSessionStopRequested"

IInv ==
    /\ TypeOK
    /\ Launched
    /\ CleanedUp
    /\ HandlerIsAwaited
    /\ StopIsRequested
    /\ WaitHasSeen
    /\ FailedStartLeavesNothing

USE CapAssumption

--------------------------------------------------------------------------------
(* The type invariant.                                                       *)

(* What TypeOK says of the goroutines and of what they share. *)
GroupTypes ==
    /\ start \in {"idle", "dialing", "opening", "starting", "failing", "nil", "error"}
    /\ goroutine \in [Goroutines -> {"none", "running", "stopHandler", "signalStop", "done"}]
    /\ cause \in Errors \union {"none"}
    /\ stopped \in {"open", "closed"}
    /\ ws \in {"none", "open", "closed"}
    /\ handler \in {"new", "running", "failed", "finished"}
    /\ handlerStop \in {"none", "user", "session"}

(* What it says of the application's calls and the queue. *)
AppTypes ==
    /\ stop \in [Stoppers -> {"idle", "queued", "done"}]
    /\ wait \in [Waiters -> {"idle", "waiting", "joining", "ctx", "nil"} \union Errors]
    /\ terminates \in 0 .. ControlCap

(* No step takes the goroutines, or what they share, out of their types. *)
LEMMA GroupTypesStep ==
    ASSUME GroupTypes, [Next]_vars
    PROVE  GroupTypes'
<1> USE DEF GroupTypes, Goroutines, Loops, Errors, handlerVars, appVars
<1>1. CASE StartStep
  BY <1>1 DEF StartStep, CallStart, Dial, OpenDataChannel, HandlerStarts, HandlerFailsToStart,
              StartFails
<1>2. CASE StartFailure \/ StopperReturns \/ HandlerWaitReturns
  BY <1>2 DEF StartFailure, StopperReturns, HandlerWaitReturns, ReturnsError, cancelled
<1>3. CASE CleanupCloses \/ CleanupStopsHandler \/ CleanupReturns
  BY <1>3 DEF CleanupCloses, WebsocketClosed, CleanupStopsHandler, CleanupStops, CleanupReturns,
              CleanupSignals
<1>4. ASSUME NEW g \in Loops, LoopReturns(g)
      PROVE  GroupTypes'
  BY <1>4 DEF LoopReturns, ReturnsError, cancelled
<1>5. CASE WriterSendsControl
  BY <1>5 DEF WriterSendsControl
<1>6. CASE HandlerStep
  BY <1>6 DEF HandlerStep, HandlerFails, HandlerFinishes, UserStopsHandler
<1>7. CASE AppStep
  BY <1>7 DEF AppStep, StopQueues, StopSignals, CallWait, WaitGivesUp, WaitJoins, WaitReturns
<1>8. CASE UNCHANGED vars
  BY <1>8 DEF vars
<1>. QED
  BY <1>1, <1>2, <1>3, <1>4, <1>5, <1>6, <1>7, <1>8 DEF Next, GroupStep

(* Nor the calls and the queue: a terminate message is queued only where      *)
(* there is room, and a Wait that returns has an error to return.             *)
LEMMA AppTypesStep ==
    ASSUME GroupTypes, AppTypes, WaitHasSeen, [Next]_vars
    PROVE  AppTypes'
<1> USE DEF AppTypes, handlerVars, appVars
<1>1. CASE StartStep
  BY <1>1 DEF StartStep, CallStart, Dial, OpenDataChannel, HandlerStarts, HandlerFailsToStart,
              StartFails
<1>2. CASE WriterSendsControl
  BY <1>2 DEF WriterSendsControl
<1>3. CASE GroupStep /\ ~WriterSendsControl
  BY <1>3 DEF GroupStep, StartFailure, StopperReturns, HandlerWaitReturns, CleanupCloses,
              CleanupStopsHandler, CleanupReturns, LoopReturns
<1>4. CASE HandlerStep
  BY <1>4 DEF HandlerStep, HandlerFails, HandlerFinishes, UserStopsHandler
<1>5. ASSUME NEW s \in Stoppers, StopQueues(s) \/ StopSignals(s)
      PROVE  AppTypes'
  BY <1>5 DEF StopQueues, StopSignals, ControlHasRoom
<1>6. ASSUME NEW w \in Waiters, CallWait(w) \/ WaitGivesUp(w) \/ WaitJoins(w)
      PROVE  AppTypes'
  BY <1>6 DEF CallWait, WaitGivesUp, WaitJoins
<1>7. ASSUME NEW w \in Waiters, WaitReturns(w)
      PROVE  AppTypes'
  <2>1. cause \in Errors
    BY <1>7 DEF WaitReturns, WaitHasSeen, GroupTypes, cancelled
  <2>2. WaitResult \in {"nil"} \union Errors
    BY <2>1 DEF WaitResult
  <2>. QED BY <1>7, <2>2 DEF WaitReturns
<1>8. CASE UNCHANGED vars
  BY <1>8 DEF vars
<1>. QED
  BY <1>1, <1>2, <1>3, <1>4, <1>5, <1>6, <1>7, <1>8 DEF Next, AppStep

--------------------------------------------------------------------------------
(* The rest of the invariant, part by part.                                  *)

(* A cancelled context stays cancelled, for the same cause. *)
LEMMA CauseStays ==
    ASSUME GroupTypes, [Next]_vars, cancelled
    PROVE  cause' = cause
<1> USE DEF handlerVars, appVars
<1>1. CASE StartStep
  BY <1>1 DEF StartStep, CallStart, Dial, OpenDataChannel, HandlerStarts, HandlerFailsToStart,
              StartFails
<1>2. CASE GroupStep
  BY <1>2 DEF GroupStep, StartFailure, StopperReturns, HandlerWaitReturns, CleanupCloses,
              CleanupStopsHandler, CleanupReturns, LoopReturns, ReturnsError,
              WriterSendsControl
<1>3. CASE HandlerStep
  BY <1>3 DEF HandlerStep, HandlerFails, HandlerFinishes, UserStopsHandler
<1>4. CASE AppStep
  BY <1>4 DEF AppStep, StopQueues, StopSignals, CallWait, WaitGivesUp, WaitJoins, WaitReturns
<1>5. CASE UNCHANGED vars
  BY <1>5 DEF vars
<1>. QED
  BY <1>1, <1>2, <1>3, <1>4, <1>5 DEF Next

(* A step that is neither Start's nor a goroutine's leaves what Start and the *)
(* goroutines share alone, but for the stop channel and the handler.          *)
LEMMA OthersLeaveTheGroup ==
    ASSUME HandlerStep \/ AppStep \/ WriterSendsControl \/ UNCHANGED vars
    PROVE  UNCHANGED <<start, goroutine, cause, ws>>
  BY DEF HandlerStep, HandlerFails, HandlerFinishes, UserStopsHandler, AppStep, StopQueues,
         StopSignals, CallWait, WaitGivesUp, WaitJoins, WaitReturns,
         WriterSendsControl, vars, handlerVars, appVars

(* Only Start launches goroutines, cleanup among the first, and only a        *)
(* goroutine cancels.                                                         *)
LEMMA LaunchedStep ==
    ASSUME GroupTypes, Launched, [Next]_vars
    PROVE  Launched'
<1> USE DEF GroupTypes, Launched, Goroutines, Loops, cancelled, handlerVars, appVars
<1>1. CASE CallStart \/ Dial
  BY <1>1 DEF CallStart, Dial
<1>2. CASE OpenDataChannel
  BY <1>2 DEF OpenDataChannel
<1>3. CASE HandlerStarts \/ HandlerFailsToStart \/ StartFails
  BY <1>3 DEF HandlerStarts, HandlerFailsToStart, StartFails
<1>4. CASE StartFailure
  BY <1>4 DEF StartFailure, ReturnsError
<1>5. CASE StopperReturns
  BY <1>5 DEF StopperReturns, ReturnsError
<1>6. CASE HandlerWaitReturns
  BY <1>6 DEF HandlerWaitReturns, ReturnsError
<1>7. CASE CleanupCloses \/ CleanupStopsHandler \/ CleanupReturns
  BY <1>7 DEF CleanupCloses, CleanupStopsHandler, CleanupReturns
<1>8. ASSUME NEW g \in Loops, LoopReturns(g)
      PROVE  Launched'
  BY <1>8 DEF LoopReturns, ReturnsError
<1>9. CASE HandlerStep \/ AppStep \/ WriterSendsControl \/ UNCHANGED vars
  BY <1>9, OthersLeaveTheGroup
<1>. QED
  BY <1>1, <1>2, <1>3, <1>4, <1>5, <1>6, <1>7, <1>8, <1>9 DEF Next, StartStep, GroupStep

(* The websocket stays closed once cleanup has closed it, and the handler     *)
(* stopped once cleanup has stopped it.                                       *)
LEMMA CleanedUpStep ==
    ASSUME GroupTypes, Launched, CleanedUp, [Next]_vars
    PROVE  CleanedUp'
<1> USE DEF GroupTypes, CleanedUp, Goroutines, Loops, cancelled, handlerVars, appVars
<1>1. CASE CallStart \/ Dial \/ OpenDataChannel
  BY <1>1 DEF CallStart, Dial, OpenDataChannel, Launched
<1>2. CASE HandlerStarts \/ HandlerFailsToStart \/ StartFails
  BY <1>2 DEF HandlerStarts, HandlerFailsToStart, StartFails
<1>3. CASE StartFailure \/ StopperReturns \/ HandlerWaitReturns
  BY <1>3 DEF StartFailure, StopperReturns, HandlerWaitReturns, ReturnsError
<1>4. CASE CleanupCloses
  BY <1>4 DEF CleanupCloses, WebsocketClosed
<1>5. CASE CleanupStopsHandler
  BY <1>5 DEF CleanupStopsHandler, CleanupStops
<1>6. CASE CleanupReturns
  BY <1>6 DEF CleanupReturns
<1>7. ASSUME NEW g \in Loops, LoopReturns(g)
      PROVE  CleanedUp'
  BY <1>7 DEF LoopReturns, ReturnsError
<1>8. CASE HandlerStep
  BY <1>8, OthersLeaveTheGroup DEF HandlerStep, HandlerFails, HandlerFinishes, UserStopsHandler
<1>9. CASE AppStep \/ WriterSendsControl \/ UNCHANGED vars
  <2>1. UNCHANGED handlerStop
    BY <1>9 DEF AppStep, StopQueues, StopSignals, CallWait, WaitGivesUp, WaitJoins, WaitReturns, WriterSendsControl, vars
  <2>. QED BY <1>9, <2>1, OthersLeaveTheGroup
<1>. QED
  BY <1>1, <1>2, <1>3, <1>4, <1>5, <1>6, <1>7, <1>8, <1>9 DEF Next, StartStep, GroupStep

(* The goroutine that waits for the handler is there from the moment the      *)
(* handler runs until it no longer does.                                      *)
LEMMA HandlerIsAwaitedStep ==
    ASSUME GroupTypes, HandlerIsAwaited, [Next]_vars
    PROVE  HandlerIsAwaited'
<1> USE DEF GroupTypes, HandlerIsAwaited, Goroutines, Loops, handlerVars, appVars
<1>1. CASE StartStep
  BY <1>1 DEF StartStep, CallStart, Dial, OpenDataChannel, HandlerStarts, HandlerFailsToStart,
              StartFails
<1>2. CASE StartFailure \/ StopperReturns \/ HandlerWaitReturns
  BY <1>2 DEF StartFailure, StopperReturns, HandlerWaitReturns, ReturnsError
<1>3. CASE CleanupCloses \/ CleanupStopsHandler \/ CleanupReturns
  BY <1>3 DEF CleanupCloses, CleanupStopsHandler, CleanupReturns
<1>4. ASSUME NEW g \in Loops, LoopReturns(g)
      PROVE  HandlerIsAwaited'
  BY <1>4 DEF LoopReturns, ReturnsError
<1>5. CASE HandlerStep
  BY <1>5 DEF HandlerStep, HandlerFails, HandlerFinishes, UserStopsHandler
<1>6. CASE AppStep \/ WriterSendsControl \/ UNCHANGED vars
  BY <1>6 DEF AppStep, StopQueues, StopSignals, CallWait, WaitGivesUp, WaitJoins, WaitReturns, WriterSendsControl, vars
<1>. QED
  BY <1>1, <1>2, <1>3, <1>4, <1>5, <1>6 DEF Next, GroupStep

(* A Stop that has returned has returned for good. *)
LEMMA UserStoppedStays ==
    ASSUME AppTypes, [Next]_vars, UserStopped
    PROVE  UserStopped'
<1> USE DEF AppTypes, UserStopped, handlerVars, appVars
<1>1. CASE AppStep
  BY <1>1 DEF AppStep, StopQueues, StopSignals, CallWait, WaitGivesUp, WaitJoins, WaitReturns
<1>2. CASE StartStep \/ GroupStep \/ HandlerStep \/ UNCHANGED vars
  <2>1. UNCHANGED stop
    BY <1>2 DEF StartStep, CallStart, Dial, OpenDataChannel, HandlerStarts, HandlerFailsToStart,
                StartFails, GroupStep, StartFailure, StopperReturns, HandlerWaitReturns,
                CleanupCloses, CleanupStopsHandler, CleanupReturns, LoopReturns,
                WriterSendsControl, HandlerStep, HandlerFails, HandlerFinishes,
                UserStopsHandler, vars
  <2>. QED BY <2>1
<1>. QED
  BY <1>1, <1>2 DEF Next

(* Before anything is cancelled only Stop closes the channel; the stopper     *)
(* then speaks for that Stop.                                                 *)
LEMMA StopIsRequestedStep ==
    ASSUME GroupTypes, AppTypes, CleanedUp, StopIsRequested, [Next]_vars
    PROVE  StopIsRequested'
<1> USE DEF GroupTypes, StopIsRequested, handlerVars, appVars
<1>0. (UserStopped => UserStopped') /\ (cancelled => cause' = cause)
  BY UserStoppedStays, CauseStays
<1>1. CASE StartStep \/ HandlerStep \/ WriterSendsControl \/ UNCHANGED vars
  <2>1. UNCHANGED <<stopped, cause>>
    BY <1>1 DEF StartStep, CallStart, Dial, OpenDataChannel, HandlerStarts, HandlerFailsToStart,
                StartFails, WriterSendsControl, HandlerStep, HandlerFails,
                HandlerFinishes, UserStopsHandler, vars
  <2>. QED BY <1>0, <2>1 DEF cancelled
<1>2. CASE StartFailure \/ HandlerWaitReturns
  <2>1. stopped' = stopped /\ cause' \in {cause, "handlerStart", "handler"}
    BY <1>2 DEF StartFailure, HandlerWaitReturns, ReturnsError
  <2>. QED BY <1>0, <2>1 DEF cancelled
<1>3. ASSUME NEW g \in Loops, LoopReturns(g)
      PROVE  StopIsRequested'
  <2>1. stopped' = stopped /\ cause' \in {cause, "loop"}
    BY <1>3 DEF LoopReturns, ReturnsError
  <2>. QED BY <1>0, <2>1 DEF cancelled
<1>4. CASE StopperReturns
  <2>1. stopped = "closed" /\ stopped' = stopped
    BY <1>4 DEF StopperReturns
  <2>2. CASE cancelled
    BY <1>0, <2>1, <2>2 DEF cancelled
  <2>3. CASE ~cancelled
    BY <1>0, <2>1, <2>3
  <2>. QED BY <2>2, <2>3
<1>5. CASE CleanupCloses \/ CleanupStopsHandler \/ CleanupReturns
  <2>1. cancelled /\ cause' = cause
    BY <1>5 DEF CleanupCloses, CleanupStopsHandler, CleanupReturns, CleanedUp
  <2>. QED BY <1>0, <2>1 DEF cancelled
<1>6. ASSUME NEW s \in Stoppers, StopSignals(s)
      PROVE  StopIsRequested'
  <2>1. stop'[s] = "done"
    BY <1>6 DEF StopSignals, AppTypes
  <2>. QED BY <2>1 DEF UserStopped
<1>7. CASE AppStep /\ \A s \in Stoppers : ~StopSignals(s)
  <2>1. UNCHANGED <<stopped, cause>>
    BY <1>7 DEF AppStep, StopQueues, CallWait, WaitGivesUp, WaitJoins, WaitReturns
  <2>. QED BY <1>0, <2>1 DEF cancelled
<1>. QED
  BY <1>1, <1>2, <1>3, <1>4, <1>5, <1>6, <1>7 DEF Next, GroupStep

(* Start returns once. *)
LEMMA StartReturnsOnce ==
    ASSUME [Next]_vars, start \in {"nil", "error"}
    PROVE  start' = start
<1> USE DEF handlerVars, appVars
<1>1. CASE StartStep
  BY <1>1 DEF StartStep, CallStart, Dial, OpenDataChannel, HandlerStarts, HandlerFailsToStart,
              StartFails
<1>2. CASE GroupStep
  BY <1>2 DEF GroupStep, StartFailure, StopperReturns, HandlerWaitReturns, CleanupCloses,
              CleanupStopsHandler, CleanupReturns, LoopReturns, WriterSendsControl
<1>3. CASE HandlerStep \/ AppStep \/ UNCHANGED vars
  BY <1>3, OthersLeaveTheGroup
<1>. QED
  BY <1>1, <1>2, <1>3 DEF Next

(* After Start has returned, an errgroup whose goroutines have all returned   *)
(* is over: none is launched, and none is left to do anything.                *)
LEMMA TheEndStays ==
    ASSUME GroupTypes, [Next]_vars, start \in {"nil", "error"}, AllDone
    PROVE  /\ UNCHANGED <<goroutine, ws>>
           /\ handlerStop # "none" => UNCHANGED handlerStop
<1> USE DEF AllDone, Goroutines, Loops, handlerVars, appVars
<1>1. ~StartStep
  BY DEF StartStep, CallStart, Dial, OpenDataChannel, HandlerStarts, HandlerFailsToStart,
         StartFails
<1>2. ~GroupStep
  BY DEF GroupStep, StartFailure, StopperReturns, HandlerWaitReturns, CleanupCloses,
         CleanupStopsHandler, CleanupReturns, LoopReturns, WriterSendsControl
<1>3. CASE HandlerStep
  BY <1>3 DEF HandlerStep, HandlerFails, HandlerFinishes, UserStopsHandler
<1>4. CASE AppStep \/ UNCHANGED vars
  BY <1>4 DEF AppStep, StopQueues, StopSignals, CallWait, WaitGivesUp, WaitJoins, WaitReturns, vars
<1>. QED
  BY <1>1, <1>2, <1>3, <1>4 DEF Next

(* What a Wait has seen stays so, because all of it is final once Start has   *)
(* returned.                                                                  *)
LEMMA WaitHasSeenStep ==
    ASSUME GroupTypes, AppTypes, WaitHasSeen, [Next]_vars
    PROVE  WaitHasSeen'
<1> DEFINE Seen(w) ==
        /\ wait[w] # "idle" => start \in {"nil", "error"}
        /\ wait[w] = "joining" \/ Joined(w) => cancelled
        /\ Joined(w) => AllDone
        /\ wait[w] = "nil" => cause = "errSessionStopRequested"
<1> SUFFICES ASSUME NEW w \in Waiters
             PROVE  Seen(w)'
  BY DEF WaitHasSeen
<1>1. Seen(w)
  BY DEF WaitHasSeen
<1>2. wait[w] # "idle" => start' = start
  BY <1>1, StartReturnsOnce
<1>3. cancelled => cause' = cause
  BY CauseStays
<1>4. Joined(w) => AllDone /\ AllDone'
  <2>1. Joined(w) => wait[w] # "idle"
    BY DEF Joined, Errors
  <2>. QED BY <1>1, <2>1, TheEndStays DEF AllDone
<1>5. CASE UNCHANGED wait
  BY <1>1, <1>2, <1>3, <1>4, <1>5 DEF Joined, cancelled
<1>6. ASSUME NEW v \in Waiters, v # w,
             CallWait(v) \/ WaitGivesUp(v) \/ WaitJoins(v) \/ WaitReturns(v)
      PROVE  Seen(w)'
  <2>1. wait'[w] = wait[w]
    BY <1>6 DEF CallWait, WaitGivesUp, WaitJoins, WaitReturns, AppTypes
  <2>. QED BY <1>1, <1>2, <1>3, <1>4, <2>1 DEF Joined, cancelled
<1>7. CASE CallWait(w) \/ WaitGivesUp(w)
  <2>1. wait'[w] \in {"waiting", "ctx"} /\ start' \in {"nil", "error"}
    BY <1>1, <1>7 DEF CallWait, WaitGivesUp, AppTypes
  <2>. QED BY <2>1 DEF Joined, Errors
<1>8. CASE WaitJoins(w)
  <2>1. wait'[w] = "joining" /\ start' \in {"nil", "error"} /\ cancelled'
    BY <1>1, <1>8 DEF WaitJoins, AppTypes, cancelled
  <2>. QED BY <2>1 DEF Joined, Errors
<1>9. CASE WaitReturns(w)
  <2>1. start' \in {"nil", "error"} /\ cancelled' /\ AllDone' /\ cause' = cause
    BY <1>1, <1>9 DEF WaitReturns, WaitsForAll, AllDone, cancelled
  <2>2. wait'[w] = WaitResult /\ cause \in Errors
    BY <1>1, <1>9 DEF WaitReturns, AppTypes, GroupTypes, cancelled
  <2>. QED BY <2>1, <2>2 DEF WaitResult, Errors
<1>. QED
  <2>1. CASE StartStep \/ GroupStep \/ HandlerStep \/ UNCHANGED vars
    <3>1. UNCHANGED wait
      BY <2>1 DEF StartStep, CallStart, Dial, OpenDataChannel, HandlerStarts, HandlerFailsToStart,
                  StartFails, GroupStep, StartFailure, StopperReturns, HandlerWaitReturns,
                  CleanupCloses, CleanupStopsHandler, CleanupReturns, LoopReturns,
                  WriterSendsControl, HandlerStep, HandlerFails, HandlerFinishes,
                  UserStopsHandler, vars, appVars
    <3>. QED BY <1>5, <3>1
  <2>2. CASE \E s \in Stoppers : StopQueues(s) \/ StopSignals(s)
    <3>1. UNCHANGED wait
      BY <2>2 DEF StopQueues, StopSignals
    <3>. QED BY <1>5, <3>1
  <2>. QED BY <1>6, <1>7, <1>8, <1>9, <2>1, <2>2 DEF Next, AppStep

(* Start fails before it has launched anything, or after all it launched has  *)
(* returned; the rest is final.                                               *)
LEMMA FailedStartStep ==
    ASSUME GroupTypes, Launched, CleanedUp, FailedStartLeavesNothing, [Next]_vars
    PROVE  FailedStartLeavesNothing'
<1> USE DEF FailedStartLeavesNothing, AllDone
<1>1. CASE start = "error"
  BY <1>1, StartReturnsOnce, TheEndStays
<1>2. CASE start # "error" /\ start' = "error"
  <2>1. Dial \/ OpenDataChannel \/ StartFails
    <3>1. CASE StartStep
      BY <1>2, <3>1 DEF StartStep, CallStart, HandlerStarts, HandlerFailsToStart
    <3>2. CASE GroupStep
      BY <1>2, <3>2 DEF GroupStep, StartFailure, StopperReturns, HandlerWaitReturns, CleanupCloses,
                  CleanupStopsHandler, CleanupReturns, LoopReturns, WriterSendsControl
    <3>3. CASE HandlerStep \/ AppStep \/ UNCHANGED vars
      BY <1>2, <3>3, OthersLeaveTheGroup
    <3>. QED BY <3>1, <3>2, <3>3 DEF Next
  <2>2. CASE Dial \/ OpenDataChannel
    BY <1>2, <2>2 DEF Dial, OpenDataChannel, Launched, Goroutines
  <2>3. CASE StartFails
    <3>1. goroutine["cleanup"] = "done"
      BY <2>3 DEF StartFails, StartWaits, Launched, Goroutines
    <3>. QED BY <2>3, <3>1 DEF StartFails, StartWaits, CleanedUp, handlerVars
  <2>. QED BY <2>1, <2>2, <2>3
<1>. QED
  BY <1>1, <1>2

--------------------------------------------------------------------------------
(* The theorems.                                                             *)

(* TypeOK in its two parts. *)
LEMMA TypesInParts == TypeOK <=> GroupTypes /\ AppTypes
  BY DEF TypeOK, GroupTypes, AppTypes

(* It holds before Start is called. *)
LEMMA InitIInv == Init => IInv
<1> SUFFICES ASSUME Init PROVE IInv
  OBVIOUS
<1> USE DEF Init
<1>1. TypeOK
  BY DEF TypeOK, Errors
<1>2. Launched /\ CleanedUp /\ HandlerIsAwaited /\ StopIsRequested
  BY DEF Launched, CleanedUp, HandlerIsAwaited, StopIsRequested, Goroutines, cancelled
<1>3. WaitHasSeen /\ FailedStartLeavesNothing
  BY DEF WaitHasSeen, FailedStartLeavesNothing, Joined, Errors
<1>. QED
  BY <1>1, <1>2, <1>3 DEF IInv

(* The invariant holds in every state of every session.                      *)
THEOREM Invariance == Spec => []IInv
<1>1. IInv /\ [Next]_vars => IInv'
  <2> SUFFICES ASSUME IInv, [Next]_vars PROVE IInv'
    OBVIOUS
  <2>1. GroupTypes /\ AppTypes
    BY TypesInParts DEF IInv
  <2>2. TypeOK'
    BY <2>1, GroupTypesStep, AppTypesStep DEF IInv, TypeOK, GroupTypes, AppTypes
  <2>3. Launched' /\ CleanedUp' /\ HandlerIsAwaited'
    BY <2>1, LaunchedStep, CleanedUpStep, HandlerIsAwaitedStep DEF IInv
  <2>4. StopIsRequested' /\ WaitHasSeen' /\ FailedStartLeavesNothing'
    BY <2>1, StopIsRequestedStep, WaitHasSeenStep, FailedStartStep DEF IInv
  <2>. QED BY <2>2, <2>3, <2>4 DEF IInv
<1>. QED
  BY <1>1, InitIInv, PTL DEF Spec

(* Every variable keeps its type, and the control queue its capacity, for any *)
(* number of callers.                                                         *)
THEOREM TypeCorrect == Spec => []TypeOK
<1>1. IInv => TypeOK
  BY DEF IInv
<1>. QED
  BY <1>1, Invariance, PTL

(* Wait returns nil only if the application asked the session to stop: no     *)
(* failure that makes cleanup close the stopper's channel passes for a Stop.  *)
THEOREM NilOnlyAfterStop == Spec => []NilMeansStopRequested
<1>1. IInv => NilMeansStopRequested
  BY DEF IInv, WaitHasSeen, StopIsRequested, UserStopped, NilMeansStopRequested
<1>. QED
  BY <1>1, Invariance, PTL

(* When Wait returns other than for its own context, every goroutine has      *)
(* returned, the websocket is closed and the handler, told to stop, runs no   *)
(* more.                                                                      *)
THEOREM WaitIsTheEnd == Spec => []WaitMeansCompletelyStopped
<1>1. IInv => WaitMeansCompletelyStopped
  <2> SUFFICES ASSUME IInv, NEW w \in Waiters, Joined(w)
               PROVE  AllDone /\ ws = "closed" /\ handlerStop = "session" /\ handler # "running"
    BY DEF WaitMeansCompletelyStopped
  <2>1. AllDone /\ cancelled
    BY DEF IInv, WaitHasSeen
  <2>2. goroutine["cleanup"] = "done"
    BY <2>1 DEF IInv, Launched, AllDone, Goroutines
  <2>3. ws = "closed" /\ handlerStop = "session"
    BY <2>2 DEF IInv, CleanedUp
  <2>4. handler # "running"
    BY <2>1 DEF IInv, HandlerIsAwaited, AllDone, Goroutines
  <2>. QED BY <2>1, <2>3, <2>4
<1>. QED
  BY <1>1, Invariance, PTL

(* A Start that fails leaves no goroutine and no open websocket behind, and a *)
(* handler that failed to start has been told to stop.                        *)
THEOREM FailedStartIsClean == Spec => []FailedStartLeavesNothing
<1>1. IInv => FailedStartLeavesNothing
  BY DEF IInv
<1>. QED
  BY <1>1, Invariance, PTL

================================================================================

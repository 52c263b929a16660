--------------------------------- MODULE Stream ---------------------------------
(***************************************************************************)
(* handler.Stream: Start, Stop, Wait and the errgroup's goroutines: the    *)
(* cleanup, the stopper, the two copy loops (CopyOutput and CopyInput,     *)
(* with their helpers) and the one that tells the remote the size of the   *)
(* terminal.                                                               *)
(*                                                                         *)
(* The session is one that stops at some moment, or never.  Neither the    *)
(* Reader nor the Writer need ever return from a call, as a terminal's     *)
(* does not.  The terminal is resized by its user, and asking for its size *)
(* may fail, which yields some values all the same.                        *)
(***************************************************************************)
EXTENDS Naturals, Sequences

CONSTANTS
    Sizes,      \* pairs of width and height the terminal may have
    BadSizes,   \* pairs a failing Size() may return
    FirstSize,  \* the size it has at first
    NoSize,     \* the goroutine's first lastWidth, lastHeight
    MaxData,    \* bound: messages and reads, of any budget
    Budgets     \* bounds: messages and reads together, and resizes

ASSUME SizesAssumption == FirstSize \in Sizes /\ NoSize \notin Sizes
ASSUME BudgetsAssumption ==
    MaxData \in Nat /\ Budgets \subseteq [data : 0 .. MaxData, resizes : Nat]

VARIABLES
    start,       \* whether Start was called
    goroutine,   \* where cleanup, stopper and terminal are
    cause,       \* the errgroup's first error
    stopped,     \* the channel closed by signalStop
    stop,        \* whether Stop was called
    wait,        \* "idle", or what Wait returned
    sessionUp,   \* the session has not stopped
    term,        \* the size of the terminal
    resizes,     \* how often it changed
    budget,      \* what the session, the Reader and the terminal's user may do
    last,        \* lastWidth, lastHeight
    sending,     \* the size SetTerminalSize is writing
    remoteSize,  \* the last size the session took
    outPc, outHelper, payload, writeErrC, writeErr, taken, written,
    inPc, inHelper, buffer, reads, chunks, mem, result, readResultC, queued, ended

groupVars == <<start, goroutine, cause, stopped>>
appVars == <<stop, wait, sessionUp>>
sizeVars == <<term, resizes, budget, last, sending, remoteSize>>
outVars == <<outPc, outHelper, payload, writeErrC, writeErr, taken, written>>
inVars == <<inPc, inHelper, buffer, reads, chunks, mem, result, readResultC, queued, ended>>
vars == <<groupVars, appVars, sizeVars, outVars, inVars>>

cancelled == cause # "none"

Out == INSTANCE CopyOutput WITH
    NumMsgs <- MaxData, pc <- outPc, helper <- outHelper, ctxDone <- cancelled

In == INSTANCE CopyInput WITH
    NumReads <- MaxData, pc <- inPc, helper <- inHelper, ctxDone <- cancelled

Goroutines == {"cleanup", "stopper", "terminal"}
Errors == {"errStreamStopRequested", "output", "input"}

Init ==
    /\ start = "idle"
    /\ goroutine = [g \in Goroutines |-> "none"]
    /\ cause = "none"
    /\ stopped = "open"
    /\ stop = "idle"
    /\ wait = "idle"
    /\ sessionUp = TRUE
    /\ term = FirstSize
    /\ resizes = 0
    /\ budget \in Budgets
    /\ last = NoSize
    /\ sending = NoSize
    /\ remoteSize = NoSize
    /\ Out!Idle
    /\ In!Idle

(* A goroutine returns an error; the first one cancels the context. *)
GroupError(error) == cause' = IF cancelled THEN cause ELSE error

AllDone ==
    /\ \A g \in Goroutines : goroutine[g] \in {"none", "done"}
    /\ outPc \in {"none", "returned"} /\ inPc \in {"none", "returned"}

(* Bounds what comes from the session and the Reader. *)
MoreData == Len(taken) + reads < budget.data

(* A terminal with no resizes left to it is one whose size is always known. *)
SizesRead == IF budget.resizes = 0 THEN {term} ELSE BadSizes \union {term}

--------------------------------------------------------------------------------
(* Start, Stop and Wait.                                                     *)

Start ==
    /\ start = "idle"
    /\ start' = "nil"
    /\ goroutine' = [g \in Goroutines |-> "running"]
    /\ Out!Call
    /\ In!Call
    /\ UNCHANGED <<cause, stopped, appVars, sizeVars>>

Stop ==
    /\ stop = "idle"
    /\ stop' = "done"
    /\ stopped' = "closed"
    /\ UNCHANGED <<start, goroutine, cause, wait, sessionUp, sizeVars, outVars, inVars>>

(* A slip that calls every end a graceful one as long as Stop's channel is closed. *)
ResultByChannel == IF stopped = "closed" THEN "nil" ELSE cause

(* A slip that shows the caller the error the stopper returned. *)
ResultAsItIs == cause

(* "if err != errStreamStopRequested { return err }; return nil" *)
WaitResult == IF cause = "errStreamStopRequested" THEN "nil" ELSE cause

(* "<-s.errctx.Done()", then "s.errgrp.Wait()".  Giving up earlier because of *)
(* the caller's context changes nothing.                                      *)
WaitReturns ==
    /\ start = "nil" /\ wait = "idle"
    /\ cancelled /\ AllDone
    /\ wait' = WaitResult
    /\ UNCHANGED <<groupVars, stop, sessionUp, sizeVars, outVars, inVars>>

SessionStops ==
    /\ sessionUp
    /\ sessionUp' = FALSE
    /\ UNCHANGED <<groupVars, stop, wait, sizeVars, outVars, inVars>>

--------------------------------------------------------------------------------
(* The goroutines of the errgroup.                                           *)

(* A slip that does not wake the stopper when something else failed. *)
CleanupSignalsNobody == stopped

(* "s.signalStop()" *)
CleanupSignals == "closed"

Cleanup ==
    /\ goroutine["cleanup"] = "running"
    /\ cancelled
    /\ stopped' = CleanupSignals
    /\ goroutine' = [goroutine EXCEPT !["cleanup"] = "done"]
    /\ UNCHANGED <<start, cause, appVars, sizeVars, outVars, inVars>>

Stopper ==
    /\ goroutine["stopper"] = "running"
    /\ stopped = "closed"
    /\ goroutine' = [goroutine EXCEPT !["stopper"] = "done"]
    /\ GroupError("errStreamStopRequested")
    /\ UNCHANGED <<start, stopped, appVars, sizeVars, outVars, inVars>>

OutputGoesOn ==
    /\ \/ MoreData /\ \E kind \in Out!Kinds : Out!TakeMessage(kind)
       \/ Out!HandOver
       \/ Out!TakeResult /\ outPc' = "read"
    /\ UNCHANGED <<groupVars, appVars, sizeVars, inVars>>

OutputReturns ==
    /\ Out!LoopReturns
    /\ GroupError("output")
    /\ UNCHANGED <<start, goroutine, stopped, appVars, sizeVars, inVars>>

InputGoesOn ==
    /\ In!LoopGoesOn
    /\ UNCHANGED <<groupVars, appVars, sizeVars, outVars>>

InputReturns ==
    /\ In!LoopReturns
    /\ GroupError("input")
    /\ UNCHANGED <<start, goroutine, stopped, appVars, sizeVars, outVars>>

--------------------------------------------------------------------------------
(* The helpers of the copy loops, which the errgroup does not know.          *)

Helpers(outStep, inStep) ==
    /\ \/ outStep /\ UNCHANGED inVars
       \/ inStep /\ UNCHANGED outVars
    /\ UNCHANGED <<groupVars, appVars, sizeVars>>

UserCallReturns ==
    Helpers(Out!WriteReturns, MoreData /\ \E r \in In!Results : In!ReadReturns(r))

HelperGoesOn == Helpers(Out!Report \/ Out!HelperReturns, In!Report \/ In!HelperReturns)

--------------------------------------------------------------------------------
(* The size of the terminal.                                                 *)

Resize ==
    /\ resizes < budget.resizes
    /\ term' \in Sizes \ {term}
    /\ resizes' = resizes + 1
    /\ UNCHANGED <<budget, last, sending, remoteSize, groupVars, appVars, outVars, inVars>>

(* A slip: both have to differ. *)
BothChanged(size) == last[1] # size[1] /\ last[2] # size[2]

(* "lastWidth != width || lastHeight != height" *)
SizeChanged(size) == last[1] # size[1] \/ last[2] # size[2]

(* A tick of 250 ms, and Size() returns these values: an error is only logged. *)
Tick(size) ==
    /\ goroutine["terminal"] = "running"
    /\ SizeChanged(size)
    /\ sending' = size
    /\ goroutine' = [goroutine EXCEPT !["terminal"] = "writing"]
    /\ UNCHANGED <<start, cause, stopped, appVars, term, resizes, budget, last, remoteSize, outVars, inVars>>

(* SetTerminalSize returns; whether it failed or not the size counts as sent. *)
SizeWritten(ok) ==
    /\ goroutine["terminal"] = "writing"
    /\ \/ ok /\ remoteSize' = sending
       \/ ~ok /\ (cancelled \/ ~sessionUp) /\ UNCHANGED remoteSize
    /\ last' = sending
    /\ goroutine' = [goroutine EXCEPT !["terminal"] = "running"]
    /\ UNCHANGED <<start, cause, stopped, appVars, term, resizes, budget, sending, outVars, inVars>>

(* "case <-s.errctx.Done(): return nil" *)
TerminalReturns ==
    /\ goroutine["terminal"] = "running"
    /\ cancelled
    /\ goroutine' = [goroutine EXCEPT !["terminal"] = "done"]
    /\ UNCHANGED <<start, cause, stopped, appVars, sizeVars, outVars, inVars>>

--------------------------------------------------------------------------------
Next ==
    \/ Start \/ Stop \/ WaitReturns \/ SessionStops
    \/ Cleanup \/ Stopper
    \/ OutputGoesOn \/ OutputReturns \/ InputGoesOn \/ InputReturns
    \/ UserCallReturns \/ HelperGoesOn
    \/ Resize
    \/ \E size \in SizesRead : Tick(size)
    \/ \E ok \in BOOLEAN : SizeWritten(ok)
    \/ TerminalReturns

(* Goroutines that can go on do.  Nothing is assumed of the Reader, the       *)
(* Writer and the session, except that a session which has not stopped takes  *)
(* what is written to it.  Size() succeeds again and again, and as each tick  *)
(* may meet a failure instead that is strong fairness.  Each select that has  *)
(* the context among its cases takes it some time.                            *)
Fairness ==
    /\ WF_vars(Cleanup) /\ WF_vars(Stopper)
    /\ WF_vars(cancelled /\ OutputReturns) /\ WF_vars(cancelled /\ InputReturns)
    /\ WF_vars(Helpers(Out!Report \/ Out!HelperReturns, FALSE))
    /\ WF_vars(Helpers(FALSE, In!Report \/ In!HelperReturns))
    /\ SF_vars(Tick(term))
    /\ WF_vars(\E ok \in BOOLEAN : SizeWritten(ok))
    /\ SF_vars(TerminalReturns)

Spec == Init /\ [][Next]_vars

FairSpec == Spec /\ Fairness

--------------------------------------------------------------------------------
(* Properties.                                                               *)

(* Every variable has its type.  In particular Wait keeps the stopper's error *)
(* to itself.                                                                 *)
TypeOK ==
    /\ start \in {"idle", "nil"}
    /\ goroutine \in [Goroutines -> {"none", "running", "writing", "done"}]
    /\ cause \in Errors \union {"none"}
    /\ stopped \in {"open", "closed"}
    /\ stop \in {"idle", "done"}
    /\ wait \in {"idle", "nil", "output", "input"}
    /\ sessionUp \in BOOLEAN
    /\ term \in Sizes
    /\ budget \in Budgets
    /\ resizes \in 0 .. budget.resizes
    /\ {last, sending, remoteSize} \subseteq Sizes \union BadSizes \union {NoSize}
    /\ Out!TypeOK
    /\ In!TypeOK

(* The Writer gets the session's output, nothing else, in order and once.     *)
OutputInOrder == Out!OutputInOrder

(* The session gets what the Reader read, in order, and the bytes that came   *)
(* with an error too; what it still holds is not overwritten.                 *)
InputInOrder == In!InputInOrder

(* Neither helper outlives its loop by more than the call of the Reader or of *)
(* the Writer it is in.                                                       *)
HelpersEnd == Out!HelperEnds /\ In!HelperEnds

(* A started handler that is stopped, before or after Start, or that fails,   *)
(* ends: every goroutine of the errgroup returns, though the Reader and the   *)
(* Writer may hang for ever and the session may not stop.                     *)
ShutdownCompletes == (start = "nil" /\ (stopped = "closed" \/ cancelled)) ~> AllDone

(* When Wait returns, everything of the errgroup has returned and both copy   *)
(* loops have left their helpers alone; it returns nil only after a Stop,     *)
(* although cleanup signals Stop's channel after every failure.               *)
WaitTellsTheEnd ==
    wait # "idle" => AllDone /\ (wait = "nil" => stop = "done")

(* While the session lives, the remote gets to know the size of the terminal, *)
(* whatever it was told before and however often Size() failed.               *)
SizeReachesRemote ==
    start = "nil" ~> (remoteSize = term \/ cancelled \/ ~sessionUp)

================================================================================

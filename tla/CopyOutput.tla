------------------------------- MODULE CopyOutput -------------------------------
(***************************************************************************)
(* CopySessionReaderToWriter: the loop that takes the session's messages   *)
(* and has the payloads of kind Output written to an io.Writer.  Because a *)
(* Write cannot be aborted, a helper goroutine does it: the loop hands it  *)
(* one payload on the unbuffered writeC, closes that channel when it       *)
(* returns, and gets the error back on writeErrC, which holds one.         *)
(*                                                                         *)
(* A message is known by its place in the session's stream.                *)
(***************************************************************************)
EXTENDS Naturals, Sequences

CONSTANTS
    NumMsgs   \* bound: messages the session has for the loop

VARIABLES
    pc,         \* where the loop is
    helper,     \* where the helper is
    payload,    \* the message the helper was handed last
    writeErrC,  \* the result on the channel, or "none"
    writeErr,   \* the result of the last Write
    taken,      \* the kinds of the messages read from the session
    written,    \* the messages the Writer has
    ctxDone,    \* the loop's context is cancelled
    sessionUp   \* the session has not stopped

loopVars == <<pc, taken>>
helperVars == <<helper, payload, writeErr, written>>
vars == <<loopVars, helperVars, writeErrC>>
envVars == <<ctxDone, sessionUp>>

Kinds == {"Output", "Other"}

Idle ==
    /\ pc = "none"
    /\ helper = "none"
    /\ payload = 0
    /\ writeErrC = "none"
    /\ writeErr = "none"
    /\ taken = <<>>
    /\ written = <<>>

(* The call: the helper waits on writeC, the loop in session.Read. *)
Call ==
    /\ pc = "none"
    /\ pc' = "read"
    /\ helper' = "idle"
    /\ UNCHANGED <<payload, writeErrC, writeErr, taken, written>>

--------------------------------------------------------------------------------
(* The loop.  Returning closes writeC.                                       *)

(* A slip that writes whatever comes. *)
WritesAny(kind) == TRUE

(* "if message.PayloadType != messages.Output { continue }" *)
IsOutput(kind) == kind = "Output"

(* session.Read(ctx) has no priority: it may return a message although the *)
(* context is cancelled.                                                   *)
TakeMessage(kind) ==
    /\ pc = "read"
    /\ Len(taken) < NumMsgs
    /\ taken' = Append(taken, kind)
    /\ pc' = IF IsOutput(kind) THEN "offer" ELSE "read"
    /\ UNCHANGED <<helperVars, writeErrC>>

ReadFails ==
    /\ pc = "read"
    /\ ctxDone \/ ~sessionUp
    /\ pc' = "returned"
    /\ UNCHANGED <<helperVars, writeErrC, taken>>

(* "writeC <- message.Payload" meets "payload, ok := <-writeC" *)
HandOver ==
    /\ pc = "offer"
    /\ helper = "idle"
    /\ pc' = "await"
    /\ helper' = "writing"
    /\ payload' = Len(taken)
    /\ UNCHANGED <<writeErrC, writeErr, taken, written>>

(* "case <-ctx.Done()" of either select *)
GiveUp ==
    /\ pc \in {"offer", "await"}
    /\ ctxDone
    /\ pc' = "returned"
    /\ UNCHANGED <<helperVars, writeErrC, taken>>

(* "case err = <-writeErrC" *)
TakeResult ==
    /\ pc = "await"
    /\ writeErrC # "none"
    /\ writeErrC' = "none"
    /\ pc' = IF writeErrC = "error" THEN "returned" ELSE "read"
    /\ UNCHANGED <<helperVars, taken>>

--------------------------------------------------------------------------------
(* The helper.                                                               *)

(* writer.Write(payload) returns; a failed Write may have written all the same. *)
WriteReturns ==
    /\ helper = "writing"
    /\ helper' = "reporting"
    /\ \/ writeErr' = "nil" /\ written' = Append(written, payload)
       \/ writeErr' = "error" /\ written' \in {written, Append(written, payload)}
    /\ UNCHANGED <<loopVars, payload, writeErrC>>

(* A slip that makes writeErrC unbuffered. *)
ResultIsAwaited == pc = "await"

(* make(chan error, 1) *)
ResultHasRoom == writeErrC = "none"

(* "writeErrC <- err" *)
Report ==
    /\ helper = "reporting"
    /\ ResultHasRoom
    /\ writeErrC' = writeErr
    /\ helper' = "idle"
    /\ UNCHANGED <<loopVars, payload, writeErr, written>>

(* writeC is closed. *)
HelperReturns ==
    /\ helper = "idle"
    /\ pc = "returned"
    /\ helper' = "done"
    /\ UNCHANGED <<loopVars, payload, writeErrC, writeErr, written>>

--------------------------------------------------------------------------------
LoopReturns == ReadFails \/ GiveUp \/ (TakeResult /\ pc' = "returned")

LoopGoesOn ==
    \/ \E kind \in Kinds : TakeMessage(kind)
    \/ HandOver
    \/ TakeResult /\ pc' = "read"

HelperStep == WriteReturns \/ Report \/ HelperReturns

(* By itself, in a context that is cancelled and a session that stops at any *)
(* time.                                                                     *)
Next ==
    \/ (Call \/ LoopReturns \/ LoopGoesOn \/ HelperStep) /\ UNCHANGED envVars
    \/ ctxDone' = TRUE /\ UNCHANGED <<sessionUp, vars>>
    \/ sessionUp' = FALSE /\ UNCHANGED <<ctxDone, vars>>

Init == Idle /\ ctxDone = FALSE /\ sessionUp = TRUE

Spec == Init /\ [][Next]_<<vars, envVars>>

--------------------------------------------------------------------------------
(* Properties.                                                               *)

TypeOK ==
    /\ pc \in {"none", "read", "offer", "await", "returned"}
    /\ helper \in {"none", "idle", "writing", "reporting", "done"}
    /\ payload \in 0 .. NumMsgs
    /\ writeErrC \in {"none", "nil", "error"}
    /\ writeErr \in {"none", "nil", "error"}
    /\ taken \in Seq(Kinds) /\ Len(taken) <= NumMsgs
    /\ written \in Seq(1 .. NumMsgs) /\ Len(written) <= Len(taken)

(* The messages taken that the Writer should get. *)
Outputs == {i \in DOMAIN taken : taken[i] = "Output"}

(* The messages taken that the Writer should get and has not. *)
Missing == Outputs \ {written[i] : i \in DOMAIN written}

(* The Writer gets the session's output and nothing else, in order and once, *)
(* although two goroutines handle it: all of it when the loop goes on to     *)
(* read, and at any time all of it but the message in hand.                  *)
OutputInOrder ==
    /\ \A i, j \in DOMAIN written : i < j => written[i] < written[j]
    /\ \A i \in DOMAIN written : written[i] \in Outputs
    /\ Missing \subseteq {Len(taken)}
    /\ pc = "read" => Missing = {}

(* The helper outlives the loop by the Write it is in and no longer: it never *)
(* waits for somebody to take its result or to hand it another payload.       *)
HelperEnds == (pc = "returned" /\ helper # "writing") ~> helper = "done"

================================================================================

-------------------------------- MODULE CopyInput --------------------------------
(***************************************************************************)
(* CopyReaderToSessionWriter: the loop that has an io.Reader read and      *)
(* hands what comes to the session as stream messages.  A helper goroutine *)
(* reads, into a buffer the loop hands it on the unbuffered readC, and     *)
(* answers on readResultC, which holds one result.                         *)
(*                                                                         *)
(* A message holds its buffer, not a copy of it, and the session keeps the *)
(* message until it is acknowledged.  So mem has what each buffer contains *)
(* now, and queued the buffers the session was given.                      *)
(***************************************************************************)
EXTENDS Naturals, Sequences

CONSTANTS
    NumReads   \* bound: calls of Reader.Read that return

VARIABLES
    pc,           \* where the loop is
    helper,       \* where the helper is
    buffer,       \* the buffer of this iteration
    reads,        \* calls of Reader.Read that have returned
    chunks,       \* how many of them returned bytes
    mem,          \* the chunk each buffer contains, 0 for none
    result,       \* what the last Read returned: whether bytes, whether an error
    readResultC,  \* whether that result is on the channel
    queued,       \* the buffers handed to session.Write, which took them
    ended,        \* why the loop has returned
    ctxDone,      \* the loop's context is cancelled
    sessionUp     \* the session has not stopped

loopVars == <<pc, buffer, queued, ended>>
helperVars == <<helper, reads, chunks, mem, result>>
vars == <<loopVars, helperVars, readResultC>>
envVars == <<ctxDone, sessionUp>>

Buffers == 1 .. (NumReads + 1)
Results == [bytes : BOOLEAN, err : BOOLEAN]
NoResult == [bytes |-> FALSE, err |-> FALSE]

Idle ==
    /\ pc = "none"
    /\ helper = "none"
    /\ buffer = 0
    /\ reads = 0
    /\ chunks = 0
    /\ mem = [b \in Buffers |-> 0]
    /\ result = NoResult
    /\ readResultC = FALSE
    /\ queued = <<>>
    /\ ended = "no"

(* The call: the loop goes to its first iteration, the helper waits on readC. *)
Call ==
    /\ pc = "none"
    /\ pc' = "offer"
    /\ helper' = "idle"
    /\ UNCHANGED <<buffer, reads, chunks, mem, result, readResultC, queued, ended>>

--------------------------------------------------------------------------------
(* The loop.  Returning closes readC.                                        *)

Return(why) == pc' = "returned" /\ ended' = why

(* A slip that allocates the buffer before the loop. *)
SameBuffer == 1

(* "buffer := make([]byte, 1024)", in each iteration *)
NewBuffer == reads + 1

(* "readC <- buffer" meets "buffer, ok := <-readC" *)
HandOver ==
    /\ pc = "offer"
    /\ helper = "idle"
    /\ pc' = "await"
    /\ helper' = "reading"
    /\ buffer' = NewBuffer
    /\ UNCHANGED <<reads, chunks, mem, result, readResultC, queued, ended>>

(* "case <-ctx.Done()" of either select *)
GiveUp ==
    /\ pc \in {"offer", "await"}
    /\ ctxDone
    /\ Return("ctx")
    /\ UNCHANGED <<buffer, queued, helperVars, readResultC>>

(* What follows the bytes: "if readerErr != nil" returns, or one more iteration. *)
AfterBytes ==
    \/ result.err /\ Return("reader")
    \/ ~result.err /\ pc' = "offer" /\ UNCHANGED ended

(* A slip that looks at the error before the bytes. *)
BytesUnlessError == result.bytes /\ ~result.err

(* "if bytes > 0" comes before "if readerErr != nil". *)
BytesFirst == result.bytes

(* "case r := <-readResultC" *)
TakeResult ==
    /\ pc = "await"
    /\ readResultC
    /\ readResultC' = FALSE
    /\ IF BytesFirst THEN pc' = "write" /\ UNCHANGED ended ELSE AfterBytes
    /\ UNCHANGED <<buffer, queued, helperVars>>

(* session.Write(ctx, message) takes the message.  Like Read it has no priority. *)
WriteSucceeds ==
    /\ pc = "write"
    /\ queued' = Append(queued, buffer)
    /\ AfterBytes
    /\ UNCHANGED <<buffer, helperVars, readResultC>>

WriteFails ==
    /\ pc = "write"
    /\ ctxDone \/ ~sessionUp
    /\ Return("session")
    /\ UNCHANGED <<buffer, queued, helperVars, readResultC>>

--------------------------------------------------------------------------------
(* The helper.                                                               *)

(* reader.Read(buffer) returns n bytes, or none, and an error or not. *)
ReadReturns(r) ==
    /\ helper = "reading"
    /\ reads < NumReads
    /\ helper' = "reporting"
    /\ reads' = reads + 1
    /\ result' = r
    /\ IF r.bytes
       THEN chunks' = chunks + 1 /\ mem' = [mem EXCEPT ![buffer] = chunks + 1]
       ELSE UNCHANGED <<chunks, mem>>
    /\ UNCHANGED <<loopVars, readResultC>>

(* A slip that makes readResultC unbuffered. *)
ResultIsAwaited == pc = "await"

(* make(chan readResult, 1) *)
ResultHasRoom == ~readResultC

(* "readResultC <- readResult{n: n, err: err}" *)
Report ==
    /\ helper = "reporting"
    /\ ResultHasRoom
    /\ readResultC' = TRUE
    /\ helper' = "idle"
    /\ UNCHANGED <<loopVars, reads, chunks, mem, result>>

(* readC is closed. *)
HelperReturns ==
    /\ helper = "idle"
    /\ pc = "returned"
    /\ helper' = "done"
    /\ UNCHANGED <<loopVars, reads, chunks, mem, result, readResultC>>

--------------------------------------------------------------------------------
LoopReturns ==
    \/ GiveUp \/ WriteFails
    \/ (TakeResult \/ WriteSucceeds) /\ pc' = "returned"

LoopGoesOn ==
    \/ HandOver
    \/ (TakeResult \/ WriteSucceeds) /\ pc' # "returned"

HelperStep == (\E r \in Results : ReadReturns(r)) \/ Report \/ HelperReturns

(* By itself, in a context that is cancelled and a session that stops at any *)
(* time.                                                                     *)
Next ==
    \/ (Call \/ LoopReturns \/ LoopGoesOn \/ HelperStep) /\ UNCHANGED envVars
    \/ ctxDone' = TRUE /\ UNCHANGED <<sessionUp, vars>>
    \/ sessionUp' = FALSE /\ UNCHANGED <<ctxDone, vars>>

Init == Idle /\ ctxDone = FALSE /\ sessionUp = TRUE

Spec == Init /\ [][Next]_<<vars, envVars>>

--------------------------------------------------------------------------------
(* Properties.                                                               *)

TypeOK ==
    /\ pc \in {"none", "offer", "await", "write", "returned"}
    /\ helper \in {"none", "idle", "reading", "reporting", "done"}
    /\ buffer \in Buffers \union {0}
    /\ reads \in 0 .. NumReads
    /\ chunks \in 0 .. reads
    /\ mem \in [Buffers -> 0 .. NumReads]
    /\ result \in Results
    /\ readResultC \in BOOLEAN
    /\ queued \in Seq(Buffers) /\ Len(queued) <= NumReads
    /\ ended \in {"no", "ctx", "session", "reader"}

(* What the session was given is, and stays, what was read, in order: no      *)
(* buffer the session still holds is read into again.  Nothing is missing     *)
(* when the loop goes on to read, nor when it ended because of the Reader:    *)
(* "callers to read should always process any bytes first *and then* handle   *)
(* the error."  Otherwise at most the last chunk is missing.                  *)
InputInOrder ==
    /\ \A i \in 1 .. Len(queued) : mem[queued[i]] = i
    /\ chunks <= Len(queued) + 1
    /\ pc = "offer" \/ ended = "reader" => Len(queued) = chunks

(* The helper outlives the loop by the Read it is in and no longer.           *)
HelperEnds == (pc = "returned" /\ helper # "reading") ~> helper = "done"

================================================================================

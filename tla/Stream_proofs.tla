----------------------------- MODULE Stream_proofs -----------------------------
(***************************************************************************)
(* Theorems about Stream, with the copy loops CopyOutput and CopyInput in  *)
(* it, for any amount of data and any terminal, and their proofs.          *)
(***************************************************************************)
EXTENDS Stream, Channels, TLAPS

(* The bound on the data to copy, which each copy loop is instantiated with. *)
LEMMA DataBound == MaxData \in Nat
  BY BudgetsAssumption

USE DataBound

--------------------------------------------------------------------------------
(* CopySessionReaderToWriter.                                                *)

(* Who has the message in hand: the loop until it has handed it over, the    *)
(* helper while it writes, and writeErrC holds a result only in between.     *)
OutTurns ==
    /\ outPc \in {"none", "read", "offer"} =>
         writeErrC = "none" /\ outHelper = (IF outPc = "none" THEN "none" ELSE "idle")
    /\ outPc = "none" => taken = <<>> /\ written = <<>>
    /\ outPc = "await" => /\ outHelper \in {"writing", "reporting", "idle"}
                          /\ outHelper = "idle" <=> writeErrC # "none"
    /\ outHelper \in {"writing", "reporting"} => outPc \in {"await", "returned"}
    /\ outHelper = "writing" => payload = Len(taken)
    /\ outHelper = "reporting" => writeErr # "none"

(* The message in hand, and no other, may be missing. *)
OutProgress ==
    /\ outPc = "offer" \/ outHelper = "writing" =>
         Out!Missing = {Len(taken)} /\ Len(written) < Len(taken)
    /\ outHelper = "reporting" /\ writeErr = "nil" => Out!Missing = {}
    /\ writeErrC = "nil" => Out!Missing = {}

OutInv ==
    /\ Out!TypeOK
    /\ OutTurns
    /\ OutProgress
    /\ OutputInOrder

(* A copy loop that has not started has taken nothing and owes nothing. *)
LEMMA OutStart ==
    ASSUME Out!Idle
    PROVE  OutInv
<1>1. Out!TypeOK
  BY EmptyChannel DEF Out!Idle, Out!TypeOK
<1>2. Out!Missing = {}
  BY NoKeys DEF Out!Idle, Out!Missing, Out!Outputs
<1>3. OutputInOrder
  BY <1>2, NoKeys DEF Out!Idle, OutputInOrder, Out!OutputInOrder
<1>. QED
  BY <1>1, <1>2, <1>3 DEF OutInv, OutTurns, OutProgress, Out!Idle

(* What the loop and the helper do without touching the message or the output. *)
LEMMA OutMoves ==
    ASSUME OutInv,
           Out!Call \/ Out!HandOver \/ Out!ReadFails \/ Out!GiveUp \/ Out!TakeResult
             \/ Out!Report \/ Out!HelperReturns \/ UNCHANGED outVars
    PROVE  OutInv'
<1> USE DEF OutInv, OutTurns, Out!TypeOK, Out!Call, Out!HandOver, Out!ReadFails, Out!GiveUp,
            Out!TakeResult, Out!Report, Out!ResultHasRoom, Out!HelperReturns, outVars
<1>1. taken' = taken /\ written' = written /\ Len(taken) \in Nat
  BY LenProperties DEF Out!helperVars, Out!loopVars
<1>2. Out!Missing' = Out!Missing /\ Out!Outputs' = Out!Outputs
  BY <1>1 DEF Out!Missing, Out!Outputs
<1>3. Out!TypeOK'
  BY <1>1 DEF Out!helperVars, Out!loopVars
<1>4. OutTurns'
  BY <1>1 DEF Out!helperVars, Out!loopVars
<1>5. OutProgress'
  BY <1>1, <1>2 DEF OutProgress, Out!helperVars, Out!loopVars
<1>6. OutputInOrder'
  <2>1. outPc' = "read" => Out!Missing = {}
    BY <1>1, NoKeys DEF Out!helperVars, Out!loopVars, OutProgress, OutputInOrder, Out!OutputInOrder,
                Out!Missing, Out!Outputs
  <2>. QED BY <1>1, <1>2, <2>1 DEF OutputInOrder, Out!OutputInOrder
<1>. QED
  BY <1>3, <1>4, <1>5, <1>6

(* The loop takes the next message only when nothing is missing.              *)
LEMMA OutTakes ==
    ASSUME OutInv, NEW kind \in Out!Kinds, Out!TakeMessage(kind)
    PROVE  OutInv'
<1> USE DEF OutInv, Out!TakeMessage
<1>1. /\ outPc = "read" /\ outPc' = (IF kind = "Output" THEN "offer" ELSE "read")
      /\ taken' = Append(taken, kind)
      /\ UNCHANGED <<outHelper, payload, writeErrC, writeErr, written>>
  BY DEF Out!IsOutput, Out!helperVars
<1>2. /\ taken' \in Seq(Out!Kinds)
      /\ Len(taken) \in Nat /\ Len(taken') = Len(taken) + 1 /\ Len(taken') <= MaxData
      /\ \A i \in 1 .. Len(taken) : taken'[i] = taken[i]
      /\ taken'[Len(taken) + 1] = kind
      /\ DOMAIN taken = 1 .. Len(taken) /\ DOMAIN taken' = 1 .. Len(taken')
  BY <1>1, SendOne, LenProperties DEF Out!TypeOK
<1>3. Len(written) \in Nat /\ DOMAIN written = 1 .. Len(written) /\ Len(written) <= Len(taken)
  BY LenProperties DEF Out!TypeOK
<1>4. Out!Outputs' = IF kind = "Output" THEN Out!Outputs \union {Len(taken')} ELSE Out!Outputs
  BY <1>2 DEF Out!Outputs
<1>5. Out!Missing = {} /\ \A i \in DOMAIN written : written[i] \in 1 .. Len(taken)
  BY <1>1, <1>2 DEF OutputInOrder, Out!OutputInOrder, Out!Outputs
<1>6. Out!Missing' = IF kind = "Output" THEN {Len(taken')} ELSE {}
  <2>1. Len(taken') \notin {written[i] : i \in DOMAIN written}
    BY <1>2, <1>5
  <2>. QED BY <1>1, <1>4, <1>5, <2>1 DEF Out!Missing
<1>7. Out!TypeOK'
  BY <1>1, <1>2, <1>3 DEF Out!TypeOK
<1>8. OutTurns'
  BY <1>1 DEF OutTurns
<1>9. OutProgress'
  BY <1>1, <1>2, <1>3, <1>6 DEF OutTurns, OutProgress
<1>10. OutputInOrder'
  BY <1>1, <1>4, <1>6 DEF OutputInOrder, Out!OutputInOrder
<1>. QED
  BY <1>7, <1>8, <1>9, <1>10

(* The helper writes the message in hand, which is behind all it has written. *)
LEMMA OutWrites ==
    ASSUME OutInv, Out!WriteReturns
    PROVE  OutInv'
<1> USE DEF OutInv, Out!WriteReturns, Out!loopVars
<1>1. /\ payload = Len(taken) /\ Out!Missing = {payload} /\ Len(written) < Len(taken)
      /\ payload \in 1 .. MaxData /\ payload \in Out!Outputs
      /\ DOMAIN taken = 1 .. Len(taken) /\ Len(taken) \in Nat
      /\ DOMAIN written = 1 .. Len(written) /\ Len(written) \in Nat
      /\ outHelper = "writing" /\ outPc \in {"await", "returned"}
  BY LenProperties DEF OutTurns, OutProgress, Out!TypeOK, Out!Missing, Out!Outputs
<1>2. \A i \in DOMAIN written : written[i] \in Out!Outputs /\ written[i] < payload
  <2>1. \A i \in DOMAIN written : written[i] \in Out!Outputs /\ written[i] # payload
    BY <1>1 DEF OutputInOrder, Out!OutputInOrder, Out!Missing
  <2>2. \A k \in Out!Outputs : k \in 1 .. payload
    BY <1>1 DEF Out!Outputs
  <2>3. \A k \in 1 .. payload : k # payload => k < payload
    BY <1>1
  <2>. QED BY <2>1, <2>2, <2>3
<1>3. /\ outHelper' = "reporting" /\ writeErr' \in {"nil", "error"}
      /\ UNCHANGED <<outPc, payload, writeErrC, taken>>
      /\ Out!Outputs' = Out!Outputs
  BY DEF Out!Outputs
<1>4. CASE written' = written /\ writeErr' = "error"
  <2>1. Out!Missing' = Out!Missing
    BY <1>3, <1>4 DEF Out!Missing
  <2>2. Out!TypeOK'
    BY <1>3, <1>4 DEF Out!TypeOK
  <2>3. OutTurns' /\ OutProgress'
    BY <1>1, <1>3, <1>4 DEF OutTurns, OutProgress
  <2>4. OutputInOrder'
    BY <1>3, <1>4, <2>1 DEF OutputInOrder, Out!OutputInOrder
  <2>. QED BY <2>2, <2>3, <2>4
<1>5. CASE written' = Append(written, payload)
  <2>1. /\ written' \in Seq(1 .. MaxData)
        /\ Len(written') = Len(written) + 1
        /\ \A i \in DOMAIN written : written'[i] = written[i]
        /\ written'[Len(written) + 1] = payload
        /\ DOMAIN written' = 1 .. Len(written')
    BY <1>1, <1>5, SendOne, LenProperties DEF Out!TypeOK
  <2>2. Out!Missing' = {}
    <3>1. \A k \in Out!Outputs : \E i \in DOMAIN written' : written'[i] = k
      <4>1. SUFFICES ASSUME NEW k \in Out!Outputs
                     PROVE  \E i \in DOMAIN written' : written'[i] = k
        OBVIOUS
      <4>2. CASE k = payload
        BY <1>1, <2>1, <4>2
      <4>3. CASE k # payload
        <5>1. PICK i \in DOMAIN written : written[i] = k
          BY <1>1, <4>3 DEF Out!Missing
        <5>. QED BY <1>1, <2>1, <5>1
      <4>. QED BY <4>2, <4>3
    <3>. QED BY <1>3, <3>1 DEF Out!Missing
  <2>3. Out!TypeOK'
    BY <1>1, <1>3, <2>1 DEF Out!TypeOK
  <2>4. OutTurns' /\ OutProgress'
    BY <1>1, <1>3, <2>2 DEF OutTurns, OutProgress
  <2>5. OutputInOrder'
    <3>1. ASSUME NEW i \in DOMAIN written', NEW j \in DOMAIN written', i < j
          PROVE  written'[i] < written'[j]
      <4>1. i \in DOMAIN written /\ i \in Nat /\ j \in Nat
        BY <1>1, <2>1, <3>1
      <4>2. CASE j \in DOMAIN written
        BY <2>1, <3>1, <4>1, <4>2 DEF OutputInOrder, Out!OutputInOrder
      <4>3. CASE j = Len(written) + 1
        BY <1>2, <2>1, <4>1, <4>3
      <4>. QED BY <1>1, <2>1, <4>2, <4>3
    <3>2. \A i \in DOMAIN written' : written'[i] \in Out!Outputs'
      BY <1>1, <1>2, <1>3, <2>1
    <3>. QED BY <1>1, <1>3, <2>2, <3>1, <3>2 DEF OutputInOrder, Out!OutputInOrder
  <2>. QED BY <2>3, <2>4, <2>5
<1>. QED
  BY <1>4, <1>5

--------------------------------------------------------------------------------
(* CopyReaderToSessionWriter.                                                *)

(* Who has the buffer: the loop, the helper while it reads into it, or        *)
(* readResultC with the result.                                               *)
InTurns ==
    /\ inPc \in {"none", "offer", "write"} =>
         ~readResultC /\ inHelper = (IF inPc = "none" THEN "none" ELSE "idle")
    /\ inPc = "await" => /\ inHelper \in {"reading", "reporting", "idle"}
                         /\ inHelper = "idle" <=> readResultC
    /\ inHelper \in {"reading", "reporting"} => ~readResultC /\ inPc \in {"await", "returned"}
    /\ ended = "reader" => inPc = "returned" /\ inHelper \in {"idle", "done"}

(* The result of the last Read is on its way to the loop. *)
Pending == inHelper = "reporting" \/ readResultC

(* A chunk is missing from the session only while the loop or its helper has  *)
(* it in the buffer of this iteration; the Reader has not had the next one.   *)
InProgress ==
    /\ inHelper = "reading" => buffer = reads + 1 /\ Len(queued) = chunks
    /\ inPc = "write" \/ Pending => buffer \in 1 .. reads
    /\ inPc = "write" \/ (Pending /\ result.bytes) =>
         mem[buffer] = chunks /\ chunks = Len(queued) + 1
    /\ Pending /\ ~result.bytes => Len(queued) = chunks
    /\ inPc \in {"none", "offer"} => Len(queued) = chunks
    /\ Len(queued) <= chunks
    /\ \A i \in 1 .. Len(queued) : queued[i] <= reads

InInv ==
    /\ In!TypeOK
    /\ InTurns
    /\ InProgress
    /\ InputInOrder

(* The same of the loop the other way. *)
LEMMA InStart ==
    ASSUME In!Idle
    PROVE  InInv
<1>1. In!TypeOK
  <2>1. queued \in Seq(In!Buffers) /\ Len(queued) = 0
    BY EmptyChannel DEF In!Idle
  <2>2. mem \in [In!Buffers -> 0 .. MaxData]
    BY DEF In!Idle
  <2>3. result \in In!Results
    BY DEF In!Idle, In!NoResult, In!Results
  <2>4. /\ inPc = "none" /\ inHelper = "none" /\ buffer = 0 /\ reads = 0 /\ chunks = 0
        /\ readResultC \in BOOLEAN /\ ended = "no"
    BY DEF In!Idle
  <2>. QED BY <2>1, <2>2, <2>3, <2>4 DEF In!TypeOK
<1>2. Len(queued) = 0
  BY EmptyChannel DEF In!Idle
<1>3. InTurns /\ InProgress
  BY <1>2 DEF InTurns, InProgress, Pending, In!Idle
<1>4. InputInOrder
  BY <1>2 DEF InputInOrder, In!InputInOrder, In!Idle
<1>. QED
  BY <1>1, <1>3, <1>4 DEF InInv

(* What the loop and the helper do without touching the chunks. *)
LEMMA InMoves ==
    ASSUME InInv,
           In!Call \/ In!HandOver \/ In!GiveUp \/ In!WriteFails \/ In!TakeResult
             \/ In!Report \/ In!HelperReturns \/ UNCHANGED inVars
    PROVE  InInv'
<1> USE DEF InInv, In!TypeOK, InTurns, InProgress, Pending, InputInOrder, In!InputInOrder,
            In!helperVars, In!loopVars
<1>1. reads \in Nat /\ reads <= MaxData /\ chunks \in Nat /\ Len(queued) \in Nat
  BY LenProperties
<1>2. CASE In!Call
  BY <1>1, <1>2 DEF In!Call
<1>3. CASE In!HandOver
  <2>1. buffer' \in In!Buffers
    BY <1>1, <1>3 DEF In!HandOver, In!NewBuffer, In!Buffers
  <2>. QED BY <1>1, <1>3, <2>1 DEF In!HandOver, In!NewBuffer
<1>4. CASE In!GiveUp \/ In!WriteFails
  BY <1>1, <1>4 DEF In!GiveUp, In!WriteFails, In!Return
<1>5. CASE In!TakeResult
  <2>1. CASE result.bytes
    BY <1>1, <1>5, <2>1 DEF In!TakeResult, In!BytesFirst
  <2>2. CASE ~result.bytes
    BY <1>1, <1>5, <2>2 DEF In!TakeResult, In!BytesFirst, In!AfterBytes, In!Return
  <2>. QED BY <2>1, <2>2
<1>6. CASE In!Report
  BY <1>1, <1>6 DEF In!Report, In!ResultHasRoom
<1>7. CASE In!HelperReturns
  BY <1>1, <1>7 DEF In!HelperReturns
<1>8. CASE UNCHANGED inVars
  BY <1>8 DEF inVars
<1>. QED
  BY <1>2, <1>3, <1>4, <1>5, <1>6, <1>7, <1>8

(* A Read puts the next chunk into the buffer of this iteration, which no     *)
(* message the session holds has.                                             *)
LEMMA InReads ==
    ASSUME InInv, NEW r \in In!Results, In!ReadReturns(r)
    PROVE  InInv'
<1> USE DEF InInv, In!ReadReturns, In!loopVars
<1>1. /\ reads \in Nat /\ reads < MaxData /\ chunks \in 0 .. reads
      /\ Len(queued) \in Nat /\ Len(queued) = chunks
      /\ buffer = reads + 1 /\ buffer \in In!Buffers
      /\ mem \in [In!Buffers -> 0 .. MaxData]
      /\ r.bytes \in BOOLEAN /\ r.err \in BOOLEAN
      /\ \A i \in 1 .. Len(queued) :
           queued[i] \in In!Buffers /\ queued[i] # buffer /\ queued[i] <= reads + 1
  <2>1. /\ reads \in Nat /\ reads < MaxData /\ chunks \in 0 .. reads
        /\ Len(queued) \in Nat /\ Len(queued) = chunks
        /\ buffer = reads + 1
        /\ \A i \in 1 .. Len(queued) : queued[i] <= reads
    BY LenProperties DEF In!TypeOK, InProgress
  <2>2. buffer \in In!Buffers
    BY <2>1 DEF In!Buffers
  <2>3. \A i \in 1 .. Len(queued) : queued[i] \in In!Buffers
    BY ElementOfSeq DEF In!TypeOK
  <2>4. \A i \in 1 .. Len(queued) : queued[i] # buffer /\ queued[i] <= reads + 1
    BY <2>1, <2>3 DEF In!Buffers
  <2>. QED BY <2>1, <2>2, <2>3, <2>4 DEF In!TypeOK, In!Results
<1>2. /\ inHelper = "reading" /\ inHelper' = "reporting"
      /\ reads' = reads + 1 /\ result' = r
      /\ chunks' = (IF r.bytes THEN chunks + 1 ELSE chunks)
      /\ mem' = (IF r.bytes THEN [mem EXCEPT ![buffer] = chunks + 1] ELSE mem)
      /\ UNCHANGED <<inPc, buffer, queued, ended, readResultC>>
  OBVIOUS
<1>3. /\ mem' \in [In!Buffers -> 0 .. MaxData]
      /\ r.bytes => mem'[buffer] = chunks'
      /\ \A i \in 1 .. Len(queued) : mem'[queued[i]] = mem[queued[i]]
  BY <1>1, <1>2
<1>4. In!TypeOK'
  BY <1>1, <1>2, <1>3 DEF In!TypeOK
<1>5. InTurns'
  BY <1>2 DEF InTurns
<1>6. InProgress'
  BY <1>1, <1>2, <1>3 DEF InTurns, InProgress, Pending
<1>7. InputInOrder'
  BY <1>1, <1>2, <1>3 DEF InTurns, InputInOrder, In!InputInOrder
<1>. QED
  BY <1>4, <1>5, <1>6, <1>7

(* The session takes the buffer with the one chunk it does not have yet. *)
LEMMA InHandsOn ==
    ASSUME InInv, In!WriteSucceeds
    PROVE  InInv'
<1> USE DEF InInv, In!WriteSucceeds, In!AfterBytes, In!Return, In!helperVars
<1>1. /\ inPc = "write" /\ inHelper = "idle" /\ ~readResultC
      /\ UNCHANGED <<buffer, inHelper, reads, chunks, mem, result, readResultC>>
      /\ inPc' \in {"returned", "offer"}
      /\ ended' \in {ended, "reader"} /\ (ended' = "reader" => inPc' = "returned")
  BY DEF InTurns
<1>2. /\ reads \in 0 .. MaxData /\ chunks \in 0 .. reads
      /\ buffer \in 1 .. reads /\ buffer \in In!Buffers
      /\ mem[buffer] = chunks /\ chunks = Len(queued) + 1
      /\ queued \in Seq(In!Buffers) /\ Len(queued) \in Nat
  BY <1>1, LenProperties DEF InProgress, In!TypeOK, In!Buffers
<1>3. /\ queued' \in Seq(In!Buffers) /\ Len(queued') = Len(queued) + 1
      /\ \A i \in 1 .. Len(queued) : queued'[i] = queued[i]
      /\ queued'[Len(queued) + 1] = buffer
  BY <1>2, SendOne
<1>4. \A i \in 1 .. Len(queued') : i \in 1 .. Len(queued) \/ i = Len(queued) + 1
  BY <1>2, <1>3
<1>5. In!TypeOK'
  BY <1>1, <1>2, <1>3 DEF In!TypeOK
<1>6. InTurns'
  BY <1>1 DEF InTurns
<1>7. InProgress'
  BY <1>1, <1>2, <1>3, <1>4 DEF InProgress, Pending
<1>8. InputInOrder'
  BY <1>1, <1>2, <1>3, <1>4 DEF InputInOrder, In!InputInOrder
<1>. QED
  BY <1>5, <1>6, <1>7, <1>8

--------------------------------------------------------------------------------
(* Both copy loops at work in the handler.                                   *)

(* A step of the handler is a step of one copy loop at most, and keeps both. *)
LEMMA CopyStep ==
    ASSUME OutInv, InInv, [Next]_vars
    PROVE  OutInv' /\ InInv'
<1>1. CASE UNCHANGED outVars /\ UNCHANGED inVars
  BY <1>1, OutMoves, InMoves
<1>2. CASE Start
  BY <1>2, OutMoves, InMoves DEF Start
<1>3. CASE OutputGoesOn
  BY <1>3, OutTakes, OutMoves, InMoves DEF OutputGoesOn
<1>4. CASE OutputReturns
  BY <1>4, OutMoves, InMoves DEF OutputReturns, Out!LoopReturns
<1>5. CASE InputGoesOn
  BY <1>5, InHandsOn, InMoves, OutMoves DEF InputGoesOn, In!LoopGoesOn
<1>6. CASE InputReturns
  BY <1>6, InHandsOn, InMoves, OutMoves DEF InputReturns, In!LoopReturns
<1>7. CASE UserCallReturns
  BY <1>7, OutWrites, InReads, OutMoves, InMoves DEF UserCallReturns, Helpers
<1>8. CASE HelperGoesOn
  BY <1>8, OutMoves, InMoves DEF HelperGoesOn, Helpers
<1>9. ASSUME NEW size \in SizesRead, Tick(size)
      PROVE  UNCHANGED outVars /\ UNCHANGED inVars
  BY <1>9 DEF Tick
<1>10. ASSUME NEW ok \in BOOLEAN, SizeWritten(ok)
       PROVE  UNCHANGED outVars /\ UNCHANGED inVars
  BY <1>10 DEF SizeWritten
<1>11. CASE Stop \/ WaitReturns \/ SessionStops \/ Cleanup \/ Stopper \/ Resize \/ TerminalReturns
              \/ UNCHANGED vars
  <2>1. UNCHANGED outVars /\ UNCHANGED inVars
    BY <1>11 DEF Stop, WaitReturns, SessionStops, Cleanup, Stopper, Resize, TerminalReturns, vars
  <2>. QED BY <1>1, <2>1
<1>. QED
  BY <1>1, <1>2, <1>3, <1>4, <1>5, <1>6, <1>7, <1>8, <1>9, <1>10, <1>11 DEF Next

--------------------------------------------------------------------------------
(* Start, Stop, Wait and the errgroup.                                       *)

GroupTypes ==
    /\ start \in {"idle", "nil"}
    /\ goroutine \in [Goroutines -> {"none", "running", "writing", "done"}]
    /\ cause \in Errors \union {"none"}
    /\ stopped \in {"open", "closed"}
    /\ stop \in {"idle", "done"}
    /\ wait \in {"idle", "nil", "output", "input"}
    /\ sessionUp \in BOOLEAN

SizeTypes ==
    /\ term \in Sizes
    /\ budget \in Budgets
    /\ resizes \in 0 .. budget.resizes
    /\ {last, sending, remoteSize} \subseteq Sizes \union BadSizes \union {NoSize}

(* What the errgroup has done so far: a copy loop that has returned has        *)
(* cancelled the context, Stop's channel is closed by Stop or by a cleanup     *)
(* after that, and Wait returns last.                                          *)
GroupOrder ==
    /\ start = "idle" => /\ outPc = "none" /\ inPc = "none" /\ wait = "idle"
                         /\ \A g \in Goroutines : goroutine[g] = "none"
    /\ stopped = "closed" => stop = "done" \/ cancelled
    /\ cause = "errStreamStopRequested" => stop = "done"
    /\ wait # "idle" => AllDone
    /\ wait = "nil" => stop = "done"

IInv ==
    /\ GroupTypes
    /\ SizeTypes
    /\ OutInv
    /\ InInv
    /\ GroupOrder

(* The errgroup keeps its types, whichever of its goroutines returns. *)
LEMMA GroupTypesStep ==
    ASSUME GroupTypes, [Next]_vars
    PROVE  GroupTypes'
<1> USE DEF GroupTypes, groupVars, appVars, GroupError, cancelled, Errors, Goroutines
<1>1. CASE Start \/ Stop \/ SessionStops
  BY <1>1 DEF Start, Stop, SessionStops
<1>2. CASE WaitReturns
  BY <1>2 DEF WaitReturns, WaitResult
<1>3. CASE Cleanup
  BY <1>3 DEF Cleanup, CleanupSignals
<1>4. CASE Stopper
  BY <1>4 DEF Stopper
<1>5. CASE OutputReturns \/ InputReturns
  BY <1>5 DEF OutputReturns, InputReturns
<1>6. CASE OutputGoesOn \/ InputGoesOn
  BY <1>6 DEF OutputGoesOn, InputGoesOn
<1>7. CASE UserCallReturns \/ HelperGoesOn
  BY <1>7 DEF UserCallReturns, HelperGoesOn, Helpers
<1>8. CASE Resize \/ TerminalReturns
  BY <1>8 DEF Resize, TerminalReturns
<1>9. ASSUME NEW size \in SizesRead, Tick(size)
      PROVE  GroupTypes'
  BY <1>9 DEF Tick
<1>10. ASSUME NEW ok \in BOOLEAN, SizeWritten(ok)
       PROVE  GroupTypes'
  BY <1>10 DEF SizeWritten
<1>11. CASE UNCHANGED vars
  BY <1>11 DEF vars
<1>. QED
  BY <1>1, <1>2, <1>3, <1>4, <1>5, <1>6, <1>7, <1>8, <1>9, <1>10, <1>11 DEF Next

(* The terminal keeps its types. *)
LEMMA SizeTypesStep ==
    ASSUME SizeTypes, [Next]_vars
    PROVE  SizeTypes'
<1> USE DEF SizeTypes
<1>1. CASE Resize
  <2>1. budget.resizes \in Nat
    BY BudgetsAssumption
  <2>. QED BY <1>1, <2>1 DEF Resize
<1>2. ASSUME NEW size \in SizesRead, Tick(size)
      PROVE  SizeTypes'
  BY <1>2 DEF Tick, SizesRead
<1>3. ASSUME NEW ok \in BOOLEAN, SizeWritten(ok)
      PROVE  SizeTypes'
  BY <1>3 DEF SizeWritten
<1>4. ASSUME UNCHANGED sizeVars
      PROVE  SizeTypes'
  BY <1>4 DEF sizeVars
<1>5. CASE Start \/ Stop \/ WaitReturns \/ SessionStops \/ Cleanup \/ Stopper \/ TerminalReturns
             \/ UNCHANGED vars
  BY <1>4, <1>5 DEF Start, Stop, WaitReturns, SessionStops, Cleanup, Stopper, TerminalReturns, vars
<1>6. CASE OutputGoesOn \/ OutputReturns \/ InputGoesOn \/ InputReturns \/ UserCallReturns
             \/ HelperGoesOn
  BY <1>4, <1>6
     DEF OutputGoesOn, OutputReturns, InputGoesOn, InputReturns, UserCallReturns, HelperGoesOn,
         Helpers
<1>. QED
  BY <1>1, <1>2, <1>3, <1>5, <1>6 DEF Next

(* The goroutines start together, stop one by one, and none starts again.      *)
LEMMA GroupOrderStep ==
    ASSUME GroupTypes, OutInv, InInv, GroupOrder, [Next]_vars
    PROVE  GroupOrder'
<1> USE DEF GroupTypes, GroupOrder, cancelled, GroupError, AllDone, Errors
<1>1. CASE Start
  BY <1>1 DEF Start, appVars
<1>2. CASE Stop
  BY <1>2 DEF Stop, outVars, inVars
<1>3. CASE WaitReturns
  BY <1>3 DEF WaitReturns, WaitResult, groupVars, outVars, inVars
<1>4. CASE Cleanup
  BY <1>4 DEF Cleanup, CleanupSignals, Goroutines, appVars, outVars, inVars
<1>5. CASE Stopper
  BY <1>5 DEF Stopper, Goroutines, appVars, outVars, inVars
<1>6. CASE SessionStops \/ Resize \/ UNCHANGED vars
  BY <1>6 DEF SessionStops, Resize, groupVars, appVars, outVars, inVars, vars
<1>7. ASSUME NEW size \in SizesRead, Tick(size)
      PROVE  GroupOrder'
  BY <1>7 DEF Tick, Goroutines, appVars, outVars, inVars
<1>8. ASSUME NEW ok \in BOOLEAN, SizeWritten(ok)
      PROVE  GroupOrder'
  BY <1>8 DEF SizeWritten, Goroutines, appVars, outVars, inVars
<1>9. CASE TerminalReturns
  BY <1>9 DEF TerminalReturns, Goroutines, appVars, outVars, inVars
<1>10. CASE OutputGoesOn \/ OutputReturns
  <2>1. outPc \notin {"none", "returned"} /\ UNCHANGED <<start, goroutine, stopped, appVars, inVars>>
    BY <1>10 DEF OutputGoesOn, OutputReturns, Out!TakeMessage, Out!HandOver, Out!TakeResult,
                 Out!LoopReturns, Out!ReadFails, Out!GiveUp, groupVars
  <2>2. cause' \in {cause, "output"} /\ (cancelled => cause' = cause)
    BY <1>10 DEF OutputGoesOn, OutputReturns, groupVars
  <2>. QED BY <2>1, <2>2 DEF appVars, inVars
<1>11. CASE InputGoesOn \/ InputReturns
  <2>1. inPc \notin {"none", "returned"} /\ UNCHANGED <<start, goroutine, stopped, appVars, outVars>>
    BY <1>11 DEF InputGoesOn, InputReturns, In!LoopGoesOn, In!LoopReturns, In!HandOver,
                 In!TakeResult, In!WriteSucceeds, In!WriteFails, In!GiveUp, groupVars
  <2>2. cause' \in {cause, "input"} /\ (cancelled => cause' = cause)
    BY <1>11 DEF InputGoesOn, InputReturns, groupVars
  <2>. QED BY <2>1, <2>2 DEF appVars, outVars
<1>12. CASE UserCallReturns \/ HelperGoesOn
  <2>1. UNCHANGED <<groupVars, appVars, outPc, inPc>>
    BY <1>12 DEF UserCallReturns, HelperGoesOn, Helpers, Out!WriteReturns, Out!Report,
                 Out!HelperReturns, In!ReadReturns, In!Report, In!HelperReturns, Out!loopVars,
                 In!loopVars, outVars, inVars
  <2>. QED BY <2>1 DEF groupVars, appVars
<1>. QED
  BY <1>1, <1>2, <1>3, <1>4, <1>5, <1>6, <1>7, <1>8, <1>9, <1>10, <1>11, <1>12 DEF Next

--------------------------------------------------------------------------------
(* The theorems.                                                             *)

(* The invariant holds of every reachable state. *)
THEOREM Invariance == Spec => []IInv
<1>1. ASSUME Init
      PROVE  IInv
  <2>1. GroupTypes
    BY <1>1 DEF Init, GroupTypes, Goroutines
  <2>2. SizeTypes
    BY <1>1, SizesAssumption, BudgetsAssumption DEF Init, SizeTypes
  <2>3. OutInv /\ InInv
    BY <1>1, OutStart, InStart DEF Init
  <2>4. GroupOrder
    BY <1>1 DEF Init, GroupOrder, Goroutines, Out!Idle, In!Idle
  <2>. QED BY <2>1, <2>2, <2>3, <2>4 DEF IInv
<1>2. IInv /\ [Next]_vars => IInv'
  BY GroupTypesStep, SizeTypesStep, CopyStep, GroupOrderStep DEF IInv
<1>. QED
  BY <1>1, <1>2, PTL DEF Spec

(* Every reachable state has its types; Wait keeps the stopper's error to      *)
(* itself.                                                                     *)
THEOREM TypeCorrect == Spec => []TypeOK
<1>1. IInv => TypeOK
  BY DEF IInv, GroupTypes, SizeTypes, OutInv, InInv, TypeOK
<1>. QED
  BY <1>1, Invariance, PTL

(* The Writer gets the session's output in order, once, and all but the        *)
(* message in hand, however much there is of it.                               *)
THEOREM OutputIsInOrder == Spec => []OutputInOrder
<1>1. IInv => OutputInOrder
  BY DEF IInv, OutInv
<1>. QED
  BY <1>1, Invariance, PTL

(* What the session was given is what was read, and stays so: no buffer it     *)
(* still holds is read into again.                                             *)
THEOREM InputIsInOrder == Spec => []InputInOrder
<1>1. IInv => InputInOrder
  BY DEF IInv, InInv
<1>. QED
  BY <1>1, Invariance, PTL

(* When Wait returns the errgroup has ended, and nil means Stop.               *)
THEOREM WaitIsTheEnd == Spec => []WaitTellsTheEnd
<1>1. IInv => WaitTellsTheEnd
  BY DEF IInv, GroupOrder, WaitTellsTheEnd
<1>. QED
  BY <1>1, Invariance, PTL

================================================================================

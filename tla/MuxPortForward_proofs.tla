------------------------ MODULE MuxPortForward_proofs -------------------------
(***************************************************************************)
(* Theorems about MuxPortForward for any set of Dials and any length of    *)
(* the handshake, and their proofs.                                        *)
(***************************************************************************)
EXTENDS MuxPortForward, Channels, TLAPS

USE NoDialAssumption, HandshakeBounds

--------------------------------------------------------------------------------
(* The handshake.                                                            *)

Kinds == {"HandshakeRequest", "HandshakeComplete", "EarlyOutput", "Output", "Other"}

(* Client and remote take turns: what the remote may have sent, and what the  *)
(* client may have answered, at each of its blocking points.                  *)
TurnsTaken ==
    /\ remote = "new" => Held(inbox) \subseteq {"EarlyOutput", "Other"}
    /\ remote = "requested" => Held(inbox) \subseteq {"HandshakeRequest", "EarlyOutput", "Other"}
    /\ handshake \in {"idle", "awaitRequest", "respond"} => response = <<>>
    /\ handshake \in {"respond", "awaitComplete"} => remote # "new"
    /\ handshake \in {"awaitComplete", "done"} => response # <<>>
    /\ response # <<>> => remote # "new" /\ response = <<Hs!Answers(request)>>
    /\ remote = "completed" => response # <<>> \/ handshake = "over"
    /\ handshake = "done" => remote = "completed"

(* What is sent behind the completion of the handshake waits behind it. *)
DataBehindCompletion ==
    handshake = "awaitComplete" =>
        /\ remote = "completed" => "HandshakeComplete" \in Held(inbox)
        /\ \A i \in 1 .. Len(inbox) : inbox[i] = "Output" =>
              \E j \in 1 .. (i - 1) : inbox[j] = "HandshakeComplete"

HandshakeInv ==
    /\ Hs!HandshakeTypes
    /\ TurnsTaken
    /\ DataBehindCompletion
    /\ ~lost

(* A handshake that has not begun, or is behind the caller, has no messages. *)
LEMMA NoActions == <<>> \in Hs!Requests
<1>1. <<>> \in [1 .. 0 -> Hs!ActionTypes]
  BY EmptyMap
<1>. QED
  BY <1>1 DEF Hs!Requests

(* session.Read takes the oldest message and leaves the others in order. *)
LEMMA ReadInbox ==
    ASSUME HandshakeInv, Hs!ReadNext
    PROVE  /\ inbox' \in Seq(Kinds) /\ Len(inbox') <= InboxCap
           /\ inbox' = Tail(inbox)
           /\ Held(inbox') \subseteq Held(inbox)
           /\ Head(inbox) \in Held(inbox) /\ Head(inbox) = inbox[1]
           /\ Len(inbox) \in Nat /\ Len(inbox) >= 1 /\ Len(inbox') = Len(inbox) - 1
           /\ \A i \in 1 .. Len(inbox') : inbox'[i] = inbox[i + 1]
  BY ReceiveOne, ReceiveHeld DEF HandshakeInv, Hs!HandshakeTypes, Hs!ReadNext, Kinds

(* A message of the remote's goes behind the others. *)
LEMMA SendInbox ==
    ASSUME HandshakeInv, NEW kind \in Kinds, Hs!Sends(kind)
    PROVE  /\ inbox' \in Seq(Kinds) /\ Len(inbox') <= InboxCap
           /\ Held(inbox') = Held(inbox) \union {kind}
           /\ Len(inbox) \in Nat /\ Len(inbox') = Len(inbox) + 1
           /\ \A i \in 1 .. Len(inbox) : inbox'[i] = inbox[i]
           /\ inbox'[Len(inbox) + 1] = kind
<1>1. inbox \in Seq(Kinds) /\ inbox' = Append(inbox, kind) /\ Len(inbox) < InboxCap
  BY DEF HandshakeInv, Hs!HandshakeTypes, Hs!Sends, Kinds
<1>2. /\ inbox' \in Seq(Kinds) /\ Len(inbox) \in Nat /\ Len(inbox') = Len(inbox) + 1
      /\ \A i \in 1 .. Len(inbox) : inbox'[i] = inbox[i]
      /\ inbox'[Len(inbox) + 1] = kind
  BY <1>1, SendOne
<1>3. Held(inbox') = Held(inbox) \union {kind}
  BY <1>1, SendHeld
<1>. QED
  BY <1>1, <1>2, <1>3

(* The message the client waits for is the one the exchange is at, and none it *)
(* drops was sent behind the completion.                                       *)
LEMMA ReadStep ==
    ASSUME HandshakeInv, Hs!ReadNext
    PROVE  HandshakeInv'
<1> USE DEF HandshakeInv
<1>1. Hs!HandshakeTypes'
  BY ReadInbox DEF Hs!HandshakeTypes, Hs!ReadNext, Kinds
<1>2. CASE handshake = "awaitRequest"
  <2>1. remote # "completed" /\ "Output" \notin Held(inbox) /\ "HandshakeComplete" \notin Held(inbox)
    BY <1>2 DEF TurnsTaken, Hs!HandshakeTypes
  <2>2. ~lost'
    BY <1>2, <2>1, ReadInbox DEF Hs!ReadNext
  <2>3. TurnsTaken'
    BY <1>2, <2>1, ReadInbox DEF TurnsTaken, Hs!ReadNext, Hs!Expected, Hs!HandshakeTypes
  <2>4. DataBehindCompletion'
    BY <1>2 DEF DataBehindCompletion, Hs!ReadNext
  <2>. QED BY <1>1, <2>2, <2>3, <2>4
<1>3. CASE handshake = "awaitComplete"
  <2>1. Head(inbox) # "Output"
    BY <1>3, ReadInbox DEF DataBehindCompletion
  <2>2. ~lost'
    BY <2>1 DEF Hs!ReadNext
  <2>3. TurnsTaken'
    BY <1>3, ReadInbox DEF TurnsTaken, Hs!ReadNext, Hs!Expected, Hs!HandshakeTypes
  <2>4. DataBehindCompletion'
    <3>1. SUFFICES ASSUME handshake' = "awaitComplete"
                   PROVE  DataBehindCompletion'
      BY DEF DataBehindCompletion
    <3>2. inbox[1] # "HandshakeComplete" /\ remote' = remote
      BY <1>3, <3>1, ReadInbox DEF Hs!ReadNext, Hs!Expected
    <3>3. remote' = "completed" => "HandshakeComplete" \in Held(inbox')
      <4>1. ASSUME remote = "completed"
            PROVE  "HandshakeComplete" \in Held(inbox')
        <5>1. PICK i \in 1 .. Len(inbox) : inbox[i] = "HandshakeComplete"
          BY <1>3, <4>1 DEF DataBehindCompletion, Held
        <5>2. i - 1 \in 1 .. Len(inbox') /\ inbox'[i - 1] = "HandshakeComplete"
          BY <3>2, <5>1, ReadInbox
        <5>. QED BY <5>2 DEF Held
      <4>. QED BY <3>2, <4>1
    <3>4. ASSUME NEW i \in 1 .. Len(inbox'), inbox'[i] = "Output"
          PROVE  \E j \in 1 .. (i - 1) : inbox'[j] = "HandshakeComplete"
      <4>1. i + 1 \in 1 .. Len(inbox) /\ inbox[i + 1] = "Output"
        <5>1. /\ Len(inbox) \in Nat /\ Len(inbox') = Len(inbox) - 1
              /\ inbox'[i] = inbox[i + 1]
          BY <3>4, ReadInbox
        <5>. QED BY <3>4, <5>1
      <4>2. PICK j \in 1 .. i : inbox[j] = "HandshakeComplete"
        BY <1>3, <4>1 DEF DataBehindCompletion
      <4>3. j - 1 \in 1 .. (i - 1) /\ inbox'[j - 1] = "HandshakeComplete"
        <5>1. j - 1 \in 1 .. (i - 1) /\ j - 1 \in 1 .. Len(inbox') /\ (j - 1) + 1 = j
          BY <3>2, <4>2, ReadInbox
        <5>. QED BY <4>2, <5>1, ReadInbox
      <4>. QED BY <4>3
    <3>. QED BY <3>3, <3>4 DEF DataBehindCompletion
  <2>. QED BY <1>1, <2>2, <2>3, <2>4
<1>. QED
  BY <1>2, <1>3 DEF Hs!ReadNext

(* A message the remote adds is one it may send at this point, and what counts *)
(* as sent behind the completion is added behind it.                           *)
LEMMA RemoteStep ==
    ASSUME HandshakeInv,
           Hs!RemoteRequests \/ Hs!RemoteCompletes
             \/ \E kind \in {Hs!StreamData, "Other"} : Hs!RemoteSends(kind)
    PROVE  HandshakeInv'
<1>1. CASE Hs!RemoteRequests
  <2> USE <1>1 DEF Hs!RemoteRequests, HandshakeInv
  <2>1. /\ inbox' \in Seq(Kinds) /\ Len(inbox') <= InboxCap
        /\ Held(inbox') = Held(inbox) \union {"HandshakeRequest"}
    BY SendInbox DEF Kinds
  <2>2. Hs!HandshakeTypes'
    BY <2>1 DEF Hs!HandshakeTypes, Kinds
  <2>3. TurnsTaken'
    BY <2>1 DEF TurnsTaken
  <2>4. DataBehindCompletion'
    BY DEF TurnsTaken, DataBehindCompletion
  <2>. QED BY <2>2, <2>3, <2>4
<1>2. ASSUME NEW kind \in Kinds \ {"HandshakeRequest"},
             Hs!Running, Hs!Sends(kind),
             remote' = (IF kind = "HandshakeComplete" THEN "completed" ELSE remote),
             kind = "HandshakeComplete" => remote = "requested" /\ response # <<>>,
             kind = "Output" => remote = "completed",
             UNCHANGED <<handshake, request, response, lost, startCtx>>
      PROVE  HandshakeInv'
  <2> USE <1>2 DEF HandshakeInv
  <2>1. /\ inbox' \in Seq(Kinds) /\ Len(inbox') <= InboxCap
        /\ Held(inbox') = Held(inbox) \union {kind}
        /\ Len(inbox) \in Nat /\ Len(inbox') = Len(inbox) + 1
        /\ \A i \in 1 .. Len(inbox) : inbox'[i] = inbox[i]
        /\ inbox'[Len(inbox) + 1] = kind
    BY SendInbox DEF Kinds
  <2>2. Hs!HandshakeTypes'
    BY <2>1 DEF Hs!HandshakeTypes, Kinds
  <2>3. TurnsTaken'
    BY <2>1 DEF TurnsTaken, Hs!HandshakeTypes, Kinds
  <2>4. DataBehindCompletion'
    <3>1. SUFFICES ASSUME handshake = "awaitComplete"
                   PROVE  DataBehindCompletion'
      BY DEF DataBehindCompletion
    <3>2. remote' = "completed" => "HandshakeComplete" \in Held(inbox')
      BY <2>1, <3>1 DEF DataBehindCompletion
    <3>3. ASSUME NEW i \in 1 .. Len(inbox'), inbox'[i] = "Output"
          PROVE  \E j \in 1 .. (i - 1) : inbox'[j] = "HandshakeComplete"
      <4>1. CASE i \in 1 .. Len(inbox)
        <5>1. PICK j \in 1 .. (i - 1) : inbox[j] = "HandshakeComplete"
          BY <2>1, <3>1, <3>3, <4>1 DEF DataBehindCompletion
        <5>2. inbox'[j] = "HandshakeComplete"
          BY <2>1, <4>1, <5>1
        <5>. QED BY <5>2
      <4>2. CASE i = Len(inbox) + 1
        <5>1. "HandshakeComplete" \in Held(inbox)
          BY <2>1, <3>1, <3>3, <4>2 DEF DataBehindCompletion
        <5>2. PICK j \in 1 .. Len(inbox) : inbox[j] = "HandshakeComplete"
          BY <5>1 DEF Held
        <5>3. j \in 1 .. (i - 1) /\ inbox'[j] = "HandshakeComplete"
          BY <2>1, <4>2, <5>2
        <5>. QED BY <5>3
      <4>. QED BY <2>1, <3>3, <4>1, <4>2
    <3>. QED BY <3>1, <3>2, <3>3 DEF DataBehindCompletion
  <2>. QED BY <2>2, <2>3, <2>4
<1>3. CASE Hs!RemoteCompletes
  <2>1. response # <<>>
    BY <1>3, NoKeys DEF Hs!RemoteCompletes
  <2>. QED BY <1>2, <1>3, <2>1 DEF Hs!RemoteCompletes, Kinds
<1>4. ASSUME NEW kind \in {Hs!StreamData, "Other"}, Hs!RemoteSends(kind)
      PROVE  HandshakeInv'
  BY <1>2, <1>4 DEF Hs!RemoteSends, Hs!StreamData, Kinds
<1>. QED
  BY <1>1, <1>3, <1>4

(* Every step of the handshake, from the call to what becomes of it.           *)
LEMMA HandshakeStepInv ==
    ASSUME HandshakeInv,
           Hs!HandshakeStep \/ Hs!Call \/ Hs!Forget \/ UNCHANGED agreement
    PROVE  HandshakeInv'
<1> USE DEF HandshakeInv
<1>1. CASE Hs!Call \/ Hs!CallerCancels \/ Hs!Fail \/ UNCHANGED agreement
  <2>1. Hs!HandshakeTypes'
    BY <1>1 DEF Hs!Call, Hs!CallerCancels, Hs!Fail, agreement, Hs!HandshakeTypes
  <2>2. TurnsTaken'
    BY <1>1 DEF Hs!Call, Hs!CallerCancels, Hs!Fail, Hs!Running, agreement, TurnsTaken
  <2>3. DataBehindCompletion' /\ ~lost'
    BY <1>1 DEF Hs!Call, Hs!CallerCancels, Hs!Fail, agreement, DataBehindCompletion
  <2>. QED BY <2>1, <2>2, <2>3
<1>2. CASE Hs!Respond
  <2>1. Hs!HandshakeTypes'
    BY <1>2 DEF Hs!Respond, Hs!AfterAnswer, Hs!HandshakeTypes
  <2>2. remote = "requested" /\ "Output" \notin Held(inbox)
    BY <1>2 DEF Hs!Respond, TurnsTaken, Hs!HandshakeTypes
  <2>3. TurnsTaken'
    BY <1>2, <2>2 DEF Hs!Respond, Hs!AfterAnswer, TurnsTaken, Hs!Answers
  <2>4. DataBehindCompletion' /\ ~lost'
    BY <1>2, <2>2 DEF Hs!Respond, DataBehindCompletion, Held
  <2>. QED BY <2>1, <2>3, <2>4
<1>3. CASE Hs!Forget
  <2>1. Hs!HandshakeTypes'
    BY <1>3, NoActions, EmptyChannel DEF Hs!Forget, Hs!HandshakeTypes
  <2>2. TurnsTaken' /\ DataBehindCompletion' /\ ~lost'
    BY <1>3, EmptyChannel DEF Hs!Forget, TurnsTaken, DataBehindCompletion
  <2>. QED BY <2>1, <2>2
<1>. QED
  BY <1>1, <1>2, <1>3, ReadStep, RemoteStep DEF Hs!HandshakeStep

(* Wherever the handler is, the handshake keeps its own order. *)
LEMMA AgreementStep ==
    ASSUME HandshakeInv, [Next]_vars
    PROVE  HandshakeInv'
<1>1. CASE CallStart \/ PerformHandshake \/ StartFails \/ StartSucceeds
  BY <1>1, HandshakeStepInv DEF CallStart, PerformHandshake, StartFails, StartSucceeds
<1>2. CASE Stop \/ WaitReturns
  BY <1>2, HandshakeStepInv DEF Stop, WaitReturns
<1>3. CASE GroupStep
  <2>1. UNCHANGED agreement
    BY <1>3 DEF GroupStep, CleanupCloses, CleanupReturns, StopperReturns, CopierReturns,
                DialerReturns, TakeRequest, OpenStream, Respond, appVars
  <2>. QED BY <2>1, HandshakeStepInv
<1>4. CASE DialStep \/ UNCHANGED vars
  <2>1. UNCHANGED agreement
    BY <1>4 DEF DialStep, CallDial, CallerCancels, HelperListens, HelperGivesUp, DialGivesUp,
                DialReturns, appVars, vars
  <2>. QED BY <2>1, HandshakeStepInv
<1>. QED
  BY <1>1, <1>2, <1>3, <1>4 DEF Next, AppStep

--------------------------------------------------------------------------------
(* Start, Stop, Wait and the errgroup.                                       *)

GroupTypes ==
    /\ start \in {"idle", "handshake", "nil", "error"}
    /\ goroutine \in [Goroutines ->
                        {"none", "running", "signalStop", "select", "opening", "responding", "done"}]
    /\ cause \in Errors \union {"none"}
    /\ stopped \in {"open", "closed"}
    /\ stop \in {"idle", "done"}
    /\ wait \in {"idle", "nil"} \union Errors
    /\ smux \in {"none", "open", "closed"}
    /\ serving \in Dials \union {NoDial}

DialTypes ==
    /\ dial \in [Dials -> {"idle", "sending", "waiting", "conn", "ErrFailedDial", "ctx"}]
    /\ helper \in [Dials -> {"none", "starting", "listening", "conn", "err", "done"}]
    /\ callerCtx \in [Dials -> {"live", "done"}]
    /\ stream \in [Dials -> {"none", "open", "closed"}]
    /\ abandoned \subseteq Dials

(* The dial goroutine serves a Dial between taking its request and responding. *)
ServesOne == goroutine["dialer"] \in {"opening", "responding"} <=> serving # NoDial

Types == HandshakeInv /\ GroupTypes /\ DialTypes /\ ServesOne

(* What the errgroup's goroutines have done so far: none runs before Start has *)
(* succeeded, the smux session is closed before cleanup signals, and Stop's    *)
(* channel is closed by Stop or by a cleanup after the context was cancelled.  *)
GroupOrder ==
    /\ start # "nil" => /\ \A g \in Goroutines : goroutine[g] = "none"
                        /\ ~cancelled /\ smux = "none" /\ wait = "idle"
    /\ start = "nil" => goroutine["cleanup"] # "none" /\ remote = "completed"
    /\ goroutine["cleanup"] \in {"signalStop", "done"} => smux = "closed" /\ cancelled
    /\ stopped = "closed" => stop = "done" \/ cancelled
    /\ cause = "errMuxStopRequested" => stop = "done"
    /\ wait # "idle" => AllDone
    /\ wait = "nil" => stop = "done"

(* How far the exchange of a Dial with the dial goroutine is, seen from its    *)
(* caller, its helper, its stream and the dial goroutine.                      *)
DialOrder(d) ==
    /\ serving = d => /\ \/ dial[d] = "waiting"
                         \/ helper[d] = "done" /\ dial[d] = "ErrFailedDial"
                      /\ helper[d] # "conn" /\ d \notin abandoned
    /\ d \in abandoned => dial[d] \notin {"idle", "sending", "conn"} /\ helper[d] # "conn"
    /\ dial[d] \in {"idle", "sending"} =>
         stream[d] = "none" /\ helper[d] \notin {"conn", "done"}
    /\ helper[d] = "conn" => dial[d] = "waiting" /\ stream[d] # "none"
    /\ dial[d] = "conn" => serving # d /\ stream[d] # "none"
    /\ stream[d] = "closed" => cancelled \/ d \in abandoned
    /\ stream[d] = "open" => Owned(d)

(* The streams go with the smux session. *)
NoneOutlivesSmux == smux = "closed" => \A d \in Dials : stream[d] # "open"

IInv ==
    /\ Types
    /\ GroupOrder
    /\ \A d \in Dials : DialOrder(d)
    /\ NoneOutlivesSmux

(* The dial goroutine takes one request at a time. *)
LEMMA ServesStep ==
    ASSUME Types, GroupOrder, [Next]_vars
    PROVE  ServesOne'
<1> USE DEF Types, GroupTypes, GroupOrder, ServesOne, Goroutines
<1>1. CASE AppStep
  BY <1>1 DEF AppStep, CallStart, PerformHandshake, StartFails, StartSucceeds, Stop, WaitReturns,
              groupVars, dialVars
<1>2. CASE GroupStep
  BY <1>2 DEF GroupStep, CleanupCloses, CleanupReturns, StopperReturns, CopierReturns, Copiers,
              DialerReturns, TakeRequest, OpenStream, Respond, ReturnsError, dialVars
<1>3. CASE DialStep \/ UNCHANGED vars
  BY <1>3 DEF DialStep, CallDial, CallerCancels, HelperListens, HelperGivesUp, DialGivesUp,
              DialReturns, groupVars, dialVars, vars
<1>. QED
  BY <1>1, <1>2, <1>3 DEF Next

(* No step leaves the types. *)
LEMMA TypeStep ==
    ASSUME Types, GroupOrder, [Next]_vars
    PROVE  Types'
<1> USE DEF Types, GroupTypes
<1>0. HandshakeInv' /\ ServesOne'
  BY AgreementStep, ServesStep
<1>1. CASE AppStep
  <2>1. GroupTypes'
    BY <1>1 DEF AppStep, CallStart, PerformHandshake, StartFails, StartSucceeds, Stop, WaitReturns,
                WaitResult, WaitsForAll, cancelled, groupVars, dialVars, Errors
  <2>2. DialTypes'
    BY <1>1 DEF AppStep, CallStart, PerformHandshake, StartFails, StartSucceeds, Stop, WaitReturns,
                dialVars, DialTypes
  <2>. QED BY <1>0, <2>1, <2>2
<1>2. CASE GroupStep
  <2>1. GroupTypes'
    BY <1>2 DEF GroupStep, CleanupCloses, CleanupReturns, StopperReturns, CopierReturns,
                DialerReturns, TakeRequest, OpenStream, Respond, ReturnsError, CleanupSignals,
                Errors, cancelled, appVars, dialVars
  <2>2. DialTypes'
    <3> USE DEF DialTypes
    <3>1. CASE CleanupCloses
      BY <3>1 DEF CleanupCloses
    <3>2. CASE CleanupReturns \/ StopperReturns \/ (\E g \in Copiers : CopierReturns(g))
                 \/ DialerReturns
      BY <3>2 DEF CleanupReturns, StopperReturns, CopierReturns, DialerReturns, dialVars
    <3>3. ASSUME NEW d \in Dials, TakeRequest(d)
          PROVE  DialTypes'
      BY <3>3 DEF TakeRequest
    <3>4. CASE OpenStream
      BY <3>4 DEF OpenStream
    <3>5. CASE Respond
      <4>1. CASE helper[serving] = "listening"
        BY <3>5, <4>1 DEF Respond
      <4>2. CASE helper[serving] # "listening"
        <5>1. serving \in Dials => ClosedIfOpen(stream[serving]) \in {"none", "open", "closed"}
          BY DEF ClosedIfOpen
        <5>2. serving \in Dials
          BY <3>5 DEF Respond, ServesOne
        <5>. QED BY <3>5, <4>2, <5>1, <5>2 DEF Respond
      <4>. QED BY <4>1, <4>2
    <3>. QED BY <1>2, <3>1, <3>2, <3>3, <3>4, <3>5 DEF GroupStep
  <2>. QED BY <1>0, <2>1, <2>2
<1>3. ASSUME NEW d \in Dials,
             CallDial(d) \/ CallerCancels(d) \/ HelperListens(d) \/ HelperGivesUp(d)
               \/ DialGivesUp(d) \/ DialReturns(d)
      PROVE  Types'
  <2>1. GroupTypes'
    BY <1>3 DEF CallDial, CallerCancels, HelperListens, HelperGivesUp, DialGivesUp, DialReturns,
                groupVars, appVars
  <2>2. DialTypes'
    BY <1>3 DEF CallDial, CallerCancels, HelperListens, HelperGivesUp, DialGivesUp, DialReturns,
                DialResult, DialTypes
  <2>. QED BY <1>0, <2>1, <2>2
<1>4. CASE UNCHANGED vars
  BY <1>0, <1>4 DEF vars, groupVars, appVars, dialVars, DialTypes
<1>. QED
  BY <1>1, <1>2, <1>3, <1>4 DEF Next, DialStep

(* The errgroup's goroutines start together, stop one by one, and none starts  *)
(* again.                                                                      *)
LEMMA GroupStepInv ==
    ASSUME Types, GroupOrder, [Next]_vars
    PROVE  GroupOrder'
<1> USE DEF GroupTypes, GroupOrder, cancelled
<1>0. GroupTypes
  BY DEF Types
<1>1. CASE CallStart \/ PerformHandshake \/ StartFails
  <2>1. UNCHANGED <<groupVars, stop, wait, smux>> /\ start # "nil" /\ start' # "nil"
    BY <1>1 DEF CallStart, PerformHandshake, StartFails
  <2>. QED BY <1>0, <2>1 DEF groupVars, AllDone
<1>2. CASE StartSucceeds
  <2>1. remote = "completed" /\ remote' = remote
    BY <1>2 DEF StartSucceeds, Hs!Forget, Types, HandshakeInv, TurnsTaken
  <2>. QED BY <1>0, <1>2, <2>1 DEF StartSucceeds, Goroutines
<1>3. CASE Stop
  BY <1>0, <1>3 DEF Stop, agreement, AllDone
<1>4. CASE WaitReturns
  BY <1>0, <1>4 DEF WaitReturns, WaitsForAll, WaitResult, AllDone, groupVars, agreement, Errors
<1>5. CASE GroupStep
  <2>1. UNCHANGED <<start, stop, wait, remote>>
    BY <1>5 DEF GroupStep, CleanupCloses, CleanupReturns, StopperReturns, CopierReturns,
                DialerReturns, TakeRequest, OpenStream, Respond, appVars, agreement
  <2>2. start = "nil" /\ wait = "idle"
    BY <1>5 DEF GroupStep, CleanupCloses, CleanupReturns, StopperReturns, CopierReturns,
                DialerReturns, TakeRequest, OpenStream, Respond, Goroutines, Copiers, AllDone
  <2>3. CASE CleanupCloses
    BY <1>0, <2>1, <2>2, <2>3 DEF CleanupCloses, Goroutines
  <2>4. CASE CleanupReturns
    BY <1>0, <2>1, <2>2, <2>4 DEF CleanupReturns, CleanupSignals, Goroutines
  <2>5. CASE StopperReturns
    BY <1>0, <2>1, <2>2, <2>5 DEF StopperReturns, ReturnsError, Goroutines
  <2>6. ASSUME NEW g \in Copiers, CopierReturns(g)
        PROVE  GroupOrder'
    BY <1>0, <2>1, <2>2, <2>6 DEF CopierReturns, ReturnsError, Goroutines, Copiers
  <2>7. CASE DialerReturns
    BY <1>0, <2>1, <2>2, <2>7 DEF DialerReturns, ReturnsError, Goroutines
  <2>8. CASE OpenStream \/ Respond \/ \E d \in Dials : TakeRequest(d)
    BY <1>0, <2>1, <2>2, <2>8 DEF OpenStream, Respond, TakeRequest, Goroutines
  <2>. QED BY <1>5, <2>3, <2>4, <2>5, <2>6, <2>7, <2>8 DEF GroupStep
<1>6. CASE DialStep \/ UNCHANGED vars
  <2>1. UNCHANGED <<groupVars, appVars, smux>>
    BY <1>6 DEF DialStep, CallDial, CallerCancels, HelperListens, HelperGivesUp, DialGivesUp,
                DialReturns, vars
  <2>. QED BY <1>0, <2>1 DEF groupVars, appVars, agreement, AllDone
<1>. QED
  BY <1>1, <1>2, <1>3, <1>4, <1>5, <1>6 DEF Next, AppStep

--------------------------------------------------------------------------------
(* Dial.                                                                     *)

(* Nothing but a cancelled context can close the streams, and none opens once  *)
(* the smux session is closed.                                                 *)
LEMMA SmuxStep ==
    ASSUME Types, GroupOrder, NoneOutlivesSmux, [Next]_vars
    PROVE  NoneOutlivesSmux'
<1> USE DEF NoneOutlivesSmux, Types, DialTypes
<1>1. CASE StartSucceeds
  BY <1>1 DEF StartSucceeds
<1>2. CASE CleanupCloses
  BY <1>2 DEF CleanupCloses
<1>3. CASE OpenStream
  BY <1>3 DEF OpenStream
<1>4. CASE Respond
  BY <1>4 DEF Respond, ClosedIfOpen
<1>5. ASSUME ~StartSucceeds, ~CleanupCloses, ~OpenStream, ~Respond
      PROVE  NoneOutlivesSmux'
  <2>1. UNCHANGED <<smux, stream>>
    BY <1>5 DEF Next, AppStep, GroupStep, DialStep, CallStart, PerformHandshake, StartFails, Stop,
                WaitReturns, CleanupReturns, StopperReturns, CopierReturns, DialerReturns,
                TakeRequest, CallDial, CallerCancels, HelperListens, HelperGivesUp, DialGivesUp,
                DialReturns, dialVars, vars
  <2>. QED BY <2>1
<1>. QED
  BY <1>1, <1>2, <1>3, <1>4, <1>5

(* The context stays cancelled. *)
LEMMA CancelledStays ==
    ASSUME [Next]_vars, cancelled
    PROVE  cancelled'
  BY DEF cancelled, Next, AppStep, GroupStep, DialStep, CallStart, PerformHandshake, StartFails,
         StartSucceeds, Stop, WaitReturns, CleanupCloses, CleanupReturns, StopperReturns,
         CopierReturns, DialerReturns, TakeRequest, OpenStream, Respond, ReturnsError, CallDial,
         CallerCancels, HelperListens, HelperGivesUp, DialGivesUp, DialReturns, groupVars, vars

(* Caller, helper and dial goroutine move one at a time; no step of another    *)
(* Dial, or of the errgroup, puts an exchange out of order.                    *)
LEMMA DialStepInv ==
    ASSUME Types, GroupOrder, [Next]_vars, NEW d \in Dials, DialOrder(d)
    PROVE  DialOrder(d)'
<1> USE CancelledStays DEF DialOrder, Owned, Types, DialTypes
<1>1. CASE AppStep
  <2>1. UNCHANGED dialVars
    BY <1>1 DEF AppStep, CallStart, PerformHandshake, StartFails, StartSucceeds, Stop, WaitReturns
  <2>. QED BY <2>1 DEF dialVars
<1>2. CASE CleanupCloses
  BY <1>2 DEF CleanupCloses
<1>3. CASE CleanupReturns \/ StopperReturns \/ (\E g \in Copiers : CopierReturns(g))
             \/ DialerReturns
  <2>1. UNCHANGED dialVars
    BY <1>3 DEF CleanupReturns, StopperReturns, CopierReturns, DialerReturns
  <2>. QED BY <2>1 DEF dialVars
<1>4. ASSUME NEW e \in Dials, TakeRequest(e)
      PROVE  DialOrder(d)'
  BY <1>4 DEF TakeRequest, ServesOne
<1>5. CASE OpenStream
  BY <1>5 DEF OpenStream, ServesOne
<1>6. CASE Respond
  BY <1>6 DEF Respond, ClosedIfOpen, ServesOne
<1>7. ASSUME NEW e \in Dials,
             CallDial(e) \/ CallerCancels(e) \/ HelperListens(e) \/ HelperGivesUp(e)
               \/ DialGivesUp(e)
      PROVE  DialOrder(d)'
  BY <1>7 DEF CallDial, CallerCancels, HelperListens, HelperGivesUp, DialGivesUp
<1>8. ASSUME NEW e \in Dials, DialReturns(e)
      PROVE  DialOrder(d)'
  BY <1>8 DEF DialReturns, DialResult
<1>9. CASE UNCHANGED vars
  BY <1>9 DEF vars, dialVars
<1>. QED
  BY <1>1, <1>2, <1>3, <1>4, <1>5, <1>6, <1>7, <1>8, <1>9 DEF Next, GroupStep, DialStep

--------------------------------------------------------------------------------
(* The theorems.                                                             *)

(* The invariant holds of every reachable state. *)
THEOREM Invariance == Spec => []IInv
<1>1. ASSUME Init
      PROVE  IInv
  <2>1. HandshakeInv
    <3>1. Hs!Idle /\ Held(<<>>) = {} /\ <<>> \in Seq(Kinds) /\ Len(<<>>) = 0
      BY <1>1, EmptyChannel DEF Init
    <3>2. Hs!HandshakeTypes
      <4>1. inbox \in Seq(Kinds) /\ Len(inbox) <= InboxCap /\ Len(response) <= 1
        BY <3>1 DEF Hs!Idle
      <4>2. request \in Hs!Requests
        BY <3>1, NoActions DEF Hs!Idle
      <4>. QED BY <3>1, <4>1, <4>2 DEF Hs!Idle, Hs!HandshakeTypes, Kinds
    <3>3. TurnsTaken /\ DataBehindCompletion /\ ~lost
      BY <3>1 DEF Hs!Idle, TurnsTaken, DataBehindCompletion
    <3>. QED BY <3>2, <3>3 DEF HandshakeInv
  <2>2. GroupTypes /\ ServesOne /\ DialTypes
    BY <1>1 DEF Init, GroupTypes, ServesOne, DialTypes, Goroutines
  <2>3. GroupOrder /\ NoneOutlivesSmux
    BY <1>1 DEF Init, GroupOrder, NoneOutlivesSmux, cancelled, Goroutines
  <2>4. \A d \in Dials : DialOrder(d)
    BY <1>1 DEF Init, DialOrder
  <2>. QED BY <2>1, <2>2, <2>3, <2>4 DEF IInv, Types
<1>2. IInv /\ [Next]_vars => IInv'
  BY TypeStep, GroupStepInv, DialStepInv, SmuxStep DEF IInv
<1>. QED
  BY <1>1, <1>2, PTL DEF Spec

(* Every reachable state has its types: a failed Dial says ErrFailedDial or    *)
(* its own context's error, and Wait returns nil or an error of the errgroup.  *)
THEOREM TypeCorrect == Spec => []TypeOK
<1>1. IInv => TypeOK
  BY DEF IInv, Types, HandshakeInv, GroupTypes, DialTypes, TypeOK
<1>. QED
  BY <1>1, Invariance, PTL

(* Whoever gives up, and whenever, no stream is left without an owner and none *)
(* is handed out closed, for any number of concurrent Dials.                   *)
THEOREM NoStreamIsLost == Spec => []StreamsAreOwned
<1>1. IInv => StreamsAreOwned
  BY DEF IInv, Types, DialTypes, DialOrder, StreamsAreOwned
<1>. QED
  BY <1>1, Invariance, PTL

(* When Wait returns nothing is left of the handler, and nil means Stop.       *)
THEOREM WaitIsTheEnd == Spec => []WaitTellsTheEnd
<1>1. IInv => WaitTellsTheEnd
  <2>1. SUFFICES ASSUME IInv, wait # "idle"
                 PROVE  /\ AllDone /\ smux = "closed" /\ \A d \in Dials : stream[d] # "open"
                        /\ wait = "nil" => stop = "done"
    BY DEF WaitTellsTheEnd
  <2>2. goroutine["cleanup"] = "done"
    BY <2>1 DEF IInv, GroupOrder, AllDone, Goroutines
  <2>. QED BY <2>1, <2>2 DEF IInv, GroupOrder, NoneOutlivesSmux
<1>. QED
  BY <1>1, Invariance, PTL

(* No goroutine runs before both ends agree that the handshake is complete, and *)
(* of the stream data only what came before that completion has been dropped,   *)
(* however many actions the remote asks for and whatever else it sends.         *)
THEOREM HandshakeIsAgreed == Spec => []HandshakeBeforeData
<1>1. ASSUME IInv
      PROVE  HandshakeBeforeData
  <2>1. ASSUME handshake = "done"
        PROVE  /\ remote = "completed"
               /\ response # <<>>
               /\ \A i \in DOMAIN request :
                    response[1][i].ActionStatus = "Success" <=> request[i] = "SessionType"
    <3>1. remote = "completed" /\ response # <<>> /\ response = <<Hs!Answers(request)>>
      BY <1>1, <2>1 DEF IInv, Types, HandshakeInv, TurnsTaken
    <3>2. \A i \in DOMAIN request :
            Hs!Answers(request)[i].ActionStatus = "Success" <=> request[i] = "SessionType"
      BY DEF Hs!Answers, Hs!Outcome
    <3>3. response[1] = Hs!Answers(request)
      BY <3>1
    <3>. QED BY <3>1, <3>2, <3>3
  <2>2. Hs!AgreedHandshake
    BY <1>1, <2>1 DEF Hs!AgreedHandshake, IInv, Types, HandshakeInv
  <2>3. (\E g \in Goroutines : goroutine[g] # "none") => remote = "completed"
    BY <1>1 DEF IInv, GroupOrder
  <2>. QED BY <2>2, <2>3 DEF HandshakeBeforeData
<1>. QED
  BY <1>1, Invariance, PTL

================================================================================

# ssmlib in TLA+

A verification project for ssmlib, a Go library that keeps an AWS Systems Manager
session open over a websocket. TLA+ modules model the session's two message loops,
its lifecycle, both handlers with their copy loops and handshake, the message codec
and the version comparison; TLC checks them on small instances; TLAPS proves
every safety property and every refinement of the passing runs for every value of the
constants.

## The system

A `Session` dials a websocket, opens the data channel, and puts goroutines into an
`errgroup`: the first of them to return an error cancels a context that all the
others watch. A `Handler` reads and writes the session's data messages. Everything
the goroutines share goes through bounded channels (capacity 20 each), the context,
and the channel `stopped`, which is closed once.

| component | source | state | operations | talks to |
|---|---|---|---|---|
| incoming loop | `session.go` 286-297, 437-545, 562-594 | `expectedSequenceId`, `outOfOrderMessages` (at most 50) | acknowledge, reorder, deliver, forward acknowledgements | control queue and `ackReceived` (outgoing loop), `incomingDataMessages` (reader), websocket |
| outgoing loop | `session.go` 305-435, 547-560 | `nextOutgoingSequenceNumber`, `unacknowledgedMessages` (at most 10), throttle | number, send, resend after 1 s, give up after 1 min | `outgoingMessages` (writers), control queue, `ackReceived`, websocket |
| lifecycle | `session.go` 98-278 | the errgroup, `stopped`, the websocket | `Start`, `Stop`, `Wait`, cleanup | handler, both loops, the application |
| handler interface, `NopHandler` | `handler.go` | `stopped` | `Start`, `Stop`, `Wait` | session |
| `MuxPortForward` | `handler/muxPortForward.go` | errgroup of its own, `dialRequests`, a smux session | `Start`, `Stop`, `Wait`, `Dial` | session, smux, the application |
| `Stream` | `handler/stream.go`, `termsize.go` | errgroup of its own, last terminal size | `Start`, `Stop`, `Wait` | session, terminal |
| copy loops | `handler/misc.go` | one helper goroutine each | copy both ways, `SetTerminalSize` | session, reader, writer |
| handshake | `handler/handshake.go` | none | `PerformHandshake` | session |
| codec | `messages/` | none | marshal, unmarshal, validate, constructors | both loops |
| version | `version/version.go` | none | `SupportsVersion` | `MuxPortForward` |
| adapters, discard logger | `handler/session.go`, `discardLogger.go` | none | none that matter | |

What is hard: both loops are retransmission protocols over a transport that, as the
code treats it, may fail single writes, and against a remote that resends; they wait
on each other through bounded channels; five ways to end a session race (`Stop`, a
read error, `ErrAckTimeout`, the handler failing, the handler failing to start), each
of which has to bring six goroutines down; `Dial` is a rendezvous of three goroutines
any of which may give up; a copy loop leaves behind a helper goroutine that sits in a
`Read` or `Write` nobody can abort, and hands the session buffers it still holds when
the next `Read` comes; a handshake drops what it does not expect; lengths on the wire
have 32 bits. `PROJECT.json` lists these hazards at their lines.

What makes each part correct:

- incoming loop: the reader sees every message once and in order; nothing is
  acknowledged that is not held; the reorder window neither overflows nor clogs;
- outgoing loop: the k-th message written goes out under number k, whatever fails;
  nothing is forgotten that the remote has not received; every message is settled or
  the session ends;
- both together: no deadlock, and a timeout is the remote's fault;
- lifecycle: shutdown completes, `Wait` returns when it has and tells a requested end
  from a failure, a failed `Start` leaves nothing;
- `MuxPortForward`: no stream leaks or is handed out dead, no `Dial` hangs, shutdown
  completes;
- copy loops: every byte goes on, once and in order, although two goroutines handle it
  and the session keeps the buffers; a helper outlives its loop by one call at most;
- `Stream`: it ends when it is stopped, even if its terminal never answers a read; the
  remote gets to know the size of the terminal;
- handshake: it is done only when both ends say so, and drops nothing that was sent
  behind its completion;
- codec: what one end writes the other reads as it was or not at all; what is damaged is
  refused; no length in a frame leads outside it;
- version comparison: the order of versions as numbers.

## The modules

| module | models | proofs |
|---|---|---|
| `AckedStream` | the abstract specification: one direction of a data channel | |
| `SessionIncoming` | the incoming loop and `Read`; implements `AckedStream` | `SessionIncoming_proofs` |
| `SessionOutgoing` | the outgoing loop and `Write`; implements `AckedStream` | `SessionOutgoing_proofs` |
| `SessionLoops` | instances of both, sharing queues and context | `SessionLoops_proofs` |
| `SessionLifecycle` | `Start`, `Stop`, `Wait` and the errgroup | `SessionLifecycle_proofs` |
| `Handshake` | `PerformHandshake` and the remote agent | in `MuxPortForward_proofs` |
| `MuxPortForward` | the handler and `Dial`, with an instance of `Handshake` | `MuxPortForward_proofs` |
| `CopyOutput` | `CopySessionReaderToWriter` and its helper | in `Stream_proofs` |
| `CopyInput` | `CopyReaderToSessionWriter` and its helper | in `Stream_proofs` |
| `Stream` | the handler, with an instance of each copy loop | `Stream_proofs` |
| `Wire` | `AgentMessage`: marshal, unmarshal, validate | `Messages_proofs` |
| `Version` | `SupportsVersion` | `Messages_proofs` |
| `Channels` | nothing of the code: the lemmas about channels that the proofs share | |
| `MC...` | constants of the instances TLC checks; `MCMessages` also puts `Wire` and `Version` side by side | |

Common conventions. A channel is a sequence with a capacity, or a counter where its
contents do not matter. A `select` is one action per case, so that any ready case may
win: this is why a cancelled context does not stop `Read` or `Write` from taking their
other case. `cause` is `context.Cause(errctx)`: the first error of the errgroup, and
"none" until the context is cancelled. A definition with the comment "A slip that ..."
is a plausible mistake in the definition that follows it; it is used only to see that
the properties notice.

**AckedStream.** A sender offers messages, the receiver accepts each number once in any
order and delivers in sequence, and the sender retires only what has been accepted.

**SessionIncoming.** `pc` is where the goroutine can block or be overtaken: at the head
of the loop (`check`), in `ReadMessage` (`read`), sending to `ackReceived`
(`forward`), queueing an acknowledgement (`ack`, and `drainAck` in the inner loop),
sending to the reader (`deliver`, and `drain`). One action runs from one such point to
the next. A message is its sequence number. The network is the choice of the next frame:
any message of the remote's stream, any number of times. A failed unmarshal, a failed
read and `channel_closed` all end the loop and are one action. The error of
`sendAcknowledgeMessage` is only logged, so a cancelled context skips an
acknowledgement and the loop goes on, as in the code.

**SessionOutgoing.** One action per case of the `select`. A case runs without
interruption, because the goroutine owns its state; the write inside it succeeds or
fails. The frames written are remembered for ever, and the remote may receive any of
them at any time. Time is `Tick`; a message has an age since it was first and since it
was last sent. The resend pass is one action with any outcome Go's map order allows:
`ResendDue` when nothing has expired, `GiveUp` when something has.

**SessionLoops.** The loops of the two modules, unchanged, on the same queues. An
acknowledgement of the remote's waits in `inbox` until the incoming loop reads it;
`inTime` remembers which got there before their message expired. `Tick` happens only
when neither loop can go on by itself: the steps of a goroutine take no time compared
with a second. `AttentiveReader` says whether the reader also takes no time, or as long
as it likes.

**SessionLifecycle.** `start`, `stop` and `wait` are where the calls are, `goroutine`
where each member of the errgroup is. The loops are reduced to: they run, may fail,
return once the context is cancelled. The handler is any that behaves as those of the
library do: it may fail at any time, finishes without error only after a `Stop`, and
remembers a `Stop` that comes before `Start`. Another control message may take the room
in the control queue, so `StopQueues` may also find no room at any time. What cleanup
does to the websocket matters: only a closed one makes a loop return.

**MuxPortForward.** `goroutine` as above; `dial` and `helper` are the two goroutines of
each `Dial`. The send on the unbuffered `dialRequests` and its receive are one action;
the response is delivered only if the helper is in its `select`, as a send with a
`default` case is. `Start` runs the steps of `Handshake` before anything else; the
version check and the creation of the smux session, which follow, succeed or fail. The
copy loops run and fail here; what they do is in `CopyOutput` and `CopyInput`.

**Handshake.** `pc` is where `PerformHandshake` reads or writes. The remote agent asks
for some actions, completes the handshake once it has an answer of the right length, and
may send stream data and other messages at any time, before the request, before the
completion and right behind it; they queue up in `inbox` as they do in the session's
channel. The code drops what it does not wait for, and stream data is no exception: data
before the completion is dropped and the handshake goes on (the tests at
`handler/handshake_test.go:82` and `113` want it so). The model tells the data apart by
when it was sent, `EarlyOutput` or `Output`, and `lost` is about the second: it would be
set if the loops waited for the wrong message or read on past the completion. An outcome
has its two fields as the code sets them.

**CopyOutput, CopyInput.** The loop and its helper meet on an unbuffered channel
(`HandOver`, one action) and on one that holds a result. The user's `Read` and `Write`
return when they like, or never, with any combination of bytes and error. `CopyOutput`
knows a message by its place in the stream. `CopyInput` has buffers with contents
(`mem`) apart from the references to them that the session was given (`queued`), so that
a buffer used twice would show.

**Stream.** The three other goroutines of the errgroup around the two copy loops, whose
context is the errgroup's. A tick whose size is the last one changes nothing and is no
action. `Size()` may fail and then yields some other values, which the code sends all
the same. A write fails only for a session or a context that has ended.

**Wire.** A frame is what the arithmetic sees of the bytes: their number, the fields, the
payload length found right behind a header of the length it claims, and whether the
digest fits. `Frames` is every combination; the sums are taken modulo `WordSize`. A
message is sent by `Marshal`, then read by the same actions as any frame, and what was
read may be marshalled again. Nothing bounds the length of a payload to send:
`MarshalBinary` stores it in a word and lets `ValidateMessage` compare the two, so that a
longer payload is refused (`MarshalRefuses`); one that fits its word, but not together
with the 120 bytes before it, is written and then makes the reading side panic.

**Version.** The loop over the components, one action for each of its outcomes, against
an order of numbers (`Values`: the components as digits, in a base that is one more than
the largest of them; the only thing assumed of components is that there is a largest, as
there is of machine integers). `VersionIsOrder` demands no answer for a version with a
component that is not a number, except that a yes needs a newer component before it: the
code and its comment disagree there (see below).

## The runs

| run | shows | distinct states |
|---|---|---|
| `incoming` | the incoming loop's safety, refinement of `AckedStream`, and delivery | 21 000 |
| `outgoing` | the same for the outgoing loop | 337 000 |
| `loops` | both together, reader attentive: no deadlock, timeouts are true, both refine `AckedStream` | 257 000 |
| `loops_ack_timeout` | violated: with a reader that stops, `ErrAckTimeout` is false | |
| `lifecycle` | shutdown, `Wait`, `Start` | 69 000 |
| `lifecycle_handler_stop` | violated: a handler that stops ends nothing else | |
| `mux` | streams and Dials, and the handshake they start from | 344 000 |
| `mux_listen` | violated: the request may be answered before `Dial` listens | |
| `mux_dial_after_failed_start` | violated: `Dial` outlasts a handler that failed to start | |
| `stream` | both copy loops in their handler: order, shutdown, terminal size | 149 000 |
| `messages` | round trip, refusal of damaged frames, version order | 52 000 |
| `messages_payload_length` | violated: a payload length near the end of its word makes `UnmarshalBinary` panic | |

No run checks for deadlock in TLC's sense: every system here really stops, with its
goroutines returned and its inputs used up. That nothing stops too early is what the
liveness properties say.

### Bounds

- `incoming`: 4 messages, a window of 2, channels of 1. Three messages can be ahead of
  the one expected, so the window fills, a fourth is dropped and must be resent, and a
  drain of two in a row happens. Capacity 1 makes every send block at some time.
- `outgoing`: 3 messages, a window of 2, channels of 1, interval 1 and timeout 2, so
  that a message is resent before it expires and one is resent while another expires.
  Ages stop at the first value beyond the limit, where they can no longer matter.
- `loops`: 3 messages in and 1 out, windows and channels of 1, interval 0, timeout 1:
  the smallest queues are the worst for two loops that wait on each other.
  `loops_ack_timeout` has 2 messages in: one to fill the reader's queue, one to block on.
- `lifecycle`: two concurrent `Stop`s, two `Wait`s, a control queue of 1.
- `mux`: two Dials, so that one can hold the dial goroutine while the other gives up; a
  request of up to two actions, so that a supported one may come with one that is not;
  an inbox of two, so that data can arrive right behind the completion, or between the
  answer and the completion.
- `stream`: either two messages and reads between them, or two resizes (`MCBudgets`): the
  terminal shares only the context with the copy loops. Two are enough for a buffer to be
  used again, for one direction to fail while the other is busy, and for a size to come
  back to an earlier value. The sizes differ in one of their two numbers.
- `messages`: words of 8 bits for the 32 of the code; 8 bits hold the 120 bytes before a
  payload with as much to spare again. Payloads to send have every length from 0 to past
  the word size; the lengths in frames to receive are those around every comparison and
  around the wrap. Versions have up to three components, each 0, 1,
  2 or not a number.
- `NumWrites` bounds the application in `Write`; `NumMsgs` is the length of the remote's
  stream. No other counter is cut off.

### Fairness

Weak fairness is put on what a running goroutine does by itself, and on what the code
relies on the runtime for: a `select` with a case that stays ready takes it in the end
(Go chooses among ready cases at random), and closing the websocket makes a blocked
read fail. `SessionIncoming` also assumes, until the context is cancelled, that the
reader and the outgoing loop keep taking, that the remote resends what is not
acknowledged, and (strong fairness) that what is sent again and again gets through in
the end; without that nothing could be promised. `SessionOutgoing` assumes nothing of
the network or the remote: that is the point of its timeout. `SessionLoops` takes the
neighbours as they are, and the reader as in `SessionIncoming`. Once the context is
cancelled nothing is assumed of a reader or a remote: that a loop returns must not depend
on a channel being drained. In `SessionLifecycle` a loop is sure to return only once the
context is cancelled and the websocket closed, since it may be in a read or write of it,
and a handler to finish only when it has been stopped. In `MuxPortForward` nothing is
assumed of the callers' contexts nor of the remote agent, and `OpenStream` is assumed to
return. In `Stream` nothing is assumed of the Reader, the Writer and the session, except
that a write to a live session returns; strong fairness is on the tick that reads the
true size (each of many may meet a failing `Size()`) and on the terminal goroutine's
return (the ticker may win its `select` any number of times, but not for ever). `Wire`
and `Version` are sequential and need none.

### What the violated runs show

Each of them is a statement of a comment, a doc or an error's text that the code does
not keep; `PROJECT.json` quotes both sides. In short: a handler stopped by itself leaves
the session running without it; a reader that falls behind for a minute kills the
session with an error that blames the remote; a `Dial` may be answered before it listens,
and then hangs; a `Dial` on a handler that failed to start is not ended by stopping it;
the length check of `UnmarshalBinary` wraps around and the slice behind it panics.

### Smaller disagreements, seen while modelling

These need no run to be seen and have none:

- `Write` on a stopped session may queue the message and return nil (`session.go:308`;
  the doc at 304 has `ErrSessionStopped`), as its `select` has no priority.
- `Stop` may end the session without its terminate message having gone out
  (`session.go:244-255`; doc at 237): the message and the cancellation race.
- `Wait` after a `Start` whose dial failed returns only when its own context ends: the
  errgroup is empty and its context is never cancelled (`session.go:144-148`).
- When `Size()` fails the values that came with the error are still compared and sent
  (`handler/stream.go:146-155`).
- An action the handshake does not support has its status in `ActionResult`, and
  `ActionStatus` stays 0 (`messages/message.go:122-127`; `messages/types.go:69` says the
  status communicates the result).
- `SupportsVersion` accepts `4.0.abc.0` where `3.0.196.0` is asked for: it stops at the
  first component that differs, while the comment at `version/version.go:22` calls
  anything that is not a number not comparable. No property sides with either.
- `MarshalBinary` writes the payload type even when the header length is 112, so a
  decoded `close_channel` would not survive being sent again. Nothing sends one.
- `Stream.Wait` may return while a helper is still in `Read` or `Write`; the comment at
  `handler/misc.go:26-30` says so.

## The proofs

Every invariant and every refinement that a passing run checks is also a theorem, for
every value of the constants. What is assumed of them is at the head of each module, by
name: bounds are natural numbers, capacities are not zero, the sets of callers are
arbitrary. In particular the theorems hold for the code's windows of 50 and 10, its
channels of 20, its words of 32 bits, a stream of any length and any number of callers.

Almost none of the properties is inductive: what a step may do depends on what the
goroutine knows at the point where it was blocked. So each proof has an inductive
invariant (`IInv`, or a name that ends in `Inv`) that says for each such point what is
in hand there; TLC checked it before it was proved. Its conjuncts have names, each
conjunct has a lemma for the step, and each lemma one step for each action that can
disturb it. Channels are used only through the lemmas of `Channels` about one send and
one receive.

### The incoming loop: `SessionIncoming_proofs`

`DeliveryInOrder`, `AcknowledgedIsHeld`, `WindowIsLive`, `TypeCorrect`, and `Refinement`:
the loop implements `AckedStream`. The invariant adds

- `LoopState`: the message in hand at each blocking point. At `deliver` it is the
  expected one; at `ack` it is expected, old, or already in the map; at `drainAck` and
  `drain` the expected number is in the map;
- `InStream`: nothing held lies outside the remote's stream;
- `KeysAhead`: keys of the map are ahead of the sequence, except the one being drained;
- `WithinWindow`: the map is finite and within its window.

`AcceptedStep` says that a step takes charge of at most the message that has just
arrived and lets go of none: acknowledgements (`AckStep`) and the refinement both rest
on it.

### The outgoing loop: `SessionOutgoing_proofs`

`WireCarriesStream` (the k-th message written goes out under number k), `TypeCorrect`,
`Refinement`, and two statements no run has: `ResendsAreTheSame`, frames with the same
number are equal, flags included; and `NothingIsForgotten`, a number that has been used
and is kept no more is of a message the remote has. The invariant follows one numbering
from the application to the wire:

- `QueueIsStream`: the writes still queued are those after the last number used;
- `KeptIsStream`, `WrittenIsStream`: what is kept and what has gone out carry the
  numbers of their messages;
- `ResendsAgree`: a kept message is what went out under its number, but for its ages;
- `AcksAreTrue`, `NothingForgotten`: an acknowledgement in the channel is of a message
  that arrived, and only such messages are forgotten.

### Both loops: `SessionLoops_proofs`

Apart, each loop has a neighbour that takes from its channels, puts acknowledgements
there and cancels the context as it likes; together, each has the other. `LoopsCompose`
shows that the two together are behaviours of `SessionIncoming` and of
`SessionOutgoing`: every step of one is for the other a step of its neighbour or none.
The proof modules of the two are instantiated with `cause` mapped (an error of the other
loop is just "other"), and their theorems then hold of the session: `Refinement`,
`IncomingKeepsItsPromises`, `OutgoingKeepsItsPromises`. One fact is needed of the two
together: what waits to be acknowledged by the remote has been written
(`AcksAreOfWrites`).

`TimeoutIsTrue`: if the application takes what is delivered at once (`AttentiveReader`,
an assumption of this theorem alone), `ErrAckTimeout` is raised only for a message whose
acknowledgement did not reach the client in time. The invariant, `InTimeIsOnItsWay`,
follows an acknowledgement that came in time: until the message is forgotten it is at
the socket, in the hands of the incoming loop, or in the channel, and the clock does not
move meanwhile (`NoneOnItsWay`). Without the assumption the statement is false, as the
run `loops_ack_timeout` shows.

### The lifecycle: `SessionLifecycle_proofs`

`NilOnlyAfterStop`, `WaitIsTheEnd`, `FailedStartIsClean` and `TypeCorrect`. What a `Wait`
returns says nothing of what led there, so the invariant adds

- `Launched`: cleanup is among the first goroutines, and nothing is cancelled before;
- `CleanedUp`: where the cleanup goroutine is says what it has closed and stopped, so
  that an errgroup that is through has a closed websocket and a stopped handler;
- `HandlerIsAwaited`: a running handler is being waited for by a goroutine;
- `StopIsRequested`: before a cancellation only a `Stop` closes the channel, and only
  then can the stopper's error be the first. After one, cleanup closes it too, but the
  cause is settled (`CauseStays`);
- `WaitHasSeen`: what each point of `Wait` has seen. It lasts because `Start` returns
  once (`StartReturnsOnce`) and a group that is through launches nothing (`TheEndStays`).

### The port forwarding handler: `MuxPortForward_proofs`

`NoStreamIsLost`, `WaitIsTheEnd`, `HandshakeIsAgreed` and `TypeCorrect`, for any set of
Dials and any length of request and inbox.

- `TurnsTaken`: client and remote take turns, so that a completion in the inbox is behind
  an answer to the very request, whatever stream data and other messages lie between;
  `DataBehindCompletion`: the data sent behind the completion still has it in front of
  it, so that the handshake leaves it in the channel;
- `GroupOrder`: cleanup closes smux before it signals Stop's channel, and nothing runs
  before the handshake is done;
- `DialOrder`: the exchange of one Dial, seen from caller, helper, stream and dial
  goroutine at once. Who gives up first hands over (`abandoned`) or is seen to have gone;
- `NoneOutlivesSmux`: streams go with the smux session.

### The stream handler and its copy loops: `Stream_proofs`

`OutputIsInOrder`, `InputIsInOrder`, `WaitIsTheEnd` and `TypeCorrect`, for any amount of
data and any terminal. `OutTurns` and `InTurns` say which of a loop and its helper is at
work; `OutProgress`, that the message in hand and no other may be missing; `InProgress`,
that a chunk the session does not have is in the buffer of this iteration, which the
session was not given: this is why no buffer is written to while it is still queued. A
step of the handler is at most one step of one copy loop (`CopyStep`), so the loops are
proved about once, inside the handler they run in.

### The codec and the versions: `Messages_proofs`

`RoundTripIsExact` and `OnlyExactFramesAreAccepted`, for words of any size beyond 120, a
payload of any length and any lengths in a frame. Both come down to the sum of the
lengths: a sum that wraps is less than what it is compared with, so that the frame is
refused or the slice fails, and never accepted (`SlicedPayload`, for every header length).
A message therefore arrives as it was or not at all (`DecodeOfBytes`), and it does arrive
as long as its 120 bytes and its payload together fit a word, where no sum wraps.
That it may fail is what `messages_payload_length` shows; `OnlyTheLastLengthsOverflow`
says for which frames: those whose payload length is within 120 bytes of the word size.

`AnswerIsTheOrder`: what the loop over the components answers agrees with the order of
the versions read as numbers. The loop invariant is that the components before the one looked at are equal
numbers (`OrderInv`); that the first difference decides whatever comes after it
(`FirstDifferenceDecides`) is an induction over the components. Library theorems for
induction take an operator, which the provers here cannot instantiate; `SetInduction`
says the same of a set, and follows from the well-foundedness of the natural numbers.

### Left to TLC

- Liveness: that shutdown completes, that messages are delivered, acknowledged and
  resolved, that `Start`, `Dial` and the helpers return, that the terminal's size gets
  through. All of it rests on fairness, hence on `ENABLED`, which the prover does not
  treat.
- The violated runs: a counterexample needs no proof.

## Not modelled

- The contents of messages: JSON, dates, identifiers beyond the order of their halves,
  the digest itself, the padding of message types. A sequence number outside the
  remote's stream (a negative one, say) is not among the inputs.
- A blocking write inside the outgoing loop: a step of `SessionOutgoing` ends. In the code
  a write may block until cleanup closes the websocket, and the resend timer waits with
  it. That the loop then ends is in `SessionLifecycle`.
- The same `*AgentMessage` written twice, whose number the loop would overwrite.
- The caller's contexts of `Read`, `Write` and `Wait` where giving up changes nothing
  but what that call returns.
- smux and `net.Pipe`, but for opening and closing streams.
- The adapters of `handler/session.go` and the discard logger, which have no state; the
  dialer and all logging.

## Plan

Done: every part of the library that has state or arithmetic is modelled, and every
safety property and refinement the runs check is proved. What is left, in this order:

1. Safety lemmas towards the liveness properties, which themselves stay with TLC: what
   each blocked goroutine waits for is on its way, in the two loops (no deadlock through
   full channels) and in `Dial` (whoever still waits has somebody to answer or a context
   that ends).
2. The websocket as a module of its own, with writes that block, under the outgoing loop.

# TLA+ models of the ACP Go SDK

This directory specifies the SDK in TLA+: the concurrent core of its connection,
the owner of an ACP subprocess, and the codecs of all protocol types. It checks the
specifications with TLC on small instances and proves their main theorems with
TLAPS for every value of the constants. Everything is translated from the Go
source; `PROJECT.json` maps each definition to the lines it stands for.

    tlc -workers 2 -config PreparedRequestShared.cfg MCPreparedRequest   # a run
    tlc -workers 2 -config Decoding.cfg MCDecoding                       # another
    tlapm PreparedRequestProofs.tla                                      # the proofs

## The system

| Component | State it keeps | Operations | Talks to |
|---|---|---|---|
| Prepared requests (`prepared_request.go`) | per request: phase, submission, resolving/resolved result, dispatch error, four Onces, three channels | PrepareRequest, ObserveResponse, Dispatch, Wait, CancelRequest, Abandon | connection (`pending`, write queue, delivery barrier) |
| Outbound connection (`connection.go`) | `pending` entries (admitted, responded, done), write queue, delivery chain and slots | addPending, processWrites, handleResponse, abandonPending, finishPending, detachPending, shutdown | requests by completing `done`; transport by `Write` and `Close` |
| Notifications (`connection.go`) | queue, sequence numbers, completed prefix, frames | enqueueNotification, processNotification, waitNotificationsUpTo, reentrant waits | waits on the delivery barrier; Waits wait on it |
| Inbound requests and batches (`connection.go`, `frame.go`) | in-flight table, request queue, batch collectors, callback slots | dispatchFrame, enqueueRequest, workers, handleCancelRequest, AfterResponse | handlers, write queue |
| Connection lifecycle (`connection.go`) | context, wait group | Start, Close, Wait, reader and workers ending | all of the above |
| v2 handshake (`experimental/v2`) | selected, initialized, initializing, otherRequest | begin, finish, route, checkRepeatVersion | handlers on concurrent goroutines |
| Framing and ids (`frame.go`, `request_id.go`) | none | ParseTransportFrame, canonical request id | the receiver |
| stdio (`transport/stdio`) | process, tree, wait result | Start, Wait, Close, Shutdown, forced stop | operating system, connection |
| Generated types (`types_gen.go`, `experimental/v2/types_gen.go`) | the fields of a message, and whether a patch field was null or absent | UnmarshalJSON, MarshalJSON, Validate, the State, Set, Clear and Unset methods of patches | the facades, the peer |
| Generator (`cmd/generate`) | none at run time | emits the codecs from the schema | generated types |
| Typed facades, schema tools | none | delegation, offline tools | |

What is hard here: nearly every operation of a request may run on its own
goroutine, under one of three mutexes (`r.mu`, `c.mu`, `c.deliveryMu`), with the
lock released between reading the state and acting on it; a response, a failed
write, a cancelled context, an Abandon and the shutdown of the connection may
all arrive between two such steps; and several waits (`done`, `dispatchDone`, a
`sync.Once`, the slots channel) must always be answered. What makes each
component correct:

* requests: NotStarted is a promise that a retry is safe; an observer runs once
  and all Waits agree; what a request holds is released exactly once; the phase
  never goes back; every call returns once the connection ends;
* barrier: a notification received after a gated response waits for its
  delivery; slots are neither leaked nor released twice;
* notifications: a response is seen after every notification received before it,
  with no deadlock when a handler waits for a response;
* inbound: each request is answered at most once and each batch flushed once;
  callbacks follow the reply; ids stay reserved until the reply is written;
* handshake: one at a time, never beside a request, a selected version pinned;
* stdio: nothing of the tree survives a stop, the process is reaped, the streams
  are closed, and no stop waits for itself;
* types: a message passed on arrives as it was, in the same variant; what is
  malformed and forgiven changes nothing else and clears nothing.

`PROJECT.json` lists the hazards at their lines, with the properties that cover
them or a note saying why none does yet.

## Modules

| Module | Content |
|---|---|
| `PreparedRequest` | the outbound half: callers, writer, receiver, barrier, shutdown; the properties |
| `PreparedRequestInv` | the inductive invariant `IInv` |
| `MCPreparedRequest` + 5 cfgs | instances for TLC |
| `PreparedRequestProofs` | theorems, for any sets of requests and waiters |
| `PreparedRequestReleaseProofs` | theorems about what a request occupies, and about cancellations |
| `RequestPromise` | the abstract specification `PreparedRequest` implements: what a program that makes requests may rely on |
| `RequestPromiseProofs` | the refinement of it, for any requests and waiters |
| `NotificationOrder` + 3 cfgs | the inbound half of the ordering: notifications, their frames, watermarks, the barrier as the worker sees it |
| `NotificationOrderProofs` | theorems about the barrier and the order, for any requests and notifications |
| `InboundRequests` | requests of the peer: reader, workers, arrays, replies, callbacks, the end of the goroutines |
| `RequestContract` | the abstract specification it implements: what a peer and a handler may rely on |
| `MCInboundRequests` + 1 cfg | three scripts of a peer |
| `InboundRequestsProofs` | theorems and the refinement of `RequestContract`, for any frames and limits |
| `Initialization` (+ cfg) | the v2 handshake, behind the router and behind the agent |
| `InitializationProofs` | theorems, for any set of messages |
| `StdioProcess` | the owner of a subprocess, with the process tree and `exec.Cmd` |
| `MCStdioProcess` + 1 cfg | four concurrent calls |
| `StdioProcessProofs` | theorems, for any number of processes and any calls |
| `WireTypes` | the rules by which generated code reads and writes fields |
| `SchemaV1`, `SchemaV2` with `SchemaV2Content` | every type of both versions, made of those rules |
| `Decoding` | UnmarshalJSON and MarshalJSON, and a message's way from peer to peer |
| `MCDecoding` + 1 cfg | both schemas |
| `DecodingProofs` | theorems, for any types as the generator makes them and any message of them |

### PreparedRequest

One action is one critical section or channel operation. The variables are the
fields: `phase`, `observer`, `dispatchErr`, `resolving`, `resolved` are those of
`PreparedRequest`; `pending`, `responded`, `done` are the table of
`pendingResponse`; `slots`, `chain`, `delivered` are the delivery barrier (`chain`
is the linked list behind `lastResponseDelivery`, oldest first); `writeQueue`,
`writer`, `writing`, `writeDone` belong to `processWrites`. A `...Pc` variable is
the place of a goroutine in its call. `release` is the state of the `sync.Once` in
`releasePending`: "await" is a caller inside the Once that waits for the claimed
response, and every other caller waits for "done". `invoked`, `cancelSent`,
`claimed`, `claimedReady`, `verdicts`, `observed` are histories that only
properties read.

| Code | Actions |
|---|---|
| `PrepareRequest`, `addPending` | `Prepare` |
| `ObserveResponse` | `ObserveResponse` |
| `Dispatch`, `completeWrite`, `failDispatch`, `completeDispatch` | `DispatchStart`, `DispatchRefused`, `DispatchEnqueue`, `DispatchInterrupted`, `DispatchSeesAbandon`, `CompleteWrite`, `FailDispatch`, `DispatchReleased`, `DispatchFinish` |
| `processWrites`, `beginWrite`, `admitPending` | `WriterTop`, `WriterStops`, `WriterTakesRequest`, `WriterTakesCancel`, `WriterInvokes`, `WriterReturns`, `WriterShutsDown` |
| `handleResponse` | `ResponseArrives`, `ResponseCompletes` |
| `Wait`, `waitResponse`, `resolveResponse`, `completeResponse` | `WaitReads`, `WaitReady`, `WaitStays`, `WaitDone`, `WaitCancelled`, `WaitResolves`, `WaitNotified`, `WaitGivesUp`, `WaitLosesConnection`, `WaitSettles`, `WaitReleased` |
| `releasePending`, `abandonPending`, `finishPending` | `ReleaseStart`, `ReleaseFinish` |
| `Abandon`, `detachPending` | `Abandon`, `AbandonDetaches`, `AbandonReleased` |
| `CancelRequest`, `SendNotification` | `CancelTest`, `CancelSend` |
| `shutdown` | `BeginShutdown`, `DrainOne`, `EndShutdown` |

Abstractions, and why they lose nothing the properties see:

* `pendingResponse.admitted` and `submission = Possible` are one set,
  `submitted`: both are set inside one section of `r.mu`.
* Closing a delivery and pruning the chain (`Finish`), linking a response and
  completing it (`ResponseCompletes`), and the two parts of shutdown's or
  abandonPending's work on one entry are single steps: whoever looks at the chain
  prunes first, and nobody finishes a delivery before the response is complete.
* `ReleaseStart` merges the locked parts of `abandonPending` and `finishPending`.
  The second follows only when the entry is gone or its response claimed, and
  neither can change again before it.
* A result is "ok" or "error": RPC errors, decode errors, a failing observer and a
  failing hook are all "error". An RPC result and its decoding are not modelled.
* Whether the notifications before a response are processed is free
  (`WaitNotified` may or may not happen): that is `NotificationOrder`'s subject.
* `opts.Abort` may do nothing or end the connection (`BeginShutdown` is always
  possible). `CancelRequest` does not track the result of its own write.
* shutdown drains its entries in any order, as Go iterates a map.
* The reader's own end is not modelled: a response may be handled during shutdown,
  as the code's reader may still be in `handleResponse`.

`RequestPromise` is the same half as a program sees it: no queue, writer, barrier,
phases or places of goroutines, but for each request what its frame can still become
("denied" once a NotStarted was reported, "started" once the transport may have seen
it), whether it holds its entry, what Dispatch returned, the observer, and its outcome
for the callers of Wait and Abandon. Its guards are the promises: only an unsent frame
of a request that holds its entry and is over for nobody is started; Dispatch returns
nil for an accepted frame, and an error for a request that gave back its entry or is
over; a result is there once, after the observer, if nobody has been told otherwise; a
cancellation follows its frame. `PromiseKept` is the refinement. `Frame` reads the
first off `phase`, `submitted`, `writeDone` and `claimed`, `Outcome` the last off
`resolved`, `abandoned` and `verdicts`; the other variables are the code's. The two
reports of findings 1 and 2 are left out of it: a zero result counts as a Wait that
ended without the result, and the NotStarted of Wait's Ready branch as no denial.

### NotificationOrder

The variables of the receiver and the worker are the fields `lastEnqueued`,
`queue`, `completedSeq`, `completed`; `worker` is the notification the worker
processes. `note[n]` is the place of notification n in `processNotification`,
`runner[n]` the goroutine that is there: the worker, or a Wait that took n from the
queue inside the handler of an earlier one. `frameLock[n]` is the holder of n's
`frame.mu`. For a request, `pc` is the place of its Wait, `context` the frame in its
context, `watermark` that of its response. `precedes` is a history.

| Code | Actions |
|---|---|
| `enqueueNotification` | `NotificationArrives` |
| `handleResponse` | `ResponseArrives` |
| `processNotifications` | `WorkerTakes` |
| `processNotification`, `waitResponseDelivery`, `markNotificationComplete` | `HandlerStarts`, `HandlerSkipped`, `HandlerReturns`, `FrameEnds`, `MarkComplete`, `Leave` |
| `waitNotificationsUpTo` | `WaitEnters`, `WaitEnds`, `WaitLosesConnection`, `WaitGivesUp` |
| `waitNotificationsReentrant` | `WaitLocks`, `WaitSkips`, `WaitTakes`, `WaitEnds`, `WaitLosesConnection`, `WaitGivesUp` |
| `completeResponse` after its wait, `finishResponseDelivery` | `WaitReturns` |
| a call of `sendRequest`, `Abandon`, `shutdown` | `Issue`, `Abandon`, `Close` |

Abstractions:

* One goroutine waits for each request, with a plain context or with that of the
  handler that issued it. Several Waits of a request, and how they settle it, are
  `PreparedRequest`'s.
* The chain walked by `waitResponseDelivery` is the set of deliveries unfinished
  when the notification arrived; walking it in order ends when all are finished.
  That the chain keeps them is `UndeliveredIsLinked` of `PreparedRequest`.
* Shutdown also finishes deliveries of unanswered requests. They are not linked, so
  no notification waits for them.
* Every notification is of size 1. One refused by `AcceptNotification` changes
  nothing.
* The receiver is one goroutine, so the parts of `enqueueNotification` and
  `handleResponse` are one step: nothing else links deliveries or hands out numbers.
* A handler does nothing but issue requests; with `HandlersLeave` it may return
  before they do, as a handler that started goroutines would.

### Initialization

Each inbound message runs on its own goroutine; each section of
`initialization.mu` is one action and handlers run between them, so that a check
made before `begin` can be stale at `begin`. `router` and `handlers` are chosen
in `Init` and never change: the `ProtocolRouter` with any of its two handlers, or
the v2 agent on its own. The router refuses other messages during and before a
handshake; the agent calls `route` for its effect and dispatches the message
anyway. Rewriting of parameters is left out; refusals for malformed parameters,
ids and kinds are folded into one free refusal. A message whose context carries
no inbound information counts as a request, as it does in `route`.

### InboundRequests and RequestContract

A frame is the sequence of its entries. The place of an entry (`pc`) is also that of
the goroutine that works on it: the reader for an entry it refused, a worker for one
it accepted, the goroutine that completed the last entry for the reply of an array.
`inflight` is the table of that name, `retired` the requests whose `finish()` has run;
`collected` is `batchReply.present`, `slots` the tokens in `batchCallbackSlots`,
`callback` where each registered callback is; `result` is `write.done`, or what
`sendEncoded` returned when the connection ended first; `written` is the wire.

| Code | Actions |
|---|---|
| `receive`, `dispatchFrame`, `dispatchBatch` | `ReadFrame`, `RefuseReturns`, `ReaderEnds` |
| `dispatchMessage`, `enqueueRequest` | `Accept`, `Refuse` |
| `handleCancelRequest` | `CancelArrives` |
| `processRequests`, `handleInbound` | `WorkerTakes`, `WorkerExits`, `HandlerReturns`, `Reply` |
| `AfterResponse`, `reserveBatchCallback` | `Register`, `Reserve` |
| `batchReply.complete`, the completion of a single request | `Reply`, `Finish`, `Retired`, `CallReturns`, `MayHandOver`, `Publish`, `Published` |
| `sendEncoded`, `processWrites` | `Enqueue`, `SendReturns`, `SendInterrupted`, `WriterTakes`, `WriteReturns`, `WriteFails`, `WriterEnds` |
| the callback worker, `start`, `Wait` | `CallbackStarts`, `CallbackReturns`, `CloseCallbacks`, `WaitDone` |
| `Close`, `shutdown` | `Close` |

Abstractions:

* An entry is a request, a cancellation, "malformed" (answered with an error whatever
  the connection does) or "stray" (a response of the wrong version, which is not
  counted in its array); notifications and responses are the other modules'. A reply
  is "ok" or "error".
* A handler returns when it likes, or waits for its context (`Patient`). It may leave
  a goroutine behind that registers a callback until `handleInbound` seals it.
* The locked part of `complete` and the sealing of the callback in `handleInbound` are
  one step: between them nothing else can touch the entry.
* A handler whose `AfterResponse` was refused a slot may call it again, as the code
  leaves the callback unset. In the model it does so only when a slot has become free,
  as the other attempts change nothing.
* Which workers are free is their number, as they are alike.
* The write queue holds replies only. That other writes take their places is nothing
  but more delay before `Enqueue`.

`RequestContract` says what a peer and a handler may rely on, in 71 lines: each group
of entries (an array or a single one) is answered at most once and as a whole; an id
is free again only after its answer or, when the connection fails, without one; a
callback starts once, after its group has been answered and every accepted request of
it retired (`complete` runs every `finish()` before it hands over the first callback).
An entry that is refused is answered with an error and has no id to free. `ContractHolds`
is the refinement: `stage` is read off `written`, `retired` and the entries refused,
`called` off `callback`.

### StdioProcess

`process` is each process as the kernel has it (running, killed, a zombie, gone);
`waiter` is the goroutine that runs `Cmd.Wait`, `watcher` that of `exec.Cmd` which
watches the start context; `tree` is the place in `unixProcessTree.terminate`, `force`
the Once of `forceStop`, `owner` the Onces of Close and Shutdown, `pc` the calls.

| Code | Actions |
|---|---|
| `Start`: `installTree`, the waiter, `cmd.Cancel` | `InstallTree`, `Cancelled`, `WatcherReturns`, `Released` |
| `Cmd.Wait` (external) | `DelayExpires`, `Reap`, `JoinWatcher`, `CopyEnds` |
| `terminate`, `release` | `Terminate`, `Poll`, `Recheck` |
| `forceStop` | `ForceStart`, `ForceEnds`, `Forced` |
| `Close`, `Shutdown`, `Wait` of both owners | `Call`, `EnterOnce`, `SecondReturns`, `GracefulEnds`, `DeadlinePasses`, `ShutdownJoins`, `WaitEnds`, `Return` |
| the connection of a `ClientProcess` | `ConnectionFails`, `ConnectionEnds` |
| the kernel (external) | `Forks`, `Exits`, `Dies`, `Vanishes`, `ContextEnds` |

Abstractions: the descendants stay in the process group; a descendant may be forked
by any running process; a SIGKILL reaches every running process of the group at once;
the one place where systems differ is a setting chosen in `Init`: whether a signal to
a group in which only zombies are left is denied (EPERM, as the comment in
`terminate` has it) or not. `Cmd.Wait` reaps, joins its watcher and then the copy of
stderr, in that order. That the connection ends once it is closed is
`ConnectionEnds` of `InboundRequests`.

### WireTypes, SchemaV1, SchemaV2 and Decoding

`types_gen.go` is 39 000 lines in two versions, but its decoders are made of two
dozen patterns, which `cmd/generate/internal/emit` writes out for each field. A
pattern is a rule of `WireTypes`: for each kind of value on the wire (absent, null,
of another type, good, and for lists empty, partly bad, all bad) what the decoder
leaves in the field, and which of its own values the encoder leaves out. `SchemaV1`
and `SchemaV2` (which extends `SchemaV2Content`) give the rule of every field of every struct, and for every union the
tag, the arms with the fields they require before the body is decoded, and the order
in which arms without a tag are tried. They are read off the generated code, not off
the schema the generator starts from. `Decoding` is the code around the fields:

| Code | Definitions |
|---|---|
| the decoder of a struct | `ReadFields`, `Accepts` |
| UnmarshalJSON of a union | `Candidates`, `Matches`, `FirstMatch`, `Selected`, `Join`, `Decode` |
| MarshalJSON | `WriteFields`, `WriteField`, `TagOf`, `WriteRaw`, `Overlay`, `Encode` |
| a union of plain values (an id, a code) | `Form`, `Plains`, `FirstForm`, `DecodePlain`, `EncodePlain` |
| State, Set, Clear and Unset of a patch | `IsPatch`, the action `Edit` |
| a message received, passed on and received again | `Receive`, `Edit`, `Send`, `Receive` |

A value is one of the kinds its field's decoder tells apart, never a text. A nested
message is checked as a type of its own; in the one around it it is good or bad, which
is all that one's decoder asks. `Init` takes every type, in every arm of every union,
known and unknown tags, with all fields or the required ones there, and any two
fields with any values.

Unions are nested three deep at most (an update of a session, of its state, idle for
some reason), so `Decode` and `Encode` name the three bodies in place of a recursion.

`SchemaAssumption` is what the generator sees to in any type it makes, and what the
proofs use of the schemas. Every field has one of the rules. The arms of a union are
told apart by name and tag, and what is kept as it came is its arm for what it does not
know. What the fields of an arm are rewritten to still has what the arm requires
(`KeepsArm`), and never has what an arm tried before requires (`StaysOut`): otherwise a
message would change its variant on the way. The fields of the struct around an unknown
variant are rewritten to what they were (`Verbatim`). Methods for patches are made for
plain structs only. A form of a union of plain values is written as something that it is
again the first to take. TLC evaluates all of it for every type of both versions when
`codecs` is run.

## Runs

| Run | Instance | Distinct states | Shows |
|---|---|---|---|
| `shared_request` | 1 gated request, 2 Waits × 2 calls, Abandon, Cancel, interrupted Dispatch, observer | 1.2 M (symmetry of the waiters) | all safety properties of one shared request, and the refinement of `RequestPromise` |
| `request_pair` | 3 gated requests, limit 2; one may be abandoned, nobody waits | 0.47 M (symmetry of the other two) | the chain and the slots with deliveries finished out of order, a refused Prepare, slots used again |
| `shutdown_live` | 1 gated request, 2 waiters, Abandon, interrupt | 0.12 M | every call returns, slots return, the writer ends |
| `notification_order` | 3 notifications, 3 requests: 2 gated, 2 from handlers; one may be cancelled, one abandoned | 0.98 M | order of handlers, of observers and hooks, the barrier, the reentrant queue |
| `notification_live` | 2 notifications, 4 requests: 2 gated of clients, 2 from handlers; the connection may end | 0.13 M | answered requests return, notifications are processed, everything ends once the connection is done |
| `notification_stall` | 2 notifications, 1 gated request, 1 of a handler | violated | finding 3 below |
| `initialization` | 4 messages, versions 0..3 | 22 K | the handshake properties |
| `inbound` | 3 scripts of a peer, 2 workers, one place in each queue and one slot | 0.35 M | ids, slots, callbacks, the contract, that requests are answered, the end of the goroutines |
| `stdio` | a child and a descendant; Close, Shutdown, and Shutdown and Wait of a `ClientProcess` | 0.21 M | nothing survives a stop, every stop returns |
| `codecs` | all types of both versions | 0.16 M | messages arrive as they were sent |
| `submission_proof` | 1 request, 1 waiter | violated | finding 2 below |
| `no_empty_result` | 1 request, 1 waiter | violated | finding 1 below |

The type invariants of `PreparedRequest`, `NotificationOrder`, `InboundRequests` and
`StdioProcess` are conjuncts of `IInv`, `InWireOrder`, `SlotsHeld` and `ForceNeedsTree`;
all of them are proved.

### What the properties say

* `NotStartedIsFinal`, `ObservedOnce`, `VerdictsAgree`, `FailedDispatchReleases`,
  `CancelFollowsRequest`, `PhaseNeverRegresses`, `SlotAccounting`,
  `UndeliveredIsLinked`: a request reported NotStarted is never written; one observer;
  Waits agree; what a request held is released, once; a cancellation follows its
  request; the phase moves forward; tokens and chain account for each other.
* `PromiseKept`: the refinement of `RequestPromise`. It relates what the others say one
  by one: nothing is sent of a request that Abandon took or a Wait has settled, no
  result follows either, and a failed Dispatch has let go of the entry.
* `CallsReturn`, `SlotsReturn`, `WriterEnds`: all of it ends once shutdown begins.
* `InWireOrder`, `NextIsQueued`, `BarrierHolds`, `ResponseComesAfter`,
  `AnsweredReturns`, `NotificationsComplete`, `AllReturn`: handlers and observers run
  in the order of the wire, and they do run; every notification that was taken from the
  queue when the connection ends is finished, whether its handler was still held back,
  running or had returned.
* `OneHandshake`, `ServedAfterSuccess`, `VersionPinned`, `RepeatComesFirst`.
* `InFlightTracked`: the in-flight table holds exactly the open requests, so that no
  late `finish()` removes a later request with the same id. `CancelReachesHandler`: a
  cancellation reaches the request it names, queued or running. `SlotsHeld`: a slot
  belongs to one callback. `CallbackNeverBlocks`: whoever hands callbacks over, perhaps
  the reader, finds room. `NoLateCallback`: nobody can send on the closed queue.
  `ContractHolds`: the refinement of `RequestContract`. `RequestsAnswered`: every
  accepted request is answered, that of an array too, whatever the other entries are.
  `ConnectionEnds`: every goroutine ends once the connection is done, and so does Wait.
* `StoppedIsGone`: when Close, Shutdown or Wait returns, no process of the tree runs
  and none will. `ShutdownIsFinal`: Shutdown has joined the waiter. `ForceNeedsTree`: a
  forced stop returns only with the tree terminated, also one asked for before the tree
  was installed. `StopsReturn`: a stop never waits for the reaping that waits for it.
  `ExitCleansUp`: descendants of a child that exited by itself are terminated.
* `SentArrives`: what is encoded is decoded as the same variant with the same fields.
  An empty list may come back unset only where its rule has omitempty
  (`OmittedWhenEmpty`), which the list of a patch never has: it would no longer clear.
  The values that do not arrive are named in `Unfaithful` (see Remarks).
  `RecoversToOmission`: what is forgiven is as if it were absent. `VariantIsKept`: a
  known tag decides, and what is unknown is passed on as it came.

### Bounds

`MaxWaits` bounds the Wait calls of one goroutine; two calls let a
goroutine give up and come back, which is all `ObservedOnce` and
`VerdictsAgree` need. Requests interact only through the limit, the queue, the
chain and shutdown, so two of them reach every interaction the code has by
pairs, and a third one meets the full limit and takes what another gives back;
`PruneDone` is exercised with both orders of finishing. Without a waiter a delivery
ends by a failed Dispatch, an Abandon or in shutdown, which is all that the chain and
the slots see of it; Waits that end one are in `shared_request`. A write queue of one makes
Dispatch and CancelRequest meet a full queue. Four messages give a handshake, its
repeat, a request and a rival. Three notifications nest twice (a handler, one inside
its wait, one inside that) and let one complete out of order; a queue of two and a
budget of three both reject. Two gated responses are the shortest chain. Gated
responses and handlers' requests are mixed in `notification_order`, and in
`notification_live`, whose properties leave out the stall of finding 3.

Each script of `inbound` is one situation in full: an array of two requests whose
callbacks compete for the only slot, beside a request that reuses one of its ids; two
requests with one id and the cancellation of it; an array in which a request that
waits for its cancellation, a response of the wrong version and an invalid entry are
collected together. One place in the request queue and the write queue, two workers.
The frames of a script arrive in any order. `stdio` needs one descendant that outlives
the child and one caller of each kind, of which two are of the same method (for the
Once) and two go through the connection. In `codecs` at most two fields are out of the
ordinary and one patch field is changed. A decoder's fields are independent of each
other but for the scope of an elicitation, which two fields decide, and the
requirements of an arm; `AnyMessagePassesOn` drops the bound.

Everything listed under "Proved" holds without these bounds. Deadlock is not
checked: a client that makes no further call is at rest, the program may stop after
shutdown, and a message ends where it has arrived.

### Fairness

Weak fairness of what a goroutine that can run does: the steps of a
Dispatch, a release, an Abandon in progress, of a Wait that depends on no context,
the completion of a claimed response, the writer's own steps, and the rest of a
begun shutdown. A `Write` is assumed to return only once the stream is closed
(shutdown closes it if it is an `io.Closer`). Observers, hooks and `Abort` are
assumed to return. In `PreparedRequest` nothing is assumed of the peer, of
notifications, of contexts or of the calls a client makes; hence liveness is stated
from the start of shutdown on. `NotificationOrder` asks what the ordering itself may
block, so it assumes that the peer answers every request while the connection is
open and that a handler returns once its own requests have (its worker is fair only
until the connection is done: its select may then end it). Without that premise a
silent peer stalls any handler that waits for it, which is no property of this code.

`InboundRequests` has weak fairness of all its goroutines together, of handlers (but
for those that wait for their context), callbacks and `Write`, and of the reader's end
once the streams are closed. Together suffices: a behaviour has finitely many such
steps, so each one that stays possible is taken. A peer that stops reading, a `Write`
that fails and the end of the connection are not excluded: `RequestsAnswered` then
asks nothing, and `ConnectionEnds` asks all the same. `StdioProcess` has weak fairness
of its goroutines and of what follows from a SIGKILL; a process that is not killed
need not exit, so a graceful stop is not assumed to succeed, nor a deadline to pass.

## Findings

1. `failDispatch` stores the phase DispatchFailed at `prepared_request.go:395` and
   the error only in `completeDispatch` (436), after `releasePending`. A Wait in
   between returns the zero value and a nil error (510-511).
2. Wait's Ready branch (488-498) acts on a phase read before it unlocked. If the
   request is dispatched and fails in the meantime, Wait reports NotStarted for a
   request the writer was invoked for, against the doc at 29-30.
3. The README of the SDK (330-332) lets a notification handler issue requests.
   Let the handler of notification 1 wait for request r2 while a client waits for
   the gated response of r1, which arrived after notification 1 and before
   notification 2; r2 is answered after notification 2. The handler's reentrant wait
   takes notification 2, which `processNotification` (`connection.go:664`) holds back
   for r1's delivery; r1's Wait waits for notification 1, so for the handler. The
   circle lasts until r1 is given up (cancelled and abandoned) or the connection
   ends; cancelling r2 does not free its handler, as line 664 waits with the
   connection's context. `AllReturn` in `notification_live`
   shows that shutdown ends it.

## Proved

Every safety property of the runs is a theorem, for every value of the constants that
the named ASSUMEs admit. `SchemaAssumption` is described above. The others say what the
Go program has by construction: requests are finitely many, a waiter waits for a request, limits are
positive as `NewConnectionWithOptions` makes them, an entry is in exactly one frame, and
the constants that stand for nobody (`None`), the notification worker (`Worker`) or the
start context's stop (`Stopper`) are no entries, requests or callers.

No property is inductive alone. Each proof module has one inductive invariant made of
named parts, a lemma per part or per kind of step, and the theorem that combines them;
the properties follow from it. Besides the runs, whose cfgs name the properties, the
invariants below were model-checked on the instances of the runs before they were
proved.

**`PreparedRequestProofs`**, for any finite set of requests, any waiters and any limits:

* `TypeCorrect`: `TypeOK` is invariant (needs: the chain holds gated requests only,
  so pruning keeps its type; `LargestExists` and `PruneType`).
* `Invariance`: `IInv`, by a lemma for each part besides `TypeOK`. `QueueInv`: a Dispatch has
  one write, queued or in the writer's hands or reported, never two. `DispatchInv` ties
  the phase to the place of Dispatch. `WaitInv` keeps what a Wait has read true.
  `ClaimInv` backs a reported NotStarted by a phase, or a refused write, that the
  writer cannot get past. `ResolveInv`: one Wait resolves. `VerdictInv` backs every
  returned result by state that does not change back. `EntryInv`: an entry with a
  claimed response is never completed with an error.
* `RetrySafety` (`NotStartedIsFinal`) from `ClaimInv`; `SingleObserver`
  (`ObservedOnce`) from `ResolveInv` and `VerdictInv`; `Agreement`
  (`VerdictsAgree`): "ok" means `resolved = "ok"`, which by `ResolveInv` and
  `DispatchInv` excludes the state behind any other verdict; `PhaseOrder`
  (`PhaseNeverRegresses`), an action property, from the same invariant.

**`PreparedRequestReleaseProofs`** adds `RInv` (`ReleaseInvariance`), on top of `IInv`:

* `BarrierInv`, of the chain: what is linked has a response; a delivery finished with
  its response still open has left `c.pending` unanswered, so that no response can link
  it again; tokens = length of the chain + requests that are prepared, not linked and
  not finished. `BarrierSteps` shows that five kinds of step take part in it, all others
  are `Calm`; `PruneFacts` is what popping finished deliveries off the newest end keeps,
  and the cardinalities come from `FiniteSetTheorems`. It gives `AnsweredIsLinked`
  (`UndeliveredIsLinked`) and `SlotsExact` (`SlotAccounting`).
* `ReleaseInv`: what the `sync.Once` of `releasePending` has done in each of its states,
  and that whoever reports a failed Dispatch is past it or was abandoned. It gives
  `FailureReleases` (`FailedDispatchReleases`). That the Once is entered late
  (`ReleasersAreLate`) also keeps the phase "ready" apart from a completed entry.
* `CancelInv`: a request that may be cancelled has been written, or was never dispatched
  and ended with the connection (a Wait in its Ready branch finished it); a cancellation
  in the queue or the writer's hands keeps that true. It gives `CancelComesAfter`
  (`CancelFollowsRequest`). Here lies what made the plain property hard: phase
  "finished" alone does not mean that anything was written.

**`RequestPromiseProofs`**, for any finite set of requests, any waiters and any limits:

* `SInvariance`: `SInv`. `AbandonedInv`: an Abandon that took effect is still visible in
  the phase, in an entry completed with an error or in a result other than "ok";
  `AbandonedStays`, `ErrorStays` and `ResultStored` say why each of the three lasts.
  `SubmittedInv`: a write that began is with the writer or reported.
* `KeepsPromise` (`PromiseKept`): each step is a step of `RequestPromise` or invisible to
  it. The invariants are what the abstract guards ask: `StartImplements` shows from
  `ClaimInv`, `AbandonedInv` and `VerdictInv` that a request the writer may begin was
  denied to nobody and is over for nobody, though the writer looks at the phase only;
  `AttemptSucceeds` that no caller has been told anything when the result is stored;
  `DispatchReports` from `ReleaseInv` and `CancelInv` what stands behind the value
  Dispatch returns; `InvokeImplements` that a cancellation has its frame before it.

**`NotificationOrderProofs`**, for any requests, notifications and budgets:

* `BarrierRespected` (`BarrierHolds`) from `BarrierCovers`: a gated response that
  preceded a notification is in the barrier of that notification or delivered.
  Deliveries are never taken back, so a handler that has passed its barrier stays
  behind all of them.
* `OrderInvariance`: `OrderInv`. `Numbered`: the queue holds, in order, what arrived
  after the last one taken. `Recorded`: the completed prefix and the set beyond it are
  exact. `Stacked`: the notifications in process form one call stack, the worker's at
  the bottom, and below its top there are only finished ones and handlers held up in a
  Wait. `Locked`: a reentrant Wait holds its frame's lock, has seen to everything
  between its handler and its loop variable, and looks for the next one only while its
  handler is the top of the stack. The two stack facts need each other: a Wait takes
  the head of the queue, which is the successor of the top only because it is the top.
* `WireOrder` (`InWireOrder`), `SequenceHolds` (`NextIsQueued`) and `ObservedInOrder`
  (`ResponseComesAfter`, an action property) follow.

**`InboundRequestsProofs`**, for any frames, ids, limits and scripts:

* `InboundInvariance`: `InboundInv`. `Placed`: where an entry may be, given what it is
  and what has become of it. `Gathered`: the collector has what its array has produced,
  and one entry, the last, carries the reply. `Staffed`: no more workers than allowed,
  a refused entry is the reader's own, the callback queue is closed behind the last
  goroutine that fills it. `Registered` and `Counted`: callbacks, slots and the callback
  queue, with the cardinalities of both. `Written`: one place for each reply, in the
  queue, with the writer or on the wire. `InFlightTracked` itself.
* `InFlight`, `Slots`, `NeverBlocks`, `LateCallbacks`, and the action property
  `CancelReaches`, from the invariant.
* `ImplementsContract` (`ContractHolds`): the initial states map to those of
  `RequestContract`, and each step to one of its steps or a stutter. A write that
  succeeds is the answer of all members of the array at once (`WriteImplements`), a
  `finish()` frees an id (`RetiredImplements`), a callback that starts is the call
  (`CallbackStartImplements`), the failure of the connection is its end
  (`EndImplements`); of any other step the mapped variables do not change. What the
  guards of the contract ask (answered before, all of the array retired before, not
  called before) is
  what the invariant says of the places these steps start from.

**`StdioProcessProofs`**, for any processes and any callers:

* `Invariance`: a tree that was terminated is gone, and stays so because only a running
  process forks (`GoneStaysGone`); a second caller waits for a first of the same
  method; how far each Shutdown has come.
* `StopLeavesNothing` (`StoppedIsGone`), `ShutdownJoinsAll` (`ShutdownIsFinal`) and
  `ForceWaitsForTree` (`ForceNeedsTree`).

**`InitializationProofs`** proves, for any set of messages and versions, an invariant
that relates `initializing` to the one handshake in progress and `otherRequest` to
the requests being handled, and from it `HandshakesExclude`,
`NothingServedEarly`, `Pinned` and `RepeatWindow`.

**`DecodingProofs`**, for any types that satisfy `SchemaAssumption`, of any number of
fields and arms:

* `StructArrives`: what the decoder and the methods of patches leave in a struct
  (`DecodedHolds`, `EditedHolds`) is accepted by the peer it is sent to, who has the
  same fields but for empty lists with omitempty. It follows field by field from
  `RuleFacts`, a fact of each rule: what a field holds is read back, and what the
  encoder leaves out is read as unset when absent. The rule `Listing`, of one field, is
  excluded, as the fact is false of it (see Remarks). `MalformedIsOmitted`: a struct
  accepted in spite of a field of another type is what it is without that field.
* Whole messages go along a `Route`, the arms chosen at each of the three levels.
  `DecodeGoes` and `GoesDecodes`: a message is decoded exactly when it has a route that
  takes it (`Goes`), into the fields of that route. `EncodePasses`: each of these fields
  is written as its rule writes it. `ChoiceKept`: what was written is taken by the same
  arm, and by none before it (`MatchKept`, `ScopesKept`, `StaysOutKept`,
  `FirstMatchIs`). Hence `RoundTrip`, with `RawRoundTrip` for unknown variants, which go
  on verbatim, and `PlainRoundTrip` for unions of plain values. `PassedOn` and
  `PatchedOn` sum them up, for a message as it was decoded and with one patch changed.
* `OmissionKeepsChoice`, `OmissionDecodes`: leaving out a malformed field that was
  forgiven changes neither the arm nor any other field.
* `SpecIInv`: `IInv` says of the wire that it is a message of a peer (`Clean`), malformed
  only where the decoders tell it (`Told`), or the encoding of one, and of the program's
  value that it is what was read from there, with one patch at the most; once a value
  has been sent, its decoding agrees with it. That agreement is what `SentArrives` says
  only of the state after the second `Receive`. TLC checked `IInv` on the instance of
  `codecs`. From it `SpecSentArrives`, `SpecRecoversToOmission` and `SpecVariantIsKept`.
* `AnyMessagePassesOn`: all three for behaviours that start with any message at all, in
  place of those of `Init`, in which two fields at the most are out of the ordinary.

Only model-checked:

* Liveness, everywhere: `CallsReturn`, `SlotsReturn`, `WriterEnds`, `AnsweredReturns`,
  `NotificationsComplete`, `AllReturn`, `RequestsAnswered`, `ConnectionEnds`,
  `StopsReturn`, `ExitCleansUp`. The prover has no rule for fairness.

## Remarks

What the models show of the code besides the findings, and what a property would not
say of it.

* Replacement lists. docs/schema-sdk-alignment-2026-10-29.md:64-65 says that the
  command, config and plan lists of version 2 skip invalid entries. The structs do
  (`Replacement`), but the unions around them (`SessionUpdate`, `PlanUpdateContent`,
  `ToolCallContent`) first decode the list strictly for the arm
  (`experimental/v2/types_gen.go:20793-20806`), so that one invalid entry refuses the
  whole update. The arms of `SchemaV2` have the strict check.
* `Unfaithful` in `Decoding` names the values that are not read back as they are:
  an elicitation of version 1 whose only scope is `requestId: null`, which is accepted
  but which its own Validate refuses; a `ListSessionsResponse` of version 2 whose
  sessions are no array, which is read as nil, written as null and refused; the
  number 3.0, written as 3 and read as an integer; and two kinds of empty lists that
  are left out although their absence says something else (`LosesEmptyList`). In
  version 1, the `content` and `locations` of a `tool_call_update` "replace" what they
  list (`types_gen.go:9969-9974`, 12547-12552) and cannot replace it by nothing. In
  version 2, the `background` of a state update: `experimental/v2/types_gen.go:10211-10213`
  says that "'[]' means no background work is running" while an omitted one is "not
  reporting", and that an agent that reports must send the list with every update; yet
  the field has `omitempty` (10217, and likewise in ten other types), so that `[]` is
  never written and the peer reads that nothing is reported. Of every other list
  with omitempty, `[]` and absence mean the same.
* A `RequestId` of version 1 takes any JSON object for its null form.
* Without a `WaitDelay` a descendant that keeps stderr open after the child has exited
  blocks `Cmd.Wait`, so that nothing terminates it until somebody calls Close or
  Shutdown: `ExitCleansUp` has `waitDelay` as its premise (CHANGELOG.md:209-212 speaks
  of "post-exit cleanup" without one).
* Where a group of zombies may not be signalled, a first SIGKILL that is denied makes
  Close return an error although every process is dead.

## Not modelled

* Outbound: ordinary notifications and replies in the write queue; `SendRequest` as a
  sequence of the calls above, `queueCancel` and the cancellation worker; wording of
  errors and the causes joined into them.
* Framing: the text of a frame and the spellings of numeric ids (`request_id.go`), a
  pure function over strings; ids are values that are equal or not.
* stdio: the Windows job object, a tree that cannot be attached, the duplication of
  file descriptors, and the Once of a second caller of `ClientProcess` itself.
* Types: Validate of structs, a document that is null or no object where an object is
  expected, fields a type does not have, constructor helpers. Of the generator: which
  rule it picks for a field of the schema; the rules are read off its output.
* The typed facades delegate to the connection and keep no state; the schema merge and
  drift tools are offline and sequential.

## Plan

1. `PreparedRequest`, `Initialization`, `NotificationOrder`, `InboundRequests` with
   `RequestContract`, `StdioProcess` and the codecs are modelled and checked.
2. Their safety properties are proved.
3. `RequestPromise` is stated and its refinement proved. Next, `SendRequest` on top of
   it, with `queueCancel` and the cancellation worker.
4. The composition of `NotificationOrder` with `PreparedRequest`, where
   `WaitNotified` stops being a free choice.
5. Canonical request ids as an operator on pairs of digits and exponents.

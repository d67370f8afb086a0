--------------------------- MODULE InboundRequests ---------------------------
(***************************************************************************)
(* Inbound requests of a Connection (connection.go, frame.go): the reader  *)
(* dispatches the entries of each frame, a pool of workers runs the        *)
(* handlers, the replies to an array are collected and sent as one array,  *)
(* ids stay in the in-flight table until their reply has been written, and *)
(* a callback registered with AfterResponse runs after that.               *)
(*                                                                         *)
(* A frame is the sequence of its entries, each a request, a cancellation, *)
(* or a message that is answered with an error without being handled.  The *)
(* place of an entry (pc) is also that of the goroutine that works on it:  *)
(* the reader for an entry it refused, a worker for one it accepted.       *)
(***************************************************************************)
EXTENDS Integers, FiniteSets, Sequences, Functions

CONSTANTS
    Entries, Ids,
    Frames,              \* what the peer may send: sequences of entries
    Scripts,             \* the sets of frames it sends, one of them in a behaviour
    Arrays,              \* those that are JSON arrays
    Kind,                \* what each entry is, one of Kinds
    Id,                  \* the id it carries or, for a cancellation, names
    MayRegister,         \* requests whose handler registers a callback
    MayFail,             \* requests whose handler may return an error
    Patient,             \* requests whose handler waits for the end of its context
    MaxHandlerConcurrency, MaxQueuedRequests, MaxPendingRequests, MaxQueuedWrites

\* "malformed" is an entry answered with an error whatever the connection does,
\* "stray" a response of the wrong version, which is not counted in its array.
Kinds == {"request", "cancel", "malformed", "stray"}

None == "none"

ASSUME FramesAssumption ==
    /\ None \notin Entries
    /\ Frames \subseteq Seq(Entries)
    /\ Arrays \subseteq Frames /\ Scripts \subseteq SUBSET Frames
    /\ \A e \in Entries : \E f \in Frames : e \in Range(f)
    /\ \A f, g \in Frames : f # g => Range(f) \cap Range(g) = {}
    /\ Kind \in [Entries -> Kinds] /\ Id \in [Entries -> Ids]
ASSUME LimitsAssumption ==
    {MaxHandlerConcurrency, MaxQueuedRequests, MaxPendingRequests, MaxQueuedWrites}
        \subseteq Nat \ {0}

VARIABLES
    closed,        \* Done() is closed, and so are the streams
    coming,        \* frames the reader has not read yet
    reading,       \* entries of the current frame that are not dispatched yet
    reader,        \* the reader: "reading" or "ended"
    pc,            \* where each entry is
    refused,       \* entries answered by the reader itself
    inflight,      \* for each id, the request it is in flight for
    retired,       \* requests whose finish() has run
    cancelled,     \* requests whose context the peer cancelled
    requestQueue,  \* requestQueue
    exited,        \* workers that have returned
    answer,        \* the outcome of each entry: "ok" or "error"
    collected,     \* entries whose reply is present in their batchReply
    callback,      \* the callback registered for each request
    slots,         \* batchCallbackSlots in use
    callbackQueue, \* batchCallbackQueue
    callbacksOpen, \* the queue is open: "open", "closed", or its worker has "ended"
    writeQueue,    \* entries whose reply waits in writeQueue
    writer,        \* the writer: "idle", "failing" or "ended"
    writing,       \* the entry whose reply it is writing
    result,        \* write.done, or what sendEncoded returned
    written        \* replies on the wire

tableVars    == <<inflight, retired, cancelled>>
poolVars     == <<requestQueue, exited>>
workVars     == <<pc, poolVars>>
replyVars    == <<answer, collected>>
queueVars    == <<callbackQueue, callbacksOpen>>
callbackVars == <<callback, slots, queueVars>>
frameVars    == <<coming, reader, refused>>
readerVars   == <<closed, reading, frameVars>>
writerVars   == <<writeQueue, writer, writing, written, result>>
serverVars   == <<readerVars, tableVars, replyVars>>
replyingVars == <<tableVars, replyVars, callbackVars, writerVars>>
vars == <<readerVars, workVars, tableVars, replyVars, callbackVars, writerVars>>

Pcs == {"none", "queued", "handling", "returned", "sending", "awaiting", "retiring",
        "publishing", "calling", "collected", "done"}

TypeOK ==
    /\ closed \in BOOLEAN
    /\ coming \subseteq Frames
    /\ reading \in Seq(Entries)
    /\ reader \in {"reading", "ended"}
    /\ pc \in [Entries -> Pcs]
    /\ refused \subseteq Entries
    /\ inflight \in [Ids -> Entries \cup {None}]
    /\ retired \subseteq Entries /\ cancelled \subseteq Entries
    /\ requestQueue \in Seq(Entries) /\ Len(requestQueue) <= MaxQueuedRequests
    /\ exited \in 0..MaxHandlerConcurrency
    /\ answer \in [Entries -> {"none", "ok", "error"}]
    /\ collected \subseteq Entries
    /\ callback \in [Entries -> {"none", "reserving", "denied", "held", "queued", "running",
                                 "ran", "dropped"}]
    /\ slots \in 0..MaxPendingRequests
    /\ callbackQueue \in Seq(Entries)
    /\ callbacksOpen \in {"open", "closed", "ended"}
    /\ writeQueue \in Seq(Entries) /\ Len(writeQueue) <= MaxQueuedWrites
    /\ writer \in {"idle", "failing", "ended"}
    /\ writing \in Entries \cup {None}
    /\ result \in [Entries -> {"none", "ok", "error"}]
    /\ written \in Seq(Entries)

Init ==
    /\ closed = FALSE
    /\ coming \in Scripts /\ reading = <<>> /\ reader = "reading" /\ refused = {}
    /\ pc = [e \in Entries |-> "none"]
    /\ inflight = [i \in Ids |-> None] /\ retired = {} /\ cancelled = {}
    /\ requestQueue = <<>> /\ exited = 0
    /\ answer = [e \in Entries |-> "none"] /\ collected = {}
    /\ callback = [e \in Entries |-> "none"] /\ slots = 0
    /\ callbackQueue = <<>> /\ callbacksOpen = "open"
    /\ writeQueue = <<>> /\ writer = "idle" /\ writing = None /\ written = <<>>
    /\ result = [e \in Entries |-> "none"]

-----------------------------------------------------------------------------
(* Faulty variants of the definitions below, each the slip a maintainer could *)
(* make there.  They are not part of the specification.                       *)

\* An off-by-one in batchReply.remaining.
FlushesEarly(e) ==
    \E f \in Frames : e \in Range(f) /\ Cardinality(Range(f) \ (collected \cup {e})) <= 1
\* batchReply.remaining tested before it is decremented.
FlushesLate(e) == \E f \in Frames : e \in Range(f) /\ Range(f) \subseteq collected
\* finish() without its Once.
FinishesAgain(e) == {m \in {e} : Kind[m] = "request" /\ m \notin refused}
\* The reply sent with the context of the request.
InterruptedByPeer(e) == closed \/ e \in cancelled
\* sendEncoded that does not watch for the end of the connection.
NeverInterrupted(e) == FALSE
\* A failed request of an array that keeps its slot.
KeepsSlot(e) == slots
\* The slot released when the callback leaves the handler's hands.
FreesSlotAtSeal(e) == IF callback[e] = "held" THEN slots - 1 ELSE slots
\* complete() with one loop, that hands each callback over behind its own finish().
HandsOverInTurn(e, m) == pc[e] = "publishing" \/ (pc[e] = "retiring" /\ m \in retired)
\* start() that does not wait for its workers.
JoinedEarly == reader = "ended" /\ writer = "ended"

-----------------------------------------------------------------------------
(* Operators *)

FrameOf == [e \in Entries |-> CHOOSE f \in Frames : e \in Range(f)]

\* needsReply: the entries dispatchBatch counts.
NeedsReply(e) == Kind[e] \in {"request", "malformed"}

\* The entries whose replies are collected with those of their array.
Batched == {e \in Entries : FrameOf[e] \in Arrays /\ NeedsReply(e)}
InBatch(e) == e \in Batched

\* The entries one reply message answers.
Members == [e \in Entries |-> IF e \in Batched THEN Range(FrameOf[e]) \cap Batched ELSE {e}]

\* batchReply.complete flushes when no reply remains.
Flushes(e) == Members[e] \subseteq collected \cup {e}

\* Requests a worker is busy with.
Busy == {e \in Entries \ refused :
            pc[e] \in {"handling", "returned", "sending", "awaiting", "retiring",
                       "publishing", "calling"}}

\* enqueueRequest: the id is taken, or the queue is full.
Duplicate(e) == inflight[Id[e]] # None
QueueFull    == Len(requestQueue) >= MaxQueuedRequests

\* finish(): removeInflight and cancel, once for each request.
Finishes(e) == {m \in Members[e] : Kind[m] = "request" /\ m \notin refused \cup retired}
\* The in-flight table without the id of a request.
Without(m) == [inflight EXCEPT ![Id[m]] = None]

\* The callbacks the flush of e's array still has to hand over or release.
Held(e) == {m \in Members[e] : callback[m] = "held"}

\* The reply of e reaches the collector of its array, or goes out alone.
NextPc(e) == IF InBatch(e) /\ ~Flushes(e) THEN "collected" ELSE "sending"
Collect(e) == collected' = IF InBatch(e) THEN collected \cup {e} ELSE collected

\* A failed request drops its callback, and its slot if it is in an array.
Drops(e) == callback[e] = "held" /\ answer[e] = "error"
SlotsAfterDrop(e) == IF Drops(e) /\ InBatch(e) THEN slots - 1 ELSE slots

\* sendEncoded is left when its context, that of the connection, is done.
Interrupts(e) == closed

\* The workers, the reader and the writer have returned (wg.Wait).
Joined == reader = "ended" /\ exited = MaxHandlerConcurrency /\ writer = "ended"

Move(e, from, to) == pc[e] = from /\ pc' = [pc EXCEPT ![e] = to]

-----------------------------------------------------------------------------
(* The reader *)

ReadFrame(f) ==
    /\ reader = "reading" /\ reading = <<>>
    /\ f \in coming
    /\ coming' = coming \ {f}
    /\ reading' = f
    /\ UNCHANGED <<replyingVars, workVars, closed, reader, refused>>

\* The entry the reader has to dispatch.
Dispatching(e) == reading # <<>> /\ e = Head(reading) /\ pc[e] = "none"

Accept(e) ==
    /\ Dispatching(e) /\ Kind[e] = "request"
    /\ ~Duplicate(e) /\ ~QueueFull
    /\ inflight' = [inflight EXCEPT ![Id[e]] = e]
    /\ requestQueue' = Append(requestQueue, e)
    /\ Move(e, "none", "queued")
    /\ reading' = Tail(reading)
    /\ UNCHANGED <<replyVars, callbackVars, frameVars, writerVars, closed, retired,
                   cancelled, exited>>

\* A duplicate id, a full queue, the end of the connection, or a message that is
\* no request: the reader writes the error itself.
Refuse(e) ==
    /\ Dispatching(e)
    /\ \/ Kind[e] = "request" /\ (Duplicate(e) \/ QueueFull \/ closed)
       \/ Kind[e] \in {"malformed", "stray"}
    /\ refused' = refused \cup {e}
    /\ answer' = [answer EXCEPT ![e] = "error"]
    /\ Collect(e)
    /\ Move(e, "none", NextPc(e))
    /\ UNCHANGED <<poolVars, tableVars, callbackVars, writerVars, closed, coming,
                   reading, reader>>

\* The reader goes on once the reply has been written or left to the collector.
RefuseReturns(e) ==
    /\ reading # <<>> /\ e = Head(reading) /\ e \in refused
    /\ pc[e] \in {"collected", "done"}
    /\ reading' = Tail(reading)
    /\ UNCHANGED <<replyingVars, workVars, frameVars, closed>>

\* handleCancelRequest
CancelArrives(e) ==
    /\ Dispatching(e) /\ Kind[e] = "cancel"
    /\ cancelled' = cancelled \cup ({inflight[Id[e]]} \ {None})
    /\ Move(e, "none", "done")
    /\ reading' = Tail(reading)
    /\ UNCHANGED <<poolVars, replyVars, callbackVars, frameVars, writerVars, closed,
                   inflight, retired>>

\* The end of the input, or of a closed stream.
ReaderEnds ==
    /\ reader = "reading" /\ reading = <<>>
    /\ reader' = "ended" /\ closed' = TRUE
    /\ UNCHANGED <<replyingVars, workVars, coming, reading, refused>>

Close ==
    /\ ~closed
    /\ closed' = TRUE
    /\ UNCHANGED <<replyingVars, workVars, frameVars, reading>>

-----------------------------------------------------------------------------
(* The workers and the handlers *)

WorkerTakes ==
    /\ requestQueue # <<>>
    /\ Cardinality(Busy) + exited < MaxHandlerConcurrency
    /\ Move(Head(requestQueue), "queued", "handling")
    /\ requestQueue' = Tail(requestQueue)
    /\ UNCHANGED <<serverVars, callbackVars, writerVars, exited>>

WorkerExits ==
    /\ closed
    /\ Cardinality(Busy) + exited < MaxHandlerConcurrency
    /\ exited' = exited + 1
    /\ UNCHANGED <<serverVars, callbackVars, writerVars, pc, requestQueue>>

HandlerReturns(e, outcome) ==
    /\ e \in Patient => closed \/ e \in cancelled
    /\ outcome = "error" => e \in MayFail
    /\ Move(e, "handling", "returned")
    /\ answer' = [answer EXCEPT ![e] = outcome]
    /\ UNCHANGED <<readerVars, poolVars, tableVars, callbackVars, writerVars, collected>>

\* AfterResponse, called by the handler or by a goroutine it has left behind.  In
\* an array a slot is reserved, after a look at Done.  Bound: who was denied a slot
\* calls it again only where one is free.
Register(e) ==
    /\ e \in MayRegister
    /\ pc[e] \in {"handling", "returned"}
    /\ callback[e] = "none" \/ (callback[e] = "denied" /\ slots < MaxPendingRequests)
    /\ InBatch(e) => ~closed
    /\ callback' = [callback EXCEPT ![e] = IF InBatch(e) THEN "reserving" ELSE "held"]
    /\ UNCHANGED <<serverVars, workVars, queueVars, writerVars, slots>>

\* reserveBatchCallback; without a slot no callback is registered, yet.
Reserve(e) ==
    /\ callback[e] = "reserving"
    /\ IF slots < MaxPendingRequests
       THEN slots' = slots + 1 /\ callback' = [callback EXCEPT ![e] = "held"]
       ELSE UNCHANGED slots /\ callback' = [callback EXCEPT ![e] = "denied"]
    /\ UNCHANGED <<serverVars, workVars, queueVars, writerVars>>

\* The end of handleInbound: no callback can be registered any more, and the
\* reply goes to the collector or to the write queue.
Reply(e) ==
    /\ callback[e] # "reserving"
    /\ Move(e, "returned", NextPc(e))
    /\ Collect(e)
    /\ callback' = IF Drops(e) THEN [callback EXCEPT ![e] = "dropped"] ELSE callback
    /\ slots' = SlotsAfterDrop(e)
    /\ UNCHANGED <<readerVars, poolVars, tableVars, queueVars, writerVars, answer>>

-----------------------------------------------------------------------------
(* sendEncoded, and what follows it *)

Enqueue(e) ==
    /\ Len(writeQueue) < MaxQueuedWrites
    /\ Move(e, "sending", "awaiting")
    /\ writeQueue' = Append(writeQueue, e)
    /\ UNCHANGED <<serverVars, poolVars, callbackVars, writer, writing, written, result>>

SendReturns(e) ==
    /\ result[e] # "none"
    /\ Move(e, "awaiting", "retiring")
    /\ UNCHANGED <<serverVars, poolVars, callbackVars, writerVars>>

\* The connection ends before the write is queued, or before its outcome is seen.
SendInterrupted(e) ==
    /\ Interrupts(e)
    /\ Move(e, pc[e], "retiring") /\ pc[e] \in {"sending", "awaiting"}
    /\ result' = [result EXCEPT ![e] = "error"]
    /\ UNCHANGED <<serverVars, poolVars, callbackVars, writeQueue, writer, writing,
                   written>>

\* finish() of one request the reply answered, whether it was written or not.
Finish(e, m) ==
    /\ pc[e] = "retiring"
    /\ m \in Finishes(e)
    /\ retired' = retired \cup {m}
    /\ inflight' = Without(m)
    /\ UNCHANGED <<readerVars, workVars, replyVars, callbackVars, writerVars, cancelled>>

\* With every request of the reply retired, a request alone runs its callback on
\* its worker and an array hands over its callbacks.
Retired(e) ==
    /\ Finishes(e) = {}
    /\ LET calls == ~InBatch(e) /\ result[e] = "ok" /\ callback[e] = "held"
       IN /\ Move(e, "retiring",
                  IF InBatch(e) THEN "publishing" ELSE IF calls THEN "calling" ELSE "done")
          /\ callback' = IF calls THEN [callback EXCEPT ![e] = "running"] ELSE callback
    /\ UNCHANGED <<serverVars, poolVars, queueVars, writerVars, slots>>

CallReturns(e) ==
    /\ Move(e, "calling", "done")
    /\ callback' = [callback EXCEPT ![e] = "ran"]
    /\ UNCHANGED <<serverVars, poolVars, queueVars, writerVars, slots>>

\* Every request of the array is retired before the first callback is handed over.
MayHandOver(e, m) == pc[e] = "publishing"

\* A callback of the array goes to the callback worker, or frees its slot.
Publish(e, m) ==
    /\ MayHandOver(e, m)
    /\ m \in Held(e)
    /\ IF result[e] = "ok"
       THEN /\ Len(callbackQueue) < MaxPendingRequests
            /\ callbackQueue' = Append(callbackQueue, m)
            /\ callback' = [callback EXCEPT ![m] = "queued"]
            /\ UNCHANGED slots
       ELSE /\ slots' = slots - 1
            /\ callback' = [callback EXCEPT ![m] = "dropped"]
            /\ UNCHANGED callbackQueue
    /\ UNCHANGED <<serverVars, workVars, writerVars, callbacksOpen>>

Published(e) ==
    /\ Held(e) = {}
    /\ Move(e, "publishing", "done")
    /\ UNCHANGED <<serverVars, poolVars, callbackVars, writerVars>>

-----------------------------------------------------------------------------
(* The callback worker, and the end of the connection's goroutines *)

CallbackStarts ==
    /\ callbackQueue # <<>>
    /\ \A e \in Entries : InBatch(e) => callback[e] # "running"
    /\ callback' = [callback EXCEPT ![Head(callbackQueue)] = "running"]
    /\ callbackQueue' = Tail(callbackQueue)
    /\ UNCHANGED <<serverVars, workVars, writerVars, slots, callbacksOpen>>

\* The slot is free only after the callback has returned.
CallbackReturns(e) ==
    /\ InBatch(e) /\ callback[e] = "running"
    /\ callback' = [callback EXCEPT ![e] = "ran"]
    /\ slots' = slots - 1
    /\ UNCHANGED <<serverVars, workVars, queueVars, writerVars>>

CloseCallbacks ==
    /\ Joined /\ callbacksOpen = "open"
    /\ callbacksOpen' = "closed"
    /\ UNCHANGED <<serverVars, workVars, writerVars, callback, slots, callbackQueue>>

\* waitDone is closed when the callback worker has drained its queue.
WaitDone ==
    /\ callbacksOpen = "closed" /\ callbackQueue = <<>>
    /\ \A e \in Entries : callback[e] # "running"
    /\ callbacksOpen' = "ended"
    /\ UNCHANGED <<serverVars, workVars, writerVars, callback, slots, callbackQueue>>

-----------------------------------------------------------------------------
(* processWrites *)

WriterTakes ==
    /\ writer = "idle" /\ writing = None
    /\ writeQueue # <<>>
    /\ writeQueue' = Tail(writeQueue)
    /\ LET e == Head(writeQueue)
       IN IF closed  \* the context of the reply has ended
          THEN /\ result' = [result EXCEPT ![e] = IF @ = "none" THEN "error" ELSE @]
               /\ UNCHANGED writing
          ELSE writing' = e /\ UNCHANGED result
    /\ UNCHANGED <<serverVars, workVars, callbackVars, writer, written>>

\* Write returns: the reply is on the wire.
WriteReturns ==
    /\ writing # None
    /\ written' = Append(written, writing)
    /\ result' = [result EXCEPT ![writing] = IF @ = "none" THEN "ok" ELSE @]
    /\ writing' = None
    /\ UNCHANGED <<serverVars, workVars, callbackVars, writeQueue, writer>>

WriteFails ==
    /\ writing # None
    /\ result' = [result EXCEPT ![writing] = IF @ = "none" THEN "error" ELSE @]
    /\ writing' = None
    /\ writer' = "failing"
    /\ UNCHANGED <<serverVars, workVars, callbackVars, writeQueue, written>>

\* shutdown after a failed write, or Done.
WriterEnds ==
    /\ \/ writer = "failing"
       \/ writer = "idle" /\ writing = None /\ closed
    /\ writer' = "ended" /\ closed' = TRUE
    /\ UNCHANGED <<workVars, tableVars, replyVars, callbackVars, frameVars, reading,
                   writeQueue, writing, written, result>>

-----------------------------------------------------------------------------
(* The specification *)

\* What the SDK's own goroutines do without waiting for anybody else.
Own ==
    \/ WorkerTakes \/ WorkerExits \/ CallbackStarts \/ CloseCallbacks \/ WaitDone
    \/ WriterTakes \/ WriterEnds
    \/ \E e \in Entries :
         \/ Accept(e) \/ Refuse(e) \/ RefuseReturns(e) \/ CancelArrives(e)
         \/ Reserve(e) \/ Reply(e) \/ Enqueue(e) \/ SendReturns(e) \/ SendInterrupted(e)
         \/ Retired(e) \/ Published(e)
         \/ \E m \in Members[e] : Finish(e, m) \/ Publish(e, m)

\* Handlers, callbacks and Write return.
Others ==
    \/ WriteReturns
    \/ \E e \in Entries :
         \/ \E outcome \in {"ok", "error"} : HandlerReturns(e, outcome)
         \/ CallReturns(e) \/ CallbackReturns(e)

Next ==
    \/ Own \/ Others \/ WriteFails \/ ReaderEnds \/ Close
    \/ \E f \in Frames : ReadFrame(f)
    \/ \E e \in Entries : Register(e)

Spec == Init /\ [][Next]_vars

\* The SDK's goroutines go on, the peer reads what is written, callbacks return, and
\* handlers do unless they wait for their context.  A closed stream ends the reader.
\* Before that the peer may stop at any time, as any behaviour may be closed.
FairSpec == Spec /\ WF_vars(Own \/ Others \/ (closed /\ ReaderEnds))

-----------------------------------------------------------------------------
(* Properties *)

Open(e) == Kind[e] = "request" /\ pc[e] # "none" /\ e \notin refused \cup retired

\* The in-flight table holds exactly the accepted requests that are not retired:
\* no finish() removes the entry of a later request with the same id, and no two
\* open requests share an id (enqueueRequest, removeInflight, the Once).
InFlightTracked ==
    \A i \in Ids : \A e \in Entries : inflight[i] = e <=> Open(e) /\ Id[e] = i

\* A peer's cancellation reaches the context of the request it names for as long
\* as the handler runs, and while the request is still queued
\* (handleCancelRequest, README: $/cancel_request cancels the request context).
CancelReachesHandler ==
    [][\A c, e \in Entries :
        /\ Kind[c] = "cancel" /\ pc[c] # pc'[c]
        /\ Id[e] = Id[c] /\ Kind[e] = "request" /\ pc[e] \in {"queued", "handling"}
        => e \in cancelled']_vars

\* Every slot in use belongs to one callback that is registered, queued or
\* running: none is released twice, leaked by a failed request, or taken without
\* a callback (reserveBatchCallback, handleInbound, complete, start).  (With the
\* type invariant.)
SlotsHeld ==
    /\ TypeOK
    /\ slots = Cardinality({e \in Entries :
                               InBatch(e) /\ callback[e] \in {"held", "queued", "running"}})

\* A goroutine that hands callbacks over finds room for all of them, so that it
\* may be the reader (complete: "this cannot block the reader").
CallbackNeverBlocks ==
    \A e \in Entries : pc[e] = "publishing" /\ result[e] = "ok" =>
        Len(callbackQueue) + Cardinality(Held(e)) <= MaxPendingRequests

\* No goroutine is left that could send a callback when the queue is closed, and
\* none runs when Wait returns (start).
NoLateCallback ==
    /\ callbacksOpen # "open" => (\A e \in Entries : pc[e] # "publishing")
    /\ callbacksOpen = "ended" => \A e \in Entries : callback[e] \notin {"queued", "running"}

AnsweredOnes == UNION {Members[w] : w \in Range(written)}
Answered(e) == e \in AnsweredOnes

\* What the peer may rely on: RequestContract.
Stage ==
    LET answered == AnsweredOnes
    IN [e \in Entries |-> IF e \in answered
                          THEN IF e \in retired \cup refused THEN "retired" ELSE "answered"
                          ELSE IF e \in retired THEN "lost"
                          ELSE IF pc[e] = "none" THEN "unseen"
                          ELSE IF e \in refused THEN "refused" ELSE "open"]
Called == {e \in Entries : callback[e] \in {"running", "ran"}}
Contract == INSTANCE RequestContract WITH
                stage <- Stage, called <- Called, over <- closed \/ writer = "failing",
                Groups <- {Members[e] : e \in {x \in Entries : Kind[x] # "cancel"}}
\* Replies and callbacks keep the contract: each request is answered at most once
\* and an array only as a whole, requests are retired after the answer, and a callback
\* runs when every accepted request of its array is retired (dispatchBatch, complete,
\* handleInbound).
ContractHolds == Contract!Spec

\* Every accepted request, alone or in an array, is answered in the end, also one
\* whose handler waits for a cancellation once the peer has sent it.
Due(e) == Open(e) /\ (Members[e] \cap Patient) \subseteq cancelled
RequestsAnswered ==
    <>[](closed \/ writer = "failing" \/ {e \in Entries : Due(e)} \subseteq AnsweredOnes)

\* Once the connection is done every goroutine returns and Wait with them, whatever
\* they were doing before (shutdown, start).
ConnectionEnds == closed ~> (callbacksOpen = "ended")
=============================================================================

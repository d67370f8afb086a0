--------------------------- MODULE PreparedRequest ---------------------------
(***************************************************************************)
(* The outbound half of a Connection: prepared requests, the writer        *)
(* goroutine, response correlation, the response delivery barrier and      *)
(* shutdown (prepared_request.go and the outbound part of connection.go).  *)
(*                                                                         *)
(* One action is one critical section (r.mu, c.mu or c.deliveryMu) or one  *)
(* channel operation, with what the goroutine does to its own locals up to *)
(* the next one.  Two critical sections are merged where no other          *)
(* goroutine can tell the difference; the comment on the action says so.   *)
(*                                                                         *)
(* Several callers use one request at once: one Dispatch, any number of    *)
(* Waits (one goroutine per member of Waiters), Abandon and CancelRequest. *)
(* Payloads and results are abstract: a response either settles its        *)
(* request "ok" or "error" (RPC error, decode error, failing observer or   *)
(* hook).  Whether the notifications a response must follow are processed  *)
(* is a free choice here: they are not part of this module.                *)
(***************************************************************************)
EXTENDS Integers, Sequences, FiniteSets, SequencesExt

CONSTANTS
    Requests,            \* the requests a client program may prepare
    Gated,               \* those whose response holds back later notifications
    Waiters,             \* goroutines that call Wait
    WaitsOn,             \* the request each of them waits for
    MaxPendingRequests,  \* ConnectionOptions.MaxPendingRequests
    MaxQueuedWrites,     \* capacity of writeQueue
    MaxWaits,            \* bound of the model: Wait calls one goroutine makes
    MayAbandon,          \* requests the client may Abandon,
    MayCancel,           \* may CancelRequest,
    MayInterrupt,        \* or Dispatch with a context that can be cancelled,
    MayObserve           \* and those ObserveResponse may be called for

ASSUME RequestsAssumption == IsFiniteSet(Requests)
ASSUME WaitersAssumption  == WaitsOn \in [Waiters -> Requests]
ASSUME GatedAssumption    == Gated \subseteq Requests
ASSUME LimitsAssumption   == /\ MaxPendingRequests \in Nat \ {0}
                             /\ MaxQueuedWrites \in Nat \ {0}
                             /\ MaxWaits \in Nat

VARIABLES
    closing,      \* shutdown: "open", "draining" (context cancelled) or "closed"
    drain,        \* pending responses shutdown has still to complete
    pending,      \* keys of c.pending
    responded,    \* pendingResponse.responded
    done,         \* pendingResponse: "open", or completed with "response" or "error"
    reading,      \* the response handleResponse is working on (at most one)
    slots,        \* tokens in c.responseDeliverySlots
    chain,        \* linked deliveries, c.lastResponseDelivery is the last one
    delivered,    \* deliveries whose done channel is closed
    writeQueue,   \* c.writeQueue
    writer,       \* program counter of processWrites
    writing,      \* the item it holds
    writeDone,    \* write.done of each Dispatch: "none", "ok" or "fail"
    phase,        \* PreparedRequest.phase ("none" before PrepareRequest)
    submitted,    \* submission = Possible (and pendingResponse.admitted)
    observer,     \* requests with an observer
    dispatchErr,  \* "none" until dispatchDone is closed, then "nil" or "error"
    abandoned,    \* requests whose abandoned channel is closed
    resolving,    \* PreparedRequest.resolving
    resolved,     \* "no", or the stored result "ok", "error" or "abandoned"
    release,      \* the pendingRelease Once: "no", "await" or "done"
    dispatchPc,   \* program counter of Dispatch, one per request
    waitPc,       \* program counter of Wait, one per waiter
    waits,        \* Wait calls made
    abandonPc,    \* program counter of Abandon
    cancelPc,     \* where the CancelRequest that runs cancelOnce is
    interrupted,  \* requests whose Dispatch context is cancelled
    invoked,      \* history: the transport writer was invoked
    cancelSent,   \* history: $/cancel_request written on an open connection
    claimed,      \* history: some call reported NotStarted
    claimedReady, \* history: Wait reported NotStarted from its Ready branch
    verdicts,     \* history: final results Wait returned
    observed      \* history: how often the observer ran

connVars     == <<closing, drain>>
pendingVars  == <<pending, responded, done, reading>>
barrierVars  == <<slots, chain, delivered>>
writerVars   == <<writeQueue, writer, writing, writeDone, invoked, cancelSent>>
attemptVars  == <<resolving, resolved>>
callVars     == <<dispatchPc, waitPc, waits, abandonPc, cancelPc, interrupted>>
claimVars    == <<claimed, claimedReady>>
resultVars   == <<verdicts, observed>>
vars == <<connVars, pendingVars, barrierVars, writerVars, phase, submitted, observer,
          dispatchErr, abandoned, attemptVars, release, callVars, claimVars, resultVars>>

Items  == [kind : {"request", "cancel"}, req : Requests]
NoItem == [kind |-> "none"]

ShutdownStates == {"open", "draining", "closed"}
DoneStates == {"open", "response", "error"}
WriterPcs == {"top", "select", "begun", "writing", "broken", "exited"}
WriteResults == {"none", "ok", "fail"}
Phases == {"none", "ready", "dispatching", "dispatched", "dispatchFailed",
           "abandoned", "finished"}
DispatchErrs == {"none", "nil", "error"}
ReleaseStates == {"no", "await", "done"}
DispatchPcs == {"idle", "enqueue", "await", "fail", "release", "finish", "returned"}
WaitPcs == {"idle", "ready", "dispatching", "response", "awaitDone", "resolve",
            "complete", "observe", "release"}
AbandonPcs == {"idle", "detach", "release"}
CancelPcs == {"idle", "send", "sent"}
Results == {"no", "ok", "error", "abandoned"}

TypeOK ==
    /\ closing \in ShutdownStates
    /\ drain \subseteq Requests
    /\ pending \subseteq Requests
    /\ responded \subseteq Requests
    /\ done \in [Requests -> DoneStates]
    /\ reading \subseteq Requests
    /\ slots \in Int
    /\ chain \in Seq(Gated)
    /\ delivered \subseteq Gated
    /\ writeQueue \in Seq(Items)
    /\ writer \in WriterPcs
    /\ writing \in Items \cup {NoItem}
    /\ writer \in {"begun", "writing"} => writing \in Items
    /\ writeDone \in [Requests -> WriteResults]
    /\ phase \in [Requests -> Phases]
    /\ submitted \subseteq Requests
    /\ observer \subseteq Requests
    /\ dispatchErr \in [Requests -> DispatchErrs]
    /\ abandoned \subseteq Requests
    /\ resolving \subseteq Requests
    /\ resolved \in [Requests -> Results]
    /\ release \in [Requests -> ReleaseStates]
    /\ dispatchPc \in [Requests -> DispatchPcs]
    /\ waitPc \in [Waiters -> WaitPcs]
    /\ waits \in [Waiters -> Nat]
    /\ abandonPc \in [Requests -> AbandonPcs]
    /\ cancelPc \in [Requests -> CancelPcs]
    /\ interrupted \subseteq Requests
    /\ invoked \subseteq Requests
    /\ cancelSent \subseteq Requests
    /\ claimed \subseteq Requests
    /\ claimedReady \subseteq Requests
    /\ verdicts \in [Requests -> SUBSET (Results \cup {"empty"})]
    /\ observed \in [Requests -> Nat]

Init ==
    /\ closing = "open"
    /\ drain = {} /\ pending = {} /\ responded = {} /\ reading = {}
    /\ done = [r \in Requests |-> "open"]
    /\ slots = 0 /\ chain = <<>> /\ delivered = {}
    /\ writeQueue = <<>> /\ writer = "top" /\ writing = NoItem
    /\ writeDone = [r \in Requests |-> "none"]
    /\ phase = [r \in Requests |-> "none"]
    /\ submitted = {} /\ observer = {} /\ abandoned = {} /\ resolving = {}
    /\ dispatchErr = [r \in Requests |-> "none"]
    /\ resolved = [r \in Requests |-> "no"]
    /\ release = [r \in Requests |-> "no"]
    /\ dispatchPc = [r \in Requests |-> "idle"]
    /\ waitPc = [w \in Waiters |-> "idle"]
    /\ waits = [w \in Waiters |-> 0]
    /\ abandonPc = [r \in Requests |-> "idle"]
    /\ cancelPc = [r \in Requests |-> "idle"]
    /\ interrupted = {} /\ invoked = {} /\ cancelSent = {}
    /\ claimed = {} /\ claimedReady = {}
    /\ verdicts = [r \in Requests |-> {}]
    /\ observed = [r \in Requests |-> 0]

-----------------------------------------------------------------------------
(* What the steps of each kind of goroutine leave alone. *)

\* Dispatch, and CancelRequest
DispatchFrame ==
    UNCHANGED <<connVars, pendingVars, barrierVars, writer, writing, writeDone,
                invoked, cancelSent, submitted, observer, abandoned, attemptVars,
                release, waitPc, waits, abandonPc, cancelPc, interrupted,
                resultVars>>

\* the writer goroutine
WriterFrame ==
    UNCHANGED <<connVars, pendingVars, barrierVars, invoked, cancelSent, phase,
                observer, dispatchErr, abandoned, attemptVars, release, callVars,
                claimVars, resultVars>>

\* the receiver and shutdown
ConnFrame ==
    UNCHANGED <<writerVars, phase, submitted, observer, dispatchErr, abandoned,
                attemptVars, release, callVars, claimVars, resultVars>>

\* Wait
WaitFrame ==
    UNCHANGED <<connVars, pendingVars, barrierVars, writerVars, submitted, observer,
                dispatchErr, abandoned, release, dispatchPc, waits, abandonPc,
                cancelPc, interrupted>>

\* Abandon
AbandonFrame ==
    UNCHANGED <<connVars, responded, done, reading, barrierVars, writerVars,
                submitted, observer, dispatchErr, attemptVars, release, dispatchPc,
                waitPc, waits, cancelPc, interrupted, resultVars>>

-----------------------------------------------------------------------------
(* Faulty variants of the definitions below, each the slip a maintainer could *)
(* make there.  They are not part of the specification.                       *)

\* beginWrite that forgets to look at the phase.
MayBeginAnyPhase(r) == r \notin interrupted /\ closing = "open" /\ r \in pending
\* pruneResponseDeliveriesLocked that pops an unfinished delivery as well.
PruneBlindly(ch, fin) == IF ch = <<>> THEN ch ELSE Front(ch)
\* discardResponseDelivery outside the delivery's Once.
DiscardTwice(r) == r \in Gated
\* resolveResponse without the resolving flag.
FreeToResolve(r) == resolved[r] = "no"
\* completeDispatch that overwrites an Abandon.
PhaseOverwritten(r, p) == p
\* resolveResponse that ignores an Abandon during the observer.
KeepResult(r, v) == v
\* a releasePending whose Once does not wait for the running release.
OnceEntered(r) == release[r] # "no"
\* resolveResponse that stores the phase where the result belongs.
StoredPhase(r, v) == phase[r]
\* shutdown that leaves responded requests to their waiters.
DrainUnanswered(set) == set \ responded
\* shutdown that completes the answered requests only.
DrainAnswered(set) == set \cap responded
\* shutdown that waits for the write in flight before it closes the streams.
StreamsCloseAfterWrite == drain = {} /\ writer \notin {"writing", "broken"}
\* CancelRequest while Dispatch is still running.
CancellableEarly(r) == phase[r] \in {"dispatching", "dispatched", "finished"}

-----------------------------------------------------------------------------
(* Operators *)

\* submissionStateLocked
SubmissionState(r) ==
    IF r \in submitted THEN "possible"
    ELSE IF phase[r] \in {"ready", "dispatching"} THEN "pending" ELSE "notStarted"

\* A call returns a RequestLifecycleError carrying the current submission state.
Claim(r) ==
    /\ claimed' = IF SubmissionState(r) = "notStarted" THEN claimed \cup {r} ELSE claimed
    /\ UNCHANGED claimedReady

\* A call returns NotStarted because it read submission = NotStarted itself.
ClaimUnsubmitted(r) ==
    /\ claimed' = IF r \in submitted THEN claimed ELSE claimed \cup {r}
    /\ UNCHANGED claimedReady

\* pruneResponseDeliveriesLocked: finished deliveries are popped off the newest
\* end, up to the newest unfinished one.
PruneDone(ch, fin) == SubSeq(ch, 1, Max({0} \cup {i \in 1..Len(ch) : ch[i] \notin fin}))

\* finishResponseDelivery closes the delivery and prunes.  Closing and pruning
\* are one step: whoever looks at the chain in between prunes it first.
Finish(r) ==
    IF r \in Gated
    THEN /\ delivered' = delivered \cup {r}
         /\ chain' = PruneDone(chain, delivered')
         /\ slots' = slots - (Len(chain) - Len(chain'))
    ELSE UNCHANGED barrierVars

\* The delivery's Once lets the discarding call through.
Discards(r) == r \in Gated \ delivered

\* discardResponseDelivery of an unlinked delivery.
Discard(r) ==
    IF Discards(r)
    THEN slots' = slots - 1 /\ delivered' = delivered \cup {r} /\ UNCHANGED chain
    ELSE UNCHANGED barrierVars

\* The phase completeDispatch leaves behind: an Abandon is never overwritten.
PhaseAfterDispatch(r, p) == IF phase[r] = "abandoned" THEN "abandoned" ELSE p

\* completeDispatch runs once per Dispatch: Dispatch is entered once.
CompleteDispatch(r, err, p) ==
    /\ phase' = [phase EXCEPT ![r] = PhaseAfterDispatch(r, p)]
    /\ dispatchErr' = [dispatchErr EXCEPT ![r] = err]
    /\ dispatchPc' = [dispatchPc EXCEPT ![r] = "returned"]

\* The result resolveResponse stores: an Abandon during the observer wins.
SettledResult(r, v) == IF phase[r] = "abandoned" THEN "abandoned" ELSE v

\* releasePending returns to its caller.
Released(r) == release[r] = "done"

-----------------------------------------------------------------------------
(* Preparing and dispatching *)

\* addPending: refused when closing, at the pending limit or without a slot
\* (the refused caller gets no request, so nothing is recorded).
Prepare(r) ==
    /\ phase[r] = "none"
    /\ closing = "open"
    /\ Cardinality(pending) < MaxPendingRequests
    /\ LET left == PruneDone(chain, delivered)
           held == slots - (Len(chain) - Len(left))
       IN IF r \in Gated
          THEN held < MaxPendingRequests /\ slots' = held + 1 /\ chain' = left
          ELSE UNCHANGED <<slots, chain>>
    /\ pending' = pending \cup {r}
    /\ phase' = [phase EXCEPT ![r] = "ready"]
    /\ UNCHANGED <<connVars, responded, done, reading, delivered, writerVars, submitted,
                   observer, dispatchErr, abandoned, attemptVars, release, callVars,
                   claimVars, resultVars>>

ObserveResponse(r) ==
    /\ r \in MayObserve \ observer
    /\ phase[r] = "ready"
    /\ observer' = observer \cup {r}
    /\ UNCHANGED <<connVars, pendingVars, barrierVars, writerVars, phase, submitted,
                   dispatchErr, abandoned, attemptVars, release, callVars, claimVars,
                   resultVars>>

DispatchStart(r) ==
    /\ phase[r] = "ready"
    /\ phase' = [phase EXCEPT ![r] = "dispatching"]
    /\ dispatchPc' = [dispatchPc EXCEPT ![r] = "enqueue"]
    /\ UNCHANGED <<writeQueue, dispatchErr, claimVars>> /\ DispatchFrame

\* Dispatch of a request that is no longer ready returns an error with the state.
DispatchRefused(r) ==
    /\ phase[r] \notin {"none", "ready"}
    /\ Claim(r)
    /\ UNCHANGED <<writeQueue, phase, dispatchErr, dispatchPc>> /\ DispatchFrame

DispatchEnqueue(r) ==
    /\ dispatchPc[r] = "enqueue"
    /\ Len(writeQueue) < MaxQueuedWrites
    /\ writeQueue' = Append(writeQueue, [kind |-> "request", req |-> r])
    /\ dispatchPc' = [dispatchPc EXCEPT ![r] = "await"]
    /\ UNCHANGED <<phase, dispatchErr, claimVars>> /\ DispatchFrame

\* ctx.Done() or conn.Done() fires, and no write result is ready when it does.
DispatchInterrupted(r) ==
    /\ dispatchPc[r] \in {"enqueue", "await"}
    /\ r \in interrupted \/ closing # "open"
    /\ dispatchPc[r] = "await" => writeDone[r] = "none"
    /\ dispatchPc' = [dispatchPc EXCEPT ![r] = "fail"]
    /\ UNCHANGED <<writeQueue, phase, dispatchErr, claimVars>> /\ DispatchFrame

\* The abandoned channel fires: completeAbandonedDispatch.
DispatchSeesAbandon(r) ==
    /\ dispatchPc[r] \in {"enqueue", "await"}
    /\ r \in abandoned
    /\ Claim(r)
    /\ CompleteDispatch(r, "error", "abandoned")
    /\ UNCHANGED writeQueue /\ DispatchFrame

\* completeWrite: an abandoned dispatch completes as such, a failed write goes on
\* to opts.Abort (if possibly submitted) and releasePending, a full write succeeds.
CompleteWrite(r) ==
    /\ dispatchPc[r] = "await"
    /\ writeDone[r] # "none"
    /\ \/ /\ phase[r] = "abandoned"
          /\ ClaimUnsubmitted(r)
          /\ CompleteDispatch(r, "error", "abandoned")
       \/ /\ phase[r] # "abandoned" /\ writeDone[r] = "fail"
          /\ ClaimUnsubmitted(r)
          /\ dispatchPc' = [dispatchPc EXCEPT ![r] = "release"]
          /\ UNCHANGED <<phase, dispatchErr>>
       \/ /\ phase[r] # "abandoned" /\ writeDone[r] = "ok"
          /\ dispatchPc' = [dispatchPc EXCEPT ![r] = "finish"]
          /\ UNCHANGED <<phase, dispatchErr, claimVars>>
    /\ UNCHANGED writeQueue /\ DispatchFrame

DispatchFinish(r) ==
    /\ dispatchPc[r] = "finish"
    /\ CompleteDispatch(r, "nil", "dispatched")
    /\ UNCHANGED <<writeQueue, claimVars>> /\ DispatchFrame

\* failDispatch: a write that has not begun is revoked by leaving "dispatching".
\* dispatchErr is set only after releasePending, in completeDispatch.
FailDispatch(r) ==
    /\ dispatchPc[r] = "fail"
    /\ \/ /\ phase[r] = "abandoned"
          /\ Claim(r)
          /\ CompleteDispatch(r, "error", "abandoned")
       \/ /\ phase[r] # "abandoned" /\ r \notin submitted
          /\ ClaimUnsubmitted(r)
          /\ phase' = [phase EXCEPT ![r] = "dispatchFailed"]
          /\ dispatchPc' = [dispatchPc EXCEPT ![r] = "release"]
          /\ UNCHANGED dispatchErr
       \/ /\ phase[r] # "abandoned" /\ r \in submitted
          /\ dispatchPc' = [dispatchPc EXCEPT ![r] = "release"]
          /\ UNCHANGED <<phase, dispatchErr, claimVars>>
    /\ UNCHANGED writeQueue /\ DispatchFrame

DispatchReleased(r) ==
    /\ dispatchPc[r] = "release"
    /\ Released(r)
    /\ CompleteDispatch(r, "error", "dispatchFailed")
    /\ UNCHANGED <<writeQueue, claimVars>> /\ DispatchFrame

\* The Dispatch context is cancelled.
Interrupt(r) ==
    /\ r \in MayInterrupt \ interrupted
    /\ dispatchPc[r] \in {"enqueue", "await"}
    /\ interrupted' = interrupted \cup {r}
    /\ UNCHANGED <<connVars, pendingVars, barrierVars, writerVars, phase, submitted,
                   observer, dispatchErr, abandoned, attemptVars, release, dispatchPc,
                   waitPc, waits, abandonPc, cancelPc, claimVars, resultVars>>

CancelFrame ==
    UNCHANGED <<connVars, pendingVars, barrierVars, writer, writing, writeDone, invoked,
                cancelSent, phase, submitted, observer, dispatchErr, abandoned,
                attemptVars, release, dispatchPc, waitPc, waits, abandonPc, interrupted,
                claimVars, resultVars>>

\* CancelRequest: the phase is read under r.mu, which is let go of
Cancellable(r) == phase[r] \in {"dispatched", "finished"}

CancelTest(r) ==
    /\ r \in MayCancel
    /\ cancelPc[r] = "idle" /\ Cancellable(r)
    /\ cancelPc' = [cancelPc EXCEPT ![r] = "send"]
    /\ UNCHANGED writeQueue /\ CancelFrame

\* before cancelOnce and SendNotification, which enqueues the cancellation or gives
\* up (its context or the connection is done).
CancelSend(r) ==
    /\ cancelPc[r] = "send"
    /\ cancelPc' = [cancelPc EXCEPT ![r] = "sent"]
    /\ \/ /\ Len(writeQueue) < MaxQueuedWrites
          /\ writeQueue' = Append(writeQueue, [kind |-> "cancel", req |-> r])
       \/ UNCHANGED writeQueue
    /\ CancelFrame

CancelRequest(r) == CancelTest(r) \/ CancelSend(r)

-----------------------------------------------------------------------------
(* The writer goroutine, processWrites *)

WriterTop ==
    /\ writer = "top"
    /\ writer' = IF closing = "open" THEN "select" ELSE "exited"
    /\ UNCHANGED <<writeQueue, writing, writeDone, submitted>> /\ WriterFrame

WriterStops ==
    /\ writer = "select"
    /\ closing # "open"
    /\ writer' = "exited"
    /\ UNCHANGED <<writeQueue, writing, writeDone, submitted>> /\ WriterFrame

\* beginWrite: phase, context, then admitPending, all under r.mu.
MayBegin(r) ==
    /\ phase[r] = "dispatching"
    /\ r \notin interrupted
    /\ closing = "open"
    /\ r \in pending

\* The writer takes a request: beginWrite admits it or the Dispatch is refused.
WriterTakesRequest ==
    /\ writer = "select"
    /\ writeQueue # <<>> /\ Head(writeQueue).kind = "request"
    /\ writeQueue' = Tail(writeQueue)
    /\ LET r == Head(writeQueue).req
       IN \/ /\ MayBegin(r)
             /\ submitted' = submitted \cup {r}
             /\ writing' = Head(writeQueue)
             /\ writer' = "begun"
             /\ UNCHANGED writeDone
          \/ /\ ~MayBegin(r)
             /\ writeDone' = [writeDone EXCEPT ![r] = "fail"]
             /\ writer' = "top"
             /\ UNCHANGED <<submitted, writing>>
    /\ WriterFrame

\* The writer takes a cancellation; it is dropped if its context is cancelled.
WriterTakesCancel ==
    /\ writer = "select"
    /\ writeQueue # <<>> /\ Head(writeQueue).kind = "cancel"
    /\ writeQueue' = Tail(writeQueue)
    /\ \/ writing' = Head(writeQueue) /\ writer' = "begun"
       \/ writer' = "top" /\ UNCHANGED writing
    /\ UNCHANGED <<writeDone, submitted>> /\ WriterFrame

\* c.w.Write is called.
WriterInvokes ==
    /\ writer = "begun"
    /\ writer' = "writing"
    /\ IF writing.kind = "request"
       THEN invoked' = invoked \cup {writing.req} /\ UNCHANGED cancelSent
       ELSE /\ cancelSent' = IF closing = "open" THEN cancelSent \cup {writing.req}
                                                 ELSE cancelSent
            /\ UNCHANGED invoked
    /\ UNCHANGED <<connVars, pendingVars, barrierVars, writeQueue, writing, writeDone,
                   phase, submitted, observer, dispatchErr, abandoned, attemptVars, release,
                   callVars, claimVars, resultVars>>

\* Write returns: on success the loop goes on, on failure the writer reports to
\* the caller first and shuts the connection down after it.
WriterReturns(ok) ==
    /\ writer = "writing"
    /\ writer' = IF ok THEN "top" ELSE "broken"
    /\ writeDone' = IF writing.kind = "request"
                    THEN [writeDone EXCEPT ![writing.req] = IF ok THEN "ok" ELSE "fail"]
                    ELSE writeDone
    /\ writing' = NoItem
    /\ UNCHANGED <<writeQueue, submitted>> /\ WriterFrame

\* shutdown has run (shutdownOnce waits for whoever runs it), the writer is done.
WriterShutsDown ==
    /\ writer = "broken"
    /\ closing = "closed"
    /\ writer' = "exited"
    /\ UNCHANGED <<writeQueue, writing, writeDone, submitted>> /\ WriterFrame

-----------------------------------------------------------------------------
(* handleResponse, on the receive goroutine *)

\* The peer answers an admitted request and the receiver claims the entry; any
\* other response (unknown, not admitted, repeated) is dropped.
ResponseArrives(r) ==
    /\ reading = {}
    /\ r \in pending \cap submitted
    /\ r \notin responded
    /\ responded' = responded \cup {r}
    /\ reading' = {r}
    /\ UNCHANGED <<connVars, pending, done, barrierVars>> /\ ConnFrame

\* A gated delivery is linked as the newest one, then the response is completed.
\* Until it is, nobody can finish the delivery: linking and completing are one step.
ResponseCompletes(r) ==
    /\ r \in reading
    /\ reading' = {}
    /\ done' = [done EXCEPT ![r] = "response"]
    /\ IF r \in Gated
       THEN LET left == PruneDone(chain, delivered)
            IN chain' = Append(left, r) /\ slots' = slots - (Len(chain) - Len(left))
       ELSE UNCHANGED <<chain, slots>>
    /\ UNCHANGED <<connVars, pending, responded, delivered>> /\ ConnFrame

-----------------------------------------------------------------------------
(* shutdown: Close, an end of the input or a failed write *)

\* The pending responses shutdown completes itself.
Drained(set) == set

\* The context is cancelled and c.pending emptied in one critical section.
BeginShutdown ==
    /\ closing = "open"
    /\ closing' = "draining"
    /\ drain' = Drained(pending)
    /\ pending' = {}
    /\ UNCHANGED <<responded, done, reading, barrierVars>> /\ ConnFrame

\* An answered response is waited for and its delivery finished, any other one is
\* completed with the cause and its delivery discarded.
DrainOne(r) ==
    /\ closing = "draining"
    /\ r \in drain
    /\ drain' = drain \ {r}
    /\ \/ /\ r \in responded
          /\ done[r] # "open"
          /\ Finish(r)
          /\ UNCHANGED done
       \/ /\ r \notin responded
          /\ done' = [done EXCEPT ![r] = "error"]
          /\ Discard(r)
    /\ UNCHANGED <<closing, pending, responded, reading>> /\ ConnFrame

\* Both streams are closed, whatever is still being written.
StreamsMayClose == drain = {}

EndShutdown ==
    /\ closing = "draining"
    /\ StreamsMayClose
    /\ closing' = "closed"
    /\ UNCHANGED <<drain, pendingVars, barrierVars>> /\ ConnFrame

-----------------------------------------------------------------------------
(* releasePending, shared by Dispatch, Wait and Abandon through a sync.Once *)

\* Some caller of r's pendingRelease is inside the Once.
Releasing(r) ==
    \/ dispatchPc[r] = "release"
    \/ abandonPc[r] = "release"
    \/ \E w \in Waiters : WaitsOn[w] = r /\ waitPc[w] = "release"

\* abandonPending takes an unanswered entry out and completes it; otherwise
\* finishPending takes out whatever is left, and waits if the response was claimed.
ReleaseStart(r) ==
    /\ Releasing(r)
    /\ release[r] = "no"
    /\ pending' = pending \ {r}
    /\ \/ /\ r \in responded
          /\ release' = [release EXCEPT ![r] = "await"]
          /\ UNCHANGED <<done, barrierVars>>
       \/ /\ r \notin responded
          /\ release' = [release EXCEPT ![r] = "done"]
          /\ done' = IF r \in pending THEN [done EXCEPT ![r] = "error"] ELSE done
          /\ Discard(r)
    /\ UNCHANGED <<connVars, responded, reading, writerVars, phase, submitted, observer,
                   dispatchErr, abandoned, attemptVars, callVars, claimVars, resultVars>>

ReleaseFinish(r) ==
    /\ release[r] = "await"
    /\ done[r] # "open"
    /\ release' = [release EXCEPT ![r] = "done"]
    /\ Finish(r)
    /\ UNCHANGED <<connVars, pendingVars, writerVars, phase, submitted, observer,
                   dispatchErr, abandoned, attemptVars, callVars, claimVars, resultVars>>

-----------------------------------------------------------------------------
(* Wait *)

Goto(w, pc) == waitPc' = [waitPc EXCEPT ![w] = pc]

\* Wait returns a final result, which the history records.
Return(w, verdict) ==
    /\ Goto(w, "idle")
    /\ verdicts' = [verdicts EXCEPT ![WaitsOn[w]] = @ \cup {verdict}]

\* Wait returns an error that settles nothing; the caller may Wait again.
ReturnUnsettled(w) == Goto(w, "idle") /\ UNCHANGED verdicts

\* The loop of Wait: phase, state and dispatchErr are read under r.mu.  A Wait
\* that reads "dispatchFailed" returns the dispatchErr it read, "empty" (no error
\* and no result) if Dispatch has not stored it yet.
WaitReads(w) ==
    LET r == WaitsOn[w]
    IN /\ \/ waitPc[w] = "idle" /\ waits[w] < MaxWaits /\ waits' = [waits EXCEPT ![w] = @ + 1]
          \/ waitPc[w] = "dispatching" /\ dispatchErr[r] # "none" /\ UNCHANGED waits
       /\ \/ /\ phase[r] \in {"ready", "dispatching"}
             /\ Goto(w, phase[r])
             /\ UNCHANGED <<claimVars, verdicts>>
          \/ /\ phase[r] = "dispatchFailed"
             /\ Return(w, IF dispatchErr[r] = "error" THEN "error" ELSE "empty")
             /\ UNCHANGED claimVars
          \/ /\ phase[r] = "abandoned"
             /\ Claim(r)
             /\ Return(w, "abandoned")
          \/ /\ phase[r] \in {"dispatched", "finished"}
             /\ Goto(w, "response")
             /\ UNCHANGED <<claimVars, verdicts>>
       /\ UNCHANGED <<connVars, pendingVars, barrierVars, writerVars, phase, submitted,
                      observer, dispatchErr, abandoned, attemptVars, release, dispatchPc,
                      abandonPc, cancelPc, interrupted, observed>>

\* The Ready branch, with the phase read earlier: a pending response that failed
\* is reported as NotStarted whatever has happened since.
WaitReady(w) ==
    LET r == WaitsOn[w]
    IN /\ waitPc[w] = "ready"
       /\ \/ /\ done[r] = "error"
             /\ phase' = [phase EXCEPT ![r] = IF @ = "ready" THEN "finished" ELSE @]
             /\ claimedReady' = claimedReady \cup {r}
             /\ Return(w, "error")
          \/ /\ done[r] # "error"
             /\ ReturnUnsettled(w)
             /\ UNCHANGED <<phase, claimedReady>>
       /\ UNCHANGED <<attemptVars, claimed, observed>> /\ WaitFrame

\* The Wait context is cancelled: while Dispatch runs, before an answer is
\* claimed, or while another Wait resolves it.
WaitCancelled(w) ==
    LET r == WaitsOn[w]
    IN /\ \/ waitPc[w] = "dispatching"
          \/ waitPc[w] = "response" /\ ~(r \in pending /\ r \in responded)
          \/ waitPc[w] = "resolve" /\ r \in resolving
       /\ Claim(r)
       /\ ReturnUnsettled(w)
       /\ UNCHANGED <<phase, attemptVars, observed>> /\ WaitFrame

\* waitResponse stays for the result: its context is done but an answer is
\* claimed, or the connection is done and shutdown completes every entry.
WaitStays(w) ==
    LET r == WaitsOn[w]
    IN /\ waitPc[w] = "response"
       /\ (r \in pending /\ r \in responded) \/ closing # "open"
       /\ Goto(w, "awaitDone")
       /\ UNCHANGED <<phase, attemptVars, claimVars, resultVars>> /\ WaitFrame

\* pending.done is closed: an error finishes the request, a response is resolved.
WaitDone(w) ==
    LET r == WaitsOn[w]
    IN /\ waitPc[w] \in {"response", "awaitDone"}
       /\ \/ /\ done[r] = "error"
             /\ phase' = [phase EXCEPT ![r] = "finished"]
             /\ ClaimUnsubmitted(r)
             /\ Return(w, "error")
          \/ /\ done[r] = "response"
             /\ Goto(w, "resolve")
             /\ UNCHANGED <<phase, claimVars, verdicts>>
       /\ UNCHANGED <<attemptVars, observed>> /\ WaitFrame

\* This Wait becomes the one that resolves the response.
MayResolve(r) == resolved[r] = "no" /\ phase[r] # "abandoned" /\ r \notin resolving

WaitResolves(w) ==
    LET r == WaitsOn[w]
    IN /\ waitPc[w] = "resolve"
       /\ \/ /\ MayResolve(r)
             /\ resolving' = resolving \cup {r}
             /\ Goto(w, "complete")
             /\ UNCHANGED <<claimVars, verdicts>>
          \/ /\ resolved[r] # "no"
             /\ Return(w, resolved[r])
             /\ UNCHANGED <<resolving, claimVars>>
          \/ /\ resolved[r] = "no" /\ phase[r] = "abandoned"
             /\ ClaimUnsubmitted(r)
             /\ Return(w, "abandoned")
             /\ UNCHANGED resolving
       /\ UNCHANGED <<phase, resolved, observed>> /\ WaitFrame

\* waitNotificationsUpTo succeeds; the observer and the typed hook are called.
WaitNotified(w) ==
    LET r == WaitsOn[w]
    IN /\ waitPc[w] = "complete"
       /\ Goto(w, "observe")
       /\ observed' = IF r \in observer THEN [observed EXCEPT ![r] = @ + 1] ELSE observed
       /\ UNCHANGED <<phase, attemptVars, claimVars, verdicts>> /\ WaitFrame

\* resolveResponse stores the result v, unless the request was abandoned.
Settle(w, v) ==
    LET r == WaitsOn[w]
    IN /\ resolving' = resolving \ {r}
       /\ resolved' = [resolved EXCEPT ![r] = SettledResult(r, v)]
       /\ Goto(w, "release")

\* The Wait context is cancelled before the notifications are processed: the
\* attempt is given up, and another Wait may make it unless the request was
\* abandoned meanwhile.
WaitGivesUp(w) ==
    LET r == WaitsOn[w]
    IN /\ waitPc[w] = "complete"
       /\ \/ phase[r] = "abandoned" /\ Settle(w, "abandoned")
          \/ /\ phase[r] # "abandoned"
             /\ resolving' = resolving \ {r}
             /\ Goto(w, "idle")
             /\ UNCHANGED resolved
       /\ UNCHANGED <<phase, claimVars, resultVars>> /\ WaitFrame

\* The connection ends before the notifications are processed.
WaitLosesConnection(w) ==
    /\ waitPc[w] = "complete"
    /\ closing # "open"
    /\ Settle(w, "error")
    /\ phase' = [phase EXCEPT ![WaitsOn[w]] = "finished"]
    /\ UNCHANGED <<claimVars, resultVars>> /\ WaitFrame

\* The observer and the hook have returned.
WaitSettles(w, v) ==
    /\ waitPc[w] = "observe"
    /\ Settle(w, v)
    /\ phase' = [phase EXCEPT ![WaitsOn[w]] = "finished"]
    /\ UNCHANGED <<claimVars, resultVars>> /\ WaitFrame

WaitReleased(w) ==
    /\ waitPc[w] = "release"
    /\ Released(WaitsOn[w])
    /\ Return(w, resolved[WaitsOn[w]])
    /\ UNCHANGED <<phase, attemptVars, claimVars, observed>> /\ WaitFrame

-----------------------------------------------------------------------------
(* Abandon *)

\* A settled request is left alone.  Otherwise the phase becomes "abandoned", and
\* the entry is detached while a Wait resolves it, or released.
Abandon(r) ==
    /\ r \in MayAbandon
    /\ abandonPc[r] = "idle"
    /\ phase[r] # "none"
    /\ ClaimUnsubmitted(r)
    /\ \/ /\ resolved[r] # "no" \/ phase[r] = "finished"
          /\ UNCHANGED <<phase, abandoned, abandonPc>>
       \/ /\ resolved[r] = "no" /\ phase[r] # "finished"
          /\ phase' = [phase EXCEPT ![r] = "abandoned"]
          /\ abandoned' = abandoned \cup {r}
          /\ abandonPc' = [abandonPc EXCEPT ![r] = IF r \in resolving THEN "detach"
                                                                      ELSE "release"]
    /\ UNCHANGED pending /\ AbandonFrame

AbandonDetaches(r) ==
    /\ abandonPc[r] = "detach"
    /\ pending' = pending \ {r}
    /\ abandonPc' = [abandonPc EXCEPT ![r] = "idle"]
    /\ UNCHANGED <<phase, abandoned, claimVars>> /\ AbandonFrame

AbandonReleased(r) ==
    /\ abandonPc[r] = "release"
    /\ Released(r)
    /\ abandonPc' = [abandonPc EXCEPT ![r] = "idle"]
    /\ UNCHANGED <<pending, phase, abandoned, claimVars>> /\ AbandonFrame

-----------------------------------------------------------------------------
(* Specification *)

\* Calls of the client program and what its goroutines do in them.
DispatchStep(r) ==
    \/ DispatchEnqueue(r) \/ DispatchInterrupted(r) \/ DispatchSeesAbandon(r)
    \/ CompleteWrite(r) \/ DispatchFinish(r) \/ FailDispatch(r) \/ DispatchReleased(r)

ReleaseStep(r) == ReleaseStart(r) \/ ReleaseFinish(r)

AbandonStep(r) == AbandonDetaches(r) \/ AbandonReleased(r)

RequestStep(r) ==
    \/ Prepare(r) \/ ObserveResponse(r) \/ DispatchStart(r) \/ DispatchRefused(r)
    \/ DispatchStep(r) \/ Interrupt(r) \/ CancelRequest(r)
    \/ Abandon(r) \/ AbandonStep(r) \/ ReleaseStep(r)

\* Steps of a Wait that do not depend on its context or on other goroutines' work.
WaitStep(w) ==
    \/ waitPc[w] # "idle" /\ WaitReads(w)
    \/ WaitReady(w) \/ WaitStays(w) \/ WaitDone(w) \/ WaitResolves(w)
    \/ WaitLosesConnection(w) \/ WaitSettles(w, "ok") \/ WaitSettles(w, "error")
    \/ WaitReleased(w)

CallerStep(w) ==
    \/ waitPc[w] = "idle" /\ WaitReads(w)
    \/ WaitStep(w) \/ WaitCancelled(w) \/ WaitNotified(w) \/ WaitGivesUp(w)

\* Goroutines of the connection.
WriterStep ==
    \/ WriterTop \/ WriterStops \/ WriterTakesRequest \/ WriterTakesCancel
    \/ WriterInvokes \/ WriterShutsDown \/ \E ok \in BOOLEAN : WriterReturns(ok)

ReaderStep(r) == ResponseArrives(r) \/ ResponseCompletes(r)

ShutdownStep == EndShutdown \/ \E r \in Requests : DrainOne(r)

Next ==
    \/ \E r \in Requests : RequestStep(r) \/ ReaderStep(r)
    \/ \E w \in Waiters : CallerStep(w)
    \/ WriterStep
    \/ BeginShutdown
    \/ ShutdownStep

\* Goroutines that can run do run, a started shutdown completes, observers, hooks
\* and opts.Abort return, and a Write returns once the streams are closed.  Nothing
\* is assumed of the peer, of notifications, of contexts or of the client's calls.
Fairness ==
    /\ \A r \in Requests : /\ WF_vars(DispatchStep(r))
                           /\ WF_vars(ReleaseStep(r))
                           /\ WF_vars(AbandonStep(r))
                           /\ WF_vars(ResponseCompletes(r))
    /\ \A w \in Waiters : WF_vars(WaitStep(w))
    /\ WF_vars(WriterTop \/ WriterStops \/ WriterInvokes \/ WriterShutsDown)
    /\ WF_vars(closing = "closed" /\ \E ok \in BOOLEAN : WriterReturns(ok))
    /\ WF_vars(writer = "broken" /\ BeginShutdown)
    /\ WF_vars(ShutdownStep)

Spec == Init /\ [][Next]_vars /\ Fairness

-----------------------------------------------------------------------------
(* Safety *)

\* Retry safety.  Once Dispatch, Abandon or Wait has reported NotStarted for a
\* request, the transport writer is never invoked for it: neither a write still
\* queued nor a Dispatch still running can begin it (prepared_request.go:29-30).
\* The report of Wait's Ready branch is a different matter: SubmissionProof.
NotStartedIsFinal == claimed \cap invoked = {}

\* Capacity of the barrier.  Every token of responseDeliverySlots belongs to one
\* request that has not given it back or to one linked delivery, so no receive
\* from the slots channel, made under deliveryMu, can find it empty and block.
SlotAccounting ==
    /\ slots = Len(chain)
               + Cardinality({r \in Gated : /\ phase[r] # "none"
                                            /\ r \notin delivered \cup ToSet(chain)})
    /\ slots <= MaxPendingRequests

\* The barrier holds.  A gated response that has been completed but not yet
\* released by Wait, Abandon or shutdown is linked, so a later notification waits.
UndeliveredIsLinked ==
    \A r \in Gated \ delivered : done[r] = "response" => r \in ToSet(chain)

\* The observer of a request runs at most once over all concurrent and repeated
\* Waits, and has run before any of them returns the decoded result.
ObservedOnce ==
    \A r \in Requests :
        /\ observed[r] <= 1
        /\ r \in observer /\ "ok" \in verdicts[r] => observed[r] = 1

\* Concurrent Waits agree: when one returns the result, no other one ever returns
\* an error or ErrRequestAbandoned, however Abandon and shutdown interleave.
VerdictsAgree ==
    \A r \in Requests : "ok" \in verdicts[r] => verdicts[r] = {"ok"}

\* A failed Dispatch gives back what the request occupied before it returns: the
\* entry in c.pending and, for a gated request, its delivery.  (An abandoned
\* request is released by Abandon, which Dispatch does not wait for.)
FailedDispatchReleases ==
    \A r \in Requests \ abandoned :
        dispatchErr[r] = "error" => r \notin pending /\ (r \in Gated => r \in delivered)

\* While the connection is open a cancellation never overtakes the request it
\* names: the request's frame has been written in full before.
CancelFollowsRequest == \A r \in cancelSent : writeDone[r] = "ok"

(* Action properties *)

\* The phases that may follow p.
PhaseSuccessors(p) ==
    CASE p = "none"           -> {"ready"}
      [] p = "ready"          -> {"dispatching", "abandoned", "finished"}
      [] p = "dispatching"    -> {"dispatched", "dispatchFailed", "abandoned"}
      [] p = "dispatched"     -> {"abandoned", "finished"}
      [] p = "dispatchFailed" -> {"abandoned"}
      [] p = "abandoned"      -> {"finished"}
      [] p = "finished"       -> {}

PhaseMoves ==
    \A r \in Requests : phase'[r] # phase[r] => phase'[r] \in PhaseSuccessors(phase[r])

\* The phase moves forward only: an Abandon is not undone by a Dispatch that is
\* completing, and a failed or finished request is never revived.
PhaseNeverRegresses == [][PhaseMoves]_vars

\* What a program may rely on, RequestPromise, in terms of this state.  A NotStarted
\* of Wait's Ready branch (claimedReady) is no denial: SubmissionProof.
Frame ==
    [r \in Requests |->
        IF phase[r] = "none" THEN "new"
        ELSE IF writeDone[r] = "ok" THEN "accepted"
        ELSE IF r \in submitted THEN "started"
        ELSE IF r \in claimed THEN "denied" ELSE "unsent"]
Outcome ==
    [r \in Requests |->
        IF resolved[r] = "ok" THEN "ok"
        ELSE IF r \in abandoned \/ verdicts[r] # {} \/ resolved[r] # "no" THEN "over" ELSE "open"]
Promise == INSTANCE RequestPromise WITH
               frame <- Frame, held <- pending, answered <- responded,
               dispatch <- dispatchErr, watched <- observer, outcome <- Outcome,
               cancelled <- cancelSent

\* Requests keep the promise: nothing is sent after a NotStarted, an Abandon or a
\* final result, a result comes with its observer or not at all, an abandoned request
\* never yields one, and a failed Dispatch has given the entry back.
PromiseKept == Promise!Spec

(* Liveness *)

\* Once shutdown begins every call in progress returns: no Dispatch, Wait or
\* Abandon is left blocked on the writer, a response or another caller.
CallsReturn ==
    /\ \A r \in Requests :
        /\ (closing # "open" /\ dispatchPc[r] # "idle") ~> (dispatchPc[r] = "returned")
        /\ (closing # "open" /\ abandonPc[r] # "idle") ~> (abandonPc[r] = "idle")
    /\ \A w \in Waiters : (closing # "open" /\ waitPc[w] # "idle") ~> (waitPc[w] = "idle")

\* Once shutdown begins every delivery slot is given back, whoever owned it.
SlotsReturn == (closing # "open") ~> (slots = 0)

\* Shutdown completes and the writer goroutine ends.
WriterEnds == (closing # "open") ~> (writer = "exited")

(* Claims of the documentation that the code does not keep *)

\* "RequestSubmissionNotStarted proves that the transport writer was never invoked
\* and can no longer be invoked for this request" (prepared_request.go:29-30),
\* taken of every report, Wait's Ready branch included.
SubmissionProof == (claimed \cup claimedReady) \cap invoked = {}

\* "Wait waits for the response" (prepared_request.go:470): a Wait that returns no
\* error returns the decoded result of a response, never the zero value of a
\* request whose Dispatch has failed.
NoEmptyResult == \A r \in Requests : "empty" \notin verdicts[r]
=============================================================================

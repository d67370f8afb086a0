-------------------------- MODULE NotificationOrder --------------------------
(***************************************************************************)
(* Ordered delivery on the receiving side of a Connection (connection.go): *)
(* notifications are numbered as they arrive and handled one at a time in  *)
(* that order, a response is seen after the notifications that arrived     *)
(* before it, and a notification that arrived after a gated response is    *)
(* held back until that response has been delivered.  A handler may issue  *)
(* requests of its own: while it waits for the response, the later         *)
(* notifications are handled inside its wait.                              *)
(*                                                                         *)
(* Each request is waited for by one goroutine, which the request stands   *)
(* for.  Its context is plain (0) or that of the handler of a notification *)
(* (its number).  The life of the request itself, the slots of the barrier *)
(* and the chain of deliveries are those of PreparedRequest: here the      *)
(* barrier of a notification is the set of deliveries it must wait for.    *)
(***************************************************************************)
EXTENDS Integers, Sequences, FiniteSets

CONSTANTS
    Requests,               \* requests in flight
    Gated,                  \* those whose response holds back later notifications
    Reverse,                \* those issued by notification handlers
    MayGiveUp,              \* requests whose Wait context can be cancelled
    MayAbandon,             \* requests that can be abandoned
    HandlersLeave,          \* may handlers return before their requests do?
    MaxNotifications,       \* bound of the model: notifications the peer sends
    MaxQueuedNotifications, \* capacity of notificationQueue
    MaxNotificationBytes    \* ConnectionOptions, every notification being of size 1

Worker == "worker"
None   == "none"

ASSUME RequestsAssumption == /\ Gated \subseteq Requests /\ Reverse \subseteq Requests
                             /\ Worker \notin Requests /\ None \notin Requests
ASSUME BoundsAssumption   == /\ MaxNotifications \in Nat
                             /\ MaxQueuedNotifications \in Nat
                             /\ MaxNotificationBytes \in Nat
                             /\ HandlersLeave \in BOOLEAN

VARIABLES
    closed,       \* Done() is closed
    lastEnqueued, \* lastEnqueuedNotificationSeq
    queue,        \* notificationQueue
    completedSeq, \* completedNotificationSeq: all up to it are complete
    completed,    \* completedNotifications, beyond that prefix
    note,         \* where the processing of each notification is
    runner,       \* who processes it: the worker, or the Wait of a request
    barrier,      \* the deliveries that were unfinished when it arrived
    worker,       \* the notification the worker processes, 0 if none
    frameLock,    \* notificationFrame.mu: the request whose Wait holds it
    pc,           \* program counter of each request's Wait
    context,      \* the notification whose handler's context it uses, 0 if plain
    watermark,    \* notificationWatermark of the response, -1 before it arrives
    next,         \* loop variable of waitNotificationsReentrant
    delivered,    \* deliveries that are finished
    precedes      \* history: gated responses that arrived before a notification

notifyVars  == <<lastEnqueued, queue, completedSeq, completed, barrier, precedes>>
requestVars == <<pc, context, watermark, next, delivered>>
vars == <<closed, notifyVars, note, runner, worker, frameLock, requestVars>>

Seqs == 1..MaxNotifications

NotePcs == {"none", "queued", "gated", "handling", "returned", "marking", "leaving", "done"}
WaitPcs == {"none", "waiting", "entering", "locking", "looping", "nested", "plain",
            "hook", "returned"}

TypeOK ==
    /\ closed \in BOOLEAN
    /\ lastEnqueued \in 0..MaxNotifications
    /\ queue \in Seq(Seqs)
    /\ completedSeq \in 0..MaxNotifications
    /\ completed \subseteq Seqs
    /\ note \in [Seqs -> NotePcs]
    /\ runner \in [Seqs -> Requests \cup {Worker}]
    /\ barrier \in [Seqs -> SUBSET Gated]
    /\ worker \in 0..MaxNotifications
    /\ frameLock \in [Seqs -> Requests \cup {None}]
    /\ pc \in [Requests -> WaitPcs]
    /\ context \in [Requests -> 0..MaxNotifications]
    /\ watermark \in [Requests -> -1..MaxNotifications]
    /\ next \in [Requests -> Nat]
    /\ delivered \subseteq Gated
    /\ precedes \in [Seqs -> SUBSET Gated]

Init ==
    /\ closed = FALSE
    /\ lastEnqueued = 0 /\ queue = <<>> /\ completedSeq = 0 /\ completed = {}
    /\ note = [n \in Seqs |-> "none"]
    /\ runner = [n \in Seqs |-> Worker]
    /\ barrier = [n \in Seqs |-> {}]
    /\ worker = 0
    /\ frameLock = [n \in Seqs |-> None]
    /\ pc = [r \in Requests |-> "none"]
    /\ context = [r \in Requests |-> 0]
    /\ watermark = [r \in Requests |-> -1]
    /\ next = [r \in Requests |-> 0]
    /\ delivered = {}
    /\ precedes = [n \in Seqs |-> {}]

-----------------------------------------------------------------------------
(* Faulty variants of the definitions below, each the slip a maintainer could *)
(* make there.  They are not part of the specification.                       *)

\* waitResponseDelivery that does not go on to the previous delivery.
FirstDelivered(n) == barrier[n] = {} \/ barrier[n] \cap delivered # {}
\* markNotificationComplete that takes the newest completion for the prefix.
NewestCompleted(done) == CHOOSE m \in done \cup {0} : \A k \in done : k <= m
\* processNotification that ends the frame without its lock.
DeactivatesAtOnce(n) == TRUE
\* waitNotificationsReentrant without its test of frame.active.
AlwaysActive(n) == TRUE
\* waitNotificationsUpTo that never looks for a frame.
EntersNever(r) == FALSE
\* handleResponse that counts a notification that has not arrived.
OneAhead == lastEnqueued + 1
\* A Wait that keeps the delivery of its response.
KeepsDelivery(r) == UNCHANGED delivered
\* A reentrant wait that unlocks the frame, but not when the connection has ended.
KeepsLockAtEnd(r) ==
    frameLock' = [n \in Seqs |->
                     IF frameLock[n] = r /\ ~closed THEN None ELSE frameLock[n]]

-----------------------------------------------------------------------------
(* Operators *)

\* The watermark of a response that arrives now.
Watermark == lastEnqueued

\* Gated responses that have arrived, linked to the chain of deliveries.
Arrived == {r \in Gated : watermark[r] # -1}

\* Accepted notifications are counted until their processing has ended.
InBudget ==
    Cardinality({n \in 1..lastEnqueued : note[n] # "done"}) < MaxNotificationBytes

\* waitResponseDelivery: the deliveries linked before the notification are finished.
GatePassed(n) == barrier[n] \subseteq delivered

\* notificationAlreadyProcessed
Processed(n) == completedSeq >= n \/ n \in completed

\* The prefix markNotificationComplete advances to.
CompletedPrefix(done) ==
    CHOOSE m \in 0..MaxNotifications :
        1..m \subseteq 1..completedSeq \cup done /\ m + 1 \notin 1..completedSeq \cup done

\* frame.active, read under frame.mu
Active(n) == note[n] \in {"handling", "returned"}

\* The frame's lock is free when the handler has returned.
MayDeactivate(n) == frameLock[n] = None

\* waitNotificationsUpTo enters the reentrant wait of its handler's frame.
EntersFrame(r) == context[r] # 0 /\ watermark[r] >= context[r]

-----------------------------------------------------------------------------
(* The receiver *)

\* enqueueNotification; a full queue or budget fails the connection.
NotificationArrives ==
    /\ ~closed
    /\ lastEnqueued < MaxNotifications
    /\ IF Len(queue) < MaxQueuedNotifications /\ InBudget
       THEN LET n == lastEnqueued + 1
            IN /\ lastEnqueued' = n
               /\ queue' = Append(queue, n)
               /\ note' = [note EXCEPT ![n] = "queued"]
               /\ barrier' = [barrier EXCEPT ![n] = Arrived \ delivered]
               /\ precedes' = [precedes EXCEPT ![n] = Arrived]
               /\ UNCHANGED closed
       ELSE closed' = TRUE /\ UNCHANGED <<lastEnqueued, queue, note, barrier, precedes>>
    /\ UNCHANGED <<completedSeq, completed, runner, worker, frameLock, requestVars>>

\* handleResponse: the delivery is linked and the watermark taken.
ResponseArrives(r) ==
    /\ ~closed
    /\ pc[r] = "waiting"
    /\ watermark[r] = -1
    /\ watermark' = [watermark EXCEPT ![r] = Watermark]
    /\ UNCHANGED <<closed, notifyVars, note, runner, worker, frameLock, pc, context, next,
                   delivered>>

\* Close, a failed write or the end of the input.  The deliveries that shutdown
\* finishes change nothing: no handler starts any more.
Close ==
    /\ ~closed
    /\ closed' = TRUE
    /\ UNCHANGED <<notifyVars, note, runner, worker, frameLock, requestVars>>

-----------------------------------------------------------------------------
(* processNotification, run by the worker or inside a reentrant wait *)

WorkerTakes ==
    /\ worker = 0
    /\ queue # <<>>
    /\ worker' = Head(queue)
    /\ queue' = Tail(queue)
    /\ note' = [note EXCEPT ![Head(queue)] = "gated"]
    /\ UNCHANGED <<closed, lastEnqueued, completedSeq, completed, barrier, precedes, runner,
                   frameLock, requestVars>>

\* The step of n's processing that takes it from one place to the next.
Proceed(n, from, to) ==
    /\ note[n] = from
    /\ note' = [note EXCEPT ![n] = to]

HandlerStarts(n) ==
    /\ ~closed
    /\ GatePassed(n)
    /\ Proceed(n, "gated", "handling")
    /\ UNCHANGED <<closed, notifyVars, runner, worker, frameLock, requestVars>>

\* The connection is done: the notification completes without its handler.
HandlerSkipped(n) ==
    /\ closed
    /\ Proceed(n, "gated", "marking")
    /\ UNCHANGED <<closed, notifyVars, runner, worker, frameLock, requestVars>>

\* The requests issued with the context of n's handler have returned.
RequestsReturned(n) == \A r \in Requests : context[r] = n => pc[r] = "returned"

HandlerReturns(n) ==
    /\ HandlersLeave \/ RequestsReturned(n)
    /\ Proceed(n, "handling", "returned")
    /\ UNCHANGED <<closed, notifyVars, runner, worker, frameLock, requestVars>>

FrameEnds(n) ==
    /\ MayDeactivate(n)
    /\ Proceed(n, "returned", "marking")
    /\ UNCHANGED <<closed, notifyVars, runner, worker, frameLock, requestVars>>

\* markNotificationComplete
MarkComplete(n) ==
    /\ Proceed(n, "marking", "leaving")
    /\ completedSeq' = CompletedPrefix(completed \cup {n})
    /\ completed' = (completed \cup {n}) \ 1..completedSeq'
    /\ UNCHANGED <<closed, lastEnqueued, queue, barrier, precedes, runner, worker, frameLock,
                   requestVars>>

\* The budget is returned and whoever processed n goes on.
Leave(n) ==
    /\ Proceed(n, "leaving", "done")
    /\ IF runner[n] = Worker
       THEN worker' = 0 /\ UNCHANGED <<pc, next>>
       ELSE /\ pc' = [pc EXCEPT ![runner[n]] = "looping"]
            /\ next' = [next EXCEPT ![runner[n]] = @ + 1]
            /\ UNCHANGED worker
    /\ UNCHANGED <<closed, notifyVars, runner, frameLock, context, watermark, delivered>>

-----------------------------------------------------------------------------
(* The Wait of a request *)

Goto(r, place) == pc' = [pc EXCEPT ![r] = place]

\* The frame's lock is given back, if the Wait holds it.
Unlock(r) ==
    frameLock' = [n \in Seqs |-> IF frameLock[n] = r THEN None ELSE frameLock[n]]

\* The response is delivered: the notifications behind it may go on.
Deliver(r) == delivered' = delivered \cup ({r} \cap Gated)

\* A client issues r, or the handler of n does with its own context.
Issue(r) ==
    /\ pc[r] = "none"
    /\ \/ r \notin Reverse /\ UNCHANGED context
       \/ /\ r \in Reverse
          /\ \E n \in Seqs : note[n] = "handling" /\ context' = [context EXCEPT ![r] = n]
    /\ Goto(r, "waiting")
    /\ UNCHANGED <<closed, notifyVars, note, runner, worker, frameLock, watermark, next,
                   delivered>>

\* The response has arrived: completeResponse calls waitNotificationsUpTo.
WaitEnters(r) ==
    /\ pc[r] = "waiting"
    /\ watermark[r] # -1
    /\ Goto(r, IF EntersFrame(r) THEN "locking" ELSE "plain")
    /\ UNCHANGED <<closed, notifyVars, note, runner, worker, frameLock, context, watermark,
                   next, delivered>>

\* The frame's lock is taken; an ended frame is left for the plain wait.
WaitLocks(r) ==
    LET n == context[r]
    IN /\ pc[r] = "locking"
       /\ frameLock[n] = None
       /\ IF Active(n)
          THEN /\ Goto(r, "looping")
               /\ frameLock' = [frameLock EXCEPT ![n] = r]
               /\ next' = [next EXCEPT ![r] = n + 1]
          ELSE Goto(r, "plain") /\ UNCHANGED <<frameLock, next>>
       /\ UNCHANGED <<closed, notifyVars, note, runner, worker, context, watermark, delivered>>

\* A notification that is already processed is passed over.
WaitSkips(r) ==
    /\ pc[r] = "looping"
    /\ next[r] <= watermark[r]
    /\ Processed(next[r])
    /\ next' = [next EXCEPT ![r] = @ + 1]
    /\ UNCHANGED <<closed, notifyVars, note, runner, worker, frameLock, pc, context,
                   watermark, delivered>>

\* The next one is taken from the queue and processed here; another number than
\* the expected one fails the connection.
WaitTakes(r) ==
    /\ pc[r] = "looping"
    /\ next[r] <= watermark[r]
    /\ ~Processed(next[r])
    /\ queue # <<>>
    /\ queue' = Tail(queue)
    /\ IF Head(queue) = next[r]
       THEN /\ note' = [note EXCEPT ![next[r]] = "gated"]
            /\ runner' = [runner EXCEPT ![next[r]] = r]
            /\ Goto(r, "nested")
            /\ UNCHANGED <<closed, frameLock, delivered>>
       ELSE /\ closed' = TRUE
            /\ Goto(r, "returned")
            /\ Unlock(r) /\ Deliver(r)
            /\ UNCHANGED <<note, runner>>
    /\ UNCHANGED <<lastEnqueued, completedSeq, completed, barrier, precedes, worker, context,
                   watermark, next>>

\* The wait is over: the observer and the hook are called.
WaitEnds(r) ==
    /\ \/ pc[r] = "looping" /\ next[r] > watermark[r]
       \/ pc[r] = "plain" /\ completedSeq >= watermark[r]
    /\ Goto(r, "hook")
    /\ Unlock(r)
    /\ UNCHANGED <<closed, notifyVars, note, runner, worker, context, watermark, next,
                   delivered>>

\* Observer and hook have returned.
WaitReturns(r) ==
    /\ pc[r] = "hook"
    /\ Goto(r, "returned")
    /\ Deliver(r)
    /\ UNCHANGED <<closed, notifyVars, note, runner, worker, frameLock, context, watermark,
                   next>>

\* The connection is done before a response or the notifications are.
WaitLosesConnection(r) ==
    /\ closed
    /\ \/ pc[r] = "waiting" /\ watermark[r] = -1
       \/ pc[r] = "looping" /\ next[r] <= watermark[r] /\ ~Processed(next[r])
       \/ pc[r] = "plain" /\ completedSeq < watermark[r]
    /\ Goto(r, "returned")
    /\ Unlock(r) /\ Deliver(r)
    /\ UNCHANGED <<closed, notifyVars, note, runner, worker, context, watermark, next>>

\* The context of n's handler is cancelled when the handler has returned.
Expired(n) == n \in Seqs /\ note[n] \in {"marking", "leaving", "done"}

\* The Wait context is cancelled meanwhile; the caller may Wait again.
WaitGivesUp(r) ==
    /\ r \in MayGiveUp \/ Expired(context[r])
    /\ \/ pc[r] = "looping" /\ next[r] <= watermark[r] /\ ~Processed(next[r])
       \/ pc[r] = "plain" /\ completedSeq < watermark[r]
    /\ Goto(r, "waiting")
    /\ Unlock(r)
    /\ UNCHANGED <<closed, notifyVars, note, runner, worker, context, watermark, next,
                   delivered>>

\* Abandon delivers a response that nobody resolves.
Abandon(r) ==
    /\ r \in MayAbandon
    /\ pc[r] = "waiting"
    /\ Goto(r, "returned")
    /\ Deliver(r)
    /\ UNCHANGED <<closed, notifyVars, note, runner, worker, frameLock, context, watermark,
                   next>>

-----------------------------------------------------------------------------
(* Specification *)

ProcessingStep(n) ==
    HandlerStarts(n) \/ HandlerSkipped(n) \/ FrameEnds(n) \/ MarkComplete(n) \/ Leave(n)

WaitStep(r) ==
    \/ WaitEnters(r) \/ WaitLocks(r) \/ WaitSkips(r) \/ WaitTakes(r) \/ WaitEnds(r)
    \/ WaitReturns(r) \/ WaitLosesConnection(r)

Next ==
    \/ NotificationArrives \/ Close \/ WorkerTakes
    \/ \E n \in Seqs : ProcessingStep(n) \/ HandlerReturns(n)
    \/ \E r \in Requests :
          Issue(r) \/ ResponseArrives(r) \/ WaitStep(r) \/ WaitGivesUp(r) \/ Abandon(r)

\* Goroutines that can run do run (the worker until the connection is done), a handler
\* returns once its requests have, hooks return, and the peer answers every request
\* while the connection is open.
Fairness ==
    /\ WF_vars(~closed /\ WorkerTakes)
    /\ \A n \in Seqs : /\ WF_vars(ProcessingStep(n))
                       /\ WF_vars(RequestsReturned(n) /\ HandlerReturns(n))
    /\ \A r \in Requests : WF_vars(WaitStep(r)) /\ WF_vars(ResponseArrives(r))

Spec == Init /\ [][Next]_vars /\ Fairness

-----------------------------------------------------------------------------
(* Safety *)

\* n's handler has started and its frame has not ended.
InHandler(n) == note[n] \in {"handling", "returned"}

\* One of the requests of n's handler waits, and a later notification is processed
\* inside its wait.
HeldUp(n) == frameLock[n] \in Requests /\ pc[frameLock[n]] = "nested"

\* "Notification handlers are invoked in wire order", one at a time: while one is
\* processed, every earlier one is complete or its handler is held up in a Wait that
\* processes a later one on its behalf.  (With the type invariant.)
InWireOrder ==
    TypeOK /\ \A m \in Seqs : note[m] \in {"gated", "handling", "returned", "marking"} =>
        \A n \in 1..(m - 1) : Processed(n) \/ (InHandler(n) /\ HeldUp(n))

\* The test for "notification sequence invariant violated" never fires, and a
\* reentrant Wait never waits for a notification that is not in the queue.
NextIsQueued ==
    \A r \in Requests :
        pc[r] = "looping" /\ next[r] <= watermark[r] /\ ~Processed(next[r]) =>
            queue # <<>> /\ Head(queue) = next[r]

\* A handler runs only after every gated response that arrived before its
\* notification has been delivered to its observer and hook, or abandoned.
BarrierHolds ==
    \A n \in Seqs : InHandler(n) => precedes[n] \subseteq delivered

\* Observer and hook of a response run after every notification that arrived before
\* it is complete, save the one whose handler waits for it and those that one is
\* nested in.
Observes(r) == pc[r] # "hook" /\ pc'[r] = "hook"

ResponseComesAfter ==
    [][\A r \in Requests : Observes(r) =>
          \A n \in 1..watermark[r] :
              Processed(n) \/ n = context[r] \/ (n < context[r] /\ HeldUp(n))]_vars

(* Liveness *)

\* The situation in which the code may stall, see ReverseRequestsReturn: one gated
\* response has arrived and a handler has issued another request.
GatedMeetsReverse ==
    \E g \in Gated : \E r \in Reverse \ {g} : watermark[g] # -1 /\ pc[r] # "none"

\* The Wait of a request that is answered returns, in a handler or gated.
AnsweredReturns ==
    \A r \in Requests :
        (watermark[r] # -1) ~> (pc[r] = "returned" \/ closed \/ GatedMeetsReverse)

\* An accepted notification is processed, or the connection is done.
NotificationsComplete ==
    \A n \in Seqs : (note[n] = "queued") ~> (note[n] = "done" \/ closed \/ GatedMeetsReverse)

\* Once the connection is done, every Wait returns, and every notification that was
\* taken from the queue is processed to the end, wherever the end finds it: before
\* its handler runs, in the handler, or where its frame waits to be deactivated.
AllReturn ==
    /\ \A r \in Requests : (closed /\ pc[r] # "none") ~> (pc[r] = "returned")
    /\ \A n \in Seqs : (closed /\ note[n] \notin {"none", "queued"}) ~> (note[n] = "done")

(* A claim of the documentation that the code does not keep *)

\* Notification handlers "may synchronously issue reverse requests; notifications sent
\* before the reverse response are processed in that ordered call stack before the
\* request returns" (README.md:330-332): the answered request of a handler returns.
ReverseRequestsReturn ==
    \A r \in Reverse : (watermark[r] # -1) ~> (pc[r] = "returned" \/ closed)
=============================================================================

----------------------- MODULE NotificationOrderProofs -----------------------
(***************************************************************************)
(* Theorems about NotificationOrder for any requests and any bounds.       *)
(***************************************************************************)
EXTENDS NotificationOrder, WellFoundedInduction, SequenceTheorems, TLAPS

\* The part of the type invariant that the barrier rests on.
BarrierTypes ==
    /\ note \in [Seqs -> NotePcs]
    /\ barrier \in [Seqs -> SUBSET Gated]
    /\ precedes \in [Seqs -> SUBSET Gated]
    /\ delivered \subseteq Gated

\* A delivery that precedes a notification is one it waits for or a finished one.
BarrierCovers ==
    \A n \in Seqs : precedes[n] \subseteq barrier[n] \cup delivered

BarrierInv == BarrierTypes /\ BarrierCovers /\ BarrierHolds

\* A step that changes nothing but the place of notifications that are not being
\* handled afterwards, or are still, and that finishes deliveries, keeps the barrier.
LEMMA BarrierKept ==
    ASSUME BarrierInv, delivered \subseteq delivered', delivered' \subseteq Gated,
           note' \in [Seqs -> NotePcs],
           UNCHANGED <<barrier, precedes>>,
           \A n \in Seqs : InHandler(n)' => InHandler(n) \/ GatePassed(n)
    PROVE  BarrierInv'
<1>1. BarrierTypes' /\ BarrierCovers'
  BY DEF BarrierInv, BarrierTypes, BarrierCovers
<1>2. BarrierHolds'
  <2> SUFFICES ASSUME NEW n \in Seqs, InHandler(n)' PROVE precedes'[n] \subseteq delivered'
    BY DEF BarrierHolds, InHandler
  <2>1. precedes[n] \subseteq delivered
    BY DEF BarrierInv, BarrierCovers, BarrierHolds, GatePassed
  <2> QED
    BY <2>1
<1> QED
  BY <1>1, <1>2 DEF BarrierInv

\* One step of n's processing goes to a place outside its handler.
LEMMA ProceedKeepsBarrier ==
    ASSUME BarrierInv, NEW n \in Seqs, NEW from, NEW to \in NotePcs,
           Proceed(n, from, to),
           to \in {"handling", "returned"} => InHandler(n) \/ GatePassed(n),
           UNCHANGED <<barrier, precedes, delivered>>
    PROVE  BarrierInv'
<1>1. note' \in [Seqs -> NotePcs]
  BY DEF Proceed, BarrierInv, BarrierTypes
<1>2. \A m \in Seqs : InHandler(m)' => InHandler(m) \/ GatePassed(m)
  BY DEF Proceed, InHandler, BarrierInv, BarrierTypes
<1> QED
  BY <1>1, <1>2, BarrierKept DEF BarrierInv, BarrierTypes

\* A handler runs only after every gated response that arrived before its notification
\* has been delivered (waitResponseDelivery in processNotification).
THEOREM BarrierRespected == Spec => []BarrierHolds
<1>1. Init => BarrierInv
  BY DEF Init, BarrierInv, BarrierTypes, BarrierCovers, BarrierHolds, InHandler, NotePcs
<1>2. BarrierInv /\ [Next]_vars => BarrierInv'
  <2> SUFFICES ASSUME BarrierInv, [Next]_vars PROVE BarrierInv'
    OBVIOUS
  <2> USE DEF notifyVars, requestVars
  <2>1. CASE NotificationArrives
    <3>1. CASE UNCHANGED <<note, barrier, precedes, delivered>>
      BY <3>1 DEF BarrierInv, BarrierTypes, BarrierCovers, BarrierHolds, InHandler
    <3>2. ASSUME NEW k, k = lastEnqueued + 1, note' = [note EXCEPT ![k] = "queued"],
                 barrier' = [barrier EXCEPT ![k] = Arrived \ delivered],
                 precedes' = [precedes EXCEPT ![k] = Arrived],
                 UNCHANGED delivered
          PROVE  BarrierInv'
      <4>1. Arrived \subseteq Gated
        BY DEF Arrived
      <4>2. BarrierTypes'
        BY <3>2, <4>1 DEF BarrierInv, BarrierTypes, NotePcs
      <4>3. BarrierCovers'
        BY <3>2 DEF BarrierInv, BarrierTypes, BarrierCovers
      <4>4. BarrierHolds'
        BY <3>2 DEF BarrierInv, BarrierTypes, BarrierHolds, InHandler
      <4> QED
        BY <4>2, <4>3, <4>4 DEF BarrierInv
    <3> QED
      BY <2>1, <3>1, <3>2 DEF NotificationArrives
  <2>2. ASSUME NEW r \in Requests, ResponseArrives(r) PROVE BarrierInv'
    BY <2>2 DEF ResponseArrives, BarrierInv, BarrierTypes, BarrierCovers, BarrierHolds,
                InHandler
  <2>3. CASE Close
    BY <2>3 DEF Close, BarrierInv, BarrierTypes, BarrierCovers, BarrierHolds, InHandler
  <2>4. CASE WorkerTakes
    <3>1. note' \in [Seqs -> NotePcs]
      BY <2>4 DEF WorkerTakes, BarrierInv, BarrierTypes, NotePcs
    <3>2. \A n \in Seqs : InHandler(n)' => InHandler(n)
      BY <2>4 DEF WorkerTakes, InHandler, BarrierInv, BarrierTypes
    <3> QED
      BY <2>4, <3>1, <3>2, BarrierKept DEF WorkerTakes, BarrierInv, BarrierTypes
  <2>5. ASSUME NEW n \in Seqs, ProcessingStep(n) \/ HandlerReturns(n) PROVE BarrierInv'
    <3>1. CASE HandlerStarts(n)
      BY <3>1, ProceedKeepsBarrier DEF HandlerStarts, NotePcs
    <3>2. CASE HandlerSkipped(n)
      BY <3>2, ProceedKeepsBarrier DEF HandlerSkipped, NotePcs
    <3>3. CASE FrameEnds(n)
      BY <3>3, ProceedKeepsBarrier DEF FrameEnds, NotePcs
    <3>4. CASE MarkComplete(n)
      BY <3>4, ProceedKeepsBarrier DEF MarkComplete, NotePcs
    <3>5. CASE Leave(n)
      BY <3>5, ProceedKeepsBarrier DEF Leave, NotePcs
    <3>6. CASE HandlerReturns(n)
      <4>1. InHandler(n)
        BY <3>6 DEF HandlerReturns, Proceed, InHandler
      <4> QED
        BY <3>6, <4>1, ProceedKeepsBarrier DEF HandlerReturns, NotePcs
    <3> QED
      BY <2>5, <3>1, <3>2, <3>3, <3>4, <3>5, <3>6 DEF ProcessingStep
  <2>6. ASSUME NEW r \in Requests, WaitTakes(r) PROVE BarrierInv'
    <3>1. note' \in [Seqs -> NotePcs]
      BY <2>6 DEF WaitTakes, BarrierInv, BarrierTypes, NotePcs
    <3>2. \A n \in Seqs : InHandler(n)' => InHandler(n)
      BY <2>6 DEF WaitTakes, InHandler, BarrierInv, BarrierTypes
    <3>3. delivered \subseteq delivered' /\ delivered' \subseteq Gated
      BY <2>6 DEF WaitTakes, Deliver, BarrierInv, BarrierTypes
    <3> QED
      BY <2>6, <3>1, <3>2, <3>3, BarrierKept DEF WaitTakes
  <2>7. ASSUME NEW r \in Requests,
               Issue(r) \/ WaitEnters(r) \/ WaitLocks(r) \/ WaitSkips(r) \/ WaitEnds(r)
                 \/ WaitReturns(r) \/ WaitLosesConnection(r) \/ WaitGivesUp(r) \/ Abandon(r)
        PROVE  BarrierInv'
    <3>1. UNCHANGED <<note, barrier, precedes>>
      BY <2>7 DEF Issue, WaitEnters, WaitLocks, WaitSkips, WaitEnds, WaitReturns,
                  WaitLosesConnection, WaitGivesUp, Abandon
    <3>2. delivered \subseteq delivered' /\ delivered' \subseteq Gated
      BY <2>7 DEF Issue, WaitEnters, WaitLocks, WaitSkips, WaitEnds, WaitReturns,
                  WaitLosesConnection, WaitGivesUp, Abandon, Deliver, BarrierInv,
                  BarrierTypes
    <3> QED
      BY <3>1, <3>2, BarrierKept DEF BarrierInv, BarrierTypes, InHandler
  <2>8. CASE UNCHANGED vars
    BY <2>8 DEF vars, BarrierInv, BarrierTypes, BarrierCovers, BarrierHolds, InHandler
  <2> QED
    BY <2>1, <2>2, <2>3, <2>4, <2>5, <2>6, <2>7, <2>8 DEF Next, WaitStep
<1>3. BarrierInv => BarrierHolds
  BY DEF BarrierInv
<1> QED
  BY <1>1, <1>2, <1>3, PTL DEF Spec

-----------------------------------------------------------------------------
(* The order: the inductive invariant *)

\* n has been taken from the queue and whoever processes it has not gone on yet.
InProcess(n) == note[n] \in {"gated", "handling", "returned", "marking", "leaving"}

\* The newest notification that has been taken from the queue.
LastTaken == lastEnqueued - Len(queue)

\* The queue holds, in order, what has arrived after the last one taken, for the worker
\* unless a Wait takes it, and no response has counted a notification that has not arrived.
Numbered ==
    /\ LastTaken >= 0
    /\ \A i \in 1..Len(queue) : queue[i] = LastTaken + i
    /\ \A n \in Seqs : note[n] = "none" <=> n > lastEnqueued
    /\ \A n \in Seqs : note[n] = "queued" <=> LastTaken < n /\ n <= lastEnqueued
    /\ \A n \in Seqs : LastTaken < n => runner[n] = Worker
    /\ \A r \in Requests : watermark[r] <= lastEnqueued

\* The prefix and the set beyond it record the notifications that are complete.
Recorded == \A n \in Seqs : Processed(n) <=> note[n] \in {"leaving", "done"}

\* The notifications in process form a call stack: the worker's is the first, and under
\* each there are only finished ones and handlers held up in a Wait.
Stacked ==
    /\ \A m \in Seqs : InProcess(m) =>
          \A n \in 1..(m - 1) : note[n] = "done" \/ (InHandler(n) /\ HeldUp(n))
    /\ \A m \in Seqs : InProcess(m) => worker # 0 /\ worker <= m
    /\ \A m \in Seqs : InProcess(m) =>
          IF runner[m] = Worker THEN worker = m
          ELSE pc[runner[m]] = "nested" /\ next[runner[m]] = m

\* A reentrant Wait holds the lock of the frame of its handler, which is in progress,
\* has seen to every notification between that one and its loop variable, and while it
\* looks for the next one its handler is the top of the stack.
Reentrant(r) ==
    /\ context[r] \in Seqs /\ InHandler(context[r])
    /\ frameLock[context[r]] = r
    /\ context[r] < next[r]
    /\ \A n \in Seqs : context[r] < n /\ n < next[r] => Processed(n)
    /\ pc[r] = "looping" => \A m \in Seqs : InProcess(m) => m <= context[r]

Locked ==
    /\ \A r \in Requests : pc[r] = "locking" => context[r] # 0
    /\ \A r \in Requests : pc[r] \in {"looping", "nested"} => Reentrant(r)
    /\ \A n \in Seqs : frameLock[n] # None =>
          /\ context[frameLock[n]] = n
          /\ pc[frameLock[n]] \in {"looping", "nested"}

OrderInv == TypeOK /\ Numbered /\ Recorded /\ Stacked /\ Locked

-----------------------------------------------------------------------------
(* The operators *)

\* The prefix that is complete is well defined: some number ends it.
LEMMA PrefixEnds ==
    ASSUME NEW S, S \subseteq Seqs
    PROVE  \E m \in 0..MaxNotifications : 1..m \subseteq S /\ m + 1 \notin S
<1> DEFINE T == (1..(MaxNotifications + 1)) \ S
           R == OpToRel(<, Nat)
<1>1. T \subseteq Nat /\ T # {}
  <2>1. MaxNotifications + 1 \in T
    BY BoundsAssumption DEF Seqs
  <2> QED
    BY <2>1, BoundsAssumption
<1>2. PICK t \in T : \A y \in T : ~ (<<y, t>> \in R)
  <2> HIDE DEF T, R
  <2>1. IsWellFoundedOn(R, Nat)
    BY NatLessThanWellFounded DEF R
  <2> QED
    BY <1>1, <2>1, WFMin
<1>3. \A y \in T : ~ (y < t)
  BY <1>1, <1>2 DEF OpToRel
<1>4. t - 1 \in 0..MaxNotifications /\ (t - 1) + 1 \notin S
  BY BoundsAssumption
<1>5. 1..(t - 1) \subseteq S
  BY <1>3, BoundsAssumption
<1> QED
  BY <1>4, <1>5

\* markNotificationComplete: everything up to the number it advances to is complete, and
\* the next one is not.
LEMMA PrefixIsComplete ==
    ASSUME TypeOK, NEW done, done \subseteq Seqs
    PROVE  /\ CompletedPrefix(done) \in 0..MaxNotifications
           /\ 1..CompletedPrefix(done) \subseteq 1..completedSeq \cup done
           /\ CompletedPrefix(done) + 1 \notin 1..completedSeq \cup done
<1> DEFINE S == 1..completedSeq \cup done
<1>1. S \subseteq Seqs
  BY BoundsAssumption DEF TypeOK, Seqs
<1>2. \E m \in 0..MaxNotifications : 1..m \subseteq S /\ m + 1 \notin S
  <2> HIDE DEF S
  <2> QED BY <1>1, PrefixEnds
<1>3. CompletedPrefix(done) =
        CHOOSE m \in 0..MaxNotifications : 1..m \subseteq S /\ m + 1 \notin S
  BY DEF CompletedPrefix
<1> HIDE DEF S
<1>4. /\ CompletedPrefix(done) \in 0..MaxNotifications
      /\ 1..CompletedPrefix(done) \subseteq S
      /\ CompletedPrefix(done) + 1 \notin S
  BY <1>2, <1>3
<1> QED
  BY <1>4 DEF S

\* The head of the queue follows the last one taken, and is the last one taken next.
LEMMA QueueAdvances ==
    ASSUME TypeOK, Numbered, queue # <<>>
    PROVE  /\ Head(queue) = LastTaken + 1 /\ Head(queue) \in Seqs
           /\ Tail(queue) \in Seq(Seqs) /\ Len(Tail(queue)) = Len(queue) - 1
           /\ \A i \in 1..Len(Tail(queue)) : Tail(queue)[i] = LastTaken + 1 + i
<1>1. queue \in Seq(Seqs) /\ Len(queue) \in Nat /\ Len(queue) >= 1
  BY DEF TypeOK
<1>2. Head(queue) = queue[1] /\ Head(queue) \in Seqs
  BY <1>1
<1>3. /\ Tail(queue) \in Seq(Seqs) /\ Len(Tail(queue)) = Len(queue) - 1
      /\ \A i \in 1..Len(Tail(queue)) : Tail(queue)[i] = queue[i + 1]
  BY <1>1, HeadTailProperties
<1>4. LastTaken \in Int
  BY <1>1 DEF TypeOK, LastTaken
<1>5. \A i \in 1..Len(queue) : queue[i] = LastTaken + i
  BY DEF Numbered
<1>6. Head(queue) = LastTaken + 1
  BY <1>1, <1>2, <1>5
<1>7. ASSUME NEW i \in 1..Len(Tail(queue)) PROVE Tail(queue)[i] = LastTaken + 1 + i
  <2>1. i + 1 \in 1..Len(queue)
    BY <1>1, <1>3
  <2> QED
    BY <1>3, <1>4, <1>5, <2>1
<1> QED
  BY <1>2, <1>3, <1>6, <1>7

-----------------------------------------------------------------------------
(* Type correctness *)

LEMMA OrderTypes == ASSUME OrderInv, Next PROVE TypeOK'
<1> USE DEF notifyVars, requestVars
<1>1. CASE NotificationArrives
  <2>1. Arrived \subseteq Gated
    BY DEF Arrived
  <2>2. CASE UNCHANGED <<lastEnqueued, queue, note, barrier, precedes>>
    BY <1>1, <2>2 DEF NotificationArrives, OrderInv, TypeOK
  <2>3. CASE ~UNCHANGED <<lastEnqueued, queue, note, barrier, precedes>>
    <3> DEFINE n == lastEnqueued + 1
    <3>1. /\ lastEnqueued < MaxNotifications
          /\ lastEnqueued' = n /\ queue' = Append(queue, n)
          /\ note' = [note EXCEPT ![n] = "queued"]
          /\ barrier' = [barrier EXCEPT ![n] = Arrived \ delivered]
          /\ precedes' = [precedes EXCEPT ![n] = Arrived]
          /\ UNCHANGED closed
      BY <1>1, <2>3 DEF NotificationArrives
    <3>2. n \in Seqs /\ n \in 0..MaxNotifications
      BY <3>1, BoundsAssumption DEF OrderInv, TypeOK, Seqs
    <3>3. Append(queue, n) \in Seq(Seqs)
      BY <3>2 DEF OrderInv, TypeOK
    <3> HIDE DEF n
    <3>4. note' \in [Seqs -> NotePcs]
      BY <3>1 DEF OrderInv, TypeOK, NotePcs
    <3>5. barrier' \in [Seqs -> SUBSET Gated] /\ precedes' \in [Seqs -> SUBSET Gated]
      BY <2>1, <3>1 DEF OrderInv, TypeOK
    <3> QED
      BY <1>1, <3>1, <3>2, <3>3, <3>4, <3>5 DEF NotificationArrives, OrderInv, TypeOK
  <2> QED
    BY <2>2, <2>3
<1>2. CASE Close
  BY <1>2 DEF Close, OrderInv, TypeOK
<1>3. CASE WorkerTakes
  <2>1. Head(queue) \in Seqs /\ Tail(queue) \in Seq(Seqs)
    BY <1>3, QueueAdvances DEF WorkerTakes, OrderInv
  <2>2. Head(queue) \in 0..MaxNotifications
    BY <2>1 DEF Seqs
  <2>3. note' \in [Seqs -> NotePcs]
    BY <1>3 DEF WorkerTakes, OrderInv, TypeOK, NotePcs
  <2> QED
    BY <1>3, <2>1, <2>2, <2>3 DEF WorkerTakes, OrderInv, TypeOK
<1>4. ASSUME NEW n \in Seqs, HandlerStarts(n) \/ HandlerSkipped(n) \/ FrameEnds(n)
                               \/ HandlerReturns(n)
      PROVE  TypeOK'
  <2>1. note' \in [Seqs -> NotePcs]
    BY <1>4 DEF HandlerStarts, HandlerSkipped, FrameEnds, HandlerReturns, Proceed, OrderInv,
                TypeOK, NotePcs
  <2> QED
    BY <1>4, <2>1 DEF HandlerStarts, HandlerSkipped, FrameEnds, HandlerReturns, OrderInv, TypeOK
<1>5. ASSUME NEW n \in Seqs, MarkComplete(n) PROVE TypeOK'
  <2>1. completed \cup {n} \subseteq Seqs
    BY DEF OrderInv, TypeOK
  <2>2. completedSeq' \in 0..MaxNotifications
    BY <1>5, <2>1, PrefixIsComplete DEF MarkComplete, OrderInv
  <2>3. completed' \subseteq Seqs
    BY <1>5, <2>1 DEF MarkComplete
  <2>4. note' \in [Seqs -> NotePcs]
    BY <1>5 DEF MarkComplete, Proceed, OrderInv, TypeOK, NotePcs
  <2> QED
    BY <1>5, <2>2, <2>3, <2>4 DEF MarkComplete, OrderInv, TypeOK
<1>6. ASSUME NEW n \in Seqs, Leave(n) PROVE TypeOK'
  <2>1. note' \in [Seqs -> NotePcs]
    BY <1>6 DEF Leave, Proceed, OrderInv, TypeOK, NotePcs
  <2>2. worker' \in 0..MaxNotifications
    BY <1>6, BoundsAssumption DEF Leave, OrderInv, TypeOK
  <2>3. pc' \in [Requests -> WaitPcs]
    <3>1. pc' = pc \/ pc' = [pc EXCEPT ![runner[n]] = "looping"]
      BY <1>6 DEF Leave
    <3> QED
      BY <3>1 DEF OrderInv, TypeOK, WaitPcs
  <2>4. next' \in [Requests -> Nat]
    <3>1. CASE runner[n] = Worker
      BY <1>6, <3>1 DEF Leave, OrderInv, TypeOK
    <3>2. CASE runner[n] # Worker
      <4>1. runner[n] \in Requests /\ next[runner[n]] + 1 \in Nat
        BY <3>2 DEF OrderInv, TypeOK
      <4> QED
        BY <1>6, <3>2, <4>1 DEF Leave, OrderInv, TypeOK
    <3> QED
      BY <3>1, <3>2
  <2> QED
    BY <1>6, <2>1, <2>2, <2>3, <2>4 DEF Leave, OrderInv, TypeOK
<1>7. ASSUME NEW r \in Requests, Issue(r) PROVE TypeOK'
  <2>1. context' \in [Requests -> 0..MaxNotifications]
    <3>1. Seqs \subseteq 0..MaxNotifications
      BY DEF Seqs
    <3> QED
      BY <1>7, <3>1 DEF Issue, OrderInv, TypeOK
  <2>2. pc' \in [Requests -> WaitPcs]
    BY <1>7 DEF Issue, Goto, OrderInv, TypeOK, WaitPcs
  <2> QED
    BY <1>7, <2>1, <2>2 DEF Issue, OrderInv, TypeOK
<1>8. ASSUME NEW r \in Requests, ResponseArrives(r) PROVE TypeOK'
  BY <1>8 DEF ResponseArrives, Watermark, OrderInv, TypeOK
<1>9. ASSUME NEW r \in Requests, WaitStep(r) \/ WaitGivesUp(r) \/ Abandon(r) PROVE TypeOK'
  <2>1. pc' \in [Requests -> WaitPcs]
    BY <1>9 DEF WaitStep, WaitEnters, WaitLocks, WaitSkips, WaitTakes, WaitEnds, WaitReturns,
                WaitLosesConnection, WaitGivesUp, Abandon, Goto, OrderInv, TypeOK, WaitPcs
  <2>2. frameLock' \in [Seqs -> Requests \cup {None}]
    BY <1>9 DEF WaitStep, WaitEnters, WaitLocks, WaitSkips, WaitTakes, WaitEnds, WaitReturns,
                WaitLosesConnection, WaitGivesUp, Abandon, Unlock, OrderInv, TypeOK
  <2>3. next' \in [Requests -> Nat]
    <3>1. context[r] + 1 \in Nat /\ next[r] + 1 \in Nat
      BY DEF OrderInv, TypeOK
    <3> QED
      BY <1>9, <3>1 DEF WaitStep, WaitEnters, WaitLocks, WaitSkips, WaitTakes, WaitEnds,
                  WaitReturns, WaitLosesConnection, WaitGivesUp, Abandon, OrderInv, TypeOK
  <2>4. delivered' \subseteq Gated
    BY <1>9 DEF WaitStep, WaitEnters, WaitLocks, WaitSkips, WaitTakes, WaitEnds, WaitReturns,
                WaitLosesConnection, WaitGivesUp, Abandon, Deliver, OrderInv, TypeOK
  <2>5. CASE WaitTakes(r)
    <3>1. Tail(queue) \in Seq(Seqs)
      BY <2>5, QueueAdvances DEF WaitTakes, OrderInv
    <3>2. note' \in [Seqs -> NotePcs]
      BY <2>5 DEF WaitTakes, OrderInv, TypeOK, NotePcs
    <3>3. runner' \in [Seqs -> Requests \cup {Worker}] /\ closed' \in BOOLEAN
      BY <2>5 DEF WaitTakes, OrderInv, TypeOK
    <3> QED
      BY <2>5, <2>1, <2>2, <2>3, <2>4, <3>1, <3>2, <3>3 DEF WaitTakes, OrderInv, TypeOK
  <2>6. CASE ~WaitTakes(r)
    <3>1. UNCHANGED <<closed, notifyVars, note, runner, worker, context, watermark>>
      BY <1>9, <2>6 DEF WaitStep, WaitEnters, WaitLocks, WaitSkips, WaitEnds, WaitReturns,
                        WaitLosesConnection, WaitGivesUp, Abandon
    <3> QED
      BY <2>1, <2>2, <2>3, <2>4, <3>1 DEF OrderInv, TypeOK
  <2> QED
    BY <2>5, <2>6
<1> QED
  BY <1>1, <1>2, <1>3, <1>4, <1>5, <1>6, <1>7, <1>8, <1>9 DEF Next, ProcessingStep

-----------------------------------------------------------------------------
(* What the invariant says of the stack *)

\* Nothing lies under a notification in process but finished ones and held-up handlers,
\* so of two in process the earlier one is a handler held up by the later one.
LEMMA EarlierIsHeldUp ==
    ASSUME OrderInv, NEW m \in Seqs, NEW n \in Seqs, InProcess(m), InProcess(n), n < m
    PROVE  InHandler(n) /\ HeldUp(n)
<1>1. n \in 1..(m - 1)
  BY DEF Seqs
<1> QED
  BY <1>1 DEF OrderInv, Stacked, InProcess

\* A notification that is not a handler held up in a Wait is the top of the stack.
LEMMA FreeIsLast ==
    ASSUME OrderInv, NEW n \in Seqs, InProcess(n), ~(InHandler(n) /\ HeldUp(n))
    PROVE  \A m \in Seqs : InProcess(m) => m <= n
<1> SUFFICES ASSUME NEW m \in Seqs, InProcess(m), ~(m <= n) PROVE FALSE
  OBVIOUS
<1>1. n < m
  BY DEF Seqs
<1> QED
  BY <1>1, EarlierIsHeldUp

\* A reentrant wait that needs another notification finds it at the head of the queue.
LEMMA NextFollows ==
    ASSUME OrderInv, NEW r \in Requests, pc[r] = "looping", next[r] <= watermark[r],
           ~Processed(next[r])
    PROVE  /\ queue # <<>> /\ Head(queue) = next[r] /\ next[r] = LastTaken + 1
           /\ next[r] \in Seqs
<1> USE BoundsAssumption DEF Seqs
<1>1. Reentrant(r)
  BY DEF OrderInv, Locked
<1>2. /\ lastEnqueued \in 0..MaxNotifications /\ Len(queue) \in Nat
      /\ watermark[r] \in Int /\ watermark[r] <= lastEnqueued
      /\ next[r] \in Nat
  BY DEF OrderInv, TypeOK, Numbered
<1>3. next[r] \in Seqs /\ context[r] \in Seqs /\ context[r] < next[r]
  BY <1>1, <1>2 DEF Reentrant
<1>4. ~InProcess(next[r])
  BY <1>1, <1>3 DEF Reentrant
<1>5. note[next[r]] = "queued"
  BY <1>2, <1>3, <1>4 DEF OrderInv, TypeOK, NotePcs, Recorded, Numbered, InProcess
<1>6. LastTaken \in Int /\ LastTaken < next[r] /\ next[r] <= lastEnqueued
  BY <1>2, <1>3, <1>5 DEF OrderInv, Numbered, LastTaken
<1>7. \A n \in Seqs : n < next[r] => note[n] # "queued"
  <2>1. \A n \in Seqs : context[r] < n /\ n < next[r] => note[n] \in {"leaving", "done"}
    BY <1>1 DEF Reentrant, OrderInv, Recorded
  <2>2. \A n \in 1..(context[r] - 1) : note[n] = "done" \/ InHandler(n)
    BY <1>1 DEF Reentrant, OrderInv, Stacked, InHandler, InProcess
  <2>3. InHandler(context[r])
    BY <1>1 DEF Reentrant
  <2> QED
    BY <1>3, <2>1, <2>2, <2>3 DEF InHandler
<1>8. next[r] = LastTaken + 1
  <2> SUFFICES ASSUME LastTaken + 1 < next[r] PROVE FALSE
    BY <1>3, <1>6
  <2>1. LastTaken + 1 \in Seqs /\ LastTaken + 1 <= lastEnqueued
    BY <1>2, <1>6 DEF OrderInv, Numbered
  <2>2. note[LastTaken + 1] = "queued"
    BY <1>6, <2>1 DEF OrderInv, Numbered
  <2> QED
    BY <1>7, <2>1, <2>2
<1>9. queue # <<>>
  <2> SUFFICES ASSUME Len(queue) = 0 PROVE FALSE
    OBVIOUS
  <2> QED
    BY <1>2, <1>6 DEF LastTaken
<1> QED
  BY <1>3, <1>8, <1>9, QueueAdvances DEF OrderInv

-----------------------------------------------------------------------------
(* The steps *)

\* A step of a Wait that does not nest, and that gives back the lock it may have held.
LEMMA WaitStepKeeps ==
    ASSUME OrderInv, TypeOK', NEW r \in Requests,
           pc[r] # "nested", pc'[r] \notin {"looping", "nested"},
           pc'[r] = "locking" => context'[r] # 0,
           \A q \in Requests \ {r} : pc'[q] = pc[q] /\ context'[q] = context[q],
           \A n \in Seqs : frameLock'[n] = IF frameLock[n] = r THEN None ELSE frameLock[n],
           UNCHANGED <<lastEnqueued, queue, completedSeq, completed, note, runner, worker,
                       watermark, next>>
    PROVE  OrderInv'
<1>1. Numbered' /\ Recorded'
  BY DEF OrderInv, Numbered, LastTaken, Recorded, Processed
<1>2. \A n \in Seqs : /\ InHandler(n)' <=> InHandler(n)
                      /\ InProcess(n)' <=> InProcess(n)
                      /\ HeldUp(n) => HeldUp(n)'
  BY DEF InHandler, InProcess, HeldUp
<1>3. Stacked'
  <2>1. \A m \in Seqs : 1..(m - 1) \subseteq Seqs
    BY BoundsAssumption DEF Seqs
  <2>2. \A m \in Seqs : InProcess(m) /\ runner[m] # Worker =>
          pc'[runner[m]] = "nested" /\ next[runner[m]] = m
    BY DEF OrderInv, TypeOK, Stacked
  <2>3. ASSUME NEW m \in Seqs, InProcess(m), NEW n \in 1..(m - 1)
        PROVE  note'[n] = "done" \/ (InHandler(n)' /\ HeldUp(n)')
    <3>1. note[n] = "done" \/ (InHandler(n) /\ HeldUp(n))
      BY <2>3 DEF OrderInv, Stacked
    <3>2. n \in Seqs
      BY <2>1
    <3> QED
      BY <3>1, <3>2 DEF InHandler, HeldUp
  <2>4. \A m \in Seqs : InProcess(m) => worker # 0 /\ worker <= m
    BY DEF OrderInv, Stacked
  <2>5. \A m \in Seqs : InProcess(m) /\ runner[m] = Worker => worker = m
    BY DEF OrderInv, Stacked
  <2> QED
    BY <2>2, <2>3, <2>4, <2>5 DEF Stacked, InProcess
<1>4. Locked'
  <2>1. ASSUME NEW q \in Requests, pc'[q] \in {"looping", "nested"} PROVE Reentrant(q)'
    <3>1. q # r /\ Reentrant(q)
      BY <2>1 DEF OrderInv, Locked
    <3>2. context'[q] = context[q] /\ pc'[q] = pc[q]
      BY <3>1
    <3>3. context[q] \in Seqs /\ frameLock'[context[q]] = q
      BY <3>1 DEF Reentrant
    <3>4. note'[context'[q]] \in {"handling", "returned"}
      BY <3>1, <3>2 DEF Reentrant, InHandler
    <3>5. /\ context[q] < next[q]
          /\ \A n \in Seqs : context[q] < n /\ n < next[q] => Processed(n)
          /\ pc[q] = "looping" => \A m \in Seqs : InProcess(m) => m <= context[q]
      BY <3>1 DEF Reentrant
    <3> QED
      BY <3>2, <3>3, <3>4, <3>5 DEF Reentrant, Processed, InHandler, InProcess
  <2>2. ASSUME NEW n \in Seqs, frameLock'[n] # None
        PROVE  /\ context'[frameLock'[n]] = n
               /\ pc'[frameLock'[n]] \in {"looping", "nested"}
    <3>1. frameLock'[n] = frameLock[n] /\ frameLock[n] \in Requests \ {r}
      BY <2>2 DEF OrderInv, TypeOK
    <3> QED
      BY <2>2, <3>1 DEF OrderInv, Locked
  <2>3. \A q \in Requests : pc'[q] = "locking" => context'[q] # 0
    BY DEF OrderInv, Locked
  <2> QED
    BY <2>1, <2>2, <2>3 DEF Locked
<1> QED
  BY <1>1, <1>3, <1>4 DEF OrderInv

\* A step of n's processing, after which it is in process still and its handler is not
\* over while a Wait holds the lock of its frame.
LEMMA ProcessingStepKeeps ==
    ASSUME OrderInv, TypeOK', Recorded', NEW n \in Seqs, NEW from, NEW to,
           from \in {"gated", "handling", "returned", "marking"},
           to \in {"gated", "handling", "returned", "marking", "leaving"},
           Proceed(n, from, to),
           InHandler(n) /\ frameLock[n] # None => to \in {"handling", "returned"},
           UNCHANGED <<lastEnqueued, queue, runner, worker, frameLock, pc, context, watermark,
                       next>>
    PROVE  OrderInv'
<1>1. /\ note[n] = from /\ note'[n] = to
      /\ \A m \in Seqs : m # n => note'[m] = note[m]
  BY DEF Proceed, OrderInv, TypeOK
<1>2. Numbered'
  BY <1>1 DEF OrderInv, Numbered, LastTaken
<1>3. /\ \A m \in Seqs : InProcess(m)' <=> InProcess(m)
      /\ \A m \in Seqs : HeldUp(m)' <=> HeldUp(m)
      /\ \A m \in Seqs : note[m] = "done" => note'[m] = "done"
      /\ \A m \in Seqs : Processed(m) => Processed(m)'
  BY <1>1 DEF InProcess, HeldUp, OrderInv, Recorded
<1>4. \A m \in Seqs : InHandler(m) /\ frameLock[m] # None => InHandler(m)'
  BY <1>1 DEF InHandler
<1>5. \A m \in Seqs : HeldUp(m) => frameLock[m] # None
  BY RequestsAssumption DEF HeldUp
<1>6. Stacked'
  <2>1. \A m \in Seqs : 1..(m - 1) \subseteq Seqs
    BY BoundsAssumption DEF Seqs
  <2> QED
    BY <1>3, <1>4, <1>5, <2>1 DEF OrderInv, Stacked
<1>7. Locked'
  <2>1. ASSUME NEW q \in Requests, Reentrant(q) PROVE Reentrant(q)'
    BY <1>3, <1>4, <2>1, RequestsAssumption DEF Reentrant
  <2> QED
    BY <2>1 DEF OrderInv, Locked
<1> QED
  BY <1>2, <1>6, <1>7 DEF OrderInv

\* No notification but those that nobody has taken changes its place.
NobodyTakes ==
    \A n \in Seqs :
        \/ note'[n] = note[n]
        \/ note[n] \in {"none", "queued"} /\ note'[n] \in {"none", "queued"}

\* What arrives changes nothing of the stack.
LEMMA StackUntouched ==
    ASSUME OrderInv, NobodyTakes,
           UNCHANGED <<completedSeq, completed, runner, worker, frameLock, pc, context, next>>
    PROVE  Recorded' /\ Stacked' /\ Locked'
<1>1. Recorded'
  BY DEF NobodyTakes, OrderInv, Recorded, Processed
<1>2. \A n \in Seqs : n \in Nat /\ 1..(n - 1) \subseteq Seqs
  BY BoundsAssumption DEF Seqs
<1>3. Stacked'
  <2>1. ASSUME NEW m \in Seqs, InProcess(m)' PROVE InProcess(m)
    BY <2>1 DEF NobodyTakes, InProcess
  <2>2. ASSUME NEW n \in Seqs, note[n] = "done" \/ (InHandler(n) /\ HeldUp(n))
        PROVE  note'[n] = "done" \/ (InHandler(n)' /\ HeldUp(n)')
    BY <2>2 DEF NobodyTakes, InHandler, HeldUp
  <2>3. ASSUME NEW m \in Seqs, InProcess(m)', NEW n \in 1..(m - 1)
        PROVE  note'[n] = "done" \/ (InHandler(n)' /\ HeldUp(n)')
    <3>1. note[n] = "done" \/ (InHandler(n) /\ HeldUp(n))
      BY <2>1, <2>3 DEF OrderInv, Stacked
    <3> QED
      BY <1>2, <2>2, <3>1
  <2>4. ASSUME NEW m \in Seqs, InProcess(m)'
        PROVE  /\ worker' # 0 /\ worker' <= m
               /\ IF runner'[m] = Worker THEN worker' = m
                  ELSE pc'[runner'[m]] = "nested" /\ next'[runner'[m]] = m
    BY <2>1, <2>4 DEF OrderInv, Stacked
  <2> QED
    BY <2>3, <2>4 DEF Stacked
<1>4. Locked'
  <2>1. ASSUME NEW q \in Requests, Reentrant(q) PROVE Reentrant(q)'
    BY <2>1 DEF NobodyTakes, Reentrant, Processed, InHandler, InProcess
  <2> QED
    BY <2>1 DEF OrderInv, Locked
<1> QED
  BY <1>1, <1>3, <1>4

\* enqueueNotification and handleResponse keep the invariant.
LEMMA ArrivalKeeps ==
    ASSUME OrderInv, TypeOK',
           NotificationArrives \/ Close \/ \E r \in Requests : ResponseArrives(r)
    PROVE  OrderInv'
<1> USE DEF notifyVars, requestVars
<1>1. /\ lastEnqueued \in 0..MaxNotifications /\ queue \in Seq(Seqs) /\ Len(queue) \in Nat
      /\ watermark \in [Requests -> -1..MaxNotifications]
      /\ note \in [Seqs -> NotePcs]
  BY DEF OrderInv, TypeOK
<1>2. CASE UNCHANGED <<lastEnqueued, queue, note>>
  <2>0. UNCHANGED <<completedSeq, completed, runner, worker, frameLock, pc, context, next>>
    BY DEF NotificationArrives, Close, ResponseArrives
  <2>1. Recorded' /\ Stacked' /\ Locked'
    <3>1. NobodyTakes
      BY <1>2 DEF NobodyTakes
    <3> QED
      BY <2>0, <3>1, StackUntouched
  <2>2. \A r \in Requests : watermark'[r] <= lastEnqueued
    BY <1>1 DEF NotificationArrives, Close, ResponseArrives, Watermark, OrderInv, Numbered
  <2>3. Numbered'
    BY <1>2, <2>0, <2>2 DEF OrderInv, Numbered, LastTaken
  <2> QED
    BY <2>1, <2>3 DEF OrderInv
<1>3. CASE ~UNCHANGED <<lastEnqueued, queue, note>>
  <2> DEFINE n == lastEnqueued + 1
  <2>1. /\ NotificationArrives /\ lastEnqueued < MaxNotifications
        /\ lastEnqueued' = n /\ queue' = Append(queue, n)
        /\ note' = [note EXCEPT ![n] = "queued"]
        /\ UNCHANGED <<completedSeq, completed, runner, worker, frameLock, pc, context,
                       watermark, next>>
    BY <1>3 DEF NotificationArrives, Close, ResponseArrives
  <2>2. n \in Seqs
    BY <1>1, <2>1, BoundsAssumption DEF Seqs
  <2>3. /\ Len(queue') = Len(queue) + 1
        /\ \A i \in 1..Len(queue) : queue'[i] = queue[i]
        /\ queue'[Len(queue) + 1] = n
    BY <1>1, <2>1, <2>2
  <2>4. /\ note[n] = "none" /\ note'[n] = "queued"
        /\ \A k \in Seqs : k # n => note'[k] = note[k]
    BY <1>1, <2>1, <2>2 DEF OrderInv, Numbered
  <2>5. Recorded' /\ Stacked' /\ Locked'
    <3>1. NobodyTakes
      BY <2>4 DEF NobodyTakes
    <3>2. UNCHANGED <<completedSeq, completed, runner, worker, frameLock, pc, context, next>>
      BY <2>1
    <3> QED
      BY <3>1, <3>2, StackUntouched
  <2>6. LastTaken' = LastTaken /\ LastTaken \in Int
    BY <1>1, <2>1, <2>3 DEF LastTaken
  <2>7. \A i \in 1..Len(queue') : queue'[i] = LastTaken + i
    <3>1. n = LastTaken + Len(queue) + 1
      BY <1>1 DEF LastTaken
    <3>2. \A i \in 1..Len(queue) : queue[i] = LastTaken + i
      BY DEF OrderInv, Numbered
    <3> SUFFICES ASSUME NEW i \in 1..Len(queue') PROVE queue'[i] = LastTaken + i
      OBVIOUS
    <3>3. i \in 1..Len(queue) \/ i = Len(queue) + 1
      BY <1>1, <2>3
    <3>4. CASE i \in 1..Len(queue)
      BY <2>3, <3>2, <3>4
    <3>5. CASE i = Len(queue) + 1
      <4> HIDE DEF n
      <4> QED
        BY <1>1, <2>3, <2>6, <3>1, <3>5
    <3> QED
      BY <3>3, <3>4, <3>5
  <2>8. \A k \in Seqs : /\ note'[k] = "none" <=> k > n
                        /\ note'[k] = "queued" <=> LastTaken < k /\ k <= n
    <3>1. \A k \in Seqs : /\ note[k] = "none" <=> k > lastEnqueued
                          /\ note[k] = "queued" <=> LastTaken < k /\ k <= lastEnqueued
      BY DEF OrderInv, Numbered
    <3>2. LastTaken < n
      BY <1>1 DEF LastTaken
    <3> QED
      BY <1>1, <2>4, <2>6, <3>1, <3>2, SMTT(30) DEF Seqs
  <2>9. \A r \in Requests : watermark'[r] <= n
    BY <1>1, <2>1 DEF OrderInv, Numbered
  <2>10. Numbered'
    BY <2>1, <2>6, <2>7, <2>8, <2>9 DEF OrderInv, Numbered
  <2> QED
    BY <2>5, <2>10 DEF OrderInv
<1> QED
  BY <1>2, <1>3

\* Whoever takes the head of the queue leaves it numbered, and everything before the head
\* has been taken.
LEMMA TakingKeepsNumbers ==
    ASSUME OrderInv, queue # <<>>, NEW n, n = Head(queue),
           queue' = Tail(queue), note' = [note EXCEPT ![n] = "gated"],
           \A k \in Seqs : k # n => runner'[k] = runner[k],
           UNCHANGED <<lastEnqueued, completedSeq, completed, watermark>>
    PROVE  /\ Numbered' /\ Recorded'
           /\ n \in Seqs /\ note[n] = "queued" /\ runner[n] = Worker
           /\ note'[n] = "gated" /\ \A k \in Seqs : k # n => note'[k] = note[k]
           /\ \A k \in Seqs : k < n => note[k] \notin {"none", "queued"}
<1>1. /\ n = LastTaken + 1 /\ n \in Seqs
      /\ Len(queue') = Len(queue) - 1
      /\ \A i \in 1..Len(queue') : queue'[i] = LastTaken + 1 + i
  BY QueueAdvances DEF OrderInv
<1>2. /\ Len(queue) \in Nat /\ lastEnqueued \in Nat /\ LastTaken \in Nat
      /\ LastTaken' = LastTaken + 1
  BY <1>1 DEF OrderInv, TypeOK, Numbered, LastTaken
<1>3. /\ note'[n] = "gated" /\ \A k \in Seqs : k # n => note'[k] = note[k]
  BY <1>1 DEF OrderInv, TypeOK
<1>4. n <= lastEnqueued
  <2>1. Len(queue) >= 1
    BY <1>2 DEF OrderInv, TypeOK
  <2> QED
    BY <1>1, <1>2, <2>1 DEF LastTaken
<1>5. \A k \in Seqs : /\ note[k] = "none" <=> k > lastEnqueued
                      /\ note[k] = "queued" <=> LastTaken < k /\ k <= lastEnqueued
  BY DEF OrderInv, Numbered
<1>6. Numbered'
  <2>1. \A k \in Seqs : /\ note'[k] = "none" <=> k > lastEnqueued
                        /\ note'[k] = "queued" <=> LastTaken + 1 < k /\ k <= lastEnqueued
    BY <1>1, <1>2, <1>3, <1>4, <1>5 DEF Seqs
  <2>2. /\ \A k \in Seqs : LastTaken < k => runner[k] = Worker
        /\ \A r \in Requests : watermark[r] <= lastEnqueued
    BY DEF OrderInv, Numbered
  <2>3. \A k \in Seqs : LastTaken + 1 < k => LastTaken < k /\ k # n
    BY <1>1, <1>2 DEF Seqs
  <2> QED
    BY <1>1, <1>2, <2>1, <2>2, <2>3 DEF Numbered
<1>7. note[n] = "queued" /\ runner[n] = Worker
  BY <1>1, <1>2, <1>4, <1>5 DEF OrderInv, Numbered
<1>8. Recorded'
  BY <1>3, <1>7 DEF OrderInv, Recorded, Processed
<1>9. \A k \in Seqs : k < n => note[k] \notin {"none", "queued"}
  BY <1>1, <1>2, <1>4, <1>5 DEF Seqs
<1> QED
  BY <1>1, <1>3, <1>6, <1>7, <1>8, <1>9

\* The worker takes a notification when none is in process.
LEMMA WorkerTakesKeeps == ASSUME OrderInv, TypeOK', WorkerTakes PROVE OrderInv'
<1> USE DEF notifyVars, requestVars
<1>0. PICK n : Head(queue) = n
  OBVIOUS
<1>1. /\ worker = 0 /\ queue # <<>>
      /\ worker' = n /\ queue' = Tail(queue) /\ note' = [note EXCEPT ![n] = "gated"]
      /\ UNCHANGED <<lastEnqueued, completedSeq, completed, runner, frameLock, pc, context,
                     watermark, next>>
  BY <1>0 DEF WorkerTakes
<1>2. /\ Numbered' /\ Recorded'
      /\ n \in Seqs /\ runner[n] = Worker
      /\ note'[n] = "gated" /\ \A k \in Seqs : k # n => note'[k] = note[k]
      /\ \A k \in Seqs : k < n => note[k] \notin {"none", "queued"}
  <2>1. queue # <<>> /\ queue' = Tail(queue) /\ note' = [note EXCEPT ![n] = "gated"]
    BY <1>1
  <2>2. UNCHANGED <<lastEnqueued, completedSeq, completed, watermark>>
    BY <1>1
  <2>3. \A k \in Seqs : k # n => runner'[k] = runner[k]
    BY <1>1
  <2>4. Numbered' /\ Recorded' /\ n \in Seqs /\ runner[n] = Worker
    BY <1>0, <2>1, <2>2, <2>3, TakingKeepsNumbers
  <2>5. note'[n] = "gated" /\ \A k \in Seqs : k # n => note'[k] = note[k]
    BY <2>1, <2>4 DEF OrderInv, TypeOK
  <2>6. \A k \in Seqs : k < n => note[k] \notin {"none", "queued"}
    BY <1>0, <2>1, <2>2, <2>3, TakingKeepsNumbers
  <2> QED
    BY <2>4, <2>5, <2>6
<1>3. \A k \in Seqs : ~InProcess(k)
  BY <1>1 DEF OrderInv, Stacked
<1>4. \A r \in Requests : pc[r] \notin {"looping", "nested"}
  BY <1>3 DEF OrderInv, Locked, Reentrant, InHandler, InProcess
<1>5. Stacked'
  <2>1. \A k \in 1..(n - 1) : note'[k] = "done"
    <3> SUFFICES ASSUME NEW k \in 1..(n - 1) PROVE note'[k] = "done"
      OBVIOUS
    <3>1. k \in Seqs /\ k < n
      BY <1>2, BoundsAssumption DEF Seqs
    <3> QED
      BY <1>2, <1>3, <3>1 DEF InProcess, OrderInv, TypeOK, NotePcs
  <2>2. \A m \in Seqs : InProcess(m)' => m = n
    BY <1>2, <1>3 DEF InProcess
  <2>3. n # 0 /\ n <= n
    BY <1>2 DEF Seqs
  <2> QED
    BY <1>1, <1>2, <2>1, <2>2, <2>3 DEF Stacked
<1>6. Locked'
  <2>1. \A k \in Seqs : frameLock[k] = None
    BY <1>4 DEF OrderInv, TypeOK, Locked
  <2>2. \A r \in Requests : pc[r] = "locking" => context[r] # 0
    BY DEF OrderInv, Locked
  <2> QED
    BY <1>1, <1>4, <2>1, <2>2 DEF Locked
<1> QED
  BY <1>2, <1>5, <1>6 DEF OrderInv

\* A notification whose frame is locked by a Wait is a handler in progress.
LEMMA LockedIsHandled ==
    ASSUME OrderInv, NEW n \in Seqs, frameLock[n] # None PROVE InHandler(n)
<1>1. frameLock[n] \in Requests /\ context[frameLock[n]] = n /\ Reentrant(frameLock[n])
  BY DEF OrderInv, TypeOK, Locked
<1> QED
  BY <1>1 DEF Reentrant

\* The steps of processNotification up to the budget's return keep the invariant.
LEMMA HandlingKeeps ==
    ASSUME OrderInv, TypeOK', NEW n \in Seqs,
           HandlerStarts(n) \/ HandlerSkipped(n) \/ HandlerReturns(n) \/ FrameEnds(n)
             \/ MarkComplete(n)
    PROVE  OrderInv'
<1> USE DEF notifyVars, requestVars
<1>1. UNCHANGED <<lastEnqueued, queue, runner, worker, frameLock, pc, context, watermark, next>>
  BY DEF HandlerStarts, HandlerSkipped, HandlerReturns, FrameEnds, MarkComplete
<1>2. ASSUME NEW from, NEW to, Proceed(n, from, to), from # "leaving", to # "leaving",
             from # "done", to # "done", UNCHANGED <<completedSeq, completed>>
      PROVE  Recorded'
  <2>1. /\ note[n] = from /\ note'[n] = to
        /\ \A m \in Seqs : m # n => note'[m] = note[m]
    BY <1>2 DEF Proceed, OrderInv, TypeOK
  <2> QED
    BY <1>2, <2>1 DEF OrderInv, Recorded, Processed
<1>3. CASE HandlerStarts(n)
  <2>1. Proceed(n, "gated", "handling") /\ UNCHANGED <<completedSeq, completed>>
    BY <1>3 DEF HandlerStarts
  <2> QED
    BY <1>1, <1>2, <2>1, ProcessingStepKeeps
<1>4. CASE HandlerSkipped(n)
  <2>1. Proceed(n, "gated", "marking") /\ UNCHANGED <<completedSeq, completed>>
    BY <1>4 DEF HandlerSkipped
  <2>2. ~InHandler(n)
    BY <2>1 DEF Proceed, InHandler
  <2> QED
    BY <1>1, <1>2, <2>1, <2>2, ProcessingStepKeeps
<1>5. CASE HandlerReturns(n)
  <2>1. Proceed(n, "handling", "returned") /\ UNCHANGED <<completedSeq, completed>>
    BY <1>5 DEF HandlerReturns
  <2> QED
    BY <1>1, <1>2, <2>1, ProcessingStepKeeps
<1>6. CASE FrameEnds(n)
  <2>1. /\ Proceed(n, "returned", "marking") /\ UNCHANGED <<completedSeq, completed>>
        /\ frameLock[n] = None
    BY <1>6 DEF FrameEnds, MayDeactivate
  <2> QED
    BY <1>1, <1>2, <2>1, ProcessingStepKeeps
<1>7. CASE MarkComplete(n)
  <2> DEFINE done == completed \cup {n}
  <2>1. /\ Proceed(n, "marking", "leaving")
        /\ completedSeq' = CompletedPrefix(done)
        /\ completed' = done \ 1..completedSeq'
    BY <1>7 DEF MarkComplete
  <2>2. /\ completedSeq' \in 0..MaxNotifications
        /\ 1..completedSeq' \subseteq 1..completedSeq \cup done
        /\ completedSeq' + 1 \notin 1..completedSeq
    <3>1. done \subseteq Seqs
      BY DEF OrderInv, TypeOK
    <3> HIDE DEF done
    <3> QED
      BY <2>1, <3>1, PrefixIsComplete DEF OrderInv
  <2>3. completedSeq \in 0..MaxNotifications /\ completedSeq <= completedSeq'
    <3>1. completedSeq \in 0..MaxNotifications
      BY DEF OrderInv, TypeOK
    <3>2. completedSeq' \in 0..MaxNotifications /\ completedSeq' + 1 \notin 1..completedSeq
      BY <2>2
    <3>3. ASSUME NEW c \in 0..MaxNotifications, NEW d \in 0..MaxNotifications,
                 d + 1 \notin 1..c
          PROVE  c <= d
      BY <3>3, BoundsAssumption
    <3> QED
      BY <3>1, <3>2, <3>3
  <2>4. \A m \in Seqs : Processed(m)' <=> Processed(m) \/ m = n
    <3> SUFFICES ASSUME NEW m \in Seqs PROVE Processed(m)' <=> Processed(m) \/ m = n
      OBVIOUS
    <3>1. m \in 1..completedSeq' <=> completedSeq' >= m
      BY <2>2, BoundsAssumption DEF Seqs
    <3>2. m \in 1..completedSeq <=> completedSeq >= m
      BY <2>3, BoundsAssumption DEF Seqs
    <3>3. completedSeq >= m => completedSeq' >= m
      BY <2>2, <2>3, BoundsAssumption DEF Seqs
    <3> QED
      BY <2>1, <2>2, <3>1, <3>2, <3>3 DEF Processed
  <2>5. /\ note[n] = "marking" /\ note'[n] = "leaving"
        /\ \A m \in Seqs : m # n => note'[m] = note[m]
    BY <2>1 DEF Proceed, OrderInv, TypeOK
  <2>6. Recorded'
    BY <2>4, <2>5 DEF OrderInv, Recorded
  <2>7. ~InHandler(n)
    BY <2>5 DEF InHandler
  <2> QED
    BY <1>1, <2>1, <2>6, <2>7, ProcessingStepKeeps
<1> QED
  BY <1>3, <1>4, <1>5, <1>6, <1>7

\* The steps of a Wait that give the frame back, or that need none, keep the invariant.
LEMMA WaitingKeeps ==
    ASSUME OrderInv, TypeOK', NEW r \in Requests,
           Issue(r) \/ WaitEnters(r) \/ WaitEnds(r) \/ WaitReturns(r)
             \/ WaitLosesConnection(r) \/ WaitGivesUp(r) \/ Abandon(r)
    PROVE  OrderInv'
<1> USE DEF notifyVars, requestVars
<1>1. UNCHANGED <<lastEnqueued, queue, completedSeq, completed, note, runner, worker, watermark,
                  next>>
  BY DEF Issue, WaitEnters, WaitEnds, WaitReturns, WaitLosesConnection, WaitGivesUp, Abandon
<1>2. PICK place \in {"waiting", "locking", "plain", "hook", "returned"} : Goto(r, place)
  BY DEF Issue, WaitEnters, WaitEnds, WaitReturns, WaitLosesConnection, WaitGivesUp, Abandon
<1>3. pc'[r] = place /\ \A q \in Requests \ {r} : pc'[q] = pc[q]
  BY <1>2 DEF Goto, OrderInv, TypeOK
<1>4. \A q \in Requests \ {r} : context'[q] = context[q]
  BY DEF Issue, WaitEnters, WaitEnds, WaitReturns, WaitLosesConnection, WaitGivesUp, Abandon,
         OrderInv, TypeOK
<1>5. pc[r] # "nested"
  BY DEF Issue, WaitEnters, WaitEnds, WaitReturns, WaitLosesConnection, WaitGivesUp, Abandon
<1>6. pc'[r] = "locking" => context'[r] # 0
  BY DEF Issue, WaitEnters, WaitEnds, WaitReturns, WaitLosesConnection, WaitGivesUp, Abandon,
         Goto, EntersFrame, OrderInv, TypeOK
<1>7. \A n \in Seqs : frameLock'[n] = IF frameLock[n] = r THEN None ELSE frameLock[n]
  <2>1. CASE Unlock(r)
    BY <2>1 DEF Unlock
  <2>2. CASE Issue(r) \/ WaitEnters(r) \/ WaitReturns(r) \/ Abandon(r)
    <3>1. frameLock' = frameLock /\ pc[r] \notin {"looping", "nested"}
      BY <2>2 DEF Issue, WaitEnters, WaitReturns, Abandon
    <3>2. \A n \in Seqs : frameLock[n] # r
      BY <3>1, RequestsAssumption DEF OrderInv, Locked
    <3> QED
      BY <3>1, <3>2
  <2> QED
    BY <2>1, <2>2 DEF WaitEnds, WaitLosesConnection, WaitGivesUp
<1> QED
  BY <1>1, <1>3, <1>4, <1>5, <1>6, <1>7, WaitStepKeeps

\* When a notification leaves, whoever took it goes on: the worker with nothing in
\* process, or a Wait whose handler is the top of the stack again.
LEMMA LeaveKeeps == ASSUME OrderInv, TypeOK', NEW n \in Seqs, Leave(n) PROVE OrderInv'
<1> USE DEF notifyVars, requestVars
<1>1. /\ note[n] = "leaving" /\ note'[n] = "done"
      /\ \A m \in Seqs : m # n => note'[m] = note[m]
      /\ UNCHANGED <<lastEnqueued, queue, completedSeq, completed, runner, frameLock, context,
                     watermark>>
  BY DEF Leave, Proceed, OrderInv, TypeOK
<1>2. Numbered'
  BY <1>1 DEF OrderInv, Numbered, LastTaken
<1>3. Recorded'
  BY <1>1 DEF OrderInv, Recorded, Processed
<1>4. \A m \in Seqs : InProcess(m) => m <= n
  BY <1>1, FreeIsLast DEF InProcess, InHandler
<1>5. /\ \A m \in Seqs : InProcess(m)' => InProcess(m) /\ m # n
      /\ \A m \in Seqs : InHandler(m) => InHandler(m)'
      /\ \A m \in Seqs : 1..(m - 1) \subseteq Seqs
  BY <1>1, BoundsAssumption DEF InProcess, InHandler, Seqs
<1>6. \A m \in Seqs : InProcess(m)' => m < n
  BY <1>4, <1>5 DEF Seqs
<1>7. CASE runner[n] = Worker
  <2>1. worker = n /\ worker' = 0 /\ UNCHANGED <<pc, next>>
    BY <1>1, <1>7 DEF Leave, OrderInv, Stacked, InProcess
  <2>2. \A m \in Seqs : ~InProcess(m)'
    <3>1. \A m \in Seqs : InProcess(m) => n <= m
      BY <2>1 DEF OrderInv, Stacked
    <3> QED
      BY <1>5, <1>6, <3>1 DEF Seqs
  <2>3. Stacked'
    BY <2>2 DEF Stacked
  <2>4. Locked'
    <3>1. ASSUME NEW q \in Requests, Reentrant(q) PROVE Reentrant(q)'
      BY <1>1, <2>1, <3>1 DEF Reentrant, Processed, InHandler, InProcess
    <3> QED
      BY <1>1, <2>1, <3>1 DEF OrderInv, Locked
  <2> QED
    BY <1>2, <1>3, <2>3, <2>4 DEF OrderInv
<1>8. CASE runner[n] # Worker
  <2> DEFINE r == runner[n]
             k == context[r]
  <2>1. /\ r \in Requests /\ pc[r] = "nested" /\ next[r] = n /\ Reentrant(r)
        /\ pc' = [pc EXCEPT ![r] = "looping"] /\ next' = [next EXCEPT ![r] = @ + 1]
        /\ worker' = worker
    BY <1>1, <1>8 DEF Leave, OrderInv, TypeOK, Stacked, Locked, InProcess
  <2> HIDE DEF r
  <2>2. /\ pc'[r] = "looping" /\ next'[r] = n + 1
        /\ \A q \in Requests : q # r => pc'[q] = pc[q] /\ next'[q] = next[q]
    BY <2>1 DEF OrderInv, TypeOK
  <2>3. /\ k \in Seqs /\ InHandler(k) /\ frameLock[k] = r /\ k < n
        /\ \A m \in Seqs : k < m /\ m < n => Processed(m)
    BY <2>1 DEF Reentrant
  <2> HIDE DEF k
  <2>4. \A m \in Seqs : InProcess(m)' => m <= k
    <3> SUFFICES ASSUME NEW m \in Seqs, InProcess(m)', k < m PROVE FALSE
      BY <2>3 DEF Seqs
    <3>1. InProcess(m) /\ m < n
      BY <1>5, <1>6
    <3>2. InHandler(m)
      BY <1>1, <3>1, EarlierIsHeldUp DEF InProcess
    <3>3. Processed(m)
      BY <2>3, <3>1
    <3> QED
      BY <3>2, <3>3 DEF OrderInv, Recorded, InHandler
  <2>5. Stacked'
    <3>1. ASSUME NEW m \in Seqs, InProcess(m)', NEW j \in 1..(m - 1)
          PROVE  note'[j] = "done" \/ (InHandler(j)' /\ HeldUp(j)')
      <4>1. j \in Seqs /\ InProcess(m) /\ j < m
        BY <1>5, <3>1 DEF Seqs
      <4>2. note[j] = "done" \/ (InHandler(j) /\ HeldUp(j))
        BY <4>1 DEF OrderInv, Stacked
      <4>3. CASE note[j] = "done"
        BY <1>1, <4>1, <4>3
      <4>4. CASE InHandler(j) /\ HeldUp(j)
        <5>1. j # k
          BY <2>4, <3>1, <4>1 DEF Seqs
        <5>2. frameLock[j] \in Requests /\ context[frameLock[j]] = j
          BY <4>1, <4>4, RequestsAssumption DEF HeldUp, OrderInv, Locked
        <5>3. frameLock[j] # r
          BY <5>1, <5>2 DEF k
        <5> QED
          BY <1>1, <2>2, <4>1, <4>4, <5>3 DEF HeldUp, InHandler
      <4> QED
        BY <4>2, <4>3, <4>4
    <3>2. ASSUME NEW m \in Seqs, InProcess(m)'
          PROVE  /\ worker' # 0 /\ worker' <= m
                 /\ runner'[m] = Worker => worker' = m
      BY <1>1, <1>5, <2>1, <3>2 DEF OrderInv, Stacked
    <3>3. ASSUME NEW m \in Seqs, InProcess(m)', runner[m] # Worker
          PROVE  pc'[runner'[m]] = "nested" /\ next'[runner'[m]] = m
      <4>1. m # n /\ pc[runner[m]] = "nested" /\ next[runner[m]] = m /\ runner[m] \in Requests
        BY <1>5, <3>3 DEF OrderInv, TypeOK, Stacked
      <4>2. runner[m] # r
        BY <2>1, <4>1
      <4> QED
        BY <1>1, <2>2, <4>1, <4>2
    <3> QED
      BY <1>1, <3>1, <3>2, <3>3 DEF Stacked
  <2>6. Locked'
    <3>1. ASSUME NEW q \in Requests, pc'[q] \in {"looping", "nested"} PROVE Reentrant(q)'
      <4>1. CASE q = r
        <5>1. context'[r] = k /\ frameLock'[k] = r /\ note'[k] \in {"handling", "returned"}
          BY <1>1, <2>3 DEF k, InHandler
        <5>2. k < n + 1 /\ \A m \in Seqs : m < n + 1 => m < n \/ m = n
          BY <2>3 DEF Seqs
        <5>3. \A m \in Seqs : k < m /\ m < n + 1 => Processed(m)
          BY <1>1, <2>3, <5>2 DEF OrderInv, Recorded
        <5> QED
          BY <1>1, <2>2, <2>3, <2>4, <4>1, <5>1, <5>2, <5>3
             DEF Reentrant, Processed, InHandler, InProcess
      <4>2. CASE q # r
        <5>1. Reentrant(q) /\ pc'[q] = pc[q] /\ next'[q] = next[q]
          BY <2>2, <3>1, <4>2 DEF OrderInv, Locked
        <5> QED
          BY <1>1, <5>1 DEF Reentrant, Processed, InHandler, InProcess
      <4> QED
        BY <4>1, <4>2
    <3>2. ASSUME NEW j \in Seqs, frameLock'[j] # None
          PROVE  /\ context'[frameLock'[j]] = j
                 /\ pc'[frameLock'[j]] \in {"looping", "nested"}
      <4>1. /\ frameLock'[j] = frameLock[j] /\ frameLock[j] \in Requests
            /\ context[frameLock[j]] = j
            /\ pc[frameLock[j]] \in {"looping", "nested"}
        BY <1>1, <3>2 DEF OrderInv, TypeOK, Locked
      <4> QED
        BY <1>1, <2>2, <4>1
    <3>3. \A q \in Requests : pc'[q] = "locking" => context'[q] # 0
      BY <1>1, <2>2 DEF OrderInv, Locked
    <3> QED
      BY <3>1, <3>2, <3>3 DEF Locked
  <2> QED
    BY <1>2, <1>3, <2>5, <2>6 DEF OrderInv
<1> QED
  BY <1>7, <1>8

\* Two reentrant waits are never at their loop together: each one's handler would be
\* the top of the stack.
LEMMA OneLoops ==
    ASSUME OrderInv, NEW r \in Requests, NEW q \in Requests,
           pc[r] = "looping", pc[q] = "looping"
    PROVE  q = r
<1>1. Reentrant(r) /\ Reentrant(q)
  BY DEF OrderInv, Locked
<1>2. context[r] <= context[q] /\ context[q] <= context[r]
  BY <1>1 DEF Reentrant, InHandler, InProcess
<1>3. context[r] = context[q]
  BY <1>1, <1>2 DEF Reentrant, Seqs
<1> QED
  BY <1>1, <1>3 DEF Reentrant

\* A Wait takes the lock of its handler's frame: nothing is nested in it then.
LEMMA WaitLocksKeeps == ASSUME OrderInv, TypeOK', NEW r \in Requests, WaitLocks(r) PROVE OrderInv'
<1> DEFINE k == context[r]
<1> USE DEF notifyVars
<1>1. /\ pc[r] = "locking" /\ frameLock[k] = None
      /\ UNCHANGED <<lastEnqueued, queue, completedSeq, completed, note, runner, worker,
                     context, watermark>>
  BY DEF WaitLocks
<1>2. k \in Seqs
  BY <1>1 DEF OrderInv, TypeOK, Locked, Seqs
<1>3. CASE Active(k)
  <2>1. /\ pc' = [pc EXCEPT ![r] = "looping"] /\ next' = [next EXCEPT ![r] = k + 1]
        /\ frameLock' = [frameLock EXCEPT ![k] = r]
    BY <1>3 DEF WaitLocks, Goto
  <2> HIDE DEF k
  <2>2. /\ pc'[r] = "looping" /\ next'[r] = k + 1 /\ frameLock'[k] = r
        /\ \A q \in Requests : q # r => pc'[q] = pc[q] /\ next'[q] = next[q]
        /\ \A j \in Seqs : j # k => frameLock'[j] = frameLock[j]
    BY <1>2, <2>1 DEF OrderInv, TypeOK
  <2>3. Numbered' /\ Recorded'
    BY <1>1 DEF OrderInv, Numbered, LastTaken, Recorded, Processed
  <2>4. InHandler(k) /\ ~HeldUp(k)
    BY <1>1, <1>3, RequestsAssumption DEF Active, InHandler, HeldUp, k
  <2>5. \A m \in Seqs : InProcess(m) => m <= k
    BY <1>2, <2>4, FreeIsLast DEF InProcess, InHandler
  <2>6. Stacked'
    <3>1. ASSUME NEW m \in Seqs, InProcess(m), NEW j \in 1..(m - 1)
          PROVE  note'[j] = "done" \/ (InHandler(j)' /\ HeldUp(j)')
      <4>1. j \in Seqs /\ (note[j] = "done" \/ (InHandler(j) /\ HeldUp(j)))
        BY <3>1, BoundsAssumption DEF OrderInv, Stacked, Seqs
      <4>2. HeldUp(j) => j # k /\ frameLock[j] \in Requests \ {r}
        BY <1>1, <2>4 DEF HeldUp
      <4> QED
        BY <1>1, <2>2, <4>1, <4>2 DEF HeldUp, InHandler
    <3>2. \A m \in Seqs : InProcess(m) => worker # 0 /\ worker <= m
      BY DEF OrderInv, Stacked
    <3>3. \A m \in Seqs : InProcess(m) /\ runner[m] = Worker => worker = m
      BY DEF OrderInv, Stacked
    <3>4. ASSUME NEW m \in Seqs, InProcess(m), runner[m] # Worker
          PROVE  pc'[runner[m]] = "nested" /\ next'[runner[m]] = m
      BY <1>1, <2>2, <3>4 DEF OrderInv, TypeOK, Stacked
    <3> QED
      BY <1>1, <3>1, <3>2, <3>3, <3>4 DEF Stacked, InProcess
  <2>7. Locked'
    <3>1. Reentrant(r)'
      <4>1. k < k + 1 /\ \A n \in Seqs : ~(k < n /\ n < k + 1)
        BY <1>2 DEF Seqs
      <4>2. context'[r] = k /\ note'[k] \in {"handling", "returned"}
        BY <1>1, <2>4 DEF k, InHandler
      <4> QED
        BY <1>1, <1>2, <2>2, <2>5, <4>1, <4>2 DEF Reentrant, InHandler, InProcess
    <3>2. ASSUME NEW q \in Requests, q # r, pc'[q] \in {"looping", "nested"}
          PROVE  Reentrant(q)'
      <4>1. Reentrant(q) /\ pc'[q] = pc[q] /\ next'[q] = next[q]
        BY <2>2, <3>2 DEF OrderInv, Locked
      <4>2. context[q] # k
        BY <1>1, <4>1, RequestsAssumption DEF Reentrant, k
      <4> QED
        BY <1>1, <2>2, <4>1, <4>2 DEF Reentrant, Processed, InHandler, InProcess
    <3>3. \A q \in Requests : pc'[q] = "locking" => context'[q] # 0
      BY <1>1, <2>2 DEF OrderInv, Locked
    <3>4. ASSUME NEW j \in Seqs, frameLock'[j] # None
          PROVE  /\ context'[frameLock'[j]] = j
                 /\ pc'[frameLock'[j]] \in {"looping", "nested"}
      <4>1. CASE j = k
        BY <1>1, <2>2, <4>1 DEF k
      <4>2. CASE j # k
        <5>1. /\ frameLock'[j] = frameLock[j] /\ frameLock[j] \in Requests
              /\ context[frameLock[j]] = j
              /\ pc[frameLock[j]] \in {"looping", "nested"}
          BY <2>2, <3>4, <4>2 DEF OrderInv, TypeOK, Locked
        <5> QED
          BY <1>1, <2>2, <5>1
      <4> QED
        BY <4>1, <4>2
    <3> QED
      BY <3>1, <3>2, <3>3, <3>4 DEF Locked
  <2> QED
    BY <2>3, <2>6, <2>7 DEF OrderInv
<1>4. CASE ~Active(k)
  <2>1. Goto(r, "plain") /\ UNCHANGED <<frameLock, next>>
    BY <1>4 DEF WaitLocks
  <2>2. pc'[r] = "plain" /\ \A q \in Requests \ {r} : pc'[q] = pc[q]
    BY <2>1 DEF Goto, OrderInv, TypeOK
  <2>3. \A n \in Seqs : frameLock[n] # r
    BY <1>1, RequestsAssumption DEF OrderInv, Locked
  <2> QED
    BY <1>1, <2>1, <2>2, <2>3, WaitStepKeeps
<1> QED
  BY <1>3, <1>4

\* A reentrant wait passes over a notification that is processed.
LEMMA WaitSkipsKeeps == ASSUME OrderInv, TypeOK', NEW r \in Requests, WaitSkips(r) PROVE OrderInv'
<1> USE DEF notifyVars
<1>1. /\ pc[r] = "looping" /\ Processed(next[r])
      /\ next' = [next EXCEPT ![r] = @ + 1]
      /\ UNCHANGED <<lastEnqueued, queue, completedSeq, completed, note, runner, worker,
                     frameLock, pc, context, watermark>>
  BY DEF WaitSkips
<1>2. /\ next'[r] = next[r] + 1 /\ next[r] \in Nat
      /\ \A q \in Requests : q # r => next'[q] = next[q]
  BY <1>1 DEF OrderInv, TypeOK
<1>3. Numbered' /\ Recorded'
  BY <1>1 DEF OrderInv, Numbered, LastTaken, Recorded, Processed
<1>4. Stacked'
  <2>1. ASSUME NEW m \in Seqs, InProcess(m), runner[m] # Worker
        PROVE  pc[runner[m]] = "nested" /\ next'[runner[m]] = m
    BY <1>1, <1>2, <2>1 DEF OrderInv, TypeOK, Stacked
  <2>2. \A m \in Seqs : InProcess(m) =>
          /\ worker # 0 /\ worker <= m
          /\ \A n \in 1..(m - 1) : note[n] = "done" \/ (InHandler(n) /\ HeldUp(n))
    BY DEF OrderInv, Stacked
  <2>3. \A m \in Seqs : InProcess(m) /\ runner[m] = Worker => worker = m
    BY DEF OrderInv, Stacked
  <2> QED
    BY <1>1, <2>1, <2>2, <2>3 DEF Stacked, InProcess, InHandler, HeldUp
<1>5. Locked'
  <2>1. ASSUME NEW q \in Requests, Reentrant(q) PROVE Reentrant(q)'
    <3>1. CASE q = r
      <4>1. /\ context[r] < next[r] + 1
            /\ \A n \in Seqs : n < next[r] + 1 => n < next[r] \/ n = next[r]
        BY <1>2, <2>1, <3>1 DEF Reentrant, Seqs
      <4> QED
        BY <1>1, <1>2, <2>1, <3>1, <4>1 DEF Reentrant, Processed, InHandler, InProcess
    <3>2. CASE q # r
      BY <1>1, <1>2, <2>1, <3>2 DEF Reentrant, Processed, InHandler, InProcess
    <3> QED
      BY <3>1, <3>2
  <2> QED
    BY <1>1, <2>1 DEF OrderInv, Locked
<1> QED
  BY <1>3, <1>4, <1>5 DEF OrderInv

\* A reentrant wait takes the next notification and processes it inside its handler: what
\* it takes is the one it expects, so that the connection never fails here.
LEMMA WaitTakesKeeps == ASSUME OrderInv, TypeOK', NEW r \in Requests, WaitTakes(r) PROVE OrderInv'
<1> USE DEF notifyVars
<1>0. PICK n, k : n = next[r] /\ k = context[r]
  OBVIOUS
<1>1. /\ pc[r] = "looping" /\ n <= watermark[r] /\ ~Processed(n)
      /\ queue # <<>> /\ queue' = Tail(queue)
      /\ UNCHANGED <<lastEnqueued, completedSeq, completed, worker, context, watermark, next>>
  BY <1>0 DEF WaitTakes
<1>2. Head(queue) = n
  BY <1>0, <1>1, NextFollows
<1>3. /\ note' = [note EXCEPT ![n] = "gated"] /\ runner' = [runner EXCEPT ![n] = r]
      /\ pc' = [pc EXCEPT ![r] = "nested"]
      /\ UNCHANGED frameLock
  BY <1>0, <1>2 DEF WaitTakes, Goto
<1>4. Reentrant(r)
  BY <1>1 DEF OrderInv, Locked
<1>5. /\ runner'[n] = (IF n \in Seqs THEN r ELSE runner'[n])
      /\ \A m \in Seqs : m # n => runner'[m] = runner[m]
      /\ pc'[r] = "nested" /\ \A q \in Requests : q # r => pc'[q] = pc[q]
  BY <1>3 DEF OrderInv, TypeOK
<1>6. /\ Numbered' /\ Recorded'
      /\ n \in Seqs /\ note[n] = "queued"
      /\ note'[n] = "gated" /\ \A m \in Seqs : m # n => note'[m] = note[m]
      /\ \A m \in Seqs : m < n => note[m] \notin {"none", "queued"}
  BY <1>1, <1>2, <1>3, <1>5, TakingKeepsNumbers
<1>7. /\ k \in Seqs /\ InHandler(k) /\ frameLock[k] = r /\ k < n
      /\ \A m \in Seqs : k < m /\ m < n => Processed(m)
      /\ \A m \in Seqs : InProcess(m) => m <= k
  BY <1>0, <1>1, <1>4 DEF Reentrant
<1>8. \A m \in Seqs : k < m /\ m < n => note[m] = "done"
  <2> SUFFICES ASSUME NEW m \in Seqs, k < m, m < n PROVE note[m] = "done"
    OBVIOUS
  <2>1. note[m] \in {"leaving", "done"}
    BY <1>7 DEF OrderInv, Recorded
  <2>2. ~InProcess(m)
    BY <1>7 DEF Seqs
  <2> QED
    BY <2>1, <2>2 DEF InProcess
<1>9. ASSUME NEW j \in Seqs, HeldUp(j) PROVE HeldUp(j)'
  BY <1>1, <1>3, <1>5, <1>9 DEF HeldUp
<1>10. HeldUp(k)'
  BY <1>3, <1>5, <1>7 DEF HeldUp
<1>11. Stacked'
  <2>1. ASSUME NEW m \in Seqs, InProcess(m)' PROVE m = n \/ InProcess(m)
    BY <1>6, <2>1 DEF InProcess
  <2>2. ASSUME NEW j \in Seqs, j # n, note[j] = "done" \/ (InHandler(j) /\ HeldUp(j))
        PROVE  note'[j] = "done" \/ (InHandler(j)' /\ HeldUp(j)')
    BY <1>6, <1>9, <2>2 DEF InHandler
  <2>3. ASSUME NEW m \in Seqs, InProcess(m), NEW j \in 1..(m - 1)
        PROVE  note'[j] = "done" \/ (InHandler(j)' /\ HeldUp(j)')
    <3>1. j \in Seqs /\ j # n
      BY <1>7, <2>3, BoundsAssumption DEF Seqs
    <3>2. note[j] = "done" \/ (InHandler(j) /\ HeldUp(j))
      BY <2>3 DEF OrderInv, Stacked
    <3> QED
      BY <2>2, <3>1, <3>2
  <2>4. ASSUME NEW j \in 1..(n - 1)
        PROVE  note'[j] = "done" \/ (InHandler(j)' /\ HeldUp(j)')
    <3>1. j \in Seqs /\ j # n /\ j < n
      BY <1>6, BoundsAssumption DEF Seqs
    <3>2. CASE j < k
      <4>1. InProcess(k) /\ j \in 1..(k - 1)
        BY <1>7, <3>1, <3>2 DEF InProcess, InHandler, Seqs
      <4> QED
        BY <1>7, <2>3, <4>1
    <3>3. CASE j = k
      BY <1>6, <1>7, <1>10, <3>1, <3>3 DEF InHandler
    <3>4. CASE k < j
      BY <1>8, <2>2, <3>1, <3>4
    <3> QED
      BY <1>7, <3>1, <3>2, <3>3, <3>4 DEF Seqs
  <2>5. \A m \in Seqs : InProcess(m) => worker # 0 /\ worker <= m
    BY DEF OrderInv, Stacked
  <2>6. worker # 0 /\ worker <= n
    <3>1. worker # 0 /\ worker <= k
      BY <1>7, <2>5 DEF InProcess, InHandler
    <3> QED
      BY <1>6, <1>7, <3>1 DEF Seqs, OrderInv, TypeOK
  <2>7. ASSUME NEW m \in Seqs, InProcess(m)
        PROVE  /\ runner'[m] = Worker => worker = m
               /\ runner'[m] # Worker => pc'[runner'[m]] = "nested" /\ next[runner'[m]] = m
    <3>1. m # n /\ runner'[m] = runner[m]
      BY <1>5, <1>6, <2>7 DEF InProcess
    <3>2. CASE runner[m] = Worker
      BY <2>7, <3>1, <3>2 DEF OrderInv, Stacked
    <3>3. CASE runner[m] # Worker
      <4>1. runner[m] \in Requests /\ pc[runner[m]] = "nested" /\ next[runner[m]] = m
        BY <2>7, <3>3 DEF OrderInv, TypeOK, Stacked
      <4> QED
        BY <1>1, <1>5, <3>1, <3>3, <4>1
    <3> QED
      BY <3>2, <3>3
  <2>8. runner'[n] # Worker /\ pc'[runner'[n]] = "nested" /\ next[runner'[n]] = n
    BY <1>0, <1>5, <1>6, RequestsAssumption
  <2>9. \A m \in Seqs : InProcess(m)' =>
          \A j \in 1..(m - 1) : note'[j] = "done" \/ (InHandler(j)' /\ HeldUp(j)')
    BY <2>1, <2>3, <2>4
  <2>10. \A m \in Seqs : InProcess(m)' =>
          /\ worker # 0 /\ worker <= m
          /\ IF runner'[m] = Worker THEN worker = m
             ELSE pc'[runner'[m]] = "nested" /\ next[runner'[m]] = m
    BY <2>1, <2>5, <2>6, <2>7, <2>8
  <2> QED
    BY <1>1, <2>9, <2>10 DEF Stacked
<1>12. Locked'
  <2>1. ASSUME NEW q \in Requests, pc'[q] \in {"looping", "nested"} PROVE Reentrant(q)'
    <3>1. Reentrant(q) /\ pc'[q] = "nested"
      <4>1. CASE q = r
        BY <1>4, <1>5, <4>1
      <4>2. CASE q # r
        BY <1>1, <1>5, <2>1, <4>2, OneLoops DEF OrderInv, Locked
      <4> QED
        BY <4>1, <4>2
    <3>2. context[q] # n /\ context[q] \in Seqs
      BY <1>6, <3>1 DEF Reentrant, InHandler
    <3>3. note'[context[q]] \in {"handling", "returned"}
      BY <1>6, <3>1, <3>2 DEF Reentrant, InHandler
    <3> QED
      BY <1>1, <1>3, <3>1, <3>2, <3>3 DEF Reentrant, Processed, InHandler, InProcess
  <2>2. \A q \in Requests : pc'[q] = "locking" => context'[q] # 0
    BY <1>1, <1>5 DEF OrderInv, Locked
  <2>3. ASSUME NEW j \in Seqs, frameLock[j] # None
        PROVE  context[frameLock[j]] = j /\ pc'[frameLock[j]] \in {"looping", "nested"}
    <3>1. /\ frameLock[j] \in Requests /\ context[frameLock[j]] = j
          /\ pc[frameLock[j]] \in {"looping", "nested"}
      BY <2>3 DEF OrderInv, TypeOK, Locked
    <3> QED
      BY <1>5, <3>1
  <2> QED
    BY <1>1, <1>3, <2>1, <2>2, <2>3 DEF Locked
<1> QED
  BY <1>6, <1>11, <1>12 DEF OrderInv

-----------------------------------------------------------------------------
(* The theorems *)

\* The inductive invariant of the ordered delivery of notifications.
THEOREM OrderInvariance == Spec => []OrderInv
<1>1. Init => OrderInv
  <2> SUFFICES ASSUME Init PROVE OrderInv
    OBVIOUS
  <2> USE BoundsAssumption, RequestsAssumption
  <2>1. TypeOK
    <3>1. /\ note \in [Seqs -> NotePcs] /\ pc \in [Requests -> WaitPcs]
          /\ queue \in Seq(Seqs)
      BY DEF Init, NotePcs, WaitPcs
    <3>2. /\ runner \in [Seqs -> Requests \cup {Worker}]
          /\ frameLock \in [Seqs -> Requests \cup {None}]
          /\ barrier \in [Seqs -> SUBSET Gated] /\ precedes \in [Seqs -> SUBSET Gated]
      BY DEF Init
    <3>3. /\ context \in [Requests -> 0..MaxNotifications]
          /\ watermark \in [Requests -> -1..MaxNotifications]
          /\ next \in [Requests -> Nat]
      BY DEF Init
    <3>4. closed \in BOOLEAN
      BY DEF Init
    <3>5. /\ lastEnqueued \in 0..MaxNotifications
          /\ completedSeq \in 0..MaxNotifications /\ completed \subseteq Seqs
          /\ worker \in 0..MaxNotifications /\ delivered \subseteq Gated
      BY DEF Init
    <3> QED
      BY <3>1, <3>2, <3>3, <3>4, <3>5 DEF TypeOK
  <2>2. Numbered
    <3>1. queue = <<>> /\ Len(queue) = 0 /\ lastEnqueued = 0
      BY DEF Init
    <3> QED
      BY <3>1 DEF Init, Numbered, LastTaken, Seqs
  <2>3. Recorded /\ Stacked /\ Locked
    BY DEF Init, Recorded, Processed, Stacked, InProcess, Locked, Seqs
  <2> QED
    BY <2>1, <2>2, <2>3 DEF OrderInv
<1>2. OrderInv /\ [Next]_vars => OrderInv'
  <2> SUFFICES ASSUME OrderInv, [Next]_vars PROVE OrderInv'
    OBVIOUS
  <2>1. CASE Next
    <3>1. TypeOK'
      BY <2>1, OrderTypes
    <3> QED
      BY <2>1, <3>1, ArrivalKeeps, WorkerTakesKeeps, HandlingKeeps, LeaveKeeps, WaitingKeeps,
         WaitLocksKeeps, WaitSkipsKeeps, WaitTakesKeeps
         DEF Next, ProcessingStep, WaitStep
  <2>2. CASE UNCHANGED vars
    <3> USE <2>2 DEF vars, notifyVars, requestVars
    <3>1. TypeOK'
      BY DEF OrderInv, TypeOK
    <3>2. Numbered' /\ Recorded'
      BY DEF OrderInv, Numbered, LastTaken, Recorded, Processed
    <3>3. Stacked'
      BY DEF OrderInv, Stacked, InProcess, InHandler, HeldUp
    <3>4. Locked'
      BY DEF OrderInv, Locked, Reentrant, Processed, InHandler, InProcess
    <3> QED
      BY <3>1, <3>2, <3>3, <3>4 DEF OrderInv
  <2> QED
    BY <2>1, <2>2
<1> QED
  BY <1>1, <1>2, PTL DEF Spec

\* Notification handlers run in the order of arrival, one at a time: while one is
\* processed every earlier one is complete, or its handler is held up in a Wait that
\* processes a later one on its behalf (runNotificationWorker,
\* waitNotificationsReentrant).
THEOREM WireOrder == Spec => []InWireOrder
<1>1. OrderInv => InWireOrder
  <2> SUFFICES ASSUME OrderInv, NEW m \in Seqs,
                      note[m] \in {"gated", "handling", "returned", "marking"},
                      NEW n \in 1..(m - 1)
               PROVE  Processed(n) \/ (InHandler(n) /\ HeldUp(n))
    BY DEF InWireOrder, OrderInv
  <2>1. n \in Seqs
    BY BoundsAssumption DEF Seqs
  <2>2. note[n] = "done" \/ (InHandler(n) /\ HeldUp(n))
    BY DEF OrderInv, Stacked, InProcess
  <2> QED
    BY <2>1, <2>2 DEF OrderInv, Recorded
<1> QED
  BY OrderInvariance, <1>1, PTL

\* The test for "notification sequence invariant violated" never fires, and a reentrant
\* Wait never waits for a notification that is not in the queue
\* (waitNotificationsReentrant).
THEOREM SequenceHolds == Spec => []NextIsQueued
<1>1. OrderInv => NextIsQueued
  BY NextFollows DEF NextIsQueued
<1> QED
  BY OrderInvariance, <1>1, PTL

\* Observer and hook of a response run after every notification that arrived before it
\* is complete, save its own handler's and those that one is nested in
\* (waitNotificationsUpTo, in a plain and in a reentrant wait).
THEOREM ObservedInOrder == Spec => ResponseComesAfter
<1> DEFINE Settled == \A r \in Requests : Observes(r) =>
              \A n \in 1..watermark[r] :
                  Processed(n) \/ n = context[r] \/ (n < context[r] /\ HeldUp(n))
<1>1. OrderInv /\ [Next]_vars => [Settled]_vars
  <2> SUFFICES ASSUME OrderInv, Next, NEW r \in Requests, Observes(r), NEW n \in 1..watermark[r]
               PROVE  Processed(n) \/ n = context[r] \/ (n < context[r] /\ HeldUp(n))
    OBVIOUS
  <2>1. WaitEnds(r)
    <3>1. pc[r] # "hook" /\ pc'[r] = "hook" /\ pc \in [Requests -> WaitPcs]
          /\ runner \in [Seqs -> Requests \cup {Worker}]
      BY DEF Observes, OrderInv, TypeOK
    <3>2. ASSUME NEW q \in Requests,
                 Issue(q) \/ WaitEnters(q) \/ WaitLocks(q) \/ WaitSkips(q) \/ WaitTakes(q)
                   \/ WaitReturns(q) \/ WaitLosesConnection(q) \/ WaitGivesUp(q)
                   \/ Abandon(q) \/ ResponseArrives(q)
          PROVE  FALSE
      BY <3>1, <3>2 DEF Issue, WaitEnters, WaitLocks, WaitSkips, WaitTakes, WaitReturns,
                        WaitLosesConnection, WaitGivesUp, Abandon, ResponseArrives, Goto
    <3>3. ASSUME NEW m \in Seqs, ProcessingStep(m) \/ HandlerReturns(m) PROVE FALSE
      BY <3>1, <3>3 DEF ProcessingStep, HandlerStarts, HandlerSkipped, HandlerReturns,
                        FrameEnds, MarkComplete, Leave, requestVars
    <3>4. ~(NotificationArrives \/ Close \/ WorkerTakes)
      BY <3>1 DEF NotificationArrives, Close, WorkerTakes, requestVars
    <3>5. ASSUME NEW q \in Requests, WaitEnds(q) PROVE q = r
      BY <3>1, <3>5 DEF WaitEnds, Goto
    <3> QED
      BY <3>2, <3>3, <3>4, <3>5 DEF Next, WaitStep
  <2>2. /\ watermark[r] \in -1..MaxNotifications /\ completedSeq \in 0..MaxNotifications
        /\ context[r] \in 0..MaxNotifications /\ next[r] \in Nat
    BY DEF OrderInv, TypeOK
  <2>3. n \in Seqs /\ n <= watermark[r]
    BY <2>2, BoundsAssumption DEF Seqs
  <2>4. CASE pc[r] = "plain"
    <3>1. completedSeq >= watermark[r]
      BY <2>1, <2>4 DEF WaitEnds
    <3> QED
      BY <2>2, <2>3, <3>1 DEF Processed, Seqs
  <2>5. CASE pc[r] = "looping"
    <3>1. Reentrant(r) /\ next[r] > watermark[r]
      BY <2>1, <2>5 DEF WaitEnds, OrderInv, Locked
    <3>2. CASE n > context[r]
      BY <2>2, <2>3, <3>1, <3>2 DEF Reentrant, Seqs
    <3>3. CASE n < context[r]
      <4>1. context[r] \in Seqs /\ InProcess(context[r]) /\ n \in 1..(context[r] - 1)
        BY <2>2, <2>3, <3>1, <3>3 DEF Reentrant, InHandler, InProcess, Seqs
      <4>2. note[n] = "done" \/ HeldUp(n)
        BY <4>1 DEF OrderInv, Stacked
      <4> QED
        BY <2>3, <3>3, <4>2 DEF OrderInv, Recorded
    <3> QED
      BY <2>2, <2>3, <3>2, <3>3 DEF Seqs
  <2> QED
    BY <2>1, <2>4, <2>5 DEF WaitEnds
<1> QED
  BY OrderInvariance, <1>1, PTL DEF Spec, ResponseComesAfter
=============================================================================

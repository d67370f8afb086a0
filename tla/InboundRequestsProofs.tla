------------------------ MODULE InboundRequestsProofs ------------------------
(***************************************************************************)
(* Theorems about InboundRequests for any frames, any limits and any       *)
(* behaviour of the handlers: the in-flight table, the slots and the queue *)
(* of the callbacks, the end of the connection, and the implementation of  *)
(* RequestContract.                                                        *)
(***************************************************************************)
EXTENDS InboundRequests, FiniteSetTheorems, SequenceTheorems, TLAPS

-----------------------------------------------------------------------------
(* The inductive invariant *)

\* A worker has the request, or will have it.
Handled == {"queued", "handling", "returned"}
\* The reply of the entry, or of its array, is on its way out.
Replied == {"sending", "awaiting", "retiring", "publishing", "calling", "done"}

\* Where an entry may be, given what it is and what has become of it.
Placed ==
    \A e \in Entries :
        /\ pc[e] \in Handled => Kind[e] = "request" /\ e \notin refused \cup retired
        /\ Kind[e] = "cancel" => pc[e] \in {"none", "done"}
        /\ pc[e] = "none" => e \notin refused \cup retired
        /\ e \in retired => Kind[e] = "request" /\ e \notin refused
        /\ Kind[e] \in {"malformed", "stray"} /\ pc[e] # "none" => e \in refused
        /\ pc[e] = "publishing" => InBatch(e)
        /\ pc[e] = "calling" => ~InBatch(e) /\ callback[e] = "running"
        /\ pc[e] \in {"publishing", "calling"} => Finishes(e) = {}

\* The collector has what its array has produced, and one entry, the last, flushes it.
Gathered ==
    \A e \in Entries :
        /\ e \in collected <=> InBatch(e) /\ pc[e] \in Replied \cup {"collected"}
        /\ pc[e] = "collected" => InBatch(e)
        /\ InBatch(e) /\ pc[e] \in Replied =>
              \A m \in Members[e] : m # e => pc[m] = "collected"

\* No more workers than there may be, a refused entry is the reader's own business, and
\* the callback queue is closed only behind the goroutines that fill it.
Staffed ==
    /\ IsFiniteSet(Busy) /\ Cardinality(Busy) + exited <= MaxHandlerConcurrency
    /\ reader = "ended" => reading = <<>>
    /\ \A e \in refused : pc[e] \in Replied \ {"done"} => reading # <<>> /\ Head(reading) = e
    /\ writing # None => writer = "idle"
    /\ callbacksOpen # "open" => Joined
    /\ callbacksOpen = "ended" => \A e \in Entries : callback[e] \notin {"queued", "running"}

\* Callbacks belong to requests that were handled, and are handed over when no request
\* of their array is in flight.
Registered ==
    \A e \in Entries :
        /\ callback[e] # "none" =>
              Kind[e] = "request" /\ e \notin refused /\ pc[e] \notin {"none", "queued"}
        /\ callback[e] = "reserving" => InBatch(e)
        /\ callback[e] = "queued" =>
              InBatch(e) /\ e \in retired /\ Answered(e) /\ Finishes(e) = {}

Slotted == {e \in Entries : InBatch(e) /\ callback[e] \in {"held", "queued", "running"}}
Queued  == {e \in Entries : callback[e] = "queued"}

\* A slot for each callback of an array, and the queue holds the queued ones.
SlotsCounted == IsFiniteSet(Slotted) /\ slots = Cardinality(Slotted)
QueueCounted ==
    /\ Len(callbackQueue) = Cardinality(Queued)
    /\ \A i \in 1..Len(callbackQueue) : callback[callbackQueue[i]] = "queued"
    /\ \A i, j \in 1..Len(callbackQueue) : callbackQueue[i] = callbackQueue[j] => i = j
Counted == SlotsCounted /\ QueueCounted

\* The reply of e has reached the write queue.
Sent(e) == e \in Range(writeQueue) \cup Range(written) \cup {writing}

\* A reply is written once, and its outcome tells whether it was.
Written ==
    /\ \A e \in Entries : Sent(e) => pc[e] \in Replied \ {"sending"} /\ Kind[e] # "cancel"
    /\ \A i, j \in 1..Len(writeQueue) : writeQueue[i] = writeQueue[j] => i = j
    /\ \A e \in Range(writeQueue) : e # writing /\ e \notin Range(written)
    /\ writing \notin Range(written)
    /\ \A e \in Entries : /\ result[e] = "ok" => e \in Range(written)
                          /\ result[e] = "error" => closed \/ writer = "failing"
                          /\ pc[e] \in {"retiring", "publishing", "calling"} =>
                                result[e] # "none"

InboundInv ==
    /\ TypeOK /\ Placed /\ Gathered /\ Staffed /\ Registered /\ Counted /\ Written
    /\ InFlightTracked

-----------------------------------------------------------------------------
(* The operators *)

\* Every entry is in one frame.
LEMMA FrameFound ==
    ASSUME NEW e \in Entries
    PROVE  /\ FrameOf[e] \in Frames /\ e \in Range(FrameOf[e])
           /\ \A f \in Frames : e \in Range(f) => f = FrameOf[e]
<1>1. FrameOf[e] = CHOOSE f \in Frames : e \in Range(f)
  BY DEF FrameOf
<1>2. \E f \in Frames : e \in Range(f)
  BY FramesAssumption
<1>3. FrameOf[e] \in Frames /\ e \in Range(FrameOf[e])
  BY <1>1, <1>2
<1>4. ASSUME NEW f \in Frames, e \in Range(f) PROVE f = FrameOf[e]
  BY <1>3, <1>4, FramesAssumption
<1> QED
  BY <1>3, <1>4

\* Entries answered together have the same members, and all of them are in an array or
\* none is.
LEMMA MembersShared ==
    ASSUME NEW e \in Entries
    PROVE  /\ e \in Members[e] /\ Members[e] \subseteq Entries
           /\ \A m \in Members[e] : Members[m] = Members[e] /\ (InBatch(m) <=> InBatch(e))
           /\ ~InBatch(e) => Members[e] = {e}
<1>1. Members[e] = IF e \in Batched THEN Range(FrameOf[e]) \cap Batched ELSE {e}
  BY DEF Members
<1>2. CASE e \in Batched
  <2>1. e \in Members[e] /\ Members[e] \subseteq Entries
    BY <1>1, <1>2, FrameFound DEF Batched
  <2>2. ASSUME NEW m \in Members[e] PROVE Members[m] = Members[e] /\ m \in Batched
    <3>1. m \in Batched /\ m \in Entries /\ m \in Range(FrameOf[e])
      BY <1>1, <1>2, <2>1, <2>2
    <3>2. FrameOf[m] = FrameOf[e]
      BY <3>1, FrameFound
    <3>3. Members[m] = Range(FrameOf[m]) \cap Batched
      BY <3>1 DEF Members
    <3> QED
      BY <1>1, <1>2, <3>1, <3>2, <3>3
  <2> QED
    BY <1>2, <2>1, <2>2 DEF InBatch
<1>3. CASE e \notin Batched
  BY <1>1, <1>3 DEF InBatch
<1> QED
  BY <1>2, <1>3

\* What is answered together with an answered entry is answered.
LEMMA AnsweredTogether ==
    ASSUME NEW e \in Entries, Answered(e), written \in Seq(Entries)
    PROVE  \A m \in Members[e] : Answered(m)
<1>1. PICK w \in Range(written) : e \in Members[w]
  BY DEF Answered, AnsweredOnes
<1>2. w \in Entries
  BY DEF Range
<1>3. Members[e] = Members[w]
  BY <1>1, <1>2, MembersShared
<1> QED
  BY <1>1, <1>3 DEF Answered, AnsweredOnes

\* What an element is added to, and what is left when the first is removed.
LEMMA RangeOfAppend ==
    ASSUME NEW s \in Seq(Entries), NEW e \in Entries
    PROVE  Range(Append(s, e)) = Range(s) \cup {e}
<1>1. /\ Append(s, e) \in Seq(Entries) /\ Len(Append(s, e)) = Len(s) + 1
      /\ \A i \in 1..Len(s) : Append(s, e)[i] = s[i]
      /\ Append(s, e)[Len(s) + 1] = e
  OBVIOUS
<1>2. DOMAIN s = 1..Len(s) /\ DOMAIN Append(s, e) = 1..(Len(s) + 1) /\ Len(s) \in Nat
  BY <1>1
<1>3. \A i \in 1..(Len(s) + 1) : i \in 1..Len(s) \/ i = Len(s) + 1
  BY <1>2
<1>4. 1..Len(s) \subseteq 1..(Len(s) + 1) /\ Len(s) + 1 \in 1..(Len(s) + 1)
  BY <1>2
<1>5. ASSUME NEW x PROVE x \in Range(Append(s, e)) <=> x \in Range(s) \cup {e}
  BY <1>1, <1>2, <1>3, <1>4 DEF Range
<1> QED
  BY <1>5

LEMMA RangeOfTail ==
    ASSUME NEW s \in Seq(Entries), s # <<>>
    PROVE  /\ Head(s) \in Range(s) /\ Head(s) \in Entries
           /\ Tail(s) \in Seq(Entries) /\ Len(Tail(s)) = Len(s) - 1
           /\ \A i \in 1..Len(Tail(s)) : i + 1 \in 1..Len(s) /\ Tail(s)[i] = s[i + 1]
           /\ Range(Tail(s)) \subseteq Range(s)
<1>1. /\ Tail(s) \in Seq(Entries) /\ Len(Tail(s)) = Len(s) - 1
      /\ Head(s) = s[1] /\ Len(s) \in Nat /\ Len(s) >= 1
      /\ \A i \in 1..Len(Tail(s)) : i + 1 \in 1..Len(s) /\ Tail(s)[i] = s[i + 1]
  OBVIOUS
<1>2. DOMAIN s = 1..Len(s) /\ DOMAIN Tail(s) = 1..Len(Tail(s))
  BY <1>1
<1>3. Head(s) \in Range(s) /\ Head(s) \in Entries
  BY <1>1, <1>2 DEF Range
<1>4. Range(Tail(s)) \subseteq Range(s)
  BY <1>1, <1>2 DEF Range
<1> QED
  BY <1>1, <1>3, <1>4

-----------------------------------------------------------------------------
(* The steps, by who takes them *)

ReaderStep ==
    \/ ReaderEnds \/ Close \/ \E f \in Frames : ReadFrame(f)
    \/ \E e \in Entries : Accept(e) \/ Refuse(e) \/ RefuseReturns(e) \/ CancelArrives(e)
WorkerStep ==
    \/ WorkerTakes \/ WorkerExits
    \/ \E e \in Entries : \/ \E outcome \in {"ok", "error"} : HandlerReturns(e, outcome)
                          \/ Register(e) \/ Reserve(e) \/ Reply(e)
SendStep ==
    \E e \in Entries :
        \/ Enqueue(e) \/ SendReturns(e) \/ SendInterrupted(e)
        \/ Retired(e) \/ CallReturns(e) \/ Published(e)
        \/ \E m \in Members[e] : Finish(e, m) \/ Publish(e, m)
CallbackStep ==
    \/ CallbackStarts \/ CloseCallbacks \/ WaitDone
    \/ \E e \in Entries : CallbackReturns(e)
WriterStep == WriterTakes \/ WriteReturns \/ WriteFails \/ WriterEnds

LEMMA StepKinds == Next => ReaderStep \/ WorkerStep \/ SendStep \/ CallbackStep \/ WriterStep
BY DEF Next, Own, Others, ReaderStep, WorkerStep, SendStep, CallbackStep, WriterStep

\* One entry moves.
LEMMA MoveFacts ==
    ASSUME TypeOK, NEW e \in Entries, NEW a, NEW b \in Pcs, Move(e, a, b)
    PROVE  /\ pc' \in [Entries -> Pcs]
           /\ pc[e] = a /\ pc'[e] = b
           /\ \A x \in Entries : x # e => pc'[x] = pc[x]
BY DEF TypeOK, Move

LEMMA NextPcFacts ==
    ASSUME NEW e
    PROVE  /\ NextPc(e) \in Pcs
           /\ NextPc(e) = "collected" <=> InBatch(e) /\ ~Flushes(e)
           /\ NextPc(e) \in {"collected", "sending"}
BY DEF NextPc, Pcs

\* The callback of an array that has a slot keeps one in use.
LEMMA SlotInUse ==
    ASSUME InboundInv, NEW e \in Entries, InBatch(e),
           callback[e] \in {"held", "queued", "running"}
    PROVE  slots >= 1
<1>1. e \in Slotted
  BY DEF Slotted
<1>2. IsFiniteSet(Slotted) /\ slots = Cardinality(Slotted)
  BY DEF InboundInv, Counted, SlotsCounted
<1>3. Slotted # {} => Cardinality(Slotted) # 0
  BY <1>2, FS_EmptySet
<1> QED
  BY <1>1, <1>2, <1>3, FS_CardinalityType

-----------------------------------------------------------------------------
(* Types *)

LEMMA ReaderTypes == ASSUME TypeOK, ReaderStep PROVE TypeOK'
<1> USE DEF readerVars, frameVars, workVars, poolVars, tableVars, replyVars, callbackVars,
            queueVars, writerVars, replyingVars
<1>1. UNCHANGED <<retired, exited, callbackVars, writerVars>>
  BY DEF ReaderStep, ReaderEnds, Close, ReadFrame, Accept, Refuse, RefuseReturns,
         CancelArrives
<1>2. closed' \in BOOLEAN /\ reader' \in {"reading", "ended"}
  BY DEF TypeOK, ReaderStep, ReaderEnds, Close, ReadFrame, Accept, Refuse, RefuseReturns,
         CancelArrives
<1>3. coming' \subseteq Frames
  BY DEF TypeOK, ReaderStep, ReaderEnds, Close, ReadFrame, Accept, Refuse, RefuseReturns,
         CancelArrives
<1>4. reading' \in Seq(Entries)
  <2>1. reading \in Seq(Entries) /\ reading # <<>> => Tail(reading) \in Seq(Entries)
    BY RangeOfTail
  <2>2. CASE UNCHANGED reading
    BY <2>2 DEF TypeOK
  <2>3. ASSUME NEW f \in Frames, reading' = f PROVE reading' \in Seq(Entries)
    BY <2>3, FramesAssumption
  <2>4. \/ UNCHANGED reading
        \/ \E f \in Frames : reading' = f
        \/ reading # <<>> /\ reading' = Tail(reading)
    BY DEF ReaderStep, ReaderEnds, Close, ReadFrame, Accept, Refuse, RefuseReturns,
           CancelArrives, Dispatching
  <2> QED
    BY <2>1, <2>2, <2>3, <2>4 DEF TypeOK
<1>5. refused' \subseteq Entries /\ collected' \subseteq Entries /\ cancelled' \subseteq Entries
  BY FramesAssumption DEF TypeOK, ReaderStep, ReaderEnds, Close, ReadFrame, Accept, Refuse,
     RefuseReturns, CancelArrives, Collect
<1>6. pc' \in [Entries -> Pcs]
  <2>1. ASSUME NEW e \in Entries, NEW a, NEW b \in Pcs, Move(e, a, b)
        PROVE  pc' \in [Entries -> Pcs]
    BY <2>1, MoveFacts
  <2>2. {"queued", "done"} \subseteq Pcs
    BY DEF Pcs
  <2> QED
    BY <2>1, <2>2, NextPcFacts DEF TypeOK, ReaderStep, ReaderEnds, Close, ReadFrame, Accept,
       Refuse, RefuseReturns, CancelArrives
<1>7. inflight' \in [Ids -> Entries \cup {None}]
  BY DEF TypeOK, ReaderStep, ReaderEnds, Close, ReadFrame, Accept, Refuse, RefuseReturns,
         CancelArrives
<1>8. requestQueue' \in Seq(Entries) /\ Len(requestQueue') <= MaxQueuedRequests
  <2>1. ASSUME NEW e \in Entries, ~QueueFull
        PROVE  /\ Append(requestQueue, e) \in Seq(Entries)
               /\ Len(Append(requestQueue, e)) <= MaxQueuedRequests
    BY <2>1, LimitsAssumption DEF TypeOK, QueueFull
  <2>2. \/ UNCHANGED requestQueue
        \/ ~QueueFull /\ \E e \in Entries : requestQueue' = Append(requestQueue, e)
    BY DEF ReaderStep, ReaderEnds, Close, ReadFrame, Accept, Refuse, RefuseReturns,
           CancelArrives
  <2> QED
    BY <2>1, <2>2 DEF TypeOK
<1>9. answer' \in [Entries -> {"none", "ok", "error"}]
  BY DEF TypeOK, ReaderStep, ReaderEnds, Close, ReadFrame, Accept, Refuse, RefuseReturns,
         CancelArrives
<1> QED
  BY <1>1, <1>2, <1>3, <1>4, <1>5, <1>6, <1>7, <1>8, <1>9 DEF TypeOK

LEMMA WorkerTypes == ASSUME InboundInv, WorkerStep PROVE TypeOK'
<1> USE DEF readerVars, frameVars, workVars, poolVars, tableVars, replyVars, callbackVars,
            queueVars, writerVars, serverVars
<1>0. TypeOK
  BY DEF InboundInv
<1>1. UNCHANGED <<readerVars, tableVars, queueVars, writerVars>>
  BY DEF WorkerStep, WorkerTakes, WorkerExits, HandlerReturns, Register, Reserve, Reply
<1>2. requestQueue' \in Seq(Entries) /\ Len(requestQueue') <= MaxQueuedRequests
  <2>1. requestQueue # <<>> =>
          Tail(requestQueue) \in Seq(Entries) /\ Len(Tail(requestQueue)) <= MaxQueuedRequests
    BY <1>0, RangeOfTail, LimitsAssumption DEF TypeOK
  <2> QED
    BY <1>0, <2>1 DEF TypeOK, WorkerStep, WorkerTakes, WorkerExits, HandlerReturns, Register,
       Reserve, Reply
<1>3. pc' \in [Entries -> Pcs]
  <2>1. ASSUME NEW e \in Entries, NEW a, NEW b \in Pcs, Move(e, a, b)
        PROVE  pc' \in [Entries -> Pcs]
    BY <1>0, <2>1, MoveFacts
  <2>2. {"handling", "returned"} \subseteq Pcs
    BY DEF Pcs
  <2>3. CASE WorkerTakes
    <3>1. Head(requestQueue) \in Entries
      BY <1>0, <2>3, RangeOfTail DEF WorkerTakes, TypeOK
    <3> QED
      BY <2>1, <2>2, <2>3, <3>1 DEF WorkerTakes
  <2>4. CASE UNCHANGED pc
    BY <1>0, <2>4 DEF TypeOK
  <2>5. ASSUME NEW e \in Entries, NEW outcome, HandlerReturns(e, outcome)
        PROVE  pc' \in [Entries -> Pcs]
    BY <2>1, <2>2, <2>5 DEF HandlerReturns
  <2>6. ASSUME NEW e \in Entries, Reply(e) PROVE pc' \in [Entries -> Pcs]
    BY <2>1, <2>6, NextPcFacts DEF Reply
  <2> QED
    BY <2>3, <2>4, <2>5, <2>6 DEF WorkerStep, WorkerExits, Register, Reserve
<1>4. exited' \in 0..MaxHandlerConcurrency
  BY <1>0, LimitsAssumption, FS_CardinalityType DEF InboundInv, Staffed, TypeOK, WorkerStep,
     WorkerTakes, WorkerExits, HandlerReturns, Register, Reserve, Reply
<1>5. answer' \in [Entries -> {"none", "ok", "error"}] /\ collected' \subseteq Entries
  <2>1. \/ UNCHANGED <<answer, collected>>
        \/ \E e \in Entries : Reply(e) \/ \E o \in {"ok", "error"} : HandlerReturns(e, o)
    BY DEF WorkerStep, WorkerTakes, WorkerExits, Register, Reserve
  <2>2. CASE UNCHANGED <<answer, collected>>
    BY <1>0, <2>2 DEF TypeOK
  <2>3. ASSUME NEW e \in Entries, Reply(e)
        PROVE  UNCHANGED answer /\ collected' \subseteq Entries
    BY <1>0, <2>3 DEF TypeOK, Reply, Collect
  <2>4. ASSUME NEW e \in Entries, NEW o \in {"ok", "error"}, HandlerReturns(e, o)
        PROVE  answer' \in [Entries -> {"none", "ok", "error"}] /\ UNCHANGED collected
    BY <1>0, <2>4 DEF TypeOK, HandlerReturns
  <2> QED
    BY <1>0, <2>1, <2>2, <2>3, <2>4 DEF TypeOK
<1>6. callback' \in [Entries -> {"none", "reserving", "denied", "held", "queued", "running",
                                 "ran", "dropped"}]
  <2>1. \/ UNCHANGED callback
        \/ \E e \in Entries : Register(e) \/ Reserve(e) \/ Reply(e)
    BY DEF WorkerStep, WorkerTakes, WorkerExits, HandlerReturns
  <2>2. CASE UNCHANGED callback
    BY <1>0, <2>2 DEF TypeOK
  <2>3. ASSUME NEW e \in Entries, Register(e) \/ Reserve(e) \/ Reply(e)
        PROVE  \/ UNCHANGED callback
               \/ \E s \in {"reserving", "denied", "held", "dropped"} :
                    callback' = [callback EXCEPT ![e] = s]
    BY <2>3 DEF Register, Reserve, Reply
  <2> QED
    BY <1>0, <2>1, <2>2, <2>3 DEF TypeOK
<1>7. slots' \in 0..MaxPendingRequests
  <2>1. \/ UNCHANGED slots
        \/ \E e \in Entries : Reserve(e) \/ Reply(e)
    BY DEF WorkerStep, WorkerTakes, WorkerExits, HandlerReturns, Register
  <2>2. CASE UNCHANGED slots
    BY <1>0, <2>2 DEF TypeOK
  <2>3. ASSUME NEW e \in Entries, Reserve(e) PROVE slots' \in 0..MaxPendingRequests
    BY <1>0, <2>3, LimitsAssumption DEF TypeOK, Reserve
  <2>4. ASSUME NEW e \in Entries, Reply(e) PROVE slots' \in 0..MaxPendingRequests
    <3>1. slots' = IF Drops(e) /\ InBatch(e) THEN slots - 1 ELSE slots
      BY <2>4 DEF Reply, SlotsAfterDrop
    <3>2. Drops(e) /\ InBatch(e) => slots >= 1
      BY SlotInUse DEF Drops
    <3> QED
      BY <1>0, <3>1, <3>2, LimitsAssumption DEF TypeOK
  <2> QED
    BY <2>1, <2>2, <2>3, <2>4
<1> QED
  BY <1>0, <1>1, <1>2, <1>3, <1>4, <1>5, <1>6, <1>7 DEF TypeOK

LEMMA SendTypes == ASSUME InboundInv, SendStep PROVE TypeOK'
<1> USE DEF readerVars, frameVars, workVars, poolVars, tableVars, replyVars, callbackVars,
            queueVars, writerVars, serverVars
<1>0. TypeOK
  BY DEF InboundInv
<1>1. UNCHANGED <<readerVars, poolVars, replyVars, cancelled, callbacksOpen, writer, writing,
                  written>>
  BY DEF SendStep, Enqueue, SendReturns, SendInterrupted, Retired, CallReturns, Published,
         Finish, Publish
<1>2. pc' \in [Entries -> Pcs]
  <2>1. ASSUME NEW e \in Entries, NEW a, NEW b \in Pcs, Move(e, a, b)
        PROVE  pc' \in [Entries -> Pcs]
    BY <1>0, <2>1, MoveFacts
  <2>2. {"awaiting", "retiring", "publishing", "calling", "done"} \subseteq Pcs
    BY DEF Pcs
  <2> QED
    BY <1>0, <2>1, <2>2 DEF TypeOK, SendStep, Enqueue, SendReturns, SendInterrupted, Retired,
       CallReturns, Published, Finish, Publish
<1>3. inflight' \in [Ids -> Entries \cup {None}] /\ retired' \subseteq Entries
  <2>1. ASSUME NEW e \in Entries, NEW m \in Members[e], Finish(e, m)
        PROVE  inflight' \in [Ids -> Entries \cup {None}] /\ retired' \subseteq Entries
    BY <1>0, <2>1, MembersShared DEF TypeOK, Finish, Without
  <2>2. CASE UNCHANGED <<inflight, retired>>
    BY <1>0, <2>2 DEF TypeOK
  <2> QED
    BY <2>1, <2>2 DEF SendStep, Enqueue, SendReturns, SendInterrupted, Retired, CallReturns,
       Published, Publish
<1>4. callback' \in [Entries -> {"none", "reserving", "denied", "held", "queued", "running",
                                 "ran", "dropped"}]
  <2>1. ASSUME NEW e \in Entries, Retired(e) \/ CallReturns(e)
        PROVE  \/ UNCHANGED callback \/ callback' = [callback EXCEPT ![e] = "running"]
               \/ callback' = [callback EXCEPT ![e] = "ran"]
    BY <2>1 DEF Retired, CallReturns
  <2>2. ASSUME NEW e \in Entries, NEW m \in Members[e], Publish(e, m)
        PROVE  \/ callback' = [callback EXCEPT ![m] = "queued"]
               \/ callback' = [callback EXCEPT ![m] = "dropped"]
    BY <2>2 DEF Publish
  <2>3. ASSUME NEW m,
               \/ UNCHANGED callback
               \/ \E v \in {"running", "ran", "queued", "dropped"} :
                    callback' = [callback EXCEPT ![m] = v]
        PROVE  callback' \in [Entries -> {"none", "reserving", "denied", "held", "queued",
                                          "running", "ran", "dropped"}]
    BY <1>0, <2>3 DEF TypeOK
  <2> QED
    BY <2>1, <2>2, <2>3 DEF SendStep, Enqueue, SendReturns, SendInterrupted, Published, Finish
<1>5. slots' \in 0..MaxPendingRequests
  <2>1. ASSUME NEW e \in Entries, NEW m \in Members[e], Publish(e, m)
        PROVE  m \in Entries /\ InBatch(m) /\ callback[m] = "held"
    BY <2>1, MembersShared DEF Publish, MayHandOver, Held, InboundInv, Placed
  <2> QED
    BY <1>0, <2>1, SlotInUse, LimitsAssumption DEF TypeOK, SendStep, Enqueue, SendReturns,
       SendInterrupted, Retired, CallReturns, Published, Finish, Publish
<1>6. callbackQueue' \in Seq(Entries)
  <2>1. ASSUME NEW e \in Entries, NEW m \in Members[e], Publish(e, m)
        PROVE  callbackQueue' \in Seq(Entries)
    <3>1. m \in Entries
      BY MembersShared
    <3>2. callbackQueue' = Append(callbackQueue, m) \/ callbackQueue' = callbackQueue
      BY <2>1 DEF Publish
    <3>3. callbackQueue \in Seq(Entries)
      BY <1>0 DEF TypeOK
    <3> QED
      BY <3>1, <3>2, <3>3
  <2>2. CASE UNCHANGED callbackQueue
    BY <1>0, <2>2 DEF TypeOK
  <2> QED
    BY <2>1, <2>2 DEF SendStep, Enqueue, SendReturns, SendInterrupted, Retired, CallReturns,
       Published, Finish
<1>7. writeQueue' \in Seq(Entries) /\ Len(writeQueue') <= MaxQueuedWrites
  <2>1. ASSUME NEW e \in Entries, Len(writeQueue) < MaxQueuedWrites
        PROVE  /\ Append(writeQueue, e) \in Seq(Entries)
               /\ Len(Append(writeQueue, e)) <= MaxQueuedWrites
    BY <1>0, <2>1, LimitsAssumption DEF TypeOK
  <2>2. \/ UNCHANGED writeQueue
        \/ /\ Len(writeQueue) < MaxQueuedWrites
           /\ \E e \in Entries : writeQueue' = Append(writeQueue, e)
    BY DEF SendStep, Enqueue, SendReturns, SendInterrupted, Retired, CallReturns, Published,
           Finish, Publish
  <2> QED
    BY <1>0, <2>1, <2>2 DEF TypeOK
<1>8. result' \in [Entries -> {"none", "ok", "error"}]
  BY <1>0 DEF TypeOK, SendStep, Enqueue, SendReturns, SendInterrupted, Retired, CallReturns,
     Published, Finish, Publish
<1> QED
  BY <1>0, <1>1, <1>2, <1>3, <1>4, <1>5, <1>6, <1>7, <1>8 DEF TypeOK

LEMMA CallbackTypes == ASSUME InboundInv, CallbackStep PROVE TypeOK'
<1> USE DEF readerVars, frameVars, workVars, poolVars, tableVars, replyVars, callbackVars,
            queueVars, writerVars, serverVars
<1>0. TypeOK
  BY DEF InboundInv
<1>1. UNCHANGED <<readerVars, workVars, tableVars, replyVars, writerVars>>
  BY DEF CallbackStep, CallbackStarts, CloseCallbacks, WaitDone, CallbackReturns
<1>2. callbackQueue' \in Seq(Entries)
  <2>1. callbackQueue # <<>> => Tail(callbackQueue) \in Seq(Entries)
    BY <1>0, RangeOfTail DEF TypeOK
  <2> QED
    BY <1>0, <2>1 DEF TypeOK, CallbackStep, CallbackStarts, CloseCallbacks, WaitDone,
       CallbackReturns
<1>3. callback' \in [Entries -> {"none", "reserving", "denied", "held", "queued", "running",
                                 "ran", "dropped"}]
  <2>1. UNCHANGED callback \/ \E e, s : /\ s \in {"running", "ran"}
                                        /\ callback' = [callback EXCEPT ![e] = s]
    BY DEF CallbackStep, CallbackStarts, CloseCallbacks, WaitDone, CallbackReturns
  <2> QED
    BY <1>0, <2>1 DEF TypeOK
<1>4. callbacksOpen' \in {"open", "closed", "ended"}
  BY <1>0 DEF TypeOK, CallbackStep, CallbackStarts, CloseCallbacks, WaitDone, CallbackReturns
<1>5. slots' \in 0..MaxPendingRequests
  <2>1. UNCHANGED slots \/ \E e \in Entries : CallbackReturns(e)
    BY DEF CallbackStep, CallbackStarts, CloseCallbacks, WaitDone
  <2>2. ASSUME NEW e \in Entries, CallbackReturns(e) PROVE slots' = slots - 1 /\ slots >= 1
    BY <2>2, SlotInUse DEF CallbackReturns
  <2> QED
    BY <1>0, <2>1, <2>2, LimitsAssumption DEF TypeOK
<1> QED
  BY <1>0, <1>1, <1>2, <1>3, <1>4, <1>5 DEF TypeOK

LEMMA WriterTypes == ASSUME TypeOK, WriterStep PROVE TypeOK'
<1> USE DEF readerVars, frameVars, workVars, poolVars, tableVars, replyVars, callbackVars,
            queueVars, writerVars, serverVars
<1>1. UNCHANGED <<frameVars, reading, workVars, tableVars, replyVars, callbackVars>>
  BY DEF WriterStep, WriterTakes, WriteReturns, WriteFails, WriterEnds
<1>2. /\ closed' \in BOOLEAN /\ writer' \in {"idle", "failing", "ended"}
      /\ result' \in [Entries -> {"none", "ok", "error"}]
  BY DEF TypeOK, WriterStep, WriterTakes, WriteReturns, WriteFails, WriterEnds
<1>3. writing' \in Entries \cup {None}
  <2>1. writeQueue # <<>> => Head(writeQueue) \in Entries
    BY RangeOfTail DEF TypeOK
  <2> QED
    BY <2>1 DEF TypeOK, WriterStep, WriterTakes, WriteReturns, WriteFails, WriterEnds
<1>4. written' \in Seq(Entries)
  <2>1. \/ UNCHANGED written
        \/ writing # None /\ written' = Append(written, writing)
    BY DEF WriterStep, WriterTakes, WriteReturns, WriteFails, WriterEnds
  <2>2. written \in Seq(Entries) /\ (writing # None => writing \in Entries)
    BY DEF TypeOK
  <2> QED
    BY <2>1, <2>2
<1>5. writeQueue' \in Seq(Entries) /\ Len(writeQueue') <= MaxQueuedWrites
  <2>1. writeQueue # <<>> =>
          Tail(writeQueue) \in Seq(Entries) /\ Len(Tail(writeQueue)) <= MaxQueuedWrites
    BY RangeOfTail, LimitsAssumption DEF TypeOK
  <2> QED
    BY <2>1 DEF TypeOK, WriterStep, WriterTakes, WriteReturns, WriteFails, WriterEnds
<1> QED
  BY <1>1, <1>2, <1>3, <1>4, <1>5 DEF TypeOK

LEMMA InboundTypes == InboundInv /\ Next => TypeOK'
BY StepKinds, ReaderTypes, WorkerTypes, SendTypes, CallbackTypes, WriterTypes DEF InboundInv

-----------------------------------------------------------------------------
(* Where the entries are *)

\* The steps that leave the entries where they are, and their callbacks.
QuietStep ==
    \/ ReaderEnds \/ Close \/ WorkerExits \/ CloseCallbacks \/ WaitDone \/ WriterStep
    \/ \E f \in Frames : ReadFrame(f)
    \/ \E e \in Entries : RefuseReturns(e)

LEMMA QuietLeaves ==
    QuietStep => UNCHANGED <<pc, refused, collected, answer, callback, slots, callbackQueue,
                             inflight, retired>>
BY DEF QuietStep, ReaderEnds, Close, WorkerExits, CloseCallbacks, WaitDone, WriterStep,
       WriterTakes, WriteReturns, WriteFails, WriterEnds, ReadFrame, RefuseReturns,
       readerVars, frameVars, workVars, poolVars, tableVars, replyVars, callbackVars,
       queueVars, writerVars, serverVars, replyingVars

\* Those a worker or the reader takes with one entry, those of the goroutine that sends
\* its reply, and those of the callbacks.
LEMMA LoudSteps ==
    ASSUME Next
    PROVE  \/ QuietStep \/ WorkerTakes \/ CallbackStarts
           \/ \E e \in Entries :
                \/ Accept(e) \/ Refuse(e) \/ CancelArrives(e)
                \/ \E outcome \in {"ok", "error"} : HandlerReturns(e, outcome)
                \/ Register(e) \/ Reserve(e) \/ Reply(e)
                \/ Enqueue(e) \/ SendReturns(e) \/ SendInterrupted(e)
                \/ Retired(e) \/ CallReturns(e) \/ Published(e) \/ CallbackReturns(e)
                \/ \E m \in Members[e] : Finish(e, m) \/ Publish(e, m)
BY DEF Next, Own, Others, QuietStep, WriterStep

\* The rest of an array is in the collector when one of its entries is on its way.
LEMMA OthersCollected ==
    ASSUME Gathered, NEW e \in Entries, pc[e] \in Replied, NEW m \in Members[e], m # e
    PROVE  InBatch(e) /\ InBatch(m) /\ m \in Entries /\ pc[m] = "collected"
<1>1. InBatch(e) /\ InBatch(m) /\ m \in Entries
  BY MembersShared
<1> QED
  BY <1>1 DEF Gathered

LEMMA PlacedKept == ASSUME InboundInv, TypeOK', Next PROVE Placed'
<1> USE DEF readerVars, frameVars, workVars, poolVars, tableVars, replyVars, callbackVars,
            queueVars, writerVars, serverVars
<1>0. TypeOK /\ Placed /\ Gathered
  BY DEF InboundInv
<1>1. CASE UNCHANGED <<pc, refused, retired, callback>>
  BY <1>0, <1>1 DEF Placed, Finishes
<1>2. ASSUME NEW e \in Entries, Accept(e) \/ CancelArrives(e) PROVE Placed'
  <2>1. /\ UNCHANGED <<refused, retired, callback>>
        /\ pc[e] = "none"
        /\ \/ Kind[e] = "request" /\ Move(e, "none", "queued")
           \/ Kind[e] = "cancel" /\ Move(e, "none", "done")
    BY <1>2 DEF Accept, CancelArrives, Move
  <2>2. pc'[e] \in {"queued", "done"} /\ \A x \in Entries : x # e => pc'[x] = pc[x]
    BY <1>0, <2>1 DEF Move, TypeOK
  <2>3. Kind[e] = "request" => pc'[e] = "queued"
    BY <1>0, <2>1 DEF Move, TypeOK
  <2>4. Kind[e] = "cancel" => pc'[e] = "done"
    BY <1>0, <2>1 DEF Move, TypeOK
  <2> QED
    BY <1>0, <2>1, <2>2, <2>3, <2>4 DEF Placed, Finishes, Handled
<1>3. ASSUME NEW e \in Entries, Refuse(e) PROVE Placed'
  <2>1. /\ UNCHANGED <<retired, callback>> /\ refused' = refused \cup {e}
        /\ pc[e] = "none" /\ Move(e, "none", NextPc(e)) /\ Kind[e] # "cancel"
    BY <1>3 DEF Refuse, Move
  <2>2. pc'[e] \in {"collected", "sending"} /\ \A x \in Entries : x # e => pc'[x] = pc[x]
    BY <1>0, <2>1, NextPcFacts, MoveFacts
  <2> QED
    BY <1>0, <2>1, <2>2 DEF Placed, Finishes, Handled
<1>4. ASSUME NEW e \in Entries,
             UNCHANGED <<refused, retired, callback>>,
             \/ Move(e, "queued", "handling") \/ Move(e, "handling", "returned")
             \/ Move(e, "sending", "awaiting") \/ Move(e, "sending", "retiring")
             \/ Move(e, "awaiting", "retiring") \/ Move(e, "publishing", "done")
      PROVE  Placed'
  <2>1. /\ pc'[e] \in {"handling", "returned", "awaiting", "retiring", "done"}
        /\ pc'[e] \in Handled => pc[e] \in Handled
        /\ pc[e] \notin {"none", "done"}
        /\ \A x \in Entries : x # e => pc'[x] = pc[x]
    BY <1>0, <1>4 DEF Move, TypeOK, Handled
  <2> QED
    BY <1>0, <1>4, <2>1 DEF Placed, Finishes, Handled
<1>5. ASSUME NEW e \in Entries, Register(e) \/ Reserve(e) PROVE Placed'
  <2>1. /\ UNCHANGED <<pc, refused, retired>> /\ callback[e] # "running"
        /\ \A x \in Entries : x # e => callback'[x] = callback[x]
    BY <1>0, <1>5 DEF Register, Reserve, TypeOK
  <2> QED
    BY <1>0, <2>1 DEF Placed, Finishes
<1>6. ASSUME NEW e \in Entries, Reply(e) PROVE Placed'
  <2>1. /\ UNCHANGED <<refused, retired>> /\ Move(e, "returned", NextPc(e))
        /\ \A x \in Entries : x # e => callback'[x] = callback[x]
    BY <1>0, <1>6 DEF Reply, TypeOK
  <2>2. /\ pc[e] = "returned" /\ pc'[e] \in {"collected", "sending"}
        /\ \A x \in Entries : x # e => pc'[x] = pc[x]
    BY <1>0, <2>1, NextPcFacts, MoveFacts
  <2> QED
    BY <1>0, <2>1, <2>2 DEF Placed, Finishes, Handled
<1>7. ASSUME NEW e \in Entries, NEW m \in Members[e], Finish(e, m) PROVE Placed'
  <2>1. /\ UNCHANGED <<pc, refused, callback>> /\ retired' = retired \cup {m}
        /\ pc[e] = "retiring" /\ Kind[m] = "request" /\ m \notin refused
    BY <1>7 DEF Finish, Finishes
  <2>2. pc[m] \in {"retiring", "collected"}
    BY <1>0, <2>1, OthersCollected DEF Replied
  <2>3. \A x \in Entries : x \in retired' <=> x \in retired \/ x = m
    BY <2>1
  <2> QED
    BY <1>0, <2>1, <2>2, <2>3 DEF Placed, Finishes, Handled
<1>8. ASSUME NEW e \in Entries, Retired(e) PROVE Placed'
  <2>1. /\ UNCHANGED <<refused, retired>> /\ pc[e] = "retiring" /\ Finishes(e) = {}
        /\ pc'[e] \in {"publishing", "calling", "done"}
        /\ pc'[e] = "publishing" => InBatch(e)
        /\ pc'[e] = "calling" => ~InBatch(e) /\ callback'[e] = "running"
        /\ \A x \in Entries : x # e => pc'[x] = pc[x] /\ callback'[x] = callback[x]
    BY <1>0, <1>8 DEF Retired, Move, TypeOK
  <2> QED
    BY <1>0, <2>1 DEF Placed, Finishes, Handled
<1>9. ASSUME NEW e \in Entries, CallReturns(e) PROVE Placed'
  <2>1. /\ UNCHANGED <<refused, retired>> /\ pc[e] = "calling" /\ pc'[e] = "done"
        /\ \A x \in Entries : x # e => pc'[x] = pc[x] /\ callback'[x] = callback[x]
    BY <1>0, <1>9 DEF CallReturns, Move, TypeOK
  <2> QED
    BY <1>0, <2>1 DEF Placed, Finishes, Handled
<1>10. ASSUME NEW e \in Entries, NEW m \in Members[e], Publish(e, m) PROVE Placed'
  <2>1. /\ UNCHANGED <<pc, refused, retired>> /\ callback[m] = "held"
        /\ \A x \in Entries : x # m => callback'[x] = callback[x]
    BY <1>0, <1>10 DEF Publish, Held, TypeOK
  <2> QED
    BY <1>0, <2>1 DEF Placed, Finishes
<1>11. ASSUME CallbackStarts PROVE Placed'
  <2>1. /\ UNCHANGED <<pc, refused, retired>>
        /\ \A x \in Entries : callback'[x] \in {callback[x], "running"}
    BY <1>0, <1>11 DEF CallbackStarts, TypeOK
  <2> QED
    BY <1>0, <2>1 DEF Placed, Finishes
<1>12. ASSUME NEW e \in Entries, CallbackReturns(e) PROVE Placed'
  <2>1. /\ UNCHANGED <<pc, refused, retired>> /\ InBatch(e)
        /\ \A x \in Entries : x # e => callback'[x] = callback[x]
    BY <1>0, <1>12 DEF CallbackReturns, TypeOK
  <2> QED
    BY <1>0, <2>1 DEF Placed, Finishes
<1> QED
  <2>1. CASE QuietStep
    BY <1>1, <2>1, QuietLeaves
  <2>2. CASE WorkerTakes
    <3>1. Head(requestQueue) \in Entries
      BY <1>0, <2>2, RangeOfTail DEF WorkerTakes, TypeOK
    <3> QED
      BY <1>4, <2>2, <3>1 DEF WorkerTakes
  <2>3. ASSUME NEW e \in Entries, NEW outcome, HandlerReturns(e, outcome) PROVE Placed'
    BY <1>4, <2>3 DEF HandlerReturns
  <2>4. ASSUME NEW e \in Entries,
               Enqueue(e) \/ SendReturns(e) \/ SendInterrupted(e) \/ Published(e)
        PROVE  Placed'
    BY <1>4, <2>4 DEF Enqueue, SendReturns, SendInterrupted, Published, Move
  <2> QED
    BY <1>2, <1>3, <1>5, <1>6, <1>7, <1>8, <1>9, <1>10, <1>11, <1>12, <2>1, <2>2, <2>3, <2>4,
       LoudSteps

-----------------------------------------------------------------------------
(* How the entries move *)

\* The reply of the entry is being sent, or what follows it is being done.
Busied == Replied \ {"done"}

\* The entry is on its way to its reply, or the reader has dealt with it.
Starts(e) ==
    /\ \/ pc[e] = "none" /\ pc'[e] = "queued"
       \/ pc[e] = "queued" /\ pc'[e] = "handling" /\ WorkerTakes
       \/ pc[e] = "handling" /\ pc'[e] = "returned"
       \/ pc[e] = "none" /\ pc'[e] = "done" /\ Kind[e] = "cancel"
    /\ UNCHANGED <<refused, collected>>
\* Its reply reaches the collector of the array, or goes out.
Replies(e) ==
    /\ \/ pc[e] = "none" /\ refused' = refused \cup {e}
       \/ pc[e] = "returned" /\ UNCHANGED refused
    /\ pc'[e] = NextPc(e) /\ Collect(e)
\* What sends the reply goes on.
GoesOn(e) ==
    /\ pc[e] \in Busied /\ pc'[e] \in Replied
    /\ pc'[e] = "sending" => pc[e] = "sending"
    /\ pc'[e] \in {"retiring", "publishing", "calling"} => pc[e] \in {"sending", "awaiting", "retiring"}
    /\ UNCHANGED <<refused, collected>>

LEMMA PcSteps ==
    ASSUME TypeOK, Next
    PROVE  \/ UNCHANGED <<pc, refused, collected>>
           \/ \E e \in Entries : /\ \A x \in Entries : x # e => pc'[x] = pc[x]
                                 /\ Starts(e) \/ Replies(e) \/ GoesOn(e)
<1> USE DEF readerVars, frameVars, workVars, poolVars, tableVars, replyVars, callbackVars,
            queueVars, writerVars, serverVars
<1>1. CASE QuietStep
  BY <1>1, QuietLeaves
<1>2. CASE WorkerTakes
  <2>1. Head(requestQueue) \in Entries
    BY <1>2, RangeOfTail DEF WorkerTakes, TypeOK
  <2>2. PICK e \in Entries : Move(e, "queued", "handling")
    BY <1>2, <2>1 DEF WorkerTakes
  <2>3. UNCHANGED <<refused, collected>>
    BY <1>2 DEF WorkerTakes
  <2>4. /\ pc[e] = "queued" /\ pc'[e] = "handling"
        /\ \A x \in Entries : x # e => pc'[x] = pc[x]
    BY <2>2 DEF TypeOK, Move
  <2> QED
    BY <1>2, <2>3, <2>4 DEF Starts
<1>3. CASE CallbackStarts
  BY <1>3 DEF CallbackStarts
<1>4. ASSUME NEW e \in Entries,
             Accept(e) \/ CancelArrives(e)
               \/ \E outcome \in {"ok", "error"} : HandlerReturns(e, outcome)
      PROVE  Starts(e) /\ \A x \in Entries : x # e => pc'[x] = pc[x]
  <2>1. \/ Move(e, "none", "queued") \/ Move(e, "handling", "returned")
        \/ Move(e, "none", "done") /\ Kind[e] = "cancel"
    BY <1>4 DEF Accept, CancelArrives, HandlerReturns
  <2>2. UNCHANGED <<refused, collected>>
    BY <1>4 DEF Accept, CancelArrives, HandlerReturns
  <2> QED
    BY <2>1, <2>2 DEF Move, TypeOK, Starts
<1>5. ASSUME NEW e \in Entries, Refuse(e) \/ Reply(e)
      PROVE  Replies(e) /\ \A x \in Entries : x # e => pc'[x] = pc[x]
  <2>1. /\ \/ refused' = refused \cup {e} /\ Move(e, "none", NextPc(e))
           \/ UNCHANGED refused /\ Move(e, "returned", NextPc(e))
        /\ Collect(e)
    BY <1>5 DEF Refuse, Reply
  <2> QED
    BY <2>1 DEF Move, TypeOK, Replies
<1>6. ASSUME NEW e \in Entries,
             \/ Enqueue(e) \/ SendReturns(e) \/ SendInterrupted(e)
             \/ Retired(e) \/ CallReturns(e) \/ Published(e)
      PROVE  GoesOn(e) /\ \A x \in Entries : x # e => pc'[x] = pc[x]
  <2>1. \E a \in Busied, b \in Replied :
          /\ Move(e, a, b)
          /\ b = "sending" => a = "sending"
          /\ b \in {"retiring", "publishing", "calling"} => a \in {"sending", "awaiting", "retiring"}
    <3> DEFINE Goes(a, b) == /\ Move(e, a, b)
                             /\ b = "sending" => a = "sending"
                             /\ b \in {"retiring", "publishing", "calling"} =>
                                   a \in {"sending", "awaiting", "retiring"}
    <3>1. \/ Goes("sending", "awaiting") \/ Goes("awaiting", "retiring")
          \/ Goes("sending", "retiring") \/ Goes("retiring", "publishing")
          \/ Goes("retiring", "calling") \/ Goes("retiring", "done")
          \/ Goes("calling", "done") \/ Goes("publishing", "done")
      BY <1>6 DEF Enqueue, SendReturns, SendInterrupted, Retired, CallReturns, Published, Move
    <3> QED
      BY <3>1 DEF Busied, Replied
  <2>2. UNCHANGED <<refused, collected>>
    BY <1>6 DEF Enqueue, SendReturns, SendInterrupted, Retired, CallReturns, Published
  <2> QED
    BY <2>1, <2>2 DEF Move, TypeOK, GoesOn
<1>7. ASSUME NEW e \in Entries,
             \/ Register(e) \/ Reserve(e) \/ CallbackReturns(e)
             \/ \E m \in Members[e] : Finish(e, m) \/ Publish(e, m)
      PROVE  UNCHANGED <<pc, refused, collected>>
  BY <1>7 DEF Register, Reserve, CallbackReturns, Finish, Publish
<1> QED
  BY <1>1, <1>2, <1>3, <1>4, <1>5, <1>6, <1>7, LoudSteps

LEMMA GatheredKept == ASSUME InboundInv, TypeOK', Next PROVE Gathered'
<1>0. TypeOK /\ Gathered
  BY DEF InboundInv
<1>1. CASE UNCHANGED <<pc, refused, collected>>
  BY <1>0, <1>1 DEF Gathered
<1>2. ASSUME NEW e \in Entries, \A x \in Entries : x # e => pc'[x] = pc[x],
             Starts(e) \/ Replies(e) \/ GoesOn(e)
      PROVE  Gathered'
  <2>1. CASE Starts(e)
    <3>1. /\ pc[e] \notin Replied \cup {"collected"}
          /\ pc'[e] \notin Replied \cup {"collected"} \/ ~InBatch(e)
          /\ pc'[e] # "collected" /\ UNCHANGED collected
      BY <2>1 DEF Starts, Replied, InBatch, Batched, NeedsReply
    <3> QED
      BY <1>0, <1>2, <3>1, OthersCollected DEF Gathered
  <2>2. CASE Replies(e)
    <3>1. pc[e] \notin Replied \cup {"collected"} /\ pc'[e] \in {"sending", "collected"}
      BY <2>2, NextPcFacts DEF Replies, Replied
    <3>2. \A x \in Entries : e \in Members[x] /\ x # e /\ InBatch(x) => pc[x] \notin Replied
      BY <1>0, <3>1 DEF Gathered
    <3>3. ASSUME NEW x \in Entries
          PROVE  x \in collected' <=> InBatch(x) /\ pc'[x] \in Replied \cup {"collected"}
      BY <1>0, <1>2, <2>2, <3>1 DEF Gathered, Replies, Collect, Replied
    <3>4. pc'[e] = "collected" => InBatch(e)
      BY <2>2, NextPcFacts DEF Replies
    <3>5. ASSUME InBatch(e), pc'[e] = "sending", NEW m \in Members[e], m # e
          PROVE  pc'[m] = "collected"
      <4>1. m \in collected
        <5>1. NextPc(e) = "sending"
          BY <2>2, <3>5 DEF Replies
        <5>2. Flushes(e)
          BY <3>5, <5>1, NextPcFacts
        <5> QED
          BY <3>5, <5>2 DEF Flushes
      <4>2. m \in Entries /\ e \in Members[m]
        BY MembersShared
      <4>3. InBatch(m) /\ pc[m] \in Replied \cup {"collected"}
        BY <1>0, <4>1, <4>2 DEF Gathered
      <4> QED
        BY <1>2, <3>2, <3>5, <4>2, <4>3
    <3>6. ASSUME NEW x \in Entries, x # e, InBatch(x), pc[x] \in Replied,
                 NEW m \in Members[x], m # x
          PROVE  pc'[m] = "collected"
      <4>1. m # e /\ m \in Entries
        BY <3>2, <3>6, MembersShared
      <4> QED
        BY <1>0, <1>2, <3>6, <4>1 DEF Gathered
    <3>7. pc'[e] \in Replied => pc'[e] = "sending"
      BY <3>1 DEF Replied
    <3> QED
      BY <1>0, <1>2, <3>3, <3>4, <3>5, <3>6, <3>7 DEF Gathered
  <2>3. CASE GoesOn(e)
    <3>1. pc[e] \in Replied /\ pc'[e] \in Replied /\ UNCHANGED collected
      BY <2>3 DEF GoesOn, Busied
    <3>2. pc[e] # "collected" /\ pc'[e] # "collected"
      BY <3>1 DEF Replied
    <3> QED
      BY <1>0, <1>2, <3>1, <3>2, MembersShared DEF Gathered
  <2> QED
    BY <1>2, <2>1, <2>2, <2>3
<1> QED
  BY <1>0, <1>1, <1>2, PcSteps

-----------------------------------------------------------------------------
(* The goroutines *)

DispatchStep(e) == Accept(e) \/ Refuse(e) \/ CancelArrives(e)
\* The steps of the workers and of the callbacks.
ServiceStep ==
    \/ WorkerTakes \/ CallbackStarts
    \/ \E e \in Entries :
         \/ \E outcome \in {"ok", "error"} : HandlerReturns(e, outcome)
         \/ Register(e) \/ Reserve(e) \/ Reply(e)
         \/ Enqueue(e) \/ SendReturns(e) \/ SendInterrupted(e)
         \/ Retired(e) \/ CallReturns(e) \/ Published(e) \/ CallbackReturns(e)
         \/ \E m \in Members[e] : Finish(e, m) \/ Publish(e, m)

LEMMA ThreeKinds == Next => QuietStep \/ ServiceStep \/ \E e \in Entries : DispatchStep(e)
BY LoudSteps DEF ServiceStep, DispatchStep

LEMMA ServiceLeaves ==
    ServiceStep => UNCHANGED <<closed, reading, reader, refused, exited, callbacksOpen, writer,
                               writing, written>>
BY DEF ServiceStep, WorkerTakes, CallbackStarts, HandlerReturns, Register, Reserve, Reply,
       Enqueue, SendReturns, SendInterrupted, Retired, CallReturns, Published,
       CallbackReturns, Finish, Publish, readerVars, frameVars, workVars, poolVars, tableVars,
       replyVars, callbackVars, queueVars, writerVars, serverVars

LEMMA DispatchLeaves ==
    ASSUME NEW e \in Entries, DispatchStep(e)
    PROVE  /\ UNCHANGED <<closed, reader, exited, callbackVars, writerVars, retired>>
           /\ reading # <<>> /\ Head(reading) = e /\ pc[e] = "none"
           /\ \/ reading' = Tail(reading) /\ UNCHANGED refused
              \/ reading' = reading /\ refused' = refused \cup {e}
BY DEF DispatchStep, Accept, Refuse, CancelArrives, Dispatching, readerVars, frameVars,
       workVars, poolVars, tableVars, replyVars, callbackVars, queueVars, writerVars

\* Workers become busy only by taking a request.
LEMMA BusyShrinks ==
    ASSUME InboundInv, Next
    PROVE  \/ Busy' \subseteq Busy
           \/ WorkerTakes /\ \E e : Busy' \subseteq Busy \cup {e}
<1>1. CASE UNCHANGED <<pc, refused, collected>>
  BY <1>1 DEF Busy
<1>2. ASSUME NEW e \in Entries, \A x \in Entries : x # e => pc'[x] = pc[x],
             Starts(e) \/ Replies(e) \/ GoesOn(e)
      PROVE  \/ Busy' \subseteq Busy
             \/ WorkerTakes /\ \E k : Busy' \subseteq Busy \cup {k}
  <2>1. refused \subseteq refused'
    BY <1>2 DEF Starts, Replies, GoesOn
  <2>2. Busy' \subseteq Busy \cup {e}
    BY <1>2, <2>1 DEF Busy
  <2>3. CASE Starts(e)
    <3>1. \/ WorkerTakes \/ pc'[e] \in {"queued", "done"}
          \/ pc[e] = "handling" /\ UNCHANGED refused
      BY <2>3 DEF Starts
    <3> QED
      BY <1>2, <2>1, <2>2, <3>1 DEF Busy
  <2>4. CASE Replies(e)
    BY <1>2, <2>1, <2>4 DEF Busy, Replies
  <2>5. CASE GoesOn(e)
    BY <1>2, <2>1, <2>5 DEF Busy, GoesOn, Busied, Replied
  <2> QED
    BY <1>2, <2>3, <2>4, <2>5
<1> QED
  BY <1>1, <1>2, PcSteps DEF InboundInv

\* A refused entry that is being answered was so before.
LEMMA RefusedGoesOn ==
    ASSUME InboundInv, Next, UNCHANGED refused, NEW x \in refused, pc'[x] \in Busied
    PROVE  pc[x] \in Busied
<1>1. x \in Entries /\ pc[x] \notin Handled \cup {"none"}
  BY DEF InboundInv, TypeOK, Placed
<1>2. CASE UNCHANGED <<pc, refused, collected>>
  BY <1>2
<1>3. ASSUME NEW e \in Entries, \A y \in Entries : y # e => pc'[y] = pc[y],
             Starts(e) \/ Replies(e) \/ GoesOn(e)
      PROVE  pc[x] \in Busied
  <2>1. CASE x # e
    BY <1>1, <1>3, <2>1
  <2>2. CASE x = e
    <3>1. ~Starts(e) /\ ~Replies(e)
      BY <1>1, <2>2 DEF Starts, Replies, Handled
    <3> QED
      BY <1>3, <2>2, <3>1 DEF GoesOn
  <2> QED
    BY <2>1, <2>2
<1> QED
  BY <1>2, <1>3, PcSteps DEF InboundInv

\* When the goroutines have returned no reply is being sent.
LEMMA JoinedIsQuiet ==
    ASSUME InboundInv, Joined
    PROVE  /\ Busy = {}
           /\ \A e \in Entries : pc[e] \notin Busied
<1>1. Busy = {}
  <2>1. /\ IsFiniteSet(Busy) /\ Cardinality(Busy) + exited <= MaxHandlerConcurrency
        /\ exited = MaxHandlerConcurrency
    BY DEF InboundInv, Staffed, Joined
  <2>2. Cardinality(Busy) \in Nat /\ MaxHandlerConcurrency \in Nat
    BY <2>1, FS_CardinalityType, LimitsAssumption
  <2>3. Cardinality(Busy) = 0
    BY <2>1, <2>2
  <2> QED
    BY <2>1, <2>3, FS_EmptySet
<1>2. ASSUME NEW e \in Entries, pc[e] \in Busied PROVE FALSE
  <2>1. e \in refused
    BY <1>1, <1>2 DEF Busy, Busied, Replied
  <2>2. reading # <<>>
    BY <1>2, <2>1 DEF InboundInv, Staffed, Busied
  <2> QED
    BY <2>2 DEF InboundInv, Staffed, Joined
<1> QED
  BY <1>1, <1>2

LEMMA StaffedKept == ASSUME InboundInv, TypeOK', Next PROVE Staffed'
<1> USE DEF readerVars, frameVars, workVars, poolVars, tableVars, replyVars, callbackVars,
            queueVars, writerVars, serverVars, replyingVars
<1>0. TypeOK /\ Placed /\ Staffed /\ Registered /\ Counted
  BY DEF InboundInv
<1>1. IsFiniteSet(Busy') /\ Cardinality(Busy') + exited' <= MaxHandlerConcurrency
  <2>1. /\ IsFiniteSet(Busy) /\ Cardinality(Busy) \in Nat /\ exited \in Nat
        /\ MaxHandlerConcurrency \in Nat /\ Cardinality(Busy) + exited <= MaxHandlerConcurrency
    BY <1>0, FS_CardinalityType, LimitsAssumption DEF Staffed, TypeOK
  <2>2. CASE WorkerTakes
    <3>1. PICK e : Busy' \subseteq Busy \cup {e}
      BY BusyShrinks
    <3>2. /\ IsFiniteSet(Busy \cup {e})
          /\ Cardinality(Busy \cup {e}) <= Cardinality(Busy) + 1
      <4>1. IsFiniteSet(Busy)
        BY <2>1
      <4>2. /\ IsFiniteSet(Busy \cup {e})
            /\ Cardinality(Busy \cup {e}) = IF e \in Busy THEN Cardinality(Busy)
                                              ELSE Cardinality(Busy) + 1
        BY <4>1, FS_AddElement
      <4> QED
        BY <2>1, <4>2
    <3>3. /\ IsFiniteSet(Busy') /\ Cardinality(Busy') <= Cardinality(Busy \cup {e})
          /\ Cardinality(Busy') \in Nat /\ Cardinality(Busy \cup {e}) \in Nat
      BY <3>1, <3>2, FS_Subset, FS_CardinalityType
    <3>4. Cardinality(Busy) + exited < MaxHandlerConcurrency /\ UNCHANGED exited
      BY <2>2 DEF WorkerTakes
    <3> QED
      BY <2>1, <3>2, <3>3, <3>4
  <2>3. CASE ~WorkerTakes
    <3>1. Busy' \subseteq Busy
      BY <2>3, BusyShrinks
    <3>2. /\ IsFiniteSet(Busy') /\ Cardinality(Busy') <= Cardinality(Busy)
          /\ Cardinality(Busy') \in Nat
      BY <2>1, <3>1, FS_Subset, FS_CardinalityType
    <3>3. \/ UNCHANGED exited
          \/ Cardinality(Busy) + exited < MaxHandlerConcurrency /\ exited' = exited + 1
      BY ThreeKinds, ServiceLeaves, DispatchLeaves
         DEF QuietStep, ReaderEnds, Close, WorkerExits, CloseCallbacks, WaitDone, WriterStep,
             WriterTakes, WriteReturns, WriteFails, WriterEnds, ReadFrame, RefuseReturns
    <3> QED
      BY <2>1, <3>2, <3>3
  <2> QED
    BY <2>2, <2>3
<1>2. reader' = "ended" => reading' = <<>>
  BY <1>0, ThreeKinds, ServiceLeaves, DispatchLeaves
     DEF Staffed, QuietStep, ReaderEnds, Close, WorkerExits, CloseCallbacks, WaitDone,
         WriterStep, WriterTakes, WriteReturns, WriteFails, WriterEnds, ReadFrame,
         RefuseReturns
<1>3. ASSUME NEW x \in refused', pc'[x] \in Busied
      PROVE  reading' # <<>> /\ Head(reading') = x
  <2>1. CASE UNCHANGED <<refused, reading>>
    <3>1. x \in refused /\ pc[x] \in Busied
      BY <1>3, <2>1, RefusedGoesOn
    <3> QED
      BY <1>0, <2>1, <3>1 DEF Staffed, Busied
  <2>2. ASSUME NEW f \in Frames, ReadFrame(f) PROVE FALSE
    <3>1. x \in refused /\ pc[x] \in Busied /\ reading = <<>>
      BY <1>3, <2>2 DEF ReadFrame
    <3> QED
      BY <1>0, <3>1 DEF Staffed, Busied
  <2>3. ASSUME NEW e \in Entries, RefuseReturns(e) PROVE FALSE
    <3>1. x \in refused /\ pc[x] \in Busied /\ pc[Head(reading)] \in {"collected", "done"}
      BY <1>3, <2>3 DEF RefuseReturns
    <3> QED
      BY <1>0, <3>1 DEF Staffed, Busied, Replied
  <2>4. ASSUME NEW e \in Entries, DispatchStep(e)
        PROVE  reading' # <<>> /\ Head(reading') = x
    <3>1. /\ reading # <<>> /\ Head(reading) = e /\ pc[e] = "none"
          /\ \/ reading' = Tail(reading) /\ UNCHANGED refused
             \/ reading' = reading /\ refused' = refused \cup {e}
      BY <2>4, DispatchLeaves
    <3>2. ASSUME x \in refused, UNCHANGED refused PROVE FALSE
      <4>1. pc[x] \in Busied
        BY <1>3, <3>2, RefusedGoesOn
      <4>2. Head(reading) = x
        BY <1>0, <3>2, <4>1 DEF Staffed, Busied
      <4> QED
        BY <3>1, <4>1, <4>2 DEF Busied, Replied
    <3>3. CASE refused' = refused \cup {e} /\ reading' = reading
      <4>1. CASE x = e
        BY <3>1, <3>3, <4>1
      <4>2. CASE x # e
        <5>1. x \in refused /\ x \in Entries
          BY <1>0, <3>3, <4>2 DEF TypeOK
        <5>2. pc'[x] = pc[x]
          <6>1. \E b : Move(e, "none", b)
            BY <2>4 DEF DispatchStep, Accept, Refuse, CancelArrives
          <6> QED
            BY <1>0, <4>2, <5>1, <6>1 DEF Move, TypeOK
        <5> QED
          BY <1>0, <1>3, <3>1, <3>3, <5>1, <5>2 DEF Staffed, Busied
      <4> QED
        BY <4>1, <4>2
    <3> QED
      BY <1>3, <3>1, <3>2, <3>3
  <2> QED
    BY <2>1, <2>2, <2>3, <2>4, ThreeKinds, ServiceLeaves
       DEF QuietStep, ReaderEnds, Close, WorkerExits, CloseCallbacks, WaitDone, WriterStep,
           WriterTakes, WriteReturns, WriteFails, WriterEnds
<1>4. writing' # None => writer' = "idle"
  BY <1>0, ThreeKinds, ServiceLeaves, DispatchLeaves
     DEF Staffed, QuietStep, ReaderEnds, Close, WorkerExits, CloseCallbacks, WaitDone,
         WriterStep, WriterTakes, WriteReturns, WriteFails, WriterEnds, ReadFrame,
         RefuseReturns
<1>5. callbacksOpen' # "open" => Joined'
  <2>1. callbacksOpen' # "open" => Joined
    BY <1>0, ThreeKinds, ServiceLeaves, DispatchLeaves
       DEF Staffed, QuietStep, ReaderEnds, Close, WorkerExits, CloseCallbacks, WaitDone,
           WriterStep, WriterTakes, WriteReturns, WriteFails, WriterEnds, ReadFrame,
           RefuseReturns
  <2>2. ASSUME Joined PROVE Joined'
    <3>1. Cardinality(Busy) + exited = MaxHandlerConcurrency
      BY <2>2, JoinedIsQuiet, FS_EmptySet, LimitsAssumption DEF Joined
    <3>2. UNCHANGED <<reader, exited, writer>>
      BY <1>0, <2>2, <3>1, LimitsAssumption, ThreeKinds, ServiceLeaves, DispatchLeaves
         DEF Staffed, Joined, QuietStep, ReaderEnds, Close, WorkerExits, CloseCallbacks,
             WaitDone, WriterStep, WriterTakes, WriteReturns, WriteFails, WriterEnds,
             ReadFrame, RefuseReturns
    <3> QED
      BY <2>2, <3>2 DEF Joined
  <2> QED
    BY <2>1, <2>2
<1>6. ASSUME callbacksOpen' = "ended", NEW x \in Entries
      PROVE  callback'[x] \notin {"queued", "running"}
  <2>1. CASE WaitDone
    <3>1. Queued = {}
      <4>1. Len(callbackQueue) = 0
        BY <2>1 DEF WaitDone
      <4>2. IsFiniteSet(Slotted) /\ Queued \subseteq Slotted
        BY <1>0 DEF Counted, SlotsCounted, Registered, Queued, Slotted
      <4> QED
        BY <1>0, <4>1, <4>2, FS_Subset, FS_EmptySet DEF Counted, QueueCounted
    <3> QED
      BY <2>1, <3>1 DEF WaitDone, Queued
  <2>2. CASE ~WaitDone
    <3>1. callbacksOpen = "ended"
      BY <1>6, <2>2, ThreeKinds, ServiceLeaves, DispatchLeaves
         DEF QuietStep, ReaderEnds, Close, WorkerExits, CloseCallbacks, WriterStep,
             WriterTakes, WriteReturns, WriteFails, WriterEnds, ReadFrame, RefuseReturns
    <3>2. \A e \in Entries : callback[e] \notin {"queued", "running"} /\ pc[e] \notin Busied
      BY <1>0, <3>1, JoinedIsQuiet DEF Staffed
    <3>3. CASE UNCHANGED callback
      BY <3>2, <3>3
    <3>4. CASE ServiceStep
      <4>1. ~CallbackStarts
        <5>1. callbackQueue # <<>> =>
                Head(callbackQueue) \in Entries /\ callback[Head(callbackQueue)] = "queued"
          BY <1>0 DEF Counted, QueueCounted, TypeOK
        <5> QED
          BY <3>2, <5>1 DEF CallbackStarts
      <4>2. ASSUME NEW e \in Entries,
                   \/ Enqueue(e) \/ SendReturns(e) \/ SendInterrupted(e) \/ Retired(e)
                   \/ CallReturns(e) \/ Published(e) \/ CallbackReturns(e)
                   \/ \E m \in Members[e] : Finish(e, m) \/ Publish(e, m)
            PROVE  FALSE
        BY <3>2, <4>2 DEF Enqueue, SendReturns, SendInterrupted, Retired, CallReturns,
           Published, CallbackReturns, Finish, Publish, MayHandOver, Move, Busied, Replied
      <4>3. ASSUME NEW e \in Entries,
                   \/ Register(e) \/ Reserve(e) \/ Reply(e)
                   \/ \E outcome \in {"ok", "error"} : HandlerReturns(e, outcome)
            PROVE  \/ UNCHANGED callback
                   \/ \E v \in {"reserving", "denied", "held", "dropped"} :
                        callback' = [callback EXCEPT ![e] = v]
        BY <4>3 DEF Register, Reserve, Reply, HandlerReturns
      <4>4. CASE WorkerTakes
        BY <3>3, <4>4 DEF WorkerTakes
      <4> QED
        BY <1>0, <3>2, <3>3, <3>4, <4>1, <4>2, <4>3, <4>4 DEF ServiceStep, TypeOK
    <3> QED
      BY <3>3, <3>4, ThreeKinds, QuietLeaves, DispatchLeaves
  <2> QED
    BY <2>1, <2>2
<1> QED
  BY <1>1, <1>2, <1>3, <1>4, <1>5, <1>6 DEF Staffed, Busied

-----------------------------------------------------------------------------
(* The callbacks *)

\* What has been written stays so, what is refused and what is retired.
LEMMA GrowingSets ==
    ASSUME TypeOK, Next
    PROVE  /\ retired \subseteq retired' /\ Range(written) \subseteq Range(written')
           /\ AnsweredOnes \subseteq AnsweredOnes'
           /\ \A e \in Entries : Finishes(e)' \subseteq Finishes(e)
<1>1. \/ UNCHANGED written
      \/ writing \in Entries /\ written' = Append(written, writing)
  BY ThreeKinds, ServiceLeaves, DispatchLeaves
     DEF QuietStep, ReaderEnds, Close, WorkerExits, CloseCallbacks, WaitDone, WriterStep,
         WriterTakes, WriteReturns, WriteFails, WriterEnds, ReadFrame, RefuseReturns,
         writerVars, replyingVars, TypeOK
<1>2. Range(written) \subseteq Range(written')
  BY <1>1, RangeOfAppend DEF TypeOK
<1>3. retired \subseteq retired'
  <2>1. CASE QuietStep
    BY <2>1, QuietLeaves
  <2>2. CASE ServiceStep
    BY <2>2 DEF ServiceStep, WorkerTakes, CallbackStarts, HandlerReturns, Register, Reserve,
       Reply, Enqueue, SendReturns, SendInterrupted, Retired, CallReturns, Published,
       CallbackReturns, Finish, Publish, serverVars, tableVars
  <2> QED
    BY <2>1, <2>2, ThreeKinds, DispatchLeaves
<1>4. refused \subseteq refused'
  BY ThreeKinds, QuietLeaves, ServiceLeaves, DispatchLeaves
<1>5. \A e \in Entries : Finishes(e)' \subseteq Finishes(e)
  BY <1>3, <1>4 DEF Finishes
<1> QED
  BY <1>2, <1>3, <1>5 DEF AnsweredOnes

\* One callback at a time changes, and how.
Becomes(m, from, to) == callback[m] = from /\ callback' = [callback EXCEPT ![m] = to]

LEMMA BecomesFacts ==
    ASSUME TypeOK, NEW m \in Entries, NEW from, NEW to, Becomes(m, from, to)
    PROVE  /\ callback[m] = from /\ callback'[m] = to
           /\ \A x \in Entries : x # m => callback'[x] = callback[x]
BY DEF TypeOK, Becomes

CallbackMoves(m) ==
    \/ /\ pc[m] \in {"handling", "returned"}
       /\ \E s \in {"none", "denied"} :
             Becomes(m, s, IF InBatch(m) THEN "reserving" ELSE "held")
       /\ UNCHANGED <<pc, slots, callbackQueue>>
    \/ Becomes(m, "reserving", "held") /\ slots' = slots + 1 /\ UNCHANGED callbackQueue
    \/ Becomes(m, "reserving", "denied") /\ UNCHANGED <<slots, callbackQueue>>
    \/ ~InBatch(m) /\ Becomes(m, "held", "running") /\ UNCHANGED <<slots, callbackQueue>>
    \/ /\ Becomes(m, "held", "dropped") \/ Becomes(m, "running", "ran")
       /\ slots' = IF InBatch(m) THEN slots - 1 ELSE slots
       /\ UNCHANGED callbackQueue
    \/ /\ InBatch(m) /\ m \in retired /\ Answered(m) /\ Finishes(m) = {}
       /\ Becomes(m, "held", "queued") /\ callbackQueue' = Append(callbackQueue, m)
       /\ UNCHANGED slots
    \/ /\ callbackQueue # <<>> /\ m = Head(callbackQueue)
       /\ Becomes(m, "queued", "running") /\ callbackQueue' = Tail(callbackQueue)
       /\ UNCHANGED slots

LEMMA CallbackSteps ==
    ASSUME InboundInv, Next
    PROVE  UNCHANGED <<callback, slots, callbackQueue>> \/ \E m \in Entries : CallbackMoves(m)
<1> USE DEF readerVars, frameVars, workVars, poolVars, tableVars, replyVars, callbackVars,
            queueVars, writerVars, serverVars
<1>0. TypeOK /\ Placed /\ Gathered /\ Registered /\ Counted /\ Written
  BY DEF InboundInv
<1>1. CASE QuietStep
  BY <1>1, QuietLeaves
<1>2. ASSUME NEW e \in Entries, DispatchStep(e) PROVE UNCHANGED <<callback, slots, callbackQueue>>
  BY <1>2, DispatchLeaves
<1>3. ASSUME NEW e \in Entries,
             \/ Enqueue(e) \/ SendReturns(e) \/ SendInterrupted(e) \/ Published(e)
             \/ \E outcome \in {"ok", "error"} : HandlerReturns(e, outcome)
             \/ \E m \in Members[e] : Finish(e, m)
      PROVE  UNCHANGED <<callback, slots, callbackQueue>>
  BY <1>3 DEF Enqueue, SendReturns, SendInterrupted, Published, HandlerReturns, Finish
<1>4. ASSUME NEW e \in Entries, Register(e) PROVE CallbackMoves(e)
  BY <1>4 DEF Register, Becomes, CallbackMoves
<1>5. ASSUME NEW e \in Entries, Reserve(e) PROVE CallbackMoves(e)
  BY <1>5 DEF Reserve, Becomes, CallbackMoves
<1>6. ASSUME NEW e \in Entries, Reply(e)
      PROVE  UNCHANGED <<callback, slots, callbackQueue>> \/ CallbackMoves(e)
  BY <1>6 DEF Reply, SlotsAfterDrop, Drops, Becomes, CallbackMoves
<1>7. ASSUME NEW e \in Entries, Retired(e) \/ CallReturns(e)
      PROVE  UNCHANGED <<callback, slots, callbackQueue>> \/ CallbackMoves(e)
  BY <1>0, <1>7 DEF Retired, CallReturns, Becomes, Placed, Move, CallbackMoves
<1>8. ASSUME NEW e \in Entries, CallbackReturns(e) PROVE CallbackMoves(e)
  BY <1>8 DEF CallbackReturns, Becomes, CallbackMoves
<1>9. ASSUME NEW e \in Entries, NEW m \in Members[e], Publish(e, m)
      PROVE  m \in Entries /\ CallbackMoves(m)
  <2>1. pc[e] = "publishing" /\ callback[m] = "held"
    BY <1>9 DEF Publish, MayHandOver, Held
  <2>2. InBatch(m) /\ m \in Entries /\ Members[m] = Members[e]
    BY <1>0, <2>1, MembersShared DEF Placed
  <2>3. m \in retired
    <3>1. m \notin Finishes(e)
      BY <1>0, <2>1 DEF Placed
    <3>2. Kind[m] = "request" /\ m \notin refused
      BY <1>0, <2>1, <2>2 DEF Registered
    <3> QED
      BY <3>1, <3>2 DEF Finishes
  <2>4. result[e] = "ok" => Answered(m)
    BY <1>0 DEF Written, Answered, AnsweredOnes
  <2>5. CASE result[e] = "ok"
    <3>1. Finishes(m) = {}
      BY <1>0, <2>1, <2>2 DEF Placed, Finishes
    <3> QED
      BY <1>9, <2>1, <2>2, <2>3, <2>4, <2>5, <3>1 DEF Publish, Becomes, CallbackMoves
  <2>6. CASE result[e] # "ok"
    BY <1>9, <2>1, <2>2, <2>6 DEF Publish, Becomes, CallbackMoves
  <2> QED
    BY <2>2, <2>5, <2>6
<1>10. ASSUME CallbackStarts PROVE \E m \in Entries : CallbackMoves(m)
  <2>1. /\ callbackQueue # <<>> /\ Head(callbackQueue) \in Entries
        /\ callback[Head(callbackQueue)] = "queued"
    BY <1>0, <1>10 DEF CallbackStarts, Counted, QueueCounted, TypeOK
  <2>2. CallbackMoves(Head(callbackQueue))
    BY <1>10, <2>1 DEF CallbackStarts, Becomes, CallbackMoves
  <2> QED
    BY <2>1, <2>2
<1>11. CASE ServiceStep
  <2>1. CASE WorkerTakes
    BY <2>1 DEF WorkerTakes
  <2> QED
    BY <1>3, <1>4, <1>5, <1>6, <1>7, <1>8, <1>9, <1>10, <1>11, <2>1 DEF ServiceStep
<1> QED
  BY <1>1, <1>2, <1>11, ThreeKinds

\* Nothing is refused or back in the queue once its handler has registered a callback.
LEMMA CallbackStays ==
    ASSUME InboundInv, Next, NEW x \in Entries, callback[x] # "none"
    PROVE  x \notin refused' /\ pc'[x] \notin {"none", "queued"}
<1>1. x \notin refused /\ pc[x] \notin {"none", "queued"}
  BY DEF InboundInv, Registered
<1>2. ASSUME NEW e \in Entries, \A y \in Entries : y # e => pc'[y] = pc[y],
             Starts(e) \/ Replies(e) \/ GoesOn(e)
      PROVE  x \notin refused' /\ pc'[x] \notin {"none", "queued"}
  <2>1. CASE x # e
    BY <1>1, <1>2, <2>1 DEF Starts, Replies, GoesOn
  <2>2. CASE x = e
    <3>1. Starts(e) => pc'[e] \in {"returned", "done"} \/ pc[e] \in {"none", "queued"}
      BY DEF Starts
    <3>2. Replies(e) => pc'[e] \in {"collected", "sending"} /\ (x \in refused' => x \in refused)
      BY <1>1, <2>2, NextPcFacts DEF Replies
    <3>3. GoesOn(e) => pc'[e] \in Replied
      BY DEF GoesOn
    <3> QED
      BY <1>1, <1>2, <2>2, <3>1, <3>2, <3>3 DEF Starts, GoesOn, Replied
  <2> QED
    BY <2>1, <2>2
<1> QED
  BY <1>1, <1>2, PcSteps DEF InboundInv

LEMMA RegisteredKept == ASSUME InboundInv, TypeOK', Next PROVE Registered'
<1>0. TypeOK /\ Placed /\ Registered
  BY DEF InboundInv
<1>1. /\ retired \subseteq retired' /\ \A x \in Entries : Answered(x) => Answered(x)'
      /\ \A x \in Entries : Finishes(x) = {} => Finishes(x)' = {}
  BY <1>0, GrowingSets DEF Answered
<1>2. ASSUME NEW x \in Entries, callback'[x] = callback[x]
      PROVE  /\ callback'[x] # "none" => /\ Kind[x] = "request" /\ x \notin refused'
                                         /\ pc'[x] \notin {"none", "queued"}
             /\ callback'[x] = "reserving" => InBatch(x)
             /\ callback'[x] = "queued" =>
                   InBatch(x) /\ x \in retired' /\ Answered(x)' /\ Finishes(x)' = {}
  BY <1>0, <1>1, <1>2, CallbackStays DEF Registered
<1>3. ASSUME NEW m \in Entries, CallbackMoves(m)
      PROVE  /\ callback'[m] # "none" => /\ Kind[m] = "request" /\ m \notin refused'
                                         /\ pc'[m] \notin {"none", "queued"}
             /\ callback'[m] = "reserving" => InBatch(m)
             /\ callback'[m] = "queued" =>
                   InBatch(m) /\ m \in retired' /\ Answered(m)' /\ Finishes(m)' = {}
             /\ \A x \in Entries : x # m => callback'[x] = callback[x]
  <2>1. /\ callback'[m] = "reserving" => InBatch(m)
        /\ callback'[m] = "queued" =>
              InBatch(m) /\ m \in retired /\ Answered(m) /\ Finishes(m) = {}
        /\ \A x \in Entries : x # m => callback'[x] = callback[x]
    BY <1>0, <1>3 DEF CallbackMoves, Becomes, TypeOK
  <2>2. CASE callback[m] # "none"
    BY <1>0, <1>1, <2>1, <2>2, CallbackStays DEF Registered
  <2>3. CASE callback[m] = "none"
    <3>1. pc[m] \in {"handling", "returned"} /\ UNCHANGED pc
      BY <1>3, <2>3 DEF CallbackMoves, Becomes
    <3>2. Kind[m] = "request" /\ m \notin refused
      BY <1>0, <3>1 DEF Placed, Handled
    <3>3. m \notin refused'
      BY <1>0, <3>1, <3>2, PcSteps, NextPcFacts DEF Starts, Replies, GoesOn
    <3> QED
      BY <1>1, <2>1, <3>1, <3>2, <3>3
  <2> QED
    BY <2>2, <2>3
<1> QED
  <2>1. CASE UNCHANGED callback
    BY <1>2, <2>1 DEF Registered
  <2>2. CASE \E m \in Entries : CallbackMoves(m)
    BY <1>2, <1>3, <2>2 DEF Registered
  <2> QED
    BY <2>1, <2>2, CallbackSteps

\* A slot is taken or freed for one callback.
LEMMA SlotsKept ==
    ASSUME SlotsCounted, NEW m,
           \/ Slotted' = Slotted /\ slots' = slots
           \/ m \notin Slotted /\ Slotted' = Slotted \cup {m} /\ slots' = slots + 1
           \/ m \in Slotted /\ Slotted' = Slotted \ {m} /\ slots' = slots - 1
    PROVE  SlotsCounted'
BY FS_AddElement, FS_RemoveElement DEF SlotsCounted

\* A callback enters the queue or leaves it.
LEMMA QueueGrows ==
    ASSUME TypeOK, QueueCounted, IsFiniteSet(Queued), NEW m \in Entries, m \notin Queued,
           Becomes(m, callback[m], "queued"), callbackQueue' = Append(callbackQueue, m)
    PROVE  QueueCounted'
<1>1. Queued' = Queued \cup {m}
  BY BecomesFacts DEF Queued
<1>2. Cardinality(Queued') = Cardinality(Queued) + 1
  BY <1>1, FS_AddElement
<1>3. /\ Len(callbackQueue') = Len(callbackQueue) + 1 /\ Len(callbackQueue) \in Nat
      /\ callbackQueue'[Len(callbackQueue) + 1] = m
      /\ \A i \in 1..Len(callbackQueue) : callbackQueue'[i] = callbackQueue[i]
      /\ \A i \in 1..Len(callbackQueue) : callbackQueue[i] \in Entries
  BY DEF TypeOK
<1>4. \A i \in 1..Len(callbackQueue') : i \in 1..Len(callbackQueue) \/ i = Len(callbackQueue) + 1
  BY <1>3
<1>5. callback'[m] = "queued" /\ \A x \in Entries : x # m => callback'[x] = callback[x]
  BY BecomesFacts
<1>6. \A i \in 1..Len(callbackQueue) : callbackQueue[i] # m
  BY DEF QueueCounted, Queued
<1>7. \A i \in 1..Len(callbackQueue') : callback'[callbackQueue'[i]] = "queued"
  BY <1>3, <1>4, <1>5, <1>6 DEF QueueCounted
<1>8. \A i, j \in 1..Len(callbackQueue') : callbackQueue'[i] = callbackQueue'[j] => i = j
  BY <1>3, <1>4, <1>6 DEF QueueCounted
<1> QED
  BY <1>2, <1>3, <1>7, <1>8 DEF QueueCounted

LEMMA QueueShrinks ==
    ASSUME TypeOK, QueueCounted, IsFiniteSet(Queued), callbackQueue # <<>>, NEW m \in Entries,
           m = Head(callbackQueue), Becomes(m, "queued", "running"),
           callbackQueue' = Tail(callbackQueue)
    PROVE  QueueCounted'
<1>1. Queued' = Queued \ {m} /\ m \in Queued
  BY BecomesFacts DEF Queued
<1>2. Cardinality(Queued') = Cardinality(Queued) - 1
  BY <1>1, FS_RemoveElement
<1>3. /\ Len(callbackQueue') = Len(callbackQueue) - 1
      /\ Len(callbackQueue) \in Nat /\ 1 \in 1..Len(callbackQueue) /\ m = callbackQueue[1]
      /\ \A i \in 1..Len(callbackQueue') :
            /\ i + 1 \in 1..Len(callbackQueue) /\ callbackQueue'[i] = callbackQueue[i + 1]
            /\ i + 1 # 1
      /\ \A i \in 1..Len(callbackQueue) : callbackQueue[i] \in Entries
  BY DEF TypeOK
<1>4. \A x \in Entries : x # m => callback'[x] = callback[x]
  BY BecomesFacts
<1>5. \A i \in 1..Len(callbackQueue') : callbackQueue'[i] # m
  BY <1>3 DEF QueueCounted
<1>6. \A i \in 1..Len(callbackQueue') : callback'[callbackQueue'[i]] = "queued"
  BY <1>3, <1>4, <1>5 DEF QueueCounted
<1>7. \A i, j \in 1..Len(callbackQueue') : callbackQueue'[i] = callbackQueue'[j] => i = j
  <2> SUFFICES ASSUME NEW i \in 1..Len(callbackQueue'), NEW j \in 1..Len(callbackQueue'),
                      callbackQueue'[i] = callbackQueue'[j]
               PROVE  i = j
    OBVIOUS
  <2>1. i + 1 = j + 1
    BY <1>3 DEF QueueCounted
  <2> QED
    BY <2>1
<1> QED
  BY <1>2, <1>3, <1>6, <1>7 DEF QueueCounted

LEMMA QueuedIsSlotted ==
    ASSUME InboundInv
    PROVE  Queued \subseteq Slotted /\ IsFiniteSet(Queued)
<1>1. Queued \subseteq Slotted
  BY DEF InboundInv, Registered, Queued, Slotted
<1> QED
  BY <1>1, FS_Subset DEF InboundInv, Counted, SlotsCounted

LEMMA CountedKept == ASSUME InboundInv, TypeOK', Next PROVE Counted'
<1>0. TypeOK /\ Registered /\ SlotsCounted /\ QueueCounted
  BY DEF InboundInv, Counted
<1>1. CASE UNCHANGED <<callback, slots, callbackQueue>>
  BY <1>0, <1>1 DEF Counted, SlotsCounted, QueueCounted, Slotted, Queued
<1>2. ASSUME NEW m \in Entries, CallbackMoves(m) PROVE Counted'
  <2>1. \A x \in Entries : x # m => callback'[x] = callback[x]
    BY <1>0, <1>2 DEF CallbackMoves, Becomes, TypeOK
  <2>2. SlotsCounted'
    <3>1. \/ Slotted' = Slotted /\ slots' = slots
          \/ m \notin Slotted /\ Slotted' = Slotted \cup {m} /\ slots' = slots + 1
          \/ m \in Slotted /\ Slotted' = Slotted \ {m} /\ slots' = slots - 1
      <4> DEFINE Slot(b) == InBatch(m) /\ b \in {"held", "queued", "running"}
      <4>1. \/ (Slot(callback'[m]) <=> Slot(callback[m])) /\ slots' = slots
            \/ ~Slot(callback[m]) /\ Slot(callback'[m]) /\ slots' = slots + 1
            \/ Slot(callback[m]) /\ ~Slot(callback'[m]) /\ slots' = slots - 1
        BY <1>0, <1>2, BecomesFacts DEF CallbackMoves, Registered
      <4> QED
        BY <2>1, <4>1 DEF Slotted
    <3> QED
      BY <1>0, <3>1, SlotsKept
  <2>3. QueueCounted'
    <3>1. CASE callback[m] # "queued" /\ callback'[m] = "queued"
      <4>1. Becomes(m, callback[m], "queued") /\ callbackQueue' = Append(callbackQueue, m)
        BY <1>0, <1>2, <3>1, BecomesFacts DEF CallbackMoves, Becomes
      <4> QED
        BY <1>0, <3>1, <4>1, QueueGrows, QueuedIsSlotted DEF Queued
    <3>2. CASE callback[m] = "queued"
      <4>1. /\ Becomes(m, "queued", "running") /\ callbackQueue # <<>>
            /\ m = Head(callbackQueue) /\ callbackQueue' = Tail(callbackQueue)
        BY <1>2, <3>2 DEF CallbackMoves, Becomes
      <4> QED
        BY <1>0, <4>1, QueueShrinks, QueuedIsSlotted
    <3>3. CASE callback[m] # "queued" /\ callback'[m] # "queued"
      <4>1. UNCHANGED callbackQueue
        BY <1>0, <1>2, <3>3, BecomesFacts DEF CallbackMoves
      <4>2. Queued' = Queued
        BY <2>1, <3>3 DEF Queued
      <4>3. \A i \in 1..Len(callbackQueue) : callbackQueue[i] \in Entries
        BY <1>0 DEF TypeOK
      <4> QED
        BY <1>0, <2>1, <3>3, <4>1, <4>2, <4>3 DEF QueueCounted
    <3> QED
      BY <3>1, <3>2, <3>3
  <2> QED
    BY <2>2, <2>3 DEF Counted
<1> QED
  BY <1>1, <1>2, CallbackSteps

-----------------------------------------------------------------------------
(* The replies *)

\* What the write queue, the writer and the wire may do in one step.
LEMMA WriterSteps ==
    ASSUME InboundInv, Next
    PROVE  \/ UNCHANGED <<writeQueue, writing, written>>
           \/ /\ \E e \in Entries : pc[e] = "sending" /\ pc'[e] = "awaiting"
                                    /\ writeQueue' = Append(writeQueue, e)
              /\ UNCHANGED <<writing, written>>
           \/ /\ writeQueue # <<>> /\ writeQueue' = Tail(writeQueue) /\ writing = None
              /\ writing' \in {None, Head(writeQueue)} /\ UNCHANGED <<pc, written>>
           \/ /\ writing \in Entries /\ writing' = None
              /\ written' \in {written, Append(written, writing)}
              /\ UNCHANGED <<pc, writeQueue>>
<1> USE DEF readerVars, frameVars, workVars, poolVars, tableVars, replyVars, callbackVars,
            queueVars, writerVars, serverVars, replyingVars
<1>0. TypeOK
  BY DEF InboundInv
<1>1. CASE QuietStep
  BY <1>0, <1>1 DEF QuietStep, ReaderEnds, Close, WorkerExits, CloseCallbacks, WaitDone,
     WriterStep, WriterTakes, WriteReturns, WriteFails, WriterEnds, ReadFrame, RefuseReturns,
     TypeOK
<1>2. ASSUME NEW e \in Entries, Enqueue(e)
      PROVE  /\ pc[e] = "sending" /\ pc'[e] = "awaiting"
             /\ writeQueue' = Append(writeQueue, e) /\ UNCHANGED <<writing, written>>
  BY <1>0, <1>2 DEF Enqueue, Move, TypeOK
<1>3. CASE ServiceStep
  <2>1. ASSUME ~\E e \in Entries : Enqueue(e) PROVE UNCHANGED <<writeQueue, writing, written>>
    BY <1>3, <2>1 DEF ServiceStep, WorkerTakes, CallbackStarts, HandlerReturns, Register,
       Reserve, Reply, SendReturns, SendInterrupted, Retired, CallReturns, Published,
       CallbackReturns, Finish, Publish
  <2> QED
    BY <1>2, <2>1
<1> QED
  BY <1>1, <1>3, ThreeKinds, DispatchLeaves

\* How the outcome of a write becomes known.
LEMMA ResultSteps ==
    ASSUME InboundInv, Next
    PROVE  \/ UNCHANGED result
           \/ \E e \in Entries :
                /\ \A x \in Entries : x # e => result'[x] = result[x]
                /\ \/ result'[e] = "error" /\ closed'
                   \/ result'[e] = "error" /\ writer' = "failing"
                   \/ result'[e] = "ok" /\ e \in Range(written')
                   \/ result'[e] = result[e] /\ result[e] # "none"
<1> USE DEF readerVars, frameVars, workVars, poolVars, tableVars, replyVars, callbackVars,
            queueVars, writerVars, serverVars, replyingVars
<1>0. TypeOK
  BY DEF InboundInv
<1>1. CASE QuietStep /\ ~WriterStep
  BY <1>1 DEF QuietStep, ReaderEnds, Close, WorkerExits, CloseCallbacks, WaitDone,
     ReadFrame, RefuseReturns
<1>2. CASE WriterTakes
  <2>1. Head(writeQueue) \in Entries
    BY <1>0, <1>2, RangeOfTail DEF WriterTakes, TypeOK
  <2>2. PICK e \in Entries : e = Head(writeQueue)
    BY <2>1
  <2>3. CASE closed
    <3>1. /\ result' = [result EXCEPT ![e] = IF @ = "none" THEN "error" ELSE @] /\ closed'
      BY <1>2, <2>2, <2>3 DEF WriterTakes
    <3>2. /\ \A x \in Entries : x # e => result'[x] = result[x]
          /\ result'[e] = IF result[e] = "none" THEN "error" ELSE result[e]
      BY <1>0, <3>1 DEF TypeOK
    <3> QED
      BY <3>1, <3>2
  <2>4. CASE ~closed
    BY <1>2, <2>4 DEF WriterTakes
  <2> QED
    BY <2>3, <2>4
<1>3. CASE WriteReturns \/ WriteFails
  <2>1. PICK e \in Entries : e = writing
    BY <1>0, <1>3 DEF WriteReturns, WriteFails, TypeOK
  <2>2. CASE WriteReturns
    <3>1. /\ result' = [result EXCEPT ![e] = IF @ = "none" THEN "ok" ELSE @]
          /\ written' = Append(written, e)
      BY <2>1, <2>2 DEF WriteReturns
    <3>2. /\ \A x \in Entries : x # e => result'[x] = result[x]
          /\ result'[e] = IF result[e] = "none" THEN "ok" ELSE result[e]
      BY <1>0, <3>1 DEF TypeOK
    <3>3. e \in Range(written')
      BY <1>0, <3>1, RangeOfAppend DEF TypeOK
    <3> QED
      BY <3>2, <3>3
  <2>3. CASE WriteFails
    <3>1. /\ result' = [result EXCEPT ![e] = IF @ = "none" THEN "error" ELSE @]
          /\ writer' = "failing"
      BY <2>1, <2>3 DEF WriteFails
    <3>2. /\ \A x \in Entries : x # e => result'[x] = result[x]
          /\ result'[e] = IF result[e] = "none" THEN "error" ELSE result[e]
      BY <1>0, <3>1 DEF TypeOK
    <3> QED
      BY <3>1, <3>2
  <2> QED
    BY <1>3, <2>2, <2>3
<1>4. CASE WriterEnds
  BY <1>4 DEF WriterEnds
<1>5. CASE ServiceStep
  <2>1. ASSUME NEW e \in Entries, SendInterrupted(e)
        PROVE  /\ \A x \in Entries : x # e => result'[x] = result[x]
               /\ result'[e] = "error" /\ closed'
    BY <1>0, <2>1 DEF SendInterrupted, Interrupts, TypeOK
  <2>2. ASSUME ~\E e \in Entries : SendInterrupted(e) PROVE UNCHANGED result
    BY <1>5, <2>2 DEF ServiceStep, WorkerTakes, CallbackStarts, HandlerReturns, Register,
       Reserve, Reply, Enqueue, SendReturns, Retired, CallReturns, Published,
       CallbackReturns, Finish, Publish
  <2> QED
    BY <2>1, <2>2
<1> QED
  BY <1>1, <1>2, <1>3, <1>4, <1>5, ThreeKinds, DispatchLeaves DEF WriterStep

\* The connection that has failed does not recover.
LEMMA StaysOver ==
    ASSUME TypeOK, Next, closed \/ writer = "failing"
    PROVE  closed' \/ writer' = "failing"
BY ThreeKinds, ServiceLeaves, DispatchLeaves
   DEF QuietStep, ReaderEnds, Close, WorkerExits, CloseCallbacks, WaitDone, WriterStep,
       WriterTakes, WriteReturns, WriteFails, WriterEnds, ReadFrame, RefuseReturns,
       readerVars, frameVars, workVars, poolVars, tableVars, replyVars, callbackVars,
       queueVars, writerVars, serverVars, replyingVars

\* An entry whose reply has been handed over goes on.
LEMMA SentGoesOn ==
    ASSUME InboundInv, Next, NEW x \in Entries, pc[x] \in Replied \ {"sending"}
    PROVE  pc'[x] \in Replied \ {"sending"}
<1>1. ASSUME NEW e \in Entries, \A y \in Entries : y # e => pc'[y] = pc[y],
             Starts(e) \/ Replies(e) \/ GoesOn(e)
      PROVE  pc'[x] \in Replied \ {"sending"}
  <2>1. x = e => ~Starts(e) /\ ~Replies(e)
    BY DEF Starts, Replies, Replied
  <2> QED
    BY <1>1, <2>1 DEF GoesOn
<1> QED
  BY <1>1, PcSteps DEF InboundInv

\* What follows the sending of a reply begins when sendEncoded returns.
LEMMA ReachesRetiring ==
    ASSUME InboundInv, Next, NEW x \in Entries,
           pc'[x] \in {"retiring", "publishing", "calling"},
           pc[x] \notin {"retiring", "publishing", "calling"}
    PROVE  SendReturns(x) \/ SendInterrupted(x)
<1> USE DEF readerVars, frameVars, workVars, poolVars, tableVars, replyVars, callbackVars,
            queueVars, writerVars, serverVars
<1> DEFINE Ends == {"retiring", "publishing", "calling"}
<1>0. TypeOK
  BY DEF InboundInv
<1>1. ~UNCHANGED pc
  OBVIOUS
<1>2. ASSUME NEW e \in Entries, NEW a, NEW b, Move(e, a, b) PROVE x = e /\ b \in Ends /\ a \notin Ends
  BY <1>0, <1>2 DEF Move, TypeOK
<1>3. ~WorkerTakes
  <2>1. WorkerTakes => Head(requestQueue) \in Entries
    BY <1>0, RangeOfTail DEF WorkerTakes, TypeOK
  <2> QED
    BY <1>2, <2>1 DEF WorkerTakes
<1>4. ASSUME NEW e \in Entries
      PROVE  /\ ~Accept(e) /\ ~Refuse(e) /\ ~CancelArrives(e) /\ ~Reply(e) /\ ~Enqueue(e)
             /\ ~Retired(e) /\ ~CallReturns(e) /\ ~Published(e)
             /\ \A outcome \in {"ok", "error"} : ~HandlerReturns(e, outcome)
  <2>1. NextPc(e) \notin Ends
    BY NextPcFacts
  <2> QED
    BY <1>2, <2>1 DEF Accept, Refuse, CancelArrives, Reply, Enqueue, Retired, CallReturns,
       Published, HandlerReturns
<1>5. ASSUME NEW e \in Entries
      PROVE  /\ ~Register(e) /\ ~Reserve(e) /\ ~CallbackReturns(e)
             /\ \A m \in Members[e] : ~Finish(e, m) /\ ~Publish(e, m)
  BY <1>1 DEF Register, Reserve, CallbackReturns, Finish, Publish
<1>6. ~QuietStep /\ ~CallbackStarts
  BY <1>1, QuietLeaves DEF CallbackStarts
<1>7. ASSUME NEW e \in Entries, SendReturns(e) \/ SendInterrupted(e) PROVE x = e
  BY <1>2, <1>7 DEF SendReturns, SendInterrupted
<1> QED
  BY <1>3, <1>4, <1>5, <1>6, <1>7, LoudSteps


LEMMA ResultsKept ==
    ASSUME InboundInv, TypeOK', Next
    PROVE  \A x \in Entries : /\ result'[x] = "ok" => x \in Range(written')
                              /\ result'[x] = "error" => closed' \/ writer' = "failing"
                              /\ pc'[x] \in {"retiring", "publishing", "calling"} =>
                                    result'[x] # "none"
<1>0. TypeOK /\ Written
  BY DEF InboundInv
<1>1. ASSUME NEW x \in Entries
      PROVE  /\ result'[x] = "ok" => x \in Range(written')
             /\ result'[x] = "error" => closed' \/ writer' = "failing"
  BY <1>0, ResultSteps, GrowingSets, StaysOver DEF Written
<1>2. ASSUME NEW x \in Entries, result[x] # "none" PROVE result'[x] # "none"
  BY <1>2, ResultSteps
<1>3. ASSUME NEW x \in Entries, pc'[x] \in {"retiring", "publishing", "calling"}
      PROVE  result'[x] # "none"
  <2>1. CASE pc[x] \in {"retiring", "publishing", "calling"}
    BY <1>0, <1>2, <2>1 DEF Written
  <2>2. CASE pc[x] \notin {"retiring", "publishing", "calling"}
    <3>1. pc'[x] # pc[x]
      BY <1>3, <2>2
    <3>2. SendReturns(x) \/ SendInterrupted(x)
      BY <1>3, <2>2, <3>1, ReachesRetiring
    <3> QED
      BY <1>0, <1>2, <3>2 DEF SendReturns, SendInterrupted, TypeOK
  <2> QED
    BY <2>1, <2>2
<1> QED
  BY <1>1, <1>3

LEMMA WrittenKept == ASSUME InboundInv, TypeOK', Next PROVE Written'
<1>0. TypeOK /\ Placed /\ Written
  BY DEF InboundInv
<1>1. \A x \in Entries : Sent(x) => pc'[x] \in Replied \ {"sending"} /\ Kind[x] # "cancel"
  BY <1>0, SentGoesOn DEF Written
<1>2. CASE UNCHANGED <<writeQueue, writing, written>>
  <2>1. \A x \in Entries : Sent(x)' <=> Sent(x)
    BY <1>2 DEF Sent
  <2> QED
    BY <1>0, <1>1, <1>2, <2>1, ResultsKept DEF Written
<1>3. ASSUME NEW e \in Entries, pc[e] = "sending", pc'[e] = "awaiting",
             writeQueue' = Append(writeQueue, e), UNCHANGED <<writing, written>>
      PROVE  Written'
  <2>1. Range(writeQueue') = Range(writeQueue) \cup {e}
    BY <1>0, <1>3, RangeOfAppend DEF TypeOK
  <2>2. ~Sent(e)
    BY <1>0, <1>3 DEF Written
  <2>3. \A x \in Entries : Sent(x)' => Sent(x) \/ x = e
    BY <1>3, <2>1 DEF Sent
  <2>4. Kind[e] # "cancel"
    BY <1>0, <1>3 DEF Placed
  <2>5. /\ Len(writeQueue') = Len(writeQueue) + 1 /\ Len(writeQueue) \in Nat
        /\ \A i \in 1..Len(writeQueue) : writeQueue'[i] = writeQueue[i]
        /\ writeQueue'[Len(writeQueue) + 1] = e
        /\ DOMAIN writeQueue = 1..Len(writeQueue)
    BY <1>0, <1>3 DEF TypeOK
  <2>6. \A i \in 1..Len(writeQueue') : i \in 1..Len(writeQueue) \/ i = Len(writeQueue) + 1
    BY <2>5
  <2>7. \A i \in 1..Len(writeQueue) : writeQueue[i] # e
    BY <2>2, <2>5 DEF Sent, Range
  <2>8. \A i, j \in 1..Len(writeQueue') : writeQueue'[i] = writeQueue'[j] => i = j
    BY <1>0, <2>5, <2>6, <2>7 DEF Written
  <2>9. \A x \in Range(writeQueue') : x # writing' /\ x \notin Range(written')
    BY <1>0, <1>3, <2>1, <2>2 DEF Written, Sent
  <2>10. writing' \notin Range(written')
    BY <1>0, <1>3 DEF Written
  <2>11. \A x \in Entries : Sent(x)' => pc'[x] \in Replied \ {"sending"} /\ Kind[x] # "cancel"
    BY <1>1, <1>3, <2>3, <2>4 DEF Replied
  <2> QED
    BY <2>8, <2>9, <2>10, <2>11, ResultsKept DEF Written
<1>4. ASSUME writeQueue # <<>>, writeQueue' = Tail(writeQueue), writing = None,
             writing' \in {None, Head(writeQueue)}, UNCHANGED <<pc, written>>
      PROVE  Written'
  <2>1. /\ Head(writeQueue) \in Range(writeQueue) /\ Head(writeQueue) \in Entries
        /\ Range(writeQueue') \subseteq Range(writeQueue)
        /\ Len(writeQueue') = Len(writeQueue) - 1
        /\ \A i \in 1..Len(writeQueue') :
              i + 1 \in 1..Len(writeQueue) /\ writeQueue'[i] = writeQueue[i + 1]
    BY <1>0, <1>4, RangeOfTail DEF TypeOK
  <2>2. \A x \in Entries : Sent(x)' => Sent(x)
    BY <1>4, <2>1 DEF Sent
  <2>3. \A i, j \in 1..Len(writeQueue') : writeQueue'[i] = writeQueue'[j] => i = j
    <3> SUFFICES ASSUME NEW i \in 1..Len(writeQueue'), NEW j \in 1..Len(writeQueue'),
                        writeQueue'[i] = writeQueue'[j]
                 PROVE  i = j
      OBVIOUS
    <3>1. i + 1 = j + 1
      BY <1>0, <2>1 DEF Written
    <3> QED
      BY <3>1
  <2>4. /\ writeQueue' \in Seq(Entries) /\ writing' \in Entries \cup {None}
        /\ written \in Seq(Entries)
    <3>1. writeQueue \in Seq(Entries) /\ written \in Seq(Entries)
      BY <1>0 DEF TypeOK
    <3> QED
      BY <1>4, <2>1, <3>1, RangeOfTail
  <2>5. /\ DOMAIN writeQueue' = 1..Len(writeQueue') /\ Head(writeQueue) = writeQueue[1]
        /\ Len(writeQueue) \in Nat /\ 1 \in 1..Len(writeQueue)
    <3>1. writeQueue \in Seq(Entries)
      BY <1>0 DEF TypeOK
    <3> QED
      BY <1>4, <2>4, <3>1
  <2>6. Head(writeQueue) \notin Range(writeQueue')
    <3> SUFFICES ASSUME Head(writeQueue) \in Range(writeQueue') PROVE FALSE
      OBVIOUS
    <3>1. PICK i \in 1..Len(writeQueue') : writeQueue'[i] = writeQueue[1]
      BY <2>5 DEF Range
    <3>2. /\ i + 1 \in 1..Len(writeQueue) /\ i + 1 # 1
          /\ writeQueue[i + 1] = writeQueue[1]
      BY <2>1, <3>1
    <3> QED
      BY <1>0, <2>5, <3>2 DEF Written
  <2>7. None \notin Entries /\ Range(writeQueue') \subseteq Entries /\ Range(written) \subseteq Entries
    BY <2>4, FramesAssumption DEF Range
  <2>8. \A x \in Range(writeQueue') : x # writing' /\ x \notin Range(written')
    <3> SUFFICES ASSUME NEW x \in Range(writeQueue')
                 PROVE  x # writing' /\ x \notin Range(written)
      BY <1>4
    <3>1. x # None /\ x # Head(writeQueue) /\ x \in Range(writeQueue)
      BY <2>1, <2>6, <2>7
    <3> QED
      BY <1>0, <1>4, <3>1 DEF Written
  <2>9. writing' \notin Range(written')
    <3>1. Head(writeQueue) \notin Range(written)
      BY <1>0, <2>1 DEF Written
    <3> QED
      BY <1>4, <2>7, <3>1
  <2>10. \A x \in Entries : Sent(x)' => pc'[x] \in Replied \ {"sending"} /\ Kind[x] # "cancel"
    BY <1>1, <2>2
  <2> QED
    BY <2>3, <2>8, <2>9, <2>10, ResultsKept DEF Written
<1>5. ASSUME writing \in Entries, writing' = None,
             written' \in {written, Append(written, writing)}, UNCHANGED <<pc, writeQueue>>
      PROVE  Written'
  <2>1. Range(written') \subseteq Range(written) \cup {writing}
    <3>1. written \in Seq(Entries)
      BY <1>0 DEF TypeOK
    <3>2. Range(Append(written, writing)) = Range(written) \cup {writing}
      BY <1>5, <3>1, RangeOfAppend
    <3>3. CASE written' = written
      BY <3>3
    <3>4. CASE written' = Append(written, writing)
      BY <3>2, <3>4
    <3> QED
      BY <1>5, <3>3, <3>4
  <2>2. Range(writeQueue) \subseteq Entries /\ Range(written) \subseteq Entries /\ None \notin Entries
    <3>1. writeQueue \in Seq(Entries) /\ written \in Seq(Entries)
      BY <1>0 DEF TypeOK
    <3> QED
      BY <3>1, FramesAssumption DEF Range
  <2>3. \A x \in Entries : Sent(x)' => Sent(x)
    BY <1>5, <2>1, <2>2 DEF Sent
  <2>4. \A x \in Range(writeQueue') : x # writing' /\ x \notin Range(written')
    BY <1>0, <1>5, <2>1, <2>2 DEF Written
  <2>5. writing' \notin Range(written')
    BY <1>5, <2>1, <2>2
  <2>6. \A x \in Entries : Sent(x)' => pc'[x] \in Replied \ {"sending"} /\ Kind[x] # "cancel"
    BY <1>1, <1>5, <2>3
  <2>7. \A i, j \in 1..Len(writeQueue') : writeQueue'[i] = writeQueue'[j] => i = j
    BY <1>0, <1>5 DEF Written
  <2> QED
    BY <2>4, <2>5, <2>6, <2>7, ResultsKept DEF Written
<1> QED
  BY <1>2, <1>3, <1>4, <1>5, WriterSteps

-----------------------------------------------------------------------------
(* The in-flight table *)

\* Only the reader brings an entry in.
LEMMA SeenByReader ==
    ASSUME InboundInv, Next, NEW x \in Entries, pc[x] = "none", pc'[x] # "none"
    PROVE  DispatchStep(x)
<1> USE DEF readerVars, frameVars, workVars, poolVars, tableVars, replyVars, callbackVars,
            queueVars, writerVars, serverVars
<1>0. TypeOK
  BY DEF InboundInv
<1>1. ~UNCHANGED pc
  OBVIOUS
<1>2. ASSUME NEW e \in Entries, NEW a, NEW b, Move(e, a, b) PROVE x = e /\ a = "none"
  BY <1>0, <1>2 DEF Move, TypeOK
<1>3. ~WorkerTakes
  <2>1. WorkerTakes => Head(requestQueue) \in Entries
    BY <1>0, RangeOfTail DEF WorkerTakes, TypeOK
  <2> QED
    BY <1>2, <2>1 DEF WorkerTakes
<1>4. ASSUME NEW e \in Entries
      PROVE  /\ ~Reply(e) /\ ~Enqueue(e) /\ ~SendReturns(e) /\ ~SendInterrupted(e)
             /\ ~Retired(e) /\ ~CallReturns(e) /\ ~Published(e)
             /\ \A outcome \in {"ok", "error"} : ~HandlerReturns(e, outcome)
  BY <1>2 DEF Reply, Enqueue, SendReturns, SendInterrupted, Retired, CallReturns, Published,
     HandlerReturns
<1>5. ASSUME NEW e \in Entries
      PROVE  /\ ~Register(e) /\ ~Reserve(e) /\ ~CallbackReturns(e)
             /\ \A m \in Members[e] : ~Finish(e, m) /\ ~Publish(e, m)
  BY <1>1 DEF Register, Reserve, CallbackReturns, Finish, Publish
<1>6. ~QuietStep /\ ~CallbackStarts
  BY <1>1, QuietLeaves DEF CallbackStarts
<1>7. ASSUME NEW e \in Entries, Accept(e) \/ Refuse(e) \/ CancelArrives(e) PROVE x = e
  BY <1>2, <1>7 DEF Accept, Refuse, CancelArrives
<1> QED
  BY <1>3, <1>4, <1>5, <1>6, <1>7, LoudSteps DEF DispatchStep

LEMMA SeenStays ==
    ASSUME TypeOK, Next, NEW x \in Entries, pc[x] # "none"
    PROVE  pc'[x] # "none"
<1>1. ASSUME NEW e \in Entries, \A y \in Entries : y # e => pc'[y] = pc[y],
             Starts(e) \/ Replies(e) \/ GoesOn(e)
      PROVE  pc'[x] # "none"
  <2>1. pc'[e] # "none"
    BY <1>1, NextPcFacts DEF Starts, Replies, GoesOn, Replied
  <2> QED
    BY <1>1, <2>1
<1> QED
  BY <1>1, PcSteps

\* Only enqueueRequest and finish() touch the table.
LEMMA TableSteps ==
    ASSUME Next
    PROVE  \/ UNCHANGED <<inflight, retired>>
           \/ \E e \in Entries : Accept(e) \/ \E m \in Members[e] : Finish(e, m)
BY LoudSteps, QuietLeaves
   DEF WorkerTakes, CallbackStarts, Refuse, CancelArrives, HandlerReturns, Register, Reserve,
       Reply, Enqueue, SendReturns, SendInterrupted, Retired, CallReturns, Published,
       CallbackReturns, Publish, tableVars, serverVars

LEMMA TrackedKept == ASSUME InboundInv, TypeOK', Next PROVE InFlightTracked'
<1>0. TypeOK /\ Placed /\ Gathered /\ InFlightTracked
  BY DEF InboundInv
<1>1. \A x \in Entries : Id[x] \in Ids /\ x # None
  BY FramesAssumption
<1>2. ASSUME NEW e \in Entries, Accept(e) PROVE InFlightTracked'
  <2>1. /\ Kind[e] = "request" /\ inflight[Id[e]] = None /\ pc[e] = "none"
        /\ inflight' = [inflight EXCEPT ![Id[e]] = e] /\ UNCHANGED <<retired, refused>>
        /\ Move(e, "none", "queued")
    BY <1>2 DEF Accept, Duplicate, Move, frameVars
  <2>2. pc'[e] = "queued" /\ \A x \in Entries : x # e => pc'[x] = pc[x]
    BY <1>0, <2>1 DEF Move, TypeOK
  <2>3. /\ inflight'[Id[e]] = e
        /\ \A i \in Ids : i # Id[e] => inflight'[i] = inflight[i]
    BY <1>0, <1>1, <2>1 DEF TypeOK
  <2>4. /\ Open(e)' /\ ~Open(e)
        /\ \A x \in Entries : x # e => (Open(x)' <=> Open(x))
    BY <1>0, <2>1, <2>2 DEF Open, Placed
  <2>5. ASSUME NEW i \in Ids, NEW x \in Entries
        PROVE  inflight'[i] = x <=> Open(x)' /\ Id[x] = i
    <3>1. inflight[i] = x <=> Open(x) /\ Id[x] = i
      BY <1>0 DEF InFlightTracked
    <3> QED
      BY <1>1, <2>1, <2>3, <2>4, <3>1
  <2> QED
    BY <2>5 DEF InFlightTracked
<1>3. ASSUME NEW e \in Entries, NEW m \in Members[e], Finish(e, m) PROVE InFlightTracked'
  <2>1. /\ UNCHANGED <<pc, refused>> /\ retired' = retired \cup {m}
        /\ inflight' = [inflight EXCEPT ![Id[m]] = None]
        /\ pc[e] = "retiring" /\ Kind[m] = "request" /\ m \notin refused \cup retired
    BY <1>3 DEF Finish, Finishes, Without, readerVars, frameVars, workVars
  <2>2. m \in Entries /\ pc[m] # "none"
    BY <1>0, <2>1, OthersCollected, MembersShared DEF Replied
  <2>3. Open(m) /\ ~Open(m)' /\ \A x \in Entries : x # m => (Open(x)' <=> Open(x))
    BY <2>1, <2>2 DEF Open
  <2>4. /\ inflight'[Id[m]] = None /\ inflight[Id[m]] = m
        /\ \A i \in Ids : i # Id[m] => inflight'[i] = inflight[i]
    BY <1>0, <1>1, <2>1, <2>2, <2>3 DEF TypeOK, InFlightTracked
  <2>5. ASSUME NEW i \in Ids, NEW x \in Entries
        PROVE  inflight'[i] = x <=> Open(x)' /\ Id[x] = i
    <3>1. inflight[i] = x <=> Open(x) /\ Id[x] = i
      BY <1>0 DEF InFlightTracked
    <3> QED
      BY <1>1, <2>2, <2>3, <2>4, <3>1
  <2> QED
    BY <2>5 DEF InFlightTracked
<1>4. CASE UNCHANGED <<inflight, retired>>
  <2>1. ASSUME NEW x \in Entries, Kind[x] = "request", ~\E e \in Entries : Accept(e)
        PROVE  Open(x)' <=> Open(x)
    <3>1. CASE pc[x] = "none" /\ pc'[x] # "none"
      <4>1. DispatchStep(x)
        BY <3>1, SeenByReader
      <4>2. Refuse(x)
        BY <2>1, <4>1 DEF DispatchStep, CancelArrives
      <4> QED
        BY <3>1, <4>2 DEF Refuse, Open
    <3>2. CASE (pc[x] = "none") <=> (pc'[x] = "none")
      <4>1. x \in refused' <=> x \in refused \/ (pc[x] = "none" /\ x \in refused')
        <5>1. refused \subseteq refused' /\ \A e \in refused' \ refused : pc[e] = "none"
          BY <1>0, ThreeKinds, QuietLeaves, ServiceLeaves, DispatchLeaves
        <5> QED
          BY <5>1
      <4> QED
        BY <1>4, <3>2, <4>1 DEF Open
    <3> QED
      BY <1>0, <3>1, <3>2, SeenStays
  <2>2. \A x \in Entries : Open(x)' \/ Open(x) => Kind[x] = "request"
    BY DEF Open
  <2> QED
    BY <1>0, <1>2, <1>4, <2>1, <2>2 DEF InFlightTracked
<1> QED
  BY <1>2, <1>3, <1>4, TableSteps

-----------------------------------------------------------------------------
(* The invariant holds *)

LEMMA InitTypes == Init => TypeOK
<1> SUFFICES ASSUME Init PROVE TypeOK
  OBVIOUS
<1>1. /\ closed \in BOOLEAN /\ coming \subseteq Frames /\ reading \in Seq(Entries)
      /\ reader \in {"reading", "ended"} /\ pc \in [Entries -> Pcs]
  <2>1. coming \subseteq Frames
    BY FramesAssumption DEF Init
  <2>2. reading \in Seq(Entries)
    BY DEF Init
  <2> QED
    BY <2>1, <2>2 DEF Init, Pcs
<1>2. /\ refused \subseteq Entries /\ inflight \in [Ids -> Entries \cup {None}]
      /\ retired \subseteq Entries /\ cancelled \subseteq Entries
  BY DEF Init
<1>3. /\ requestQueue \in Seq(Entries) /\ Len(requestQueue) <= MaxQueuedRequests
      /\ writeQueue \in Seq(Entries) /\ Len(writeQueue) <= MaxQueuedWrites
      /\ callbackQueue \in Seq(Entries) /\ written \in Seq(Entries)
      /\ exited \in 0..MaxHandlerConcurrency /\ slots \in 0..MaxPendingRequests
  BY LimitsAssumption DEF Init
<1>4. /\ answer \in [Entries -> {"none", "ok", "error"}] /\ collected \subseteq Entries
      /\ callback \in [Entries -> {"none", "reserving", "denied", "held", "queued", "running",
                                   "ran", "dropped"}]
      /\ callbacksOpen \in {"open", "closed", "ended"}
      /\ writer \in {"idle", "failing", "ended"} /\ writing \in Entries \cup {None}
      /\ result \in [Entries -> {"none", "ok", "error"}]
  BY DEF Init
<1> QED
  BY <1>1, <1>2, <1>3, <1>4 DEF TypeOK

LEMMA Initially == Init => InboundInv
<1> SUFFICES ASSUME Init PROVE InboundInv
  OBVIOUS
<1>0. \A e \in Entries : pc[e] = "none" /\ callback[e] = "none" /\ result[e] = "none"
  BY DEF Init
<1>1. Placed
  BY <1>0 DEF Init, Placed, Handled
<1>2. Gathered
  BY <1>0 DEF Init, Gathered, Replied
<1>3. Staffed
  <2>1. Busy = {}
    BY <1>0 DEF Busy
  <2>2. IsFiniteSet(Busy) /\ Cardinality(Busy) = 0
    BY <2>1, FS_EmptySet
  <2> QED
    BY <2>2, LimitsAssumption DEF Init, Staffed
<1>4. Registered
  BY <1>0 DEF Registered
<1>5. Counted
  <2>1. Slotted = {} /\ Queued = {}
    BY <1>0 DEF Slotted, Queued
  <2>2. IsFiniteSet(Slotted) /\ Cardinality(Slotted) = 0 /\ Cardinality(Queued) = 0
    BY <2>1, FS_EmptySet
  <2> QED
    BY <2>2 DEF Init, Counted, SlotsCounted, QueueCounted
<1>6. Written
  <2>1. Range(writeQueue) = {} /\ Range(written) = {} /\ writing = None /\ Len(writeQueue) = 0
    BY DEF Init, Range
  <2>2. \A e \in Entries : ~Sent(e)
    BY <2>1, FramesAssumption DEF Sent
  <2> QED
    BY <1>0, <2>1, <2>2 DEF Written
<1>7. InFlightTracked
  <2>1. \A i \in Ids : inflight[i] = None
    BY DEF Init
  <2> QED
    BY <1>0, <2>1, FramesAssumption DEF InFlightTracked, Open
<1> QED
  BY <1>1, <1>2, <1>3, <1>4, <1>5, <1>6, <1>7, InitTypes DEF InboundInv

LEMMA StaysStill == InboundInv /\ UNCHANGED vars => InboundInv'
<1> SUFFICES ASSUME InboundInv, UNCHANGED vars PROVE InboundInv'
  OBVIOUS
<1> USE DEF vars, readerVars, frameVars, workVars, poolVars, tableVars, replyVars,
            callbackVars, queueVars, writerVars
<1>1. TypeOK' /\ Placed' /\ InFlightTracked'
  BY DEF InboundInv, TypeOK, Placed, Finishes, InFlightTracked, Open
<1>2. Gathered' /\ Written'
  BY DEF InboundInv, Gathered, Written, Sent
<1>3. Registered'
  <2>1. \A e \in Entries : Finishes(e)' = Finishes(e)
    BY DEF Finishes
  <2> QED
    BY <2>1 DEF InboundInv, Registered, Answered, AnsweredOnes
<1>4. Staffed'
  <2>1. Busy' = Busy
    BY DEF Busy
  <2> QED
    BY <2>1 DEF InboundInv, Staffed, Joined
<1>5. Counted'
  <2>1. Slotted' = Slotted /\ Queued' = Queued
    BY DEF Slotted, Queued
  <2> QED
    BY <2>1 DEF InboundInv, Counted, SlotsCounted, QueueCounted
<1> QED
  BY <1>1, <1>2, <1>3, <1>4, <1>5 DEF InboundInv

LEMMA InvariantKept == InboundInv /\ Next => InboundInv'
<1> SUFFICES ASSUME InboundInv, Next PROVE InboundInv'
  OBVIOUS
<1>1. TypeOK'
  BY InboundTypes
<1> QED
  BY <1>1, PlacedKept, GatheredKept, StaffedKept, RegisteredKept, CountedKept, WrittenKept,
     TrackedKept DEF InboundInv

\* The invariant of the inbound side: where an entry may be at each point of its life, the
\* collector of its array, the workers, the callbacks with their slots and their queue, and
\* the replies on their way to the wire (dispatch, handleInbound, complete, processWrites).
THEOREM InboundInvariance == Spec => []InboundInv
<1>1. InboundInv /\ [Next]_vars => InboundInv'
  BY InvariantKept, StaysStill
<1> QED
  BY <1>1, Initially, PTL DEF Spec

\* The in-flight table is exact however handlers, cancellations and duplicate ids
\* interleave: an id maps to a request from the moment enqueueRequest accepts it until its
\* finish(), and to nothing else (enqueueRequest, removeInflight).
THEOREM InFlight == Spec => []InFlightTracked
<1>1. InboundInv => InFlightTracked
  BY DEF InboundInv
<1> QED
  BY <1>1, InboundInvariance, PTL

\* No slot is leaked or released twice: the counter equals the callbacks of arrays that are
\* registered, queued or running (reserveBatchCallback, handleInbound, complete, start).
THEOREM Slots == Spec => []SlotsHeld
<1>1. InboundInv => SlotsHeld
  BY DEF InboundInv, SlotsHeld, Counted, SlotsCounted, Slotted
<1> QED
  BY <1>1, InboundInvariance, PTL

\* complete() hands its callbacks over without waiting: a slot was reserved for each of
\* them, and the queue is as long as there are slots, so that it may be called by the
\* reader (complete: "this cannot block the reader").
THEOREM NeverBlocks == Spec => []CallbackNeverBlocks
<1>1. ASSUME InboundInv, NEW e \in Entries, pc[e] = "publishing"
      PROVE  Len(callbackQueue) + Cardinality(Held(e)) <= MaxPendingRequests
  <2>1. InBatch(e)
    BY <1>1 DEF InboundInv, Placed
  <2>2. Held(e) \subseteq Slotted /\ Queued \subseteq Slotted /\ Held(e) \cap Queued = {}
    BY <2>1, <1>1, MembersShared DEF Held, Slotted, Queued, InboundInv, Registered
  <2>3. IsFiniteSet(Slotted) /\ slots = Cardinality(Slotted) /\ slots <= MaxPendingRequests
        /\ Len(callbackQueue) = Cardinality(Queued)
    BY <1>1, LimitsAssumption DEF InboundInv, Counted, SlotsCounted, QueueCounted, TypeOK
  <2>4. IsFiniteSet(Held(e)) /\ IsFiniteSet(Queued)
    BY <2>2, <2>3, FS_Subset
  <2>5. Cardinality(Held(e) \cup Queued)
          = Cardinality(Held(e)) + Cardinality(Queued) - Cardinality(Held(e) \cap Queued)
    BY <2>4, FS_Union
  <2>6. Cardinality(Held(e) \cap Queued) = 0
    BY <2>2, FS_EmptySet
  <2>7. Held(e) \cup Queued \subseteq Slotted
    BY <2>2
  <2>8. Cardinality(Held(e) \cup Queued) <= Cardinality(Slotted)
    BY <2>3, <2>7, FS_Subset
  <2>9. /\ Cardinality(Held(e)) \in Nat /\ Cardinality(Queued) \in Nat
        /\ Cardinality(Slotted) \in Nat /\ MaxPendingRequests \in Nat
    BY <2>3, <2>4, FS_CardinalityType, LimitsAssumption
  <2> QED
    BY <2>3, <2>5, <2>6, <2>8, <2>9
<1>2. InboundInv => CallbackNeverBlocks
  BY <1>1 DEF CallbackNeverBlocks
<1> QED
  BY <1>2, InboundInvariance, PTL

\* start() closes the callback queue when nobody is left to send to it, so that no
\* goroutine panics on a closed channel, and Wait returns when no callback runs.
THEOREM LateCallbacks == Spec => []NoLateCallback
<1>1. ASSUME InboundInv PROVE NoLateCallback
  <2>1. callbacksOpen # "open" => Joined
    BY <1>1 DEF InboundInv, Staffed
  <2>2. Joined => \A e \in Entries : pc[e] # "publishing"
    BY <1>1, JoinedIsQuiet DEF Busied, Replied
  <2>3. callbacksOpen = "ended" => \A e \in Entries : callback[e] \notin {"queued", "running"}
    BY <1>1 DEF InboundInv, Staffed
  <2> QED
    BY <2>1, <2>2, <2>3 DEF NoLateCallback
<1> QED
  BY <1>1, InboundInvariance, PTL

\* A cancellation never misses a request whose handler has not returned: the table still
\* has the id of a request that is queued or handled (handleCancelRequest).
THEOREM CancelReaches == Spec => CancelReachesHandler
<1>1. ASSUME InboundInv, Next, NEW c \in Entries, NEW e \in Entries, Kind[c] = "cancel",
             pc[c] # pc'[c], Id[e] = Id[c], Kind[e] = "request", pc[e] \in {"queued", "handling"}
      PROVE  e \in cancelled'
  <2>1. pc[c] = "none" /\ pc'[c] # "none"
    <3>1. InboundInv'
      BY <1>1, InvariantKept
    <3>2. pc[c] \in {"none", "done"} /\ pc'[c] \in {"none", "done"}
      BY <1>1, <3>1 DEF InboundInv, Placed
    <3> QED
      BY <1>1, <3>2, SeenStays DEF InboundInv
  <2>2. CancelArrives(c)
    BY <1>1, <2>1, SeenByReader DEF DispatchStep, Accept, Refuse
  <2>3. Open(e)
    BY <1>1 DEF Open, InboundInv, Placed, Handled
  <2>4. inflight[Id[c]] = e
    BY <1>1, <2>3, FramesAssumption DEF InboundInv, InFlightTracked
  <2> QED
    BY <2>2, <2>4, FramesAssumption DEF CancelArrives
<1>2. InboundInv /\ [Next]_vars =>
        [\A c, e \in Entries :
            /\ Kind[c] = "cancel" /\ pc[c] # pc'[c]
            /\ Id[e] = Id[c] /\ Kind[e] = "request" /\ pc[e] \in {"queued", "handling"}
            => e \in cancelled']_vars
  BY <1>1
<1> QED
  BY <1>2, InboundInvariance, PTL DEF Spec, CancelReachesHandler

-----------------------------------------------------------------------------
(* The contract *)

\* How far an entry has come, as the peer sees it.
StageAt(e) ==
    IF Answered(e) THEN IF e \in retired \cup refused THEN "retired" ELSE "answered"
    ELSE IF e \in retired THEN "lost" ELSE IF pc[e] = "none" THEN "unseen"
    ELSE IF e \in refused THEN "refused" ELSE "open"

LEMMA StageFacts ==
    /\ Stage = [e \in Entries |-> StageAt(e)]
    /\ Stage' = [e \in Entries |-> StageAt(e)']
BY DEF Stage, StageAt, Answered

\* An answered entry has been written, or was in the array of one that was.
LEMMA AnsweredFacts ==
    ASSUME InboundInv, NEW e \in Entries, Answered(e)
    PROVE  \E w \in Entries : /\ w \in Range(written) /\ e \in Members[w]
                              /\ pc[w] \in Replied \ {"sending"}
                              /\ e # w => pc[e] = "collected"
<1>1. PICK w \in Range(written) : e \in Members[w]
  BY DEF Answered, AnsweredOnes
<1>2. w \in Entries
  <2>1. written \in Seq(Entries)
    BY DEF InboundInv, TypeOK
  <2> QED
    BY <2>1 DEF Range
<1>3. pc[w] \in Replied \ {"sending"}
  BY <1>2 DEF InboundInv, Written, Sent
<1>4. e # w => pc[e] = "collected"
  BY <1>1, <1>2, <1>3, OthersCollected DEF InboundInv
<1> QED
  BY <1>1, <1>2, <1>3, <1>4

\* The stages change when the reader takes an entry in, when finish() retires a request,
\* and when a reply is written.
LEMMA StageStays ==
    ASSUME InboundInv, Next, ~WriteReturns,
           \A e \in Entries : ~DispatchStep(e) /\ \A m \in Members[e] : ~Finish(e, m)
    PROVE  Stage' = Stage
<1>1. UNCHANGED retired
  BY TableSteps DEF DispatchStep
<1>2. UNCHANGED written
  BY ThreeKinds, ServiceLeaves
     DEF QuietStep, ReaderEnds, Close, WorkerExits, CloseCallbacks, WaitDone, WriterStep,
         WriterTakes, WriteFails, WriterEnds, ReadFrame, RefuseReturns, writerVars,
         replyingVars
<1>3. \A x \in Entries : (pc'[x] = "none") <=> (pc[x] = "none")
  BY SeenByReader, SeenStays DEF InboundInv
<1>4. UNCHANGED refused
  BY ThreeKinds, QuietLeaves, ServiceLeaves
<1>5. \A x \in Entries : StageAt(x)' = StageAt(x)
  BY <1>1, <1>2, <1>3, <1>4 DEF StageAt, Answered, AnsweredOnes
<1> QED
  BY <1>5, StageFacts

\* Callbacks are started by the worker of the request and by the callback worker.
LEMMA CalledStays ==
    ASSUME InboundInv, Next, ~CallbackStarts, \A e \in Entries : ~Retired(e)
    PROVE  Called' = Called
<1> USE DEF readerVars, frameVars, workVars, poolVars, tableVars, replyVars, callbackVars,
            queueVars, writerVars, serverVars
<1>1. CASE UNCHANGED callback
  BY <1>1 DEF Called
<1>2. ASSUME NEW m \in Entries, NEW v,
             callback' = [callback EXCEPT ![m] = v],
             (v \in {"running", "ran"}) <=> (callback[m] \in {"running", "ran"})
      PROVE  Called' = Called
  <2>1. callback'[m] = v /\ \A x \in Entries : x # m => callback'[x] = callback[x]
    BY <1>2 DEF InboundInv, TypeOK
  <2> QED
    BY <1>2, <2>1 DEF Called
<1>3. ASSUME NEW e \in Entries,
             Register(e) \/ Reserve(e) \/ Reply(e) \/ CallReturns(e) \/ CallbackReturns(e)
      PROVE  Called' = Called
  <2>1. UNCHANGED callback \/ \E v : /\ callback' = [callback EXCEPT ![e] = v]
                                     /\ (v \in {"running", "ran"})
                                           <=> (callback[e] \in {"running", "ran"})
    BY <1>3 DEF Register, Reserve, Reply, Drops, CallReturns, CallbackReturns, Move,
       InboundInv, Placed
  <2> QED
    BY <1>1, <1>2, <2>1
<1>4. ASSUME NEW e \in Entries, NEW m \in Members[e], Publish(e, m) PROVE Called' = Called
  <2>1. /\ callback[m] = "held"
        /\ \E v \in {"queued", "dropped"} : callback' = [callback EXCEPT ![m] = v]
    BY <1>4 DEF Publish, Held
  <2> QED
    BY <1>2, <2>1, MembersShared
<1>5. ASSUME NEW e \in Entries,
             \/ Enqueue(e) \/ SendReturns(e) \/ SendInterrupted(e) \/ Published(e)
             \/ \E outcome \in {"ok", "error"} : HandlerReturns(e, outcome)
             \/ \E m \in Members[e] : Finish(e, m)
      PROVE  Called' = Called
  BY <1>1, <1>5 DEF Enqueue, SendReturns, SendInterrupted, Published, HandlerReturns, Finish
<1>6. CASE WorkerTakes
  BY <1>1, <1>6 DEF WorkerTakes
<1>7. CASE QuietStep
  BY <1>1, <1>7, QuietLeaves
<1>8. ASSUME NEW e \in Entries, DispatchStep(e) PROVE Called' = Called
  BY <1>1, <1>8, DispatchLeaves
<1> QED
  BY <1>3, <1>4, <1>5, <1>6, <1>7, <1>8, ThreeKinds DEF ServiceStep

\* The reader takes an entry in, or refuses it.
LEMMA DispatchImplements ==
    ASSUME InboundInv, Next, NEW e \in Entries, DispatchStep(e)
    PROVE  Contract!Open(e) \/ Contract!Refuse(e)
<1>1. /\ UNCHANGED <<closed, callback, writer, written, retired>> /\ pc[e] = "none"
      /\ UNCHANGED refused \/ refused' = refused \cup {e}
  BY DispatchLeaves DEF callbackVars, writerVars
<1>2. pc'[e] # "none" /\ \A x \in Entries : x # e => pc'[x] = pc[x]
  <2>1. \E b \in Pcs \ {"none"} : Move(e, "none", b)
    BY NextPcFacts DEF DispatchStep, Accept, Refuse, CancelArrives, Pcs
  <2> QED
    BY <2>1 DEF InboundInv, TypeOK, Move
<1>3. e \notin retired
  BY <1>1 DEF InboundInv, Placed
<1>4. ~Answered(e)
  BY <1>1, AnsweredFacts DEF Replied
<1>5. \A x \in Entries : Answered(x)' <=> Answered(x)
  BY <1>1 DEF Answered, AnsweredOnes
<1>6. StageAt(e) = "unseen" /\ StageAt(e)' \in {"open", "refused"}
  BY <1>1, <1>2, <1>3, <1>4, <1>5 DEF StageAt
<1>7. \A x \in Entries : x # e => StageAt(x)' = StageAt(x)
  BY <1>1, <1>2, <1>5 DEF StageAt
<1>8. /\ Stage[e] = "unseen"
      /\ \E s \in {"open", "refused"} :
            Stage' = [x \in Entries |-> IF x = e THEN s ELSE Stage[x]]
  BY <1>6, <1>7, StageFacts
<1>9. Called' = Called /\ (closed \/ writer = "failing")' = (closed \/ writer = "failing")
  BY <1>1 DEF Called
<1> QED
  BY <1>8, <1>9 DEF Contract!Open, Contract!Refuse, Contract!Advance

\* finish() retires a request that was answered, or gives it up with the connection.
LEMMA FinishImplements ==
    ASSUME InboundInv, Next, NEW e \in Entries, NEW m \in Members[e], Finish(e, m)
    PROVE  m \in Entries /\ (Contract!Retire(m) \/ Contract!Lose(m))
<1>1. /\ UNCHANGED <<closed, callback, writer, written, pc, refused>>
      /\ retired' = retired \cup {m} /\ pc[e] = "retiring" /\ m \notin retired \cup refused
  BY DEF Finish, Finishes, readerVars, frameVars, workVars, callbackVars, writerVars
<1>2. m \in Entries /\ pc[m] # "none"
  BY <1>1, MembersShared, OthersCollected DEF Replied, InboundInv
<1>3. \A x \in Entries : Answered(x)' <=> Answered(x)
  BY <1>1 DEF Answered, AnsweredOnes
<1>4. ~Answered(m) => closed \/ writer = "failing"
  <2>1. result[e] \in {"ok", "error"}
    BY <1>1 DEF InboundInv, TypeOK, Written
  <2>2. result[e] = "ok" => Answered(m)
    BY DEF InboundInv, Written, Answered, AnsweredOnes
  <2> QED
    BY <2>1, <2>2 DEF InboundInv, Written
<1>5. /\ Answered(m) => StageAt(m) = "answered" /\ StageAt(m)' = "retired"
      /\ ~Answered(m) => StageAt(m) = "open" /\ StageAt(m)' = "lost"
  BY <1>1, <1>2, <1>3 DEF StageAt
<1>6. \A x \in Entries : x # m => StageAt(x)' = StageAt(x)
  BY <1>1, <1>3 DEF StageAt
<1>7. Called' = Called /\ (closed \/ writer = "failing")' = (closed \/ writer = "failing")
  BY <1>1 DEF Called
<1>8. CASE Answered(m)
  <2>1. /\ Stage[m] = "answered"
        /\ Stage' = [x \in Entries |-> IF x = m THEN "retired" ELSE Stage[x]]
    BY <1>2, <1>5, <1>6, <1>8, StageFacts
  <2> QED
    BY <1>2, <1>7, <2>1 DEF Contract!Retire, Contract!Advance
<1>9. CASE ~Answered(m)
  <2>1. /\ Stage[m] = "open"
        /\ Stage' = [x \in Entries |-> IF x = m THEN "lost" ELSE Stage[x]]
    BY <1>2, <1>5, <1>6, <1>9, StageFacts
  <2> QED
    BY <1>2, <1>4, <1>7, <1>9, <2>1 DEF Contract!Lose, Contract!Advance
<1> QED
  BY <1>2, <1>8, <1>9

\* A written reply answers all the members of its entry, none of them answered before: one
\* entry of an array flushes it.
LEMMA WriteImplements ==
    ASSUME InboundInv, Next, WriteReturns
    PROVE  \E w \in Entries : Kind[w] # "cancel" /\ Contract!Answer(Members[w])
<1>1. PICK w \in Entries : w = writing
  BY DEF WriteReturns, InboundInv, TypeOK
<1>2. /\ UNCHANGED <<closed, callback, writer, retired, pc, refused>>
      /\ written' = Append(written, w)
  BY <1>1 DEF WriteReturns, serverVars, readerVars, frameVars, tableVars, workVars,
              callbackVars
<1>3. pc[w] \in Replied /\ Kind[w] # "cancel" /\ w \notin Range(written)
  BY <1>1 DEF InboundInv, Written, Sent
<1>4. /\ w \in Members[w] /\ Members[w] \subseteq Entries
      /\ \A x \in Members[w] : pc[x] # "none" /\ Members[x] = Members[w]
  BY <1>3, MembersShared, OthersCollected DEF InboundInv, Replied
<1>5. ASSUME NEW x \in Members[w], Answered(x) PROVE FALSE
  <2>1. x \in Entries
    BY <1>4
  <2>2. PICK v \in Entries : v \in Range(written) /\ x \in Members[v] /\ pc[v] \in Replied
    BY <1>5, <2>1, AnsweredFacts
  <2>3. v # w /\ w \in Members[v]
    BY <1>3, <1>4, <2>2, MembersShared
  <2>4. pc[w] = "collected"
    BY <2>2, <2>3, OthersCollected DEF InboundInv
  <2> QED
    BY <1>3, <2>4 DEF Replied
<1>6. \A x \in Entries : Answered(x)' <=> Answered(x) \/ x \in Members[w]
  <2>1. Range(written') = Range(written) \cup {w}
    BY <1>2, RangeOfAppend DEF InboundInv, TypeOK
  <2>2. Members' = Members
    BY DEF Members
  <2> QED
    BY <2>1, <2>2 DEF Answered, AnsweredOnes
<1>7. \A x \in Members[w] :
         /\ StageAt(x) = IF x \in retired THEN "lost"
                         ELSE IF x \in refused THEN "refused" ELSE "open"
         /\ StageAt(x)' = IF x \in retired \cup refused THEN "retired" ELSE "answered"
  BY <1>2, <1>4, <1>5, <1>6 DEF StageAt
<1>8. \A x \in Entries : x \notin Members[w] => StageAt(x)' = StageAt(x)
  BY <1>2, <1>6 DEF StageAt
<1>9. /\ \A x \in Members[w] : Stage[x] \in {"open", "refused", "lost"}
      /\ Stage' = [x \in Entries |->
                      IF x \notin Members[w] THEN Stage[x]
                      ELSE IF Stage[x] = "open" THEN "answered" ELSE "retired"]
  BY <1>4, <1>7, <1>8, StageFacts
<1>10. Called' = Called /\ (closed \/ writer = "failing")' = (closed \/ writer = "failing")
  BY <1>2 DEF Called
<1>11. Contract!Answer(Members[w])
  BY <1>4, <1>9, <1>10 DEF Contract!Answer
<1> QED
  BY <1>3, <1>11

\* A callback is started after everything answered with it is answered and no request of
\* it is in flight: by the worker of a request that was alone, or by the callback worker.
LEMMA StartImplements ==
    ASSUME InboundInv, Next, NEW m \in Entries, callback[m] \in {"held", "queued"},
           Finishes(m) = {}, Answered(m), callback' = [callback EXCEPT ![m] = "running"],
           UNCHANGED <<closed, writer>>, Stage' = Stage
    PROVE  Kind[m] # "cancel" /\ m \in Members[m] /\ Contract!Call(Members[m], m)
<1>1. Kind[m] = "request"
  BY DEF InboundInv, Registered
<1>2. /\ m \in Members[m] /\ Members[m] \subseteq Entries
      /\ \A x \in Members[m] : Kind[x] \in {"request", "malformed"}
  BY <1>1, MembersShared DEF InBatch, Batched, NeedsReply
<1>3. \A x \in Members[m] : Answered(x)
  <2>1. written \in Seq(Entries)
    BY DEF InboundInv, TypeOK
  <2> QED
    BY <2>1, AnsweredTogether
<1>4. ASSUME NEW x \in Members[m] PROVE x \in retired \cup refused
  <2>1. CASE Kind[x] = "request"
    BY <2>1 DEF Finishes
  <2>2. CASE Kind[x] = "malformed"
    <3>1. pc[x] # "none"
      BY <1>2, <1>3, AnsweredFacts DEF Replied
    <3> QED
      BY <1>2, <2>2, <3>1 DEF InboundInv, Placed
  <2> QED
    BY <1>2, <2>1, <2>2
<1>5. \A x \in Members[m] : Stage[x] = "retired"
  BY <1>2, <1>3, <1>4, StageFacts DEF StageAt
<1>6. callback'[m] = "running" /\ \A x \in Entries : x # m => callback'[x] = callback[x]
  BY DEF InboundInv, TypeOK
<1>7. m \notin Called /\ Called' = Called \cup {m}
  BY <1>6 DEF Called
<1>8. (closed \/ writer = "failing")' = (closed \/ writer = "failing")
  OBVIOUS
<1>9. Contract!Call(Members[m], m)
  BY <1>2, <1>5, <1>7, <1>8 DEF Contract!Call
<1> QED
  BY <1>1, <1>2, <1>9

LEMMA RetiredImplements ==
    ASSUME InboundInv, Next, NEW e \in Entries, Retired(e)
    PROVE  \/ UNCHANGED Contract!vars
           \/ Kind[e] # "cancel" /\ e \in Members[e] /\ Contract!Call(Members[e], e)
<1>1. UNCHANGED <<closed, writer>> /\ Finishes(e) = {} /\ pc[e] = "retiring"
  BY DEF Retired, serverVars, readerVars, writerVars, Move
<1>2. Stage' = Stage
  <2>1. /\ UNCHANGED <<retired, written, refused>>
        /\ \E b \in Pcs \ {"none"} : Move(e, "retiring", b)
    BY DEF Retired, serverVars, readerVars, frameVars, tableVars, writerVars, Pcs
  <2>2. \A x \in Entries : (pc'[x] = "none") <=> (pc[x] = "none")
    BY <2>1 DEF InboundInv, TypeOK, Move
  <2>3. \A x \in Entries : StageAt(x)' = StageAt(x)
    BY <2>1, <2>2 DEF StageAt, Answered, AnsweredOnes
  <2> QED
    BY <2>3, StageFacts
<1>3. CASE UNCHANGED callback
  BY <1>1, <1>2, <1>3 DEF Contract!vars, Called
<1>4. CASE ~UNCHANGED callback
  <2>1. /\ ~InBatch(e) /\ result[e] = "ok" /\ callback[e] = "held"
        /\ callback' = [callback EXCEPT ![e] = "running"]
    BY <1>4 DEF Retired
  <2>2. e \in Members[e]
    BY MembersShared
  <2>3. Answered(e)
    BY <2>1, <2>2 DEF InboundInv, Written, Answered, AnsweredOnes
  <2> QED
    BY <1>1, <1>2, <2>1, <2>3, StartImplements
<1> QED
  BY <1>3, <1>4

LEMMA CallbackStartImplements ==
    ASSUME InboundInv, Next, CallbackStarts
    PROVE  \E m \in Entries :
              Kind[m] # "cancel" /\ m \in Members[m] /\ Contract!Call(Members[m], m)
<1>1. /\ UNCHANGED <<closed, writer, retired, written, pc, refused>>
      /\ callback' = [callback EXCEPT ![Head(callbackQueue)] = "running"]
  BY DEF CallbackStarts, serverVars, readerVars, frameVars, tableVars, workVars, writerVars
<1>2. /\ callbackQueue # <<>> /\ Head(callbackQueue) \in Entries
      /\ callback[Head(callbackQueue)] = "queued"
  BY DEF CallbackStarts, InboundInv, Counted, QueueCounted, TypeOK
<1>3. PICK m \in Entries : m = Head(callbackQueue)
  BY <1>2
<1>4. Finishes(m) = {} /\ Answered(m)
  BY <1>2, <1>3 DEF InboundInv, Registered
<1>5. \A x \in Entries : StageAt(x)' = StageAt(x)
  BY <1>1 DEF StageAt, Answered, AnsweredOnes
<1>6. Stage' = Stage
  BY <1>5, StageFacts
<1> QED
  BY <1>1, <1>2, <1>3, <1>4, <1>6, StartImplements

\* The connection fails by its streams, by Close and by a failed write.
LEMMA EndImplements ==
    ASSUME InboundInv, Next, ReaderEnds \/ Close \/ WriteFails \/ WriterEnds
    PROVE  Contract!End \/ UNCHANGED Contract!vars
<1>1. UNCHANGED <<callback, retired, written, pc, refused>> /\ (closed' \/ writer' = "failing")
  BY DEF ReaderEnds, Close, WriteFails, WriterEnds, replyingVars, serverVars, readerVars,
         frameVars, callbackVars, tableVars, workVars, writerVars
<1>2. \A x \in Entries : StageAt(x)' = StageAt(x)
  BY <1>1 DEF StageAt, Answered, AnsweredOnes
<1>3. Stage' = Stage /\ Called' = Called
  BY <1>1, <1>2, StageFacts DEF Called
<1>4. (closed \/ writer = "failing")' = TRUE
  BY <1>1
<1>5. CASE closed \/ writer = "failing"
  <2>1. (closed \/ writer = "failing")' = (closed \/ writer = "failing")
    BY <1>4, <1>5
  <2> QED
    BY <1>3, <2>1 DEF Contract!vars
<1>6. CASE ~(closed \/ writer = "failing")
  BY <1>3, <1>4, <1>6 DEF Contract!End
<1> QED
  BY <1>5, <1>6

\* Everything else leaves the connection as the peer sees it.
LEMMA OverStays ==
    ASSUME Next, ~ReaderEnds, ~Close, ~WriteFails, ~WriterEnds
    PROVE  UNCHANGED <<closed, writer>>
BY ThreeKinds, ServiceLeaves, DispatchLeaves
   DEF QuietStep, WorkerExits, CloseCallbacks, WaitDone, WriterStep, WriterTakes,
       WriteReturns, ReadFrame, RefuseReturns, readerVars, frameVars, serverVars,
       writerVars, replyingVars

\* A request is answered at most once and an array only as a whole, is retired after that,
\* and its callback starts when every accepted request of the array is retired, whatever the peer sends and the handlers do: the
\* inbound side implements what RequestContract promises (dispatchBatch, complete,
\* handleInbound, start).
THEOREM ImplementsContract == Spec => ContractHolds
<1>1. Init => Contract!Init
  <2> SUFFICES ASSUME Init PROVE Contract!Init
    OBVIOUS
  <2>1. \A x \in Entries : StageAt(x) = "unseen"
    BY DEF Init, StageAt, Answered, AnsweredOnes, Range
  <2>2. Stage = [x \in Entries |-> "unseen"]
    BY <2>1, StageFacts
  <2>3. Called = {} /\ (closed \/ writer = "failing") = FALSE
    BY DEF Init, Called
  <2> QED
    BY <2>2, <2>3 DEF Contract!Init
<1>2. ASSUME InboundInv, Next PROVE Contract!Next \/ UNCHANGED Contract!vars
  <2>1. ASSUME NEW e \in Entries, DispatchStep(e) PROVE Contract!Next
    BY <1>2, <2>1, DispatchImplements DEF Contract!Next
  <2>2. ASSUME NEW e \in Entries, NEW m \in Members[e], Finish(e, m) PROVE Contract!Next
    BY <1>2, <2>2, FinishImplements DEF Contract!Next
  <2>3. ASSUME WriteReturns PROVE Contract!Next
    BY <1>2, <2>3, WriteImplements DEF Contract!Next
  <2>4. ASSUME NEW e \in Entries, Retired(e) PROVE Contract!Next \/ UNCHANGED Contract!vars
    BY <1>2, <2>4, RetiredImplements DEF Contract!Next
  <2>5. ASSUME CallbackStarts PROVE Contract!Next
    BY <1>2, <2>5, CallbackStartImplements DEF Contract!Next
  <2>6. ASSUME ReaderEnds \/ Close \/ WriteFails \/ WriterEnds
        PROVE  Contract!Next \/ UNCHANGED Contract!vars
    BY <1>2, <2>6, EndImplements DEF Contract!Next
  <2>7. ASSUME ~WriteReturns, ~CallbackStarts, ~(ReaderEnds \/ Close \/ WriteFails \/ WriterEnds),
               \A e \in Entries : /\ ~DispatchStep(e) /\ ~Retired(e)
                                  /\ \A m \in Members[e] : ~Finish(e, m)
        PROVE  UNCHANGED Contract!vars
    <3>1. Stage' = Stage /\ Called' = Called
      BY <1>2, <2>7, StageStays, CalledStays
    <3>2. UNCHANGED <<closed, writer>>
      BY <1>2, <2>7, OverStays
    <3> QED
      BY <3>1, <3>2 DEF Contract!vars
  <2> QED
    BY <2>1, <2>2, <2>3, <2>4, <2>5, <2>6, <2>7
<1>3. UNCHANGED vars => UNCHANGED Contract!vars
  <2> SUFFICES ASSUME UNCHANGED vars PROVE UNCHANGED Contract!vars
    OBVIOUS
  <2>1. UNCHANGED <<closed, writer, callback, retired, written, pc, refused>>
    BY DEF vars, readerVars, frameVars, workVars, tableVars, callbackVars, writerVars
  <2>2. \A x \in Entries : StageAt(x)' = StageAt(x)
    BY <2>1 DEF StageAt, Answered, AnsweredOnes
  <2>3. Stage' = Stage /\ Called' = Called
    BY <2>1, <2>2, StageFacts DEF Called
  <2> QED
    BY <2>1, <2>3 DEF Contract!vars
<1>4. InboundInv /\ [Next]_vars
      => [(Contract!vars)' # Contract!vars /\ Contract!Next]_(Contract!vars)
  BY <1>2, <1>3
<1> QED
  BY <1>1, <1>4, InboundInvariance, PTL DEF Spec, ContractHolds, Contract!Spec
=============================================================================

--------------------- MODULE PreparedRequestReleaseProofs ---------------------
(***************************************************************************)
(* Theorems about what a request of PreparedRequest occupies and gives     *)
(* back: its entry in c.pending, its slot and its place in the chain of    *)
(* deliveries, and about cancellations, which follow the request they      *)
(* name.  They rest on the types and the invariant of PreparedRequestProofs. *)
(***************************************************************************)
EXTENDS PreparedRequestProofs, FiniteSetTheorems

USE DEF connVars, pendingVars, barrierVars, writerVars, attemptVars, callVars, claimVars,
        resultVars

-----------------------------------------------------------------------------
(* The inductive invariant *)

\* A cancellation of r, as CancelSend enqueues it.
Cancellation(r) == [kind |-> "cancel", req |-> r]
CancelQueued(r) == \E i \in 1..Len(writeQueue) : writeQueue[i] = Cancellation(r)

\* Where the write of r has succeeded, and what needs it to have.
CancelInv ==
    /\ \A r \in Requests :
          /\ dispatchErr[r] = "nil" \/ dispatchPc[r] = "finish" => writeDone[r] = "ok"
          /\ writing = Write(r) => writeDone[r] = "none"
          /\ phase[r] = "ready" /\ done[r] = "error" => closing # "open"
          /\ phase[r] = "finished" /\ dispatchPc[r] = "idle" => closing # "open"
          /\ cancelPc[r] = "send" \/ CancelQueued(r) \/ writing = Cancellation(r) =>
                writeDone[r] = "ok" \/ closing # "open"
          /\ r \in cancelSent => writeDone[r] = "ok"
    /\ \A w \in Waiters :
          waitPc[w] \in Awaiting /\ dispatchPc[WaitsOn[w]] = "idle" => closing # "open"

\* What releasePending has done when its Once is over, and who is inside it.
ReleaseInv ==
    \A r \in Requests :
        /\ release[r] # "no" => r \notin pending /\ phase[r] # "none"
        /\ release[r] = "await" => r \in responded
        /\ release[r] = "done" => (r \in Gated => r \in delivered)
        /\ phase[r] = "abandoned" => r \in abandoned
        /\ abandonPc[r] # "idle" => phase[r] \in {"abandoned", "finished"}
        /\ dispatchErr[r] = "error" => r \in abandoned \/ release[r] = "done"

\* Deliveries that are linked or finished belong to requests that got that far.
LinkInv ==
    /\ \A r \in delivered \cup ToSet(chain) : phase[r] # "none"
    /\ \A r \in ToSet(chain) : done[r] = "response"
    /\ \A r \in delivered : done[r] = "open" => r \notin pending \cup responded

\* Requests that hold a slot without being linked.
Holding == {r \in Gated : phase[r] # "none" /\ r \notin delivered \cup ToSet(chain)}
HoldingInv == slots = Len(chain) + Cardinality(Holding) /\ slots <= MaxPendingRequests

BarrierInv == LinkInv /\ UndeliveredIsLinked /\ HoldingInv

RInv == CancelInv /\ ReleaseInv /\ BarrierInv

-----------------------------------------------------------------------------
(* The chain of deliveries *)

\* Pruning pops finished deliveries only.
LEMMA PruneFacts ==
    ASSUME NEW D, NEW ch \in Seq(D), NEW fin
    PROVE  /\ PruneDone(ch, fin) \in Seq(D)
           /\ Len(PruneDone(ch, fin)) \in 0..Len(ch)
           /\ ToSet(PruneDone(ch, fin)) \subseteq ToSet(ch)
           /\ \A x \in ToSet(ch) : x \notin fin => x \in ToSet(PruneDone(ch, fin))
<1> DEFINE S == {0} \cup {i \in 1..Len(ch) : ch[i] \notin fin}
<1>1. S \subseteq 0..Len(ch) /\ S # {} /\ Len(ch) \in Nat
  OBVIOUS
<1>2. Max(S) \in S /\ Max(S) \in 0..Len(ch) /\ \A y \in S : Max(S) >= y
  <2> HIDE DEF S
  <2> QED BY <1>1, LargestExists
<1>3. PruneDone(ch, fin) = SubSeq(ch, 1, Max(S))
  BY DEF PruneDone
<1>4. \A i \in 1..Len(ch) : ch[i] \notin fin => i \in S
  OBVIOUS
<1> HIDE DEF S
<1> DEFINE left == PruneDone(ch, fin)
<1>5. /\ left \in Seq(D) /\ Len(left) = Max(S)
      /\ \A i \in 1..Max(S) : left[i] = ch[i]
  BY <1>1, <1>2, <1>3
<1>6. DOMAIN left = 1..Max(S) /\ DOMAIN ch = 1..Len(ch) /\ 1..Max(S) \subseteq 1..Len(ch)
  BY <1>1, <1>2, <1>5
<1>7. ToSet(left) \subseteq ToSet(ch)
  BY <1>5, <1>6 DEF ToSet
<1>8. ASSUME NEW x \in ToSet(ch), x \notin fin PROVE x \in ToSet(left)
  <2>1. PICK i \in 1..Len(ch) : ch[i] = x
    BY <1>6 DEF ToSet
  <2>2. i <= Max(S)
    BY <1>2, <1>4, <1>8, <2>1
  <2>3. i \in 1..Max(S)
    BY <1>1, <1>2, <2>1, <2>2
  <2> QED
    BY <1>5, <1>6, <2>1, <2>3 DEF ToSet
<1> QED
  BY <1>2, <1>5, <1>7, <1>8

\* A delivery that is linked becomes the newest one.
LEMMA LinkFacts ==
    ASSUME NEW D, NEW ch \in Seq(D), NEW x \in D
    PROVE  /\ Append(ch, x) \in Seq(D) /\ Len(Append(ch, x)) = Len(ch) + 1
           /\ ToSet(Append(ch, x)) = ToSet(ch) \cup {x}
<1>1. /\ Append(ch, x) \in Seq(D) /\ Len(Append(ch, x)) = Len(ch) + 1 /\ Len(ch) \in Nat
      /\ \A i \in 1..Len(ch) : Append(ch, x)[i] = ch[i]
      /\ Append(ch, x)[Len(ch) + 1] = x
  OBVIOUS
<1>2. DOMAIN ch = 1..Len(ch) /\ DOMAIN Append(ch, x) = 1..(Len(ch) + 1)
  BY <1>1
<1>3. \A i \in 1..(Len(ch) + 1) : i \in 1..Len(ch) \/ i = Len(ch) + 1
  BY <1>1
<1>4. 1..Len(ch) \subseteq 1..(Len(ch) + 1) /\ Len(ch) + 1 \in 1..(Len(ch) + 1)
  BY <1>1
<1>5. \A y : y \in ToSet(Append(ch, x)) <=> y \in ToSet(ch) \/ y = x
  BY <1>1, <1>2, <1>3, <1>4 DEF ToSet
<1> QED
  BY <1>1, <1>5

\* The requests that hold a slot are finitely many.
LEMMA HoldingFinite == IsFiniteSet(Holding) /\ Cardinality(Holding) \in Nat
<1>1. Holding \subseteq Requests
  BY GatedAssumption DEF Holding
<1> QED
  BY <1>1, RequestsAssumption, FS_Subset, FS_CardinalityType

\* The slots are exact when the chain loses finished deliveries, linked or discarded before,
LEMMA HoldingPruned ==
    ASSUME TypeOK, HoldingInv,
           chain' = PruneDone(chain, delivered'), slots' = slots - (Len(chain) - Len(chain')),
           delivered \subseteq delivered', delivered' \subseteq delivered \cup ToSet(chain),
           \A x \in Requests : (phase'[x] = "none") <=> (phase[x] = "none")
    PROVE  HoldingInv'
<1>1. chain \in Seq(Gated) /\ slots \in Int /\ Len(chain) \in Nat
  BY DEF TypeOK
<1>2. /\ Len(chain') \in 0..Len(chain) /\ ToSet(chain') \subseteq ToSet(chain)
      /\ \A x \in ToSet(chain) : x \notin delivered' => x \in ToSet(chain')
  BY <1>1, PruneFacts
<1>3. Holding' = Holding
  BY <1>2, GatedAssumption DEF Holding
<1> QED
  BY <1>1, <1>2, <1>3, HoldingFinite, LimitsAssumption DEF HoldingInv

\* and when a request gives its slot back without being linked.
LEMMA HoldingDiscarded ==
    ASSUME TypeOK, HoldingInv, NEW r \in Holding,
           UNCHANGED chain, slots' = slots - 1, delivered' = delivered \cup {r},
           \A x \in Requests : (phase'[x] = "none") <=> (phase[x] = "none")
    PROVE  HoldingInv'
<1>1. slots \in Int /\ Len(chain) \in Nat
  BY DEF TypeOK
<1>2. Holding' = Holding \ {r}
  BY GatedAssumption DEF Holding
<1>3. Cardinality(Holding \ {r}) = Cardinality(Holding) - 1
  BY HoldingFinite, FS_RemoveElement
<1> QED
  BY <1>1, <1>2, <1>3, HoldingFinite, LimitsAssumption DEF HoldingInv

-----------------------------------------------------------------------------
(* The steps that touch the barrier *)

\* A step that takes no part in the barrier: entries may leave c.pending.
Calm ==
    /\ UNCHANGED <<slots, chain, delivered, done, responded, release>>
    /\ pending' \subseteq pending
    /\ \A x \in Requests : phase[x] = "none" => phase'[x] = "none"

BarrierStep(r) ==
    \/ Prepare(r) \/ ResponseArrives(r) \/ ResponseCompletes(r) \/ DrainOne(r)
    \/ ReleaseStep(r)

LEMMA BarrierSteps ==
    ASSUME TypeOK, IInv, [Next]_vars
    PROVE  Calm \/ \E r \in Requests : BarrierStep(r)
<1>0. /\ phase \in [Requests -> Phases]
      /\ DispatchInv /\ WaitInv
  BY DEF TypeOK, IInv
<1>1. ASSUME UNCHANGED <<slots, chain, delivered, done, responded, release, pending, phase>>
      PROVE  Calm
  BY <1>1 DEF Calm
<1>2. ASSUME NEW r \in Requests, RequestStep(r), ~Prepare(r), ~ReleaseStep(r) PROVE Calm
  <2>1. CASE DispatchStart(r)
    BY <1>0, <2>1 DEF Calm, DispatchStart, DispatchFrame
  <2>2. CASE DispatchStep(r)
    <3>1. phase[r] # "none"
      BY <1>0, <2>2 DEF DispatchInv, DispatchStep, DispatchEnqueue, DispatchInterrupted,
         DispatchSeesAbandon, CompleteWrite, DispatchFinish, FailDispatch, DispatchReleased
    <3>2. \A x \in Requests : x # r => phase'[x] = phase[x]
      BY <1>0, <2>2 DEF DispatchStep, DispatchEnqueue, DispatchInterrupted,
         DispatchSeesAbandon, CompleteWrite, DispatchFinish, FailDispatch, DispatchReleased,
         CompleteDispatch
    <3>3. UNCHANGED <<slots, chain, delivered, done, responded, release, pending>>
      BY <2>2 DEF DispatchStep, DispatchEnqueue, DispatchInterrupted, DispatchSeesAbandon,
         CompleteWrite, DispatchFinish, FailDispatch, DispatchReleased, DispatchFrame
    <3> QED
      BY <3>1, <3>2, <3>3 DEF Calm
  <2>3. CASE Abandon(r)
    BY <1>0, <2>3 DEF Calm, Abandon, AbandonFrame
  <2>4. CASE AbandonStep(r)
    BY <2>4 DEF Calm, AbandonStep, AbandonDetaches, AbandonReleased, AbandonFrame
  <2>5. CASE ObserveResponse(r) \/ DispatchRefused(r) \/ Interrupt(r) \/ CancelRequest(r)
    BY <1>1, <2>5 DEF ObserveResponse, DispatchRefused, Interrupt, CancelRequest,
       CancelTest, CancelSend, CancelFrame, DispatchFrame
  <2> QED
    BY <1>2, <2>1, <2>2, <2>3, <2>4, <2>5 DEF RequestStep
<1>3. ASSUME NEW w \in Waiters, CallerStep(w) PROVE Calm
  <2>0. WaitsOn[w] \in Requests
    BY WaitersAssumption
  <2>1. UNCHANGED <<slots, chain, delivered, done, responded, release, pending>>
    BY <1>3 DEF CallerStep, WaitStep, WaitReads, WaitReady, WaitCancelled, WaitStays, WaitDone,
       WaitResolves, WaitNotified, WaitGivesUp, WaitLosesConnection, WaitSettles,
       WaitReleased, WaitFrame
  <2>2. \/ UNCHANGED phase
        \/ phase[WaitsOn[w]] # "none" /\ \E p : phase' = [phase EXCEPT ![WaitsOn[w]] = p]
    BY <1>0, <1>3 DEF WaitInv, CallerStep, WaitStep, WaitReads, WaitReady, WaitCancelled,
       WaitStays, WaitDone, WaitResolves, WaitNotified, WaitGivesUp, WaitLosesConnection,
       WaitSettles, WaitReleased
  <2> QED
    BY <1>0, <2>0, <2>1, <2>2 DEF Calm
<1>4. ASSUME WriterStep PROVE Calm
  BY <1>1, <1>4 DEF WriterStep, WriterTop, WriterStops, WriterTakesRequest,
     WriterTakesCancel, WriterInvokes, WriterShutsDown, WriterReturns, WriterFrame
<1>5. ASSUME BeginShutdown \/ EndShutdown PROVE Calm
  BY <1>5 DEF Calm, BeginShutdown, EndShutdown, ConnFrame
<1>6. CASE UNCHANGED vars
  BY <1>1, <1>6 DEF vars
<1> QED
  BY <1>2, <1>3, <1>4, <1>5, <1>6 DEF Next, ReaderStep, ShutdownStep, BarrierStep

\* A request that is prepared stays so, and only Prepare prepares it.
LEMMA PreparedStays ==
    ASSUME TypeOK, IInv, [Next]_vars, \A r \in Requests : ~Prepare(r)
    PROVE  \A x \in Requests : (phase'[x] = "none") <=> (phase[x] = "none")
<1>1. ASSUME NEW x \in Requests, phase[x] # "none" PROVE phase'[x] # "none"
  <2>1. PhaseMoves
    BY PhaseStep
  <2>2. phase[x] \in Phases
    BY DEF TypeOK
  <2>3. phase'[x] = phase[x] \/ phase'[x] \in PhaseSuccessors(phase[x])
    BY <2>1 DEF PhaseMoves
  <2>4. "none" \notin PhaseSuccessors(phase[x])
    BY <1>1, <2>2 DEF PhaseSuccessors, Phases
  <2> QED
    BY <1>1, <2>3, <2>4
<1>2. ASSUME NEW x \in Requests, phase[x] = "none" PROVE phase'[x] = "none"
  <2>1. CASE Calm
    BY <1>2, <2>1 DEF Calm
  <2>2. ASSUME NEW r \in Requests, BarrierStep(r) PROVE UNCHANGED phase
    BY <2>2 DEF BarrierStep, ResponseArrives, ResponseCompletes, DrainOne, ReleaseStep,
       ReleaseStart, ReleaseFinish, ConnFrame
  <2> QED
    BY <1>2, <2>1, <2>2, BarrierSteps
<1> QED
  BY <1>1, <1>2

-----------------------------------------------------------------------------
(* The barrier *)

\* The delivery of an answered request is finished: it was linked, or finished before.
LEMMA FinishKeeps ==
    ASSUME TypeOK, BarrierInv, NEW r \in Requests, Finish(r), done[r] = "response",
           UNCHANGED <<done, responded>>, pending' \subseteq pending,
           \A x \in Requests : (phase'[x] = "none") <=> (phase[x] = "none")
    PROVE  BarrierInv'
<1>0. chain \in Seq(Gated) /\ delivered \subseteq Gated /\ Gated \subseteq Requests
  BY GatedAssumption DEF TypeOK
<1>1. ToSet(chain) \subseteq Gated
  BY <1>0 DEF ToSet
<1>2. CASE r \in Gated
  <2>1. /\ delivered' = delivered \cup {r} /\ chain' = PruneDone(chain, delivered')
        /\ slots' = slots - (Len(chain) - Len(chain'))
    BY <1>2 DEF Finish
  <2>2. r \in delivered \cup ToSet(chain)
    BY <1>2 DEF BarrierInv, UndeliveredIsLinked
  <2>3. /\ ToSet(chain') \subseteq ToSet(chain)
        /\ \A x \in ToSet(chain) : x \notin delivered' => x \in ToSet(chain')
    BY <1>0, <2>1, PruneFacts
  <2>4. HoldingInv'
    BY <2>1, <2>2, HoldingPruned DEF BarrierInv
  <2>5. LinkInv'
    BY <1>0, <1>1, <2>1, <2>2, <2>3 DEF BarrierInv, LinkInv
  <2>6. UndeliveredIsLinked'
    BY <2>1, <2>3 DEF BarrierInv, UndeliveredIsLinked
  <2> QED
    BY <2>4, <2>5, <2>6 DEF BarrierInv
<1>3. CASE r \notin Gated
  <2>1. UNCHANGED <<slots, chain, delivered>>
    BY <1>3 DEF Finish
  <2>2. Holding' = Holding
    BY <1>0, <2>1 DEF Holding
  <2>3. LinkInv'
    BY <1>0, <1>1, <2>1 DEF BarrierInv, LinkInv
  <2> QED
    BY <2>1, <2>2, <2>3 DEF BarrierInv, UndeliveredIsLinked, HoldingInv
<1> QED
  BY <1>2, <1>3

\* The delivery of an unanswered request is discarded.
LEMMA DiscardKeeps ==
    ASSUME TypeOK, IInv, BarrierInv, NEW r \in Requests, Discard(r), r \notin responded,
           phase[r] # "none", done'[r] \in {done[r], "error"},
           \A x \in Requests : x # r => done'[x] = done[x],
           UNCHANGED responded, pending' \subseteq pending, r \notin pending',
           \A x \in Requests : (phase'[x] = "none") <=> (phase[x] = "none")
    PROVE  BarrierInv'
<1>0. chain \in Seq(Gated) /\ delivered \subseteq Gated /\ Gated \subseteq Requests
  BY GatedAssumption DEF TypeOK
<1>1. ToSet(chain) \subseteq Gated
  BY <1>0 DEF ToSet
<1>2. done[r] # "response" /\ r \notin ToSet(chain)
  BY DEF IInv, EntryInv, BarrierInv, LinkInv
<1>3. UNCHANGED chain /\ delivered' \subseteq delivered \cup {r} /\ delivered \subseteq delivered'
  BY DEF Discard
<1>4. HoldingInv'
  <2>1. CASE Discards(r)
    <3>1. r \in Holding
      BY <1>2, <2>1 DEF Discards, Holding
    <3>2. slots' = slots - 1 /\ delivered' = delivered \cup {r}
      BY <2>1 DEF Discard
    <3> QED
      BY <1>3, <3>1, <3>2, HoldingDiscarded DEF BarrierInv
  <2>2. CASE ~Discards(r)
    <3>1. UNCHANGED <<slots, chain, delivered>>
      BY <2>2 DEF Discard
    <3>2. Holding' = Holding
      BY <1>0, <3>1 DEF Holding
    <3> QED
      BY <3>1, <3>2 DEF BarrierInv, HoldingInv
  <2> QED
    BY <2>1, <2>2
<1>5. LinkInv'
  <2>1. ASSUME NEW x \in delivered' \cup ToSet(chain') PROVE phase'[x] # "none"
    BY <1>0, <1>1, <1>3, <2>1 DEF BarrierInv, LinkInv
  <2>2. ASSUME NEW x \in ToSet(chain') PROVE done'[x] = "response"
    BY <1>0, <1>1, <1>2, <1>3, <2>2 DEF BarrierInv, LinkInv
  <2>3. ASSUME NEW x \in delivered', done'[x] = "open" PROVE x \notin pending' \cup responded'
    BY <1>0, <1>3, <2>3 DEF BarrierInv, LinkInv
  <2> QED
    BY <2>1, <2>2, <2>3 DEF LinkInv
<1>6. UndeliveredIsLinked'
  BY <1>0, <1>2, <1>3 DEF BarrierInv, UndeliveredIsLinked
<1> QED
  BY <1>4, <1>5, <1>6 DEF BarrierInv

\* A prepared request takes a slot of its own.
LEMMA PrepareKeeps ==
    ASSUME TypeOK, IInv, BarrierInv, NEW r \in Requests, Prepare(r)
    PROVE  BarrierInv'
<1>0. /\ chain \in Seq(Gated) /\ delivered \subseteq Gated /\ Gated \subseteq Requests
      /\ slots \in Int /\ Len(chain) \in Nat /\ phase \in [Requests -> Phases]
      /\ done[r] \in DoneStates
  BY GatedAssumption DEF TypeOK
<1>1. ToSet(chain) \subseteq Gated
  BY <1>0 DEF ToSet
<1>2. /\ phase[r] = "none" /\ r \notin responded /\ done[r] = "open"
      /\ r \notin delivered \cup ToSet(chain)
  BY <1>0 DEF Prepare, IInv, EntryInv, BarrierInv, LinkInv, DoneStates
<1>3. /\ phase'[r] = "ready" /\ \A x \in Requests : x # r => phase'[x] = phase[x]
      /\ UNCHANGED <<done, responded, delivered>> /\ pending' = pending \cup {r}
  BY <1>0 DEF Prepare
<1>4. CASE r \in Gated
  <2>1. /\ chain' = PruneDone(chain, delivered)
        /\ slots' = slots - (Len(chain) - Len(chain')) + 1 /\ slots' <= MaxPendingRequests
    <3> DEFINE left == PruneDone(chain, delivered)
    <3>1. Len(left) \in 0..Len(chain)
      BY <1>0, PruneFacts
    <3>2. /\ slots - (Len(chain) - Len(left)) < MaxPendingRequests
          /\ slots' = slots - (Len(chain) - Len(left)) + 1 /\ chain' = left
      BY <1>4 DEF Prepare
    <3> QED
      BY <1>0, <3>1, <3>2, LimitsAssumption
  <2>2. /\ Len(chain') \in 0..Len(chain) /\ ToSet(chain') \subseteq ToSet(chain)
        /\ \A x \in ToSet(chain) : x \notin delivered => x \in ToSet(chain')
    BY <1>0, <2>1, PruneFacts
  <2>3. Holding' = Holding \cup {r} /\ r \notin Holding
    BY <1>0, <1>2, <1>3, <1>4, <2>2 DEF Holding
  <2>4. Cardinality(Holding \cup {r}) = Cardinality(Holding) + 1
    BY <2>3, HoldingFinite, FS_AddElement
  <2>5. HoldingInv'
    BY <1>0, <2>1, <2>2, <2>3, <2>4, HoldingFinite, LimitsAssumption DEF HoldingInv, BarrierInv
  <2>6. LinkInv'
    BY <1>0, <1>1, <1>2, <1>3, <2>2 DEF BarrierInv, LinkInv
  <2>7. UndeliveredIsLinked'
    BY <1>3, <2>2 DEF BarrierInv, UndeliveredIsLinked
  <2> QED
    BY <2>5, <2>6, <2>7 DEF BarrierInv
<1>5. CASE r \notin Gated
  <2>1. UNCHANGED <<slots, chain>>
    BY <1>5 DEF Prepare
  <2>2. Holding' = Holding
    BY <1>0, <1>3, <1>5, <2>1 DEF Holding
  <2>3. LinkInv'
    BY <1>0, <1>1, <1>2, <1>3, <2>1 DEF BarrierInv, LinkInv
  <2> QED
    BY <1>3, <2>1, <2>2, <2>3 DEF BarrierInv, UndeliveredIsLinked, HoldingInv
<1> QED
  BY <1>4, <1>5

\* The slot of a request goes over to its link.
LEMMA CompleteKeeps ==
    ASSUME TypeOK, IInv, BarrierInv, NEW r \in Requests, ResponseCompletes(r)
    PROVE  BarrierInv'
<1>0. /\ chain \in Seq(Gated) /\ delivered \subseteq Gated /\ Gated \subseteq Requests
      /\ slots \in Int /\ Len(chain) \in Nat /\ done \in [Requests -> DoneStates]
  BY GatedAssumption DEF TypeOK
<1>1. ToSet(chain) \subseteq Gated
  BY <1>0 DEF ToSet
<1>2. /\ r \in responded /\ done[r] = "open" /\ phase[r] # "none"
      /\ r \notin delivered \cup ToSet(chain)
  BY DEF ResponseCompletes, IInv, EntryInv, BarrierInv, LinkInv
<1>3. /\ done'[r] = "response" /\ \A x \in Requests : x # r => done'[x] = done[x]
      /\ UNCHANGED <<pending, responded, delivered, phase>>
  BY <1>0 DEF ResponseCompletes, ConnFrame
<1>4. CASE r \in Gated
  <2> DEFINE left == PruneDone(chain, delivered)
  <2>1. /\ left \in Seq(Gated) /\ Len(left) \in 0..Len(chain)
        /\ ToSet(left) \subseteq ToSet(chain)
        /\ \A x \in ToSet(chain) : x \notin delivered => x \in ToSet(left)
    BY <1>0, PruneFacts
  <2>2. chain' = Append(left, r) /\ slots' = slots - (Len(chain) - Len(left))
    BY <1>4 DEF ResponseCompletes
  <2> HIDE DEF left
  <2>3. Len(chain') = Len(left) + 1 /\ ToSet(chain') = ToSet(left) \cup {r}
    BY <1>4, <2>1, <2>2, LinkFacts
  <2>4. Holding' = Holding \ {r} /\ r \in Holding
    BY <1>0, <1>2, <1>3, <1>4, <2>1, <2>3 DEF Holding
  <2>5. Cardinality(Holding \ {r}) = Cardinality(Holding) - 1
    BY <2>4, HoldingFinite, FS_RemoveElement
  <2>6. HoldingInv'
    BY <1>0, <2>1, <2>2, <2>3, <2>4, <2>5, HoldingFinite, LimitsAssumption
       DEF HoldingInv, BarrierInv
  <2>7. LinkInv'
    BY <1>0, <1>1, <1>2, <1>3, <2>1, <2>3 DEF BarrierInv, LinkInv
  <2>8. UndeliveredIsLinked'
    BY <1>0, <1>3, <2>1, <2>3 DEF BarrierInv, UndeliveredIsLinked
  <2> QED
    BY <2>6, <2>7, <2>8 DEF BarrierInv
<1>5. CASE r \notin Gated
  <2>1. UNCHANGED <<slots, chain>>
    BY <1>5 DEF ResponseCompletes
  <2>2. Holding' = Holding
    BY <1>0, <1>3, <2>1 DEF Holding
  <2>3. LinkInv'
    BY <1>0, <1>1, <1>3, <2>1 DEF BarrierInv, LinkInv
  <2>4. UndeliveredIsLinked'
    BY <1>0, <1>3, <1>5, <2>1 DEF BarrierInv, UndeliveredIsLinked
  <2> QED
    BY <2>1, <2>2, <2>3, <2>4 DEF BarrierInv, HoldingInv
<1> QED
  BY <1>4, <1>5

LEMMA BarrierKept == ASSUME TypeOK, IInv, RInv, [Next]_vars PROVE BarrierInv'
<1>0. /\ chain \in Seq(Gated) /\ delivered \subseteq Gated /\ Gated \subseteq Requests
      /\ done \in [Requests -> DoneStates]
  BY GatedAssumption DEF TypeOK
<1>1. ToSet(chain) \subseteq Gated /\ BarrierInv
  BY <1>0 DEF ToSet, RInv
<1>2. ASSUME NEW r \in Requests, Prepare(r) PROVE BarrierInv'
  BY <1>1, <1>2, PrepareKeeps
<1>3. ASSUME \A r \in Requests : ~Prepare(r) PROVE BarrierInv'
  <2>0. \A x \in Requests : (phase'[x] = "none") <=> (phase[x] = "none")
    BY <1>3, PreparedStays
  <2>1. CASE Calm
    <3>1. Holding' = Holding
      BY <1>0, <2>0, <2>1 DEF Calm, Holding
    <3>2. LinkInv'
      BY <1>0, <1>1, <2>0, <2>1 DEF Calm, RInv, BarrierInv, LinkInv
    <3> QED
      BY <2>1, <3>1, <3>2 DEF Calm, RInv, BarrierInv, UndeliveredIsLinked, HoldingInv
  <2>2. ASSUME NEW r \in Requests, ResponseArrives(r) PROVE BarrierInv'
    <3>1. /\ UNCHANGED <<slots, chain, delivered, done, pending, phase>>
          /\ responded' = responded \cup {r} /\ r \in pending \ responded
      BY <2>2 DEF ResponseArrives, ConnFrame
    <3>2. Holding' = Holding
      BY <3>1 DEF Holding
    <3>3. done[r] # "response" /\ done[r] # "error" /\ done[r] \in DoneStates
      BY <1>0, <3>1 DEF IInv, EntryInv
    <3>4. r \notin delivered
      BY <3>1, <3>3 DEF RInv, BarrierInv, LinkInv, DoneStates
    <3>5. LinkInv'
      BY <3>1, <3>4 DEF RInv, BarrierInv, LinkInv
    <3> QED
      BY <3>1, <3>2, <3>5 DEF RInv, BarrierInv, UndeliveredIsLinked, HoldingInv
  <2>3. ASSUME NEW r \in Requests, ResponseCompletes(r) PROVE BarrierInv'
    BY <1>1, <2>3, CompleteKeeps
  <2>4. ASSUME NEW r \in Requests, DrainOne(r) PROVE BarrierInv'
    <3>1. UNCHANGED <<pending, responded>> /\ r \in drain
      BY <2>4 DEF DrainOne
    <3>2. phase[r] # "none" /\ r \notin pending
      BY <3>1 DEF IInv, EntryInv
    <3>3. CASE r \in responded /\ done[r] # "open" /\ Finish(r) /\ UNCHANGED done
      <4>1. done[r] = "response"
        BY <1>0, <3>3 DEF IInv, EntryInv, DoneStates
      <4> QED
        BY <1>1, <2>0, <3>1, <3>3, <4>1, FinishKeeps
    <3>4. CASE r \notin responded /\ done' = [done EXCEPT ![r] = "error"] /\ Discard(r)
      <4>1. done'[r] = "error" /\ \A x \in Requests : x # r => done'[x] = done[x]
        BY <1>0, <3>4
      <4> QED
        BY <2>0, <3>1, <3>2, <3>4, <4>1, DiscardKeeps, <1>1
    <3> QED
      BY <2>4, <3>3, <3>4 DEF DrainOne
  <2>5. ASSUME NEW r \in Requests, ReleaseStart(r) PROVE BarrierInv'
    <3>1. /\ UNCHANGED responded /\ pending' \subseteq pending /\ r \notin pending'
          /\ Releasing(r)
      BY <2>5 DEF ReleaseStart
    <3>2. CASE r \in responded /\ UNCHANGED <<done, slots, chain, delivered>>
      <4>1. Holding' = Holding
        BY <1>0, <2>0, <3>2 DEF Holding
      <4>2. LinkInv'
        BY <1>0, <1>1, <2>0, <3>1, <3>2 DEF RInv, BarrierInv, LinkInv
      <4> QED
        BY <3>2, <4>1, <4>2 DEF RInv, BarrierInv, UndeliveredIsLinked, HoldingInv
    <3>3. CASE r \notin responded /\ Discard(r)
                 /\ done' = IF r \in pending THEN [done EXCEPT ![r] = "error"] ELSE done
      <4>1. done'[r] \in {done[r], "error"} /\ \A x \in Requests : x # r => done'[x] = done[x]
        BY <1>0, <3>3
      <4>2. phase[r] # "none"
        BY <3>1 DEF RInv, ReleaseInv, Releasing, IInv, DispatchInv, WaitInv
      <4> QED
        BY <2>0, <3>1, <3>3, <4>1, <4>2, DiscardKeeps, <1>1
    <3> QED
      BY <2>5, <3>2, <3>3 DEF ReleaseStart
  <2>6. ASSUME NEW r \in Requests, ReleaseFinish(r) PROVE BarrierInv'
    <3>1. UNCHANGED <<done, pending, responded>> /\ done[r] # "open" /\ Finish(r)
          /\ release[r] = "await"
      BY <2>6 DEF ReleaseFinish
    <3>2. done[r] = "response"
      BY <1>0, <3>1 DEF IInv, EntryInv, DoneStates, RInv, ReleaseInv
    <3> QED
      BY <1>1, <2>0, <3>1, <3>2, FinishKeeps
  <2> QED
    BY <1>3, <2>1, <2>2, <2>3, <2>4, <2>5, <2>6, BarrierSteps DEF BarrierStep, ReleaseStep
<1> QED
  BY <1>2, <1>3

-----------------------------------------------------------------------------
(* What a request occupies *)

\* Who may abandon a request or report that its Dispatch failed.
LEMMA AbandonMoves ==
    ASSUME TypeOK, IInv, [Next]_vars
    PROVE  /\ abandoned \subseteq abandoned'
           /\ \A x \in Requests :
                 /\ phase'[x] = "abandoned" => phase[x] = "abandoned" \/ x \in abandoned'
                 /\ abandonPc'[x] # "idle" => abandonPc[x] # "idle" \/ phase'[x] = "abandoned"
                 /\ dispatchErr'[x] = "error" => \/ dispatchErr[x] = "error"
                                                 \/ phase[x] = "abandoned"
                                                 \/ x \in abandoned
                                                 \/ release[x] = "done"
<1> DEFINE Goal ==
       /\ abandoned \subseteq abandoned'
       /\ \A x \in Requests :
             /\ phase'[x] = "abandoned" => phase[x] = "abandoned" \/ x \in abandoned'
             /\ abandonPc'[x] # "idle" => abandonPc[x] # "idle" \/ phase'[x] = "abandoned"
             /\ dispatchErr'[x] = "error" => \/ dispatchErr[x] = "error"
                                             \/ phase[x] = "abandoned"
                                             \/ x \in abandoned
                                             \/ release[x] = "done"
<1>0. /\ phase \in [Requests -> Phases]
      /\ abandonPc \in [Requests -> AbandonPcs]
      /\ dispatchErr \in [Requests -> DispatchErrs]
  BY DEF TypeOK
<1>1. ASSUME UNCHANGED <<phase, abandoned, abandonPc, dispatchErr>> PROVE Goal
  BY <1>1
<1>2. ASSUME NEW r \in Requests, NEW p, p # "abandoned",
             phase' = [phase EXCEPT ![r] = p], UNCHANGED <<abandoned, abandonPc, dispatchErr>>
      PROVE  Goal
  BY <1>0, <1>2
<1>3. ASSUME NEW r \in Requests, NEW e, NEW p, CompleteDispatch(r, e, p),
             UNCHANGED <<abandoned, abandonPc>>,
             e = "error" => phase[r] = "abandoned" \/ r \in abandoned \/ release[r] = "done",
             p = "abandoned" => phase[r] = "abandoned" \/ r \in abandoned
      PROVE  Goal
  BY <1>0, <1>3 DEF CompleteDispatch, PhaseAfterDispatch
<1>4. ASSUME NEW r \in Requests, RequestStep(r) PROVE Goal
  <2>1. CASE Prepare(r)
    BY <1>2, <2>1 DEF Prepare
  <2>2. CASE DispatchStart(r)
    BY <1>2, <2>2 DEF DispatchStart, DispatchFrame
  <2>3. CASE DispatchSeesAbandon(r)
    BY <1>3, <2>3 DEF DispatchSeesAbandon, DispatchFrame
  <2>4. CASE CompleteWrite(r)
    BY <1>1, <1>3, <2>4 DEF CompleteWrite, DispatchFrame
  <2>5. CASE DispatchFinish(r)
    BY <1>3, <2>5 DEF DispatchFinish, DispatchFrame
  <2>6. CASE FailDispatch(r)
    BY <1>1, <1>2, <1>3, <2>6 DEF FailDispatch, DispatchFrame
  <2>7. CASE DispatchReleased(r)
    BY <1>3, <2>7 DEF DispatchReleased, Released, DispatchFrame
  <2>8. CASE Abandon(r)
    BY <1>0, <1>1, <2>8 DEF Abandon, AbandonFrame
  <2>9. CASE AbandonStep(r)
    BY <1>0, <2>9 DEF AbandonStep, AbandonDetaches, AbandonReleased, AbandonFrame
  <2>10. CASE \/ ObserveResponse(r) \/ DispatchRefused(r) \/ DispatchEnqueue(r)
              \/ DispatchInterrupted(r) \/ Interrupt(r) \/ CancelRequest(r) \/ ReleaseStep(r)
    BY <1>1, <2>10 DEF ObserveResponse, DispatchRefused, DispatchEnqueue,
       DispatchInterrupted, Interrupt, CancelRequest, CancelTest, CancelSend, CancelFrame,
       ReleaseStep, ReleaseStart, ReleaseFinish, DispatchFrame
  <2> QED
    BY <1>4, <2>1, <2>2, <2>3, <2>4, <2>5, <2>6, <2>7, <2>8, <2>9, <2>10
       DEF RequestStep, DispatchStep
<1>5. ASSUME NEW w \in Waiters, CallerStep(w) PROVE Goal
  <2>0. WaitsOn[w] \in Requests
    BY WaitersAssumption
  <2>1. UNCHANGED <<abandoned, abandonPc, dispatchErr>>
    BY <1>5 DEF CallerStep, WaitStep, WaitReads, WaitReady, WaitCancelled, WaitStays, WaitDone,
       WaitResolves, WaitNotified, WaitGivesUp, WaitLosesConnection, WaitSettles,
       WaitReleased, WaitFrame
  <2>2. \/ UNCHANGED phase
        \/ phase' = [phase EXCEPT ![WaitsOn[w]] = "finished"]
        \/ phase' = [phase EXCEPT ![WaitsOn[w]] = IF @ = "ready" THEN "finished" ELSE @]
    BY <1>5 DEF CallerStep, WaitStep, WaitReads, WaitReady, WaitCancelled,
       WaitStays, WaitDone, WaitResolves, WaitNotified, WaitGivesUp, WaitLosesConnection,
       WaitSettles, WaitReleased
  <2> QED
    BY <1>0, <2>0, <2>1, <2>2
<1>6. CASE WriterStep \/ BeginShutdown \/ ShutdownStep \/ \E r \in Requests : ReaderStep(r)
  BY <1>1, <1>6 DEF WriterStep, WriterTop, WriterStops, WriterTakesRequest,
     WriterTakesCancel, WriterInvokes, WriterShutsDown, WriterReturns, WriterFrame,
     BeginShutdown, ShutdownStep, EndShutdown, DrainOne, ReaderStep, ResponseArrives,
     ResponseCompletes, ConnFrame
<1>7. CASE UNCHANGED vars
  BY <1>1, <1>7 DEF vars
<1> QED
  BY <1>4, <1>5, <1>6, <1>7 DEF Next

\* A release is run by callers of a request that is past "ready".
LEMMA ReleasersAreLate ==
    ASSUME TypeOK, IInv, ReleaseInv, NEW r \in Requests, Releasing(r)
    PROVE  phase[r] \notin {"none", "ready"}
  BY DEF Releasing, IInv, DispatchInv, WaitInv, ResolveInv, ReleaseInv

LEMMA ReleaseKept == ASSUME TypeOK, IInv, RInv, [Next]_vars PROVE ReleaseInv'
<1>0. /\ ReleaseInv
      /\ release \in [Requests -> ReleaseStates]
      /\ phase \in [Requests -> Phases]
  BY DEF RInv, TypeOK
<1>1. ASSUME NEW x \in Requests
      PROVE  /\ phase'[x] = "abandoned" => x \in abandoned'
             /\ abandonPc'[x] # "idle" => phase'[x] \in {"abandoned", "finished"}
             /\ phase[x] # "none" => phase'[x] # "none"
             /\ dispatchErr'[x] = "error" => \/ x \in abandoned'
                                             \/ dispatchErr[x] = "error"
                                             \/ release[x] = "done"
  <2>1. PhaseMoves
    BY PhaseStep
  <2>2. phase[x] \in Phases /\ (phase'[x] = phase[x] \/ phase'[x] \in PhaseSuccessors(phase[x]))
    BY <1>0, <2>1 DEF PhaseMoves
  <2>3. /\ phase[x] \in {"abandoned", "finished"} => phase'[x] \in {"abandoned", "finished"}
        /\ phase[x] # "none" => phase'[x] # "none"
    BY <2>2 DEF PhaseSuccessors, Phases
  <2> QED
    BY <1>0, <2>3, AbandonMoves DEF ReleaseInv
<1>2. CASE Calm
  BY <1>0, <1>1, <1>2, AbandonMoves DEF ReleaseInv, Calm
<1>3. ASSUME NEW r \in Requests, BarrierStep(r), ~ReleaseStep(r) PROVE ReleaseInv'
  <2>1. /\ UNCHANGED release
        /\ delivered \subseteq delivered' /\ responded \subseteq responded'
        /\ \/ pending' \subseteq pending
           \/ phase[r] = "none" /\ pending' = pending \cup {r}
    <3>1. CASE Prepare(r)
      BY <3>1 DEF Prepare
    <3>2. CASE ResponseArrives(r)
      BY <3>2 DEF ResponseArrives, ConnFrame
    <3>3. CASE ResponseCompletes(r)
      BY <3>3 DEF ResponseCompletes, ConnFrame
    <3>4. CASE DrainOne(r)
      <4>1. delivered \subseteq delivered'
        BY <3>4 DEF DrainOne, Finish, Discard
      <4> QED
        BY <3>4, <4>1 DEF DrainOne, ConnFrame
    <3> QED
      BY <1>3, <3>1, <3>2, <3>3, <3>4 DEF BarrierStep
  <2>2. \A x \in Requests : release[x] # "no" => x \notin pending'
    BY <1>0, <2>1 DEF ReleaseInv
  <2> QED
    BY <1>0, <1>1, <2>1, <2>2, AbandonMoves DEF ReleaseInv
<1>4. ASSUME NEW r \in Requests, ReleaseStep(r) PROVE ReleaseInv'
  <2>1. /\ \A x \in Requests : x # r => release'[x] = release[x]
        /\ release[r] # "done" /\ release'[r] # "no"
        /\ release'[r] = "await" => r \in responded
        /\ release'[r] = "done" => (r \in Gated => r \in delivered')
        /\ UNCHANGED responded /\ delivered \subseteq delivered'
        /\ pending' \subseteq pending /\ r \notin pending'
        /\ phase[r] # "none"
    <3>1. CASE ReleaseStart(r)
      BY <1>0, <3>1, ReleasersAreLate DEF ReleaseStart, Discard, Discards
    <3>2. CASE ReleaseFinish(r)
      BY <1>0, <3>2 DEF ReleaseFinish, Finish, ReleaseInv
    <3> QED
      BY <1>4, <3>1, <3>2 DEF ReleaseStep
  <2> QED
    BY <1>0, <1>1, <2>1, AbandonMoves DEF ReleaseInv
<1> QED
  BY <1>2, <1>3, <1>4, BarrierSteps

-----------------------------------------------------------------------------
(* Cancellations *)

\* Shutdown is not taken back.
LEMMA ClosingStays ==
    ASSUME [Next]_vars, closing # "open"
    PROVE  closing' # "open"
<1>1. ASSUME NEW r \in Requests, RequestStep(r) PROVE UNCHANGED closing
  BY <1>1 DEF RequestStep, Prepare, ObserveResponse, DispatchStart, DispatchRefused,
     DispatchStep, DispatchEnqueue, DispatchInterrupted, DispatchSeesAbandon, CompleteWrite,
     DispatchFinish, FailDispatch, DispatchReleased, Interrupt, CancelRequest, CancelTest,
     CancelSend, CancelFrame, Abandon, AbandonStep, AbandonDetaches, AbandonReleased,
     ReleaseStep, ReleaseStart, ReleaseFinish, DispatchFrame, AbandonFrame
<1>2. ASSUME NEW w \in Waiters, CallerStep(w) PROVE UNCHANGED closing
  BY <1>2 DEF CallerStep, WaitStep, WaitReads, WaitReady, WaitCancelled, WaitStays, WaitDone,
     WaitResolves, WaitNotified, WaitGivesUp, WaitLosesConnection, WaitSettles, WaitReleased,
     WaitFrame
<1>3. CASE WriterStep
  BY <1>3 DEF WriterStep, WriterTop, WriterStops, WriterTakesRequest, WriterTakesCancel,
     WriterInvokes, WriterShutsDown, WriterReturns, WriterFrame
<1>4. CASE BeginShutdown \/ ShutdownStep \/ \E r \in Requests : ReaderStep(r)
  BY <1>4 DEF BeginShutdown, ShutdownStep, EndShutdown, DrainOne, ReaderStep, ResponseArrives,
     ResponseCompletes
<1> QED
  BY <1>1, <1>2, <1>3, <1>4 DEF Next, vars

\* What an item joining the queue, or the head leaving it, does to the cancellations in it.
LEMMA CancelJoins ==
    ASSUME TypeOK, NEW item \in Items, writeQueue' = Append(writeQueue, item),
           NEW x \in Requests, CancelQueued(x)'
    PROVE  CancelQueued(x) \/ item = Cancellation(x)
<1>1. writeQueue \in Seq(Items)
  BY DEF TypeOK
<1>2. PICK i \in 1..Len(writeQueue') : writeQueue'[i] = Cancellation(x)
  BY DEF CancelQueued, Cancellation
<1>3. \/ i \in 1..Len(writeQueue) /\ writeQueue'[i] = writeQueue[i]
      \/ writeQueue'[i] = item
  BY <1>1, <1>2
<1> QED
  BY <1>2, <1>3 DEF CancelQueued

LEMMA CancelLeaves ==
    ASSUME TypeOK, writeQueue # <<>>, writeQueue' = Tail(writeQueue), NEW x \in Requests
    PROVE  /\ CancelQueued(x)' => CancelQueued(x)
           /\ Head(writeQueue) = Cancellation(x) => CancelQueued(x)
<1>1. writeQueue \in Seq(Items)
  BY DEF TypeOK
<1>2. /\ Head(writeQueue) = writeQueue[1] /\ 1 \in 1..Len(writeQueue)
      /\ \A i \in 1..Len(writeQueue') :
            i + 1 \in 1..Len(writeQueue) /\ writeQueue'[i] = writeQueue[i + 1]
  BY <1>1
<1> QED
  BY <1>2 DEF CancelQueued, Cancellation

\* What the writer, and those who queue for it, may change.
WriterMove(x) ==
    /\ writeDone'[x] = writeDone[x] \/ writeDone[x] = "none"
    /\ writing' = Write(x) => writeDone'[x] = "none"
    /\ writing' = Cancellation(x) => writing = Cancellation(x) \/ CancelQueued(x)
    /\ CancelQueued(x)' => CancelQueued(x) \/ CancelSend(x)
    /\ x \in cancelSent' => \/ x \in cancelSent
                            \/ closing = "open" /\ writing = Cancellation(x)

LEMMA WriterMoves ==
    ASSUME TypeOK, IInv, CancelInv, [Next]_vars, NEW x \in Requests
    PROVE  WriterMove(x)
<1>0. /\ writeDone \in [Requests -> WriteResults]
      /\ writing \in Items \cup {NoItem}
      /\ writing = Write(x) => writeDone[x] = "none"
      /\ QueueInv
  BY DEF TypeOK, CancelInv, IInv
<1>1. ASSUME UNCHANGED <<writing, writeDone, cancelSent>>,
             CancelQueued(x)' => CancelQueued(x) \/ CancelSend(x)
      PROVE  WriterMove(x)
  BY <1>0, <1>1 DEF WriterMove, Write
<1>2. ASSUME UNCHANGED <<writeQueue, writing, writeDone, cancelSent>> PROVE WriterMove(x)
  BY <1>1, <1>2 DEF CancelQueued, Cancellation
<1>3. ASSUME NEW r \in Requests, RequestStep(r) PROVE WriterMove(x)
  <2>1. CASE DispatchEnqueue(r)
    <3>1. /\ writeQueue' = Append(writeQueue, Write(r)) /\ Write(r) \in Items
          /\ Write(r) # Cancellation(x)
          /\ UNCHANGED <<writing, writeDone, cancelSent>>
      BY <2>1 DEF DispatchEnqueue, DispatchFrame, Write, Items, Cancellation
    <3> QED
      BY <1>1, <3>1, CancelJoins
  <2>2. CASE CancelSend(r)
    <3>1. UNCHANGED <<writing, writeDone, cancelSent>>
      BY <2>2 DEF CancelSend, CancelFrame
    <3>2. CASE UNCHANGED writeQueue
      BY <1>2, <3>1, <3>2
    <3>3. CASE writeQueue' = Append(writeQueue, Cancellation(r))
      <4>1. Cancellation(r) \in Items /\ (Cancellation(r) = Cancellation(x) => r = x)
        BY DEF Cancellation, Items
      <4> QED
        BY <1>1, <2>2, <3>1, <3>3, <4>1, CancelJoins
    <3> QED
      BY <2>2, <3>2, <3>3 DEF CancelSend, Cancellation
  <2>3. CASE ~DispatchEnqueue(r) /\ ~CancelSend(r)
    <3>1. UNCHANGED <<writeQueue, writing, writeDone, cancelSent>>
      BY <1>3, <2>3 DEF RequestStep, Prepare, ObserveResponse, DispatchStart, DispatchRefused,
         DispatchStep, DispatchInterrupted, DispatchSeesAbandon, CompleteWrite,
         DispatchFinish, FailDispatch, DispatchReleased, Interrupt, CancelRequest,
         CancelTest, CancelFrame, Abandon, AbandonStep, AbandonDetaches, AbandonReleased,
         ReleaseStep, ReleaseStart, ReleaseFinish, DispatchFrame, AbandonFrame
    <3> QED
      BY <1>2, <3>1
  <2> QED
    BY <2>1, <2>2, <2>3
<1>4. ASSUME NEW w \in Waiters, CallerStep(w) PROVE WriterMove(x)
  BY <1>2, <1>4 DEF CallerStep, WaitStep, WaitReads, WaitReady, WaitCancelled, WaitStays,
     WaitDone, WaitResolves, WaitNotified, WaitGivesUp, WaitLosesConnection, WaitSettles,
     WaitReleased, WaitFrame
<1>5. ASSUME WriterStep PROVE WriterMove(x)
  <2>1. CASE WriterTakesRequest
    <3>1. PICK r \in Requests : /\ Head(writeQueue) = Write(r) /\ Head(writeQueue).req = r
                                /\ Queued(r)
      BY <1>0, <2>1, TakenWrite
    <3>2. writeDone[r] = "none" /\ writing # Write(r)
      BY <1>0, <3>1 DEF QueueInv
    <3>3. /\ writeQueue # <<>> /\ writeQueue' = Tail(writeQueue) /\ UNCHANGED cancelSent
          /\ \/ writing' = Write(r) /\ UNCHANGED writeDone
             \/ writeDone' = [writeDone EXCEPT ![r] = "fail"] /\ UNCHANGED writing
      BY <2>1, <3>1 DEF WriterTakesRequest, WriterFrame
    <3>4. CancelQueued(x)' => CancelQueued(x)
      BY <3>3, CancelLeaves
    <3>5. Write(r) = Write(x) => r = x
      BY DEF Write
    <3>6. Write(r) # Cancellation(x)
      BY DEF Write, Cancellation
    <3>7. CASE writing' = Write(r) /\ UNCHANGED writeDone
      BY <3>2, <3>3, <3>4, <3>5, <3>6, <3>7 DEF WriterMove
    <3>8. CASE writeDone' = [writeDone EXCEPT ![r] = "fail"] /\ UNCHANGED writing
      <4>1. writing' = Write(x) => writeDone'[x] = "none"
        BY <1>0, <3>2, <3>8
      <4>2. writeDone'[x] = writeDone[x] \/ writeDone[x] = "none"
        BY <1>0, <3>2, <3>8
      <4> QED
        BY <3>3, <3>4, <3>8, <4>1, <4>2 DEF WriterMove
    <3> QED
      BY <3>3, <3>7, <3>8
  <2>2. CASE WriterTakesCancel
    <3>1. /\ writeQueue # <<>> /\ writeQueue' = Tail(writeQueue)
          /\ UNCHANGED <<cancelSent, writeDone>>
          /\ writing' = Head(writeQueue) \/ UNCHANGED writing
          /\ Head(writeQueue).kind = "cancel"
      BY <2>2 DEF WriterTakesCancel, WriterFrame
    <3>2. /\ CancelQueued(x)' => CancelQueued(x)
          /\ Head(writeQueue) = Cancellation(x) => CancelQueued(x)
      BY <3>1, CancelLeaves
    <3>3. Head(writeQueue) # Write(x)
      BY <3>1 DEF Write
    <3> QED
      BY <1>0, <3>1, <3>2, <3>3 DEF WriterMove
  <2>3. CASE WriterInvokes
    <3>1. /\ UNCHANGED <<writeQueue, writing, writeDone>> /\ writing \in Items
          /\ x \in cancelSent' => \/ x \in cancelSent
                                  \/ closing = "open" /\ writing.kind # "request"
                                     /\ x = writing.req
      BY <2>3 DEF WriterInvokes, TypeOK
    <3>2. writing.kind # "request" /\ x = writing.req => writing = Cancellation(x)
      BY <3>1 DEF Items, Cancellation
    <3>3. CancelQueued(x)' => CancelQueued(x)
      BY <3>1 DEF CancelQueued, Cancellation
    <3> QED
      BY <1>0, <3>1, <3>2, <3>3 DEF WriterMove, Write, Cancellation
  <2>4. ASSUME NEW ok \in BOOLEAN, WriterReturns(ok) PROVE WriterMove(x)
    <3>1. /\ UNCHANGED <<writeQueue, cancelSent>> /\ writing' = NoItem
          /\ writing \in Items
          /\ writeDone' = IF writing.kind = "request"
                          THEN [writeDone EXCEPT ![writing.req] = IF ok THEN "ok" ELSE "fail"]
                          ELSE writeDone
      BY <2>4 DEF WriterReturns, WriterFrame, TypeOK
    <3>2. CancelQueued(x)' => CancelQueued(x)
      BY <3>1 DEF CancelQueued, Cancellation
    <3>3. writing' # Write(x) /\ writing' # Cancellation(x)
      <4>1. NoItem # Write(x) /\ NoItem # Cancellation(x)
        BY DEF NoItem, Write, Cancellation
      <4> QED
        BY <3>1, <4>1
    <3>4. writing.kind = "request" /\ writing.req = x => writing = Write(x)
      BY <3>1 DEF Items, Write
    <3>5. writeDone'[x] = writeDone[x] \/ writeDone[x] = "none"
      BY <1>0, <3>1, <3>4
    <3> QED
      BY <3>1, <3>2, <3>3, <3>5 DEF WriterMove
  <2>5. CASE WriterTop \/ WriterStops \/ WriterShutsDown
    BY <1>2, <2>5 DEF WriterTop, WriterStops, WriterShutsDown, WriterFrame
  <2> QED
    BY <1>5, <2>1, <2>2, <2>3, <2>4, <2>5 DEF WriterStep
<1>6. CASE BeginShutdown \/ ShutdownStep \/ \E r \in Requests : ReaderStep(r)
  BY <1>2, <1>6 DEF BeginShutdown, ShutdownStep, EndShutdown, DrainOne, ReaderStep,
     ResponseArrives, ResponseCompletes, ConnFrame
<1>7. CASE UNCHANGED vars
  BY <1>2, <1>7 DEF vars
<1> QED
  BY <1>3, <1>4, <1>5, <1>6, <1>7 DEF Next

\* What calls in progress may change: a Dispatch succeeds through the report of its write,
\* and a request that was never dispatched ends with the connection.
CallMove(x) ==
    /\ dispatchErr'[x] = "nil" => dispatchErr[x] = "nil" \/ dispatchPc[x] = "finish"
    /\ dispatchPc'[x] = "finish" => dispatchPc[x] = "finish" \/ writeDone[x] = "ok"
    /\ dispatchPc'[x] = "idle" => dispatchPc[x] = "idle"
    /\ done'[x] = "error" => \/ done[x] = "error"
                             \/ closing # "open"
                             \/ phase[x] \notin {"none", "ready"}
    /\ phase'[x] = "finished" /\ dispatchPc[x] = "idle" =>
          phase[x] = "finished" \/ closing # "open"

LEMMA CallMoves ==
    ASSUME TypeOK, IInv, RInv, [Next]_vars, NEW x \in Requests
    PROVE  CallMove(x)
<1>0. /\ phase \in [Requests -> Phases] /\ done \in [Requests -> DoneStates]
      /\ dispatchPc \in [Requests -> DispatchPcs]
      /\ dispatchErr \in [Requests -> DispatchErrs]
      /\ waitPc \in [Waiters -> WaitPcs]
  BY DEF TypeOK
<1>1. ASSUME UNCHANGED <<phase, done, dispatchPc, dispatchErr>> PROVE CallMove(x)
  BY <1>1 DEF CallMove
<1>2. ASSUME NEW r \in Requests, UNCHANGED <<done, dispatchErr>>, NEW d, d # "idle",
             dispatchPc' = [dispatchPc EXCEPT ![r] = d],
             d = "finish" => writeDone[r] = "ok",
             \A y \in Requests : phase'[y] = "finished" => phase[y] = "finished"
      PROVE  CallMove(x)
  BY <1>0, <1>2 DEF CallMove
<1>3. ASSUME NEW r \in Requests, NEW e, NEW p, CompleteDispatch(r, e, p), UNCHANGED done,
             e = "nil" => dispatchPc[r] = "finish", p # "finished"
      PROVE  CallMove(x)
  BY <1>0, <1>3 DEF CallMove, CompleteDispatch, PhaseAfterDispatch
<1>4. ASSUME NEW r \in Requests, RequestStep(r) PROVE CallMove(x)
  <2>1. CASE Prepare(r)
    BY <1>0, <2>1 DEF Prepare, CallMove
  <2>2. CASE DispatchStart(r)
    BY <1>0, <1>2, <2>2 DEF DispatchStart, DispatchFrame
  <2>3. CASE DispatchSeesAbandon(r)
    BY <1>3, <2>3 DEF DispatchSeesAbandon, DispatchFrame
  <2>4. CASE CompleteWrite(r)
    BY <1>2, <1>3, <2>4 DEF CompleteWrite, DispatchFrame
  <2>5. CASE DispatchFinish(r)
    BY <1>3, <2>5 DEF DispatchFinish, DispatchFrame
  <2>6. CASE FailDispatch(r)
    BY <1>0, <1>2, <1>3, <2>6 DEF FailDispatch, DispatchFrame
  <2>7. CASE DispatchReleased(r)
    BY <1>3, <2>7 DEF DispatchReleased, DispatchFrame
  <2>8. CASE DispatchEnqueue(r) \/ DispatchInterrupted(r)
    BY <1>2, <2>8 DEF DispatchEnqueue, DispatchInterrupted, DispatchFrame
  <2>9. CASE Abandon(r)
    BY <1>0, <2>9 DEF Abandon, AbandonFrame, CallMove
  <2>10. CASE ReleaseStart(r)
    <3>1. phase[r] \notin {"none", "ready"}
      BY <2>10, ReleasersAreLate DEF ReleaseStart, RInv
    <3>2. UNCHANGED <<phase, dispatchPc, dispatchErr>>
          /\ \A y \in Requests : y # r => done'[y] = done[y]
      BY <1>0, <2>10 DEF ReleaseStart
    <3> QED
      BY <3>1, <3>2 DEF CallMove
  <2>11. CASE \/ ObserveResponse(r) \/ DispatchRefused(r) \/ Interrupt(r) \/ CancelRequest(r)
              \/ AbandonStep(r) \/ ReleaseFinish(r)
    BY <1>1, <2>11 DEF ObserveResponse, DispatchRefused, Interrupt, CancelRequest,
       CancelTest, CancelSend, CancelFrame, AbandonStep, AbandonDetaches, AbandonReleased,
       ReleaseFinish, DispatchFrame, AbandonFrame
  <2> QED
    BY <1>4, <2>1, <2>2, <2>3, <2>4, <2>5, <2>6, <2>7, <2>8, <2>9, <2>10, <2>11
       DEF RequestStep, DispatchStep, ReleaseStep
<1>5. ASSUME NEW w \in Waiters, CallerStep(w) PROVE CallMove(x)
  <2>0. WaitsOn[w] \in Requests
    BY WaitersAssumption
  <2>1. UNCHANGED <<done, dispatchPc, dispatchErr>>
    BY <1>5 DEF CallerStep, WaitStep, WaitReads, WaitReady, WaitCancelled, WaitStays, WaitDone,
       WaitResolves, WaitNotified, WaitGivesUp, WaitLosesConnection, WaitSettles,
       WaitReleased, WaitFrame
  <2>2. \/ UNCHANGED phase
        \/ /\ phase' = [phase EXCEPT ![WaitsOn[w]] = "finished"]
           /\ waitPc[w] \in Awaiting
        \/ /\ phase' = [phase EXCEPT ![WaitsOn[w]] = IF @ = "ready" THEN "finished" ELSE @]
           /\ done[WaitsOn[w]] = "error"
    BY <1>5 DEF CallerStep, WaitStep, WaitReads, WaitReady, WaitCancelled,
       WaitStays, WaitDone, WaitResolves, WaitNotified, WaitGivesUp, WaitLosesConnection,
       WaitSettles, WaitReleased, Awaiting
  <2>3. CASE UNCHANGED phase
    BY <1>1, <2>1, <2>3
  <2>4. CASE /\ phase' = [phase EXCEPT ![WaitsOn[w]] = "finished"]
             /\ waitPc[w] \in Awaiting
    <3>1. dispatchPc[WaitsOn[w]] = "idle" => closing # "open"
      BY <2>4 DEF RInv, CancelInv
    <3> QED
      BY <1>0, <2>0, <2>1, <2>4, <3>1 DEF CallMove
  <2>5. CASE /\ phase' = [phase EXCEPT ![WaitsOn[w]] = IF @ = "ready" THEN "finished" ELSE @]
             /\ done[WaitsOn[w]] = "error"
    <3>1. phase[WaitsOn[w]] = "ready" => closing # "open"
      BY <2>0, <2>5 DEF RInv, CancelInv
    <3> QED
      BY <1>0, <2>0, <2>1, <2>5, <3>1 DEF CallMove
  <2> QED
    BY <2>2, <2>3, <2>4, <2>5
<1>6. CASE WriterStep
  BY <1>1, <1>6 DEF WriterStep, WriterTop, WriterStops, WriterTakesRequest,
     WriterTakesCancel, WriterInvokes, WriterShutsDown, WriterReturns, WriterFrame
<1>7. CASE BeginShutdown \/ EndShutdown \/ \E r \in Requests : ResponseArrives(r)
  BY <1>1, <1>7 DEF BeginShutdown, EndShutdown, ResponseArrives, ConnFrame
<1>8. ASSUME NEW r \in Requests, ResponseCompletes(r) \/ DrainOne(r) PROVE CallMove(x)
  <2>1. /\ UNCHANGED <<phase, dispatchPc, dispatchErr>>
        /\ \/ \E d : d # "error" /\ done' = [done EXCEPT ![r] = d]
           \/ UNCHANGED done
           \/ closing # "open"
    BY <1>8 DEF ResponseCompletes, DrainOne, ConnFrame
  <2> QED
    BY <1>0, <2>1 DEF CallMove
<1>9. CASE UNCHANGED vars
  BY <1>1, <1>9 DEF vars
<1> QED
  BY <1>4, <1>5, <1>6, <1>7, <1>8, <1>9 DEF Next, ShutdownStep, ReaderStep

\* A Wait looks for the response of a request that was dispatched or has finished.
LEMMA AwaitMoves ==
    ASSUME TypeOK, [Next]_vars, NEW w \in Waiters, waitPc'[w] \in Awaiting
    PROVE  waitPc[w] \in Awaiting \/ phase[WaitsOn[w]] \in {"dispatched", "finished"}
<1>0. waitPc \in [Waiters -> WaitPcs]
  BY DEF TypeOK
<1>1. ASSUME NEW v \in Waiters, CallerStep(v)
      PROVE  waitPc[w] \in Awaiting \/ phase[WaitsOn[w]] \in {"dispatched", "finished"}
  <2>1. CASE v # w
    <3>1. \E pc : waitPc' = [waitPc EXCEPT ![v] = pc]
      BY <1>1 DEF CallerStep, WaitStep, WaitReads, WaitReady, WaitCancelled, WaitStays, WaitDone,
         WaitResolves, WaitNotified, WaitGivesUp, WaitLosesConnection, WaitSettles,
         WaitReleased, Goto, Return, ReturnUnsettled, Settle
    <3> QED
      BY <1>0, <2>1, <3>1
  <2>2. CASE v = w /\ WaitReads(w)
    BY <1>0, <2>2 DEF WaitReads, Goto, Return, Awaiting
  <2>3. CASE v = w /\ (WaitReady(w) \/ WaitCancelled(w))
    BY <1>0, <2>3 DEF WaitReady, WaitCancelled, Return, ReturnUnsettled, Goto, Awaiting
  <2>4. CASE v = w /\ ~WaitReads(w) /\ ~WaitReady(w) /\ ~WaitCancelled(w)
    BY <1>1, <2>4 DEF CallerStep, WaitStep, WaitStays, WaitDone, WaitResolves, WaitNotified,
       WaitGivesUp, WaitLosesConnection, WaitSettles, WaitReleased, Awaiting
  <2> QED
    BY <2>1, <2>2, <2>3, <2>4
<1>2. ASSUME NEW r \in Requests, RequestStep(r) PROVE UNCHANGED waitPc
  BY <1>2 DEF RequestStep, Prepare, ObserveResponse, DispatchStart, DispatchRefused,
     DispatchStep, DispatchEnqueue, DispatchInterrupted, DispatchSeesAbandon, CompleteWrite,
     DispatchFinish, FailDispatch, DispatchReleased, Interrupt, CancelRequest, CancelTest,
     CancelSend, CancelFrame, Abandon, AbandonStep, AbandonDetaches, AbandonReleased,
     ReleaseStep, ReleaseStart, ReleaseFinish, DispatchFrame, AbandonFrame
<1>3. WriterStep => UNCHANGED waitPc
  BY DEF WriterStep, WriterTop, WriterStops, WriterTakesRequest, WriterTakesCancel,
     WriterInvokes, WriterShutsDown, WriterReturns, WriterFrame
<1>4. BeginShutdown \/ ShutdownStep \/ (\E r \in Requests : ReaderStep(r)) => UNCHANGED waitPc
  BY DEF BeginShutdown, ShutdownStep, EndShutdown, DrainOne, ReaderStep, ResponseArrives,
     ResponseCompletes, ConnFrame
<1> QED
  BY <1>1, <1>2, <1>3, <1>4 DEF Next, vars

\* A CancelRequest on its way to the queue has passed its test.
LEMMA CancelMoves ==
    ASSUME TypeOK, [Next]_vars, NEW x \in Requests, cancelPc'[x] = "send"
    PROVE  cancelPc[x] = "send" \/ Cancellable(x)
<1>1. ASSUME NEW r \in Requests, RequestStep(r), ~CancelRequest(r) PROVE UNCHANGED cancelPc
  BY <1>1 DEF RequestStep, Prepare, ObserveResponse, DispatchStart, DispatchRefused,
     DispatchStep, DispatchEnqueue, DispatchInterrupted, DispatchSeesAbandon, CompleteWrite,
     DispatchFinish, FailDispatch, DispatchReleased, Interrupt, Abandon, AbandonStep,
     AbandonDetaches, AbandonReleased, ReleaseStep, ReleaseStart, ReleaseFinish,
     DispatchFrame, AbandonFrame
<1>2. ASSUME NEW r \in Requests, CancelRequest(r)
      PROVE  cancelPc'[x] = cancelPc[x] \/ (r = x /\ Cancellable(x))
  BY <1>2 DEF CancelRequest, CancelTest, CancelSend, TypeOK
<1>3. ASSUME NEW w \in Waiters, CallerStep(w) PROVE UNCHANGED cancelPc
  BY <1>3 DEF CallerStep, WaitStep, WaitReads, WaitReady, WaitCancelled, WaitStays, WaitDone,
     WaitResolves, WaitNotified, WaitGivesUp, WaitLosesConnection, WaitSettles, WaitReleased,
     WaitFrame
<1>4. CASE WriterStep
  BY <1>4 DEF WriterStep, WriterTop, WriterStops, WriterTakesRequest, WriterTakesCancel,
     WriterInvokes, WriterShutsDown, WriterReturns, WriterFrame
<1>5. CASE BeginShutdown \/ ShutdownStep \/ \E r \in Requests : ReaderStep(r)
  BY <1>5 DEF BeginShutdown, ShutdownStep, EndShutdown, DrainOne, ReaderStep, ResponseArrives,
     ResponseCompletes, ConnFrame
<1> QED
  BY <1>1, <1>2, <1>3, <1>4, <1>5 DEF Next, vars

LEMMA CancelKept == ASSUME TypeOK, IInv, RInv, [Next]_vars PROVE CancelInv'
<1>0. CancelInv /\ DispatchInv /\ (closing # "open" => closing' # "open")
  BY ClosingStays DEF RInv, IInv
<1>1. ASSUME NEW r \in Requests
      PROVE  /\ CallMove(r) /\ WriterMove(r)
             /\ phase'[r] = "ready" => phase[r] \in {"none", "ready"}
  <2>1. phase[r] \in Phases /\ (phase'[r] = phase[r] \/ phase'[r] \in PhaseSuccessors(phase[r]))
    BY PhaseStep DEF PhaseMoves, TypeOK
  <2>2. phase'[r] = "ready" => phase[r] \in {"none", "ready"}
    BY <2>1 DEF PhaseSuccessors, Phases
  <2> QED
    BY <1>0, <2>2, CallMoves, WriterMoves
<1>2. ASSUME NEW r \in Requests, phase[r] \in {"dispatched", "finished"}
      PROVE  writeDone[r] = "ok" \/ (dispatchPc[r] = "idle" /\ closing # "open")
  BY <1>0, <1>2 DEF CancelInv, DispatchInv
<1>3. ASSUME NEW r \in Requests
      PROVE  /\ dispatchErr'[r] = "nil" \/ dispatchPc'[r] = "finish" => writeDone'[r] = "ok"
             /\ writing' = Write(r) => writeDone'[r] = "none"
             /\ phase'[r] = "ready" /\ done'[r] = "error" => closing' # "open"
             /\ phase'[r] = "finished" /\ dispatchPc'[r] = "idle" => closing' # "open"
             /\ cancelPc'[r] = "send" \/ CancelQueued(r)' \/ writing' = Cancellation(r) =>
                   writeDone'[r] = "ok" \/ closing' # "open"
             /\ r \in cancelSent' => writeDone'[r] = "ok"
  <2>1. writeDone[r] = "ok" => writeDone'[r] = "ok"
    BY <1>1 DEF WriterMove
  <2>2. dispatchErr'[r] = "nil" \/ dispatchPc'[r] = "finish" => writeDone'[r] = "ok"
    BY <1>0, <1>1, <2>1 DEF CallMove, CancelInv
  <2>3. phase'[r] = "ready" /\ done'[r] = "error" => closing' # "open"
    BY <1>0, <1>1 DEF CallMove, CancelInv, IInv, EntryInv
  <2>4. phase'[r] = "finished" /\ dispatchPc'[r] = "idle" => closing' # "open"
    BY <1>0, <1>1 DEF CallMove, CancelInv
  <2>5. cancelPc'[r] = "send" \/ CancelSend(r) => writeDone[r] = "ok" \/ closing # "open"
    BY <1>0, <1>2, CancelMoves DEF CancelSend, Cancellable, CancelInv
  <2>6. cancelPc'[r] = "send" \/ CancelQueued(r)' \/ writing' = Cancellation(r) =>
           writeDone'[r] = "ok" \/ closing' # "open"
    BY <1>0, <1>1, <2>1, <2>5 DEF WriterMove, CancelInv
  <2>7. r \in cancelSent' => writeDone'[r] = "ok"
    BY <1>0, <1>1, <2>1 DEF WriterMove, CancelInv
  <2> QED
    BY <1>1, <2>2, <2>3, <2>4, <2>6, <2>7 DEF WriterMove
<1>4. ASSUME NEW w \in Waiters, waitPc'[w] \in Awaiting, dispatchPc'[WaitsOn[w]] = "idle"
      PROVE  closing' # "open"
  <2>0. WaitsOn[w] \in Requests
    BY WaitersAssumption
  <2>1. dispatchPc[WaitsOn[w]] = "idle"
    BY <1>1, <1>4, <2>0 DEF CallMove
  <2>2. CASE waitPc[w] \in Awaiting
    BY <1>0, <2>1, <2>2 DEF CancelInv
  <2>3. CASE phase[WaitsOn[w]] \in {"dispatched", "finished"}
    BY <1>0, <2>0, <2>1, <2>3 DEF CancelInv, DispatchInv
  <2> QED
    BY <1>4, <2>2, <2>3, AwaitMoves
<1> QED
  BY <1>3, <1>4 DEF CancelInv, CancelQueued, Write, Cancellation, Awaiting

-----------------------------------------------------------------------------
(* The theorems *)

\* What a request occupies and where its cancellation is hold after every step.
THEOREM ReleaseInvariance == Spec => []RInv
<1>1. Init => RInv
  <2>1. ASSUME Init PROVE BarrierInv
    <3>1. ToSet(chain) = {} /\ Len(chain) = 0 /\ delivered = {} /\ slots = 0
      BY <2>1 DEF Init, ToSet
    <3>2. Holding = {}
      BY <2>1, GatedAssumption DEF Init, Holding
    <3> QED
      BY <2>1, <3>1, <3>2, FS_EmptySet, LimitsAssumption, GatedAssumption
         DEF Init, BarrierInv, LinkInv, UndeliveredIsLinked, HoldingInv
  <2>2. Init => CancelInv
    BY WaitersAssumption DEF Init, CancelInv, CancelQueued, Write, Cancellation, NoItem, Awaiting
  <2>3. Init => ReleaseInv
    BY DEF Init, ReleaseInv
  <2> QED
    BY <2>1, <2>2, <2>3 DEF RInv
<1>2. TypeOK /\ IInv /\ RInv /\ [Next]_vars => RInv'
  BY CancelKept, ReleaseKept, BarrierKept DEF RInv
<1> QED
  BY <1>1, <1>2, TypeCorrect, Invariance, PTL DEF Spec

\* A Dispatch that reports a failure has given back the entry in c.pending and, for a
\* gated request, its delivery: failDispatch and completeWrite go through releasePending
\* first (prepared_request.go).
THEOREM FailureReleases == Spec => []FailedDispatchReleases
<1>1. RInv => FailedDispatchReleases
  BY DEF RInv, ReleaseInv, FailedDispatchReleases
<1> QED
  BY <1>1, ReleaseInvariance, PTL

\* While the connection is open $/cancel_request is written after the request it names,
\* although CancelRequest only looks at the phase and the queue is shared.
THEOREM CancelComesAfter == Spec => []CancelFollowsRequest
<1>1. TypeOK /\ RInv => CancelFollowsRequest
  BY DEF TypeOK, RInv, CancelInv, CancelFollowsRequest
<1> QED
  BY <1>1, TypeCorrect, ReleaseInvariance, PTL

\* Response delivery barrier: from the completion of a gated response until it is
\* released, its delivery is in the chain that later notifications wait for.
THEOREM AnsweredIsLinked == Spec => []UndeliveredIsLinked
<1>1. RInv => UndeliveredIsLinked
  BY DEF RInv, BarrierInv
<1> QED
  BY <1>1, ReleaseInvariance, PTL

\* The slots channel holds one token per linked delivery and per gated request that has
\* neither linked nor given up its own, so the receives under deliveryMu do not block and
\* addPending's limit is exact (connection.go).
THEOREM SlotsExact == Spec => []SlotAccounting
<1>1. RInv => SlotAccounting
  BY DEF RInv, BarrierInv, HoldingInv, Holding, SlotAccounting
<1> QED
  BY <1>1, ReleaseInvariance, PTL
=============================================================================

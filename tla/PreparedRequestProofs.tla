------------------------ MODULE PreparedRequestProofs ------------------------
(***************************************************************************)
(* Theorems about PreparedRequest for every set of requests, gated         *)
(* requests and waiters and every limit, from the assumptions named there. *)
(***************************************************************************)
EXTENDS PreparedRequestInv, WellFoundedInduction, TLAPS

-----------------------------------------------------------------------------
(* Pruning the chain of deliveries *)

\* A nonempty set of naturals below a bound has a largest element.
LEMMA LargestExists ==
    ASSUME NEW n \in Nat, NEW S, S \subseteq 0..n, S # {}
    PROVE  Max(S) \in S /\ \A y \in S : Max(S) >= y
<1> DEFINE T == {n - x : x \in S}
<1>1. T \subseteq Nat /\ T # {}
  <2>1. \A x \in S : n - x \in Nat
    OBVIOUS
  <2> QED
    BY <2>1
<1> DEFINE R == OpToRel(<, Nat)
<1>2. PICK t \in T : \A y \in T : ~ (<<y, t>> \in R)
  <2> HIDE DEF T, R
  <2>1. IsWellFoundedOn(R, Nat)
    BY NatLessThanWellFounded DEF R
  <2> QED
    BY <1>1, <2>1, WFMin
<1>3. \A y \in T : ~ (y < t)
  BY <1>1, <1>2 DEF OpToRel
<1>4. \A y \in S : n - t >= y
  BY <1>1, <1>3
<1>5. n - t \in S
  BY <1>1
<1> QED
  BY <1>4, <1>5 DEF Max

\* pruneResponseDeliveriesLocked only pops: what is left is a prefix.
LEMMA PruneType ==
    ASSUME NEW D, NEW ch \in Seq(D), NEW fin
    PROVE  /\ PruneDone(ch, fin) \in Seq(D)
           /\ Len(PruneDone(ch, fin)) \in 0..Len(ch)
<1> DEFINE S == {0} \cup {i \in 1..Len(ch) : ch[i] \notin fin}
<1>1. S \subseteq 0..Len(ch) /\ S # {} /\ Len(ch) \in Nat
  OBVIOUS
<1>2. Max(S) \in 0..Len(ch)
  <2> HIDE DEF S
  <2> QED BY <1>1, LargestExists
<1>3. PruneDone(ch, fin) = SubSeq(ch, 1, Max(S))
  BY DEF PruneDone
<1> HIDE DEF S
<1> QED
  BY <1>2, <1>3

-----------------------------------------------------------------------------
(* Type correctness *)

USE DEF connVars, pendingVars, barrierVars, writerVars, attemptVars, callVars, claimVars,
        resultVars

\* The delivery barrier, whether a delivery is finished or discarded.
LEMMA BarrierTypes ==
    ASSUME TypeOK, NEW r \in Requests, Finish(r) \/ Discard(r)
    PROVE  slots' \in Int /\ chain' \in Seq(Gated) /\ delivered' \subseteq Gated
<1>1. CASE Finish(r)
  BY <1>1, PruneType DEF Finish, TypeOK
<1>2. CASE Discard(r)
  BY <1>2 DEF Discard, Discards, TypeOK
<1> QED
  BY <1>1, <1>2

\* What Dispatch and CancelRequest append to the write queue.
LEMMA ItemTypes ==
    ASSUME TypeOK, NEW r \in Requests
    PROVE  /\ Append(writeQueue, [kind |-> "request", req |-> r]) \in Seq(Items)
           /\ Append(writeQueue, [kind |-> "cancel", req |-> r]) \in Seq(Items)
<1>1. [kind |-> "request", req |-> r] \in Items /\ [kind |-> "cancel", req |-> r] \in Items
  BY DEF Items
<1> QED
  BY <1>1 DEF TypeOK

\* What the writer takes from it.
LEMMA HeadTypes ==
    ASSUME TypeOK, writeQueue # <<>>
    PROVE  /\ Head(writeQueue) \in Items /\ Tail(writeQueue) \in Seq(Items)
           /\ Head(writeQueue).req \in Requests
<1>1. Head(writeQueue) \in Items /\ Tail(writeQueue) \in Seq(Items)
  BY DEF TypeOK
<1> QED
  BY <1>1 DEF Items

LEMMA CompleteDispatchTypes ==
    ASSUME TypeOK, NEW r \in Requests, NEW err \in DispatchErrs, NEW p \in Phases,
           CompleteDispatch(r, err, p)
    PROVE  /\ phase' \in [Requests -> Phases]
           /\ dispatchErr' \in [Requests -> DispatchErrs]
           /\ dispatchPc' \in [Requests -> DispatchPcs]
  BY DEF TypeOK, CompleteDispatch, PhaseAfterDispatch, Phases, DispatchPcs

LEMMA ClaimTypes ==
    ASSUME TypeOK, NEW r \in Requests, Claim(r) \/ ClaimUnsubmitted(r)
    PROVE  claimed' \subseteq Requests /\ claimedReady' \subseteq Requests
  BY DEF TypeOK, Claim, ClaimUnsubmitted

LEMMA GotoTypes ==
    ASSUME TypeOK, NEW w \in Waiters, NEW pc \in WaitPcs, Goto(w, pc)
    PROVE  waitPc' \in [Waiters -> WaitPcs]
  BY DEF TypeOK, Goto

LEMMA ReturnTypes ==
    ASSUME TypeOK, NEW w \in Waiters, NEW v \in Results \cup {"empty"}, Return(w, v)
    PROVE  /\ waitPc' \in [Waiters -> WaitPcs]
           /\ verdicts' \in [Requests -> SUBSET (Results \cup {"empty"})]
<1>1. WaitsOn[w] \in Requests
  BY WaitersAssumption
<1>2. waitPc' \in [Waiters -> WaitPcs]
  BY GotoTypes DEF Return, WaitPcs
<1>3. verdicts[WaitsOn[w]] \cup {v} \in SUBSET (Results \cup {"empty"})
  BY <1>1 DEF TypeOK
<1>4. verdicts' = [verdicts EXCEPT ![WaitsOn[w]] = verdicts[WaitsOn[w]] \cup {v}]
  BY DEF Return
<1> QED
  BY <1>1, <1>2, <1>3, <1>4 DEF TypeOK

LEMMA SettleTypes ==
    ASSUME TypeOK, NEW w \in Waiters, NEW v \in Results, Settle(w, v)
    PROVE  /\ resolving' \subseteq Requests
           /\ resolved' \in [Requests -> Results]
           /\ waitPc' \in [Waiters -> WaitPcs]
<1>1. WaitsOn[w] \in Requests
  BY WaitersAssumption
<1>2. waitPc' \in [Waiters -> WaitPcs]
  BY GotoTypes DEF Settle, WaitPcs
<1> QED
  BY <1>1, <1>2 DEF TypeOK, Settle, SettledResult, Results

\* Steps of Dispatch.
LEMMA DispatchTypes ==
    ASSUME TypeOK, NEW r \in Requests, DispatchStep(r)
    PROVE  TypeOK'
<1>1. CASE DispatchEnqueue(r)
  BY ItemTypes, <1>1 DEF TypeOK, DispatchEnqueue, DispatchPcs, DispatchFrame
<1>2. CASE DispatchInterrupted(r)
  BY <1>2 DEF TypeOK, DispatchInterrupted, DispatchPcs, DispatchFrame
<1>3. CASE DispatchSeesAbandon(r)
  BY CompleteDispatchTypes, ClaimTypes, <1>3 DEF TypeOK, DispatchSeesAbandon,
      DispatchErrs, Phases, DispatchFrame
<1>4. CASE CompleteWrite(r)
  <2>1. CASE phase[r] = "abandoned"
    BY CompleteDispatchTypes, ClaimTypes, <1>4, <2>1 DEF TypeOK, CompleteWrite,
        DispatchErrs, Phases, DispatchPcs, DispatchFrame
  <2>2. CASE phase[r] # "abandoned"
    BY CompleteDispatchTypes, ClaimTypes, <1>4, <2>2 DEF TypeOK, CompleteWrite,
        DispatchErrs, Phases, DispatchPcs, DispatchFrame
  <2> QED
    BY <1>4, <2>1, <2>2 DEF CompleteWrite
<1>5. CASE DispatchFinish(r)
  BY CompleteDispatchTypes, ClaimTypes, <1>5 DEF TypeOK, DispatchFinish, DispatchErrs,
      Phases, DispatchFrame
<1>6. CASE FailDispatch(r)
  <2>1. CASE phase[r] = "abandoned"
    BY CompleteDispatchTypes, ClaimTypes, <1>6, <2>1 DEF TypeOK, FailDispatch,
        DispatchErrs, Phases, DispatchPcs, DispatchFrame
  <2>2. CASE phase[r] # "abandoned"
    BY CompleteDispatchTypes, ClaimTypes, <1>6, <2>2 DEF TypeOK, FailDispatch,
        DispatchErrs, Phases, DispatchPcs, DispatchFrame
  <2> QED
    BY <1>6, <2>1, <2>2 DEF FailDispatch
<1>7. CASE DispatchReleased(r)
  BY CompleteDispatchTypes, ClaimTypes, <1>7 DEF TypeOK, DispatchReleased, DispatchErrs,
      Phases, DispatchFrame
<1> QED
  BY <1>1, <1>2, <1>3, <1>4, <1>5, <1>6, <1>7 DEF DispatchStep

\* The other steps made on behalf of a request.
LEMMA RequestTypes ==
    ASSUME TypeOK, NEW r \in Requests, RequestStep(r)
    PROVE  TypeOK'
<1>1. CASE Prepare(r)
  <2>1. CASE r \in Gated
    BY PruneType, GatedAssumption, <1>1, <2>1 DEF TypeOK, Prepare, Phases
  <2>2. CASE r \notin Gated
    BY PruneType, GatedAssumption, <1>1, <2>2 DEF TypeOK, Prepare, Phases
  <2> QED
    BY <1>1, <2>1, <2>2 DEF Prepare
<1>2. CASE ObserveResponse(r)
  BY <1>2 DEF TypeOK, ObserveResponse
<1>3. CASE DispatchStart(r)
  BY <1>3 DEF TypeOK, DispatchStart, Phases, DispatchPcs, DispatchFrame
<1>4. CASE DispatchRefused(r)
  BY ClaimTypes, <1>4 DEF TypeOK, DispatchRefused, DispatchFrame
<1>5. CASE Interrupt(r)
  BY <1>5 DEF TypeOK, Interrupt
<1>6. CASE CancelRequest(r)
  <2>1. writeQueue' \in Seq(Items)
    <3>1. /\ writeQueue \in Seq(Items)
          /\ Append(writeQueue, [kind |-> "cancel", req |-> r]) \in Seq(Items)
      BY ItemTypes DEF TypeOK
    <3> QED
      BY <1>6, <3>1 DEF CancelRequest, CancelTest, CancelSend
  <2>2. cancelPc' \in [Requests -> CancelPcs]
    BY <1>6 DEF TypeOK, CancelRequest, CancelTest, CancelSend, CancelPcs
  <2>3. CancelFrame
    BY <1>6 DEF CancelRequest, CancelTest, CancelSend
  <2> QED
    BY <2>1, <2>2, <2>3 DEF TypeOK, CancelFrame, connVars, pendingVars, barrierVars,
       attemptVars, claimVars, resultVars
<1>7. CASE Abandon(r)
  <2>1. CASE resolved[r] # "no" \/ phase[r] = "finished"
    BY ClaimTypes, <1>7, <2>1 DEF TypeOK, Abandon, Phases, AbandonPcs, AbandonFrame
  <2>2. CASE resolved[r] = "no" /\ phase[r] # "finished"
    BY ClaimTypes, <1>7, <2>2 DEF TypeOK, Abandon, Phases, AbandonPcs, AbandonFrame
  <2> QED
    BY <1>7, <2>1, <2>2 DEF Abandon
<1>8. CASE AbandonDetaches(r)
  BY <1>8 DEF TypeOK, AbandonDetaches, AbandonPcs, AbandonFrame
<1>9. CASE AbandonReleased(r)
  BY <1>9 DEF TypeOK, AbandonReleased, AbandonPcs, AbandonFrame
<1>10. CASE ReleaseStart(r)
  <2>1. CASE r \in responded
    BY BarrierTypes, <1>10, <2>1 DEF TypeOK, ReleaseStart, DoneStates, ReleaseStates
  <2>2. CASE r \notin responded
    <3>1. slots' \in Int /\ chain' \in Seq(Gated) /\ delivered' \subseteq Gated
      BY BarrierTypes, <1>10, <2>2 DEF ReleaseStart
    <3>2. /\ pending' \subseteq Requests
          /\ release' \in [Requests -> ReleaseStates]
          /\ done' \in [Requests -> DoneStates]
      BY <1>10, <2>2 DEF TypeOK, ReleaseStart, DoneStates, ReleaseStates
    <3>3. UNCHANGED <<connVars, responded, reading, writerVars, phase, submitted, observer,
                      dispatchErr, abandoned, attemptVars, callVars, claimVars, resultVars>>
      BY <1>10 DEF ReleaseStart
    <3> QED
      BY <3>1, <3>2, <3>3 DEF TypeOK, connVars, writerVars, attemptVars, callVars, claimVars,
         resultVars
  <2> QED
    BY <1>10, <2>1, <2>2 DEF ReleaseStart
<1>11. CASE ReleaseFinish(r)
  BY BarrierTypes, <1>11 DEF TypeOK, ReleaseFinish, ReleaseStates
<1> QED
  BY DispatchTypes, <1>1, <1>2, <1>3, <1>4, <1>5, <1>6, <1>7, <1>8, <1>9, <1>10, <1>11
      DEF RequestStep, ReleaseStep, AbandonStep

\* Steps of Wait.
LEMMA WaitTypes ==
    ASSUME TypeOK, NEW w \in Waiters, CallerStep(w)
    PROVE  TypeOK'
<1>0. WaitsOn[w] \in Requests
  BY WaitersAssumption
<1>1. CASE WaitReads(w)
  <2>1. waits' \in [Waiters -> Nat]
    <3>1. \/ waits' = [waits EXCEPT ![w] = @ + 1]
          \/ waits' = waits
      BY <1>1 DEF WaitReads
    <3>2. waits \in [Waiters -> Nat]
      BY DEF TypeOK
    <3> QED
      BY <3>1, <3>2
  <2>2. CASE phase[WaitsOn[w]] \in {"ready", "dispatching"} /\ Goto(w, phase[WaitsOn[w]])
    <3>1. waitPc' \in [Waiters -> WaitPcs]
      BY GotoTypes, <2>2 DEF WaitPcs
    <3> QED
      BY <1>1, <2>1, <2>2, <3>1 DEF TypeOK, WaitReads
  <2>3. CASE phase[WaitsOn[w]] = "dispatchFailed"
    <3>1. /\ waitPc' \in [Waiters -> WaitPcs]
          /\ verdicts' \in [Requests -> SUBSET (Results \cup {"empty"})]
      <4>1. \E v \in Results \cup {"empty"} : Return(w, v)
        BY <1>1, <2>3 DEF WaitReads, Results
      <4> QED
        BY ReturnTypes, <4>1
    <3> QED
      BY <1>1, <2>1, <2>3, <3>1 DEF TypeOK, WaitReads
  <2>4. CASE phase[WaitsOn[w]] = "abandoned"
    <3>1. /\ waitPc' \in [Waiters -> WaitPcs]
          /\ verdicts' \in [Requests -> SUBSET (Results \cup {"empty"})]
      <4>1. Return(w, "abandoned")
        BY <1>1, <2>4 DEF WaitReads
      <4> QED
        BY ReturnTypes, <4>1 DEF Results
    <3>2. claimed' \subseteq Requests /\ claimedReady' \subseteq Requests
      BY ClaimTypes, <1>0, <1>1, <2>4 DEF WaitReads
    <3> QED
      BY <1>1, <2>1, <2>4, <3>1, <3>2 DEF TypeOK, WaitReads
  <2>5. CASE phase[WaitsOn[w]] \in {"dispatched", "finished"}
    <3>1. waitPc' \in [Waiters -> WaitPcs]
      <4>1. Goto(w, "response")
        BY <1>1, <2>5 DEF WaitReads
      <4> QED
        BY GotoTypes, <4>1 DEF WaitPcs
    <3> QED
      BY <1>1, <2>1, <2>5, <3>1 DEF TypeOK, WaitReads
  <2> QED
    BY <1>1, <2>2, <2>3, <2>4, <2>5 DEF WaitReads
<1>2. CASE WaitReady(w)
  <2>1. CASE done[WaitsOn[w]] = "error"
    BY <1>0, GotoTypes, ReturnTypes, ClaimTypes, <1>2, <2>1 DEF TypeOK, WaitReady,
        ReturnUnsettled, WaitPcs, Phases, Results, WaitFrame
  <2>2. CASE done[WaitsOn[w]] # "error"
    BY <1>0, GotoTypes, ReturnTypes, ClaimTypes, <1>2, <2>2 DEF TypeOK, WaitReady,
        ReturnUnsettled, WaitPcs, Phases, Results, WaitFrame
  <2> QED
    BY <1>2, <2>1, <2>2 DEF WaitReady
<1>3. CASE WaitCancelled(w)
  BY <1>0, GotoTypes, ReturnTypes, ClaimTypes, <1>3 DEF TypeOK, WaitCancelled,
      ReturnUnsettled, WaitPcs, WaitFrame
<1>4. CASE WaitStays(w)
  BY <1>0, GotoTypes, <1>4 DEF TypeOK, WaitStays, WaitPcs, WaitFrame
<1>5. CASE WaitDone(w)
  <2>1. CASE done[WaitsOn[w]] = "error"
    BY <1>0, GotoTypes, ReturnTypes, ClaimTypes, <1>5, <2>1 DEF TypeOK, WaitDone,
        WaitPcs, Phases, Results, WaitFrame
  <2>2. CASE done[WaitsOn[w]] = "response"
    BY <1>0, GotoTypes, ReturnTypes, ClaimTypes, <1>5, <2>2 DEF TypeOK, WaitDone,
        WaitPcs, Phases, Results, WaitFrame
  <2> QED
    BY <1>5, <2>1, <2>2 DEF WaitDone
<1>6. CASE WaitResolves(w)
  <2>1. CASE MayResolve(WaitsOn[w]) /\ Goto(w, "complete")
    BY <1>0, GotoTypes, ReturnTypes, ClaimTypes, <1>6, <2>1 DEF TypeOK, WaitResolves,
        WaitPcs, Results, WaitFrame
  <2>2. CASE resolved[WaitsOn[w]] # "no"
    BY <1>0, GotoTypes, ReturnTypes, ClaimTypes, <1>6, <2>2 DEF TypeOK, WaitResolves,
        WaitPcs, Results, WaitFrame
  <2>3. CASE phase[WaitsOn[w]] = "abandoned" /\ resolved[WaitsOn[w]] = "no"
    BY <1>0, GotoTypes, ReturnTypes, ClaimTypes, <1>6, <2>3 DEF TypeOK, WaitResolves,
        WaitPcs, Results, WaitFrame
  <2> QED
    BY <1>6, <2>1, <2>2, <2>3 DEF WaitResolves
<1>7. CASE WaitNotified(w)
  <2>1. waitPc' \in [Waiters -> WaitPcs]
    BY GotoTypes, <1>7 DEF WaitNotified, WaitPcs
  <2>2. observed' \in [Requests -> Nat]
    <3>1. \/ observed' = [observed EXCEPT ![WaitsOn[w]] = @ + 1]
          \/ observed' = observed
      BY <1>7 DEF WaitNotified
    <3>2. observed \in [Requests -> Nat]
      BY DEF TypeOK
    <3> QED
      BY <3>1, <3>2
  <2>3. UNCHANGED <<phase, attemptVars, claimVars, verdicts>> /\ WaitFrame
    BY <1>7 DEF WaitNotified
  <2> QED
    BY <2>1, <2>2, <2>3 DEF TypeOK, WaitFrame
<1>8. CASE WaitGivesUp(w)
  <2>1. CASE phase[WaitsOn[w]] = "abandoned"
    BY <1>0, GotoTypes, SettleTypes, <1>8, <2>1 DEF TypeOK, WaitGivesUp, WaitPcs,
        Results, WaitFrame
  <2>2. CASE phase[WaitsOn[w]] # "abandoned"
    BY <1>0, GotoTypes, SettleTypes, <1>8, <2>2 DEF TypeOK, WaitGivesUp, WaitPcs,
        Results, WaitFrame
  <2> QED
    BY <1>8, <2>1, <2>2 DEF WaitGivesUp
<1>9. CASE WaitLosesConnection(w)
  BY <1>0, SettleTypes, <1>9 DEF TypeOK, WaitLosesConnection, Phases, Results, WaitFrame
<1>10. CASE WaitSettles(w, "ok")
  BY <1>0, SettleTypes, <1>10 DEF TypeOK, WaitSettles, Phases, Results, WaitFrame
<1>11. CASE WaitSettles(w, "error")
  BY <1>0, SettleTypes, <1>11 DEF TypeOK, WaitSettles, Phases, Results, WaitFrame
<1>12. CASE WaitReleased(w)
  BY <1>0, GotoTypes, ReturnTypes, ClaimTypes, <1>12 DEF TypeOK, WaitReleased, Results,
      WaitFrame
<1> QED
  BY <1>1, <1>2, <1>3, <1>4, <1>5, <1>6, <1>7, <1>8, <1>9, <1>10, <1>11, <1>12 DEF
      CallerStep, WaitStep

\* Steps of the writer goroutine.
LEMMA WriterTypes ==
    ASSUME TypeOK, WriterStep
    PROVE  TypeOK'
<1>1. CASE WriterTop
  BY <1>1 DEF TypeOK, WriterTop, WriterPcs, WriterFrame
<1>2. CASE WriterStops
  BY <1>2 DEF TypeOK, WriterStops, WriterPcs, WriterFrame
<1>3. CASE WriterTakesRequest
  BY HeadTypes, <1>3 DEF TypeOK, WriterTakesRequest, WriterPcs, WriteResults,
      WriterFrame
<1>4. CASE WriterTakesCancel
  BY HeadTypes, <1>4 DEF TypeOK, WriterTakesCancel, WriterPcs, WriterFrame
<1>5. CASE WriterInvokes
  <2>1. writing \in Items /\ writing.req \in Requests
    BY <1>5 DEF TypeOK, WriterInvokes, Items
  <2> QED
    BY <1>5, <2>1 DEF TypeOK, WriterInvokes, WriterPcs
<1>6. CASE WriterShutsDown
  BY <1>6 DEF TypeOK, WriterShutsDown, WriterPcs, WriterFrame
<1>7. CASE \E ok \in BOOLEAN : WriterReturns(ok)
  BY <1>7 DEF TypeOK, WriterReturns, WriterPcs, WriteResults, Items, NoItem, WriterFrame
<1> QED
  BY <1>1, <1>2, <1>3, <1>4, <1>5, <1>6, <1>7 DEF WriterStep

\* Steps of the receiver and of shutdown.
LEMMA ConnectionTypes ==
    ASSUME TypeOK, BeginShutdown \/ ShutdownStep \/ \E r \in Requests : ReaderStep(r)
    PROVE  TypeOK'
<1>1. CASE BeginShutdown
  BY <1>1 DEF TypeOK, BeginShutdown, Drained, ShutdownStates, ConnFrame
<1>2. CASE EndShutdown
  BY <1>2 DEF TypeOK, EndShutdown, ShutdownStates, ConnFrame
<1>3. CASE \E r \in Requests : DrainOne(r)
  BY BarrierTypes, <1>3 DEF TypeOK, DrainOne, DoneStates, ConnFrame
<1>4. CASE \E r \in Requests : ResponseArrives(r)
  BY <1>4 DEF TypeOK, ResponseArrives, ConnFrame
<1>5. CASE \E r \in Requests : ResponseCompletes(r)
  <2>1. PICK r \in Requests : ResponseCompletes(r)
    BY <1>5
  <2>2. CASE r \in Gated
    <3>1. /\ PruneDone(chain, delivered) \in Seq(Gated)
          /\ Len(PruneDone(chain, delivered)) \in Nat /\ Len(chain) \in Nat
      BY PruneType DEF TypeOK
    <3>2. /\ chain' = Append(PruneDone(chain, delivered), r)
          /\ slots' = slots - (Len(chain) - Len(PruneDone(chain, delivered)))
      BY <2>1, <2>2 DEF ResponseCompletes
    <3>3. slots \in Int
      BY DEF TypeOK
    <3>4. chain' \in Seq(Gated)
      BY <2>2, <3>1, <3>2
    <3>5. slots' \in Int
      BY <3>1, <3>2, <3>3
    <3> QED
      BY <2>1, <3>4, <3>5 DEF TypeOK, ResponseCompletes, DoneStates, ConnFrame
  <2>3. CASE r \notin Gated
    BY <2>1, <2>3 DEF TypeOK, ResponseCompletes, DoneStates, ConnFrame
  <2> QED
    BY <2>2, <2>3
<1> QED
  BY <1>1, <1>2, <1>3, <1>4, <1>5 DEF ShutdownStep, ReaderStep

\* No step leaves the types declared in TypeOK.
THEOREM TypeCorrect == Spec => []TypeOK
<1>1. Init => TypeOK
  BY DEF Init, TypeOK, ShutdownStates, DoneStates, WriterPcs, WriteResults, Phases,
      DispatchErrs, ReleaseStates, DispatchPcs, WaitPcs, AbandonPcs, CancelPcs, Results
<1>2. TypeOK /\ [Next]_vars => TypeOK'
  <2>1. TypeOK /\ UNCHANGED vars => TypeOK'
    BY DEF TypeOK, vars
  <2> QED
    BY <2>1, RequestTypes, WaitTypes, WriterTypes, ConnectionTypes DEF Next
<1> QED
  BY <1>1, <1>2, PTL DEF Spec

-----------------------------------------------------------------------------
(* The inductive invariant, part by part *)

\* The write the writer goroutine takes was queued, and the rest of the queue moves up.
LEMMA TakenWrite ==
    ASSUME TypeOK, QueueInv, WriterTakesRequest
    PROVE  \E r \in Requests :
              /\ Head(writeQueue) = Write(r) /\ Head(writeQueue).req = r /\ Queued(r)
              /\ \A s \in Requests : Queued(s)' => Queued(s) /\ s # r
              /\ \A i \in 1..Len(writeQueue') :
                    i + 1 \in 1..Len(writeQueue) /\ writeQueue'[i] = writeQueue[i + 1]
<1>1. writeQueue \in Seq(Items) /\ writeQueue # <<>>
  BY DEF TypeOK, WriterTakesRequest
<1>2. /\ Head(writeQueue) = writeQueue[1] /\ 1 \in 1..Len(writeQueue)
      /\ writeQueue' = Tail(writeQueue) /\ Head(writeQueue) \in Items
  BY <1>1 DEF WriterTakesRequest
<1>3. PICK r \in Requests : Head(writeQueue) = Write(r) /\ Head(writeQueue).req = r
  BY <1>2 DEF Items, Write, WriterTakesRequest
<1>4. \A i \in 1..Len(writeQueue') :
         i + 1 \in 1..Len(writeQueue) /\ writeQueue'[i] = writeQueue[i + 1]
  BY <1>1, <1>2
<1>5. Queued(r)
  BY <1>2, <1>3 DEF Queued
<1>6. ASSUME NEW s \in Requests, Queued(s)'
      PROVE  Queued(s) /\ s # r
  <2>1. PICK i \in 1..Len(writeQueue') : writeQueue'[i] = Write(s)
    BY <1>6 DEF Queued, Write
  <2>2. i + 1 \in 1..Len(writeQueue) /\ writeQueue[i + 1] = Write(s)
    BY <1>4, <2>1
  <2>3. s # r
    <3>1. i + 1 # 1 /\ Write(r).kind = "request"
      BY DEF Write
    <3> QED
      BY <1>2, <1>3, <2>2, <3>1 DEF QueueInv
  <2> QED
    BY <2>2, <2>3 DEF Queued
<1> QED
  BY <1>3, <1>4, <1>5, <1>6

\* QueueInv is kept: a write is queued once and reported on once.
LEMMA QueuePreserved ==
    ASSUME TypeOK, IInv, [Next]_vars
    PROVE  QueueInv'
<1>1. QueueInv /\ DispatchInv
  BY DEF IInv
<1>2. /\ writeDone \in [Requests -> WriteResults]
      /\ dispatchPc \in [Requests -> DispatchPcs]
      /\ writeQueue \in Seq(Items)
      /\ writing \in Items \cup {NoItem}
      /\ writer \in {"begun", "writing"} => writing \in Items
  BY DEF TypeOK
<1>3. UNCHANGED <<writeQueue, writing, writeDone, submitted, dispatchPc>> => QueueInv'
  BY <1>1 DEF QueueInv, Queued, Write
<1>4. ASSUME NEW r \in Requests, RequestStep(r) PROVE  QueueInv'
  <2>1. CASE DispatchStart(r)
    BY <1>1, <1>2, <2>1 DEF QueueInv, Queued, Write, DispatchStart, DispatchFrame,
        DispatchInv
  <2>2. CASE DispatchEnqueue(r)
    BY <1>1, <1>2, <2>2 DEF QueueInv, Queued, Write, DispatchEnqueue, DispatchFrame
  <2>3. CASE DispatchInterrupted(r)
    BY <1>1, <1>2, <2>3 DEF QueueInv, Queued, Write, DispatchInterrupted, DispatchFrame
  <2>4. CASE DispatchSeesAbandon(r)
    BY <1>1, <1>2, <2>4 DEF QueueInv, Queued, Write, DispatchSeesAbandon,
        CompleteDispatch, PhaseAfterDispatch, DispatchFrame
  <2>5. CASE CompleteWrite(r)
    BY <1>1, <1>2, <2>5 DEF QueueInv, Queued, Write, CompleteWrite, CompleteDispatch,
        PhaseAfterDispatch, DispatchFrame
  <2>6. CASE DispatchFinish(r)
    BY <1>1, <1>2, <2>6 DEF QueueInv, Queued, Write, DispatchFinish, CompleteDispatch,
        PhaseAfterDispatch, DispatchFrame
  <2>7. CASE FailDispatch(r)
    BY <1>1, <1>2, <2>7 DEF QueueInv, Queued, Write, FailDispatch, CompleteDispatch,
        PhaseAfterDispatch, DispatchFrame
  <2>8. CASE DispatchReleased(r)
    BY <1>1, <1>2, <2>8 DEF QueueInv, Queued, Write, DispatchReleased,
        CompleteDispatch, PhaseAfterDispatch, DispatchFrame
  <2>9. CASE CancelRequest(r)
    <3>1. CASE CancelTest(r)
      BY <1>3, <3>1 DEF CancelTest, CancelFrame
    <3>2. CASE CancelSend(r)
      <4> DEFINE item == [kind |-> "cancel", req |-> r]
      <4>1. UNCHANGED <<writing, writeDone, submitted, dispatchPc>>
        BY <3>2 DEF CancelSend, CancelFrame
      <4>2. CASE writeQueue' = writeQueue
        BY <1>3, <4>1, <4>2
      <4>3. CASE writeQueue' = Append(writeQueue, item)
        <5>1. item.kind = "cancel" /\ \A x \in Requests : item # Write(x)
          BY DEF Write
        <5> HIDE DEF item
        <5>2. /\ Len(writeQueue') = Len(writeQueue) + 1
              /\ writeQueue'[Len(writeQueue')] = item
              /\ \A i \in 1..Len(writeQueue) : writeQueue'[i] = writeQueue[i]
          BY <1>2, <4>3
        <5>3. \A x \in Requests : Queued(x)' => Queued(x)
          BY <1>2, <5>1, <5>2 DEF Queued, Write
        <5>4. \A i, j \in 1..Len(writeQueue') :
                 writeQueue'[i] = writeQueue'[j] /\ writeQueue'[i].kind = "request" => i = j
          BY <1>1, <1>2, <5>1, <5>2 DEF QueueInv
        <5> QED
          BY <1>1, <4>1, <5>3, <5>4 DEF QueueInv, Write
      <4> QED
        BY <3>2, <4>2, <4>3 DEF CancelSend
    <3> QED
      BY <2>9, <3>1, <3>2 DEF CancelRequest
  <2>10. CASE Prepare(r) \/ ObserveResponse(r) \/ DispatchRefused(r) \/ Interrupt(r) \/
      Abandon(r) \/ AbandonDetaches(r) \/ AbandonReleased(r) \/ ReleaseStart(r) \/
      ReleaseFinish(r)
    BY <1>3, <2>10 DEF Prepare, ObserveResponse, DispatchRefused, Interrupt, Abandon,
        AbandonDetaches, AbandonReleased, ReleaseStart, ReleaseFinish, DispatchFrame,
        AbandonFrame
  <2> QED
    BY <1>4, <2>1, <2>2, <2>3, <2>4, <2>5, <2>6, <2>7, <2>8, <2>9, <2>10 DEF
        RequestStep, DispatchStep, ReleaseStep, AbandonStep
<1>5. ASSUME NEW w \in Waiters, CallerStep(w) PROVE  QueueInv'
  <2>0. WaitsOn[w] \in Requests
    BY WaitersAssumption
  <2>1. CASE WaitReads(w) \/ WaitReady(w) \/ WaitCancelled(w) \/ WaitStays(w) \/
      WaitDone(w) \/ WaitResolves(w) \/ WaitNotified(w) \/ WaitGivesUp(w) \/
      WaitLosesConnection(w) \/ WaitSettles(w, "ok") \/ WaitSettles(w, "error") \/
      WaitReleased(w)
    BY <1>3, <2>1 DEF WaitReads, WaitReady, WaitCancelled, WaitStays, WaitDone,
        WaitResolves, WaitNotified, WaitGivesUp, WaitLosesConnection, WaitSettles,
        WaitReleased, ReturnUnsettled, Settle, WaitFrame
  <2> QED
    BY <1>5, <2>1 DEF CallerStep, WaitStep
<1>6. ASSUME WriterStep PROVE  QueueInv'
  <2>1. CASE WriterTakesRequest
    <3>1. PICK r \in Requests :
             /\ Head(writeQueue) = Write(r) /\ Head(writeQueue).req = r /\ Queued(r)
             /\ \A s \in Requests : Queued(s)' => Queued(s) /\ s # r
             /\ \A i \in 1..Len(writeQueue') :
                   i + 1 \in 1..Len(writeQueue) /\ writeQueue'[i] = writeQueue[i + 1]
      BY <1>1, <2>1, TakenWrite
    <3>2. /\ writing' = writing \/ (writing' = Write(r) /\ r \in submitted')
          /\ submitted \subseteq submitted'
          /\ writeDone' = writeDone \/ writeDone' = [writeDone EXCEPT ![r] = "fail"]
          /\ UNCHANGED dispatchPc
      BY <2>1, <3>1 DEF WriterTakesRequest, WriterFrame
    <3>3. \A i, j \in 1..Len(writeQueue') :
             writeQueue'[i] = writeQueue'[j] /\ writeQueue'[i].kind = "request" => i = j
      <4>1. Len(writeQueue') \in Nat
        BY <1>2, <2>1 DEF WriterTakesRequest
      <4> QED
        BY <1>1, <3>1, <4>1 DEF QueueInv
    <3>4. \A s \in Requests : s # r => Write(s) # Write(r)
      BY DEF Write
    <3> QED
      BY <1>1, <1>2, <3>1, <3>2, <3>3, <3>4 DEF QueueInv, Write
  <2>2. CASE WriterTakesCancel
    <3>1. /\ writeQueue # <<>> /\ writeQueue' = Tail(writeQueue)
          /\ Head(writeQueue).kind = "cancel"
          /\ writing' = Head(writeQueue) \/ writing' = writing
          /\ UNCHANGED <<writeDone, submitted, dispatchPc>>
      BY <2>2 DEF WriterTakesCancel, WriterFrame
    <3>2. /\ Len(writeQueue') \in Nat
          /\ \A i \in 1..Len(writeQueue') :
                i + 1 \in 1..Len(writeQueue) /\ writeQueue'[i] = writeQueue[i + 1]
      BY <1>2, <3>1
    <3>3. \A r \in Requests : Head(writeQueue) # Write(r) /\ (Queued(r)' => Queued(r))
      BY <3>1, <3>2 DEF Queued, Write
    <3>4. \A i, j \in 1..Len(writeQueue') :
             writeQueue'[i] = writeQueue'[j] /\ writeQueue'[i].kind = "request" => i = j
      BY <1>1, <3>2 DEF QueueInv
    <3> QED
      BY <1>1, <3>1, <3>3, <3>4 DEF QueueInv, Write
  <2>3. ASSUME NEW ok \in BOOLEAN, WriterReturns(ok) PROVE  QueueInv'
    <3>1. UNCHANGED <<writeQueue, submitted, dispatchPc>> /\ writing' = NoItem
      BY <2>3 DEF WriterReturns, WriterFrame
    <3>2. \A s \in Requests : (Queued(s)' <=> Queued(s)) /\ NoItem # Write(s)
      BY <3>1 DEF Queued, Write, NoItem
    <3>3. \A s \in Requests : writeDone'[s] # writeDone[s] => writing = Write(s)
      BY <1>2, <2>3 DEF WriterReturns, Items, Write
    <3> QED
      BY <1>1, <3>1, <3>2, <3>3 DEF QueueInv, Write
  <2>4. CASE WriterTop \/ WriterStops \/ WriterInvokes \/ WriterShutsDown
    BY <1>3, <2>4 DEF WriterTop, WriterStops, WriterInvokes, WriterShutsDown,
        WriterFrame
  <2> QED
    BY <1>6, <2>1, <2>2, <2>3, <2>4 DEF WriterStep
<1>7. ASSUME BeginShutdown \/ ShutdownStep \/ \E r \in Requests : ReaderStep(r)
       PROVE  QueueInv'
  <2>1. CASE BeginShutdown \/ EndShutdown \/ (\E r \in Requests : DrainOne(r)) \/ (\E r
      \in Requests : ResponseArrives(r)) \/ (\E r \in Requests : ResponseCompletes(r))
    BY <1>3, <2>1 DEF BeginShutdown, EndShutdown, DrainOne, ResponseArrives,
        ResponseCompletes, ConnFrame
  <2> QED
    BY <1>7, <2>1 DEF ShutdownStep, ReaderStep
<1>8. CASE UNCHANGED vars
  BY <1>3, <1>8 DEF vars
<1> QED
  BY <1>4, <1>5, <1>6, <1>7, <1>8 DEF Next

\* DispatchInv is kept: Dispatch and the phase move together.
LEMMA DispatchPreserved ==
    ASSUME TypeOK, IInv, [Next]_vars
    PROVE  DispatchInv'
<1>1. DispatchInv /\ WaitInv
  BY DEF IInv
<1>2. /\ phase \in [Requests -> Phases]
      /\ dispatchPc \in [Requests -> DispatchPcs]
      /\ dispatchErr \in [Requests -> DispatchErrs]
  BY DEF TypeOK
<1>3. UNCHANGED <<phase, dispatchPc, dispatchErr>> => DispatchInv'
  BY <1>1 DEF DispatchInv
<1>4. ASSUME NEW r \in Requests, RequestStep(r) PROVE  DispatchInv'
  <2>1. CASE Prepare(r)
    BY <1>1, <1>2, <2>1 DEF DispatchInv, Prepare
  <2>2. CASE DispatchStart(r)
    BY <1>1, <1>2, <2>2 DEF DispatchInv, DispatchStart, DispatchFrame
  <2>3. CASE DispatchEnqueue(r)
    BY <1>1, <1>2, <2>3 DEF DispatchInv, DispatchEnqueue, DispatchFrame
  <2>4. CASE DispatchInterrupted(r)
    BY <1>1, <1>2, <2>4 DEF DispatchInv, DispatchInterrupted, DispatchFrame
  <2>5. CASE DispatchSeesAbandon(r)
    BY <1>1, <1>2, <2>5 DEF DispatchInv, DispatchSeesAbandon, CompleteDispatch,
        PhaseAfterDispatch, DispatchFrame
  <2>6. CASE CompleteWrite(r)
    BY <1>1, <1>2, <2>6 DEF DispatchInv, CompleteWrite, CompleteDispatch,
        PhaseAfterDispatch, DispatchFrame
  <2>7. CASE DispatchFinish(r)
    BY <1>1, <1>2, <2>7 DEF DispatchInv, DispatchFinish, CompleteDispatch,
        PhaseAfterDispatch, DispatchFrame
  <2>8. CASE FailDispatch(r)
    BY <1>1, <1>2, <2>8 DEF DispatchInv, FailDispatch, CompleteDispatch,
        PhaseAfterDispatch, DispatchFrame
  <2>9. CASE DispatchReleased(r)
    BY <1>1, <1>2, <2>9 DEF DispatchInv, DispatchReleased, CompleteDispatch,
        PhaseAfterDispatch, DispatchFrame
  <2>10. CASE Abandon(r)
    BY <1>1, <1>2, <2>10 DEF DispatchInv, Abandon, AbandonFrame
  <2>11. CASE ObserveResponse(r) \/ DispatchRefused(r) \/ Interrupt(r) \/
      CancelRequest(r) \/ AbandonDetaches(r) \/ AbandonReleased(r) \/ ReleaseStart(r)
      \/ ReleaseFinish(r)
    BY <1>3, <2>11 DEF ObserveResponse, DispatchRefused, Interrupt, CancelRequest,
       CancelTest, CancelSend, CancelFrame, AbandonDetaches, AbandonReleased, ReleaseStart,
       ReleaseFinish, DispatchFrame, AbandonFrame
  <2> QED
    BY <1>4, <2>1, <2>2, <2>3, <2>4, <2>5, <2>6, <2>7, <2>8, <2>9, <2>10, <2>11 DEF
        RequestStep, DispatchStep, ReleaseStep, AbandonStep
<1>5. ASSUME NEW w \in Waiters, CallerStep(w) PROVE  DispatchInv'
  <2>0. WaitsOn[w] \in Requests
    BY WaitersAssumption
  <2>1. CASE WaitReady(w)
    BY <1>1, <1>2, <2>0, <2>1 DEF DispatchInv, WaitReady, Goto, Return,
        ReturnUnsettled, WaitFrame
  <2>2. CASE WaitDone(w)
    BY <1>1, <1>2, <2>0, <2>2 DEF DispatchInv, WaitDone, Goto, Return, WaitFrame,
        WaitInv, Awaiting
  <2>3. CASE WaitLosesConnection(w)
    BY <1>1, <1>2, <2>0, <2>3 DEF DispatchInv, WaitLosesConnection, Goto, Settle,
        SettledResult, WaitFrame, WaitInv, Awaiting
  <2>4. ASSUME NEW v \in {"ok", "error"}, WaitSettles(w, v) PROVE  DispatchInv'
    BY <1>1, <1>2, <2>0, <2>4 DEF DispatchInv, WaitSettles, Goto, Settle,
        SettledResult, WaitFrame, WaitInv, Awaiting
  <2>5. CASE WaitReads(w) \/ WaitCancelled(w) \/ WaitStays(w) \/ WaitResolves(w) \/
      WaitNotified(w) \/ WaitGivesUp(w) \/ WaitReleased(w)
    BY <1>3, <2>5 DEF WaitReads, WaitCancelled, WaitStays, WaitResolves, WaitNotified,
        WaitGivesUp, WaitReleased, ReturnUnsettled, Settle, WaitFrame
  <2> QED
    BY <1>5, <2>1, <2>2, <2>3, <2>4, <2>5 DEF CallerStep, WaitStep
<1>6. ASSUME WriterStep PROVE  DispatchInv'
  <2>1. CASE WriterTop \/ WriterStops \/ WriterTakesRequest \/ WriterTakesCancel \/
      WriterInvokes \/ WriterShutsDown \/ (\E ok \in BOOLEAN : WriterReturns(ok))
    BY <1>3, <2>1 DEF WriterTop, WriterStops, WriterTakesRequest, WriterTakesCancel,
        WriterInvokes, WriterShutsDown, WriterReturns, WriterFrame
  <2> QED
    BY <1>6, <2>1 DEF WriterStep
<1>7. ASSUME BeginShutdown \/ ShutdownStep \/ \E r \in Requests : ReaderStep(r)
       PROVE  DispatchInv'
  <2>1. CASE BeginShutdown \/ EndShutdown \/ (\E r \in Requests : DrainOne(r)) \/ (\E r
      \in Requests : ResponseArrives(r)) \/ (\E r \in Requests : ResponseCompletes(r))
    BY <1>3, <2>1 DEF BeginShutdown, EndShutdown, DrainOne, ResponseArrives,
        ResponseCompletes, ConnFrame
  <2> QED
    BY <1>7, <2>1 DEF ShutdownStep, ReaderStep
<1>8. CASE UNCHANGED vars
  BY <1>3, <1>8 DEF vars
<1> QED
  BY <1>4, <1>5, <1>6, <1>7, <1>8 DEF Next

\* WaitInv is kept: no step invalidates what a Wait has read.
LEMMA WaitPreserved ==
    ASSUME TypeOK, IInv, [Next]_vars
    PROVE  WaitInv'
<1>1. WaitInv /\ DispatchInv /\ EntryInv /\ ResolveInv
  BY DEF IInv
<1>2. /\ phase \in [Requests -> Phases]
      /\ dispatchPc \in [Requests -> DispatchPcs]
      /\ dispatchErr \in [Requests -> DispatchErrs]
      /\ waitPc \in [Waiters -> WaitPcs]
      /\ resolved \in [Requests -> Results]
      /\ done \in [Requests -> DoneStates]
      /\ WaitsOn \in [Waiters -> Requests]
  BY WaitersAssumption DEF TypeOK
<1>3. UNCHANGED <<phase, waitPc, dispatchPc, dispatchErr, done, resolved>> => WaitInv'
  BY <1>1 DEF WaitInv, Awaiting, Answered
<1>4. ASSUME NEW r \in Requests, RequestStep(r) PROVE  WaitInv'
  <2>1. CASE Prepare(r)
    BY <1>1, <1>2, <2>1 DEF WaitInv, Awaiting, Answered, Prepare, DispatchInv
  <2>2. CASE DispatchStart(r)
    BY <1>1, <1>2, <2>2 DEF WaitInv, Awaiting, Answered, DispatchStart, DispatchFrame,
        DispatchInv
  <2>3. CASE DispatchEnqueue(r)
    BY <1>1, <1>2, <2>3 DEF WaitInv, Awaiting, Answered, DispatchEnqueue,
        DispatchFrame, DispatchInv
  <2>4. CASE DispatchInterrupted(r)
    BY <1>1, <1>2, <2>4 DEF WaitInv, Awaiting, Answered, DispatchInterrupted,
        DispatchFrame, DispatchInv
  <2>5. CASE DispatchSeesAbandon(r)
    BY <1>1, <1>2, <2>5 DEF WaitInv, Awaiting, Answered, DispatchSeesAbandon,
        CompleteDispatch, PhaseAfterDispatch, DispatchFrame, DispatchInv
  <2>6. CASE CompleteWrite(r)
    BY <1>1, <1>2, <2>6 DEF WaitInv, Awaiting, Answered, CompleteWrite,
        CompleteDispatch, PhaseAfterDispatch, DispatchFrame, DispatchInv
  <2>7. CASE DispatchFinish(r)
    BY <1>1, <1>2, <2>7 DEF WaitInv, Awaiting, Answered, DispatchFinish,
        CompleteDispatch, PhaseAfterDispatch, DispatchFrame, DispatchInv
  <2>8. CASE FailDispatch(r)
    BY <1>1, <1>2, <2>8 DEF WaitInv, Awaiting, Answered, FailDispatch,
        CompleteDispatch, PhaseAfterDispatch, DispatchFrame, DispatchInv
  <2>9. CASE DispatchReleased(r)
    BY <1>1, <1>2, <2>9 DEF WaitInv, Awaiting, Answered, DispatchReleased,
        CompleteDispatch, PhaseAfterDispatch, DispatchFrame, DispatchInv
  <2>10. CASE Abandon(r)
    BY <1>1, <1>2, <2>10 DEF WaitInv, Awaiting, Answered, Abandon, AbandonFrame,
        DispatchInv
  <2>11. CASE ReleaseStart(r)
    BY <1>1, <1>2, <2>11 DEF WaitInv, Awaiting, Answered, ReleaseStart, EntryInv
  <2>12. CASE ObserveResponse(r) \/ DispatchRefused(r) \/ Interrupt(r) \/
      CancelRequest(r) \/ AbandonDetaches(r) \/ AbandonReleased(r) \/ ReleaseFinish(r)
    BY <1>3, <2>12 DEF ObserveResponse, DispatchRefused, Interrupt, CancelRequest,
       CancelTest, CancelSend, CancelFrame, AbandonDetaches, AbandonReleased, ReleaseFinish,
       DispatchFrame, AbandonFrame
  <2> QED
    BY <1>4, <2>1, <2>2, <2>3, <2>4, <2>5, <2>6, <2>7, <2>8, <2>9, <2>10, <2>11, <2>12
        DEF RequestStep, DispatchStep, ReleaseStep, AbandonStep
<1>5. ASSUME NEW w \in Waiters, CallerStep(w) PROVE  WaitInv'
  <2>0. WaitsOn[w] \in Requests
    BY WaitersAssumption
  <2>1. CASE WaitReads(w)
    BY <1>1, <1>2, <2>0, <2>1 DEF WaitInv, Awaiting, Answered, WaitReads, Goto, Return,
        DispatchInv
  <2>2. CASE WaitReady(w)
    BY <1>1, <1>2, <2>0, <2>2 DEF WaitInv, Awaiting, Answered, WaitReady, Goto, Return,
        ReturnUnsettled, WaitFrame
  <2>3. CASE WaitCancelled(w)
    BY <1>1, <1>2, <2>0, <2>3 DEF WaitInv, Awaiting, Answered, WaitCancelled, Goto,
        ReturnUnsettled, WaitFrame
  <2>4. CASE WaitStays(w)
    BY <1>1, <1>2, <2>0, <2>4 DEF WaitInv, Awaiting, Answered, WaitStays, Goto,
        WaitFrame
  <2>5. CASE WaitDone(w)
    BY <1>1, <1>2, <2>0, <2>5 DEF WaitInv, Awaiting, Answered, WaitDone, Goto, Return,
        WaitFrame
  <2>6. CASE WaitResolves(w)
    BY <1>1, <1>2, <2>0, <2>6 DEF WaitInv, Awaiting, Answered, WaitResolves, Goto,
        Return, MayResolve, WaitFrame
  <2>7. CASE WaitNotified(w)
    BY <1>1, <1>2, <2>0, <2>7 DEF WaitInv, Awaiting, Answered, WaitNotified, Goto,
        WaitFrame
  <2>8. CASE WaitGivesUp(w)
    BY <1>1, <1>2, <2>0, <2>8 DEF WaitInv, Awaiting, Answered, WaitGivesUp, Goto,
        Settle, SettledResult, WaitFrame
  <2>9. CASE WaitLosesConnection(w)
    BY <1>1, <1>2, <2>0, <2>9 DEF WaitInv, Awaiting, Answered, WaitLosesConnection,
        Goto, Settle, SettledResult, WaitFrame
  <2>10. ASSUME NEW v \in {"ok", "error"}, WaitSettles(w, v) PROVE  WaitInv'
    BY <1>1, <1>2, <2>0, <2>10 DEF WaitInv, Awaiting, Answered, WaitSettles, Goto,
        Settle, SettledResult, WaitFrame
  <2>11. CASE WaitReleased(w)
    BY <1>1, <1>2, <2>0, <2>11 DEF WaitInv, Awaiting, Answered, WaitReleased, Goto,
        Return, Released, WaitFrame
  <2> QED
    BY <1>5, <2>1, <2>2, <2>3, <2>4, <2>5, <2>6, <2>7, <2>8, <2>9, <2>10, <2>11 DEF
        CallerStep, WaitStep
<1>6. ASSUME WriterStep PROVE  WaitInv'
  <2>1. CASE WriterTop \/ WriterStops \/ WriterTakesRequest \/ WriterTakesCancel \/
      WriterInvokes \/ WriterShutsDown \/ (\E ok \in BOOLEAN : WriterReturns(ok))
    BY <1>3, <2>1 DEF WriterTop, WriterStops, WriterTakesRequest, WriterTakesCancel,
        WriterInvokes, WriterShutsDown, WriterReturns, WriterFrame
  <2> QED
    BY <1>6, <2>1 DEF WriterStep
<1>7. ASSUME BeginShutdown \/ ShutdownStep \/ \E r \in Requests : ReaderStep(r)
       PROVE  WaitInv'
  <2>1. ASSUME NEW r \in Requests, DrainOne(r) PROVE  WaitInv'
    BY <1>1, <1>2, <2>1 DEF WaitInv, Awaiting, Answered, DrainOne, ConnFrame, EntryInv
  <2>2. ASSUME NEW r \in Requests, ResponseCompletes(r) PROVE  WaitInv'
    BY <1>1, <1>2, <2>2 DEF WaitInv, Awaiting, Answered, ResponseCompletes, ConnFrame
  <2>3. CASE BeginShutdown \/ EndShutdown \/ (\E r \in Requests : ResponseArrives(r))
    BY <1>3, <2>3 DEF BeginShutdown, EndShutdown, ResponseArrives, ConnFrame
  <2> QED
    BY <1>7, <2>1, <2>2, <2>3 DEF ShutdownStep, ReaderStep
<1>8. CASE UNCHANGED vars
  BY <1>3, <1>8 DEF vars
<1> QED
  BY <1>4, <1>5, <1>6, <1>7, <1>8 DEF Next

\* ClaimInv is kept: after a report of NotStarted no write can begin.
LEMMA ClaimPreserved ==
    ASSUME TypeOK, IInv, [Next]_vars
    PROVE  ClaimInv'
<1>1. ClaimInv /\ QueueInv /\ WaitInv /\ ResolveInv /\ DispatchInv
  BY DEF IInv
<1>2. /\ claimed \subseteq Requests
      /\ phase \in [Requests -> Phases]
      /\ writeDone \in [Requests -> WriteResults]
      /\ writeQueue \in Seq(Items)
      /\ writer \in {"begun", "writing"} => writing \in Items
  BY DEF TypeOK
<1>3. UNCHANGED <<claimed, submitted, phase, writeDone, invoked>> => ClaimInv'
  BY <1>1 DEF ClaimInv, Over
<1>4. ASSUME NEW r \in Requests, RequestStep(r) PROVE  ClaimInv'
  <2>1. CASE Prepare(r)
    BY <1>1, <1>2, <2>1 DEF ClaimInv, Over, Prepare
  <2>2. CASE DispatchStart(r)
    BY <1>1, <1>2, <2>2 DEF ClaimInv, Over, DispatchStart, DispatchFrame
  <2>3. CASE DispatchRefused(r)
    BY <1>1, <1>2, <2>3 DEF ClaimInv, Over, DispatchRefused, DispatchFrame, Claim,
        SubmissionState, Phases
  <2>4. CASE DispatchSeesAbandon(r)
    BY <1>1, <1>2, <2>4 DEF ClaimInv, Over, DispatchSeesAbandon, CompleteDispatch,
        PhaseAfterDispatch, DispatchFrame, Claim, SubmissionState
  <2>5. CASE CompleteWrite(r)
    BY <1>1, <1>2, <2>5 DEF ClaimInv, Over, CompleteWrite, CompleteDispatch,
        PhaseAfterDispatch, DispatchFrame, ClaimUnsubmitted
  <2>6. CASE DispatchFinish(r)
    BY <1>1, <1>2, <2>6 DEF ClaimInv, Over, DispatchFinish, CompleteDispatch,
        PhaseAfterDispatch, DispatchFrame
  <2>7. CASE FailDispatch(r)
    BY <1>1, <1>2, <2>7 DEF ClaimInv, Over, FailDispatch, CompleteDispatch,
        PhaseAfterDispatch, DispatchFrame, Claim, SubmissionState, ClaimUnsubmitted
  <2>8. CASE DispatchReleased(r)
    BY <1>1, <1>2, <2>8 DEF ClaimInv, Over, DispatchReleased, CompleteDispatch,
        PhaseAfterDispatch, DispatchFrame
  <2>9. CASE Abandon(r)
    BY <1>1, <1>2, <2>9 DEF ClaimInv, Over, Abandon, AbandonFrame, ClaimUnsubmitted,
        ResolveInv
  <2>10. CASE ObserveResponse(r) \/ DispatchEnqueue(r) \/ DispatchInterrupted(r) \/
      Interrupt(r) \/ CancelRequest(r) \/ AbandonDetaches(r) \/ AbandonReleased(r) \/
      ReleaseStart(r) \/ ReleaseFinish(r)
    BY <1>3, <2>10 DEF ObserveResponse, DispatchEnqueue, DispatchInterrupted, Interrupt,
       CancelRequest, CancelTest, CancelSend, CancelFrame, AbandonDetaches, AbandonReleased,
       ReleaseStart, ReleaseFinish, DispatchFrame, AbandonFrame
  <2> QED
    BY <1>4, <2>1, <2>2, <2>3, <2>4, <2>5, <2>6, <2>7, <2>8, <2>9, <2>10 DEF
        RequestStep, DispatchStep, ReleaseStep, AbandonStep
<1>5. ASSUME NEW w \in Waiters, CallerStep(w) PROVE  ClaimInv'
  <2>0. WaitsOn[w] \in Requests
    BY WaitersAssumption
  <2>1. CASE WaitReads(w)
    BY <1>1, <1>2, <2>0, <2>1 DEF ClaimInv, Over, WaitReads, Goto, Return, Claim,
        SubmissionState
  <2>2. CASE WaitReady(w)
    BY <1>1, <1>2, <2>0, <2>2 DEF ClaimInv, Over, WaitReady, Goto, Return,
        ReturnUnsettled, WaitFrame
  <2>3. CASE WaitCancelled(w)
    BY <1>1, <1>2, <2>0, <2>3 DEF ClaimInv, Over, WaitCancelled, Goto, ReturnUnsettled,
        WaitFrame, Claim, SubmissionState, WaitInv, Phases
  <2>4. CASE WaitDone(w)
    BY <1>1, <1>2, <2>0, <2>4 DEF ClaimInv, Over, WaitDone, Goto, Return, WaitFrame,
        ClaimUnsubmitted
  <2>5. CASE WaitResolves(w)
    BY <1>1, <1>2, <2>0, <2>5 DEF ClaimInv, Over, WaitResolves, Goto, Return,
        MayResolve, WaitFrame, ClaimUnsubmitted
  <2>6. CASE WaitLosesConnection(w)
    BY <1>1, <1>2, <2>0, <2>6 DEF ClaimInv, Over, WaitLosesConnection, Goto, Settle,
        SettledResult, WaitFrame
  <2>7. ASSUME NEW v \in {"ok", "error"}, WaitSettles(w, v) PROVE  ClaimInv'
    BY <1>1, <1>2, <2>0, <2>7 DEF ClaimInv, Over, WaitSettles, Goto, Settle,
        SettledResult, WaitFrame
  <2>8. CASE WaitStays(w) \/ WaitNotified(w) \/ WaitGivesUp(w) \/ WaitReleased(w)
    BY <1>3, <2>8 DEF WaitStays, WaitNotified, WaitGivesUp, WaitReleased, Settle,
        WaitFrame
  <2> QED
    BY <1>5, <2>1, <2>2, <2>3, <2>4, <2>5, <2>6, <2>7, <2>8 DEF CallerStep, WaitStep
<1>6. ASSUME WriterStep PROVE  ClaimInv'
  <2>1. CASE WriterTakesRequest
    <3>1. PICK r \in Requests : Head(writeQueue).req = r /\ Queued(r)
      BY <1>1, <2>1, TakenWrite
    <3>2. /\ \/ submitted' = submitted
             \/ phase[r] = "dispatching" /\ submitted' = submitted \cup {r}
          /\ writeDone' = writeDone \/ writeDone' = [writeDone EXCEPT ![r] = "fail"]
          /\ UNCHANGED <<claimed, phase, invoked>>
      BY <2>1, <3>1 DEF WriterTakesRequest, WriterFrame, MayBegin
    <3>3. writeDone[r] = "none"
      BY <1>1, <3>1 DEF QueueInv
    <3> QED
      BY <1>1, <1>2, <3>1, <3>2, <3>3 DEF ClaimInv, Over
  <2>2. CASE WriterInvokes
    BY <1>1, <1>2, <2>2 DEF ClaimInv, Over, WriterInvokes, QueueInv, Write, Items
  <2>3. ASSUME NEW ok \in BOOLEAN, WriterReturns(ok) PROVE  ClaimInv'
    BY <1>1, <1>2, <2>3 DEF ClaimInv, Over, WriterReturns, WriterFrame, QueueInv,
        Write, Items
  <2>4. CASE WriterTop \/ WriterStops \/ WriterTakesCancel \/ WriterShutsDown
    BY <1>3, <2>4 DEF WriterTop, WriterStops, WriterTakesCancel, WriterShutsDown,
        WriterFrame
  <2> QED
    BY <1>6, <2>1, <2>2, <2>3, <2>4 DEF WriterStep
<1>7. ASSUME BeginShutdown \/ ShutdownStep \/ \E r \in Requests : ReaderStep(r)
       PROVE  ClaimInv'
  <2>1. CASE BeginShutdown \/ EndShutdown \/ (\E r \in Requests : DrainOne(r)) \/ (\E r
      \in Requests : ResponseArrives(r)) \/ (\E r \in Requests : ResponseCompletes(r))
    BY <1>3, <2>1 DEF BeginShutdown, EndShutdown, DrainOne, ResponseArrives,
        ResponseCompletes, ConnFrame
  <2> QED
    BY <1>7, <2>1 DEF ShutdownStep, ReaderStep
<1>8. CASE UNCHANGED vars
  BY <1>3, <1>8 DEF vars
<1> QED
  BY <1>4, <1>5, <1>6, <1>7, <1>8 DEF Next

\* ResolveInv is kept: one Wait at a time resolves a response.
LEMMA ResolvePreserved ==
    ASSUME TypeOK, IInv, [Next]_vars
    PROVE  ResolveInv'
<1>1. ResolveInv /\ WaitInv /\ DispatchInv /\ EntryInv
  BY DEF IInv
<1>2. /\ phase \in [Requests -> Phases]
      /\ dispatchPc \in [Requests -> DispatchPcs]
      /\ dispatchErr \in [Requests -> DispatchErrs]
      /\ waitPc \in [Waiters -> WaitPcs]
      /\ resolved \in [Requests -> Results]
      /\ done \in [Requests -> DoneStates]
      /\ observed \in [Requests -> Nat]
      /\ WaitsOn \in [Waiters -> Requests]
  BY WaitersAssumption DEF TypeOK
<1>3. UNCHANGED <<waitPc, resolving, resolved, phase, done, dispatchPc, dispatchErr, observed, observer>> => ResolveInv'
  BY <1>1 DEF ResolveInv, Resolving
<1>4. ASSUME NEW r \in Requests, RequestStep(r) PROVE  ResolveInv'
  <2>1. CASE Prepare(r)
    BY <1>1, <1>2, <2>1 DEF ResolveInv, Resolving, Prepare, DispatchInv
  <2>2. CASE ObserveResponse(r)
    BY <1>1, <1>2, <2>2 DEF ResolveInv, Resolving, ObserveResponse, WaitInv, Awaiting
  <2>3. CASE DispatchStart(r)
    BY <1>1, <1>2, <2>3 DEF ResolveInv, Resolving, DispatchStart, DispatchFrame,
        DispatchInv
  <2>4. CASE DispatchEnqueue(r)
    BY <1>1, <1>2, <2>4 DEF ResolveInv, Resolving, DispatchEnqueue, DispatchFrame,
        DispatchInv
  <2>5. CASE DispatchInterrupted(r)
    BY <1>1, <1>2, <2>5 DEF ResolveInv, Resolving, DispatchInterrupted, DispatchFrame,
        DispatchInv
  <2>6. CASE DispatchSeesAbandon(r)
    BY <1>1, <1>2, <2>6 DEF ResolveInv, Resolving, DispatchSeesAbandon,
        CompleteDispatch, PhaseAfterDispatch, DispatchFrame, DispatchInv
  <2>7. CASE CompleteWrite(r)
    BY <1>1, <1>2, <2>7 DEF ResolveInv, Resolving, CompleteWrite, CompleteDispatch,
        PhaseAfterDispatch, DispatchFrame, DispatchInv
  <2>8. CASE DispatchFinish(r)
    BY <1>1, <1>2, <2>8 DEF ResolveInv, Resolving, DispatchFinish, CompleteDispatch,
        PhaseAfterDispatch, DispatchFrame, DispatchInv
  <2>9. CASE FailDispatch(r)
    BY <1>1, <1>2, <2>9 DEF ResolveInv, Resolving, FailDispatch, CompleteDispatch,
        PhaseAfterDispatch, DispatchFrame, DispatchInv
  <2>10. CASE DispatchReleased(r)
    BY <1>1, <1>2, <2>10 DEF ResolveInv, Resolving, DispatchReleased, CompleteDispatch,
        PhaseAfterDispatch, DispatchFrame, DispatchInv
  <2>11. CASE Abandon(r)
    BY <1>1, <1>2, <2>11 DEF ResolveInv, Resolving, Abandon, AbandonFrame, DispatchInv
  <2>12. CASE ReleaseStart(r)
    BY <1>1, <1>2, <2>12 DEF ResolveInv, Resolving, ReleaseStart, EntryInv
  <2>13. CASE DispatchRefused(r) \/ Interrupt(r) \/ CancelRequest(r) \/
      AbandonDetaches(r) \/ AbandonReleased(r) \/ ReleaseFinish(r)
    BY <1>3, <2>13 DEF DispatchRefused, Interrupt, CancelRequest, CancelTest, CancelSend,
       CancelFrame, AbandonDetaches, AbandonReleased, ReleaseFinish, DispatchFrame,
       AbandonFrame
  <2> QED
    BY <1>4, <2>1, <2>2, <2>3, <2>4, <2>5, <2>6, <2>7, <2>8, <2>9, <2>10, <2>11, <2>12,
        <2>13 DEF RequestStep, DispatchStep, ReleaseStep, AbandonStep
<1>5. ASSUME NEW w \in Waiters, CallerStep(w) PROVE  ResolveInv'
  <2>0. WaitsOn[w] \in Requests
    BY WaitersAssumption
  <2>1. CASE WaitReads(w)
    BY <1>1, <1>2, <2>0, <2>1 DEF ResolveInv, Resolving, WaitReads, Goto, Return,
        WaitInv, Awaiting, Answered
  <2>2. CASE WaitReady(w)
    BY <1>1, <1>2, <2>0, <2>2 DEF ResolveInv, Resolving, WaitReady, Goto, Return,
        ReturnUnsettled, WaitFrame, WaitInv, Awaiting, Answered
  <2>3. CASE WaitCancelled(w)
    BY <1>1, <1>2, <2>0, <2>3 DEF ResolveInv, Resolving, WaitCancelled, Goto,
        ReturnUnsettled, WaitFrame, WaitInv, Awaiting, Answered
  <2>4. CASE WaitStays(w)
    BY <1>1, <1>2, <2>0, <2>4 DEF ResolveInv, Resolving, WaitStays, Goto, WaitFrame,
        WaitInv, Awaiting, Answered
  <2>5. CASE WaitDone(w)
    BY <1>1, <1>2, <2>0, <2>5 DEF ResolveInv, Resolving, WaitDone, Goto, Return,
        WaitFrame, WaitInv, Awaiting, Answered
  <2>6. CASE WaitResolves(w)
    BY <1>1, <1>2, <2>0, <2>6 DEF ResolveInv, Resolving, WaitResolves, Goto, Return,
        MayResolve, WaitFrame, WaitInv, Awaiting, Answered
  <2>7. CASE WaitNotified(w)
    BY <1>1, <1>2, <2>0, <2>7 DEF ResolveInv, Resolving, WaitNotified, Goto, WaitFrame,
        WaitInv, Awaiting, Answered
  <2>8. CASE WaitGivesUp(w)
    BY <1>1, <1>2, <2>0, <2>8 DEF ResolveInv, Resolving, WaitGivesUp, Goto, Settle,
        SettledResult, WaitFrame, WaitInv, Awaiting, Answered
  <2>9. CASE WaitLosesConnection(w)
    BY <1>1, <1>2, <2>0, <2>9 DEF ResolveInv, Resolving, WaitLosesConnection, Goto,
        Settle, SettledResult, WaitFrame, WaitInv, Awaiting, Answered
  <2>10. ASSUME NEW v \in {"ok", "error"}, WaitSettles(w, v) PROVE  ResolveInv'
    BY <1>1, <1>2, <2>0, <2>10 DEF ResolveInv, Resolving, WaitSettles, Goto, Settle,
        SettledResult, WaitFrame, WaitInv, Awaiting, Answered
  <2>11. CASE WaitReleased(w)
    BY <1>1, <1>2, <2>0, <2>11 DEF ResolveInv, Resolving, WaitReleased, Goto, Return,
        Released, WaitFrame, WaitInv, Awaiting, Answered
  <2> QED
    BY <1>5, <2>1, <2>2, <2>3, <2>4, <2>5, <2>6, <2>7, <2>8, <2>9, <2>10, <2>11 DEF
        CallerStep, WaitStep
<1>6. ASSUME WriterStep PROVE  ResolveInv'
  <2>1. CASE WriterTop \/ WriterStops \/ WriterTakesRequest \/ WriterTakesCancel \/
      WriterInvokes \/ WriterShutsDown \/ (\E ok \in BOOLEAN : WriterReturns(ok))
    BY <1>3, <2>1 DEF WriterTop, WriterStops, WriterTakesRequest, WriterTakesCancel,
        WriterInvokes, WriterShutsDown, WriterReturns, WriterFrame
  <2> QED
    BY <1>6, <2>1 DEF WriterStep
<1>7. ASSUME BeginShutdown \/ ShutdownStep \/ \E r \in Requests : ReaderStep(r)
       PROVE  ResolveInv'
  <2>1. ASSUME NEW r \in Requests, DrainOne(r) PROVE  ResolveInv'
    BY <1>1, <1>2, <2>1 DEF ResolveInv, Resolving, DrainOne, ConnFrame, EntryInv
  <2>2. ASSUME NEW r \in Requests, ResponseCompletes(r) PROVE  ResolveInv'
    BY <1>1, <1>2, <2>2 DEF ResolveInv, Resolving, ResponseCompletes, ConnFrame
  <2>3. CASE BeginShutdown \/ EndShutdown \/ (\E r \in Requests : ResponseArrives(r))
    BY <1>3, <2>3 DEF BeginShutdown, EndShutdown, ResponseArrives, ConnFrame
  <2> QED
    BY <1>7, <2>1, <2>2, <2>3 DEF ShutdownStep, ReaderStep
<1>8. CASE UNCHANGED vars
  BY <1>3, <1>8 DEF vars
<1> QED
  BY <1>4, <1>5, <1>6, <1>7, <1>8 DEF Next

\* VerdictInv is kept: what backs a returned result does not change.
LEMMA VerdictPreserved ==
    ASSUME TypeOK, IInv, [Next]_vars
    PROVE  VerdictInv'
<1>1. VerdictInv /\ WaitInv /\ DispatchInv /\ EntryInv /\ ResolveInv
  BY DEF IInv
<1>2. /\ phase \in [Requests -> Phases]
      /\ dispatchPc \in [Requests -> DispatchPcs]
      /\ dispatchErr \in [Requests -> DispatchErrs]
      /\ resolved \in [Requests -> Results]
      /\ done \in [Requests -> DoneStates]
      /\ verdicts \in [Requests -> SUBSET (Results \cup {"empty"})]
      /\ WaitsOn \in [Waiters -> Requests]
  BY WaitersAssumption DEF TypeOK
<1>3. UNCHANGED <<verdicts, phase, resolved, done, dispatchErr, dispatchPc>> => VerdictInv'
  BY <1>1 DEF VerdictInv
<1>4. ASSUME NEW r \in Requests, RequestStep(r) PROVE  VerdictInv'
  <2>1. CASE Prepare(r)
    BY <1>1, <1>2, <2>1 DEF VerdictInv, Prepare, DispatchInv
  <2>2. CASE DispatchStart(r)
    BY <1>1, <1>2, <2>2 DEF VerdictInv, DispatchStart, DispatchFrame, DispatchInv
  <2>3. CASE DispatchEnqueue(r)
    BY <1>1, <1>2, <2>3 DEF VerdictInv, DispatchEnqueue, DispatchFrame, DispatchInv
  <2>4. CASE DispatchInterrupted(r)
    BY <1>1, <1>2, <2>4 DEF VerdictInv, DispatchInterrupted, DispatchFrame, DispatchInv
  <2>5. CASE DispatchSeesAbandon(r)
    BY <1>1, <1>2, <2>5 DEF VerdictInv, DispatchSeesAbandon, CompleteDispatch,
        PhaseAfterDispatch, DispatchFrame, DispatchInv
  <2>6. CASE CompleteWrite(r)
    BY <1>1, <1>2, <2>6 DEF VerdictInv, CompleteWrite, CompleteDispatch,
        PhaseAfterDispatch, DispatchFrame, DispatchInv
  <2>7. CASE DispatchFinish(r)
    BY <1>1, <1>2, <2>7 DEF VerdictInv, DispatchFinish, CompleteDispatch,
        PhaseAfterDispatch, DispatchFrame, DispatchInv
  <2>8. CASE FailDispatch(r)
    BY <1>1, <1>2, <2>8 DEF VerdictInv, FailDispatch, CompleteDispatch,
        PhaseAfterDispatch, DispatchFrame, DispatchInv
  <2>9. CASE DispatchReleased(r)
    BY <1>1, <1>2, <2>9 DEF VerdictInv, DispatchReleased, CompleteDispatch,
        PhaseAfterDispatch, DispatchFrame, DispatchInv
  <2>10. CASE Abandon(r)
    BY <1>1, <1>2, <2>10 DEF VerdictInv, Abandon, AbandonFrame, DispatchInv
  <2>11. CASE ReleaseStart(r)
    BY <1>1, <1>2, <2>11 DEF VerdictInv, ReleaseStart, EntryInv
  <2>12. CASE ObserveResponse(r) \/ DispatchRefused(r) \/ Interrupt(r) \/
      CancelRequest(r) \/ AbandonDetaches(r) \/ AbandonReleased(r) \/ ReleaseFinish(r)
    BY <1>3, <2>12 DEF ObserveResponse, DispatchRefused, Interrupt, CancelRequest,
       CancelTest, CancelSend, CancelFrame, AbandonDetaches, AbandonReleased, ReleaseFinish,
       DispatchFrame, AbandonFrame
  <2> QED
    BY <1>4, <2>1, <2>2, <2>3, <2>4, <2>5, <2>6, <2>7, <2>8, <2>9, <2>10, <2>11, <2>12
        DEF RequestStep, DispatchStep, ReleaseStep, AbandonStep
<1>5. ASSUME NEW w \in Waiters, CallerStep(w) PROVE  VerdictInv'
  <2>0. WaitsOn[w] \in Requests
    BY WaitersAssumption
  <2>1. CASE WaitReads(w)
    BY <1>1, <1>2, <2>0, <2>1 DEF VerdictInv, WaitReads, Goto, Return, WaitInv,
        Awaiting, Answered, DispatchInv
  <2>2. CASE WaitReady(w)
    BY <1>1, <1>2, <2>0, <2>2 DEF VerdictInv, WaitReady, Goto, Return, ReturnUnsettled,
        WaitFrame, WaitInv, Awaiting, Answered, DispatchInv
  <2>3. CASE WaitDone(w)
    BY <1>1, <1>2, <2>0, <2>3 DEF VerdictInv, WaitDone, Goto, Return, WaitFrame,
        WaitInv, Awaiting, Answered, DispatchInv
  <2>4. CASE WaitResolves(w)
    BY <1>1, <1>2, <2>0, <2>4 DEF VerdictInv, WaitResolves, Goto, Return, MayResolve,
        WaitFrame, Results
  <2>5. CASE WaitGivesUp(w)
    BY <1>1, <1>2, <2>0, <2>5 DEF VerdictInv, WaitGivesUp, Goto, Settle, SettledResult,
        WaitFrame, WaitInv, Awaiting, Answered, DispatchInv, ResolveInv, Resolving
  <2>6. CASE WaitLosesConnection(w)
    BY <1>1, <1>2, <2>0, <2>6 DEF VerdictInv, WaitLosesConnection, Goto, Settle,
        SettledResult, WaitFrame, WaitInv, Awaiting, Answered, DispatchInv, ResolveInv,
        Resolving
  <2>7. ASSUME NEW v \in {"ok", "error"}, WaitSettles(w, v) PROVE  VerdictInv'
    BY <1>1, <1>2, <2>0, <2>7 DEF VerdictInv, WaitSettles, Goto, Settle, SettledResult,
        WaitFrame, WaitInv, Awaiting, Answered, DispatchInv, ResolveInv, Resolving
  <2>8. CASE WaitReleased(w)
    <3>1. PICK r \in Requests : WaitsOn[w] = r
      BY <2>0
    <3>2. /\ verdicts' = [verdicts EXCEPT ![r] = verdicts[r] \cup {resolved[r]}]
          /\ UNCHANGED <<phase, resolved, done, dispatchErr, dispatchPc>>
      BY <2>8, <3>1 DEF WaitReleased, Return, WaitFrame
    <3>3. resolved[r] \in {"ok", "error", "abandoned"}
      BY <1>1, <1>2, <2>8, <3>1 DEF WaitInv, Awaiting, WaitReleased, Results
    <3> QED
      BY <1>1, <1>2, <3>1, <3>2, <3>3 DEF VerdictInv
  <2>9. CASE WaitCancelled(w) \/ WaitStays(w) \/ WaitNotified(w)
    BY <1>3, <2>9 DEF WaitCancelled, WaitStays, WaitNotified, ReturnUnsettled,
        WaitFrame
  <2> QED
    BY <1>5, <2>1, <2>2, <2>3, <2>4, <2>5, <2>6, <2>7, <2>8, <2>9 DEF CallerStep,
        WaitStep
<1>6. ASSUME WriterStep PROVE  VerdictInv'
  <2>1. CASE WriterTop \/ WriterStops \/ WriterTakesRequest \/ WriterTakesCancel \/
      WriterInvokes \/ WriterShutsDown \/ (\E ok \in BOOLEAN : WriterReturns(ok))
    BY <1>3, <2>1 DEF WriterTop, WriterStops, WriterTakesRequest, WriterTakesCancel,
        WriterInvokes, WriterShutsDown, WriterReturns, WriterFrame
  <2> QED
    BY <1>6, <2>1 DEF WriterStep
<1>7. ASSUME BeginShutdown \/ ShutdownStep \/ \E r \in Requests : ReaderStep(r)
       PROVE  VerdictInv'
  <2>1. ASSUME NEW r \in Requests, DrainOne(r) PROVE  VerdictInv'
    BY <1>1, <1>2, <2>1 DEF VerdictInv, DrainOne, ConnFrame, EntryInv
  <2>2. ASSUME NEW r \in Requests, ResponseCompletes(r) PROVE  VerdictInv'
    BY <1>1, <1>2, <2>2 DEF VerdictInv, ResponseCompletes, ConnFrame, EntryInv
  <2>3. CASE BeginShutdown \/ EndShutdown \/ (\E r \in Requests : ResponseArrives(r))
    BY <1>3, <2>3 DEF BeginShutdown, EndShutdown, ResponseArrives, ConnFrame
  <2> QED
    BY <1>7, <2>1, <2>2, <2>3 DEF ShutdownStep, ReaderStep
<1>8. CASE UNCHANGED vars
  BY <1>3, <1>8 DEF vars
<1> QED
  BY <1>4, <1>5, <1>6, <1>7, <1>8 DEF Next

\* EntryInv is kept: an entry leaves c.pending before its response is completed.
LEMMA EntryPreserved ==
    ASSUME TypeOK, IInv, [Next]_vars
    PROVE  EntryInv'
<1>1. EntryInv /\ DispatchInv /\ WaitInv
  BY DEF IInv
<1>2. /\ phase \in [Requests -> Phases]
      /\ done \in [Requests -> DoneStates]
  BY DEF TypeOK
<1>3. UNCHANGED <<pending, drain, closing, done, phase, responded, reading>> => EntryInv'
  BY <1>1 DEF EntryInv
<1>4. ASSUME NEW r \in Requests, RequestStep(r) PROVE  EntryInv'
  <2>1. CASE Prepare(r)
    BY <1>1, <1>2, <2>1 DEF EntryInv, Prepare
  <2>2. CASE DispatchStart(r)
    BY <1>1, <1>2, <2>2 DEF EntryInv, DispatchStart, DispatchFrame
  <2>3. CASE DispatchSeesAbandon(r)
    BY <1>1, <1>2, <2>3 DEF EntryInv, DispatchSeesAbandon, CompleteDispatch,
        PhaseAfterDispatch, DispatchFrame
  <2>4. CASE CompleteWrite(r)
    BY <1>1, <1>2, <2>4 DEF EntryInv, CompleteWrite, CompleteDispatch,
        PhaseAfterDispatch, DispatchFrame
  <2>5. CASE DispatchFinish(r)
    BY <1>1, <1>2, <2>5 DEF EntryInv, DispatchFinish, CompleteDispatch,
        PhaseAfterDispatch, DispatchFrame
  <2>6. CASE FailDispatch(r)
    BY <1>1, <1>2, <2>6 DEF EntryInv, FailDispatch, CompleteDispatch,
        PhaseAfterDispatch, DispatchFrame
  <2>7. CASE DispatchReleased(r)
    BY <1>1, <1>2, <2>7 DEF EntryInv, DispatchReleased, CompleteDispatch,
        PhaseAfterDispatch, DispatchFrame
  <2>8. CASE Abandon(r)
    BY <1>1, <1>2, <2>8 DEF EntryInv, Abandon, AbandonFrame
  <2>9. CASE AbandonDetaches(r)
    BY <1>1, <1>2, <2>9 DEF EntryInv, AbandonDetaches, AbandonFrame
  <2>10. CASE ReleaseStart(r)
    BY <1>1, <1>2, <2>10 DEF EntryInv, ReleaseStart
  <2>11. CASE ObserveResponse(r) \/ DispatchRefused(r) \/ DispatchEnqueue(r) \/
      DispatchInterrupted(r) \/ Interrupt(r) \/ CancelRequest(r) \/ AbandonReleased(r)
      \/ ReleaseFinish(r)
    BY <1>3, <2>11 DEF ObserveResponse, DispatchRefused, DispatchEnqueue,
       DispatchInterrupted, Interrupt, CancelRequest, CancelTest, CancelSend, CancelFrame,
       AbandonReleased, ReleaseFinish, DispatchFrame, AbandonFrame
  <2> QED
    BY <1>4, <2>1, <2>2, <2>3, <2>4, <2>5, <2>6, <2>7, <2>8, <2>9, <2>10, <2>11 DEF
        RequestStep, DispatchStep, ReleaseStep, AbandonStep
<1>5. ASSUME NEW w \in Waiters, CallerStep(w) PROVE  EntryInv'
  <2>0. WaitsOn[w] \in Requests
    BY WaitersAssumption
  <2>1. CASE WaitReady(w)
    BY <1>1, <1>2, <2>0, <2>1 DEF EntryInv, WaitReady, Goto, Return, ReturnUnsettled,
        WaitFrame
  <2>2. CASE WaitDone(w)
    BY <1>1, <1>2, <2>0, <2>2 DEF EntryInv, WaitDone, Goto, Return, WaitFrame
  <2>3. CASE WaitLosesConnection(w)
    BY <1>1, <1>2, <2>0, <2>3 DEF EntryInv, WaitLosesConnection, Goto, Settle,
        SettledResult, WaitFrame
  <2>4. ASSUME NEW v \in {"ok", "error"}, WaitSettles(w, v) PROVE  EntryInv'
    BY <1>1, <1>2, <2>0, <2>4 DEF EntryInv, WaitSettles, Goto, Settle, SettledResult,
        WaitFrame
  <2>5. CASE WaitReads(w) \/ WaitCancelled(w) \/ WaitStays(w) \/ WaitResolves(w) \/
      WaitNotified(w) \/ WaitGivesUp(w) \/ WaitReleased(w)
    BY <1>3, <2>5 DEF WaitReads, WaitCancelled, WaitStays, WaitResolves, WaitNotified,
        WaitGivesUp, WaitReleased, ReturnUnsettled, Settle, WaitFrame
  <2> QED
    BY <1>5, <2>1, <2>2, <2>3, <2>4, <2>5 DEF CallerStep, WaitStep
<1>6. ASSUME WriterStep PROVE  EntryInv'
  <2>1. CASE WriterTop \/ WriterStops \/ WriterTakesRequest \/ WriterTakesCancel \/
      WriterInvokes \/ WriterShutsDown \/ (\E ok \in BOOLEAN : WriterReturns(ok))
    BY <1>3, <2>1 DEF WriterTop, WriterStops, WriterTakesRequest, WriterTakesCancel,
        WriterInvokes, WriterShutsDown, WriterReturns, WriterFrame
  <2> QED
    BY <1>6, <2>1 DEF WriterStep
<1>7. ASSUME BeginShutdown \/ ShutdownStep \/ \E r \in Requests : ReaderStep(r)
       PROVE  EntryInv'
  <2>1. CASE BeginShutdown
    BY <1>1, <1>2, <2>1 DEF EntryInv, BeginShutdown, Drained, ConnFrame
  <2>2. CASE EndShutdown
    BY <1>1, <1>2, <2>2 DEF EntryInv, EndShutdown, ConnFrame
  <2>3. ASSUME NEW r \in Requests, DrainOne(r) PROVE  EntryInv'
    BY <1>1, <1>2, <2>3 DEF EntryInv, DrainOne, ConnFrame
  <2>4. ASSUME NEW r \in Requests, ResponseArrives(r) PROVE  EntryInv'
    BY <1>1, <1>2, <2>4 DEF EntryInv, ResponseArrives, ConnFrame, DoneStates
  <2>5. ASSUME NEW r \in Requests, ResponseCompletes(r) PROVE  EntryInv'
    BY <1>1, <1>2, <2>5 DEF EntryInv, ResponseCompletes, ConnFrame
  <2> QED
    BY <1>7, <2>1, <2>2, <2>3, <2>4, <2>5 DEF ShutdownStep, ReaderStep
<1>8. CASE UNCHANGED vars
  BY <1>3, <1>8 DEF vars
<1> QED
  BY <1>4, <1>5, <1>6, <1>7, <1>8 DEF Next

\* Initially and after every step all parts hold together.
THEOREM Invariance == Spec => []IInv
<1>1. Init /\ TypeOK => IInv
  BY DEF Init, IInv, QueueInv, Queued, Write, NoItem, DispatchInv, WaitInv, Awaiting, Answered,
      ClaimInv, ResolveInv, Resolving, VerdictInv, EntryInv
<1>2. TypeOK' /\ IInv /\ [Next]_vars => IInv'
  <2> SUFFICES ASSUME TypeOK', IInv, [Next]_vars PROVE IInv'
    OBVIOUS
  <2>1. TypeOK
    BY DEF IInv
  <2> QED
    BY <2>1, QueuePreserved, DispatchPreserved, WaitPreserved, ClaimPreserved,
       ResolvePreserved, VerdictPreserved, EntryPreserved DEF IInv
<1> QED
  BY <1>1, <1>2, TypeCorrect, PTL DEF Spec

-----------------------------------------------------------------------------
(* The properties *)

\* Retry safety: a request reported as NotStarted by Dispatch, Abandon or the
\* later branches of Wait never reaches the transport writer.
THEOREM RetrySafety == Spec => []NotStartedIsFinal
<1>1. IInv => NotStartedIsFinal
  BY DEF IInv, ClaimInv, NotStartedIsFinal
<1> QED
  BY <1>1, Invariance, PTL

\* The observer of a response runs once, before any Wait returns its result.
THEOREM SingleObserver == Spec => []ObservedOnce
<1>1. IInv => ObservedOnce
  BY DEF IInv, ResolveInv, VerdictInv, ObservedOnce
<1> QED
  BY <1>1, Invariance, PTL

\* All the Waits that settle a request agree with the one that returned its result.
THEOREM Agreement == Spec => []VerdictsAgree
<1>1. TypeOK /\ IInv => VerdictsAgree
  <2> SUFFICES ASSUME TypeOK, IInv, NEW r \in Requests, "ok" \in verdicts[r]
               PROVE  verdicts[r] = {"ok"}
    BY DEF VerdictsAgree
  <2>1. verdicts[r] \subseteq {"no", "ok", "error", "abandoned", "empty"}
    BY DEF TypeOK, Results
  <2>2. resolved[r] = "ok"
    BY DEF IInv, VerdictInv
  <2>3. /\ phase[r] = "finished" /\ done[r] = "response"
        /\ \/ dispatchPc[r] = "idle"
           \/ dispatchPc[r] = "returned" /\ dispatchErr[r] = "nil"
    BY <2>2 DEF IInv, ResolveInv
  <2>4. dispatchErr[r] # "error"
    BY <2>3 DEF IInv, DispatchInv
  <2>5. \A v \in {"no", "error", "abandoned", "empty"} : v \notin verdicts[r]
    BY <2>2, <2>3, <2>4 DEF IInv, VerdictInv
  <2> QED
    BY <2>1, <2>5
<1> QED
  BY <1>1, TypeCorrect, Invariance, PTL

\* No step takes the phase back.
LEMMA PhaseStep ==
    ASSUME TypeOK, IInv, [Next]_vars
    PROVE  PhaseMoves
<1>1. DispatchInv /\ WaitInv
  BY DEF IInv
<1>2. /\ phase \in [Requests -> Phases]
  BY DEF TypeOK
<1>3. UNCHANGED <<phase>> => PhaseMoves
  BY <1>1 DEF PhaseMoves, PhaseSuccessors
<1>4. ASSUME NEW r \in Requests, RequestStep(r) PROVE  PhaseMoves
  <2>1. CASE Prepare(r)
    BY <1>1, <1>2, <2>1 DEF PhaseMoves, PhaseSuccessors, Prepare
  <2>2. CASE DispatchStart(r)
    BY <1>1, <1>2, <2>2 DEF PhaseMoves, PhaseSuccessors, DispatchStart, DispatchFrame
  <2>3. CASE DispatchSeesAbandon(r)
    BY <1>1, <1>2, <2>3 DEF PhaseMoves, PhaseSuccessors, DispatchSeesAbandon,
        CompleteDispatch, PhaseAfterDispatch, DispatchFrame, DispatchInv
  <2>4. CASE CompleteWrite(r)
    BY <1>1, <1>2, <2>4 DEF PhaseMoves, PhaseSuccessors, CompleteWrite,
        CompleteDispatch, PhaseAfterDispatch, DispatchFrame, DispatchInv
  <2>5. CASE DispatchFinish(r)
    BY <1>1, <1>2, <2>5 DEF PhaseMoves, PhaseSuccessors, DispatchFinish,
        CompleteDispatch, PhaseAfterDispatch, DispatchFrame, DispatchInv
  <2>6. CASE FailDispatch(r)
    BY <1>1, <1>2, <2>6 DEF PhaseMoves, PhaseSuccessors, FailDispatch,
        CompleteDispatch, PhaseAfterDispatch, DispatchFrame, DispatchInv
  <2>7. CASE DispatchReleased(r)
    BY <1>1, <1>2, <2>7 DEF PhaseMoves, PhaseSuccessors, DispatchReleased,
        CompleteDispatch, PhaseAfterDispatch, DispatchFrame, DispatchInv
  <2>8. CASE Abandon(r)
    BY <1>1, <1>2, <2>8 DEF PhaseMoves, PhaseSuccessors, Abandon,
      AbandonFrame, Phases
  <2>9. CASE ObserveResponse(r) \/ DispatchRefused(r) \/ DispatchEnqueue(r) \/
      DispatchInterrupted(r) \/ Interrupt(r) \/ CancelRequest(r) \/ AbandonDetaches(r)
      \/ AbandonReleased(r) \/ ReleaseStart(r) \/ ReleaseFinish(r)
    BY <1>3, <2>9 DEF ObserveResponse, DispatchRefused, DispatchEnqueue,
       DispatchInterrupted, Interrupt, CancelRequest, CancelTest, CancelSend, CancelFrame,
       AbandonDetaches, AbandonReleased, ReleaseStart, ReleaseFinish, DispatchFrame,
       AbandonFrame
  <2> QED
    BY <1>4, <2>1, <2>2, <2>3, <2>4, <2>5, <2>6, <2>7, <2>8, <2>9 DEF RequestStep,
        DispatchStep, ReleaseStep, AbandonStep
<1>5. ASSUME NEW w \in Waiters, CallerStep(w) PROVE  PhaseMoves
  <2>0. WaitsOn[w] \in Requests
    BY WaitersAssumption
  <2>1. CASE WaitReady(w)
    BY <1>1, <1>2, <2>0, <2>1 DEF PhaseMoves, PhaseSuccessors, WaitReady, Goto, Return,
        ReturnUnsettled, WaitFrame
  <2>2. CASE WaitDone(w)
    BY <1>1, <1>2, <2>0, <2>2 DEF PhaseMoves, PhaseSuccessors, WaitDone, Goto, Return,
        WaitFrame, WaitInv, Awaiting
  <2>3. CASE WaitLosesConnection(w)
    BY <1>1, <1>2, <2>0, <2>3 DEF PhaseMoves, PhaseSuccessors, WaitLosesConnection,
        Goto, Settle, SettledResult, WaitFrame, WaitInv, Awaiting
  <2>4. ASSUME NEW v \in {"ok", "error"}, WaitSettles(w, v) PROVE  PhaseMoves
    BY <1>1, <1>2, <2>0, <2>4 DEF PhaseMoves, PhaseSuccessors, WaitSettles, Goto,
        Settle, SettledResult, WaitFrame, WaitInv, Awaiting
  <2>5. CASE WaitReads(w) \/ WaitCancelled(w) \/ WaitStays(w) \/ WaitResolves(w) \/
      WaitNotified(w) \/ WaitGivesUp(w) \/ WaitReleased(w)
    BY <1>3, <2>5 DEF WaitReads, WaitCancelled, WaitStays, WaitResolves, WaitNotified,
        WaitGivesUp, WaitReleased, ReturnUnsettled, Settle, WaitFrame
  <2> QED
    BY <1>5, <2>1, <2>2, <2>3, <2>4, <2>5 DEF CallerStep, WaitStep
<1>6. ASSUME WriterStep PROVE  PhaseMoves
  <2>1. CASE WriterTop \/ WriterStops \/ WriterTakesRequest \/ WriterTakesCancel \/
      WriterInvokes \/ WriterShutsDown \/ (\E ok \in BOOLEAN : WriterReturns(ok))
    BY <1>3, <2>1 DEF WriterTop, WriterStops, WriterTakesRequest, WriterTakesCancel,
        WriterInvokes, WriterShutsDown, WriterReturns, WriterFrame
  <2> QED
    BY <1>6, <2>1 DEF WriterStep
<1>7. ASSUME BeginShutdown \/ ShutdownStep \/ \E r \in Requests : ReaderStep(r)
       PROVE  PhaseMoves
  <2>1. CASE BeginShutdown \/ EndShutdown \/ (\E r \in Requests : DrainOne(r)) \/ (\E r
      \in Requests : ResponseArrives(r)) \/ (\E r \in Requests : ResponseCompletes(r))
    BY <1>3, <2>1 DEF BeginShutdown, EndShutdown, DrainOne, ResponseArrives,
        ResponseCompletes, ConnFrame
  <2> QED
    BY <1>7, <2>1 DEF ShutdownStep, ReaderStep
<1>8. CASE UNCHANGED vars
  BY <1>3, <1>8 DEF vars
<1> QED
  BY <1>4, <1>5, <1>6, <1>7, <1>8 DEF Next

\* The phase of a request only moves forward.
THEOREM PhaseOrder == Spec => PhaseNeverRegresses
<1>1. TypeOK /\ IInv /\ [Next]_vars => [PhaseMoves]_vars
  BY PhaseStep
<1> QED
  BY <1>1, TypeCorrect, Invariance, PTL DEF Spec, PhaseNeverRegresses
=============================================================================

------------------------- MODULE RequestPromiseProofs -------------------------
(***************************************************************************)
(* PreparedRequest implements RequestPromise, for any sets of requests and *)
(* waiters and any limits.                                                 *)
(***************************************************************************)
EXTENDS PreparedRequestReleaseProofs

USE DEF connVars, pendingVars, barrierVars, writerVars, attemptVars, callVars, claimVars,
        resultVars

-----------------------------------------------------------------------------
(* The inductive invariant *)

\* An Abandon that took effect is recorded where no result can get past it.
AbandonedInv ==
    \A r \in abandoned : \/ phase[r] = "abandoned"
                         \/ done[r] = "error"
                         \/ resolved[r] \notin {"no", "ok"}

\* A write that began is in the writer's hands or reported.
SubmittedInv ==
    /\ \A r \in submitted : writing = Write(r) \/ writeDone[r] # "none"
    /\ writing # NoItem => writer \in {"begun", "writing"}

SInv == AbandonedInv /\ SubmittedInv

\* An abandoned phase is left only by a Wait that stores the outcome.
LEMMA AbandonedStays ==
    ASSUME TypeOK, IInv, [Next]_vars, NEW x \in Requests, phase[x] = "abandoned"
    PROVE  phase'[x] = "abandoned" \/ done[x] = "error" \/ resolved'[x] \notin {"no", "ok"}
<1> DEFINE Goal == \/ phase'[x] = "abandoned" \/ done[x] = "error"
                   \/ resolved'[x] \notin {"no", "ok"}
<1>0. phase \in [Requests -> Phases] /\ resolved \in [Requests -> Results]
  BY DEF TypeOK
<1>1. ASSUME UNCHANGED phase PROVE Goal
  BY <1>1
<1>2. ASSUME NEW r \in Requests, NEW e, NEW p, CompleteDispatch(r, e, p) PROVE Goal
  BY <1>0, <1>2 DEF CompleteDispatch, PhaseAfterDispatch
<1>3. ASSUME NEW r \in Requests, NEW p, phase[r] # "abandoned" \/ p = "abandoned",
             phase' = [phase EXCEPT ![r] = p]
      PROVE  Goal
  BY <1>0, <1>3
<1>4. ASSUME NEW r \in Requests, RequestStep(r) PROVE Goal
  <2>1. CASE DispatchSeesAbandon(r) \/ DispatchFinish(r) \/ DispatchReleased(r)
    BY <1>2, <2>1 DEF DispatchSeesAbandon, DispatchFinish, DispatchReleased
  <2>2. CASE CompleteWrite(r)
    BY <1>1, <1>2, <2>2 DEF CompleteWrite
  <2>3. CASE FailDispatch(r)
    BY <1>1, <1>2, <1>3, <2>3 DEF FailDispatch
  <2>4. CASE Prepare(r)
    BY <1>3, <2>4 DEF Prepare
  <2>5. CASE DispatchStart(r)
    BY <1>3, <2>5 DEF DispatchStart
  <2>6. CASE Abandon(r)
    BY <1>1, <1>3, <2>6 DEF Abandon
  <2>7. CASE \/ ObserveResponse(r) \/ DispatchRefused(r) \/ DispatchEnqueue(r)
             \/ DispatchInterrupted(r) \/ Interrupt(r) \/ CancelRequest(r) \/ AbandonStep(r)
             \/ ReleaseStep(r)
    BY <1>1, <2>7 DEF ObserveResponse, DispatchRefused, DispatchEnqueue,
       DispatchInterrupted, Interrupt, CancelRequest, CancelTest, CancelSend, CancelFrame,
       AbandonStep, AbandonDetaches, AbandonReleased, ReleaseStep, ReleaseStart,
       ReleaseFinish
  <2> QED
    BY <1>4, <2>1, <2>2, <2>3, <2>4, <2>5, <2>6, <2>7 DEF RequestStep, DispatchStep
<1>5. ASSUME NEW w \in Waiters, CallerStep(w) PROVE Goal
  <2>0. WaitsOn[w] \in Requests
    BY WaitersAssumption
  <2>1. ASSUME NEW v, Settle(w, v), phase' = [phase EXCEPT ![WaitsOn[w]] = "finished"]
        PROVE  Goal
    BY <1>0, <2>0, <2>1 DEF Settle, SettledResult
  <2>2. CASE WaitReady(w)
    BY <1>0, <2>0, <2>2 DEF WaitReady
  <2>3. CASE WaitDone(w)
    BY <1>0, <2>0, <2>3 DEF WaitDone
  <2>4. CASE WaitLosesConnection(w)
    BY <2>1, <2>4 DEF WaitLosesConnection
  <2>5. ASSUME NEW v, WaitSettles(w, v) PROVE Goal
    BY <2>1, <2>5 DEF WaitSettles
  <2>6. CASE \/ WaitReads(w) \/ WaitCancelled(w) \/ WaitStays(w) \/ WaitResolves(w)
             \/ WaitNotified(w) \/ WaitGivesUp(w) \/ WaitReleased(w)
    BY <1>1, <2>6 DEF WaitReads, WaitCancelled, WaitStays, WaitResolves, WaitNotified,
       WaitGivesUp, WaitReleased
  <2> QED
    BY <1>5, <2>2, <2>3, <2>4, <2>5, <2>6 DEF CallerStep, WaitStep
<1>6. CASE WriterStep \/ BeginShutdown \/ ShutdownStep \/ \E r \in Requests : ReaderStep(r)
  BY <1>1, <1>6 DEF WriterStep, WriterTop, WriterStops, WriterTakesRequest,
     WriterTakesCancel, WriterInvokes, WriterShutsDown, WriterReturns, WriterFrame,
     BeginShutdown, ShutdownStep, EndShutdown, DrainOne, ReaderStep, ResponseArrives,
     ResponseCompletes, ConnFrame
<1>7. CASE UNCHANGED vars
  BY <1>1, <1>7 DEF vars
<1> QED
  BY <1>4, <1>5, <1>6, <1>7 DEF Next

\* Only Abandon adds to the abandoned requests.
LEMMA AbandonedGrows ==
    ASSUME TypeOK, [Next]_vars, NEW x \in Requests, x \in abandoned', x \notin abandoned
    PROVE  phase'[x] = "abandoned" /\ resolved[x] = "no" /\ Abandon(x)
<1>1. ASSUME NEW r \in Requests, RequestStep(r), ~Abandon(r) PROVE UNCHANGED abandoned
  BY <1>1 DEF RequestStep, Prepare, ObserveResponse, DispatchStart, DispatchRefused,
     DispatchStep, DispatchEnqueue, DispatchInterrupted, DispatchSeesAbandon, CompleteWrite,
     DispatchFinish, FailDispatch, DispatchReleased, Interrupt, CancelRequest, CancelTest,
     CancelSend, CancelFrame, AbandonStep, AbandonDetaches, AbandonReleased, ReleaseStep,
     ReleaseStart, ReleaseFinish, DispatchFrame, AbandonFrame
<1>2. ASSUME NEW w \in Waiters, CallerStep(w) PROVE UNCHANGED abandoned
  BY <1>2 DEF CallerStep, WaitStep, WaitReads, WaitReady, WaitCancelled, WaitStays, WaitDone,
     WaitResolves, WaitNotified, WaitGivesUp, WaitLosesConnection, WaitSettles, WaitReleased,
     WaitFrame
<1>3. CASE WriterStep
  BY <1>3 DEF WriterStep, WriterTop, WriterStops, WriterTakesRequest, WriterTakesCancel,
     WriterInvokes, WriterShutsDown, WriterReturns, WriterFrame
<1>4. CASE BeginShutdown \/ ShutdownStep \/ \E r \in Requests : ReaderStep(r)
  BY <1>4 DEF BeginShutdown, ShutdownStep, EndShutdown, DrainOne, ReaderStep, ResponseArrives,
     ResponseCompletes, ConnFrame
<1>5. ASSUME NEW r \in Requests, Abandon(r)
      PROVE  phase'[x] = "abandoned" /\ resolved[x] = "no" /\ Abandon(x)
  BY <1>5 DEF Abandon, TypeOK
<1> QED
  BY <1>1, <1>2, <1>3, <1>4, <1>5 DEF Next, vars

\* An entry completed with an error stays so.
LEMMA ErrorStays ==
    ASSUME TypeOK, IInv, [Next]_vars, NEW x \in Requests, done[x] = "error"
    PROVE  done'[x] = "error"
<1>0. done \in [Requests -> DoneStates]
  BY DEF TypeOK
<1>1. CASE Calm
  BY <1>1 DEF Calm
<1>2. ASSUME NEW r \in Requests, BarrierStep(r) PROVE done'[x] = "error"
  <2>1. CASE Prepare(r) \/ ResponseArrives(r) \/ ReleaseFinish(r)
    BY <2>1 DEF Prepare, ResponseArrives, ReleaseFinish
  <2>2. CASE ResponseCompletes(r)
    <3>1. done[r] = "open"
      BY <2>2 DEF ResponseCompletes, IInv, EntryInv
    <3> QED
      BY <1>0, <2>2, <3>1 DEF ResponseCompletes
  <2>3. CASE DrainOne(r)
    BY <1>0, <2>3 DEF DrainOne
  <2>4. CASE ReleaseStart(r)
    BY <1>0, <2>4 DEF ReleaseStart
  <2> QED
    BY <1>2, <2>1, <2>2, <2>3, <2>4 DEF BarrierStep, ReleaseStep
<1> QED
  BY <1>1, <1>2, BarrierSteps

\* A result is stored once, by the Wait that resolves the response.
LEMMA ResultStored ==
    ASSUME TypeOK, IInv, [Next]_vars, NEW x \in Requests
    PROVE  /\ resolved[x] # "no" => resolved'[x] = resolved[x]
           /\ resolved'[x] = "ok" /\ resolved[x] # "ok" =>
                 \E w \in Waiters : WaitsOn[w] = x /\ WaitSettles(w, "ok")
                                    /\ phase[x] # "abandoned"
<1>0. resolved \in [Requests -> Results]
  BY DEF TypeOK
<1>1. UNCHANGED resolved => UNCHANGED resolved[x]
  OBVIOUS
<1>2. ASSUME NEW w \in Waiters, CallerStep(w)
      PROVE  /\ resolved[x] # "no" => resolved'[x] = resolved[x]
             /\ resolved'[x] = "ok" /\ resolved[x] # "ok" =>
                   WaitsOn[w] = x /\ WaitSettles(w, "ok") /\ phase[x] # "abandoned"
  <2>0. WaitsOn[w] \in Requests
    BY WaitersAssumption
  <2>1. waitPc[w] \in Resolving => resolved[WaitsOn[w]] = "no"
    BY <2>0 DEF IInv, ResolveInv
  <2>2. CASE WaitGivesUp(w) \/ WaitLosesConnection(w) \/ WaitSettles(w, "error")
    BY <1>0, <2>0, <2>1, <2>2 DEF WaitGivesUp, WaitLosesConnection, WaitSettles, Settle,
       SettledResult, Resolving
  <2>3. CASE WaitSettles(w, "ok")
    BY <1>0, <2>0, <2>1, <2>3 DEF WaitSettles, Settle, SettledResult, Resolving
  <2>4. CASE \/ WaitReads(w) \/ WaitReady(w) \/ WaitCancelled(w) \/ WaitStays(w)
             \/ WaitDone(w) \/ WaitResolves(w) \/ WaitNotified(w) \/ WaitReleased(w)
    BY <1>1, <2>4 DEF WaitReads, WaitReady, WaitCancelled, WaitStays, WaitDone, WaitResolves,
       WaitNotified, WaitReleased
  <2> QED
    BY <1>2, <2>2, <2>3, <2>4 DEF CallerStep, WaitStep
<1>3. ASSUME NEW r \in Requests, RequestStep(r) PROVE UNCHANGED resolved
  BY <1>3 DEF RequestStep, Prepare, ObserveResponse, DispatchStart, DispatchRefused,
     DispatchStep, DispatchEnqueue, DispatchInterrupted, DispatchSeesAbandon, CompleteWrite,
     DispatchFinish, FailDispatch, DispatchReleased, Interrupt, CancelRequest, CancelTest,
     CancelSend, CancelFrame, Abandon, AbandonStep, AbandonDetaches, AbandonReleased,
     ReleaseStep, ReleaseStart, ReleaseFinish, DispatchFrame, AbandonFrame
<1>4. WriterStep => UNCHANGED resolved
  BY DEF WriterStep, WriterTop, WriterStops, WriterTakesRequest, WriterTakesCancel,
     WriterInvokes, WriterShutsDown, WriterReturns, WriterFrame
<1>5. BeginShutdown \/ ShutdownStep \/ (\E r \in Requests : ReaderStep(r)) => UNCHANGED resolved
  BY DEF BeginShutdown, ShutdownStep, EndShutdown, DrainOne, ReaderStep, ResponseArrives,
     ResponseCompletes, ConnFrame
<1> QED
  BY <1>1, <1>2, <1>3, <1>4, <1>5 DEF Next, vars

LEMMA AbandonedKept ==
    ASSUME TypeOK, TypeOK', IInv, AbandonedInv, [Next]_vars
    PROVE  AbandonedInv'
<1>1. abandoned' \subseteq Requests
  BY DEF TypeOK
<1>2. ASSUME NEW x \in Requests, x \in abandoned'
      PROVE  phase'[x] = "abandoned" \/ done'[x] = "error" \/ resolved'[x] \notin {"no", "ok"}
  BY <1>2, AbandonedGrows, AbandonedStays, ErrorStays, ResultStored DEF AbandonedInv
<1> QED
  BY <1>1, <1>2 DEF AbandonedInv

LEMMA SubmittedKept == ASSUME TypeOK, IInv, RInv, SubmittedInv, [Next]_vars PROVE SubmittedInv'
<1>0. writeDone \in [Requests -> WriteResults] /\ CancelInv /\ QueueInv
  BY DEF TypeOK, RInv, IInv
<1>1. ASSUME UNCHANGED <<submitted, writing, writeDone, writer>> PROVE SubmittedInv'
  BY <1>1 DEF SubmittedInv, Write
<1>2. ASSUME NEW r \in Requests, RequestStep(r) PROVE SubmittedInv'
  BY <1>1, <1>2 DEF RequestStep, Prepare, ObserveResponse, DispatchStart, DispatchRefused,
     DispatchStep, DispatchEnqueue, DispatchInterrupted, DispatchSeesAbandon, CompleteWrite,
     DispatchFinish, FailDispatch, DispatchReleased, Interrupt, CancelRequest, CancelTest,
     CancelSend, CancelFrame, Abandon, AbandonStep, AbandonDetaches, AbandonReleased,
     ReleaseStep, ReleaseStart, ReleaseFinish, DispatchFrame, AbandonFrame
<1>3. ASSUME NEW w \in Waiters, CallerStep(w) PROVE SubmittedInv'
  BY <1>1, <1>3 DEF CallerStep, WaitStep, WaitReads, WaitReady, WaitCancelled, WaitStays,
     WaitDone, WaitResolves, WaitNotified, WaitGivesUp, WaitLosesConnection, WaitSettles,
     WaitReleased, WaitFrame
<1>4. CASE BeginShutdown \/ ShutdownStep \/ \E r \in Requests : ReaderStep(r)
  BY <1>1, <1>4 DEF BeginShutdown, ShutdownStep, EndShutdown, DrainOne, ReaderStep,
     ResponseArrives, ResponseCompletes, ConnFrame
<1>5. CASE WriterTakesRequest
  <2>1. PICK r \in Requests : Head(writeQueue) = Write(r) /\ Head(writeQueue).req = r
    BY <1>0, <1>5, TakenWrite
  <2>2. writing = NoItem /\ \A x : NoItem # Write(x)
    BY <1>5 DEF WriterTakesRequest, SubmittedInv, NoItem, Write
  <2>3. CASE /\ submitted' = submitted \cup {r} /\ writing' = Write(r)
             /\ writer' = "begun" /\ UNCHANGED writeDone
    BY <2>2, <2>3 DEF SubmittedInv, Write
  <2>4. CASE /\ writeDone' = [writeDone EXCEPT ![r] = "fail"]
             /\ UNCHANGED <<submitted, writing>>
    BY <1>0, <2>2, <2>4 DEF SubmittedInv, TypeOK
  <2> QED
    BY <1>5, <2>1, <2>3, <2>4 DEF WriterTakesRequest
<1>6. CASE WriterTakesCancel
  <2>1. writing = NoItem /\ \A x : NoItem # Write(x)
    BY <1>6 DEF WriterTakesCancel, SubmittedInv, NoItem, Write
  <2> QED
    BY <1>6, <2>1 DEF WriterTakesCancel, SubmittedInv
<1>7. CASE WriterInvokes
  BY <1>7 DEF WriterInvokes, SubmittedInv, Write
<1>8. ASSUME NEW ok \in BOOLEAN, WriterReturns(ok) PROVE SubmittedInv'
  <2>1. /\ writing \in Items /\ writing' = NoItem /\ UNCHANGED submitted
        /\ writeDone' = IF writing.kind = "request"
                        THEN [writeDone EXCEPT ![writing.req] = IF ok THEN "ok" ELSE "fail"]
                        ELSE writeDone
    BY <1>8 DEF WriterReturns, TypeOK
  <2>2. ASSUME NEW x \in submitted PROVE writeDone'[x] # "none"
    <3>1. x \in Requests /\ (writing = Write(x) \/ writeDone[x] # "none")
      BY <2>2 DEF SubmittedInv, TypeOK
    <3>2. writing.req \in Requests
      BY <2>1 DEF Items
    <3>3. writing = Write(x) => writing.kind = "request" /\ writing.req = x
      BY DEF Write
    <3> QED
      BY <1>0, <2>1, <3>1, <3>2, <3>3
  <2> QED
    BY <2>1, <2>2 DEF SubmittedInv
<1>9. CASE WriterTop \/ WriterStops \/ WriterShutsDown
  BY <1>9 DEF WriterTop, WriterStops, WriterShutsDown, SubmittedInv, Write
<1>10. CASE UNCHANGED vars
  BY <1>1, <1>10 DEF vars
<1> QED
  BY <1>2, <1>3, <1>4, <1>5, <1>6, <1>7, <1>8, <1>9, <1>10 DEF Next, WriterStep

THEOREM SInvariance == Spec => []SInv
<1>1. Init => SInv
  BY DEF Init, SInv, AbandonedInv, SubmittedInv, NoItem
<1>2. TypeOK /\ TypeOK' /\ IInv /\ RInv /\ SInv /\ [Next]_vars => SInv'
  BY AbandonedKept, SubmittedKept DEF SInv
<1> QED
  BY <1>1, <1>2, TypeCorrect, Invariance, ReleaseInvariance, PTL DEF Spec

-----------------------------------------------------------------------------
(* The state of the promise *)

FrameAt(r) ==
    IF phase[r] = "none" THEN "new"
    ELSE IF writeDone[r] = "ok" THEN "accepted"
    ELSE IF r \in submitted THEN "started"
    ELSE IF r \in claimed THEN "denied" ELSE "unsent"

OutcomeAt(r) ==
    IF resolved[r] = "ok" THEN "ok"
    ELSE IF r \in abandoned \/ verdicts[r] # {} \/ resolved[r] # "no" THEN "over" ELSE "open"

Invariants == TypeOK /\ IInv /\ RInv /\ SInv

\* Whether a request is prepared changes in Prepare only.
SamePrepared == \A x \in Requests : (phase'[x] = "none") <=> (phase[x] = "none")

LEMMA PromiseState ==
    /\ Frame = [r \in Requests |-> FrameAt(r)]
    /\ Frame' = [r \in Requests |-> FrameAt(r)']
    /\ Outcome = [r \in Requests |-> OutcomeAt(r)]
    /\ Outcome' = [r \in Requests |-> OutcomeAt(r)']
BY DEF Frame, FrameAt, Outcome, OutcomeAt

LEMMA FrameStays ==
    ASSUME UNCHANGED <<submitted, writeDone, claimed>>, SamePrepared
    PROVE  UNCHANGED Frame
<1>1. \A x \in Requests : FrameAt(x)' = FrameAt(x)
  BY DEF FrameAt, SamePrepared
<1> QED
  BY <1>1, PromiseState

\* What one request's step does to its frame.
LEMMA FrameMoves ==
    ASSUME NEW r \in Requests, NEW f, FrameAt(r)' = f,
           \A x \in Requests : x # r => FrameAt(x)' = FrameAt(x)
    PROVE  Frame' = [Frame EXCEPT ![r] = f]
BY PromiseState

LEMMA OutcomeStays ==
    ASSUME UNCHANGED <<resolved, abandoned, verdicts>> PROVE UNCHANGED Outcome
BY DEF Outcome

\* A call that reports NotStarted, or not, is a report the promise allows.
LEMMA Denial ==
    ASSUME NEW r \in Requests, UNCHANGED <<submitted, writeDone>>, SamePrepared,
           claimed' \in {claimed, claimed \cup {r}}
    PROVE  Promise!MayDeny(r)
<1>1. \A x \in Requests : x # r => FrameAt(x)' = FrameAt(x)
  BY DEF FrameAt, SamePrepared
<1>2. FrameAt(r)' \in {FrameAt(r), IF FrameAt(r) = "unsent" THEN "denied" ELSE FrameAt(r)}
  BY DEF FrameAt, SamePrepared
<1>3. Frame[r] = FrameAt(r)
  BY PromiseState
<1>4. CASE FrameAt(r)' = FrameAt(r)
  <2>1. Frame' = Frame
    BY <1>1, <1>4, PromiseState
  <2> QED
    BY <2>1 DEF Promise!MayDeny
<1>5. CASE FrameAt(r)' # FrameAt(r)
  <2>1. Frame' = [Frame EXCEPT ![r] = IF Frame[r] = "unsent" THEN "denied" ELSE Frame[r]]
    BY <1>1, <1>2, <1>3, <1>5, PromiseState
  <2> QED
    BY <2>1 DEF Promise!MayDeny
<1> QED
  BY <1>4, <1>5

\* No Wait gets the result of r from here on.
LEMMA Ending ==
    ASSUME NEW r \in Requests, Promise!MayDeny(r), OutcomeAt(r) # "ok", OutcomeAt(r)' = "over",
           \A x \in Requests : x # r => OutcomeAt(x)' = OutcomeAt(x),
           UNCHANGED <<pending, responded, dispatchErr, observer, observed, cancelSent>>
    PROVE  Promise!End(r)
<1>1. Outcome[r] # "ok" /\ Outcome' = [Outcome EXCEPT ![r] = "over"]
  BY PromiseState
<1> QED
  BY <1>1 DEF Promise!End

\* Steps that the promise does not see.
LEMMA Unseen ==
    ASSUME SamePrepared,
           UNCHANGED <<pending, responded, dispatchErr, observer, observed, cancelSent,
                       submitted, writeDone, claimed, resolved, abandoned, verdicts>>
    PROVE  UNCHANGED Promise!vars
BY FrameStays, OutcomeStays DEF Promise!vars

\* Before Dispatch nothing of a request is written and nobody was told NotStarted.
LEMMA EarlyFacts ==
    ASSUME Invariants, NEW r \in Requests, phase[r] \in {"none", "ready"}
    PROVE  r \notin submitted /\ r \notin claimed /\ writeDone[r] = "none"
<1>1. dispatchPc[r] = "idle"
  BY DEF Invariants, IInv, DispatchInv
<1>2. writeDone[r] = "none" /\ writing # Write(r)
  BY <1>1 DEF Invariants, IInv, QueueInv
<1>3. r \notin submitted
  BY <1>2 DEF Invariants, SInv, SubmittedInv
<1> QED
  BY <1>2, <1>3 DEF Invariants, IInv, ClaimInv, Over

-----------------------------------------------------------------------------
(* The steps of the calls *)

LEMMA PrepareImplements ==
    ASSUME Invariants, NEW r \in Requests, Prepare(r)
    PROVE  Promise!Prepare(r)
<1>1. phase[r] = "none" /\ phase' = [phase EXCEPT ![r] = "ready"]
  BY DEF Prepare
<1>2. phase \in [Requests -> Phases]
  BY DEF Invariants, TypeOK
<1>3. UNCHANGED <<submitted, writeDone, claimed, resolved, abandoned, verdicts>>
  BY DEF Prepare
<1>4. FrameAt(r) = "new" /\ FrameAt(r)' = "unsent"
  BY <1>1, <1>2, <1>3, EarlyFacts DEF FrameAt
<1>5. \A x \in Requests : x # r => FrameAt(x)' = FrameAt(x)
  BY <1>1, <1>2, <1>3 DEF FrameAt
<1>6. Frame[r] = "new" /\ Frame' = [Frame EXCEPT ![r] = "unsent"]
  BY <1>4, <1>5, PromiseState
<1>7. UNCHANGED Outcome
  BY <1>3, OutcomeStays
<1>8. Promise!Cardinality(pending) = Cardinality(pending)
  BY DEF Promise!Cardinality, Cardinality
<1>9. /\ Cardinality(pending) < MaxPendingRequests /\ pending' = pending \cup {r}
      /\ UNCHANGED <<responded, dispatchErr, observer, observed, cancelSent>>
  BY DEF Prepare
<1> QED
  BY <1>6, <1>7, <1>8, <1>9 DEF Promise!Prepare

LEMMA ObserveImplements ==
    ASSUME Invariants, NEW r \in Requests, ObserveResponse(r)
    PROVE  Promise!Watch(r)
<1>1. UNCHANGED Frame /\ UNCHANGED Outcome
  BY FrameStays, OutcomeStays DEF ObserveResponse, SamePrepared
<1>2. FrameAt(r) = "unsent"
  BY EarlyFacts DEF ObserveResponse, FrameAt
<1>3. Frame[r] = "unsent"
  BY <1>2, PromiseState
<1> QED
  BY <1>1, <1>3 DEF ObserveResponse, Promise!Watch

\* What Dispatch reports: an error of a request that was abandoned or given back, with or
\* without NotStarted, or the full write of the frame.
LEMMA DispatchReports ==
    ASSUME Invariants, SamePrepared, NEW r \in Requests, DispatchFrame,
           claimed' \in {claimed, claimed \cup {r}},
           NEW e, NEW p, CompleteDispatch(r, e, p), dispatchPc[r] # "returned",
           \/ e = "nil" /\ dispatchPc[r] = "finish" /\ UNCHANGED claimed
           \/ e = "error" /\ dispatchPc[r] # "idle"
                          /\ (r \in abandoned \/ phase[r] = "abandoned")
           \/ e = "error" /\ Released(r)
    PROVE  Promise!Dispatched(r, e)
<1>1. UNCHANGED <<pending, responded, observer, observed, cancelSent, submitted, writeDone,
                  resolved, abandoned, verdicts>>
  BY DEF DispatchFrame
<1>2. UNCHANGED Outcome
  BY <1>1, OutcomeStays
<1>3. dispatchErr[r] = "none" /\ dispatchErr' = [dispatchErr EXCEPT ![r] = e]
  BY DEF CompleteDispatch, Invariants, IInv, DispatchInv
<1>4. Promise!MayDeny(r)
  BY <1>1, Denial
<1>5. ASSUME e = "nil", dispatchPc[r] = "finish", UNCHANGED claimed
      PROVE  Frame[r] = "accepted" /\ UNCHANGED Frame
  <2>1. phase[r] # "none"
    BY <1>5 DEF Invariants, IInv, DispatchInv
  <2>2. writeDone[r] = "ok"
    BY <1>5 DEF Invariants, RInv, CancelInv
  <2>3. FrameAt(r) = "accepted"
    BY <2>1, <2>2 DEF FrameAt
  <2> QED
    BY <1>1, <1>5, <2>3, PromiseState, FrameStays
<1>6. ASSUME dispatchPc[r] # "idle", r \in abandoned \/ phase[r] = "abandoned"
      PROVE  Outcome[r] = "over"
  <2>1. r \in abandoned
    BY <1>6 DEF Invariants, RInv, ReleaseInv
  <2>2. resolved[r] = "no"
    BY <1>3, <1>6 DEF Invariants, IInv, ResolveInv
  <2>3. OutcomeAt(r) = "over"
    BY <2>1, <2>2 DEF OutcomeAt
  <2> QED
    BY <2>3, PromiseState
<1>7. Released(r) => r \notin pending
  BY DEF Released, Invariants, RInv, ReleaseInv
<1> QED
  BY <1>1, <1>2, <1>3, <1>4, <1>5, <1>6, <1>7 DEF Promise!Dispatched

LEMMA DispatchImplements ==
    ASSUME Invariants, SamePrepared, NEW r \in Requests,
           DispatchRefused(r) \/ DispatchStart(r) \/ DispatchStep(r)
    PROVE  \/ UNCHANGED Promise!vars \/ Promise!Deny(r)
           \/ \E e \in {"nil", "error"} : Promise!Dispatched(r, e)
<1> DEFINE Goal == \/ UNCHANGED Promise!vars \/ Promise!Deny(r)
                   \/ \E e \in {"nil", "error"} : Promise!Dispatched(r, e)
<1>1. DispatchFrame
  BY DEF DispatchRefused, DispatchStart, DispatchStep, DispatchEnqueue, DispatchInterrupted,
     DispatchSeesAbandon, CompleteWrite, DispatchFinish, FailDispatch, DispatchReleased
<1>2. claimed' \in {claimed, claimed \cup {r}}
  BY DEF DispatchRefused, DispatchStart, DispatchStep, DispatchEnqueue, DispatchInterrupted,
     DispatchSeesAbandon, CompleteWrite, DispatchFinish, FailDispatch, DispatchReleased,
     Claim, ClaimUnsubmitted
<1>3. ASSUME UNCHANGED dispatchErr PROVE Promise!Deny(r)
  <2>1. Promise!MayDeny(r)
    BY <1>1, <1>2, Denial DEF DispatchFrame
  <2>2. UNCHANGED Outcome
    BY <1>1, OutcomeStays DEF DispatchFrame
  <2> QED
    BY <1>1, <1>3, <2>1, <2>2 DEF Promise!Deny, DispatchFrame
<1>4. ASSUME NEW p, CompleteDispatch(r, "error", p), dispatchPc[r] \in {"await", "enqueue", "fail"},
             r \in abandoned \/ phase[r] = "abandoned"
      PROVE  Goal
  <2>1. Promise!Dispatched(r, "error")
    BY <1>1, <1>2, <1>4, DispatchReports
  <2> QED
    BY <2>1
<1>5. CASE DispatchRefused(r) \/ DispatchStart(r) \/ DispatchEnqueue(r) \/ DispatchInterrupted(r)
  BY <1>3, <1>5 DEF DispatchRefused, DispatchStart, DispatchEnqueue, DispatchInterrupted
<1>6. CASE DispatchSeesAbandon(r)
  BY <1>4, <1>6 DEF DispatchSeesAbandon
<1>7. CASE CompleteWrite(r)
  BY <1>3, <1>4, <1>7 DEF CompleteWrite
<1>8. CASE FailDispatch(r)
  BY <1>3, <1>4, <1>8 DEF FailDispatch
<1>9. CASE DispatchFinish(r)
  <2>1. Promise!Dispatched(r, "nil")
    BY <1>1, <1>9, DispatchReports DEF DispatchFinish
  <2> QED
    BY <2>1
<1>10. CASE DispatchReleased(r)
  <2>1. Promise!Dispatched(r, "error")
    BY <1>1, <1>2, <1>10, DispatchReports DEF DispatchReleased
  <2> QED
    BY <2>1
<1> QED
  BY <1>5, <1>6, <1>7, <1>8, <1>9, <1>10 DEF DispatchStep

LEMMA AbandonImplements ==
    ASSUME Invariants, SamePrepared, NEW r \in Requests, Abandon(r)
    PROVE  Promise!Deny(r) \/ Promise!End(r)
<1>1. UNCHANGED <<pending, responded, dispatchErr, observer, observed, cancelSent, submitted,
                  writeDone, resolved, verdicts>>
  BY DEF Abandon, AbandonFrame
<1>2. Promise!MayDeny(r)
  BY <1>1, Denial DEF Abandon, ClaimUnsubmitted
<1>3. CASE UNCHANGED abandoned
  BY <1>1, <1>2, <1>3, OutcomeStays DEF Promise!Deny
<1>4. CASE resolved[r] = "no" /\ abandoned' = abandoned \cup {r}
  <2>1. OutcomeAt(r) # "ok" /\ OutcomeAt(r)' = "over"
    BY <1>1, <1>4 DEF OutcomeAt
  <2>2. \A x \in Requests : x # r => OutcomeAt(x)' = OutcomeAt(x)
    BY <1>1, <1>4 DEF OutcomeAt
  <2> QED
    BY <1>1, <1>2, <2>1, <2>2, Ending
<1> QED
  BY <1>3, <1>4 DEF Abandon

\* A Wait returns: with NotStarted or not, and for good unless the result is stored.
LEMMA CallReturns ==
    ASSUME NEW r \in Requests, SamePrepared,
           UNCHANGED <<pending, responded, dispatchErr, observer, observed, cancelSent,
                       submitted, writeDone, resolved, abandoned>>,
           claimed' \in {claimed, claimed \cup {r}},
           \/ UNCHANGED verdicts
           \/ \E v : /\ verdicts \in [Requests -> SUBSET (Results \cup {"empty"})]
                     /\ verdicts' = [verdicts EXCEPT ![r] = @ \cup {v}]
    PROVE  Promise!Deny(r) \/ Promise!End(r)
<1>1. Promise!MayDeny(r)
  BY Denial
<1>2. \A x \in Requests : x # r => OutcomeAt(x)' = OutcomeAt(x)
  BY DEF OutcomeAt
<1>3. OutcomeAt(r)' = OutcomeAt(r) \/ (OutcomeAt(r) # "ok" /\ OutcomeAt(r)' = "over")
  BY DEF OutcomeAt
<1>4. CASE OutcomeAt(r)' = OutcomeAt(r)
  <2>1. UNCHANGED Outcome
    BY <1>2, <1>4, PromiseState
  <2> QED
    BY <1>1, <2>1 DEF Promise!Deny
<1>5. CASE OutcomeAt(r) # "ok" /\ OutcomeAt(r)' = "over"
  BY <1>1, <1>2, <1>5, Ending
<1> QED
  BY <1>3, <1>4, <1>5

\* An attempt to resolve the response ends without its result,
LEMMA AttemptFails ==
    ASSUME Invariants, SamePrepared, NEW w \in Waiters, NEW v \in {"error", "abandoned"},
           waitPc[w] \in Resolving, Settle(w, v), WaitFrame,
           UNCHANGED <<claimVars, resultVars>>
    PROVE  Promise!End(WaitsOn[w])
<1> DEFINE r == WaitsOn[w]
<1>0. r \in Requests
  BY WaitersAssumption
<1>1. UNCHANGED <<pending, responded, dispatchErr, observer, observed, cancelSent, submitted,
                  writeDone, abandoned, claimed, verdicts>>
  BY DEF WaitFrame
<1>2. Promise!MayDeny(r)
  BY <1>0, <1>1, Denial
<1>3. resolved[r] = "no"
  BY <1>0 DEF Invariants, IInv, ResolveInv
<1>4. resolved'[r] \in {"error", "abandoned"} /\ \A x \in Requests : x # r => resolved'[x] = resolved[x]
  BY <1>0 DEF Settle, SettledResult, Invariants, TypeOK
<1>5. OutcomeAt(r) # "ok" /\ OutcomeAt(r)' = "over"
  BY <1>3, <1>4 DEF OutcomeAt
<1>6. \A x \in Requests : x # r => OutcomeAt(x)' = OutcomeAt(x)
  BY <1>1, <1>4 DEF OutcomeAt
<1> QED
  BY <1>0, <1>1, <1>2, <1>5, <1>6, Ending

\* or with it, and then nobody has been told anything else.
LEMMA AttemptSucceeds ==
    ASSUME Invariants, SamePrepared, NEW w \in Waiters, WaitSettles(w, "ok"),
           phase[WaitsOn[w]] # "abandoned"
    PROVE  Promise!Succeed(WaitsOn[w])
<1> DEFINE r == WaitsOn[w]
<1>0. r \in Requests /\ waitPc[w] = "observe"
  BY WaitersAssumption DEF WaitSettles
<1>1. UNCHANGED <<pending, responded, dispatchErr, observer, observed, cancelSent, submitted,
                  writeDone, abandoned, claimed, verdicts>>
  BY DEF WaitSettles, WaitFrame
<1>2. resolved[r] = "no" /\ (r \in observer => observed[r] = 1)
  BY <1>0 DEF Invariants, IInv, ResolveInv, Resolving
<1>3. done[r] = "response" /\ r \in responded
  BY <1>0 DEF Invariants, IInv, WaitInv, Answered, EntryInv
<1>4. dispatchErr[r] \in {"none", "nil"} /\ (dispatchPc[r] = "idle" \/ dispatchErr[r] = "nil")
  BY <1>0 DEF Invariants, IInv, WaitInv, Awaiting, DispatchInv
<1>5. r \notin abandoned
  BY <1>2, <1>3 DEF Invariants, SInv, AbandonedInv
<1>6. verdicts[r] = {}
  <2>1. verdicts[r] \subseteq {"no", "ok", "error", "abandoned", "empty"}
    BY <1>0 DEF Invariants, TypeOK, Results
  <2>2. /\ "no" \notin verdicts[r] /\ "ok" \notin verdicts[r] /\ "abandoned" \notin verdicts[r]
        /\ "error" \notin verdicts[r] /\ "empty" \notin verdicts[r]
    BY <1>0, <1>2, <1>3, <1>4 DEF Invariants, IInv, VerdictInv
  <2> QED
    BY <2>1, <2>2
<1>7. resolved'[r] = "ok" /\ \A x \in Requests : x # r => resolved'[x] = resolved[x]
  BY <1>0 DEF WaitSettles, Settle, SettledResult, Invariants, TypeOK
<1>8. OutcomeAt(r) = "open" /\ OutcomeAt(r)' = "ok"
  BY <1>2, <1>5, <1>6, <1>7 DEF OutcomeAt
<1>9. \A x \in Requests : x # r => OutcomeAt(x)' = OutcomeAt(x)
  BY <1>1, <1>7 DEF OutcomeAt
<1>10. Outcome[r] = "open" /\ Outcome' = [Outcome EXCEPT ![r] = "ok"]
  BY <1>0, <1>8, <1>9, PromiseState
<1>11. UNCHANGED Frame
  BY <1>1, FrameStays
<1> QED
  BY <1>1, <1>2, <1>3, <1>10, <1>11 DEF Promise!Succeed

LEMMA NotifiedImplements ==
    ASSUME Invariants, SamePrepared, NEW w \in Waiters, WaitNotified(w)
    PROVE  UNCHANGED Promise!vars \/ Promise!Observe(WaitsOn[w])
<1> DEFINE r == WaitsOn[w]
<1>0. r \in Requests /\ waitPc[w] = "complete"
  BY WaitersAssumption DEF WaitNotified
<1>1. UNCHANGED <<pending, responded, dispatchErr, observer, cancelSent, submitted,
                  writeDone, resolved, abandoned, claimed, verdicts>>
  BY DEF WaitNotified, WaitFrame
<1>2. UNCHANGED Frame /\ UNCHANGED Outcome
  BY <1>1, FrameStays, OutcomeStays
<1>3. CASE r \notin observer
  <2>1. UNCHANGED observed
    BY <1>3 DEF WaitNotified
  <2> QED
    BY <1>1, <1>2, <2>1 DEF Promise!vars
<1>4. CASE r \in observer
  <2>1. observed[r] = 0 /\ resolved[r] = "no"
    BY <1>0 DEF Invariants, IInv, ResolveInv, Resolving
  <2>2. observed' = [observed EXCEPT ![r] = 1]
    <3>1. observed' = [observed EXCEPT ![r] = observed[r] + 1] /\ observed[r] + 1 = 1
      BY <1>4, <2>1 DEF WaitNotified
    <3> QED
      BY <3>1
  <2>3. r \in responded
    BY <1>0 DEF Invariants, IInv, WaitInv, Answered, EntryInv
  <2>4. OutcomeAt(r) # "ok"
    BY <2>1 DEF OutcomeAt
  <2>5. Outcome[r] # "ok"
    BY <1>0, <2>4, PromiseState
  <2> QED
    BY <1>1, <1>2, <1>4, <2>1, <2>2, <2>3, <2>5 DEF Promise!Observe
<1> QED
  BY <1>3, <1>4

LEMMA WaitImplements ==
    ASSUME Invariants, SamePrepared, NEW w \in Waiters, CallerStep(w)
    PROVE  \/ UNCHANGED Promise!vars
           \/ \E r \in Requests : \/ Promise!Deny(r) \/ Promise!End(r) \/ Promise!Observe(r)
                                  \/ Promise!Succeed(r)
<1> DEFINE r == WaitsOn[w]
           Goal == \/ UNCHANGED Promise!vars
                   \/ \E x \in Requests : \/ Promise!Deny(x) \/ Promise!End(x)
                                          \/ Promise!Observe(x) \/ Promise!Succeed(x)
<1>0. r \in Requests /\ verdicts \in [Requests -> SUBSET (Results \cup {"empty"})]
  BY WaitersAssumption DEF Invariants, TypeOK
<1>1. ASSUME Promise!Deny(r) \/ Promise!End(r) \/ Promise!Observe(r) \/ Promise!Succeed(r)
      PROVE  Goal
  BY <1>0, <1>1
<1>2. CASE \/ WaitReads(w) \/ WaitReady(w) \/ WaitCancelled(w) \/ WaitStays(w) \/ WaitDone(w)
           \/ WaitResolves(w) \/ WaitReleased(w)
  <2>1. UNCHANGED <<pending, responded, dispatchErr, observer, observed, cancelSent,
                    submitted, writeDone, resolved, abandoned>>
    BY <1>2 DEF WaitReads, WaitReady, WaitCancelled, WaitStays, WaitDone, WaitResolves,
       WaitReleased, WaitFrame
  <2>2. claimed' \in {claimed, claimed \cup {r}}
    BY <1>2 DEF WaitReads, WaitReady, WaitCancelled, WaitStays, WaitDone, WaitResolves,
       WaitReleased, Claim, ClaimUnsubmitted
  <2>3. UNCHANGED verdicts \/ \E v : verdicts' = [verdicts EXCEPT ![r] = @ \cup {v}]
    BY <1>2 DEF WaitReads, WaitReady, WaitCancelled, WaitStays, WaitDone, WaitResolves,
       WaitReleased, Return, ReturnUnsettled
  <2> QED
    BY <1>0, <1>1, <2>1, <2>2, <2>3, CallReturns
<1>3. CASE WaitNotified(w)
  BY <1>1, <1>3, NotifiedImplements
<1>4. CASE WaitGivesUp(w)
  <2>1. CASE phase[r] = "abandoned" /\ Settle(w, "abandoned")
    BY <1>1, <1>4, <2>1, AttemptFails DEF WaitGivesUp, Resolving
  <2>2. CASE UNCHANGED resolved
    BY <1>4, <2>2, Unseen DEF WaitGivesUp, WaitFrame
  <2> QED
    BY <1>4, <2>1, <2>2 DEF WaitGivesUp
<1>5. CASE WaitLosesConnection(w) \/ WaitSettles(w, "error")
  BY <1>1, <1>5, AttemptFails DEF WaitLosesConnection, WaitSettles, Resolving
<1>6. CASE WaitSettles(w, "ok")
  <2>1. CASE phase[r] = "abandoned"
    <3>1. Settle(w, "abandoned")
      BY <1>6, <2>1 DEF WaitSettles, Settle, SettledResult
    <3> QED
      BY <1>1, <1>6, <3>1, AttemptFails DEF WaitSettles, Resolving
  <2>2. CASE phase[r] # "abandoned"
    BY <1>1, <1>6, <2>2, AttemptSucceeds
  <2> QED
    BY <2>1, <2>2
<1> QED
  BY <1>2, <1>3, <1>4, <1>5, <1>6 DEF CallerStep, WaitStep

-----------------------------------------------------------------------------
(* The steps of the connection's goroutines *)

\* An entry is taken out of c.pending by Abandon, releasePending and shutdown.
LEMMA GiveBackImplements ==
    ASSUME Invariants,
           BeginShutdown \/ \E r \in Requests : AbandonDetaches(r) \/ ReleaseStart(r)
    PROVE  \E S \in SUBSET Requests : Promise!GiveBack(S)
<1>1. ASSUME UNCHANGED <<responded, dispatchErr, observer, observed, cancelSent, submitted,
                         writeDone, claimed, resolved, abandoned, verdicts, phase>>,
             NEW S \in SUBSET Requests, pending' = pending \ S
      PROVE  Promise!GiveBack(S)
  BY <1>1, FrameStays, OutcomeStays DEF Promise!GiveBack, SamePrepared
<1>2. CASE BeginShutdown
  <2>1. pending \in SUBSET Requests /\ pending' = pending \ pending
    BY <1>2 DEF BeginShutdown, Invariants, TypeOK
  <2>2. Promise!GiveBack(pending)
    BY <1>1, <1>2, <2>1 DEF BeginShutdown, ConnFrame
  <2> QED
    BY <2>1, <2>2
<1>3. ASSUME NEW r \in Requests, AbandonDetaches(r) \/ ReleaseStart(r)
      PROVE  Promise!GiveBack({r})
  BY <1>1, <1>3 DEF AbandonDetaches, AbandonFrame, ReleaseStart
<1>4. ASSUME NEW r \in Requests PROVE {r} \in SUBSET Requests
  OBVIOUS
<1> QED
  BY <1>2, <1>3, <1>4

LEMMA AnswerImplements ==
    ASSUME Invariants, NEW r \in Requests, ResponseArrives(r)
    PROVE  Promise!Answer(r)
<1>1. UNCHANGED Frame /\ UNCHANGED Outcome
  BY FrameStays, OutcomeStays DEF ResponseArrives, ConnFrame, SamePrepared
<1>2. phase[r] # "none" /\ r \in submitted
  BY DEF ResponseArrives, Invariants, IInv, EntryInv
<1>3. Frame[r] \in {"started", "accepted"}
  <2>1. FrameAt(r) \in {"started", "accepted"}
    BY <1>2 DEF FrameAt
  <2> QED
    BY <2>1, PromiseState
<1> QED
  BY <1>1, <1>3 DEF ResponseArrives, ConnFrame, Promise!Answer

\* beginWrite admits a request that holds its entry and was not reported NotStarted; a
\* write that it refuses stays unseen.
LEMMA StartImplements ==
    ASSUME Invariants, WriterTakesRequest
    PROVE  UNCHANGED Promise!vars \/ \E r \in Requests : Promise!Start(r)
<1>0. writeDone \in [Requests -> WriteResults]
  BY DEF Invariants, TypeOK
<1>1. PICK r \in Requests : Head(writeQueue).req = r /\ Queued(r)
  BY TakenWrite DEF Invariants, IInv
<1>2. UNCHANGED <<pending, responded, dispatchErr, observer, observed, cancelSent, claimed,
                  resolved, abandoned, verdicts, phase>>
  BY DEF WriterTakesRequest, WriterFrame
<1>3. UNCHANGED Outcome
  BY <1>2, OutcomeStays
<1>4. r \notin submitted /\ writeDone[r] = "none"
  BY <1>1 DEF Invariants, IInv, QueueInv, SInv, SubmittedInv
<1>5. CASE MayBegin(r) /\ submitted' = submitted \cup {r} /\ UNCHANGED writeDone
  <2>1. phase[r] = "dispatching" /\ r \in pending
    BY <1>5 DEF MayBegin
  <2>2. r \notin claimed
    BY <1>4, <2>1 DEF Invariants, IInv, ClaimInv, Over
  <2>3. FrameAt(r) = "unsent" /\ FrameAt(r)' = "started"
    BY <1>2, <1>4, <1>5, <2>1, <2>2 DEF FrameAt
  <2>4. \A x \in Requests : x # r => FrameAt(x)' = FrameAt(x)
    BY <1>2, <1>5 DEF FrameAt
  <2>5. Frame[r] = "unsent" /\ Frame' = [Frame EXCEPT ![r] = "started"]
    BY <2>3, <2>4, PromiseState
  <2>6. resolved[r] = "no" /\ done[r] # "error" /\ dispatchErr[r] = "none"
    BY <2>1 DEF Invariants, IInv, ResolveInv, EntryInv, DispatchInv
  <2>7. r \notin abandoned
    BY <2>1, <2>6 DEF Invariants, SInv, AbandonedInv
  <2>8. verdicts[r] = {}
    <3>1. verdicts[r] \subseteq {"no", "ok", "error", "abandoned", "empty"}
      BY DEF Invariants, TypeOK, Results
    <3>2. /\ "no" \notin verdicts[r] /\ "ok" \notin verdicts[r] /\ "abandoned" \notin verdicts[r]
          /\ "error" \notin verdicts[r] /\ "empty" \notin verdicts[r]
      BY <2>1, <2>6 DEF Invariants, IInv, VerdictInv
    <3> QED
      BY <3>1, <3>2
  <2>9. Outcome[r] = "open"
    <3>1. OutcomeAt(r) = "open"
      BY <2>6, <2>7, <2>8 DEF OutcomeAt
    <3> QED
      BY <3>1, PromiseState
  <2> QED
    BY <1>2, <1>3, <2>1, <2>5, <2>9 DEF Promise!Start
<1>6. CASE writeDone' = [writeDone EXCEPT ![r] = "fail"] /\ UNCHANGED submitted
  <2>1. \A x \in Requests : FrameAt(x)' = FrameAt(x)
    BY <1>0, <1>2, <1>4, <1>6 DEF FrameAt
  <2>2. UNCHANGED Frame
    BY <2>1, PromiseState
  <2> QED
    BY <1>2, <1>3, <2>2 DEF Promise!vars
<1> QED
  BY <1>1, <1>5, <1>6 DEF WriterTakesRequest

\* Write is called: for a cancellation while the connection is open, its request's frame
\* has been accepted.
LEMMA InvokeImplements ==
    ASSUME Invariants, WriterInvokes
    PROVE  UNCHANGED Promise!vars \/ \E r \in Requests : Promise!Cancel(r)
<1>1. UNCHANGED <<pending, responded, dispatchErr, observer, observed, submitted, writeDone,
                  claimed, resolved, abandoned, verdicts, phase>>
  BY DEF WriterInvokes
<1>2. UNCHANGED Frame /\ UNCHANGED Outcome
  BY <1>1, FrameStays, OutcomeStays DEF SamePrepared
<1>3. CASE UNCHANGED cancelSent
  BY <1>1, <1>2, <1>3 DEF Promise!vars
<1>4. CASE ~UNCHANGED cancelSent
  <2>1. /\ writing \in Items /\ writing.kind # "request" /\ closing = "open"
        /\ cancelSent' = cancelSent \cup {writing.req}
    BY <1>4 DEF WriterInvokes, Invariants, TypeOK
  <2>2. PICK r \in Requests : writing = Cancellation(r) /\ writing.req = r
    BY <2>1 DEF Items, Cancellation
  <2>3. writeDone[r] = "ok"
    BY <2>1, <2>2 DEF Invariants, RInv, CancelInv
  <2>4. phase[r] # "none"
    BY <2>3 DEF Invariants, IInv, QueueInv, DispatchInv
  <2>5. FrameAt(r) = "accepted"
    BY <2>3, <2>4 DEF FrameAt
  <2>6. Frame[r] = "accepted"
    BY <2>5, PromiseState
  <2> QED
    BY <1>1, <1>2, <2>1, <2>2, <2>6 DEF Promise!Cancel
<1> QED
  BY <1>3, <1>4

\* Write returns: in full, or the frame stays one the transport may have seen.
LEMMA ReturnImplements ==
    ASSUME Invariants, NEW ok \in BOOLEAN, WriterReturns(ok)
    PROVE  UNCHANGED Promise!vars \/ \E r \in Requests : Promise!Accept(r)
<1>0. writeDone \in [Requests -> WriteResults] /\ writing \in Items
  BY DEF Invariants, TypeOK, WriterReturns
<1>1. UNCHANGED <<pending, responded, dispatchErr, observer, observed, cancelSent, submitted,
                  claimed, resolved, abandoned, verdicts, phase>>
  BY DEF WriterReturns, WriterFrame
<1>2. UNCHANGED Outcome
  BY <1>1, OutcomeStays
<1>3. CASE writing.kind # "request"
  BY <1>1, <1>3, Unseen DEF WriterReturns, SamePrepared
<1>4. CASE writing.kind = "request"
  <2>1. PICK r \in Requests : writing = Write(r) /\ writing.req = r
    BY <1>0, <1>4 DEF Items, Write
  <2>2. r \in submitted /\ dispatchPc[r] # "idle" /\ writeDone[r] = "none"
    BY <2>1 DEF Invariants, IInv, QueueInv, RInv, CancelInv
  <2>3. phase[r] # "none"
    BY <2>2 DEF Invariants, IInv, DispatchInv
  <2>4. writeDone' = [writeDone EXCEPT ![r] = IF ok THEN "ok" ELSE "fail"]
    BY <1>4, <2>1 DEF WriterReturns
  <2>5. FrameAt(r) = "started" /\ FrameAt(r)' = IF ok THEN "accepted" ELSE "started"
    BY <1>0, <1>1, <2>2, <2>3, <2>4 DEF FrameAt
  <2>6. \A x \in Requests : x # r => FrameAt(x)' = FrameAt(x)
    BY <1>0, <1>1, <2>4 DEF FrameAt
  <2>7. CASE ok
    <3>1. Frame[r] = "started" /\ Frame' = [Frame EXCEPT ![r] = "accepted"]
      BY <2>5, <2>6, <2>7, PromiseState
    <3> QED
      BY <1>1, <1>2, <3>1 DEF Promise!Accept
  <2>8. CASE ~ok
    <3>1. UNCHANGED Frame
      BY <2>5, <2>6, <2>8, PromiseState
    <3> QED
      BY <1>1, <1>2, <3>1 DEF Promise!vars
  <2> QED
    BY <2>7, <2>8
<1> QED
  BY <1>3, <1>4

LEMMA StepImplements ==
    ASSUME Invariants, Next, \A r \in Requests : ~Prepare(r)
    PROVE  Promise!Next \/ UNCHANGED Promise!vars
<1>0. SamePrepared
  BY PreparedStays DEF Invariants, SamePrepared
<1>1. ASSUME NEW r \in Requests,
             DispatchRefused(r) \/ DispatchStart(r) \/ DispatchStep(r) \/ Abandon(r)
      PROVE  Promise!Next \/ UNCHANGED Promise!vars
  BY <1>0, <1>1, DispatchImplements, AbandonImplements DEF Promise!Next
<1>2. ASSUME NEW r \in Requests, ObserveResponse(r) \/ ResponseArrives(r) PROVE Promise!Next
  BY <1>2, ObserveImplements, AnswerImplements DEF Promise!Next
<1>3. ASSUME NEW w \in Waiters, CallerStep(w) PROVE Promise!Next \/ UNCHANGED Promise!vars
  BY <1>0, <1>3, WaitImplements DEF Promise!Next
<1>4. ASSUME BeginShutdown \/ \E r \in Requests : AbandonDetaches(r) \/ ReleaseStart(r)
      PROVE  Promise!Next
  BY <1>4, GiveBackImplements DEF Promise!Next
<1>5. ASSUME WriterTakesRequest \/ WriterInvokes \/ \E ok \in BOOLEAN : WriterReturns(ok)
      PROVE  Promise!Next \/ UNCHANGED Promise!vars
  BY <1>5, StartImplements, InvokeImplements, ReturnImplements DEF Promise!Next
<1>6. ASSUME \/ \E r \in Requests : \/ Interrupt(r) \/ CancelRequest(r) \/ AbandonReleased(r)
                                    \/ ReleaseFinish(r) \/ ResponseCompletes(r) \/ DrainOne(r)
             \/ WriterTop \/ WriterStops \/ WriterTakesCancel \/ WriterShutsDown \/ EndShutdown
      PROVE  UNCHANGED Promise!vars
  <2>1. UNCHANGED <<pending, responded, dispatchErr, observer, observed, cancelSent,
                    submitted, writeDone, claimed, resolved, abandoned, verdicts>>
    BY <1>6 DEF Interrupt, CancelRequest, CancelTest, CancelSend, CancelFrame,
       AbandonReleased, AbandonFrame, ReleaseFinish, ResponseCompletes, DrainOne,
       EndShutdown, ConnFrame, WriterTop, WriterStops, WriterTakesCancel, WriterShutsDown,
       WriterFrame
  <2> QED
    BY <1>0, <2>1, Unseen
<1> QED
  BY <1>1, <1>2, <1>3, <1>4, <1>5, <1>6
     DEF Next, RequestStep, AbandonStep, ReleaseStep, ReaderStep, WriterStep, ShutdownStep

\* A program that makes requests gets what RequestPromise promises, however its calls, the
\* writer, the receiver and shutdown interleave: nothing is sent of a request that was
\* reported NotStarted, is over or has given back its entry; a result comes once, after its
\* observer and to nobody after an Abandon; a failed Dispatch has given back the entry
\* (beginWrite, Dispatch, Wait, resolveResponse, Abandon, releasePending).
THEOREM KeepsPromise == Spec => PromiseKept
<1>1. Init => Promise!Init
  <2> SUFFICES ASSUME Init PROVE Promise!Init
    OBVIOUS
  <2>1. \A r \in Requests : FrameAt(r) = "new" /\ OutcomeAt(r) = "open"
    BY DEF Init, FrameAt, OutcomeAt
  <2>2. Frame = [r \in Requests |-> "new"] /\ Outcome = [r \in Requests |-> "open"]
    BY <2>1, PromiseState
  <2> QED
    BY <2>2 DEF Init, Promise!Init
<1>2. Invariants /\ [Next]_vars => [Promise!Next]_(Promise!vars)
  <2>1. ASSUME Invariants, NEW r \in Requests, Prepare(r) PROVE Promise!Next
    BY <2>1, PrepareImplements DEF Promise!Next
  <2>2. ASSUME UNCHANGED vars PROVE UNCHANGED Promise!vars
    BY <2>2, Unseen DEF vars, SamePrepared
  <2> QED
    BY <2>1, <2>2, StepImplements
<1>3. Spec => []Invariants
  BY TypeCorrect, Invariance, ReleaseInvariance, SInvariance, PTL DEF Invariants
<1> QED
  BY <1>1, <1>2, <1>3, PTL DEF Spec, PromiseKept, Promise!Spec
=============================================================================

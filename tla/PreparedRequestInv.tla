------------------------- MODULE PreparedRequestInv -------------------------
(***************************************************************************)
(* The inductive invariant behind the theorems of PreparedRequestProofs.   *)
(* It is checked by TLC together with the properties it implies.           *)
(***************************************************************************)
EXTENDS PreparedRequest

\* The writer queue entry of r's Dispatch.
Write(r) == [kind |-> "request", req |-> r]

Queued(r) == \E i \in 1..Len(writeQueue) : writeQueue[i] = Write(r)

\* Phases from which no write can begin any more.
Over == {"dispatched", "dispatchFailed", "abandoned", "finished"}

\* Waits that have read the phase "dispatched" or "finished", those that have read
\* a response, and the one that resolves it.
Awaiting  == {"response", "awaitDone", "resolve", "complete", "observe", "release"}
Answered  == {"resolve", "complete", "observe", "release"}
Resolving == {"complete", "observe"}

\* One write per Dispatch: it is queued once, after Dispatch entered and before the
\* writer has reported on it.
QueueInv ==
    /\ \A i, j \in 1..Len(writeQueue) :
          writeQueue[i] = writeQueue[j] /\ writeQueue[i].kind = "request" => i = j
    /\ \A r \in Requests :
          Queued(r) => /\ dispatchPc[r] \notin {"idle", "enqueue"}
                       /\ writeDone[r] = "none"
                       /\ writing # Write(r)
    /\ \A r \in Requests :
          writing = Write(r) => r \in submitted /\ dispatchPc[r] \notin {"idle", "enqueue"}
    /\ \A r \in Requests :
          writeDone[r] # "none" => dispatchPc[r] \notin {"idle", "enqueue"}

\* Where Dispatch is, in terms of the phase.
DispatchInv ==
    \A r \in Requests :
        /\ phase[r] \in {"none", "ready"} => dispatchPc[r] = "idle"
        /\ phase[r] = "dispatching" => dispatchPc[r] \notin {"idle", "returned"}
        /\ phase[r] = "dispatched" => dispatchPc[r] = "returned" /\ dispatchErr[r] = "nil"
        /\ phase[r] = "dispatchFailed" =>
              dispatchPc[r] \in {"release", "returned"} /\ dispatchErr[r] # "nil"
        /\ phase[r] = "finished" =>
              \/ dispatchPc[r] = "idle"
              \/ dispatchPc[r] = "returned" /\ dispatchErr[r] = "nil"
        /\ dispatchPc[r] \in {"enqueue", "await", "fail", "finish"} =>
              phase[r] \in {"dispatching", "abandoned"}
        /\ dispatchPc[r] = "release" =>
              phase[r] \in {"dispatching", "dispatchFailed", "abandoned"}
        /\ dispatchPc[r] # "returned" => dispatchErr[r] = "none"

\* What a Wait has read stays true while it goes on.
WaitInv ==
    \A w \in Waiters :
        LET r == WaitsOn[w]
        IN /\ waitPc[w] # "idle" => phase[r] # "none"
           /\ waitPc[w] \in Awaiting =>
                 /\ phase[r] \in {"dispatched", "abandoned", "finished"}
                 /\ \/ dispatchPc[r] = "idle"
                    \/ dispatchPc[r] = "returned" /\ dispatchErr[r] = "nil"
           /\ waitPc[w] \in Answered => done[r] = "response"
           /\ waitPc[w] = "release" => resolved[r] # "no"

\* A reported NotStarted is backed by a phase or a refused write that no later
\* step of the writer can get past.
ClaimInv ==
    /\ \A r \in claimed : /\ r \notin submitted
                          /\ phase[r] \in Over \/ writeDone[r] = "fail"
    /\ invoked \subseteq submitted

\* At most one Wait resolves a response, and the observer runs within it.
ResolveInv ==
    /\ \A w \in Waiters : waitPc[w] \in Resolving => WaitsOn[w] \in resolving
    /\ \A w, v \in Waiters : waitPc[w] \in Resolving /\ waitPc[v] \in Resolving
                             /\ WaitsOn[w] = WaitsOn[v] => w = v
    /\ \A r \in Requests :
          /\ resolved[r] # "no" =>
                /\ r \notin resolving
                /\ phase[r] \in {"abandoned", "finished"}
                /\ done[r] = "response"
                /\ \/ dispatchPc[r] = "idle"
                   \/ dispatchPc[r] = "returned" /\ dispatchErr[r] = "nil"
          /\ resolved[r] = "ok" => phase[r] = "finished"
          /\ resolved[r] = "no" /\ r \notin resolving => observed[r] = 0
          /\ observed[r] <= 1
          /\ r \in observer /\ resolved[r] = "ok" => observed[r] = 1
    /\ \A w \in Waiters :
          /\ waitPc[w] = "complete" => observed[WaitsOn[w]] = 0
          /\ waitPc[w] = "observe" /\ WaitsOn[w] \in observer => observed[WaitsOn[w]] = 1

\* Each result a Wait has returned is backed by state that does not change back.
VerdictInv ==
    \A r \in Requests :
        /\ "no" \notin verdicts[r]
        /\ "ok" \in verdicts[r] => resolved[r] = "ok"
        /\ "abandoned" \in verdicts[r] => \/ phase[r] = "abandoned"
                                          \/ resolved[r] = "abandoned"
                                          \/ done[r] = "error"
        /\ "error" \in verdicts[r] => \/ resolved[r] = "error"
                                      \/ done[r] = "error"
                                      \/ dispatchErr[r] = "error"
        /\ "empty" \in verdicts[r] => /\ phase[r] # "dispatching"
                                      /\ dispatchPc[r] \in {"release", "returned"}
                                      /\ dispatchErr[r] # "nil"

\* The parts that relate an entry of c.pending to its response.
EntryInv ==
    /\ pending = {} \/ drain = {}
    /\ closing = "open" => drain = {}
    /\ \A r \in Requests :
        /\ r \in pending \cup drain => done[r] # "error" /\ phase[r] # "none"
        /\ done[r] = "error" => phase[r] # "none"
        /\ r \in responded => done[r] # "error" /\ phase[r] # "none"
        /\ r \in reading => r \in responded /\ done[r] = "open"
        /\ done[r] = "response" => r \in responded

IInv ==
    /\ TypeOK
    /\ QueueInv
    /\ DispatchInv
    /\ WaitInv
    /\ ClaimInv
    /\ ResolveInv
    /\ VerdictInv
    /\ EntryInv
=============================================================================

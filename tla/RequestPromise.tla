---------------------------- MODULE RequestPromise ----------------------------
(***************************************************************************)
(* What a program may rely on when it makes requests through a Connection: *)
(* the abstract specification that PreparedRequest implements.             *)
(***************************************************************************)
EXTENDS Naturals, FiniteSets

CONSTANTS
    Requests,           \* what the program may request
    MaxPendingRequests  \* how many entries it may hold at a time

VARIABLES
    frame,     \* "new", then "unsent"; "denied" (NotStarted was reported), or
               \* "started" (the transport may see it) and "accepted" (in full)
    held,      \* requests with an entry in c.pending
    answered,  \* requests whose response has been claimed
    dispatch,  \* what Dispatch has returned: "none" (as yet), "nil" or "error"
    watched,   \* requests with an observer
    observed,  \* how often it has run
    outcome,   \* "open", "ok" (its result is decoded), or "over" (without)
    cancelled  \* requests cancelled with the peer while connected

vars == <<frame, held, answered, dispatch, watched, observed, outcome, cancelled>>

Init ==
    /\ frame = [r \in Requests |-> "new"]
    /\ held = {} /\ answered = {} /\ watched = {} /\ cancelled = {}
    /\ dispatch = [r \in Requests |-> "none"]
    /\ observed = [r \in Requests |-> 0]
    /\ outcome = [r \in Requests |-> "open"]

Prepare(r) ==
    /\ frame[r] = "new"
    /\ Cardinality(held) < MaxPendingRequests
    /\ frame' = [frame EXCEPT ![r] = "unsent"]
    /\ held' = held \cup {r}
    /\ UNCHANGED <<answered, dispatch, watched, observed, outcome, cancelled>>

\* An observer comes before anything is sent.
Watch(r) ==
    /\ frame[r] = "unsent"
    /\ watched' = watched \cup {r}
    /\ UNCHANGED <<frame, held, answered, dispatch, observed, outcome, cancelled>>

\* Nothing is sent of a request that was reported NotStarted, has given its entry
\* back, or is over for some caller of Wait or Abandon.
Start(r) ==
    /\ frame[r] = "unsent" /\ r \in held /\ outcome[r] = "open"
    /\ frame' = [frame EXCEPT ![r] = "started"]
    /\ UNCHANGED <<held, answered, dispatch, watched, observed, outcome, cancelled>>

Accept(r) ==
    /\ frame[r] = "started"
    /\ frame' = [frame EXCEPT ![r] = "accepted"]
    /\ UNCHANGED <<held, answered, dispatch, watched, observed, outcome, cancelled>>

\* A caller is told NotStarted, perhaps, when it is told something else.
MayDeny(r) == frame' \in {frame, [frame EXCEPT ![r] = IF @ = "unsent" THEN "denied" ELSE @]}

Deny(r) ==
    /\ MayDeny(r)
    /\ UNCHANGED <<held, answered, dispatch, watched, observed, outcome, cancelled>>

\* Dispatch returns nil for a frame the transport has accepted, and an error when
\* the entry is given back or somebody has abandoned the request.
Dispatched(r, e) ==
    /\ dispatch[r] = "none"
    /\ \/ e = "nil" /\ frame[r] = "accepted" /\ UNCHANGED frame
       \/ e = "error" /\ (r \in held => outcome[r] = "over") /\ MayDeny(r)
    /\ dispatch' = [dispatch EXCEPT ![r] = e]
    /\ UNCHANGED <<held, answered, watched, observed, outcome, cancelled>>

GiveBack(S) ==
    /\ held' = held \ S
    /\ UNCHANGED <<frame, answered, dispatch, watched, observed, outcome, cancelled>>

\* One response is taken, of a request that was sent and holds its entry.
Answer(r) ==
    /\ r \in held \ answered /\ frame[r] \in {"started", "accepted"}
    /\ answered' = answered \cup {r}
    /\ UNCHANGED <<frame, held, dispatch, watched, observed, outcome, cancelled>>

\* The observer runs once, on a response nobody has been given the result of.
Observe(r) ==
    /\ r \in watched \cap answered /\ observed[r] = 0 /\ outcome[r] # "ok"
    /\ observed' = [observed EXCEPT ![r] = 1]
    /\ UNCHANGED <<frame, held, answered, dispatch, watched, outcome, cancelled>>

\* The result is there for every Wait, after the observer.
Succeed(r) ==
    /\ outcome[r] = "open" /\ r \in answered /\ (r \in watched => observed[r] = 1)
    /\ outcome' = [outcome EXCEPT ![r] = "ok"]
    /\ UNCHANGED <<frame, held, answered, dispatch, watched, observed, cancelled>>

\* Abandon takes effect, or a Wait returns without the result: no Wait gets it.
End(r) ==
    /\ outcome[r] # "ok"
    /\ outcome' = [outcome EXCEPT ![r] = "over"]
    /\ MayDeny(r)
    /\ UNCHANGED <<held, answered, dispatch, watched, observed, cancelled>>

\* While connected, a cancellation follows the request.
Cancel(r) ==
    /\ frame[r] = "accepted"
    /\ cancelled' = cancelled \cup {r}
    /\ UNCHANGED <<frame, held, answered, dispatch, watched, observed, outcome>>

Next ==
    \/ \E S \in SUBSET Requests : GiveBack(S)
    \/ \E r \in Requests :
          \/ Prepare(r) \/ Watch(r) \/ Start(r) \/ Accept(r) \/ Deny(r)
          \/ \E e \in {"nil", "error"} : Dispatched(r, e)
          \/ Answer(r) \/ Observe(r) \/ Succeed(r) \/ End(r) \/ Cancel(r)

Spec == Init /\ [][Next]_vars
=============================================================================

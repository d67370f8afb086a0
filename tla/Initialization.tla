---------------------------- MODULE Initialization ----------------------------
(***************************************************************************)
(* The initialize handshake of the experimental v2 profile, as the         *)
(* ProtocolRouter and the v2 AgentSideConnection run it over the           *)
(* initialization struct they both embed (experimental/v2).                *)
(*                                                                         *)
(* Inbound messages are handled on concurrent goroutines.  Each critical   *)
(* section of initialization.mu is one action, and handlers run between    *)
(* them, so handshakes, requests and notifications interleave freely.      *)
(***************************************************************************)
EXTENDS Integers, FiniteSets

CONSTANTS
    Calls,     \* inbound messages the connection hands to the handler
    Versions   \* protocol versions a peer may ask for

ASSUME VersionsAssumption == Versions \subseteq Nat

VARIABLES
    router,       \* ProtocolRouter.Handle, else AgentSideConnection.handle
    handlers,     \* the versions with a handler (fields V1 and V2 of the router)
    selected,     \* initialization.selected, 0 before a handshake succeeds
    initialized,  \* initialization.initialized
    initializing, \* initialization.initializing
    otherRequest, \* initialization.otherRequest
    pc,           \* where the goroutine of each message is
    version,      \* the version it has chosen or was routed to
    succeeded,    \* history: versions of the handshakes that succeeded
    served        \* history: versions whose handler got another message

state == <<selected, initialized, initializing, otherRequest>>
owner == <<router, handlers>>
vars  == <<owner, state, pc, version, succeeded, served>>

TypeOK ==
    /\ router \in BOOLEAN
    /\ handlers \subseteq {1, 2}
    /\ selected \in {0, 1, 2}
    /\ initialized \in BOOLEAN /\ initializing \in BOOLEAN /\ otherRequest \in BOOLEAN
    /\ pc \in [Calls -> {"arriving", "begin", "handshake", "request", "notification",
                         "returned"}]
    /\ version \in [Calls -> {0, 1, 2}]
    /\ succeeded \subseteq {1, 2}
    /\ served \subseteq {0, 1, 2}

Init ==
    /\ router \in BOOLEAN
    /\ handlers \in IF router THEN SUBSET {1, 2} ELSE {{2}}
    /\ selected = 0
    /\ initialized = FALSE /\ initializing = FALSE /\ otherRequest = FALSE
    /\ pc = [c \in Calls |-> "arriving"]
    /\ version = [c \in Calls |-> 0]
    /\ succeeded = {} /\ served = {}

-----------------------------------------------------------------------------
(* Faulty variants of the definitions below, each the slip a maintainer could *)
(* make there.  They are not part of the specification.                       *)

\* begin that relies on the selection alone to refuse a concurrent attempt.
RefusedWhenSelected(v) ==
    selected # 0 /\ (selected # 2 \/ v # selected \/ otherRequest)
\* begin that compares no versions on a repeat.
RefusedAnyVersion(v) == initializing \/ (selected # 0 /\ otherRequest)
\* finish that selects the version whether the handler failed or not.
SelectedAnyway(v, ok) == v
\* route that takes the two kinds of messages for each other.
WindowEndsOnNotification(kind) == otherRequest \/ (kind = "notification" /\ initialized)
\* A negotiation that settles on whatever the peer asks for.
AsAsked(requested) == requested

-----------------------------------------------------------------------------
(* The operations of initialization *)

\* begin refuses concurrent attempts, attempts after a failed first one, another
\* version, any repeat of version 1 and a repeat after another request.
Refused(v) ==
    \/ initializing
    \/ initialized /\ selected = 0
    \/ selected # 0 /\ (selected # 2 \/ v # selected \/ otherRequest)

\* The selection finish leaves behind.
Selected(v, ok) == IF ok THEN v ELSE selected

\* checkRepeatVersion
RepeatsLower(requested) == selected = 2 /\ requested < 2

\* The version that serves a peer asking for `requested`, 0 if none does.  The
\* agent's own SelectProtocolVersion is the case handlers = {2}.
Choose(requested) ==
    IF handlers = {1} THEN 1
    ELSE IF requested >= 2 /\ 2 \in handlers THEN 2
    ELSE IF requested >= 1 /\ 1 \in handlers THEN 1 ELSE 0

-----------------------------------------------------------------------------
(* Messages *)

Return(c) == pc' = [pc EXCEPT ![c] = "returned"]

\* An initialize request up to its begin.  An initialize notification, parameters
\* without a version and an invalid request id are refused here as well.
InitializeArrives(c, requested) ==
    /\ pc[c] = "arriving"
    /\ \/ /\ ~RepeatsLower(requested) /\ Choose(requested) # 0
          /\ version' = [version EXCEPT ![c] = Choose(requested)]
          /\ pc' = [pc EXCEPT ![c] = "begin"]
       \/ Return(c) /\ UNCHANGED version
    /\ UNCHANGED <<owner, state, succeeded, served>>

Begin(c) ==
    /\ pc[c] = "begin"
    /\ \/ /\ Refused(version[c])
          /\ Return(c)
          /\ UNCHANGED <<initialized, initializing>>
       \/ /\ ~Refused(version[c])
          /\ initialized' = TRUE /\ initializing' = TRUE
          /\ pc' = [pc EXCEPT ![c] = "handshake"]
    /\ UNCHANGED <<owner, selected, otherRequest, version, succeeded, served>>

\* The initialize handler (or the decoding in front of it) returns, then finish.
Finish(c, ok) ==
    /\ pc[c] = "handshake"
    /\ initializing' = FALSE
    /\ selected' = Selected(version[c], ok)
    /\ succeeded' = IF ok THEN succeeded \cup {version[c]} ELSE succeeded
    /\ Return(c)
    /\ UNCHANGED <<owner, initialized, otherRequest, version, served>>

\* The router refuses other messages during a handshake and before one has
\* succeeded; the agent dispatches them whatever route says.
Admitted == router => ~initializing /\ selected # 0

\* What route makes of otherRequest: a request ends the window for a repeat.
WindowEnds(kind) == otherRequest \/ (kind = "request" /\ initialized)

\* Any other message: route admits it and ends the window in one critical section.
\* A request with an id that version 2 does not allow is refused after it.
Route(c, kind) ==
    /\ pc[c] = "arriving"
    /\ otherRequest' = WindowEnds(kind)
    /\ \/ /\ Admitted
          /\ version' = [version EXCEPT ![c] = selected]
          /\ served' = served \cup {selected}
          /\ pc' = [pc EXCEPT ![c] = kind]
       \/ /\ ~Admitted \/ (router /\ kind = "request" /\ selected = 2)
          /\ Return(c)
          /\ UNCHANGED <<version, served>>
    /\ UNCHANGED <<owner, selected, initialized, initializing, succeeded>>

\* The handler of another message returns.
HandlerReturns(c) ==
    /\ pc[c] \in {"request", "notification"}
    /\ Return(c)
    /\ UNCHANGED <<owner, state, version, succeeded, served>>

Step(c) ==
    \/ \E requested \in Versions : InitializeArrives(c, requested)
    \/ Begin(c)
    \/ \E ok \in BOOLEAN : Finish(c, ok)
    \/ \E kind \in {"request", "notification"} : Route(c, kind)
    \/ HandlerReturns(c)

Next == \E c \in Calls : Step(c)

Spec == Init /\ [][Next]_vars

-----------------------------------------------------------------------------
(* Properties *)

\* "Concurrent attempts are rejected": whatever they interleave with, at most one
\* initialize handler runs at a time.
OneHandshake ==
    \A c, d \in Calls : pc[c] = "handshake" /\ pc[d] = "handshake" => c = d

\* Behind the router no initialize handler runs while a request is being handled:
\* the first handshake precedes every request, a repeat comes before any other one.
HandshakeAlone ==
    router => \A c, d \in Calls : ~(pc[c] = "handshake" /\ pc[d] = "request")

\* A message is handled under a version only after a handshake succeeded with it,
\* and the router hands over none before that: none at all if the first one failed.
ServedAfterSuccess == served \ {0} \subseteq succeeded /\ (router => 0 \notin served)

\* A selected version is pinned: no repeat, failed repeat or race replaces it.
VersionPinned == [][selected # 0 => selected' = selected]_vars

\* "Repeats after another request are rejected", by the agent as well, which lets a
\* request in during a handshake: none starts while a request that was dispatched
\* under a selected version is being handled.
Starts(c) == pc[c] # "handshake" /\ pc'[c] = "handshake"

RepeatComesFirst ==
    [][\A c, d \in Calls : Starts(c) => ~(pc[d] = "request" /\ version[d] # 0)]_vars
=============================================================================

------------------------- MODULE InitializationProofs -------------------------
(***************************************************************************)
(* Theorems about Initialization for every set of messages and versions.   *)
(***************************************************************************)
EXTENDS Initialization, TLAPS

\* A version is chosen before begin.
Chosen == \A c \in Calls : pc[c] \in {"begin", "handshake"} => version[c] # 0

\* A handshake holds the initializing flag, alone, and a repeat keeps the version.
Handshake ==
    /\ \A c \in Calls : pc[c] = "handshake" =>
          initializing /\ initialized /\ (selected # 0 => version[c] = selected)
    /\ OneHandshake

\* What the selection rests on.
Selection ==
    /\ selected # 0 => initialized /\ selected \in succeeded
    /\ ServedAfterSuccess

\* A request dispatched under a version has ended the window for a repeat.
Window ==
    \A d \in Calls : pc[d] = "request" =>
        /\ version[d] # 0 => otherRequest /\ selected # 0
        /\ router => version[d] # 0 /\ ~initializing

IInv == TypeOK /\ Chosen /\ Handshake /\ Selection /\ Window

\* The invariant holds initially and every step preserves it.
THEOREM Invariance == Spec => []IInv
<1>1. Init => IInv
  <2> SUFFICES ASSUME Init PROVE IInv
    OBVIOUS
  <2> USE DEF Init
  <2>1. TypeOK /\ Chosen
    BY DEF TypeOK, Chosen
  <2>2. Handshake
    BY DEF Handshake, OneHandshake
  <2>3. Selection
    BY DEF Selection, ServedAfterSuccess
  <2>4. Window
    BY DEF Window
  <2> QED
    BY <2>1, <2>2, <2>3, <2>4 DEF IInv
<1>2. IInv /\ [Next]_vars => IInv'
  <2> SUFFICES ASSUME IInv, [Next]_vars PROVE IInv'
    OBVIOUS
  <2>1. ASSUME NEW c \in Calls, NEW requested \in Versions, InitializeArrives(c, requested)
        PROVE  IInv'
    <3>1. Choose(requested) \in {0, 1, 2}
      BY DEF Choose
    <3> QED
      BY <2>1, <3>1 DEF IInv, TypeOK, Chosen, Handshake, OneHandshake, Selection,
             ServedAfterSuccess, Window, InitializeArrives, Return, owner, state
  <2>2. ASSUME NEW c \in Calls, Begin(c) PROVE IInv'
    <3>1. CASE Refused(version[c])
      BY <2>2, <3>1 DEF IInv, TypeOK, Chosen, Handshake, OneHandshake, Selection,
             ServedAfterSuccess, Window, Begin, Return, owner
    <3>2. CASE ~Refused(version[c])
      BY <2>2, <3>2 DEF IInv, TypeOK, Chosen, Handshake, OneHandshake, Selection,
             ServedAfterSuccess, Window, Begin, Refused, owner
    <3> QED
      BY <3>1, <3>2
  <2>3. ASSUME NEW c \in Calls, NEW ok \in BOOLEAN, Finish(c, ok) PROVE IInv'
    BY <2>3 DEF IInv, TypeOK, Chosen, Handshake, OneHandshake, Selection,
           ServedAfterSuccess, Window, Finish, Selected, Return, owner
  <2>4. ASSUME NEW c \in Calls, NEW kind \in {"request", "notification"}, Route(c, kind)
        PROVE  IInv'
    <3>1. otherRequest' \in BOOLEAN
      BY <2>4 DEF IInv, TypeOK, Route, WindowEnds
    <3>2. selected # 0 /\ kind = "request" => otherRequest'
      BY <2>4 DEF IInv, Selection, Route, WindowEnds
    <3>3. otherRequest => otherRequest'
      BY <2>4 DEF Route, WindowEnds
    <3>4. CASE Admitted /\ pc' = [pc EXCEPT ![c] = kind]
      <4>1. TypeOK' /\ Chosen' /\ Handshake' /\ Selection'
        BY <2>4, <3>1, <3>3, <3>4 DEF IInv, TypeOK, Chosen, Handshake, OneHandshake, Selection,
               ServedAfterSuccess, Route, Admitted, Return, owner
      <4>2. Window'
        BY <2>4, <3>1, <3>2, <3>3, <3>4 DEF IInv, TypeOK, Window, Route, Admitted, Return,
               owner
      <4> QED
        BY <4>1, <4>2 DEF IInv
    <3>5. CASE Return(c) /\ UNCHANGED <<version, served>>
      BY <2>4, <3>1, <3>3, <3>5 DEF IInv, TypeOK, Chosen, Handshake, OneHandshake,
             Selection, ServedAfterSuccess, Window, Route, Return, owner
    <3> QED
      BY <2>4, <3>4, <3>5 DEF Route
  <2>5. ASSUME NEW c \in Calls, HandlerReturns(c) PROVE IInv'
    BY <2>5 DEF IInv, TypeOK, Chosen, Handshake, OneHandshake, Selection,
           ServedAfterSuccess, Window, HandlerReturns, Return, owner, state
  <2>6. CASE UNCHANGED vars
    BY <2>6 DEF IInv, TypeOK, Chosen, Handshake, OneHandshake, Selection,
           ServedAfterSuccess, Window, vars, owner, state
  <2> QED
    BY <2>1, <2>2, <2>3, <2>4, <2>5, <2>6 DEF Next, Step
<1> QED
  BY <1>1, <1>2, PTL DEF Spec

\* Handshakes exclude each other, and behind the router they exclude requests.
THEOREM HandshakesExclude == Spec => [](OneHandshake /\ HandshakeAlone)
<1>1. IInv => OneHandshake /\ HandshakeAlone
  BY DEF IInv, Handshake, Window, HandshakeAlone
<1> QED
  BY <1>1, Invariance, PTL

\* Nothing is served under a version that no handshake has selected.
THEOREM NothingServedEarly == Spec => []ServedAfterSuccess
<1>1. IInv => ServedAfterSuccess
  BY DEF IInv, Selection
<1> QED
  BY <1>1, Invariance, PTL

\* The selected version never changes.
THEOREM Pinned == Spec => VersionPinned
<1>1. IInv /\ [Next]_vars => [selected # 0 => selected' = selected]_vars
  <2> SUFFICES ASSUME IInv, Next, selected # 0
               PROVE  selected' = selected
    OBVIOUS
  <2>1. PICK c \in Calls : Step(c)
    BY DEF Next
  <2>2. CASE \E ok \in BOOLEAN : Finish(c, ok)
    BY <2>2 DEF IInv, Handshake, Finish, Selected
  <2> QED
    BY <2>1, <2>2 DEF Step, InitializeArrives, Begin, Route, HandlerReturns, owner, state
<1> QED
  BY <1>1, Invariance, PTL DEF Spec, VersionPinned

\* No handshake starts while a request dispatched under a version is handled.
THEOREM RepeatWindow == Spec => RepeatComesFirst
<1>1. IInv /\ [Next]_vars =>
         [\A c, d \in Calls : Starts(c) => ~(pc[d] = "request" /\ version[d] # 0)]_vars
  <2> SUFFICES ASSUME IInv, Next, NEW c \in Calls, NEW d \in Calls, Starts(c),
                      pc[d] = "request", version[d] # 0
               PROVE  FALSE
    OBVIOUS
  <2>1. PICK e \in Calls : Step(e)
    BY DEF Next
  <2>2. CASE Begin(e)
    <3>1. Refused(version[e])
      BY DEF IInv, Window, Refused
    <3> QED
      BY <2>2, <3>1 DEF IInv, TypeOK, Begin, Return, Starts
  <2> QED
    BY <2>1, <2>2 DEF Step, InitializeArrives, Finish, Route, HandlerReturns, Return, IInv,
        TypeOK, Starts
<1> QED
  BY <1>1, Invariance, PTL DEF Spec, RepeatComesFirst
=============================================================================

--------------------------- MODULE RequestContract ---------------------------
(***************************************************************************)
(* What a peer may rely on when it sends requests to a Connection, and     *)
(* what a handler may rely on when it registers a callback: the abstract   *)
(* specification that InboundRequests implements.                          *)
(***************************************************************************)
EXTENDS FiniteSets

CONSTANTS
    Entries,  \* what the peer sends
    Groups    \* the sets of entries answered together, an array or one entry

VARIABLES
    stage,    \* how far each entry has come, one of Stages
    called,   \* entries whose callback has been started
    over      \* the connection is failing: open requests may be lost

vars == <<stage, called, over>>

\* An entry is open while a handler has it or will have it and its id is in flight;
\* one that is refused is answered with an error.  What is retired is answered, and no
\* id is in flight for it: another request may have the id, and a cancellation of the
\* id does not mean this one.
Stages == {"unseen", "open", "refused", "answered", "retired", "lost"}

Init ==
    /\ stage = [e \in Entries |-> "unseen"]
    /\ called = {}
    /\ over = FALSE

Advance(S, from, to) ==
    /\ \A e \in S : stage[e] \in from
    /\ stage' = [e \in Entries |-> IF e \in S THEN to ELSE stage[e]]
    /\ UNCHANGED <<called, over>>

Open(e)   == Advance({e}, {"unseen"}, "open")
Refuse(e) == Advance({e}, {"unseen"}, "refused")

\* One message answers all the entries of a group, once.  A request that was given
\* up may still be answered when the connection ends.
Answer(g) ==
    /\ \A e \in g : stage[e] \in {"open", "refused", "lost"}
    /\ stage' = [e \in Entries |->
                    IF e \notin g THEN stage[e]
                    ELSE IF stage[e] = "open" THEN "answered" ELSE "retired"]
    /\ UNCHANGED <<called, over>>

\* The id of an accepted request may be used again.
Retire(e) == Advance({e}, {"answered"}, "retired")

Lose(e) == over /\ Advance({e}, {"open"}, "lost")

\* The callback of a request starts once, after everything answered together with
\* it has been answered and no id is in flight for any of it.
Call(g, e) ==
    /\ e \in g /\ e \notin called
    /\ \A m \in g : stage[m] = "retired"
    /\ called' = called \cup {e}
    /\ UNCHANGED <<stage, over>>

End == ~over /\ over' = TRUE /\ UNCHANGED <<stage, called>>

Next ==
    \/ End
    \/ \E e \in Entries : Open(e) \/ Refuse(e) \/ Retire(e) \/ Lose(e)
    \/ \E g \in Groups : Answer(g) \/ \E e \in g : Call(g, e)

\* The first conjunct asks for nothing that the box does not: with it TLC tells the
\* many stuttering steps of an implementation before it tries an action.
Spec == Init /\ [][vars' # vars /\ Next]_vars
=============================================================================

-------------------------- MODULE MCInboundRequests --------------------------
(* The instances of InboundRequests for TLC. *)
EXTENDS InboundRequests

CONSTANTS a, b, again, c, d, stopC, x, bad, stray, y, stopX

\* An array of two requests, and a request that uses an id of it again.
Reuse  == {<<a, b>>, <<again>>}
\* Two requests with one id, and the cancellation of that id.
Cancel == {<<c>>, <<d>>, <<stopC>>}
\* An array of four kinds of entries, of which x waits for its cancellation.
Mixed  == {<<x, stray, bad>>, <<y, stopX>>}

MCFrames  == Reuse \cup Cancel \cup Mixed
MCScripts == {Reuse, Cancel, Mixed}
MCArrays  == {<<a, b>>, <<x, stray, bad>>, <<y, stopX>>}
MCKind == [e \in Entries |-> IF e = bad THEN "malformed" ELSE IF e = stray THEN "stray"
                             ELSE IF e \in {stopC, stopX} THEN "cancel" ELSE "request"]
MCId   == [e \in Entries |-> IF e \in {b, y} THEN 2 ELSE 1]
=============================================================================

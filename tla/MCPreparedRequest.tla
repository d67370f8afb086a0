-------------------------- MODULE MCPreparedRequest --------------------------
(* Instances of PreparedRequest for TLC. *)
EXTENDS PreparedRequestInv

CONSTANTS r1, r2, w1, w2

\* Two goroutines wait for the same request.
BothOnR1 == w1 :> r1 @@ w2 :> r1
\* One waiter per request.
OneEach == w1 :> r1 @@ w2 :> r2
\* A single waiter.
W1OnR1 == w1 :> r1

\* Nobody waits: what becomes of the requests goes on without it.
NobodyWaits == <<>>

\* Two waiters on the same request can be exchanged.
Symmetry == Permutations({w1, w2})
\* And so can the requests that are all used alike.
AlikeRequests == Permutations(Requests \ MayAbandon)
=============================================================================

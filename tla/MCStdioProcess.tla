---------------------------- MODULE MCStdioProcess ----------------------------
(* The instance of StdioProcess for TLC. *)
EXTENDS StdioProcess

CONSTANTS child, kid, close, shutdown, clientShutdown, clientWait

MCMethod == [c \in Callers |-> CASE c = close -> "close"
                                 [] c = clientWait -> "wait"
                                 [] OTHER -> "shutdown"]
=============================================================================

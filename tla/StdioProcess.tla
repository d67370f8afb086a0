----------------------------- MODULE StdioProcess -----------------------------
(***************************************************************************)
(* The owner of an ACP subprocess (transport/stdio/process.go and, of the  *)
(* process trees, process_unix.go): the child and the descendants that     *)
(* stay in its process group, the goroutine that waits for the child, the  *)
(* forced stop, and the calls Close, Shutdown and Wait of a Process or,    *)
(* with its connection, of a ClientProcess.                                *)
(*                                                                         *)
(* exec.Cmd, the kernel and the Connection are external.  Of Cmd.Wait the  *)
(* model has the reaping of the child, then the join of the goroutine that *)
(* watches the start context, then that of the copy of stderr, which ends  *)
(* when no process holds the pipe or, with a WaitDelay, is given up.       *)
(***************************************************************************)
EXTENDS FiniteSets

CONSTANTS
    Child, Descendants,  \* the processes of the tree
    Callers,             \* calls made of the Process
    Method,              \* what each of them is, one of Methods
    Coupled              \* those made through the ClientProcess

Methods == {"close", "shutdown", "wait"}
Processes == {Child} \cup Descendants
Stopper   == "stopper"   \* the goroutine of cmd.Cancel
None      == "none"

ASSUME ProcessAssumption ==
    /\ Child \notin Descendants
    /\ Method \in [Callers -> Methods] /\ Coupled \subseteq Callers
    /\ Stopper \notin Callers /\ None \notin Callers

VARIABLES
    process,    \* each process, as the kernel has it
    waitDelay,  \* Command.WaitDelay is positive
    denies,     \* the system denies signals to processes that wait to be reaped
    ctxDone,    \* the start context is done
    watcher,    \* the goroutine of exec.Cmd that watches it
    waiter,     \* Start, then the goroutine it leaves behind
    tree,       \* unixProcessTree.terminate
    force,      \* forceStop: "none", "requested" or "done"
    owner,      \* who runs the Once of Close and of Shutdown
    pc,         \* the callers and the goroutine of cmd.Cancel
    input, output, \* the pipes are "open" or "closed"
    connection  \* the Connection: "open", "closed", or "ended" when Wait returns

settings   == <<waitDelay, denies>>
systemVars == <<process, settings, ctxDone>>
cmdVars    == <<watcher, waiter>>
stopVars   == <<tree, force>>
callVars   == <<owner, pc>>
pipeVars   == <<input, output, connection>>
vars == <<systemVars, cmdVars, stopVars, callVars, pipeVars>>

TypeOK ==
    /\ process \in [Processes -> {"absent", "running", "killed", "zombie", "gone"}]
    /\ waitDelay \in BOOLEAN /\ denies \in BOOLEAN /\ ctxDone \in BOOLEAN
    /\ watcher \in {"watching", "cancelling", "cancelled", "joined"}
    /\ waiter \in {"starting", "reaping", "joining", "copying", "releasing", "done"}
    /\ tree \in {"idle", "polling", "awaiting", "done"}
    /\ force \in {"none", "requested", "done"}
    /\ owner \in [{"close", "shutdown"} -> Callers \cup {None}]
    /\ pc \in [Callers \cup {Stopper} ->
                  {"idle", "once", "second", "graceful", "force", "last", "joining",
                   "returned"}]
    /\ input \in {"open", "closed"} /\ output \in {"open", "closed"}
    /\ connection \in {"open", "closed", "ended"}
    /\ process[Child] = "gone" <=> waiter \notin {"starting", "reaping"}

Init ==
    /\ process = [p \in Processes |-> IF p = Child THEN "running" ELSE "absent"]
    /\ waitDelay \in BOOLEAN /\ denies \in BOOLEAN /\ ctxDone = FALSE
    /\ watcher = "watching" /\ waiter = "starting"
    /\ tree = "idle" /\ force = "none"
    /\ owner = [m \in {"close", "shutdown"} |-> None]
    /\ pc = [c \in Callers \cup {Stopper} |-> "idle"]
    /\ input = "open" /\ output = "open" /\ connection = "open"

-----------------------------------------------------------------------------
(* Faulty variants of the definitions below, each the slip a maintainer could *)
(* make there.  They are not part of the specification.                       *)

\* cmd.Cancel that runs the forced stop itself.
CancelStops == pc[Stopper] = "returned"
\* terminate that signals the pid of a child that has been reaped.
SignalsReaped ==
    [p \in Processes |-> IF process[p] \in {"running", "gone"} THEN "killed" ELSE process[p]]
\* terminate that signals the child alone.
SignalsChild == [process EXCEPT ![Child] = IF @ = "running" THEN "killed" ELSE @]
\* forceStop that does not wait for the tree.
ForceAtOnce == TRUE
\* shutdown that does not join the waiter after a forced stop.
JoinsNobody == TRUE
\* terminate that does not probe.
NoProbe == TRUE

-----------------------------------------------------------------------------
(* Operators *)

Alive(p)   == process[p] \in {"running", "killed"}
InGroup(p) == Alive(p) \/ process[p] = "zombie"
Gone       == \A p \in Processes : ~Alive(p)
\* kill(-pid, ...) finds no process.
GroupEmpty == \A p \in Processes : ~InGroup(p)
\* kill(-pid, ...) returns EPERM.
Denied     == denies /\ Gone /\ ~GroupEmpty

processDone == waiter \in {"releasing", "done"}
waitDone    == waiter = "done"
treeReady   == waiter # "starting"

\* Cancel has returned to the watcher.
CancelReturned == TRUE
\* The group has been sent SIGKILL.
Signalled == [p \in Processes |-> IF process[p] = "running" THEN "killed" ELSE process[p]]
\* forceStop returns when terminate has.
Terminated == treeReady /\ tree = "done"
\* terminate has seen the group disappear.
Converged == GroupEmpty
\* Shutdown joins the waiter.
Joins == waitDone

Goto(c, place) == pc' = [pc EXCEPT ![c] = place]
CloseInput  == input' = "closed"
CloseOutput == output' = "closed"

\* Connection.Close closes both pipes, which the connection owns.
CloseConnection ==
    /\ connection' = IF connection = "open" THEN "closed" ELSE connection
    /\ CloseInput /\ CloseOutput

-----------------------------------------------------------------------------
(* The processes and the start context *)

Run(p, from, to) ==
    /\ process[p] = from
    /\ process' = [process EXCEPT ![p] = to]
    /\ UNCHANGED <<settings, ctxDone, cmdVars, stopVars, callVars, pipeVars>>

Forks(p) == (\E q \in Processes : process[q] = "running") /\ Run(p, "absent", "running")
Exits(p) == Run(p, "running", "zombie")
Dies(p)  == Run(p, "killed", "zombie")
\* A descendant is reaped by its parent or by the init process.
Vanishes(p) == p # Child /\ Run(p, "zombie", "gone")

ContextEnds ==
    /\ ~ctxDone /\ ctxDone' = TRUE
    /\ UNCHANGED <<process, settings, cmdVars, stopVars, callVars, pipeVars>>

-----------------------------------------------------------------------------
(* Cmd.Wait and the goroutine that calls it *)

\* installTree, and the waiter is started.
InstallTree ==
    /\ waiter = "starting" /\ waiter' = "reaping"
    /\ UNCHANGED <<systemVars, watcher, stopVars, callVars, pipeVars>>

\* The start context ends before the child is reaped and its watcher joined: Cancel
\* leaves the forced stop to a goroutine of its own.
Cancelled ==
    /\ ctxDone
    /\ watcher = "watching" /\ watcher' = "cancelling"
    /\ Goto(Stopper, "force")
    /\ UNCHANGED <<systemVars, waiter, stopVars, owner, pipeVars>>

WatcherReturns ==
    /\ watcher = "cancelling" /\ CancelReturned
    /\ watcher' = "cancelled"
    /\ UNCHANGED <<systemVars, waiter, stopVars, callVars, pipeVars>>

\* Cmd kills a child that outlives its cancellation by WaitDelay.
DelayExpires ==
    /\ waitDelay /\ watcher = "cancelled" /\ process[Child] = "running"
    /\ process' = [process EXCEPT ![Child] = "killed"]
    /\ UNCHANGED <<settings, ctxDone, cmdVars, stopVars, callVars, pipeVars>>

Reap ==
    /\ waiter = "reaping" /\ process[Child] = "zombie"
    /\ process' = [process EXCEPT ![Child] = "gone"]
    /\ waiter' = "joining"
    /\ UNCHANGED <<settings, ctxDone, watcher, stopVars, callVars, pipeVars>>

\* A watcher that has not called Cancel yet will not call it any more.
JoinWatcher ==
    /\ waiter = "joining" /\ watcher # "cancelling"
    /\ waiter' = "copying"
    /\ watcher' = "joined"
    /\ UNCHANGED <<systemVars, stopVars, callVars, pipeVars>>

CopyEnds ==
    /\ waiter = "copying" /\ (Gone \/ waitDelay)
    /\ waiter' = "releasing"
    /\ UNCHANGED <<systemVars, watcher, stopVars, callVars, pipeVars>>

\* tree.release has returned.
Released ==
    /\ waiter = "releasing" /\ tree = "done"
    /\ waiter' = "done"
    /\ UNCHANGED <<systemVars, watcher, stopVars, callVars, pipeVars>>

-----------------------------------------------------------------------------
(* unixProcessTree.terminate, run once for forceStop or for release *)

\* A group that is empty is done with, and so is, with an error, one that may not be
\* signalled.
Terminate ==
    /\ tree = "idle"
    /\ (force = "requested" /\ treeReady) \/ waiter = "releasing"
    /\ IF GroupEmpty \/ Denied
       THEN tree' = "done" /\ UNCHANGED process
       ELSE tree' = "polling" /\ process' = Signalled
    /\ UNCHANGED <<settings, ctxDone, cmdVars, force, callVars, pipeVars>>

\* The next probe with signal 0, of which only the last changes anything.
Poll ==
    /\ tree = "polling"
    /\ \/ Converged /\ tree' = "done"
       \/ Denied /\ tree' = "awaiting"
    /\ UNCHANGED <<systemVars, cmdVars, force, callVars, pipeVars>>

\* The probe after the child has been reaped; an error that remains is returned.
Recheck ==
    /\ tree = "awaiting" /\ processDone
    /\ tree' = IF GroupEmpty \/ Denied THEN "done" ELSE "polling"
    /\ UNCHANGED <<systemVars, cmdVars, force, callVars, pipeVars>>

-----------------------------------------------------------------------------
(* forceStop *)

ForceStart(c) ==
    /\ pc[c] = "force" /\ force = "none"
    /\ force' = "requested"
    /\ UNCHANGED <<systemVars, cmdVars, tree, callVars, pipeVars>>

ForceEnds ==
    /\ force = "requested" /\ Terminated
    /\ force' = "done"
    /\ UNCHANGED <<systemVars, cmdVars, tree, callVars, pipeVars>>

\* Everybody who called it goes on: Cancel's goroutine, Close, and Shutdown.
Forced(c) ==
    /\ pc[c] = "force" /\ force = "done"
    /\ Goto(c, IF c = Stopper THEN "returned"
               ELSE IF Method[c] = "close" THEN "last" ELSE "joining")
    /\ IF c = Stopper THEN UNCHANGED output ELSE CloseOutput
    /\ UNCHANGED <<systemVars, cmdVars, stopVars, owner, input, connection>>

-----------------------------------------------------------------------------
(* Close, Shutdown and Wait *)

\* A call, after Start.  Through a ClientProcess the connection is closed first.
Call(c) ==
    /\ treeReady
    /\ pc[c] = "idle" /\ Method[c] # "wait"
    /\ Goto(c, "once")
    /\ IF c \in Coupled THEN CloseConnection ELSE UNCHANGED pipeVars
    /\ UNCHANGED <<systemVars, cmdVars, stopVars, owner>>

\* The first call of a method runs it, later ones wait for the first.
EnterOnce(c) ==
    /\ pc[c] = "once"
    /\ IF owner[Method[c]] = None
       THEN /\ owner' = [owner EXCEPT ![Method[c]] = c]
            /\ CloseInput
            /\ Goto(c, IF Method[c] = "close" THEN "force" ELSE "graceful")
       ELSE Goto(c, "second") /\ UNCHANGED <<owner, input>>
    /\ UNCHANGED <<systemVars, cmdVars, stopVars, output, connection>>

SecondReturns(c) ==
    /\ pc[c] = "second" /\ pc[owner[Method[c]]] \in {"last", "returned"}
    /\ Goto(c, "last")
    /\ UNCHANGED <<systemVars, cmdVars, stopVars, owner, pipeVars>>

\* The child exits in time; a forced stop that has begun is joined too.
GracefulEnds(c) ==
    /\ pc[c] = "graceful" /\ waitDone
    /\ CloseOutput
    /\ Goto(c, IF force # "none" THEN "force" ELSE "last")
    /\ UNCHANGED <<systemVars, cmdVars, stopVars, owner, input, connection>>

DeadlinePasses(c) ==
    /\ pc[c] = "graceful"
    /\ Goto(c, "force")
    /\ UNCHANGED <<systemVars, cmdVars, stopVars, owner, pipeVars>>

ShutdownJoins(c) ==
    /\ pc[c] = "joining" /\ Joins
    /\ Goto(c, "last")
    /\ UNCHANGED <<systemVars, cmdVars, stopVars, owner, pipeVars>>

\* Wait has seen the child's end; a ClientProcess then closes the connection.
WaitEnds(c) ==
    /\ treeReady /\ waitDone
    /\ Method[c] = "wait" /\ pc[c] = "idle"
    /\ Goto(c, "last")
    /\ IF c \in Coupled THEN CloseConnection ELSE UNCHANGED pipeVars
    /\ UNCHANGED <<systemVars, cmdVars, stopVars, owner>>

\* Shutdown and Wait of a ClientProcess join the connection.
Return(c) ==
    /\ pc[c] = "last"
    /\ c \in Coupled /\ Method[c] # "close" => connection = "ended"
    /\ Goto(c, "returned")
    /\ UNCHANGED <<systemVars, cmdVars, stopVars, owner, pipeVars>>

\* The end of the output, a failed write or a bad frame ends the connection too.
ConnectionFails ==
    /\ connection = "open"
    /\ CloseConnection
    /\ UNCHANGED <<systemVars, cmdVars, stopVars, callVars>>

\* The connection's goroutines return once it is closed (ConnectionEnds of
\* InboundRequests).
ConnectionEnds ==
    /\ connection = "closed" /\ connection' = "ended"
    /\ UNCHANGED <<systemVars, cmdVars, stopVars, callVars, input, output>>

-----------------------------------------------------------------------------
(* The specification *)

CallStep(c) ==
    \/ EnterOnce(c) \/ SecondReturns(c) \/ GracefulEnds(c) \/ ShutdownJoins(c)
    \/ WaitEnds(c) \/ Return(c)

\* What the goroutines do and, of the kernel, what a SIGKILL leads to.
Progress ==
    \/ InstallTree \/ Cancelled \/ WatcherReturns \/ DelayExpires \/ Reap \/ JoinWatcher
    \/ CopyEnds \/ Released \/ Terminate \/ Poll \/ Recheck \/ ForceEnds \/ ConnectionEnds
    \/ \E p \in Processes : Dies(p) \/ Vanishes(p)
    \/ \E c \in Callers : CallStep(c)
    \/ \E c \in Callers \cup {Stopper} : ForceStart(c) \/ Forced(c)

Next ==
    \/ Progress \/ ContextEnds \/ ConnectionFails
    \/ \E p \in Processes : Forks(p) \/ Exits(p)
    \/ \E c \in Callers : Call(c) \/ DeadlinePasses(c)

Spec == Init /\ [][Next]_vars /\ WF_vars(Progress)

-----------------------------------------------------------------------------
(* Properties *)

\* When Close, Shutdown or Wait has returned, no process of the tree runs, not even
\* a descendant of a child that exited by itself, and none will (README, "forcefully
\* terminate and join the owned process tree"; forceStop, terminate, release).
StoppedIsGone ==
    \A c \in Callers : pc[c] \in {"last", "returned"} => Gone

\* A Shutdown that has returned has joined the waiter, so that the child is reaped,
\* and a forced stop it knew of, and has closed the pipes (shutdown, waitComplete in
\* process_test.go).
ShutdownIsFinal ==
    \A c \in Callers : Method[c] = "shutdown" /\ pc[c] \in {"last", "returned"} =>
        waitDone /\ process[Child] = "gone" /\ input = "closed" /\ output = "closed"

\* forceStop returns to nobody before the tree it waited for has been terminated,
\* also when the start context ends before the tree is installed (treeReady).
\* (With the type invariant.)
ForceNeedsTree == TypeOK /\ (force = "done" => treeReady /\ tree = "done")

\* Close, and Shutdown once its deadline has passed, return: the one goroutine
\* that reaps the child is never needed by a step it waits for (the comment of
\* cmd.Cancel in Start).
StopsReturn ==
    \A c \in Callers : (pc[c] = "force" \/ pc[c] = "last") ~> pc[c] = "returned"

\* Descendants that outlive the child are terminated, provided that the copy of
\* stderr is given up in the end (CHANGELOG, "post-exit cleanup").
ExitCleansUp == (process[Child] = "zombie" /\ waitDelay) ~> (waitDone /\ Gone)
=============================================================================

-------------------------- MODULE StdioProcessProofs --------------------------
(***************************************************************************)
(* Theorems about StdioProcess for any tree of processes and any calls.    *)
(***************************************************************************)
EXTENDS StdioProcess, TLAPS

\* A tree that has been terminated is gone, and the waiter is done after that.
TreeIsGone ==
    /\ tree = "done" => Gone
    /\ waiter = "done" => tree = "done"
    /\ force = "done" => treeReady /\ tree = "done"

\* The Once of Close and of Shutdown: a call that waits for the first one has one to
\* wait for, made of the same method.
OnceIsOwned ==
    /\ \A m \in {"close", "shutdown"} :
          owner[m] # None => owner[m] \in Callers /\ Method[owner[m]] = m
    /\ \A c \in Callers :
          /\ pc[c] \in {"once", "second"} => Method[c] # "wait"
          /\ pc[c] = "second" => owner[Method[c]] # None

\* How far the call c of Shutdown has come with the pipes and with the waiter.
ShutdownSoFar(c) ==
    /\ pc[c] \in {"graceful", "force", "joining", "last", "returned"} => input = "closed"
    /\ pc[c] \in {"joining", "last", "returned"} => output = "closed"
    /\ pc[c] \in {"last", "returned"} => waitDone

ShutdownAdvances == \A c \in Callers : Method[c] = "shutdown" => ShutdownSoFar(c)

IInv == TypeOK /\ TreeIsGone /\ OnceIsOwned /\ StoppedIsGone /\ ShutdownAdvances

-----------------------------------------------------------------------------
(* The processes *)

\* A tree of which nothing runs stays so, since only a process that runs forks, also
\* when the group is signalled (Setpgid, kill(-pid, SIGKILL)).
LEMMA GoneStaysGone ==
    ASSUME TypeOK, Gone,
           \/ \E p \in Processes : Forks(p) \/ Exits(p) \/ Dies(p) \/ Vanishes(p)
           \/ DelayExpires \/ Reap \/ Terminate
    PROVE  Gone'
<1>1. \A p \in Processes : process[p] \notin {"running", "killed"}
  BY DEF Gone, Alive
<1>2. ASSUME NEW p \in Processes, Forks(p) \/ Exits(p) \/ Dies(p) PROVE FALSE
  BY <1>1, <1>2 DEF Forks, Exits, Dies, Run
<1>3. ASSUME NEW p \in Processes, Vanishes(p) PROVE Gone'
  BY <1>1, <1>3 DEF Vanishes, Run, TypeOK, Gone, Alive
<1>4. CASE DelayExpires
  BY <1>1, <1>4 DEF DelayExpires, Processes
<1>5. CASE Reap
  BY <1>1, <1>5 DEF Reap, TypeOK, Gone, Alive
<1>6. CASE Terminate
  BY <1>1, <1>6 DEF Terminate, Signalled, TypeOK, Gone, Alive
<1> QED
  BY <1>2, <1>3, <1>4, <1>5, <1>6

\* A step that changes the processes keeps the rest, unless the waiter reaps or the
\* tree changes.
LEMMA ProcessStepKeeps ==
    ASSUME IInv, TypeOK', Gone => Gone',
           UNCHANGED <<waiter, tree, stopVars, callVars, pipeVars>>
    PROVE  IInv'
<1>1. TreeIsGone' /\ OnceIsOwned'
  BY DEF IInv, TreeIsGone, OnceIsOwned, stopVars, callVars, treeReady
<1>2. StoppedIsGone'
  BY DEF IInv, StoppedIsGone, callVars
<1>3. ShutdownAdvances'
  BY DEF IInv, ShutdownAdvances, ShutdownSoFar, waitDone, callVars, pipeVars
<1> QED
  BY <1>1, <1>2, <1>3 DEF IInv

\* The steps of the processes, of the kernel and of Cmd's kill keep the invariant.
LEMMA ProcessesKeep ==
    ASSUME IInv,
           \/ \E p \in Processes : Forks(p) \/ Exits(p) \/ Dies(p) \/ Vanishes(p)
           \/ DelayExpires
    PROVE  IInv'
<1>1. Gone => Gone'
  BY GoneStaysGone DEF IInv
<1>2. ASSUME NEW p \in Processes, NEW from, NEW to \in {"running", "zombie", "gone", "killed"},
             Run(p, from, to), p = Child => from # "gone" /\ to # "gone"
      PROVE  TypeOK'
  BY <1>2 DEF IInv, Run, TypeOK, settings, cmdVars, stopVars, callVars, pipeVars, Processes
<1>3. TypeOK'
  <2>1. CASE DelayExpires
    BY <2>1 DEF DelayExpires, IInv, TypeOK, settings, cmdVars, stopVars, callVars, pipeVars,
                Processes
  <2>2. ASSUME NEW p \in Processes, Forks(p) \/ Exits(p) \/ Dies(p) \/ Vanishes(p)
        PROVE  TypeOK'
    BY <2>2, <1>2 DEF Forks, Exits, Dies, Vanishes
  <2> QED
    BY <2>1, <2>2
<1>4. UNCHANGED <<waiter, tree, stopVars, callVars, pipeVars>>
  BY DEF Forks, Exits, Dies, Vanishes, Run, DelayExpires, cmdVars, stopVars
<1> QED
  BY <1>1, <1>3, <1>4, ProcessStepKeeps

-----------------------------------------------------------------------------
(* The waiter and the tree *)

\* Start, Cmd.Wait, release and the watcher of the start context keep the invariant.
LEMMA WaiterKeeps ==
    ASSUME IInv,
           \/ InstallTree \/ Cancelled \/ WatcherReturns \/ Reap \/ JoinWatcher
           \/ CopyEnds \/ Released \/ ContextEnds
    PROVE  IInv'
<1> USE ProcessAssumption DEF cmdVars, stopVars, callVars, pipeVars, systemVars, settings
<1>1. TypeOK'
  <2>1. CASE InstallTree
    BY <2>1 DEF InstallTree, IInv, TypeOK
  <2>2. CASE Cancelled
    BY <2>2 DEF Cancelled, Goto, IInv, TypeOK
  <2>3. CASE Reap
    BY <2>3 DEF Reap, IInv, TypeOK, Processes
  <2>4. CASE WatcherReturns \/ JoinWatcher
    BY <2>4 DEF WatcherReturns, JoinWatcher, IInv, TypeOK
  <2>5. CASE CopyEnds
    BY <2>5 DEF CopyEnds, IInv, TypeOK
  <2>6. CASE Released
    BY <2>6 DEF Released, IInv, TypeOK
  <2>7. CASE ContextEnds
    BY <2>7 DEF ContextEnds, IInv, TypeOK
  <2> QED
    BY <2>1, <2>2, <2>3, <2>4, <2>5, <2>6, <2>7
<1>2. Gone => Gone'
  <2>1. CASE Reap
    BY <2>1, GoneStaysGone DEF IInv
  <2>2. CASE ~Reap
    BY <2>2 DEF InstallTree, Cancelled, WatcherReturns, JoinWatcher, CopyEnds, Released,
                ContextEnds, Gone, Alive
  <2> QED
    BY <2>1, <2>2
<1>3. /\ UNCHANGED <<stopVars, owner, pipeVars>>
      /\ waiter' = "done" => waiter = "done" \/ tree = "done"
      /\ treeReady => treeReady'
      /\ waitDone => waitDone'
  BY DEF InstallTree, Cancelled, WatcherReturns, Reap, JoinWatcher, CopyEnds, Released,
         ContextEnds, treeReady, waitDone
<1>4. \A c \in Callers : pc'[c] = pc[c]
  BY DEF IInv, TypeOK, InstallTree, Cancelled, Goto, WatcherReturns, Reap, JoinWatcher,
         CopyEnds, Released, ContextEnds
<1>5. TreeIsGone'
  BY <1>2, <1>3 DEF IInv, TreeIsGone
<1>6. OnceIsOwned' /\ StoppedIsGone' /\ ShutdownAdvances'
  BY <1>2, <1>3, <1>4 DEF IInv, OnceIsOwned, StoppedIsGone, ShutdownAdvances, ShutdownSoFar
<1> QED
  BY <1>1, <1>5, <1>6 DEF IInv

\* terminate is done only with a group in which nothing runs, whether it is empty or
\* the system denies the signal to what is left of it.
LEMMA TreeKeeps ==
    ASSUME IInv, Terminate \/ Poll \/ Recheck PROVE IInv'
<1> USE DEF cmdVars, stopVars, callVars, pipeVars, systemVars, settings
<1>1. TypeOK'
  <2>1. CASE Terminate
    <3>1. process' \in [Processes -> {"absent", "running", "killed", "zombie", "gone"}]
      BY <2>1 DEF Terminate, Signalled, IInv, TypeOK
    <3>2. process'[Child] = "gone" <=> process[Child] = "gone"
      BY <2>1 DEF Terminate, Signalled, IInv, TypeOK, Processes
    <3> QED
      BY <2>1, <3>1, <3>2 DEF Terminate, IInv, TypeOK
  <2>2. CASE Poll \/ Recheck
    BY <2>2 DEF Poll, Recheck, IInv, TypeOK
  <2> QED
    BY <2>1, <2>2
<1>2. Gone => Gone'
  BY GoneStaysGone DEF IInv, Poll, Recheck, Gone, Alive
<1>3. tree' = "done" => Gone
  BY DEF Terminate, Poll, Recheck, Converged, Denied, GroupEmpty, InGroup, Gone
<1>4. /\ UNCHANGED <<waiter, force, callVars, pipeVars>>
      /\ tree # "done"
  BY DEF Terminate, Poll, Recheck
<1>5. TreeIsGone'
  BY <1>2, <1>3, <1>4 DEF IInv, TreeIsGone, treeReady
<1>6. OnceIsOwned' /\ StoppedIsGone' /\ ShutdownAdvances'
  BY <1>2, <1>4 DEF IInv, OnceIsOwned, StoppedIsGone, ShutdownAdvances, ShutdownSoFar,
                    waitDone
<1> QED
  BY <1>1, <1>5, <1>6 DEF IInv

-----------------------------------------------------------------------------
(* The calls *)

\* A step of the call c, or of forceStop on its behalf, keeps the invariant when
\* where the call goes is covered by what is known of the tree and of the pipes.
LEMMA CallStepKeeps ==
    ASSUME IInv, NEW c \in Callers \cup {Stopper},
           NEW place \in {"idle", "once", "second", "graceful", "force", "last", "joining",
                           "returned"},
           Goto(c, place), TypeOK', OnceIsOwned',
           UNCHANGED <<systemVars, cmdVars, stopVars>>,
           input = "closed" => input' = "closed", output = "closed" => output' = "closed",
           c # Stopper /\ place \in {"last", "returned"} => Gone,
           c # Stopper /\ Method[c] = "shutdown" => ShutdownSoFar(c)'
    PROVE  IInv'
<1> USE DEF systemVars, cmdVars, stopVars
<1>1. /\ \A d \in Callers : d # c => pc'[d] = pc[d]
      /\ pc'[c] = place
  BY DEF IInv, TypeOK, Goto
<1>2. Gone' <=> Gone
  BY DEF Gone, Alive
<1>3. TreeIsGone'
  BY <1>2 DEF IInv, TreeIsGone, treeReady
<1>4. StoppedIsGone'
  BY <1>1, <1>2, ProcessAssumption DEF IInv, StoppedIsGone
<1>5. ShutdownAdvances'
  BY <1>1, ProcessAssumption DEF IInv, ShutdownAdvances, ShutdownSoFar, waitDone
<1> QED
  BY <1>3, <1>4, <1>5 DEF IInv

\* The calls made of a Process keep the invariant.
LEMMA CallsKeep ==
    ASSUME IInv, NEW c \in Callers,
           Call(c) \/ DeadlinePasses(c) \/ CallStep(c)
    PROVE  IInv'
<1> USE ProcessAssumption DEF callVars, pipeVars
<1>0. /\ c # Stopper /\ c \in Callers \cup {Stopper}
      /\ Method[c] \in Methods
  OBVIOUS
<1>1. CASE Call(c)
  <2>1. TypeOK' /\ OnceIsOwned' /\ pc'[c] = "once"
    BY <1>0, <1>1 DEF Call, Goto, CloseConnection, CloseInput, CloseOutput, IInv, TypeOK,
                      OnceIsOwned, systemVars, cmdVars, stopVars, settings
  <2>2. /\ Goto(c, "once") /\ UNCHANGED <<systemVars, cmdVars, stopVars>>
        /\ input = "closed" => input' = "closed"
        /\ output = "closed" => output' = "closed"
    BY <1>1 DEF Call, CloseConnection, CloseInput, CloseOutput
  <2> QED
    BY <1>0, <2>1, <2>2, CallStepKeeps DEF ShutdownSoFar
<1>2. CASE EnterOnce(c)
  <2>1. CASE owner[Method[c]] = None
    <3>1. TypeOK' /\ OnceIsOwned'
      BY <1>0, <1>2, <2>1 DEF EnterOnce, Goto, CloseInput, IInv, TypeOK, OnceIsOwned, Methods,
                              systemVars, cmdVars, stopVars, settings
    <3>2. /\ pc'[c] \in {"force", "graceful"}
          /\ Goto(c, pc'[c]) /\ UNCHANGED <<systemVars, cmdVars, stopVars, output>>
          /\ input' = "closed"
      BY <1>2, <2>1 DEF EnterOnce, Goto, CloseInput, IInv, TypeOK
    <3> QED
      BY <1>0, <3>1, <3>2, CallStepKeeps DEF ShutdownSoFar
  <2>2. CASE owner[Method[c]] # None
    <3>1. TypeOK' /\ OnceIsOwned' /\ pc'[c] = "second"
      BY <1>0, <1>2, <2>2 DEF EnterOnce, Goto, IInv, TypeOK, OnceIsOwned, Methods,
                              systemVars, cmdVars, stopVars, settings
    <3>2. Goto(c, "second") /\ UNCHANGED <<systemVars, cmdVars, stopVars, input, output>>
      BY <1>2, <2>2 DEF EnterOnce
    <3> QED
      BY <1>0, <3>1, <3>2, CallStepKeeps DEF ShutdownSoFar
  <2> QED
    BY <2>1, <2>2
<1>3. CASE SecondReturns(c)
  <2> DEFINE first == owner[Method[c]]
  <2>1. /\ first \in Callers /\ Method[first] = Method[c]
        /\ pc[first] \in {"last", "returned"}
    BY <1>0, <1>3 DEF SecondReturns, IInv, TypeOK, OnceIsOwned, Methods
  <2>2. Gone
    BY <2>1 DEF IInv, StoppedIsGone
  <2>3. Method[c] = "shutdown" => input = "closed" /\ output = "closed" /\ waitDone
    BY <2>1 DEF IInv, ShutdownAdvances, ShutdownSoFar
  <2>4. TypeOK' /\ OnceIsOwned'
    BY <1>3 DEF SecondReturns, Goto, IInv, TypeOK, OnceIsOwned, systemVars, cmdVars,
                stopVars, settings
  <2>5. Goto(c, "last") /\ UNCHANGED <<systemVars, cmdVars, stopVars, input, output>>
    BY <1>3 DEF SecondReturns
  <2> QED
    BY <1>0, <2>2, <2>3, <2>4, <2>5, CallStepKeeps DEF ShutdownSoFar, waitDone, cmdVars
<1>4. CASE GracefulEnds(c)
  <2>1. Gone /\ waitDone
    BY <1>4 DEF GracefulEnds, IInv, TreeIsGone, waitDone
  <2>2. Method[c] = "shutdown" => input = "closed"
    BY <1>4 DEF GracefulEnds, IInv, ShutdownAdvances, ShutdownSoFar
  <2>3. TypeOK' /\ OnceIsOwned'
    BY <1>4 DEF GracefulEnds, Goto, CloseOutput, IInv, TypeOK, OnceIsOwned, systemVars,
                cmdVars, stopVars, settings
  <2>4. /\ pc'[c] \in {"force", "last"} /\ Goto(c, pc'[c])
        /\ UNCHANGED <<systemVars, cmdVars, stopVars, input>>
        /\ output' = "closed"
    BY <1>4 DEF GracefulEnds, Goto, CloseOutput, IInv, TypeOK
  <2> QED
    BY <1>0, <2>1, <2>2, <2>3, <2>4, CallStepKeeps DEF ShutdownSoFar, waitDone, cmdVars
<1>5. CASE DeadlinePasses(c)
  <2>1. TypeOK' /\ OnceIsOwned' /\ pc'[c] = "force"
    BY <1>5 DEF DeadlinePasses, Goto, IInv, TypeOK, OnceIsOwned, systemVars, cmdVars,
                stopVars, settings
  <2>2. Goto(c, "force") /\ UNCHANGED <<systemVars, cmdVars, stopVars, input, output>>
    BY <1>5 DEF DeadlinePasses
  <2>3. Method[c] = "shutdown" => input = "closed"
    BY <1>5 DEF DeadlinePasses, IInv, ShutdownAdvances, ShutdownSoFar
  <2> QED
    BY <1>0, <2>1, <2>2, <2>3, CallStepKeeps DEF ShutdownSoFar
<1>6. CASE ShutdownJoins(c)
  <2>1. Gone /\ waitDone
    BY <1>6 DEF ShutdownJoins, Joins, IInv, TreeIsGone, waitDone
  <2>2. Method[c] = "shutdown" => input = "closed" /\ output = "closed"
    BY <1>6 DEF ShutdownJoins, IInv, ShutdownAdvances, ShutdownSoFar
  <2>3. TypeOK' /\ OnceIsOwned'
    BY <1>6 DEF ShutdownJoins, Goto, IInv, TypeOK, OnceIsOwned, systemVars, cmdVars,
                stopVars, settings
  <2>4. Goto(c, "last") /\ UNCHANGED <<systemVars, cmdVars, stopVars, input, output>>
    BY <1>6 DEF ShutdownJoins
  <2> QED
    BY <1>0, <2>1, <2>2, <2>3, <2>4, CallStepKeeps DEF ShutdownSoFar, waitDone, cmdVars
<1>7. CASE WaitEnds(c)
  <2>1. Gone
    BY <1>7 DEF WaitEnds, IInv, TreeIsGone, waitDone
  <2>2. TypeOK' /\ OnceIsOwned' /\ Method[c] # "shutdown"
    BY <1>7 DEF WaitEnds, Goto, CloseConnection, CloseInput, CloseOutput, IInv, TypeOK,
                OnceIsOwned, systemVars, cmdVars, stopVars, settings
  <2>3. /\ Goto(c, "last") /\ UNCHANGED <<systemVars, cmdVars, stopVars>>
        /\ input = "closed" => input' = "closed"
        /\ output = "closed" => output' = "closed"
    BY <1>7 DEF WaitEnds, CloseConnection, CloseInput, CloseOutput
  <2> QED
    BY <1>0, <2>1, <2>2, <2>3, CallStepKeeps
<1>8. CASE Return(c)
  <2>1. Gone
    BY <1>8 DEF Return, IInv, StoppedIsGone
  <2>2. Method[c] = "shutdown" => input = "closed" /\ output = "closed" /\ waitDone
    BY <1>8 DEF Return, IInv, ShutdownAdvances, ShutdownSoFar
  <2>3. TypeOK' /\ OnceIsOwned'
    BY <1>8 DEF Return, Goto, IInv, TypeOK, OnceIsOwned, systemVars, cmdVars, stopVars,
                settings
  <2>4. Goto(c, "returned") /\ UNCHANGED <<systemVars, cmdVars, stopVars, input, output>>
    BY <1>8 DEF Return
  <2> QED
    BY <1>0, <2>1, <2>2, <2>3, <2>4, CallStepKeeps DEF ShutdownSoFar, waitDone, cmdVars
<1> QED
  BY <1>1, <1>2, <1>3, <1>4, <1>5, <1>6, <1>7, <1>8 DEF CallStep

\* forceStop keeps the invariant, for Close, for Shutdown and for the goroutine that
\* cmd.Cancel leaves behind.
LEMMA ForceKeeps ==
    ASSUME IInv,
           ForceEnds \/ \E c \in Callers \cup {Stopper} : ForceStart(c) \/ Forced(c)
    PROVE  IInv'
<1> USE ProcessAssumption DEF stopVars, callVars
<1>1. CASE ForceEnds \/ \E c \in Callers \cup {Stopper} : ForceStart(c)
  <2>1. /\ UNCHANGED <<systemVars, cmdVars, tree, callVars, pipeVars>>
        /\ force' \in {"requested", "done"}
        /\ force' = "done" => treeReady /\ tree = "done"
    BY <1>1 DEF ForceEnds, ForceStart, Terminated
  <2>2. TypeOK' /\ TreeIsGone'
    BY <2>1 DEF IInv, TypeOK, TreeIsGone, treeReady, Gone, Alive, systemVars, cmdVars,
                settings, pipeVars
  <2>3. OnceIsOwned' /\ StoppedIsGone' /\ ShutdownAdvances'
    BY <2>1 DEF IInv, OnceIsOwned, StoppedIsGone, ShutdownAdvances, ShutdownSoFar, Gone,
                Alive, waitDone, systemVars, cmdVars, pipeVars
  <2> QED
    BY <2>2, <2>3 DEF IInv
<1>2. ASSUME NEW c \in Callers \cup {Stopper}, Forced(c) PROVE IInv'
  <2>1. Gone
    BY <1>2 DEF Forced, IInv, TreeIsGone
  <2>2. c # Stopper /\ Method[c] = "shutdown" => input = "closed"
    BY <1>2 DEF Forced, IInv, ShutdownAdvances, ShutdownSoFar
  <2>3. /\ pc'[c] \in {"returned", "last", "joining"} /\ Goto(c, pc'[c])
        /\ c # Stopper /\ Method[c] = "shutdown" =>
              pc'[c] = "joining" /\ output' = "closed"
        /\ UNCHANGED <<systemVars, cmdVars, stopVars, owner, input>>
        /\ output' \in {output, "closed"}
    BY <1>2 DEF Forced, Goto, CloseOutput, IInv, TypeOK
  <2>4. TypeOK' /\ OnceIsOwned'
    BY <1>2, <2>3 DEF Forced, Goto, IInv, TypeOK, OnceIsOwned, systemVars, cmdVars, settings
  <2> QED
    BY <2>1, <2>2, <2>3, <2>4, CallStepKeeps DEF ShutdownSoFar
<1> QED
  BY <1>1, <1>2

\* The end of the connection, for whatever reason, keeps the invariant.
LEMMA ConnectionKeeps ==
    ASSUME IInv, ConnectionFails \/ ConnectionEnds PROVE IInv'
<1>1. /\ UNCHANGED <<systemVars, cmdVars, stopVars, callVars>>
      /\ connection' \in {"closed", "ended"}
      /\ input' \in {input, "closed"} /\ output' \in {output, "closed"}
  BY DEF ConnectionFails, ConnectionEnds, CloseConnection, CloseInput, CloseOutput
<1>2. TypeOK'
  BY <1>1 DEF IInv, TypeOK, systemVars, settings, cmdVars, stopVars, callVars
<1>3. TreeIsGone' /\ OnceIsOwned' /\ StoppedIsGone' /\ ShutdownAdvances'
  BY <1>1 DEF IInv, TreeIsGone, OnceIsOwned, StoppedIsGone, ShutdownAdvances, ShutdownSoFar,
              Gone, Alive, treeReady, waitDone, systemVars, cmdVars, stopVars, callVars
<1> QED
  BY <1>2, <1>3 DEF IInv

-----------------------------------------------------------------------------
(* The theorems *)

LEMMA Initially == Init => IInv
<1> SUFFICES ASSUME Init PROVE IInv
  OBVIOUS
<1>1. TypeOK
  BY ProcessAssumption DEF Init, TypeOK, Processes
<1>2. TreeIsGone /\ OnceIsOwned /\ StoppedIsGone /\ ShutdownAdvances
  BY ProcessAssumption DEF Init, TreeIsGone, OnceIsOwned, StoppedIsGone, ShutdownAdvances,
                           ShutdownSoFar
<1> QED
  BY <1>1, <1>2 DEF IInv

\* The inductive invariant of the owner of a subprocess.
THEOREM Invariance == Spec => []IInv
<1>1. IInv /\ [Next]_vars => IInv'
  <2> SUFFICES ASSUME IInv, [Next]_vars PROVE IInv'
    OBVIOUS
  <2>1. CASE Progress
    BY <2>1, WaiterKeeps, TreeKeeps, ProcessesKeep, CallsKeep, ForceKeeps, ConnectionKeeps
       DEF Progress
  <2>2. CASE ContextEnds \/ ConnectionFails
    BY <2>2, WaiterKeeps, ConnectionKeeps
  <2>3. CASE \E p \in Processes : Forks(p) \/ Exits(p)
    BY <2>3, ProcessesKeep
  <2>4. CASE \E c \in Callers : Call(c) \/ DeadlinePasses(c)
    BY <2>4, CallsKeep
  <2>5. CASE UNCHANGED vars
    <3> USE <2>5 DEF vars, systemVars, settings, cmdVars, stopVars, callVars, pipeVars
    <3>1. TypeOK'
      BY DEF IInv, TypeOK
    <3>2. TreeIsGone' /\ OnceIsOwned' /\ StoppedIsGone' /\ ShutdownAdvances'
      BY DEF IInv, TreeIsGone, OnceIsOwned, StoppedIsGone, ShutdownAdvances, ShutdownSoFar,
             Gone, Alive, treeReady, waitDone
    <3> QED
      BY <3>1, <3>2 DEF IInv
  <2> QED
    BY <2>1, <2>2, <2>3, <2>4, <2>5 DEF Next
<1> QED
  BY Initially, <1>1, PTL DEF Spec

\* When Close, Shutdown or Wait has returned, no process of the tree runs, and none
\* will (forceStop, terminate, release).
THEOREM StopLeavesNothing == Spec => []StoppedIsGone
<1>1. IInv => StoppedIsGone
  BY DEF IInv
<1> QED
  BY Invariance, <1>1, PTL

\* A Shutdown that has returned has joined the waiter and closed the pipes, whether
\* the child exited in time, the deadline passed or an earlier Shutdown did it all
\* (shutdown).
THEOREM ShutdownJoinsAll == Spec => []ShutdownIsFinal
<1>1. IInv => ShutdownIsFinal
  BY DEF IInv, TypeOK, ShutdownIsFinal, ShutdownAdvances, ShutdownSoFar, waitDone
<1> QED
  BY Invariance, <1>1, PTL

\* forceStop returns to nobody before the tree has been installed and terminated
\* (forceStop, treeReady).
THEOREM ForceWaitsForTree == Spec => []ForceNeedsTree
<1>1. IInv => ForceNeedsTree
  BY DEF IInv, TreeIsGone, ForceNeedsTree
<1> QED
  BY Invariance, <1>1, PTL
=============================================================================

--------------------------- MODULE Loader_proofs ---------------------------
(***************************************************************************)
(* Theorems about Loader, for any commands, orders and followers and any   *)
(* number of executors: one executor at a time is on the weights, they are *)
(* not freed under it, and nobody is told or left too early; and about     *)
(* WeightLoad, for any checkpoint and any size of the arena: an executor   *)
(* that is admitted has the weights, one is refused for a reason, and      *)
(* nothing is copied from a closed file.                                   *)
(***************************************************************************)
EXTENDS Loader, WeightLoad, Heap_proofs, FiniteSetTheorems

-----------------------------------------------------------------------------
(* Sequences                                                             *)

\* What the lifecycle chain does with its first entry.
LEMMA FirstOfChain ==
  ASSUME NEW S, NEW u \in Seq(S), u # <<>>
  PROVE  /\ Head(u) \in S /\ Tail(u) \in Seq(S)
         /\ \A e \in S : /\ <<e>> \o Tail(u) \in Seq(S)
                         /\ <<e>> \o Tail(u) # <<>> /\ Head(<<e>> \o Tail(u)) = e
<1>1. Head(u) \in S /\ Tail(u) \in Seq(S)
  OBVIOUS
<1>2. ASSUME NEW e \in S
      PROVE  <<e>> \o Tail(u) \in Seq(S) /\ <<e>> \o Tail(u) # <<>> /\ Head(<<e>> \o Tail(u)) = e
  BY <1>1
<1> QED
  BY <1>1, <1>2

\* What it does with a new one.
LEMMA LastOfChain ==
  ASSUME NEW S, NEW u \in Seq(S), NEW e \in S
  PROVE  /\ Append(u, e) \in Seq(S) /\ Append(u, e) # <<>>
         /\ u # <<>> => Head(Append(u, e)) = Head(u)
<1>1. Append(u, e) \in Seq(S) /\ Append(u, e) # <<>>
  OBVIOUS
<1>2. u # <<>> => Head(Append(u, e)) = Head(u)
  BY HeadTailAppend
<1> QED
  BY <1>1, <1>2

\* A chain stays one when more entries are allowed in it.
LEMMA WiderChain ==
  ASSUME NEW S, NEW T, S \subseteq T, NEW u \in Seq(S)
  PROVE  u \in Seq(T)
<1>1. u \in [1..Len(u) -> S] /\ Len(u) \in Nat
  OBVIOUS
<1>2. u \in [1..Len(u) -> T]
  BY <1>1
<1> QED
  BY <1>1, <1>2, SeqDef
-----------------------------------------------------------------------------
(* The inductive invariant                                               *)

Entry == [order : Order \cup {Signal}, cmd : Command \cup {None, "body"}, follow : Follower \cup {None},
          kind : {"fork", "spawn", "stop", "restart", "shutdown"}]

\* The order of the signal is in the chain only after the signal, and no
\* order is executed before its body has been parsed.
ChainOrdered ==
  /\ chain \in Seq({e \in Entry : e.order = Signal => shuttingDown})
  /\ step # "begin" => chain # <<>> /\ (First.kind = "restart" => First.cmd \in Command \cup {None})

\* worker is null or the process started last, and stays null from the end of
\* stopWorker until the order that awaits it goes on; after shutdown, for good.
WorkerPlace ==
  /\ worker \in {0, started}
  /\ stopping \in {0, worker}
  /\ stopping # 0 => step = "waiting"
  /\ step = "stopped" => worker = 0
  /\ Closing => shuttingDown /\ worker = 0
  /\ freed => Closing

\* A process nobody refers to any more has gone, with its descendants.
Processes ==
  \A w \in Process :
    /\ os[w] \in {"none", "failed"} => ~helpers[w]
    /\ w > started => os[w] = "none" /\ seen[w] = {}
    /\ "end" \in seen[w] => ~Alive(w)
    /\ w \in Made /\ w # worker => ~Alive(w) /\ (os[w] # "failed" => "end" \in seen[w])

IInv == TypeOK /\ ChainOrdered /\ WorkerPlace /\ Processes /\ CommandIsWorkers

\* The bound on started keeps every process made among those the model has.
LEMMA MadeProcess == TypeOK => Made \subseteq Process
  BY StartAssumption DEF TypeOK, Made, Process

\* A process that is not the worker has gone.
LEMMA GoneUnlessWorker ==
  ASSUME IInv, NEW w \in Made, w # worker
  PROVE  ~Alive(w) /\ (os[w] # "failed" => "end" \in seen[w])
  BY MadeProcess DEF IInv, Processes
-----------------------------------------------------------------------------

\* How the chain and the answers change when an order is done.
LEMMA FinishTypes ==
  ASSUME TypeOK, chain # <<>>, NEW answer \in {"ok", "failed"}, Finish(answer)
  PROVE  /\ chain' \in Seq(Entry) /\ step' = "begin"
         /\ reply' \in [Order \cup {Signal} -> {"none", "waiting", "ok", "failed"}]
<1>1. chain \in Seq(Entry)
  BY DEF TypeOK, Entry
<1>2. First \in Entry /\ Tail(chain) \in Seq(Entry)
  BY <1>1, FirstOfChain DEF First
<1> QED
  BY <1>2 DEF Finish, Answered, TypeOK, Entry

\* A start, or one that is refused, keeps the types.
LEMMA LaunchTypes ==
  ASSUME TypeOK, chain # <<>>, NEW cmd \in Command \cup {None}, Launch(cmd),
         UNCHANGED <<stopping, serverVars>>
  PROVE  TypeOK'
<1> USE DEF Process, Command, Made
<1>1. /\ chain' \in Seq(Entry) /\ step' = "begin"
      /\ reply' \in [Order \cup {Signal} -> {"none", "waiting", "ok", "failed"}]
  BY FinishTypes DEF Launch
<1>2. CASE ~UNCHANGED started
  <2>1. /\ started' = started + 1 /\ started' \in Process /\ worker' = started' /\ image' = cmd /\ command' = cmd
        /\ UNCHANGED <<seen, soon, killed>>
    BY <1>2, StartAssumption DEF Launch, TypeOK
  <2>2. os' \in [Process -> {"none", "failed", "running", "exited"}]
    BY <1>2, <2>1 DEF Launch, TypeOK, processVars
  <2>3. helpers' \in [Process -> BOOLEAN]
    BY <1>2, <2>1 DEF Launch, TypeOK, processVars
  <2>4. followers' \in [Follower -> {"none", "open", "ended", "left"}]
    BY <1>2 DEF Launch, TypeOK
  <2> QED
    BY <1>1, <2>1, <2>2, <2>3, <2>4 DEF TypeOK, serverVars, Entry
<1>3. CASE UNCHANGED started
  <2>1. UNCHANGED <<worker, started, image, processVars, followers>> /\ command' = cmd
    BY <1>3 DEF Launch, TypeOK
  <2> QED
    BY <1>1, <2>1 DEF TypeOK, serverVars, processVars, Entry
<1> QED
  BY <1>2, <1>3

\* So do the listeners that let go of a process.
LEMMA GoneTypes ==
  ASSUME TypeOK, NEW w \in Made, Gone(w)
  PROVE  /\ UNCHANGED <<chain, reply, command, started, image>>
         /\ step' \in {"begin", "waiting", "stopped"}
         /\ {worker', stopping'} \subseteq 0..started
         /\ killed' \in BOOLEAN
<1>1. UNCHANGED <<chain, reply, command, started, image>> /\ step' \in {"begin", "waiting", "stopped"}
  BY DEF Gone, TypeOK
<1>2. {worker', stopping'} \subseteq 0..started
  BY DEF Gone, TypeOK
<1>3. killed' \in BOOLEAN
  <2>1. CASE stopping = w
    BY <2>1 DEF Gone
  <2>2. CASE stopping # w
    BY <2>2 DEF Gone, TypeOK
  <2> QED
    BY <2>1, <2>2
<1> QED
  BY <1>1, <1>2, <1>3

\* Every step of the loader, its executors and its clients keeps the types.
LEMMA TypeOKNext ==
  ASSUME IInv, [Next]_vars
  PROVE  TypeOK'
<1> USE DEF Process, Command, Made
<1>1. ASSUME NEW o \in Order, NEW kind \in {"fork", "spawn", "stop", "restart"},
             NEW cmd \in {None, "body"}, NEW follow \in Follower \cup {None}, Request(o, kind, cmd, follow)
      PROVE  TypeOK'
  <2>1. chain \in Seq(Entry)
    BY DEF IInv, TypeOK, Entry
  <2>2. [order |-> o, kind |-> kind, cmd |-> cmd, follow |-> follow] \in Entry
    BY DEF Entry
  <2>3. chain' \in Seq(Entry)
    BY <1>1, <2>1, <2>2, LastOfChain DEF Request
  <2>4. reply' \in [Order \cup {Signal} -> {"none", "waiting", "ok", "failed"}]
    BY <1>1 DEF Request, IInv, TypeOK
  <2> QED
    BY <1>1, <2>3, <2>4 DEF Request, IInv, TypeOK, Entry, workerVars, processVars, serverVars
<1>2. CASE Shutdown
  BY <1>2 DEF Shutdown, IInv, TypeOK, orderVars, workerVars, processVars, serverVars
<1>3. CASE BeginStart
  <2>1. CASE Finish("failed") /\ UNCHANGED <<command, worker, started, image, processVars, followers>>
    BY <1>3, <2>1, FinishTypes DEF BeginStart, IInv, TypeOK, Entry, processVars, serverVars
  <2>2. ASSUME NEW cmd \in Meant \cap (IF First.kind = "fork" THEN Fork ELSE Spawn), Launch(cmd)
        PROVE  TypeOK'
    <3>1. cmd \in Command \cup {None}
      BY <2>2
    <3> QED
      BY <1>3, <2>2, <3>1, LaunchTypes DEF BeginStart, IInv
  <2> QED
    BY <1>3, <2>1, <2>2 DEF BeginStart
<1>4. CASE BeginStop
  BY <1>4 DEF BeginStop, StopWorker, IInv, TypeOK, orderVars, workerVars, processVars, serverVars
<1>5. CASE BeginRestart
  <2>1. chain \in Seq(Entry) /\ chain # <<>>
    BY <1>5 DEF BeginRestart, IInv, TypeOK, Entry
  <2>2. CASE Finish("failed") /\ UNCHANGED stopping
    BY <1>5, <2>1, <2>2, FinishTypes DEF BeginRestart, IInv, TypeOK, Entry, processVars, serverVars
  <2>3. ASSUME NEW cmd \in Meant, chain' = <<[First EXCEPT !.cmd = cmd]>> \o Tail(chain), StopWorker, UNCHANGED reply
        PROVE  TypeOK'
    <3>1. First \in Entry
      BY <2>1, FirstOfChain DEF First
    <3>2. cmd \in Command \cup {None}
      BY <2>3 DEF Meant, IInv, TypeOK
    <3>3. [First EXCEPT !.cmd = cmd] \in Entry
      BY <3>1, <3>2 DEF Entry
    <3>4. chain' \in Seq(Entry)
      BY <2>1, <2>3, <3>3, FirstOfChain
    <3> QED
      BY <1>5, <2>3, <3>4 DEF BeginRestart, StopWorker, IInv, TypeOK, Entry, processVars, serverVars
  <2> QED
    BY <1>5, <2>2, <2>3 DEF BeginRestart
<1>6. CASE AfterStop
  <2>1. CASE First.kind = "restart"
    <3>1. First.cmd \in Command \cup {None}
      BY <1>6, <2>1 DEF AfterStop, IInv, ChainOrdered
    <3> QED
      BY <1>6, <2>1, <3>1, LaunchTypes DEF AfterStop, IInv
  <2>2. CASE First.kind # "restart"
    BY <1>6, <2>2, FinishTypes DEF AfterStop, IInv, TypeOK, Entry, processVars, serverVars
  <2> QED
    BY <2>1, <2>2
<1>7. CASE Free
  BY <1>7 DEF Free, IInv, TypeOK, orderVars, workerVars, processVars, serverVars
<1>8. ASSUME NEW w \in Made, FirstTick(w) PROVE TypeOK'
  <2>1. seen' \in [Process -> SUBSET {"spawn", "error", "exit", "end", "close"}]
    <3>1. Saw(w, "error") \/ Saw(w, "spawn")
      BY <1>8 DEF FirstTick
    <3> QED
      BY <3>1 DEF Saw, IInv, TypeOK
  <2>2. CASE os[w] = "failed"
    BY <1>8, <2>1, <2>2, GoneTypes DEF FirstTick, IInv, TypeOK, serverVars
  <2>3. CASE os[w] # "failed"
    BY <1>8, <2>1, <2>3 DEF FirstTick, IInv, TypeOK, orderVars, workerVars, serverVars
  <2> QED
    BY <2>2, <2>3
<1>9. ASSUME NEW w \in Made, Exited(w) PROVE TypeOK'
  BY <1>9 DEF Exited, Saw, IInv, TypeOK, orderVars, workerVars, processVars, serverVars
<1>10. ASSUME NEW w \in Made, Immediate(w) PROVE TypeOK'
  BY <1>10 DEF Immediate, FinishOutput, IInv, TypeOK, orderVars, workerVars, processVars, serverVars
<1>11. ASSUME NEW w \in Made, Closed(w) PROVE TypeOK'
  <2>1. seen' \in [Process -> SUBSET {"spawn", "error", "exit", "end", "close"}]
    BY <1>11 DEF Closed, Saw, IInv, TypeOK
  <2> QED
    BY <1>11, <2>1, GoneTypes DEF Closed, IInv, TypeOK, serverVars
<1>12. ASSUME NEW w \in Made, KillTimeout(w) PROVE TypeOK'
  BY <1>12 DEF KillTimeout, IInv, TypeOK, orderVars, workerVars, processVars, serverVars
<1>13. ASSUME NEW w \in Made, Die(w) PROVE TypeOK'
  BY <1>13 DEF Die, IInv, TypeOK, orderVars, workerVars, processVars, serverVars
<1>14. ASSUME NEW w \in Made, OutputEnded(w) PROVE TypeOK'
  BY <1>14 DEF OutputEnded, Saw, FinishOutput, IInv, TypeOK, orderVars, workerVars, processVars, serverVars
<1>15. ASSUME NEW w \in Made, Exit(w) PROVE TypeOK'
  BY <1>15 DEF Exit, IInv, TypeOK, orderVars, workerVars, processVars, serverVars
<1>16. ASSUME NEW w \in Made, HelpersExit(w) PROVE TypeOK'
  BY <1>16 DEF HelpersExit, IInv, TypeOK, orderVars, workerVars, processVars, serverVars
<1>17. ASSUME NEW f \in Follower, Follow(f) PROVE TypeOK'
  BY <1>17 DEF Follow, IInv, TypeOK, orderVars, workerVars, processVars, serverVars
<1>18. ASSUME NEW f \in Follower, Leave(f) PROVE TypeOK'
  BY <1>18 DEF Leave, IInv, TypeOK, orderVars, workerVars, processVars, serverVars
<1>19. CASE UNCHANGED vars
  BY <1>19 DEF vars, orderVars, workerVars, processVars, serverVars, IInv, TypeOK, orderVars, workerVars, processVars, serverVars
<1> QED
  BY <1>1, <1>2, <1>3, <1>4, <1>5, <1>6, <1>7, <1>8, <1>9, <1>10, <1>11, <1>12, <1>13, <1>14, <1>15, <1>16, <1>17, <1>18, <1>19 DEF Next, Event


\* After Finish nothing is being executed, and the chain is what was left.
LEMMA FinishOrdered ==
  ASSUME ChainOrdered, chain # <<>>, NEW answer, Finish(answer), UNCHANGED shuttingDown
  PROVE  ChainOrdered'
<1>1. Tail(chain) \in Seq({e \in Entry : e.order = Signal => shuttingDown})
  BY FirstOfChain DEF ChainOrdered
<1> QED
  BY <1>1 DEF ChainOrdered, Finish

\* Every step keeps the chain in order.
LEMMA ChainOrderedNext ==
  ASSUME IInv, [Next]_vars
  PROVE  ChainOrdered'
<1> USE DEF Process, Command, Made
<1>1. ASSUME NEW o \in Order, NEW kind \in {"fork", "spawn", "stop", "restart"},
             NEW cmd \in {None, "body"}, NEW follow \in Follower \cup {None}, Request(o, kind, cmd, follow)
      PROVE  ChainOrdered'
  <2> DEFINE S == {e \in Entry : e.order = Signal => shuttingDown}
           new == [order |-> o, kind |-> kind, cmd |-> cmd, follow |-> follow]
  <2>1. chain \in Seq(S) /\ new \in S
    BY OrderAssumption DEF IInv, ChainOrdered, Entry
  <2>2. Append(chain, new) \in Seq(S) /\ Append(chain, new) # <<>>
        /\ (chain # <<>> => Head(Append(chain, new)) = Head(chain))
    BY <2>1, LastOfChain
  <2> QED
    BY <1>1, <2>1, <2>2 DEF Request, ChainOrdered, IInv, First, serverVars
<1>2. CASE Shutdown
  <2> DEFINE S == {e \in Entry : e.order = Signal => shuttingDown}
           T == {e \in Entry : e.order = Signal => shuttingDown'}
           new == [order |-> Signal, kind |-> "shutdown", cmd |-> None, follow |-> None]
  <2>1. S \subseteq T /\ chain \in Seq(S) /\ new \in T
    BY <1>2 DEF Shutdown, IInv, ChainOrdered, Entry
  <2>2. chain \in Seq(T)
    BY <2>1, WiderChain
  <2>3. Append(chain, new) \in Seq(T) /\ Append(chain, new) # <<>>
        /\ (chain # <<>> => Head(Append(chain, new)) = Head(chain))
    BY <2>1, <2>2, LastOfChain
  <2> QED
    BY <1>2, <2>3 DEF Shutdown, ChainOrdered, IInv, First
<1>3. CASE BeginStart
  <2>1. chain # <<>> /\ UNCHANGED shuttingDown /\ (Finish("failed") \/ Finish("ok"))
    BY <1>3 DEF BeginStart, Launch, serverVars
  <2> QED
    BY <2>1, FinishOrdered DEF IInv
<1>4. CASE BeginStop
  BY <1>4 DEF BeginStop, StopWorker, ChainOrdered, First, IInv, orderVars, workerVars, processVars, serverVars
<1>5. CASE BeginRestart
  <2> DEFINE S == {e \in Entry : e.order = Signal => shuttingDown}
  <2>1. chain # <<>> /\ UNCHANGED shuttingDown /\ chain \in Seq(S)
    BY <1>5 DEF BeginRestart, serverVars, IInv, ChainOrdered
  <2>2. CASE Finish("failed")
    BY <2>1, <2>2, FinishOrdered DEF IInv
  <2>3. ASSUME NEW cmd \in Meant, chain' = <<[First EXCEPT !.cmd = cmd]>> \o Tail(chain)
        PROVE  ChainOrdered'
    <3>1. First \in S
      BY <2>1, FirstOfChain DEF First
    <3>2. cmd \in Command \cup {None}
      BY <2>3 DEF Meant, IInv, TypeOK
    <3>3. [First EXCEPT !.cmd = cmd] \in S /\ [First EXCEPT !.cmd = cmd].cmd = cmd
      BY <3>1, <3>2 DEF Entry
    <3>4. chain' \in Seq(S) /\ chain' # <<>> /\ Head(chain') = [First EXCEPT !.cmd = cmd]
      BY <2>1, <2>3, <3>3, FirstOfChain
    <3> QED
      BY <2>1, <3>2, <3>3, <3>4 DEF ChainOrdered, First
  <2> QED
    BY <1>5, <2>2, <2>3 DEF BeginRestart
<1>6. CASE AfterStop
  <2>1. chain # <<>> /\ UNCHANGED shuttingDown /\ (Finish("failed") \/ Finish("ok"))
    BY <1>6 DEF AfterStop, Launch, serverVars
  <2> QED
    BY <2>1, FinishOrdered DEF IInv
<1>7. CASE Free
  BY <1>7 DEF Free, ChainOrdered, First, IInv, orderVars, workerVars, processVars, serverVars
<1>8. ASSUME NEW w \in Made, FirstTick(w) PROVE ChainOrdered'
  BY <1>8 DEF FirstTick, Gone, WorkerPlace, TypeOK, ChainOrdered, First, IInv, orderVars, workerVars, processVars, serverVars
<1>9. ASSUME NEW w \in Made, Exited(w) PROVE ChainOrdered'
  BY <1>9 DEF Exited, ChainOrdered, First, IInv, orderVars, workerVars, processVars, serverVars
<1>10. ASSUME NEW w \in Made, Immediate(w) PROVE ChainOrdered'
  BY <1>10 DEF Immediate, ChainOrdered, First, IInv, orderVars, workerVars, processVars, serverVars
<1>11. ASSUME NEW w \in Made, Closed(w) PROVE ChainOrdered'
  BY <1>11 DEF Closed, Gone, WorkerPlace, TypeOK, ChainOrdered, First, IInv, orderVars, workerVars, processVars, serverVars
<1>12. ASSUME NEW w \in Made, KillTimeout(w) PROVE ChainOrdered'
  BY <1>12 DEF KillTimeout, ChainOrdered, First, IInv, orderVars, workerVars, processVars, serverVars
<1>13. ASSUME NEW w \in Made, Die(w) PROVE ChainOrdered'
  BY <1>13 DEF Die, ChainOrdered, First, IInv, orderVars, workerVars, processVars, serverVars
<1>14. ASSUME NEW w \in Made, OutputEnded(w) PROVE ChainOrdered'
  BY <1>14 DEF OutputEnded, ChainOrdered, First, IInv, orderVars, workerVars, processVars, serverVars
<1>15. ASSUME NEW w \in Made, Exit(w) PROVE ChainOrdered'
  BY <1>15 DEF Exit, ChainOrdered, First, IInv, orderVars, workerVars, processVars, serverVars
<1>16. ASSUME NEW w \in Made, HelpersExit(w) PROVE ChainOrdered'
  BY <1>16 DEF HelpersExit, ChainOrdered, First, IInv, orderVars, workerVars, processVars, serverVars
<1>17. ASSUME NEW f \in Follower, Follow(f) PROVE ChainOrdered'
  BY <1>17 DEF Follow, ChainOrdered, First, IInv, orderVars, workerVars, processVars, serverVars
<1>18. ASSUME NEW f \in Follower, Leave(f) PROVE ChainOrdered'
  BY <1>18 DEF Leave, ChainOrdered, First, IInv, orderVars, workerVars, processVars, serverVars
<1>19. CASE UNCHANGED vars
  BY <1>19 DEF vars, orderVars, workerVars, processVars, serverVars, ChainOrdered, First, IInv, orderVars, workerVars, processVars, serverVars
<1> QED
  BY <1>1, <1>2, <1>3, <1>4, <1>5, <1>6, <1>7, <1>8, <1>9, <1>10, <1>11, <1>12, <1>13, <1>14, <1>15, <1>16, <1>17, <1>18, <1>19 DEF Next, Event


\* A start changes the place of the worker only when nothing is being stopped
\* and before shutdown.
LEMMA LaunchPlace ==
  ASSUME IInv, chain # <<>>, worker = 0, ~freed, NEW cmd, Launch(cmd), UNCHANGED <<stopping, serverVars>>
  PROVE  WorkerPlace'
<1>1. First.order = Signal => shuttingDown
  BY FirstOfChain DEF First, IInv, ChainOrdered
<1>2. Finish("failed") \/ Finish("ok")
  BY DEF Launch
<1>3. step' = "begin" /\ stopping = 0
  BY <1>2 DEF Finish, IInv, WorkerPlace
<1>4. Closing' => shuttingDown /\ worker' = 0
  <2>1. CASE First.order = Signal
    BY <1>1, <2>1 DEF Launch
  <2>2. CASE First.order # Signal
    <3>1. reply'[Signal] = reply[Signal]
      BY <1>2, <2>2 DEF Finish, Answered, IInv, TypeOK
    <3> QED
      BY <3>1 DEF Launch, Closing, IInv, WorkerPlace
  <2> QED
    BY <2>1, <2>2
<1> QED
  BY <1>3, <1>4 DEF Launch, WorkerPlace, serverVars, IInv

\* Every step leaves worker and stopping where WorkerPlace says.
LEMMA WorkerPlaceNext ==
  ASSUME IInv, [Next]_vars
  PROVE  WorkerPlace'
<1> USE DEF Process, Command, Made
<1>1. ASSUME NEW o \in Order, NEW kind \in {"fork", "spawn", "stop", "restart"},
             NEW cmd \in {None, "body"}, NEW follow \in Follower \cup {None}, Request(o, kind, cmd, follow)
      PROVE  WorkerPlace'
  BY <1>1, OrderAssumption DEF Request, TypeOK, IInv, WorkerPlace, Closing, orderVars, workerVars, processVars, serverVars
<1>2. CASE Shutdown
  BY <1>2 DEF Shutdown, TypeOK, IInv, WorkerPlace, Closing, orderVars, workerVars, processVars, serverVars
<1>3. CASE BeginStart
  <2>1. CASE Finish("failed") /\ UNCHANGED <<worker, started>>
    BY <1>3, <2>1 DEF BeginStart, Finish, Answered, TypeOK, IInv, WorkerPlace, Closing, orderVars, workerVars, processVars, serverVars
  <2>2. ASSUME worker = 0, NEW cmd, Launch(cmd) PROVE WorkerPlace'
    BY <1>3, <2>2, LaunchPlace DEF BeginStart
  <2> QED
    BY <1>3, <2>1, <2>2 DEF BeginStart
<1>4. CASE BeginStop
  BY <1>4 DEF BeginStop, StopWorker, IInv, WorkerPlace, Closing, orderVars, workerVars, processVars, serverVars
<1>5. CASE BeginRestart
  <2>1. CASE Finish("failed") /\ UNCHANGED stopping
    BY <1>5, <2>1 DEF BeginRestart, Finish, Answered, TypeOK, IInv, WorkerPlace, Closing, orderVars, workerVars, processVars, serverVars
  <2>2. CASE StopWorker /\ UNCHANGED reply
    BY <1>5, <2>2 DEF BeginRestart, StopWorker, IInv, WorkerPlace, Closing, orderVars, workerVars, processVars, serverVars
  <2> QED
    BY <1>5, <2>1, <2>2 DEF BeginRestart
<1>6. CASE AfterStop
  <2>1. CASE First.kind = "restart"
    BY <1>6, <2>1, LaunchPlace DEF AfterStop, IInv, WorkerPlace
  <2>2. CASE First.kind # "restart"
    <3>1. First.order = Signal => shuttingDown
      BY <1>6, FirstOfChain DEF AfterStop, First, IInv, ChainOrdered
    <3> QED
      BY <1>6, <2>2, <3>1 DEF AfterStop, Finish, Answered, TypeOK, IInv, WorkerPlace, Closing, orderVars, workerVars, processVars, serverVars
  <2> QED
    BY <2>1, <2>2
<1>7. CASE Free
  BY <1>7 DEF Free, IInv, WorkerPlace, Closing, orderVars, workerVars, processVars, serverVars
<1>8. ASSUME NEW w \in Made, FirstTick(w) PROVE WorkerPlace'
  BY <1>8 DEF FirstTick, Gone, TypeOK, IInv, WorkerPlace, Closing, orderVars, workerVars, processVars, serverVars
<1>9. ASSUME NEW w \in Made, Exited(w) PROVE WorkerPlace'
  BY <1>9 DEF Exited, IInv, WorkerPlace, Closing, orderVars, workerVars, processVars, serverVars
<1>10. ASSUME NEW w \in Made, Immediate(w) PROVE WorkerPlace'
  BY <1>10 DEF Immediate, IInv, WorkerPlace, Closing, orderVars, workerVars, processVars, serverVars
<1>11. ASSUME NEW w \in Made, Closed(w) PROVE WorkerPlace'
  BY <1>11 DEF Closed, Gone, TypeOK, IInv, WorkerPlace, Closing, orderVars, workerVars, processVars, serverVars
<1>12. ASSUME NEW w \in Made, KillTimeout(w) PROVE WorkerPlace'
  BY <1>12 DEF KillTimeout, IInv, WorkerPlace, Closing, orderVars, workerVars, processVars, serverVars
<1>13. ASSUME NEW w \in Made, Die(w) PROVE WorkerPlace'
  BY <1>13 DEF Die, IInv, WorkerPlace, Closing, orderVars, workerVars, processVars, serverVars
<1>14. ASSUME NEW w \in Made, OutputEnded(w) PROVE WorkerPlace'
  BY <1>14 DEF OutputEnded, IInv, WorkerPlace, Closing, orderVars, workerVars, processVars, serverVars
<1>15. ASSUME NEW w \in Made, Exit(w) PROVE WorkerPlace'
  BY <1>15 DEF Exit, IInv, WorkerPlace, Closing, orderVars, workerVars, processVars, serverVars
<1>16. ASSUME NEW w \in Made, HelpersExit(w) PROVE WorkerPlace'
  BY <1>16 DEF HelpersExit, IInv, WorkerPlace, Closing, orderVars, workerVars, processVars, serverVars
<1>17. ASSUME NEW f \in Follower, Follow(f) PROVE WorkerPlace'
  BY <1>17 DEF Follow, IInv, WorkerPlace, Closing, orderVars, workerVars, processVars, serverVars
<1>18. ASSUME NEW f \in Follower, Leave(f) PROVE WorkerPlace'
  BY <1>18 DEF Leave, IInv, WorkerPlace, Closing, orderVars, workerVars, processVars, serverVars
<1>19. CASE UNCHANGED vars
  BY <1>19 DEF vars, orderVars, workerVars, processVars, serverVars, IInv, WorkerPlace, Closing, orderVars, workerVars, processVars, serverVars
<1> QED
  BY <1>1, <1>2, <1>3, <1>4, <1>5, <1>6, <1>7, <1>8, <1>9, <1>10, <1>11, <1>12, <1>13, <1>14, <1>15, <1>16, <1>17, <1>18, <1>19 DEF Next, Event


\* A new process is the worker; what is known of the others stays so.
LEMMA LaunchProcesses ==
  ASSUME IInv, worker = 0, NEW cmd, Launch(cmd)
  PROVE  Processes'
<1> USE DEF Process, Made
<1>1. CASE UNCHANGED <<worker, started, image, processVars>>
  BY <1>1 DEF IInv, Processes, processVars, Alive
<1>2. CASE ~UNCHANGED <<worker, started, image, processVars>>
  <2>1. /\ started' = started + 1 /\ started' \in Process /\ worker' = started' /\ seen' = seen
        /\ \E state \in {"running", "failed"} : os' = [os EXCEPT ![started'] = state]
        /\ \E h \in BOOLEAN :
             (h => os'[started'] = "running") /\ helpers' = [helpers EXCEPT ![started'] = h]
    BY <1>2, StartAssumption DEF Launch, IInv, TypeOK
  <2>2. ASSUME NEW w \in Process, w # started'
        PROVE  os'[w] = os[w] /\ helpers'[w] = helpers[w]
    BY <2>1, <2>2 DEF IInv, TypeOK
  <2>3. os'[started'] \in {"running", "failed"} /\ (helpers'[started'] => os'[started'] = "running")
        /\ seen'[started'] = {}
    BY <2>1 DEF IInv, TypeOK, Processes
  <2> QED
    BY <2>1, <2>2, <2>3 DEF IInv, TypeOK, Processes, Alive
<1> QED
  BY <1>1, <1>2

\* No step forgets a process that is alive.
LEMMA ProcessesNext ==
  ASSUME IInv, [Next]_vars
  PROVE  Processes'
<1> USE DEF Process, Command, Made
<1>1. ASSUME NEW o \in Order, NEW kind \in {"fork", "spawn", "stop", "restart"},
             NEW cmd \in {None, "body"}, NEW follow \in Follower \cup {None}, Request(o, kind, cmd, follow)
      PROVE  Processes'
  BY <1>1 DEF Request, IInv, Processes, Alive, orderVars, workerVars, processVars, serverVars
<1>2. CASE Shutdown
  BY <1>2 DEF Shutdown, IInv, Processes, Alive, orderVars, workerVars, processVars, serverVars
<1>3. CASE BeginStart
  <2>1. CASE UNCHANGED <<worker, started, processVars>>
    BY <2>1 DEF IInv, Processes, Alive, orderVars, workerVars, processVars, serverVars
  <2>2. ASSUME worker = 0, NEW cmd, Launch(cmd) PROVE Processes'
    BY <2>2, LaunchProcesses
  <2> QED
    BY <1>3, <2>1, <2>2 DEF BeginStart
<1>4. CASE BeginStop
  BY <1>4 DEF BeginStop, IInv, Processes, Alive, orderVars, workerVars, processVars, serverVars
<1>5. CASE BeginRestart
  BY <1>5 DEF BeginRestart, IInv, Processes, Alive, orderVars, workerVars, processVars, serverVars
<1>6. CASE AfterStop
  <2>1. CASE First.kind = "restart"
    BY <1>6, <2>1, LaunchProcesses DEF AfterStop, IInv, WorkerPlace
  <2>2. CASE First.kind # "restart"
    BY <1>6, <2>2 DEF AfterStop, IInv, Processes, Alive, orderVars, workerVars, processVars, serverVars
  <2> QED
    BY <2>1, <2>2
<1>7. CASE Free
  BY <1>7 DEF Free, IInv, Processes, Alive, orderVars, workerVars, processVars, serverVars
<1>8. ASSUME NEW w \in Made, FirstTick(w) PROVE Processes'
  <2>1. /\ UNCHANGED <<os, helpers, started>> /\ (worker' = worker \/ (os[w] = "failed" /\ worker = w))
        /\ (Saw(w, "error") \/ Saw(w, "spawn"))
    BY <1>8 DEF FirstTick, Gone, workerVars
  <2>2. ASSUME NEW v \in Process
        PROVE  ("end" \in seen'[v] <=> "end" \in seen[v]) /\ (v # w => seen'[v] = seen[v])
    <3>1. CASE v = w
      <4>1. seen'[v] = seen[v] \cup {"error"} \/ seen'[v] = seen[v] \cup {"spawn"}
        BY <2>1, <3>1 DEF Saw, IInv, TypeOK
      <4> QED
        BY <3>1, <4>1
    <3>2. CASE v # w
      BY <2>1, <3>2 DEF Saw, IInv, TypeOK
    <3> QED
      BY <3>1, <3>2
  <2> QED
    BY <2>1, <2>2 DEF IInv, TypeOK, Processes, Alive
<1>9. ASSUME NEW w \in Made, Exited(w) PROVE Processes'
  BY <1>9 DEF Exited, Saw, TypeOK, IInv, Processes, Alive, orderVars, workerVars, processVars, serverVars
<1>10. ASSUME NEW w \in Made, Immediate(w) PROVE Processes'
  BY <1>10 DEF Immediate, IInv, Processes, Alive, orderVars, workerVars, processVars, serverVars
<1>11. ASSUME NEW w \in Made, Closed(w) PROVE Processes'
  BY <1>11 DEF Closed, Gone, Saw, TypeOK, IInv, Processes, Alive, orderVars, workerVars, processVars, serverVars
<1>12. ASSUME NEW w \in Made, KillTimeout(w) PROVE Processes'
  BY <1>12 DEF KillTimeout, IInv, Processes, Alive, orderVars, workerVars, processVars, serverVars
<1>13. ASSUME NEW w \in Made, Die(w) PROVE Processes'
  BY <1>13 DEF Die, TypeOK, IInv, Processes, Alive, orderVars, workerVars, processVars, serverVars
<1>14. ASSUME NEW w \in Made, OutputEnded(w) PROVE Processes'
  BY <1>14 DEF OutputEnded, Saw, TypeOK, IInv, Processes, Alive, orderVars, workerVars, processVars, serverVars
<1>15. ASSUME NEW w \in Made, Exit(w) PROVE Processes'
  BY <1>15 DEF Exit, TypeOK, IInv, Processes, Alive, orderVars, workerVars, processVars, serverVars
<1>16. ASSUME NEW w \in Made, HelpersExit(w) PROVE Processes'
  BY <1>16 DEF HelpersExit, TypeOK, IInv, Processes, Alive, orderVars, workerVars, processVars, serverVars
<1>17. ASSUME NEW f \in Follower, Follow(f) PROVE Processes'
  BY <1>17 DEF Follow, IInv, Processes, Alive, orderVars, workerVars, processVars, serverVars
<1>18. ASSUME NEW f \in Follower, Leave(f) PROVE Processes'
  BY <1>18 DEF Leave, IInv, Processes, Alive, orderVars, workerVars, processVars, serverVars
<1>19. CASE UNCHANGED vars
  BY <1>19 DEF vars, orderVars, workerVars, processVars, serverVars, IInv, Processes, Alive, orderVars, workerVars, processVars, serverVars
<1> QED
  BY <1>1, <1>2, <1>3, <1>4, <1>5, <1>6, <1>7, <1>8, <1>9, <1>10, <1>11, <1>12, <1>13, <1>14, <1>15, <1>16, <1>17, <1>18, <1>19 DEF Next, Event

\* No step replaces the command of a running executor.
LEMMA CommandIsWorkersNext ==
  ASSUME IInv, [Next]_vars
  PROVE  CommandIsWorkers'
<1> USE DEF Process, Command, Made
<1>1. ASSUME NEW o \in Order, NEW kind \in {"fork", "spawn", "stop", "restart"},
             NEW cmd \in {None, "body"}, NEW follow \in Follower \cup {None}, Request(o, kind, cmd, follow)
      PROVE  CommandIsWorkers'
  BY <1>1 DEF Request, IInv, CommandIsWorkers, orderVars, workerVars, processVars, serverVars
<1>2. CASE Shutdown
  BY <1>2 DEF Shutdown, IInv, CommandIsWorkers, orderVars, workerVars, processVars, serverVars
<1>3. CASE BeginStart
  BY <1>3 DEF BeginStart, Launch, IInv, CommandIsWorkers, orderVars, workerVars, processVars, serverVars
<1>4. CASE BeginStop
  BY <1>4 DEF BeginStop, IInv, CommandIsWorkers, orderVars, workerVars, processVars, serverVars
<1>5. CASE BeginRestart
  BY <1>5 DEF BeginRestart, IInv, CommandIsWorkers, orderVars, workerVars, processVars, serverVars
<1>6. CASE AfterStop
  BY <1>6 DEF AfterStop, Launch, WorkerPlace, IInv, CommandIsWorkers, orderVars, workerVars, processVars, serverVars
<1>7. CASE Free
  BY <1>7 DEF Free, IInv, CommandIsWorkers, orderVars, workerVars, processVars, serverVars
<1>8. ASSUME NEW w \in Made, FirstTick(w) PROVE CommandIsWorkers'
  BY <1>8 DEF FirstTick, Gone, IInv, CommandIsWorkers, orderVars, workerVars, processVars, serverVars
<1>9. ASSUME NEW w \in Made, Exited(w) PROVE CommandIsWorkers'
  BY <1>9 DEF Exited, IInv, CommandIsWorkers, orderVars, workerVars, processVars, serverVars
<1>10. ASSUME NEW w \in Made, Immediate(w) PROVE CommandIsWorkers'
  BY <1>10 DEF Immediate, IInv, CommandIsWorkers, orderVars, workerVars, processVars, serverVars
<1>11. ASSUME NEW w \in Made, Closed(w) PROVE CommandIsWorkers'
  BY <1>11 DEF Closed, Gone, IInv, CommandIsWorkers, orderVars, workerVars, processVars, serverVars
<1>12. ASSUME NEW w \in Made, KillTimeout(w) PROVE CommandIsWorkers'
  BY <1>12 DEF KillTimeout, IInv, CommandIsWorkers, orderVars, workerVars, processVars, serverVars
<1>13. ASSUME NEW w \in Made, Die(w) PROVE CommandIsWorkers'
  BY <1>13 DEF Die, IInv, CommandIsWorkers, orderVars, workerVars, processVars, serverVars
<1>14. ASSUME NEW w \in Made, OutputEnded(w) PROVE CommandIsWorkers'
  BY <1>14 DEF OutputEnded, IInv, CommandIsWorkers, orderVars, workerVars, processVars, serverVars
<1>15. ASSUME NEW w \in Made, Exit(w) PROVE CommandIsWorkers'
  BY <1>15 DEF Exit, IInv, CommandIsWorkers, orderVars, workerVars, processVars, serverVars
<1>16. ASSUME NEW w \in Made, HelpersExit(w) PROVE CommandIsWorkers'
  BY <1>16 DEF HelpersExit, IInv, CommandIsWorkers, orderVars, workerVars, processVars, serverVars
<1>17. ASSUME NEW f \in Follower, Follow(f) PROVE CommandIsWorkers'
  BY <1>17 DEF Follow, IInv, CommandIsWorkers, orderVars, workerVars, processVars, serverVars
<1>18. ASSUME NEW f \in Follower, Leave(f) PROVE CommandIsWorkers'
  BY <1>18 DEF Leave, IInv, CommandIsWorkers, orderVars, workerVars, processVars, serverVars
<1>19. CASE UNCHANGED vars
  BY <1>19 DEF vars, orderVars, workerVars, processVars, serverVars, IInv, CommandIsWorkers, orderVars, workerVars, processVars, serverVars
<1> QED
  BY <1>1, <1>2, <1>3, <1>4, <1>5, <1>6, <1>7, <1>8, <1>9, <1>10, <1>11, <1>12, <1>13, <1>14, <1>15, <1>16, <1>17, <1>18, <1>19 DEF Next, Event


-----------------------------------------------------------------------------
(* The theorems                                                          *)

\* The loader starts with its initial command's executor, or with none.
LEMMA InitInvariant == Init => IInv
<1> SUFFICES ASSUME Init PROVE IInv
  OBVIOUS
<1> USE DEF Init, Process, Command, Made
<1>1. TypeOK
  <2>1. chain \in Seq(Entry) /\ step \in {"begin", "waiting", "stopped"}
    OBVIOUS
  <2>2. started \in 0..MaxStarts /\ {worker, stopping} \subseteq 0..started /\ soon \subseteq Made
    BY StartAssumption
  <2>3. os \in [Process -> {"none", "failed", "running", "exited"}]
    OBVIOUS
  <2>4. {killed, shuttingDown, freed} \subseteq BOOLEAN
    OBVIOUS
  <2> QED
    BY <2>1, <2>2, <2>3, <2>4 DEF TypeOK, Entry
<1>2. ChainOrdered
  BY DEF ChainOrdered
<1>3. WorkerPlace
  BY DEF WorkerPlace, Closing
<1>4. Processes
  BY StartAssumption DEF Processes, Alive
<1>5. CommandIsWorkers
  BY DEF CommandIsWorkers
<1> QED
  BY <1>1, <1>2, <1>3, <1>4, <1>5 DEF IInv

\* The inductive invariant, for any commands, orders and followers.
THEOREM LoaderInvariant == Spec => []IInv
<1>1. IInv /\ [Next]_vars => IInv'
  BY TypeOKNext, ChainOrderedNext, WorkerPlaceNext, ProcessesNext, CommandIsWorkersNext DEF IInv
<1> QED
  BY InitInvariant, <1>1, PTL DEF Spec

\* startWorker, stopWorker and the listeners keep their variables in their types.
THEOREM LoaderTypeCorrect == Spec => []TypeOK
<1>1. IInv => TypeOK
  BY DEF IInv
<1> QED
  BY <1>1, LoaderInvariant, PTL

\* startWorker puts one executor at a time on the weights.
THEOREM OneExecutorHolds == Spec => []OneExecutor
<1>1. IInv => OneExecutor
  <2> SUFFICES ASSUME IInv, NEW v \in Made, NEW w \in Made, Alive(v), Alive(w) PROVE v = w
    BY DEF OneExecutor
  <2> QED
    BY GoneUnlessWorker
<1> QED
  BY <1>1, LoaderInvariant, PTL

\* shutdown frees the weights when no executor is on them.
THEOREM WeightsOutlive == Spec => []WeightsOutliveExecutor
<1>1. IInv => WeightsOutliveExecutor
  BY GoneUnlessWorker DEF IInv, WorkerPlace, Made, TypeOK, WeightsOutliveExecutor
<1> QED
  BY <1>1, LoaderInvariant, PTL

\* workerCommand is replaced only when its executor has gone.
THEOREM CommandAlwaysWorkers == Spec => []CommandIsWorkers
<1>1. IInv => CommandIsWorkers
  BY DEF IInv
<1> QED
  BY <1>1, LoaderInvariant, PTL

\* An answer to /stop means that the executor has gone.
THEOREM StopAlwaysMeansGone == Spec => StopMeansGone
<1>1. ASSUME IInv, [Next]_vars, NEW o \in Order,
             reply[o] = "waiting", reply'[o] = "ok", First.kind = "stop"
      PROVE  \A w \in Made : ~Alive(w)
  <2>1. CASE worker = 0
    BY <1>1, <2>1, GoneUnlessWorker DEF Made
  <2>2. CASE worker # 0
    <3> USE <1>1, <2>2
    <3>1. ~AfterStop
      BY DEF AfterStop, IInv, WorkerPlace
    <3>2. ~BeginStart
      BY DEF BeginStart
    <3>3. ~BeginStop /\ ~BeginRestart
      BY DEF BeginStop, BeginRestart
    <3>4. ASSUME NEW p \in Order, NEW kind \in {"fork", "spawn", "stop", "restart"},
                 NEW cmd \in {None, "body"}, NEW follow \in Follower \cup {None}
          PROVE  ~Request(p, kind, cmd, follow)
      BY DEF Request, IInv, TypeOK
    <3>5. ~Shutdown
      BY OrderAssumption DEF Shutdown, IInv, TypeOK
    <3>6. ASSUME NEW w \in Made PROVE ~Event(w) /\ ~OutputEnded(w) /\ ~Exit(w) /\ ~HelpersExit(w)
      BY DEF Event, FirstTick, Gone, Exited, Immediate, Closed, KillTimeout, Die, OutputEnded, Exit, HelpersExit, orderVars
    <3>7. ASSUME NEW f \in Follower PROVE ~Follow(f) /\ ~Leave(f)
      BY DEF Follow, Leave, orderVars
    <3>8. ~Free /\ ~UNCHANGED vars
      BY DEF Free, vars, orderVars
    <3> QED
      BY <3>1, <3>2, <3>3, <3>4, <3>5, <3>6, <3>7, <3>8 DEF Next
  <2> QED
    BY <2>1, <2>2
<1>2. IInv /\ [Next]_vars =>
        [\A o \in Order : reply[o] = "waiting" /\ reply'[o] = "ok" /\ First.kind = "stop"
           => \A w \in Made : ~Alive(w)]_vars
  BY <1>1
<1> QED
  BY <1>2, LoaderInvariant, PTL DEF Spec, StopMeansGone

\* finishOutput ends a response only when the last output has been sent on it.
THEOREM FollowersNeverCutShort == Spec => NoFollowerCutShort
<1>1. ASSUME IInv, [Next]_vars, NEW f \in Follower, followers[f] = "open", followers'[f] = "ended"
      PROVE  \A w \in Made : ~Alive(w) /\ (os[w] # "failed" => "end" \in seen'[w])
  <2>1. PICK v \in Made : /\ v = started /\ "end" \in seen'[v]
                          /\ \/ OutputEnded(v)
                             \/ Immediate(v)
    <3> USE <1>1
    <3>1. ~BeginStart /\ ~AfterStop
      BY DEF BeginStart, AfterStop, Launch, IInv, TypeOK
    <3>2. ~BeginStop /\ ~BeginRestart /\ ~Free /\ ~Shutdown /\ ~UNCHANGED vars
      BY DEF BeginStop, BeginRestart, Free, Shutdown, vars
    <3>3. ASSUME NEW p \in Order, NEW kind \in {"fork", "spawn", "stop", "restart"},
                 NEW cmd \in {None, "body"}, NEW follow \in Follower \cup {None}
          PROVE  ~Request(p, kind, cmd, follow)
      BY DEF Request
    <3>4. ASSUME NEW g \in Follower PROVE ~Follow(g) /\ ~Leave(g)
      BY DEF Follow, Leave, IInv, TypeOK
    <3>5. ASSUME NEW w \in Made
          PROVE  ~FirstTick(w) /\ ~Exited(w) /\ ~Closed(w) /\ ~KillTimeout(w) /\ ~Die(w) /\ ~Exit(w) /\ ~HelpersExit(w)
      BY DEF FirstTick, Exited, Closed, KillTimeout, Die, Exit, HelpersExit
    <3>6. PICK w \in Made : OutputEnded(w) \/ Immediate(w)
      BY <3>1, <3>2, <3>3, <3>4, <3>5 DEF Next, Event
    <3>7. w = started /\ "end" \in seen'[w]
      BY <3>6 DEF OutputEnded, Immediate, FinishOutput, Saw
    <3> QED
      BY <3>6, <3>7
  <2>2. ~Alive(v)
    <3>1. CASE OutputEnded(v)
      BY <3>1 DEF OutputEnded, Alive
    <3>2. CASE Immediate(v)
      BY <1>1, <2>1, <3>2, MadeProcess DEF Immediate, IInv, Processes
    <3> QED
      BY <2>1, <3>1, <3>2
  <2>3. ASSUME NEW w \in Made, w # v
        PROVE  ~Alive(w) /\ (os[w] # "failed" => "end" \in seen'[w])
    <3>1. w # worker
      BY <1>1, <2>1, <2>3 DEF IInv, TypeOK, WorkerPlace, Made
    <3>2. ~Alive(w) /\ (os[w] # "failed" => "end" \in seen[w])
      BY <1>1, <3>1, GoneUnlessWorker
    <3>3. seen'[w] = seen[w]
      BY <1>1, <2>1, <2>3, MadeProcess DEF OutputEnded, Immediate, Saw, IInv, TypeOK
    <3> QED
      BY <3>2, <3>3
  <2> QED
    BY <2>1, <2>2, <2>3
<1>2. IInv /\ [Next]_vars =>
        [\A f \in Follower : followers[f] = "open" /\ followers'[f] = "ended"
           => \A w \in Made : ~Alive(w) /\ (os[w] # "failed" => "end" \in seen'[w])]_vars
  BY <1>1
<1> QED
  BY <1>2, LoaderInvariant, PTL DEF Spec, NoFollowerCutShort
-----------------------------------------------------------------------------
(***************************************************************************)
(* WeightLoad.                                                             *)
(*                                                                         *)
(* LoadIInv is the induction for what an executor finds.  Owned: there is  *)
(* an owner for every address of the arena, so that weights, raw copies,   *)
(* planes and free memory keep apart.  Contents: what the stream leads to  *)
(* (Leads) is the weights in their places, but for copies a worker has not *)
(* enqueued and planes that are not decoded (Delivered), and in an         *)
(* executor the same but for memory it has taken for a while (Kept).       *)
(*                                                                         *)
(* ReplayIInv is the induction for why one is refused.  The arena and the  *)
(* names depend only on the plan if at most one tensor of a batch          *)
(* allocates after waiting: then both processes follow one path (Onward),  *)
(* and what it ends in is the same (ReachedOnce).                          *)
(***************************************************************************)

(* Allocating in an arena                                                *)

\* An arena: what is free on the device heap and what has been disposed of.
Ready(state) ==
  /\ FreeList(state.heap) /\ FreeList(state.pool)
  /\ FreeAddresses(state.heap) \cap FreeAddresses(state.pool) = {}

\* The range r has been taken of s, which left t.
TakenOf(s, r, t) ==
  /\ Ready(t)
  /\ FreeAddresses(t.heap) = FreeAddresses(s.heap) \ Addresses(r)
  /\ FreeAddresses(t.pool) = FreeAddresses(s.pool) \ Addresses(r)

\* What one allocation takes: of what has been disposed of only if it may come
\* free again.
LEMMA AllocatedFacts ==
  ASSUME NEW s, Ready(s), NEW q, q.size \in Nat \ {0}, q.stays \in BOOLEAN, CanTake(s, q)
  PROVE  LET one == Allocated(s, q.size, q.stays)
         IN /\ one.range \in Span
            /\ Addresses(one.range) \subseteq FreeAddresses(s.heap) \cup FreeAddresses(s.pool)
            /\ q.stays => Addresses(one.range) \subseteq FreeAddresses(s.heap)
            /\ TakenOf(s, one.range, one.state)
<1> DEFINE one == Allocated(s, q.size, q.stays)
           size == q.size
           stays == q.stays
<1>1. FreeList(s.heap) /\ FreeList(s.pool) /\ FreeAddresses(s.heap) \cap FreeAddresses(s.pool) = {}
  BY DEF Ready
<1>2. CASE ~stays /\ CanAlloc(s.pool, size, FALSE)
  <2> DEFINE r == Found(s.pool, size, FALSE)
             t == [s EXCEPT !.pool = Without(@, r)]
  <2>1. one = [range |-> r, state |-> t]
    BY <1>2 DEF Allocated
  <2>2. r \in Span /\ CanClaim(s.pool, r)
    BY <1>1, <1>2, FoundFacts
  <2>3. /\ FreeList(Without(s.pool, r))
        /\ FreeAddresses(Without(s.pool, r)) = FreeAddresses(s.pool) \ Addresses(r)
        /\ Addresses(r) \subseteq FreeAddresses(s.pool)
    BY <1>1, <2>2, WithoutFacts
  <2> HIDE DEF r
  <2>4. t.heap = s.heap /\ t.pool = Without(s.pool, r)
    OBVIOUS
  <2> HIDE DEF t
  <2> QED
    BY <1>1, <1>2, <2>1, <2>2, <2>3, <2>4 DEF TakenOf, Ready
<1>3. CASE ~(~stays /\ CanAlloc(s.pool, size, FALSE))
  <2> DEFINE r == Found(s.heap, size, stays)
             t == [s EXCEPT !.heap = Without(@, r), !.sizes = Append(@, size)]
  <2>1. one = [range |-> r, state |-> t]
    BY <1>3 DEF Allocated
  <2>2. CanAlloc(s.heap, size, stays)
    BY <1>3 DEF CanTake
  <2>3. r \in Span /\ CanClaim(s.heap, r)
    BY <1>1, <2>2, FoundFacts
  <2>4. /\ FreeList(Without(s.heap, r))
        /\ FreeAddresses(Without(s.heap, r)) = FreeAddresses(s.heap) \ Addresses(r)
        /\ Addresses(r) \subseteq FreeAddresses(s.heap)
    BY <1>1, <2>3, WithoutFacts
  <2> HIDE DEF r
  <2>5. t.heap = Without(s.heap, r) /\ t.pool = s.pool
    OBVIOUS
  <2> HIDE DEF t
  <2> QED
    BY <1>1, <2>1, <2>3, <2>4, <2>5 DEF TakenOf, Ready
<1> QED
  BY <1>2, <1>3

Wanted == [size : Nat \ {0}, stays : BOOLEAN]

\* What n allocations in a row have come to.
Taken(s, q, n, x) ==
  /\ x.got \in Seq(Span) /\ Len(x.got) <= n
  /\ x.fits => Len(x.got) = n
  /\ Ready(x.state)
  /\ FreeAddresses(x.state.heap) = FreeAddresses(s.heap) \ FreeAddresses(x.got)
  /\ FreeAddresses(x.state.pool) = FreeAddresses(s.pool) \ FreeAddresses(x.got)
  /\ \A i \in 1..Len(x.got) :
       /\ Addresses(x.got[i]) \subseteq FreeAddresses(s.heap) \cup FreeAddresses(s.pool)
       /\ q[i].stays => Addresses(x.got[i]) \subseteq FreeAddresses(s.heap)
  /\ \A i, j \in 1..Len(x.got) : i < j => Addresses(x.got[i]) \cap Addresses(x.got[j]) = {}

\* A list of ranges with one more.
LEMMA OneMore ==
  ASSUME NEW g \in Seq(Span), NEW r \in Span
  PROVE  /\ Append(g, r) \in Seq(Span) /\ Len(Append(g, r)) = Len(g) + 1
         /\ \A i \in 1..Len(g) : Append(g, r)[i] = g[i]
         /\ Append(g, r)[Len(g) + 1] = r
         /\ FreeAddresses(Append(g, r)) = FreeAddresses(g) \cup Addresses(r)
<1> DEFINE h == Append(g, r)
           n == Len(g)
<1>1. n \in Nat /\ DOMAIN g = 1..n
  OBVIOUS
<1>2. h \in Seq(Span) /\ Len(h) = n + 1 /\ (\A i \in 1..n : h[i] = g[i]) /\ h[n + 1] = r
  OBVIOUS
<1>3. DOMAIN h = 1..(n + 1)
  BY <1>2
<1> HIDE DEF h, n
<1>4. \A i \in 1..(n + 1) : i \in 1..n \/ i = n + 1
  BY <1>1
<1>5. n + 1 \in 1..(n + 1) /\ \A i \in 1..n : i \in 1..(n + 1)
  BY <1>1
<1>6. FreeAddresses(h) = FreeAddresses(g) \cup Addresses(r)
  <2>1. \A x : x \in FreeAddresses(h) <=> \E i \in 1..(n + 1) : x \in Addresses(h[i])
    BY <1>3 DEF FreeAddresses
  <2>2. \A x : x \in FreeAddresses(g) <=> \E i \in 1..n : x \in Addresses(g[i])
    BY <1>1 DEF FreeAddresses
  <2> QED
    BY <1>2, <1>4, <1>5, <2>1, <2>2
<1> QED
  BY <1>2, <1>6 DEF h, n

\* One allocation more.
LEMMA AnotherFacts ==
  ASSUME NEW s, NEW q \in Seq(Wanted), NEW n \in 0..(Len(q) - 1), NEW x, Taken(s, q, n, x)
  PROVE  Taken(s, q, n + 1, Another(x, q[n + 1]))
<1> DEFINE y == Another(x, q[n + 1])
           r == Allocated(x.state, q[n + 1].size, q[n + 1].stays).range
           t == Allocated(x.state, q[n + 1].size, q[n + 1].stays).state
           L == Len(x.got)
<1>1. n \in Nat /\ n + 1 \in 1..Len(q) /\ L \in Nat /\ L <= n /\ x.got \in Seq(Span)
  BY DEF Taken
<1>2. q[n + 1].size \in Nat \ {0} /\ q[n + 1].stays \in BOOLEAN
  <2>1. q[n + 1] \in Wanted
    BY <1>1
  <2> QED
    BY <2>1 DEF Wanted
<1>3. CASE ~(x.fits /\ CanTake(x.state, q[n + 1]))
  <2>1. y.state = x.state /\ y.got = x.got /\ ~y.fits
    BY <1>3 DEF Another
  <2> HIDE DEF y
  <2>2. y.got \in Seq(Span) /\ Len(y.got) <= n + 1
    BY <1>1, <2>1
  <2>3. /\ Ready(y.state)
        /\ FreeAddresses(y.state.heap) = FreeAddresses(s.heap) \ FreeAddresses(y.got)
        /\ FreeAddresses(y.state.pool) = FreeAddresses(s.pool) \ FreeAddresses(y.got)
    BY <2>1 DEF Taken
  <2>4. \A i \in 1..Len(y.got) :
          /\ Addresses(y.got[i]) \subseteq FreeAddresses(s.heap) \cup FreeAddresses(s.pool)
          /\ q[i].stays => Addresses(y.got[i]) \subseteq FreeAddresses(s.heap)
    BY <2>1 DEF Taken
  <2>5. \A i, j \in 1..Len(y.got) : i < j => Addresses(y.got[i]) \cap Addresses(y.got[j]) = {}
    BY <2>1 DEF Taken
  <2>6. Taken(s, q, n + 1, y)
    BY <2>1, <2>2, <2>3, <2>4, <2>5 DEF Taken
  <2> QED
    BY <2>6 DEF y
<1>4. CASE x.fits /\ CanTake(x.state, q[n + 1])
  <2>1. y.state = t /\ y.got = Append(x.got, r) /\ y.fits
    BY <1>4 DEF Another
  <2>2. Ready(x.state) /\ L = n
    BY <1>4 DEF Taken
  <2>3. /\ r \in Span
        /\ Addresses(r) \subseteq FreeAddresses(x.state.heap) \cup FreeAddresses(x.state.pool)
        /\ q[n + 1].stays => Addresses(r) \subseteq FreeAddresses(x.state.heap)
        /\ TakenOf(x.state, r, t)
    BY <1>2, <1>4, <2>2, AllocatedFacts
  <2> HIDE DEF y, r, t
  <2>4. /\ y.got \in Seq(Span) /\ Len(y.got) = n + 1
        /\ \A i \in 1..n : y.got[i] = x.got[i]
        /\ y.got[n + 1] = r
        /\ FreeAddresses(y.got) = FreeAddresses(x.got) \cup Addresses(r)
    BY <1>1, <2>1, <2>2, <2>3, OneMore
  <2> HIDE DEF L
  <2>5. /\ FreeAddresses(x.state.heap) = FreeAddresses(s.heap) \ FreeAddresses(x.got)
        /\ FreeAddresses(x.state.pool) = FreeAddresses(s.pool) \ FreeAddresses(x.got)
    BY DEF Taken
  <2>6. /\ FreeAddresses(y.state.heap) = FreeAddresses(s.heap) \ FreeAddresses(y.got)
        /\ FreeAddresses(y.state.pool) = FreeAddresses(s.pool) \ FreeAddresses(y.got)
    <3>1. /\ FreeAddresses(t.heap) = FreeAddresses(x.state.heap) \ Addresses(r)
          /\ FreeAddresses(t.pool) = FreeAddresses(x.state.pool) \ Addresses(r)
      BY <2>3 DEF TakenOf
    <3> QED
      BY <2>1, <2>4, <2>5, <3>1
  <2>7. \A i \in 1..(n + 1) : i \in 1..n \/ i = n + 1
    BY <1>1
  <2>8. ASSUME NEW i \in 1..(n + 1)
        PROVE  /\ Addresses(y.got[i]) \subseteq FreeAddresses(s.heap) \cup FreeAddresses(s.pool)
               /\ q[i].stays => Addresses(y.got[i]) \subseteq FreeAddresses(s.heap)
    <3>1. CASE i \in 1..n
      <4>1. /\ Addresses(x.got[i]) \subseteq FreeAddresses(s.heap) \cup FreeAddresses(s.pool)
            /\ q[i].stays => Addresses(x.got[i]) \subseteq FreeAddresses(s.heap)
        BY <2>2, <3>1 DEF Taken, L
      <4> QED
        BY <2>4, <3>1, <4>1
    <3>2. CASE i = n + 1
      BY <2>3, <2>4, <2>5, <3>2
    <3> QED
      BY <2>7, <3>1, <3>2
  <2>9. ASSUME NEW i \in 1..(n + 1), NEW j \in 1..(n + 1), i < j
        PROVE  Addresses(y.got[i]) \cap Addresses(y.got[j]) = {}
    <3>1. i \in 1..n
      BY <1>1, <2>9
    <3>2. CASE j \in 1..n
      <4>1. Addresses(x.got[i]) \cap Addresses(x.got[j]) = {}
        BY <2>2, <2>9, <3>1, <3>2 DEF Taken, L
      <4> QED
        BY <2>4, <3>1, <3>2, <4>1
    <3>3. CASE j = n + 1
      <4>1. Addresses(x.got[i]) \subseteq FreeAddresses(x.got)
        BY <1>1, <2>2, <3>1 DEF FreeAddresses, L
      <4> QED
        BY <2>3, <2>4, <2>5, <3>1, <3>3, <4>1
    <3> QED
      BY <2>7, <3>2, <3>3
  <2>10. Ready(y.state)
    BY <2>1, <2>3 DEF TakenOf
  <2>11. y.got \in Seq(Span) /\ Len(y.got) <= n + 1 /\ Len(y.got) = n + 1
    BY <1>1, <2>4
  <2>12. \A i \in 1..Len(y.got) :
           /\ Addresses(y.got[i]) \subseteq FreeAddresses(s.heap) \cup FreeAddresses(s.pool)
           /\ q[i].stays => Addresses(y.got[i]) \subseteq FreeAddresses(s.heap)
    BY <2>8, <2>11
  <2>13. \A i, j \in 1..Len(y.got) : i < j => Addresses(y.got[i]) \cap Addresses(y.got[j]) = {}
    BY <2>9, <2>11
  <2>14. Taken(s, q, n + 1, y)
    BY <2>6, <2>10, <2>11, <2>12, <2>13 DEF Taken
  <2> QED
    BY <2>14 DEF y
<1> QED
  BY <1>3, <1>4

\* The loop over the requests.
Loops(s, q, f) ==
  /\ AllocatedAll(s, q) = f[Len(q)]
  /\ f[0] = [state |-> s, got |-> <<>>, fits |-> TRUE]
  /\ \A n \in 1..Len(q) : f[n] = Another(f[n - 1], q[n])

\* The loop over the requests is a function that takes them one at a time.
LEMMA LoopSteps ==
  ASSUME NEW s, NEW q \in Seq(Wanted)
  PROVE  \E f : Loops(s, q, f)
<1> DEFINE L == Len(q)
           d == [state |-> s, got |-> <<>>, fits |-> TRUE]
           Loop(f, n) == [i \in 0..n |-> IF i = 0 THEN d ELSE Another(f[i - 1], q[i])]
           Good == {n \in 0..L : \E f : f = Loop(f, n)}
           taken == CHOOSE f : f = Loop(f, L)
<1>1. L \in Nat
  OBVIOUS
<1>0. AllocatedAll(s, q) = taken[L]
  BY DEF AllocatedAll
<1> HIDE DEF L, d
<1>2. 0 \in Good
  <2> DEFINE f == [i \in 0..0 |-> d]
  <2>1. \A i \in 0..0 : i = 0
    OBVIOUS
  <2>2. f = Loop(f, 0)
    BY <2>1
  <2> HIDE DEF f, Loop
  <2>3. \E g : g = Loop(g, 0)
    BY <2>2
  <2> QED
    BY <1>1, <2>3
<1>3. ASSUME NEW n \in 0..(L - 1), n \in Good PROVE n + 1 \in Good
  <2>1. PICK f : f = Loop(f, n)
    BY <1>3
  <2> DEFINE g == Loop(f, n + 1)
  <2>2. \A i \in 0..n : f[i] = IF i = 0 THEN d ELSE Another(f[i - 1], q[i])
    BY <2>1
  <2>3. n \in Nat /\ n + 1 \in 0..L
    BY <1>1
  <2>4. \A i \in 0..(n + 1) : g[i] = IF i = 0 THEN d ELSE Another(f[i - 1], q[i])
    OBVIOUS
  <2>5. \A i \in 0..n : g[i] = f[i]
    <3>1. \A i \in 0..n : i \in 0..(n + 1)
      BY <2>3
    <3> HIDE DEF g
    <3> QED
      BY <2>2, <2>4, <3>1
  <2>6. \A i \in 0..(n + 1) : i # 0 => i - 1 \in 0..n
    BY <2>3
  <2>7. \A i \in 0..(n + 1) : i # 0 => g[i - 1] = f[i - 1]
    <3> HIDE DEF g
    <3> QED
      BY <2>5, <2>6
  <2>8. g = Loop(g, n + 1)
    <3>1. g = Loop(f, n + 1)
      OBVIOUS
    <3>2. \A i \in 0..(n + 1) : (IF i = 0 THEN d ELSE Another(f[i - 1], q[i]))
                               = (IF i = 0 THEN d ELSE Another(g[i - 1], q[i]))
      <4> HIDE DEF g
      <4> QED
        BY <2>7
    <3>3. Loop(f, n + 1) = Loop(g, n + 1)
      <4> HIDE DEF g
      <4> QED
        BY <3>2
    <3> HIDE DEF g, Loop
    <3> QED
      BY <3>3 DEF g
  <2> HIDE DEF g, Loop
  <2> QED
    BY <2>3, <2>8
<1>4. \E f : f = Loop(f, L)
  <2>1. L \in Good
    <3>1. \A n \in 0..(L - 1) : n \in Good => n + 1 \in Good
      <4> HIDE DEF Good
      <4> QED
        BY <1>3
    <3>2. L \in 0..L
      BY <1>1
    <3> HIDE DEF Good
    <3> QED
      BY <1>1, <1>2, <3>1, <3>2, UpTo
  <2> HIDE DEF Loop
  <2> QED
    BY <2>1
<1>5. taken = Loop(taken, L)
  <2> HIDE DEF Loop
  <2> QED
    BY <1>4
<1> HIDE DEF taken
<1>6. \A i \in 0..L : taken[i] = IF i = 0 THEN d ELSE Another(taken[i - 1], q[i])
  BY <1>5
<1>7. taken[0] = d
  BY <1>1, <1>6
<1>8. \A n \in 1..L : taken[n] = Another(taken[n - 1], q[n])
  <2>1. \A n \in 1..L : n \in 0..L /\ n # 0
    BY <1>1
  <2> QED
    BY <1>6, <2>1
<1> QED
  BY <1>0, <1>7, <1>8 DEF L, d, Loops

\* What allocations in a row come to.
LEMMA AllocatedAllFacts ==
  ASSUME NEW s, Ready(s), NEW q \in Seq(Wanted)
  PROVE  Taken(s, q, Len(q), AllocatedAll(s, q))
<1> DEFINE L == Len(q)
<1>1. PICK f : /\ AllocatedAll(s, q) = f[L]
               /\ f[0] = [state |-> s, got |-> <<>>, fits |-> TRUE]
               /\ \A n \in 1..L : f[n] = Another(f[n - 1], q[n])
  <2>1. \E f : Loops(s, q, f)
    BY LoopSteps
  <2> QED
    BY <2>1 DEF Loops
<1>2. L \in Nat
  OBVIOUS
<1> DEFINE Good == {n \in 0..L : Taken(s, q, n, f[n])}
<1>3. 0 \in Good
  <2>1. f[0].state = s /\ f[0].got = <<>>
    BY <1>1
  <2>2. <<>> \in Seq(Span) /\ Len(<<>>) = 0 /\ FreeAddresses(<<>>) = {}
    BY NoneFree
  <2>3. f[0].got \in Seq(Span) /\ Len(f[0].got) = 0 /\ 1..Len(f[0].got) = {} /\ FreeAddresses(f[0].got) = {}
    <3>1. 1..0 = {}
      OBVIOUS
    <3> QED
      BY <2>1, <2>2, <3>1
  <2>4. Taken(s, q, 0, f[0])
    BY <2>1, <2>3 DEF Taken
  <2> QED
    BY <1>2, <2>4
<1>4. ASSUME NEW n \in 0..(L - 1), n \in Good PROVE n + 1 \in Good
  <2>1. n + 1 \in 1..L /\ n + 1 \in 0..L /\ (n + 1) - 1 = n
    BY <1>2
  <2>2. Taken(s, q, n, f[n])
    BY <1>4
  <2>3. f[n + 1] = Another(f[n], q[n + 1])
    BY <1>1, <2>1
  <2>4. Taken(s, q, n + 1, f[n + 1])
    BY <2>2, <2>3, AnotherFacts
  <2> QED
    BY <2>1, <2>4
<1>5. L \in Good
  <2>1. \A n \in 0..(L - 1) : n \in Good => n + 1 \in Good
    <3> HIDE DEF Good
    <3> QED
      BY <1>4
  <2>2. L \in 0..L
    BY <1>2
  <2> HIDE DEF Good, L
  <2> QED
    BY <1>2, <1>3, <2>1, <2>2, UpTo
<1> QED
  BY <1>1, <1>5

\* Ranges that are disposed of.
LEMMA DisposedFacts ==
  ASSUME NEW s, Ready(s), NEW g \in Seq(Span),
         FreeAddresses(g) \cap FreeAddresses(s.heap) = {}, FreeAddresses(g) \cap FreeAddresses(s.pool) = {},
         \A i, j \in 1..Len(g) : i < j => Addresses(g[i]) \cap Addresses(g[j]) = {}
  PROVE  /\ Ready(Disposed(s, g))
         /\ FreeAddresses(Disposed(s, g).heap) = FreeAddresses(s.heap)
         /\ FreeAddresses(Disposed(s, g).pool) = FreeAddresses(s.pool) \cup FreeAddresses(g)
<1>1. FreeList(s.heap) /\ FreeList(s.pool) /\ FreeAddresses(s.heap) \cap FreeAddresses(s.pool) = {}
  BY DEF Ready
<1>2. /\ FreeList(DrainTo(g, s.pool))
      /\ FreeAddresses(DrainTo(g, s.pool)) = FreeAddresses(g) \cup FreeAddresses(s.pool)
  BY <1>1, DrainApart
<1> DEFINE t == Disposed(s, g)
<1>3. t.heap = s.heap /\ t.pool = DrainTo(g, s.pool)
  BY DEF Disposed
<1> HIDE DEF t
<1>4. Ready(t) /\ FreeAddresses(t.heap) = FreeAddresses(s.heap)
      /\ FreeAddresses(t.pool) = FreeAddresses(s.pool) \cup FreeAddresses(g)
  BY <1>1, <1>2, <1>3 DEF Ready
<1> QED
  BY <1>4 DEF t
-----------------------------------------------------------------------------
(* What is on the stream                                                 *)

Memory == 0..(Arena - 1)

\* What an operation writes and leaves alone.
LEMMA AfterFacts ==
  ASSUME NEW m, DOMAIN m = Memory, NEW op, NEW open
  PROVE  /\ DOMAIN After(m, op, open) = Memory
         /\ \A a \in Memory : a \in Addresses(op.dst) => After(m, op, open)[a] = Effect(m, op, open)
         /\ \A a \in Memory : a \notin Addresses(op.dst) => After(m, op, open)[a] = m[a]
  BY DEF After

\* What an operation writes to an address of its destination.
LEMMA WrittenThere ==
  ASSUME NEW m, DOMAIN m = Memory, NEW op, NEW open, Addresses(op.dst) \subseteq Memory
  PROVE  Holding(After(m, op, open), op.dst, Effect(m, op, open))
  BY AfterFacts DEF Holding

\* Every other address is left alone.
LEMMA NotWritten ==
  ASSUME NEW m, DOMAIN m = Memory, NEW op, NEW open, NEW r, Addresses(r) \subseteq Memory,
         Addresses(r) \cap Addresses(op.dst) = {}, NEW value, Holding(m, r, value)
  PROVE  Holding(After(m, op, open), r, value)
  BY AfterFacts DEF Holding

\* The memory f is what m will be once s has been executed.
Steps(s, m, open, f, M) ==
  /\ M[0] = m /\ f = M[Len(s)]
  /\ \A k \in 1..Len(s) : M[k] = After(M[k - 1], s[k], open)
  /\ \A k \in 0..Len(s) : DOMAIN M[k] = Memory

Leads(s, m, open, f) == \E M : Steps(s, m, open, f, M)

\* An empty stream leads to the memory as it is.
LEMMA LeadsNowhere ==
  ASSUME NEW m, DOMAIN m = Memory, NEW open
  PROVE  Leads(<<>>, m, open, m) /\ \A f : Leads(<<>>, m, open, f) => f = m
<1>1. Len(<<>>) = 0 /\ 1..0 = {} /\ \A k \in 0..0 : k = 0
  OBVIOUS
<1>2. Steps(<<>>, m, open, m, [k \in 0..0 |-> m])
  BY <1>1 DEF Steps
<1>3. ASSUME NEW f, Leads(<<>>, m, open, f) PROVE f = m
  BY <1>1, <1>3 DEF Leads, Steps
<1> QED
  BY <1>2, <1>3 DEF Leads

\* The outcome is a memory of the same addresses.
LEMMA LeadsMemory ==
  ASSUME NEW S, NEW s \in Seq(S), NEW m, NEW open, NEW f, Leads(s, m, open, f)
  PROVE  DOMAIN f = Memory
<1>1. PICK M : Steps(s, m, open, f, M)
  BY DEF Leads
<1>2. Len(s) \in 0..Len(s)
  OBVIOUS
<1> QED
  BY <1>1, <1>2 DEF Steps

\* One operation more.
LEMMA LeadsOn ==
  ASSUME NEW S, NEW s \in Seq(S), NEW m, NEW open, NEW f, Leads(s, m, open, f), NEW op
  PROVE  Leads(Append(s, op), m, open, After(f, op, open))
<1> DEFINE n == Len(s)
           t == Append(s, op)
<1>1. PICK M : Steps(s, m, open, f, M)
  BY DEF Leads
<1>2. n \in Nat
  OBVIOUS
<1>3. Len(t) = n + 1 /\ (\A k \in 1..n : t[k] = s[k]) /\ t[n + 1] = op
  OBVIOUS
<1> HIDE DEF t
<1> DEFINE N == [k \in 0..(n + 1) |-> IF k = n + 1 THEN After(f, op, open) ELSE M[k]]
<1>4. /\ M[0] = m /\ f = M[n]
      /\ \A k \in 1..n : M[k] = After(M[k - 1], s[k], open)
      /\ \A k \in 0..n : DOMAIN M[k] = Memory
  BY <1>1 DEF Steps
<1>5. n + 1 \in 0..(n + 1) /\ \A k \in 0..n : k \in 0..(n + 1) /\ k # n + 1
  BY <1>2
<1> HIDE DEF n
<1>6. N[n + 1] = After(f, op, open) /\ \A k \in 0..n : N[k] = M[k]
  BY <1>5
<1> HIDE DEF N
<1>7. N[0] = m
  BY <1>2, <1>4, <1>6
<1>8. ASSUME NEW k \in 1..(n + 1) PROVE N[k] = After(N[k - 1], t[k], open)
  <2>1. CASE k = n + 1
    <3>1. k - 1 = n /\ n \in 0..n
      BY <1>2, <2>1
    <3> QED
      BY <1>3, <1>4, <1>6, <2>1, <3>1
  <2>2. CASE k # n + 1
    <3>1. k \in 1..n /\ k \in 0..n /\ k - 1 \in 0..n
      BY <1>2, <2>2
    <3> QED
      BY <1>3, <1>4, <1>6, <3>1
  <2> QED
    BY <2>1, <2>2
<1>9. ASSUME NEW k \in 0..(n + 1) PROVE DOMAIN N[k] = Memory
  <2>1. CASE k = n + 1
    <3>1. DOMAIN f = Memory
      BY <1>2, <1>4
    <3> QED
      BY <1>6, <2>1, <3>1, AfterFacts
  <2>2. CASE k # n + 1
    <3>1. k \in 0..n
      BY <1>2, <2>2
    <3> QED
      BY <1>4, <1>6, <3>1
  <2> QED
    BY <2>1, <2>2
<1>10. Steps(t, m, open, After(f, op, open), N)
  BY <1>3, <1>6, <1>7, <1>8, <1>9 DEF Steps
<1>11. Leads(t, m, open, After(f, op, open))
  BY <1>10 DEF Leads
<1> QED
  BY <1>11 DEF t

\* The first operation is executed.
LEMMA LeadsFromHead ==
  ASSUME NEW S, NEW s \in Seq(S), s # <<>>, NEW m, NEW open, NEW f, Leads(s, m, open, f)
  PROVE  Leads(Tail(s), After(m, Head(s), open), open, f)
<1> DEFINE n == Len(s)
           t == Tail(s)
<1>1. PICK M : Steps(s, m, open, f, M)
  BY DEF Leads
<1>2. n \in Nat /\ n >= 1 /\ Head(s) = s[1] /\ Len(t) = n - 1 /\ \A k \in 1..(n - 1) : t[k] = s[k + 1]
  OBVIOUS
<1> HIDE DEF t
<1>3. /\ M[0] = m /\ f = M[n]
      /\ \A k \in 1..n : M[k] = After(M[k - 1], s[k], open)
      /\ \A k \in 0..n : DOMAIN M[k] = Memory
  BY <1>1 DEF Steps
<1> HIDE DEF n
<1> DEFINE N == [k \in 0..(n - 1) |-> M[k + 1]]
<1>4. 0 \in 0..(n - 1) /\ n - 1 \in 0..(n - 1) /\ 1 \in 1..n
  BY <1>2
<1>5. \A k \in 0..(n - 1) : N[k] = M[k + 1]
  OBVIOUS
<1> HIDE DEF N
<1>6. N[0] = After(m, Head(s), open)
  BY <1>2, <1>3, <1>4, <1>5
<1>7. N[n - 1] = f
  BY <1>2, <1>3, <1>4, <1>5
<1>8. ASSUME NEW k \in 1..(n - 1) PROVE N[k] = After(N[k - 1], t[k], open)
  <2>1. k \in 0..(n - 1) /\ k - 1 \in 0..(n - 1) /\ k + 1 \in 1..n /\ (k - 1) + 1 = k /\ (k + 1) - 1 = k
    BY <1>2
  <2> QED
    BY <1>2, <1>3, <1>5, <2>1
<1>9. ASSUME NEW k \in 0..(n - 1) PROVE DOMAIN N[k] = Memory
  <2>1. k + 1 \in 0..n
    BY <1>2
  <2> QED
    BY <1>3, <1>5, <2>1
<1>10. Steps(t, After(m, Head(s), open), open, f, N)
  BY <1>2, <1>6, <1>7, <1>8, <1>9 DEF Steps
<1> QED
  BY <1>10 DEF Leads, t
-----------------------------------------------------------------------------
(* The inductive invariant                                               *)

\* Tensors that wait, and what the loader and the device are at: nothing is
\* left to do, and all of it done, once the checkpoint is loaded.
Shape ==
  /\ plan \in Plan
  /\ pc \in {"starting", "running", "draining", "loaded"}
  /\ IF pc = "starting" THEN at[1] \in DOMAIN plan /\ at[2] \in DOMAIN plan[at[1]]
                        ELSE at[1] \in Nat \ {0} /\ at[2] = 1
  /\ \A t \in DOMAIN waiting :
       /\ KindOf(t) \in Kind \ {"bad"}
       /\ pc = "starting" => t[2] \in Nat /\ t[2] < at[2]
  /\ pc \in {"draining", "loaded"} => DOMAIN waiting = {}
  /\ \A copy \in copies : copy.name.t \in DOMAIN waiting
  /\ process \in {"loader", "executor"}
  /\ Replaying => copies = {}
  /\ \E S : stream \in Seq(S)
  /\ pc = "loaded" => stream = <<>> /\ temps = NoTemps
  /\ mapped \in BOOLEAN /\ (~mapped => Replaying \/ pc = "loaded")

\* A process is judged once it has loaded, and on what it has loaded.
Verdict ==
  /\ outcome # "none" => pc = "loaded"
  /\ outcome # "none" /\ ~failed => Replaying
  /\ failed /\ pc = "loaded" => outcome = "failed"
  /\ outcome = "admitted" => Replaying /\ named = loaded.named

Waits(kind) == {t \in DOMAIN waiting : KindOf(t) = kind}

\* What memory is in use for, and where: weights, raw copies, planes.
Expected ==
  DOMAIN named \cup {Name(t, "raw") : t \in Waits("kvb")}
    \cup {Name(t, "fixed") : t \in Waits("csf")} \cup {Name(t, "exceptions") : t \in Waits("csf")}

Place(e) ==
  IF e.part \in {"raw", "fixed"} THEN waiting[e.t][2]
  ELSE IF e.part = "exceptions" THEN waiting[e.t][3] ELSE named[e]

Unowned == Name(<<0, 0>>, "free")

Owns(own, r, label) == r \in Span /\ \A a \in Addresses(r) : a \in Memory /\ own[a] = label

\* Every address belongs to one purpose.
Owned(own) ==
  /\ Ready(arena)
  /\ \A a \in FreeAddresses(arena.heap) \cup FreeAddresses(arena.pool) : a \in Memory /\ own[a] = Unowned
  /\ \A n \in DOMAIN named : n = Name(n.t, n.part) /\ n.part \in {"w", "k", "v"}
  /\ \A e \in Expected : Owns(own, Place(e), e)
  /\ temps.pending \in Seq(Span) /\ temps.status \in Seq(Span) /\ Len(temps.status) <= 1
  /\ \A i \in 1..Len(temps.pending) :
       \A a \in Addresses(temps.pending[i]) : a \in Memory /\ own[a].part \in {"fixed", "exceptions"}
  /\ \A i, j \in 1..Len(temps.pending) :
       i < j => Addresses(temps.pending[i]) \cap Addresses(temps.pending[j]) = {}
  /\ \A i \in 1..Len(temps.status) :
       \A a \in Addresses(temps.status[i]) : a \in Memory /\ own[a].part = "status"

\* Once the stream has been executed, what is expected is in its place, unless
\* its copy has not been enqueued, or its planes have not been decoded.
There(f, e) ==
  \/ Holding(f, Place(e), e)
  \/ Copy(e.t, e.part, Place(e)) \in copies
  \/ e.part = "w" /\ e.t \in Waits("csf")

AskedFor(copy) == copy.name \in Expected /\ copy = Copy(copy.name.t, copy.name.part, Place(copy.name))

ToDecode(t) == Name(t, "w") \in DOMAIN named /\ named[Name(t, "w")] = waiting[t][1]

Delivered(f) ==
  /\ \A e \in Expected : There(f, e)
  /\ \A copy \in copies : AskedFor(copy)
  /\ \A t \in Waits("csf") : ToDecode(t)

\* Memory the executor has taken for something that does not stay.
Soft(a) == a \notin FreeAddresses(arena.heap) /\ \A n \in DOMAIN named : a \notin Addresses(named[n])

\* The executor has overwritten the weights at most where it has put nothing
\* that stays.
Kept(f) ==
  \A n \in DOMAIN loaded.named : \A a \in Addresses(loaded.named[n]) : a \in Memory /\ (f[a] = n \/ Soft(a))

Contents(f) == Leads(stream, memory, mapped, f) /\ IF Replaying THEN Kept(f) ELSE Delivered(f)

LoadIInv ==
  /\ Shape /\ Verdict
  /\ failed \/ ((\E own : Owned(own)) /\ (\E f : Contents(f)))
-----------------------------------------------------------------------------
(* Shape and Verdict                                                     *)

\* What is put on the stream keeps it a sequence.
LEMMA WiderStream ==
  ASSUME NEW S, NEW s \in Seq(S), NEW op
  PROVE  \E T : Append(s, op) \in Seq(T)
<1>1. s \in Seq(S \cup {op}) /\ op \in S \cup {op}
  OBVIOUS
<1>2. Append(s, op) \in Seq(S \cup {op})
  BY <1>1
<1> QED
  BY <1>2

\* The rest of the stream is one.
LEMMA RestOfStream ==
  ASSUME NEW S, NEW s \in Seq(S), s # <<>>
  PROVE  Tail(s) \in Seq(S)
  OBVIOUS

\* A checkpoint has tensors, in batches of at least one.
LEMMA PlanFacts ==
  ASSUME plan \in Plan
  PROVE  /\ Len(plan) \in Nat \ {0} /\ DOMAIN plan = 1..Len(plan)
         /\ \A b \in DOMAIN plan :
              /\ Len(plan[b]) \in Nat \ {0} /\ DOMAIN plan[b] = 1..Len(plan[b])
              /\ \A i \in DOMAIN plan[b] : plan[b][i] \in Kind
<1>1. plan \in Seq(Seq(Kind) \ {<<>>}) /\ plan # <<>>
  BY WeightLoadAssumption
<1>2. Len(plan) \in Nat \ {0} /\ DOMAIN plan = 1..Len(plan) /\ \A b \in DOMAIN plan : plan[b] \in Seq(Kind) \ {<<>>}
  BY <1>1
<1>3. ASSUME NEW b \in DOMAIN plan
      PROVE  /\ Len(plan[b]) \in Nat \ {0} /\ DOMAIN plan[b] = 1..Len(plan[b])
             /\ \A i \in DOMAIN plan[b] : plan[b][i] \in Kind
  <2>1. plan[b] \in Seq(Kind) /\ plan[b] # <<>>
    BY <1>2
  <2> QED
    BY <2>1
<1> QED
  BY <1>2, <1>3

\* The place after a tensor.
LEMMA NextAtFacts ==
  ASSUME Shape, pc = "starting"
  PROVE  /\ at[1] \in Nat \ {0} /\ at[2] \in Nat \ {0}
         /\ KindOf(at) \in Kind
         /\ NextAt[1] = at[1] => NextAt[2] = at[2] + 1 /\ at[2] + 1 \in DOMAIN plan[at[1]]
         /\ NextAt[1] # at[1] => NextAt[1] \in Nat \ {0} /\ NextAt[2] = 1
<1>1. plan \in Plan /\ at[1] \in DOMAIN plan /\ at[2] \in DOMAIN plan[at[1]]
  BY DEF Shape
<1>2. /\ at[1] \in 1..Len(plan) /\ Len(plan) \in Nat
      /\ at[2] \in 1..Len(plan[at[1]]) /\ Len(plan[at[1]]) \in Nat /\ DOMAIN plan[at[1]] = 1..Len(plan[at[1]])
      /\ plan[at[1]][at[2]] \in Kind
  BY <1>1, PlanFacts
<1>3. KindOf(at) \in Kind
  BY <1>2 DEF KindOf
<1>4. CASE at[2] < Len(plan[at[1]])
  <2>1. NextAt[1] = at[1] /\ NextAt[2] = at[2] + 1
    BY <1>4 DEF NextAt
  <2> QED
    BY <1>2, <1>3, <1>4, <2>1
<1>5. CASE ~(at[2] < Len(plan[at[1]]))
  <2>1. NextAt[1] = at[1] + 1 /\ NextAt[2] = 1
    BY <1>5 DEF NextAt
  <2> QED
    BY <1>2, <1>3, <2>1
<1> QED
  BY <1>4, <1>5

\* A map with one more entry.
LEMMA WithFacts ==
  ASSUME NEW x, NEW y, NEW f
  PROVE  /\ DOMAIN With(f, x, y) = {x} \cup DOMAIN f
         /\ With(f, x, y)[x] = y
         /\ \A z \in DOMAIN f : z # x => With(f, x, y)[z] = f[z]
  BY DEF With

\* The tensors that wait after one has been started.
LEMMA StartShape ==
  ASSUME Shape, StartTensor
  PROVE  Shape'
<1> DEFINE kind == KindOf(at)
           taken == AllocatedAll(arena, <<Stays(2)>> \o Temporaries(kind))
<1>1. /\ pc = "starting" /\ at' = NextAt
      /\ pc' = (IF NextAt[1] = at[1] THEN "starting" ELSE "running")
      /\ UNCHANGED <<plan, process, outcome, memory, mapped, loaded>>
  BY DEF StartTensor
<1>2. \/ UNCHANGED <<named, waiting, temps, copies, stream>>
      \/ /\ kind # "bad"
         /\ waiting' = With(waiting, at, taken.got)
         /\ copies' = (IF Replaying THEN copies ELSE copies \cup CopiesOf(at, kind, taken.got))
         /\ stream' = stream \/ stream' = Append(stream, Copy(at, "w", taken.got[1]))
  BY DEF StartTensor
<1> HIDE DEF taken
<1>3. /\ at[1] \in Nat \ {0} /\ at[2] \in Nat \ {0}
      /\ kind \in Kind
      /\ NextAt[1] = at[1] => NextAt[2] = at[2] + 1 /\ at[2] + 1 \in DOMAIN plan[at[1]]
      /\ NextAt[1] # at[1] => NextAt[1] \in Nat \ {0} /\ NextAt[2] = 1
  BY <1>1, NextAtFacts
<1> HIDE DEF kind
<1>4. IF pc' = "starting" THEN at'[1] \in DOMAIN plan' /\ at'[2] \in DOMAIN plan'[at'[1]]
                          ELSE at'[1] \in Nat \ {0} /\ at'[2] = 1
  <2>1. CASE NextAt[1] = at[1]
    <3>1. pc' = "starting" /\ at'[1] = at[1] /\ at'[2] = at[2] + 1 /\ plan' = plan
      BY <1>1, <1>3, <2>1
    <3>2. at[1] \in DOMAIN plan
      BY <1>1 DEF Shape
    <3> QED
      BY <1>3, <2>1, <3>1, <3>2
  <2>2. CASE NextAt[1] # at[1]
    BY <1>1, <1>3, <2>2
  <2> QED
    BY <2>1, <2>2
<1>5. DOMAIN waiting' = DOMAIN waiting \/ (DOMAIN waiting' = {at} \cup DOMAIN waiting /\ kind # "bad")
  <2>1. DOMAIN With(waiting, at, taken.got) = {at} \cup DOMAIN waiting
    BY WithFacts
  <2>2. waiting' = waiting \/ (kind # "bad" /\ waiting' = With(waiting, at, taken.got))
    BY <1>2
  <2> QED
    BY <2>1, <2>2
<1>6. ASSUME NEW t \in DOMAIN waiting'
      PROVE  KindOf(t)' \in Kind \ {"bad"} /\ (pc' = "starting" => t[2] \in Nat /\ t[2] < at'[2])
  <2>1. pc' = "starting" => at'[2] = at[2] + 1
    BY <1>1, <1>3
  <2>2. KindOf(t)' = KindOf(t)
    BY <1>1 DEF KindOf
  <2>3. CASE t \in DOMAIN waiting
    <3>1. KindOf(t) \in Kind \ {"bad"} /\ t[2] \in Nat /\ t[2] < at[2]
      BY <1>1, <2>3 DEF Shape
    <3> QED
      BY <1>3, <2>1, <2>2, <3>1
  <2>4. CASE t = at /\ kind # "bad"
    BY <1>3, <2>1, <2>2, <2>4 DEF kind
  <2> QED
    BY <1>5, <2>3, <2>4
<1>7. ASSUME NEW copy \in copies' PROVE copy.name.t \in DOMAIN waiting'
  <2>1. CASE copy \in copies
    BY <1>5, <2>1 DEF Shape
  <2>2. CASE copy \notin copies
    <3>1. copy \in CopiesOf(at, kind, taken.got) /\ waiting' = With(waiting, at, taken.got)
      BY <1>2, <2>2
    <3>2. copy.name.t = at
      BY <3>1 DEF CopiesOf, Copy, Name
    <3>3. DOMAIN With(waiting, at, taken.got) = {at} \cup DOMAIN waiting
      BY WithFacts
    <3> QED
      BY <3>1, <3>2, <3>3
  <2> QED
    BY <2>1, <2>2
<1>8. \E S : stream' \in Seq(S)
  <2>1. PICK S : stream \in Seq(S)
    BY DEF Shape
  <2>2. CASE stream' = stream
    BY <2>1, <2>2
  <2>3. CASE stream' # stream
    <3>1. stream' = Append(stream, Copy(at, "w", taken.got[1]))
      BY <1>2, <2>3
    <3> QED
      BY <2>1, <3>1, WiderStream
  <2> QED
    BY <2>2, <2>3
<1>9. Replaying' => copies' = {}
  <2>1. Replaying' = Replaying
    BY <1>1 DEF Replaying
  <2> QED
    BY <1>2, <2>1 DEF Shape
<1>10. /\ pc' \in {"starting", "running"} /\ plan' \in Plan /\ process' \in {"loader", "executor"}
       /\ mapped' \in BOOLEAN
  BY <1>1 DEF Shape
<1>11. ~mapped' => Replaying'
  BY <1>1 DEF Shape, Replaying
<1> QED
  BY <1>4, <1>6, <1>7, <1>8, <1>9, <1>10, <1>11 DEF Shape

\* After the other steps.
LEMMA ResumeShape ==
  ASSUME Shape, NEW t \in DOMAIN waiting, Resume(t)
  PROVE  Shape'
<1> DEFINE taken == AllocatedAll(arena, <<Temporary(3), Stays(2)>>)
           got == waiting[t]
           transpose == [op |-> "transpose", t |-> t, src |-> got[2], dst |-> taken.got[1]]
           move == [op |-> "memcpy", t |-> t, src |-> taken.got[1], dst |-> taken.got[2]]
           decode == [op |-> "decode", t |-> t, fixed |-> got[2], exceptions |-> got[3], dst |-> got[1]]
<1>1. /\ pc = "running" /\ \A copy \in copies : copy.name.t # t
      /\ waiting' = [u \in DOMAIN waiting \ {t} |-> waiting[u]]
      /\ UNCHANGED <<plan, process, outcome, at, pc, temps, copies, memory, mapped, loaded>>
  BY DEF Resume
<1>2. \/ stream' = stream
      \/ stream' = Append(stream, transpose)
      \/ stream' = Append(Append(stream, transpose), move)
      \/ stream' = Append(stream, decode)
  BY DEF Resume
<1> HIDE DEF taken, got, transpose, move, decode
<1>3. \E S : stream' \in Seq(S)
  <2>1. PICK S : stream \in Seq(S)
    BY DEF Shape
  <2>2. CASE stream' = stream
    BY <2>1, <2>2
  <2>3. CASE stream' = Append(stream, decode)
    BY <2>1, <2>3, WiderStream
  <2>4. PICK T : Append(stream, transpose) \in Seq(T)
    BY <2>1, WiderStream
  <2>5. CASE stream' = Append(stream, transpose)
    BY <2>4, <2>5
  <2>6. CASE stream' = Append(Append(stream, transpose), move)
    BY <2>4, <2>6, WiderStream
  <2> QED
    BY <1>2, <2>2, <2>3, <2>5, <2>6
<1>4. DOMAIN waiting' = DOMAIN waiting \ {t}
  BY <1>1
<1>5. \A u \in DOMAIN waiting' :
        /\ KindOf(u)' \in Kind \ {"bad"}
        /\ pc' = "starting" => u[2] \in Nat /\ u[2] < at'[2]
  BY <1>1, <1>4 DEF Shape, KindOf
<1>6. \A copy \in copies' : copy.name.t \in DOMAIN waiting'
  BY <1>1, <1>4 DEF Shape
<1>7. Replaying' => copies' = {}
  BY <1>1 DEF Shape, Replaying
<1>8. ~mapped' => Replaying'
  BY <1>1 DEF Shape, Replaying
<1>9. /\ at'[1] \in Nat \ {0} /\ at'[2] = 1 /\ pc' = "running" /\ plan' \in Plan
      /\ process' \in {"loader", "executor"} /\ mapped' \in BOOLEAN
  BY <1>1 DEF Shape
<1> QED
  BY <1>3, <1>5, <1>6, <1>7, <1>8, <1>9 DEF Shape

\* A worker puts its copy on the stream.
LEMMA EnqueueShape ==
  ASSUME Shape, NEW copy \in copies, Enqueue(copy)
  PROVE  Shape'
<1>1. /\ copies' = copies \ {copy} /\ stream' = Append(stream, copy)
      /\ UNCHANGED <<plan, process, outcome, at, pc, arena, named, waiting, temps, memory, mapped, failed, loaded>>
  BY DEF Enqueue
<1>2. DOMAIN waiting # {} /\ pc \notin {"draining", "loaded"} /\ ~Replaying
  BY DEF Shape
<1>3. \E S : stream' \in Seq(S)
  BY <1>1, WiderStream DEF Shape
<1>4. \A t \in DOMAIN waiting' : KindOf(t)' = KindOf(t)
  BY <1>1 DEF KindOf
<1>5. Replaying' = Replaying
  BY <1>1 DEF Replaying
<1> QED
  BY <1>1, <1>2, <1>3, <1>4, <1>5 DEF Shape

\* The device executes the next operation.
LEMMA DeviceShape ==
  ASSUME Shape, DeviceStep
  PROVE  Shape'
<1>1. /\ stream # <<>> /\ stream' = Tail(stream)
      /\ UNCHANGED <<plan, process, outcome, at, pc, arena, named, waiting, temps, copies, mapped, failed, loaded>>
  BY DEF DeviceStep
<1>2. \E S : stream' \in Seq(S)
  BY <1>1, RestOfStream DEF Shape
<1>3. \A t \in DOMAIN waiting' : KindOf(t)' = KindOf(t)
  BY <1>1 DEF KindOf
<1>4. Replaying' = Replaying
  BY <1>1 DEF Replaying
<1>5. pc # "loaded"
  BY <1>1 DEF Shape
<1> QED
  BY <1>1, <1>2, <1>3, <1>4, <1>5 DEF Shape

\* Once nothing waits the next batch is started.
LEMMA EndBatchShape ==
  ASSUME Shape, EndBatch
  PROVE  Shape'
<1>1. /\ pc = "running" /\ DOMAIN waiting = {}
      /\ pc' = "draining" \/ (pc' = "starting" /\ at[1] <= Len(plan))
      /\ UNCHANGED <<plan, process, outcome, at, named, waiting, copies, stream, memory, mapped, failed, loaded>>
  BY DEF EndBatch, BatchSettled
<1>2. ASSUME pc' = "starting" PROVE at'[1] \in DOMAIN plan' /\ at'[2] \in DOMAIN plan'[at'[1]]
  <2>1. plan \in Plan /\ at[1] \in Nat \ {0} /\ at[2] = 1 /\ at[1] <= Len(plan)
    BY <1>1, <1>2 DEF Shape
  <2>2. at[1] \in DOMAIN plan
    BY <2>1, PlanFacts
  <2>3. Len(plan[at[1]]) \in Nat \ {0} /\ DOMAIN plan[at[1]] = 1..Len(plan[at[1]])
    BY <2>1, <2>2, PlanFacts
  <2>4. 1 \in DOMAIN plan[at[1]]
    BY <2>3
  <2> QED
    BY <1>1, <2>1, <2>2, <2>4
<1>3. \A t \in DOMAIN waiting' : KindOf(t)' = KindOf(t)
  BY <1>1 DEF KindOf
<1>4. Replaying' = Replaying
  BY <1>1 DEF Replaying
<1>5. copies = {}
  BY <1>1 DEF Shape
<1> QED
  BY <1>1, <1>2, <1>3, <1>4, <1>5 DEF Shape

\* After the last batch the stream is waited for.
LEMMA DrainShape ==
  ASSUME Shape, Drain
  PROVE  Shape'
<1>1. /\ pc = "draining" /\ stream = <<>> /\ temps' = NoTemps /\ pc' = "loaded"
      /\ UNCHANGED <<plan, process, at, named, waiting, copies, stream, memory, failed, loaded>>
  BY DEF Drain
<1>2. \A t \in DOMAIN waiting' : KindOf(t)' = KindOf(t)
  BY <1>1 DEF KindOf
<1>3. Replaying' = Replaying
  BY <1>1 DEF Replaying
<1>4. mapped' \in BOOLEAN
  BY DEF Drain
<1> QED
  BY <1>1, <1>2, <1>3, <1>4 DEF Shape

\* The executor starts at the first tensor.
LEMMA StartExecutorShape ==
  ASSUME Shape, StartExecutor
  PROVE  Shape'
<1>1. /\ pc = "loaded" /\ process' = "executor" /\ at' = <<1, 1>> /\ pc' = "starting"
      /\ UNCHANGED <<plan, outcome, waiting, temps, copies, stream, memory, mapped, failed>>
  BY DEF StartExecutor
<1>2. DOMAIN waiting = {} /\ copies = {} /\ stream = <<>> /\ plan \in Plan
  BY <1>1 DEF Shape
<1>3. 1 \in DOMAIN plan /\ 1 \in DOMAIN plan[1]
  <2>1. 1 \in DOMAIN plan
    BY <1>2, PlanFacts
  <2>2. Len(plan[1]) \in Nat \ {0} /\ DOMAIN plan[1] = 1..Len(plan[1])
    BY <1>2, <2>1, PlanFacts
  <2> QED
    BY <2>1, <2>2
<1>4. at'[1] = 1 /\ at'[2] = 1
  BY <1>1
<1>5. stream' = stream /\ \E S : stream \in Seq(S)
  BY <1>1 DEF Shape
<1>6. Replaying'
  BY <1>1 DEF Replaying
<1> QED
  BY <1>1, <1>2, <1>3, <1>4, <1>5, <1>6 DEF Shape

\* A verdict changes nothing else.
LEMMA JudgeShape ==
  ASSUME Shape, Judge
  PROVE  Shape'
<1>1. UNCHANGED <<plan, process, at, pc, arena, named, waiting, temps, copies, stream, memory, mapped, failed, loaded>>
  BY DEF Judge
<1>2. \A t \in DOMAIN waiting' : KindOf(t)' = KindOf(t)
  BY <1>1 DEF KindOf
<1>3. Replaying' = Replaying
  BY <1>1 DEF Replaying
<1> QED
  BY <1>1, <1>2, <1>3 DEF Shape

\* Every step keeps the shape.
LEMMA ShapeNext ==
  ASSUME Shape, [LoadNext]_loadVars
  PROVE  Shape'
<1>1. CASE UNCHANGED loadVars
  <2>1. \A t \in DOMAIN waiting' : KindOf(t)' = KindOf(t)
    BY <1>1 DEF KindOf, loadVars
  <2>2. Replaying' = Replaying
    BY <1>1 DEF Replaying, loadVars
  <2> QED
    BY <1>1, <2>1, <2>2 DEF Shape, loadVars
<1>2. CASE LoadNext
  BY <1>2, StartShape, EnqueueShape, DeviceShape, ResumeShape, EndBatchShape, DrainShape,
     StartExecutorShape, JudgeShape DEF LoadNext
<1> QED
  BY <1>1, <1>2

\* Every step keeps what is known of a verdict.
LEMMA VerdictNext ==
  ASSUME Shape, Verdict, [LoadNext]_loadVars
  PROVE  Verdict'
<1>1. CASE UNCHANGED loadVars
  BY <1>1 DEF Verdict, Replaying, loadVars
<1>2. CASE StartTensor
  BY <1>2 DEF StartTensor, Verdict, Replaying
<1>3. ASSUME NEW copy \in copies, Enqueue(copy) PROVE Verdict'
  BY <1>3 DEF Enqueue, Verdict, Replaying
<1>4. CASE DeviceStep
  BY <1>4 DEF DeviceStep, Verdict, Replaying
<1>5. ASSUME NEW t \in DOMAIN waiting, Resume(t) PROVE Verdict'
  <2>1. pc = "running" /\ UNCHANGED <<process, outcome, pc>>
    BY <1>5 DEF Resume
  <2> QED
    BY <2>1 DEF Verdict
<1>6. CASE EndBatch
  BY <1>6 DEF EndBatch, Verdict
<1>7. CASE Drain
  BY <1>7 DEF Drain, Verdict, Replaying
<1>8. CASE StartExecutor
  BY <1>8 DEF StartExecutor, Verdict, Replaying
<1>9. CASE Judge
  BY <1>9 DEF Judge, Verdict, Replaying, SameLayout
<1> QED
  BY <1>1, <1>2, <1>3, <1>4, <1>5, <1>6, <1>7, <1>8, <1>9 DEF LoadNext
-----------------------------------------------------------------------------
(* What starting a tensor takes                                          *)

\* One before others.
LEMMA OneBefore ==
  ASSUME NEW S, NEW a \in S, NEW w \in Seq(S)
  PROVE  /\ <<a>> \o w \in Seq(S) /\ Len(<<a>> \o w) = 1 + Len(w) /\ (<<a>> \o w)[1] = a
  OBVIOUS

\* What a tensor is given for its kind.
LEMMA Wants ==
  ASSUME NEW kind \in Kind \ {"bad"}
  PROVE  LET q == <<Stays(2)>> \o Temporaries(kind)
         IN /\ q \in Seq(Wanted) /\ q[1].stays
            /\ Len(q) = IF kind = "csf" THEN (IF temps.status = <<>> THEN 4 ELSE 3)
                        ELSE IF kind = "kvb" THEN 2 ELSE 1
<1> DEFINE w == Temporaries(kind)
           q == <<Stays(2)>> \o w
<1>1. Stays(2) \in Wanted /\ Stays(2).stays /\ Temporary(1) \in Wanted /\ Temporary(2) \in Wanted /\ Temporary(3) \in Wanted
  BY DEF Wanted, Stays, Temporary
<1>2. w \in Seq(Wanted) /\ Len(w) = IF kind = "csf" THEN (IF temps.status = <<>> THEN 3 ELSE 2)
                                    ELSE IF kind = "kvb" THEN 1 ELSE 0
  <2>1. PICK x, y, z : x \in Wanted /\ y \in Wanted /\ z \in Wanted
                       /\ x = Temporary(1) /\ y = Temporary(2) /\ z = Temporary(3)
    BY <1>1
  <2>2. w = CASE kind = "csf" -> <<x, y>> \o (IF temps.status = <<>> THEN <<x>> ELSE <<>>)
              [] kind = "kvb" -> <<z>>
              [] OTHER -> <<>>
    BY <2>1 DEF Temporaries
  <2> HIDE DEF w
  <2>7. <<x, y>> \in Seq(Wanted) /\ <<x>> \in Seq(Wanted) /\ Len(<<x, y>>) = 2 /\ Len(<<x>>) = 1
    BY <2>1
  <2>8. <<x, y>> \o <<x>> \in Seq(Wanted) /\ Len(<<x, y>> \o <<x>>) = 2 + 1
    BY <2>7
  <2>9. <<x, y>> \o <<>> = <<x, y>>
    BY <2>7
  <2>3. /\ <<x, y>> \o <<x>> \in Seq(Wanted) /\ Len(<<x, y>> \o <<x>>) = 3
        /\ <<x, y>> \o <<>> = <<x, y>>
        /\ <<x, y>> \in Seq(Wanted) /\ Len(<<x, y>>) = 2
        /\ <<z>> \in Seq(Wanted) /\ Len(<<z>>) = 1
        /\ <<>> \in Seq(Wanted) /\ Len(<<>>) = 0
    BY <2>1, <2>7, <2>8, <2>9
  <2>4. CASE kind = "csf"
    BY <2>2, <2>3, <2>4
  <2>5. CASE kind = "kvb"
    BY <2>2, <2>3, <2>5
  <2>6. CASE kind \notin {"csf", "kvb"}
    BY <2>2, <2>3, <2>6
  <2> QED
    BY <2>4, <2>5, <2>6
<1> HIDE DEF w
<1>3. /\ q \in Seq(Wanted) /\ q[1] = Stays(2) /\ Len(q) = 1 + Len(w)
  <2> DEFINE one == Stays(2)
  <2> HIDE DEF one
  <2>1. one \in Wanted
    BY <1>1 DEF one
  <2>2. <<one>> \o w \in Seq(Wanted) /\ Len(<<one>> \o w) = 1 + Len(w) /\ (<<one>> \o w)[1] = one
    BY <1>2, <2>1, OneBefore
  <2> QED
    BY <2>2 DEF one
<1> HIDE DEF q
<1>4. q \in Seq(Wanted) /\ q[1].stays
      /\ Len(q) = IF kind = "csf" THEN (IF temps.status = <<>> THEN 4 ELSE 3) ELSE IF kind = "kvb" THEN 2 ELSE 1
  BY <1>1, <1>2, <1>3
<1> QED
  BY <1>4 DEF q, w

\* Ranges taken of an arena: apart, and free before.
Apart(g) == \A i, j \in 1..Len(g) : i < j => Addresses(g[i]) \cap Addresses(g[j]) = {}

FreeIn(state) == FreeAddresses(state.heap) \cup FreeAddresses(state.pool)

Takes(g) ==
  /\ g \in Seq(Span) /\ Apart(g)
  /\ Ready(arena')
  /\ FreeAddresses(arena'.heap) = FreeAddresses(arena.heap) \ FreeAddresses(g)
  /\ FreeAddresses(arena'.pool) = FreeAddresses(arena.pool) \ FreeAddresses(g)
  /\ \A i \in 1..Len(g) : Addresses(g[i]) \subseteq FreeIn(arena)

\* A tensor at, of a kind, has been started with the ranges got.
Started(kind, got) ==
  /\ pc = "starting" /\ kind = KindOf(at) /\ kind \in Kind \ {"bad"} /\ at \notin DOMAIN waiting
  /\ Takes(got) /\ Addresses(got[1]) \subseteq FreeAddresses(arena.heap)
  /\ Len(got) = IF kind = "csf" THEN (IF temps.status = <<>> THEN 4 ELSE 3)
                ELSE IF kind = "kvb" THEN 2 ELSE 1
  /\ named' = With(named, Name(at, IF kind = "kvb" THEN "k" ELSE "w"), got[1])
  /\ waiting' = With(waiting, at, got)
  /\ temps' = IF kind # "csf" THEN temps
              ELSE [pending |-> temps.pending \o SubSeq(got, 2, 3),
                    status |-> temps.status \o SubSeq(got, 4, Len(got))]
  /\ copies' = IF Replaying THEN copies ELSE copies \cup CopiesOf(at, kind, got)
  /\ stream' = IF kind = "staged" /\ ~Replaying THEN Append(stream, Copy(at, "w", got[1])) ELSE stream
  /\ UNCHANGED <<plan, process, outcome, memory, mapped, loaded>>

\* What a tensor that has been started has taken.
LEMMA StartFacts ==
  ASSUME Shape, Ready(arena), StartTensor, ~failed'
  PROVE  \E kind, got : Started(kind, got)
<1> DEFINE kind == KindOf(at)
           q == <<Stays(2)>> \o Temporaries(kind)
           taken == AllocatedAll(arena, q)
           got == taken.got
<1>1. ~(kind = "bad" \/ ~taken.fits)
  BY DEF StartTensor
<1>2. /\ pc = "starting" /\ arena' = taken.state
      /\ named' = With(named, Name(at, IF kind = "kvb" THEN "k" ELSE "w"), got[1])
      /\ waiting' = With(waiting, at, got)
      /\ temps' = (IF kind # "csf" THEN temps
                   ELSE [pending |-> temps.pending \o SubSeq(got, 2, 3),
                         status |-> temps.status \o SubSeq(got, 4, Len(got))])
      /\ copies' = (IF Replaying THEN copies ELSE copies \cup CopiesOf(at, kind, got))
      /\ stream' = (IF kind = "staged" /\ ~Replaying THEN Append(stream, Copy(at, "w", got[1])) ELSE stream)
      /\ UNCHANGED <<plan, process, outcome, memory, mapped, loaded>>
  BY <1>1 DEF StartTensor
<1>3. kind \in Kind \ {"bad"}
  BY <1>1, <1>2, NextAtFacts
<1>4. /\ q \in Seq(Wanted) /\ q[1].stays
      /\ Len(q) = IF kind = "csf" THEN (IF temps.status = <<>> THEN 4 ELSE 3) ELSE IF kind = "kvb" THEN 2 ELSE 1
  <2> HIDE DEF kind
  <2> QED
    BY <1>3, Wants
<1>5. Taken(arena, q, Len(q), taken)
  <2> HIDE DEF q
  <2> QED
    BY <1>4, AllocatedAllFacts
<1> HIDE DEF taken, q
<1>6. /\ got \in Seq(Span) /\ Len(got) = Len(q) /\ Apart(got)
      /\ Ready(taken.state)
      /\ FreeAddresses(taken.state.heap) = FreeAddresses(arena.heap) \ FreeAddresses(got)
      /\ FreeAddresses(taken.state.pool) = FreeAddresses(arena.pool) \ FreeAddresses(got)
      /\ \A i \in 1..Len(got) : Addresses(got[i]) \subseteq FreeIn(arena)
      /\ \A i \in 1..Len(got) : q[i].stays => Addresses(got[i]) \subseteq FreeAddresses(arena.heap)
  BY <1>1, <1>5 DEF Taken, Apart, FreeIn
<1> HIDE DEF got
<1>7. Takes(got)
  BY <1>2, <1>6 DEF Takes
<1>8. 1 \in 1..Len(got)
  BY <1>4, <1>6
<1>9. at \notin DOMAIN waiting
  <2>1. at[2] \in Nat
    BY <1>2, NextAtFacts
  <2> QED
    BY <1>2, <2>1 DEF Shape
<1>10. Started(kind, got)
  <2> HIDE DEF kind
  <2>1. kind = KindOf(at)
    BY DEF kind
  <2> QED
    BY <1>2, <1>3, <1>4, <1>6, <1>7, <1>8, <1>9, <2>1 DEF Started
<1> QED
  BY <1>10

\* Two ranges of a list that is apart.
LEMMA TwoApart ==
  ASSUME NEW g, Apart(g), NEW i \in 1..Len(g), NEW j \in 1..Len(g), i < j
  PROVE  Addresses(g[i]) \cap Addresses(g[j]) = {}
  BY DEF Apart

\* Labels for what has been taken.
Labels(o, own, g, labels) ==
  /\ \A i \in 1..Len(g) : \A a \in Addresses(g[i]) : o[a] = labels[i]
  /\ \A a \in Int : a \notin FreeAddresses(g) => o[a] = own[a]

\* The addresses of a list of ranges can be given labels of their own.
LEMMA Labelled ==
  ASSUME NEW own, NEW g \in Seq(Span), Apart(g), NEW labels
  PROVE  \E o : Labels(o, own, g, labels)
<1> DEFINE At(a, i) == i \in 1..Len(g) /\ a \in Addresses(g[i])
           o == [a \in Int |-> IF \E i : At(a, i) THEN labels[CHOOSE i : At(a, i)] ELSE own[a]]
<1>1. Len(g) \in Nat /\ DOMAIN g = 1..Len(g) /\ \A i \in 1..Len(g) : g[i] \in Span
  OBVIOUS
<1>2. ASSUME NEW i \in 1..Len(g), NEW a \in Addresses(g[i]) PROVE o[a] = labels[i]
  <2>1. a \in Int
    BY <1>1, AddressesIs
  <2>2. At(a, i)
    OBVIOUS
  <2>3. \A j : At(a, j) => j = i
    BY <1>1 DEF Apart
  <2> HIDE DEF At
  <2>4. (CHOOSE j : At(a, j)) = i
    BY <2>2, <2>3
  <2> QED
    BY <2>1, <2>2, <2>4
<1>3. ASSUME NEW a \in Int, a \notin FreeAddresses(g) PROVE o[a] = own[a]
  <2>1. \A i : ~At(a, i)
    BY <1>1, <1>3 DEF FreeAddresses
  <2> HIDE DEF At
  <2> QED
    BY <2>1
<1> HIDE DEF o
<1>4. Labels(o, own, g, labels)
  BY <1>2, <1>3 DEF Labels
<1> QED
  BY <1>4

\* The planes of a tensor join the others.
LEMMA PlanesFacts ==
  ASSUME NEW u \in Seq(Span), NEW g \in Seq(Span), Len(g) \in {3, 4}
  PROVE  LET v == u \o SubSeq(g, 2, 3)
         IN /\ v \in Seq(Span) /\ Len(v) = Len(u) + 2
            /\ \A i \in 1..Len(u) : v[i] = u[i]
            /\ v[Len(u) + 1] = g[2] /\ v[Len(u) + 2] = g[3]
<1>1. SubSeq(g, 2, 3) \in Seq(Span) /\ Len(SubSeq(g, 2, 3)) = 2 /\ SubSeq(g, 2, 3)[1] = g[2] /\ SubSeq(g, 2, 3)[2] = g[3]
  OBVIOUS
<1> DEFINE w == SubSeq(g, 2, 3)
<1> HIDE DEF w
<1>2. LET v == u \o w
      IN /\ v \in Seq(Span) /\ Len(v) = Len(u) + 2
         /\ \A i \in 1..Len(u) : v[i] = u[i]
         /\ v[Len(u) + 1] = w[1] /\ v[Len(u) + 2] = w[2]
  BY <1>1 DEF w
<1> QED
  BY <1>1, <1>2 DEF w

\* What a list has in its last place, as a list.
LEMMA LastAlone ==
  ASSUME NEW S, NEW g \in Seq(S), NEW n \in Nat \ {0}, Len(g) = n
  PROVE  LET w == SubSeq(g, n, n) IN w \in Seq(S) /\ Len(w) = 1 /\ w[1] = g[n] /\ <<>> \o w = w
<1> DEFINE w == SubSeq(g, n, n)
<1>1. n \in 1..Len(g) /\ g[n] \in S
  OBVIOUS
<1>2. w \in Seq(S) /\ Len(w) = 1 /\ w[1] = g[n]
  BY <1>1, SubSeqProperties
<1> HIDE DEF w
<1>3. <<>> \o w = w
  BY <1>2
<1> QED
  BY <1>2, <1>3 DEF w

\* What becomes of csfLoadStatus when a tensor is started.
LEMMA StatusFacts ==
  ASSUME NEW u \in Seq(Span), NEW g \in Seq(Span),
         (u = <<>> /\ Len(g) = 4) \/ (u # <<>> /\ Len(u) = 1 /\ Len(g) = 3)
  PROVE  LET v == u \o SubSeq(g, 4, Len(g))
         IN /\ v \in Seq(Span) /\ Len(v) = 1
            /\ v[1] = IF u = <<>> THEN g[4] ELSE u[1]
<1>1. CASE u = <<>>
  <2>1. PICK n \in Nat \ {0} : n = 4
    OBVIOUS
  <2>4. Len(g) = n
    BY <1>1, <2>1
  <2> DEFINE w == SubSeq(g, n, n)
  <2>2. w \in Seq(Span) /\ Len(w) = 1 /\ w[1] = g[n] /\ <<>> \o w = w
    BY <2>4, LastAlone
  <2> HIDE DEF w
  <2>3. <<>> \o w \in Seq(Span) /\ Len(<<>> \o w) = 1 /\ (<<>> \o w)[1] = g[n]
    BY <2>2
  <2> QED
    BY <1>1, <2>1, <2>3, <2>4 DEF w
<1>2. CASE u # <<>>
  <2>2. Len(u) = 1
    BY <1>2
  <2>3. Len(g) = 3
    BY <1>2
  <2>4. SubSeq(g, 4, 3) = <<>>
    BY <2>3
  <2>5. u \o <<>> = u
    OBVIOUS
  <2> QED
    BY <1>2, <2>2, <2>3, <2>4, <2>5
<1> QED
  BY <1>1, <1>2

\* A range of a list is among its addresses.
LEMMA OfRange ==
  ASSUME NEW g \in Seq(Span), NEW i \in 1..Len(g), NEW a \in Addresses(g[i])
  PROVE  a \in FreeAddresses(g) /\ a \in Int
<1>1. DOMAIN g = 1..Len(g) /\ g[i] \in Span
  OBVIOUS
<1> QED
  BY <1>1, AddressesIs DEF FreeAddresses

\* What is expected, and where.
LEMMA ExpectedIs ==
  ASSUME \A n \in DOMAIN named : n = Name(n.t, n.part) /\ n.part \in {"w", "k", "v"},
         NEW e \in Expected
  PROVE  /\ e = Name(e.t, e.part)
         /\ \/ e \in DOMAIN named /\ e.part \in {"w", "k", "v"} /\ Place(e) = named[e]
            \/ e.t \in Waits("kvb") /\ e.part = "raw" /\ Place(e) = waiting[e.t][2]
            \/ e.t \in Waits("csf") /\ e.part = "fixed" /\ Place(e) = waiting[e.t][2]
            \/ e.t \in Waits("csf") /\ e.part = "exceptions" /\ Place(e) = waiting[e.t][3]
<1>1. CASE e \in DOMAIN named
  BY <1>1 DEF Place
<1>2. CASE \E t \in Waits("kvb") : e = Name(t, "raw")
  BY <1>2 DEF Place, Name
<1>3. CASE \E t \in Waits("csf") : e = Name(t, "fixed")
  BY <1>3 DEF Place, Name
<1>4. CASE \E t \in Waits("csf") : e = Name(t, "exceptions")
  BY <1>4 DEF Place, Name
<1> QED
  BY <1>1, <1>2, <1>3, <1>4 DEF Expected

\* The first name of a tensor of a kind.
FirstName(kind) == Name(at, IF kind = "kvb" THEN "k" ELSE "w")

\* What a started tensor adds to what is expected.
Adds(kind, got, e) ==
  \/ e = FirstName(kind) /\ Place(e)' = got[1]
  \/ kind = "kvb" /\ e = Name(at, "raw") /\ Place(e)' = got[2]
  \/ kind = "csf" /\ e = Name(at, "fixed") /\ Place(e)' = got[2]
  \/ kind = "csf" /\ e = Name(at, "exceptions") /\ Place(e)' = got[3]

\* What is expected, and where, after a tensor has been started.
LEMMA StartPlaces ==
  ASSUME \A n \in DOMAIN named : n = Name(n.t, n.part) /\ n.part \in {"w", "k", "v"},
         NEW kind, NEW got, Started(kind, got), NEW e \in Expected'
  PROVE  (e \in Expected /\ Place(e)' = Place(e) /\ e # FirstName(kind)) \/ Adds(kind, got, e)
<1> DEFINE n0 == FirstName(kind)
<1>1. /\ kind \in Kind \ {"bad"} /\ kind = KindOf(at) /\ at \notin DOMAIN waiting
      /\ named' = With(named, n0, got[1]) /\ waiting' = With(waiting, at, got) /\ plan' = plan
  BY DEF Started, FirstName
<1>2. /\ DOMAIN named' = {n0} \cup DOMAIN named /\ named'[n0] = got[1]
      /\ \A z \in DOMAIN named : z # n0 => named'[z] = named[z]
  <2> DEFINE f == With(named, n0, got[1])
  <2>1. DOMAIN f = {n0} \cup DOMAIN named /\ f[n0] = got[1] /\ \A z \in DOMAIN named : z # n0 => f[z] = named[z]
    BY DEF With
  <2>2. named' = f
    BY <1>1
  <2> QED
    BY <2>1, <2>2
<1>3. /\ DOMAIN waiting' = {at} \cup DOMAIN waiting /\ waiting'[at] = got
      /\ \A z \in DOMAIN waiting : waiting'[z] = waiting[z]
  <2> DEFINE f == With(waiting, at, got)
  <2>1. DOMAIN f = {at} \cup DOMAIN waiting /\ f[at] = got /\ \A z \in DOMAIN waiting : z # at => f[z] = waiting[z]
    BY DEF With
  <2>2. waiting' = f
    BY <1>1
  <2> QED
    BY <1>1, <2>1, <2>2
<1>4. \A k : Waits(k)' = Waits(k) \cup (IF k = kind THEN {at} ELSE {})
  <2>1. \A t : KindOf(t)' = KindOf(t)
    BY <1>1 DEF KindOf
  <2> QED
    BY <1>1, <1>3, <2>1 DEF Waits
<1>5. n0.part \in {"w", "k"} /\ n0.t = at
  BY DEF FirstName, Name
<1>6. CASE e = n0
  BY <1>2, <1>5, <1>6 DEF Place, Adds
<1>7. CASE e \in DOMAIN named /\ e # n0
  <2>1. e \in Expected /\ e.part \in {"w", "k", "v"}
    BY <1>7 DEF Expected
  <2>2. Place(e)' = named'[e] /\ Place(e) = named[e]
    BY <2>1 DEF Place
  <2> QED
    BY <1>2, <1>7, <2>1, <2>2
<1>8. ASSUME NEW t \in Waits("kvb")', e = Name(t, "raw")
      PROVE  (e \in Expected /\ Place(e)' = Place(e) /\ e # FirstName(kind)) \/ Adds(kind, got, e)
  <2>1. e.t = t /\ e.part = "raw" /\ Place(e)' = waiting'[t][2] /\ Place(e) = waiting[t][2]
    BY <1>8 DEF Place, Name
  <2>2. CASE t \in Waits("kvb")
    <3>1. e \in Expected /\ t \in DOMAIN waiting
      BY <1>8, <2>2 DEF Expected, Waits
    <3> QED
      BY <1>3, <1>5, <2>1, <3>1
  <2>3. CASE t = at /\ kind = "kvb"
    BY <1>3, <1>8, <2>1, <2>3 DEF Adds
  <2> QED
    BY <1>4, <1>8, <2>2, <2>3
<1>9. ASSUME NEW t \in Waits("csf")', e = Name(t, "fixed")
      PROVE  (e \in Expected /\ Place(e)' = Place(e) /\ e # FirstName(kind)) \/ Adds(kind, got, e)
  <2>1. e.t = t /\ e.part = "fixed" /\ Place(e)' = waiting'[t][2] /\ Place(e) = waiting[t][2]
    BY <1>9 DEF Place, Name
  <2>2. CASE t \in Waits("csf")
    <3>1. e \in Expected /\ t \in DOMAIN waiting
      BY <1>9, <2>2 DEF Expected, Waits
    <3> QED
      BY <1>3, <1>5, <2>1, <3>1
  <2>3. CASE t = at /\ kind = "csf"
    BY <1>3, <1>9, <2>1, <2>3 DEF Adds
  <2> QED
    BY <1>4, <1>9, <2>2, <2>3
<1>10. ASSUME NEW t \in Waits("csf")', e = Name(t, "exceptions")
       PROVE  (e \in Expected /\ Place(e)' = Place(e) /\ e # FirstName(kind)) \/ Adds(kind, got, e)
  <2>1. e.t = t /\ e.part = "exceptions" /\ Place(e)' = waiting'[t][3] /\ Place(e) = waiting[t][3]
    BY <1>10 DEF Place, Name
  <2>2. CASE t \in Waits("csf")
    <3>1. e \in Expected /\ t \in DOMAIN waiting
      BY <1>10, <2>2 DEF Expected, Waits
    <3> QED
      BY <1>3, <1>5, <2>1, <3>1
  <2>3. CASE t = at /\ kind = "csf"
    BY <1>3, <1>10, <2>1, <2>3 DEF Adds
  <2> QED
    BY <1>4, <1>10, <2>2, <2>3
<1> QED
  BY <1>2, <1>6, <1>7, <1>8, <1>9, <1>10 DEF Expected

\* A list of at most one that is not empty.
LEMMA OneAtMost ==
  ASSUME NEW S, NEW s \in Seq(S), Len(s) <= 1, s # <<>>
  PROVE  Len(s) = 1
<1>1. Len(s) \in Nat /\ Len(s) # 0
  OBVIOUS
<1> QED
  BY <1>1

\* Everything keeps its place, what is new is put where memory was free.
LEMMA OwnedStart ==
  ASSUME NEW own, Owned(own), NEW kind, NEW got, Started(kind, got)
  PROVE  \E o : Owned(o)'
<1> DEFINE second == Name(at, IF kind = "kvb" THEN "raw" ELSE "fixed")
           labels == [i \in 1..4 |-> CASE i = 1 -> FirstName(kind) [] i = 2 -> second
                                       [] i = 3 -> Name(at, "exceptions") [] i = 4 -> Name(at, "status")]
<1>1. /\ Takes(got) /\ got \in Seq(Span) /\ Apart(got)
      /\ Len(got) = (IF kind = "csf" THEN (IF temps.status = <<>> THEN 4 ELSE 3)
                     ELSE IF kind = "kvb" THEN 2 ELSE 1)
      /\ Len(got) \in 1..4
      /\ Ready(arena')
      /\ FreeAddresses(arena'.heap) = FreeAddresses(arena.heap) \ FreeAddresses(got)
      /\ FreeAddresses(arena'.pool) = FreeAddresses(arena.pool) \ FreeAddresses(got)
  BY DEF Started, Takes
<1>16. got \in Seq(Span) /\ Apart(got)
  BY <1>1
<1>17. DOMAIN got = 1..Len(got) /\ \A i \in 1..Len(got) : got[i] \in Span
  BY <1>16
<1>2. \A n \in DOMAIN named : n = Name(n.t, n.part) /\ n.part \in {"w", "k", "v"}
  BY DEF Owned
<1>3. \A a \in FreeIn(arena) : a \in Memory /\ own[a] = Unowned
  BY DEF Owned, FreeIn
<1>4. ASSUME NEW i \in 1..Len(got), NEW a \in Addresses(got[i])
      PROVE  a \in Memory /\ own[a] = Unowned
  BY <1>1, <1>3 DEF Takes
<1>5. \A a \in FreeAddresses(got) : a \in Memory /\ own[a] = Unowned
  BY <1>4, <1>17 DEF FreeAddresses
<1>18. PICK o : Labels(o, own, got, labels)
  <2> HIDE DEF labels
  <2> QED
    BY <1>16, Labelled
<1>6. /\ \A i \in 1..Len(got) : \A a \in Addresses(got[i]) : o[a] = labels[i]
      /\ \A a \in Int : a \notin FreeAddresses(got) => o[a] = own[a]
  BY <1>18 DEF Labels
<1>7. labels[1] = FirstName(kind) /\ labels[2] = second /\ labels[3] = Name(at, "exceptions") /\ labels[4] = Name(at, "status")
  OBVIOUS
<1> HIDE DEF labels
<1>8. ASSUME NEW a \in Memory, own[a].part # "free" PROVE o[a] = own[a] /\ a \notin FreeAddresses(got)
  <2>1. a \notin FreeAddresses(got)
    BY <1>5, <1>8 DEF Unowned, Name
  <2>2. a \in Int
    BY DEF Memory
  <2> QED
    BY <1>6, <2>1, <2>2
<1>9. ASSUME NEW a \in FreeAddresses(arena'.heap) \cup FreeAddresses(arena'.pool)
      PROVE  a \in Memory /\ o[a] = Unowned
  <2>1. a \in FreeIn(arena) /\ a \notin FreeAddresses(got)
    BY <1>1 DEF FreeIn
  <2>2. a \in Memory /\ a \in Int /\ own[a] = Unowned
    BY <1>3, <2>1 DEF Memory
  <2> QED
    BY <1>6, <2>1, <2>2
<1>10. ASSUME NEW n \in DOMAIN named' PROVE n = Name(n.t, n.part) /\ n.part \in {"w", "k", "v"}
  <2>1. named' = With(named, FirstName(kind), got[1])
    BY DEF Started, FirstName
  <2>2. n \in DOMAIN named \/ n = FirstName(kind)
    BY <2>1 DEF With
  <2>3. FirstName(kind) = Name(FirstName(kind).t, FirstName(kind).part) /\ FirstName(kind).part \in {"w", "k", "v"}
    BY DEF FirstName, Name
  <2> QED
    BY <1>2, <2>2, <2>3
<1>11. ASSUME NEW e \in Expected' PROVE Owns(o, Place(e)', e)
  <2>1. CASE e \in Expected /\ Place(e)' = Place(e)
    <3>1. Owns(own, Place(e), e)
      BY <2>1 DEF Owned
    <3>2. e.part # "free"
      BY <1>2, <2>1, ExpectedIs
    <3>3. \A a \in Addresses(Place(e)) : a \in Memory /\ o[a] = e
      BY <1>8, <3>1, <3>2 DEF Owns
    <3> QED
      BY <2>1, <3>1, <3>3 DEF Owns
  <2>2. ASSUME NEW i \in 1..Len(got), Place(e)' = got[i], labels[i] = e PROVE Owns(o, Place(e)', e)
    <3>1. got[i] \in Span
      BY <1>1
    <3> QED
      BY <1>4, <1>6, <2>2, <3>1 DEF Owns
  <2>3. CASE Adds(kind, got, e)
    <3>1. CASE e = FirstName(kind) /\ Place(e)' = got[1]
      BY <1>1, <1>7, <2>2, <3>1
    <3>2. CASE kind = "kvb" /\ e = Name(at, "raw") /\ Place(e)' = got[2]
      <4>1. 2 \in 1..Len(got) /\ labels[2] = e
        BY <1>1, <1>7, <3>2
      <4> QED
        BY <2>2, <3>2, <4>1
    <3>3. CASE kind = "csf" /\ e = Name(at, "fixed") /\ Place(e)' = got[2]
      <4>1. 2 \in 1..Len(got) /\ labels[2] = e
        BY <1>1, <1>7, <3>3
      <4> QED
        BY <2>2, <3>3, <4>1
    <3>4. CASE kind = "csf" /\ e = Name(at, "exceptions") /\ Place(e)' = got[3]
      <4>1. 3 \in 1..Len(got) /\ labels[3] = e
        BY <1>1, <1>7, <3>4
      <4> QED
        BY <2>2, <3>4, <4>1
    <3> QED
      BY <2>3, <3>1, <3>2, <3>3, <3>4 DEF Adds
  <2> QED
    BY <1>2, <2>1, <2>3, StartPlaces
<1> DEFINE p == temps.pending
           s == temps.status
<1>12. /\ p \in Seq(Span) /\ s \in Seq(Span) /\ Len(s) <= 1
       /\ \A i \in 1..Len(p) : \A a \in Addresses(p[i]) : a \in Memory /\ own[a].part \in {"fixed", "exceptions"}
       /\ \A i, j \in 1..Len(p) : i < j => Addresses(p[i]) \cap Addresses(p[j]) = {}
       /\ \A i \in 1..Len(s) : \A a \in Addresses(s[i]) : a \in Memory /\ own[a].part = "status"
  BY DEF Owned
<1>13. /\ \A i \in 1..Len(p) : \A a \in Addresses(p[i]) : a \in Memory /\ o[a].part \in {"fixed", "exceptions"}
       /\ \A i \in 1..Len(p) : \A j \in 1..Len(got) : Addresses(p[i]) \cap Addresses(got[j]) = {}
       /\ \A i \in 1..Len(s) : \A a \in Addresses(s[i]) : a \in Memory /\ o[a].part = "status"
  <2>1. \A i \in 1..Len(p) : \A a \in Addresses(p[i]) : a \in Memory /\ o[a] = own[a] /\ a \notin FreeAddresses(got)
    BY <1>8, <1>12
  <2>2. \A i \in 1..Len(s) : \A a \in Addresses(s[i]) : a \in Memory /\ o[a] = own[a]
    BY <1>8, <1>12
  <2>3. \A j \in 1..Len(got) : \A a \in Addresses(got[j]) : a \in FreeAddresses(got)
    BY <1>1, OfRange
  <2> QED
    BY <1>12, <2>1, <2>2, <2>3
<1> HIDE DEF p, s
<1> DEFINE P == temps'.pending
           T == temps'.status
<1>14. /\ P \in Seq(Span) /\ T \in Seq(Span) /\ Len(T) <= 1
       /\ \A i \in 1..Len(P) : \A a \in Addresses(P[i]) : a \in Memory /\ o[a].part \in {"fixed", "exceptions"}
       /\ \A i, j \in 1..Len(P) : i < j => Addresses(P[i]) \cap Addresses(P[j]) = {}
       /\ \A i \in 1..Len(T) : \A a \in Addresses(T[i]) : a \in Memory /\ o[a].part = "status"
  <2>1. CASE kind # "csf"
    <3>1. P = p /\ T = s
      BY <2>1 DEF Started, p, s
    <3> HIDE DEF P, T
    <3> QED
      BY <1>12, <1>13, <3>1
  <2>2. CASE kind = "csf"
    <3>1. P = p \o SubSeq(got, 2, 3) /\ T = s \o SubSeq(got, 4, Len(got))
      BY <2>2 DEF Started, p, s
    <3> HIDE DEF P, T
    <3>2. /\ Len(got) = (IF s = <<>> THEN 4 ELSE 3)
          /\ Len(got) \in {3, 4}
      BY <1>1, <2>2 DEF s
    <3>3. /\ P \in Seq(Span) /\ Len(P) = Len(p) + 2
          /\ \A i \in 1..Len(p) : P[i] = p[i]
          /\ P[Len(p) + 1] = got[2] /\ P[Len(p) + 2] = got[3]
      BY <1>1, <1>12, <3>1, <3>2, PlanesFacts
    <3>4. /\ T \in Seq(Span) /\ Len(T) = 1
          /\ T[1] = IF s = <<>> THEN got[4] ELSE s[1]
      <4>1. s # <<>> => Len(s) = 1
        BY <1>12, OneAtMost
      <4>2. (s = <<>> /\ Len(got) = 4) \/ (s # <<>> /\ Len(s) = 1 /\ Len(got) = 3)
        BY <3>2, <4>1
      <4> QED
        BY <1>1, <1>12, <3>1, <4>2, StatusFacts
    <3>5. 2 \in 1..Len(got) /\ 3 \in 1..Len(got)
      BY <3>2
    <3>6. /\ \A a \in Addresses(got[2]) : a \in Memory /\ o[a].part = "fixed"
          /\ \A a \in Addresses(got[3]) : a \in Memory /\ o[a].part = "exceptions"
      <4>1. labels[2].part = "fixed" /\ labels[3].part = "exceptions"
        BY <1>7, <2>2 DEF Name
      <4> QED
        BY <1>4, <1>6, <3>5, <4>1
    <3>7. Len(p) \in Nat
      BY <1>12
    <3>8. \A i \in 1..Len(P) : i \in 1..Len(p) \/ i = Len(p) + 1 \/ i = Len(p) + 2
      BY <3>3, <3>7
    <3>9. \A i \in 1..Len(P) : \A a \in Addresses(P[i]) : a \in Memory /\ o[a].part \in {"fixed", "exceptions"}
      BY <1>13, <3>3, <3>6, <3>8
    <3>10. ASSUME NEW i \in 1..Len(P), NEW j \in 1..Len(P), i < j
           PROVE  Addresses(P[i]) \cap Addresses(P[j]) = {}
      <4>1. CASE j \in 1..Len(p)
        <5>1. i \in 1..Len(p)
          BY <3>7, <3>10, <4>1
        <5> QED
          BY <1>12, <3>3, <3>10, <4>1, <5>1
      <4>2. CASE j = Len(p) + 1
        <5>1. i \in 1..Len(p)
          BY <3>7, <3>10, <4>2
        <5> QED
          BY <1>13, <3>3, <3>5, <4>2, <5>1
      <4>3. CASE j = Len(p) + 2
        <5>1. CASE i \in 1..Len(p)
          BY <1>13, <3>3, <3>5, <4>3, <5>1
        <5>2. CASE i = Len(p) + 1
          <6>1. Addresses(got[2]) \cap Addresses(got[3]) = {}
            <7>1. PICK m, n \in 1..Len(got) : m = 2 /\ n = 3 /\ m < n
              BY <3>5
            <7>2. Addresses(got[m]) \cap Addresses(got[n]) = {}
              BY <1>16, <7>1, TwoApart
            <7> QED
              BY <7>1, <7>2
          <6> QED
            BY <3>3, <4>3, <5>2, <6>1
        <5> QED
          BY <3>7, <3>8, <3>10, <4>3, <5>1, <5>2
      <4> QED
        BY <3>8, <4>1, <4>2, <4>3
    <3>11. \A i \in 1..Len(T) : \A a \in Addresses(T[i]) : a \in Memory /\ o[a].part = "status"
      <4>1. \A i \in 1..Len(T) : i = 1
        BY <3>4
      <4>2. CASE s = <<>>
        <5>1. 4 \in 1..Len(got) /\ T[1] = got[4] /\ labels[4].part = "status"
          BY <1>7, <3>2, <3>4, <4>2 DEF Name
        <5> QED
          BY <1>4, <1>6, <4>1, <5>1
      <4>3. CASE s # <<>>
        <5>1. 1 \in 1..Len(s) /\ T[1] = s[1]
          BY <1>12, <3>4, <4>3
        <5> QED
          BY <1>13, <4>1, <5>1
      <4> QED
        BY <4>2, <4>3
    <3> QED
      BY <3>3, <3>4, <3>9, <3>10, <3>11
  <2> QED
    BY <2>1, <2>2
<1> HIDE DEF P, T
<1>15. Owned(o)'
  BY <1>1, <1>9, <1>10, <1>11, <1>14 DEF Owned, P, T
<1> QED
  BY <1>15
-----------------------------------------------------------------------------
(* After the wait                                                        *)

\* What is expected when t no longer waits.
LEMMA RestPlaces ==
  ASSUME NEW t, waiting' = [u \in DOMAIN waiting \ {t} |-> waiting[u]], plan' = plan,
         \A n \in DOMAIN named' : n.part \in {"w", "k", "v"},
         NEW e \in Expected'
  PROVE  \/ e \in DOMAIN named' /\ Place(e)' = named'[e]
         \/ e \in Expected /\ Place(e)' = Place(e) /\ e.t # t /\ e.part \in {"raw", "fixed", "exceptions"}
<1>1. \A k : Waits(k)' = Waits(k) \ {t}
  <2>1. \A u : KindOf(u)' = KindOf(u)
    BY DEF KindOf
  <2> QED
    BY <2>1 DEF Waits
<1>2. \A u \in DOMAIN waiting \ {t} : waiting'[u] = waiting[u]
  OBVIOUS
<1>3. CASE e \in DOMAIN named'
  BY <1>3 DEF Place
<1>4. ASSUME NEW u \in Waits("kvb")', e = Name(u, "raw")
      PROVE  e \in Expected /\ Place(e)' = Place(e) /\ e.t # t /\ e.part \in {"raw", "fixed", "exceptions"}
  <2>1. u \in Waits("kvb") /\ u # t /\ u \in DOMAIN waiting \ {t}
    BY <1>1 DEF Waits
  <2>2. e.t = u /\ e.part = "raw" /\ Place(e) = waiting[u][2] /\ Place(e)' = waiting'[u][2]
    BY <1>4 DEF Place, Name
  <2>3. e \in Expected
    BY <1>4, <2>1 DEF Expected
  <2> QED
    BY <1>2, <2>1, <2>2, <2>3
<1>5. ASSUME NEW u \in Waits("csf")', e = Name(u, "fixed")
      PROVE  e \in Expected /\ Place(e)' = Place(e) /\ e.t # t /\ e.part \in {"raw", "fixed", "exceptions"}
  <2>1. u \in Waits("csf") /\ u # t /\ u \in DOMAIN waiting \ {t}
    BY <1>1 DEF Waits
  <2>2. e.t = u /\ e.part = "fixed" /\ Place(e) = waiting[u][2] /\ Place(e)' = waiting'[u][2]
    BY <1>5 DEF Place, Name
  <2>3. e \in Expected
    BY <1>5, <2>1 DEF Expected
  <2> QED
    BY <1>2, <2>1, <2>2, <2>3
<1>6. ASSUME NEW u \in Waits("csf")', e = Name(u, "exceptions")
      PROVE  e \in Expected /\ Place(e)' = Place(e) /\ e.t # t /\ e.part \in {"raw", "fixed", "exceptions"}
  <2>1. u \in Waits("csf") /\ u # t /\ u \in DOMAIN waiting \ {t}
    BY <1>1 DEF Waits
  <2>2. e.t = u /\ e.part = "exceptions" /\ Place(e) = waiting[u][3] /\ Place(e)' = waiting'[u][3]
    BY <1>6 DEF Place, Name
  <2>3. e \in Expected
    BY <1>6, <2>1 DEF Expected
  <2> QED
    BY <1>2, <2>1, <2>2, <2>3
<1> QED
  BY <1>3, <1>4, <1>5, <1>6 DEF Expected

\* kv_b_proj t goes on: it has taken temporary memory, for the transposed copy,
\* and a place v for v_proj, and returns the first and the raw copy.
Moved(t, temporary, v) ==
  /\ temporary \in Span /\ v \in Span
  /\ Addresses(temporary) \subseteq FreeIn(arena) /\ Addresses(v) \subseteq FreeAddresses(arena.heap)
  /\ Addresses(temporary) \cap Addresses(v) = {}
  /\ Ready(arena')
  /\ FreeAddresses(arena'.heap) = FreeAddresses(arena.heap) \ (Addresses(temporary) \cup Addresses(v))
  /\ FreeIn(arena') = (FreeIn(arena) \ Addresses(v)) \cup Addresses(waiting[t][2])
  /\ named' = With(named, Name(t, "v"), v)
  /\ LET transpose == [op |-> "transpose", t |-> t, src |-> waiting[t][2], dst |-> temporary]
         move == [op |-> "memcpy", t |-> t, src |-> temporary, dst |-> v]
     IN stream' = IF Replaying THEN Append(stream, transpose) ELSE Append(Append(stream, transpose), move)

\* What kv_b_proj asks for once it goes on.
LEMMA TwoWanted ==
  /\ <<Temporary(3), Stays(2)>> \in Seq(Wanted) /\ Len(<<Temporary(3), Stays(2)>>) = 2
  /\ <<Temporary(3), Stays(2)>>[2].stays
<1>1. Temporary(3) \in Wanted /\ Stays(2) \in Wanted /\ Stays(2).stays
  BY DEF Temporary, Stays, Wanted
<1> QED
  BY <1>1

\* A list of two ranges, and what one of them shortened to the first is with another.
LEMMA TwoRanges ==
  ASSUME NEW x \in Span, NEW y \in Span, Addresses(x) \cap Addresses(y) = {}
  PROVE  /\ <<x, y>> \in Seq(Span) /\ Apart(<<x, y>>)
         /\ FreeAddresses(<<x, y>>) = Addresses(x) \cup Addresses(y)
<1>1. <<x, y>> \in Seq(Span) /\ Len(<<x, y>>) = 2 /\ DOMAIN <<x, y>> = {1, 2} /\ <<x, y>>[1] = x /\ <<x, y>>[2] = y
  OBVIOUS
<1> DEFINE g == <<x, y>>
<1> HIDE DEF g
<1>2. FreeAddresses(g) = Addresses(x) \cup Addresses(y)
  BY <1>1 DEF FreeAddresses, g
<1>3. Apart(g)
  <2>1. ASSUME NEW i \in 1..Len(g), NEW j \in 1..Len(g), i < j PROVE Addresses(g[i]) \cap Addresses(g[j]) = {}
    <3>1. i = 1 /\ j = 2
      BY <1>1, <2>1 DEF g
    <3> QED
      BY <1>1, <3>1 DEF g
  <2> QED
    BY <2>1 DEF Apart
<1> QED
  BY <1>1, <1>2, <1>3 DEF g

\* Two lists of one, one after the other.
LEMMA OneAndOne ==
  ASSUME NEW S, NEW u \in Seq(S), NEW w \in Seq(S), Len(u) = 1, Len(w) = 1
  PROVE  u \o w \in Seq(S) /\ Len(u \o w) = 2 /\ (u \o w)[1] = u[1] /\ (u \o w)[2] = w[1]
<1>1. u \o w \in Seq(S)
  OBVIOUS
<1>2. Len(u \o w) = 2
  OBVIOUS
<1>3. \A i \in 1..Len(u) + Len(w) : (u \o w)[i] = IF i <= Len(u) THEN u[i] ELSE w[i - Len(u)]
  BY ConcatProperties
<1> QED
  BY <1>1, <1>2, <1>3

\* A list of one range and another.
LEMMA FirstAnd ==
  ASSUME NEW S, NEW g \in Seq(S), NEW y \in S, NEW n \in 1..Len(g)
  PROVE  SubSeq(g, n, n) \o <<y>> = <<g[n], y>>
<1> DEFINE w == SubSeq(g, n, n)
           h == w \o <<y>>
<1>1. n \in Int /\ g[n] \in S
  OBVIOUS
<1>2. w \in Seq(S) /\ Len(w) = 1 /\ w[1] = g[n]
  BY <1>1, SubSeqProperties
<1> HIDE DEF w
<1>3. h \in Seq(S) /\ Len(h) = 2 /\ h[1] = g[n] /\ h[2] = y
  <2>1. <<y>> \in Seq(S) /\ Len(<<y>>) = 1 /\ <<y>>[1] = y
    OBVIOUS
  <2> DEFINE z == <<y>>
  <2> HIDE DEF z
  <2>2. w \o z \in Seq(S) /\ Len(w \o z) = 2 /\ (w \o z)[1] = w[1] /\ (w \o z)[2] = z[1]
    BY <1>2, <2>1, OneAndOne DEF z
  <2> QED
    BY <1>2, <2>1, <2>2 DEF z
<1> HIDE DEF h
<1>4. h = <<g[n], y>>
  BY <1>1, <1>3
<1> QED
  BY <1>4 DEF h, w

\* What kv_b_proj takes and returns once it goes on.
LEMMA MovedFacts ==
  ASSUME NEW own, Owned(own), NEW t \in Waits("kvb"), Resume(t), ~failed'
  PROVE  \E temporary, v : Moved(t, temporary, v)
<1> DEFINE q == <<Temporary(3), Stays(2)>>
           taken == AllocatedAll(arena, q)
           got == taken.got
           raw == waiting[t][2]
<1>1. KindOf(t) = "kvb" /\ t \in DOMAIN waiting
  BY DEF Waits
<1>2. /\ taken.fits
      /\ arena' = Disposed(taken.state, SubSeq(got, 1, 1) \o <<raw>>)
      /\ named' = (IF taken.fits THEN With(named, Name(t, "v"), got[2]) ELSE named)
      /\ stream' = (IF got = <<>> THEN stream
                    ELSE IF Replaying \/ ~taken.fits
                         THEN Append(stream, [op |-> "transpose", t |-> t, src |-> raw, dst |-> got[1]])
                    ELSE Append(Append(stream, [op |-> "transpose", t |-> t, src |-> raw, dst |-> got[1]]),
                                [op |-> "memcpy", t |-> t, src |-> got[1], dst |-> got[2]]))
  BY <1>1 DEF Resume
<1>3. Ready(arena)
  BY DEF Owned
<1>4. Taken(arena, q, 2, taken) /\ q[2].stays
  <2> HIDE DEF q
  <2>1. q \in Seq(Wanted) /\ Len(q) = 2 /\ q[2].stays
    BY TwoWanted DEF q
  <2>2. Taken(arena, q, Len(q), AllocatedAll(arena, q))
    BY <1>3, <2>1, AllocatedAllFacts
  <2> QED
    BY <2>1, <2>2
<1> HIDE DEF taken, q
<1>5. /\ got \in Seq(Span) /\ Len(got) = 2
      /\ Ready(taken.state)
      /\ FreeAddresses(taken.state.heap) = FreeAddresses(arena.heap) \ FreeAddresses(got)
      /\ FreeAddresses(taken.state.pool) = FreeAddresses(arena.pool) \ FreeAddresses(got)
      /\ \A i \in 1..Len(got) : /\ Addresses(got[i]) \subseteq FreeIn(arena)
                                /\ q[i].stays => Addresses(got[i]) \subseteq FreeAddresses(arena.heap)
      /\ Apart(got)
  BY <1>2, <1>4 DEF Taken, Apart, FreeIn
<1> HIDE DEF got
<1> DEFINE x == got[1]
           v == got[2]
<1>6. 1 \in 1..Len(got) /\ 2 \in 1..Len(got) /\ DOMAIN got = {1, 2}
  BY <1>5
<1>7. x \in Span /\ v \in Span
  BY <1>5
<1>8. Addresses(x) \subseteq FreeIn(arena) /\ Addresses(v) \subseteq FreeAddresses(arena.heap)
  BY <1>4, <1>5, <1>6
<1>9. Addresses(x) \cap Addresses(v) = {}
  <2>1. PICK m, n \in 1..Len(got) : m = 1 /\ n = 2 /\ m < n
    BY <1>6
  <2>2. Addresses(got[m]) \cap Addresses(got[n]) = {}
    BY <1>5, <2>1, TwoApart
  <2> QED
    BY <2>1, <2>2
<1>10. FreeAddresses(got) = Addresses(x) \cup Addresses(v)
  BY <1>6 DEF FreeAddresses
<1>11. got # <<>>
  BY <1>5
<1>12. raw \in Span /\ \A a \in Addresses(raw) : a \in Memory /\ own[a] = Name(t, "raw")
  <2>1. Name(t, "raw") \in Expected
    BY DEF Expected
  <2>2. Place(Name(t, "raw")) = raw
    BY DEF Place, Name
  <2> QED
    BY <2>1, <2>2 DEF Owned, Owns
<1>13. \A a \in FreeIn(arena) : own[a] = Unowned
  BY DEF Owned, FreeIn
<1>14. Addresses(raw) \cap FreeIn(arena) = {}
  BY <1>12, <1>13 DEF Unowned, Name
<1>15. SubSeq(got, 1, 1) \o <<raw>> = <<x, raw>>
  <2>1. PICK n \in 1..Len(got) : n = 1
    BY <1>6
  <2>2. SubSeq(got, n, n) \o <<raw>> = <<got[n], raw>>
    BY <1>5, <1>12, FirstAnd
  <2> QED
    BY <2>1, <2>2
<1>16. Addresses(x) \cap Addresses(raw) = {}
  BY <1>8, <1>14
<1> HIDE DEF raw, x, v
<1>17. /\ <<x, raw>> \in Seq(Span) /\ Apart(<<x, raw>>)
       /\ FreeAddresses(<<x, raw>>) = Addresses(x) \cup Addresses(raw)
  BY <1>7, <1>12, <1>16, TwoRanges
<1> DEFINE g == <<x, raw>>
<1> HIDE DEF g
<1>18. /\ Ready(Disposed(taken.state, g))
       /\ FreeAddresses(Disposed(taken.state, g).heap) = FreeAddresses(taken.state.heap)
       /\ FreeAddresses(Disposed(taken.state, g).pool) = FreeAddresses(taken.state.pool) \cup FreeAddresses(g)
  <2>1. g \in Seq(Span) /\ (\A i, j \in 1..Len(g) : i < j => Addresses(g[i]) \cap Addresses(g[j]) = {})
    BY <1>17 DEF g, Apart
  <2>2. FreeAddresses(g) \cap FreeAddresses(taken.state.heap) = {} /\ FreeAddresses(g) \cap FreeAddresses(taken.state.pool) = {}
    BY <1>5, <1>10, <1>14, <1>17 DEF g, FreeIn
  <2> QED
    BY <1>5, <2>1, <2>2, DisposedFacts
<1>19. arena' = Disposed(taken.state, g)
  BY <1>2, <1>15 DEF g, raw
<1>20. /\ Ready(arena')
       /\ FreeAddresses(arena'.heap) = FreeAddresses(arena.heap) \ (Addresses(x) \cup Addresses(v))
       /\ FreeIn(arena') = (FreeIn(arena) \ Addresses(v)) \cup Addresses(raw)
  <2>1. FreeAddresses(arena'.pool) = (FreeAddresses(arena.pool) \ (Addresses(x) \cup Addresses(v))) \cup Addresses(x) \cup Addresses(raw)
    BY <1>5, <1>10, <1>17, <1>18, <1>19 DEF g
  <2>2. FreeAddresses(arena'.heap) = FreeAddresses(arena.heap) \ (Addresses(x) \cup Addresses(v))
    BY <1>5, <1>10, <1>18, <1>19
  <2>3. Ready(arena')
    BY <1>18, <1>19
  <2>4. FreeIn(arena') = (FreeIn(arena) \ Addresses(v)) \cup Addresses(raw)
    BY <1>8, <1>9, <1>14, <2>1, <2>2 DEF FreeIn
  <2> QED
    BY <2>2, <2>3, <2>4
<1>21. /\ named' = With(named, Name(t, "v"), v)
       /\ stream' = IF Replaying THEN Append(stream, [op |-> "transpose", t |-> t, src |-> raw, dst |-> x])
                    ELSE Append(Append(stream, [op |-> "transpose", t |-> t, src |-> raw, dst |-> x]),
                                [op |-> "memcpy", t |-> t, src |-> x, dst |-> v])
  BY <1>2, <1>11 DEF x, v
<1>22. Moved(t, x, v)
  BY <1>7, <1>8, <1>9, <1>20, <1>21 DEF Moved, raw
<1> QED
  BY <1>22

\* t no longer waits.
Rests(t) == waiting' = [u \in DOMAIN waiting \ {t} |-> waiting[u]] /\ UNCHANGED <<plan, temps>>

\* v_proj has a place of its own, its raw copy has none.
LEMMA OwnedMoved ==
  ASSUME NEW own, Owned(own), NEW t \in Waits("kvb"), NEW x, NEW v, Moved(t, x, v), Rests(t)
  PROVE  \E o : Owned(o)'
<1> DEFINE vn == Name(t, "v")
           raw == waiting[t][2]
<1>1. vn.t = t /\ vn.part = "v" /\ vn = Name(vn.t, vn.part)
  BY DEF Name
<1>2. /\ v \in Span /\ Addresses(v) \subseteq FreeAddresses(arena.heap)
      /\ Ready(arena')
      /\ FreeIn(arena') = (FreeIn(arena) \ Addresses(v)) \cup Addresses(raw)
      /\ named' = With(named, vn, v)
  BY DEF Moved
<1>3. \A a \in FreeIn(arena) : a \in Memory /\ own[a] = Unowned
  BY DEF Owned, FreeIn
<1>4. \A a \in Addresses(v) : a \in Memory /\ own[a] = Unowned
  BY <1>2, <1>3 DEF FreeIn
<1>5. \A a \in Addresses(raw) : a \in Memory /\ own[a] = Name(t, "raw")
  <2>1. Name(t, "raw") \in Expected /\ Place(Name(t, "raw")) = raw
    BY DEF Expected, Place, Name
  <2> QED
    BY <2>1 DEF Owned, Owns
<1>6. \A n \in DOMAIN named : n = Name(n.t, n.part) /\ n.part \in {"w", "k", "v"}
  BY DEF Owned
<1>7. DOMAIN named' = {vn} \cup DOMAIN named /\ named'[vn] = v /\ \A z \in DOMAIN named : z # vn => named'[z] = named[z]
  BY <1>2 DEF With
<1> HIDE DEF raw, vn
<1>18. PICK o : o = [a \in Memory |-> IF a \in Addresses(v) THEN vn ELSE IF a \in Addresses(raw) THEN Unowned ELSE own[a]]
  OBVIOUS
<1>8. \A a \in Memory : o[a] = IF a \in Addresses(v) THEN vn ELSE IF a \in Addresses(raw) THEN Unowned ELSE own[a]
  BY <1>18
<1>9. ASSUME NEW a \in Memory, own[a].part \notin {"free", "raw"} PROVE o[a] = own[a]
  <2>1. Unowned.part = "free" /\ Name(t, "raw").part = "raw"
    BY DEF Unowned, Name
  <2> QED
    BY <1>4, <1>5, <1>8, <1>9, <2>1
<1>10. ASSUME NEW a \in Memory, own[a].t # t, own[a].part # "free" PROVE o[a] = own[a]
  <2>1. Unowned.part = "free" /\ Name(t, "raw").t = t
    BY DEF Unowned, Name
  <2> QED
    BY <1>4, <1>5, <1>8, <1>10, <2>1
<1>11. ASSUME NEW a \in FreeAddresses(arena'.heap) \cup FreeAddresses(arena'.pool)
       PROVE  a \in Memory /\ o[a] = Unowned
  <2>1. a \in (FreeIn(arena) \ Addresses(v)) \cup Addresses(raw)
    BY <1>2 DEF FreeIn
  <2>2. CASE a \in Addresses(raw)
    <3>1. a \in Memory /\ a \notin Addresses(v)
      <4>1. Name(t, "raw") # Unowned
        BY DEF Name, Unowned
      <4> QED
        BY <1>4, <1>5, <2>2, <4>1
    <3> QED
      BY <1>8, <2>2, <3>1
  <2>3. CASE a \in FreeIn(arena) \ Addresses(v) /\ a \notin Addresses(raw)
    BY <1>3, <1>8, <2>3
  <2> QED
    BY <2>1, <2>2, <2>3
<1>12. \A n \in DOMAIN named' : n = Name(n.t, n.part) /\ n.part \in {"w", "k", "v"}
  BY <1>1, <1>6, <1>7
<1>13. ASSUME NEW e \in Expected' PROVE Owns(o, Place(e)', e)
  <2>1. CASE e = vn /\ Place(e)' = named'[e]
    BY <1>2, <1>4, <1>7, <1>8, <2>1 DEF Owns
  <2>2. CASE e \in DOMAIN named /\ e # vn /\ Place(e)' = named'[e]
    <3>1. Place(e)' = named[e] /\ e.part \in {"w", "k", "v"}
      BY <1>6, <1>7, <2>2
    <3>2. e \in Expected /\ Place(e) = named[e]
      BY <2>2, <3>1 DEF Expected, Place
    <3>3. Owns(own, named[e], e)
      BY <3>2 DEF Owned
    <3>4. \A a \in Addresses(named[e]) : a \in Memory /\ o[a] = e
      BY <1>9, <3>1, <3>3 DEF Owns
    <3> QED
      BY <3>1, <3>3, <3>4 DEF Owns
  <2>3. CASE e \in Expected /\ Place(e)' = Place(e) /\ e.t # t /\ e.part \in {"raw", "fixed", "exceptions"}
    <3>1. Owns(own, Place(e), e)
      BY <2>3 DEF Owned
    <3>2. \A a \in Addresses(Place(e)) : a \in Memory /\ o[a] = e
      BY <1>10, <2>3, <3>1 DEF Owns
    <3> QED
      BY <2>3, <3>1, <3>2 DEF Owns
  <2>4. \/ e \in DOMAIN named' /\ Place(e)' = named'[e]
        \/ e \in Expected /\ Place(e)' = Place(e) /\ e.t # t /\ e.part \in {"raw", "fixed", "exceptions"}
    BY <1>12, RestPlaces DEF Rests
  <2> QED
    BY <1>7, <2>1, <2>2, <2>3, <2>4
<1>14. /\ temps'.pending \in Seq(Span) /\ temps'.status \in Seq(Span) /\ Len(temps'.status) <= 1
       /\ \A i, j \in 1..Len(temps'.pending) :
            i < j => Addresses(temps'.pending[i]) \cap Addresses(temps'.pending[j]) = {}
  BY DEF Owned, Rests
<1>15. \A i \in 1..Len(temps'.pending) :
         \A a \in Addresses(temps'.pending[i]) : a \in Memory /\ o[a].part \in {"fixed", "exceptions"}
  <2>1. \A i \in 1..Len(temps.pending) :
          \A a \in Addresses(temps.pending[i]) : a \in Memory /\ own[a].part \in {"fixed", "exceptions"}
    BY DEF Owned
  <2>2. \A i \in 1..Len(temps.pending) :
          \A a \in Addresses(temps.pending[i]) : a \in Memory /\ o[a].part \in {"fixed", "exceptions"}
    BY <1>9, <2>1
  <2> QED
    BY <2>2 DEF Rests
<1>16. \A i \in 1..Len(temps'.status) :
         \A a \in Addresses(temps'.status[i]) : a \in Memory /\ o[a].part = "status"
  <2>1. \A i \in 1..Len(temps.status) :
          \A a \in Addresses(temps.status[i]) : a \in Memory /\ own[a].part = "status"
    BY DEF Owned
  <2>2. \A i \in 1..Len(temps.status) :
          \A a \in Addresses(temps.status[i]) : a \in Memory /\ o[a].part = "status"
    BY <1>9, <2>1
  <2> QED
    BY <2>2 DEF Rests
<1>17. Owned(o)'
  BY <1>2, <1>11, <1>12, <1>13, <1>14, <1>15, <1>16 DEF Owned
<1> QED
  BY <1>17

\* Another tensor no longer waits.
LEMMA OwnedRest ==
  ASSUME NEW own, Owned(own), NEW t,
         waiting' = [u \in DOMAIN waiting \ {t} |-> waiting[u]], UNCHANGED <<plan, temps, arena, named>>
  PROVE  Owned(own)'
<1>1. \A n \in DOMAIN named' : n = Name(n.t, n.part) /\ n.part \in {"w", "k", "v"}
  BY DEF Owned
<1>2. ASSUME NEW e \in Expected' PROVE Owns(own, Place(e)', e)
  <2>1. CASE e \in DOMAIN named /\ Place(e)' = named[e]
    <3>1. e \in Expected /\ Place(e) = named[e]
      BY <1>1, <2>1 DEF Expected, Place
    <3> QED
      BY <2>1, <3>1 DEF Owned
  <2>2. CASE e \in Expected /\ Place(e)' = Place(e)
    BY <2>2 DEF Owned
  <2>3. \/ e \in DOMAIN named' /\ Place(e)' = named'[e]
        \/ e \in Expected /\ Place(e)' = Place(e) /\ e.t # t /\ e.part \in {"raw", "fixed", "exceptions"}
    BY <1>1, RestPlaces
  <2> QED
    BY <2>1, <2>2, <2>3
<1> QED
  BY <1>1, <1>2 DEF Owned

\* Ownership after a tensor has waited.
LEMMA OwnedResume ==
  ASSUME NEW own, Owned(own), NEW t \in DOMAIN waiting, Resume(t), ~failed'
  PROVE  \E o : Owned(o)'
<1>1. Rests(t)
  BY DEF Resume, Rests
<1>2. CASE KindOf(t) = "kvb"
  <2>1. t \in Waits("kvb")
    BY <1>2 DEF Waits
  <2>2. PICK x, v : Moved(t, x, v)
    BY <2>1, MovedFacts
  <2> QED
    BY <1>1, <2>1, <2>2, OwnedMoved
<1>3. CASE KindOf(t) # "kvb"
  <2>1. UNCHANGED <<arena, named>>
    BY <1>3 DEF Resume
  <2>2. Owned(own)'
    BY <1>1, <2>1, OwnedRest DEF Rests
  <2> QED
    BY <2>2
<1> QED
  BY <1>2, <1>3

\* Planes, and the status, are disposed of when no tensor waits.
LEMMA OwnedDisposed ==
  ASSUME NEW own, Owned(own), DOMAIN waiting = {}, NEW g \in Seq(Span), Apart(g),
         \A i \in 1..Len(g) : \A a \in Addresses(g[i]) : a \in Memory /\ own[a].part \in {"fixed", "exceptions", "status"},
         arena' = Disposed(arena, g), UNCHANGED <<plan, waiting, named>>,
         temps'.pending = <<>>, temps'.status \in Seq(Span), Len(temps'.status) <= 1,
         \A i \in 1..Len(temps'.status) : \A a \in Addresses(temps'.status[i]) :
           a \in Memory /\ own[a].part = "status" /\ a \notin FreeAddresses(g)
  PROVE  \E o : Owned(o)'
<1> DEFINE o == [a \in Memory |-> IF a \in FreeAddresses(g) THEN Unowned ELSE own[a]]
<1>1. \A a \in Memory : o[a] = IF a \in FreeAddresses(g) THEN Unowned ELSE own[a]
  OBVIOUS
<1> HIDE DEF o
<1>2. DOMAIN g = 1..Len(g)
  OBVIOUS
<1>3. \A a \in FreeAddresses(g) : a \in Memory /\ own[a].part \in {"fixed", "exceptions", "status"}
  BY <1>2 DEF FreeAddresses
<1>4. \A a \in FreeIn(arena) : a \in Memory /\ own[a] = Unowned
  BY DEF Owned, FreeIn
<1>5. FreeAddresses(g) \cap FreeIn(arena) = {}
  BY <1>3, <1>4 DEF Unowned, Name
<1>6. Ready(arena)
  BY DEF Owned
<1>7. /\ Ready(arena') /\ FreeAddresses(arena'.heap) = FreeAddresses(arena.heap)
      /\ FreeAddresses(arena'.pool) = FreeAddresses(arena.pool) \cup FreeAddresses(g)
  <2>1. FreeAddresses(g) \cap FreeAddresses(arena.heap) = {} /\ FreeAddresses(g) \cap FreeAddresses(arena.pool) = {}
    BY <1>5 DEF FreeIn
  <2>2. \A i, j \in 1..Len(g) : i < j => Addresses(g[i]) \cap Addresses(g[j]) = {}
    BY DEF Apart
  <2>3. /\ Ready(Disposed(arena, g))
        /\ FreeAddresses(Disposed(arena, g).heap) = FreeAddresses(arena.heap)
        /\ FreeAddresses(Disposed(arena, g).pool) = FreeAddresses(arena.pool) \cup FreeAddresses(g)
    BY <1>6, <2>1, <2>2, DisposedFacts
  <2> QED
    BY <2>3
<1>8. \A a \in FreeAddresses(arena'.heap) \cup FreeAddresses(arena'.pool) : a \in Memory /\ o[a] = Unowned
  BY <1>1, <1>3, <1>4, <1>7 DEF FreeIn
<1>9. \A n \in DOMAIN named' : n = Name(n.t, n.part) /\ n.part \in {"w", "k", "v"}
  BY DEF Owned
<1>10. ASSUME NEW e \in Expected' PROVE Owns(o, Place(e)', e)
  <2>1. e \in DOMAIN named /\ e \in Expected
    BY DEF Expected, Waits
  <2>2. e.part \in {"w", "k", "v"} /\ Place(e) = named[e] /\ Place(e)' = named[e]
    BY <1>9, <2>1 DEF Place
  <2>3. Owns(own, named[e], e)
    BY <2>1, <2>2 DEF Owned
  <2>4. \A a \in Addresses(named[e]) : a \in Memory /\ o[a] = e
    BY <1>1, <1>3, <2>2, <2>3 DEF Owns
  <2> QED
    BY <2>2, <2>3, <2>4 DEF Owns
<1>11. /\ temps'.pending \in Seq(Span) /\ Len(temps'.pending) = 0
  OBVIOUS
<1>12. \A i \in 1..Len(temps'.status) : \A a \in Addresses(temps'.status[i]) : a \in Memory /\ o[a].part = "status"
  BY <1>1
<1>13. 1..Len(temps'.pending) = {}
  BY <1>11
<1>14. Owned(o)'
  BY <1>7, <1>8, <1>9, <1>10, <1>11, <1>12, <1>13 DEF Owned
<1> QED
  BY <1>14

\* The planes of a batch come free.
LEMMA OwnedEndBatch ==
  ASSUME NEW own, Owned(own), EndBatch, ~failed'
  PROVE  \E o : Owned(o)'
<1> DEFINE g == temps.pending
<1>1. /\ DOMAIN waiting = {} /\ arena' = Disposed(arena, g) /\ UNCHANGED <<plan, waiting, named>>
      /\ temps' = [temps EXCEPT !.pending = <<>>]
  BY DEF EndBatch, BatchSettled
<1>2. /\ g \in Seq(Span) /\ Apart(g)
      /\ \A i \in 1..Len(g) : \A a \in Addresses(g[i]) : a \in Memory /\ own[a].part \in {"fixed", "exceptions"}
      /\ temps.status \in Seq(Span) /\ Len(temps.status) <= 1
      /\ \A i \in 1..Len(temps.status) : \A a \in Addresses(temps.status[i]) : a \in Memory /\ own[a].part = "status"
  BY DEF Owned, Apart
<1>3. \A a \in FreeAddresses(g) : own[a].part \in {"fixed", "exceptions"}
  <2>1. DOMAIN g = 1..Len(g)
    BY <1>2
  <2> QED
    BY <1>2, <2>1 DEF FreeAddresses
<1>4. temps'.pending = <<>> /\ temps'.status = temps.status
  BY <1>1
<1> HIDE DEF g
<1>5. \A i \in 1..Len(g) : \A a \in Addresses(g[i]) : a \in Memory /\ own[a].part \in {"fixed", "exceptions", "status"}
  BY <1>2
<1>6. \A i \in 1..Len(temps'.status) : \A a \in Addresses(temps'.status[i]) :
        a \in Memory /\ own[a].part = "status" /\ a \notin FreeAddresses(g)
  BY <1>2, <1>3, <1>4
<1> QED
  BY <1>1, <1>2, <1>4, <1>5, <1>6, OwnedDisposed

\* The planes and the status are apart.
LEMMA PlanesAndStatus ==
  ASSUME NEW own, Owned(own)
  PROVE  LET g == temps.pending \o temps.status
         IN /\ g \in Seq(Span) /\ Apart(g)
            /\ \A i \in 1..Len(g) : \A a \in Addresses(g[i]) :
                 a \in Memory /\ own[a].part \in {"fixed", "exceptions", "status"}
<1> DEFINE p == temps.pending
           s == temps.status
           g == p \o s
<1>1. /\ p \in Seq(Span) /\ s \in Seq(Span) /\ Len(s) <= 1 /\ Apart(p)
      /\ \A i \in 1..Len(p) : \A a \in Addresses(p[i]) : a \in Memory /\ own[a].part \in {"fixed", "exceptions"}
      /\ \A i \in 1..Len(s) : \A a \in Addresses(s[i]) : a \in Memory /\ own[a].part = "status"
  BY DEF Owned, Apart
<1> HIDE DEF p, s
<1>2. p \in Seq(Span) /\ s \in Seq(Span) /\ Len(p) \in Nat /\ Len(s) \in Nat /\ Len(s) <= 1
  BY <1>1
<1>3. g \in Seq(Span) /\ Len(g) = Len(p) + Len(s)
      /\ \A i \in 1..Len(p) + Len(s) : g[i] = IF i <= Len(p) THEN p[i] ELSE s[i - Len(p)]
  BY <1>2, ConcatProperties
<1> HIDE DEF g
<1>4. ASSUME NEW i \in 1..Len(g)
      PROVE  \/ i \in 1..Len(p) /\ g[i] = p[i]
             \/ i = Len(p) + 1 /\ 1 \in 1..Len(s) /\ g[i] = s[1]
  <2>1. CASE i <= Len(p)
    BY <1>2, <1>3, <2>1
  <2>2. CASE ~(i <= Len(p))
    <3>1. i - Len(p) = 1 /\ 1 <= Len(s)
      BY <1>2, <1>3, <2>2
    <3>2. g[i] = s[i - Len(p)]
      BY <1>2, <1>3, <2>2
    <3> QED
      BY <1>2, <3>1, <3>2
  <2> QED
    BY <2>1, <2>2
<1>5. ASSUME NEW i \in 1..Len(g), NEW a \in Addresses(g[i])
      PROVE  a \in Memory /\ own[a].part \in {"fixed", "exceptions", "status"}
  BY <1>1, <1>4
<1>6. ASSUME NEW i \in 1..Len(g), NEW j \in 1..Len(g), i < j PROVE Addresses(g[i]) \cap Addresses(g[j]) = {}
  <2>1. CASE j \in 1..Len(p) /\ g[j] = p[j]
    <3>1. i \in 1..Len(p) /\ g[i] = p[i]
      BY <1>2, <1>4, <1>6, <2>1
    <3> QED
      BY <1>1, <1>6, <2>1, <3>1 DEF Apart
  <2>2. CASE j = Len(p) + 1 /\ 1 \in 1..Len(s) /\ g[j] = s[1]
    <3>1. i \in 1..Len(p) /\ g[i] = p[i]
      BY <1>2, <1>4, <1>6, <2>2
    <3> QED
      BY <1>1, <2>2, <3>1
  <2> QED
    BY <1>4, <2>1, <2>2
<1>7. Apart(g)
  BY <1>6 DEF Apart
<1> QED
  BY <1>3, <1>5, <1>7 DEF g, p, s

\* Planes and status come free.
LEMMA OwnedDrain ==
  ASSUME Shape, NEW own, Owned(own), Drain
  PROVE  \E o : Owned(o)'
<1> DEFINE g == temps.pending \o temps.status
<1>1. /\ DOMAIN waiting = {} /\ arena' = Disposed(arena, g) /\ UNCHANGED <<plan, waiting, named>>
      /\ temps' = NoTemps
  BY DEF Drain, Shape
<1>2. /\ g \in Seq(Span) /\ Apart(g)
      /\ \A i \in 1..Len(g) : \A a \in Addresses(g[i]) :
           a \in Memory /\ own[a].part \in {"fixed", "exceptions", "status"}
  BY PlanesAndStatus
<1> HIDE DEF g
<1>3. temps'.pending = <<>> /\ temps'.status = <<>>
  BY <1>1 DEF NoTemps
<1>4. temps'.status \in Seq(Span) /\ Len(temps'.status) = 0 /\ 1..Len(temps'.status) = {}
  BY <1>3
<1> QED
  BY <1>1, <1>2, <1>3, <1>4, OwnedDisposed

\* An arena nothing has been taken of.
LEMMA FreshFacts ==
  Ready(FreshArena) /\ FreeAddresses(FreshArena.heap) = Memory /\ FreeAddresses(FreshArena.pool) = {}
<1>1. Region(0, Arena) \in Span /\ Addresses(Region(0, Arena)) = Memory
  BY WeightLoadAssumption DEF Span, Region, Addresses, End, Memory
<1>2. FreshArena.heap = <<Region(0, Arena)>> /\ FreshArena.pool = <<>>
  BY DEF FreshArena
<1>3. FreeList(FreshArena.heap) /\ FreeAddresses(FreshArena.heap) = Memory
  BY <1>1, <1>2, OneFree
<1>4. FreeList(FreshArena.pool) /\ FreeAddresses(FreshArena.pool) = {}
  BY <1>2, NoneFree
<1> QED
  BY <1>3, <1>4 DEF Ready

\* Nothing is left to be returned.
LEMMA NoTempsFacts ==
  /\ NoTemps.pending \in Seq(Span) /\ NoTemps.status \in Seq(Span)
  /\ Len(NoTemps.pending) = 0 /\ Len(NoTemps.status) = 0
  /\ 1..Len(NoTemps.pending) = {} /\ 1..Len(NoTemps.status) = {}
<1>1. NoTemps.pending = <<>> /\ NoTemps.status = <<>>
  BY DEF NoTemps
<1> QED
  BY <1>1

\* All of a fresh arena is free.
LEMMA OwnedInit ==
  ASSUME arena = FreshArena, DOMAIN named = {}, DOMAIN waiting = {}, temps = NoTemps
  PROVE  Owned([a \in Memory |-> Unowned])
<1> DEFINE o == [a \in Memory |-> Unowned]
<1>1. \A a \in Memory : o[a] = Unowned
  OBVIOUS
<1> HIDE DEF o
<1>2. Expected = {}
  BY DEF Expected, Waits
<1>3. Ready(arena) /\ \A a \in FreeAddresses(arena.heap) \cup FreeAddresses(arena.pool) : a \in Memory /\ o[a] = Unowned
  BY <1>1, FreshFacts
<1>4. Owned(o)
  BY <1>2, <1>3, NoTempsFacts DEF Owned
<1> QED
  BY <1>4 DEF o

\* The executor starts with a fresh arena.
LEMMA OwnedStartExecutor ==
  ASSUME Shape, StartExecutor
  PROVE  \E o : Owned(o)'
<1>1. PICK o : o = [a \in Memory |-> Unowned]
  OBVIOUS
<1>2. /\ arena' = FreshArena /\ DOMAIN named' = {} /\ DOMAIN waiting' = {} /\ temps' = NoTemps
  <2>1. named' = <<>> /\ DOMAIN <<>> = {}
    BY DEF StartExecutor
  <2> QED
    BY <2>1 DEF StartExecutor, Shape
<1>3. \A a \in Memory : o[a] = Unowned
  BY <1>1
<1>4. Expected' = {}
  BY <1>2 DEF Expected, Waits
<1>5. /\ Ready(arena')
      /\ \A a \in FreeAddresses(arena'.heap) \cup FreeAddresses(arena'.pool) : a \in Memory /\ o[a] = Unowned
  BY <1>2, <1>3, FreshFacts
<1>6. Owned(o)'
  BY <1>2, <1>4, <1>5, NoTempsFacts DEF Owned
<1> QED
  BY <1>6

\* The other steps leave memory to whom it belongs.
LEMMA OwnedSame ==
  ASSUME NEW own, Owned(own), UNCHANGED <<plan, waiting, arena, named, temps>>
  PROVE  Owned(own)'
<1>1. \A k : Waits(k)' = Waits(k)
  BY DEF Waits, KindOf
<1>2. Expected' = Expected
  BY <1>1 DEF Expected
<1>3. \A e : Place(e)' = Place(e)
  BY DEF Place
<1> QED
  BY <1>2, <1>3 DEF Owned

\* Every address keeps one purpose.
LEMMA OwnedNext ==
  ASSUME Shape, NEW own, Owned(own), [LoadNext]_loadVars, ~failed'
  PROVE  \E o : Owned(o)'
<1>1. CASE UNCHANGED <<plan, waiting, arena, named, temps>>
  <2>1. Owned(own)'
    BY <1>1, OwnedSame
  <2> QED
    BY <2>1
<1>2. CASE StartTensor
  <2>1. Ready(arena)
    BY DEF Owned
  <2>2. PICK kind, got : Started(kind, got)
    BY <1>2, <2>1, StartFacts
  <2> QED
    BY <2>2, OwnedStart
<1>3. ASSUME NEW copy \in copies, Enqueue(copy) PROVE \E o : Owned(o)'
  <2>1. UNCHANGED <<plan, waiting, arena, named, temps>>
    BY <1>3 DEF Enqueue
  <2> QED
    BY <1>1, <2>1
<1>4. ASSUME NEW t \in DOMAIN waiting, Resume(t) PROVE \E o : Owned(o)'
  BY <1>4, OwnedResume
<1>5. CASE DeviceStep
  BY <1>1, <1>5 DEF DeviceStep
<1>6. CASE EndBatch
  BY <1>6, OwnedEndBatch
<1>7. CASE Drain
  BY <1>7, OwnedDrain
<1>8. CASE StartExecutor
  BY <1>8, OwnedStartExecutor
<1>9. CASE Judge
  BY <1>1, <1>9 DEF Judge
<1>10. CASE UNCHANGED loadVars
  BY <1>1, <1>10 DEF loadVars
<1> QED
  BY <1>2, <1>3, <1>4, <1>5, <1>6, <1>7, <1>8, <1>9, <1>10 DEF LoadNext
-----------------------------------------------------------------------------
(* What is in memory                                                     *)

Named(n) == n = Name(n.t, n.part) /\ n.part \in {"w", "k", "v"}

\* Two purposes have no address in common, and none that is free.
LEMMA PlacesApart ==
  ASSUME NEW own, Owned(own), NEW e \in Expected
  PROVE  /\ Addresses(Place(e)) \subseteq Memory
         /\ \A d \in Expected : d # e => Addresses(Place(e)) \cap Addresses(Place(d)) = {}
         /\ Addresses(Place(e)) \cap FreeIn(arena) = {}
<1>1. \A d \in Expected : \A a \in Addresses(Place(d)) : a \in Memory /\ own[a] = d
  BY DEF Owned, Owns
<1>2. e.part # "free"
  <2>1. \A n \in DOMAIN named : n = Name(n.t, n.part) /\ n.part \in {"w", "k", "v"}
    BY DEF Owned
  <2> QED
    BY <2>1, ExpectedIs
<1>3. \A a \in FreeIn(arena) : own[a] = Unowned
  BY DEF Owned, FreeIn
<1>4. e # Unowned
  BY <1>2 DEF Unowned, Name
<1> QED
  BY <1>1, <1>3, <1>4

\* What is in its place stays there when something else is written.
LEMMA StillThere ==
  ASSUME NEW own, Owned(own), NEW e \in Expected, NEW f, DOMAIN f = Memory, Holding(f, Place(e), e),
         NEW op, NEW open, Addresses(op.dst) \cap Addresses(Place(e)) = {}
  PROVE  Holding(After(f, op, open), Place(e), e)
<1>1. Addresses(Place(e)) \subseteq Memory
  BY PlacesApart
<1> QED
  BY <1>1, NotWritten

\* What was expected before stays expected, and where it was.
LEMMA StartKeeps ==
  ASSUME \A n \in DOMAIN named : Named(n),
         NEW kind, NEW got, Started(kind, got), NEW e \in Expected, e # FirstName(kind)
  PROVE  e \in Expected' /\ Place(e)' = Place(e)
<1> DEFINE n0 == FirstName(kind)
<1>1. /\ kind = KindOf(at) /\ at \notin DOMAIN waiting
      /\ named' = With(named, n0, got[1]) /\ waiting' = With(waiting, at, got) /\ plan' = plan
  BY DEF Started, FirstName
<1>2. /\ DOMAIN named \subseteq DOMAIN named'
      /\ \A z \in DOMAIN named : z # n0 => named'[z] = named[z]
  BY <1>1 DEF With
<1>3. /\ DOMAIN waiting \subseteq DOMAIN waiting'
      /\ \A z \in DOMAIN waiting : waiting'[z] = waiting[z]
  BY <1>1 DEF With
<1> HIDE DEF n0
<1>4. \A k : Waits(k) \subseteq Waits(k)' /\ Waits(k) \subseteq DOMAIN waiting
  <2>1. \A t : KindOf(t)' = KindOf(t)
    BY <1>1 DEF KindOf
  <2> QED
    BY <1>3, <2>1 DEF Waits
<1>5. \/ e \in DOMAIN named /\ e.part \in {"w", "k", "v"} /\ Place(e) = named[e]
      \/ e.t \in Waits("kvb") /\ e.part = "raw" /\ Place(e) = waiting[e.t][2] /\ e = Name(e.t, "raw")
      \/ e.t \in Waits("csf") /\ e.part = "fixed" /\ Place(e) = waiting[e.t][2] /\ e = Name(e.t, "fixed")
      \/ e.t \in Waits("csf") /\ e.part = "exceptions" /\ Place(e) = waiting[e.t][3] /\ e = Name(e.t, "exceptions")
  BY ExpectedIs DEF Named
<1>6. CASE e \in DOMAIN named /\ e.part \in {"w", "k", "v"} /\ Place(e) = named[e]
  <2>1. e \in Expected'
    BY <1>2, <1>6 DEF Expected
  <2>2. Place(e)' = named'[e]
    BY <1>6 DEF Place
  <2> QED
    BY <1>2, <1>6, <2>1, <2>2 DEF n0
<1>7. CASE e.t \in Waits("kvb") /\ e.part = "raw" /\ Place(e) = waiting[e.t][2] /\ e = Name(e.t, "raw")
  <2>1. e \in Expected'
    BY <1>4, <1>7 DEF Expected
  <2>2. Place(e)' = waiting'[e.t][2]
    BY <1>7 DEF Place
  <2> QED
    BY <1>3, <1>4, <1>7, <2>1, <2>2
<1>8. CASE e.t \in Waits("csf") /\ e.part = "fixed" /\ Place(e) = waiting[e.t][2] /\ e = Name(e.t, "fixed")
  <2>1. e \in Expected'
    BY <1>4, <1>8 DEF Expected
  <2>2. Place(e)' = waiting'[e.t][2]
    BY <1>8 DEF Place
  <2> QED
    BY <1>3, <1>4, <1>8, <2>1, <2>2
<1>9. CASE e.t \in Waits("csf") /\ e.part = "exceptions" /\ Place(e) = waiting[e.t][3] /\ e = Name(e.t, "exceptions")
  <2>1. e \in Expected'
    BY <1>4, <1>9 DEF Expected
  <2>2. Place(e)' = waiting'[e.t][3]
    BY <1>9 DEF Place
  <2> QED
    BY <1>3, <1>4, <1>9, <2>1, <2>2
<1> QED
  BY <1>5, <1>6, <1>7, <1>8, <1>9

\* The same of a tensor that leaves those that wait.
LEMMA RestKeeps ==
  ASSUME \A n \in DOMAIN named : Named(n), NEW t, Rests(t),
         NEW e \in Expected, e.t # t \/ e \in DOMAIN named,
         e \in DOMAIN named => e \in DOMAIN named' /\ named'[e] = named[e]
  PROVE  e \in Expected' /\ Place(e)' = Place(e)
<1>1. waiting' = [u \in DOMAIN waiting \ {t} |-> waiting[u]] /\ plan' = plan
  BY DEF Rests
<1>2. \A u \in DOMAIN waiting : u # t => waiting'[u] = waiting[u]
  BY <1>1
<1>3. \A k : Waits(k)' = Waits(k) \ {t} /\ Waits(k) \subseteq DOMAIN waiting
  <2>1. \A u : KindOf(u)' = KindOf(u)
    BY <1>1 DEF KindOf
  <2> QED
    BY <1>1, <2>1 DEF Waits
<1>4. \/ e \in DOMAIN named /\ e.part \in {"w", "k", "v"} /\ Place(e) = named[e]
      \/ /\ e.t # t
         /\ \/ e.t \in Waits("kvb") /\ e.part = "raw" /\ Place(e) = waiting[e.t][2] /\ e = Name(e.t, "raw")
            \/ e.t \in Waits("csf") /\ e.part = "fixed" /\ Place(e) = waiting[e.t][2] /\ e = Name(e.t, "fixed")
            \/ e.t \in Waits("csf") /\ e.part = "exceptions" /\ Place(e) = waiting[e.t][3] /\ e = Name(e.t, "exceptions")
  BY ExpectedIs DEF Named
<1>5. CASE e \in DOMAIN named /\ e.part \in {"w", "k", "v"} /\ Place(e) = named[e]
  BY <1>5 DEF Expected, Place
<1>6. CASE e.t # t /\ e.t \in Waits("kvb") /\ e.part = "raw" /\ Place(e) = waiting[e.t][2] /\ e = Name(e.t, "raw")
  <2>1. e \in Expected'
    BY <1>3, <1>6 DEF Expected
  <2>2. Place(e)' = waiting'[e.t][2]
    BY <1>6 DEF Place
  <2> QED
    BY <1>2, <1>3, <1>6, <2>1, <2>2
<1>7. CASE e.t # t /\ e.t \in Waits("csf") /\ e.part = "fixed" /\ Place(e) = waiting[e.t][2] /\ e = Name(e.t, "fixed")
  <2>1. e \in Expected'
    BY <1>3, <1>7 DEF Expected
  <2>2. Place(e)' = waiting'[e.t][2]
    BY <1>7 DEF Place
  <2> QED
    BY <1>2, <1>3, <1>7, <2>1, <2>2
<1>8. CASE e.t # t /\ e.t \in Waits("csf") /\ e.part = "exceptions" /\ Place(e) = waiting[e.t][3] /\ e = Name(e.t, "exceptions")
  <2>1. e \in Expected'
    BY <1>3, <1>8 DEF Expected
  <2>2. Place(e)' = waiting'[e.t][3]
    BY <1>8 DEF Place
  <2> QED
    BY <1>2, <1>3, <1>8, <2>1, <2>2
<1> QED
  BY <1>4, <1>5, <1>6, <1>7, <1>8

\* Nothing that is expected changes in the other steps.
LEMMA PlacesSame ==
  ASSUME UNCHANGED <<plan, waiting, named>>
  PROVE  /\ \A k : Waits(k)' = Waits(k)
         /\ Expected' = Expected
         /\ \A e : Place(e)' = Place(e)
<1>1. \A k : Waits(k)' = Waits(k)
  BY DEF Waits, KindOf
<1>2. Expected' = Expected
  BY <1>1 DEF Expected
<1>3. \A e : Place(e)' = Place(e)
  BY DEF Place
<1> QED
  BY <1>1, <1>2, <1>3

\* The weight of a started tensor is there, or its copy or its planes will be
\* asked for.
LEMMA DeliveredStart ==
  ASSUME Shape, NEW own, Owned(own), NEW f, DOMAIN f = Memory, Delivered(f), ~Replaying,
         NEW kind, NEW got, Started(kind, got),
         NEW g, IF kind = "staged" THEN g = After(f, Copy(at, "w", got[1]), TRUE) ELSE g = f
  PROVE  Delivered(g)'
<1>1. /\ kind \in Kind \ {"bad"} /\ kind = KindOf(at) /\ at \notin DOMAIN waiting
      /\ named' = With(named, FirstName(kind), got[1]) /\ waiting' = With(waiting, at, got)
      /\ copies' = copies \cup CopiesOf(at, kind, got) /\ UNCHANGED <<plan, process>>
      /\ Takes(got) /\ Addresses(got[1]) \subseteq FreeAddresses(arena.heap)
  BY DEF Started, FirstName
<1>2. \A n \in DOMAIN named : Named(n)
  BY DEF Owned, Named
<1>3. /\ FirstName(kind) \in DOMAIN named' /\ named'[FirstName(kind)] = got[1]
      /\ \A z \in DOMAIN named : z # FirstName(kind) => z \in DOMAIN named' /\ named'[z] = named[z]
      /\ at \in DOMAIN waiting' /\ waiting'[at] = got
      /\ \A t \in DOMAIN waiting : t # at /\ t \in DOMAIN waiting' /\ waiting'[t] = waiting[t]
      /\ DOMAIN waiting' = {at} \cup DOMAIN waiting
  BY <1>1 DEF With
<1>4. \A k : Waits(k)' = Waits(k) \cup (IF k = kind THEN {at} ELSE {}) /\ Waits(k) \subseteq DOMAIN waiting
  <2>1. \A t : KindOf(t)' = KindOf(t)
    BY <1>1 DEF KindOf
  <2> QED
    BY <1>1, <1>3, <2>1 DEF Waits
<1>5. Addresses(got[1]) \subseteq Memory /\ \A e \in Expected : Addresses(got[1]) \cap Addresses(Place(e)) = {}
  <2>1. Addresses(got[1]) \subseteq FreeIn(arena)
    BY <1>1 DEF FreeIn
  <2>2. FreeIn(arena) \subseteq Memory
    BY DEF Owned, FreeIn
  <2> QED
    BY <2>1, <2>2, PlacesApart
<1>6. FirstName(kind).t = at /\ FirstName(kind).part = (IF kind = "kvb" THEN "k" ELSE "w")
  BY DEF FirstName, Name
<1>7. ASSUME NEW e \in Expected, e # FirstName(kind) PROVE There(g, e)'
  <2>1. e \in Expected' /\ Place(e)' = Place(e)
    BY <1>2, <1>7, StartKeeps
  <2>2. CASE Holding(f, Place(e), e)
    <3>1. Holding(g, Place(e), e)
      <4>1. CASE kind = "staged"
        <5>1. Copy(at, "w", got[1]).dst = got[1]
          BY DEF Copy
        <5>2. Addresses(Copy(at, "w", got[1]).dst) \cap Addresses(Place(e)) = {}
          BY <1>5, <5>1
        <5> QED
          BY <2>2, <4>1, <5>2, StillThere
      <4>2. CASE kind # "staged"
        BY <2>2, <4>2
      <4> QED
        BY <4>1, <4>2
    <3> QED
      BY <2>1, <3>1 DEF There
  <2>3. CASE Copy(e.t, e.part, Place(e)) \in copies
    BY <1>1, <2>1, <2>3 DEF There
  <2>4. CASE e.part = "w" /\ e.t \in Waits("csf")
    BY <1>4, <2>4 DEF There
  <2> QED
    BY <2>2, <2>3, <2>4 DEF Delivered, There
<1>8. ASSUME NEW e, Adds(kind, got, e) PROVE There(g, e)'
  <2>1. CASE e = FirstName(kind) /\ Place(e)' = got[1]
    <3>1. e.t = at /\ e.part = (IF kind = "kvb" THEN "k" ELSE "w")
      BY <1>6, <2>1
    <3>2. CASE kind = "mapped"
      <4>1. Copy(at, "w", got[1]) \in CopiesOf(at, kind, got)
        BY <3>2 DEF CopiesOf
      <4> QED
        BY <1>1, <2>1, <3>1, <3>2, <4>1 DEF There
    <3>3. CASE kind = "kvb"
      <4>1. Copy(at, "k", got[1]) \in CopiesOf(at, kind, got)
        BY <3>3 DEF CopiesOf
      <4> QED
        BY <1>1, <2>1, <3>1, <3>3, <4>1 DEF There
    <3>4. CASE kind = "csf"
      BY <1>4, <3>1, <3>4 DEF There
    <3>5. CASE kind = "staged"
      <4>1. Copy(at, "w", got[1]).dst = got[1] /\ Effect(f, Copy(at, "w", got[1]), TRUE) = Name(at, "w")
        BY DEF Copy, Effect
      <4>2. Addresses(Copy(at, "w", got[1]).dst) \subseteq Memory
        BY <1>5, <4>1
      <4>3. Holding(g, got[1], Name(at, "w"))
        BY <3>5, <4>1, <4>2, WrittenThere
      <4>4. e = Name(at, "w")
        BY <2>1, <3>5 DEF FirstName
      <4> QED
        BY <2>1, <4>3, <4>4 DEF There
    <3> QED
      BY <1>1, <3>2, <3>3, <3>4, <3>5 DEF Kind
  <2>2. CASE kind = "kvb" /\ e = Name(at, "raw") /\ Place(e)' = got[2]
    <3>1. e.t = at /\ e.part = "raw" /\ Copy(at, "raw", got[2]) \in CopiesOf(at, kind, got)
      BY <2>2 DEF Name, CopiesOf
    <3> QED
      BY <1>1, <2>2, <3>1 DEF There
  <2>3. CASE kind = "csf" /\ e = Name(at, "fixed") /\ Place(e)' = got[2]
    <3>1. e.t = at /\ e.part = "fixed" /\ Copy(at, "fixed", got[2]) \in CopiesOf(at, kind, got)
      BY <2>3 DEF Name, CopiesOf
    <3> QED
      BY <1>1, <2>3, <3>1 DEF There
  <2>4. CASE kind = "csf" /\ e = Name(at, "exceptions") /\ Place(e)' = got[3]
    <3>1. e.t = at /\ e.part = "exceptions" /\ Copy(at, "exceptions", got[3]) \in CopiesOf(at, kind, got)
      BY <2>4 DEF Name, CopiesOf
    <3> QED
      BY <1>1, <2>4, <3>1 DEF There
  <2> QED
    BY <1>8, <2>1, <2>2, <2>3, <2>4 DEF Adds
<1>9. ASSUME NEW e \in Expected' PROVE There(g, e)'
  BY <1>2, <1>7, <1>8, StartPlaces DEF Named
<1>10. ASSUME NEW copy \in copies PROVE AskedFor(copy)'
  <2>1. AskedFor(copy)
    BY DEF Delivered
  <2>2. copy.name.t # at
    BY <1>1 DEF Shape
  <2>3. copy.name \in Expected' /\ Place(copy.name)' = Place(copy.name)
    BY <1>2, <1>6, <2>1, <2>2, StartKeeps DEF AskedFor
  <2> QED
    BY <2>1, <2>3 DEF AskedFor
<1>14. PICK u : u = at
  OBVIOUS
<1>15. \A part : /\ Name(u, part).t = u /\ Name(u, part).part = part
                 /\ Place(Name(u, part))' = (IF part \in {"raw", "fixed"} THEN waiting'[u][2]
                                             ELSE IF part = "exceptions" THEN waiting'[u][3] ELSE named'[Name(u, part)])
  BY DEF Name, Place
<1>11. ASSUME NEW copy \in CopiesOf(at, kind, got) PROVE AskedFor(copy)'
  <2>1. ASSUME NEW part, NEW range, copy = Copy(u, part, range),
               Name(u, part) \in Expected', Place(Name(u, part))' = range
        PROVE  AskedFor(copy)'
    <3>1. copy.name = Name(u, part) /\ Name(u, part).t = u /\ Name(u, part).part = part
      BY <2>1 DEF Copy, Name
    <3> QED
      BY <2>1, <3>1 DEF AskedFor
  <2>2. CASE kind = "mapped"
    <3>1. copy = Copy(u, "w", got[1]) /\ FirstName(kind) = Name(u, "w")
      BY <1>14, <2>2 DEF CopiesOf, FirstName
    <3>2. Name(u, "w") \in Expected' /\ Place(Name(u, "w"))' = got[1]
      BY <1>3, <1>15, <3>1 DEF Expected
    <3> QED
      BY <2>1, <3>1, <3>2
  <2>3. CASE kind = "kvb"
    <3>1. copy = Copy(u, "k", got[1]) \/ copy = Copy(u, "raw", got[2])
      BY <1>14, <2>3 DEF CopiesOf
    <3>2. FirstName(kind) = Name(u, "k")
      BY <1>14, <2>3 DEF FirstName
    <3>3. Name(u, "k") \in Expected' /\ Place(Name(u, "k"))' = got[1]
      BY <1>3, <1>15, <3>2 DEF Expected
    <3>4. Name(u, "raw") \in Expected' /\ Place(Name(u, "raw"))' = got[2]
      BY <1>3, <1>4, <1>14, <1>15, <2>3 DEF Expected
    <3> QED
      BY <2>1, <3>1, <3>3, <3>4
  <2>4. CASE kind = "csf"
    <3>1. copy = Copy(u, "fixed", got[2]) \/ copy = Copy(u, "exceptions", got[3])
      BY <1>14, <2>4 DEF CopiesOf
    <3>2. Name(u, "fixed") \in Expected' /\ Place(Name(u, "fixed"))' = got[2]
      BY <1>3, <1>4, <1>14, <1>15, <2>4 DEF Expected
    <3>3. Name(u, "exceptions") \in Expected' /\ Place(Name(u, "exceptions"))' = got[3]
      BY <1>3, <1>4, <1>14, <1>15, <2>4 DEF Expected
    <3> QED
      BY <2>1, <3>1, <3>2, <3>3
  <2> QED
    BY <1>11, <2>2, <2>3, <2>4 DEF CopiesOf
<1>12. ASSUME NEW t \in Waits("csf")' PROVE ToDecode(t)'
  <2>1. CASE t = at /\ kind = "csf"
    <3>1. Name(t, "w") = FirstName(kind)
      BY <2>1 DEF FirstName
    <3> QED
      BY <1>3, <2>1, <3>1 DEF ToDecode
  <2>2. CASE t \in Waits("csf")
    <3>1. t # at /\ t \in DOMAIN waiting
      BY <1>3, <1>4, <2>2
    <3>2. Name(t, "w") # FirstName(kind)
      BY <1>6, <3>1 DEF Name
    <3>3. ToDecode(t)
      BY <2>2 DEF Delivered
    <3> QED
      BY <1>3, <3>1, <3>2, <3>3 DEF ToDecode
  <2> QED
    BY <1>4, <1>12, <2>1, <2>2
<1>13. \A copy \in copies' : AskedFor(copy)'
  BY <1>1, <1>10, <1>11
<1> QED
  BY <1>9, <1>12, <1>13 DEF Delivered

\* A worker's copy puts its part where it is expected.
LEMMA DeliveredEnqueue ==
  ASSUME NEW own, Owned(own), NEW f, DOMAIN f = Memory, Delivered(f),
         NEW copy \in copies, Enqueue(copy)
  PROVE  Delivered(After(f, copy, TRUE))'
<1> DEFINE c == copy.name
<1>1. copies' = copies \ {copy} /\ UNCHANGED <<plan, waiting, named>>
  BY DEF Enqueue
<1>2. /\ \A k : Waits(k)' = Waits(k)
      /\ Expected' = Expected
      /\ \A e : Place(e)' = Place(e)
  BY <1>1, PlacesSame
<1>3. c \in Expected /\ copy = Copy(c.t, c.part, Place(c))
  BY DEF Delivered, AskedFor
<1>4. copy.dst = Place(c) /\ Effect(f, copy, TRUE) = c
  BY <1>3 DEF Copy, Effect
<1>5. Holding(After(f, copy, TRUE), Place(c), c)
  <2>1. Addresses(copy.dst) \subseteq Memory
    BY <1>3, <1>4, PlacesApart
  <2> QED
    BY <1>4, <2>1, WrittenThere
<1> HIDE DEF c
<1>6. PICK g : g = After(f, copy, TRUE)
  OBVIOUS
<1>7. \A n \in DOMAIN named : n = Name(n.t, n.part) /\ n.part \in {"w", "k", "v"}
  BY DEF Owned
<1>8. ASSUME NEW e \in Expected PROVE There(g, e)'
  <2>1. CASE e = c
    BY <1>2, <1>5, <1>6, <2>1 DEF There
  <2>2. CASE e # c /\ Holding(f, Place(e), e)
    <3>1. Addresses(copy.dst) \cap Addresses(Place(e)) = {}
      BY <1>3, <1>4, <2>2, PlacesApart
    <3> QED
      BY <1>2, <1>6, <2>2, <3>1, StillThere DEF There
  <2>3. CASE e # c /\ Copy(e.t, e.part, Place(e)) \in copies
    <3>1. Copy(e.t, e.part, Place(e)).name = e
      BY <1>7, ExpectedIs DEF Copy
    <3>2. Copy(e.t, e.part, Place(e)) # copy
      BY <2>3, <3>1 DEF c
    <3> QED
      BY <1>1, <1>2, <2>3, <3>2 DEF There
  <2>4. CASE e.part = "w" /\ e.t \in Waits("csf")
    BY <1>2, <2>4 DEF There
  <2> QED
    BY <2>1, <2>2, <2>3, <2>4 DEF Delivered, There
<1>9. \A d \in copies' : AskedFor(d)'
  BY <1>1, <1>2 DEF Delivered, AskedFor
<1>10. \A t \in Waits("csf")' : ToDecode(t)'
  BY <1>1, <1>2 DEF Delivered, ToDecode
<1>11. Delivered(g)'
  BY <1>2, <1>8, <1>9, <1>10 DEF Delivered
<1> QED
  BY <1>6, <1>11

\* What is there stays there when t goes on.
LEMMA ThereResume ==
  ASSUME NEW own, Owned(own), NEW f, Delivered(f), NEW t, Rests(t), copies' = copies,
         NEW e \in Expected, e.t # t \/ e \in DOMAIN named,
         e \in DOMAIN named => e \in DOMAIN named' /\ named'[e] = named[e],
         NEW g, Holding(f, Place(e), e) => Holding(g, Place(e), e),
         ~(e.part = "w" /\ e.t = t /\ t \in Waits("csf"))
  PROVE  There(g, e)'
<1>1. \A n \in DOMAIN named : Named(n)
  BY DEF Owned, Named
<1>2. Place(e)' = Place(e)
  BY <1>1, RestKeeps
<1>3. Waits("csf")' = Waits("csf") \ {t}
  <2>1. \A u : KindOf(u)' = KindOf(u)
    BY DEF Rests, KindOf
  <2> QED
    BY <2>1 DEF Waits, Rests
<1> QED
  BY <1>2, <1>3 DEF Delivered, There

\* The copies and the planes of the others.
LEMMA RestDelivered ==
  ASSUME NEW own, Owned(own), NEW f, Delivered(f), NEW t, Rests(t), copies' = copies,
         \A copy \in copies : copy.name.t # t,
         \A n \in DOMAIN named : n.t # t \/ n.part # "v" => n \in DOMAIN named' /\ named'[n] = named[n]
  PROVE  (\A copy \in copies' : AskedFor(copy)') /\ (\A u \in Waits("csf")' : ToDecode(u)')
<1>1. \A n \in DOMAIN named : Named(n)
  BY DEF Owned, Named
<1>2. waiting' = [u \in DOMAIN waiting \ {t} |-> waiting[u]] /\ plan' = plan
  BY DEF Rests
<1>3. Waits("csf")' = Waits("csf") \ {t} /\ Waits("csf") \subseteq DOMAIN waiting
  <2>1. \A u : KindOf(u)' = KindOf(u)
    BY <1>2 DEF KindOf
  <2> QED
    BY <1>2, <2>1 DEF Waits
<1>4. ASSUME NEW copy \in copies PROVE AskedFor(copy)'
  <2>1. AskedFor(copy) /\ copy.name.t # t
    BY DEF Delivered
  <2>2. copy.name \in Expected' /\ Place(copy.name)' = Place(copy.name)
    BY <1>1, <2>1, RestKeeps DEF AskedFor
  <2> QED
    BY <2>1, <2>2 DEF AskedFor
<1>5. ASSUME NEW u \in Waits("csf")' PROVE ToDecode(u)'
  <2>1. u \in Waits("csf") /\ u # t /\ u \in DOMAIN waiting
    BY <1>3
  <2>2. ToDecode(u)
    BY <2>1 DEF Delivered
  <2>3. Name(u, "w").t = u /\ Name(u, "w").part = "w"
    BY DEF Name
  <2>4. waiting'[u] = waiting[u]
    BY <1>2, <2>1
  <2> QED
    BY <2>1, <2>2, <2>3, <2>4 DEF ToDecode
<1> QED
  BY <1>4, <1>5

\* kv_b_proj: the raw copy is transposed into temporary memory and moved from
\* there to v_proj.
LEMMA DeliveredMoved ==
  ASSUME NEW own, Owned(own), NEW f, DOMAIN f = Memory, Delivered(f),
         NEW t \in Waits("kvb"), NEW x, NEW v, Moved(t, x, v), Rests(t), copies' = copies,
         \A copy \in copies : copy.name.t # t
  PROVE  LET transpose == [op |-> "transpose", t |-> t, src |-> waiting[t][2], dst |-> x]
             move == [op |-> "memcpy", t |-> t, src |-> x, dst |-> v]
         IN \E g : g = After(After(f, transpose, TRUE), move, TRUE) /\ Delivered(g)'
<1> DEFINE transpose == [op |-> "transpose", t |-> t, src |-> waiting[t][2], dst |-> x]
           move == [op |-> "memcpy", t |-> t, src |-> x, dst |-> v]
<1>1. PICK raw, vn, f1, g : /\ raw = Name(t, "raw") /\ vn = Name(t, "v")
                            /\ f1 = After(f, transpose, TRUE) /\ g = After(f1, move, TRUE)
  OBVIOUS
<1>2. /\ raw.t = t /\ raw.part = "raw" /\ vn.t = t /\ vn.part = "v" /\ raw \in Expected
      /\ Place(raw) = waiting[t][2]
  BY <1>1 DEF Name, Expected, Place
<1>3. /\ transpose.op = "transpose" /\ transpose.t = t /\ transpose.src = waiting[t][2] /\ transpose.dst = x
      /\ move.op = "memcpy" /\ move.t = t /\ move.src = x /\ move.dst = v
  OBVIOUS
<1> HIDE DEF transpose, move
<1>4. /\ Addresses(x) \subseteq FreeIn(arena) /\ Addresses(v) \subseteq FreeIn(arena)
      /\ named' = With(named, vn, v)
  BY <1>1 DEF Moved, FreeIn
<1>5. FreeIn(arena) \subseteq Memory
  BY DEF Owned, FreeIn
<1>6. \A n \in DOMAIN named : Named(n) /\ n = Name(n.t, n.part)
  BY DEF Owned, Named
<1>7. /\ vn \in DOMAIN named' /\ named'[vn] = v
      /\ \A n \in DOMAIN named : n # vn => n \in DOMAIN named' /\ named'[n] = named[n]
      /\ DOMAIN named' = {vn} \cup DOMAIN named
  BY <1>4 DEF With
<1>8. DOMAIN f1 = Memory /\ DOMAIN g = Memory
  BY <1>1, AfterFacts
<1>9. Holding(f, waiting[t][2], raw)
  <2>1. There(f, raw)
    BY <1>2 DEF Delivered
  <2>2. Copy(t, "raw", Place(raw)) \notin copies
    <3>1. Copy(t, "raw", Place(raw)).name.t = t
      BY DEF Copy, Name
    <3> QED
      BY <3>1
  <2> QED
    BY <1>2, <2>1, <2>2 DEF There
<1>10. Holding(f1, x, vn)
  <2>1. Effect(f, transpose, TRUE) = vn
    BY <1>1, <1>3, <1>9 DEF Effect
  <2>2. Addresses(transpose.dst) \subseteq Memory
    BY <1>3, <1>4, <1>5
  <2>3. Holding(f1, transpose.dst, Effect(f, transpose, TRUE))
    BY <1>1, <2>2, WrittenThere
  <2> QED
    BY <1>3, <2>1, <2>3
<1>11. Holding(g, v, vn)
  <2>1. Effect(f1, move, TRUE) = vn
    BY <1>1, <1>3, <1>10 DEF Effect
  <2>2. Addresses(move.dst) \subseteq Memory
    BY <1>3, <1>4, <1>5
  <2>3. Holding(g, move.dst, Effect(f1, move, TRUE))
    BY <1>1, <1>8, <2>2, WrittenThere
  <2> QED
    BY <1>3, <2>1, <2>3
<1>12. ASSUME NEW e \in Expected, Holding(f, Place(e), e) PROVE Holding(g, Place(e), e)
  <2>1. Addresses(x) \cap Addresses(Place(e)) = {} /\ Addresses(v) \cap Addresses(Place(e)) = {}
    BY <1>4, PlacesApart
  <2>2. Holding(f1, Place(e), e)
    BY <1>1, <1>3, <1>12, <2>1, StillThere
  <2> QED
    BY <1>1, <1>3, <1>8, <2>1, <2>2, StillThere
<1>13. t \notin Waits("csf")
  BY DEF Waits
<1>14. ASSUME NEW e \in Expected' PROVE There(g, e)'
  <2>1. CASE e = vn
    <3>1. Place(e)' = v
      BY <1>2, <1>7, <2>1 DEF Place
    <3> QED
      BY <1>11, <2>1, <3>1 DEF There
  <2>2. CASE e # vn /\ e \in DOMAIN named
    <3>1. e \in Expected
      BY <2>2 DEF Expected
    <3> QED
      BY <1>7, <1>12, <1>13, <2>2, <3>1, ThereResume
  <2>3. CASE e \in Expected /\ e.t # t /\ e \notin DOMAIN named
    BY <1>12, <1>13, <2>3, ThereResume
  <2>4. \A n \in DOMAIN named' : n.part \in {"w", "k", "v"}
    BY <1>2, <1>6, <1>7 DEF Named
  <2>5. e \in DOMAIN named' \/ (e \in Expected /\ e.t # t)
    BY <2>4, RestPlaces DEF Rests
  <2> QED
    BY <1>7, <2>1, <2>2, <2>3, <2>5
<1>15. (\A copy \in copies' : AskedFor(copy)') /\ (\A u \in Waits("csf")' : ToDecode(u)')
  <2>1. \A n \in DOMAIN named : n.t # t \/ n.part # "v" => n \in DOMAIN named' /\ named'[n] = named[n]
    BY <1>2, <1>7
  <2> QED
    BY <2>1, RestDelivered
<1>16. Delivered(g)'
  BY <1>14, <1>15 DEF Delivered
<1> QED
  BY <1>1, <1>16 DEF transpose, move

\* csf: the planes are there, and decoded to the weight.
LEMMA DeliveredDecoded ==
  ASSUME NEW own, Owned(own), NEW f, DOMAIN f = Memory, Delivered(f),
         NEW t \in Waits("csf"), Rests(t), UNCHANGED <<copies, named>>,
         \A copy \in copies : copy.name.t # t
  PROVE  LET decode == [op |-> "decode", t |-> t, fixed |-> waiting[t][2],
                        exceptions |-> waiting[t][3], dst |-> waiting[t][1]]
         IN \E g : g = After(f, decode, TRUE) /\ Delivered(g)'
<1> DEFINE decode == [op |-> "decode", t |-> t, fixed |-> waiting[t][2],
                      exceptions |-> waiting[t][3], dst |-> waiting[t][1]]
<1>1. PICK w, fixed, exceptions, g :
        /\ w = Name(t, "w") /\ fixed = Name(t, "fixed") /\ exceptions = Name(t, "exceptions")
        /\ g = After(f, decode, TRUE)
  OBVIOUS
<1>2. /\ w.t = t /\ w.part = "w" /\ fixed \in Expected /\ exceptions \in Expected
      /\ fixed.t = t /\ fixed.part = "fixed" /\ exceptions.t = t /\ exceptions.part = "exceptions"
      /\ Place(fixed) = waiting[t][2] /\ Place(exceptions) = waiting[t][3]
  BY <1>1 DEF Name, Expected, Place
<1>3. /\ decode.op = "decode" /\ decode.t = t /\ decode.fixed = waiting[t][2]
      /\ decode.exceptions = waiting[t][3] /\ decode.dst = waiting[t][1]
  OBVIOUS
<1> HIDE DEF decode
<1>4. w \in DOMAIN named /\ w \in Expected /\ Place(w) = waiting[t][1] /\ named[w] = waiting[t][1]
  BY <1>1, <1>2 DEF Delivered, ToDecode, Expected, Place
<1>5. \A n \in DOMAIN named : Named(n) /\ n = Name(n.t, n.part) /\ n.part \in {"w", "k", "v"}
  BY DEF Owned, Named
<1>6. Holding(f, waiting[t][2], fixed) /\ Holding(f, waiting[t][3], exceptions)
  <2>1. There(f, fixed) /\ There(f, exceptions)
    BY <1>2 DEF Delivered
  <2>2. Copy(t, "fixed", Place(fixed)) \notin copies /\ Copy(t, "exceptions", Place(exceptions)) \notin copies
    <3>1. Copy(t, "fixed", Place(fixed)).name.t = t /\ Copy(t, "exceptions", Place(exceptions)).name.t = t
      BY DEF Copy, Name
    <3> QED
      BY <3>1
  <2> QED
    BY <1>2, <2>1, <2>2 DEF There
<1>7. Holding(g, waiting[t][1], w)
  <2>1. Effect(f, decode, TRUE) = w
    BY <1>1, <1>3, <1>6 DEF Effect
  <2>2. Addresses(decode.dst) \subseteq Memory
    BY <1>3, <1>4, PlacesApart
  <2>3. Holding(g, decode.dst, Effect(f, decode, TRUE))
    BY <1>1, <2>2, WrittenThere
  <2> QED
    BY <1>3, <2>1, <2>3
<1>8. ASSUME NEW e \in Expected, e # w, Holding(f, Place(e), e) PROVE Holding(g, Place(e), e)
  <2>1. Addresses(decode.dst) \cap Addresses(Place(e)) = {}
    BY <1>3, <1>4, <1>8, PlacesApart
  <2> QED
    BY <1>1, <1>8, <2>1, StillThere
<1>9. ASSUME NEW e \in Expected' PROVE There(g, e)'
  <2>1. CASE e = w
    <3>1. Place(e)' = waiting[t][1]
      BY <1>2, <1>4, <2>1 DEF Place
    <3> QED
      BY <1>7, <2>1, <3>1 DEF There
  <2>2. CASE e # w /\ e \in DOMAIN named
    <3>1. e \in Expected
      BY <2>2 DEF Expected
    <3>2. ~(e.part = "w" /\ e.t = t)
      BY <1>1, <1>5, <2>2
    <3> QED
      BY <1>8, <2>2, <3>1, <3>2, ThereResume
  <2>3. CASE e \in Expected /\ e.t # t /\ e \notin DOMAIN named
    BY <1>2, <1>8, <2>3, ThereResume
  <2>4. \A n \in DOMAIN named' : n.part \in {"w", "k", "v"}
    BY <1>5
  <2>5. e \in DOMAIN named' \/ (e \in Expected /\ e.t # t)
    BY <2>4, RestPlaces DEF Rests
  <2> QED
    BY <2>1, <2>2, <2>3, <2>5
<1>10. (\A copy \in copies' : AskedFor(copy)') /\ (\A u \in Waits("csf")' : ToDecode(u)')
  BY RestDelivered
<1>11. Delivered(g)'
  BY <1>9, <1>10 DEF Delivered
<1> QED
  BY <1>1, <1>11 DEF decode

\* The others have nothing left to do.
LEMMA DeliveredRest ==
  ASSUME NEW own, Owned(own), NEW f, Delivered(f),
         NEW t, t \notin Waits("csf"), Rests(t), UNCHANGED <<copies, named>>,
         \A copy \in copies : copy.name.t # t
  PROVE  Delivered(f)'
<1>1. ASSUME NEW e \in Expected' PROVE There(f, e)'
  <2>1. CASE e \in DOMAIN named
    <3>1. e \in Expected
      BY <2>1 DEF Expected
    <3> QED
      BY <2>1, <3>1, ThereResume
  <2>2. CASE e \in Expected /\ e.t # t /\ e \notin DOMAIN named
    BY <2>2, ThereResume
  <2>3. \A n \in DOMAIN named' : n.part \in {"w", "k", "v"}
    BY DEF Owned
  <2>4. e \in DOMAIN named' \/ (e \in Expected /\ e.t # t)
    BY <2>3, RestPlaces DEF Rests
  <2> QED
    BY <2>1, <2>2, <2>4
<1>2. (\A copy \in copies' : AskedFor(copy)') /\ (\A u \in Waits("csf")' : ToDecode(u)')
  BY RestDelivered
<1> QED
  BY <1>1, <1>2 DEF Delivered

\* What the executor may overwrite it still may.
LEMMA SoftStays ==
  ASSUME FreeAddresses(arena'.heap) \subseteq FreeAddresses(arena.heap),
         \A n \in DOMAIN named' : \/ n \in DOMAIN named /\ named'[n] = named[n]
                                  \/ Addresses(named'[n]) \subseteq FreeAddresses(arena.heap),
         NEW a, Soft(a)
  PROVE  Soft(a)'
  BY DEF Soft

\* The executor takes memory for a tensor only where the weights may go.
LEMMA KeptStart ==
  ASSUME NEW f, Kept(f), NEW kind, NEW got, Started(kind, got)
  PROVE  Kept(f)'
<1>1. /\ named' = With(named, FirstName(kind), got[1]) /\ loaded' = loaded
      /\ Addresses(got[1]) \subseteq FreeAddresses(arena.heap)
      /\ FreeAddresses(arena'.heap) \subseteq FreeAddresses(arena.heap)
  BY DEF Started, FirstName, Takes
<1>2. /\ \A n \in DOMAIN named' : (n \in DOMAIN named /\ named'[n] = named[n]) \/ named'[n] = got[1]
  BY <1>1 DEF With
<1>3. \A a : Soft(a) => Soft(a)'
  BY <1>1, <1>2, SoftStays
<1> QED
  BY <1>1, <1>3 DEF Kept

\* The executor transposes what nobody has given it into memory of its own.
LEMMA KeptMoved ==
  ASSUME NEW own, Owned(own), NEW f, DOMAIN f = Memory, Kept(f),
         NEW t \in Waits("kvb"), NEW x, NEW v, Moved(t, x, v), loaded' = loaded,
         NEW op, op.dst = x, NEW open
  PROVE  Kept(After(f, op, open))'
<1>1. PICK g : g = After(f, op, open)
  OBVIOUS
<1>2. /\ Addresses(x) \subseteq FreeIn(arena) /\ Addresses(v) \subseteq FreeAddresses(arena.heap)
      /\ Addresses(x) \cap Addresses(v) = {}
      /\ FreeAddresses(arena'.heap) = FreeAddresses(arena.heap) \ (Addresses(x) \cup Addresses(v))
      /\ named' = With(named, Name(t, "v"), v)
  BY DEF Moved
<1>3. \A n \in DOMAIN named' : (n \in DOMAIN named /\ named'[n] = named[n]) \/ named'[n] = v
  BY <1>2 DEF With
<1>4. \A a : Soft(a) => Soft(a)'
  <2>1. FreeAddresses(arena'.heap) \subseteq FreeAddresses(arena.heap)
    BY <1>2
  <2> QED
    BY <1>2, <1>3, <2>1, SoftStays
<1>5. ASSUME NEW a \in Addresses(x) PROVE Soft(a)'
  <2>1. a \notin FreeAddresses(arena'.heap) /\ a \notin Addresses(v)
    BY <1>2
  <2>2. \A n \in DOMAIN named : a \notin Addresses(named[n])
    <3>1. ASSUME NEW n \in DOMAIN named PROVE a \notin Addresses(named[n])
      <4>1. n \in Expected /\ Place(n) = named[n]
        BY DEF Expected, Place, Owned
      <4>2. Addresses(Place(n)) \cap FreeIn(arena) = {}
        BY <4>1, PlacesApart
      <4> QED
        BY <1>2, <4>1, <4>2
    <3> QED
      BY <3>1
  <2> QED
    BY <1>3, <2>1, <2>2 DEF Soft
<1>6. \A a \in Memory : a \notin Addresses(x) => g[a] = f[a]
  BY <1>1, AfterFacts
<1>7. \A n \in DOMAIN loaded.named : \A a \in Addresses(loaded.named[n]) : a \in Memory /\ (g[a] = n \/ Soft(a)')
  BY <1>4, <1>5, <1>6 DEF Kept
<1>8. Kept(g)'
  BY <1>7 DEF Kept
<1> QED
  BY <1>1, <1>8

\* As long as the loader has something to do the files are mapped.
LEMMA StillMapped ==
  ASSUME Shape, ~Replaying, pc # "loaded"
  PROVE  mapped = TRUE
  BY DEF Shape

\* What the stream leads to after a tensor has been started.
LEMMA ContentsStart ==
  ASSUME Shape, NEW own, Owned(own), NEW f, Contents(f), NEW kind, NEW got, Started(kind, got)
  PROVE  \E g : Contents(g)'
<1> DEFINE c == Copy(at, "w", got[1])
<1>1. /\ pc = "starting" /\ UNCHANGED <<process, memory, mapped>>
      /\ stream' = IF kind = "staged" /\ ~Replaying THEN Append(stream, c) ELSE stream
  BY DEF Started
<1>2. Leads(stream, memory, mapped, f) /\ IF Replaying THEN Kept(f) ELSE Delivered(f)
  BY DEF Contents
<1>3. PICK S : stream \in Seq(S)
  BY DEF Shape
<1>4. DOMAIN f = Memory
  BY <1>2, <1>3, LeadsMemory
<1>5. Replaying' = Replaying
  BY <1>1 DEF Replaying
<1>6. CASE Replaying
  <2>1. Kept(f)'
    BY <1>2, <1>6, KeptStart
  <2>2. Leads(stream, memory, mapped, f)'
    BY <1>1, <1>2, <1>6
  <2>3. Contents(f)'
    BY <1>5, <1>6, <2>1, <2>2 DEF Contents
  <2> QED
    BY <2>3
<1>7. CASE ~Replaying /\ kind # "staged"
  <2>1. Delivered(f)'
    BY <1>2, <1>4, <1>7, DeliveredStart
  <2>2. Leads(stream, memory, mapped, f)'
    BY <1>1, <1>2, <1>7
  <2>3. Contents(f)'
    BY <1>5, <1>7, <2>1, <2>2 DEF Contents
  <2> QED
    BY <2>3
<1>8. CASE ~Replaying /\ kind = "staged"
  <2>1. mapped = TRUE
    BY <1>1, <1>8, StillMapped
  <2>2. PICK g : g = After(f, c, TRUE)
    OBVIOUS
  <2>3. Delivered(g)'
    BY <1>2, <1>4, <1>8, <2>2, DeliveredStart
  <2>4. Leads(Append(stream, c), memory, mapped, g)
    BY <1>2, <1>3, <2>1, <2>2, LeadsOn
  <2>5. Leads(stream, memory, mapped, g)'
    BY <1>1, <1>8, <2>4
  <2>6. Contents(g)'
    BY <1>5, <1>8, <2>3, <2>5 DEF Contents
  <2> QED
    BY <2>6
<1> QED
  BY <1>6, <1>7, <1>8

\* After a worker has enqueued its copy.
LEMMA ContentsEnqueue ==
  ASSUME Shape, NEW own, Owned(own), NEW f, Contents(f), NEW copy \in copies, Enqueue(copy)
  PROVE  \E g : Contents(g)'
<1>1. stream' = Append(stream, copy) /\ UNCHANGED <<process, memory, mapped>>
  BY DEF Enqueue
<1>2. ~Replaying /\ pc # "loaded"
  BY DEF Shape
<1>3. mapped = TRUE
  BY <1>2, StillMapped
<1>4. Leads(stream, memory, mapped, f) /\ Delivered(f)
  BY <1>2 DEF Contents
<1>5. PICK S : stream \in Seq(S)
  BY DEF Shape
<1>6. DOMAIN f = Memory
  BY <1>4, <1>5, LeadsMemory
<1>7. PICK g : g = After(f, copy, TRUE)
  OBVIOUS
<1>8. Delivered(g)'
  BY <1>4, <1>6, <1>7, DeliveredEnqueue
<1>9. Leads(Append(stream, copy), memory, mapped, g)
  BY <1>3, <1>4, <1>5, <1>7, LeadsOn
<1>10. Leads(stream, memory, mapped, g)'
  BY <1>1, <1>9
<1>11. ~Replaying'
  BY <1>1, <1>2 DEF Replaying
<1>12. Contents(g)'
  BY <1>8, <1>10, <1>11 DEF Contents
<1> QED
  BY <1>12

\* After a tensor has waited.
LEMMA ContentsResume ==
  ASSUME Shape, NEW own, Owned(own), NEW f, Contents(f), NEW t \in DOMAIN waiting, Resume(t), ~failed'
  PROVE  \E g : Contents(g)'
<1>1. /\ pc = "running" /\ Rests(t) /\ (\A copy \in copies : copy.name.t # t)
      /\ UNCHANGED <<process, copies, memory, mapped, loaded>>
  BY DEF Resume, Rests
<1>2. Leads(stream, memory, mapped, f) /\ IF Replaying THEN Kept(f) ELSE Delivered(f)
  BY DEF Contents
<1>3. PICK S : stream \in Seq(S)
  BY DEF Shape
<1>4. DOMAIN f = Memory
  BY <1>2, <1>3, LeadsMemory
<1>5. Replaying' = Replaying
  BY <1>1 DEF Replaying
<1>6. ~Replaying => mapped = TRUE
  BY <1>1, StillMapped
<1>7. CASE KindOf(t) = "kvb"
  <2>1. t \in Waits("kvb")
    BY <1>7 DEF Waits
  <2>2. PICK x, v : Moved(t, x, v)
    BY <2>1, MovedFacts
  <2> DEFINE transpose == [op |-> "transpose", t |-> t, src |-> waiting[t][2], dst |-> x]
             move == [op |-> "memcpy", t |-> t, src |-> x, dst |-> v]
  <2>3. stream' = IF Replaying THEN Append(stream, transpose) ELSE Append(Append(stream, transpose), move)
    BY <2>2 DEF Moved
  <2>4. transpose.dst = x
    OBVIOUS
  <2>5. CASE Replaying
    <3> HIDE DEF transpose, move
    <3>1. PICK g : g = After(f, transpose, mapped)
      OBVIOUS
    <3>2. PICK op, open : op = transpose /\ open = mapped
      OBVIOUS
    <3>3. Kept(After(f, op, open))'
      BY <1>1, <1>2, <1>4, <2>1, <2>2, <2>4, <2>5, <3>2, KeptMoved
    <3>4. Kept(g)'
      BY <3>1, <3>2, <3>3
    <3>5. Leads(Append(stream, transpose), memory, mapped, g)
      BY <1>2, <1>3, <3>1, LeadsOn
    <3>6. Leads(stream, memory, mapped, g)'
      BY <1>1, <2>3, <2>5, <3>5
    <3>7. Contents(g)'
      BY <1>5, <2>5, <3>4, <3>6 DEF Contents
    <3> QED
      BY <3>7
  <2>6. CASE ~Replaying
    <3>1. PICK g : g = After(After(f, transpose, TRUE), move, TRUE) /\ Delivered(g)'
      BY <1>1, <1>2, <1>4, <2>1, <2>2, <2>6, DeliveredMoved
    <3> HIDE DEF transpose, move
    <3>2. Leads(Append(stream, transpose), memory, mapped, After(f, transpose, mapped))
      BY <1>2, <1>3, LeadsOn
    <3>3. PICK T : Append(stream, transpose) \in Seq(T)
      BY <1>3, WiderStream
    <3>4. Leads(Append(Append(stream, transpose), move), memory, mapped, After(After(f, transpose, mapped), move, mapped))
      BY <3>2, <3>3, LeadsOn
    <3>5. Leads(stream, memory, mapped, g)'
      BY <1>1, <1>6, <2>3, <2>6, <3>1, <3>4
    <3>6. Contents(g)'
      BY <1>5, <2>6, <3>1, <3>5 DEF Contents
    <3> QED
      BY <3>6
  <2> QED
    BY <2>5, <2>6
<1>8. CASE KindOf(t) = "csf" /\ ~Replaying
  <2> DEFINE decode == [op |-> "decode", t |-> t, fixed |-> waiting[t][2],
                        exceptions |-> waiting[t][3], dst |-> waiting[t][1]]
  <2>1. t \in Waits("csf")
    BY <1>8 DEF Waits
  <2>2. stream' = Append(stream, decode) /\ named' = named
    BY <1>8 DEF Resume
  <2>3. PICK g : g = After(f, decode, TRUE) /\ Delivered(g)'
    BY <1>1, <1>2, <1>4, <1>8, <2>1, <2>2, DeliveredDecoded
  <2> HIDE DEF decode
  <2>4. Leads(Append(stream, decode), memory, mapped, g)
    BY <1>2, <1>3, <1>6, <1>8, <2>3, LeadsOn
  <2>5. Leads(stream, memory, mapped, g)'
    BY <1>1, <2>2, <2>4
  <2>6. Contents(g)'
    BY <1>5, <1>8, <2>3, <2>5 DEF Contents
  <2> QED
    BY <2>6
<1>9. CASE KindOf(t) # "kvb" /\ ~(KindOf(t) = "csf" /\ ~Replaying)
  <2>1. UNCHANGED <<arena, named, stream>>
    BY <1>9 DEF Resume
  <2>2. Leads(stream, memory, mapped, f)'
    BY <1>1, <1>2, <2>1
  <2>3. CASE Replaying
    <3>1. Kept(f)'
      BY <1>1, <1>2, <2>1, <2>3 DEF Kept, Soft
    <3>2. Contents(f)'
      BY <1>5, <2>2, <2>3, <3>1 DEF Contents
    <3> QED
      BY <3>2
  <2>4. CASE ~Replaying
    <3>1. t \notin Waits("csf")
      BY <1>9, <2>4 DEF Waits
    <3>2. Delivered(f)'
      BY <1>1, <1>2, <2>1, <2>4, <3>1, DeliveredRest
    <3>3. Contents(f)'
      BY <1>5, <2>2, <2>4, <3>2 DEF Contents
    <3> QED
      BY <3>3
  <2> QED
    BY <2>3, <2>4
<1> QED
  BY <1>7, <1>8, <1>9

\* The other steps leave places as they are, and free at most what the executor
\* may overwrite.
LEMMA ContentsSame ==
  ASSUME NEW f, Contents(f), UNCHANGED <<plan, process, waiting, named, copies, loaded>>,
         FreeAddresses(arena'.heap) = FreeAddresses(arena.heap),
         Leads(stream, memory, mapped, f)'
  PROVE  Contents(f)'
<1>1. Replaying' = Replaying
  BY DEF Replaying
<1>2. CASE Replaying
  <2>1. Kept(f)'
    BY <1>2 DEF Contents, Kept, Soft
  <2> QED
    BY <1>1, <1>2, <2>1 DEF Contents
<1>3. CASE ~Replaying
  <2>1. /\ \A k : Waits(k)' = Waits(k)
        /\ Expected' = Expected
        /\ \A e : Place(e)' = Place(e)
    BY PlacesSame
  <2>2. Delivered(f)
    BY <1>3 DEF Contents
  <2>3. \A e \in Expected' : There(f, e)'
    BY <2>1, <2>2 DEF Delivered, There
  <2>4. \A copy \in copies' : AskedFor(copy)'
    BY <2>1, <2>2 DEF Delivered, AskedFor
  <2>5. \A t \in Waits("csf")' : ToDecode(t)'
    BY <2>1, <2>2 DEF Delivered, ToDecode
  <2>6. Delivered(f)'
    BY <2>3, <2>4, <2>5 DEF Delivered
  <2> QED
    BY <1>1, <1>3, <2>6 DEF Contents
<1> QED
  BY <1>2, <1>3

\* Ranges that are disposed of do not change what is free on the device heap.
LEMMA DisposedHeap ==
  ASSUME NEW s, NEW g
  PROVE  Disposed(s, g).heap = s.heap
  BY DEF Disposed

\* After the device has executed an operation.
LEMMA ContentsDevice ==
  ASSUME Shape, NEW f, Contents(f), DeviceStep
  PROVE  Contents(f)'
<1>1. /\ stream # <<>> /\ memory' = After(memory, Head(stream), mapped) /\ stream' = Tail(stream)
      /\ UNCHANGED <<plan, process, waiting, named, copies, loaded, arena, mapped>>
  BY DEF DeviceStep
<1>2. PICK S : stream \in Seq(S)
  BY DEF Shape
<1>3. Leads(stream, memory, mapped, f)
  BY DEF Contents
<1>4. Leads(Tail(stream), After(memory, Head(stream), mapped), mapped, f)
  BY <1>1, <1>2, <1>3, LeadsFromHead
<1>5. Leads(stream, memory, mapped, f)'
  BY <1>1, <1>4
<1> QED
  BY <1>1, <1>5, ContentsSame

\* After a batch.
LEMMA ContentsEndBatch ==
  ASSUME NEW f, Contents(f), EndBatch, ~failed'
  PROVE  Contents(f)'
<1>1. /\ arena' = Disposed(arena, temps.pending)
      /\ UNCHANGED <<plan, process, waiting, named, copies, loaded, stream, memory, mapped>>
  BY DEF EndBatch
<1>2. arena'.heap = arena.heap
  BY <1>1, DisposedHeap
<1>3. Leads(stream, memory, mapped, f)'
  BY <1>1 DEF Contents
<1> QED
  BY <1>1, <1>2, <1>3, ContentsSame

\* Once the stream is empty memory is what it leads to.
LEMMA StreamEmpty ==
  ASSUME NEW f, Contents(f), stream = <<>>
  PROVE  f = memory /\ DOMAIN memory = Memory
<1>1. Leads(<<>>, memory, mapped, f)
  BY DEF Contents
<1>2. PICK M : Steps(<<>>, memory, mapped, f, M)
  BY <1>1 DEF Leads
<1>3. Len(<<>>) = 0 /\ 0 \in 0..0
  OBVIOUS
<1> QED
  BY <1>2, <1>3 DEF Steps

\* After the stream has been waited for.
LEMMA ContentsDrain ==
  ASSUME NEW f, Contents(f), Drain
  PROVE  Contents(f)'
<1>1. /\ stream = <<>> /\ arena' = Disposed(arena, temps.pending \o temps.status)
      /\ UNCHANGED <<plan, process, waiting, named, copies, loaded, stream, memory>>
  BY DEF Drain
<1>2. arena'.heap = arena.heap
  BY <1>1, DisposedHeap
<1>3. f = memory /\ DOMAIN memory = Memory
  BY <1>1, StreamEmpty
<1>4. Leads(<<>>, memory, mapped', memory)
  BY <1>3, LeadsNowhere
<1>5. Leads(stream, memory, mapped, f)'
  BY <1>1, <1>3, <1>4
<1> QED
  BY <1>1, <1>2, <1>5, ContentsSame

\* What the loader has loaded is what the executor starts from.
LEMMA ContentsStartExecutor ==
  ASSUME Shape, NEW own, Owned(own), NEW f, Contents(f), StartExecutor
  PROVE  Contents(f)'
<1>1. /\ pc = "loaded" /\ process = "loader" /\ process' = "executor"
      /\ loaded' = [named |-> named, sizes |-> arena.sizes]
      /\ UNCHANGED <<stream, memory, mapped>>
  BY DEF StartExecutor
<1>2. ~Replaying /\ Replaying'
  BY <1>1 DEF Replaying
<1>3. stream = <<>> /\ DOMAIN waiting = {} /\ copies = {}
  BY <1>1 DEF Shape
<1>4. Delivered(f) /\ Leads(stream, memory, mapped, f)
  BY <1>2 DEF Contents
<1>5. ASSUME NEW n \in DOMAIN named, NEW a \in Addresses(named[n]) PROVE a \in Memory /\ f[a] = n
  <2>1. n \in Expected /\ Place(n) = named[n]
    BY DEF Expected, Place, Owned
  <2>2. There(f, n)
    BY <1>4, <2>1 DEF Delivered
  <2>3. Holding(f, named[n], n)
    BY <1>3, <2>1, <2>2 DEF There, Waits
  <2>4. Addresses(named[n]) \subseteq Memory
    BY <2>1, PlacesApart
  <2> QED
    BY <2>3, <2>4 DEF Holding
<1>6. loaded'.named = named
  BY <1>1
<1>7. \A n \in DOMAIN loaded'.named : \A a \in Addresses(loaded'.named[n]) : a \in Memory /\ f[a] = n
  BY <1>5, <1>6
<1>8. Kept(f)'
  BY <1>7 DEF Kept
<1>9. Leads(stream, memory, mapped, f)'
  BY <1>1, <1>4
<1> QED
  BY <1>2, <1>8, <1>9 DEF Contents

\* Every step keeps what the stream leads to.
LEMMA ContentsNext ==
  ASSUME Shape, NEW own, Owned(own), NEW f, Contents(f), [LoadNext]_loadVars, ~failed'
  PROVE  \E g : Contents(g)'
<1>1. CASE StartTensor
  <2>1. Ready(arena)
    BY DEF Owned
  <2>2. PICK kind, got : Started(kind, got)
    BY <1>1, <2>1, StartFacts
  <2> QED
    BY <2>2, ContentsStart
<1>2. ASSUME NEW copy \in copies, Enqueue(copy) PROVE \E g : Contents(g)'
  BY <1>2, ContentsEnqueue
<1>3. CASE DeviceStep
  <2>1. Contents(f)'
    BY <1>3, ContentsDevice
  <2> QED
    BY <2>1
<1>4. ASSUME NEW t \in DOMAIN waiting, Resume(t) PROVE \E g : Contents(g)'
  BY <1>4, ContentsResume
<1>5. CASE EndBatch
  <2>1. Contents(f)'
    BY <1>5, ContentsEndBatch
  <2> QED
    BY <2>1
<1>6. CASE Drain
  <2>1. Contents(f)'
    BY <1>6, ContentsDrain
  <2> QED
    BY <2>1
<1>7. CASE StartExecutor
  <2>1. Contents(f)'
    BY <1>7, ContentsStartExecutor
  <2> QED
    BY <2>1
<1>8. CASE UNCHANGED <<plan, process, waiting, named, copies, loaded, arena, stream, memory, mapped>>
  <2>1. Leads(stream, memory, mapped, f)'
    BY <1>8 DEF Contents
  <2>2. Contents(f)'
    BY <1>8, <2>1, ContentsSame
  <2> QED
    BY <2>2
<1>9. CASE Judge
  BY <1>8, <1>9 DEF Judge
<1>10. CASE UNCHANGED loadVars
  BY <1>8, <1>10 DEF loadVars
<1> QED
  BY <1>1, <1>2, <1>3, <1>4, <1>5, <1>6, <1>7, <1>9, <1>10 DEF LoadNext
-----------------------------------------------------------------------------
(* The theorems                                                          *)

\* A process that has failed does not recover.
LEMMA FailedStays ==
  ASSUME [LoadNext]_loadVars, ~failed'
  PROVE  ~failed
<1>1. CASE StartTensor
  BY <1>1 DEF StartTensor
<1>2. CASE \E t \in DOMAIN waiting : Resume(t)
  BY <1>2 DEF Resume
<1>3. CASE UNCHANGED failed
  BY <1>3
<1> QED
  BY <1>1, <1>2, <1>3 DEF LoadNext, Enqueue, DeviceStep, EndBatch, Drain, StartExecutor, Judge, loadVars

\* The invariant holds at first.
LEMMA LoadInitFacts ==
  ASSUME LoadInit
  PROVE  LoadIInv
<1>1. Shape
  <2>1. 1 \in DOMAIN plan /\ 1 \in DOMAIN plan[1]
    <3>1. plan \in Plan
      BY DEF LoadInit
    <3>2. 1 \in DOMAIN plan
      BY <3>1, PlanFacts
    <3>3. Len(plan[1]) \in Nat \ {0} /\ DOMAIN plan[1] = 1..Len(plan[1])
      BY <3>1, <3>2, PlanFacts
    <3> QED
      BY <3>2, <3>3
  <2>2. at[1] = 1 /\ at[2] = 1 /\ DOMAIN waiting = {}
    BY DEF LoadInit
  <2>3. stream \in Seq({})
    BY DEF LoadInit
  <2> QED
    BY <2>1, <2>2, <2>3 DEF LoadInit, Shape, Replaying
<1>2. Verdict
  BY DEF LoadInit, Verdict
<1>3. arena = FreshArena /\ DOMAIN named = {} /\ DOMAIN waiting = {} /\ temps = NoTemps
  BY DEF LoadInit
<1>4. \E own : Owned(own)
  BY <1>3, OwnedInit
<1>5. Contents(memory)
  <2>1. DOMAIN memory = Memory /\ stream = <<>> /\ copies = {} /\ ~Replaying
    BY DEF LoadInit, Memory, Replaying
  <2>2. Leads(stream, memory, mapped, memory)
    BY <2>1, LeadsNowhere
  <2>3. Delivered(memory)
    BY <1>3, <2>1 DEF Delivered, Expected, Waits
  <2> QED
    BY <2>1, <2>2, <2>3 DEF Contents
<1> QED
  BY <1>1, <1>2, <1>4, <1>5 DEF LoadIInv

\* Every step keeps the invariant.
LEMMA LoadStep ==
  ASSUME LoadIInv, [LoadNext]_loadVars
  PROVE  LoadIInv'
<1>1. Shape' /\ Verdict'
  BY ShapeNext, VerdictNext DEF LoadIInv
<1>2. CASE failed'
  BY <1>1, <1>2 DEF LoadIInv
<1>3. CASE ~failed'
  <2>1. ~failed
    BY <1>3, FailedStays
  <2>2. PICK own, f : Owned(own) /\ Contents(f)
    BY <2>1 DEF LoadIInv
  <2>3. \E o : Owned(o)'
    BY <1>3, <2>2, OwnedNext DEF LoadIInv
  <2>4. \E g : Contents(g)'
    BY <1>3, <2>2, ContentsNext DEF LoadIInv
  <2> QED
    BY <1>1, <2>3, <2>4 DEF LoadIInv
<1> QED
  BY <1>2, <1>3

\* Every address of the arena belongs to one purpose, and what has been enqueued
\* leads to the weights in their places, as long as no tensor has failed.
THEOREM LoadInvariant == LoadSpec => []LoadIInv
<1>1. LoadInit => LoadIInv
  BY LoadInitFacts
<1>2. LoadIInv /\ [LoadNext]_loadVars => LoadIInv'
  BY LoadStep
<1> QED
  BY <1>1, <1>2, PTL DEF LoadSpec

\* An executor that is admitted has the weights the loader has loaded, however
\* the copies of its workers were ordered and whatever temporary memory either
\* of them took.
THEOREM ExecutorHasWeightsHolds == LoadSpec => []ExecutorHasWeights
<1>1. LoadIInv => ExecutorHasWeights
  <2> SUFFICES ASSUME LoadIInv, outcome = "admitted", NEW name \in DOMAIN named, NEW a \in Addresses(named[name])
               PROVE  memory[a] = name
    BY DEF ExecutorHasWeights, Holding
  <2>1. Shape /\ Verdict
    BY DEF LoadIInv
  <2>2. pc = "loaded" /\ Replaying /\ named = loaded.named /\ ~failed /\ stream = <<>>
    BY <2>1 DEF Shape, Verdict
  <2>3. PICK f : Contents(f)
    BY <2>2 DEF LoadIInv
  <2>4. f = memory
    BY <2>2, <2>3, StreamEmpty
  <2>5. f[a] = name \/ Soft(a)
    BY <2>2, <2>3 DEF Contents, Kept
  <2>6. ~Soft(a)
    BY DEF Soft
  <2> QED
    BY <2>4, <2>5, <2>6
<1> QED
  BY <1>1, LoadInvariant, PTL

\* The files of the source are mapped until nothing is left to be copied from
\* them, also when a tensor of a batch has failed.
THEOREM MappedWhileCopiedHolds == LoadSpec => []MappedWhileCopied
<1>1. LoadIInv => MappedWhileCopied
  <2> SUFFICES ASSUME LoadIInv, ~mapped, process = "loader"
               PROVE  copies = {} /\ stream = <<>>
    BY DEF MappedWhileCopied
  <2>1. Shape
    BY DEF LoadIInv
  <2>2. pc = "loaded"
    BY <2>1 DEF Shape, Replaying
  <2> QED
    BY <2>1, <2>2 DEF Shape
<1> QED
  BY <1>1, LoadInvariant, PTL
-----------------------------------------------------------------------------
(* The replay takes the same places                                      *)

\* What the next place of a tensor, and the arena, depend on: not on what waits
\* but for the raw copy of kv_b_proj.
RawCopies == {<<t, waiting[t][2]>> : t \in Waits("kvb")}

Spot == [at |-> at, pc |-> pc, arena |-> arena, named |-> named, temps |-> temps, raw |-> RawCopies]

FirstSpot ==
  [at |-> <<1, 1>>, pc |-> "starting", arena |-> FreshArena, named |-> <<>>, temps |-> NoTemps, raw |-> {}]

Following(p, a) == IF a[2] < Len(p[a[1]]) THEN <<a[1], a[2] + 1>> ELSE <<a[1] + 1, 1>>

Requests(kind, status) ==
  <<Stays(2)>> \o
    (CASE kind = "csf" -> <<Temporary(1), Temporary(2)>> \o (IF status = <<>> THEN <<Temporary(1)>> ELSE <<>>)
       [] kind = "kvb" -> <<Temporary(3)>>
       [] OTHER -> <<>>)

Begun(p, x) ==
  LET kind == p[x.at[1]][x.at[2]]
      taken == AllocatedAll(x.arena, Requests(kind, x.temps.status))
  IN [at |-> Following(p, x.at),
      pc |-> IF Following(p, x.at)[1] = x.at[1] THEN "starting" ELSE "running",
      arena |-> taken.state,
      named |-> With(x.named, Name(x.at, IF kind = "kvb" THEN "k" ELSE "w"), taken.got[1]),
      temps |-> IF kind # "csf" THEN x.temps
                ELSE [pending |-> x.temps.pending \o SubSeq(taken.got, 2, 3),
                      status |-> x.temps.status \o SubSeq(taken.got, 4, Len(taken.got))],
      raw |-> x.raw \cup (IF kind = "kvb" THEN {<<x.at, taken.got[2]>>} ELSE {})]

GoneOn(x) ==
  LET one == CHOOSE r \in x.raw : TRUE
      taken == AllocatedAll(x.arena, <<Temporary(3), Stays(2)>>)
  IN [at |-> x.at, pc |-> x.pc,
      arena |-> Disposed(taken.state, SubSeq(taken.got, 1, 1) \o <<one[2]>>),
      named |-> With(x.named, Name(one[1], "v"), taken.got[2]),
      temps |-> x.temps, raw |-> {}]

Ended(p, x) ==
  [at |-> x.at, pc |-> IF x.at[1] <= Len(p) THEN "starting" ELSE "draining",
   arena |-> Disposed(x.arena, x.temps.pending), named |-> x.named,
   temps |-> [x.temps EXCEPT !.pending = <<>>], raw |-> x.raw]

Drained(x) ==
  [at |-> x.at, pc |-> "loaded", arena |-> Disposed(x.arena, x.temps.pending \o x.temps.status),
   named |-> x.named, temps |-> NoTemps, raw |-> x.raw]

\* The next spot, of either process.
Onward(p, x) ==
  CASE x.pc = "starting" -> Begun(p, x)
    [] x.pc = "running" /\ x.raw # {} -> GoneOn(x)
    [] x.pc = "running" /\ x.raw = {} -> Ended(p, x)
    [] OTHER -> Drained(x)

Path(p, H, n, x) ==
  /\ n \in Nat /\ H[0] = FirstSpot /\ H[n] = x
  /\ \A k \in 0..(n - 1) : H[k].pc # "loaded" /\ H[k + 1] = Onward(p, H[k])

Reached(p, x) == \E H, n : Path(p, H, n, x)

\* The path starts at the first spot.
LEMMA ReachedFirst ==
  ASSUME NEW p
  PROVE  Reached(p, FirstSpot)
<1>1. Path(p, [k \in 0..0 |-> FirstSpot], 0, FirstSpot)
  <2>1. 0..(0 - 1) = {}
    OBVIOUS
  <2> QED
    BY <2>1 DEF Path
<1> QED
  BY <1>1 DEF Reached

\* It goes on unless the checkpoint is loaded.
LEMMA ReachedNext ==
  ASSUME NEW p, NEW x, Reached(p, x), x.pc # "loaded"
  PROVE  Reached(p, Onward(p, x))
<1>1. PICK H, n : Path(p, H, n, x)
  BY DEF Reached
<1>2. n \in Nat /\ H[0] = FirstSpot /\ H[n] = x
      /\ \A k \in 0..(n - 1) : H[k].pc # "loaded" /\ H[k + 1] = Onward(p, H[k])
  BY <1>1 DEF Path
<1> DEFINE y == Onward(p, x)
           G == [k \in 0..(n + 1) |-> IF k = n + 1 THEN y ELSE H[k]]
<1> HIDE DEF y
<1>3. n + 1 \in 0..(n + 1) /\ \A k \in 0..n : k \in 0..(n + 1) /\ k # n + 1
  BY <1>2
<1>4. G[n + 1] = y /\ \A k \in 0..n : G[k] = H[k]
  BY <1>3
<1> HIDE DEF G
<1>5. ASSUME NEW k \in 0..n PROVE G[k].pc # "loaded" /\ G[k + 1] = Onward(p, G[k])
  <2>1. CASE k = n
    BY <1>2, <1>4, <2>1 DEF y
  <2>2. CASE k # n
    <3>1. k \in 0..(n - 1) /\ k + 1 \in 0..n
      BY <1>2, <2>2
    <3> QED
      BY <1>2, <1>4, <3>1
  <2> QED
    BY <2>1, <2>2
<1>6. n + 1 \in Nat /\ (n + 1) - 1 = n /\ 0 \in 0..n
  BY <1>2
<1>7. Path(p, G, n + 1, y)
  BY <1>2, <1>4, <1>5, <1>6 DEF Path
<1> QED
  BY <1>7 DEF Reached, y

\* Two paths that have both come to the end have come to the same.
LEMMA ReachedOnce ==
  ASSUME NEW p, NEW x, NEW y, Reached(p, x), Reached(p, y), x.pc = "loaded", y.pc = "loaded"
  PROVE  x = y
<1>1. PICK H, n : Path(p, H, n, x)
  BY DEF Reached
<1>2. PICK G, m : Path(p, G, m, y)
  BY DEF Reached
<1>3. /\ n \in Nat /\ H[0] = FirstSpot /\ H[n] = x
      /\ \A k \in 0..(n - 1) : H[k].pc # "loaded" /\ H[k + 1] = Onward(p, H[k])
  BY <1>1 DEF Path
<1>4. /\ m \in Nat /\ G[0] = FirstSpot /\ G[m] = y
      /\ \A k \in 0..(m - 1) : G[k].pc # "loaded" /\ G[k + 1] = Onward(p, G[k])
  BY <1>2 DEF Path
<1> DEFINE L == IF n <= m THEN n ELSE m
           Good == {k \in 0..L : H[k] = G[k]}
<1>5. L \in Nat /\ L <= n /\ L <= m /\ (L = n \/ L = m)
  BY <1>3, <1>4
<1> HIDE DEF L
<1>6. 0 \in Good
  BY <1>3, <1>4, <1>5
<1>7. ASSUME NEW k \in 0..(L - 1), k \in Good PROVE k + 1 \in Good
  <2>1. H[k] = G[k]
    BY <1>7
  <2>2. k \in 0..(n - 1) /\ k \in 0..(m - 1) /\ k + 1 \in 0..L
    BY <1>3, <1>4, <1>5
  <2> QED
    BY <1>3, <1>4, <2>1, <2>2
<1>8. L \in Good
  <2>1. \A k \in 0..(L - 1) : k \in Good => k + 1 \in Good
    BY <1>7
  <2>2. Good \subseteq 0..L
    OBVIOUS
  <2> HIDE DEF Good
  <2> QED
    BY <1>5, <1>6, <2>1, <2>2, UpTo
<1>9. H[L] = G[L]
  BY <1>8
<1>10. n = m
  <2>1. CASE n < m
    <3>1. L = n /\ n \in 0..(m - 1)
      BY <1>3, <1>4, <1>5, <2>1
    <3> QED
      BY <1>3, <1>4, <1>9, <3>1
  <2>2. CASE m < n
    <3>1. L = m /\ m \in 0..(n - 1)
      BY <1>3, <1>4, <1>5, <2>2
    <3> QED
      BY <1>3, <1>4, <1>9, <3>1
  <2> QED
    BY <1>3, <1>4, <2>1, <2>2
<1> QED
  BY <1>3, <1>4, <1>5, <1>9, <1>10

\* Batches with at most one tensor that allocates after waiting.
Single(p) == \A b \in DOMAIN p : ~(Cardinality(Late(p[b])) > 1)

\* Those that wait are of one batch.
InBatch ==
  /\ at = <<at[1], at[2]>>
  /\ \A t \in DOMAIN waiting :
       /\ t = <<t[1], t[2]>> /\ t[1] \in DOMAIN plan /\ t[2] \in DOMAIN plan[t[1]]
       /\ t[1] = IF pc = "starting" THEN at[1] ELSE at[1] - 1

Traced ==
  /\ Reached(plan, Spot)
  /\ Replaying =>
       \E y : Reached(plan, y) /\ y.pc = "loaded" /\ y.named = loaded.named /\ y.arena.sizes = loaded.sizes

Refused == outcome = "refused" => ~SameLayout /\ Replaying /\ pc = "loaded" /\ ~failed

ReplayIInv == Shape /\ Verdict /\ InBatch /\ Refused /\ (Single(plan) => failed \/ Traced)

\* At most one raw copy waits at a time.
LEMMA OneLate ==
  ASSUME Shape, InBatch, Single(plan), NEW t \in Waits("kvb"), NEW u \in Waits("kvb")
  PROVE  t = u
<1> DEFINE b == t[1]
           S == Late(plan[b])
<1>1. /\ t = <<t[1], t[2]>> /\ u = <<u[1], u[2]>> /\ u[1] = t[1] /\ b \in DOMAIN plan
      /\ t[2] \in DOMAIN plan[b] /\ u[2] \in DOMAIN plan[b]
      /\ plan[t[1]][t[2]] = "kvb" /\ plan[u[1]][u[2]] = "kvb"
  BY DEF InBatch, Waits, KindOf
<1>2. t[2] \in S /\ u[2] \in S
  BY <1>1 DEF Late
<1>3. DOMAIN plan[b] = 1..Len(plan[b]) /\ Len(plan[b]) \in Nat
  BY <1>1, PlanFacts DEF Shape
<1>4. IsFiniteSet(S)
  <2>1. S \subseteq 1..Len(plan[b])
    BY <1>3 DEF Late
  <2>2. IsFiniteSet(1..Len(plan[b]))
    BY <1>3, FS_Interval
  <2> QED
    BY <2>1, <2>2, FS_Subset
<1>5. ~(Cardinality(S) > 1)
  BY <1>1 DEF Single
<1> HIDE DEF S
<1>6. t[2] = u[2]
  <2> SUFFICES ASSUME t[2] # u[2] PROVE FALSE
    OBVIOUS
  <2> DEFINE P == {t[2], u[2]}
  <2>1. P \subseteq S
    BY <1>2
  <2>2. Cardinality(P) = 2
    <3>1. Cardinality({t[2]}) = 1 /\ IsFiniteSet({t[2]}) /\ u[2] \notin {t[2]} /\ {t[2]} \cup {u[2]} = P
      BY FS_Singleton
    <3> HIDE DEF P
    <3>2. Cardinality({t[2]} \cup {u[2]}) = Cardinality({t[2]}) + 1
      BY <3>1, FS_AddElement
    <3> QED
      BY <3>1, <3>2
  <2>3. Cardinality(P) <= Cardinality(S) /\ Cardinality(S) \in Nat
    BY <1>4, <2>1, FS_Subset, FS_CardinalityType
  <2> HIDE DEF P
  <2> QED
    BY <1>5, <2>2, <2>3
<1> QED
  BY <1>1, <1>6

\* Those that wait stay of one batch.
LEMMA InBatchNext ==
  ASSUME Shape, InBatch, [LoadNext]_loadVars
  PROVE  InBatch'
<1>1. CASE StartTensor
  <2>1. /\ pc = "starting" /\ at' = NextAt /\ plan' = plan
        /\ pc' = (IF NextAt[1] = at[1] THEN "starting" ELSE "running")
        /\ waiting' = waiting \/ \E got : waiting' = With(waiting, at, got)
    BY <1>1 DEF StartTensor
  <2>2. at[1] \in DOMAIN plan /\ at[2] \in DOMAIN plan[at[1]]
    BY <2>1 DEF Shape
  <2>3. at[1] \in Int
    BY <2>1, NextAtFacts
  <2>4. NextAt = <<NextAt[1], NextAt[2]>> /\ (NextAt[1] = at[1] \/ NextAt[1] = at[1] + 1)
    BY DEF NextAt
  <2>5. \A t \in DOMAIN waiting' : t = at \/ t \in DOMAIN waiting
    BY <2>1 DEF With
  <2>6. at[1] = IF pc' = "starting" THEN at'[1] ELSE at'[1] - 1
    BY <2>1, <2>3, <2>4
  <2>7. ASSUME NEW t \in DOMAIN waiting'
        PROVE  /\ t = <<t[1], t[2]>> /\ t[1] \in DOMAIN plan' /\ t[2] \in DOMAIN plan'[t[1]]
               /\ t[1] = IF pc' = "starting" THEN at'[1] ELSE at'[1] - 1
    <3>1. CASE t = at
      BY <2>1, <2>2, <2>6, <3>1 DEF InBatch
    <3>2. CASE t \in DOMAIN waiting
      <4>1. t[1] = at[1]
        BY <2>1, <3>2 DEF InBatch
      <4> QED
        BY <2>1, <2>6, <3>2, <4>1 DEF InBatch
    <3> QED
      BY <2>5, <3>1, <3>2
  <2>8. at' = <<at'[1], at'[2]>>
    BY <2>1, <2>4
  <2> QED
    BY <2>7, <2>8 DEF InBatch
<1>2. ASSUME NEW t \in DOMAIN waiting, Resume(t) PROVE InBatch'
  <2>1. waiting' = [u \in DOMAIN waiting \ {t} |-> waiting[u]] /\ UNCHANGED <<plan, at, pc>>
    BY <1>2 DEF Resume
  <2>2. DOMAIN waiting' \subseteq DOMAIN waiting
    BY <2>1
  <2> QED
    BY <2>1, <2>2 DEF InBatch
<1>3. CASE UNCHANGED <<plan, at, pc, waiting>>
  BY <1>3 DEF InBatch
<1>4. CASE EndBatch
  <2>1. DOMAIN waiting' = {} /\ at' = at
    BY <1>4 DEF EndBatch, BatchSettled
  <2> QED
    BY <2>1 DEF InBatch
<1>5. CASE Drain
  <2>1. DOMAIN waiting' = {} /\ at' = at
    BY <1>5 DEF Drain, Shape
  <2> QED
    BY <2>1 DEF InBatch
<1>6. CASE StartExecutor
  <2>1. DOMAIN waiting' = {} /\ at' = <<1, 1>>
    BY <1>6 DEF StartExecutor, Shape
  <2>2. at' = <<at'[1], at'[2]>>
    BY <2>1
  <2> QED
    BY <2>1, <2>2 DEF InBatch
<1> QED
  BY <1>1, <1>2, <1>3, <1>4, <1>5, <1>6 DEF LoadNext, Enqueue, DeviceStep, Judge, loadVars

\* A refusal is final.
LEMMA RefusedNext ==
  ASSUME Shape, Verdict, Refused, [LoadNext]_loadVars
  PROVE  Refused'
<1>1. CASE outcome = "refused"
  <2>1. ~SameLayout /\ Replaying /\ pc = "loaded" /\ ~failed
    BY <1>1 DEF Refused
  <2>2. UNCHANGED <<arena, named, loaded, process, pc, failed>>
    BY <1>1, <2>1 DEF LoadNext, StartTensor, Enqueue, DeviceStep, Resume, EndBatch, Drain, StartExecutor, Judge, loadVars, Replaying
  <2> QED
    BY <2>1, <2>2 DEF Refused, SameLayout, Replaying
<1>2. CASE outcome # "refused"
  <2>1. CASE Judge
    <3>1. pc = "loaded" /\ Replaying /\ outcome = "none"
      BY <2>1 DEF Judge, Replaying
    <3>2. ~failed
      BY <3>1 DEF Verdict
    <3> QED
      BY <2>1, <3>1, <3>2 DEF Judge, Refused, SameLayout, Replaying
  <2>2. CASE outcome' = outcome \/ outcome' = "failed"
    BY <1>2, <2>2 DEF Refused
  <2> QED
    BY <2>1, <2>2 DEF LoadNext, StartTensor, Enqueue, DeviceStep, Resume, EndBatch, Drain, StartExecutor, loadVars
<1> QED
  BY <1>1, <1>2

\* The raw copies that wait, after each kind of step.
LEMMA RawStart ==
  ASSUME NEW got, at \notin DOMAIN waiting, plan' = plan, waiting' = With(waiting, at, got)
  PROVE  RawCopies' = RawCopies \cup (IF KindOf(at) = "kvb" THEN {<<at, got[2]>>} ELSE {})
<1> PICK u : u = at
  OBVIOUS
<1>1. \A t : KindOf(t)' = KindOf(t)
  BY DEF KindOf
<1>2. DOMAIN waiting' = {u} \cup DOMAIN waiting /\ waiting'[u] = got
  BY DEF With
<1>3. \A t \in DOMAIN waiting : waiting'[t] = waiting[t]
  BY DEF With
<1>4. Waits("kvb")' = {t \in {u} \cup DOMAIN waiting : KindOf(t) = "kvb"}
  BY <1>1, <1>2 DEF Waits
<1>5. ASSUME NEW z PROVE z \in RawCopies' <=> z \in RawCopies \/ (KindOf(u) = "kvb" /\ z = <<u, got[2]>>)
  <2>1. z \in RawCopies' <=> \E t \in Waits("kvb")' : z = <<t, waiting'[t][2]>>
    BY DEF RawCopies
  <2>2. z \in RawCopies <=> \E t \in DOMAIN waiting : KindOf(t) = "kvb" /\ z = <<t, waiting[t][2]>>
    BY DEF RawCopies, Waits
  <2> QED
    BY <1>2, <1>3, <1>4, <2>1, <2>2
<1> QED
  BY <1>5

\* A tensor without a raw copy goes on.
LEMMA RawRest ==
  ASSUME NEW t, plan' = plan, waiting' = [u \in DOMAIN waiting \ {t} |-> waiting[u]], KindOf(t) # "kvb"
  PROVE  RawCopies' = RawCopies
<1>1. \A u : KindOf(u)' = KindOf(u)
  BY DEF KindOf
<1>2. Waits("kvb")' = Waits("kvb")
  BY <1>1 DEF Waits
<1>3. \A u \in Waits("kvb") : waiting'[u] = waiting[u]
  BY DEF Waits
<1> QED
  BY <1>2, <1>3 DEF RawCopies

\* The one that has the raw copy goes on.
LEMMA RawMoved ==
  ASSUME Shape, InBatch, Single(plan), NEW t \in Waits("kvb"),
         plan' = plan, waiting' = [u \in DOMAIN waiting \ {t} |-> waiting[u]]
  PROVE  RawCopies = {<<t, waiting[t][2]>>} /\ RawCopies' = {}
<1>1. \A u \in Waits("kvb") : u = t
  BY OneLate
<1>2. \A u : KindOf(u)' = KindOf(u)
  BY DEF KindOf
<1>3. Waits("kvb")' = {}
  BY <1>1, <1>2 DEF Waits
<1>4. Waits("kvb") = {t}
  BY <1>1
<1> QED
  BY <1>3, <1>4 DEF RawCopies

\* Without tensors that wait there are no raw copies.
LEMMA RawNone ==
  ASSUME DOMAIN waiting = {}
  PROVE  RawCopies = {}
  BY DEF RawCopies, Waits

\* The raw copies depend on the tensors that wait and the plan alone.
LEMMA RawSame ==
  ASSUME UNCHANGED <<plan, waiting>>
  PROVE  RawCopies' = RawCopies
<1>1. \A u : KindOf(u)' = KindOf(u)
  BY DEF KindOf
<1>2. Waits("kvb")' = Waits("kvb")
  BY <1>1 DEF Waits
<1> QED
  BY <1>2 DEF RawCopies

\* Each step takes the place to the next, or leaves it.
Follows == pc # "loaded" /\ Spot' = Onward(plan, Spot)

\* Starting a tensor goes one step along the path.
LEMMA SpotStart ==
  ASSUME Shape, StartTensor, ~failed'
  PROVE  Follows
<1> DEFINE kind == KindOf(at)
           q == Requests(kind, temps.status)
           taken == AllocatedAll(arena, q)
           got == taken.got
           temps1 == IF kind # "csf" THEN temps
                     ELSE [pending |-> temps.pending \o SubSeq(got, 2, 3),
                           status |-> temps.status \o SubSeq(got, 4, Len(got))]
           named1 == With(named, Name(at, IF kind = "kvb" THEN "k" ELSE "w"), got[1])
<1>1. <<Stays(2)>> \o Temporaries(kind) = q
  BY DEF Requests, Temporaries
<1>2. /\ pc = "starting" /\ arena' = taken.state
      /\ named' = named1
      /\ waiting' = With(waiting, at, got)
      /\ temps' = temps1
      /\ at' = NextAt /\ pc' = (IF NextAt[1] = at[1] THEN "starting" ELSE "running")
      /\ plan' = plan
  <2>1. ~(kind = "bad" \/ ~AllocatedAll(arena, <<Stays(2)>> \o Temporaries(kind)).fits)
    BY DEF StartTensor
  <2> QED
    BY <1>1, <2>1 DEF StartTensor
<1>3. at \notin DOMAIN waiting
  <2>1. at[2] \in Nat
    BY <1>2, NextAtFacts
  <2> QED
    BY <1>2, <2>1 DEF Shape
<1> HIDE DEF got, temps1, named1
<1>4. RawCopies' = RawCopies \cup (IF kind = "kvb" THEN {<<at, got[2]>>} ELSE {})
  BY <1>2, <1>3, RawStart
<1>5. NextAt = Following(plan, at)
  BY DEF NextAt, Following
<1>6. PICK x : x = Spot
  OBVIOUS
<1>7. x.at = at /\ x.pc = pc /\ x.arena = arena /\ x.named = named /\ x.temps = temps /\ x.raw = RawCopies
  BY <1>6 DEF Spot
<1>8. Onward(plan, Spot) = Begun(plan, x)
  BY <1>2, <1>6, <1>7 DEF Onward
<1>9. Begun(plan, x) = [at |-> NextAt, pc |-> IF NextAt[1] = at[1] THEN "starting" ELSE "running",
                        arena |-> taken.state, named |-> named1, temps |-> temps1,
                        raw |-> RawCopies \cup (IF kind = "kvb" THEN {<<at, got[2]>>} ELSE {})]
  <2>1. plan[x.at[1]][x.at[2]] = kind
    BY <1>7 DEF KindOf
  <2> QED
    BY <1>5, <1>7, <2>1 DEF Begun, got, temps1, named1
<1>10. Spot' = Begun(plan, x)
  BY <1>2, <1>4, <1>9 DEF Spot
<1> QED
  BY <1>2, <1>8, <1>10 DEF Follows

\* So is v_proj, the only one of its batch.
LEMMA SpotMoved ==
  ASSUME Shape, InBatch, Single(plan), NEW t \in Waits("kvb"), Resume(t), ~failed'
  PROVE  Follows
<1> DEFINE taken == AllocatedAll(arena, <<Temporary(3), Stays(2)>>)
           got == taken.got
           arena1 == Disposed(taken.state, SubSeq(got, 1, 1) \o <<waiting[t][2]>>)
           named1 == With(named, Name(t, "v"), got[2])
<1>1. KindOf(t) = "kvb" /\ t \in DOMAIN waiting
  BY DEF Waits
<1>2. /\ pc = "running" /\ pc' = pc /\ at' = at /\ temps' = temps /\ plan' = plan
      /\ waiting' = [u \in DOMAIN waiting \ {t} |-> waiting[u]]
      /\ arena' = arena1
      /\ named' = named1
  <2>1. taken.fits
    BY <1>1 DEF Resume
  <2> QED
    BY <1>1, <2>1 DEF Resume
<1>3. RawCopies = {<<t, waiting[t][2]>>} /\ RawCopies' = {}
  BY <1>2, RawMoved
<1>4. PICK x : x = Spot
  OBVIOUS
<1>5. x.at = at /\ x.pc = pc /\ x.arena = arena /\ x.named = named /\ x.temps = temps /\ x.raw = RawCopies
  BY <1>4 DEF Spot
<1>6. PICK one : one = <<t, waiting[t][2]>>
  OBVIOUS
<1>7. x.raw = {one} /\ (CHOOSE r \in x.raw : TRUE) = one /\ one[1] = t /\ one[2] = waiting[t][2]
  BY <1>3, <1>5, <1>6
<1> HIDE DEF arena1, named1
<1>8. GoneOn(x) = [at |-> at, pc |-> pc, arena |-> arena1, named |-> named1, temps |-> temps, raw |-> {}]
  BY <1>5, <1>7 DEF GoneOn, arena1, named1
<1>9. Onward(plan, Spot) = GoneOn(x)
  <2>1. x.pc = "running" /\ x.raw # {}
    BY <1>2, <1>5, <1>7
  <2> QED
    BY <1>4, <2>1 DEF Onward
<1>10. Spot' = GoneOn(x)
  BY <1>2, <1>3, <1>8 DEF Spot
<1> QED
  BY <1>2, <1>9, <1>10 DEF Follows

\* So is the end of a batch.
LEMMA SpotEndBatch ==
  ASSUME Shape, EndBatch, ~failed'
  PROVE  Follows
<1>1. /\ pc = "running" /\ DOMAIN waiting = {}
      /\ pc' = (IF at[1] <= Len(plan) THEN "starting" ELSE "draining")
      /\ arena' = Disposed(arena, temps.pending)
      /\ temps' = [temps EXCEPT !.pending = <<>>]
      /\ UNCHANGED <<plan, at, named, waiting>>
  <2>1. ~failed
    BY DEF EndBatch
  <2> QED
    BY <2>1 DEF EndBatch, BatchSettled
<1>2. RawCopies = {} /\ RawCopies' = {}
  BY <1>1, RawNone, RawSame
<1>3. PICK x : x = Spot
  OBVIOUS
<1>4. x.at = at /\ x.pc = pc /\ x.arena = arena /\ x.named = named /\ x.temps = temps /\ x.raw = RawCopies
  BY <1>3 DEF Spot
<1>5. Onward(plan, Spot) = Ended(plan, x)
  BY <1>1, <1>2, <1>3, <1>4 DEF Onward
<1>6. Spot' = Ended(plan, x)
  BY <1>1, <1>2, <1>4 DEF Spot, Ended
<1> QED
  BY <1>1, <1>5, <1>6 DEF Follows

\* So is the end of the last.
LEMMA SpotDrain ==
  ASSUME Shape, Drain
  PROVE  Follows
<1>1. /\ pc = "draining"
      /\ pc' = "loaded"
      /\ arena' = Disposed(arena, temps.pending \o temps.status)
      /\ temps' = NoTemps
      /\ UNCHANGED <<plan, at, named, waiting>>
  BY DEF Drain
<1>2. DOMAIN waiting = {}
  BY <1>1 DEF Shape
<1>3. RawCopies = {} /\ RawCopies' = {}
  BY <1>1, <1>2, RawNone, RawSame
<1>4. PICK x : x = Spot
  OBVIOUS
<1>5. x.at = at /\ x.pc = pc /\ x.arena = arena /\ x.named = named /\ x.temps = temps /\ x.raw = RawCopies
  BY <1>4 DEF Spot
<1>6. Onward(plan, Spot) = Drained(x)
  BY <1>1, <1>3, <1>4, <1>5 DEF Onward
<1>7. Spot' = Drained(x)
  BY <1>1, <1>3, <1>5 DEF Spot, Drained
<1> QED
  BY <1>1, <1>6, <1>7 DEF Follows

\* The executor is back at the first spot.
LEMMA SpotStartExecutor ==
  ASSUME Shape, StartExecutor
  PROVE  Spot' = FirstSpot
<1>1. /\ pc = "loaded" /\ at' = <<1, 1>> /\ pc' = "starting" /\ arena' = FreshArena /\ named' = <<>>
      /\ UNCHANGED <<plan, waiting, temps>>
  BY DEF StartExecutor
<1>2. DOMAIN waiting = {} /\ temps = NoTemps
  BY <1>1 DEF Shape
<1>3. RawCopies' = {}
  BY <1>1, <1>2, RawNone, RawSame
<1> QED
  BY <1>1, <1>2, <1>3 DEF Spot, FirstSpot

\* Every step goes on along the path, stays, or starts the executor.
LEMMA SpotNext ==
  ASSUME Shape, InBatch, Single(plan), [LoadNext]_loadVars, ~failed'
  PROVE  Follows \/ Spot' = Spot \/ (StartExecutor /\ Spot' = FirstSpot)
<1>1. ASSUME NEW t \in DOMAIN waiting, Resume(t) PROVE Follows \/ Spot' = Spot
  <2>1. CASE KindOf(t) = "kvb"
    <3>1. t \in Waits("kvb")
      BY <2>1 DEF Waits
    <3> QED
      BY <1>1, <3>1, SpotMoved
  <2>2. CASE KindOf(t) # "kvb"
    <3>1. /\ UNCHANGED <<plan, at, pc, arena, named, temps>>
          /\ waiting' = [u \in DOMAIN waiting \ {t} |-> waiting[u]]
      BY <1>1, <2>2 DEF Resume
    <3>2. RawCopies' = RawCopies
      BY <2>2, <3>1, RawRest
    <3> QED
      BY <3>1, <3>2 DEF Spot
  <2> QED
    BY <2>1, <2>2
<1>2. ASSUME UNCHANGED <<plan, at, pc, arena, named, waiting, temps>> PROVE Spot' = Spot
  BY <1>2, RawSame DEF Spot
<1>3. CASE (\E copy \in copies : Enqueue(copy)) \/ DeviceStep \/ Judge \/ UNCHANGED loadVars
  <2>1. UNCHANGED <<plan, at, pc, arena, named, waiting, temps>>
    BY <1>3 DEF Enqueue, DeviceStep, Judge, loadVars
  <2> QED
    BY <1>2, <2>1
<1>4. CASE StartTensor \/ EndBatch \/ Drain \/ StartExecutor
  BY <1>4, SpotStart, SpotEndBatch, SpotDrain, SpotStartExecutor
<1> QED
  BY <1>1, <1>3, <1>4 DEF LoadNext

\* The checkpoint stays the same.
LEMMA PlanSame ==
  ASSUME [LoadNext]_loadVars
  PROVE  plan' = plan
  BY DEF LoadNext, StartTensor, Enqueue, DeviceStep, Resume, EndBatch, Drain, StartExecutor, Judge, loadVars

\* Both processes stay on the path.
LEMMA TracedNext ==
  ASSUME Shape, InBatch, Single(plan), Traced, [LoadNext]_loadVars, ~failed'
  PROVE  Traced'
<1>1. plan' = plan
  BY PlanSame
<1>2. PICK p, x : p = plan /\ x = Spot
  OBVIOUS
<1>3. Reached(p, x) /\ x.pc = pc /\ x.named = named /\ x.arena = arena
  BY <1>2 DEF Traced, Spot
<1>4. Reached(p, Spot')
  <2>1. CASE Follows
    BY <1>2, <1>3, <2>1, ReachedNext DEF Follows
  <2>2. CASE Spot' = Spot
    BY <1>2, <1>3, <2>2
  <2>3. CASE Spot' = FirstSpot
    BY <1>2, <2>3, ReachedFirst
  <2> QED
    BY <2>1, <2>2, <2>3, SpotNext
<1>5. PICK x1 : x1 = Spot'
  OBVIOUS
<1>6. Reached(plan, Spot)'
  <2>1. PICK p1, x2 : p1 = plan' /\ x2 = Spot'
    OBVIOUS
  <2>2. Reached(p1, x2)
    BY <1>1, <1>2, <1>4, <2>1
  <2> QED
    BY <2>1, <2>2 DEF Reached, Path
<1>7. ASSUME Replaying'
      PROVE  \E y : Reached(p, y) /\ y.pc = "loaded" /\ y.named = loaded'.named /\ y.arena.sizes = loaded'.sizes
  <2>1. CASE StartExecutor
    <3>1. pc = "loaded" /\ loaded'.named = named /\ loaded'.sizes = arena.sizes
      BY <2>1 DEF StartExecutor
    <3> QED
      BY <1>3, <3>1
  <2>2. CASE ~StartExecutor
    <3>1. UNCHANGED <<loaded, process>>
      BY <2>2 DEF LoadNext, StartTensor, Enqueue, DeviceStep, Resume, EndBatch, Drain, Judge, loadVars
    <3> QED
      BY <1>2, <1>7, <3>1 DEF Traced, Replaying
  <2> QED
    BY <2>1, <2>2
<1>8. Replaying' =>
        \E y : Reached(plan', y) /\ y.pc = "loaded" /\ y.named = loaded'.named /\ y.arena.sizes = loaded'.sizes
  BY <1>1, <1>2, <1>7
<1> QED
  BY <1>6, <1>8 DEF Traced, Reached, Path

\* The loader starts on the path.
LEMMA ReplayInit ==
  ASSUME LoadInit
  PROVE  ReplayIInv
<1>1. Shape /\ Verdict
  BY LoadInitFacts DEF LoadIInv
<1>2. InBatch
  <2>1. at = <<at[1], at[2]>> /\ DOMAIN waiting = {}
    BY DEF LoadInit
  <2> QED
    BY <2>1 DEF InBatch
<1>3. Refused
  BY DEF LoadInit, Refused
<1>4. Traced
  <2>1. RawCopies = {}
    BY RawNone DEF LoadInit
  <2>2. Spot = FirstSpot
    BY <2>1 DEF LoadInit, Spot, FirstSpot
  <2>3. Reached(plan, Spot)
    BY <2>2, ReachedFirst
  <2> QED
    BY <2>3 DEF Traced, LoadInit, Replaying
<1> QED
  BY <1>1, <1>2, <1>3, <1>4 DEF ReplayIInv

\* Every step keeps the second invariant.
LEMMA ReplayStep ==
  ASSUME ReplayIInv, [LoadNext]_loadVars
  PROVE  ReplayIInv'
<1>1. Shape' /\ Verdict' /\ InBatch' /\ Refused'
  BY ShapeNext, VerdictNext, InBatchNext, RefusedNext DEF ReplayIInv
<1>2. ASSUME Single(plan)', ~failed' PROVE Traced'
  <2>1. Single(plan)
    BY <1>2, PlanSame DEF Single
  <2>2. ~failed
    BY <1>2, FailedStays
  <2> QED
    BY <1>2, <2>1, <2>2, TracedNext DEF ReplayIInv
<1> QED
  BY <1>1, <1>2 DEF ReplayIInv

\* Two paths that end differently are of a plan that allows it.
LEMMA ReplayRefused ==
  ASSUME ReplayIInv
  PROVE  RefusedOnlyForLate
<1> SUFFICES ASSUME outcome = "refused", Single(plan) PROVE FALSE
  BY DEF RefusedOnlyForLate, Single
<1>1. ~SameLayout /\ Replaying /\ pc = "loaded" /\ Traced
  BY DEF ReplayIInv, Refused
<1>2. PICK y : Reached(plan, y) /\ y.pc = "loaded" /\ y.named = loaded.named /\ y.arena.sizes = loaded.sizes
  BY <1>1 DEF Traced
<1>3. PICK x : x = Spot
  OBVIOUS
<1>4. Reached(plan, x) /\ x.pc = "loaded" /\ x.named = named /\ x.arena = arena
  BY <1>1, <1>3 DEF Traced, Spot
<1>5. x = y
  BY <1>2, <1>4, ReachedOnce
<1> QED
  BY <1>1, <1>2, <1>4, <1>5 DEF SameLayout

\* An executor that is admitted has the weights, and one is refused only when
\* two tensors of a batch allocate after waiting: everything else an arena
\* serves depends on the plan alone, not on the order of the copies.
THEOREM JudgedRightlyHolds == LoadSpec => []JudgedRightly
<1>1. LoadInit => ReplayIInv
  BY ReplayInit
<1>2. ReplayIInv /\ [LoadNext]_loadVars => ReplayIInv'
  BY ReplayStep
<1>3. ReplayIInv => RefusedOnlyForLate
  BY ReplayRefused
<1>4. LoadSpec => []RefusedOnlyForLate
  BY <1>1, <1>2, <1>3, PTL DEF LoadSpec
<1>5. ExecutorHasWeights /\ RefusedOnlyForLate => JudgedRightly
  BY DEF JudgedRightly
<1> QED
  BY <1>4, <1>5, ExecutorHasWeightsHolds, PTL
============================================================================

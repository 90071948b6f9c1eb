------------------------------- MODULE Loader -------------------------------
(***************************************************************************)
(* The model loader (src/run_model_loader.ts): a process that keeps the    *)
(* weights on the GPUs and runs one executor process at a time on them, on *)
(* the orders that reach its control server.  The orders are executed one  *)
(* after the other (serializeLifecycle); the executor's events arrive in   *)
(* turns of the event loop.  What Node guarantees of ChildProcess is       *)
(* external: "spawn" or "error" on the first tick, "close" once the        *)
(* process has ended and nobody holds its output.                          *)
(***************************************************************************)
EXTENDS Integers, Sequences

CONSTANTS Fork, Spawn,  \* executor commands, by mode
          Order,        \* requests to the control server
          Follower,     \* responses that stream the console
          Signal,       \* SIGINT or SIGTERM to the loader
          None,         \* undefined
          MaxStarts     \* bound: executor processes started

Command == Fork \cup Spawn

ASSUME CommandAssumption == Fork \cap Spawn = {} /\ None \notin Command \cup Follower
ASSUME OrderAssumption == Signal \notin Order
ASSUME BodyAssumption == "body" \notin Command \cup {None}
ASSUME StartAssumption == MaxStarts \in Nat \ {0}

Process == 1..MaxStarts   \* ChildProcess objects, in the order they were made

VARIABLES
  chain, step,    \* lifecycle: the orders not finished; how far the first one is
  reply,          \* the answer to each order
  command,        \* workerCommand
  worker,         \* worker, 0 for null
  stopping,       \* stopping: the executor being stopped, 0 for null
  started,        \* outputGeneration
  image,          \* the command the worker was made from
  os, helpers,    \* of a process: its state, and whether descendants of it live
  seen,           \* the events of a process that have been emitted
  soon,           \* the processes with a setImmediate(finishOutput) to run
  killed,         \* the timer of stopWorker has sent SIGKILL
  followers,      \* consoleFollowers
  shuttingDown, freed

orderVars == <<chain, step, reply>>
workerVars == <<command, worker, stopping, started, image>>
processVars == <<os, helpers, seen, soon, killed>>
serverVars == <<shuttingDown, freed>>
vars == <<orderVars, workerVars, processVars, followers, serverVars>>

Made == 1..started
Alive(w) == os[w] = "running" \/ helpers[w]
Closing == reply[Signal] = "ok"   \* server.close has been called
Over(seenOf) == seenOf \cap {"exit", "error"} # {}   \* exited in startWorker

\* Promises are settled before the first tick of a new process, and that
\* before anything else the event loop has to do.
Settled == ~freed /\ (chain = <<>> \/ step = "waiting")
Turn == Settled /\ \A w \in Made : seen[w] # {}
-----------------------------------------------------------------------------
(* Orders                                                                *)

\* The response of follower f belongs to a start that has not been executed.
Asked(f) == \E i \in DOMAIN chain : chain[i].follow = f

\* POST /fork, /spawn, /stop, /restart, once the body has been read: it is
\* empty (null) or holds a command.
Request(o, kind, cmd, follow) ==
  /\ Turn /\ ~Closing
  /\ reply[o] = "none"
  /\ kind = "stop" => cmd = None /\ follow = None
  /\ follow # None => followers[follow] = "none" /\ ~Asked(follow)
  /\ IF kind = "restart" /\ command = None
     THEN reply' = [reply EXCEPT ![o] = "failed"] /\ UNCHANGED chain
     ELSE /\ reply' = [reply EXCEPT ![o] = "waiting"]
          /\ chain' = Append(chain, [order |-> o, kind |-> kind, cmd |-> cmd, follow |-> follow])
  /\ UNCHANGED <<step, workerVars, processVars, followers, serverVars>>

\* shutdown
Shutdown ==
  /\ Turn /\ ~shuttingDown
  /\ shuttingDown' = TRUE
  /\ reply' = [reply EXCEPT ![Signal] = "waiting"]
  /\ chain' = Append(chain, [order |-> Signal, kind |-> "shutdown", cmd |-> None, follow |-> None])
  /\ UNCHANGED <<step, workerVars, processVars, followers, freed>>

First == Head(chain)
Answered(answer) == [reply EXCEPT ![First.order] = answer]

\* Mutant: a rejected order rejects those behind it.
FinishBreaksChain(answer) ==
  /\ step' = "begin"
  /\ IF answer = "ok"
     THEN chain' = Tail(chain) /\ reply' = Answered(answer)
     ELSE /\ chain' = <<>>
          /\ reply' = [o \in Order \cup {Signal} |-> IF \E i \in DOMAIN chain : chain[i].order = o THEN answer ELSE reply[o]]

\* next.catch(() => {}): the chain goes on, whatever became of this order.
Finish(answer) ==
  /\ step' = "begin"
  /\ chain' = Tail(chain)
  /\ reply' = Answered(answer)

\* Mutant: an order that was queued before the signal starts an executor.
LaunchInShutdown(cmd) ==
  \/ /\ Finish("failed")
     /\ command' = cmd
     /\ UNCHANGED <<worker, started, image, processVars, followers>>
  \/ /\ started < MaxStarts
     /\ Finish("ok")
     /\ command' = cmd
     /\ started' = started + 1
     /\ worker' = started'
     /\ image' = cmd
     /\ \E state \in {"running", "failed"} : os' = [os EXCEPT ![started'] = state]
     /\ \E h \in BOOLEAN :
          /\ h => cmd \in Spawn /\ os'[started'] = "running"
          /\ helpers' = [helpers EXCEPT ![started'] = h]
     /\ followers' = [f \in Follower |-> IF f = First.follow THEN "open" ELSE followers[f]]
     /\ UNCHANGED <<seen, soon, killed>>

\* startWorker: refused in shutdown; spawn() throws, or makes a process that
\* then runs, perhaps with descendants (nsys), or fails to ("error").
Launch(cmd) ==
  \/ /\ Finish("failed")
     /\ command' = cmd
     /\ UNCHANGED <<worker, started, image, processVars, followers>>
  \/ /\ ~shuttingDown /\ started < MaxStarts
     /\ Finish("ok")
     /\ command' = cmd
     /\ started' = started + 1
     /\ worker' = started'
     /\ image' = cmd
     /\ \E state \in {"running", "failed"} : os' = [os EXCEPT ![started'] = state]
     /\ \E h \in BOOLEAN :
          /\ h => cmd \in Spawn /\ os'[started'] = "running"
          /\ helpers' = [helpers EXCEPT ![started'] = h]
     /\ followers' = [f \in Follower |-> IF f = First.follow THEN "open" ELSE followers[f]]
     /\ UNCHANGED <<seen, soon, killed>>

\* parseWorkerCommand: the commands the first order can mean.  A body of
\* /restart is read in the mode of the command it replaces.
Meant == IF First.cmd = None THEN {command}
         ELSE IF First.kind = "fork" \/ (First.kind = "restart" /\ command \in Fork) THEN Fork
         ELSE Spawn

\* A start.
BeginStart ==
  /\ ~freed /\ chain # <<>> /\ step = "begin"
  /\ First.kind \in {"fork", "spawn"}
  /\ \/ /\ \/ worker # 0                \* already running
           \/ First.cmd = "body"         \* invalid, or not the resident model's
           \/ command \notin (IF First.kind = "fork" THEN Fork ELSE Spawn)
        /\ Finish("failed")
        /\ UNCHANGED <<command, worker, started, image, processVars, followers>>
     \/ /\ worker = 0
        /\ \E cmd \in Meant \cap (IF First.kind = "fork" THEN Fork ELSE Spawn) : Launch(cmd)
  /\ UNCHANGED <<stopping, serverVars>>

\* stopWorker.  The executor may obey the request to end, or not.
StopWorker ==
  /\ stopping' = worker
  /\ step' = IF worker = 0 THEN "stopped" ELSE "waiting"

BeginStop ==
  /\ ~freed /\ chain # <<>> /\ step = "begin"
  /\ First.kind \in {"stop", "shutdown"}
  /\ StopWorker
  /\ UNCHANGED <<chain, reply, command, worker, started, image, processVars, followers, serverVars>>

BeginRestart ==
  /\ ~freed /\ chain # <<>> /\ step = "begin"
  /\ First.kind = "restart"
  /\ \/ /\ First.cmd = "body"
        /\ Finish("failed")
        /\ UNCHANGED stopping
     \/ /\ \E cmd \in Meant : chain' = <<[First EXCEPT !.cmd = cmd]>> \o Tail(chain)
        /\ StopWorker
        /\ UNCHANGED reply
  /\ UNCHANGED <<command, worker, started, image, processVars, followers, serverVars>>

\* After the await of stopWorker().
AfterStop ==
  /\ ~freed /\ chain # <<>> /\ step = "stopped"
  /\ IF First.kind = "restart"
     THEN Launch(First.cmd)
     ELSE /\ Finish("ok")
          /\ UNCHANGED <<command, worker, started, image, processVars, followers>>
  /\ UNCHANGED <<stopping, serverVars>>

\* server.close calls back when no response is open.
Free ==
  /\ Turn /\ Closing
  /\ \A o \in Order : reply[o] # "waiting"
  /\ \A f \in Follower : followers[f] # "open"
  /\ freed' = TRUE
  /\ UNCHANGED <<orderVars, workerVars, processVars, followers, shuttingDown>>
-----------------------------------------------------------------------------
(* Events of the executor                                                *)

\* Mutant: without the check of the generation.
FinishOutputOfAny(w, seenOf) ==
  followers' = [f \in Follower |->
    IF Over(seenOf) /\ "end" \in seenOf /\ followers[f] = "open" THEN "ended" ELSE followers[f]]

\* finishOutput of process w, which has emitted seenOf.
FinishOutput(w, seenOf) ==
  followers' = [f \in Follower |->
    IF w = started /\ Over(seenOf) /\ "end" \in seenOf /\ followers[f] = "open"
    THEN "ended" ELSE followers[f]]

\* The listeners that clear worker, and finish() of stopWorker.
Gone(w) ==
  /\ worker' = IF worker = w THEN 0 ELSE worker
  /\ IF stopping = w THEN stopping' = 0 /\ step' = "stopped" /\ killed' = FALSE
                     ELSE UNCHANGED <<stopping, step, killed>>
  /\ UNCHANGED <<chain, reply, command, started, image>>

Saw(w, event) == seen' = [seen EXCEPT ![w] = @ \cup {event}]

\* The first tick: "spawn", or "error" when the process could not be made.
FirstTick(w) ==
  /\ Settled
  /\ seen[w] = {}
  /\ IF os[w] = "failed"
     THEN Saw(w, "error") /\ soon' = soon \cup {w} /\ Gone(w)
     ELSE Saw(w, "spawn") /\ UNCHANGED <<soon, killed, orderVars, workerVars>>
  /\ UNCHANGED <<os, helpers, followers, serverVars>>

Exited(w) ==
  /\ Turn
  /\ os[w] = "exited" /\ "exit" \notin seen[w]
  /\ Saw(w, "exit")
  /\ soon' = soon \cup {w}
  /\ UNCHANGED <<os, helpers, killed, followers, orderVars, workerVars, serverVars>>

\* Both output streams have ended: nobody holds their other end.
OutputEnded(w) ==
  /\ Turn
  /\ os[w] \in {"exited", "failed"} /\ ~helpers[w] /\ "end" \notin seen[w]
  /\ Saw(w, "end")
  /\ FinishOutput(w, seen'[w])
  /\ UNCHANGED <<os, helpers, killed, soon, orderVars, workerVars, serverVars>>

Immediate(w) ==
  /\ Turn
  /\ w \in soon
  /\ soon' = soon \ {w}
  /\ FinishOutput(w, seen[w])
  /\ UNCHANGED <<os, helpers, killed, seen, orderVars, workerVars, serverVars>>

\* Mutant: the executor counts as gone on "exit".
ClosedOnExit(w) ==
  /\ Turn
  /\ Over(seen[w]) /\ "close" \notin seen[w]
  /\ Saw(w, "close")
  /\ Gone(w)
  /\ UNCHANGED <<os, helpers, soon, followers, serverVars>>

Closed(w) ==
  /\ Turn
  /\ Over(seen[w]) /\ "end" \in seen[w] /\ "close" \notin seen[w]
  /\ Saw(w, "close")
  /\ Gone(w)
  /\ UNCHANGED <<os, helpers, soon, followers, serverVars>>

\* Mutant: after SIGKILL the executor counts as gone.
KillTimeoutGivesUp(w) ==
  /\ Turn
  /\ stopping = w /\ ~killed
  /\ Gone(w)
  /\ UNCHANGED <<os, helpers, seen, soon, followers, serverVars>>

\* The timer of stopWorker.
KillTimeout(w) ==
  /\ Turn
  /\ stopping = w /\ ~killed
  /\ killed' = TRUE
  /\ UNCHANGED <<os, helpers, seen, soon, followers, orderVars, workerVars, serverVars>>
-----------------------------------------------------------------------------
(* The operating system and the clients                                  *)

Exit(w) ==
  /\ os[w] = "running"
  /\ os' = [os EXCEPT ![w] = "exited"]
  /\ UNCHANGED <<helpers, seen, soon, killed, orderVars, workerVars, followers, serverVars>>

HelpersExit(w) ==
  /\ helpers[w]
  /\ helpers' = [helpers EXCEPT ![w] = FALSE]
  /\ UNCHANGED <<os, seen, soon, killed, orderVars, workerVars, followers, serverVars>>

\* Mutant: SIGKILL to the executor alone.
DieAlone(w) ==
  /\ stopping = w /\ killed /\ os[w] = "running"
  /\ os' = [os EXCEPT ![w] = "exited"]
  /\ UNCHANGED <<helpers, seen, soon, killed, orderVars, workerVars, followers, serverVars>>

\* SIGKILL takes effect: of the process group, for a spawned executor.
Die(w) ==
  /\ stopping = w /\ killed /\ Alive(w)
  /\ os' = [os EXCEPT ![w] = "exited"]
  /\ helpers' = [helpers EXCEPT ![w] = FALSE]
  /\ UNCHANGED <<seen, soon, killed, orderVars, workerVars, followers, serverVars>>

\* GET /follow, and the client of a follower going away.
Follow(f) ==
  /\ Turn /\ ~Closing
  /\ followers[f] = "none" /\ ~Asked(f)
  /\ followers' = [followers EXCEPT ![f] = "open"]
  /\ UNCHANGED <<orderVars, workerVars, processVars, serverVars>>

Leave(f) ==
  /\ Turn
  /\ followers[f] = "open"
  /\ followers' = [followers EXCEPT ![f] = "left"]
  /\ UNCHANGED <<orderVars, workerVars, processVars, serverVars>>
-----------------------------------------------------------------------------
Init ==
  /\ chain = <<>> /\ step = "begin"
  /\ reply = [o \in Order \cup {Signal} |-> "none"]
  /\ stopping = 0
  /\ command \in Fork \cup {None}   \* initialCommand, started at once
  /\ started = (IF command = None THEN 0 ELSE 1)
  /\ worker = started
  /\ image = command
  /\ \E state \in {"running", "failed"} :
       os = [w \in Process |-> IF w = worker THEN state ELSE "none"]
  /\ helpers = [w \in Process |-> FALSE]
  /\ seen = [w \in Process |-> {}]
  /\ soon = {} /\ killed = FALSE
  /\ followers = [f \in Follower |-> "none"]
  /\ shuttingDown = FALSE /\ freed = FALSE

Event(w) == FirstTick(w) \/ Exited(w) \/ Immediate(w) \/ Closed(w) \/ KillTimeout(w) \/ Die(w)

\* What happens of itself.  A process that could not be made may leave its
\* output streams open.
Progress ==
  \/ BeginStart \/ BeginStop \/ BeginRestart \/ AfterStop \/ Free
  \/ \E w \in Made : Event(w) \/ (os[w] # "failed" /\ OutputEnded(w))

Next ==
  \/ \E o \in Order, kind \in {"fork", "spawn", "stop", "restart"},
        cmd \in {None, "body"}, follow \in Follower \cup {None} : Request(o, kind, cmd, follow)
  \/ Shutdown
  \/ BeginStart \/ BeginStop \/ BeginRestart \/ AfterStop \/ Free
  \/ \E w \in Made : Event(w) \/ OutputEnded(w) \/ Exit(w) \/ HelpersExit(w)
  \/ \E f \in Follower : Follow(f) \/ Leave(f)

Spec == Init /\ [][Next]_vars
FairSpec == Spec /\ WF_vars(Progress)
-----------------------------------------------------------------------------
(* Properties                                                            *)

TypeOK ==
  /\ chain \in Seq([order : Order \cup {Signal}, cmd : Command \cup {None, "body"}, follow : Follower \cup {None},
                    kind : {"fork", "spawn", "stop", "restart", "shutdown"}])
  /\ step \in {"begin", "waiting", "stopped"}
  /\ reply \in [Order \cup {Signal} -> {"none", "waiting", "ok", "failed"}]
  /\ command \in Command \cup {None}
  /\ started \in 0..MaxStarts /\ {worker, stopping} \subseteq 0..started
  /\ image \in Command \cup {None}
  /\ os \in [Process -> {"none", "failed", "running", "exited"}]
  /\ helpers \in [Process -> BOOLEAN]
  /\ seen \in [Process -> SUBSET {"spawn", "error", "exit", "end", "close"}]
  /\ soon \subseteq Made
  /\ followers \in [Follower -> {"none", "open", "ended", "left"}]
  /\ {killed, shuttingDown, freed} \subseteq BOOLEAN

\* Two executors never run on the weights at the same time, descendants of a
\* spawned one included.
OneExecutor == \A v, w \in Made : Alive(v) /\ Alive(w) => v = w

\* The weights are freed only when no executor uses them any more.
WeightsOutliveExecutor == freed => \A w \in Made : ~Alive(w)

\* stopWorker signals the process group or the process by the mode of
\* workerCommand, and /status shows it: it is that of the running executor.
CommandIsWorkers == worker # 0 => image = command

\* /stop answers "idle" only when the executor is gone.
StopMeansGone ==
  [][\A o \in Order :
       reply[o] = "waiting" /\ reply'[o] = "ok" /\ First.kind = "stop"
         => \A w \in Made : ~Alive(w)]_vars

\* The loader ends a follower only when no output can come any more: the last
\* chunks of an executor reach it, and those of the next one too.
NoFollowerCutShort ==
  [][\A f \in Follower :
       followers[f] = "open" /\ followers'[f] = "ended"
         => \A w \in Made : ~Alive(w) /\ (os[w] # "failed" => "end" \in seen'[w])]_vars

\* Every order is answered: an executor that does not obey is killed.
EveryOrderAnswered == \A o \in Order : reply[o] = "waiting" ~> reply[o] \in {"ok", "failed"}

\* After a signal only a follower can keep the loader from freeing the weights,
\* and not one that follows an executor: it is released with it.
ShutdownFrees ==
  /\ shuttingDown ~> freed \/ \E f \in Follower : followers[f] = "open"
  /\ \A f \in Follower :
       followers[f] = "open" /\ shuttingDown /\ (\E w \in Made : os[w] = "running" /\ worker = w)
         ~> followers[f] # "open"
=============================================================================

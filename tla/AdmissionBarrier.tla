-------------------------- MODULE AdmissionBarrier --------------------------
(***************************************************************************)
(* What the generation scheduler promises about order, without saying how: *)
(* requests enter the batch in the order they were submitted, at most      *)
(* MaxBatch at a time, and a flush is a barrier: it runs when everything   *)
(* submitted before it has left, and nothing submitted after it enters     *)
(* before it is over.  Scheduler implements this specification.            *)
(***************************************************************************)
EXTENDS Integers, Sequences, FiniteSets, SequencesExt

CONSTANTS Request, Flush, MaxBatch

VARIABLES order,   \* everything accepted, in the order of acceptance
          batch,   \* the requests being served
          over,    \* what the scheduler has done with
          closed   \* shut down: nothing enters any more

abstractVars == <<order, batch, over, closed>>

Position(e) == CHOOSE i \in DOMAIN order : order[i] = e
Before(e) == {order[i] : i \in 1..(Position(e) - 1)}
Waiting == Range(order) \ (batch \cup over)

AbstractInit == order = <<>> /\ batch = {} /\ over = {} /\ closed = FALSE

Accept(e) ==
  /\ ~closed
  /\ e \notin Range(order)
  /\ order' = Append(order, e)
  /\ UNCHANGED <<batch, over, closed>>

\* The oldest waiting requests, up to the next flush.
Admit(S) ==
  /\ ~closed
  /\ S # {}
  /\ S \subseteq Waiting \cap Request
  /\ Cardinality(batch \cup S) <= MaxBatch
  /\ \A r \in S : Before(r) \subseteq over \cup ((batch \cup S) \cap Request)
  /\ batch' = batch \cup S
  /\ UNCHANGED <<order, over, closed>>

Leave(S) ==
  /\ S # {}
  /\ S \subseteq batch
  /\ batch' = batch \ S
  /\ over' = over \cup S
  /\ UNCHANGED <<order, closed>>

\* A waiting request whose client has gone is dropped without being served.
Drop(r) ==
  /\ r \in Waiting \cap Request
  /\ over' = over \cup {r}
  /\ UNCHANGED <<order, batch, closed>>

Run(f) ==
  /\ f \in Waiting \cap Flush
  /\ batch = {}
  /\ Before(f) \subseteq over
  /\ over' = over \cup {f}
  /\ UNCHANGED <<order, batch, closed>>

\* Shutdown gives up any of what is waiting, at once or later.
GiveUp(S) ==
  /\ S \subseteq Waiting
  /\ closed' = TRUE
  /\ over' = over \cup S
  /\ UNCHANGED <<order, batch>>

AbstractNext ==
  \/ \E e \in Request \cup Flush : Accept(e)
  \/ \E S \in SUBSET Request : Admit(S) \/ Leave(S)
  \/ \E r \in Request : Drop(r)
  \/ \E f \in Flush : Run(f)
  \/ \E S \in SUBSET (Request \cup Flush) : GiveUp(S)

AbstractSpec == AbstractInit /\ [][AbstractNext]_abstractVars
=============================================================================

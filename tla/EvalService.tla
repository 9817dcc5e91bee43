----------------------------- MODULE EvalService -----------------------------
(***************************************************************************)
(* What a batch evaluation service promises a search (the contract of      *)
(* BackendComputation in neural/backend.h): a computation collects         *)
(* requests, ComputeBlocking returns only when every one of them has its   *)
(* result, and a computation is given up with no request outstanding.      *)
(* The service evaluates requests in any order, singly or together.        *)
(***************************************************************************)
CONSTANTS
  Groups,   \* computations
  Tickets   \* names for outstanding requests

VARIABLES
  pending,  \* the requests of each computation that have no result yet
  phase     \* where the owner of each computation is

svars == <<pending, phase>>

SInit ==
  /\ pending = [g \in Groups |-> {}]
  /\ phase = [g \in Groups |-> "out"]

Move(g, from, to) ==
  /\ phase[g] = from
  /\ phase' = [phase EXCEPT ![g] = to]

\* A search begins or ends; a new computation is created: nothing outstanding.
Enter(g) == pending[g] = {} /\ Move(g, "out", "searching") /\ UNCHANGED pending
Leave(g) == pending[g] = {} /\ Move(g, "searching", "out") /\ UNCHANGED pending
Open(g) == pending[g] = {} /\ Move(g, "searching", "gathering") /\ UNCHANGED pending

Request(g, r) ==
  /\ phase[g] = "gathering"
  /\ \A h \in Groups : r \notin pending[h]
  /\ pending' = [pending EXCEPT ![g] = @ \cup {r}]
  /\ UNCHANGED phase

\* The service writes the results of some requests.
Evaluate ==
  /\ \A g \in Groups : pending'[g] \subseteq pending[g]
  /\ DOMAIN pending' = Groups
  /\ UNCHANGED phase

Await(g) == Move(g, "gathering", "waiting") /\ UNCHANGED pending

\* ComputeBlocking returns, at once or after a wait.
Return(g) ==
  /\ pending[g] = {}
  /\ Move(g, "gathering", "searching") \/ Move(g, "waiting", "searching")
  /\ UNCHANGED pending

SNext ==
  \/ \E g \in Groups : \/ Enter(g) \/ Leave(g) \/ Open(g)
                       \/ \E r \in Tickets : Request(g, r)
                       \/ Await(g) \/ Return(g)
  \/ Evaluate

SSpec == SInit /\ [][SNext]_svars
=============================================================================

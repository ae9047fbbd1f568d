------------------------------ MODULE Pedidos ------------------------------
(* The requests of the site: each is served by a gunicorn worker, one statement *)
(* of it at a time, and its local variables die with it. The modules that       *)
(* extend this one add the tables that those statements read and write.         *)
EXTENDS Naturals

CONSTANTS
  Workers,     \* processes that serve requests
  MaxRequests, \* bound: requests
  MaxCrashes,  \* bound: processes that die
  None

ASSUME PedidosAssumption == MaxRequests \in Nat /\ MaxCrashes \in Nat

VARIABLES
  pc, task,    \* worker -> step, local variables of its request
  requests, crashes

requestVars == <<pc, task, requests, crashes>>

Step(w, from, to) == pc[w] = from /\ pc' = [pc EXCEPT ![w] = to]

Keep(w, t) == task' = [task EXCEPT ![w] = t]

Counted == requests < MaxRequests /\ requests' = requests + 1

Begin(w, to, t) == Counted /\ Step(w, "idle", to) /\ Keep(w, t) /\ UNCHANGED crashes

\* A request whose effect is one statement.
AtOnce(w) == Counted /\ pc[w] = "idle" /\ UNCHANGED <<pc, task, crashes>>

End(w, from) == Step(w, from, "idle") /\ Keep(w, None)

\* The process of a request dies in the middle of it.
Dies(w) ==
  /\ pc[w] # "idle" /\ End(w, pc[w])
  /\ crashes < MaxCrashes /\ crashes' = crashes + 1
  /\ UNCHANGED requests

RequestsInit ==
  /\ pc = [w \in Workers |-> "idle"] /\ task = [w \in Workers |-> None]
  /\ requests = 0 /\ crashes = 0

-----------------------------------------------------------------------------
\* A table is a function of the identifiers of its rows.
Put(table, id, row) == [k \in DOMAIN table \cup {id} |-> IF k = id THEN row ELSE table[k]]
Without(table, ids) == [k \in DOMAIN table \ ids |-> table[k]]
=============================================================================

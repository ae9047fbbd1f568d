----------------------------- MODULE MCPedidos -----------------------------
(* A history variable that tells the requests no other request has overlapped. *)
EXTENDS Pedidos, TLC

VARIABLE alone \* worker -> its request has had the database to itself so far

AloneInit == alone = [w \in Workers |-> TRUE]

AloneNext ==
  alone' = [w \in Workers |->
             \/ pc'[w] = "idle"
             \/ /\ alone[w] /\ \A v \in Workers \ {w} : pc[v] = "idle" /\ pc'[v] = "idle"
                /\ pc'[w] # pc[w] \/ requests' = requests]

\* w ends, in this step, a request that has run alone and has not died.
EndsAlone(w, from) == alone[w] /\ pc[w] = from /\ pc'[w] = "idle" /\ crashes' = crashes
=============================================================================

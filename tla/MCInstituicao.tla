---------------------------- MODULE MCInstituicao ----------------------------
(* Small instances of Instituicao for TLC. *)
EXTENDS Instituicao, MCPedidos

\* Sums of the most and of just more than the tolerance allows.
MCOffered == {[MAC |-> 400, Exame |-> 610], [MAC |-> 400, Exame |-> 611]}

Symmetry == Permutations(Workers) \cup Permutations(Usernames)

MCInit == Init /\ AloneInit

MCNext == Next /\ AloneNext

MCSpec == MCInit /\ [][MCNext]_<<vars, alone>>

\* create_local_node: a wizard that runs alone to its end leaves the private key
\* of the one node there is, which is the node of the one institution.
AloneNodeHasKey ==
  [][\A w \in Workers :
       EndsAlone(w, "node") =>
         /\ nodes' = {[id |-> IF NodeId = None THEN w ELSE NodeId,
                       institution |-> w, key |-> privateKey']}
         /\ institutions' = {w}]_<<vars, alone>>

\* InstitutionEditForm leaves the formula out, "tem o seu próprio ecrã": editing
\* the institution alone leaves the formula as it is.
AloneKeepsFormula ==
  [][\A w \in Workers : EndsAlone(w, "edit") => formula' = formula]_<<vars, alone>>
=============================================================================

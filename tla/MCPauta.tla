------------------------------- MODULE MCPauta -------------------------------
(* Small instances of Pauta for TLC, with two history variables: the requests  *)
(* no other request has overlapped, and those a closing has overtaken.         *)
EXTENDS Pauta, TLC

Symmetry == Permutations(Grades) \cup Permutations(Cells) \cup Permutations(Workers)

VARIABLES
  alone,    \* worker -> its request has had the database to itself so far
  overtaken \* closed grade -> workers still busy with what they were doing when it was closed

Closed(db, g) == g \in DOMAIN db /\ db[g].closed

MCInit ==
  /\ Init
  /\ alone = [w \in Workers |-> TRUE]
  /\ overtaken = [g \in Grades |-> {}]

MCNext ==
  /\ Next
  /\ alone' = [w \in Workers |->
                pc'[w] = "idle" \/ (alone[w] /\ \A v \in Workers \ {w} : pc'[v] = "idle")]
  /\ overtaken' = [g \in Grades |->
                    {w \in Workers : /\ pc'[w] # "idle" /\ Closed(grades', g)
                                     /\ Closed(grades, g) => w \in overtaken[g]}]

MCSpec == MCInit /\ [][MCNext]_<<vars, alone, overtaken>> /\ Fairness

\* What the operations on a grade promise (PautaServico).
Servico == INSTANCE PautaServico

\* Every operation on a grade is indivisible: whatever races have gone before, the
\* split reads, checks and writes of a request that runs alone have the effect of
\* the operations promised. Among them, "a partir daí, cada uma delas só pode
\* voltar a ser editada via reabrir_pauta" (homologar_pauta).
ImplementsPauta ==
  Servico!Init /\ [][(\E w \in Workers : pc[w] # "idle" /\ alone[w]) => Servico!Next]_grades

\* homologar_pauta, "a partir daí, cada uma delas só pode voltar a ser editada via
\* reabrir_pauta": although the flag is looked at before the row is written, and
\* loops write rows read long ago, a closed grade is only changed by a request the
\* closing has overtaken, and by reabrir_pauta, which opens it with a justification.
ClosedAgainstLateRequests ==
  [][\A g \in DOMAIN grades, w \in Workers :
       /\ grades[g].closed /\ grades'[g] # grades[g]
       /\ held'[w] # held[w] /\ w \notin overtaken[g]
       => pc[w] = "reabrir" /\ ~grades'[g].closed /\ grades'[g].reason]_vars
=============================================================================

-------------------------- MODULE MCMatriculaRaces --------------------------
(* Matricula for TLC, with two history variables: whether requests and tasks   *)
(* have run one at a time so far, and how often the daily task has written a   *)
(* closed row back as active.                                                  *)
EXTENDS MCMatricula

VARIABLES serial, revived

MCInit == Init /\ serial = TRUE /\ revived = 0

Revives == \E e \in DOMAIN rows : rows[e].status \in ClosedStatuses /\ e \in Live(rows')

MCNext ==
  /\ Next
  /\ serial' = (serial /\ \A v, w \in Workers : pc'[v] # "idle" /\ pc'[w] # "idle" => v = w)
  /\ revived' = IF Revives THEN revived + 1 ELSE revived

MCSpec == MCInit /\ [][MCNext]_<<vars, serial, revived>>

\* RF-MAT-07, "não excede o número máximo de inscritos": without confirmation,
\* requests that race past the capacity check overfill a class by at most the
\* number of web workers less one, and by the rows the daily task brings back;
\* requests served one at a time never overfill it.
OverbookingBounded ==
  \A c \in Classes :
    LET live == Cardinality(LiveInClass(rows, c))
        allowed == Cardinality({w \in Workers : pc[w] \in {"number", "insert"} /\ req[w].class = c})
    IN /\ live + allowed <= Capacity[c] + Cardinality(WebWorkers) - 1 + revived
       /\ serial => live <= Capacity[c]

\* Every operation is indivisible: as long as they run one at a time, the split
\* checks and writes have the effect of the service's promises. Among them, a
\* closed enrolment never changes again (MatriculaJaEncerradaError).
ImplementsService == Servico!Init /\ [][serial' => Servico!Next]_<<rows, started>>
=============================================================================

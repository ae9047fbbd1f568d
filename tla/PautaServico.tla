----------------------------- MODULE PautaServico -----------------------------
(***************************************************************************)
(* What apps/grading promises about the grades of a pauta (RF-AVAL-04),    *)
(* each operation as one indivisible step over the Grade table: a cell is  *)
(* launched once, an open grade is corrected, a closed one is only opened  *)
(* again, with a justification.  Pauta implements it when a request runs   *)
(* alone.                                                                  *)
(***************************************************************************)
EXTENDS Naturals

CONSTANTS Grades, Cells

VARIABLE grades

Scale == 0 .. 20

\* lancar_ou_atualizar_nota, of a cell without a grade.
Launch(g, c, v) ==
  /\ g \notin DOMAIN grades
  /\ \A h \in DOMAIN grades : grades[h].cell # c
  /\ grades' = [x \in DOMAIN grades \cup {g} |->
                  IF x = g THEN [cell |-> c, value |-> v, closed |-> FALSE, reason |-> FALSE]
                  ELSE grades[x]]

\* lancar_ou_atualizar_nota of a cell with a grade, atualizar_nota_pauta; with
\* the closed flag, GradeAdminForm.
Correct(g, v, closed) ==
  /\ g \in DOMAIN grades /\ ~grades[g].closed
  /\ grades' = [grades EXCEPT ![g].value = v, ![g].closed = closed]

\* homologar_pauta and reabrir_pauta, of one grade.
Close(g) ==
  /\ g \in DOMAIN grades /\ ~grades[g].closed
  /\ grades' = [grades EXCEPT ![g].closed = TRUE]

Reopen(g) ==
  /\ g \in DOMAIN grades /\ grades[g].closed
  /\ grades' = [grades EXCEPT ![g].closed = FALSE, ![g].reason = TRUE]

Init == grades = [g \in {} |-> 0]

Next ==
  \E g \in Grades :
    \/ \E v \in Scale : \/ \E closed \in BOOLEAN : Correct(g, v, closed)
                        \/ \E c \in Cells : Launch(g, c, v)
    \/ Close(g) \/ Reopen(g)

Spec == Init /\ [][Next]_grades

=============================================================================

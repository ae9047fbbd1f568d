--------------------------- MODULE MatriculaServico ---------------------------
(***************************************************************************)
(* What enroll_student, transferir_aluno, anular_matricula and the daily   *)
(* activation promise, each as one indivisible step over the Enrollment    *)
(* table.  Matricula implements it when one worker runs at a time.         *)
(***************************************************************************)
EXTENDS Naturals, FiniteSets

CONSTANTS Enrollments, Students, Classes, Years, YearOf, Capacity, ForceOptions, None

VARIABLES rows, started

vars == <<rows, started>>

ActiveStatuses == {"pending", "active"}
ClosedStatuses == {"cancelled", "transferred", "completed"}

Year(r) == YearOf[r.class]
Live == {e \in DOMAIN rows : rows[e].status \in ActiveStatuses}
Occupied(c) == Cardinality({e \in Live : rows[e].class = c})

Used(y) == {rows[e].number : e \in {x \in DOMAIN rows : Year(rows[x]) = y}}

\* The student has no live enrolment but `closed` in the year of class c, and
\* the class has a vacancy or the Secretaria confirmed without one.
MayEnrol(s, c, force, closed) ==
  /\ \A e \in Live \ closed : rows[e].student = s => Year(rows[e]) # YearOf[c]
  /\ force \/ Occupied(c) < Capacity[c]

\* The row of a new enrolment; in each year numbers run from 1 without gaps.
New(s, c, previous) ==
  [student |-> s, class |-> c, status |-> "pending", reason |-> FALSE,
   number |-> Cardinality(Used(YearOf[c])) + 1, previous |-> previous]

Enrol(e, s, c, force) ==
  /\ e \notin DOMAIN rows
  /\ MayEnrol(s, c, force, {})
  /\ \E p \in {None} \cup {x \in DOMAIN rows : rows[x].student = s} :
       rows' = [x \in DOMAIN rows \cup {e} |-> IF x = e THEN New(s, c, p) ELSE rows[x]]
  /\ UNCHANGED started

Transfer(old, e, c, force) ==
  /\ old \in Live /\ e \notin DOMAIN rows
  /\ c # rows[old].class
  /\ MayEnrol(rows[old].student, c, force, {old})
  /\ rows' = [x \in DOMAIN rows \cup {e} |->
       IF x = e THEN New(rows[old].student, c, old)
       ELSE IF x = old THEN [rows[old] EXCEPT !.status = "transferred"]
       ELSE rows[x]]
  /\ UNCHANGED started

Cancel(e) ==
  /\ e \in Live
  /\ rows' = [rows EXCEPT ![e].status = "cancelled", ![e].reason = TRUE]
  /\ UNCHANGED started

Activate(e) ==
  /\ e \in DOMAIN rows /\ rows[e].status = "pending"
  /\ Year(rows[e]) \in started
  /\ rows' = [rows EXCEPT ![e].status = "active"]
  /\ UNCHANGED started

YearStarts(y) == started' = started \cup {y} /\ UNCHANGED rows

Init == rows = [e \in {} |-> None] /\ started = {}

Next ==
  \/ \E e \in Enrollments, c \in Classes, force \in ForceOptions :
       \/ \E s \in Students : Enrol(e, s, c, force)
       \/ \E old \in Enrollments : Transfer(old, e, c, force)
  \/ \E e \in Enrollments : Cancel(e) \/ Activate(e)
  \/ \E y \in Years : YearStarts(y)

Spec == Init /\ [][Next]_vars

=============================================================================

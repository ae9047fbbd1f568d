----------------------------- MODULE SituacaoFinal -----------------------------
(***************************************************************************)
(* The final situation of an enrolment (calcular_situacao_final) and what  *)
(* it is computed from: the averages of the terms with their manual        *)
(* adjustments, the recurso grades and the attendance of Assiduidade.      *)
(* apps/grading/services.py.                                               *)
(*                                                                         *)
(* The workers, their memory and the granularity are those of Assiduidade. *)
(* The subjects are those of the curricular year of the enrolments; the    *)
(* weighted average of the grades of a term is an input.                   *)
(***************************************************************************)
EXTENDS Assiduidade

CONSTANTS
  Students,
  StudentOf,      \* enrolment -> student
  Terms,
  Values,         \* averages, adjustments and classifications
  MaxRecoverable  \* institution.max_recoverable_subjects

ASSUME StudentsAssumption == StudentOf \in [Enrolments -> Students]
ASSUME TermsAssumption == IsFiniteSet(Terms)
ASSUME ValuesAssumption == Values \subseteq 0 .. 20 /\ None \notin Nat
ASSUME RecoverableAssumption == MaxRecoverable \in Nat

VARIABLES
  finals,    \* the FinalGrade table: <<enrolment, subject, term>> -> row
  recurso,   \* grades of type "Exame de Recurso": <<student, subject, term>> -> value
  situation  \* the FinalSituation table: enrolment -> row

tables == <<finals, recurso, situation>>
vars == <<attendanceVars, tables>>

-----------------------------------------------------------------------------
(* Data *)

PassingGrade == 10

\* unique_per_enrollment_subject_term makes the key.
FinalKey == Enrolments \X Subjects \X Terms
FinalGrade == [calculated: Values, override: Values \cup {None}]

RecursoKey == Students \X Subjects \X Terms

Situations == {"approved", "pending_recovery", "failed"}

\* What the transactions after each other have stored: the status is saved
\* before the failed subjects are set.
FinalSituation == [status: Situations, failed_subjects: SUBSET Subjects]

FinalValue(row) == IF row.override # None THEN row.override ELSE row.calculated

Assessed(e, s) == {t \in Terms : <<e, s, t>> \in DOMAIN finals}

\* annual_average < PASSING_GRADE, of the subjects that have a final grade.
LowAverage(e, s) ==
  /\ Assessed(e, s) # {}
  /\ MapThenSumSet(LAMBDA t : FinalValue(finals[<<e, s, t>>]), Assessed(e, s))
       < PassingGrade * Cardinality(Assessed(e, s))

HasPassedRecurso(e, s) ==
  \E t \in Terms : /\ <<StudentOf[e], s, t>> \in DOMAIN recurso
                   /\ recurso[<<StudentOf[e], s, t>>] >= PassingGrade

StatusOf(failed) ==
  IF failed = {} THEN "approved"
  ELSE IF Cardinality(failed) <= MaxRecoverable THEN "pending_recovery"
  ELSE "failed"

-----------------------------------------------------------------------------
(* registar_media_final and ajustar_media_manualmente: the row is read and *)
(* then saved whole.                                                       *)

RegistarMedia(w, k, v) ==
  /\ Receive(w, "media", [key |-> k, value |-> v,
                          row |-> IF k \in DOMAIN finals THEN finals[k] ELSE None])
  /\ UNCHANGED <<attendance, tables>>

\* Fault: update_or_create with defaults for every field.
SaveMediaWhole(w) ==
  /\ pc[w] = "media"
  /\ finals' = With(finals, task[w].key, [calculated |-> task[w].value, override |-> None])
  /\ Release(w)
  /\ UNCHANGED <<attendance, recurso, situation>>

SaveMedia(w) ==
  /\ pc[w] = "media"
  /\ LET k == task[w].key
         v == task[w].value
     IN  IF task[w].row # None
         THEN finals' = With(finals, k, [task[w].row EXCEPT !.calculated = v])
         ELSE IF k \notin DOMAIN finals
         THEN finals' = With(finals, k, [calculated |-> v, override |-> None])
         ELSE UNCHANGED finals                    \* ValidationError
  /\ Release(w)
  /\ UNCHANGED <<attendance, recurso, situation>>

\* ajustar_media_manualmente; a blank reason is refused without a change.
Adjusted(row, v) == [row EXCEPT !.override = v]

\* FinalGradeAdmin.save_model, the only screen of an adjustment: it is put in the
\* row loaded, or, with None, taken out of it.
AjustarMedia(w, k, v) ==
  /\ k \in DOMAIN finals
  /\ Receive(w, "ajuste", [key |-> k, row |-> Adjusted(finals[k], v)])
  /\ UNCHANGED <<attendance, tables>>

SaveAjuste(w) ==
  /\ pc[w] = "ajuste"
  /\ finals' = With(finals, task[w].key, task[w].row)
  /\ Release(w)
  /\ UNCHANGED <<attendance, recurso, situation>>

-----------------------------------------------------------------------------
(* calcular_situacao_final, for every enrolment of the form of             *)
(* final_situation_view or for the one of a recurso grade.                 *)

Calculation(queue, e) ==
  [queue |-> queue, enrolment |-> e, todo |-> Subjects, subject |-> None,
   failed |-> {}, found |-> FALSE, old |-> {}]

SituacaoRequest(w, selected) ==
  /\ \E e \in selected : Receive(w, "average", Calculation(selected \ {e}, e))
  /\ UNCHANGED <<attendance, tables>>

\* The next subject: one query for its final grades.
Average(w, s) ==
  /\ pc[w] = "average"
  /\ s \in task[w].todo
  /\ Continue(w, IF LowAverage(task[w].enrolment, s) THEN "passed" ELSE "absences",
              [task[w] EXCEPT !.todo = @ \ {s}, !.subject = s])
  /\ UNCHANGED <<attendance, tables>>

Fail(w) == Continue(w, "average", [task[w] EXCEPT !.failed = @ \cup {task[w].subject}])

\* _has_passed_recurso
Passed(w) ==
  /\ pc[w] = "passed"
  /\ IF HasPassedRecurso(task[w].enrolment, task[w].subject)
     THEN Continue(w, "absences", task[w])
     ELSE Fail(w)
  /\ UNCHANGED <<attendance, tables>>

Faltas(w) ==
  /\ pc[w] = "absences"
  /\ IF ExceedsLimit(task[w].enrolment, task[w].subject)
     THEN Fail(w)
     ELSE Continue(w, "average", task[w])
  /\ UNCHANGED <<attendance, tables>>

Find(w) ==
  /\ pc[w] = "average"
  /\ task[w].todo = {}
  /\ Continue(w, "status", [task[w] EXCEPT !.found = task[w].enrolment \in DOMAIN situation])
  /\ UNCHANGED <<attendance, tables>>

SaveStatus(w) ==
  /\ pc[w] = "status"
  /\ LET e == task[w].enrolment
         status == StatusOf(task[w].failed)
     IN  IF task[w].found
         THEN /\ situation' = [situation EXCEPT ![e].status = status]
              /\ Continue(w, "failed_subjects", task[w])
         ELSE IF e \notin DOMAIN situation
         THEN /\ situation' = With(situation, e, [status |-> status, failed_subjects |-> {}])
              /\ Continue(w, "failed_subjects", task[w])
         ELSE UNCHANGED situation /\ Release(w)   \* ValidationError
  /\ UNCHANGED <<attendance, finals, recurso>>

\* failed_subjects.set() compares with the subjects it reads ...
ReadFailed(w) ==
  /\ pc[w] = "failed_subjects"
  /\ Continue(w, "set", [task[w] EXCEPT !.old = situation[task[w].enrolment].failed_subjects])
  /\ UNCHANGED <<attendance, tables>>

NextEnrolment(w) ==
  IF task[w].queue = {}
  THEN Release(w)
  ELSE \E e \in task[w].queue :
         Continue(w, "average", Calculation(task[w].queue \ {e}, e))

\* Fault: add() in the place of set().
AddFailed(w) ==
  /\ pc[w] = "set"
  /\ situation' = [situation EXCEPT ![task[w].enrolment].failed_subjects = @ \cup task[w].failed]
  /\ NextEnrolment(w)
  /\ UNCHANGED <<attendance, finals, recurso>>

\* ... and removes and adds the differences in one transaction.
SetFailed(w) ==
  /\ pc[w] = "set"
  /\ LET old == task[w].old
         failed == task[w].failed
     IN  situation' = [situation EXCEPT ![task[w].enrolment].failed_subjects =
                         (@ \ (old \ failed)) \cup (failed \ old)]
  /\ NextEnrolment(w)
  /\ UNCHANGED <<attendance, finals, recurso>>

-----------------------------------------------------------------------------
(* lancar_nota_recurso *)

\* Fault: the failed subjects are not consulted.
RecursoOfAny(w, e, s, t, v) ==
  /\ Receive(w, "search", [enrolment |-> e, key |-> <<StudentOf[e], s, t>>,
                           value |-> v, found |-> FALSE])
  /\ UNCHANGED <<attendance, tables>>

\* Any other subject: DisciplinaNaoEstaEmRecursoError.
RecursoRequest(w, e, s, t, v) ==
  /\ e \in DOMAIN situation
  /\ s \in situation[e].failed_subjects
  /\ Receive(w, "search", [enrolment |-> e, key |-> <<StudentOf[e], s, t>>,
                           value |-> v, found |-> FALSE])
  /\ UNCHANGED <<attendance, tables>>

SearchNota(w) ==
  /\ pc[w] = "search"
  /\ Continue(w, "nota", [task[w] EXCEPT !.found = task[w].key \in DOMAIN recurso])
  /\ UNCHANGED <<attendance, tables>>

SaveNota(w) ==
  /\ pc[w] = "nota"
  /\ \/ /\ task[w].found \/ task[w].key \notin DOMAIN recurso
        /\ recurso' = With(recurso, task[w].key, task[w].value)
        /\ Continue(w, "average", Calculation({}, task[w].enrolment))
     \/ /\ task[w].key \in DOMAIN recurso      \* GradeReportClosedError, ValidationError
        /\ UNCHANGED recurso
        /\ Release(w)
  /\ UNCHANGED <<attendance, finals, situation>>

-----------------------------------------------------------------------------
Init ==
  /\ AttendanceInit
  /\ finals = NoRows
  /\ recurso = NoRows
  /\ situation = NoRows

Receives(w) ==
  \/ \E k \in FinalKey, v \in Values : RegistarMedia(w, k, v)
  \/ \E k \in FinalKey, v \in Values \cup {None} : AjustarMedia(w, k, v)
  \/ \E selected \in SUBSET Enrolments : SituacaoRequest(w, selected)
  \/ \E e \in Enrolments, s \in Subjects, t \in Terms, v \in Values : RecursoRequest(w, e, s, t, v)

Step(w) ==
  \/ SaveMedia(w) \/ SaveAjuste(w)
  \/ \E s \in Subjects : Average(w, s)
  \/ Passed(w) \/ Faltas(w) \/ Find(w) \/ SaveStatus(w) \/ ReadFailed(w) \/ SetFailed(w)
  \/ SearchNota(w) \/ SaveNota(w)

Next ==
  \E w \in Workers : \/ Receives(w)
                     \/ Step(w)
                     \/ AttendanceStep(w) /\ UNCHANGED tables
                     \/ Crash(w) /\ UNCHANGED <<attendance, tables>>

Spec == Init /\ [][Next]_vars

-----------------------------------------------------------------------------
(* Properties *)

Media == [key: FinalKey, value: Values, row: FinalGrade \cup {None}]
Ajuste == [key: FinalKey, row: FinalGrade]
Nota == [enrolment: Enrolments, key: RecursoKey, value: Values, found: BOOLEAN]
Calculations == [queue: SUBSET Enrolments, enrolment: Enrolments, todo: SUBSET Subjects,
                 subject: Subjects \cup {None}, failed: SUBSET Subjects, found: BOOLEAN,
                 old: SUBSET Subjects]

Calculating == {"average", "passed", "absences", "status", "failed_subjects", "set"}
Steps == Calculating \cup {"idle", "grid", "justify", "media", "ajuste", "search", "nota"}

TaskOK(w) ==
  /\ pc[w] = "grid" => GridOK(task[w])
  /\ pc[w] = "justify" => task[w] \in Justification
  /\ pc[w] = "media" => task[w] \in Media
  /\ pc[w] = "ajuste" => task[w] \in Ajuste
  /\ pc[w] \in {"search", "nota"} => task[w] \in Nota
  /\ pc[w] \in Calculating => task[w] \in Calculations
  /\ pc[w] \in {"passed", "absences"} => task[w].subject \in Subjects
  /\ pc[w] \in {"failed_subjects", "set"} => task[w].enrolment \in DOMAIN situation
  /\ pc[w] = "status" /\ task[w].found => task[w].enrolment \in DOMAIN situation

TypeOK ==
  /\ Partial(attendance, Key, Row)
  /\ Partial(finals, FinalKey, FinalGrade)
  /\ Partial(recurso, RecursoKey, Values)
  /\ Partial(situation, Enrolments, FinalSituation)
  /\ pc \in [Workers -> Steps]
  /\ DOMAIN task = Workers
  /\ \A w \in Workers : TaskOK(w)
  /\ served \in 0 .. MaxRequests
  /\ crashes \in 0 .. MaxCrashes

\* "uma disciplina sem nenhum ainda não entra na avaliação, não conta como
\* reprovada por omissão": whatever requests race or die, a subject is in arrears
\* only if it has a final grade or an attendance record, and an exam of recurso
\* has been sat only for such a subject.
Evidence(e, s) ==
  \/ Assessed(e, s) # {}
  \/ \E l \in Lessons : SubjectOf[l] = s /\ <<e, l>> \in DOMAIN attendance

NothingByOmission ==
  /\ \A e \in DOMAIN situation : \A s \in situation[e].failed_subjects : Evidence(e, s)
  /\ \A k \in DOMAIN recurso : \E e \in Enrolments : StudentOf[e] = k[1] /\ Evidence(e, k[2])
=============================================================================

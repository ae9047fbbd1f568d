------------------------------ MODULE Assiduidade ------------------------------
(***************************************************************************)
(* Attendance: the grid that marks a whole class in one lesson             *)
(* (registar_presencas), the justification of an absence (justificar_falta)*)
(* and the hours of absence counted from them (calcular_assiduidade).      *)
(*                                                                         *)
(* The views run without a transaction and without a lock: an action is    *)
(* one committed statement with the Python code after it, and a save       *)
(* writes every column of the row the request holds in memory (task).      *)
(* A lesson is a schedule on one of its days and the user is its teacher:  *)
(* any other request is answered without a change.                         *)
(***************************************************************************)
EXTENDS Naturals, FiniteSets, FiniteSetsExt

CONSTANTS
  Enrolments,
  Subjects,
  Lessons,     \* a schedule and a date
  SubjectOf,   \* lesson -> subject
  Hours,       \* lesson -> its duration
  LimitHours,  \* subject -> multiplier times weekly hours
  Texts,       \* texts of a justification
  Blank,       \* the empty text
  Workers,     \* gunicorn workers
  MaxRequests, \* bound: how many requests are served
  MaxCrashes,  \* bound: how often a worker may die
  None

ASSUME FiniteAssumption == IsFiniteSet(Lessons)
ASSUME LessonsAssumption == /\ SubjectOf \in [Lessons -> Subjects]
                            /\ Hours \in [Lessons -> Nat \ {0}]
                            /\ LimitHours \in [Subjects -> Nat]
ASSUME BlankAssumption == Blank \in Texts
ASSUME BoundsAssumption == MaxRequests \in Nat /\ MaxCrashes \in Nat

VARIABLES
  attendance, \* the Attendance table: <<enrolment, lesson>> -> row
  pc,         \* per worker: the statement it runs next
  task,       \* per worker: what its request holds in memory
  served,     \* requests received
  crashes

requests == <<pc, task, served, crashes>>
attendanceVars == <<attendance, requests>>

-----------------------------------------------------------------------------
(* Data *)

Status == {"present", "absent", "justified_absent"}
Absences == {"absent", "justified_absent"}

\* unique_attendance_per_enrollment_schedule_date makes the key.
Key == Enrolments \X Lessons
Row == [status: Status, text: Texts]

With(f, k, row) == [x \in DOMAIN f \cup {k} |-> IF x = k THEN row ELSE f[x]]
Without(f, k) == [x \in DOMAIN f \ {k} |-> f[x]]

\* calcular_assiduidade: the hours of unjustified absence, and the legal limit.
UnjustifiedHours(e, s) ==
  MapThenSumSet(LAMBDA l : Hours[l],
                {l \in Lessons : /\ SubjectOf[l] = s
                                 /\ <<e, l>> \in DOMAIN attendance
                                 /\ attendance[<<e, l>>].status = "absent"})

ExceedsLimit(e, s) == UnjustifiedHours(e, s) > LimitHours[s]

-----------------------------------------------------------------------------
(* Requests *)

Receive(w, step, t) ==
  /\ pc[w] = "idle"
  /\ served < MaxRequests
  /\ served' = served + 1
  /\ pc' = [pc EXCEPT ![w] = step]
  /\ task' = [task EXCEPT ![w] = t]
  /\ UNCHANGED crashes

Release(w) ==
  /\ pc' = [pc EXCEPT ![w] = "idle"]
  /\ task' = [task EXCEPT ![w] = None]
  /\ UNCHANGED <<served, crashes>>

Continue(w, step, t) ==
  /\ pc' = [pc EXCEPT ![w] = step]
  /\ task' = [task EXCEPT ![w] = t]
  /\ UNCHANGED <<served, crashes>>

Crash(w) ==
  /\ pc[w] # "idle"
  /\ crashes < MaxCrashes
  /\ crashes' = crashes + 1
  /\ pc' = [pc EXCEPT ![w] = "idle"]
  /\ task' = [task EXCEPT ![w] = None]
  /\ UNCHANGED served

-----------------------------------------------------------------------------
(* attendance_grid_view: the rows of the lesson are read once, then every  *)
(* enrolment of the form is saved or created on its own.                   *)

GridRequest(w, l, statuses) ==
  /\ Receive(w, "grid", [lesson |-> l,
                         todo |-> statuses,
                         rows |-> [e \in {e \in Enrolments : <<e, l>> \in DOMAIN attendance}
                                     |-> attendance[<<e, l>>]]])
  /\ UNCHANGED attendance

\* Fault: an existing row is written anew, without its justification.
MarkReplaces(w, e) ==
  /\ pc[w] = "grid"
  /\ e \in DOMAIN task[w].todo
  /\ attendance' = With(attendance, <<e, task[w].lesson>>,
                        [status |-> task[w].todo[e], text |-> Blank])
  /\ Continue(w, "grid", [task[w] EXCEPT !.todo = Without(@, e)])

\* Fault: only absences are looked for among the existing rows.
MarkForgetsPresent(w, e) ==
  /\ pc[w] = "grid"
  /\ e \in DOMAIN task[w].todo
  /\ LET k == <<e, task[w].lesson>>
         status == task[w].todo[e]
         known == e \in DOMAIN task[w].rows /\ task[w].rows[e].status # "present"
     IN  IF known \/ k \notin DOMAIN attendance
         THEN /\ attendance' = With(attendance, k,
                   [status |-> status, text |-> IF known THEN task[w].rows[e].text ELSE Blank])
              /\ Continue(w, "grid", [task[w] EXCEPT !.todo = Without(@, e)])
         ELSE UNCHANGED attendance /\ Release(w)

Mark(w, e) ==
  /\ pc[w] = "grid"
  /\ e \in DOMAIN task[w].todo
  /\ LET k == <<e, task[w].lesson>>
         status == task[w].todo[e]
         known == e \in DOMAIN task[w].rows
     IN  IF known \/ k \notin DOMAIN attendance
         THEN /\ attendance' = With(attendance, k,
                   [status |-> status, text |-> IF known THEN task[w].rows[e].text ELSE Blank])
              /\ Continue(w, "grid", [task[w] EXCEPT !.todo = Without(@, e)])
         ELSE UNCHANGED attendance /\ Release(w)   \* ValidationError

MarkEnd(w) ==
  /\ pc[w] = "grid"
  /\ DOMAIN task[w].todo = {}
  /\ Release(w)
  /\ UNCHANGED attendance

-----------------------------------------------------------------------------
(* justify_absence_view *)

\* Any other row: EstadoInvalidoParaJustificacaoError.
JustifyRequest(w, k, text) ==
  /\ k \in DOMAIN attendance
  /\ attendance[k].status \in Absences
  /\ Receive(w, "justify", [key |-> k, row |-> [status |-> "justified_absent", text |-> text]])
  /\ UNCHANGED attendance

Justify(w) ==
  /\ pc[w] = "justify"
  /\ attendance' = With(attendance, task[w].key, task[w].row)
  /\ Release(w)

-----------------------------------------------------------------------------
NoRows == [k \in {} |-> None]

AttendanceInit ==
  /\ attendance = NoRows
  /\ pc = [w \in Workers |-> "idle"]
  /\ task = [w \in Workers |-> None]
  /\ served = 0
  /\ crashes = 0

\* The class of a lesson is whichever enrolments are pending or active.
AttendanceStep(w) ==
  \/ \E l \in Lessons, class \in SUBSET Enrolments :
       \E statuses \in [class -> Status] : GridRequest(w, l, statuses)
  \/ \E e \in Enrolments : Mark(w, e)
  \/ MarkEnd(w)
  \/ \E k \in Key, text \in Texts : JustifyRequest(w, k, text)
  \/ Justify(w)

AttendanceNext ==
  \E w \in Workers : AttendanceStep(w) \/ (Crash(w) /\ UNCHANGED attendance)

AttendanceSpec == AttendanceInit /\ [][AttendanceNext]_attendanceVars

-----------------------------------------------------------------------------
(* Properties *)

Partial(f, D, R) == DOMAIN f \subseteq D /\ \A x \in DOMAIN f : f[x] \in R

GridOK(t) ==
  /\ t.lesson \in Lessons
  /\ Partial(t.todo, Enrolments, Status)
  /\ Partial(t.rows, Enrolments, Row)

Justification == [key: Key, row: Row]

AttendanceTypeOK ==
  /\ Partial(attendance, Key, Row)
  /\ \A w \in Workers :
       \/ pc[w] = "idle" /\ task[w] = None
       \/ pc[w] = "grid" /\ GridOK(task[w])
       \/ pc[w] = "justify" /\ task[w] \in Justification /\ task[w].key \in DOMAIN attendance
  /\ served \in 0 .. MaxRequests
  /\ crashes \in 0 .. MaxCrashes
=============================================================================

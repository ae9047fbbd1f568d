------------------------------ MODULE Matricula ------------------------------
(***************************************************************************)
(* The yearly enrolment (Matrícula) of an inscribed student in a class:    *)
(* apps/enrollment/services.py, the save() of the Enrollment model and the *)
(* three views and the daily task that call them.                          *)
(*                                                                         *)
(* The program runs in several processes over one PostgreSQL database: the *)
(* gunicorn workers serve the views, the Django-Q cluster runs the daily   *)
(* activation.  Nothing sets ATOMIC_REQUESTS, so each statement outside    *)
(* transaction.atomic() commits by itself: an action below is one such     *)
(* statement with the Python code that follows it.  A row a worker has     *)
(* read stays in its memory (snap) and save() writes the whole row back.   *)
(*                                                                         *)
(* One institution is modelled; its rows never meet those of another one.  *)
(***************************************************************************)
EXTENDS Naturals, FiniteSets

CONSTANTS
  Enrollments,   \* identifiers (uuid7) that rows may get; bounds the inserts
  Students,
  Classes,
  Years,         \* academic years, ordered by start date
  YearOf,        \* SchoolClass.academic_year
  Capacity,      \* SchoolClass.max_enrollment
  WebWorkers,    \* processes that serve the views
  TaskWorkers,   \* processes that run the daily task
  ForceOptions,  \* values of the "force" field the Secretaria submits
  MaxCrashes,    \* bound: how often a process may die
  None

ASSUME EnrollmentsAssumption == IsFiniteSet(Enrollments) /\ None \notin Enrollments
ASSUME YearsAssumption == Years \subseteq Nat
ASSUME ClassesAssumption == /\ YearOf \in [Classes -> Years]
                            /\ Capacity \in [Classes -> Nat]
ASSUME ForceAssumption == ForceOptions \subseteq BOOLEAN /\ FALSE \in ForceOptions
ASSUME CrashAssumption == MaxCrashes \in Nat

VARIABLES
  rows,      \* the committed Enrollment table: identifier -> row
  started,   \* academic years with start_date <= today
  pc,        \* per worker: the statement it runs next
  req,       \* per worker: the enrolment being created
  batch,     \* per worker: students a bulk enrolment has still to enrol
  snap,      \* per worker: rows read and held in memory
  number,    \* per worker: enrollment_number given to the unsaved row
  crashes

vars == <<rows, started, pc, req, batch, snap, number, crashes>>
local == <<pc, req, batch, snap, number>>

Workers == WebWorkers \cup TaskWorkers

-----------------------------------------------------------------------------
(* Data *)

Status == {"pending", "active", "cancelled", "transferred", "completed"}
ActiveStatuses == {"pending", "active"}
ClosedStatuses == Status \ ActiveStatuses

\* reason: whether cancellation_reason is filled in.
Row == [student: Students, class: Classes, status: Status, reason: BOOLEAN,
        number: Nat, previous: Enrollments \cup {None}]

Request == [student: Students \cup {None}, class: Classes \cup {None},
            force: BOOLEAN, previous: Enrollments \cup {None}, closing: BOOLEAN]

NoRequest == [student |-> None, class |-> None, force |-> FALSE,
              previous |-> None, closing |-> FALSE]

EnrolSteps == {"check", "capacity", "number", "insert"}
Steps == EnrolSteps \cup {"idle", "cancel", "close", "job"}

NoRows == [e \in {} |-> None]

Year(r) == YearOf[r.class]

Live(db) == {e \in DOMAIN db : db[e].status \in ActiveStatuses}

LiveInYear(db, s, y) == {e \in Live(db) : db[e].student = s /\ Year(db[e]) = y}

\* active_enrollment_count() counts these.
LiveInClass(db, c) == {e \in Live(db) : db[e].class = c}

\* The row student_detail_view acts on: the first live one, latest year first.
Current(s) ==
  {e \in Live(rows) : /\ rows[e].student = s
                      /\ \A f \in Live(rows) :
                           rows[f].student = s => Year(rows[f]) <= Year(rows[e])}

\* Fault: MAX over the institution, the academic year forgotten.
IsNextNumberOfAll(db, y, n) ==
  /\ \A e \in DOMAIN db : db[e].number < n
  /\ n = 1 \/ \E e \in DOMAIN db : db[e].number = n - 1

\* MAX(enrollment_number) + 1 over the rows of a year.
IsNextNumber(db, y, n) ==
  /\ \A e \in DOMAIN db : Year(db[e]) = y => db[e].number < n
  /\ n = 1 \/ \E e \in DOMAIN db : Year(db[e]) = y /\ db[e].number = n - 1

-----------------------------------------------------------------------------
(* The database *)

\* The partial unique constraint on pending and active rows.
OneLivePerYear(db) ==
  \A e, f \in Live(db) :
    db[e].student = db[f].student /\ Year(db[e]) = Year(db[f]) => e = f

\* The unique constraint on enrollment_number.
DistinctNumbers(db) ==
  \A e, f \in DOMAIN db :
    Year(db[e]) = Year(db[f]) /\ db[e].number = db[f].number => e = f

\* The unique constraints of Enrollment.
Constraints(db) == OneLivePerYear(db) /\ DistinctNumbers(db)

\* Fault: clean() asks every row past "pending" for a reason.
CleanEveryStatus(r) == r.status # "pending" => r.reason

\* Enrollment.clean(): a cancelled row has a reason.
Clean(r) == r.status = "cancelled" => r.reason

\* transferir_aluno's transaction is open: the old row is updated, not committed.
InTransaction(w) == pc[w] \in EnrolSteps /\ req[w].closing

\* What the statements of worker w read: committed rows and its own update.
View(w) ==
  IF InTransaction(w)
  THEN [rows EXCEPT ![req[w].previous] =
          [snap[w][req[w].previous] EXCEPT !.status = "transferred"]]
  ELSE rows

\* No other worker holds the row lock of e.
Unlocked(w, e) == \A v \in Workers \ {w} : ~(InTransaction(v) /\ req[v].previous = e)

\* Writing r meets no index entry of a row another transaction is closing:
\* PostgreSQL waits for that transaction before it decides on uniqueness.
Settled(w, r) ==
  r.status \in ActiveStatuses =>
    \A e \in LiveInYear(rows, r.student, Year(r)) : Unlocked(w, e)

\* The identifiers the requests under way may use leave one for another n rows.
HasFreeIdentifiers(n) ==
  LET owed == UNION {{w} \X ({None} \cup batch[w]) :
                       w \in {v \in Workers : pc[v] \in EnrolSteps \cup {"close"}}}
  IN  Cardinality(Enrollments \ DOMAIN rows) >= Cardinality(owed) + n

-----------------------------------------------------------------------------
(* The end of a view or task, with or without success.  An exception rolls *)
(* back what the worker has not committed and keeps what it has.           *)

Release(w) ==
  /\ pc' = [pc EXCEPT ![w] = "idle"]
  /\ req' = [req EXCEPT ![w] = NoRequest]
  /\ batch' = [batch EXCEPT ![w] = {}]
  /\ snap' = [snap EXCEPT ![w] = NoRows]
  /\ number' = [number EXCEPT ![w] = 0]

\* save() of a row the worker holds: every column is written.
CanSave(e, r) == Clean(r) /\ Constraints([rows EXCEPT ![e] = r])
Save(e, r) == rows' = [rows EXCEPT ![e] = r]

Goto(w, step) == pc' = [pc EXCEPT ![w] = step]

-----------------------------------------------------------------------------
(* enrollment_create_view, bulk_enrollment_view, student_detail_view: what *)
(* the request carries, and the rows the view reads first.                 *)

Begin(w, s, c, force, previous, closing, rest) ==
  /\ req' = [req EXCEPT ![w] = [student |-> s, class |-> c, force |-> force,
                                previous |-> previous, closing |-> closing]]
  /\ batch' = [batch EXCEPT ![w] = rest]

\* The form's optional previous_enrollment is any enrolment of the student.
EnrolRequest(w, s, c, force) ==
  /\ w \in WebWorkers /\ pc[w] = "idle"
  /\ HasFreeIdentifiers(1)
  /\ \E p \in {None} \cup {e \in DOMAIN rows : rows[e].student = s} :
       Begin(w, s, c, force, p, FALSE, {})
  /\ Goto(w, "check")
  /\ UNCHANGED <<rows, started, snap, number, crashes>>

\* The batch is the selected students without any enrolment, read once.
BulkRequest(w, c, selected) ==
  /\ w \in WebWorkers /\ pc[w] = "idle"
  /\ HasFreeIdentifiers(Cardinality(selected))
  /\ \A e \in DOMAIN rows : rows[e].student \notin selected
  /\ \E s \in selected : Begin(w, s, c, FALSE, None, FALSE, selected \ {s})
  /\ Goto(w, "check")
  /\ UNCHANGED <<rows, started, snap, number, crashes>>

\* TransferForm offers every class but the current one, of any year.
TransferRequest(w, s, c, force) ==
  /\ w \in WebWorkers /\ pc[w] = "idle"
  /\ HasFreeIdentifiers(1)
  /\ \E e \in Current(s) :
       /\ c # rows[e].class
       /\ snap' = [snap EXCEPT ![w] = [x \in {e} |-> rows[x]]]
       /\ Begin(w, s, c, force, e, TRUE, {})
  /\ Goto(w, "close")
  /\ UNCHANGED <<rows, started, number, crashes>>

CancelRequest(w, s) ==
  /\ w \in WebWorkers /\ pc[w] = "idle"
  /\ \E e \in Current(s) : snap' = [snap EXCEPT ![w] = [x \in {e} |-> rows[x]]]
  /\ Goto(w, "cancel")
  /\ UNCHANGED <<rows, started, req, batch, number, crashes>>

\* Neither is possible without a live enrolment: the page is shown again.
NothingCurrent(w, s) ==
  /\ w \in WebWorkers /\ pc[w] = "idle"
  /\ Current(s) = {}
  /\ UNCHANGED vars

-----------------------------------------------------------------------------
(* anular_matricula *)

Anular(w, reason) ==
  /\ pc[w] = "cancel"
  /\ \E e \in DOMAIN snap[w] :
       LET r == [snap[w][e] EXCEPT !.status = "cancelled", !.reason = TRUE]
       IN  IF snap[w][e].status \in ActiveStatuses /\ reason /\ CanSave(e, r)
           THEN Unlocked(w, e) /\ Save(e, r)
           ELSE UNCHANGED rows
  /\ Release(w)
  /\ UNCHANGED <<started, crashes>>

-----------------------------------------------------------------------------
(* transferir_aluno, first half: check the status in memory, open the      *)
(* transaction, update the old row.                                        *)

\* Fault: no transaction, the closing commits by itself.
CloseOldAutocommit(w) ==
  /\ pc[w] = "close"
  /\ LET old == req[w].previous
     IN  IF snap[w][old].status \in ActiveStatuses
         THEN /\ Save(old, [snap[w][old] EXCEPT !.status = "transferred"])
              /\ Goto(w, "check")
              /\ UNCHANGED <<req, batch, snap, number>>
         ELSE UNCHANGED rows /\ Release(w)
  /\ UNCHANGED <<started, crashes>>

CloseOld(w) ==
  /\ pc[w] = "close"
  /\ IF snap[w][req[w].previous].status \in ActiveStatuses
     THEN /\ Unlocked(w, req[w].previous)
          /\ Goto(w, "check")
          /\ UNCHANGED <<req, batch, snap, number>>
     ELSE Release(w)
  /\ UNCHANGED <<rows, started, crashes>>

-----------------------------------------------------------------------------
(* enroll_student and Enrollment.save() of a new row.  In a transfer these *)
(* run inside the transaction: success commits it, failure rolls it back.  *)

CheckDuplicate(w) ==
  /\ pc[w] = "check"
  /\ IF LiveInYear(View(w), req[w].student, YearOf[req[w].class])
          \ (IF req[w].closing THEN {req[w].previous} ELSE {}) # {}
     THEN Release(w)                          \* StudentAlreadyEnrolledError
     ELSE /\ Goto(w, IF req[w].force THEN "number" ELSE "capacity")
          /\ UNCHANGED <<req, batch, snap, number>>
  /\ UNCHANGED <<rows, started, crashes>>

\* Fault: ">" for ">=".
CheckCapacityOffByOne(w) ==
  /\ pc[w] = "capacity"
  /\ IF Cardinality(LiveInClass(View(w), req[w].class)) > Capacity[req[w].class]
     THEN Release(w)
     ELSE Goto(w, "number") /\ UNCHANGED <<req, batch, snap, number>>
  /\ UNCHANGED <<rows, started, crashes>>

CheckCapacity(w) ==
  /\ pc[w] = "capacity"
  /\ IF Cardinality(LiveInClass(View(w), req[w].class)) >= Capacity[req[w].class]
     THEN Release(w)                          \* SchoolClassFullError
     ELSE Goto(w, "number") /\ UNCHANGED <<req, batch, snap, number>>
  /\ UNCHANGED <<rows, started, crashes>>

\* aggregate() drops the FOR UPDATE of select_for_update(): a plain read.
ReadNumber(w) ==
  /\ pc[w] = "number"
  /\ \E n \in 1 .. Cardinality(Enrollments) :
       /\ IsNextNumber(View(w), YearOf[req[w].class], n)
       /\ number' = [number EXCEPT ![w] = n]
  /\ Goto(w, "insert")
  /\ UNCHANGED <<rows, started, req, batch, snap, crashes>>

NewRow(w) ==
  [student |-> req[w].student, class |-> req[w].class, status |-> "pending",
   reason |-> FALSE, number |-> number[w], previous |-> req[w].previous]

\* The table as this worker's INSERT, and its earlier update, leave it.
Inserted(w, e) ==
  [x \in DOMAIN rows \cup {e} |-> IF x = e THEN NewRow(w) ELSE View(w)[x]]

NextInBatch(w) ==
  IF batch[w] = {}
  THEN Release(w)
  ELSE /\ \E s \in batch[w] :
            Begin(w, s, req[w].class, FALSE, None, FALSE, batch[w] \ {s})
       /\ Goto(w, "check")
       /\ number' = [number EXCEPT ![w] = 0]
       /\ UNCHANGED snap

Insert(w, e) ==
  /\ pc[w] = "insert"
  /\ e \in Enrollments \ DOMAIN rows
  /\ Settled(w, NewRow(w))
  /\ IF Constraints(Inserted(w, e))
     THEN rows' = Inserted(w, e) /\ NextInBatch(w)
     ELSE UNCHANGED rows /\ Release(w)
  /\ UNCHANGED <<started, crashes>>

-----------------------------------------------------------------------------
(* activar_matriculas_do_ano_lectivo_em_curso: one query, then save() of   *)
(* each row it returned; an exception ends the loop.                       *)

\* Fault: every row that is not active yet.
DueUnlessActive ==
  {e \in DOMAIN rows : rows[e].status # "active" /\ Year(rows[e]) \in started}

Due == {e \in DOMAIN rows : rows[e].status = "pending" /\ Year(rows[e]) \in started}

JobStart(w) ==
  /\ w \in TaskWorkers /\ pc[w] = "idle"
  /\ snap' = [snap EXCEPT ![w] = [e \in Due |-> rows[e]]]
  /\ Goto(w, "job")
  /\ UNCHANGED <<rows, started, req, batch, number, crashes>>

Activated(r) == [r EXCEPT !.status = "active"]

JobSave(w, e) ==
  /\ pc[w] = "job"
  /\ e \in DOMAIN snap[w]
  /\ Unlocked(w, e) /\ Settled(w, Activated(snap[w][e]))
  /\ IF CanSave(e, Activated(snap[w][e]))
     THEN /\ Save(e, Activated(snap[w][e]))
          /\ snap' = [snap EXCEPT ![w] = [x \in DOMAIN snap[w] \ {e} |-> snap[w][x]]]
          /\ UNCHANGED <<pc, req, batch, number>>
     ELSE UNCHANGED rows /\ Release(w)
  /\ UNCHANGED <<started, crashes>>

JobEnd(w) ==
  /\ pc[w] = "job"
  /\ DOMAIN snap[w] = {}
  /\ Release(w)
  /\ UNCHANGED <<rows, started, crashes>>

-----------------------------------------------------------------------------
(* The environment *)

\* start_date of the next academic year is reached.
YearStarts(y) ==
  /\ y \notin started
  /\ \A x \in Years : x < y => x \in started
  /\ started' = started \cup {y}
  /\ UNCHANGED <<rows, local, crashes>>

\* A worker dies (power cut, gunicorn or Django-Q timeout) within a request.
Crash(w) ==
  /\ pc[w] # "idle"
  /\ crashes < MaxCrashes
  /\ crashes' = crashes + 1
  /\ Release(w)
  /\ UNCHANGED <<rows, started>>

-----------------------------------------------------------------------------
Init ==
  /\ rows = NoRows
  /\ started = {}
  /\ pc = [w \in Workers |-> "idle"]
  /\ req = [w \in Workers |-> NoRequest]
  /\ batch = [w \in Workers |-> {}]
  /\ snap = [w \in Workers |-> NoRows]
  /\ number = [w \in Workers |-> 0]
  /\ crashes = 0

WebStep(w) ==
  \/ \E reason \in BOOLEAN : Anular(w, reason)
  \/ CloseOld(w)
  \/ CheckDuplicate(w)
  \/ CheckCapacity(w)
  \/ ReadNumber(w)
  \/ \E e \in Enrollments : Insert(w, e)

JobStep(w) ==
  \/ JobStart(w)
  \/ \E e \in Enrollments : JobSave(w, e)
  \/ JobEnd(w)

Next ==
  \/ \E w \in Workers, s \in Students, c \in Classes, force \in ForceOptions :
       EnrolRequest(w, s, c, force) \/ TransferRequest(w, s, c, force)
  \/ \E w \in Workers, c \in Classes, selected \in SUBSET Students :
       BulkRequest(w, c, selected)
  \/ \E w \in Workers, s \in Students : CancelRequest(w, s) \/ NothingCurrent(w, s)
  \/ \E w \in Workers : WebStep(w) \/ JobStep(w) \/ Crash(w)
  \/ \E y \in Years : YearStarts(y)

\* A request under way runs on; the daily schedule runs the task every day, and
\* PostgreSQL gives a row lock to those who wait for it in turn: the task is not
\* kept waiting by one transfer after another.
Fairness ==
  /\ \A w \in WebWorkers : WF_vars(WebStep(w))
  /\ \A w \in TaskWorkers : SF_vars(JobStep(w))

Spec == Init /\ [][Next]_vars /\ Fairness

-----------------------------------------------------------------------------
(* Properties *)

TypeOK ==
  /\ DOMAIN rows \subseteq Enrollments
  /\ \A e \in DOMAIN rows : rows[e] \in Row
  /\ started \subseteq Years
  /\ pc \in [Workers -> Steps]
  /\ req \in [Workers -> Request]
  /\ batch \in [Workers -> SUBSET Students]
  /\ \A w \in Workers : /\ DOMAIN snap[w] \subseteq Enrollments
                        /\ \A e \in DOMAIN snap[w] : snap[w][e] \in Row
  /\ DOMAIN snap = Workers
  /\ number \in [Workers -> Nat]
  /\ crashes \in 0 .. MaxCrashes

\* Enrolment numbers are "sequencial por instituição e ano lectivo": in each
\* year no two rows share one, and none is skipped, although MAX is read
\* without a lock and transfers roll back.
NumbersSequential ==
  /\ DistinctNumbers(rows)
  /\ \A e \in DOMAIN rows :
       \/ rows[e].number = 1
       \/ \E f \in DOMAIN rows : /\ Year(rows[f]) = Year(rows[e])
                                 /\ rows[f].number = rows[e].number - 1

\* cancellation_reason, "obrigatório ao anular, vazio até lá", is filled in
\* exactly on the cancelled rows.
ReasonIffCancelled ==
  \A e \in DOMAIN rows : rows[e].reason <=> rows[e].status = "cancelled"

\* transferir_aluno: a transferred row has the row it was transferred to.
TransferHasSuccessor ==
  \A e \in DOMAIN rows :
    rows[e].status = "transferred" => \E f \in DOMAIN rows : rows[f].previous = e

\* A closed row says why it is closed, although stale rows are written back and
\* crashes, full classes and duplicates end transfers half-way.
ClosedRowsExplained == ReasonIffCancelled /\ TransferHasSuccessor

\* Only anular_matricula takes an enrolment from a student. A transfer that loses
\* the race for its INSERT, meets a full class, a duplicate or a crash gives back
\* the enrolment it has closed, and a stale row written back leaves the student one.
OnlyCancelsLoseAPlace ==
  [][\A e \in Live(rows) :
       (\A f \in Live(rows') : rows'[f].student # rows[e].student)
         => rows'[e].status = "cancelled"]_rows

\* The daily task: an enrolment of a year that has begun does not stay pending,
\* although one failing row ends that day's loop.
EventuallyActivated ==
  \A e \in Enrollments :
    (e \in DOMAIN rows /\ rows[e].status = "pending" /\ Year(rows[e]) \in started)
      ~> (e \in DOMAIN rows /\ rows[e].status # "pending")

\* The promises of the services (MatriculaServico).
Servico == INSTANCE MatriculaServico

=============================================================================

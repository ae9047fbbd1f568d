# Fenix School: TLA+ models, model checks and proofs

Fenix School is a Django application with which a school in Angola runs its
academic year: applications, inscription of students, yearly enrolment
(*matrícula*) into classes, grades and their closing (*homologação*),
attendance, official documents with numbers that must never be used twice. Each
school has a node (*Nó Local*) of its own: PostgreSQL behind several gunicorn
workers, and a Django-Q process for the daily tasks. This directory specifies
the parts of it that are hard to test: what happens between the statement that
checks and the statement that writes, when another worker, a task or a crash
comes in between.

Paths below are relative to `src/`; `apps/` is left out of them.

## How the system runs, and what the models take from that

* PostgreSQL at READ COMMITTED; no `ATOMIC_REQUESTS`: each `save()`, `create()`
  or `update()` commits by itself, except inside the few `transaction.atomic()`
  blocks (`enrollment/models/student_model.py:175`, `enrollment_model.py:189`,
  `enrollment/services.py:535`, `reports/services.py:32`, `core/services.py:126`)
  and the change forms of the Django Admin.
* Three gunicorn workers (`docker-compose.local-node.yml:95-104`) and a Django-Q
  cluster (`config/settings/local_node.py:58-67`) share the database. A model has
  a set of `Workers`; each runs one request at a time, statement by statement.
* A request that loads a row and calls `save()` writes **every column** of the
  row it holds, however old: the models keep these rows (`snap`, `held`, `task`)
  and write them back whole. `save()` of a row deleted meanwhile inserts it again.
* `select_for_update()` followed by `aggregate()` sends no `FOR UPDATE`: the
  computations of "the next number" (`MAX + 1`) take no lock. The lock taken by
  `reports/services.py:34` (`get()`) is real.
* `full_clean()` before `save()` reports violated unique constraints, and the
  database enforces them at the INSERT: the models check them at the INSERT.
* A worker may die between two statements (`Crash`, `Fail`): its transaction
  rolls back, its memory is lost, what it committed stays.

## The components

| Component | State | Operations | What is hard | What makes it correct |
|---|---|---|---|---|
| Matrícula | Enrollment rows (status, class, number, previous, reason), academic years begun | enrol, bulk enrol, transfer, cancel, daily activation | check-then-insert races, stale rows, the atomic block of a transfer, one bad row in the task | an enrolment is lost by a cancellation only, sequential numbers, capacity, closed rows explained, every pending enrolment activated |
| Candidatura and Inscrição | Candidate, Guardian, Student, StudentGuardian | pre-application, exam score, second call, bulk acceptance, inscription | four separate commits, decisions on stale candidates, `MAX + 1`, repeated forms | documents and numbers unique, candidates consistent, inscriptions whole |
| Document numbering | DocumentSequence, IssuedDocument, receipt of a candidate | reserve, issue, print and reprint | row lock, a counter that does not exist yet, crash after the commit | a number is never used twice, and every number is accounted for |
| Pauta | Grade (value, closed flag, justification) | launch, correct, edit in the Admin, homologate, reopen | the flag is checked before the write; loops over rows read earlier; a row `full_clean()` refuses | closed grades change only by a reopening, or by a request that began before |
| Averages and final situation | FinalGrade, FinalSituation and its failed subjects | average, manual adjustment, final situation, *recurso* | status and failed subjects written separately | the two agree; nobody fails for want of data |
| Formulas | default formula, overrides, evaluation types | save, override, clear, average | formulas change while an average is computed; tolerance of the sum | an average lies within the tolerance of its grades |
| Attendance | Attendance rows | mark a class, justify, limit | stale rows, half a class marked | a justified absence stays justified, a grid marks everybody |
| Accounts | failed attempts, lockout, groups, devices, sessions | login, lockout, unlock, edit, two-factor | lost increments, growing lockout, rows written back whole | five failures lock in the end, for a time their count justifies; groups follow the profile |
| Calendar | academic years, terms, holidays | create, edit, mark as current, seed holidays | two updates to mark a year, seeding without a constraint, Easter | one current year, every holiday once |
| Curriculum | cycles, courses, curricular years, subjects | create, edit, delete | forms checked against rows that change | references agree |
| Classes and schedules | SchoolClass, Schedule | create, edit, delete | conflict looked for before the save | overlaps come from racing forms only |
| Installation | Institution, its manager, Node, key file | wizard, edition | crash between institution and node, two submissions | every institution has manager and formula; a lone wizard leaves a node with its key |
| Permissions | groups of the profiles | migrations forward and back | overlap of what migrations add | a deployed database has what its migrations grant |
| Outbox and audit | ChangeRecord, version, AuditLogEntry | signal handlers around every save | separate commits, version counted in memory, `update()` without signals | what is stored has been recorded |
| Backup | dump files and archives | daily task, button, scripts, shutdown by the battery | two processes over one file, kills, failures | an archive that is shown restores |
| Administration panel, guardian portal, public pages, tenant context, demonstration data, stubs, configuration | none of their own | | | |

They interact through the database only. The setup wizard creates the
Institution and its first manager; the calendar and the curriculum carry the
classes; an inscription creates the Student that a Matrícula enrols; a
pre-application reserves a document number for its receipt, as does a Matrícula;
a Pauta's grades feed the averages by the institution's formulas, these and the
absences the final situation; every save of a synchronised model passes through
the outbox and audit signals, and a backup dumps all of it. `PROJECT.json` lists
the hazards of each at their lines.

## The modules

| Module | Models | Role |
|---|---|---|
| `Matricula` | `enrollment/services.py` 293-330 and 443-560, `enrollment_model.py`, the views that call them | the requests, statement by statement |
| `MatriculaServico` | the same services | the indivisible operations they promise; `Matricula` implements it when requests do not overlap |
| `Inscricao` | `public_site/forms.py`, `enrollment/services.py` 100-260, `student_inscription_view.py`, `student_model.py`, `candidate_model.py` | from the application to the inscribed student |
| `DocumentNumbering` | `reports/services.py`, the emitters of receipts and declarations | reservation with its lock, emission, reprints |
| `DocumentRegister` | RF-REL-06 | abstract register: reserve the next number, record it or lose it; `DocumentNumbering` refines it |
| `Pauta` | `grading/services.py` 349-387 and 516-563, `Grade.save()`, the grade views, `GradeAdminForm`, the actions of `grading/admin.py` | one pauta and its grades |
| `PautaServico` | the same operations | each as one indivisible step; `Pauta` implements it when a request runs alone |
| `Assiduidade` | `attendance/services.py`, the grid and justification views | the attendance of a class, and the hours of absence counted from it |
| `SituacaoFinal` | `grading/services.py` 427-504 and 566-725, `final_situation_view.py`, `FinalGradeAdmin` | averages, final situation and *recurso*; extends `Assiduidade`, whose requests run beside its own |
| `Contas` | `accounts/services.py`, its forms, views, signals and mixins, the user screens of `admin_panel`, the Django Admin | login, lockout, groups, second factor, sessions |
| `ContasServico` | `accounts/services.py` 69-108, `accounts/models.py` 113-124 | failed logins, logins and unlocks as indivisible steps over the columns of a lockout; `Contas` implements it when a request runs alone |
| `Pedidos` | how `Instituicao`, `Calendario`, `Contas` and `Registo`, which extend it, are served | workers, the steps and the local variables of their requests, the death of a process; tables as functions |
| `Calendario` | `core/models/calendar.py`, `core/services.py`, the calendar screens | academic years, terms, holidays, Easter |
| `Curriculo` | `academic/models`, `academic/admin.py`, the cycle screens | the curriculum; extends `Calendario` |
| `Horario` | `academic/forms.py`, the class and schedule screens | classes and weekly slots; extends `Curriculo` and composes the three |
| `Permissoes` | `accounts/migrations` 0003-0018 | what each profile may do, applied and rolled back |
| `Instituicao` | `core/services.py`, the wizard, `sync/services.py`, `grading/services.py` 60-350, the formula screens | installation and formulas; extends `Permissoes`, which guards its screens |
| `Registo` | `sync/signals.py`, `audit/signals.py`, `sync/models` | what a save leaves in outbox and trail |
| `Copias` | `core/services.py` 160-240, the backup scripts, view and command | backups; extends `Registo`, whose saves run beside them |
| `MC*` | | constants, symmetry and, where a property speaks of requests that do or do not overlap, history variables for TLC |
| `MatriculaProofs`, `DocumentNumberingProofs`, `PautaProofs`, `SituacaoFinalProofs`, `ContasProofs`, `RegistoProofs`, `InscricaoProofs`, `InstituicaoProofs` | | theorems and proofs |

In all of them `pc` is the statement a worker runs next and `task` (or `req`,
`snap`, `held`, `batch`) what its request holds in memory. Operators after a
`\* Fault:` comment are variants of a definition with one plausible bug; no
specification uses them. They show that the properties can fail: `PROJECT.json`
("mutants") pairs each property with one.

### Matricula

`rows` is the Enrollment table (a function from the identifiers used so far),
`started` the academic years that have begun. `EnrolRequest`, `BulkRequest`,
`TransferRequest`, `CancelRequest` are the views that load what they need;
`CheckDuplicate`, `CheckCapacity`, `ReadNumber`, `Insert` the statements of
`enroll_student` and `Enrollment.save()`, in this order; `CloseOld` the first
statement of `transferir_aluno`. Inside the atomic block of a transfer the
closing of the old row is not visible to the others until the INSERT commits: it
stays in `snap` and enters `rows` with the new row (`View(w)` is the table as the
transaction sees it), and a save of that row by another worker waits. `Anular`
cancels. `JobStart`, `JobSave`, `JobEnd` are the daily task: one query, then a
save per row, in any order; a row that fails `full_clean()` ends the loop.
`YearStarts` is the calendar reaching `start_date`. `Crash` drops a request.

### Inscricao

`candidates`, `guardians`, `students`, `links` are the tables. A document stands
for a name and birth date or an identity number, whatever the search for
duplicates compares. A score is kept if it is within 0 to 20; the form refuses
others. The inscription has steps that commit by themselves: Guardian, the search
for duplicates, the number, the INSERT of the Student, the StudentGuardian link,
the admission of the Candidate.

### DocumentNumbering

`sequences` holds the counters that exist, `issued` the documents recorded,
`receipts` the number a candidate remembers, `printed` what was handed out. The
transaction of
`reserve_next_document_number` has the steps `Select` (a row that exists is locked
until the commit), `Create` (two requests may both find none: the second INSERT
fails and its transaction with it) and `Commit`. The lock is implied by
`pc = "update"`. `Issue`, `Render`, `SaveReceipt` follow outside of it.

### Pauta

`grades` is the table, a *cell* the student, subject, term and type that a unique
constraint covers. `LaunchRequest` finds the grade of a cell or makes a new one,
`CorrectRequest` loads one by its id; `Check` is the query in `Grade.save()` for
the closed flag and `Write` the statement after it, which no lock joins to the
check. `Homologar` and `Reabrir` save, one at a time, the rows of one query,
without that check (`authorize_closed_edit=True`). `AdminEdit` is `GradeAdminForm`,
which has the closed flag among its fields and refuses a closed grade. Every save
runs `full_clean()`, which compares the row with the profile of its teacher, the
curricular year of its subject and the institution of both: tables that change
without the grade. `Invalid` is its `ValidationError`, in any save and also in the
middle of a loop, which nothing catches; like a crash it leaves what has been saved.
The checks on the teacher's role and schedule before these operations are assumed
to pass.

### Assiduidade and SituacaoFinal

`attendance` is keyed by enrolment and lesson (a schedule on one of its days) as
its unique constraint. `GridRequest` is the view up to the query of the existing
rows, `Mark` one pass of the loop of `registar_presencas`: it updates the row that
was read, all its columns, or creates one, which fails when another request has
created it meanwhile and ends the loop. `JustifyRequest` loads a row that is an
absence and `Justify` saves it. `UnjustifiedHours` and `ExceedsLimit` are
`calcular_assiduidade` the way the final situation calls it.

`finals`, `recurso` and `situation` are the FinalGrade rows, the grades of type
"Exame de Recurso" and the FinalSituation rows with their many-to-many
`failed_subjects`. A calculation visits the subjects one by one: `Average` is the
query for the final grades of one, `Passed` the query for a passed *recurso*,
`Faltas` the one for its attendance, `Fail` appends it to the failed. Then `Find`
searches the row, `SaveStatus` saves or creates it, and `failed_subjects.set()`
is `ReadFailed` and `SetFailed`: it removes and adds the differences to what it
has read, so that two calculations can leave a mixture. `RecursoRequest`,
`SearchNota` and `SaveNota` are `lancar_nota_recurso`, which then runs a
calculation. `RegistarMedia` and `AjustarMedia` with `SaveMedia` and `SaveAjuste`
are the two writers of a FinalGrade. The average of a term is an input here
(`Instituicao` computes averages); a *recurso* grade whose pauta may have been
closed is refused or saved, either way.

### Contas

`users` are the rows, with the failed attempts, the time `left` of a lockout and
the `count` of lockouts; `groups` the many-to-many rows a profile is mirrored to,
`devices` and `session` the second factor. `Login` reads the row; a failure is
counted in memory and `SaveFailure` writes it (`update_fields`), so that
increments are lost; a success resets the counters. `EditUser`, `UnlockRequest`
and the rest write whole rows; after each save the signal sets the groups in
statements of its own. `Minute` is the clock.

### Calendario, Curriculo and Horario

Rows are records, a form is a step that checks (`Form`) and a step that saves
(`Save...`). Marking a year as current is two updates; a national holiday is a
number of rows in `days`, because nothing stops `get_or_create` from inserting it
twice, and a third call raises. `EasterSunday` is the integer formula of
`core/services.py`. `Conflicts` is `validate_schedule_conflict`. Deletions follow
`PROTECT` and `CASCADE`.

### Permissoes and Instituicao

`Chain` is the list of migrations with the permissions each adds; `Migrate` and
`MigrateBack` walk it. `Instituicao` sends its requests through the screens only when
`HasPerm` lets them. The wizard is `OpenWizard`, `SetupInstitution` (one
transaction), `WriteKey` and `CreateNode`, each of which may be the last. A
formula is a function from types to thousandths, a grade hundredths, and
`Average` rounds as the code does. The overrides of a course and of a subject
shadow the default. Only formulas that pass through the screens of `admin_panel`
are modelled: see *Differences* for the form of the Django Admin.

### Registo and Copias

A save is load, `PreSave` (version counted, the earlier image read), the write, the
ChangeRecord and the audit entry. The entities of the run are one each of the
kinds the code has: synchronised and audited, audited only, saved with
`update_fields` and by `update()`, and saved under a row lock in a transaction.
`Copias` has the files by the second that names them, `pg_dump` and `gzip` as
processes that open, write and end apart, and the kill by the shutdown.

## What the runs check

| Run | Instance | Distinct states | Shows |
|---|---|---|---|
| `matricula_liveness` | 1 student, 3 rows, 2 classes in 2 years, 1 web worker, the task, 1 crash | 156 thousand | `EventuallyActivated`: every pending enrolment of a year that has begun leaves that status |
| `matricularaces_concurrent` | 2 students, 3 rows, 3 classes in 2 years, 2 web workers of which one may be the task, 1 crash | 858 thousand | `OnlyCancelsLoseAPlace`, `NumbersSequential`, `ClosedRowsExplained` however requests race; `OverbookingBounded`: a class is overfilled by racing workers and revived rows only; `ImplementsService`: the indivisible operations, as long as nothing has overlapped |
| `inscricao_requests` | 2 candidates, students, guardians and documents, scores 9, 10, 21, 2 workers, 6 requests, 1 crash | 937 thousand | `StudentsDistinct`, `CandidatesConsistent`, `InscriptionIsWhole`, `AdmittedIsFinal` |
| `inscricao_collision` | 2 workers | violated | two inscriptions hold one number: the lock is not taken |
| `documentnumbering_requests` | 2 types, 1 candidate, 2 workers, 4 numbers, 2 failures | 113 thousand | `NumberNeverReused`, `NumbersAccounted`, the register is implemented, every request ends |
| `pauta_requests` | 2 grades, 2 cells, values 9, 10, 21, 2 workers, 1 failure | 387 thousand | `ClosedAgainstLateRequests`, `LoopLeavesNoGrade`; `ImplementsPauta`: the indivisible operations of `PautaServico`, for a request that runs alone |
| `pauta_closed_rewritten` | 1 grade, 2 workers | violated | a stale correction reopens a closed grade |
| `situacaofinal_requests` | a class of 2 enrolments with attendance only, or 1 enrolment with 2 subjects, 2 terms, averages 8 and 12; 1 lesson, 2 workers, 4 requests, 1 crash | 695 thousand | `NothingByOmission`, `AloneIsCurrent`, `AloneKeepsAdjustment`, `AloneKeepsJustification`, `AloneMarksClass` |
| `contas_logins` | 1 user, lockout after 2 failures for 1, then 2 minutes, 2 workers, 2 administrative requests, 1 crash | 514 thousand | `LockoutProportional`, `AloneSyncsGroups`, `EventuallyLocked`; `ImplementsLockout`: the indivisible operations of `ContasServico`, for a request that runs alone |
| `horario_requests` | 2 years, 1 term, 2 holidays; or 2 cycles, courses, curricular years, 1 subject; or 3 slots of 1 teacher and room; 1 class, 2 workers, 3 requests, 1 crash | 120 thousand | `ClashesBounded`, `EasterMatches` from 1900 to 2299, `AloneMarks`, `AloneChecks`, `AloneSeeds` |
| `instituicao_requests` | 2 wizards, formulas whose weights sum to 1.010 and 1.011, 4 requests, 1 crash, 14 migrations of which 2 are taken back | 384 thousand | `NeverOrphaned`, `AverageWithinTolerance`, `RollbackLosesOnlyOverlap`, `AloneNodeHasKey`, `AloneKeepsFormula` |
| `registo_saves` | 4 kinds of entities, 2 workers, 3 requests, 1 crash; or 1 request beside 2 backups, 2 seconds, 1 failure and the shutdown | 303 thousand | `StoredIsRecorded`, `LockedVersionsIncrease`, `AloneLeavesTrace`, `ArchivesRestore` |

Each property is stated in words above its definition.

### Bounds

Three rows are what a transfer beside another enrolment needs, and two workers
what a race of a decision with a stale save needs: every violation met while
writing the models takes at most two workers and one task. Two years separate
numbers per year from numbers overall. One crash is one at every possible point
of every request. `MaxNumber` stops requests from arriving when the counters near
it, and the pools of identifiers (`Enrollments`, `Students`, `Guardians`,
`Grades`) stop requests that could not insert: no request under way is blocked by
a bound. Scores 9 and 10 lie on both sides of the passing score, 21 is out of the
scale.

Where nothing limits how often a row is rewritten, `MaxRequests` bounds the
requests served: two that race, one that leaves a half-done loop and one that
follows. Once they are spent the workers are idle for ever, which is why these
configurations do not check deadlock. One lesson beyond the limit, and averages 8
and 12 over two terms (sums below, at and above twice the passing grade), reach
every status. `MaxLockouts` ends a row of lockouts after the second, and the
constants of the run make the second one at the cap already (one minute, then not
three but two); the code's own constants, 1 minute doubled up to 60, reach it with
the seventh, and the theorem about them is for every constant. Two holidays are
enough to leave one out and one twice, and so that a call raises on the first
before it has reached the second. The formulas of `MCInstituicao` lie on both
sides of the tolerance.

Three instances hold in one run several that do not meet, chosen by a variable
`scope` (or `backups`) in the first state, so that each stays large enough: the
attendance of a class or all the data of one pupil in `MCSituacaoFinal`; the
calendar, the curriculum or the schedule in `MCHorario`; saves alone or saves
beside backups in `MCRegisto`. All of them keep the requests that connect the
parts (classes; saves under a lock). Symmetry is used only where no liveness is
checked.

### Requests that run alone

Some promises of the code hold only when requests do not overlap. `serial` and
`alone` are history variables of the MC modules; they restrict no step. `serial`
says that nothing has overlapped so far (`ImplementsService`,
`CandidatesConsistent`, `AdmittedIsFinal`): the code is right as a sequential
program. `AdmittedIsFinal` adds what is true when they race: the admission is only
undone by a request that had loaded the candidate before. `alone`
(`ImplementsPauta`, `ImplementsLockout` and the `Alone` properties) says of a
worker that no other request has been in progress since its own began: other
requests may have raced or died before and left whatever they leave, and a request
that then runs alone still behaves. Such a property says nothing about the race
itself: what two requests that do overlap may do to each other is in *Findings*,
in *Differences*, and in the properties that hold of racing requests
(`ClosedAgainstLateRequests`, `ClashesBounded`, `LockoutProportional`,
`NothingByOmission`, `ClosedRowsExplained` and the like). The code calls these
operations idempotent and repeatable at any time, and the `Alone` properties say
that such a request repairs what races and crashes have left. `ContasServico` sees
three columns of a user (`Lockouts`), and a new user, an edition or a change of
groups is a stutter or a clear lockout there; `PautaServico` sees the whole table
of grades. `overtaken` is a history variable of `MCPauta`: the workers that were
already busy when a grade was closed. The race of *Findings* is theirs alone,
which is what `ClosedAgainstLateRequests` says of every other request, loops over
old rows included.

### Fairness

A request under way runs on: gunicorn gives a worker no other request before the
response. That is weak fairness of a worker's own statements, never of the
arrival of requests (`WebStep`, `Step`, `RequestStep`). The daily task is
scheduled by Django-Q every day (`enrollment/signals.py:8-27`) in a process that
serves no requests. It may wait for a row that transfers have locked; PostgreSQL
queues the waiting statements of a row, so that transfers that keep coming do not
pass it for ever: strong fairness of `JobStep`, including its start. Under weak
fairness alone TLC shows a cycle of transfers that die and begin again around the
waiting task. Crashes are bounded in number, and no fairness is assumed of them,
of `YearStarts` or of `Minute`.

`EventuallyLocked` is about failures that never end: it says that lost increments
only delay a lockout, unless successful logins or administrators reset the count
again and again. `EmissionEnds` says that the row lock of a counter is always
released.

### Findings

* `inscricao_collision`: the comment in `Student.save()` says the lock serialises
  inscriptions; Django drops it from an aggregate query. The unique constraint
  saves the table (`StudentsDistinct` holds), at the price of a failed request.
* `pauta_closed_rewritten`: a correction that passed the check before a
  homologation writes its row after it; the grade is open again without a
  justification.

### Differences

What a doc, a comment or a form promises and the models had to leave out of their
properties, because the code does otherwise:

* A row that was cancelled or transferred after the daily task read it becomes
  active again (`enrollment/services.py:483`), as a closed grade does. That is why
  `ImplementsService` speaks of requests that do not overlap. When the student has
  another enrolment by then, the unique constraint refuses the save, which ends the
  task for that day.
* `sync/signals.py:1-5` says "exactly one ChangeRecord" in the same transaction
  as the business change. Outside of `transaction.atomic()` there are two
  transactions, `QuerySet.update()` sends no signal, and `update_fields` without
  "version" records a version that is not stored. `StoredIsRecorded` says what is
  left.
* `create_local_node` is meant to run once at most. Two wizards submitted at once
  create two institutions, and the key file is that of the one that wrote last;
  a crash after the transaction of the wizard leaves no Node, and the wizard then
  redirects. `AloneNodeHasKey` is about a wizard that nothing disturbs.
* The reverse of migration 0018 removes the permission to see attendances that
  0017 had granted (`RollbackLosesOnlyOverlap` names this one exception).
* `GradingFormulaOverride.weights` is said to sum to 1, and the screens of
  `admin_panel` check it; its Django Admin form does not.
* The list of backups shows every `.sql.gz` there is, whole or not, and two
  backups begun in one second write the same files: the container of the database
  and the application share the directory. `ArchivesRestore` excepts kills and
  shared seconds.
* A curricular year moved to another course leaves its subjects and classes with
  the old one; `AloneChecks` is about the row being saved.
* `GradingScale.for_value` (`grading/models/grading_scale_model.py:45-51`) says
  that a grade of 0 to 20 without a level "should never happen"; the official
  ranges are whole numbers (14-16, 17-20), so 16.5 is in none. Grades have one
  decimal, averages two.
* The demonstration data call themselves idempotent, and raise `IntegrityError`
  when the institution has a cycle of order 1 or a current year already.

## What is proved

TLAPS checks the theorems below for all values of the constants: any number of
students, classes, years, workers, requests and crashes.

**MatriculaProofs**: `TypeOK`, `OnlyCancelsLoseAPlace`, `NumbersSequential` and
`ClosedRowsExplained` (a reason exactly on cancelled rows, a successor of every
transferred one). None is inductive: a worker writes back a row read long before.
`IInv` adds what is true of such rows: the row is still in the table, and agrees
with it on the columns that never change (student, class, number, previous); it
was live and without a reason when it was read, so that writing it back cannot
put a reason on a live row; and the number a worker is about to insert follows
one that is in the table (rows are never removed, so it still does at the INSERT,
when the constraint checks that it is free). `CloseOld` in an open transaction is
in memory only, so a crash leaves no transferred row without its successor.
`InsertKeeps` and `SaveKeeps` are the two lemmas about the table; there is one
lemma per action. `PlaceStep` adds that the row a transfer closes and the row it inserts are
of one student, so that the two enter the table together or not at all.

`ServiceImplemented` is the refinement of `MatriculaServico` by the requests that
run one at a time (`MCSpec`). `SInv` says of the request in progress that it has the
database to itself: what it holds, and every check it has passed, is true of the
table now. Each write is then a step of the service and every other step a stutter.
The service takes the number after the *count* of the year's enrolments, the code
the number after the greatest: they agree because the numbers of a year are 1 to
their greatest, which `NumbersFill` derives from the gaplessness above and
`LeastElement` (a non-empty set of naturals has a least element, from the library's
theorem that inclusion of finite sets is well-founded). `ClosedStayClosed` is a
corollary: served one at a time, no request changes a closed enrolment. Of requests
that race, `HistoryIsKept` says what is left of it: whole rows are written back, but
no enrolment disappears or changes its identity, and only the daily task's `save()`
opens a closed one.

`OverbookingIsBounded` is about requests that race. `OInv` counts, for each class,
the live enrolments and the workers that have passed the check of capacity and not
yet inserted, and says that the two together exceed the capacity by at most the
web workers but one and the enrolments revived. It is for requests that do not
confirm (`TRUE \notin ForceOptions`), since a confirmed one ignores the capacity.

**DocumentNumberingProofs**: `TypeOK`, `NumberNeverReused`,
`CounterCoversIssued` and the refinement `ImplementsRegister`. `IInv` says that a
worker in the transaction of an existing counter has its present value (that is
the lock), that no two workers are in the transaction of one counter, and that a
reserved number is within the counter and belongs to nobody else. Each step then
maps to a reservation, a record, a loss or a stutter of the register.
`NumbersAreAccounted` adds two counts (`NInv`): the numbers reserved and never
recorded are at most the failures, and once a candidature remembers a receipt, its
receipts together with the workers that still serve it are at most the workers.
`LostNumbersStayLost` is a corollary of the refinement: a number a failure has cost
stays missing, since the register never goes back.

**PautaProofs**: `TypeOK`, `LoopLeavesNoGrade`, `ClosedAgainstLateRequests` and the
refinement `ImplementsPauta`. `IInv` adds that a row in memory keeps the cell of its row
in the table, so that writing it back moves no grade to another cell. `AInv` adds,
for a request that has had the database to itself so far (the history variable
`alone` of `MCPauta`), that the row it holds is the row of the table but for the value
being corrected, that a new row is in a cell that has none, and that a grade past the
check of `Grade.save()` is open. The statement that writes is then a launch, a
correction, a closing or a reopening of `PautaServico`, and every other step a stutter.
`AloneIsSafe` is a corollary: such a request changes a closed grade only by opening
it again, with a justification and with its value. `ClosedHolds` is about requests that
race: `LateOK` says that, of a closed grade, a request its closing has not overtaken
holds a copy that is closed too, and is not past the check of `Grade.save()`, so that
it has no open copy to write back.

**SituacaoFinalProofs**: `TypeOK` and `NothingByOmission`. The argument is about
what a request believes: between the query that counts a subject as failed and
the statement that stores it lie many steps of others. `IInv` adds
`AssessedTask`: a subject a request has in hand as failed (in `failed`, or as
`subject` on its way there, or named by a *recurso* request) has a final grade or
an attendance row in the table now. It is inductive because no action deletes
such a row; that is also what makes the mixture two calculations can leave in
`failed_subjects` harmless. The four `Alone...` theorems speak of a request that has
had the database to itself so far: a manual adjustment is kept, the grid of a class
marks every student of it, a justification survives a correction of the register,
and a calculation stores what follows from the present grades and attendance.
`AloneOK` says that such a request holds what the tables hold, and `CalculationOK`,
for the loop over the subjects, that those already behind it are in `failed` exactly
when they are failed in the present data.

**ContasProofs**: `TypeOK` and `LockoutProportional`. A request writes back a whole
row of the user that it read several steps earlier, so the property of the table
is not inductive: `IInv` says that every row, in the table or in the memory of a
request, is justified (a lockout is no longer than the one that follows from the
number of lockouts before it), and describes what a request has in memory at each
step. A lost increment then mixes no columns of two rows, which is all that could
break it. Nothing is assumed of the lengths of the lockouts. `LockoutImplemented` is
the refinement of `ContasServico` by the requests that run alone. It rests on
`AloneOK`: what the request is about to save is the effect of one operation on the
lockout the table has now (the next failure, `Failed`; the same columns, for an
edition; none, for a new user), and the account is not locked when a failure or a
login is. A minute may pass between the count and the save; it shortens both rows
alike (`MinuteIsShared`), and a lockout is recorded as long as what is left of it,
which is why the service gives it any length up to `Duration`. `LocksAreKept` (only
time, an unlock and the stale row of an overlapped request change a lockout) and
`GroupsAreSynced` (a save that runs alone leaves the user in the group of its profile
only) rest on the same invariant and on `ProfilesOK`: the rows with the profile of a super administrator
are those of superusers, which no request makes or saves in the screens.

**RegistoProofs**: `TypeOK`, `StoredIsRecorded` and `LockedVersionsIncrease`. `IInv`
says that a worker in the save of a locked row holds its lock and has in memory
the stored version, or the next one; that no record of such a row is ahead of it;
and that whoever wrote what is stored has recorded it or is about to, which no
later save of the row can undo, since its own record is then the one that counts.
`SavesLeaveTrace` is the same for a save alone (`AloneOK`): a change of an audited
field ends with its row of the trail. It needs that no table is audited,
synchronised and saved in part at once, which is so in the code: of the three audited
models, grades and enrolments are always saved whole, and users, who are saved with
`update_fields`, have no outbox.
`WholeArchivesRestore` is about `Copias`: `BInv` says what a file on disk holds at
all times (what it has of a database restores, `FileOK`), what the dump that is being
compressed has to do with the archive it becomes (`SourceOK`), and how far a backup
that has its second for itself has come at each step (`ProgressOK`, `Sole`).

**InscricaoProofs**: `TypeOK`, `StudentsDistinct` and `AdmittedHasStudent` (the part
of `CandidatesConsistent` that holds however requests race),
`CandidatesAreConsistent`, `AdmissionIsFinal` and `InscriptionsAreWhole`. The
constraints of the INSERT give distinct documents and numbers; that no number is skipped needs
`NumberOK`, as in `MatriculaProofs`: the number in memory follows one that is in
the table. `CreatedOK` says that a worker past the INSERT has created a student
that came from the candidate it is about to admit; students are never removed or
changed, so it still exists at the last statement. `HInv` is for the last three:
what a request has checked of the rows it holds (`ChosenOK`); that without a crash a
student is linked to its guardian or about to be (`LinkedOK`); that the guardians
nobody will link are at most the requests refused and dead (`LeftOK`); and, while
requests have run one at a time, that the rows in memory are those of the tables and
a document has one candidate and one student (`SerialOK`).

**InstituicaoProofs**: `TypeOK`, `NeverOrphaned`, `AverageWithinTolerance`,
`RollbackLosesOnlyOverlap`, `AloneNodeHasKey` and `AloneKeepsFormula`. `IInv` adds that the row of an
institution a screen has in memory, and is to write back whole, has a formula, and
that a formula about to be stored as the default is not empty, although types of
evaluation are deleted between its validation and the statement. Every formula, in a
table or in memory, has weights that sum to 1 within the tolerance;
`AverageOfEqualGrades` is the arithmetic that gives the bound on an average after it
is rounded. `GrantsOK` says that the permissions are those due at the
level of migrations reached, but for the overlap of two migrations, and that only at
the one level where a rollback has taken it away. The two `Alone...` theorems rest, as
elsewhere, on a request alone holding what the tables hold.

Its last sections are about `Horario`, with which `Instituicao` shares the variables of
`Pedidos`; no theorem is about both:
`ScheduleTypeCorrect`, `ClashesAreBounded`, `AloneYearsAreMarked`,
`AloneRowsAreChecked` and `AloneHolidaysAreSeeded`. `ScheduleInv` adds to
`ScheduleTypeOK` the row each request holds. For the clashes, `ClashInv` counts by cell (a time with a
teacher, a room or a class): the slots in it and the slots that requests past the
check will put there are together at most the workers. A request that passes the
check has found no other slot in its cells, so that all that is counted in them at
that moment is of requests under way, one for each worker at most; a save moves a slot
to a cell where it is counted already. `ScheduleAloneOK` says that what a request alone has read or checked
is still so, and that its seeding has left each holiday behind it once.

The very last section is arithmetic: `EasterIsCorrect` says that `_easter_sunday`
gives the first Sunday after the first ecclesiastical full moon from 21 March on, in
every year, with no bound. The proof separates the formula into `Moon` (the code's
`h`, the days from 21 March to the full moon) and `Week` (its `l`, the days from the
moon to the Sunday). `EpactByMoon`: the epact, told from the century by other
divisions, and `h` add up to the same day of the lunation but in the `Late` years,
those the calendar moves by one day, which are the ones the code's `m` is for.
`SundayByWeek`: the days elapsed are 5 modulo 7 on the day the code gives, by the
same division of the year into centuries and years. `EasterDates` bounds the result,
22 March to 25 April, and `EasterIsFound` is the invariant of the run.

Assumptions: the named `ASSUME`s of the modules. Sets of identifiers are finite where
they are counted, classes have a year and a capacity, bounds are natural numbers.
`ForceAssumption` says that a request may always be sent without the confirmation
(`enrollment_create_view.py:54`; the default of `services.py:277`);
`CopiasAssumption` that the absence of a file is not the content of one;
`EasterAssumption` that the years whose Easter is computed are integers;
`RegistoAssumption` is explained above. TLC evaluates them in every run.
`OverbookingIsBounded` states its two own hypotheses.

## What is only model-checked

* Liveness (`EventuallyActivated`, `EmissionEnds`, `EventuallyLocked`): out of the
  prover's reach.
* What the two runs that expect a violation show: one counterexample is enough.

## What is not modelled

* The synchronisation engine: the repository has only its outbox. The stub
  applications have no behaviour.
* Layout of documents, exports and templates; password hashing and TOTP
  (libraries).
* The lists and pages of the administration panel, the guardian portal and the
  public site, which read. Role checks before an operation change nothing;
  `Instituicao` models those its properties need.
* The tenant context: a variable set when a request begins and reset when it ends,
  read by that request only.
* Scripts run by hand before the system is used (demonstration data, fixtures).
* What a super administrator may do to a row in the Django Admin, past the services.
  Its forms for users, grades (value and closed flag), adjustments, curriculum and
  schedules, its actions and its deletions in the curriculum are modelled. These are
  not, and every property is about a system in which nobody has used them:
  * `EnrollmentAdmin` (`enrollment/admin.py:80`), which edits status, cancellation
    reason, previous enrolment and year, and deletes; `CandidateAdmin` (71),
    `StudentAdmin`, `GuardianAdmin` and `StudentGuardianAdmin`;
  * `GradeAdmin`: a grade moved to another cell, added, deleted or marked as
    deleted; deletion of final grades and final situations, an adjustment cleared
    (`grading/admin.py:121`); `AttendanceAdmin`;
  * `AcademicYearAdmin`, `AcademicTermAdmin` and `NonTeachingDayAdmin`
    (`core/admin.py:134-164`), which set the current year and the dates of terms
    without the steps of the screens;
  * `InstitutionAdmin` (`core/admin.py:26`), which stores or blanks the default
    formula without validating it, and may add an institution without a manager;
    the form of a formula override; `NodeAdmin`;
  * users: the add form, `createsuperuser`, deletion, edits of `is_superuser`. The two
    synchronisations of the groups at a login are one in `Contas`;
  * `GroupAdmin`, Django's own, where a superuser changes the permissions of a group:
    `RollbackLosesOnlyOverlap` is about what migrations do.
* Restoring a backup, a manual operation.
* Columns no property tells apart (names, contacts, notes).

`PROJECT.json` lists each component with its status.

## Plan

The order was: the academic core (`Matricula`, `Inscricao`, `DocumentNumbering`,
`Pauta`), what is computed from it (`Assiduidade`, `SituacaoFinal`), then the
ground it stands on (`Contas`, `Calendario`, `Curriculo`, `Horario`,
`Instituicao`, `Registo`, `Copias`). What is left is the forms and deletions of the
Django Admin listed above, and what remains of the properties when they are used.

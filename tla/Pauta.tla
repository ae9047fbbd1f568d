-------------------------------- MODULE Pauta --------------------------------
(***************************************************************************)
(* The grades (Nota) of a pauta: launched and corrected cell by cell, or   *)
(* edited in the Admin while they are open, closed by homologar_pauta,     *)
(* opened again by reabrir_pauta with a justification.                     *)
(* apps/grading/services.py, Grade.save(), the three views and the Admin   *)
(* that call them.                                                         *)
(*                                                                         *)
(* Several gunicorn workers serve the views over one PostgreSQL database   *)
(* without ATOMIC_REQUESTS and without a lock: an action is one committed  *)
(* statement with the Python code after it.  A view holds the rows it has  *)
(* read (held) and Grade.save() writes every column of them back.  The     *)
(* teacher of the request is scheduled for the cells of the pauta.         *)
(***************************************************************************)
EXTENDS Naturals, FiniteSets

CONSTANTS
  Grades,      \* identifiers grade rows may get
  Cells,       \* student, subject, term and evaluation type
  Values,      \* classifications that are submitted
  Workers,     \* gunicorn workers
  MaxFailures, \* bound: how often a worker dies or full_clean() refuses a row
  None

ASSUME GradesAssumption == IsFiniteSet(Grades) /\ None \notin Grades
ASSUME CellsAssumption == None \notin Cells
ASSUME ValuesAssumption == Values \subseteq Nat
ASSUME FailuresAssumption == MaxFailures \in Nat

VARIABLES
  grades,   \* the Grade table: identifier -> row
  pc,       \* per worker: the statement it runs next
  launch,   \* per worker: the row it is about to insert
  held,     \* per worker: the rows in memory
  failures

local == <<pc, launch, held>>
vars == <<grades, local, failures>>

-----------------------------------------------------------------------------
(* Data *)

Scale == 0 .. 20

\* reason: whether reopening_reason is filled in.
Grade == [cell: Cells, value: Scale, closed: BOOLEAN, reason: BOOLEAN]

New(c, v) == [cell |-> c, value |-> v, closed |-> FALSE, reason |-> FALSE]

NoRows == [g \in {} |-> None]
Steps == {"idle", "create", "check", "write", "homologar", "reabrir"}

\* The committed rows of a set of identifiers, in memory.
Read(S) == [g \in S |-> grades[g]]

DistinctCells(db) == \A g, h \in DOMAIN db : db[g].cell = db[h].cell => g = h

Release(w) ==
  /\ pc' = [pc EXCEPT ![w] = "idle"]
  /\ launch' = [launch EXCEPT ![w] = None]
  /\ held' = [held EXCEPT ![w] = NoRows]

Goto(w, step) == pc' = [pc EXCEPT ![w] = step]

\* The request ends in an exception: what it has saved so far stays.
Fails(w) ==
  /\ failures < MaxFailures
  /\ failures' = failures + 1
  /\ Release(w)
  /\ UNCHANGED grades

\* full_clean() in save() raises a ValidationError: the teacher who launched the
\* grade is no Docente any more, or the subject or enrolment has moved to another
\* curricular year. These are columns of other tables, which change at any time.
Invalid(w) == Fails(w)

\* The request is answered without a change.
Refused(w) == pc[w] = "idle" /\ UNCHANGED vars

-----------------------------------------------------------------------------
(* One cell: grade_cell_save_view, pauta_grade_cell_save_view, GradeAdmin  *)

\* The row in memory gets the submitted values; Grade.save() comes next.
Edit(w, g, v, closed) ==
  /\ held' = [held EXCEPT ![w] =
                [x \in {g} |-> [grades[x] EXCEPT !.value = v, !.closed = closed]]]
  /\ Goto(w, "check")
  /\ UNCHANGED <<grades, launch, failures>>

\* lancar_ou_atualizar_nota
LaunchRequest(w, c, v) ==
  /\ pc[w] = "idle"
  /\ v \in Scale
  /\ \/ \E g \in DOMAIN grades : grades[g].cell = c /\ Edit(w, g, v, grades[g].closed)
     \/ /\ \A g \in DOMAIN grades : grades[g].cell # c
        /\ Cardinality(Grades \ DOMAIN grades)
             > Cardinality({u \in Workers : pc[u] = "create"})
        /\ launch' = [launch EXCEPT ![w] = New(c, v)]
        /\ Goto(w, "create")
        /\ UNCHANGED <<grades, held, failures>>

\* atualizar_nota_pauta
CorrectRequest(w, g, v) ==
  /\ pc[w] = "idle"
  /\ v \in Scale
  /\ g \in DOMAIN grades
  /\ Edit(w, g, v, grades[g].closed)

\* GradeAdminForm: the closed flag is a field like another, of an open grade.
AdminEdit(w, g, v, closed) ==
  /\ pc[w] = "idle"
  /\ v \in Scale
  /\ g \in DOMAIN grades
  /\ IF grades[g].closed THEN UNCHANGED vars ELSE Edit(w, g, v, closed)

\* NotaForaDaEscalaError
OutOfScale(w, v) == v \notin Scale /\ Refused(w)

Create(w, g) ==
  /\ pc[w] = "create"
  /\ g \in Grades \ DOMAIN grades
  /\ LET db == [x \in DOMAIN grades \cup {g} |-> IF x = g THEN launch[w] ELSE grades[x]]
     IN  \/ /\ DistinctCells(db)
            /\ grades' = db
            /\ Release(w)
            /\ UNCHANGED failures
         \/ ~DistinctCells(db) /\ Release(w) /\ UNCHANGED <<grades, failures>>
         \/ Invalid(w)

\* Fault: the flag is not looked at.
CheckNothing(w) ==
  /\ pc[w] = "check"
  /\ Goto(w, "write")
  /\ UNCHANGED <<grades, launch, held, failures>>

\* Grade.save() reads the row again and raises GradeReportClosedError.
Check(w) ==
  /\ pc[w] = "check"
  /\ IF \E g \in DOMAIN held[w] : grades[g].closed
     THEN Release(w)
     ELSE Goto(w, "write") /\ UNCHANGED <<launch, held>>
  /\ UNCHANGED <<grades, failures>>

\* save() of a row in memory: every column.
Save(g, row) == grades' = [grades EXCEPT ![g] = row]

Write(w) ==
  /\ pc[w] = "write"
  /\ \/ /\ \E g \in DOMAIN held[w] : Save(g, held[w][g])
        /\ Release(w)
        /\ UNCHANGED failures
     \/ Invalid(w)

-----------------------------------------------------------------------------
(* pauta_detail_view and the actions of GradeAdmin: one query for the      *)
(* selected grades, then a save, with authorize_closed_edit, per grade.    *)
(* Nothing catches a ValidationError: it ends the loop.                    *)

HomologarRequest(w, selected) ==
  /\ pc[w] = "idle"
  /\ selected # {}
  /\ held' = [held EXCEPT ![w] = Read(selected \cap DOMAIN grades)]
  /\ Goto(w, "homologar")
  /\ UNCHANGED <<grades, launch, failures>>

\* reason: the form's text is not blank.
ReabrirRequest(w, selected, reason) ==
  /\ pc[w] = "idle"
  /\ selected # {}
  /\ IF reason
     THEN /\ held' = [held EXCEPT ![w] = Read(selected \cap DOMAIN grades)]
          /\ Goto(w, "reabrir")
     ELSE UNCHANGED <<pc, held>>              \* ReaberturaSemJustificacaoError
  /\ UNCHANGED <<grades, launch, failures>>

Done(w, g) == held' = [held EXCEPT ![w] = [x \in DOMAIN held[w] \ {g} |-> held[w][x]]]

\* Fault: the loop ends, instead of going on, at a grade that is closed.
HomologarStops(w, g) ==
  /\ pc[w] = "homologar"
  /\ g \in DOMAIN held[w]
  /\ IF held[w][g].closed
     THEN UNCHANGED grades /\ Release(w)
     ELSE /\ Save(g, [held[w][g] EXCEPT !.closed = TRUE])
          /\ Done(w, g)
          /\ UNCHANGED <<pc, launch>>
  /\ UNCHANGED failures

Homologar(w, g) ==
  /\ pc[w] = "homologar"
  /\ g \in DOMAIN held[w]
  /\ \/ /\ IF held[w][g].closed
           THEN UNCHANGED grades
           ELSE Save(g, [held[w][g] EXCEPT !.closed = TRUE])
        /\ Done(w, g)
        /\ UNCHANGED <<pc, launch, failures>>
     \/ ~held[w][g].closed /\ Invalid(w)

Reabrir(w, g) ==
  /\ pc[w] = "reabrir"
  /\ g \in DOMAIN held[w]
  /\ \/ /\ IF held[w][g].closed
           THEN Save(g, [held[w][g] EXCEPT !.closed = FALSE, !.reason = TRUE])
           ELSE UNCHANGED grades
        /\ Done(w, g)
        /\ UNCHANGED <<pc, launch, failures>>
     \/ held[w][g].closed /\ Invalid(w)

LoopEnd(w) ==
  /\ pc[w] \in {"homologar", "reabrir"}
  /\ held[w] = NoRows
  /\ Release(w)
  /\ UNCHANGED <<grades, failures>>

-----------------------------------------------------------------------------
Crash(w) == pc[w] # "idle" /\ Fails(w)

Init ==
  /\ grades = NoRows
  /\ pc = [w \in Workers |-> "idle"]
  /\ launch = [w \in Workers |-> None]
  /\ held = [w \in Workers |-> NoRows]
  /\ failures = 0

Receive(w) ==
  \/ \E v \in Values : \/ \E c \in Cells : LaunchRequest(w, c, v)
                       \/ \E g \in Grades : CorrectRequest(w, g, v)
                       \/ \E g \in Grades, closed \in BOOLEAN : AdminEdit(w, g, v, closed)
                       \/ OutOfScale(w, v)
  \/ \E selected \in SUBSET Grades :
       \/ HomologarRequest(w, selected)
       \/ \E reason \in BOOLEAN : ReabrirRequest(w, selected, reason)

Step(w) ==
  \/ \E g \in Grades : Create(w, g) \/ Homologar(w, g) \/ Reabrir(w, g)
  \/ Check(w) \/ Write(w) \/ LoopEnd(w)

Next == \E w \in Workers : Receive(w) \/ Step(w) \/ Crash(w)

\* A worker that has taken a request runs it to its end.
Fairness == \A w \in Workers : WF_vars(Step(w))

Spec == Init /\ [][Next]_vars /\ Fairness

-----------------------------------------------------------------------------
(* Properties *)

TypeOK ==
  /\ DOMAIN grades \subseteq Grades
  /\ \A g \in DOMAIN grades : grades[g] \in Grade
  /\ pc \in [Workers -> Steps]
  /\ launch \in [Workers -> Grade \cup {None}]
  /\ DOMAIN held = Workers
  /\ \A w \in Workers : /\ DOMAIN held[w] \subseteq DOMAIN grades
                        /\ \A g \in DOMAIN held[w] : held[w][g] \in Grade
  /\ failures \in 0 .. MaxFailures

\* homologar_pauta, "a partir daí, cada uma delas só pode voltar a ser editada
\* via reabrir_pauta": a closed grade only changes by being opened again, with a
\* justification and with the value it was closed with.
Reopening(g) ==
  \/ grades'[g] = grades[g]
  \/ grades'[g] = [grades[g] EXCEPT !.closed = FALSE, !.reason = TRUE]

ClosedOnlyReopened ==
  [][\A g \in DOMAIN grades : grades[g].closed => Reopening(g)]_vars

\* homologar_pauta and reabrir_pauta go through the whole selection, whatever
\* corrections race with the loop: a grade leaves the loop with the flag the
\* request asked for, in the database or when it was read, unless the worker dies
\* or full_clean() refuses a row.
LoopLeavesNoGrade ==
  [][\A w \in Workers, g \in Grades :
       /\ pc[w] \in {"homologar", "reabrir"} /\ failures' = failures
       /\ g \in DOMAIN held[w] /\ g \notin DOMAIN held'[w]
       => LET closing == pc[w] = "homologar"
          IN  held[w][g].closed = closing \/ grades'[g].closed = closing]_vars

=============================================================================

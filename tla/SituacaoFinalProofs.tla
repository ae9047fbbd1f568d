-------------------------- MODULE SituacaoFinalProofs --------------------------
(***************************************************************************)
(* Theorems about SituacaoFinal, for any enrolments, subjects, lessons,    *)
(* terms, workers and crashes: its types, that nobody fails a subject by   *)
(* omission, and that a request that runs alone, whatever races and        *)
(* crashes have gone before, loses no justification, adjustment or         *)
(* enrolment and leaves the situation of the present data.                 *)
(***************************************************************************)
EXTENDS MCSituacaoFinal, FiniteSetTheorems, TLAPS

\* The tables alone.
TablesOK ==
  /\ Partial(attendance, Key, Row)
  /\ Partial(finals, FinalKey, FinalGrade)
  /\ Partial(recurso, RecursoKey, Values)
  /\ Partial(situation, Enrolments, FinalSituation)
  /\ NothingByOmission

\* What a request has concluded from rows it read is still backed by a row.
AssessedTask(w) ==
  /\ pc[w] \in Calculating => \A s \in task[w].failed : Evidence(task[w].enrolment, s)
  /\ pc[w] = "passed" => Evidence(task[w].enrolment, task[w].subject)
  /\ pc[w] \in {"search", "nota"} =>
       \E e \in Enrolments : StudentOf[e] = task[w].key[1] /\ Evidence(e, task[w].key[2])

\* The inductive invariant.
IInv == TypeOK /\ NothingByOmission /\ \A w \in Workers : AssessedTask(w)

\* No row is removed.
Grows ==
  /\ DOMAIN attendance \subseteq DOMAIN attendance'
  /\ DOMAIN finals \subseteq DOMAIN finals'
  /\ DOMAIN situation \subseteq DOMAIN situation'

Counters == served' \in 0 .. MaxRequests /\ crashes' \in 0 .. MaxCrashes

-----------------------------------------------------------------------------
(* Operators *)

LEMMA WithFacts ==
  ASSUME NEW f, NEW k, NEW row, NEW D, NEW R, Partial(f, D, R), k \in D, row \in R
  PROVE  Partial(With(f, k, row), D, R) /\ DOMAIN f \subseteq DOMAIN With(f, k, row)
<1>1. DOMAIN With(f, k, row) = DOMAIN f \cup {k}
  BY DEF With
<1>2. \A x \in DOMAIN f \cup {k} : With(f, k, row)[x] = IF x = k THEN row ELSE f[x]
  BY DEF With
<1>. QED BY <1>1, <1>2 DEF Partial

\* No hours without a lesson: exceeding the limit takes a record.
LEMMA AbsenceIsEvidence ==
  ASSUME NEW e, NEW s \in Subjects, ExceedsLimit(e, s)
  PROVE  Evidence(e, s)
<1>. DEFINE L == {l \in Lessons : /\ SubjectOf[l] = s
                                  /\ <<e, l>> \in DOMAIN attendance
                                  /\ attendance[<<e, l>>].status = "absent"}
<1>1. MapThenSumSet(LAMBDA l : Hours[l], {}) = 0
  BY DEF MapThenSumSet, MapThenFoldSet
<1>2. UnjustifiedHours(e, s) = MapThenSumSet(LAMBDA l : Hours[l], L)
  BY DEF UnjustifiedHours
<1>3. L = {} => UnjustifiedHours(e, s) = 0
  BY <1>1, <1>2
<1>4. LimitHours[s] \in Nat
  BY LessonsAssumption
<1>5. L # {}
  BY <1>3, <1>4 DEF ExceedsLimit
<1>. QED BY <1>5 DEF Evidence

LEMMA LowIsEvidence ==
  ASSUME NEW e, NEW s, LowAverage(e, s)
  PROVE  Evidence(e, s)
BY DEF LowAverage, Evidence

LEMMA EvidenceGrows ==
  ASSUME Grows, NEW e, NEW s, Evidence(e, s)
  PROVE  Evidence(e, s)'
BY DEF Grows, Evidence, Assessed

-----------------------------------------------------------------------------
(* Steps of one worker *)

LEMMA OwnStep ==
  ASSUME IInv, NEW w \in Workers, TablesOK', Grows,
         pc' = [pc EXCEPT ![w] = pc'[w]], pc'[w] \in Steps,
         task' = [task EXCEPT ![w] = task'[w]],
         TaskOK(w)', AssessedTask(w)', Counters
  PROVE  IInv'
<1>1. \A v \in Workers : TaskOK(v)' /\ AssessedTask(v)'
  <2>1. SUFFICES ASSUME NEW v \in Workers \ {w} PROVE TaskOK(v)' /\ AssessedTask(v)'
    OBVIOUS
  <2>2. pc'[v] = pc[v] /\ task'[v] = task[v]
    BY DEF IInv, TypeOK
  <2>3. TaskOK(v)'
    <3>1. TaskOK(v)
      BY DEF IInv, TypeOK
    <3>. QED BY <2>2, <3>1 DEF TaskOK, Grows, GridOK, Justification, Media, Ajuste, Nota
  <2>4. AssessedTask(v)'
    <3>1. AssessedTask(v)
      BY DEF IInv
    <3>. QED BY <2>2, <3>1, EvidenceGrows DEF AssessedTask
  <2>. QED BY <2>3, <2>4
<1>2. pc' \in [Workers -> Steps] /\ DOMAIN task' = Workers
  BY DEF IInv, TypeOK
<1>. QED BY <1>1, <1>2 DEF IInv, TypeOK, TablesOK, Counters

\* The tables grow below the situations and the grades of recurso.
LEMMA BelowGrow ==
  ASSUME IInv, Grows, UNCHANGED <<recurso, situation>>,
         Partial(attendance, Key, Row)', Partial(finals, FinalKey, FinalGrade)'
  PROVE  TablesOK'
<1>1. \A e \in DOMAIN situation : \A s \in situation[e].failed_subjects : Evidence(e, s)'
  BY EvidenceGrows DEF IInv, NothingByOmission
<1>2. \A k \in DOMAIN recurso : \E e \in Enrolments : StudentOf[e] = k[1] /\ Evidence(e, k[2])'
  BY EvidenceGrows DEF IInv, NothingByOmission
<1>3. NothingByOmission'
  BY <1>1, <1>2 DEF NothingByOmission
<1>. QED BY <1>3 DEF IInv, TypeOK, TablesOK, Partial

LEMMA SameTables ==
  ASSUME IInv, UNCHANGED <<attendance, finals, recurso, situation>>
  PROVE  TablesOK' /\ Grows
<1>1. Grows
  BY DEF Grows
<1>2. Partial(attendance, Key, Row)' /\ Partial(finals, FinalKey, FinalGrade)'
  BY DEF IInv, TypeOK, Partial
<1>. QED BY <1>1, <1>2, BelowGrow

LEMMA ReceiveFacts ==
  ASSUME IInv, NEW w \in Workers, NEW step, NEW t, Receive(w, step, t)
  PROVE  /\ pc' = [pc EXCEPT ![w] = pc'[w]] /\ pc'[w] = step
         /\ task' = [task EXCEPT ![w] = task'[w]] /\ task'[w] = t
         /\ Counters
<1>1. Counters
  BY BoundsAssumption DEF IInv, TypeOK, Receive, Counters
<1>. QED BY <1>1 DEF IInv, TypeOK, Receive

LEMMA ContinueFacts ==
  ASSUME IInv, NEW w \in Workers, NEW step, NEW t, Continue(w, step, t)
  PROVE  /\ pc' = [pc EXCEPT ![w] = pc'[w]] /\ pc'[w] = step
         /\ task' = [task EXCEPT ![w] = task'[w]] /\ task'[w] = t
         /\ Counters
BY DEF IInv, TypeOK, Continue, Counters

LEMMA IdleStep ==
  ASSUME IInv, NEW w \in Workers, TablesOK', Grows, Counters,
         pc' = [pc EXCEPT ![w] = "idle"], task' = [task EXCEPT ![w] = None]
  PROVE  IInv'
<1>1. pc' = [pc EXCEPT ![w] = pc'[w]] /\ pc'[w] = "idle"
  BY DEF IInv, TypeOK
<1>2. task' = [task EXCEPT ![w] = task'[w]]
  BY DEF IInv, TypeOK
<1>3. TaskOK(w)' /\ AssessedTask(w)'
  BY <1>1 DEF TaskOK, AssessedTask, Calculating
<1>. QED BY <1>1, <1>2, <1>3, OwnStep DEF Steps

LEMMA ReleaseStep ==
  ASSUME IInv, NEW w \in Workers, TablesOK', Grows, Release(w)
  PROVE  IInv'
<1>1. Counters
  BY DEF IInv, TypeOK, Release, Counters
<1>. QED BY <1>1, IdleStep DEF Release

LEMMA CrashStep ==
  ASSUME IInv, NEW w \in Workers, Crash(w), UNCHANGED <<attendance, tables>>
  PROVE  IInv'
<1>1. TablesOK' /\ Grows
  BY SameTables DEF tables
<1>2. Counters
  BY BoundsAssumption DEF IInv, TypeOK, Crash, Counters
<1>. QED BY <1>1, <1>2, IdleStep DEF Crash

-----------------------------------------------------------------------------
(* Attendance *)

\* A row of the attendance table is saved.
LEMMA AttendanceSaved ==
  ASSUME IInv, NEW k \in Key, NEW row \in Row,
         attendance' = With(attendance, k, row), UNCHANGED tables
  PROVE  TablesOK' /\ Grows
<1>1. Partial(attendance, Key, Row)
  BY DEF IInv, TypeOK
<1>2. Partial(With(attendance, k, row), Key, Row)
      /\ DOMAIN attendance \subseteq DOMAIN With(attendance, k, row)
  BY <1>1, WithFacts
<1>3. Partial(attendance, Key, Row)' /\ DOMAIN attendance \subseteq DOMAIN attendance'
  BY <1>2 DEF Partial
<1>4. Partial(finals, FinalKey, FinalGrade)'
  BY DEF IInv, TypeOK, Partial, tables
<1>5. Grows
  BY <1>3 DEF Grows, tables
<1>. QED BY <1>3, <1>4, <1>5, BelowGrow DEF tables

LEMMA GridStep ==
  ASSUME IInv, NEW w \in Workers, NEW l \in Lessons, NEW class \in SUBSET Enrolments,
         NEW statuses \in [class -> Status], GridRequest(w, l, statuses), UNCHANGED tables
  PROVE  IInv'
<1>. DEFINE known == {e \in Enrolments : <<e, l>> \in DOMAIN attendance}
            rows == [e \in known |-> attendance[<<e, l>>]]
            t == [lesson |-> l, todo |-> statuses, rows |-> rows]
<1>1. TablesOK' /\ Grows
  BY SameTables DEF GridRequest, tables
<1>2. Receive(w, "grid", t)
  BY DEF GridRequest
<1>3. /\ pc' = [pc EXCEPT ![w] = pc'[w]] /\ pc'[w] = "grid"
      /\ task' = [task EXCEPT ![w] = task'[w]] /\ task'[w] = t
      /\ Counters
  BY <1>2, ReceiveFacts
<1>4. Partial(statuses, Enrolments, Status)
  BY DEF Partial
<1>5. Partial(rows, Enrolments, Row)
  BY DEF Partial, IInv, TypeOK
<1>6. GridOK(t)
  BY <1>4, <1>5 DEF GridOK
<1>7. TaskOK(w)' /\ AssessedTask(w)'
  <2>1. GridOK(task[w])'
    BY <1>3, <1>6 DEF GridOK
  <2>. QED BY <2>1, <1>3 DEF TaskOK, AssessedTask, Calculating
<1>. QED BY <1>1, <1>3, <1>7, OwnStep DEF Steps

LEMMA MarkStep ==
  ASSUME IInv, NEW w \in Workers, NEW e \in Enrolments, Mark(w, e), UNCHANGED tables
  PROVE  IInv'
<1>. DEFINE k == <<e, task[w].lesson>>
            row == [status |-> task[w].todo[e],
                    text |-> IF e \in DOMAIN task[w].rows THEN task[w].rows[e].text ELSE Blank]
            rest == Without(task[w].todo, e)
            t == [task[w] EXCEPT !.todo = rest]
<1>1. GridOK(task[w]) /\ pc[w] = "grid" /\ e \in DOMAIN task[w].todo
  BY DEF Mark, IInv, TypeOK, TaskOK
<1>2. CASE attendance' = With(attendance, k, row) /\ Continue(w, "grid", t)
  <2>1. k \in Key /\ row \in Row
    BY <1>1, BlankAssumption DEF GridOK, Key, Row, Partial
  <2>2. TablesOK' /\ Grows
    BY <1>2, <2>1, AttendanceSaved
  <2>3. /\ pc' = [pc EXCEPT ![w] = pc'[w]] /\ pc'[w] = "grid"
        /\ task' = [task EXCEPT ![w] = task'[w]] /\ task'[w] = t
        /\ Counters
    BY <1>2, ContinueFacts
  <2>4. Partial(rest, Enrolments, Status)
    BY <1>1 DEF GridOK, Without, Partial
  <2>. HIDE DEF rest
  <2>5. GridOK(t)
    BY <1>1, <2>4 DEF GridOK
  <2>6. GridOK(task[w])'
    BY <2>3, <2>5 DEF GridOK
  <2>7. TaskOK(w)' /\ AssessedTask(w)'
    BY <2>6, <2>3 DEF TaskOK, AssessedTask, Calculating
  <2>. QED BY <2>2, <2>3, <2>7, OwnStep DEF Steps
<1>3. CASE UNCHANGED attendance /\ Release(w)
  <2>1. TablesOK' /\ Grows
    BY <1>3, SameTables DEF tables
  <2>. QED BY <2>1, <1>3, ReleaseStep
<1>. QED BY <1>2, <1>3 DEF Mark

LEMMA MarkEndStep ==
  ASSUME IInv, NEW w \in Workers, MarkEnd(w), UNCHANGED tables
  PROVE  IInv'
<1>1. TablesOK' /\ Grows
  BY SameTables DEF MarkEnd, tables
<1>. QED BY <1>1, ReleaseStep DEF MarkEnd

LEMMA JustifyRequestStep ==
  ASSUME IInv, NEW w \in Workers, NEW k \in Key, NEW text \in Texts,
         JustifyRequest(w, k, text), UNCHANGED tables
  PROVE  IInv'
<1>. DEFINE t == [key |-> k, row |-> [status |-> "justified_absent", text |-> text]]
<1>1. TablesOK' /\ Grows
  BY SameTables DEF JustifyRequest, tables
<1>2. Receive(w, "justify", t)
  BY DEF JustifyRequest
<1>3. /\ pc' = [pc EXCEPT ![w] = pc'[w]] /\ pc'[w] = "justify"
      /\ task' = [task EXCEPT ![w] = task'[w]] /\ task'[w] = t
      /\ Counters
  BY <1>2, ReceiveFacts
<1>4. t \in Justification
  BY DEF Justification, Row, Status
<1>5. TaskOK(w)' /\ AssessedTask(w)'
  BY <1>3, <1>4 DEF TaskOK, AssessedTask, Calculating, Justification
<1>. QED BY <1>1, <1>3, <1>5, OwnStep DEF Steps

LEMMA JustifyStep ==
  ASSUME IInv, NEW w \in Workers, Justify(w), UNCHANGED tables
  PROVE  IInv'
<1>1. task[w] \in Justification
  BY DEF Justify, IInv, TypeOK, TaskOK
<1>2. task[w].key \in Key /\ task[w].row \in Row
  BY <1>1 DEF Justification
<1>3. TablesOK' /\ Grows
  BY <1>2, AttendanceSaved DEF Justify
<1>. QED BY <1>3, ReleaseStep DEF Justify

LEMMA AttendanceSteps ==
  ASSUME IInv, NEW w \in Workers, AttendanceStep(w), UNCHANGED tables
  PROVE  IInv'
BY GridStep, MarkStep, MarkEndStep, JustifyRequestStep, JustifyStep DEF AttendanceStep

-----------------------------------------------------------------------------
(* Averages and adjustments *)

LEMMA FinalSaved ==
  ASSUME IInv, NEW k \in FinalKey, NEW row \in FinalGrade,
         finals' = With(finals, k, row), UNCHANGED <<attendance, recurso, situation>>
  PROVE  TablesOK' /\ Grows
<1>1. Partial(finals, FinalKey, FinalGrade)
  BY DEF IInv, TypeOK
<1>2. Partial(With(finals, k, row), FinalKey, FinalGrade)
      /\ DOMAIN finals \subseteq DOMAIN With(finals, k, row)
  BY <1>1, WithFacts
<1>3. Partial(finals, FinalKey, FinalGrade)' /\ DOMAIN finals \subseteq DOMAIN finals'
  BY <1>2 DEF Partial
<1>4. Partial(attendance, Key, Row)'
  BY DEF IInv, TypeOK, Partial
<1>5. Grows
  BY <1>3 DEF Grows
<1>. QED BY <1>3, <1>4, <1>5, BelowGrow

LEMMA RegistarMediaStep ==
  ASSUME IInv, NEW w \in Workers, NEW k \in FinalKey, NEW v \in Values, RegistarMedia(w, k, v)
  PROVE  IInv'
<1>. DEFINE t == [key |-> k, value |-> v, row |-> IF k \in DOMAIN finals THEN finals[k] ELSE None]
<1>1. TablesOK' /\ Grows
  BY SameTables DEF RegistarMedia, tables
<1>2. Receive(w, "media", t)
  BY DEF RegistarMedia
<1>3. /\ pc' = [pc EXCEPT ![w] = pc'[w]] /\ pc'[w] = "media"
      /\ task' = [task EXCEPT ![w] = task'[w]] /\ task'[w] = t
      /\ Counters
  BY <1>2, ReceiveFacts
<1>4. t \in Media
  BY DEF Media, IInv, TypeOK, Partial
<1>5. TaskOK(w)' /\ AssessedTask(w)'
  BY <1>3, <1>4 DEF TaskOK, AssessedTask, Calculating, Media
<1>. QED BY <1>1, <1>3, <1>5, OwnStep DEF Steps

LEMMA SaveMediaStep ==
  ASSUME IInv, NEW w \in Workers, SaveMedia(w)
  PROVE  IInv'
<1>1. task[w] \in Media
  BY DEF SaveMedia, IInv, TypeOK, TaskOK
<1>2. task[w].key \in FinalKey /\ task[w].value \in Values /\ task[w].row \in FinalGrade \cup {None}
  BY <1>1 DEF Media
<1>3. CASE UNCHANGED finals
  <2>1. TablesOK' /\ Grows
    BY <1>3, SameTables DEF SaveMedia
  <2>. QED BY <2>1, ReleaseStep DEF SaveMedia
<1>4. CASE \E row \in FinalGrade : finals' = With(finals, task[w].key, row)
  <2>1. TablesOK' /\ Grows
    BY <1>2, <1>4, FinalSaved DEF SaveMedia
  <2>. QED BY <2>1, ReleaseStep DEF SaveMedia
<1>5. [calculated |-> task[w].value, override |-> None] \in FinalGrade
  BY <1>2 DEF FinalGrade
<1>6. task[w].row # None => [task[w].row EXCEPT !.calculated = task[w].value] \in FinalGrade
  BY <1>2 DEF FinalGrade
<1>. QED BY <1>3, <1>4, <1>5, <1>6 DEF SaveMedia

LEMMA AjustarMediaStep ==
  ASSUME IInv, NEW w \in Workers, NEW k \in FinalKey, NEW v \in Values \cup {None},
         AjustarMedia(w, k, v)
  PROVE  IInv'
<1>. DEFINE t == [key |-> k, row |-> [finals[k] EXCEPT !.override = v]]
<1>1. TablesOK' /\ Grows
  BY SameTables DEF AjustarMedia, tables
<1>2. Receive(w, "ajuste", t)
  BY DEF AjustarMedia, Adjusted
<1>3. /\ pc' = [pc EXCEPT ![w] = pc'[w]] /\ pc'[w] = "ajuste"
      /\ task' = [task EXCEPT ![w] = task'[w]] /\ task'[w] = t
      /\ Counters
  BY <1>2, ReceiveFacts
<1>4. finals[k] \in FinalGrade
  BY DEF AjustarMedia, IInv, TypeOK, Partial
<1>5. t \in Ajuste
  BY <1>4 DEF Ajuste, FinalGrade
<1>6. TaskOK(w)' /\ AssessedTask(w)'
  BY <1>3, <1>5 DEF TaskOK, AssessedTask, Calculating, Ajuste
<1>. QED BY <1>1, <1>3, <1>6, OwnStep DEF Steps

LEMMA SaveAjusteStep ==
  ASSUME IInv, NEW w \in Workers, SaveAjuste(w)
  PROVE  IInv'
<1>1. task[w] \in Ajuste
  BY DEF SaveAjuste, IInv, TypeOK, TaskOK
<1>2. task[w].key \in FinalKey /\ task[w].row \in FinalGrade
  BY <1>1 DEF Ajuste
<1>3. TablesOK' /\ Grows
  BY <1>2, FinalSaved DEF SaveAjuste
<1>. QED BY <1>3, ReleaseStep DEF SaveAjuste

-----------------------------------------------------------------------------
(* The calculation *)

\* What a request keeps in memory through the calculation.
Kept(w) == /\ task'[w] \in Calculations
           /\ task'[w].enrolment = task[w].enrolment
           /\ task'[w].failed = task[w].failed

\* A step that goes on with the calculation.
LEMMA CalculationStep ==
  ASSUME IInv, NEW w \in Workers, TablesOK', Grows, Counters,
         pc' = [pc EXCEPT ![w] = pc'[w]], pc'[w] \in Calculating,
         task' = [task EXCEPT ![w] = task'[w]], task'[w] \in Calculations,
         \A s \in task'[w].failed : Evidence(task[w].enrolment, s)',
         pc'[w] \in {"passed", "absences"} => task'[w].subject \in Subjects,
         pc'[w] = "passed" => Evidence(task[w].enrolment, task[w].subject)',
         pc'[w] \in {"failed_subjects", "set"} => task'[w].enrolment \in DOMAIN situation',
         pc'[w] = "status" /\ task'[w].found => task'[w].enrolment \in DOMAIN situation'
  PROVE  IInv'
<1>1. TaskOK(w)'
  BY DEF TaskOK, Calculating, Calculations
<1>2. AssessedTask(w)'
  BY DEF AssessedTask, Calculating
<1>. QED BY <1>1, <1>2, OwnStep DEF Steps

LEMMA KeptAssessed ==
  ASSUME IInv, NEW w \in Workers, pc[w] \in Calculating, Kept(w), Grows
  PROVE  \A s \in task'[w].failed : Evidence(task[w].enrolment, s)'
<1>1. \A s \in task[w].failed : Evidence(task[w].enrolment, s)
  BY DEF IInv, AssessedTask
<1>. QED BY <1>1, EvidenceGrows DEF Kept

LEMMA StartedOK ==
  ASSUME NEW queue \in SUBSET Enrolments, NEW e \in Enrolments
  PROVE  /\ Calculation(queue, e) \in Calculations
         /\ Calculation(queue, e).failed = {}
BY DEF Calculation, Calculations

\* The calculation of the next enrolment begins.
LEMMA StartStep ==
  ASSUME IInv, NEW w \in Workers, NEW queue \in SUBSET Enrolments, NEW e \in Enrolments,
         TablesOK', Grows, Continue(w, "average", Calculation(queue, e))
  PROVE  IInv'
<1>1. /\ pc' = [pc EXCEPT ![w] = pc'[w]] /\ pc'[w] = "average"
      /\ task' = [task EXCEPT ![w] = task'[w]] /\ task'[w] = Calculation(queue, e)
      /\ Counters
  BY ContinueFacts
<1>2. task'[w] \in Calculations /\ task'[w].failed = {}
  BY <1>1, StartedOK
<1>. QED BY <1>1, <1>2, CalculationStep DEF Calculating

LEMMA SituacaoRequestStep ==
  ASSUME IInv, NEW w \in Workers, NEW selected \in SUBSET Enrolments, SituacaoRequest(w, selected)
  PROVE  IInv'
<1>1. TablesOK' /\ Grows
  BY SameTables DEF SituacaoRequest, tables
<1>2. PICK e \in selected : Receive(w, "average", Calculation(selected \ {e}, e))
  BY DEF SituacaoRequest
<1>3. /\ pc' = [pc EXCEPT ![w] = pc'[w]] /\ pc'[w] = "average"
      /\ task' = [task EXCEPT ![w] = task'[w]] /\ task'[w] = Calculation(selected \ {e}, e)
      /\ Counters
  BY <1>2, ReceiveFacts
<1>4. task'[w] \in Calculations /\ task'[w].failed = {}
  BY <1>3, StartedOK
<1>. QED BY <1>1, <1>3, <1>4, CalculationStep DEF Calculating

LEMMA AverageStep ==
  ASSUME IInv, NEW w \in Workers, NEW s \in Subjects, Average(w, s)
  PROVE  IInv'
<1>. DEFINE t == [task[w] EXCEPT !.todo = @ \ {s}, !.subject = s]
            step == IF LowAverage(task[w].enrolment, s) THEN "passed" ELSE "absences"
<1>1. TablesOK' /\ Grows
  BY SameTables DEF Average, tables
<1>2. Continue(w, step, t)
  BY DEF Average
<1>3. /\ pc' = [pc EXCEPT ![w] = pc'[w]] /\ pc'[w] = step
      /\ task' = [task EXCEPT ![w] = task'[w]] /\ task'[w] = t
      /\ Counters
  BY <1>2, ContinueFacts
<1>4. task[w] \in Calculations /\ pc[w] \in Calculating
  BY DEF Average, IInv, TypeOK, TaskOK, Calculating
<1>5. Kept(w) /\ task'[w].subject = s
  BY <1>3, <1>4 DEF Calculations, Kept
<1>6. \A x \in task'[w].failed : Evidence(task[w].enrolment, x)'
  BY <1>1, <1>4, <1>5, KeptAssessed
<1>7. step = "passed" => Evidence(task[w].enrolment, task[w].subject)'
  <2>1. step = "passed" => Evidence(task[w].enrolment, s)
    BY LowIsEvidence
  <2>. QED BY <2>1, <1>1, <1>5, EvidenceGrows DEF Kept
<1>8. pc'[w] \in {"passed", "absences"} /\ pc'[w] \in Calculating
  BY <1>3 DEF Calculating
<1>. HIDE DEF t, step
<1>. QED BY <1>1, <1>3, <1>5, <1>6, <1>7, <1>8, CalculationStep DEF Kept

\* A subject that is found to be in arrears joins the list.
LEMMA FailStep ==
  ASSUME IInv, NEW w \in Workers, pc[w] \in {"passed", "absences"}, Fail(w),
         Evidence(task[w].enrolment, task[w].subject), UNCHANGED <<attendance, tables>>
  PROVE  IInv'
<1>. DEFINE t == [task[w] EXCEPT !.failed = @ \cup {task[w].subject}]
<1>1. TablesOK' /\ Grows
  BY SameTables DEF tables
<1>2. Continue(w, "average", t)
  BY DEF Fail
<1>3. /\ pc' = [pc EXCEPT ![w] = pc'[w]] /\ pc'[w] = "average"
      /\ task' = [task EXCEPT ![w] = task'[w]] /\ task'[w] = t
      /\ Counters
  BY <1>2, ContinueFacts
<1>4. /\ task[w] \in Calculations /\ task[w].subject \in Subjects
      /\ \A x \in task[w].failed : Evidence(task[w].enrolment, x)
  BY DEF IInv, TypeOK, TaskOK, AssessedTask, Calculating
<1>5. /\ task'[w] \in Calculations /\ task'[w].enrolment = task[w].enrolment
      /\ task'[w].failed = task[w].failed \cup {task[w].subject}
  BY <1>3, <1>4 DEF Calculations
<1>6. \A x \in task'[w].failed : Evidence(task[w].enrolment, x)'
  BY <1>1, <1>4, <1>5, EvidenceGrows
<1>. HIDE DEF t
<1>. QED BY <1>1, <1>3, <1>5, <1>6, CalculationStep DEF Calculating

\* A step that leaves what the request has concluded as it is.
LEMMA GoOnStep ==
  ASSUME IInv, NEW w \in Workers, NEW step \in {"average", "absences"},
         pc[w] \in {"passed", "absences"}, Continue(w, step, task[w]),
         UNCHANGED <<attendance, tables>>
  PROVE  IInv'
<1>1. TablesOK' /\ Grows
  BY SameTables DEF tables
<1>2. /\ pc' = [pc EXCEPT ![w] = pc'[w]] /\ pc'[w] = step
      /\ task' = [task EXCEPT ![w] = task'[w]] /\ task'[w] = task[w]
      /\ Counters
  BY ContinueFacts
<1>3. task[w] \in Calculations /\ task[w].subject \in Subjects /\ pc[w] \in Calculating
  BY DEF IInv, TypeOK, TaskOK, Calculating
<1>4. Kept(w)
  BY <1>2, <1>3 DEF Kept
<1>5. \A x \in task'[w].failed : Evidence(task[w].enrolment, x)'
  BY <1>1, <1>3, <1>4, KeptAssessed
<1>. QED BY <1>1, <1>2, <1>3, <1>5, CalculationStep DEF Calculating

LEMMA PassedStep ==
  ASSUME IInv, NEW w \in Workers, Passed(w)
  PROVE  IInv'
<1>1. Evidence(task[w].enrolment, task[w].subject)
  BY DEF Passed, IInv, AssessedTask
<1>. QED BY <1>1, FailStep, GoOnStep DEF Passed

LEMMA FaltasStep ==
  ASSUME IInv, NEW w \in Workers, Faltas(w)
  PROVE  IInv'
<1>1. task[w].subject \in Subjects
  BY DEF Faltas, IInv, TypeOK, TaskOK
<1>2. ExceedsLimit(task[w].enrolment, task[w].subject) =>
        Evidence(task[w].enrolment, task[w].subject)
  BY <1>1, AbsenceIsEvidence
<1>. QED BY <1>2, FailStep, GoOnStep DEF Faltas

LEMMA FindStep ==
  ASSUME IInv, NEW w \in Workers, Find(w)
  PROVE  IInv'
<1>. DEFINE t == [task[w] EXCEPT !.found = task[w].enrolment \in DOMAIN situation]
<1>1. TablesOK' /\ Grows
  BY SameTables DEF Find, tables
<1>2. Continue(w, "status", t)
  BY DEF Find
<1>3. /\ pc' = [pc EXCEPT ![w] = pc'[w]] /\ pc'[w] = "status"
      /\ task' = [task EXCEPT ![w] = task'[w]] /\ task'[w] = t
      /\ Counters
  BY <1>2, ContinueFacts
<1>4. task[w] \in Calculations /\ pc[w] \in Calculating
  BY DEF Find, IInv, TypeOK, TaskOK, Calculating
<1>5. Kept(w) /\ (task'[w].found => task'[w].enrolment \in DOMAIN situation)
  <2>1. PICK b \in BOOLEAN : /\ t = [task[w] EXCEPT !.found = b]
                             /\ b => task[w].enrolment \in DOMAIN situation
    <3>1. CASE task[w].enrolment \in DOMAIN situation
      <4>1. (task[w].enrolment \in DOMAIN situation) = TRUE
        BY <3>1
      <4>. QED BY <3>1, <4>1
    <3>2. CASE task[w].enrolment \notin DOMAIN situation
      <4>1. (task[w].enrolment \in DOMAIN situation) = FALSE
        BY <3>2
      <4>. QED BY <4>1
    <3>. QED BY <3>1, <3>2
  <2>. HIDE DEF t
  <2>3. /\ task'[w] \in Calculations /\ task'[w].enrolment = task[w].enrolment
        /\ task'[w].failed = task[w].failed /\ task'[w].found = b
    BY <1>3, <1>4, <2>1 DEF Calculations
  <2>. QED BY <2>1, <2>3 DEF Kept
<1>6. \A x \in task'[w].failed : Evidence(task[w].enrolment, x)'
  BY <1>1, <1>4, <1>5, KeptAssessed
<1>7. task'[w].found => task'[w].enrolment \in DOMAIN situation'
  BY <1>1, <1>5 DEF Grows
<1>. HIDE DEF t
<1>. QED BY <1>1, <1>3, <1>5, <1>6, <1>7, CalculationStep DEF Calculating, Kept

\* The table of situations is written and nothing else.
LEMMA SituationSaved ==
  ASSUME IInv, UNCHANGED <<attendance, finals, recurso>>,
         DOMAIN situation \subseteq DOMAIN situation',
         Partial(situation, Enrolments, FinalSituation)',
         \A e \in DOMAIN situation' : \A s \in situation'[e].failed_subjects : Evidence(e, s)
  PROVE  TablesOK' /\ Grows
<1>1. Grows
  BY DEF Grows
<1>2. NothingByOmission'
  BY <1>1, EvidenceGrows DEF IInv, NothingByOmission
<1>. QED BY <1>1, <1>2 DEF IInv, TypeOK, TablesOK, Partial

LEMMA StatusIsSituation == \A failed : StatusOf(failed) \in Situations
BY DEF StatusOf, Situations

LEMMA SaveStatusStep ==
  ASSUME IInv, NEW w \in Workers, SaveStatus(w)
  PROVE  IInv'
<1>. DEFINE e == task[w].enrolment
            status == StatusOf(task[w].failed)
<1>1. /\ task[w] \in Calculations /\ pc[w] = "status" /\ pc[w] \in Calculating
      /\ task[w].found => e \in DOMAIN situation
  BY DEF SaveStatus, IInv, TypeOK, TaskOK, Calculating
<1>2. status \in Situations /\ e \in Enrolments
  BY <1>1, StatusIsSituation DEF Calculations
<1>3. /\ Partial(situation, Enrolments, FinalSituation)
      /\ \A x \in DOMAIN situation : \A s \in situation[x].failed_subjects : Evidence(x, s)
  BY DEF IInv, TypeOK, NothingByOmission
<1>4. CASE /\ Continue(w, "failed_subjects", task[w])
           /\ e \in DOMAIN situation' /\ DOMAIN situation \subseteq DOMAIN situation'
           /\ Partial(situation, Enrolments, FinalSituation)'
           /\ \A x \in DOMAIN situation' : \A s \in situation'[x].failed_subjects : Evidence(x, s)
  <2>1. TablesOK' /\ Grows
    BY <1>4, SituationSaved DEF SaveStatus
  <2>2. /\ pc' = [pc EXCEPT ![w] = pc'[w]] /\ pc'[w] = "failed_subjects"
        /\ task' = [task EXCEPT ![w] = task'[w]] /\ task'[w] = task[w]
        /\ Counters
    BY <1>4, ContinueFacts
  <2>3. Kept(w)
    BY <1>1, <2>2 DEF Kept
  <2>4. \A x \in task'[w].failed : Evidence(task[w].enrolment, x)'
    BY <1>1, <2>1, <2>3, KeptAssessed
  <2>. QED BY <1>1, <1>4, <2>1, <2>2, <2>4, CalculationStep DEF Calculating
<1>5. CASE e \in DOMAIN situation /\ situation' = [situation EXCEPT ![e].status = status]
                /\ Continue(w, "failed_subjects", task[w])
  <2>1. DOMAIN situation' = DOMAIN situation
    BY <1>5
  <2>2. \A x \in DOMAIN situation :
          situation'[x] = IF x = e THEN [situation[x] EXCEPT !.status = status] ELSE situation[x]
    BY <1>5
  <2>3. \A x \in DOMAIN situation : situation[x] \in FinalSituation
    BY <1>3 DEF Partial
  <2>4. \A x \in DOMAIN situation : /\ situation'[x] \in FinalSituation
                                    /\ situation'[x].failed_subjects = situation[x].failed_subjects
    BY <1>2, <2>2, <2>3 DEF FinalSituation
  <2>5. Partial(situation, Enrolments, FinalSituation)'
    BY <1>3, <2>1, <2>4 DEF Partial
  <2>6. \A x \in DOMAIN situation' : \A s \in situation'[x].failed_subjects : Evidence(x, s)
    BY <1>3, <2>1, <2>4
  <2>. QED BY <1>4, <1>5, <2>1, <2>5, <2>6
<1>6. CASE situation' = With(situation, e, [status |-> status, failed_subjects |-> {}])
           /\ e \notin DOMAIN situation /\ Continue(w, "failed_subjects", task[w])
  <2>. DEFINE row == [status |-> status, failed_subjects |-> {}]
  <2>1. row \in FinalSituation
    BY <1>2 DEF FinalSituation
  <2>2. /\ Partial(With(situation, e, row), Enrolments, FinalSituation)
        /\ DOMAIN situation \subseteq DOMAIN With(situation, e, row)
    BY <1>2, <1>3, <2>1, WithFacts
  <2>3. Partial(situation, Enrolments, FinalSituation)' /\ DOMAIN situation \subseteq DOMAIN situation'
    BY <1>6, <2>2 DEF Partial
  <2>4. /\ DOMAIN situation' = DOMAIN situation \cup {e}
        /\ \A x \in DOMAIN situation' : situation'[x] = IF x = e THEN row ELSE situation[x]
    BY <1>6 DEF With
  <2>5. \A x \in DOMAIN situation' : \A s \in situation'[x].failed_subjects : Evidence(x, s)
    <3>1. row.failed_subjects = {}
      OBVIOUS
    <3>. HIDE DEF row
    <3>. QED BY <1>3, <2>4, <3>1
  <2>6. e \in DOMAIN situation'
    BY <2>4
  <2>7. Continue(w, "failed_subjects", task[w])
    BY <1>6
  <2>. QED BY <1>4, <2>3, <2>5, <2>6, <2>7
<1>7. CASE UNCHANGED situation /\ Release(w)
  <2>1. TablesOK' /\ Grows
    BY <1>7, SameTables DEF SaveStatus
  <2>. QED BY <2>1, <1>7, ReleaseStep
<1>. QED BY <1>1, <1>5, <1>6, <1>7 DEF SaveStatus

LEMMA ReadFailedStep ==
  ASSUME IInv, NEW w \in Workers, ReadFailed(w)
  PROVE  IInv'
<1>. DEFINE t == [task[w] EXCEPT !.old = situation[task[w].enrolment].failed_subjects]
<1>1. TablesOK' /\ Grows
  BY SameTables DEF ReadFailed, tables
<1>2. Continue(w, "set", t)
  BY DEF ReadFailed
<1>3. /\ pc' = [pc EXCEPT ![w] = pc'[w]] /\ pc'[w] = "set"
      /\ task' = [task EXCEPT ![w] = task'[w]] /\ task'[w] = t
      /\ Counters
  BY <1>2, ContinueFacts
<1>4. task[w] \in Calculations /\ pc[w] \in Calculating /\ task[w].enrolment \in DOMAIN situation
  BY DEF ReadFailed, IInv, TypeOK, TaskOK, Calculating
<1>5. situation[task[w].enrolment].failed_subjects \in SUBSET Subjects
  BY <1>4 DEF IInv, TypeOK, Partial, FinalSituation
<1>6. Kept(w)
  BY <1>3, <1>4, <1>5 DEF Calculations, Kept
<1>7. \A x \in task'[w].failed : Evidence(task[w].enrolment, x)'
  BY <1>1, <1>4, <1>6, KeptAssessed
<1>8. task'[w].enrolment \in DOMAIN situation'
  BY <1>1, <1>4, <1>6 DEF Grows, Kept
<1>. HIDE DEF t
<1>. QED BY <1>1, <1>3, <1>6, <1>7, <1>8, CalculationStep DEF Calculating, Kept

LEMMA SetFailedStep ==
  ASSUME IInv, NEW w \in Workers, SetFailed(w)
  PROVE  IInv'
<1>. DEFINE e == task[w].enrolment
            cur == situation[e].failed_subjects
            new == (cur \ (task[w].old \ task[w].failed)) \cup (task[w].failed \ task[w].old)
<1>1. task[w] \in Calculations /\ e \in DOMAIN situation
  BY DEF SetFailed, IInv, TypeOK, TaskOK, Calculating
<1>2. /\ Partial(situation, Enrolments, FinalSituation)
      /\ \A x \in DOMAIN situation : \A s \in situation[x].failed_subjects : Evidence(x, s)
      /\ \A s \in task[w].failed : Evidence(e, s)
  BY DEF SetFailed, IInv, TypeOK, NothingByOmission, AssessedTask, Calculating
<1>3. situation' = [situation EXCEPT ![e].failed_subjects = new]
  BY DEF SetFailed
<1>4. /\ DOMAIN situation' = DOMAIN situation
      /\ \A x \in DOMAIN situation :
           situation'[x] = IF x = e THEN [situation[x] EXCEPT !.failed_subjects = new]
                           ELSE situation[x]
  BY <1>3
<1>5. new \in SUBSET Subjects /\ \A s \in new : Evidence(e, s)
  <2>1. cur \in SUBSET Subjects
    BY <1>1, <1>2 DEF Partial, FinalSituation
  <2>2. task[w].failed \in SUBSET Subjects
    BY <1>1 DEF Calculations
  <2>. QED BY <1>1, <1>2, <2>1, <2>2
<1>. HIDE DEF new
<1>6. \A x \in DOMAIN situation :
        /\ situation'[x] \in FinalSituation
        /\ situation'[x].failed_subjects = IF x = e THEN new ELSE situation[x].failed_subjects
  BY <1>2, <1>4, <1>5 DEF Partial, FinalSituation
<1>7. Partial(situation, Enrolments, FinalSituation)'
  BY <1>2, <1>4, <1>6 DEF Partial
<1>8. \A x \in DOMAIN situation' : \A s \in situation'[x].failed_subjects : Evidence(x, s)
  BY <1>2, <1>4, <1>5, <1>6
<1>9. TablesOK' /\ Grows
  BY <1>4, <1>7, <1>8, SituationSaved DEF SetFailed
<1>10. CASE Release(w)
  BY <1>9, <1>10, ReleaseStep
<1>11. CASE \E x \in task[w].queue : Continue(w, "average", Calculation(task[w].queue \ {x}, x))
  <2>1. PICK x \in task[w].queue : Continue(w, "average", Calculation(task[w].queue \ {x}, x))
    BY <1>11
  <2>2. x \in Enrolments /\ task[w].queue \ {x} \in SUBSET Enrolments
    BY <1>1, <2>1 DEF Calculations
  <2>. QED BY <1>9, <2>1, <2>2, StartStep
<1>. QED BY <1>10, <1>11 DEF SetFailed, NextEnrolment

-----------------------------------------------------------------------------
(* Grades of recurso *)

LEMMA RecursoRequestStep ==
  ASSUME IInv, NEW w \in Workers, NEW e \in Enrolments, NEW s \in Subjects, NEW t \in Terms,
         NEW v \in Values, RecursoRequest(w, e, s, t, v)
  PROVE  IInv'
<1>. DEFINE k == <<StudentOf[e], s, t>>
            task1 == [enrolment |-> e, key |-> k, value |-> v, found |-> FALSE]
<1>1. TablesOK' /\ Grows
  BY SameTables DEF RecursoRequest, tables
<1>2. Receive(w, "search", task1)
  BY DEF RecursoRequest
<1>3. /\ pc' = [pc EXCEPT ![w] = pc'[w]] /\ pc'[w] = "search"
      /\ task' = [task EXCEPT ![w] = task'[w]] /\ task'[w] = task1
      /\ Counters
  BY <1>2, ReceiveFacts
<1>4. k \in RecursoKey
  BY StudentsAssumption DEF RecursoKey
<1>5. task1 \in Nota
  BY <1>4 DEF Nota
<1>6. Evidence(e, s)'
  <2>1. Evidence(e, s)
    BY DEF RecursoRequest, IInv, NothingByOmission
  <2>. QED BY <1>1, <2>1, EvidenceGrows
<1>7. task'[w].key[1] = StudentOf[e] /\ task'[w].key[2] = s
  BY <1>3
<1>8. TaskOK(w)'
  BY <1>3, <1>5 DEF TaskOK, Calculating, Nota
<1>9. AssessedTask(w)'
  BY <1>3, <1>6, <1>7 DEF AssessedTask, Calculating
<1>. QED BY <1>1, <1>3, <1>8, <1>9, OwnStep DEF Steps

LEMMA SearchNotaStep ==
  ASSUME IInv, NEW w \in Workers, SearchNota(w)
  PROVE  IInv'
<1>. DEFINE t == [task[w] EXCEPT !.found = task[w].key \in DOMAIN recurso]
<1>1. TablesOK' /\ Grows
  BY SameTables DEF SearchNota, tables
<1>2. Continue(w, "nota", t)
  BY DEF SearchNota
<1>3. /\ pc' = [pc EXCEPT ![w] = pc'[w]] /\ pc'[w] = "nota"
      /\ task' = [task EXCEPT ![w] = task'[w]] /\ task'[w] = t
      /\ Counters
  BY <1>2, ContinueFacts
<1>4. /\ task[w] \in Nota
      /\ \E e \in Enrolments : StudentOf[e] = task[w].key[1] /\ Evidence(e, task[w].key[2])
  BY DEF SearchNota, IInv, TypeOK, TaskOK, AssessedTask
<1>5. PICK b \in BOOLEAN : t = [task[w] EXCEPT !.found = b]
  <2>1. CASE task[w].key \in DOMAIN recurso
    <3>1. (task[w].key \in DOMAIN recurso) = TRUE
      BY <2>1
    <3>. QED BY <3>1
  <2>2. CASE task[w].key \notin DOMAIN recurso
    <3>1. (task[w].key \in DOMAIN recurso) = FALSE
      BY <2>2
    <3>. QED BY <3>1
  <2>. QED BY <2>1, <2>2
<1>. HIDE DEF t
<1>6. task'[w] \in Nota /\ task'[w].key = task[w].key
  BY <1>3, <1>4, <1>5 DEF Nota
<1>7. TaskOK(w)'
  BY <1>3, <1>6 DEF TaskOK, Calculating, Nota
<1>8. AssessedTask(w)'
  <2>1. PICK e \in Enrolments : StudentOf[e] = task[w].key[1] /\ Evidence(e, task[w].key[2])
    BY <1>4
  <2>2. Evidence(e, task[w].key[2])'
    BY <1>1, <1>6, <2>1, EvidenceGrows
  <2>. QED BY <1>3, <1>6, <2>1, <2>2 DEF AssessedTask, Calculating
<1>. QED BY <1>1, <1>3, <1>7, <1>8, OwnStep DEF Steps

LEMMA SaveNotaStep ==
  ASSUME IInv, NEW w \in Workers, SaveNota(w)
  PROVE  IInv'
<1>. DEFINE k == task[w].key
<1>1. /\ task[w] \in Nota
      /\ \E e \in Enrolments : StudentOf[e] = k[1] /\ Evidence(e, k[2])
  BY DEF SaveNota, IInv, TypeOK, TaskOK, AssessedTask
<1>2. k \in RecursoKey /\ task[w].value \in Values /\ task[w].enrolment \in Enrolments
  BY <1>1 DEF Nota
<1>3. CASE /\ recurso' = With(recurso, k, task[w].value)
           /\ Continue(w, "average", Calculation({}, task[w].enrolment))
  <2>1. Grows
    BY DEF SaveNota, Grows
  <2>2. Partial(recurso, RecursoKey, Values)
    BY DEF IInv, TypeOK
  <2>3. Partial(With(recurso, k, task[w].value), RecursoKey, Values)
    BY <1>2, <2>2, WithFacts
  <2>4. Partial(recurso, RecursoKey, Values)'
    BY <1>3, <2>3 DEF Partial
  <2>5. DOMAIN recurso' = DOMAIN recurso \cup {k}
    BY <1>3 DEF With
  <2>6. \A x \in DOMAIN recurso' :
          \E e \in Enrolments : StudentOf[e] = x[1] /\ Evidence(e, x[2])'
    BY <1>1, <2>1, <2>5, EvidenceGrows DEF IInv, NothingByOmission
  <2>7. \A e \in DOMAIN situation' : \A s \in situation'[e].failed_subjects : Evidence(e, s)'
    BY <2>1, EvidenceGrows DEF SaveNota, IInv, NothingByOmission
  <2>8. NothingByOmission'
    BY <2>6, <2>7 DEF NothingByOmission
  <2>9. TablesOK'
    BY <2>4, <2>8 DEF SaveNota, IInv, TypeOK, TablesOK, Partial
  <2>. QED BY <1>2, <1>3, <2>1, <2>9, StartStep
<1>4. CASE UNCHANGED recurso /\ Release(w)
  <2>1. TablesOK' /\ Grows
    BY <1>4, SameTables DEF SaveNota
  <2>. QED BY <2>1, <1>4, ReleaseStep
<1>. QED BY <1>3, <1>4 DEF SaveNota

-----------------------------------------------------------------------------
(* The invariant *)

LEMMA InitIInv == Init => IInv
<1>. SUFFICES ASSUME Init PROVE IInv
  OBVIOUS
<1>1. DOMAIN NoRows = {}
  BY DEF NoRows
<1>2. \A w \in Workers : TaskOK(w) /\ AssessedTask(w)
  BY DEF Init, AttendanceInit, TaskOK, AssessedTask, Calculating
<1>3. pc \in [Workers -> Steps] /\ DOMAIN task = Workers
  BY DEF Init, AttendanceInit, Steps
<1>4. served \in 0 .. MaxRequests /\ crashes \in 0 .. MaxCrashes
  BY BoundsAssumption DEF Init, AttendanceInit
<1>. QED BY <1>1, <1>2, <1>3, <1>4 DEF Init, AttendanceInit, IInv, TypeOK, Partial, NothingByOmission

LEMMA NextIInv == IInv /\ [Next]_vars => IInv'
<1>. SUFFICES ASSUME IInv, [Next]_vars PROVE IInv'
  OBVIOUS
<1>1. CASE UNCHANGED vars
  <2>1. TablesOK' /\ Grows
    BY <1>1, SameTables DEF vars, attendanceVars, tables
  <2>2. \A w \in Workers : TaskOK(w)' /\ AssessedTask(w)'
    BY <1>1, <2>1, EvidenceGrows
       DEF vars, attendanceVars, requests, tables, IInv, TypeOK, TaskOK, AssessedTask,
           GridOK, Justification, Media, Ajuste, Nota
  <2>. QED BY <1>1, <2>1, <2>2 DEF vars, attendanceVars, requests, IInv, TypeOK, TablesOK
<1>2. ASSUME NEW w \in Workers, Receives(w) PROVE IInv'
  BY <1>2, RegistarMediaStep, AjustarMediaStep, SituacaoRequestStep, RecursoRequestStep DEF Receives
<1>3. ASSUME NEW w \in Workers, Step(w) PROVE IInv'
  BY <1>3, SaveMediaStep, SaveAjusteStep, AverageStep, PassedStep, FaltasStep, FindStep,
     SaveStatusStep, ReadFailedStep, SetFailedStep, SearchNotaStep, SaveNotaStep DEF Step
<1>4. ASSUME NEW w \in Workers, AttendanceStep(w), UNCHANGED tables PROVE IInv'
  BY <1>4, AttendanceSteps
<1>5. ASSUME NEW w \in Workers, Crash(w), UNCHANGED <<attendance, tables>> PROVE IInv'
  BY <1>5, CrashStep
<1>. QED BY <1>1, <1>2, <1>3, <1>4, <1>5 DEF Next

\* The inductive invariant of the specification.
THEOREM Invariance == Spec => []IInv
BY InitIInv, NextIInv, PTL DEF Spec

\* Every state of the specification is well typed.
THEOREM TypeCorrect == Spec => []TypeOK
<1>1. IInv => TypeOK
  BY DEF IInv
<1>. QED BY Invariance, <1>1, PTL

\* calcular_situacao_final and lancar_nota_recurso: no subject is in arrears, and
\* no exam of recurso has been sat, without a final grade or an attendance record,
\* whatever requests race or die.
THEOREM NobodyFailsByOmission == Spec => []NothingByOmission
<1>1. IInv => NothingByOmission
  BY DEF IInv
<1>. QED BY Invariance, <1>1, PTL

-----------------------------------------------------------------------------
(* Requests that run alone *)

\* The same averages and absences, of given tables.
LowIn(rows, e, s) ==
  LET assessed == {t \in Terms : <<e, s, t>> \in DOMAIN rows}
  IN /\ assessed # {}
     /\ MapThenSumSet(LAMBDA t : FinalValue(rows[<<e, s, t>>]), assessed)
          < PassingGrade * Cardinality(assessed)

ExceedsIn(rows, e, s) ==
  MapThenSumSet(LAMBDA l : Hours[l],
                {l \in Lessons : /\ SubjectOf[l] = s
                                 /\ <<e, l>> \in DOMAIN rows
                                 /\ rows[<<e, l>>].status = "absent"}) > LimitHours[s]

\* These hold in every state, so they hold in the next one.
LowIsIn == \A e, s : LowAverage(e, s) <=> LowIn(finals, e, s)
ExceedsIsIn == \A e, s : ExceedsLimit(e, s) <=> ExceedsIn(attendance, e, s)

LEMMA TablesDecide == LowIsIn /\ ExceedsIsIn
BY DEF LowIsIn, ExceedsIsIn, LowAverage, LowIn, Assessed, ExceedsLimit, UnjustifiedHours, ExceedsIn

LEMMA TablesDecideNext == LowIsIn' /\ ExceedsIsIn'
BY TablesDecide, PTL

LEMMA SameData ==
  ASSUME UNCHANGED <<attendance, finals, recurso>>, NEW e, NEW s
  PROVE  /\ LowAverage(e, s)' <=> LowAverage(e, s)
         /\ ExceedsLimit(e, s)' <=> ExceedsLimit(e, s)
         /\ HasPassedRecurso(e, s)' <=> HasPassedRecurso(e, s)
<1>1. LowAverage(e, s) <=> LowIn(finals, e, s)
  BY TablesDecide DEF LowIsIn
<1>2. LowAverage(e, s)' <=> LowIn(finals', e, s)
  BY TablesDecideNext DEF LowIsIn
<1>3. ExceedsLimit(e, s) <=> ExceedsIn(attendance, e, s)
  BY TablesDecide DEF ExceedsIsIn
<1>4. ExceedsLimit(e, s)' <=> ExceedsIn(attendance', e, s)
  BY TablesDecideNext DEF ExceedsIsIn
<1>5. HasPassedRecurso(e, s)' <=> HasPassedRecurso(e, s)
  BY DEF HasPassedRecurso
<1>6. LowAverage(e, s)' <=> LowAverage(e, s)
  BY <1>1, <1>2
<1>7. ExceedsLimit(e, s)' <=> ExceedsLimit(e, s)
  BY <1>3, <1>4
<1>. QED BY <1>5, <1>6, <1>7

LEMMA SameArrears ==
  ASSUME UNCHANGED <<attendance, finals, recurso>>, NEW e
  PROVE  Arrears(e)' = Arrears(e)
BY SameData DEF Arrears

\* What a calculation that runs alone has found out: the subjects it has left
\* behind are in arrears, or not, in the present data.
CalculationOK(w) ==
  LET t == task[w]
      e == task[w].enrolment
      open == IF pc[w] = "average" THEN t.todo ELSE t.todo \cup {t.subject}
  IN /\ IsFiniteSet(t.failed)
     /\ pc[w] \in {"average", "passed", "absences"} =>
          \A s \in Subjects : IF s \in open THEN s \notin t.failed
                              ELSE s \in t.failed <=> s \in Arrears(e)
     /\ pc[w] \in {"passed", "absences"} => t.subject \notin t.todo
     /\ pc[w] = "passed" => LowAverage(e, t.subject)
     /\ pc[w] = "absences" => (LowAverage(e, t.subject) => HasPassedRecurso(e, t.subject))
     /\ pc[w] \in {"status", "failed_subjects", "set"} => t.failed = Arrears(e)
     /\ pc[w] = "status" => (e \in DOMAIN situation => t.found)
     /\ pc[w] \in {"failed_subjects", "set"} => situation[e].status = StatusOf(t.failed)
     /\ pc[w] = "set" => t.old = situation[e].failed_subjects

\* What a request that runs alone has in memory is what is stored.
AloneOK(w) ==
  LET t == task[w]
  IN /\ \A v \in Workers \ {w} : pc[v] = "idle"
     /\ pc[w] = "grid" =>
          \A e \in Enrolments :
            /\ e \in DOMAIN t.rows => /\ <<e, t.lesson>> \in DOMAIN attendance
                                      /\ attendance[<<e, t.lesson>>].text = t.rows[e].text
            /\ e \in DOMAIN t.todo /\ <<e, t.lesson>> \in DOMAIN attendance =>
                 e \in DOMAIN t.rows
     /\ pc[w] = "justify" =>
          /\ t.key \in DOMAIN attendance /\ attendance[t.key].status \in Absences
          /\ t.row.status = "justified_absent"
     /\ pc[w] = "media" => t.row = IF t.key \in DOMAIN finals THEN finals[t.key] ELSE None
     /\ pc[w] = "ajuste" =>
          t.key \in DOMAIN finals /\ t.row.calculated = finals[t.key].calculated
     /\ pc[w] \in Calculating => CalculationOK(w)

AInv == \A w \in Workers : IF pc[w] = "idle" THEN alone[w] ELSE alone[w] => AloneOK(w)

LEMMA MCInvariant == MCSpec => []IInv
<1>1. MCInit => IInv
  BY InitIInv DEF MCInit
<1>2. [MCNext]_<<vars, alone, scope>> => [Next]_vars
  BY DEF MCNext
<1>. QED BY <1>1, <1>2, NextIInv, PTL DEF MCSpec

\* The first step of a request and its other steps.
Begins(w) ==
  \/ Receives(w)
  \/ /\ \/ \E l \in Lessons, class \in SUBSET Enrolments :
             \E statuses \in [class -> Status] : GridRequest(w, l, statuses)
        \/ \E k \in Key, text \in Texts : JustifyRequest(w, k, text)
     /\ UNCHANGED tables

Works(w) ==
  \/ Step(w)
  \/ ((\E e \in Enrolments : Mark(w, e)) \/ MarkEnd(w) \/ Justify(w)) /\ UNCHANGED tables

Dies(w) == Crash(w) /\ UNCHANGED <<attendance, tables>>

LEMMA StepCases ==
  ASSUME Next
  PROVE  \E w \in Workers : Begins(w) \/ Works(w) \/ Dies(w)
BY DEF Next, Begins, Works, Dies, AttendanceStep

\* What a step of w does to the other workers.
Own(w) == \A v \in Workers \ {w} : pc'[v] = pc[v] /\ task'[v] = task[v]

LEMMA ReceiveOwn ==
  ASSUME IInv, NEW w \in Workers, NEW step, NEW t, Receive(w, step, t)
  PROVE  /\ pc[w] = "idle" /\ pc'[w] = step /\ task'[w] = t /\ crashes' = crashes
         /\ Own(w)
BY DEF Receive, Own, IInv, TypeOK

LEMMA ContinueOwn ==
  ASSUME IInv, NEW w \in Workers, NEW step, NEW t, Continue(w, step, t)
  PROVE  pc'[w] = step /\ task'[w] = t /\ crashes' = crashes /\ Own(w)
BY DEF Continue, Own, IInv, TypeOK

LEMMA ReleaseOwn ==
  ASSUME IInv, NEW w \in Workers, Release(w)
  PROVE  pc'[w] = "idle" /\ crashes' = crashes /\ Own(w)
BY DEF Release, Own, IInv, TypeOK

LEMMA BeginsOwn ==
  ASSUME IInv, NEW w \in Workers, Begins(w)
  PROVE  /\ pc[w] = "idle" /\ pc'[w] # "idle" /\ UNCHANGED <<attendance, tables, crashes>>
         /\ Own(w)
<1>1. \E step \in Steps \ {"idle"} : \E t : Receive(w, step, t)
  <2>1. CASE \E l \in Lessons, class \in SUBSET Enrolments :
               \E statuses \in [class -> Status] : GridRequest(w, l, statuses)
    BY <2>1 DEF GridRequest, Steps
  <2>2. CASE \E k \in Key, text \in Texts : JustifyRequest(w, k, text)
    BY <2>2 DEF JustifyRequest, Steps
  <2>3. CASE \E k \in FinalKey, v \in Values : RegistarMedia(w, k, v)
    BY <2>3 DEF RegistarMedia, Steps
  <2>4. CASE \E k \in FinalKey, v \in Values \cup {None} : AjustarMedia(w, k, v)
    BY <2>4 DEF AjustarMedia, Steps
  <2>5. CASE \E selected \in SUBSET Enrolments : SituacaoRequest(w, selected)
    BY <2>5 DEF SituacaoRequest, Steps, Calculating
  <2>6. CASE \E e \in Enrolments, s \in Subjects, t \in Terms, v \in Values :
               RecursoRequest(w, e, s, t, v)
    BY <2>6 DEF RecursoRequest, Steps
  <2>. QED BY <2>1, <2>2, <2>3, <2>4, <2>5, <2>6 DEF Begins, Receives
<1>2. UNCHANGED <<attendance, tables>>
  BY DEF Begins, Receives, RegistarMedia, AjustarMedia, SituacaoRequest, RecursoRequest,
         GridRequest, JustifyRequest
<1>. QED BY <1>1, <1>2, ReceiveOwn

LEMMA WorksOwn ==
  ASSUME IInv, NEW w \in Workers, Works(w)
  PROVE  pc[w] # "idle" /\ crashes' = crashes /\ Own(w)
<1>1. CASE SaveMedia(w) \/ SaveAjuste(w) \/ MarkEnd(w) \/ Justify(w)
  BY <1>1, ReleaseOwn DEF SaveMedia, SaveAjuste, MarkEnd, Justify
<1>2. CASE \E e \in Enrolments : Mark(w, e)
  BY <1>2, ReleaseOwn, ContinueOwn DEF Mark
<1>3. CASE \/ \E s \in Subjects : Average(w, s)
           \/ Find(w) \/ ReadFailed(w) \/ SearchNota(w)
  BY <1>3, ContinueOwn DEF Average, Find, ReadFailed, SearchNota
<1>4. CASE Passed(w) \/ Faltas(w)
  BY <1>4, ContinueOwn DEF Passed, Faltas, Fail
<1>5. CASE SaveStatus(w) \/ SaveNota(w)
  BY <1>5, ContinueOwn, ReleaseOwn DEF SaveStatus, SaveNota
<1>6. CASE SetFailed(w)
  BY <1>6, ContinueOwn, ReleaseOwn DEF SetFailed, NextEnrolment
<1>. QED BY <1>1, <1>2, <1>3, <1>4, <1>5, <1>6 DEF Works, Step

-----------------------------------------------------------------------------
LEMMA StartIsOK ==
  ASSUME NEW w \in Workers, NEW queue, NEW e, pc'[w] = "average",
         task'[w] = Calculation(queue, e)
  PROVE  CalculationOK(w)'
<1>1. task'[w].failed = {} /\ task'[w].todo = Subjects
  BY DEF Calculation
<1>. QED BY <1>1, FS_EmptySet DEF CalculationOK

LEMMA GridIsOK ==
  ASSUME IInv, NEW w \in Workers, NEW l \in Lessons, NEW class \in SUBSET Enrolments,
         NEW statuses \in [class -> Status], GridRequest(w, l, statuses),
         \A v \in Workers \ {w} : pc'[v] = "idle"
  PROVE  AloneOK(w)'
<1>. DEFINE known == {e \in Enrolments : <<e, l>> \in DOMAIN attendance}
            rows == [e \in known |-> attendance[<<e, l>>]]
<1>1. Receive(w, "grid", [lesson |-> l, todo |-> statuses, rows |-> rows])
  BY DEF GridRequest
<1>2. pc'[w] = "grid" /\ task'[w] = [lesson |-> l, todo |-> statuses, rows |-> rows]
  BY <1>1, ReceiveOwn
<1>3. task'[w].lesson = l /\ task'[w].todo = statuses /\ task'[w].rows = rows
  BY <1>2
<1>4. attendance' = attendance
  BY DEF GridRequest
<1>. QED BY <1>2, <1>3, <1>4 DEF AloneOK, Calculating

LEMMA BeginsOK ==
  ASSUME IInv, NEW w \in Workers, Begins(w), \A v \in Workers \ {w} : pc'[v] = "idle"
  PROVE  AloneOK(w)'
<1>1. UNCHANGED <<attendance, tables>>
  BY BeginsOwn
<1>2. CASE \E l \in Lessons, class \in SUBSET Enrolments :
             \E statuses \in [class -> Status] : GridRequest(w, l, statuses)
  BY <1>2, GridIsOK
<1>3. ASSUME NEW k \in Key, NEW text \in Texts, JustifyRequest(w, k, text)
      PROVE  AloneOK(w)'
  <2>1. /\ pc'[w] = "justify" /\ k \in DOMAIN attendance /\ attendance[k].status \in Absences
        /\ task'[w] = [key |-> k, row |-> [status |-> "justified_absent", text |-> text]]
    BY <1>3, ReceiveOwn DEF JustifyRequest
  <2>. QED BY <1>1, <2>1 DEF AloneOK, Calculating
<1>4. ASSUME NEW k \in FinalKey, NEW v \in Values, RegistarMedia(w, k, v)
      PROVE  AloneOK(w)'
  <2>1. /\ pc'[w] = "media"
        /\ task'[w] = [key |-> k, value |-> v, row |-> IF k \in DOMAIN finals THEN finals[k] ELSE None]
    BY <1>4, ReceiveOwn DEF RegistarMedia
  <2>. QED BY <1>1, <2>1 DEF AloneOK, Calculating, tables
<1>5. ASSUME NEW k \in FinalKey, NEW v \in Values \cup {None}, AjustarMedia(w, k, v)
      PROVE  AloneOK(w)'
  <2>. DEFINE row == [finals[k] EXCEPT !.override = v]
  <2>1. pc'[w] = "ajuste" /\ k \in DOMAIN finals /\ task'[w] = [key |-> k, row |-> row]
    BY <1>5, ReceiveOwn DEF AjustarMedia, Adjusted
  <2>2. row.calculated = finals[k].calculated
    BY <2>1 DEF IInv, TypeOK, Partial, FinalGrade
  <2>. HIDE DEF row
  <2>. QED BY <1>1, <2>1, <2>2 DEF AloneOK, Calculating, tables
<1>6. ASSUME NEW selected \in SUBSET Enrolments, SituacaoRequest(w, selected)
      PROVE  AloneOK(w)'
  <2>1. PICK e \in selected : Receive(w, "average", Calculation(selected \ {e}, e))
    BY <1>6 DEF SituacaoRequest
  <2>2. pc'[w] = "average" /\ task'[w] = Calculation(selected \ {e}, e)
    BY <2>1, ReceiveOwn
  <2>3. CalculationOK(w)'
    BY <2>2, StartIsOK
  <2>. QED BY <2>2, <2>3 DEF AloneOK
<1>7. ASSUME NEW e \in Enrolments, NEW s \in Subjects, NEW t \in Terms, NEW v \in Values,
             RecursoRequest(w, e, s, t, v)
      PROVE  AloneOK(w)'
  <2>1. pc'[w] = "search"
    BY <1>7, ReceiveOwn DEF RecursoRequest
  <2>. QED BY <2>1 DEF AloneOK, Calculating
<1>. QED BY <1>2, <1>3, <1>4, <1>5, <1>6, <1>7 DEF Begins, Receives

-----------------------------------------------------------------------------
\* The steps of a calculation that read the data.
LEMMA AverageKeepsOK ==
  ASSUME IInv, NEW w \in Workers, CalculationOK(w), NEW s \in Subjects, Average(w, s)
  PROVE  CalculationOK(w)'
<1>. DEFINE t == [task[w] EXCEPT !.todo = @ \ {s}, !.subject = s]
<1>0. PICK e : e = task[w].enrolment
  OBVIOUS
<1>1. /\ pc'[w] = (IF LowAverage(e, s) THEN "passed" ELSE "absences")
      /\ task'[w] = t /\ pc[w] = "average" /\ s \in task[w].todo
  BY <1>0, ContinueOwn DEF Average
<1>2. task[w] \in Calculations
  BY <1>1 DEF IInv, TypeOK, TaskOK, Calculating
<1>3. /\ t.todo = task[w].todo \ {s} /\ t.subject = s /\ t.failed = task[w].failed
      /\ t.enrolment = e
  BY <1>0, <1>2 DEF Calculations
<1>. HIDE DEF t
<1>4. UNCHANGED <<attendance, finals, recurso>>
  BY DEF Average, tables
<1>5. Arrears(e)' = Arrears(e) /\ (LowAverage(e, s)' <=> LowAverage(e, s))
  BY <1>4, SameArrears, SameData
<1>6. /\ IsFiniteSet(task[w].failed)
      /\ \A x \in Subjects : IF x \in task[w].todo THEN x \notin task[w].failed
                             ELSE x \in task[w].failed <=> x \in Arrears(e)
  BY <1>0, <1>1 DEF CalculationOK
<1>7. task'[w].todo \cup {task'[w].subject} = task[w].todo
  BY <1>1, <1>3
<1>. QED BY <1>1, <1>3, <1>5, <1>6, <1>7 DEF CalculationOK

\* What has been found out of the subjects that are left behind.
LEMMA Found ==
  ASSUME IInv, NEW w \in Workers, CalculationOK(w), pc[w] \in {"passed", "absences"},
         NEW e, e = task[w].enrolment
  PROVE  LET t == task[w]
         IN /\ t \in Calculations /\ t.subject \in Subjects /\ t.subject \notin t.todo
            /\ IsFiniteSet(t.failed) /\ t.subject \notin t.failed
            /\ \A x \in Subjects \ {t.subject} :
                 IF x \in t.todo THEN x \notin t.failed ELSE x \in t.failed <=> x \in Arrears(e)
<1>1. task[w] \in Calculations /\ task[w].subject \in Subjects
  BY DEF IInv, TypeOK, TaskOK, Calculating
<1>. QED BY <1>1 DEF CalculationOK

LEMMA FailKeepsOK ==
  ASSUME IInv, NEW w \in Workers, CalculationOK(w), pc[w] \in {"passed", "absences"},
         Fail(w), UNCHANGED <<attendance, tables>>,
         task[w].subject \in Arrears(task[w].enrolment)
  PROVE  CalculationOK(w)'
<1>. DEFINE t == [task[w] EXCEPT !.failed = @ \cup {task[w].subject}]
<1>0. PICK e : e = task[w].enrolment
  OBVIOUS
<1>1. pc'[w] = "average" /\ task'[w] = t
  BY ContinueOwn DEF Fail
<1>2. /\ task[w] \in Calculations /\ task[w].subject \notin task[w].todo
      /\ IsFiniteSet(task[w].failed)
      /\ \A x \in Subjects \ {task[w].subject} :
           IF x \in task[w].todo THEN x \notin task[w].failed
           ELSE x \in task[w].failed <=> x \in Arrears(e)
  BY <1>0, Found
<1>3. /\ t.todo = task[w].todo /\ t.failed = task[w].failed \cup {task[w].subject}
      /\ t.enrolment = e
  BY <1>0, <1>2 DEF Calculations
<1>. HIDE DEF t
<1>4. Arrears(e)' = Arrears(e)
  BY SameArrears DEF tables
<1>5. IsFiniteSet(t.failed)
  BY <1>2, <1>3, FS_AddElement
<1>6. task[w].subject \in Arrears(e)
  BY <1>0
<1>. QED BY <1>1, <1>2, <1>3, <1>4, <1>5, <1>6 DEF CalculationOK

LEMMA PassedKeepsOK ==
  ASSUME IInv, NEW w \in Workers, CalculationOK(w), Passed(w)
  PROVE  CalculationOK(w)'
<1>0. PICK e : e = task[w].enrolment
  OBVIOUS
<1>1. pc[w] = "passed" /\ UNCHANGED <<attendance, tables>>
  BY DEF Passed
<1>2. CASE HasPassedRecurso(e, task[w].subject)
  <2>1. pc'[w] = "absences" /\ task'[w] = task[w]
    BY <1>0, <1>2, ContinueOwn DEF Passed
  <2>2. /\ task[w].subject \notin task[w].todo /\ IsFiniteSet(task[w].failed)
        /\ \A x \in Subjects :
             IF x \in task[w].todo \cup {task[w].subject} THEN x \notin task[w].failed
             ELSE x \in task[w].failed <=> x \in Arrears(e)
    BY <1>0, <1>1 DEF CalculationOK
  <2>3. Arrears(e)' = Arrears(e) /\ HasPassedRecurso(e, task[w].subject)'
    <3>1. PICK s : s = task[w].subject
      OBVIOUS
    <3>2. HasPassedRecurso(e, s)' /\ Arrears(e)' = Arrears(e)
      BY <1>1, <1>2, <3>1, SameData, SameArrears DEF tables
    <3>. QED BY <2>1, <3>1, <3>2
  <2>. QED BY <1>0, <2>1, <2>2, <2>3 DEF CalculationOK
<1>3. CASE ~ HasPassedRecurso(e, task[w].subject)
  <2>1. Fail(w)
    BY <1>0, <1>3 DEF Passed
  <2>2. LowAverage(e, task[w].subject) /\ task[w].subject \in Subjects
    BY <1>0, <1>1, Found DEF CalculationOK
  <2>3. task[w].subject \in Arrears(e)
    BY <1>3, <2>2 DEF Arrears
  <2>. QED BY <1>0, <1>1, <2>1, <2>3, FailKeepsOK
<1>. QED BY <1>2, <1>3

LEMMA FaltasKeepsOK ==
  ASSUME IInv, NEW w \in Workers, CalculationOK(w), Faltas(w)
  PROVE  CalculationOK(w)'
<1>0. PICK e : e = task[w].enrolment
  OBVIOUS
<1>1. pc[w] = "absences" /\ UNCHANGED <<attendance, tables>>
  BY DEF Faltas
<1>2. task[w].subject \in Subjects
  BY <1>0, <1>1, Found
<1>3. CASE ExceedsLimit(e, task[w].subject)
  <2>1. Fail(w)
    BY <1>0, <1>3 DEF Faltas
  <2>2. task[w].subject \in Arrears(e)
    BY <1>2, <1>3 DEF Arrears
  <2>. QED BY <1>0, <1>1, <2>1, <2>2, FailKeepsOK
<1>4. CASE ~ ExceedsLimit(e, task[w].subject)
  <2>1. pc'[w] = "average" /\ task'[w] = task[w]
    BY <1>0, <1>4, ContinueOwn DEF Faltas
  <2>2. LowAverage(e, task[w].subject) => HasPassedRecurso(e, task[w].subject)
    BY <1>0, <1>1 DEF CalculationOK
  <2>3. task[w].subject \notin Arrears(e)
    BY <1>4, <2>2 DEF Arrears
  <2>4. \A x \in Subjects : IF x \in task[w].todo THEN x \notin task[w].failed
                           ELSE x \in task[w].failed <=> x \in Arrears(e)
    BY <1>0, <1>1, <2>3, Found
  <2>5. IsFiniteSet(task[w].failed)
    BY <1>0, <1>1, Found
  <2>6. Arrears(e)' = Arrears(e)
    BY <1>1, SameArrears DEF tables
  <2>. QED BY <1>0, <2>1, <2>4, <2>5, <2>6 DEF CalculationOK
<1>. QED BY <1>3, <1>4

LEMMA FindKeepsOK ==
  ASSUME IInv, NEW w \in Workers, CalculationOK(w), Find(w)
  PROVE  CalculationOK(w)'
<1>. DEFINE t == [task[w] EXCEPT !.found = task[w].enrolment \in DOMAIN situation]
<1>0. PICK e : e = task[w].enrolment
  OBVIOUS
<1>1. /\ pc[w] = "average" /\ task[w].todo = {} /\ UNCHANGED <<attendance, tables>>
      /\ pc'[w] = "status" /\ task'[w] = t
  BY ContinueOwn DEF Find
<1>2. task[w] \in Calculations
  BY <1>1 DEF IInv, TypeOK, TaskOK, Calculating
<1>3. t.enrolment = e /\ t.failed = task[w].failed /\ (t.found <=> e \in DOMAIN situation)
  <2>1. t.enrolment = e /\ t.failed = task[w].failed
    BY <1>0, <1>2 DEF Calculations
  <2>2. t.found = (task[w].enrolment \in DOMAIN situation)
    BY <1>2 DEF Calculations
  <2>. HIDE DEF t
  <2>. QED BY <1>0, <2>1, <2>2
<1>. HIDE DEF t
<1>4. \A x \in Subjects : x \in task[w].failed <=> x \in Arrears(e)
  BY <1>0, <1>1 DEF CalculationOK
<1>5. task[w].failed \subseteq Subjects /\ Arrears(e) \subseteq Subjects
  BY <1>2 DEF Calculations, Arrears
<1>6. task[w].failed = Arrears(e) /\ IsFiniteSet(task[w].failed)
  BY <1>4, <1>5 DEF CalculationOK
<1>7. Arrears(e)' = Arrears(e)
  BY <1>1, SameArrears DEF tables
<1>. QED BY <1>1, <1>3, <1>6, <1>7 DEF CalculationOK, tables

-----------------------------------------------------------------------------
\* The steps that write the situation.
LEMMA SaveStatusKeepsOK ==
  ASSUME IInv, NEW w \in Workers, CalculationOK(w), SaveStatus(w), pc'[w] # "idle"
  PROVE  CalculationOK(w)'
<1>0. PICK e : e = task[w].enrolment
  OBVIOUS
<1>1. /\ pc[w] = "status" /\ UNCHANGED <<attendance, finals, recurso>>
      /\ IsFiniteSet(task[w].failed) /\ task[w].failed = Arrears(e)
      /\ task[w].found => e \in DOMAIN situation
  BY <1>0 DEF SaveStatus, CalculationOK, IInv, TypeOK, TaskOK
<1>2. Arrears(e)' = Arrears(e)
  BY <1>1, SameArrears
<1>3. pc'[w] = "failed_subjects" /\ task'[w] = task[w]
  BY ContinueOwn, ReleaseOwn DEF SaveStatus
<1>4. situation'[e].status = StatusOf(task[w].failed)
  <2>1. CASE task[w].found
    <3>1. situation' = [situation EXCEPT ![e].status = StatusOf(task[w].failed)]
      BY <1>0, <2>1 DEF SaveStatus
    <3>2. e \in DOMAIN situation /\ situation[e] \in FinalSituation
      BY <1>1, <2>1 DEF IInv, TypeOK, Partial
    <3>. QED BY <3>1, <3>2 DEF FinalSituation
  <2>2. CASE ~ task[w].found
    <3>1. situation' = With(situation, e, [status |-> StatusOf(task[w].failed), failed_subjects |-> {}])
      BY <1>0, <2>2, ReleaseOwn DEF SaveStatus
    <3>. QED BY <3>1 DEF With
  <2>. QED BY <2>1, <2>2
<1>. QED BY <1>0, <1>1, <1>2, <1>3, <1>4 DEF CalculationOK

LEMMA ReadFailedKeepsOK ==
  ASSUME IInv, NEW w \in Workers, CalculationOK(w), ReadFailed(w)
  PROVE  CalculationOK(w)'
<1>. DEFINE t == [task[w] EXCEPT !.old = situation[task[w].enrolment].failed_subjects]
<1>0. PICK e : e = task[w].enrolment
  OBVIOUS
<1>1. /\ pc[w] = "failed_subjects" /\ UNCHANGED <<attendance, tables>>
      /\ pc'[w] = "set" /\ task'[w] = t
  BY ContinueOwn DEF ReadFailed
<1>2. task[w] \in Calculations
  BY <1>1 DEF IInv, TypeOK, TaskOK, Calculating
<1>3. /\ t.enrolment = e /\ t.failed = task[w].failed
      /\ t.old = situation[e].failed_subjects
  BY <1>0, <1>2 DEF Calculations
<1>. HIDE DEF t
<1>4. /\ IsFiniteSet(task[w].failed) /\ task[w].failed = Arrears(e)
      /\ situation[e].status = StatusOf(task[w].failed)
  BY <1>0, <1>1 DEF CalculationOK
<1>5. Arrears(e)' = Arrears(e)
  BY <1>1, SameArrears DEF tables
<1>. QED BY <1>1, <1>3, <1>4, <1>5 DEF CalculationOK, tables

LEMMA SetFailedKeepsOK ==
  ASSUME IInv, NEW w \in Workers, SetFailed(w), pc'[w] # "idle"
  PROVE  CalculationOK(w)' /\ pc'[w] = "average"
<1>1. PICK e \in task[w].queue : Continue(w, "average", Calculation(task[w].queue \ {e}, e))
  BY ReleaseOwn DEF SetFailed, NextEnrolment
<1>2. pc'[w] = "average" /\ task'[w] = Calculation(task[w].queue \ {e}, e)
  BY <1>1, ContinueOwn
<1>. QED BY <1>2, StartIsOK

\* The situation a calculation leaves.
LEMMA SetFailedIsCurrent ==
  ASSUME IInv, NEW w \in Workers, CalculationOK(w), SetFailed(w)
  PROVE  situation'[task[w].enrolment] = Current(task[w].enrolment)
<1>0. PICK e : e = task[w].enrolment
  OBVIOUS
<1>. DEFINE failed == task[w].failed
            new == (situation[e].failed_subjects \ (task[w].old \ failed)) \cup (failed \ task[w].old)
<1>1. pc[w] = "set" /\ situation' = [situation EXCEPT ![e].failed_subjects = new]
  BY <1>0 DEF SetFailed
<1>2. e \in DOMAIN situation /\ situation[e] \in FinalSituation
  BY <1>0, <1>1 DEF IInv, TypeOK, TaskOK, Partial
<1>3. /\ IsFiniteSet(failed) /\ failed = Arrears(e) /\ situation[e].status = StatusOf(failed)
      /\ task[w].old = situation[e].failed_subjects
  BY <1>0, <1>1 DEF CalculationOK
<1>4. new = failed
  BY <1>3
<1>. HIDE DEF new
<1>5. situation'[e] = [status |-> StatusOf(failed), failed_subjects |-> failed]
  BY <1>1, <1>2, <1>3, <1>4 DEF FinalSituation
<1>6. Cardinality(failed) \in Nat /\ (Cardinality(failed) = 0 <=> failed = {})
  BY <1>3, FS_CardinalityType, FS_EmptySet
<1>7. MaxRecoverable \in Nat
  BY RecoverableAssumption
<1>. DEFINE described == CASE failed = {} -> "approved"
                           [] Cardinality(failed) \in 1 .. MaxRecoverable -> "pending_recovery"
                           [] Cardinality(failed) > MaxRecoverable -> "failed"
<1>8. StatusOf(failed) = described
  <2>1. CASE failed = {}
    <3>1. ~ Cardinality(failed) \in 1 .. MaxRecoverable /\ ~ Cardinality(failed) > MaxRecoverable
      BY <1>6, <1>7, <2>1
    <3>. QED BY <2>1, <3>1 DEF StatusOf
  <2>2. CASE failed # {} /\ Cardinality(failed) <= MaxRecoverable
    <3>1. Cardinality(failed) \in 1 .. MaxRecoverable /\ ~ Cardinality(failed) > MaxRecoverable
      BY <1>6, <1>7, <2>2
    <3>. QED BY <2>2, <3>1 DEF StatusOf
  <2>3. CASE failed # {} /\ ~ Cardinality(failed) <= MaxRecoverable
    <3>1. ~ Cardinality(failed) \in 1 .. MaxRecoverable /\ Cardinality(failed) > MaxRecoverable
      BY <1>6, <1>7, <2>3
    <3>. QED BY <2>3, <3>1 DEF StatusOf
  <2>. QED BY <2>1, <2>2, <2>3
<1>9. Current(e) = [failed_subjects |-> failed, status |-> described]
  BY <1>3 DEF Current
<1>. HIDE DEF described
<1>. QED BY <1>0, <1>5, <1>8, <1>9

\* The steps of a calculation.
Calculates(w) ==
  \/ \E s \in Subjects : Average(w, s)
  \/ Passed(w) \/ Faltas(w) \/ Find(w) \/ SaveStatus(w) \/ ReadFailed(w) \/ SetFailed(w)

LEMMA CalculatesOK ==
  ASSUME IInv, NEW w \in Workers, AloneOK(w), Calculates(w), pc'[w] # "idle"
  PROVE  CalculationOK(w)' /\ pc'[w] \in Calculating
<1>1. pc[w] \in Calculating
  BY DEF Calculates, Average, Passed, Faltas, Find, SaveStatus, ReadFailed, SetFailed, Calculating
<1>2. CalculationOK(w)
  BY <1>1 DEF AloneOK
<1>3. CASE \E s \in Subjects : Average(w, s)
  <2>1. pc'[w] \in Calculating
    BY <1>3, ContinueOwn DEF Average, Calculating
  <2>. QED BY <1>2, <1>3, <2>1, AverageKeepsOK
<1>4. CASE Passed(w) \/ Faltas(w)
  <2>1. pc'[w] \in Calculating
    BY <1>4, ContinueOwn DEF Passed, Faltas, Fail, Calculating
  <2>. QED BY <1>2, <1>4, <2>1, PassedKeepsOK, FaltasKeepsOK
<1>5. CASE Find(w) \/ ReadFailed(w)
  <2>1. pc'[w] \in Calculating
    BY <1>5, ContinueOwn DEF Find, ReadFailed, Calculating
  <2>. QED BY <1>2, <1>5, <2>1, FindKeepsOK, ReadFailedKeepsOK
<1>6. CASE SaveStatus(w)
  <2>1. pc'[w] \in Calculating
    BY <1>6, ContinueOwn, ReleaseOwn DEF SaveStatus, Calculating
  <2>. QED BY <1>2, <1>6, <2>1, SaveStatusKeepsOK
<1>7. CASE SetFailed(w)
  BY <1>7, SetFailedKeepsOK DEF Calculating
<1>. QED BY <1>3, <1>4, <1>5, <1>6, <1>7 DEF Calculates

\* A grid that runs alone finds the rows it has read.
LEMMA MarkAlone ==
  ASSUME IInv, NEW w \in Workers, AloneOK(w), NEW e \in Enrolments, Mark(w, e)
  PROVE  LET t == task[w]
             k == <<e, task[w].lesson>>
         IN /\ pc[w] = "grid" /\ pc'[w] = "grid" /\ e \in DOMAIN t.todo
            /\ e \in DOMAIN t.rows \/ k \notin DOMAIN attendance
            /\ attendance' = With(attendance, k,
                  [status |-> t.todo[e],
                   text |-> IF e \in DOMAIN t.rows THEN t.rows[e].text ELSE Blank])
            /\ task'[w].lesson = t.lesson /\ task'[w].rows = t.rows
            /\ task'[w].todo = Without(t.todo, e)
<1>. DEFINE k == <<e, task[w].lesson>>
            rest == Without(task[w].todo, e)
<1>1. pc[w] = "grid" /\ e \in DOMAIN task[w].todo
  BY DEF Mark
<1>2. e \in DOMAIN task[w].rows \/ k \notin DOMAIN attendance
  BY <1>1 DEF AloneOK
<1>3. attendance' = With(attendance, k,
        [status |-> task[w].todo[e],
         text |-> IF e \in DOMAIN task[w].rows THEN task[w].rows[e].text ELSE Blank])
  BY <1>2 DEF Mark
<1>4. pc'[w] = "grid" /\ task'[w] = [task[w] EXCEPT !.todo = rest]
  BY <1>2, ContinueOwn DEF Mark
<1>. HIDE DEF rest
<1>5. task'[w].lesson = task[w].lesson /\ task'[w].rows = task[w].rows /\ task'[w].todo = rest
  BY <1>4
<1>. QED BY <1>1, <1>2, <1>3, <1>4, <1>5 DEF rest

LEMMA MarkKeepsOK ==
  ASSUME IInv, NEW w \in Workers, AloneOK(w), NEW e \in Enrolments, Mark(w, e),
         \A v \in Workers \ {w} : pc'[v] = "idle"
  PROVE  AloneOK(w)'
<1>. DEFINE l == task[w].lesson
            k == <<e, l>>
            rows == task[w].rows
<1>1. /\ pc[w] = "grid" /\ pc'[w] = "grid" /\ e \in DOMAIN task[w].todo
      /\ attendance' = With(attendance, k,
            [status |-> task[w].todo[e], text |-> IF e \in DOMAIN rows THEN rows[e].text ELSE Blank])
      /\ task'[w].lesson = l /\ task'[w].rows = rows /\ task'[w].todo = Without(task[w].todo, e)
  BY MarkAlone
<1>2. \A x \in Enrolments :
        /\ x \in DOMAIN rows => /\ <<x, l>> \in DOMAIN attendance
                                /\ attendance[<<x, l>>].text = rows[x].text
        /\ x \in DOMAIN task[w].todo /\ <<x, l>> \in DOMAIN attendance => x \in DOMAIN rows
  BY <1>1 DEF AloneOK
<1>3. /\ DOMAIN attendance' = DOMAIN attendance \cup {k}
      /\ \A x \in DOMAIN attendance \ {k} : attendance'[x] = attendance[x]
      /\ attendance'[k].text = IF e \in DOMAIN rows THEN rows[e].text ELSE Blank
  BY <1>1 DEF With
<1>4. DOMAIN task'[w].todo = DOMAIN task[w].todo \ {e}
  BY <1>1 DEF Without
<1>5. ASSUME NEW x \in Enrolments
      PROVE  /\ x \in DOMAIN rows => /\ <<x, l>> \in DOMAIN attendance'
                                     /\ attendance'[<<x, l>>].text = rows[x].text
             /\ x \in DOMAIN task'[w].todo /\ <<x, l>> \in DOMAIN attendance' => x \in DOMAIN rows
  <2>1. CASE x = e
    BY <1>2, <1>3, <1>4, <2>1
  <2>2. CASE x # e
    <3>1. <<x, l>> # k
      BY <2>2
    <3>. QED BY <1>2, <1>3, <1>4, <3>1
  <2>. QED BY <2>1, <2>2
<1>. QED BY <1>1, <1>5 DEF AloneOK, Calculating

LEMMA WorksOK ==
  ASSUME IInv, NEW w \in Workers, AloneOK(w), Works(w), pc'[w] # "idle",
         \A v \in Workers \ {w} : pc'[v] = "idle"
  PROVE  AloneOK(w)'
<1>1. CASE SaveMedia(w) \/ SaveAjuste(w) \/ MarkEnd(w) \/ Justify(w)
  BY <1>1, ReleaseOwn DEF SaveMedia, SaveAjuste, MarkEnd, Justify
<1>2. CASE \E e \in Enrolments : Mark(w, e)
  BY <1>2, MarkKeepsOK
<1>3. CASE Calculates(w)
  BY <1>3, CalculatesOK DEF AloneOK, Calculating
<1>4. CASE SearchNota(w)
  BY <1>4, ContinueOwn DEF SearchNota, AloneOK, Calculating
<1>5. CASE SaveNota(w)
  <2>1. pc'[w] = "average" /\ task'[w] = Calculation({}, task[w].enrolment)
    BY <1>5, ContinueOwn, ReleaseOwn DEF SaveNota
  <2>2. CalculationOK(w)'
    BY <2>1, StartIsOK
  <2>. QED BY <2>1, <2>2 DEF AloneOK
<1>. QED BY <1>1, <1>2, <1>3, <1>4, <1>5 DEF Works, Step, Calculates

LEMMA AloneInit == MCInit => AInv
BY DEF MCInit, Init, AttendanceInit, AInv

\* While a request runs alone the other workers receive requests or nothing.
LEMMA AloneSteps ==
  ASSUME IInv, AInv, Next, NEW w \in Workers, pc[w] # "idle", alone[w]
  PROVE  \/ Works(w) \/ Dies(w)
         \/ /\ UNCHANGED <<attendance, tables>> /\ pc'[w] = pc[w] /\ task'[w] = task[w]
            /\ \E v \in Workers \ {w} : pc'[v] # "idle"
<1>1. PICK v \in Workers : Begins(v) \/ Works(v) \/ Dies(v)
  BY StepCases
<1>2. CASE v = w
  BY <1>1, <1>2, BeginsOwn
<1>3. CASE v # w
  <2>1. pc[v] = "idle"
    BY <1>3 DEF AInv, AloneOK
  <2>2. Begins(v)
    BY <1>1, <2>1, WorksOwn DEF Dies, Crash
  <2>. QED BY <1>3, <2>2, BeginsOwn DEF Own
<1>. QED BY <1>2, <1>3

LEMMA AloneInductive ==
  ASSUME IInv, AInv, [MCNext]_<<vars, alone, scope>>
  PROVE  AInv'
<1>1. CASE UNCHANGED <<vars, alone, scope>>
  <2>1. UNCHANGED <<attendance, finals, recurso, situation, pc, task, alone>>
    BY <1>1 DEF vars, attendanceVars, requests, tables
  <2>2. ASSUME NEW w \in Workers, CalculationOK(w) PROVE CalculationOK(w)'
    <3>1. PICK e, s : e = task[w].enrolment /\ s = task[w].subject
      OBVIOUS
    <3>2. /\ Arrears(e)' = Arrears(e)
          /\ LowAverage(e, s)' <=> LowAverage(e, s)
          /\ HasPassedRecurso(e, s)' <=> HasPassedRecurso(e, s)
      BY <2>1, SameData, SameArrears
    <3>. QED BY <2>1, <2>2, <3>1, <3>2 DEF CalculationOK
  <2>3. ASSUME NEW w \in Workers, AloneOK(w) PROVE AloneOK(w)'
    BY <2>1, <2>2, <2>3 DEF AloneOK
  <2>. QED BY <2>1, <2>3 DEF AInv
<1>2. ASSUME MCNext, NEW v \in Workers
      PROVE  IF pc'[v] = "idle" THEN alone'[v] ELSE alone'[v] => AloneOK(v)'
  <2>1. alone'[v] = (pc'[v] = "idle" \/ (alone[v] /\ \A u \in Workers \ {v} : pc'[u] = "idle"))
    BY <1>2 DEF MCNext
  <2>2. SUFFICES ASSUME pc'[v] # "idle", alone[v], \A u \in Workers \ {v} : pc'[u] = "idle"
                 PROVE  AloneOK(v)'
    BY <2>1
  <2>3. Next
    BY <1>2 DEF MCNext
  <2>4. CASE pc[v] = "idle"
    <3>1. PICK w \in Workers : Begins(w) \/ Works(w) \/ Dies(w)
      BY <2>3, StepCases
    <3>2. w = v
      BY <2>2, <2>4, <3>1, BeginsOwn, WorksOwn DEF Own, Dies, Crash, IInv, TypeOK
    <3>3. Begins(v)
      BY <2>4, <3>1, <3>2, WorksOwn DEF Dies, Crash
    <3>. QED BY <2>2, <3>3, BeginsOK
  <2>5. CASE pc[v] # "idle"
    <3>1. AloneOK(v)
      BY <2>2, <2>5 DEF AInv
    <3>2. Works(v)
      BY <2>2, <2>3, <2>5, AloneSteps DEF Dies, Crash, IInv, TypeOK
    <3>. QED BY <2>2, <3>1, <3>2, WorksOK
  <2>. QED BY <2>4, <2>5
<1>. QED BY <1>1, <1>2 DEF AInv

LEMMA AloneInvariant == MCSpec => [](IInv /\ AInv)
<1>1. IInv /\ AInv /\ [MCNext]_<<vars, alone, scope>> => AInv'
  BY AloneInductive
<1>. QED BY <1>1, AloneInit, MCInvariant, PTL DEF MCSpec

-----------------------------------------------------------------------------
(* What requests that run alone do *)

\* registar_presencas updates a recorded row in place and justificar_falta only
\* accepts absences: whatever has gone before, a request that runs alone changes
\* the text of a row in no other way than by justifying an absence.
THEOREM AloneMarksKeepJustifications == MCSpec => AloneKeepsJustification
<1>. DEFINE Keeps == \A w \in Workers, k \in Key :
       /\ pc[w] # "idle" /\ alone[w]
       /\ k \in DOMAIN attendance /\ attendance'[k] # attendance[k]
       => \/ attendance'[k].text = attendance[k].text /\ pc[w] = "grid"
          \/ attendance[k].status \in Absences /\ attendance'[k].status = "justified_absent"
<1>1. ASSUME IInv, AInv, MCNext PROVE Keeps
  <2>1. SUFFICES ASSUME NEW w \in Workers, NEW k \in Key, pc[w] # "idle", alone[w],
                        k \in DOMAIN attendance, attendance'[k] # attendance[k]
                 PROVE  \/ attendance'[k].text = attendance[k].text /\ pc[w] = "grid"
                        \/ /\ attendance[k].status \in Absences
                           /\ attendance'[k].status = "justified_absent"
    OBVIOUS
  <2>2. AloneOK(w)
    BY <1>1, <2>1 DEF AInv
  <2>3. Works(w)
    BY <1>1, <2>1, AloneSteps DEF MCNext, Dies
  <2>4. (\E e \in Enrolments : Mark(w, e)) \/ Justify(w)
    BY <2>1, <2>3 DEF Works, Step, MarkEnd, SaveMedia, SaveAjuste, Average, Passed, Faltas, Find,
                      SaveStatus, ReadFailed, SetFailed, SearchNota, SaveNota
  <2>5. ASSUME NEW e \in Enrolments, Mark(w, e)
        PROVE  attendance'[k].text = attendance[k].text /\ pc[w] = "grid"
    <3>. DEFINE m == <<e, task[w].lesson>>
                text == IF e \in DOMAIN task[w].rows THEN task[w].rows[e].text ELSE Blank
    <3>1. /\ pc[w] = "grid" /\ (e \in DOMAIN task[w].rows \/ m \notin DOMAIN attendance)
          /\ attendance' = With(attendance, m, [status |-> task[w].todo[e], text |-> text])
      BY <1>1, <2>2, <2>5, MarkAlone
    <3>2. k = m /\ attendance'[k].text = text
      BY <2>1, <3>1 DEF With
    <3>3. pc[w] = "grid" /\ e \in DOMAIN task[w].rows
      BY <1>1, <2>1, <2>2, <2>5, <3>2, MarkAlone
    <3>4. attendance[m].text = task[w].rows[e].text
      BY <2>2, <3>3 DEF AloneOK
    <3>. QED BY <3>2, <3>3, <3>4
  <2>6. CASE Justify(w)
    <3>1. pc[w] = "justify" /\ attendance' = With(attendance, task[w].key, task[w].row)
      BY <2>6 DEF Justify
    <3>2. k = task[w].key /\ attendance'[k] = task[w].row
      BY <2>1, <3>1 DEF With
    <3>. QED BY <2>2, <3>1, <3>2 DEF AloneOK
  <2>. QED BY <2>4, <2>5, <2>6
<1>2. IInv /\ AInv /\ [MCNext]_<<vars, alone, scope>> => [Keeps]_<<vars, alone, scope>>
  BY <1>1
<1>. HIDE DEF Keeps
<1>3. MCSpec => [][Keeps]_<<vars, alone, scope>>
  BY <1>2, AloneInvariant, PTL DEF MCSpec
<1>. QED BY <1>3 DEF Keeps, AloneKeepsJustification

\* registar_presencas marks the whole class in one call: a grid that runs alone
\* and does not die leaves no enrolment out.
THEOREM AloneGridsMarkClass == MCSpec => AloneMarksClass
<1>. DEFINE Marks == \A w \in Workers :
       pc[w] = "grid" /\ alone[w] /\ crashes' = crashes =>
         \A e \in DOMAIN task[w].todo :
           \/ pc'[w] = "grid" /\ e \in DOMAIN task'[w].todo
           \/ /\ <<e, task[w].lesson>> \in DOMAIN attendance'
              /\ attendance'[<<e, task[w].lesson>>].status = task[w].todo[e]
<1>1. ASSUME IInv, AInv, MCNext PROVE Marks
  <2>1. SUFFICES ASSUME NEW w \in Workers, pc[w] = "grid", alone[w], crashes' = crashes,
                        NEW e \in DOMAIN task[w].todo
                 PROVE  \/ pc'[w] = "grid" /\ e \in DOMAIN task'[w].todo
                        \/ /\ <<e, task[w].lesson>> \in DOMAIN attendance'
                           /\ attendance'[<<e, task[w].lesson>>].status = task[w].todo[e]
    OBVIOUS
  <2>2. AloneOK(w)
    BY <1>1, <2>1 DEF AInv
  <2>3. ~ Dies(w)
    BY <1>1, <2>1, BoundsAssumption DEF Dies, Crash, IInv, TypeOK
  <2>4. CASE Works(w)
    <3>1. ~ MarkEnd(w)
      BY <2>1 DEF MarkEnd
    <3>2. PICK x \in Enrolments : Mark(w, x)
      BY <2>1, <2>4, <3>1 DEF Works, Step, Justify, SaveMedia, SaveAjuste, Average, Passed, Faltas,
                              Find, SaveStatus, ReadFailed, SetFailed, SearchNota, SaveNota
    <3>. DEFINE text == IF x \in DOMAIN task[w].rows THEN task[w].rows[x].text ELSE Blank
    <3>3. /\ pc'[w] = "grid" /\ task'[w].todo = Without(task[w].todo, x)
          /\ attendance' = With(attendance, <<x, task[w].lesson>>,
                                [status |-> task[w].todo[x], text |-> text])
      BY <1>1, <2>2, <3>2, MarkAlone
    <3>. HIDE DEF text
    <3>. QED BY <3>3 DEF With, Without
  <2>5. CASE pc'[w] = pc[w] /\ task'[w] = task[w]
    BY <2>1, <2>5
  <2>. QED BY <1>1, <2>1, <2>3, <2>4, <2>5, AloneSteps DEF MCNext
<1>2. IInv /\ AInv /\ [MCNext]_<<vars, alone, scope>> => [Marks]_<<vars, alone, scope>>
  BY <1>1
<1>. HIDE DEF Marks
<1>3. MCSpec => [][Marks]_<<vars, alone, scope>>
  BY <1>2, AloneInvariant, PTL DEF MCSpec
<1>. QED BY <1>3 DEF Marks, AloneMarksClass

\* calcular_situacao_final: whatever races and crashes have left in the row, a
\* calculation that runs alone leaves the situation of the present data.
THEOREM AloneCalculationsAreCurrent == MCSpec => AloneIsCurrent
<1>. DEFINE Sets == \A w \in Workers :
       pc[w] = "set" /\ pc'[w] # "set" /\ alone[w] /\ crashes' = crashes =>
         situation'[task[w].enrolment] = Current(task[w].enrolment)
<1>1. ASSUME IInv, AInv, MCNext PROVE Sets
  <2>1. SUFFICES ASSUME NEW w \in Workers, pc[w] = "set", pc'[w] # "set", alone[w],
                        crashes' = crashes
                 PROVE  situation'[task[w].enrolment] = Current(task[w].enrolment)
    OBVIOUS
  <2>2. CalculationOK(w)
    BY <1>1, <2>1 DEF AInv, AloneOK, Calculating
  <2>3. ~ Dies(w)
    BY <1>1, <2>1, BoundsAssumption DEF Dies, Crash, IInv, TypeOK
  <2>4. Works(w)
    BY <1>1, <2>1, <2>3, AloneSteps DEF MCNext
  <2>5. SetFailed(w)
    BY <2>1, <2>4 DEF Works, Step, Mark, MarkEnd, Justify, SaveMedia, SaveAjuste, Average, Passed,
                      Faltas, Find, SaveStatus, ReadFailed, SearchNota, SaveNota
  <2>. QED BY <1>1, <2>2, <2>5, SetFailedIsCurrent
<1>2. IInv /\ AInv /\ [MCNext]_<<vars, alone, scope>> => [Sets]_<<vars, alone, scope>>
  BY <1>1
<1>. HIDE DEF Sets
<1>3. MCSpec => [][Sets]_<<vars, alone, scope>>
  BY <1>2, AloneInvariant, PTL DEF MCSpec
<1>. QED BY <1>3 DEF Sets, AloneIsCurrent

\* registar_media_final and ajustar_media_manualmente: a request that runs alone
\* changes the average or the adjustment of a row, not both, and only the request
\* made for it.
THEOREM AloneMediasKeepAdjustments == MCSpec => AloneKeepsAdjustment
<1>. DEFINE Keeps == \A w \in Workers, k \in FinalKey :
       pc[w] # "idle" /\ alone[w] /\ k \in DOMAIN finals =>
         \/ finals'[k] = finals[k]
         \/ pc[w] = "media" /\ finals'[k].override = finals[k].override
         \/ pc[w] = "ajuste" /\ finals'[k].calculated = finals[k].calculated
<1>1. ASSUME IInv, AInv, MCNext PROVE Keeps
  <2>1. SUFFICES ASSUME NEW w \in Workers, NEW k \in FinalKey, pc[w] # "idle", alone[w],
                        k \in DOMAIN finals, finals'[k] # finals[k]
                 PROVE  \/ pc[w] = "media" /\ finals'[k].override = finals[k].override
                        \/ pc[w] = "ajuste" /\ finals'[k].calculated = finals[k].calculated
    OBVIOUS
  <2>2. AloneOK(w) /\ TaskOK(w) /\ finals[k] \in FinalGrade
    BY <1>1, <2>1 DEF AInv, IInv, TypeOK, Partial
  <2>3. Works(w)
    BY <1>1, <2>1, AloneSteps DEF MCNext, Dies, tables
  <2>4. SaveMedia(w) \/ SaveAjuste(w)
    BY <2>1, <2>3 DEF Works, Step, Average, Passed, Faltas, Find, SaveStatus, ReadFailed,
                      SetFailed, SearchNota, SaveNota, tables
  <2>5. CASE SaveMedia(w)
    <3>. DEFINE row == [task[w].row EXCEPT !.calculated = task[w].value]
                first == [calculated |-> task[w].value, override |-> None]
    <3>1. pc[w] = "media" /\ task[w].row = (IF task[w].key \in DOMAIN finals
                                            THEN finals[task[w].key] ELSE None)
      BY <2>2, <2>5 DEF SaveMedia, AloneOK
    <3>2. CASE task[w].key # k
      <4>1. \/ finals' = With(finals, task[w].key, row)
            \/ finals' = With(finals, task[w].key, first)
            \/ finals' = finals
        BY <2>5 DEF SaveMedia
      <4>. HIDE DEF row, first
      <4>. QED BY <2>1, <3>2, <4>1 DEF With
    <3>3. CASE task[w].key = k
      <4>1. task[w].row = finals[k]
        BY <2>1, <3>1, <3>3
      <4>2. row.override = finals[k].override
        BY <2>2, <4>1 DEF FinalGrade
      <4>. HIDE DEF row
      <4>3. finals' = With(finals, k, row)
        BY <2>1, <2>5, <3>3 DEF SaveMedia, row
      <4>4. finals'[k] = row
        BY <4>3 DEF With
      <4>. QED BY <3>1, <4>2, <4>4
    <3>. QED BY <3>2, <3>3
  <2>6. CASE SaveAjuste(w)
    <3>1. pc[w] = "ajuste" /\ finals' = With(finals, task[w].key, task[w].row)
      BY <2>6 DEF SaveAjuste
    <3>2. k = task[w].key /\ finals'[k] = task[w].row
      BY <2>1, <3>1 DEF With
    <3>. QED BY <2>2, <3>1, <3>2 DEF AloneOK
  <2>. QED BY <2>4, <2>5, <2>6
<1>2. IInv /\ AInv /\ [MCNext]_<<vars, alone, scope>> => [Keeps]_<<vars, alone, scope>>
  BY <1>1
<1>. HIDE DEF Keeps
<1>3. MCSpec => [][Keeps]_<<vars, alone, scope>>
  BY <1>2, AloneInvariant, PTL DEF MCSpec
<1>. QED BY <1>3 DEF Keeps, AloneKeepsAdjustment
=============================================================================

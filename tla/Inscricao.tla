------------------------------ MODULE Inscricao ------------------------------
(***************************************************************************)
(* From candidature to student: the public pre-application, the candidate  *)
(* list (exam score, second call, bulk acceptance) and the Inscrição form  *)
(* that creates the Guardian, the Student, their link, and admits the      *)
(* candidate.  apps/enrollment/services.py and the views that call it.     *)
(*                                                                         *)
(* Several gunicorn workers serve the views over one PostgreSQL database   *)
(* without ATOMIC_REQUESTS: an action is one committed statement with the  *)
(* Python code after it.  A candidate a view has loaded stays in memory    *)
(* (held) until the view writes to it.  One institution is modelled, with  *)
(* one document type and a passing score that does not change.             *)
(***************************************************************************)
EXTENDS Naturals, FiniteSets

CONSTANTS
  Candidates,    \* identifiers candidate rows may get
  Students,      \* identifiers student rows may get
  Guardians,     \* identifiers guardian rows may get
  Documents,     \* identification documents
  Scores,        \* exam scores that are submitted
  PassingScore,  \* institution.admission_exam_passing_score
  Workers,       \* gunicorn workers
  MaxCrashes,    \* bound: how often a worker may die
  None

ASSUME CandidatesAssumption == IsFiniteSet(Candidates) /\ None \notin Candidates
ASSUME StudentsAssumption == IsFiniteSet(Students) /\ None \notin Students
ASSUME GuardiansAssumption == IsFiniteSet(Guardians) /\ None \notin Guardians
ASSUME ScoresAssumption == /\ Scores \subseteq Nat /\ None \notin Scores
                           /\ PassingScore \in 0 .. 20
ASSUME CrashesAssumption == MaxCrashes \in Nat

VARIABLES
  candidates,  \* the Candidate table: identifier -> row
  guardians,   \* the Guardian table: the identifiers in use
  students,    \* the Student table: identifier -> row
  links,       \* the StudentGuardian table: <<student, guardian>>
  pc,          \* per worker: the statement it runs next
  req,         \* per worker: what the form carries
  held,        \* per worker: candidate rows in memory
  number,      \* per worker: student_number given to the unsaved row
  crashes

tables == <<candidates, guardians, students, links>>
local == <<pc, req, held, number>>
vars == <<tables, local, crashes>>

-----------------------------------------------------------------------------
(* Data *)

\* Candidate.Status; no operation sets "rejected".
Status == {"pending", "accepted", "admitted", "rejected", "second_call"}
Undecided == {"pending", "second_call"}

Scale == 0 .. 20

Candidate == [document: Documents, status: Status, score: Scale \cup {None}]

Student == [document: Documents, number: Nat, guardian: Guardians,
            candidate: Candidates \cup {None}]

StudentGuardian == Students \X Guardians

\* named: the candidate the form names; student: the row just created.
Request == [document: Documents \cup {None}, score: Scores \cup {None},
            named: Candidates \cup {None}, guardian: Guardians \cup {None},
            student: Students \cup {None}]

NoRequest == [document |-> None, score |-> None, named |-> None,
              guardian |-> None, student |-> None]

NoRows == [x \in {} |-> None]

InscriptionSteps == {"guardian", "document", "number", "insert", "link", "admit"}
Steps == InscriptionSteps \cup {"idle", "apply", "score", "second_call", "batch"}

\* Candidate.is_eligible_for_admission: without an exam, eligible.
Eligible(c) == c.score = None \/ c.score >= PassingScore

\* The candidate row a worker that holds at most one holds.
HeldCandidate(w) == IF held[w] = NoRows THEN None ELSE CHOOSE c \in DOMAIN held[w] : TRUE

DistinctDocuments(db) ==
  \A s, t \in DOMAIN db : db[s].document = db[t].document => s = t

DistinctNumbers(db) ==
  \A s, t \in DOMAIN db : db[s].number = db[t].number => s = t

\* Fault: the unique constraint on the document is missing.
ConstraintsWithoutDocument(db) == DistinctNumbers(db)

\* The unique constraints of Student.
Constraints(db) == DistinctDocuments(db) /\ DistinctNumbers(db)

\* MAX(student_number) + 1.
IsNextNumber(db, n) ==
  /\ \A s \in DOMAIN db : db[s].number < n
  /\ n = 1 \/ \E s \in DOMAIN db : db[s].number = n - 1

-----------------------------------------------------------------------------
(* Helpers of the views *)

\* The view ends, normally or by an exception; what it committed stays.
Release(w) ==
  /\ pc' = [pc EXCEPT ![w] = "idle"]
  /\ req' = [req EXCEPT ![w] = NoRequest]
  /\ held' = [held EXCEPT ![w] = NoRows]
  /\ number' = [number EXCEPT ![w] = 0]

Goto(w, step) == pc' = [pc EXCEPT ![w] = step]

\* candidate.save(update_fields=["status"]).
SaveStatus(c, status) == candidates' = [candidates EXCEPT ![c].status = status]

-----------------------------------------------------------------------------
(* pre_application_view: the form looks for a candidature in progress with *)
(* the same document, then the row is created.                             *)

ApplyRequest(w, d) ==
  /\ pc[w] = "idle"
  /\ Cardinality(Candidates \ DOMAIN candidates)
       > Cardinality({v \in Workers : pc[v] = "apply"})
  /\ \A c \in DOMAIN candidates :
       candidates[c].document = d => candidates[c].status = "rejected"
  /\ Goto(w, "apply")
  /\ req' = [req EXCEPT ![w].document = d]
  /\ UNCHANGED <<tables, held, number, crashes>>

Apply(w, c) ==
  /\ pc[w] = "apply"
  /\ c \notin DOMAIN candidates
  /\ candidates' = [x \in DOMAIN candidates \cup {c} |->
       IF x = c THEN [document |-> req[w].document, status |-> "pending", score |-> None]
       ELSE candidates[x]]
  /\ Release(w)
  /\ UNCHANGED <<guardians, students, links, crashes>>

-----------------------------------------------------------------------------
(* candidate_list_view and candidate_score_save_view: get_object_or_404,   *)
(* then the service decides on the row in memory and saves some columns.   *)

Load(w, c) == held' = [held EXCEPT ![w] = [x \in {c} |-> candidates[x]]]

ScoreRequest(w, c, score) ==
  /\ pc[w] = "idle"
  /\ c \in DOMAIN candidates
  /\ Load(w, c)
  /\ Goto(w, "score")
  /\ req' = [req EXCEPT ![w].score = score]
  /\ UNCHANGED <<tables, number, crashes>>

\* Fault: the status is not looked at.
RegistarNotaSempre(w) ==
  /\ pc[w] = "score"
  /\ candidates' = [candidates EXCEPT ![HeldCandidate(w)].score = req[w].score,
                                      ![HeldCandidate(w)].status = "pending"]
  /\ Release(w)
  /\ UNCHANGED <<guardians, students, links, crashes>>

\* registar_nota_candidato
RegistarNota(w) ==
  /\ pc[w] = "score"
  /\ LET c == HeldCandidate(w)
     IN  IF req[w].score \in Scale /\ held[w][c].status \in Undecided
         THEN candidates' = [candidates EXCEPT ![c].score = req[w].score,
                                               ![c].status = "pending"]
         ELSE UNCHANGED candidates    \* OutOfRange or AlreadyDecided error
  /\ Release(w)
  /\ UNCHANGED <<guardians, students, links, crashes>>

SecondCallRequest(w, c) ==
  /\ pc[w] = "idle"
  /\ c \in DOMAIN candidates
  /\ Load(w, c)
  /\ Goto(w, "second_call")
  /\ UNCHANGED <<tables, req, number, crashes>>

\* convocar_para_segunda_chamada
Convocar(w) ==
  /\ pc[w] = "second_call"
  /\ LET c == HeldCandidate(w)
     IN  IF held[w][c].status \in Undecided /\ ~Eligible(held[w][c])
         THEN SaveStatus(c, "second_call")
         ELSE UNCHANGED candidates    \* AlreadyDecided or AlreadyEligible error
  /\ Release(w)
  /\ UNCHANGED <<guardians, students, links, crashes>>

\* aceitar_candidatos_em_lote: one query, then a save per eligible candidate.
BatchRequest(w, selected) ==
  /\ pc[w] = "idle"
  /\ selected # {}
  /\ held' = [held EXCEPT ![w] =
       [c \in {x \in selected \cap DOMAIN candidates :
                 candidates[x].status \in Undecided} |-> candidates[c]]]
  /\ Goto(w, "batch")
  /\ UNCHANGED <<tables, req, number, crashes>>

\* The loop passes over a candidate that is not eligible.
Aceitar(w, c) ==
  /\ pc[w] = "batch"
  /\ c \in DOMAIN held[w]
  /\ IF Eligible(held[w][c])
     THEN SaveStatus(c, "accepted")
     ELSE UNCHANGED candidates
  /\ held' = [held EXCEPT ![w] = [x \in DOMAIN held[w] \ {c} |-> held[w][x]]]
  /\ UNCHANGED <<guardians, students, links, pc, req, number, crashes>>

AceitarFim(w) ==
  /\ pc[w] = "batch"
  /\ held[w] = NoRows
  /\ Release(w)
  /\ UNCHANGED <<tables, crashes>>

-----------------------------------------------------------------------------
(* student_inscription_view, POST with valid forms *)

\* A new row needs an identifier that no inscription under way may take.
HasFreeIdentifiers ==
  LET busy == Cardinality({w \in Workers : pc[w] \in InscriptionSteps})
  IN  /\ Cardinality(Students \ DOMAIN students) > busy
      /\ Cardinality(Guardians \ guardians) > busy

\* Fault: a candidate that has just been admitted is found again.
InscribableInAnyStatus(c) == c \in DOMAIN candidates /\ Eligible(candidates[c])

\* The candidate the view goes on with, of the one the form names.
Inscribable(c) ==
  /\ c \in DOMAIN candidates
  /\ candidates[c].status \in {"pending", "accepted"}
  /\ Eligible(candidates[c])

\* A candidate that is not found, or not eligible, is replaced by none: the
\* view warns about it and goes on.  The form may have been opened earlier, when
\* the candidate was eligible.  g is an existing guardian or None.
InscriptionRequest(w, named, d, g) ==
  /\ pc[w] = "idle"
  /\ HasFreeIdentifiers
  /\ named \in DOMAIN candidates \cup {None}
  /\ held' = [held EXCEPT ![w] =
                IF Inscribable(named) THEN [x \in {named} |-> candidates[x]] ELSE NoRows]
  /\ req' = [req EXCEPT ![w].document = d, ![w].named = named, ![w].guardian = g]
  /\ Goto(w, IF g = None THEN "guardian" ELSE "document")
  /\ UNCHANGED <<tables, number, crashes>>

SaveGuardian(w, g) ==
  /\ pc[w] = "guardian"
  /\ g \notin guardians
  /\ guardians' = guardians \cup {g}
  /\ req' = [req EXCEPT ![w].guardian = g]
  /\ Goto(w, "document")
  /\ UNCHANGED <<candidates, students, links, held, number, crashes>>

\* register_student: the search for a duplicate document.
CheckDocument(w) ==
  /\ pc[w] = "document"
  /\ IF \E s \in DOMAIN students : students[s].document = req[w].document
     THEN Release(w)                          \* DuplicateStudentDocumentError
     ELSE Goto(w, "number") /\ UNCHANGED <<req, held, number>>
  /\ UNCHANGED <<tables, crashes>>

\* Student.save(): aggregate() drops the FOR UPDATE, a plain read.
ReadNumber(w) ==
  /\ pc[w] = "number"
  /\ \E n \in 1 .. Cardinality(Students) : /\ IsNextNumber(students, n)
                                           /\ number' = [number EXCEPT ![w] = n]
  /\ Goto(w, "insert")
  /\ UNCHANGED <<tables, req, held, crashes>>

NewStudent(w) == [document |-> req[w].document, number |-> number[w],
                  guardian |-> req[w].guardian, candidate |-> HeldCandidate(w)]

Inserted(w, s) ==
  [x \in DOMAIN students \cup {s} |-> IF x = s THEN NewStudent(w) ELSE students[x]]

Insert(w, s) ==
  /\ pc[w] = "insert"
  /\ s \notin DOMAIN students
  /\ IF Constraints(Inserted(w, s))
     THEN /\ students' = Inserted(w, s)
          /\ req' = [req EXCEPT ![w].student = s]
          /\ Goto(w, "link")
          /\ UNCHANGED <<held, number>>
     ELSE UNCHANGED students /\ Release(w)    \* ValidationError, IntegrityError
  /\ UNCHANGED <<candidates, guardians, links, crashes>>

\* Fault: a student without a candidate gets no guardian link.
LinkCandidatesOnly(w) ==
  /\ pc[w] = "link"
  /\ IF held[w] = NoRows
     THEN UNCHANGED links /\ Release(w)
     ELSE /\ links' = links \cup {<<req[w].student, req[w].guardian>>}
          /\ Goto(w, "admit") /\ UNCHANGED <<req, held, number>>
  /\ UNCHANGED <<candidates, guardians, students, crashes>>

Link(w) ==
  /\ pc[w] = "link"
  /\ links' = links \cup {<<req[w].student, req[w].guardian>>}
  /\ IF held[w] = NoRows
     THEN Release(w)
     ELSE Goto(w, "admit") /\ UNCHANGED <<req, held, number>>
  /\ UNCHANGED <<candidates, guardians, students, crashes>>

Admit(w) ==
  /\ pc[w] = "admit"
  /\ SaveStatus(HeldCandidate(w), "admitted")
  /\ Release(w)
  /\ UNCHANGED <<guardians, students, links, crashes>>

-----------------------------------------------------------------------------
Crash(w) ==
  /\ pc[w] # "idle"
  /\ crashes < MaxCrashes
  /\ crashes' = crashes + 1
  /\ Release(w)
  /\ UNCHANGED tables

Init ==
  /\ candidates = NoRows /\ guardians = {} /\ students = NoRows /\ links = {}
  /\ pc = [w \in Workers |-> "idle"]
  /\ req = [w \in Workers |-> NoRequest]
  /\ held = [w \in Workers |-> NoRows]
  /\ number = [w \in Workers |-> 0]
  /\ crashes = 0

Receive(w) ==
  \/ \E d \in Documents : ApplyRequest(w, d)
  \/ \E c \in Candidates :
       SecondCallRequest(w, c) \/ \E score \in Scores : ScoreRequest(w, c, score)
  \/ \E selected \in SUBSET Candidates : BatchRequest(w, selected)
  \/ \E named \in Candidates \cup {None}, d \in Documents, g \in guardians \cup {None} :
       InscriptionRequest(w, named, d, g)

Step(w) ==
  \/ \E c \in Candidates : Apply(w, c) \/ Aceitar(w, c)
  \/ RegistarNota(w) \/ Convocar(w) \/ AceitarFim(w)
  \/ \E g \in Guardians : SaveGuardian(w, g)
  \/ CheckDocument(w) \/ ReadNumber(w)
  \/ \E s \in Students : Insert(w, s)
  \/ Link(w) \/ Admit(w)

Next == \E w \in Workers : Receive(w) \/ Step(w) \/ Crash(w)

Spec == Init /\ [][Next]_vars

-----------------------------------------------------------------------------
(* Properties *)

TypeOK ==
  /\ DOMAIN candidates \subseteq Candidates
  /\ \A c \in DOMAIN candidates : candidates[c] \in Candidate
  /\ guardians \subseteq Guardians
  /\ DOMAIN students \subseteq Students
  /\ \A s \in DOMAIN students : students[s] \in Student
  /\ links \in SUBSET StudentGuardian
  /\ \A l \in links : l[1] \in DOMAIN students /\ l[2] \in guardians
  /\ pc \in [Workers -> Steps]
  /\ req \in [Workers -> Request]
  /\ DOMAIN held = Workers
  /\ \A w \in Workers : /\ DOMAIN held[w] \subseteq DOMAIN candidates
                        /\ \A c \in DOMAIN held[w] : held[w][c] \in Candidate
  /\ number \in [Workers -> Nat]
  /\ crashes \in 0 .. MaxCrashes

\* RF-MAT-03, an identification document inscribes one student only, and
\* RF-MAT-01, "número de aluno automático e sequencial": no two students share a
\* document or a number and no number is skipped, although document and number
\* are looked up in statements of their own, whatever inscriptions race, fail or
\* die.
StudentsDistinct ==
  /\ DistinctDocuments(students) /\ DistinctNumbers(students)
  /\ \A s \in DOMAIN students :
       \/ students[s].number = 1
       \/ \E t \in DOMAIN students : students[t].number = students[s].number - 1

\* "The candidate is only actually marked Admitido once the Student is
\* successfully created": an admitted candidate has a student that came from it.
AdmittedHasStudent ==
  \A c \in DOMAIN candidates :
    candidates[c].status = "admitted" => \E s \in DOMAIN students : students[s].candidate = c

\* Student.save(), "select_for_update() serializes concurrent inscriptions": no
\* two inscriptions under way hold the same next number.
InscriptionsSerialized ==
  \A v, w \in Workers :
    pc[v] = "insert" /\ pc[w] = "insert" /\ number[v] = number[w] => v = w

=============================================================================

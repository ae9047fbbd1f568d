--------------------------- MODULE InscricaoProofs ---------------------------
(***************************************************************************)
(* Theorems about Inscricao, for any numbers of candidates, students,      *)
(* guardians, workers and crashes: students share no document and no       *)
(* number, and who is admitted has become a student. The second half is    *)
(* about the histories of MCInscricao: requests that run one at a time,    *)
(* and the guardians that refused inscriptions leave behind.               *)
(***************************************************************************)
EXTENDS MCInscricao, FiniteSetTheorems, TLAPS

\* The tables are well typed and their properties hold.
TablesOK ==
  /\ DOMAIN candidates \subseteq Candidates
  /\ \A c \in DOMAIN candidates : candidates[c] \in Candidate
  /\ guardians \subseteq Guardians
  /\ DOMAIN students \subseteq Students
  /\ \A s \in DOMAIN students : students[s] \in Student
  /\ links \in SUBSET StudentGuardian
  /\ \A l \in links : l[1] \in DOMAIN students /\ l[2] \in guardians
  /\ crashes \in 0 .. MaxCrashes
  /\ StudentsDistinct
  /\ AdmittedHasStudent

LocalOK ==
  /\ pc \in [Workers -> Steps]
  /\ req \in [Workers -> Request]
  /\ DOMAIN held = Workers
  /\ number \in [Workers -> Nat]

\* The rows a worker has in memory are rows of the table, with what it read.
HeldOK(w) ==
  /\ held[w] = [c \in DOMAIN held[w] |-> held[w][c]]
  /\ DOMAIN held[w] \subseteq DOMAIN candidates
  /\ \A c \in DOMAIN held[w] : held[w][c] \in Candidate
  /\ pc[w] \in {"score", "second_call", "admit"} => held[w] # NoRows

\* What a request carries at each of its steps.
RequestOK(w) ==
  /\ pc[w] \in InscriptionSteps \cup {"apply"} => req[w].document \in Documents
  /\ pc[w] \in InscriptionSteps \ {"guardian"} => req[w].guardian \in guardians
  /\ pc[w] = "score" => req[w].score \in Scores

\* The number about to be used follows one in use: rows are never removed.
NumberOK(w) ==
  pc[w] = "insert" =>
    /\ number[w] # 0
    /\ number[w] = 1 \/ \E t \in DOMAIN students : students[t].number = number[w] - 1

\* After the INSERT there is a student that came from the candidate.
CreatedOK(w) ==
  pc[w] \in {"link", "admit"} =>
    /\ req[w].student \in DOMAIN students
    /\ students[req[w].student].candidate = HeldCandidate(w)

TaskOK(w) == HeldOK(w) /\ RequestOK(w) /\ NumberOK(w) /\ CreatedOK(w)

\* The inductive invariant.
IInv == TablesOK /\ LocalOK /\ \A w \in Workers : TaskOK(w)

\* No row is removed and a student does not change.
Grows ==
  /\ DOMAIN candidates \subseteq DOMAIN candidates'
  /\ guardians \subseteq guardians'
  /\ DOMAIN students \subseteq DOMAIN students'
  /\ \A s \in DOMAIN students : students'[s] = students[s]

\* A step of a worker leaves what another has in memory.
Untouched(w) ==
  /\ pc'[w] = pc[w] /\ req'[w] = req[w] /\ held'[w] = held[w] /\ number'[w] = number[w]

OthersUntouched(w) == \A v \in Workers \ {w} : Untouched(v)

-----------------------------------------------------------------------------
(* The candidate in memory *)

LEMMA HeldCandidateStays ==
  ASSUME NEW w, held'[w] = held[w]
  PROVE  HeldCandidate(w)' = HeldCandidate(w)
BY DEF HeldCandidate, NoRows

LEMMA HeldCandidateIsHeld ==
  ASSUME NEW w, HeldOK(w)
  PROVE  /\ held[w] = NoRows => HeldCandidate(w) = None
         /\ held[w] # NoRows => HeldCandidate(w) \in DOMAIN held[w]
<1>1. held[w] # NoRows => DOMAIN held[w] # {}
  <2>. SUFFICES ASSUME DOMAIN held[w] = {} PROVE held[w] = NoRows
    OBVIOUS
  <2>1. held[w] = [c \in {} |-> held[w][c]]
    BY DEF HeldOK
  <2>. QED BY <2>1 DEF NoRows
<1>. QED BY <1>1 DEF HeldCandidate

LEMMA HeldCandidateType ==
  ASSUME IInv, NEW w \in Workers
  PROVE  HeldCandidate(w) \in Candidates \cup {None}
BY HeldCandidateIsHeld DEF IInv, TaskOK, HeldOK, TablesOK

-----------------------------------------------------------------------------
(* Frames *)

\* Rows are only added: the other workers keep what they rely on.
LEMMA OthersKeep ==
  ASSUME IInv, NEW w \in Workers, OthersUntouched(w), Grows
  PROVE  \A v \in Workers \ {w} : TaskOK(v)'
<1>. SUFFICES ASSUME NEW v \in Workers \ {w} PROVE TaskOK(v)'
  OBVIOUS
<1>1. TaskOK(v) /\ Untouched(v) /\ req[v] \in Request
  BY DEF IInv, OthersUntouched, LocalOK
<1>2. HeldOK(v)'
  BY <1>1 DEF TaskOK, HeldOK, Untouched, Grows, NoRows
<1>3. RequestOK(v)'
  BY <1>1 DEF TaskOK, RequestOK, Untouched, Grows
<1>4. NumberOK(v)'
  BY <1>1 DEF TaskOK, NumberOK, Untouched, Grows
<1>5. CreatedOK(v)'
  BY <1>1, HeldCandidateStays DEF TaskOK, CreatedOK, Untouched, Grows
<1>. QED BY <1>2, <1>3, <1>4, <1>5 DEF TaskOK

LEMMA StepKeeps ==
  ASSUME IInv, NEW w \in Workers, OthersUntouched(w), Grows,
         TablesOK', LocalOK', TaskOK(w)'
  PROVE  IInv'
BY OthersKeep DEF IInv

\* The end of a request.
LEMMA ReleaseKeeps ==
  ASSUME IInv, NEW w \in Workers, Release(w), Grows, TablesOK'
  PROVE  IInv'
<1>1. LocalOK'
  <2>1. NoRequest \in Request /\ "idle" \in Steps
    BY DEF NoRequest, Request, Steps
  <2>. QED BY <2>1 DEF IInv, LocalOK, Release
<1>2. OthersUntouched(w)
  BY DEF IInv, LocalOK, Release, OthersUntouched, Untouched
<1>3. pc'[w] = "idle" /\ held'[w] = NoRows
  BY DEF IInv, LocalOK, Release
<1>4. TaskOK(w)'
  BY <1>3 DEF TaskOK, HeldOK, RequestOK, NumberOK, CreatedOK, InscriptionSteps, NoRows
<1>. QED BY <1>1, <1>2, <1>4, StepKeeps

\* The tables stay well typed when none of them changes.
LEMMA TablesStay ==
  ASSUME IInv, UNCHANGED <<tables, crashes>>
  PROVE  TablesOK' /\ Grows
BY DEF IInv, TablesOK, tables, Grows, StudentsDistinct, DistinctDocuments, DistinctNumbers,
       AdmittedHasStudent

\* A candidate is saved with a status or a score, and is admitted only once it is
\* a student.
LEMMA CandidateSaved ==
  ASSUME IInv, NEW c, UNCHANGED <<guardians, students, links, crashes>>,
         DOMAIN candidates' = DOMAIN candidates,
         \A x \in DOMAIN candidates \ {c} : candidates'[x] = candidates[x],
         c \in DOMAIN candidates => candidates'[c] \in Candidate,
         c \in DOMAIN candidates /\ candidates'[c].status = "admitted" =>
           candidates[c].status = "admitted" \/ \E s \in DOMAIN students : students[s].candidate = c
  PROVE  TablesOK' /\ Grows
<1>1. AdmittedHasStudent'
  BY DEF IInv, TablesOK, AdmittedHasStudent
<1>2. StudentsDistinct'
  BY DEF IInv, TablesOK, StudentsDistinct, DistinctDocuments, DistinctNumbers
<1>. QED BY <1>1, <1>2 DEF IInv, TablesOK, Grows

LEMMA StatusSaved ==
  ASSUME IInv, NEW c, NEW status \in Status, SaveStatus(c, status),
         UNCHANGED <<guardians, students, links, crashes>>,
         status = "admitted" => \E s \in DOMAIN students : students[s].candidate = c
  PROVE  TablesOK' /\ Grows
<1>1. DOMAIN candidates' = DOMAIN candidates
      /\ \A x \in DOMAIN candidates \ {c} : candidates'[x] = candidates[x]
  BY DEF SaveStatus
<1>2. ASSUME c \in DOMAIN candidates
      PROVE  candidates'[c] \in Candidate /\ candidates'[c].status = status
  <2>1. candidates[c] \in Candidate
    BY <1>2 DEF IInv, TablesOK
  <2>2. candidates'[c] = [candidates[c] EXCEPT !.status = status]
    BY <1>2 DEF SaveStatus
  <2>. QED BY <2>1, <2>2 DEF Candidate
<1>. QED BY <1>1, <1>2, CandidateSaved

-----------------------------------------------------------------------------
(* Candidates *)

LEMMA ApplyRequestKeeps ==
  ASSUME IInv, NEW w \in Workers, NEW d \in Documents, ApplyRequest(w, d) PROVE IInv'
<1>1. TablesOK' /\ Grows
  BY TablesStay DEF ApplyRequest
<1>2. /\ pc' = [pc EXCEPT ![w] = "apply"] /\ req' = [req EXCEPT ![w].document = d]
      /\ held' = held /\ number' = number /\ req[w] \in Request
  BY DEF ApplyRequest, Goto, IInv, LocalOK
<1>3. LocalOK' /\ OthersUntouched(w)
  <2>1. [req[w] EXCEPT !.document = d] \in Request
    BY <1>2 DEF Request
  <2>. QED BY <1>2, <2>1 DEF IInv, LocalOK, OthersUntouched, Untouched, Steps
<1>4. pc'[w] = "apply" /\ req'[w].document = d /\ held'[w] = held[w]
  BY <1>2 DEF IInv, LocalOK, Request
<1>5. TaskOK(w)'
  BY <1>1, <1>4 DEF IInv, TaskOK, HeldOK, RequestOK, NumberOK, CreatedOK, InscriptionSteps,
                    Grows, NoRows
<1>. QED BY <1>1, <1>3, <1>5, StepKeeps

LEMMA ApplyKeeps ==
  ASSUME IInv, NEW w \in Workers, NEW c \in Candidates, Apply(w, c) PROVE IInv'
<1>. DEFINE row == [document |-> req[w].document, status |-> "pending", score |-> None]
<1>1. row \in Candidate
  BY DEF IInv, TaskOK, RequestOK, Apply, Candidate, Status
<1>2. /\ DOMAIN candidates' = DOMAIN candidates \cup {c}
      /\ \A x \in DOMAIN candidates \ {c} : candidates'[x] = candidates[x]
      /\ candidates'[c] = row
      /\ UNCHANGED <<guardians, students, links, crashes>> /\ Release(w)
  BY DEF Apply
<1>3. row.status # "admitted"
  OBVIOUS
<1>. HIDE DEF row
<1>4. AdmittedHasStudent'
  BY <1>2, <1>3 DEF IInv, TablesOK, AdmittedHasStudent
<1>5. StudentsDistinct'
  BY <1>2 DEF IInv, TablesOK, StudentsDistinct, DistinctDocuments, DistinctNumbers
<1>6. TablesOK' /\ Grows
  BY <1>1, <1>2, <1>4, <1>5 DEF IInv, TablesOK, Grows
<1>. QED BY <1>2, <1>6, ReleaseKeeps

\* A request that loads one candidate and goes on with it.
LEMMA LoadKeeps ==
  ASSUME IInv, NEW w \in Workers, NEW c \in DOMAIN candidates,
         NEW step \in {"score", "second_call"},
         Load(w, c), Goto(w, step), UNCHANGED <<tables, number, crashes>>,
         OthersUntouched(w), req' \in [Workers -> Request],
         step = "score" => req'[w].score \in Scores
  PROVE  IInv'
<1>1. TablesOK' /\ Grows
  BY TablesStay
<1>2. LocalOK'
  BY DEF IInv, LocalOK, Load, Goto, Steps
<1>3. pc'[w] = step /\ held'[w] = [x \in {c} |-> candidates[x]]
  BY DEF IInv, LocalOK, Load, Goto
<1>4. HeldOK(w)'
  <2>1. DOMAIN held'[w] = {c} /\ held'[w][c] \in Candidate
    BY <1>3 DEF IInv, TablesOK
  <2>2. held'[w] # NoRows
    BY <2>1 DEF NoRows
  <2>. QED BY <1>1, <1>3, <2>1, <2>2 DEF HeldOK, Grows
<1>5. TaskOK(w)'
  BY <1>3, <1>4 DEF TaskOK, RequestOK, NumberOK, CreatedOK, InscriptionSteps
<1>. QED BY <1>1, <1>2, <1>5, StepKeeps

LEMMA ScoreRequestKeeps ==
  ASSUME IInv, NEW w \in Workers, NEW c \in Candidates, NEW score \in Scores,
         ScoreRequest(w, c, score)
  PROVE  IInv'
<1>1. [req[w] EXCEPT !.score = score] \in Request
  BY DEF IInv, LocalOK, Request
<1>2. req' \in [Workers -> Request] /\ req'[w].score = score
  BY <1>1 DEF IInv, LocalOK, ScoreRequest, Request
<1>3. OthersUntouched(w)
  BY DEF IInv, LocalOK, ScoreRequest, Load, Goto, OthersUntouched, Untouched
<1>. QED BY <1>2, <1>3, LoadKeeps DEF ScoreRequest

LEMMA SecondCallRequestKeeps ==
  ASSUME IInv, NEW w \in Workers, NEW c \in Candidates, SecondCallRequest(w, c) PROVE IInv'
<1>1. OthersUntouched(w) /\ req' \in [Workers -> Request]
  BY DEF IInv, LocalOK, SecondCallRequest, Load, Goto, OthersUntouched, Untouched
<1>. QED BY <1>1, LoadKeeps DEF SecondCallRequest

LEMMA RegistarNotaKeeps ==
  ASSUME IInv, NEW w \in Workers, RegistarNota(w) PROVE IInv'
<1>. DEFINE c == HeldCandidate(w)
<1>1. CASE req[w].score \in Scale /\ held[w][c].status \in Undecided
  <2>1. candidates' = [candidates EXCEPT ![c].score = req[w].score, ![c].status = "pending"]
    BY <1>1 DEF RegistarNota
  <2>. HIDE DEF c
  <2>2. ASSUME c \in DOMAIN candidates
        PROVE  candidates'[c] \in Candidate /\ candidates'[c].status = "pending"
    <3>1. candidates[c] \in Candidate
      BY <2>2 DEF IInv, TablesOK
    <3>. QED BY <1>1, <2>1, <2>2, <3>1 DEF Candidate, Status
  <2>3. DOMAIN candidates' = DOMAIN candidates
        /\ \A x \in DOMAIN candidates \ {c} : candidates'[x] = candidates[x]
    BY <2>1
  <2>4. TablesOK' /\ Grows
    BY <2>2, <2>3, CandidateSaved DEF RegistarNota
  <2>. QED BY <2>4, ReleaseKeeps DEF RegistarNota
<1>2. CASE ~ (req[w].score \in Scale /\ held[w][c].status \in Undecided)
  BY <1>2, TablesStay, ReleaseKeeps DEF RegistarNota, tables
<1>. QED BY <1>1, <1>2

LEMMA ConvocarKeeps ==
  ASSUME IInv, NEW w \in Workers, Convocar(w) PROVE IInv'
<1>. DEFINE c == HeldCandidate(w)
<1>1. CASE held[w][c].status \in Undecided /\ ~ Eligible(held[w][c])
  <2>1. SaveStatus(c, "second_call")
    BY <1>1 DEF Convocar
  <2>. HIDE DEF c
  <2>2. TablesOK' /\ Grows
    BY <2>1, StatusSaved DEF Convocar, Status
  <2>. QED BY <2>2, ReleaseKeeps DEF Convocar
<1>2. CASE ~ (held[w][c].status \in Undecided /\ ~ Eligible(held[w][c]))
  BY <1>2, TablesStay, ReleaseKeeps DEF Convocar, tables
<1>. QED BY <1>1, <1>2

LEMMA BatchRequestKeeps ==
  ASSUME IInv, NEW w \in Workers, NEW selected \in SUBSET Candidates, BatchRequest(w, selected)
  PROVE  IInv'
<1>1. TablesOK' /\ Grows
  BY TablesStay DEF BatchRequest
<1>2. LocalOK' /\ OthersUntouched(w)
  BY DEF IInv, LocalOK, BatchRequest, Goto, Steps, OthersUntouched, Untouched
<1>. DEFINE S == {x \in selected \cap DOMAIN candidates : candidates[x].status \in Undecided}
<1>3. pc'[w] = "batch" /\ held'[w] = [c \in S |-> candidates[c]]
  BY DEF IInv, LocalOK, BatchRequest, Goto
<1>4. S \subseteq DOMAIN candidates
  OBVIOUS
<1>. HIDE DEF S
<1>5. HeldOK(w)'
  BY <1>1, <1>3, <1>4 DEF HeldOK, Grows, IInv, TablesOK
<1>6. TaskOK(w)'
  BY <1>3, <1>5 DEF TaskOK, RequestOK, NumberOK, CreatedOK, InscriptionSteps
<1>. QED BY <1>1, <1>2, <1>6, StepKeeps

LEMMA AceitarKeeps ==
  ASSUME IInv, NEW w \in Workers, NEW c \in Candidates, Aceitar(w, c) PROVE IInv'
<1>1. TablesOK' /\ Grows
  <2>1. CASE Eligible(held[w][c])
    BY <2>1, StatusSaved DEF Aceitar, Status
  <2>2. CASE ~ Eligible(held[w][c])
    BY <2>2, TablesStay DEF Aceitar, tables
  <2>. QED BY <2>1, <2>2
<1>2. LocalOK' /\ OthersUntouched(w)
  BY DEF IInv, LocalOK, Aceitar, OthersUntouched, Untouched
<1>3. pc'[w] = "batch" /\ held'[w] = [x \in DOMAIN held[w] \ {c} |-> held[w][x]]
  BY DEF IInv, LocalOK, Aceitar
<1>4. HeldOK(w) /\ HeldOK(w)'
  BY <1>1, <1>3 DEF IInv, TaskOK, HeldOK, Grows
<1>5. TaskOK(w)'
  BY <1>3, <1>4 DEF TaskOK, RequestOK, NumberOK, CreatedOK, InscriptionSteps
<1>. QED BY <1>1, <1>2, <1>5, StepKeeps

LEMMA AceitarFimKeeps ==
  ASSUME IInv, NEW w \in Workers, AceitarFim(w) PROVE IInv'
BY TablesStay, ReleaseKeeps DEF AceitarFim

-----------------------------------------------------------------------------
(* Inscriptions *)

LEMMA InscriptionRequestKeeps ==
  ASSUME IInv, NEW w \in Workers, NEW named \in Candidates \cup {None}, NEW d \in Documents,
         NEW g \in guardians \cup {None}, InscriptionRequest(w, named, d, g)
  PROVE  IInv'
<1>1. TablesOK' /\ Grows
  BY TablesStay DEF InscriptionRequest
<1>2. req[w] \in Request /\ None \notin Guardians /\ guardians \subseteq Guardians
  BY GuardiansAssumption DEF IInv, LocalOK, TablesOK
<1>. DEFINE r == [req[w] EXCEPT !.document = d, !.named = named, !.guardian = g]
<1>3. r \in Request /\ r.document = d /\ r.guardian = g
  BY <1>2 DEF Request
<1>4. req' = [req EXCEPT ![w] = r]
  BY DEF InscriptionRequest
<1>. HIDE DEF r
<1>5. LocalOK' /\ OthersUntouched(w)
  <2>1. pc' \in [Workers -> Steps]
    BY DEF IInv, LocalOK, InscriptionRequest, Goto, Steps, InscriptionSteps
  <2>2. req' \in [Workers -> Request] /\ number' = number
    <3>1. req \in [Workers -> Request] /\ number' = number
      BY DEF IInv, LocalOK, InscriptionRequest
    <3>. QED BY <3>1, <1>3, <1>4
  <2>3. DOMAIN held' = Workers
    BY DEF IInv, LocalOK, InscriptionRequest
  <2>4. OthersUntouched(w)
    BY <1>4 DEF IInv, LocalOK, InscriptionRequest, Goto, OthersUntouched, Untouched
  <2>. QED BY <2>1, <2>2, <2>3, <2>4 DEF IInv, LocalOK
<1>6. /\ pc'[w] = (IF g = None THEN "guardian" ELSE "document") /\ req'[w] = r
      /\ held'[w] = (IF Inscribable(named) THEN [x \in {named} |-> candidates[x]] ELSE NoRows)
  BY <1>4 DEF IInv, LocalOK, InscriptionRequest, Goto
<1>7. HeldOK(w)'
  <2>1. CASE Inscribable(named)
    <3>1. held'[w] = [x \in {named} |-> candidates[x]] /\ named \in DOMAIN candidates
      BY <1>6, <2>1 DEF Inscribable
    <3>2. DOMAIN held'[w] = {named} /\ held'[w][named] \in Candidate
      BY <3>1 DEF IInv, TablesOK
    <3>. QED BY <1>1, <1>6, <3>1, <3>2 DEF HeldOK, Grows
  <2>2. CASE ~ Inscribable(named)
    BY <1>6, <2>2 DEF HeldOK, NoRows
  <2>. QED BY <2>1, <2>2
<1>8. RequestOK(w)'
  BY <1>1, <1>2, <1>3, <1>6 DEF RequestOK, InscriptionSteps, Grows
<1>9. TaskOK(w)'
  BY <1>6, <1>7, <1>8 DEF TaskOK, NumberOK, CreatedOK
<1>. QED BY <1>1, <1>5, <1>9, StepKeeps

LEMMA SaveGuardianKeeps ==
  ASSUME IInv, NEW w \in Workers, NEW g \in Guardians, SaveGuardian(w, g) PROVE IInv'
<1>1. TablesOK' /\ Grows
  BY DEF SaveGuardian, IInv, TablesOK, Grows, StudentsDistinct, DistinctDocuments,
         DistinctNumbers, AdmittedHasStudent
<1>. DEFINE r == [req[w] EXCEPT !.guardian = g]
<1>2. r \in Request /\ r.guardian = g /\ r.document = req[w].document
  BY DEF IInv, LocalOK, Request
<1>3. req' = [req EXCEPT ![w] = r]
  BY DEF SaveGuardian
<1>. HIDE DEF r
<1>4. LocalOK' /\ OthersUntouched(w)
  BY <1>2, <1>3 DEF IInv, LocalOK, SaveGuardian, Goto, Steps, InscriptionSteps,
                    OthersUntouched, Untouched
<1>5. /\ pc[w] = "guardian" /\ pc'[w] = "document" /\ req'[w] = r
      /\ held'[w] = held[w] /\ g \in guardians'
  BY <1>3 DEF IInv, LocalOK, SaveGuardian, Goto
<1>6. HeldOK(w)' /\ RequestOK(w)'
  BY <1>1, <1>2, <1>5 DEF IInv, TaskOK, HeldOK, RequestOK, InscriptionSteps, Grows, NoRows
<1>7. TaskOK(w)'
  BY <1>5, <1>6 DEF TaskOK, NumberOK, CreatedOK
<1>. QED BY <1>1, <1>4, <1>7, StepKeeps

LEMMA CheckDocumentKeeps ==
  ASSUME IInv, NEW w \in Workers, CheckDocument(w) PROVE IInv'
<1>1. TablesOK' /\ Grows
  BY TablesStay DEF CheckDocument
<1>2. CASE \E s \in DOMAIN students : students[s].document = req[w].document
  BY <1>1, <1>2, ReleaseKeeps DEF CheckDocument
<1>3. CASE ~ \E s \in DOMAIN students : students[s].document = req[w].document
  <2>1. Goto(w, "number") /\ UNCHANGED <<req, held, number>> /\ pc[w] = "document"
    BY <1>3 DEF CheckDocument
  <2>2. LocalOK' /\ OthersUntouched(w) /\ pc'[w] = "number"
    BY <2>1 DEF IInv, LocalOK, Goto, Steps, InscriptionSteps, OthersUntouched, Untouched
  <2>3. TaskOK(w)'
    BY <1>1, <2>1, <2>2 DEF IInv, TaskOK, HeldOK, RequestOK, NumberOK, CreatedOK,
                            InscriptionSteps, Grows, NoRows
  <2>. QED BY <1>1, <2>2, <2>3, StepKeeps
<1>. QED BY <1>2, <1>3

LEMMA ReadNumberKeeps ==
  ASSUME IInv, NEW w \in Workers, ReadNumber(w) PROVE IInv'
<1>1. TablesOK' /\ Grows
  BY TablesStay DEF ReadNumber
<1>2. PICK n \in 1 .. Cardinality(Students) :
        IsNextNumber(students, n) /\ number' = [number EXCEPT ![w] = n]
  BY DEF ReadNumber
<1>3. n \in Nat /\ n # 0
  BY FS_CardinalityType, StudentsAssumption
<1>4. LocalOK' /\ OthersUntouched(w)
  BY <1>2, <1>3 DEF IInv, LocalOK, ReadNumber, Goto, Steps, InscriptionSteps,
                    OthersUntouched, Untouched
<1>5. /\ pc[w] = "number" /\ pc'[w] = "insert" /\ number'[w] = n
      /\ UNCHANGED <<students, req, held>>
  BY <1>2 DEF IInv, LocalOK, ReadNumber, Goto, tables
<1>6. NumberOK(w)'
  BY <1>2, <1>3, <1>5 DEF NumberOK, IsNextNumber
<1>7. TaskOK(w)'
  BY <1>1, <1>5, <1>6 DEF IInv, TaskOK, HeldOK, RequestOK, CreatedOK, InscriptionSteps,
                          Grows, NoRows
<1>. QED BY <1>1, <1>4, <1>7, StepKeeps

\* The unique constraints, and a number that follows one in use.
LEMMA InsertKeepsTables ==
  ASSUME IInv, NEW w \in Workers, NEW s \in Students, Insert(w, s), Constraints(Inserted(w, s))
  PROVE  TablesOK' /\ Grows /\ students'[s] = NewStudent(w) /\ s \in DOMAIN students'
<1>1. /\ students' = Inserted(w, s) /\ pc[w] = "insert" /\ s \notin DOMAIN students
      /\ UNCHANGED <<candidates, guardians, links, crashes>>
  BY DEF Insert
<1>2. /\ DOMAIN students' = DOMAIN students \cup {s} /\ students'[s] = NewStudent(w)
      /\ \A x \in DOMAIN students : students'[x] = students[x]
  BY <1>1 DEF Inserted
<1>3. TaskOK(w) /\ guardians \subseteq Guardians /\ number[w] \in Nat
  BY DEF IInv, LocalOK, TablesOK
<1>4. NewStudent(w) \in Student /\ NewStudent(w).number = number[w]
  BY <1>1, <1>3, HeldCandidateType DEF NewStudent, Student, TaskOK, RequestOK, InscriptionSteps
<1>5. Grows
  BY <1>1, <1>2 DEF Grows
<1>6. StudentsDistinct'
  <2>1. DistinctDocuments(students)' /\ DistinctNumbers(students)'
    BY <1>1 DEF Constraints, DistinctDocuments, DistinctNumbers
  <2>2. ASSUME NEW t \in DOMAIN students'
        PROVE  \/ students'[t].number = 1
               \/ \E u \in DOMAIN students' : students'[u].number = students'[t].number - 1
    <3>1. CASE t = s
      BY <1>1, <1>2, <1>3, <1>4, <3>1 DEF TaskOK, NumberOK
    <3>2. CASE t # s
      <4>1. t \in DOMAIN students /\ students'[t] = students[t]
        BY <1>2, <3>2
      <4>. QED BY <1>2, <4>1 DEF IInv, TablesOK, StudentsDistinct
    <3>. QED BY <3>1, <3>2
  <2>. QED BY <2>1, <2>2 DEF StudentsDistinct
<1>7. AdmittedHasStudent'
  BY <1>1, <1>2 DEF IInv, TablesOK, AdmittedHasStudent
<1>8. \A x \in DOMAIN students' : students'[x] \in Student
  BY <1>2, <1>4 DEF IInv, TablesOK
<1>9. TablesOK'
  BY <1>1, <1>2, <1>6, <1>7, <1>8 DEF IInv, TablesOK
<1>. QED BY <1>2, <1>5, <1>9

LEMMA InsertKeeps ==
  ASSUME IInv, NEW w \in Workers, NEW s \in Students, Insert(w, s) PROVE IInv'
<1>1. CASE Constraints(Inserted(w, s))
  <2>1. TablesOK' /\ Grows /\ students'[s] = NewStudent(w) /\ s \in DOMAIN students'
    BY <1>1, InsertKeepsTables
  <2>. DEFINE r == [req[w] EXCEPT !.student = s]
  <2>2. r \in Request /\ r.student = s /\ r.guardian = req[w].guardian
        /\ r.document = req[w].document
    BY DEF IInv, LocalOK, Request
  <2>3. req' = [req EXCEPT ![w] = r] /\ Goto(w, "link") /\ UNCHANGED <<held, number>>
    BY <1>1 DEF Insert
  <2>. HIDE DEF r
  <2>4. LocalOK' /\ OthersUntouched(w)
    BY <2>2, <2>3 DEF IInv, LocalOK, Goto, Steps, InscriptionSteps, OthersUntouched, Untouched
  <2>5. pc[w] = "insert" /\ pc'[w] = "link" /\ req'[w] = r /\ held'[w] = held[w]
    BY <2>3 DEF IInv, LocalOK, Insert, Goto
  <2>6. CreatedOK(w)'
    BY <2>1, <2>2, <2>5, HeldCandidateStays DEF CreatedOK, NewStudent
  <2>7. TaskOK(w)'
    BY <2>1, <2>2, <2>5, <2>6 DEF IInv, TaskOK, HeldOK, RequestOK, NumberOK, InscriptionSteps,
                                  Grows, NoRows
  <2>. QED BY <2>1, <2>4, <2>7, StepKeeps
<1>2. CASE ~ Constraints(Inserted(w, s))
  BY <1>2, TablesStay, ReleaseKeeps DEF Insert, tables
<1>. QED BY <1>1, <1>2

LEMMA LinkKeeps ==
  ASSUME IInv, NEW w \in Workers, Link(w) PROVE IInv'
<1>1. /\ pc[w] = "link" /\ UNCHANGED <<candidates, guardians, students, crashes>>
      /\ links' = links \cup {<<req[w].student, req[w].guardian>>}
  BY DEF Link
<1>2. req[w].student \in DOMAIN students /\ req[w].guardian \in guardians
  BY <1>1 DEF IInv, TaskOK, RequestOK, CreatedOK, InscriptionSteps
<1>3. links' \in SUBSET StudentGuardian
      /\ \A l \in links' : l[1] \in DOMAIN students /\ l[2] \in guardians
  BY <1>1, <1>2 DEF IInv, TablesOK, StudentGuardian
<1>4. TablesOK' /\ Grows
  BY <1>1, <1>3 DEF IInv, TablesOK, Grows, StudentsDistinct, DistinctDocuments, DistinctNumbers,
                    AdmittedHasStudent
<1>5. CASE held[w] = NoRows
  BY <1>4, <1>5, ReleaseKeeps DEF Link
<1>6. CASE held[w] # NoRows
  <2>1. Goto(w, "admit") /\ UNCHANGED <<req, held, number>>
    BY <1>6 DEF Link
  <2>2. LocalOK' /\ OthersUntouched(w) /\ pc'[w] = "admit"
    BY <2>1 DEF IInv, LocalOK, Goto, Steps, InscriptionSteps, OthersUntouched, Untouched
  <2>3. TaskOK(w)'
    BY <1>1, <1>4, <1>6, <2>1, <2>2, HeldCandidateStays
    DEF IInv, TaskOK, HeldOK, RequestOK, NumberOK, CreatedOK, InscriptionSteps, Grows, NoRows
  <2>. QED BY <1>4, <2>2, <2>3, StepKeeps
<1>. QED BY <1>5, <1>6

LEMMA AdmitKeeps ==
  ASSUME IInv, NEW w \in Workers, Admit(w) PROVE IInv'
<1>1. \E s \in DOMAIN students : students[s].candidate = HeldCandidate(w)
  BY DEF Admit, IInv, TaskOK, CreatedOK
<1>2. TablesOK' /\ Grows
  BY <1>1, StatusSaved DEF Admit, Status
<1>. QED BY <1>2, ReleaseKeeps DEF Admit

LEMMA CrashKeeps ==
  ASSUME IInv, NEW w \in Workers, Crash(w) PROVE IInv'
<1>1. UNCHANGED tables /\ crashes' \in 0 .. MaxCrashes /\ Release(w)
  BY CrashesAssumption DEF IInv, TablesOK, Crash
<1>2. TablesOK' /\ Grows
  BY <1>1 DEF IInv, TablesOK, tables, Grows, StudentsDistinct, DistinctDocuments,
              DistinctNumbers, AdmittedHasStudent
<1>. QED BY <1>1, <1>2, ReleaseKeeps

-----------------------------------------------------------------------------
(* The theorems *)

LEMMA Initial == Init => IInv
<1>. SUFFICES ASSUME Init PROVE IInv
  OBVIOUS
<1>1. TablesOK
  BY CrashesAssumption DEF Init, TablesOK, NoRows, StudentsDistinct, DistinctDocuments,
                           DistinctNumbers, AdmittedHasStudent
<1>2. LocalOK
  BY DEF Init, LocalOK, NoRequest, Request, Steps
<1>3. \A w \in Workers : TaskOK(w)
  BY DEF Init, TaskOK, HeldOK, RequestOK, NumberOK, CreatedOK, NoRows, InscriptionSteps
<1>. QED BY <1>1, <1>2, <1>3 DEF IInv

LEMMA Inductive == IInv /\ [Next]_vars => IInv'
<1>. SUFFICES ASSUME IInv, [Next]_vars PROVE IInv'
  OBVIOUS
<1>1. CASE UNCHANGED vars
  <2>1. TablesOK' /\ Grows
    BY <1>1, TablesStay DEF vars
  <2>2. UNCHANGED <<pc, req, held, number>>
    BY <1>1 DEF vars, local
  <2>3. LocalOK'
    BY <2>2 DEF IInv, LocalOK
  <2>4. ASSUME NEW w \in Workers PROVE TaskOK(w)'
    BY <2>1, <2>2, HeldCandidateStays
    DEF IInv, TaskOK, HeldOK, RequestOK, NumberOK, CreatedOK, Grows, NoRows
  <2>. QED BY <2>1, <2>3, <2>4 DEF IInv
<1>2. CASE Next
  <2>. SUFFICES ASSUME NEW w \in Workers, Receive(w) \/ Step(w) \/ Crash(w) PROVE IInv'
    BY <1>2 DEF Next
  <2>1. CASE Receive(w)
    BY <2>1, ApplyRequestKeeps, SecondCallRequestKeeps, ScoreRequestKeeps, BatchRequestKeeps,
       InscriptionRequestKeeps DEF Receive
  <2>2. CASE Step(w)
    BY <2>2, ApplyKeeps, AceitarKeeps, RegistarNotaKeeps, ConvocarKeeps, AceitarFimKeeps,
       SaveGuardianKeeps, CheckDocumentKeeps, ReadNumberKeeps, InsertKeeps, LinkKeeps, AdmitKeeps
    DEF Step
  <2>. QED BY <2>1, <2>2, CrashKeeps
<1>. QED BY <1>1, <1>2

LEMMA Invariant == Spec => []IInv
BY Initial, Inductive, PTL DEF Spec

\* Every state of candidatures and inscriptions is well typed.
THEOREM TypeCorrect == Spec => []TypeOK
<1>1. IInv => TypeOK
  BY DEF IInv, TablesOK, LocalOK, TaskOK, HeldOK, TypeOK
<1>. QED BY <1>1, Invariant, PTL

\* RF-MAT-01 and RF-MAT-03: students share no document and no number, and no
\* number is skipped, whatever inscriptions race, fail or die.
THEOREM StudentsAreDistinct == Spec => []StudentsDistinct
<1>1. IInv => StudentsDistinct
  BY DEF IInv, TablesOK
<1>. QED BY <1>1, Invariant, PTL

\* register_student and the view: a candidate is admitted only once the student
\* that came from it exists.
THEOREM AdmittedAreStudents == Spec => []AdmittedHasStudent
<1>1. IInv => AdmittedHasStudent
  BY DEF IInv, TablesOK
<1>. QED BY <1>1, Invariant, PTL

-----------------------------------------------------------------------------
(* The histories: what every worker holds, whatever runs beside it *)

InscriptionOpen == {"pending", "accepted"}

\* The candidates a request goes on with could still be decided when it read them;
\* an idle worker holds nothing; the student that was created has the guardian of
\* the form.
ChosenOK(w) ==
  /\ pc[w] = "idle" => held[w] = NoRows /\ req[w] = NoRequest
  /\ pc[w] \in InscriptionSteps =>
       \A c \in DOMAIN held[w] : held[w][c].status \in InscriptionOpen /\ Eligible(held[w][c])
  /\ pc[w] = "batch" => \A c \in DOMAIN held[w] : held[w][c].status \in Undecided
  /\ pc[w] \in {"link", "admit"} => students[req[w].student].guardian = req[w].guardian

\* No operation rejects a candidate; students come from candidates there are.
OriginsOK ==
  /\ \A c \in DOMAIN candidates : candidates[c].status # "rejected"
  /\ \A s \in DOMAIN students :
       students[s].candidate # None => students[s].candidate \in DOMAIN candidates

\* Unless a worker has died, a student is linked or about to be.
LinkedOK ==
  crashes = 0 =>
    \A s \in DOMAIN students : \/ <<s, students[s].guardian>> \in links
                               \/ \E w \in Workers : pc[w] = "link" /\ req[w].student = s

\* The guardians without a student, and those of them no inscription under way
\* will link: a request was refused or died for each of them.
Orphans == {g \in guardians : \A s \in DOMAIN students : <<s, g>> \notin links}
Linking == {w \in Workers : pc[w] \in InscriptionSteps \ {"guardian", "admit"}}
Left == {g \in Orphans : \A w \in Linking : req[w].guardian # g}

LeftOK == refused \in Nat /\ Cardinality(Left) <= refused + crashes

\* One request at a time: the rows in memory are those of the tables.
Sound(row) ==
  /\ row.status = "second_call" => row.score \in 0 .. PassingScore - 1
  /\ row.status \in {"accepted", "admitted"} /\ row.score # None => row.score >= PassingScore

FreshOK(w) ==
  /\ \A c \in DOMAIN held[w] : held[w][c] = candidates[c]
  /\ pc[w] = "apply" => \A c \in DOMAIN candidates : candidates[c].document # req[w].document

OneCandidate ==
  /\ \A c \in DOMAIN candidates : Sound(candidates[c])
  /\ \A c, d \in DOMAIN candidates : candidates[c].document = candidates[d].document => c = d

OneStudent ==
  /\ \A s \in DOMAIN students :
       students[s].candidate # None =>
         \/ candidates[students[s].candidate].status = "admitted"
         \/ \E w \in Workers : pc[w] \in {"link", "admit"} /\ req[w].student = s
  /\ \A s, t \in DOMAIN students :
       students[s].candidate = students[t].candidate /\ students[s].candidate # None => s = t

SerialOK ==
  /\ \A v, w \in Workers : pc[v] # "idle" /\ pc[w] # "idle" => v = w
  /\ \A w \in Workers : FreshOK(w)
  /\ OneCandidate /\ OneStudent

HInv ==
  /\ IInv /\ IsFiniteSet(Busy) /\ serial \in BOOLEAN
  /\ \A w \in Workers : ChosenOK(w)
  /\ OriginsOK /\ LinkedOK /\ LeftOK
  /\ serial => SerialOK

WorkerStep(w) == Receive(w) \/ Step(w) \/ Crash(w)

LEMMA StepIsOwn ==
  ASSUME IInv, NEW w \in Workers, WorkerStep(w)
  PROVE  /\ OthersUntouched(w) /\ Grows
         /\ pc[w] # "idle" \/ pc'[w] # "idle"
<1>. USE DEF IInv, LocalOK, Goto, Release, OthersUntouched, Untouched, Grows, tables
<1>1. CASE Receive(w)
  <2>1. CASE \E d \in Documents : ApplyRequest(w, d)
    BY <2>1 DEF ApplyRequest
  <2>2. CASE \E c \in Candidates :
               SecondCallRequest(w, c) \/ \E score \in Scores : ScoreRequest(w, c, score)
    BY <2>2 DEF SecondCallRequest, ScoreRequest, Load
  <2>3. CASE \E selected \in SUBSET Candidates : BatchRequest(w, selected)
    BY <2>3 DEF BatchRequest
  <2>4. CASE \E named \in Candidates \cup {None}, d \in Documents, g \in guardians \cup {None} :
               InscriptionRequest(w, named, d, g)
    BY <2>4 DEF InscriptionRequest
  <2>. QED BY <1>1, <2>1, <2>2, <2>3, <2>4 DEF Receive
<1>2. CASE Step(w)
  <2>1. CASE \E c \in Candidates : Apply(w, c) \/ Aceitar(w, c)
    BY <2>1 DEF Apply, Aceitar, SaveStatus
  <2>2. CASE RegistarNota(w) \/ Convocar(w) \/ AceitarFim(w)
    BY <2>2 DEF RegistarNota, Convocar, AceitarFim, SaveStatus
  <2>3. CASE (\E g \in Guardians : SaveGuardian(w, g)) \/ CheckDocument(w) \/ ReadNumber(w)
    BY <2>3 DEF SaveGuardian, CheckDocument, ReadNumber
  <2>4. CASE \E s \in Students : Insert(w, s)
    BY <2>4 DEF Insert, Inserted
  <2>5. CASE Link(w) \/ Admit(w)
    BY <2>5 DEF Link, Admit, SaveStatus
  <2>. QED BY <1>2, <2>1, <2>2, <2>3, <2>4, <2>5 DEF Step
<1>3. CASE Crash(w)
  BY <1>3 DEF Crash
<1>. QED BY <1>1, <1>2, <1>3 DEF WorkerStep

LEMMA ReleasedIsChosen ==
  ASSUME IInv, NEW w \in Workers, Release(w)
  PROVE  ChosenOK(w)' /\ pc'[w] = "idle" /\ held'[w] = NoRows /\ req'[w] = NoRequest
<1>1. pc'[w] = "idle" /\ held'[w] = NoRows /\ req'[w] = NoRequest
  BY DEF IInv, LocalOK, Release
<1>2. NoRows' = NoRows /\ NoRequest' = NoRequest
  BY DEF NoRows, NoRequest
<1>. QED BY <1>1, <1>2 DEF ChosenOK, InscriptionSteps

LEMMA ChosenKeeps ==
  ASSUME IInv, NEW w \in Workers, ChosenOK(w), WorkerStep(w)
  PROVE  ChosenOK(w)'
<1>. USE DEF IInv, LocalOK, Goto, InscriptionSteps
<1>1. CASE Receive(w)
  <2>1. CASE \E d \in Documents : ApplyRequest(w, d)
    BY <2>1 DEF ApplyRequest, ChosenOK
  <2>2. CASE \E c \in Candidates :
               SecondCallRequest(w, c) \/ \E score \in Scores : ScoreRequest(w, c, score)
    BY <2>2 DEF SecondCallRequest, ScoreRequest, ChosenOK
  <2>3. ASSUME NEW selected \in SUBSET Candidates, BatchRequest(w, selected)
        PROVE  ChosenOK(w)'
    BY <2>3 DEF BatchRequest, ChosenOK
  <2>4. ASSUME NEW named \in Candidates \cup {None}, NEW d \in Documents,
               NEW g \in guardians \cup {None}, InscriptionRequest(w, named, d, g)
        PROVE  ChosenOK(w)'
    BY <2>4 DEF InscriptionRequest, ChosenOK, Inscribable, InscriptionOpen, Eligible, NoRows
  <2>. QED BY <1>1, <2>1, <2>2, <2>3, <2>4 DEF Receive
<1>2. CASE Step(w)
  <2>1. ASSUME NEW c \in Candidates, Aceitar(w, c) PROVE ChosenOK(w)'
    BY <2>1 DEF Aceitar, ChosenOK
  <2>2. CASE (\E c \in Candidates : Apply(w, c)) \/ RegistarNota(w) \/ Convocar(w)
             \/ AceitarFim(w) \/ Admit(w)
    BY <2>2, ReleasedIsChosen DEF Apply, RegistarNota, Convocar, AceitarFim, Admit
  <2>3. CASE (\E g \in Guardians : SaveGuardian(w, g)) \/ ReadNumber(w)
    BY <2>3 DEF SaveGuardian, ReadNumber, ChosenOK, Eligible
  <2>4. CASE CheckDocument(w)
    <3>1. CASE Goto(w, "number") /\ UNCHANGED <<req, held, number>>
      BY <2>4, <3>1 DEF CheckDocument, ChosenOK, Eligible
    <3>. QED BY <2>4, <3>1, ReleasedIsChosen DEF CheckDocument
  <2>5. ASSUME NEW s \in Students, Insert(w, s) PROVE ChosenOK(w)'
    <3>1. CASE Constraints(Inserted(w, s))
      <4>1. /\ pc[w] = "insert" /\ pc'[w] = "link" /\ held'[w] = held[w]
            /\ req'[w] = [req[w] EXCEPT !.student = s] /\ students' = Inserted(w, s)
        BY <2>5, <3>1 DEF Insert
      <4>2. req'[w].student = s /\ req'[w].guardian = req[w].guardian
        BY <4>1 DEF Request
      <4>3. students'[s].guardian = req[w].guardian
        BY <4>1 DEF Inserted, NewStudent
      <4>. QED BY <4>1, <4>2, <4>3 DEF ChosenOK, Eligible
    <3>. QED BY <2>5, <3>1, ReleasedIsChosen DEF Insert
  <2>6. CASE Link(w)
    <3>1. CASE Goto(w, "admit") /\ UNCHANGED <<req, held, number>>
      BY <2>6, <3>1 DEF Link, ChosenOK, Eligible
    <3>. QED BY <2>6, <3>1, ReleasedIsChosen DEF Link
  <2>. QED BY <1>2, <2>1, <2>2, <2>3, <2>4, <2>5, <2>6 DEF Step
<1>3. CASE Crash(w)
  BY <1>3, ReleasedIsChosen DEF Crash
<1>. QED BY <1>1, <1>2, <1>3 DEF WorkerStep

LEMMA OthersChosen ==
  ASSUME IInv, NEW w \in Workers, OthersUntouched(w), Grows, NEW v \in Workers \ {w}, ChosenOK(v)
  PROVE  ChosenOK(v)'
<1>1. pc'[v] = pc[v] /\ req'[v] = req[v] /\ held'[v] = held[v]
  BY DEF OthersUntouched, Untouched
<1>2. NoRows' = NoRows /\ NoRequest' = NoRequest
  BY DEF NoRows, NoRequest
<1>3. pc[v] \in {"link", "admit"} =>
        students'[req[v].student] = students[req[v].student]
  BY DEF IInv, TaskOK, CreatedOK, Grows
<1>. QED BY <1>1, <1>2, <1>3 DEF ChosenOK, Eligible

\* What a step does to the candidates: it adds one, or decides on one in memory.
Decides(c, status) ==
  /\ DOMAIN candidates' = DOMAIN candidates
  /\ \A x \in DOMAIN candidates \ {c} : candidates'[x] = candidates[x]
  /\ c \in DOMAIN candidates
  /\ candidates'[c].document = candidates[c].document /\ candidates'[c].status = status

Added(w, c) ==
  /\ pc[w] = "apply" /\ c \notin DOMAIN candidates
  /\ DOMAIN candidates' = DOMAIN candidates \cup {c}
  /\ \A x \in DOMAIN candidates : candidates'[x] = candidates[x]
  /\ candidates'[c].document = req[w].document /\ candidates'[c].status = "pending"

\* With the row in memory as it is in the table.
Decision(w, c) ==
  \/ Decides(c, "pending") /\ held[w][c].status \in Undecided
  \/ /\ Decides(c, "second_call") /\ held[w][c].status \in Undecided
     /\ ~ Eligible(held[w][c]) /\ candidates'[c].score = candidates[c].score
  \/ /\ Decides(c, "accepted") /\ held[w][c].status \in Undecided
     /\ Eligible(held[w][c]) /\ candidates'[c].score = candidates[c].score
  \/ /\ Decides(c, "admitted") /\ held[w][c].status \in InscriptionOpen
     /\ Eligible(held[w][c]) /\ candidates'[c].score = candidates[c].score

LEMMA SavedStatus ==
  ASSUME NEW c \in DOMAIN candidates, NEW status, SaveStatus(c, status), candidates[c] \in Candidate
  PROVE  Decides(c, status) /\ candidates'[c].score = candidates[c].score
<1>1. candidates'[c] = [candidates[c] EXCEPT !.status = status]
  BY DEF SaveStatus
<1>. QED BY <1>1 DEF SaveStatus, Decides, Candidate

LEMMA HeldAtStep ==
  ASSUME IInv, NEW w \in Workers, pc[w] \in {"score", "second_call", "admit"}
  PROVE  /\ HeldCandidate(w) \in DOMAIN held[w]
         /\ HeldCandidate(w) \in DOMAIN candidates /\ candidates[HeldCandidate(w)] \in Candidate
BY HeldCandidateIsHeld DEF IInv, TaskOK, HeldOK, TablesOK

LEMMA CandidateChange ==
  ASSUME IInv, NEW w \in Workers, ChosenOK(w), WorkerStep(w)
  PROVE  \/ candidates' = candidates
         \/ \E c : Added(w, c)
         \/ \E c \in DOMAIN held[w] : Decision(w, c)
<1>1. ASSUME NEW c \in Candidates, Apply(w, c) PROVE Added(w, c)
  BY <1>1 DEF Apply, Added
<1>2. ASSUME NEW c \in Candidates, Aceitar(w, c), candidates' # candidates
      PROVE  c \in DOMAIN held[w] /\ Decision(w, c)
  <2>1. SaveStatus(c, "accepted") /\ Eligible(held[w][c]) /\ pc[w] = "batch" /\ c \in DOMAIN held[w]
    BY <1>2 DEF Aceitar
  <2>2. c \in DOMAIN candidates /\ candidates[c] \in Candidate
    BY <2>1 DEF IInv, TaskOK, HeldOK, TablesOK
  <2>. QED BY <2>1, <2>2, SavedStatus DEF Decision, ChosenOK
<1>. DEFINE h == HeldCandidate(w)
<1>3. ASSUME RegistarNota(w), candidates' # candidates PROVE h \in DOMAIN held[w] /\ Decision(w, h)
  <2>1. /\ candidates' = [candidates EXCEPT ![h].score = req[w].score, ![h].status = "pending"]
        /\ held[w][h].status \in Undecided /\ pc[w] = "score"
    BY <1>3 DEF RegistarNota
  <2>2. h \in DOMAIN held[w] /\ h \in DOMAIN candidates /\ candidates[h] \in Candidate
    BY <2>1, HeldAtStep
  <2>. HIDE DEF h
  <2>3. candidates'[h] = [[candidates[h] EXCEPT !.score = req[w].score] EXCEPT !.status = "pending"]
    BY <2>1, <2>2
  <2>4. candidates'[h].document = candidates[h].document /\ candidates'[h].status = "pending"
    BY <2>2, <2>3 DEF Candidate
  <2>. QED BY <2>1, <2>2, <2>4 DEF Decision, Decides
<1>4. ASSUME Convocar(w), candidates' # candidates PROVE h \in DOMAIN held[w] /\ Decision(w, h)
  <2>1. /\ SaveStatus(h, "second_call") /\ pc[w] = "second_call"
        /\ held[w][h].status \in Undecided /\ ~ Eligible(held[w][h])
    BY <1>4 DEF Convocar
  <2>. QED BY <2>1, HeldAtStep, SavedStatus DEF Decision
<1>5. ASSUME Admit(w) PROVE h \in DOMAIN held[w] /\ Decision(w, h)
  <2>1. SaveStatus(h, "admitted") /\ pc[w] = "admit"
    BY <1>5 DEF Admit
  <2>2. h \in DOMAIN held[w]
    BY <2>1, HeldAtStep
  <2>. QED BY <2>1, <2>2, HeldAtStep, SavedStatus DEF Decision, ChosenOK, InscriptionSteps
<1>. HIDE DEF h
<1>6. CASE Receive(w) \/ Crash(w)
  BY <1>6 DEF Receive, ApplyRequest, SecondCallRequest, ScoreRequest, BatchRequest,
              InscriptionRequest, Crash, tables
<1>7. CASE AceitarFim(w) \/ CheckDocument(w) \/ ReadNumber(w) \/ Link(w)
           \/ (\E g \in Guardians : SaveGuardian(w, g)) \/ (\E s \in Students : Insert(w, s))
  BY <1>7 DEF AceitarFim, CheckDocument, ReadNumber, Link, SaveGuardian, Insert, tables
<1>. QED BY <1>1, <1>2, <1>3, <1>4, <1>5, <1>6, <1>7 DEF WorkerStep, Step

\* What a step does to the students and their links.
Enrols(w, s) ==
  /\ pc[w] = "insert" /\ pc'[w] = "link" /\ s \notin DOMAIN students
  /\ DOMAIN students' = DOMAIN students \cup {s}
  /\ \A t \in DOMAIN students : students'[t] = students[t]
  /\ students'[s].candidate = HeldCandidate(w)
  /\ req'[w].student = s /\ UNCHANGED <<candidates, guardians, links>>

LEMMA StudentChange ==
  ASSUME IInv, NEW w \in Workers, WorkerStep(w)
  PROVE  \/ UNCHANGED <<students, links>> /\ pc[w] # "link"
         \/ \E s : Enrols(w, s)
         \/ Link(w)
         \/ Crash(w)
<1>1. ASSUME NEW s \in Students, Insert(w, s)
      PROVE  Enrols(w, s) \/ (UNCHANGED <<students, links>> /\ pc[w] # "link")
  <2>1. CASE Constraints(Inserted(w, s))
    <3>1. /\ students' = Inserted(w, s) /\ pc'[w] = "link" /\ req'[w] = [req[w] EXCEPT !.student = s]
          /\ pc[w] = "insert" /\ s \notin DOMAIN students /\ UNCHANGED <<candidates, guardians, links>>
      BY <1>1, <2>1 DEF Insert, Goto, IInv, LocalOK
    <3>2. req'[w].student = s
      BY <3>1 DEF IInv, LocalOK, Request
    <3>. QED BY <3>1, <3>2 DEF Enrols, Inserted, NewStudent
  <2>2. CASE ~ Constraints(Inserted(w, s))
    BY <1>1, <2>2 DEF Insert
  <2>. QED BY <2>1, <2>2
<1>2. CASE Receive(w)
  BY <1>2 DEF Receive, ApplyRequest, SecondCallRequest, ScoreRequest, BatchRequest,
              InscriptionRequest, tables
<1>3. CASE AceitarFim(w) \/ CheckDocument(w) \/ ReadNumber(w) \/ Admit(w) \/ RegistarNota(w)
           \/ Convocar(w) \/ (\E g \in Guardians : SaveGuardian(w, g))
           \/ (\E c \in Candidates : Apply(w, c) \/ Aceitar(w, c))
  BY <1>3 DEF AceitarFim, CheckDocument, ReadNumber, Admit, RegistarNota, Convocar, SaveGuardian,
              Apply, Aceitar, tables
<1>. QED BY <1>1, <1>2, <1>3 DEF WorkerStep, Step

LEMMA OriginsKeep ==
  ASSUME IInv, OriginsOK, NEW w \in Workers, ChosenOK(w), WorkerStep(w)
  PROVE  OriginsOK'
<1>1. \A c \in DOMAIN candidates' : candidates'[c].status # "rejected"
  BY CandidateChange DEF OriginsOK, Added, Decision, Decides
<1>2. DOMAIN candidates \subseteq DOMAIN candidates'
      /\ \A s \in DOMAIN students : students'[s] = students[s]
  BY StepIsOwn DEF Grows
<1>3. ASSUME NEW s \in DOMAIN students', s \notin DOMAIN students, students'[s].candidate # None
      PROVE  students'[s].candidate \in DOMAIN candidates'
  <2>1. Enrols(w, s)
    BY <1>3, StudentChange DEF Enrols, Link, Crash, tables
  <2>2. HeldCandidate(w) # None
    BY <1>3, <2>1 DEF Enrols
  <2>3. HeldCandidate(w) \in DOMAIN candidates
    BY <2>2, HeldCandidateIsHeld DEF IInv, TaskOK, HeldOK
  <2>. QED BY <1>2, <2>1, <2>3 DEF Enrols
<1>4. ASSUME NEW s \in DOMAIN students, students'[s].candidate # None
      PROVE  students'[s].candidate \in DOMAIN candidates'
  BY <1>2, <1>4 DEF OriginsOK
<1>. QED BY <1>1, <1>3, <1>4 DEF OriginsOK

LEMMA OnlyCrashCounts ==
  ASSUME NEW w \in Workers, WorkerStep(w)
  PROVE  crashes' = crashes \/ Crash(w)
BY DEF WorkerStep, Receive, ApplyRequest, SecondCallRequest, ScoreRequest, BatchRequest,
       InscriptionRequest, Step, AceitarFim, CheckDocument, ReadNumber, Admit, RegistarNota,
       Convocar, SaveGuardian, Apply, Aceitar, Insert, Link

LEMMA LinkedKeeps ==
  ASSUME IInv, LinkedOK, NEW w \in Workers, ChosenOK(w), WorkerStep(w)
  PROVE  LinkedOK'
<1>1. OthersUntouched(w) /\ \A s \in DOMAIN students : students'[s] = students[s]
  BY StepIsOwn DEF Grows
<1>2. \A v \in Workers \ {w} : pc'[v] = pc[v] /\ req'[v] = req[v]
  BY <1>1 DEF OthersUntouched, Untouched
<1>3. CASE UNCHANGED <<students, links>> /\ pc[w] # "link" /\ (crashes' = 0 => crashes = 0)
  BY <1>2, <1>3 DEF LinkedOK
<1>4. ASSUME NEW s, Enrols(w, s), crashes' = 0 => crashes = 0 PROVE LinkedOK'
  BY <1>2, <1>4 DEF LinkedOK, Enrols
<1>5. CASE Link(w)
  <2>1. /\ links' = links \cup {<<req[w].student, req[w].guardian>>} /\ pc[w] = "link"
        /\ UNCHANGED <<students, crashes>>
    BY <1>5 DEF Link
  <2>2. students[req[w].student].guardian = req[w].guardian
    BY <2>1 DEF ChosenOK
  <2>. QED BY <1>2, <2>1, <2>2 DEF LinkedOK
<1>6. CASE Crash(w)
  BY <1>6 DEF Crash, IInv, TablesOK, LinkedOK
<1>. QED BY <1>3, <1>4, <1>5, <1>6, OnlyCrashCounts, StudentChange

-----------------------------------------------------------------------------
(* Guardians without students *)

LEMMA AtMostOne ==
  ASSUME NEW S, IsFiniteSet(S), Cardinality(S) <= 1, NEW x \in S, NEW y \in S
  PROVE  x = y
<1>1. IsFiniteSet(S \ {x}) /\ Cardinality(S \ {x}) = Cardinality(S) - 1 /\ Cardinality(S) \in Nat
  BY FS_RemoveElement, FS_CardinalityType
<1>2. Cardinality(S \ {x}) = 0
  BY <1>1, FS_CardinalityType
<1>. QED BY <1>1, <1>2, FS_EmptySet

\* A request refused where the Guardian has been saved already.
Refusing == {v \in Workers : pc[v] \in {"document", "insert"} /\ pc'[v] = "idle"}

LEMMA RefusingCounts ==
  ASSUME NEW w \in Workers, OthersUntouched(w)
  PROVE  /\ Cardinality(Refusing) \in Nat
         /\ w \in Refusing => Cardinality(Refusing) = 1
<1>1. Refusing \subseteq {w}
  BY DEF Refusing, OthersUntouched, Untouched
<1>2. Refusing = {} \/ Refusing = {w}
  BY <1>1
<1>3. CASE Refusing = {}
  BY <1>3, FS_EmptySet
<1>4. CASE Refusing = {w}
  <2>1. Cardinality({w}) = 1
    BY FS_Singleton
  <2>. QED BY <1>4, <2>1
<1>. QED BY <1>2, <1>3, <1>4

\* A worker leaves an inscription before its link only when it is refused or dies.
LEMMA LinkingGoesOn ==
  ASSUME IInv, NEW w \in Linking, WorkerStep(w)
  PROVE  \/ w \in Linking' /\ req'[w].guardian = req[w].guardian
         \/ Link(w)
         \/ w \in Refusing
         \/ Crash(w)
<1>. USE DEF IInv, LocalOK, Goto, Release, InscriptionSteps, Linking, Refusing
<1>1. CASE CheckDocument(w) \/ ReadNumber(w)
  BY <1>1 DEF CheckDocument, ReadNumber
<1>2. ASSUME NEW s \in Students, Insert(w, s)
      PROVE  w \in Refusing \/ (w \in Linking' /\ req'[w].guardian = req[w].guardian)
  BY <1>2 DEF Insert, Request
<1>3. ~ Receive(w)
  BY DEF Receive, ApplyRequest, SecondCallRequest, ScoreRequest, BatchRequest, InscriptionRequest
<1>4. Step(w) => CheckDocument(w) \/ ReadNumber(w) \/ Link(w) \/ \E s \in Students : Insert(w, s)
  BY DEF Step, AceitarFim, Admit, RegistarNota, Convocar, SaveGuardian, Apply, Aceitar
<1>. QED BY <1>1, <1>2, <1>3, <1>4 DEF WorkerStep

LEMMA LinksGrow ==
  ASSUME IInv, NEW w \in Workers, WorkerStep(w)
  PROVE  /\ links \subseteq links'
         /\ \A g \in guardians' \ guardians : w \in Linking' /\ req'[w].guardian = g
<1>. USE DEF IInv, LocalOK, tables
<1>1. CASE Receive(w)
  BY <1>1 DEF Receive, ApplyRequest, SecondCallRequest, ScoreRequest, BatchRequest,
              InscriptionRequest
<1>2. ASSUME NEW g \in Guardians, SaveGuardian(w, g)
      PROVE  w \in Linking' /\ req'[w].guardian = g /\ guardians' = guardians \cup {g}
             /\ links' = links
  BY <1>2 DEF SaveGuardian, Goto, Linking, InscriptionSteps, Request
<1>3. CASE AceitarFim(w) \/ CheckDocument(w) \/ ReadNumber(w) \/ Admit(w) \/ RegistarNota(w)
           \/ Convocar(w) \/ (\E s \in Students : Insert(w, s)) \/ Link(w)
           \/ (\E c \in Candidates : Apply(w, c) \/ Aceitar(w, c))
  BY <1>3 DEF AceitarFim, CheckDocument, ReadNumber, Admit, RegistarNota, Convocar, Insert, Link,
              Apply, Aceitar
<1>4. CASE Crash(w)
  BY <1>4 DEF Crash
<1>. QED BY <1>1, <1>2, <1>3, <1>4 DEF WorkerStep, Step

\* One guardian more is left behind, by a request that is refused or dies.
LEMMA LeftGrows ==
  ASSUME IInv, NEW w \in Workers, WorkerStep(w)
  PROVE  \/ Left' \subseteq Left
         \/ w \in Refusing \cup {v \in Workers : Crash(v)} /\ Left' \subseteq Left \cup {req[w].guardian}
<1>1. ASSUME NEW g \in Left', g # req[w].guardian \/ w \notin Linking \/ Link(w)
                              \/ (w \in Linking' /\ req'[w].guardian = req[w].guardian)
      PROVE  g \in Left
  <2>1. g \in guardians'
        /\ (\A s \in DOMAIN students' : <<s, g>> \notin links')
        /\ (\A v \in Linking' : req'[v].guardian # g)
    BY DEF Left, Orphans
  <2>2. g \in guardians
    BY <2>1, LinksGrow
  <2>3. \A s \in DOMAIN students : <<s, g>> \notin links
    BY <2>1, LinksGrow, StepIsOwn DEF Grows
  <2>4. ASSUME NEW v \in Linking, v # w PROVE req[v].guardian # g
    <3>1. v \in Linking' /\ req'[v].guardian = req[v].guardian
      BY <2>4, StepIsOwn DEF OthersUntouched, Untouched, Linking
    <3>. QED BY <2>1, <3>1
  <2>5. w \in Linking => req[w].guardian # g
    <3>1. CASE Link(w)
      <4>1. <<req[w].student, req[w].guardian>> \in links' /\ req[w].student \in DOMAIN students'
        BY <3>1 DEF Link, IInv, TaskOK, CreatedOK
      <4>. QED BY <2>1, <4>1
    <3>. QED BY <1>1, <2>1, <3>1
  <2>. QED BY <2>2, <2>3, <2>4, <2>5 DEF Left, Orphans
<1>2. CASE w \notin Linking
  BY <1>1, <1>2
<1>3. CASE w \in Linking
  BY <1>1, <1>3, LinkingGoesOn
<1>. QED BY <1>2, <1>3

LEMMA LeftIsFinite ==
  ASSUME IInv PROVE IsFiniteSet(Left) /\ Cardinality(Left) \in Nat
<1>1. Left \in SUBSET Guardians
  BY DEF Left, Orphans, IInv, TablesOK
<1>. QED BY <1>1, FS_Subset, FS_CardinalityType, GuardiansAssumption

LEMMA LeftKeeps ==
  ASSUME IInv, IInv', LeftOK, NEW w \in Workers, WorkerStep(w),
         refused' = refused + Cardinality(Refusing)
  PROVE  LeftOK'
<1>1. crashes \in Nat /\ crashes' \in Nat /\ crashes' >= crashes
  <2>1. crashes \in Nat /\ (Crash(w) => crashes' = crashes + 1)
    BY CrashesAssumption DEF IInv, TablesOK, Crash
  <2>. QED BY <2>1, OnlyCrashCounts
<1>2. refused \in Nat /\ refused' \in Nat /\ refused' >= refused
      /\ (w \in Refusing => refused' = refused + 1)
  BY StepIsOwn, RefusingCounts DEF LeftOK
<1>3. /\ IsFiniteSet(Left) /\ Cardinality(Left) \in Nat
      /\ IsFiniteSet(Left') /\ Cardinality(Left') \in Nat
  <2>1. Left' \in SUBSET Guardians
    BY DEF Left, Orphans, IInv, TablesOK
  <2>. QED BY <2>1, LeftIsFinite, FS_Subset, FS_CardinalityType, GuardiansAssumption
<1>4. Cardinality(Left) <= refused + crashes
  BY DEF LeftOK
<1>5. CASE Left' \subseteq Left
  <2>1. Cardinality(Left') <= Cardinality(Left)
    BY <1>3, <1>5, FS_Subset
  <2>. QED BY <1>1, <1>2, <1>3, <1>4, <2>1 DEF LeftOK
<1>6. CASE /\ w \in Refusing \cup {v \in Workers : Crash(v)}
           /\ Left' \subseteq Left \cup {req[w].guardian}
  <2>1. refused' + crashes' >= refused + crashes + 1
    <3>1. Crash(w) => crashes' = crashes + 1
      BY DEF Crash
    <3>. QED BY <1>1, <1>2, <1>6, <3>1
  <2>2. Cardinality(Left') <= Cardinality(Left) + 1
    <3>. DEFINE more == Left \cup {req[w].guardian}
    <3>1. IsFiniteSet(more) /\ Cardinality(more) <= Cardinality(Left) + 1 /\ Cardinality(more) \in Nat
      <4>1. /\ IsFiniteSet(more)
            /\ Cardinality(more) = IF req[w].guardian \in Left THEN Cardinality(Left)
                                   ELSE Cardinality(Left) + 1
        BY <1>3, FS_AddElement
      <4>. QED BY <1>3, <4>1
    <3>2. Cardinality(Left') <= Cardinality(more)
      BY <1>6, <3>1, FS_Subset
    <3>. QED BY <1>3, <3>1, <3>2
  <2>. QED BY <1>1, <1>2, <1>3, <1>4, <2>1, <2>2 DEF LeftOK
<1>. QED BY <1>5, <1>6, LeftGrows

-----------------------------------------------------------------------------
(* Requests that run one at a time *)

\* While one request runs, the other workers are idle and hold nothing.
Quiet(w) == \A v \in Workers \ {w} : pc[v] = "idle" /\ pc'[v] = "idle" /\ held'[v] = NoRows

LEMMA SerialIsQuiet ==
  ASSUME IInv, SerialOK, \A v \in Workers : ChosenOK(v), NEW w \in Workers, WorkerStep(w),
         IsFiniteSet(Busy'), Cardinality(Busy') <= 1
  PROVE  Quiet(w)
<1>1. \A v \in Workers \ {w} : pc'[v] = pc[v] /\ held'[v] = held[v]
  BY StepIsOwn DEF OthersUntouched, Untouched
<1>2. \A v \in Workers \ {w} : pc[v] = "idle"
  <2>1. CASE pc[w] # "idle"
    BY <2>1 DEF SerialOK
  <2>2. CASE pc'[w] # "idle"
    <3>1. ASSUME NEW v \in Workers \ {w}, pc'[v] # "idle" PROVE FALSE
      <4>1. v \in Busy' /\ w \in Busy'
        BY <2>2, <3>1 DEF Busy
      <4>. QED BY <4>1, AtMostOne
    <3>. QED BY <1>1, <3>1
  <2>. QED BY <2>1, <2>2, StepIsOwn
<1>. QED BY <1>1, <1>2 DEF Quiet, ChosenOK

\* With fresh rows in memory an admitted candidate stays as it is, and a decision
\* is one the score allows.
LEMMA FreshDecision ==
  ASSUME IInv, NEW w \in Workers, FreshOK(w), NEW c \in DOMAIN held[w], Decision(w, c)
  PROVE  /\ candidates[c].status # "admitted" /\ Sound(candidates'[c])
         /\ \E status : Decides(c, status)
<1>1. held[w][c] = candidates[c] /\ candidates[c] \in Candidate
  BY DEF FreshOK, IInv, TaskOK, HeldOK, TablesOK
<1>2. candidates[c].score = None \/ candidates[c].score \in Scale
  BY <1>1 DEF Candidate
<1>3. PassingScore \in 0 .. 20 /\ None \notin Scores
  BY ScoresAssumption
<1>. HIDE DEF Candidate
<1>4. CASE Decides(c, "pending") /\ held[w][c].status \in Undecided
  BY <1>1, <1>4 DEF Decides, Undecided, Sound
<1>5. CASE /\ Decides(c, "second_call") /\ held[w][c].status \in Undecided
           /\ ~ Eligible(held[w][c]) /\ candidates'[c].score = candidates[c].score
  BY <1>1, <1>2, <1>3, <1>5 DEF Decides, Undecided, Sound, Eligible, Scale
<1>6. CASE /\ Decides(c, "accepted") /\ held[w][c].status \in Undecided
           /\ Eligible(held[w][c]) /\ candidates'[c].score = candidates[c].score
  BY <1>1, <1>6 DEF Decides, Undecided, Sound, Eligible
<1>7. CASE /\ Decides(c, "admitted") /\ held[w][c].status \in InscriptionOpen
           /\ Eligible(held[w][c]) /\ candidates'[c].score = candidates[c].score
  BY <1>1, <1>7 DEF Decides, InscriptionOpen, Sound, Eligible
<1>. QED BY <1>4, <1>5, <1>6, <1>7 DEF Decision

LEMMA AdmittedStay ==
  ASSUME IInv, NEW w \in Workers, FreshOK(w), ChosenOK(w), WorkerStep(w),
         NEW c \in DOMAIN candidates, candidates[c].status = "admitted"
  PROVE  candidates'[c] = candidates[c]
BY CandidateChange, FreshDecision DEF Added, Decides

LEMMA OneCandidateKeeps ==
  ASSUME IInv, OneCandidate, NEW w \in Workers, FreshOK(w), ChosenOK(w), WorkerStep(w)
  PROVE  OneCandidate'
<1>1. CASE candidates' = candidates
  BY <1>1 DEF OneCandidate, Sound
<1>2. ASSUME NEW c, Added(w, c) PROVE OneCandidate'
  <2>1. Sound(candidates'[c]) /\ \A x \in DOMAIN candidates : Sound(candidates'[x])
    BY <1>2 DEF Added, Sound, OneCandidate
  <2>. QED BY <1>2, <2>1 DEF Added, OneCandidate, FreshOK, Sound
<1>3. ASSUME NEW c \in DOMAIN held[w], Decision(w, c) PROVE OneCandidate'
  <2>1. PICK status : Decides(c, status)
    BY <1>3, FreshDecision
  <2>2. Sound(candidates'[c]) /\ \A x \in DOMAIN candidates \ {c} : Sound(candidates'[x])
    BY <1>3, <2>1, FreshDecision DEF Decides, OneCandidate
  <2>. QED BY <2>1, <2>2 DEF Decides, OneCandidate, Sound
<1>. QED BY <1>1, <1>2, <1>3, CandidateChange

LEMMA FreshKeeps ==
  ASSUME IInv, OriginsOK, NEW w \in Workers, FreshOK(w), WorkerStep(w)
  PROVE  FreshOK(w)'
<1>. USE DEF IInv, LocalOK, Goto, tables
<1>1. ASSUME Release(w) PROVE FreshOK(w)'
  BY <1>1, ReleasedIsChosen DEF FreshOK, NoRows
<1>2. ASSUME NEW d \in Documents, ApplyRequest(w, d) PROVE FreshOK(w)'
  <2>1. /\ pc'[w] = "apply" /\ held'[w] = held[w] /\ candidates' = candidates
        /\ req'[w].document = d
    BY <1>2 DEF ApplyRequest, Request
  <2>2. \A c \in DOMAIN candidates : candidates[c].document # d
    BY <1>2 DEF ApplyRequest, OriginsOK
  <2>. QED BY <2>1, <2>2 DEF FreshOK
<1>3. ASSUME NEW c \in Candidates,
             SecondCallRequest(w, c) \/ \E score \in Scores : ScoreRequest(w, c, score)
      PROVE  FreshOK(w)'
  <2>1. /\ held'[w] = [x \in {c} |-> candidates[x]] /\ candidates' = candidates
        /\ pc'[w] \in {"score", "second_call"}
    BY <1>3 DEF SecondCallRequest, ScoreRequest, Load
  <2>. QED BY <2>1 DEF FreshOK
<1>4. ASSUME NEW selected \in SUBSET Candidates, BatchRequest(w, selected) PROVE FreshOK(w)'
  <2>. DEFINE S == {x \in selected \cap DOMAIN candidates : candidates[x].status \in Undecided}
  <2>1. held'[w] = [c \in S |-> candidates[c]] /\ candidates' = candidates /\ pc'[w] = "batch"
    BY <1>4 DEF BatchRequest
  <2>. HIDE DEF S
  <2>. QED BY <2>1 DEF FreshOK
<1>5. ASSUME NEW named \in Candidates \cup {None}, NEW d \in Documents,
             NEW g \in guardians \cup {None}, InscriptionRequest(w, named, d, g)
      PROVE  FreshOK(w)'
  <2>1. /\ held'[w] = IF Inscribable(named) THEN [x \in {named} |-> candidates[x]] ELSE NoRows
        /\ candidates' = candidates /\ pc'[w] # "apply"
    BY <1>5 DEF InscriptionRequest
  <2>. QED BY <2>1 DEF FreshOK, NoRows
<1>6. ASSUME NEW c \in Candidates, Aceitar(w, c) PROVE FreshOK(w)'
  <2>1. /\ held'[w] = [x \in DOMAIN held[w] \ {c} |-> held[w][x]] /\ pc'[w] = "batch"
        /\ \A x \in DOMAIN candidates \ {c} : candidates'[x] = candidates[x]
    BY <1>6 DEF Aceitar, SaveStatus
  <2>2. DOMAIN held[w] \subseteq DOMAIN candidates
    BY DEF TaskOK, HeldOK
  <2>. QED BY <2>1, <2>2 DEF FreshOK
<1>7. CASE \/ \E g \in Guardians : SaveGuardian(w, g)
           \/ CheckDocument(w) /\ ~ Release(w)
           \/ ReadNumber(w)
           \/ \E s \in Students : Insert(w, s) /\ ~ Release(w)
           \/ Link(w) /\ ~ Release(w)
  <2>1. held'[w] = held[w] /\ candidates' = candidates /\ pc'[w] # "apply"
    BY <1>7 DEF SaveGuardian, CheckDocument, ReadNumber, Insert, Link
  <2>. QED BY <2>1 DEF FreshOK
<1>8. CASE (\E c \in Candidates : Apply(w, c)) \/ AceitarFim(w) \/ RegistarNota(w) \/ Convocar(w)
           \/ Admit(w) \/ Crash(w)
  BY <1>1, <1>8 DEF Apply, AceitarFim, RegistarNota, Convocar, Admit, Crash
<1>. QED BY <1>1, <1>2, <1>3, <1>4, <1>5, <1>6, <1>7, <1>8 DEF WorkerStep, Receive, Step

LEMMA OneStudentKeeps ==
  ASSUME IInv, OriginsOK, OneStudent, NEW w \in Workers, FreshOK(w), ChosenOK(w), WorkerStep(w),
         Quiet(w), crashes' = crashes
  PROVE  OneStudent'
<1>1. ~ Crash(w)
  BY DEF Crash, IInv, TablesOK
<1>2. \A c \in DOMAIN candidates : candidates[c].status = "admitted" =>
        candidates'[c] = candidates[c]
  BY AdmittedStay
<1>3. \A s \in DOMAIN students : students[s].candidate # None =>
        \/ candidates'[students[s].candidate].status = "admitted"
        \/ pc[w] \in {"link", "admit"} /\ req[w].student = s
  BY <1>2 DEF OneStudent, OriginsOK, Quiet
<1>4. ASSUME UNCHANGED <<students, links>>, pc[w] # "link" PROVE OneStudent'
  <2>1. CASE pc[w] # "admit"
    BY <1>3, <1>4, <2>1 DEF OneStudent
  <2>2. CASE pc[w] = "admit"
    <3>1. Admit(w)
      BY <1>1, <2>2 DEF WorkerStep, Receive, ApplyRequest, SecondCallRequest, ScoreRequest,
         BatchRequest, InscriptionRequest, Step, AceitarFim, CheckDocument, ReadNumber,
         RegistarNota, Convocar, SaveGuardian, Apply, Aceitar, Insert, Link
    <3>2. students[req[w].student].candidate = HeldCandidate(w)
      BY <2>2 DEF IInv, TaskOK, CreatedOK
    <3>3. candidates'[HeldCandidate(w)].status = "admitted"
      BY <2>2, <3>1, HeldAtStep, SavedStatus DEF Admit, Decides
    <3>. QED BY <1>3, <1>4, <3>2, <3>3 DEF OneStudent
  <2>. QED BY <2>1, <2>2
<1>5. CASE Link(w)
  <2>1. /\ pc[w] = "link" /\ UNCHANGED <<candidates, students>>
        /\ (held[w] = NoRows \/ (pc'[w] = "admit" /\ req'[w] = req[w]))
    BY <1>5 DEF Link, Goto, IInv, LocalOK
  <2>2. CASE held[w] = NoRows
    <3>1. students[req[w].student].candidate = None
      BY <2>1, <2>2, HeldCandidateIsHeld DEF IInv, TaskOK, CreatedOK
    <3>. QED BY <1>3, <2>1, <3>1 DEF OneStudent
  <2>3. CASE pc'[w] = "admit" /\ req'[w] = req[w]
    BY <1>3, <2>1, <2>3 DEF OneStudent
  <2>. QED BY <2>1, <2>2, <2>3
<1>6. ASSUME NEW s, Enrols(w, s) PROVE OneStudent'
  <2>1. \A t \in DOMAIN students : students[t].candidate # None =>
          candidates'[students[t].candidate].status = "admitted"
    BY <1>3, <1>6 DEF Enrols
  <2>2. \A t \in DOMAIN students : students[t].candidate # None =>
          students[t].candidate # HeldCandidate(w)
    <3>1. HeldCandidate(w) # None => HeldCandidate(w) \in DOMAIN held[w]
      BY HeldCandidateIsHeld DEF IInv, TaskOK
    <3>2. HeldCandidate(w) # None => candidates[HeldCandidate(w)].status # "admitted"
      BY <1>6, <3>1 DEF Enrols, ChosenOK, FreshOK, InscriptionSteps, InscriptionOpen
    <3>. QED BY <1>6, <2>1, <3>2 DEF Enrols
  <2>. QED BY <1>6, <2>1, <2>2 DEF Enrols, OneStudent
<1>. QED BY <1>1, <1>4, <1>5, <1>6, StudentChange

LEMMA SerialKeeps ==
  ASSUME IInv, OriginsOK, SerialOK, \A v \in Workers : ChosenOK(v), NEW w \in Workers,
         WorkerStep(w), IsFiniteSet(Busy'), Cardinality(Busy') <= 1, crashes' = crashes
  PROVE  SerialOK'
<1>1. Quiet(w)
  BY SerialIsQuiet
<1>2. \A u, v \in Workers : pc'[u] # "idle" /\ pc'[v] # "idle" => u = v
  BY <1>1 DEF Quiet
<1>3. FreshOK(w)'
  BY FreshKeeps DEF SerialOK
<1>4. ASSUME NEW v \in Workers \ {w} PROVE FreshOK(v)'
  BY <1>1 DEF Quiet, FreshOK, NoRows
<1>5. OneCandidate' /\ OneStudent'
  BY <1>1, OneCandidateKeeps, OneStudentKeeps DEF SerialOK
<1>. QED BY <1>2, <1>3, <1>4, <1>5 DEF SerialOK

LEMMA HInitial == MCInit => HInv
<1>. SUFFICES ASSUME MCInit PROVE HInv
  OBVIOUS
<1>1. IInv
  BY Initial DEF MCInit
<1>2. Busy = {} /\ IsFiniteSet(Busy)
  BY FS_EmptySet DEF MCInit, Init, Busy
<1>3. LeftOK
  <2>1. Left = {}
    BY DEF MCInit, Init, Left, Orphans
  <2>. QED BY <2>1, FS_EmptySet DEF MCInit, Init, LeftOK
<1>. QED BY <1>1, <1>2, <1>3
     DEF MCInit, Init, HInv, ChosenOK, OriginsOK, LinkedOK, SerialOK, FreshOK, OneCandidate,
         OneStudent, NoRows, InscriptionSteps

LEMMA HInductive == HInv /\ [MCNext]_mcVars => HInv'
<1>. SUFFICES ASSUME HInv, [MCNext]_mcVars PROVE HInv'
  OBVIOUS
<1>1. IInv'
  BY Inductive DEF HInv, MCNext, mcVars
<1>2. CASE UNCHANGED mcVars
  <2>1. /\ UNCHANGED <<candidates, guardians, students, links, pc, req, held, number, crashes>>
        /\ UNCHANGED <<serial, refused>>
    BY <1>2 DEF mcVars, vars, tables, local
  <2>2. Busy' = Busy /\ Left' = Left
    BY <2>1 DEF Busy, Left, Orphans, Linking
  <2>. QED BY <1>1, <2>1, <2>2
       DEF HInv, ChosenOK, OriginsOK, LinkedOK, LeftOK, SerialOK, FreshOK, OneCandidate,
           OneStudent, Sound, Eligible, NoRows, NoRequest
<1>3. CASE MCNext
  <2>1. PICK w \in Workers : WorkerStep(w)
    BY <1>3 DEF MCNext, Next, WorkerStep
  <2>2. IsFiniteSet(Busy')
    <3>1. Busy' \in SUBSET (Busy \cup {w})
      BY <2>1, StepIsOwn DEF HInv, OthersUntouched, Untouched, Busy
    <3>. QED BY <3>1, FS_AddElement, FS_Subset DEF HInv
  <2>3. \A v \in Workers : ChosenOK(v)'
    BY <2>1, ChosenKeeps, OthersChosen, StepIsOwn DEF HInv
  <2>4. OriginsOK' /\ LinkedOK'
    BY <2>1, OriginsKeep, LinkedKeeps DEF HInv
  <2>5. LeftOK'
    BY <1>1, <1>3, <2>1, LeftKeeps DEF HInv, MCNext, Refusing
  <2>6. serial' \in BOOLEAN /\ (serial' => SerialOK')
    BY <1>3, <2>1, <2>2, SerialKeeps DEF HInv, MCNext
  <2>. QED BY <1>1, <2>2, <2>3, <2>4, <2>5, <2>6 DEF HInv
<1>. QED BY <1>2, <1>3

LEMMA HInvariant == MCSpec => []HInv
BY HInitial, HInductive, PTL DEF MCSpec

\* candidate services, PreApplicationForm and the inscription view: requests that
\* run one at a time leave every candidate with a status its score allows, one
\* candidature for a document and one student for a candidate.
THEOREM CandidatesAreConsistent == MCSpec => []CandidatesConsistent
<1>1. HInv => CandidatesConsistent
  BY DEF HInv, IInv, TablesOK, SerialOK, OneCandidate, OneStudent, Sound, CandidatesConsistent
<1>. QED BY <1>1, HInvariant, PTL

\* A decision is made on a row that was not admitted when it was loaded, and the
\* worker lets go of it.
LEMMA DecisionIsLate ==
  ASSUME IInv, NEW w \in Workers, ChosenOK(w), WorkerStep(w),
         NEW c \in DOMAIN candidates, candidates'[c] # candidates[c]
  PROVE  /\ c \in DOMAIN held[w] /\ held[w][c].status # "admitted"
         /\ held'[w] # held[w]
<1>1. c \in DOMAIN held[w] /\ Decision(w, c)
  BY CandidateChange DEF Added, Decision, Decides
<1>2. held[w][c].status # "admitted"
  BY <1>1 DEF Decision, Undecided, InscriptionOpen
<1>3. c \notin DOMAIN held'[w]
  <2>1. CASE \E d \in Candidates : Aceitar(w, d)
    BY <1>1, <2>1 DEF Aceitar, SaveStatus, IInv, LocalOK, TaskOK, HeldOK
  <2>2. CASE RegistarNota(w) \/ Convocar(w) \/ Admit(w)
    BY <2>2 DEF RegistarNota, Convocar, Admit, Release, NoRows, IInv, LocalOK
  <2>3. CASE ~ (\E d \in Candidates : Aceitar(w, d)) /\ ~ RegistarNota(w)
             /\ ~ Convocar(w) /\ ~ Admit(w)
    BY <1>1, <2>3 DEF WorkerStep, Step, Receive, ApplyRequest, SecondCallRequest,
          ScoreRequest, BatchRequest, InscriptionRequest, Crash, Apply, AceitarFim,
          SaveGuardian, CheckDocument, ReadNumber, Insert, Link, tables
  <2>. QED BY <2>1, <2>2, <2>3
<1>. QED BY <1>1, <1>2, <1>3

\* "Uma decisão encerrada": no request changes the score or the status of an
\* admitted candidate, as long as they run one at a time; when they race, only a
\* request that loaded it before its admission does.
THEOREM AdmissionIsFinal == MCSpec => AdmittedIsFinal
<1>1. ASSUME HInv, MCNext, serial', NEW c \in DOMAIN candidates, candidates[c].status = "admitted"
      PROVE  candidates'[c] = candidates[c]
  <2>1. PICK w \in Workers : WorkerStep(w)
    BY <1>1 DEF MCNext, Next, WorkerStep
  <2>2. serial
    BY <1>1 DEF MCNext, HInv
  <2>. QED BY <1>1, <2>1, <2>2, AdmittedStay DEF HInv, SerialOK
<1>2. ASSUME HInv, MCNext, NEW c \in DOMAIN candidates, candidates'[c] # candidates[c]
      PROVE  \E w \in Workers : /\ c \in DOMAIN held[w] /\ held'[w] # held[w]
                                /\ held[w][c].status # "admitted"
  <2>1. PICK w \in Workers : WorkerStep(w)
    BY <1>2 DEF MCNext, Next, WorkerStep
  <2>. QED BY <1>2, <2>1, DecisionIsLate DEF HInv
<1>3. HInv /\ [MCNext]_mcVars =>
        [\A c \in DOMAIN candidates :
           candidates[c].status = "admitted" /\ candidates'[c] # candidates[c] =>
             /\ ~serial'
             /\ \E w \in Workers : /\ c \in DOMAIN held[w] /\ held'[w] # held[w]
                                   /\ held[w][c].status # "admitted"]_mcVars
  BY <1>1, <1>2
<1>. QED BY <1>3, HInvariant, PTL DEF MCSpec, AdmittedIsFinal

\* The guardians without a student: each is of an inscription under way, or was
\* left by one that was refused or died.
LEMMA OrphansBounded ==
  ASSUME HInv
  PROVE  Cardinality(Orphans) <= refused + crashes
           + Cardinality({w \in Workers : pc[w] \in InscriptionSteps \ {"guardian"}})
<1>. DEFINE taken == {g \in Orphans : \E w \in Linking : req[w].guardian = g}
            givers == {w \in Linking : req[w].guardian \in Orphans}
            open == {w \in Workers : pc[w] \in InscriptionSteps \ {"guardian"}}
            f == [w \in givers |-> req[w].guardian]
<1>1. IsFiniteSet(open) /\ givers \in SUBSET open
  <2>1. open \in SUBSET Busy
    BY DEF Busy, InscriptionSteps
  <2>2. IsFiniteSet(open)
    BY <2>1, FS_Subset DEF HInv
  <2>. QED BY <2>2 DEF Linking
<1>2. IsFiniteSet(givers) /\ Cardinality(givers) <= Cardinality(open)
      /\ Cardinality(givers) \in Nat /\ Cardinality(open) \in Nat
  <2>. HIDE DEF open, givers
  <2>. QED BY <1>1, FS_Subset, FS_CardinalityType
<1>3. f \in Surjection(givers, taken)
  BY DEF Surjection
<1>. HIDE DEF f, givers, open
<1>4. IsFiniteSet(taken) /\ Cardinality(taken) <= Cardinality(givers) /\ Cardinality(taken) \in Nat
  BY <1>2, <1>3, FS_Surjection, FS_CardinalityType
<1>5. Orphans = Left \cup taken
  BY DEF Left
<1>. HIDE DEF taken
<1>6. IsFiniteSet(Left) /\ Cardinality(Left) \in Nat
  BY LeftIsFinite DEF HInv
<1>7. Cardinality(Orphans) <= Cardinality(Left) + Cardinality(taken)
  <2>1. Cardinality(Left \cap taken) \in Nat
    BY <1>6, FS_Intersection, FS_CardinalityType
  <2>2. Cardinality(Left \cup taken)
          = Cardinality(Left) + Cardinality(taken) - Cardinality(Left \cap taken)
    BY <1>4, <1>6, FS_Union
  <2>. QED BY <1>4, <1>5, <1>6, <2>1, <2>2
<1>8. Cardinality(Orphans) \in Nat
  BY <1>4, <1>5, <1>6, FS_Union, FS_CardinalityType
<1>9. Cardinality(Orphans) <= refused + crashes + Cardinality(open)
  <2>1. Cardinality(Left) <= refused + crashes /\ refused \in Nat /\ crashes \in Nat
    BY DEF HInv, LeftOK, IInv, TablesOK
  <2>. QED BY <1>2, <1>4, <1>6, <1>7, <1>8, <2>1
<1>. QED BY <1>9 DEF open

\* student_inscription_view: a student whose inscription is over has the guardian
\* who consented, and the candidate it came from is admitted when requests run one
\* at a time; a refused or dead form leaves one Guardian without student at most.
THEOREM InscriptionsAreWhole == MCSpec => []InscriptionIsWhole
<1>1. ASSUME HInv, NEW s \in DOMAIN students, crashes = 0, \A w \in Workers : req[w].student # s
      PROVE  /\ <<s, students[s].guardian>> \in links
             /\ serial /\ students[s].candidate # None
                  => candidates[students[s].candidate].status = "admitted"
  BY <1>1 DEF HInv, LinkedOK, SerialOK, OneStudent
<1>2. HInv => InscriptionIsWhole
  BY <1>1, OrphansBounded DEF InscriptionIsWhole, Orphans
<1>. QED BY <1>2, HInvariant, PTL

=============================================================================

----------------------------- MODULE MCInscricao -----------------------------
(* Small instances of Inscricao for TLC: a bound on the requests, and history  *)
(* variables that tell whether they have run one at a time, and none has died, *)
(* so far, and how many inscriptions have been refused after the Guardian was  *)
(* saved.                                                                      *)
EXTENDS Inscricao, TLC

CONSTANT MaxRequests \* bound: requests

ASSUME RequestsAssumption == MaxRequests \in Nat

VARIABLES requests, serial, refused

Symmetry == Permutations(Candidates) \cup Permutations(Students) \cup Permutations(Guardians)
              \cup Permutations(Documents) \cup Permutations(Workers)

Busy == {w \in Workers : pc[w] # "idle"}

MCInit == Init /\ requests = 0 /\ serial = TRUE /\ refused = 0

MCNext ==
  /\ Next
  /\ requests' = requests + Cardinality(Busy' \ Busy) /\ requests' <= MaxRequests
  /\ serial' = (serial /\ Cardinality(Busy') <= 1 /\ crashes' = crashes)
  /\ refused' = refused + Cardinality({w \in Workers : pc[w] \in {"document", "insert"}
                                                       /\ pc'[w] = "idle"})

mcVars == <<vars, requests, serial, refused>>
MCSpec == MCInit /\ [][MCNext]_mcVars

\* candidate services and PreApplicationForm: as long as requests run one at a
\* time, second call is for failed candidates and acceptance for those who passed
\* or had no exam; no two candidatures in progress carry one document ("um user
\* não pode fazer várias candidaturas"); and a candidate becomes one student. An
\* admitted candidate has its student whatever requests race or die ("only
\* actually marked Admitido once the Student is successfully created").
CandidatesConsistent ==
  /\ AdmittedHasStudent
  /\ serial =>
       /\ \A c \in DOMAIN candidates :
            /\ candidates[c].status = "second_call" => candidates[c].score \in 0 .. PassingScore - 1
            /\ candidates[c].status \in {"accepted", "admitted"} /\ candidates[c].score # None
                 => candidates[c].score >= PassingScore
            /\ \A d \in DOMAIN candidates \ {c} :
                 candidates[c].document = candidates[d].document
                   => "rejected" \in {candidates[c].status, candidates[d].status}
       /\ \A s, t \in DOMAIN students :
            students[s].candidate = students[t].candidate /\ students[s].candidate # None => s = t

\* CandidateAlreadyDecidedError, "uma decisão encerrada": the score and the status of
\* an admitted candidate never change while requests run one at a time. When they
\* race, the statement that changes them is of a request that had loaded the
\* candidate before it was admitted, and no later request undoes the admission.
AdmittedIsFinal ==
  [][\A c \in DOMAIN candidates :
       candidates[c].status = "admitted" /\ candidates'[c] # candidates[c] =>
         /\ ~serial'
         /\ \E w \in Workers : /\ c \in DOMAIN held[w] /\ held'[w] # held[w]
                               /\ held[w][c].status # "admitted"]_mcVars

\* student_inscription_view, "pelo menos um Encarregado de Educação vinculado":
\* unless a worker has died, a student whose inscription is over has the link to
\* the guardian who consented, whatever ran beside it; and the candidate it came
\* from is admitted when requests ran one at a time. A form that is refused, or
\* whose worker dies, leaves one Guardian without student at most.
InscriptionIsWhole ==
  /\ \A s \in DOMAIN students :
       crashes = 0 /\ (\A w \in Workers : req[w].student # s) =>
         /\ <<s, students[s].guardian>> \in links
         /\ serial /\ students[s].candidate # None
              => candidates[students[s].candidate].status = "admitted"
  /\ Cardinality({g \in guardians : \A s \in DOMAIN students : <<s, g>> \notin links})
       <= refused + crashes
            + Cardinality({w \in Workers : pc[w] \in InscriptionSteps \ {"guardian"}})
=============================================================================

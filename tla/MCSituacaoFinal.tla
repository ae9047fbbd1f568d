--------------------------- MODULE MCSituacaoFinal ---------------------------
(* Small instances of SituacaoFinal, and of the Assiduidade it extends, for   *)
(* TLC, with a history variable that tells the requests no other request has  *)
(* overlapped.                                                                *)
EXTENDS SituacaoFinal, TLC

CONSTANTS s1, s2, e1

\* One lesson, of s1, whose absence exceeds the limit.
MCSubjectOf == [l \in Lessons |-> s1]
MCHours == [l \in Lessons |-> 1]
MCLimit == [s \in Subjects |-> 0]

\* A student who repeats the year.
MCStudentOf == [e \in Enrolments |-> CHOOSE a \in Students : TRUE]

Symmetry == Permutations(Workers) \cup Permutations(Terms)

VARIABLES
  alone, \* worker -> its request has had the database to itself so far
  scope  \* bound: "class", only attendance, of both pupils, or "pupil", every
         \* request, about e1 and with blank justifications

InScope(w) ==
  \/ scope = "class" /\ pc'[w] \in {"idle", "grid", "justify"}
  \/ scope = "pupil" /\ CASE pc'[w] = "grid" -> pc[w] = "idle" => DOMAIN task'[w].todo = {e1}
                          [] pc'[w] = "justify" -> task'[w].key[1] = e1 /\ task'[w].row.text = Blank
                          [] pc'[w] \in {"media", "ajuste"} -> task'[w].key[1] = e1
                          [] pc'[w] \in {"search", "nota"} -> task'[w].enrolment = e1
                          [] pc'[w] \in Calculating -> task'[w].enrolment = e1 /\ task'[w].queue = {}
                          [] OTHER -> TRUE

MCInit ==
  /\ Init
  /\ alone = [w \in Workers |-> TRUE]
  /\ scope \in {"class", "pupil"}

MCNext ==
  /\ Next
  /\ \A w \in Workers : InScope(w)
  /\ alone' = [w \in Workers |->
                pc'[w] = "idle" \/ (alone[w] /\ \A v \in Workers \ {w} : pc'[v] = "idle")]
  /\ UNCHANGED scope

MCSpec == MCInit /\ [][MCNext]_<<vars, alone, scope>>

\* registar_presencas updates a recorded row in place and justificar_falta only
\* accepts absences: whatever races have gone before, a request that runs alone
\* changes the text of a row in no other way than by justifying an absence, so
\* marking the class again loses no justification.
AloneKeepsJustification ==
  [][\A w \in Workers, k \in Key :
       /\ pc[w] # "idle" /\ alone[w]
       /\ k \in DOMAIN attendance /\ attendance'[k] # attendance[k]
       => \/ attendance'[k].text = attendance[k].text /\ pc[w] = "grid"
          \/ attendance[k].status \in Absences /\ attendance'[k].status = "justified_absent"
    ]_<<vars, alone, scope>>

\* "uma só chamada marca a turma toda de uma vez": whatever rows earlier grids,
\* crashes and justifications have left, a grid that runs alone and does not die
\* leaves no enrolment out.
AloneMarksClass ==
  [][\A w \in Workers :
       pc[w] = "grid" /\ alone[w] /\ crashes' = crashes =>
         \A e \in DOMAIN task[w].todo :
           \/ pc'[w] = "grid" /\ e \in DOMAIN task'[w].todo
           \/ /\ <<e, task[w].lesson>> \in DOMAIN attendance'
              /\ attendance'[<<e, task[w].lesson>>].status = task[w].todo[e]
    ]_<<vars, alone, scope>>

\* The situation the documentation of calcular_situacao_final describes.
Arrears(e) ==
  {s \in Subjects : (LowAverage(e, s) /\ ~ HasPassedRecurso(e, s)) \/ ExceedsLimit(e, s)}

Current(e) ==
  [failed_subjects |-> Arrears(e),
   status |-> CASE Arrears(e) = {} -> "approved"
                [] Cardinality(Arrears(e)) \in 1 .. MaxRecoverable -> "pending_recovery"
                [] Cardinality(Arrears(e)) > MaxRecoverable -> "failed"]

\* calcular_situacao_final, "recalculável a qualquer momento": whatever races
\* and crashes have left in the row, a calculation that runs alone, on its own
\* or after a grade of recurso, leaves the situation of the present data.
AloneIsCurrent ==
  [][\A w \in Workers :
       pc[w] = "set" /\ pc'[w] # "set" /\ alone[w] /\ crashes' = crashes =>
         situation'[task[w].enrolment] = Current(task[w].enrolment)]_<<vars, alone, scope>>

\* registar_media_final, "sem nunca tocar num ajuste manual já registado": a
\* request that runs alone changes the average or the adjustment of a row, not
\* both, and only the request made for it.
AloneKeepsAdjustment ==
  [][\A w \in Workers, k \in FinalKey :
       pc[w] # "idle" /\ alone[w] /\ k \in DOMAIN finals =>
         \/ finals'[k] = finals[k]
         \/ pc[w] = "media" /\ finals'[k].override = finals[k].override
         \/ pc[w] = "ajuste" /\ finals'[k].calculated = finals[k].calculated
    ]_<<vars, alone, scope>>
=============================================================================

---------------------------- MODULE Instituicao ----------------------------
(* The installation of a node and the configuration of its institution: the    *)
(* setup wizard (core.services.setup_institution, sync.services), the average  *)
(* formula of the institution and its overrides for a course or a subject      *)
(* (grading.services and the screens of apps/admin_panel), and the averages    *)
(* computed by them. Who may open a screen is what Permissoes has granted.     *)
(*                                                                            *)
(* Outside the wizard's transaction each statement commits alone. Weights are  *)
(* thousandths, grades hundredths. One course and one subject of each          *)
(* institution stand for all: their rows never meet.                           *)
EXTENDS Pedidos, Permissoes, Integers

CONSTANTS
  Usernames,   \* of the first manager, typed into the wizard
  Offered,     \* formulas an administrator may type
  MaxGrades,   \* the grade of a pupil who has the same in every evaluation
  NodeId       \* settings.NODE_ID, or None when the environment gives none

Thousandths == 0 .. 1000

\* DEFAULT_EVALUATION_TYPES
DefaultTypes == [MAC |-> 300, ProvaTrimestral |-> 300, Exame |-> 400]
TypeNames == DOMAIN DefaultTypes

IsFormula(weights) ==
  /\ DOMAIN weights \subseteq TypeNames
  /\ \A name \in DOMAIN weights : weights[name] \in Thousandths

ASSUME InstituicaoAssumption ==
  /\ \A weights \in Offered : IsFormula(weights)
  /\ MaxGrades \subseteq 0 .. 2000

VARIABLES
  institutions, \* identifiers of the rows of Institution
  formula,      \* institution -> default_grading_formula
  managers,     \* institution -> its first user
  types,        \* institution -> names of its EvaluationType rows
  overrides,    \* <<institution, scope>> -> [row, weights] of GradingFormulaOverride
  average,      \* institution -> the average last computed
  nodes,        \* rows of Node
  privateKey    \* settings.NODE_PRIVATE_KEY_PATH: the worker that made the key

institutionVars == <<institutions, formula, managers, types, overrides, average>>
nodeVars == <<nodes, privateKey>>
vars == <<permissionVars, institutionVars, nodeVars, requestVars>>

Scopes == {"course", "subject"}
NoFormula == [name \in {} |-> 0]

-----------------------------------------------------------------------------
(* Formulas.                                                                  *)

\* The sum over the types a formula weighs: of its weights, or of the terms of an
\* average.
Total(terms) ==
  LET Of(name) == IF name \in DOMAIN terms THEN terms[name] ELSE 0
  IN Of("MAC") + Of("ProvaTrimestral") + Of("Exame")

\* Fault: a tolerance of a tenth.
ValidLoosely(weights, names) ==
  /\ weights # NoFormula /\ DOMAIN weights \subseteq names
  /\ Total(weights) - 1000 \in -100 .. 100

\* validate_formula, WEIGHT_SUM_TOLERANCE
Valid(weights, names) ==
  /\ weights # NoFormula /\ DOMAIN weights \subseteq names
  /\ Total(weights) - 1000 \in -10 .. 10

\* calculate_average and its quantization, ROUND_HALF_UP.
Average(grades, weights) ==
  (Total([name \in DOMAIN weights |-> grades[name] * weights[name]]) + 500) \div 1000

-----------------------------------------------------------------------------
\* A request is served once every migration has run.
Serve(w, to, t) == Deployed /\ Begin(w, to, t) /\ UNCHANGED permissionVars

Same == UNCHANGED <<permissionVars, requests, crashes>>

-----------------------------------------------------------------------------
(* The setup wizard.                                                          *)

\* dispatch: open while no institution exists. The forms have been filled in.
OpenWizard(w) ==
  /\ institutions = {}
  /\ \E username \in Usernames :
       Serve(w, "setup", [username |-> username]) /\ UNCHANGED <<institutionVars, nodeVars>>

\* Fault: the institution is saved although the user cannot be.
SetupOrphan(w) ==
  /\ pc[w] = "setup"
  /\ institutions' = institutions \cup {w}
  /\ formula' = Put(formula, w, DefaultTypes) /\ types' = Put(types, w, TypeNames)
  /\ IF \E i \in institutions : managers[i] = task[w].username
     THEN End(w, "setup") /\ UNCHANGED managers
     ELSE Step(w, "setup", "key") /\ managers' = Put(managers, w, task[w].username) /\ UNCHANGED task
  /\ Same /\ UNCHANGED <<overrides, average, nodeVars>>

\* setup_institution, its transaction: a username already taken rolls all of it
\* back. A worker creates one institution at most: its identifier is the worker.
SetupInstitution(w) ==
  /\ pc[w] = "setup"
  /\ IF \E i \in institutions : managers[i] = task[w].username
     THEN End(w, "setup") /\ UNCHANGED <<institutions, formula, managers, types>>
     ELSE /\ Step(w, "setup", "key") /\ UNCHANGED task
          /\ institutions' = institutions \cup {w}
          /\ managers' = Put(managers, w, task[w].username)
          /\ types' = Put(types, w, TypeNames)
          /\ formula' = Put(formula, w, DefaultTypes)
  /\ Same /\ UNCHANGED <<overrides, average, nodeVars>>

\* create_local_node: the key pair is made and its private half written.
WriteKey(w) ==
  /\ Step(w, "key", "node") /\ privateKey' = w
  /\ Same /\ UNCHANGED <<institutionVars, nodes, task>>

\* Without NODE_ID each process has an identity of its own.
CurrentNodeId(w) == IF NodeId = None THEN w ELSE NodeId

\* Fault: the public key of an earlier pair is stored.
CreateNodeOldKey(w) ==
  /\ End(w, "node")
  /\ nodes' = nodes \cup {[id |-> CurrentNodeId(w), institution |-> w, key |-> None]}
  /\ Same /\ UNCHANGED <<institutionVars, privateKey>>

\* The rest of it: a node of the same id refuses the INSERT.
CreateNode(w) ==
  /\ End(w, "node")
  /\ nodes' = IF \E n \in nodes : n.id = CurrentNodeId(w) THEN nodes
              ELSE nodes \cup {[id |-> CurrentNodeId(w), institution |-> w, key |-> w]}
  /\ Same /\ UNCHANGED <<institutionVars, privateKey>>

-----------------------------------------------------------------------------
(* The average formula and its overrides. A formula request carries the        *)
(* institution, the scope it is for, the weights and what it is still to seed.  *)

\* ensure_default_evaluation_types runs first in each of the three screens: the
\* names are read once, then each missing one is inserted.
FormulaRequest(w, i, scope, weights, action) ==
  /\ Serve(w, "ensure", [institution |-> i, scope |-> scope, weights |-> weights,
                         missing |-> TypeNames \ types[i], next |-> action, row |-> None])
  /\ UNCHANGED <<institutionVars, nodeVars>>

ConfigureFormula(w) ==
  \E i \in institutions, weights \in Offered :
    /\ HasPerm("admin", "institution", "change")
    /\ FormulaRequest(w, i, "institution", weights, "form")

ConfigureOverride(w) ==
  \E i \in institutions, scope \in Scopes, weights \in Offered :
    /\ HasPerm("admin", scope, "change")
    /\ FormulaRequest(w, i, scope, weights, "form")

ClearRequest(w) ==
  \E i \in institutions, scope \in Scopes :
    /\ HasPerm("admin", scope, "change")
    /\ FormulaRequest(w, i, scope, NoFormula, "clear")

SeedType(w) ==
  /\ pc[w] = "ensure"
  /\ \E name \in task[w].missing :
       LET i == task[w].institution
       IN IF name \in types[i]
          THEN End(w, "ensure") /\ UNCHANGED types \* refused: one type of a name
          ELSE /\ types' = [types EXCEPT ![i] = @ \cup {name}]
               /\ Keep(w, [task[w] EXCEPT !.missing = @ \ {name}]) /\ UNCHANGED pc
  /\ Same /\ UNCHANGED <<institutions, formula, managers, overrides, average, nodeVars>>

Seeded(w) ==
  /\ pc[w] = "ensure" /\ task[w].missing = {} /\ Step(w, "ensure", task[w].next)
  /\ Same /\ UNCHANGED <<institutionVars, nodeVars, task>>

\* GradingFormulaForm has a field for each type there is: the weight of another
\* is not read.
CheckForm(w) ==
  /\ pc[w] = "form"
  /\ LET names == types[task[w].institution]
         weights == [name \in DOMAIN task[w].weights \cap names |-> task[w].weights[name]]
     IN IF Valid(weights, names)
        THEN Step(w, "form", "check") /\ Keep(w, [task[w] EXCEPT !.weights = weights])
        ELSE End(w, "form")
  /\ Same /\ UNCHANGED <<institutionVars, nodeVars>>

\* set_institution_default_formula, set_course_formula_override and
\* set_subject_formula_override validate the formula again.
CheckAgain(w) ==
  /\ pc[w] = "check"
  /\ IF Valid(task[w].weights, types[task[w].institution])
     THEN /\ Step(w, "check", IF task[w].scope = "institution" THEN "default" ELSE "find")
          /\ UNCHANGED task
     ELSE End(w, "check")
  /\ Same /\ UNCHANGED <<institutionVars, nodeVars>>

\* update_fields: no other column of the institution is written.
SaveDefault(w) ==
  /\ End(w, "default") /\ formula' = Put(formula, task[w].institution, task[w].weights)
  /\ Same /\ UNCHANGED <<institutions, managers, types, overrides, average, nodeVars>>

OverrideKey(w) == <<task[w].institution, task[w].scope>>

FindOverride(w) ==
  /\ Step(w, "find", "override")
  /\ Keep(w, [task[w] EXCEPT !.row = IF OverrideKey(w) \in DOMAIN overrides
                                     THEN overrides[OverrideKey(w)].row ELSE None])
  /\ Same /\ UNCHANGED <<institutionVars, nodeVars>>

\* The row found is updated, unless it has been deleted meanwhile; a new one is
\* refused when the scope has one meanwhile.
SaveOverride(w) ==
  /\ End(w, "override")
  /\ LET key == OverrideKey(w)
         found == task[w].row
         stored == IF key \in DOMAIN overrides THEN overrides[key].row ELSE None
         row == IF found = None THEN <<w, requests>> ELSE found
     IN overrides' = IF found = stored
                     THEN Put(overrides, key, [row |-> row, weights |-> task[w].weights])
                     ELSE overrides
  /\ Same /\ UNCHANGED <<institutions, formula, managers, types, average, nodeVars>>

ClearOverride(w) ==
  /\ End(w, "clear") /\ overrides' = Without(overrides, {OverrideKey(w)})
  /\ Same /\ UNCHANGED <<institutions, formula, managers, types, average, nodeVars>>

-----------------------------------------------------------------------------
\* institution_edit_view: the row is read when the request starts.
EditInstitution(w) ==
  \E i \in institutions :
    /\ HasPerm("admin", "institution", "change")
    /\ Serve(w, "edit", [institution |-> i, formula |-> formula[i]])
    /\ UNCHANGED <<institutionVars, nodeVars>>

\* Fault: the columns that the form leaves out are saved empty.
SaveInstitutionBlank(w) ==
  /\ End(w, "edit") /\ formula' = Put(formula, task[w].institution, NoFormula)
  /\ Same /\ UNCHANGED <<institutions, managers, types, overrides, average, nodeVars>>

\* form.save() writes every column, those of other screens included.
SaveInstitution(w) ==
  /\ End(w, "edit") /\ formula' = Put(formula, task[w].institution, task[w].formula)
  /\ Same /\ UNCHANGED <<institutions, managers, types, overrides, average, nodeVars>>

\* Django Admin: no profile but a super administrator may delete a type.
DeleteType(w) ==
  /\ HasPerm("super", "evaluationtype", "delete")
  /\ Deployed /\ AtOnce(w)
  /\ \E i \in institutions : \E name \in types[i] : types' = [types EXCEPT ![i] = @ \ {name}]
  /\ UNCHANGED <<permissionVars, institutions, formula, managers, overrides, average, nodeVars>>

-----------------------------------------------------------------------------
(* Averages. The grades of the pupil and the row of the institution are read    *)
(* first, then the override of the subject, then that of the course.           *)

AverageRequest(w) ==
  \E i \in institutions, grade \in MaxGrades :
    /\ Serve(w, "subject", [institution |-> i, formula |-> formula[i],
                            grade |-> grade, names |-> types[i]])
    /\ UNCHANGED <<institutionVars, nodeVars>>

\* calcular_media_disciplina, registar_media_final: a grade is missing, or the
\* average is off the scale of FinalGrade, or it is recorded.
Record(w, weights) ==
  LET t == task[w]
      value == Average([name \in t.names |-> t.grade], weights)
  IN average' = IF DOMAIN weights \subseteq t.names /\ value <= 2000
                THEN Put(average, t.institution, [grade |-> t.grade, value |-> value])
                ELSE average

ResolveSubject(w) ==
  /\ pc[w] = "subject"
  /\ LET key == <<task[w].institution, "subject">>
     IN IF key \in DOMAIN overrides
        THEN End(w, "subject") /\ Record(w, overrides[key].weights)
        ELSE Step(w, "subject", "course") /\ UNCHANGED <<task, average>>
  /\ Same /\ UNCHANGED <<institutions, formula, managers, types, overrides, nodeVars>>

ResolveCourse(w) ==
  /\ pc[w] = "course" /\ End(w, "course")
  /\ LET key == <<task[w].institution, "course">>
     IN Record(w, IF key \in DOMAIN overrides THEN overrides[key].weights ELSE task[w].formula)
  /\ Same /\ UNCHANGED <<institutions, formula, managers, types, overrides, nodeVars>>

-----------------------------------------------------------------------------
Crash(w) == Dies(w) /\ UNCHANGED <<permissionVars, institutionVars, nodeVars>>

\* Migrations run while the application is stopped.
Deploy ==
  /\ \A w \in Workers : pc[w] = "idle"
  /\ PermissionsNext
  /\ UNCHANGED <<institutionVars, nodeVars, requestVars>>

Init ==
  /\ PermissionsInit
  /\ institutions = {} /\ formula = NoFormula /\ managers = NoFormula /\ types = NoFormula
  /\ overrides = NoFormula /\ average = NoFormula /\ nodes = {} /\ privateKey = None
  /\ RequestsInit

Wizard(w) == OpenWizard(w) \/ SetupInstitution(w) \/ WriteKey(w) \/ CreateNode(w)

Formula(w) ==
  \/ ConfigureFormula(w) \/ ConfigureOverride(w) \/ ClearRequest(w)
  \/ SeedType(w) \/ Seeded(w) \/ CheckForm(w) \/ CheckAgain(w) \/ SaveDefault(w)
  \/ FindOverride(w) \/ SaveOverride(w) \/ ClearOverride(w) \/ DeleteType(w)

Screen(w) ==
  \/ EditInstitution(w) \/ SaveInstitution(w)
  \/ AverageRequest(w) \/ ResolveSubject(w) \/ ResolveCourse(w)

Next == Deploy \/ \E w \in Workers : Wizard(w) \/ Formula(w) \/ Screen(w) \/ Crash(w)

Spec == Init /\ [][Next]_vars

-----------------------------------------------------------------------------
TypeOK ==
  /\ level \in 0 .. Len(Chain) /\ groups \in {{}, Profiles} /\ rollbacks \in 0 .. MaxRollbacks
  /\ institutions \subseteq Workers
  /\ DOMAIN formula = institutions /\ DOMAIN managers = institutions /\ DOMAIN types = institutions
  /\ \A i \in institutions : /\ IsFormula(formula[i]) /\ types[i] \subseteq TypeNames
                             /\ managers[i] \in Usernames
  /\ DOMAIN overrides \subseteq institutions \X Scopes
  /\ \A key \in DOMAIN overrides : IsFormula(overrides[key].weights)
  /\ DOMAIN average \subseteq institutions
  /\ privateKey \in Workers \cup {None}
  /\ pc \in [Workers -> {"idle", "setup", "key", "node", "ensure", "form", "check", "default",
                         "find", "override", "clear", "edit", "subject", "course"}]
  /\ requests \in 0 .. MaxRequests /\ crashes \in 0 .. MaxCrashes

\* setup_institution, "an institution can never end up orphaned" and "always
\* has a working formula from day one": whatever wizards race and wherever they
\* die, each institution has a manager of its own and, whatever is saved over
\* it later, a formula.
NeverOrphaned ==
  institutions = DOMAIN managers /\ \A i \in institutions :
    /\ formula[i] # NoFormula
    /\ \A j \in institutions \ {i} : managers[j] # managers[i]

\* RF-INST-06, "weights summing to 1 (100%)": a pupil with the same grade
\* everywhere gets it as the average, to a hundredth of it, and never more than
\* 20, whichever formulas the screens of admin_panel save, clear or overwrite
\* while it is computed (the Django Admin form of an override checks no weights).
AverageWithinTolerance ==
  \A i \in DOMAIN average :
    LET grade == average[i].grade
    IN /\ 99 * grade - 50 <= 100 * average[i].value
       /\ 100 * average[i].value <= 101 * grade + 50
       /\ average[i].value <= 2000

\* The permissions of a database are those its migrations grant, except that
\* taking SecretariaAttendanceChange back also takes the permission to see the
\* attendances, which Attendance had granted; deploying again restores it.
RollbackLosesOnlyOverlap ==
  LET due == UNION {Chain[n] : n \in 1 .. level}
  IN /\ granted \subseteq due
     /\ due \ granted \subseteq {<<"secretaria", "attendance", "view">>}
     /\ Deployed => granted = due
=============================================================================

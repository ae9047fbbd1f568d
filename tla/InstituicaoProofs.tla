-------------------------- MODULE InstituicaoProofs --------------------------
(***************************************************************************)
(* Theorems about Instituicao, for any numbers of workers, usernames,      *)
(* formulas, grades, requests and crashes: an institution is never without *)
(* its manager or without a formula, averages stay within the tolerance of *)
(* the weights, and migrations lose no permission but one. A section       *)
(* extends the invariant to the requests that run alone, and the last ones *)
(* are about Horario, which keeps the calendar, the curriculum and the     *)
(* schedule of an institution, the last one about the date of Easter.      *)
(***************************************************************************)
EXTENDS MCInstituicao, MCHorario, FiniteSetTheorems, TLAPS

AllSteps == {"idle", "setup", "key", "node", "ensure", "form", "check", "default", "find",
             "override", "clear", "edit", "subject", "course"}

\* The steps of a request that saves or clears a formula.
FormulaSteps == {"ensure", "form", "check", "default", "find", "override", "clear"}

\* What the first n migrations grant, and the permission two of them grant.
Due(n) == UNION {Chain[m] : m \in 1 .. n}
SeenTwice == <<"secretaria", "attendance", "view">>

\* Going back to the migration before the last may lose the one permission, until
\* that migration is taken back too.
GrantsOK ==
  /\ granted \subseteq Due(level)
  /\ Due(level) \ granted \subseteq {SeenTwice}
  /\ level # 13 => granted = Due(level)

PermissionsOK ==
  /\ level \in 0 .. Len(Chain) /\ groups \in {{}, Profiles} /\ rollbacks \in 0 .. MaxRollbacks
  /\ GrantsOK

\* A formula that has been validated.
Sound(weights) ==
  IsFormula(weights) /\ weights # NoFormula /\ Total(weights) - 1000 \in -10 .. 10

InstitutionsOK ==
  /\ institutions \subseteq Workers
  /\ DOMAIN formula = institutions /\ DOMAIN managers = institutions /\ DOMAIN types = institutions
  /\ \A i \in institutions : /\ Sound(formula[i])
                             /\ types[i] \subseteq TypeNames
                             /\ managers[i] \in Usernames
                             /\ \A j \in institutions \ {i} : managers[j] # managers[i]

OverridesOK ==
  /\ DOMAIN overrides \subseteq institutions \X Scopes
  /\ \A key \in DOMAIN overrides : Sound(overrides[key].weights)

AveragesOK == DOMAIN average \subseteq institutions /\ AverageWithinTolerance

TablesOK ==
  InstitutionsOK /\ OverridesOK /\ AveragesOK /\ privateKey \in Workers \cup {None}

LocalOK ==
  /\ pc \in [Workers -> AllSteps] /\ DOMAIN task = Workers
  /\ requests \in 0 .. MaxRequests /\ crashes \in 0 .. MaxCrashes

\* A request about an institution has one, and a formula is checked before it is
\* saved; the row of an institution that is written back whole, or whose formula
\* is used, has a sound one.
TaskOK(w) ==
  /\ pc[w] = "setup" => task[w].username \in Usernames
  /\ pc[w] \in {"key", "node"} => w \in institutions
  /\ pc[w] \in FormulaSteps \cup {"edit", "subject", "course"} =>
       task[w].institution \in institutions
  /\ pc[w] \in FormulaSteps =>
       /\ "weights" \in DOMAIN task[w] /\ IsFormula(task[w].weights)
       /\ task[w].scope \in Scopes \cup {"institution"}
  /\ pc[w] = "ensure" => task[w].missing \subseteq TypeNames /\ task[w].next \in {"form", "clear"}
  /\ pc[w] \in {"find", "override"} => task[w].scope \in Scopes
  /\ pc[w] \in {"default", "find", "override"} => Sound(task[w].weights)
  /\ pc[w] \in {"edit", "subject", "course"} => Sound(task[w].formula)
  /\ pc[w] \in {"subject", "course"} => task[w].grade \in MaxGrades

\* The inductive invariant.
IInv == PermissionsOK /\ TablesOK /\ LocalOK /\ \A w \in Workers : TaskOK(w)

\* A step of a worker leaves what another has in memory.
OthersUntouched(w) == \A v \in Workers \ {w} : pc'[v] = pc[v] /\ task'[v] = task[v]

-----------------------------------------------------------------------------
(* Frames *)

LEMMA StepKeeps ==
  ASSUME IInv, NEW w \in Workers, OthersUntouched(w), institutions \subseteq institutions',
         PermissionsOK', TablesOK', LocalOK', TaskOK(w)'
  PROVE  IInv'
<1>1. ASSUME NEW v \in Workers \ {w} PROVE TaskOK(v)'
  BY DEF IInv, TaskOK, OthersUntouched
<1>. QED BY <1>1 DEF IInv

LEMMA PermissionsStay ==
  ASSUME IInv, UNCHANGED permissionVars PROVE PermissionsOK'
BY DEF IInv, PermissionsOK, GrantsOK, permissionVars

LEMMA TablesStay ==
  ASSUME IInv, UNCHANGED <<institutionVars, nodeVars>>
  PROVE  TablesOK' /\ institutions \subseteq institutions'
BY DEF IInv, TablesOK, InstitutionsOK, OverridesOK, AveragesOK, AverageWithinTolerance,
       institutionVars, nodeVars

\* A request begins with a task of the shape its first step needs.
LEMMA BeginKeeps ==
  ASSUME IInv, NEW w \in Workers, NEW step \in AllSteps, NEW t, Serve(w, step, t),
         UNCHANGED <<institutionVars, nodeVars>>,
         pc'[w] = step /\ task'[w] = t => TaskOK(w)'
  PROVE  IInv'
<1>1. TablesOK' /\ institutions \subseteq institutions' /\ PermissionsOK'
  BY TablesStay, PermissionsStay DEF Serve, Begin, Counted, Keep
<1>2. pc' = [pc EXCEPT ![w] = step] /\ task' = [task EXCEPT ![w] = t]
  BY DEF Serve, Begin, Counted, Keep, Step
<1>3. LocalOK' /\ OthersUntouched(w) /\ pc'[w] = step /\ task'[w] = t
  <2>1. requests' \in 0 .. MaxRequests /\ crashes' = crashes
    BY PedidosAssumption DEF IInv, LocalOK, Serve, Begin, Counted, Keep
  <2>. QED BY <1>2, <2>1 DEF IInv, LocalOK, OthersUntouched
<1>. QED BY <1>1, <1>3, StepKeeps

\* A step of a request that goes on, with a task of the shape its next step needs.
LEMMA StepGoesOn ==
  ASSUME IInv, NEW w \in Workers, NEW step \in AllSteps, NEW t,
         pc' = [pc EXCEPT ![w] = step], task' = [task EXCEPT ![w] = t], Same,
         TablesOK', institutions \subseteq institutions',
         pc'[w] = step /\ task'[w] = t => TaskOK(w)'
  PROVE  IInv'
<1>1. PermissionsOK'
  BY PermissionsStay DEF Same
<1>2. LocalOK' /\ OthersUntouched(w) /\ pc'[w] = step /\ task'[w] = t
  BY DEF IInv, LocalOK, OthersUntouched, Same
<1>. QED BY <1>1, <1>2, StepKeeps

\* The same, with the task as it was.
LEMMA StepMovesOn ==
  ASSUME IInv, NEW w \in Workers, NEW step \in AllSteps,
         pc' = [pc EXCEPT ![w] = step], UNCHANGED task, Same,
         TablesOK', institutions \subseteq institutions',
         pc'[w] = step /\ task'[w] = task[w] => TaskOK(w)'
  PROVE  IInv'
<1>1. PermissionsOK'
  BY PermissionsStay DEF Same
<1>2. LocalOK' /\ OthersUntouched(w) /\ pc'[w] = step /\ task'[w] = task[w]
  BY DEF IInv, LocalOK, OthersUntouched, Same
<1>. QED BY <1>1, <1>2, StepKeeps

LEMMA EndKeeps ==
  ASSUME IInv, NEW w \in Workers, NEW from, End(w, from), Same,
         TablesOK', institutions \subseteq institutions'
  PROVE  IInv'
<1>1. pc' = [pc EXCEPT ![w] = "idle"] /\ task' = [task EXCEPT ![w] = None]
  BY DEF End, Keep, Step
<1>2. ASSUME pc'[w] = "idle" PROVE TaskOK(w)'
  BY <1>2 DEF TaskOK, FormulaSteps
<1>. QED BY <1>1, <1>2, StepGoesOn DEF AllSteps

\* A formula is stored for an institution; nothing else of the tables changes.
LEMMA FormulaStored ==
  ASSUME IInv, NEW i \in institutions, NEW weights, Sound(weights),
         formula' = Put(formula, i, weights),
         UNCHANGED <<institutions, managers, types, overrides, average, nodeVars>>
  PROVE  TablesOK' /\ institutions \subseteq institutions'
<1>1. /\ DOMAIN formula' = institutions
      /\ \A j \in institutions : formula'[j] = IF j = i THEN weights ELSE formula[j]
  BY DEF Put, IInv, TablesOK, InstitutionsOK
<1>2. InstitutionsOK'
  BY <1>1 DEF IInv, TablesOK, InstitutionsOK
<1>. QED BY <1>2 DEF IInv, TablesOK, OverridesOK, AveragesOK, AverageWithinTolerance, nodeVars

-----------------------------------------------------------------------------
(* The setup wizard *)

LEMMA OpenWizardKeeps ==
  ASSUME IInv, NEW w \in Workers, OpenWizard(w) PROVE IInv'
<1>1. PICK username \in Usernames :
        Serve(w, "setup", [username |-> username]) /\ UNCHANGED <<institutionVars, nodeVars>>
  BY DEF OpenWizard
<1>2. ASSUME pc'[w] = "setup", task'[w] = [username |-> username] PROVE TaskOK(w)'
  BY <1>2 DEF TaskOK, FormulaSteps
<1>. QED BY <1>1, <1>2, BeginKeeps DEF AllSteps

\* The institution, its manager and its formula are committed together.
LEMMA SetupInstitutionKeeps ==
  ASSUME IInv, NEW w \in Workers, SetupInstitution(w) PROVE IInv'
<1>1. CASE \E i \in institutions : managers[i] = task[w].username
  <2>1. End(w, "setup") /\ Same /\ UNCHANGED <<institutionVars, nodeVars>>
    BY <1>1 DEF SetupInstitution, institutionVars
  <2>. QED BY <2>1, TablesStay, EndKeeps
<1>2. CASE ~ \E i \in institutions : managers[i] = task[w].username
  <2>1. /\ Step(w, "setup", "key") /\ UNCHANGED task /\ Same
        /\ institutions' = institutions \cup {w}
        /\ managers' = Put(managers, w, task[w].username)
        /\ types' = Put(types, w, TypeNames)
        /\ formula' = Put(formula, w, DefaultTypes)
        /\ UNCHANGED <<overrides, average, nodeVars>>
    BY <1>2 DEF SetupInstitution
  <2>2. task[w].username \in Usernames
    BY DEF IInv, TaskOK, SetupInstitution
  <2>3. Sound(DefaultTypes)
    <3>1. DOMAIN DefaultTypes = {"MAC", "ProvaTrimestral", "Exame"}
      BY DEF DefaultTypes
    <3>2. \A name \in DOMAIN DefaultTypes : DefaultTypes[name] \in Thousandths
      BY <3>1 DEF DefaultTypes, Thousandths
    <3>3. DOMAIN NoFormula = {}
      BY DEF NoFormula
    <3>4. DefaultTypes # NoFormula
      BY <3>1, <3>3
    <3>5. Total(DefaultTypes) = 1000
      BY <3>1 DEF DefaultTypes, Total
    <3>. QED BY <3>2, <3>4, <3>5 DEF Sound, IsFormula, TypeNames
  <2>4. \A i \in institutions' :
          /\ managers'[i] = IF i = w THEN task[w].username ELSE managers[i]
          /\ types'[i] = IF i = w THEN TypeNames ELSE types[i]
          /\ formula'[i] = IF i = w THEN DefaultTypes ELSE formula[i]
    BY <2>1 DEF Put, IInv, TablesOK, InstitutionsOK
  <2>5. /\ DOMAIN managers' = institutions' /\ DOMAIN types' = institutions'
        /\ DOMAIN formula' = institutions'
    BY <2>1 DEF Put, IInv, TablesOK, InstitutionsOK
  <2>6. \A i \in institutions' : \A j \in institutions' \ {i} : managers'[j] # managers'[i]
    BY <1>2, <2>1, <2>4 DEF IInv, TablesOK, InstitutionsOK
  <2>7. InstitutionsOK'
    BY <2>1, <2>2, <2>3, <2>4, <2>5, <2>6 DEF IInv, TablesOK, InstitutionsOK
  <2>8. TablesOK' /\ institutions \subseteq institutions'
    BY <2>1, <2>7 DEF IInv, TablesOK, OverridesOK, AveragesOK, AverageWithinTolerance, nodeVars
  <2>9. ASSUME pc'[w] = "key" PROVE TaskOK(w)'
    BY <2>1, <2>9 DEF TaskOK, FormulaSteps
  <2>. QED BY <2>1, <2>8, <2>9, StepMovesOn DEF Step, AllSteps
<1>. QED BY <1>1, <1>2

LEMMA WriteKeyKeeps ==
  ASSUME IInv, NEW w \in Workers, WriteKey(w) PROVE IInv'
<1>1. TablesOK' /\ institutions \subseteq institutions'
  BY DEF WriteKey, IInv, TablesOK, InstitutionsOK, OverridesOK, AveragesOK,
         AverageWithinTolerance, institutionVars
<1>2. ASSUME pc'[w] = "node" PROVE TaskOK(w)'
  BY <1>2 DEF TaskOK, FormulaSteps, WriteKey, Step, IInv, institutionVars
<1>. QED BY <1>1, <1>2, StepMovesOn DEF WriteKey, Step, AllSteps

LEMMA CreateNodeKeeps ==
  ASSUME IInv, NEW w \in Workers, CreateNode(w) PROVE IInv'
<1>1. TablesOK' /\ institutions \subseteq institutions'
  BY DEF CreateNode, IInv, TablesOK, InstitutionsOK, OverridesOK, AveragesOK,
         AverageWithinTolerance, institutionVars
<1>. QED BY <1>1, EndKeeps DEF CreateNode

-----------------------------------------------------------------------------
(* Formulas *)

LEMMA FormulaRequestKeeps ==
  ASSUME IInv, NEW w \in Workers, NEW i \in institutions, NEW kind \in Scopes \cup {"institution"},
         NEW weights, IsFormula(weights), NEW action \in {"form", "clear"},
         FormulaRequest(w, i, kind, weights, action)
  PROVE  IInv'
<1>. DEFINE t == [institution |-> i, scope |-> kind, weights |-> weights,
                  missing |-> TypeNames \ types[i], next |-> action, row |-> None]
<1>1. /\ t.institution = i /\ t.scope = kind /\ t.weights = weights /\ "weights" \in DOMAIN t
      /\ t.missing \subseteq TypeNames /\ t.next = action
  OBVIOUS
<1>2. Serve(w, "ensure", t) /\ UNCHANGED <<institutionVars, nodeVars>>
  BY DEF FormulaRequest
<1>. HIDE DEF t
<1>3. institutions' = institutions
  BY <1>2 DEF institutionVars
<1>4. ASSUME pc'[w] = "ensure", task'[w] = t PROVE TaskOK(w)'
  BY <1>1, <1>3, <1>4 DEF TaskOK, FormulaSteps
<1>. QED BY <1>2, <1>4, BeginKeeps DEF AllSteps

LEMMA FormulaRequestsKeep ==
  ASSUME IInv, NEW w \in Workers,
         ConfigureFormula(w) \/ ConfigureOverride(w) \/ ClearRequest(w)
  PROVE  IInv'
<1>1. \A weights \in Offered : IsFormula(weights)
  BY InstituicaoAssumption
<1>2. IsFormula(NoFormula)
  BY DEF IsFormula, NoFormula
<1>. QED BY <1>1, <1>2, FormulaRequestKeeps DEF ConfigureFormula, ConfigureOverride, ClearRequest

LEMMA SeedTypeKeeps ==
  ASSUME IInv, NEW w \in Workers, SeedType(w) PROVE IInv'
<1>. DEFINE i == task[w].institution
<1>1. /\ pc[w] = "ensure" /\ TaskOK(w) /\ Same
      /\ UNCHANGED <<institutions, formula, managers, overrides, average, nodeVars>>
  BY DEF SeedType, IInv
<1>2. PICK name \in task[w].missing :
        IF name \in types[i]
        THEN End(w, "ensure") /\ UNCHANGED types
        ELSE /\ types' = [types EXCEPT ![i] = @ \cup {name}]
             /\ Keep(w, [task[w] EXCEPT !.missing = @ \ {name}]) /\ UNCHANGED pc
  BY DEF SeedType
<1>3. name \in TypeNames /\ i \in institutions
  BY <1>1 DEF TaskOK, FormulaSteps
<1>4. CASE name \in types[i]
  <2>1. UNCHANGED <<institutionVars, nodeVars>>
    BY <1>1, <1>2, <1>4 DEF institutionVars
  <2>. QED BY <1>1, <1>2, <1>4, <2>1, TablesStay, EndKeeps
<1>5. CASE name \notin types[i]
  <2>. DEFINE t == [task[w] EXCEPT !.missing = @ \ {name}]
  <2>1. types' = [types EXCEPT ![i] = @ \cup {name}] /\ task' = [task EXCEPT ![w] = t]
        /\ pc' = pc
    BY <1>2, <1>5 DEF Keep
  <2>. HIDE DEF i
  <2>2. /\ t.institution = task[w].institution /\ t.scope = task[w].scope
        /\ t.weights = task[w].weights /\ "weights" \in DOMAIN t /\ t.next = task[w].next
        /\ t.missing \subseteq TypeNames
    BY <1>1 DEF TaskOK, FormulaSteps
  <2>. HIDE DEF t
  <2>3. InstitutionsOK'
    BY <1>1, <1>3, <2>1 DEF IInv, TablesOK, InstitutionsOK
  <2>4. TablesOK' /\ institutions \subseteq institutions'
    BY <1>1, <2>3 DEF IInv, TablesOK, OverridesOK, AveragesOK, AverageWithinTolerance, nodeVars
  <2>5. ASSUME pc'[w] = "ensure", task'[w] = t PROVE TaskOK(w)'
    BY <1>1, <2>2, <2>5 DEF TaskOK, FormulaSteps
  <2>6. pc' = [pc EXCEPT ![w] = "ensure"]
    BY <1>1, <2>1 DEF IInv, LocalOK
  <2>. QED BY <1>1, <2>1, <2>4, <2>5, <2>6, StepGoesOn DEF AllSteps
<1>. QED BY <1>4, <1>5

LEMMA SeededKeeps ==
  ASSUME IInv, NEW w \in Workers, Seeded(w) PROVE IInv'
<1>. DEFINE step == task[w].next
<1>1. /\ pc[w] = "ensure" /\ pc' = [pc EXCEPT ![w] = step] /\ UNCHANGED task /\ Same
      /\ UNCHANGED <<institutionVars, nodeVars>>
  BY DEF Seeded, Step
<1>2. TaskOK(w) /\ step \in {"form", "clear"}
  BY <1>1 DEF IInv, TaskOK
<1>. HIDE DEF step
<1>3. TablesOK' /\ institutions \subseteq institutions'
  BY <1>1, TablesStay
<1>4. ASSUME pc'[w] = step, task'[w] = task[w] PROVE TaskOK(w)'
  BY <1>1, <1>2, <1>3, <1>4 DEF TaskOK, FormulaSteps
<1>. QED BY <1>1, <1>2, <1>3, <1>4, StepMovesOn DEF AllSteps

LEMMA CheckFormKeeps ==
  ASSUME IInv, NEW w \in Workers, CheckForm(w) PROVE IInv'
<1>. DEFINE names == types[task[w].institution]
            weights == [name \in DOMAIN task[w].weights \cap names |-> task[w].weights[name]]
            t == [task[w] EXCEPT !.weights = weights]
<1>1. pc[w] = "form" /\ TaskOK(w) /\ Same /\ UNCHANGED <<institutionVars, nodeVars>>
  BY DEF CheckForm, IInv
<1>2. TablesOK' /\ institutions \subseteq institutions'
  BY <1>1, TablesStay
<1>3. CASE Valid(weights, names)
  <2>1. pc' = [pc EXCEPT ![w] = "check"] /\ task' = [task EXCEPT ![w] = t]
    BY <1>3 DEF CheckForm, Step, Keep
  <2>2. IsFormula(weights)
    BY <1>1 DEF TaskOK, FormulaSteps, IsFormula
  <2>3. /\ t.institution = task[w].institution /\ t.scope = task[w].scope
        /\ t.weights = weights /\ "weights" \in DOMAIN t
    BY <1>1 DEF TaskOK, FormulaSteps
  <2>. HIDE DEF t, weights, names
  <2>4. ASSUME pc'[w] = "check", task'[w] = t PROVE TaskOK(w)'
    BY <1>1, <1>2, <2>2, <2>3, <2>4 DEF TaskOK, FormulaSteps
  <2>. QED BY <1>1, <1>2, <2>1, <2>4, StepGoesOn DEF AllSteps
<1>4. CASE ~ Valid(weights, names)
  BY <1>1, <1>2, <1>4, EndKeeps DEF CheckForm
<1>. QED BY <1>3, <1>4

LEMMA CheckAgainKeeps ==
  ASSUME IInv, NEW w \in Workers, CheckAgain(w) PROVE IInv'
<1>. DEFINE step == IF task[w].scope = "institution" THEN "default" ELSE "find"
<1>1. pc[w] = "check" /\ TaskOK(w) /\ Same /\ UNCHANGED <<institutionVars, nodeVars>>
  BY DEF CheckAgain, IInv
<1>2. TablesOK' /\ institutions \subseteq institutions'
  BY <1>1, TablesStay
<1>3. CASE Valid(task[w].weights, types[task[w].institution])
  <2>1. pc' = [pc EXCEPT ![w] = step] /\ UNCHANGED task /\ Sound(task[w].weights)
    BY <1>1, <1>3 DEF CheckAgain, Step, Valid, Sound, TaskOK, FormulaSteps
  <2>2. ASSUME pc'[w] = step, task'[w] = task[w] PROVE TaskOK(w)'
    BY <1>1, <1>2, <2>1, <2>2 DEF TaskOK, FormulaSteps
  <2>3. step \in AllSteps
    BY DEF AllSteps
  <2>. HIDE DEF step
  <2>. QED BY <1>1, <1>2, <2>1, <2>2, <2>3, StepMovesOn
<1>4. CASE ~ Valid(task[w].weights, types[task[w].institution])
  BY <1>1, <1>2, <1>4, EndKeeps DEF CheckAgain
<1>. QED BY <1>3, <1>4

LEMMA SaveDefaultKeeps ==
  ASSUME IInv, NEW w \in Workers, SaveDefault(w) PROVE IInv'
<1>1. pc[w] = "default" /\ TaskOK(w)
  BY DEF SaveDefault, End, Keep, Step, IInv
<1>2. TablesOK' /\ institutions \subseteq institutions'
  BY <1>1, FormulaStored DEF SaveDefault, TaskOK, FormulaSteps
<1>. QED BY <1>2, EndKeeps DEF SaveDefault

LEMMA FindOverrideKeeps ==
  ASSUME IInv, NEW w \in Workers, FindOverride(w) PROVE IInv'
<1>. DEFINE row == IF OverrideKey(w) \in DOMAIN overrides
                   THEN overrides[OverrideKey(w)].row ELSE None
            t == [task[w] EXCEPT !.row = row]
<1>1. /\ pc[w] = "find" /\ TaskOK(w) /\ Same /\ UNCHANGED <<institutionVars, nodeVars>>
      /\ pc' = [pc EXCEPT ![w] = "override"] /\ task' = [task EXCEPT ![w] = t]
  BY DEF FindOverride, IInv, Step, Keep
<1>2. TablesOK' /\ institutions \subseteq institutions'
  BY <1>1, TablesStay
<1>3. /\ t.institution = task[w].institution /\ t.scope = task[w].scope
      /\ t.weights = task[w].weights /\ "weights" \in DOMAIN t
  BY <1>1 DEF TaskOK, FormulaSteps
<1>. HIDE DEF row, t
<1>4. ASSUME pc'[w] = "override", task'[w] = t PROVE TaskOK(w)'
  BY <1>1, <1>2, <1>3, <1>4 DEF TaskOK, FormulaSteps
<1>. QED BY <1>1, <1>2, <1>4, StepGoesOn DEF AllSteps

LEMMA SaveOverrideKeeps ==
  ASSUME IInv, NEW w \in Workers, SaveOverride(w) PROVE IInv'
<1>. DEFINE key == OverrideKey(w)
            row == IF task[w].row = None THEN <<w, requests>> ELSE task[w].row
            new == [row |-> row, weights |-> task[w].weights]
<1>1. pc[w] = "override" /\ TaskOK(w) /\ Same
      /\ UNCHANGED <<institutions, formula, managers, types, average, nodeVars>>
  BY DEF SaveOverride, End, Keep, Step, IInv
<1>2. key \in institutions \X Scopes /\ Sound(new.weights)
  BY <1>1 DEF OverrideKey, TaskOK, FormulaSteps
<1>3. overrides' \in {overrides, Put(overrides, key, new)}
  BY DEF SaveOverride
<1>. HIDE DEF key, new
<1>4. OverridesOK'
  <2>1. CASE overrides' = overrides
    BY <1>1, <2>1 DEF IInv, TablesOK, OverridesOK
  <2>2. CASE overrides' = Put(overrides, key, new)
    <3>1. /\ DOMAIN overrides' = DOMAIN overrides \cup {key}
          /\ \A k \in DOMAIN overrides' : overrides'[k] = IF k = key THEN new ELSE overrides[k]
      BY <2>2 DEF Put
    <3>. QED BY <1>1, <1>2, <3>1 DEF IInv, TablesOK, OverridesOK
  <2>. QED BY <1>3, <2>1, <2>2
<1>5. TablesOK' /\ institutions \subseteq institutions'
  BY <1>1, <1>4 DEF IInv, TablesOK, InstitutionsOK, AveragesOK, AverageWithinTolerance,
                          nodeVars
<1>. QED BY <1>1, <1>5, EndKeeps DEF SaveOverride

LEMMA ClearOverrideKeeps ==
  ASSUME IInv, NEW w \in Workers, ClearOverride(w) PROVE IInv'
<1>1. Same /\ UNCHANGED <<institutions, formula, managers, types, average, nodeVars>>
      /\ overrides' = Without(overrides, {OverrideKey(w)})
  BY DEF ClearOverride
<1>2. OverridesOK'
  BY <1>1 DEF Without, IInv, TablesOK, OverridesOK
<1>3. TablesOK' /\ institutions \subseteq institutions'
  BY <1>1, <1>2 DEF IInv, TablesOK, InstitutionsOK, AveragesOK, AverageWithinTolerance,
                          nodeVars
<1>. QED BY <1>1, <1>3, EndKeeps DEF ClearOverride

LEMMA DeleteTypeKeeps ==
  ASSUME IInv, NEW w \in Workers, DeleteType(w) PROVE IInv'
<1>1. PICK i \in institutions : \E name \in types[i] : types' = [types EXCEPT ![i] = @ \ {name}]
  BY DEF DeleteType
<1>2. /\ requests' = requests + 1 /\ requests < MaxRequests
      /\ UNCHANGED <<permissionVars, institutions, formula, managers, overrides, average, nodeVars,
                     pc, task, crashes>>
  BY DEF DeleteType, AtOnce, Counted
<1>3. InstitutionsOK'
  BY <1>1, <1>2 DEF IInv, TablesOK, InstitutionsOK
<1>4. TablesOK'
  BY <1>2, <1>3 DEF IInv, TablesOK, OverridesOK, AveragesOK, AverageWithinTolerance, nodeVars
<1>5. LocalOK' /\ PermissionsOK'
  BY <1>2, PermissionsStay, PedidosAssumption DEF IInv, LocalOK
<1>6. \A v \in Workers : TaskOK(v)'
  BY <1>2 DEF IInv, TaskOK
<1>. QED BY <1>4, <1>5, <1>6 DEF IInv

-----------------------------------------------------------------------------
(* The other screens *)

LEMMA EditInstitutionKeeps ==
  ASSUME IInv, NEW w \in Workers, EditInstitution(w) PROVE IInv'
<1>1. PICK i \in institutions :
        /\ Serve(w, "edit", [institution |-> i, formula |-> formula[i]])
        /\ UNCHANGED <<institutionVars, nodeVars>>
  BY DEF EditInstitution
<1>2. Sound(formula[i]) /\ institutions' = institutions
  BY <1>1 DEF IInv, TablesOK, InstitutionsOK, institutionVars
<1>3. ASSUME pc'[w] = "edit", task'[w] = [institution |-> i, formula |-> formula[i]]
      PROVE  TaskOK(w)'
  BY <1>2, <1>3 DEF TaskOK, FormulaSteps
<1>. QED BY <1>1, <1>3, BeginKeeps DEF AllSteps

\* A column that the form leaves out is written as it was read.
LEMMA SaveInstitutionKeeps ==
  ASSUME IInv, NEW w \in Workers, SaveInstitution(w) PROVE IInv'
<1>1. pc[w] = "edit" /\ TaskOK(w)
  BY DEF SaveInstitution, End, Keep, Step, IInv
<1>2. TablesOK' /\ institutions \subseteq institutions'
  BY <1>1, FormulaStored DEF SaveInstitution, TaskOK
<1>. QED BY <1>2, EndKeeps DEF SaveInstitution

LEMMA AverageRequestKeeps ==
  ASSUME IInv, NEW w \in Workers, AverageRequest(w) PROVE IInv'
<1>1. PICK i \in institutions, grade \in MaxGrades :
        /\ Serve(w, "subject", [institution |-> i, formula |-> formula[i],
                                grade |-> grade, names |-> types[i]])
        /\ UNCHANGED <<institutionVars, nodeVars>>
  BY DEF AverageRequest
<1>2. institutions' = institutions /\ Sound(formula[i])
  BY <1>1 DEF IInv, TablesOK, InstitutionsOK, institutionVars
<1>3. ASSUME pc'[w] = "subject", task'[w] = [institution |-> i, formula |-> formula[i],
                                             grade |-> grade, names |-> types[i]]
      PROVE  TaskOK(w)'
  BY <1>2, <1>3 DEF TaskOK, FormulaSteps
<1>. QED BY <1>1, <1>3, BeginKeeps DEF AllSteps

Graded(grade) == grade \in 0 .. 2000

Near(value, grade) == 99 * grade - 50 <= 100 * value /\ 100 * value <= 101 * grade + 50

\* A pupil with the same grade everywhere: the average is the grade times the sum
\* of the weights, which is 1 to a hundredth, rounded to the nearest hundredth.
LEMMA AverageOfEqualGrades ==
  ASSUME NEW weights, Sound(weights), NEW grade, Graded(grade),
         NEW marks, \A name \in DOMAIN weights : marks[name] = grade,
         NEW value, value = Average(marks, weights)
  PROVE  Near(value, grade)
<1>. USE DEF Graded
<1>. DEFINE Of(name) == IF name \in DOMAIN weights THEN weights[name] ELSE 0
            a == Of("MAC") b == Of("ProvaTrimestral") c == Of("Exame")
            total == a + b + c
<1>1. a \in Nat /\ b \in Nat /\ c \in Nat
  <2>1. \A name \in DOMAIN weights : weights[name] \in Nat
    BY DEF Sound, IsFormula, Thousandths
  <2>2. \A name : Of(name) \in Nat
    BY <2>1
  <2>. HIDE DEF Of
  <2>. QED BY <2>2
<1>2. Total(weights) = total
  BY DEF Total
<1>3. value = (grade * a + grade * b + grade * c + 500) \div 1000
  <2>. DEFINE Times(name) == IF name \in DOMAIN weights
                             THEN marks[name] * weights[name] ELSE 0
  <2>1. value = (Times("MAC") + Times("ProvaTrimestral") + Times("Exame") + 500) \div 1000
    BY DEF Average, Total
  <2>2. ASSUME NEW name \in {"MAC", "ProvaTrimestral", "Exame"}
        PROVE  Times(name) = grade * Of(name)
    <3>1. CASE name \in DOMAIN weights
      BY <3>1
    <3>2. CASE name \notin DOMAIN weights
      BY <3>2
    <3>. QED BY <3>1, <3>2
  <2>. HIDE DEF Times, Of
  <2>. QED BY <2>1, <2>2
<1>. HIDE DEF a, b, c
<1>4. total \in 990 .. 1010
  BY <1>1, <1>2 DEF Sound
<1>5. grade * a + grade * b + grade * c = grade * total
  BY <1>1
<1>. HIDE DEF total
<1>6. 990 * grade <= grade * total /\ grade * total <= 1010 * grade /\ grade * total \in Nat
  BY <1>4
<1>. DEFINE sum == grade * total
<1>7. sum \in Nat /\ 990 * grade <= sum /\ sum <= 1010 * grade /\ value = (sum + 500) \div 1000
  BY <1>3, <1>5, <1>6
<1>. HIDE DEF sum
<1>8. 1000 * value <= sum + 500 /\ sum + 500 < 1000 * value + 1000 /\ value \in Nat
  BY <1>7
<1>. QED BY <1>7, <1>8 DEF Near

LEMMA RecordKeeps ==
  ASSUME IInv, NEW w \in Workers, NEW weights, Sound(weights), Record(w, weights),
         task[w].institution \in institutions, task[w].grade \in MaxGrades,
         UNCHANGED <<institutions, formula, managers, types, overrides, nodeVars>>
  PROVE  TablesOK' /\ institutions \subseteq institutions'
<1>. DEFINE i == task[w].institution
            grade == task[w].grade
            names == task[w].names
            marks == [name \in names |-> grade]
            value == Average(marks, weights)
            row == [grade |-> grade, value |-> value]
<1>1. average' = IF DOMAIN weights \subseteq names /\ value <= 2000
                 THEN Put(average, i, row) ELSE average
  BY DEF Record
<1>2. DOMAIN weights \subseteq names => Near(value, grade)
  <2>1. \A g \in MaxGrades : Graded(g)
    BY InstituicaoAssumption DEF Graded
  <2>2. Graded(grade)
    BY <2>1
  <2>. HIDE DEF grade, names
  <2>3. marks = [name \in names |-> grade] /\ value = Average(marks, weights)
    OBVIOUS
  <2>. HIDE DEF value, marks
  <2>. SUFFICES ASSUME DOMAIN weights \subseteq names
                PROVE  Near(value, grade)
    OBVIOUS
  <2>4. \A name \in DOMAIN weights : marks[name] = grade
    BY <2>3
  <2>. QED BY <2>2, <2>3, <2>4, AverageOfEqualGrades
<1>3. row.grade = grade /\ row.value = value
  OBVIOUS
<1>. HIDE DEF i, grade, names, value, row
<1>4. AveragesOK'
  <2>1. CASE DOMAIN weights \subseteq names /\ value <= 2000
    <3>1. /\ DOMAIN average' = DOMAIN average \cup {i}
          /\ \A j \in DOMAIN average' : average'[j] = IF j = i THEN row ELSE average[j]
      BY <1>1, <2>1 DEF Put
    <3>2. i \in institutions /\ institutions' = institutions
      BY DEF i
    <3>. QED
      BY <1>2, <1>3, <2>1, <3>1, <3>2 DEF IInv, TablesOK, AveragesOK, AverageWithinTolerance, Near
  <2>2. CASE ~ (DOMAIN weights \subseteq names /\ value <= 2000)
    BY <1>1, <2>2 DEF IInv, TablesOK, AveragesOK, AverageWithinTolerance
  <2>. QED BY <2>1, <2>2
<1>. QED BY <1>4 DEF IInv, TablesOK, InstitutionsOK, OverridesOK, nodeVars

LEMMA ResolveSubjectKeeps ==
  ASSUME IInv, NEW w \in Workers, ResolveSubject(w) PROVE IInv'
<1>. DEFINE key == <<task[w].institution, "subject">>
<1>1. /\ task[w].institution \in institutions /\ task[w].grade \in MaxGrades
      /\ Sound(task[w].formula) /\ Same
      /\ UNCHANGED <<institutions, formula, managers, types, overrides, nodeVars>>
  BY DEF ResolveSubject, IInv, TaskOK
<1>2. CASE key \in DOMAIN overrides
  <2>1. End(w, "subject") /\ Record(w, overrides[key].weights)
    BY <1>2 DEF ResolveSubject
  <2>2. Sound(overrides[key].weights)
    BY <1>2 DEF IInv, TablesOK, OverridesOK
  <2>. QED BY <1>1, <2>1, <2>2, RecordKeeps, EndKeeps
<1>3. CASE key \notin DOMAIN overrides
  <2>1. pc' = [pc EXCEPT ![w] = "course"] /\ UNCHANGED <<task, average>>
    BY <1>3 DEF ResolveSubject, Step
  <2>2. TablesOK' /\ institutions \subseteq institutions'
    BY <1>1, <2>1, TablesStay DEF institutionVars
  <2>3. ASSUME pc'[w] = "course", task'[w] = task[w] PROVE TaskOK(w)'
    BY <1>1, <2>3 DEF TaskOK, FormulaSteps
  <2>. QED BY <1>1, <2>1, <2>2, <2>3, StepMovesOn DEF AllSteps
<1>. QED BY <1>2, <1>3

LEMMA ResolveCourseKeeps ==
  ASSUME IInv, NEW w \in Workers, ResolveCourse(w) PROVE IInv'
<1>. DEFINE key == <<task[w].institution, "course">>
            weights == IF key \in DOMAIN overrides THEN overrides[key].weights ELSE task[w].formula
<1>1. /\ task[w].institution \in institutions /\ task[w].grade \in MaxGrades
      /\ Same /\ End(w, "course") /\ Record(w, weights)
      /\ UNCHANGED <<institutions, formula, managers, types, overrides, nodeVars>>
  BY DEF ResolveCourse, IInv, TaskOK
<1>2. Sound(weights)
  BY DEF ResolveCourse, IInv, TaskOK, TablesOK, OverridesOK
<1>. HIDE DEF weights
<1>. QED BY <1>1, <1>2, RecordKeeps, EndKeeps

LEMMA CrashKeeps ==
  ASSUME IInv, NEW w \in Workers, Crash(w) PROVE IInv'
<1>1. TablesOK' /\ institutions \subseteq institutions' /\ PermissionsOK'
  BY TablesStay, PermissionsStay DEF Crash, Dies, End, Keep
<1>2. LocalOK' /\ OthersUntouched(w) /\ pc'[w] = "idle"
  BY PedidosAssumption DEF IInv, LocalOK, Crash, Dies, End, Step, Keep, OthersUntouched, AllSteps
<1>3. TaskOK(w)'
  BY <1>2 DEF TaskOK, FormulaSteps
<1>. QED BY <1>1, <1>2, <1>3, StepKeeps

-----------------------------------------------------------------------------
(* Migrations *)

LEMMA ChainLength == Len(Chain) = 14
BY DEF Chain

\* The migration that brings the models of a permission: the last one adds to
\* what the one before has granted.
Home(g) ==
  CASE g[2] \in {"institution"} \cup Calendar \cup Reference \cup Sync -> 1
    [] g[2] \in Curriculum \cup Enrolment -> IF g[1] = "encarregado" THEN 4 ELSE 2
    [] g[2] \in Grading -> 3
    [] g[2] = "auditlogentry" -> 5
    [] g[2] = "user" -> 6
    [] g[2] = "schedule" -> 7
    [] g[2] = "gradingscale" -> 8
    [] g[2] = "grade" -> 9
    [] g[2] = "finalgrade" -> 10
    [] g[2] = "finalsituation" -> 11
    [] g[2] = "issueddocument" -> 12
    [] g[2] = "attendance" -> 13

LEMMA GrantedAtHome ==
  ASSUME NEW n \in 1 .. 14, NEW g \in Chain[n]
  PROVE  Home(g) = IF n = 14 THEN 13 ELSE n
<1>. USE DEF Home, May, Calendar, Reference, Sync, Curriculum, Enrolment, Grading
<1>1. CASE n = 1
  BY <1>1 DEF Chain, ProfileGroups
<1>2. CASE n = 2
  BY <1>2 DEF Chain, CurriculumAndEnrollment
<1>3. CASE n = 3
  BY <1>3 DEF Chain, GradingFormula
<1>4. CASE n = 4
  BY <1>4 DEF Chain, GuardianObjectScoped
<1>5. CASE n = 5
  BY <1>5 DEF Chain, Audit
<1>6. CASE n = 6
  BY <1>6 DEF Chain, UserManagement
<1>7. CASE n = 7
  BY <1>7 DEF Chain, Schedule
<1>8. CASE n = 8
  BY <1>8 DEF Chain, GradingScale
<1>9. CASE n = 9
  BY <1>9 DEF Chain, Grade
<1>10. CASE n = 10
  BY <1>10 DEF Chain, FinalGrade
<1>11. CASE n = 11
  BY <1>11 DEF Chain, FinalSituation
<1>12. CASE n = 12
  BY <1>12 DEF Chain, IssuedDocument
<1>13. CASE n = 13
  BY <1>13 DEF Chain, Attendance
<1>14. CASE n = 14
  BY <1>14 DEF Chain, SecretariaAttendanceChange
<1>. HIDE DEF Home
<1>. QED BY <1>1, <1>2, <1>3, <1>4, <1>5, <1>6, <1>7, <1>8, <1>9, <1>10, <1>11, <1>12, <1>13,
            <1>14

\* Only the last two migrations grant a permission twice, and only the one.
LEMMA GrantedOnce ==
  ASSUME NEW n \in 1 .. 14
  PROVE  /\ Due(n - 1) \cap Chain[n] \subseteq {SeenTwice}
         /\ n # 14 => Due(n - 1) \cap Chain[n] = {}
         /\ SeenTwice \in Chain[13] /\ SeenTwice \in Chain[14]
<1>1. ASSUME NEW g \in Due(n - 1), g \in Chain[n]
      PROVE  n = 14 /\ g = SeenTwice
  <2>1. PICK m \in 1 .. n - 1 : g \in Chain[m]
    BY DEF Due
  <2>2. m \in 1 .. 14 /\ m < n
    OBVIOUS
  <2>3. n = 14 /\ m = 13
    BY <1>1, <2>1, <2>2, GrantedAtHome
  <2>4. g \in Attendance /\ g \in SecretariaAttendanceChange
    BY <1>1, <2>1, <2>3 DEF Chain
  <2>. QED BY <2>3, <2>4 DEF Attendance, SecretariaAttendanceChange, May, ViewAndChange, ViewOnly,
                             SeenTwice
<1>2. SeenTwice \in Chain[13] /\ SeenTwice \in Chain[14]
  BY DEF Chain, Attendance, SecretariaAttendanceChange, May, ViewAndChange, ViewOnly, SeenTwice
<1>. QED BY <1>1, <1>2

LEMMA DueExtends ==
  ASSUME NEW n \in 1 .. 14
  PROVE  Due(n) = Due(n - 1) \cup Chain[n]
<1>1. 1 .. n = (1 .. n - 1) \cup {n}
  OBVIOUS
<1>. QED BY <1>1 DEF Due

LEMMA MigrateKeeps ==
  ASSUME PermissionsOK, Migrate PROVE PermissionsOK'
<1>1. /\ level' = level + 1 /\ level' \in 1 .. 14 /\ rollbacks' = rollbacks
  BY ChainLength DEF PermissionsOK, Migrate, Deployed
<1>2. groups' \in {{}, Profiles} /\ granted' = granted \cup Chain[level']
  <2>1. CASE level' = 1
    <3>1. granted = {}
      BY <1>1, <2>1 DEF PermissionsOK, GrantsOK, Due
    <3>. QED BY <1>1, <2>1, <3>1 DEF Migrate, Extend
  <2>2. CASE level' # 1
    BY <2>2 DEF PermissionsOK, Migrate, Extend
  <2>. QED BY <2>1, <2>2
<1>3. Due(level') = Due(level) \cup Chain[level']
  <2>1. level' - 1 = level
    BY <1>1 DEF PermissionsOK
  <2>. QED BY <1>1, <2>1, DueExtends
<1>4. level' = 14 => SeenTwice \in Chain[level']
  BY GrantedOnce
<1>5. level = 13 <=> level' = 14
  BY <1>1 DEF PermissionsOK
<1>6. GrantsOK'
  <2>1. CASE level = 13
    BY <1>2, <1>3, <1>4, <1>5, <2>1 DEF PermissionsOK, GrantsOK, Due
  <2>2. CASE level # 13
    BY <1>2, <1>3, <2>2 DEF PermissionsOK, GrantsOK, Due
  <2>. QED BY <2>1, <2>2
<1>. QED BY <1>1, <1>2, <1>6, ChainLength DEF PermissionsOK

LEMMA MigrateBackKeeps ==
  ASSUME PermissionsOK, MigrateBack PROVE PermissionsOK'
<1>1. /\ level' = level - 1 /\ level \in 1 .. 14 /\ rollbacks' \in 0 .. MaxRollbacks
  BY ChainLength, RollbacksAssumption DEF PermissionsOK, MigrateBack
<1>2. groups' \in {{}, Profiles} /\ granted' = granted \ Chain[level]
  <2>1. CASE level = 1
    <3>1. granted \subseteq Chain[1]
      BY <2>1 DEF PermissionsOK, GrantsOK, Due
    <3>. QED BY <1>1, <2>1, <3>1 DEF MigrateBack, Revert
  <2>2. CASE level # 1
    BY <2>2 DEF PermissionsOK, MigrateBack, Revert
  <2>. QED BY <2>1, <2>2
<1>3. Due(level) = Due(level') \cup Chain[level]
  BY <1>1, DueExtends
<1>4. /\ Due(level') \cap Chain[level] \subseteq {SeenTwice}
      /\ level # 14 => Due(level') \cap Chain[level] = {}
      /\ level = 13 => SeenTwice \in Chain[level]
  BY <1>1, GrantedOnce
<1>5. GrantsOK'
  <2>. DEFINE due == Due(level)
              left == Due(level')
              last == Chain[level]
  <2>1. /\ granted \subseteq due /\ due \ granted \subseteq {SeenTwice}
        /\ level # 13 => granted = due
    BY DEF PermissionsOK, GrantsOK
  <2>2. due = left \cup last /\ left \cap last \subseteq {SeenTwice}
        /\ (level # 14 => left \cap last = {}) /\ (level = 13 => SeenTwice \in last)
    BY <1>3, <1>4
  <2>3. level' # 13 <=> level # 14
    BY <1>1
  <2>. HIDE DEF due, left, last
  <2>4. granted \ last \subseteq left /\ left \ (granted \ last) \subseteq {SeenTwice}
        /\ (level # 14 => granted \ last = left)
    BY <2>1, <2>2
  <2>5. granted' = granted \ last
    BY <1>2 DEF last
  <2>6. GrantsOK' = (granted' \subseteq left /\ left \ granted' \subseteq {SeenTwice}
                     /\ (level' # 13 => granted' = left))
    BY DEF GrantsOK, left, Due
  <2>. QED BY <2>3, <2>4, <2>5, <2>6
<1>. QED BY <1>1, <1>2, <1>5, ChainLength DEF PermissionsOK

LEMMA DeployKeeps ==
  ASSUME IInv, Deploy PROVE IInv'
<1>1. UNCHANGED <<institutionVars, nodeVars, pc, task, requests, crashes>> /\ PermissionsNext
  BY DEF Deploy, requestVars
<1>2. TablesOK' /\ LocalOK'
  BY <1>1, TablesStay DEF IInv, LocalOK
<1>3. \A w \in Workers : TaskOK(w)'
  BY <1>1 DEF IInv, TaskOK, institutionVars
<1>4. PermissionsOK'
  BY <1>1, MigrateKeeps, MigrateBackKeeps DEF IInv, PermissionsNext
<1>. QED BY <1>2, <1>3, <1>4 DEF IInv

-----------------------------------------------------------------------------
(* The theorems *)

LEMMA Initial == Init => IInv
<1>. SUFFICES ASSUME Init PROVE IInv
  OBVIOUS
<1>1. PermissionsOK
  BY ChainLength, RollbacksAssumption DEF Init, RequestsInit, PermissionsInit, PermissionsOK,
                                          GrantsOK, Due
<1>2. TablesOK
  BY DEF Init, RequestsInit, TablesOK, InstitutionsOK, OverridesOK, AveragesOK,
         AverageWithinTolerance, NoFormula
<1>3. LocalOK /\ \A w \in Workers : TaskOK(w)
  BY PedidosAssumption DEF Init, RequestsInit, LocalOK, TaskOK, FormulaSteps, AllSteps
<1>. QED BY <1>1, <1>2, <1>3 DEF IInv

LEMMA Inductive == IInv /\ [Next]_vars => IInv'
<1>. SUFFICES ASSUME IInv, [Next]_vars PROVE IInv'
  OBVIOUS
<1>1. CASE UNCHANGED vars
  <2>1. UNCHANGED <<permissionVars, institutionVars, nodeVars, pc, task, requests, crashes>>
    BY <1>1 DEF vars, requestVars
  <2>2. TablesOK' /\ PermissionsOK' /\ LocalOK'
    BY <2>1, TablesStay, PermissionsStay DEF IInv, LocalOK
  <2>3. \A w \in Workers : TaskOK(w)'
    BY <2>1 DEF IInv, TaskOK, institutionVars
  <2>. QED BY <2>2, <2>3 DEF IInv
<1>2. CASE Deploy
  BY <1>2, DeployKeeps
<1>3. ASSUME NEW w \in Workers, Wizard(w) \/ Formula(w) \/ Screen(w) \/ Crash(w) PROVE IInv'
  <2>1. CASE Wizard(w)
    BY <2>1, OpenWizardKeeps, SetupInstitutionKeeps, WriteKeyKeeps, CreateNodeKeeps DEF Wizard
  <2>2. CASE Formula(w)
    BY <2>2, FormulaRequestsKeep, SeedTypeKeeps, SeededKeeps, CheckFormKeeps, CheckAgainKeeps,
       SaveDefaultKeeps, FindOverrideKeeps, SaveOverrideKeeps, ClearOverrideKeeps, DeleteTypeKeeps
    DEF Formula
  <2>3. CASE Screen(w)
    BY <2>3, EditInstitutionKeeps, SaveInstitutionKeeps, AverageRequestKeeps, ResolveSubjectKeeps,
       ResolveCourseKeeps DEF Screen
  <2>. QED BY <1>3, <2>1, <2>2, <2>3, CrashKeeps
<1>. QED BY <1>1, <1>2, <1>3 DEF Next

LEMMA Invariant == Spec => []IInv
BY Initial, Inductive, PTL DEF Spec

\* Every state of the installation and of the formulas is well typed.
THEOREM TypeCorrect == Spec => []TypeOK
<1>1. IInv => TypeOK
  BY DEF IInv, PermissionsOK, TablesOK, InstitutionsOK, OverridesOK, AveragesOK, LocalOK, Sound,
         AllSteps, TypeOK
<1>. QED BY <1>1, Invariant, PTL

\* setup_institution and the screens of the formula: each institution has a
\* manager of its own and a formula, whatever is written over it.
THEOREM NobodyOrphaned == Spec => []NeverOrphaned
<1>1. IInv => NeverOrphaned
  BY DEF IInv, TablesOK, InstitutionsOK, Sound, NeverOrphaned
<1>. QED BY <1>1, Invariant, PTL

\* GradingFormula and calculate_average: the average of a pupil with the same grade
\* in every evaluation is that grade, to a hundredth of it, and at most 20.
THEOREM AveragesWithinTolerance == Spec => []AverageWithinTolerance
<1>1. IInv => AverageWithinTolerance
  BY DEF IInv, TablesOK, AveragesOK
<1>. QED BY <1>1, Invariant, PTL

\* Migrations 0003 to 0018: however they are applied and taken back, each profile
\* has what they grant, but for the one permission that two of them grant.
THEOREM RollbacksLoseOnlyOverlap == Spec => []RollbackLosesOnlyOverlap
<1>1. IInv => RollbackLosesOnlyOverlap
  BY ChainLength
  DEF IInv, PermissionsOK, GrantsOK, Due, SeenTwice, Deployed, RollbackLosesOnlyOverlap
<1>. QED BY <1>1, Invariant, PTL

-----------------------------------------------------------------------------
(* Requests that run alone *)

\* What a request that runs alone has read still holds when it writes.
FreshTask(w) ==
  /\ pc[w] = "setup" => institutions = {} /\ nodes = {}
  /\ pc[w] = "key" => institutions = {w} /\ nodes = {}
  /\ pc[w] = "node" => institutions = {w} /\ nodes = {} /\ privateKey = w
  /\ pc[w] = "edit" => task[w].formula = formula[task[w].institution]

\* A node belongs to an institution, and formula is a table.
NodesOK == institutions = {} => nodes = {}
FormulaTable == formula = [i \in DOMAIN formula |-> formula[i]]

AInv ==
  /\ IInv /\ NodesOK /\ FormulaTable
  /\ \A w \in Workers : alone[w] => FreshTask(w)

StepOf(w) == Wizard(w) \/ Formula(w) \/ Screen(w) \/ Crash(w)

\* A worker changes what another has in memory in no step, and takes all its steps
\* but one while it serves a request.
LEMMA StepIsOwn ==
  ASSUME IInv, NEW w \in Workers, StepOf(w)
  PROVE  OthersUntouched(w) /\ (pc[w] # "idle" \/ pc'[w] # "idle" \/ DeleteType(w))
<1>. USE DEF IInv, LocalOK, OthersUntouched, Step, Keep
<1>1. CASE Wizard(w)
  BY <1>1 DEF Wizard, OpenWizard, SetupInstitution, WriteKey, CreateNode, Serve, Begin, Counted,
              Keep, End
<1>2. CASE Formula(w)
  <2>1. CASE ConfigureFormula(w) \/ ConfigureOverride(w) \/ ClearRequest(w)
    BY <2>1 DEF ConfigureFormula, ConfigureOverride, ClearRequest, FormulaRequest, Serve, Begin,
                Counted, Keep
  <2>2. CASE SeedType(w) \/ Seeded(w)
    BY <2>2 DEF SeedType, Seeded, End, Keep
  <2>3. CASE CheckForm(w) \/ CheckAgain(w) \/ SaveDefault(w)
    BY <2>3 DEF CheckForm, CheckAgain, SaveDefault, End, Keep
  <2>4. CASE FindOverride(w) \/ SaveOverride(w) \/ ClearOverride(w)
    BY <2>4 DEF FindOverride, SaveOverride, ClearOverride, End, Keep
  <2>5. CASE DeleteType(w)
    BY <2>5 DEF DeleteType, AtOnce
  <2>. QED BY <1>2, <2>1, <2>2, <2>3, <2>4, <2>5 DEF Formula
<1>3. CASE Screen(w)
  BY <1>3 DEF Screen, EditInstitution, SaveInstitution, AverageRequest, ResolveSubject,
              ResolveCourse, Serve, Begin, Counted, Keep, End
<1>4. CASE Crash(w)
  BY <1>4 DEF Crash, Dies, End, Keep
<1>. QED BY <1>1, <1>2, <1>3, <1>4 DEF StepOf

\* Only the wizard makes institutions and nodes.
LEMMA NodesKeep ==
  ASSUME IInv, NodesOK, NEW w \in Workers, StepOf(w)
  PROVE  NodesOK'
<1>1. CASE Wizard(w)
  <2>1. CASE OpenWizard(w) \/ SetupInstitution(w) \/ WriteKey(w)
    BY <2>1 DEF OpenWizard, SetupInstitution, WriteKey, NodesOK, institutionVars, nodeVars
  <2>2. CASE CreateNode(w)
    BY <2>2 DEF CreateNode, End, Keep, Step, IInv, TaskOK, NodesOK, institutionVars
  <2>. QED BY <1>1, <2>1, <2>2 DEF Wizard
<1>2. CASE ~ Wizard(w)
  <2>1. UNCHANGED <<institutions, nodes>>
    <3>1. CASE Formula(w)
      BY <3>1 DEF Formula, ConfigureFormula, ConfigureOverride, ClearRequest, FormulaRequest,
         SeedType, Seeded, CheckForm, CheckAgain, SaveDefault, FindOverride, SaveOverride,
         ClearOverride, DeleteType, AtOnce, institutionVars, nodeVars
    <3>2. CASE Screen(w) \/ Crash(w)
      BY <3>2 DEF Screen, EditInstitution, SaveInstitution, AverageRequest, ResolveSubject,
                  ResolveCourse, Crash, Dies, End, Keep, institutionVars, nodeVars
    <3>. QED BY <1>2, <3>1, <3>2 DEF StepOf
  <2>. QED BY <2>1 DEF NodesOK
<1>. QED BY <1>1, <1>2

LEMMA FormulaChanges ==
  ASSUME NEW w \in Workers, StepOf(w)
  PROVE  \/ formula' = formula
         \/ \E i, weights : formula' = Put(formula, i, weights)
<1>1. CASE Wizard(w)
  BY <1>1 DEF Wizard, OpenWizard, SetupInstitution, WriteKey, CreateNode, institutionVars
<1>2. CASE Formula(w)
  BY <1>2 DEF Formula, ConfigureFormula, ConfigureOverride, ClearRequest, FormulaRequest,
     SeedType, Seeded, CheckForm, CheckAgain, SaveDefault, FindOverride, SaveOverride,
     ClearOverride, DeleteType, AtOnce, institutionVars
<1>3. CASE Screen(w) \/ Crash(w)
  BY <1>3 DEF Screen, EditInstitution, SaveInstitution, AverageRequest, ResolveSubject,
              ResolveCourse, Crash, Dies, End, Keep, institutionVars
<1>. QED BY <1>1, <1>2, <1>3 DEF StepOf

LEMMA TableKeeps ==
  ASSUME FormulaTable, NEW w \in Workers, StepOf(w)
  PROVE  FormulaTable'
<1>1. CASE formula' = formula
  BY <1>1 DEF FormulaTable
<1>2. ASSUME NEW i, NEW weights, formula' = Put(formula, i, weights) PROVE FormulaTable'
  <2>. DEFINE keys == DOMAIN formula \cup {i}
              Row(k) == IF k = i THEN weights ELSE formula[k]
  <2>1. formula' = [k \in keys |-> Row(k)]
    BY <1>2 DEF Put
  <2>. HIDE DEF keys, Row
  <2>. QED BY <2>1 DEF FormulaTable
<1>. QED BY <1>1, <1>2, FormulaChanges

\* A request that runs alone is fresh after each step of its own.
LEMMA OwnStepIsFresh ==
  ASSUME IInv, NodesOK, NEW w \in Workers, StepOf(w), pc[w] # "idle" => FreshTask(w)
  PROVE  FreshTask(w)'
<1>. USE DEF IInv, LocalOK, Step, Keep
<1>1. CASE Wizard(w)
  <2>1. CASE OpenWizard(w)
    BY <2>1 DEF OpenWizard, Serve, Begin, Counted, Keep, FreshTask, NodesOK, institutionVars,
                nodeVars
  <2>2. CASE SetupInstitution(w)
    BY <2>2 DEF SetupInstitution, End, Keep, FreshTask, nodeVars
  <2>3. CASE WriteKey(w) \/ CreateNode(w)
    BY <2>3 DEF WriteKey, CreateNode, End, Keep, FreshTask, institutionVars
  <2>. QED BY <1>1, <2>1, <2>2, <2>3 DEF Wizard
<1>2. CASE EditInstitution(w)
  BY <1>2 DEF EditInstitution, Serve, Begin, Counted, Keep, FreshTask, institutionVars, nodeVars
<1>3. CASE ~ Wizard(w) /\ ~ EditInstitution(w)
  <2>1. pc'[w] \notin {"setup", "key", "node", "edit"}
    <3>1. CASE ConfigureFormula(w) \/ ConfigureOverride(w) \/ ClearRequest(w)
      BY <3>1 DEF ConfigureFormula, ConfigureOverride, ClearRequest, FormulaRequest, Serve, Begin,
                  Counted, Keep
    <3>2. CASE SeedType(w) \/ Seeded(w)
      BY <3>2 DEF SeedType, Seeded, End, Keep, TaskOK, FormulaSteps
    <3>3. CASE CheckForm(w) \/ CheckAgain(w) \/ SaveDefault(w)
      BY <3>3 DEF CheckForm, CheckAgain, SaveDefault, End, Keep
    <3>4. CASE FindOverride(w) \/ SaveOverride(w) \/ ClearOverride(w) \/ DeleteType(w)
      BY <3>4 DEF FindOverride, SaveOverride, ClearOverride, DeleteType, AtOnce, End, Keep
    <3>5. CASE Screen(w) \/ Crash(w)
      BY <1>3, <3>5 DEF Screen, SaveInstitution, AverageRequest, ResolveSubject, ResolveCourse,
                        Crash, Dies, End, Keep, Serve, Begin, Counted
    <3>. QED BY <1>3, <3>1, <3>2, <3>3, <3>4, <3>5 DEF StepOf, Formula
  <2>. QED BY <2>1 DEF FreshTask
<1>. QED BY <1>1, <1>2, <1>3

LEMMA AInductive == AInv /\ [MCNext]_<<vars, alone>> => AInv'
<1>. SUFFICES ASSUME AInv, [MCNext]_<<vars, alone>> PROVE AInv'
  OBVIOUS
<1>1. IInv'
  BY Inductive DEF AInv, MCNext, AloneNext
<1>2. CASE UNCHANGED <<vars, alone>>
  BY <1>1, <1>2 DEF AInv, NodesOK, FormulaTable, FreshTask, vars, requestVars, institutionVars,
                    nodeVars
<1>3. CASE MCNext
  <2>1. Deploy \/ \E u \in Workers : StepOf(u)
    BY <1>3 DEF MCNext, AloneNext, Next, StepOf
  <2>2. NodesOK' /\ FormulaTable'
    <3>1. CASE Deploy
      BY <3>1 DEF AInv, Deploy, NodesOK, FormulaTable, institutionVars, nodeVars
    <3>. QED BY <2>1, <3>1, NodesKeep, TableKeeps DEF AInv
  <2>3. ASSUME NEW w \in Workers, alone'[w] PROVE FreshTask(w)'
    <3>1. CASE pc'[w] = "idle"
      BY <3>1 DEF FreshTask
    <3>2. CASE pc'[w] # "idle"
      <4>1. /\ alone[w] /\ \A v \in Workers \ {w} : pc[v] = "idle" /\ pc'[v] = "idle"
            /\ pc'[w] # pc[w] \/ requests' = requests
        BY <1>3, <2>3, <3>2 DEF MCNext, AloneNext
      <4>2. ~ Deploy
        BY <3>2 DEF Deploy, requestVars
      <4>3. PICK u \in Workers : StepOf(u)
        BY <2>1, <4>2
      <4>4. OthersUntouched(u) /\ (pc[u] # "idle" \/ pc'[u] # "idle" \/ DeleteType(u))
        BY <4>3, StepIsOwn DEF AInv
      <4>5. u = w
        <5>1. DeleteType(u) => requests' # requests /\ pc' = pc
          BY DEF DeleteType, AtOnce, Counted, AInv, IInv, LocalOK
        <5>. QED BY <4>1, <4>4, <5>1
      <4>. QED BY <4>1, <4>3, <4>5, OwnStepIsFresh DEF AInv
    <3>. QED BY <3>1, <3>2
  <2>. QED BY <1>1, <2>2, <2>3 DEF AInv
<1>. QED BY <1>2, <1>3

LEMMA AInitial == MCInit => AInv
BY Initial DEF MCInit, AloneInit, Init, RequestsInit, AInv, NodesOK, FormulaTable, FreshTask,
               NoFormula

\* The step that ends a request is one of its own worker.
LEMMA LastStepIsOwn ==
  ASSUME IInv, MCNext, NEW w \in Workers, pc[w] # "idle", pc'[w] = "idle"
  PROVE  StepOf(w)
<1>1. ~ Deploy
  BY DEF Deploy
<1>2. PICK u \in Workers : StepOf(u)
  BY <1>1 DEF MCNext, AloneNext, Next, StepOf
<1>3. u = w
  BY <1>2, StepIsOwn DEF OthersUntouched
<1>. QED BY <1>2, <1>3

\* create_local_node: a wizard that runs alone leaves the node of its institution,
\* with the key whose private half it wrote.
THEOREM AloneNodesHaveKeys == MCSpec => AloneNodeHasKey
<1>1. ASSUME AInv, MCNext, NEW w \in Workers, EndsAlone(w, "node")
      PROVE  /\ nodes' = {[id |-> IF NodeId = None THEN w ELSE NodeId,
                           institution |-> w, key |-> privateKey']}
             /\ institutions' = {w}
  <2>1. alone[w] /\ pc[w] = "node" /\ pc'[w] = "idle" /\ crashes' = crashes
    BY <1>1 DEF EndsAlone
  <2>2. StepOf(w) /\ FreshTask(w)
    BY <1>1, <2>1, LastStepIsOwn DEF AInv
  <2>3. CreateNode(w)
    <3>. USE <2>1 DEF Step, Serve, Begin, Counted, Keep, End
    <3>1. ~ Crash(w)
      BY <1>1 DEF Crash, Dies, End, Keep, AInv, IInv, LocalOK
    <3>2. ~ Formula(w)
      BY DEF Formula, ConfigureFormula, ConfigureOverride, ClearRequest, FormulaRequest,
         SeedType, Seeded, CheckForm, CheckAgain, SaveDefault, FindOverride, SaveOverride,
         ClearOverride, DeleteType, AtOnce
    <3>3. ~ Screen(w)
      BY DEF Screen, EditInstitution, SaveInstitution, AverageRequest, ResolveSubject,
         ResolveCourse
    <3>. QED BY <2>2, <3>1, <3>2, <3>3 DEF StepOf, Wizard, OpenWizard, SetupInstitution, WriteKey
  <2>4. institutions = {w} /\ nodes = {} /\ privateKey = w
    BY <2>1, <2>2 DEF FreshTask
  <2>. QED BY <2>3, <2>4 DEF CreateNode, CurrentNodeId, institutionVars
<1>2. AInv /\ [MCNext]_<<vars, alone>> =>
        [\A w \in Workers : EndsAlone(w, "node") =>
           /\ nodes' = {[id |-> IF NodeId = None THEN w ELSE NodeId,
                         institution |-> w, key |-> privateKey']}
           /\ institutions' = {w}]_<<vars, alone>>
  BY <1>1
<1>. QED BY <1>2, AInitial, AInductive, PTL DEF MCSpec, AloneNodeHasKey

\* InstitutionEditForm: an edit that runs alone writes the formula back as it was.
THEOREM AloneFormulasStay == MCSpec => AloneKeepsFormula
<1>1. ASSUME AInv, MCNext, NEW w \in Workers, EndsAlone(w, "edit")
      PROVE  formula' = formula
  <2>1. alone[w] /\ pc[w] = "edit" /\ pc'[w] = "idle" /\ crashes' = crashes
    BY <1>1 DEF EndsAlone
  <2>2. StepOf(w) /\ FreshTask(w)
    BY <1>1, <2>1, LastStepIsOwn DEF AInv
  <2>3. SaveInstitution(w)
    <3>. USE <2>1 DEF Step, Serve, Begin, Counted, Keep, End
    <3>1. ~ Crash(w)
      BY <1>1 DEF Crash, Dies, End, Keep, AInv, IInv, LocalOK
    <3>2. ~ Formula(w)
      BY DEF Formula, ConfigureFormula, ConfigureOverride, ClearRequest, FormulaRequest,
         SeedType, Seeded, CheckForm, CheckAgain, SaveDefault, FindOverride, SaveOverride,
         ClearOverride, DeleteType, AtOnce
    <3>3. ~ Wizard(w)
      BY DEF Wizard, OpenWizard, SetupInstitution, WriteKey, CreateNode
    <3>. QED BY <2>2, <3>1, <3>2, <3>3
         DEF StepOf, Screen, EditInstitution, AverageRequest, ResolveSubject, ResolveCourse
  <2>. DEFINE i == task[w].institution
  <2>4. formula' = Put(formula, i, formula[i]) /\ i \in DOMAIN formula
    BY <1>1, <2>1, <2>2, <2>3 DEF SaveInstitution, FreshTask, AInv, IInv, TaskOK, TablesOK,
                                  InstitutionsOK
  <2>. HIDE DEF i
  <2>5. formula = [k \in DOMAIN formula |-> formula[k]]
    BY <1>1 DEF AInv, FormulaTable
  <2>6. DOMAIN formula \cup {i} = DOMAIN formula
    BY <2>4
  <2>7. Put(formula, i, formula[i]) = [k \in DOMAIN formula |-> formula[k]]
    BY <2>6 DEF Put
  <2>. QED BY <2>4, <2>5, <2>7
<1>2. AInv /\ [MCNext]_<<vars, alone>> =>
        [\A w \in Workers : EndsAlone(w, "edit") => formula' = formula]_<<vars, alone>>
  BY <1>1
<1>. QED BY <1>2, AInitial, AInductive, PTL DEF MCSpec, AloneKeepsFormula

-----------------------------------------------------------------------------
(* Horario: the calendar, the curriculum and the schedule of an institution,  *)
(* for any numbers of rows, days and hours. The two specifications share the   *)
(* variables of Pedidos, but no theorem is about both.                         *)

\* The steps of a request.
ScheduleSteps == {"idle", "unmark", "mark", "year", "term", "seed", "day",
                  "cycle", "course", "grade", "subject", "class", "slot"}

RowOf(ids, rows) == [id : ids, row : rows]

\* What a request has in memory at each step.
ScheduleTaskOK(w) ==
  /\ pc[w] \in ScheduleSteps
  /\ pc[w] \in {"unmark", "mark"} => task[w] \in [id : Years]
  /\ pc[w] = "year" => task[w] \in RowOf(Years, YearRow)
  /\ pc[w] = "term" => task[w] \in RowOf(Terms, TermRow)
  /\ pc[w] = "seed" => task[w] \in [id : {None}, next : 1 .. Holidays + 1]
  /\ pc[w] = "day" => task[w] \in [id : {None}, next : 1 .. Holidays]
  /\ pc[w] = "cycle" => task[w] \in RowOf(Cycles, CycleRow)
  /\ pc[w] = "course" => task[w] \in RowOf(Courses, CourseRow)
  /\ pc[w] = "grade" => task[w] \in RowOf(Grades, GradeRow)
  /\ pc[w] = "subject" => task[w] \in RowOf(Subjects, SubjectRow)
  /\ pc[w] = "class" => task[w] \in RowOf(Classes, ClassRow)
  /\ pc[w] = "slot" => task[w] \in RowOf(Slots, SlotRow)

ScheduleOK ==
  /\ DOMAIN classes \subseteq Classes /\ \A c \in DOMAIN classes : classes[c] \in ClassRow
  /\ DOMAIN slots \subseteq Slots /\ \A s \in DOMAIN slots : slots[s] \in SlotRow
  /\ YearsInUse \subseteq DOMAIN years
  /\ \A c \in DOMAIN classes : Exist(classes[c])
  /\ \A s \in DOMAIN slots : /\ slots[s].class \in DOMAIN classes
                             /\ slots[s].subject \in DOMAIN subjects

ScheduleRequestsOK ==
  /\ pc \in [Workers -> ScheduleSteps] /\ DOMAIN task = Workers
  /\ \A w \in Workers : ScheduleTaskOK(w)

\* The inductive invariant.
ScheduleInv == CalendarTypeOK /\ CurriculumTypeOK /\ ScheduleOK /\ ScheduleRequestsOK

\* A request that begins with a sound task, ends or goes nowhere.
LEMMA ScheduleBeginKeeps ==
  ASSUME ScheduleRequestsOK, NEW w \in Workers, NEW to \in ScheduleSteps, NEW t, Begin(w, to, t),
         pc'[w] = to /\ task'[w] = t => ScheduleTaskOK(w)'
  PROVE  ScheduleRequestsOK'
BY DEF ScheduleRequestsOK, Begin, Counted, Keep, Step, ScheduleTaskOK

LEMMA ScheduleEndKeeps ==
  ASSUME ScheduleRequestsOK, NEW w \in Workers, NEW from, End(w, from)
  PROVE  ScheduleRequestsOK'
BY DEF ScheduleRequestsOK, End, Keep, Step, ScheduleTaskOK, ScheduleSteps

LEMMA ScheduleAtOnceKeeps ==
  ASSUME ScheduleRequestsOK, NEW w \in Workers, AtOnce(w)
  PROVE  ScheduleRequestsOK'
BY DEF ScheduleRequestsOK, AtOnce, ScheduleTaskOK

-----------------------------------------------------------------------------
(* The calendar.                                                              *)

LEMMA YearsKeep ==
  ASSUME ScheduleInv, NEW w \in Workers, NEW y \in Years,
         \/ MarkRequest(w, y) \/ DeleteYear(w, y, YearsInUse)
         \/ \E from, to \in Dates : CreateYear(w, y, from, to) \/ EditYear(w, y, from, to),
         UNCHANGED <<curriculumVars, scheduleVars>>
  PROVE  ScheduleInv'
<1>. USE DEF curriculumVars, scheduleVars, calendarVars
<1>1. CurriculumTypeOK'
  BY DEF ScheduleInv, CurriculumTypeOK, Exist
<1>2. CASE \E from, to \in Dates : CreateYear(w, y, from, to)
  <2>. PICK from, to \in Dates : CreateYear(w, y, from, to)
    BY <1>2
  <2>1. ScheduleRequestsOK'
    BY ScheduleAtOnceKeeps DEF ScheduleInv, CreateYear
  <2>2. CalendarTypeOK' /\ DOMAIN years \subseteq DOMAIN years'
    <3>. DEFINE row == [from |-> from, to |-> to, current |-> FALSE]
    <3>1. /\ DOMAIN years' = DOMAIN years \cup {y}
          /\ \A k \in DOMAIN years' : years'[k] = IF k = y THEN row ELSE years[k]
      BY DEF CreateYear, Put
    <3>2. row \in YearRow /\ ~ row.current
      BY DEF YearRow
    <3>. HIDE DEF row
    <3>3. terms' = terms /\ days' = days
      BY DEF CreateYear
    <3>. QED BY <3>1, <3>2, <3>3 DEF ScheduleInv, CalendarTypeOK, CurrentYears
  <2>. QED BY <1>1, <2>1, <2>2 DEF ScheduleInv, ScheduleOK, YearsInUse, Exist
<1>3. CASE MarkRequest(w, y)
  <2>1. ScheduleRequestsOK'
    BY <1>3, ScheduleBeginKeeps DEF ScheduleInv, MarkRequest, ScheduleTaskOK, ScheduleSteps
  <2>. QED BY <1>1, <1>3, <2>1 DEF MarkRequest, ScheduleInv, CalendarTypeOK, CurrentYears,
              ScheduleOK, YearsInUse, Exist
<1>4. CASE \E from, to \in Dates : EditYear(w, y, from, to)
  <2>. PICK from, to \in Dates : EditYear(w, y, from, to)
    BY <1>4
  <2>1. years[y] \in YearRow
    BY DEF ScheduleInv, CalendarTypeOK, EditYear
  <2>2. ScheduleRequestsOK'
    BY <2>1, ScheduleBeginKeeps DEF ScheduleInv, EditYear, ScheduleTaskOK, ScheduleSteps, RowOf,
       YearRow
  <2>. QED BY <1>1, <2>2 DEF EditYear, ScheduleInv, CalendarTypeOK, CurrentYears, ScheduleOK,
              YearsInUse, Exist
<1>5. CASE DeleteYear(w, y, YearsInUse)
  <2>1. ScheduleRequestsOK'
    BY <1>5, ScheduleAtOnceKeeps DEF ScheduleInv, DeleteYear
  <2>. DEFINE gone == {t \in DOMAIN terms : terms[t].year = y}
  <2>2. /\ DOMAIN years' = DOMAIN years \ {y}
        /\ \A k \in DOMAIN years' : years'[k] = years[k]
        /\ DOMAIN terms' = DOMAIN terms \ gone
        /\ \A t \in DOMAIN terms' : terms'[t] = terms[t]
        /\ days' = days
    BY <1>5 DEF DeleteYear, Without
  <2>3. CalendarTypeOK'
    BY <2>2 DEF ScheduleInv, CalendarTypeOK, CurrentYears
  <2>4. ScheduleOK'
    BY <1>5, <2>2 DEF DeleteYear, ScheduleInv, ScheduleOK, YearsInUse, Exist
  <2>. QED BY <1>1, <2>1, <2>3, <2>4 DEF ScheduleInv
<1>. QED BY <1>2, <1>3, <1>4, <1>5

LEMMA TermsKeep ==
  ASSUME ScheduleInv, NEW w \in Workers, NEW t \in Terms,
         DeleteTerm(w, t) \/ \E row \in TermRow : CreateTerm(w, t, row) \/ EditTerm(w, t, row),
         UNCHANGED <<curriculumVars, scheduleVars>>
  PROVE  ScheduleInv'
<1>. USE DEF curriculumVars, scheduleVars, calendarVars
<1>1. CurriculumTypeOK'
  BY DEF ScheduleInv, CurriculumTypeOK, Exist
<1>2. CASE DeleteTerm(w, t)
  <2>1. ScheduleRequestsOK'
    BY <1>2, ScheduleAtOnceKeeps DEF ScheduleInv, DeleteTerm
  <2>2. /\ DOMAIN terms' = DOMAIN terms \ {t}
        /\ \A k \in DOMAIN terms' : terms'[k] = terms[k]
        /\ years' = years /\ days' = days
    BY <1>2 DEF DeleteTerm, Without
  <2>. QED BY <1>1, <2>1, <2>2 DEF ScheduleInv, CalendarTypeOK, CurrentYears, ScheduleOK,
              YearsInUse, Exist
<1>3. CASE \E row \in TermRow : CreateTerm(w, t, row) \/ EditTerm(w, t, row)
  <2>. PICK row \in TermRow : CreateTerm(w, t, row) \/ EditTerm(w, t, row)
    BY <1>3
  <2>1. ScheduleRequestsOK'
    BY ScheduleBeginKeeps DEF ScheduleInv, CreateTerm, EditTerm, ScheduleTaskOK, ScheduleSteps,
       RowOf
  <2>. QED BY <1>1, <2>1 DEF CreateTerm, EditTerm, ScheduleInv, CalendarTypeOK,
              CurrentYears,
                                   ScheduleOK, YearsInUse, Exist
<1>. QED BY <1>2, <1>3

LEMMA DaysKeep ==
  ASSUME ScheduleInv, NEW w \in Workers,
         SeedRequest(w) \/ \E h \in 1 .. Holidays : CreateDay(w, h) \/ DeleteDay(w, h),
         UNCHANGED <<curriculumVars, scheduleVars>>
  PROVE  ScheduleInv'
<1>. Holidays \in Nat
  BY CalendarAssumption
<1>. USE DEF curriculumVars, scheduleVars, calendarVars
<1>1. CurriculumTypeOK'
  BY DEF ScheduleInv, CurriculumTypeOK, Exist
<1>2. ScheduleRequestsOK'
  <2>1. CASE SeedRequest(w)
    <3>1. [id |-> None, next |-> 1] \in [id : {None}, next : 1 .. Holidays + 1]
      OBVIOUS
    <3>. QED BY <2>1, <3>1, ScheduleBeginKeeps DEF ScheduleInv, SeedRequest, ScheduleTaskOK,
                ScheduleSteps
  <2>2. CASE \E h \in 1 .. Holidays : CreateDay(w, h) \/ DeleteDay(w, h)
    BY <2>2, ScheduleAtOnceKeeps DEF ScheduleInv, CreateDay, DeleteDay
  <2>. QED BY <2>1, <2>2
<1>3. UNCHANGED <<years, terms>> /\ days' \in [1 .. Holidays -> Nat]
  <2>1. days \in [1 .. Holidays -> Nat]
    BY DEF ScheduleInv, CalendarTypeOK
  <2>. QED BY <2>1 DEF SeedRequest, CreateDay, DeleteDay
<1>. QED BY <1>1, <1>2, <1>3 DEF ScheduleInv, CalendarTypeOK, CurrentYears, ScheduleOK,
            YearsInUse, Exist

LEMMA SeedKeeps ==
  ASSUME ScheduleInv, NEW w \in Workers, Seed(w) \/ AddDay(w),
         UNCHANGED <<curriculumVars, scheduleVars>>
  PROVE  ScheduleInv'
<1>. Holidays \in Nat
  BY CalendarAssumption
<1>. USE DEF curriculumVars, scheduleVars, calendarVars
<1>1. CurriculumTypeOK'
  BY DEF ScheduleInv, CurriculumTypeOK, Exist
<1>2. ScheduleRequestsOK'
  <2>. DEFINE h == task[w].next
  <2>1. CASE Seed(w) /\ End(w, "seed")
    BY <2>1, ScheduleEndKeeps DEF ScheduleInv
  <2>2. CASE Seed(w) /\ ~ (h > Holidays \/ days[h] > 1)
    <3>1. h \in 1 .. Holidays /\ task[w] \in [id : {None}, next : 1 .. Holidays + 1]
      BY <2>2 DEF ScheduleInv, ScheduleRequestsOK, ScheduleTaskOK, Seed
    <3>2. pc' = [pc EXCEPT ![w] = pc'[w]] /\ pc'[w] \in {"seed", "day"}
          /\ task' = [task EXCEPT ![w] = task'[w]]
          /\ (pc'[w] = "seed" => task'[w] \in [id : {None}, next : 1 .. Holidays + 1])
          /\ (pc'[w] = "day" => task'[w] \in [id : {None}, next : 1 .. Holidays])
      BY <2>2, <3>1 DEF ScheduleInv, ScheduleRequestsOK, Seed
    <3>. HIDE DEF h
    <3>. QED BY <3>2 DEF ScheduleInv, ScheduleRequestsOK, ScheduleTaskOK, ScheduleSteps
  <2>3. CASE AddDay(w)
    <3>1. task[w] \in [id : {None}, next : 1 .. Holidays]
      BY <2>3 DEF ScheduleInv, ScheduleRequestsOK, ScheduleTaskOK, AddDay, Step
    <3>2. pc' = [pc EXCEPT ![w] = "seed"] /\ task' = [task EXCEPT ![w] = task'[w]]
          /\ task'[w] \in [id : {None}, next : 1 .. Holidays + 1]
      BY <2>3, <3>1 DEF ScheduleInv, ScheduleRequestsOK, AddDay, Step
    <3>. QED BY <3>2 DEF ScheduleInv, ScheduleRequestsOK, ScheduleTaskOK, ScheduleSteps
  <2>. QED BY <2>1, <2>2, <2>3 DEF Seed
<1>3. UNCHANGED <<years, terms>> /\ days' \in [1 .. Holidays -> Nat]
  <2>1. days \in [1 .. Holidays -> Nat]
    BY DEF ScheduleInv, CalendarTypeOK
  <2>. QED BY <2>1 DEF Seed, AddDay
<1>. QED BY <1>1, <1>2, <1>3 DEF ScheduleInv, CalendarTypeOK, CurrentYears, ScheduleOK,
            YearsInUse, Exist

\* A request that ends with a change of the years, of the terms or of nothing.
LEMMA CalendarSavesKeep ==
  ASSUME ScheduleInv, NEW w \in Workers,
         \/ Unmark(w) \/ Mark(w) \/ SaveYear(w) \/ SaveTerm(w)
         \/ Dies(w) /\ UNCHANGED calendarVars,
         UNCHANGED <<curriculumVars, scheduleVars>>
  PROVE  ScheduleInv'
<1>. USE DEF curriculumVars, scheduleVars, calendarVars
<1>1. CurriculumTypeOK'
  BY DEF ScheduleInv, CurriculumTypeOK, Exist
<1>2. ScheduleRequestsOK'
  <2>1. CASE Unmark(w)
    BY <2>1 DEF ScheduleInv, ScheduleRequestsOK, Unmark, Step, ScheduleTaskOK, ScheduleSteps
  <2>2. CASE Mark(w) \/ SaveYear(w) \/ SaveTerm(w) \/ Dies(w)
    BY <2>2, ScheduleEndKeeps DEF ScheduleInv, Mark, SaveYear, SaveTerm, Dies, End, Step, Keep
  <2>. QED BY <2>1, <2>2
<1>3. CalendarTypeOK' /\ DOMAIN years \subseteq DOMAIN years'
  <2>1. CASE Unmark(w)
    <3>1. /\ DOMAIN years' = DOMAIN years
          /\ \A y \in DOMAIN years : years'[y] = [years[y] EXCEPT !.current = FALSE]
          /\ UNCHANGED <<terms, days>>
      BY <2>1 DEF Unmark
    <3>2. \A y \in DOMAIN years : years'[y] \in YearRow /\ ~ years'[y].current
      BY <3>1 DEF ScheduleInv, CalendarTypeOK, YearRow
    <3>. QED BY <3>1, <3>2 DEF ScheduleInv, CalendarTypeOK, CurrentYears
  <2>2. CASE Mark(w)
    <3>. DEFINE id == task[w].id
    <3>1. CASE UNCHANGED years
      BY <2>2, <3>1 DEF Mark, ScheduleInv, CalendarTypeOK, CurrentYears
    <3>2. CASE /\ id \in DOMAIN years /\ CurrentYears \subseteq {id}
               /\ years' = [years EXCEPT ![id].current = TRUE]
      <4>1. /\ DOMAIN years' = DOMAIN years /\ years'[id] \in YearRow
            /\ \A y \in DOMAIN years \ {id} : years'[y] = years[y] /\ ~ years[y].current
        BY <3>2 DEF ScheduleInv, CalendarTypeOK, CurrentYears, YearRow
      <4>2. UNCHANGED <<terms, days>>
        BY <2>2 DEF Mark
      <4>. HIDE DEF id
      <4>. QED BY <4>1, <4>2 DEF ScheduleInv, CalendarTypeOK, CurrentYears
    <3>. QED BY <2>2, <3>1, <3>2 DEF Mark
  <2>3. CASE SaveYear(w)
    <3>. DEFINE id == task[w].id
                row == task[w].row
    <3>1. id \in Years /\ row \in YearRow
      BY <2>3 DEF ScheduleInv, ScheduleRequestsOK, ScheduleTaskOK, RowOf, SaveYear, End, Keep,
                  Step
    <3>2. UNCHANGED <<terms, days>>
      BY <2>3 DEF SaveYear
    <3>3. CASE UNCHANGED years
      BY <3>2, <3>3 DEF ScheduleInv, CalendarTypeOK, CurrentYears
    <3>4. CASE /\ row.current => CurrentYears \subseteq {id}
               /\ years' = Put(years, id, row)
      <4>1. /\ DOMAIN years' = DOMAIN years \cup {id}
            /\ \A k \in DOMAIN years' : years'[k] = IF k = id THEN row ELSE years[k]
        BY <3>4 DEF Put
      <4>2. row.current => CurrentYears \subseteq {id}
        BY <3>4
      <4>. HIDE DEF id, row
      <4>. QED BY <3>1, <3>2, <4>1, <4>2 DEF ScheduleInv, CalendarTypeOK, CurrentYears
    <3>. QED BY <2>3, <3>3, <3>4 DEF SaveYear
  <2>4. CASE SaveTerm(w)
    <3>. DEFINE id == task[w].id
                row == task[w].row
    <3>1. id \in Terms /\ row \in TermRow
      BY <2>4 DEF ScheduleInv, ScheduleRequestsOK, ScheduleTaskOK, RowOf, SaveTerm, End, Keep,
                  Step
    <3>2. UNCHANGED <<years, days>>
      BY <2>4 DEF SaveTerm
    <3>3. CASE UNCHANGED terms
      BY <3>2, <3>3 DEF ScheduleInv, CalendarTypeOK, CurrentYears
    <3>4. CASE row.year \in DOMAIN years /\ terms' = Put(terms, id, row)
      <4>1. /\ DOMAIN terms' = DOMAIN terms \cup {id}
            /\ \A k \in DOMAIN terms' : terms'[k] = IF k = id THEN row ELSE terms[k]
        BY <3>4 DEF Put
      <4>2. row.year \in DOMAIN years
        BY <3>4
      <4>. HIDE DEF id, row
      <4>. QED BY <3>1, <3>2, <4>1, <4>2 DEF ScheduleInv, CalendarTypeOK, CurrentYears
    <3>. QED BY <2>4, <3>3, <3>4 DEF SaveTerm
  <2>5. CASE Dies(w) /\ UNCHANGED calendarVars
    BY <2>5 DEF Dies, End, Step, Keep, ScheduleInv, CalendarTypeOK, CurrentYears
  <2>. QED BY <2>1, <2>2, <2>3, <2>4, <2>5
<1>4. ScheduleOK'
  BY <1>3 DEF ScheduleInv, ScheduleOK, YearsInUse, Exist
<1>. QED BY <1>1, <1>2, <1>3, <1>4 DEF ScheduleInv

-----------------------------------------------------------------------------
(* The curriculum and the schedule.                                           *)

\* The forms that are checked, and saved by a later statement.
Forms == {<<"cycle", Cycles, CycleRow>>, <<"course", Courses, CourseRow>>,
          <<"grade", Grades, GradeRow>>, <<"subject", Subjects, SubjectRow>>,
          <<"class", Classes, ClassRow>>, <<"slot", Slots, SlotRow>>}

\* A valid form changes nothing but the request it is in.
LEMMA FormKeeps ==
  ASSUME ScheduleInv, NEW w \in Workers, NEW form \in Forms, NEW id \in form[2],
         NEW row \in form[3],
         Form(w, form[1], id, row), UNCHANGED scheduleVars
  PROVE  ScheduleInv'
<1>1. [id |-> id, row |-> row] \in RowOf(form[2], form[3]) /\ form[1] \in ScheduleSteps
  BY DEF RowOf, ScheduleSteps, Forms
<1>2. ScheduleRequestsOK'
  <2>1. pc'[w] = form[1] /\ task'[w] = [id |-> id, row |-> row] => ScheduleTaskOK(w)'
    BY <1>1 DEF ScheduleTaskOK, Forms
  <2>. QED BY <1>1, <2>1, ScheduleBeginKeeps DEF ScheduleInv, Form
<1>. QED BY <1>2 DEF Form, calendarVars, curriculumVars, scheduleVars, ScheduleInv,
            CalendarTypeOK,
                     CurrentYears, CurriculumTypeOK, ScheduleOK, YearsInUse, Exist

LEMMA SaveEnds ==
  ASSUME ScheduleInv, NEW w \in Workers, NEW form \in Forms, End(w, form[1])
  PROVE  ScheduleRequestsOK' /\ task[w].id \in form[2] /\ task[w].row \in form[3]
<1>1. task[w] \in RowOf(form[2], form[3])
  BY DEF Forms, End, Keep, Step, ScheduleInv, ScheduleRequestsOK, ScheduleTaskOK
<1>2. ScheduleRequestsOK'
  BY ScheduleEndKeeps DEF ScheduleInv
<1>. QED BY <1>1, <1>2 DEF RowOf

LEMMA FormsKeep ==
  ASSUME ScheduleInv, NEW w \in Workers,
         \/ /\ \/ \E c \in Cycles, row \in CycleRow : CreateCycle(w, c, row) \/ EditCycle(w, c, row)
               \/ \E k \in Courses, row \in CourseRow : CourseForm(w, k, row)
               \/ \E g \in Grades, row \in GradeRow : GradeForm(w, g, row)
               \/ \E s \in Subjects, row \in SubjectRow : SubjectForm(w, s, row)
            /\ UNCHANGED scheduleVars
         \/ \E c \in Classes, row \in ClassRow : CreateClass(w, c, row) \/ EditClass(w, c, row)
         \/ \E s \in Slots, row \in SlotRow : SlotRequest(w, s, row)
  PROVE  ScheduleInv'
<1>1. PICK form \in Forms :
        /\ UNCHANGED scheduleVars
        /\ \E id \in form[2], row \in form[3] : Form(w, form[1], id, row)
  BY DEF CreateCycle, EditCycle, CourseForm, GradeForm, SubjectForm, CreateClass,
         EditClass, SlotRequest, Forms
<1>2. PICK id \in form[2], row \in form[3] : Form(w, form[1], id, row)
  BY <1>1
<1>. QED BY <1>1, <1>2, FormKeeps

LEMMA DeletesKeep ==
  ASSUME ScheduleInv, NEW w \in Workers, UNCHANGED scheduleVars,
         \/ \E c \in Cycles : DeleteCycle(w, c)
         \/ \E k \in Courses : DeleteCourse(w, k, Kept.courses, Kept.grades)
         \/ \E g \in Grades : DeleteGrade(w, g, Kept.grades)
         \/ \E s \in Subjects : DeleteSubject(w, s, Kept.subjects)
  PROVE  ScheduleInv'
<1>. USE DEF scheduleVars, calendarVars
<1>1. ScheduleRequestsOK'
  BY ScheduleAtOnceKeeps DEF ScheduleInv, DeleteCycle, DeleteCourse, DeleteGrade,
     DeleteSubject
<1>2. CalendarTypeOK'
  BY DEF DeleteCycle, DeleteCourse, DeleteGrade, DeleteSubject, ScheduleInv,
         CalendarTypeOK, CurrentYears
<1>3. CASE \E c \in Cycles : DeleteCycle(w, c)
  <2>1. PICK c \in Cycles : DeleteCycle(w, c)
    BY <1>3
  <2>2. /\ DOMAIN cycles' = DOMAIN cycles \ {c} /\ \A k \in DOMAIN cycles' : cycles'[k] = cycles[k]
        /\ UNCHANGED <<courses, grades, subjects>>
    BY <2>1 DEF DeleteCycle, Without
  <2>3. CurriculumTypeOK'
    BY <2>1, <2>2 DEF ScheduleInv, CurriculumTypeOK, Exist, DeleteCycle
  <2>. QED BY <1>1, <1>2, <2>1, <2>2, <2>3 DEF ScheduleInv, ScheduleOK, YearsInUse, Exist,
              DeleteCycle
<1>4. CASE \E k \in Courses : DeleteCourse(w, k, Kept.courses, Kept.grades)
  <2>1. PICK k \in Courses : DeleteCourse(w, k, Kept.courses, Kept.grades)
    BY <1>4
  <2>2. /\ DOMAIN courses' = DOMAIN courses \ {k}
        /\ \A c \in DOMAIN courses' : courses'[c] = courses[c]
        /\ DOMAIN grades' = DOMAIN grades \ GradesOf(k)
        /\ \A g \in DOMAIN grades' : grades'[g] = grades[g]
        /\ UNCHANGED <<cycles, subjects, years>>
    BY <2>1 DEF DeleteCourse, Without
  <2>3. \A s \in DOMAIN subjects : subjects[s].course # k /\ subjects[s].grade \notin GradesOf(k)
    BY <2>1 DEF DeleteCourse
  <2>4. \A c \in DOMAIN classes : classes[c].course # k /\ classes[c].grade \notin GradesOf(k)
    BY <2>1 DEF DeleteCourse, Kept
  <2>5. CurriculumTypeOK'
    BY <2>2, <2>3 DEF ScheduleInv, CurriculumTypeOK, Exist, GradesOf
  <2>. QED BY <1>1, <1>2, <2>2, <2>4, <2>5 DEF ScheduleInv, ScheduleOK, YearsInUse, Exist
<1>5. CASE \E g \in Grades : DeleteGrade(w, g, Kept.grades)
  <2>1. PICK g \in Grades : DeleteGrade(w, g, Kept.grades)
    BY <1>5
  <2>2. /\ DOMAIN grades' = DOMAIN grades \ {g} /\ \A k \in DOMAIN grades' : grades'[k] = grades[k]
        /\ UNCHANGED <<cycles, courses, subjects, years>>
    BY <2>1 DEF DeleteGrade, Without
  <2>3. \A s \in DOMAIN subjects : subjects[s].grade # g
    BY <2>1 DEF DeleteGrade
  <2>4. \A c \in DOMAIN classes : classes[c].grade # g
    BY <2>1 DEF DeleteGrade, Kept
  <2>5. CurriculumTypeOK'
    BY <2>2, <2>3 DEF ScheduleInv, CurriculumTypeOK, Exist
  <2>. QED BY <1>1, <1>2, <2>2, <2>4, <2>5 DEF ScheduleInv, ScheduleOK, YearsInUse, Exist
<1>6. CASE \E s \in Subjects : DeleteSubject(w, s, Kept.subjects)
  <2>1. PICK s \in Subjects : DeleteSubject(w, s, Kept.subjects)
    BY <1>6
  <2>2. /\ DOMAIN subjects' = DOMAIN subjects \ {s}
        /\ \A k \in DOMAIN subjects' : subjects'[k] = subjects[k]
        /\ UNCHANGED <<cycles, courses, grades, years>>
    BY <2>1 DEF DeleteSubject, Without
  <2>3. \A o \in DOMAIN slots : slots[o].subject # s
    BY <2>1 DEF DeleteSubject, Kept
  <2>5. CurriculumTypeOK'
    BY <2>2, <2>3 DEF ScheduleInv, CurriculumTypeOK, Exist
  <2>. QED BY <1>1, <1>2, <2>2, <2>3, <2>5 DEF ScheduleInv, ScheduleOK, YearsInUse, Exist
<1>. QED BY <1>3, <1>4, <1>5, <1>6

LEMMA CurriculumSavesKeep ==
  ASSUME ScheduleInv, NEW w \in Workers, CurriculumStep(w), UNCHANGED scheduleVars
  PROVE  ScheduleInv'
<1>. USE DEF scheduleVars, calendarVars
<1>1. CalendarTypeOK'
  BY DEF CurriculumStep, SaveCycle, SaveCourse, SaveGrade, SaveSubject, ScheduleInv,
         CalendarTypeOK, CurrentYears
<1>. DEFINE id == task[w].id
            row == task[w].row
<1>3. CASE SaveCycle(w)
  <2>. DEFINE admitted == Unshared(cycles, id, row, {"order"})
  <2>1. /\ End(w, "cycle") /\ cycles' = Saved(w, cycles, admitted) /\ admitted \in BOOLEAN
        /\ UNCHANGED <<courses, grades, subjects, years>>
    BY <1>3 DEF SaveCycle, Unshared
  <2>. HIDE DEF admitted
  <2>2. ScheduleRequestsOK' /\ id \in Cycles /\ row \in CycleRow
    <3>1. <<"cycle", Cycles, CycleRow>> \in Forms
      BY DEF Forms
    <3>. QED BY <2>1, <3>1, SaveEnds
  <2>3. /\ DOMAIN cycles' = IF admitted THEN DOMAIN cycles \cup {id} ELSE DOMAIN cycles
        /\ \A k \in DOMAIN cycles' : cycles'[k] = IF admitted /\ k = id THEN row ELSE cycles[k]
    BY <2>1 DEF Saved, Put
  <2>. HIDE DEF id, row
  <2>4. CurriculumTypeOK'
    BY <2>1, <2>2, <2>3 DEF ScheduleInv, CurriculumTypeOK, Exist
  <2>. QED BY <1>1, <2>1, <2>2, <2>3, <2>4 DEF ScheduleInv, ScheduleOK, YearsInUse, Exist
<1>4. CASE SaveCourse(w)
  <2>. DEFINE admitted == row.cycle \in DOMAIN cycles
  <2>1. /\ End(w, "course") /\ courses' = Saved(w, courses, admitted) /\ admitted \in BOOLEAN
        /\ UNCHANGED <<cycles, grades, subjects, years>>
    BY <1>4 DEF SaveCourse
  <2>2. admitted => row.cycle \in DOMAIN cycles
    OBVIOUS
  <2>. HIDE DEF admitted
  <2>3. ScheduleRequestsOK' /\ id \in Courses /\ row \in CourseRow
    <3>1. <<"course", Courses, CourseRow>> \in Forms
      BY DEF Forms
    <3>. QED BY <2>1, <3>1, SaveEnds
  <2>4. /\ DOMAIN courses' = IF admitted THEN DOMAIN courses \cup {id} ELSE DOMAIN courses
        /\ \A k \in DOMAIN courses' : courses'[k] = IF admitted /\ k = id THEN row ELSE courses[k]
    BY <2>1 DEF Saved, Put
  <2>. HIDE DEF id, row
  <2>5. CurriculumTypeOK'
    BY <2>1, <2>2, <2>3, <2>4 DEF ScheduleInv, CurriculumTypeOK, Exist
  <2>. QED BY <1>1, <2>1, <2>3, <2>4, <2>5 DEF ScheduleInv, ScheduleOK, YearsInUse, Exist
<1>5. CASE SaveGrade(w)
  <2>. DEFINE admitted == /\ row.course \in DOMAIN courses
                          /\ Unshared(grades, id, row, {"course", "number"})
  <2>1. /\ End(w, "grade") /\ grades' = Saved(w, grades, admitted) /\ admitted \in BOOLEAN
        /\ UNCHANGED <<cycles, courses, subjects, years>>
    BY <1>5 DEF SaveGrade
  <2>2. admitted => row.course \in DOMAIN courses
    OBVIOUS
  <2>. HIDE DEF admitted
  <2>3. ScheduleRequestsOK' /\ id \in Grades /\ row \in GradeRow
    <3>1. <<"grade", Grades, GradeRow>> \in Forms
      BY DEF Forms
    <3>. QED BY <2>1, <3>1, SaveEnds
  <2>4. /\ DOMAIN grades' = IF admitted THEN DOMAIN grades \cup {id} ELSE DOMAIN grades
        /\ \A k \in DOMAIN grades' : grades'[k] = IF admitted /\ k = id THEN row ELSE grades[k]
    BY <2>1 DEF Saved, Put
  <2>. HIDE DEF id, row
  <2>5. CurriculumTypeOK'
    BY <2>1, <2>2, <2>3, <2>4 DEF ScheduleInv, CurriculumTypeOK, Exist
  <2>. QED BY <1>1, <2>1, <2>3, <2>4, <2>5 DEF ScheduleInv, ScheduleOK, YearsInUse, Exist
<1>6. CASE SaveSubject(w)
  <2>. DEFINE admitted == Exist(row) /\ row.cycle \in DOMAIN cycles
  <2>1. /\ End(w, "subject") /\ subjects' = Saved(w, subjects, admitted) /\ admitted \in BOOLEAN
        /\ UNCHANGED <<cycles, courses, grades, years>>
    BY <1>6 DEF SaveSubject, Exist
  <2>2. admitted => /\ row.course \in DOMAIN courses /\ row.grade \in DOMAIN grades
                    /\ row.cycle \in DOMAIN cycles
    BY DEF Exist
  <2>. HIDE DEF admitted
  <2>3. ScheduleRequestsOK' /\ id \in Subjects /\ row \in SubjectRow
    <3>1. <<"subject", Subjects, SubjectRow>> \in Forms
      BY DEF Forms
    <3>. QED BY <2>1, <3>1, SaveEnds
  <2>4. /\ DOMAIN subjects' = IF admitted THEN DOMAIN subjects \cup {id} ELSE DOMAIN subjects
        /\ \A k \in DOMAIN subjects' :
             subjects'[k] = IF admitted /\ k = id THEN row ELSE subjects[k]
    BY <2>1 DEF Saved, Put
  <2>. HIDE DEF id, row
  <2>5. CurriculumTypeOK'
    BY <2>1, <2>2, <2>3, <2>4 DEF ScheduleInv, CurriculumTypeOK, Exist
  <2>. QED BY <1>1, <2>1, <2>3, <2>4, <2>5 DEF ScheduleInv, ScheduleOK, YearsInUse, Exist
<1>. QED BY <1>3, <1>4, <1>5, <1>6 DEF CurriculumStep

LEMMA ScheduleKeeps ==
  ASSUME ScheduleInv, NEW w \in Workers,
         \/ SaveClass(w) \/ SaveSlot(w)
         \/ \E c \in Classes : DeleteClass(w, c)
         \/ \E s \in Slots : DeleteSlot(w, s)
  PROVE  ScheduleInv'
<1>. USE DEF calendarVars, curriculumVars
<1>1. CalendarTypeOK' /\ CurriculumTypeOK'
  BY DEF SaveClass, SaveSlot, DeleteClass, DeleteSlot, ScheduleInv, CalendarTypeOK,
         CurrentYears,
         CurriculumTypeOK, Exist
<1>. DEFINE id == task[w].id
            row == task[w].row
<1>2. CASE SaveClass(w)
  <2>. DEFINE admitted == row.year \in DOMAIN years /\ Exist(row)
  <2>1. /\ End(w, "class") /\ classes' = Saved(w, classes, admitted) /\ admitted \in BOOLEAN
        /\ UNCHANGED <<slots, years, courses, grades, subjects>>
    BY <1>2 DEF SaveClass, Exist
  <2>2. admitted => row.year \in DOMAIN years /\ row.course \in DOMAIN courses
                                            /\ row.grade \in DOMAIN grades
    BY DEF Exist
  <2>. HIDE DEF admitted
  <2>3. ScheduleRequestsOK' /\ id \in Classes /\ row \in ClassRow
    <3>1. <<"class", Classes, ClassRow>> \in Forms
      BY DEF Forms
    <3>. QED BY <2>1, <3>1, SaveEnds
  <2>4. /\ DOMAIN classes' = IF admitted THEN DOMAIN classes \cup {id} ELSE DOMAIN classes
        /\ \A k \in DOMAIN classes' : classes'[k] = IF admitted /\ k = id THEN row ELSE classes[k]
    BY <2>1 DEF Saved, Put
  <2>. HIDE DEF id, row
  <2>. QED BY <1>1, <2>1, <2>2, <2>3, <2>4 DEF ScheduleInv, ScheduleOK, YearsInUse, Exist
<1>3. CASE SaveSlot(w)
  <2>. DEFINE admitted == row.class \in DOMAIN classes /\ row.subject \in DOMAIN subjects
  <2>1. /\ End(w, "slot") /\ slots' = Saved(w, slots, admitted) /\ admitted \in BOOLEAN
        /\ UNCHANGED <<classes, years, courses, grades, subjects>>
    BY <1>3 DEF SaveSlot
  <2>2. admitted => row.class \in DOMAIN classes /\ row.subject \in DOMAIN subjects
    OBVIOUS
  <2>. HIDE DEF admitted
  <2>3. ScheduleRequestsOK' /\ id \in Slots /\ row \in SlotRow
    <3>1. <<"slot", Slots, SlotRow>> \in Forms
      BY DEF Forms
    <3>. QED BY <2>1, <3>1, SaveEnds
  <2>4. /\ DOMAIN slots' = IF admitted THEN DOMAIN slots \cup {id} ELSE DOMAIN slots
        /\ \A k \in DOMAIN slots' : slots'[k] = IF admitted /\ k = id THEN row ELSE slots[k]
    BY <2>1 DEF Saved, Put
  <2>. HIDE DEF id, row
  <2>. QED BY <1>1, <2>1, <2>2, <2>3, <2>4 DEF ScheduleInv, ScheduleOK, YearsInUse, Exist
<1>4. CASE \E c \in Classes : DeleteClass(w, c)
  <2>1. PICK c \in Classes : DeleteClass(w, c)
    BY <1>4
  <2>2. ScheduleRequestsOK'
    BY <2>1, ScheduleAtOnceKeeps DEF ScheduleInv, DeleteClass
  <2>3. /\ DOMAIN classes' = DOMAIN classes \ {c}
        /\ \A k \in DOMAIN classes' : classes'[k] = classes[k]
        /\ UNCHANGED <<years, courses, grades, subjects, slots>>
        /\ \A s \in DOMAIN slots : slots[s].class # c
    BY <2>1 DEF DeleteClass, Without
  <2>. QED BY <1>1, <2>2, <2>3 DEF ScheduleInv, ScheduleOK, YearsInUse, Exist
<1>5. CASE \E s \in Slots : DeleteSlot(w, s)
  <2>1. PICK s \in Slots : DeleteSlot(w, s)
    BY <1>5
  <2>2. ScheduleRequestsOK'
    BY <2>1, ScheduleAtOnceKeeps DEF ScheduleInv, DeleteSlot
  <2>3. /\ DOMAIN slots' = DOMAIN slots \ {s}
        /\ \A k \in DOMAIN slots' : slots'[k] = slots[k]
        /\ UNCHANGED <<years, courses, grades, subjects, classes>>
    BY <2>1 DEF DeleteSlot, Without
  <2>. QED BY <1>1, <2>2, <2>3 DEF ScheduleInv, ScheduleOK, YearsInUse, Exist
<1>. QED BY <1>2, <1>3, <1>4, <1>5

-----------------------------------------------------------------------------
LEMMA InitScheduleInv == ScheduleInit => ScheduleInv
<1>. SUFFICES ASSUME ScheduleInit PROVE ScheduleInv
  OBVIOUS
<1>1. ScheduleRequestsOK
  BY DEF ScheduleInit, CalendarInit, RequestsInit, ScheduleRequestsOK, ScheduleTaskOK,
         ScheduleSteps
<1>2. CalendarTypeOK
  <2>1. PICK known \in SUBSET Years, from \in Dates, to \in Dates :
          years = [y \in known |-> [from |-> from, to |-> to, current |-> FALSE]]
    BY DEF ScheduleInit, CalendarInit, RequestsInit
  <2>2. DOMAIN years = known /\ \A y \in known : years[y] \in YearRow /\ ~ years[y].current
    BY <2>1 DEF YearRow
  <2>3. terms = [t \in {} |-> None] /\ days = [h \in 1 .. Holidays |-> 0]
    BY DEF ScheduleInit, CalendarInit, RequestsInit
  <2>. QED BY <2>2, <2>3 DEF CalendarTypeOK, CurrentYears
<1>3. DOMAIN cycles \subseteq Cycles /\ \A c \in DOMAIN cycles : cycles[c] \in CycleRow
  BY DEF ScheduleInit, CurriculumInit, CycleRow
<1>4. /\ DOMAIN courses \subseteq Courses /\ \A k \in DOMAIN courses : courses[k] \in CourseRow
      /\ \A k \in DOMAIN courses : courses[k].cycle \in DOMAIN cycles
  BY DEF ScheduleInit, CurriculumInit, CourseRow
<1>5. /\ DOMAIN grades \subseteq Grades /\ \A g \in DOMAIN grades : grades[g] \in GradeRow
      /\ \A g \in DOMAIN grades : grades[g].course \in DOMAIN courses
  BY <1>4 DEF ScheduleInit, CurriculumInit, GradeRow
<1>6. /\ DOMAIN subjects \subseteq Subjects /\ \A s \in DOMAIN subjects : subjects[s] \in SubjectRow
      /\ \A s \in DOMAIN subjects : Exist(subjects[s]) /\ subjects[s].cycle \in DOMAIN cycles
  BY DEF ScheduleInit, CurriculumInit, OfCourse, Exist
<1>7. ScheduleOK
  <2>1. PICK known \in SUBSET Classes, row \in ClassRow :
          /\ known # {} => row.year \in DOMAIN years /\ OfCourse(row)
          /\ classes = [c \in known |-> row]
    BY DEF ScheduleInit
  <2>2. DOMAIN slots = {}
    BY DEF ScheduleInit
  <2>. QED BY <2>1, <2>2 DEF ScheduleOK, YearsInUse, OfCourse, Exist
<1>. QED BY <1>1, <1>2, <1>3, <1>4, <1>5, <1>6, <1>7 DEF ScheduleInv, CurriculumTypeOK

LEMMA NextScheduleInv == ScheduleInv /\ [ScheduleNext]_schoolVars => ScheduleInv'
<1>1. ASSUME ScheduleInv, UNCHANGED schoolVars PROVE ScheduleInv'
  BY <1>1 DEF schoolVars, calendarVars, curriculumVars, scheduleVars, requestVars, ScheduleInv,
     CalendarTypeOK,
     CurrentYears, CurriculumTypeOK, Exist, ScheduleOK, YearsInUse, ScheduleRequestsOK, ScheduleTaskOK
<1>2. ASSUME ScheduleInv, NEW w \in Workers, ScheduleRequest(w) PROVE ScheduleInv'
  <2>1. CASE CalendarRequest(w, YearsInUse) /\ UNCHANGED <<curriculumVars, scheduleVars>>
    <3>1. ASSUME NEW y \in Years,
                 \/ MarkRequest(w, y) \/ DeleteYear(w, y, YearsInUse)
                 \/ \E from, to \in Dates : CreateYear(w, y, from, to) \/ EditYear(w, y, from, to)
          PROVE  ScheduleInv'
      BY <1>2, <2>1, <3>1, YearsKeep
    <3>2. ASSUME NEW t \in Terms,
                 \/ DeleteTerm(w, t)
                 \/ \E row \in TermRow : CreateTerm(w, t, row) \/ EditTerm(w, t, row)
          PROVE  ScheduleInv'
      BY <1>2, <2>1, <3>2, TermsKeep
    <3>3. CASE SeedRequest(w) \/ \E h \in 1 .. Holidays : CreateDay(w, h) \/ DeleteDay(w, h)
      BY <1>2, <2>1, <3>3, DaysKeep
    <3>. QED BY <2>1, <3>1, <3>2, <3>3 DEF CalendarRequest
  <2>2. CASE CurriculumRequest(w, Kept) /\ UNCHANGED scheduleVars
    BY <1>2, <2>2, FormsKeep, DeletesKeep DEF CurriculumRequest
  <2>3. CASE \E c \in Classes :
               \/ DeleteClass(w, c)
               \/ \E row \in ClassRow : CreateClass(w, c, row) \/ EditClass(w, c, row)
    BY <1>2, <2>3, FormsKeep, ScheduleKeeps
  <2>4. CASE \E s \in Slots : DeleteSlot(w, s) \/ \E row \in SlotRow : SlotRequest(w, s, row)
    BY <1>2, <2>4, FormsKeep, ScheduleKeeps
  <2>. QED BY <1>2, <2>1, <2>2, <2>3, <2>4 DEF ScheduleRequest
<1>3. ASSUME ScheduleInv, NEW w \in Workers, CalendarStep(w),
             UNCHANGED <<curriculumVars, scheduleVars>>
      PROVE  ScheduleInv'
  <2>1. CASE Seed(w) \/ AddDay(w)
    BY <1>3, <2>1, SeedKeeps
  <2>2. CASE \/ Unmark(w) \/ Mark(w) \/ SaveYear(w) \/ SaveTerm(w)
             \/ Dies(w) /\ UNCHANGED calendarVars
    BY <1>3, <2>2, CalendarSavesKeep
  <2>. QED BY <1>3, <2>1, <2>2 DEF CalendarStep
<1>4. ASSUME ScheduleInv, NEW w \in Workers, CurriculumStep(w), UNCHANGED scheduleVars
      PROVE  ScheduleInv'
  BY <1>4, CurriculumSavesKeep
<1>5. ASSUME ScheduleInv, NEW w \in Workers, SaveClass(w) \/ SaveSlot(w) PROVE ScheduleInv'
  BY <1>5, ScheduleKeeps
<1>. QED BY <1>1, <1>2, <1>3, <1>4, <1>5 DEF ScheduleNext

\* Rows are what the screens and the Django Admin store, references exist and at
\* most one year is current, in every state of Horario.
THEOREM ScheduleTypeCorrect == ScheduleSpec => []ScheduleTypeOK
<1>1. ScheduleInv => ScheduleTypeOK
  BY DEF ScheduleInv, ScheduleTypeOK, ScheduleOK
<1>. QED BY InitScheduleInv, NextScheduleInv, <1>1, PTL DEF ScheduleSpec

-----------------------------------------------------------------------------
(* Clashes.                                                                   *)

\* The slots of a cell, those that occupy a teacher, a room or a class at one
\* time, and those that the requests past the check will put there.
Fields == {"teacher", "room", "class"}

InCell(row, day, hour, field, v) == At(day, hour, row) /\ row[field] = v

Occupying(day, hour, field, v) == {s \in DOMAIN slots : InCell(slots[s], day, hour, field, v)}
Coming(day, hour, field, v) ==
  {w \in Workers : pc[w] = "slot" /\ InCell(task[w].row, day, hour, field, v)}
Cell(day, hour, field, v) ==
  Occupying(day, hour, field, v) \cup {task[w].id : w \in Coming(day, hour, field, v)}

CellOK(day, hour, field, v) ==
  /\ IsFiniteSet(Cell(day, hour, field, v))
  /\ Cardinality(Cell(day, hour, field, v)) <= Cardinality(Workers)

\* The inductive invariant of the cells: a new request has found no other slot in
\* its cells, so the requests on their way there are all that may be in them.
ClashInv == \A day \in Days, hour \in Hours, field \in Fields : \A v : CellOK(day, hour, field, v)

LEMMA ImageIsSmall ==
  ASSUME NEW P \in SUBSET Workers, NEW t
  PROVE  /\ IsFiniteSet({t[w].id : w \in P})
         /\ Cardinality({t[w].id : w \in P}) <= Cardinality(Workers)
<1>1. IsFiniteSet(P) /\ Cardinality(P) <= Cardinality(Workers)
  BY FS_Subset, ScheduleAssumption
<1>. DEFINE f == [w \in P |-> t[w].id]
            S == {t[w].id : w \in P}
<1>2. f \in Surjection(P, S)
  BY DEF Surjection
<1>3. IsFiniteSet(S) /\ Cardinality(S) <= Cardinality(P)
  BY <1>1, <1>2, FS_Surjection
<1>4. Cardinality(P) \in Nat /\ Cardinality(S) \in Nat /\ Cardinality(Workers) \in Nat
  BY <1>1, <1>3, FS_CardinalityType, ScheduleAssumption
<1>. QED BY <1>1, <1>3, <1>4

\* A cell that only loses.
LEMMA CellShrinks ==
  ASSUME ClashInv, NEW day \in Days, NEW hour \in Hours, NEW field \in Fields,
         NEW v,
         Cell(day, hour, field, v)' \subseteq Cell(day, hour, field, v)
  PROVE  CellOK(day, hour, field, v)'
<1>1. CellOK(day, hour, field, v)
  BY DEF ClashInv
<1>2. /\ IsFiniteSet(Cell(day, hour, field, v)')
      /\ Cardinality(Cell(day, hour, field, v)') <= Cardinality(Cell(day, hour, field, v))
      /\ Cardinality(Cell(day, hour, field, v)') \in Nat
      /\ Cardinality(Cell(day, hour, field, v)) \in Nat /\ Cardinality(Workers) \in Nat
  BY <1>1, FS_Subset, FS_CardinalityType, ScheduleAssumption DEF CellOK
<1>. QED BY <1>1, <1>2 DEF CellOK

\* A new request has found its cells empty of others.
LEMMA RequestKeepsCells ==
  ASSUME ScheduleInv, ClashInv, NEW w \in Workers, NEW s \in Slots, NEW row \in SlotRow,
         SlotRequest(w, s, row)
  PROVE  ClashInv'
<1>. SUFFICES ASSUME NEW day \in Days, NEW hour \in Hours, NEW field \in Fields, NEW v
              PROVE  CellOK(day, hour, field, v)'
  BY DEF ClashInv
<1>1. /\ Conflicts(s, row) = {} /\ slots' = slots
      /\ pc' = [pc EXCEPT ![w] = "slot"] /\ task' = [task EXCEPT ![w] = [id |-> s, row |-> row]]
      /\ DOMAIN pc = Workers /\ DOMAIN task = Workers
  BY DEF SlotRequest, Form, Begin, Counted, Keep, Step, scheduleVars, ScheduleInv,
         ScheduleRequestsOK
<1>. DEFINE Others == Coming(day, hour, field, v) \ {w}
<1>2. Coming(day, hour, field, v)' =
        IF InCell(row, day, hour, field, v) THEN Others \cup {w} ELSE Others
  BY <1>1 DEF Coming, InCell
<1>3. /\ Occupying(day, hour, field, v)' = Occupying(day, hour, field, v)
      /\ \A o \in Others : task'[o] = task[o]
  BY <1>1 DEF Occupying, InCell, Coming
<1>4. CASE InCell(row, day, hour, field, v)
  <2>1. Occupying(day, hour, field, v) \subseteq {s}
    <3>. SUFFICES ASSUME NEW o \in Occupying(day, hour, field, v), o # s PROVE FALSE
      OBVIOUS
    <3>1. /\ o \in DOMAIN slots \ {s} /\ slots[o] \in SlotRow
          /\ At(day, hour, slots[o]) /\ slots[o][field] = v
      BY DEF Occupying, InCell, ScheduleInv, ScheduleOK
    <3>2. hour \in Int /\ \A r \in SlotRow : r.from \in Int /\ r.to \in Int
      BY ScheduleAssumption DEF SlotRow
    <3>3. Overlap(slots[o], row) /\ slots[o].day = row.day
      BY <1>4, <3>1, <3>2 DEF InCell, At, Overlap
    <3>4. Shared(slots[o], row)
      BY <1>4, <3>1 DEF InCell, Shared, Fields
    <3>. QED BY <1>1, <3>1, <3>3, <3>4 DEF Conflicts
  <2>. DEFINE P == Others \cup {w}
              S == {task'[p].id : p \in P}
  <2>2. P \in SUBSET Workers
    BY DEF Coming
  <2>3. Cell(day, hour, field, v)' = S
    <3>1. Cell(day, hour, field, v)' = Occupying(day, hour, field, v) \cup S
      BY <1>2, <1>3, <1>4 DEF Cell
    <3>2. s \in S
      BY <1>1
    <3>. HIDE DEF S
    <3>. QED BY <2>1, <3>1, <3>2
  <2>4. IsFiniteSet(S) /\ Cardinality(S) <= Cardinality(Workers)
    BY <2>2, ImageIsSmall
  <2>. QED BY <2>3, <2>4 DEF CellOK
<1>5. CASE ~ InCell(row, day, hour, field, v)
  <2>1. Cell(day, hour, field, v)' \subseteq Cell(day, hour, field, v)
    BY <1>2, <1>3, <1>5 DEF Cell
  <2>. QED BY <2>1, CellShrinks
<1>. QED BY <1>4, <1>5

\* A save moves a slot to the cell its request has counted in.
LEMMA SaveKeepsCells ==
  ASSUME ScheduleInv, ClashInv, NEW w \in Workers, SaveSlot(w)
  PROVE  ClashInv'
<1>. SUFFICES ASSUME NEW day \in Days, NEW hour \in Hours, NEW field \in Fields, NEW v
              PROVE  CellOK(day, hour, field, v)'
  BY DEF ClashInv
<1>. DEFINE id == task[w].id
            row == task[w].row
<1>1. /\ pc[w] = "slot" /\ DOMAIN pc = Workers /\ DOMAIN task = Workers
      /\ pc' = [pc EXCEPT ![w] = "idle"] /\ task' = [task EXCEPT ![w] = None]
  BY DEF SaveSlot, End, Keep, Step, ScheduleInv, ScheduleRequestsOK
<1>2. \/ slots' = slots
      \/ /\ DOMAIN slots' = DOMAIN slots \cup {id}
         /\ \A k \in DOMAIN slots' : slots'[k] = IF k = id THEN row ELSE slots[k]
  BY DEF SaveSlot, Saved, Put
<1>3. Coming(day, hour, field, v)' = Coming(day, hour, field, v) \ {w}
  BY <1>1 DEF Coming, InCell
<1>4. \A o \in Coming(day, hour, field, v) \ {w} : task'[o] = task[o]
  BY <1>1 DEF Coming
<1>5. Occupying(day, hour, field, v)' \subseteq Cell(day, hour, field, v)
  <2>1. ASSUME NEW o \in Occupying(day, hour, field, v)'
        PROVE  o \in Cell(day, hour, field, v)
    <3>1. o \in DOMAIN slots' /\ InCell(slots'[o], day, hour, field, v)
      BY <2>1 DEF Occupying, InCell
    <3>2. CASE o \in DOMAIN slots /\ slots'[o] = slots[o]
      BY <3>1, <3>2 DEF Cell, Occupying
    <3>3. CASE o = id /\ slots'[o] = row
      <4>1. w \in Coming(day, hour, field, v)
        BY <1>1, <3>1, <3>3 DEF Coming
      <4>. QED BY <3>3, <4>1 DEF Cell
    <3>. QED BY <1>2, <3>1, <3>2, <3>3
  <2>. QED BY <2>1
<1>6. Cell(day, hour, field, v)' \subseteq Cell(day, hour, field, v)
  BY <1>3, <1>4, <1>5 DEF Cell
<1>. QED BY <1>6, CellShrinks

\* Every other step takes slots away, or requests, or changes neither.
Calm ==
  /\ DOMAIN slots' \subseteq DOMAIN slots /\ \A s \in DOMAIN slots' : slots'[s] = slots[s]
  /\ \A w \in Workers : pc'[w] = "slot" => pc[w] = "slot" /\ task'[w] = task[w]

LEMMA CalmKeepsCells ==
  ASSUME ClashInv, Calm PROVE ClashInv'
<1>. SUFFICES ASSUME NEW day \in Days, NEW hour \in Hours, NEW field \in Fields, NEW v
              PROVE  CellOK(day, hour, field, v)'
  BY DEF ClashInv
<1>1. Occupying(day, hour, field, v)' \subseteq Occupying(day, hour, field, v)
  BY DEF Occupying, InCell, Calm
<1>2. /\ Coming(day, hour, field, v)' \subseteq Coming(day, hour, field, v)
      /\ \A w \in Coming(day, hour, field, v)' : task'[w] = task[w]
  BY DEF Coming, InCell, Calm
<1>3. Cell(day, hour, field, v)' \subseteq Cell(day, hour, field, v)
  BY <1>1, <1>2 DEF Cell
<1>. QED BY <1>3, CellShrinks

LEMMA BeginIsCalm ==
  ASSUME ScheduleInv, NEW w \in Workers, NEW to, NEW t, to # "slot",
         Begin(w, to, t) \/ End(w, to) \/ AtOnce(w),
         slots' = slots \/ \E s : slots' = Without(slots, {s})
  PROVE  Calm
<1>1. DOMAIN pc = Workers /\ DOMAIN task = Workers
  BY DEF ScheduleInv, ScheduleRequestsOK
<1>2. DOMAIN slots' \subseteq DOMAIN slots /\ \A s \in DOMAIN slots' : slots'[s] = slots[s]
  BY DEF Without
<1>. QED BY <1>1, <1>2 DEF Calm, Begin, Counted, Keep, End, AtOnce, Step

LEMMA CalendarIsCalm ==
  ASSUME ScheduleInv, NEW w \in Workers, scheduleVars' = scheduleVars,
         CalendarRequest(w, YearsInUse) \/ CalendarStep(w)
  PROVE  Calm
<1>. USE DEF scheduleVars
<1>1. CASE CalendarRequest(w, YearsInUse)
  <2>1. AtOnce(w) \/ \E to \in ScheduleSteps \ {"slot"} : \E t : Begin(w, to, t)
    BY <1>1 DEF ScheduleSteps, CalendarRequest, MarkRequest, DeleteYear, CreateYear,
       EditYear, DeleteTerm,
       CreateTerm, EditTerm, SeedRequest, CreateDay, DeleteDay
  <2>. QED BY <2>1, BeginIsCalm
<1>2. CASE Unmark(w) \/ Seed(w) \/ AddDay(w) \/ Dies(w)
  BY <1>2 DEF Unmark, Seed, AddDay, Dies, End, Step, Keep, Calm, ScheduleInv, ScheduleRequestsOK
<1>3. CASE Mark(w) \/ SaveYear(w) \/ SaveTerm(w)
  BY <1>3, BeginIsCalm DEF Mark, SaveYear, SaveTerm
<1>. QED BY <1>1, <1>2, <1>3 DEF CalendarStep

LEMMA CurriculumIsCalm ==
  ASSUME ScheduleInv, NEW w \in Workers, scheduleVars' = scheduleVars,
         CurriculumRequest(w, Kept) \/ CurriculumStep(w)
  PROVE  Calm
<1>. USE DEF scheduleVars
<1>1. CASE CurriculumRequest(w, Kept)
  <2>1. AtOnce(w) \/ \E to \in ScheduleSteps \ {"slot"} : \E t : Begin(w, to, t)
    BY <1>1 DEF ScheduleSteps, CurriculumRequest, DeleteCycle, DeleteCourse, DeleteGrade,
       DeleteSubject,
       CreateCycle, EditCycle, CourseForm, GradeForm, SubjectForm, Form
  <2>. QED BY <2>1, BeginIsCalm
<1>2. CASE CurriculumStep(w)
  BY <1>2, BeginIsCalm DEF CurriculumStep, SaveCycle, SaveCourse, SaveGrade, SaveSubject
<1>. QED BY <1>1, <1>2

LEMMA ClassesAreCalm ==
  ASSUME ScheduleInv, NEW w \in Workers,
         \/ SaveClass(w)
         \/ \E c \in Classes :
              \/ DeleteClass(w, c)
              \/ \E row \in ClassRow : CreateClass(w, c, row) \/ EditClass(w, c, row)
         \/ \E s \in Slots : DeleteSlot(w, s)
  PROVE  Calm
<1>1. CASE SaveClass(w)
  BY <1>1, BeginIsCalm DEF SaveClass
<1>2. CASE \E c \in Classes, row \in ClassRow : CreateClass(w, c, row) \/ EditClass(w, c, row)
  <2>1. slots' = slots /\ \E t : Begin(w, "class", t)
    BY <1>2 DEF CreateClass, EditClass, Form, scheduleVars
  <2>. QED BY <2>1, BeginIsCalm
<1>3. CASE \E c \in Classes : DeleteClass(w, c)
  <2>1. slots' = slots /\ AtOnce(w)
    BY <1>3 DEF DeleteClass
  <2>. QED BY <2>1, BeginIsCalm
<1>4. CASE \E s \in Slots : DeleteSlot(w, s)
  <2>1. PICK s \in Slots : DeleteSlot(w, s)
    BY <1>4
  <2>2. AtOnce(w) /\ slots' = Without(slots, {s})
    BY <2>1 DEF DeleteSlot
  <2>3. \E o : slots' = Without(slots, {o})
    BY <2>2, Zenon
  <2>4. "idle" # "slot"
    OBVIOUS
  <2>. QED BY <2>2, <2>3, <2>4, BeginIsCalm
<1>. QED BY <1>1, <1>2, <1>3, <1>4

LEMMA NextClashInv == ScheduleInv /\ ClashInv /\ [ScheduleNext]_schoolVars => ClashInv'
<1>1. ASSUME ScheduleInv, ClashInv, UNCHANGED schoolVars PROVE ClashInv'
  BY <1>1, CalmKeepsCells DEF schoolVars, scheduleVars, requestVars, Calm, ScheduleInv
<1>2. ASSUME ScheduleInv, ClashInv, NEW w \in Workers,
             \/ ScheduleRequest(w)
             \/ CalendarStep(w) /\ UNCHANGED <<curriculumVars, scheduleVars>>
             \/ CurriculumStep(w) /\ UNCHANGED scheduleVars
             \/ SaveClass(w) \/ SaveSlot(w)
      PROVE  ClashInv'
  <2>1. CASE \E s \in Slots, row \in SlotRow : SlotRequest(w, s, row)
    BY <1>2, <2>1, RequestKeepsCells
  <2>2. CASE SaveSlot(w)
    BY <1>2, <2>2, SaveKeepsCells
  <2>3. CASE ~ (SaveSlot(w) \/ \E s \in Slots, row \in SlotRow : SlotRequest(w, s, row))
    <3>1. Calm
      BY <1>2, <2>3, CalendarIsCalm, CurriculumIsCalm, ClassesAreCalm DEF ScheduleRequest
    <3>. QED BY <1>2, <3>1, CalmKeepsCells DEF ScheduleInv
  <2>. QED BY <2>1, <2>2, <2>3
<1>. QED BY <1>1, <1>2 DEF ScheduleNext

\* RF-CURR-06: however requests race between validate_schedule_conflict and save(),
\* no teacher, room or class is at one time in more slots than there are workers.
THEOREM ClashesAreBounded == ScheduleSpec => []ClashesBounded
<1>1. ScheduleInit => ClashInv
  <2>. SUFFICES ASSUME ScheduleInit, NEW day \in Days, NEW hour \in Hours, NEW field \in Fields,
                       NEW v
                PROVE  CellOK(day, hour, field, v)
    BY DEF ClashInv
  <2>1. Cell(day, hour, field, v) = {}
    BY DEF ScheduleInit, CalendarInit, RequestsInit, Cell, Occupying, Coming
  <2>. QED BY <2>1, FS_EmptySet, FS_CardinalityType, ScheduleAssumption DEF CellOK
<1>2. ClashInv => ClashesBounded
  <2>. SUFFICES ASSUME ClashInv PROVE ClashesBounded
    OBVIOUS
  <2>. SUFFICES \A day \in Days, hour \in Hours : \A field \in {"teacher", "room", "class"} :
                  \A v \in Teachers \cup Rooms \cup Classes :
                    Cardinality({s \in DOMAIN slots : At(day, hour, slots[s]) /\ slots[s][field] = v})
                      <= Cardinality(Workers)
    BY Zenon DEF ClashesBounded
  <2>. TAKE day \in Days, hour \in Hours
  <2>. TAKE field \in {"teacher", "room", "class"}
  <2>. TAKE v \in Teachers \cup Rooms \cup Classes
  <2>. DEFINE O == {s \in DOMAIN slots : At(day, hour, slots[s]) /\ slots[s][field] = v}
              C == Cell(day, hour, field, v)
  <2>1. O \subseteq C /\ IsFiniteSet(C) /\ Cardinality(C) <= Cardinality(Workers)
    BY DEF Cell, Occupying, InCell, ClashInv, CellOK, Fields
  <2>. HIDE DEF O, C
  <2>2. /\ Cardinality(O) <= Cardinality(C)
        /\ Cardinality(O) \in Nat /\ Cardinality(C) \in Nat /\ Cardinality(Workers) \in Nat
    BY <2>1, FS_Subset, FS_CardinalityType, ScheduleAssumption
  <2>3. Cardinality(O) <= Cardinality(Workers)
    BY <2>1, <2>2
  <2>. QED BY <2>3 DEF O
<1>. QED BY InitScheduleInv, NextScheduleInv, NextClashInv, <1>1, <1>2, PTL DEF ScheduleSpec

-----------------------------------------------------------------------------
(* Requests that run alone.                                                   *)

\* What such a request has read, or has checked, is still so.
ScheduleAloneOK(w) ==
  LET t == task[w]
  IN /\ \A v \in Workers \ {w} : pc[v] = "idle"
     /\ pc[w] \in {"unmark", "mark"} => t.id \in DOMAIN years
     /\ pc[w] = "mark" => CurrentYears = {}
     /\ pc[w] = "year" => t.id \in DOMAIN years /\ t.row.current = years[t.id].current
     /\ pc[w] = "term" => /\ t.row.year \in DOMAIN years
                          /\ Within(t.row.from, t.row.to, years[t.row.year])
     /\ pc[w] \in {"subject", "class"} => OfCourse(t.row)
     /\ pc[w] = "slot" => Clean(t.row) /\ Conflicts(t.id, t.row) = {}
     /\ pc[w] \in {"seed", "day"} => \A h \in 1 .. t.next - 1 : days[h] = 1
     /\ pc[w] = "day" => days[t.next] = 0

ScheduleAloneInv ==
  /\ requests \in Nat /\ crashes \in Nat
  /\ \A w \in Workers : IF pc[w] = "idle" THEN alone[w] ELSE alone[w] => ScheduleAloneOK(w)

ScheduleStep(w) ==
  \/ ScheduleRequest(w)
  \/ CalendarStep(w) /\ UNCHANGED <<curriculumVars, scheduleVars>>
  \/ CurriculumStep(w) /\ UNCHANGED scheduleVars
  \/ SaveClass(w) \/ SaveSlot(w)

\* A request begins, or is one statement.
LEMMA RequestBegins ==
  ASSUME NEW w \in Workers, ScheduleRequest(w)
  PROVE  AtOnce(w) \/ \E to \in ScheduleSteps \ {"idle"} : \E t : Begin(w, to, t)
<1>1. CASE CalendarRequest(w, YearsInUse)
  BY <1>1 DEF ScheduleSteps, CalendarRequest, MarkRequest, DeleteYear, CreateYear,
     EditYear, DeleteTerm,
     CreateTerm, EditTerm, SeedRequest, CreateDay, DeleteDay
<1>2. CASE CurriculumRequest(w, Kept)
  BY <1>2 DEF ScheduleSteps, CurriculumRequest, DeleteCycle, DeleteCourse, DeleteGrade,
     DeleteSubject,
     CreateCycle, EditCycle, CourseForm, GradeForm, SubjectForm, Form
<1>3. CASE \/ \E c \in Classes :
                \/ DeleteClass(w, c)
                \/ \E row \in ClassRow : CreateClass(w, c, row) \/ EditClass(w, c, row)
           \/ \E s \in Slots : DeleteSlot(w, s) \/ \E row \in SlotRow : SlotRequest(w, s, row)
  BY <1>3 DEF ScheduleSteps, DeleteClass, CreateClass, EditClass, DeleteSlot,
     SlotRequest, Form
<1>. QED BY <1>1, <1>2, <1>3 DEF ScheduleRequest

\* A step is of the one worker that is not idle, or begins, or counts a request.
LEMMA IdleStep ==
  ASSUME ScheduleInv, ScheduleAloneInv, NEW v \in Workers, ScheduleStep(v), pc[v] = "idle"
  PROVE  /\ requests' # requests
         /\ \A w \in Workers \ {v} : pc'[w] = pc[w]
         /\ ScheduleRequest(v) /\ (pc' = pc \/ pc'[v] # "idle")
<1>1. ScheduleRequest(v)
  BY DEF ScheduleStep, CalendarStep, CurriculumStep, Unmark, Mark, SaveYear, SaveTerm, Seed,
         AddDay, Dies, End, Step, Keep, SaveCycle, SaveCourse, SaveGrade, SaveSubject, SaveClass,
         SaveSlot
<1>2. DOMAIN pc = Workers
  BY DEF ScheduleInv, ScheduleRequestsOK
<1>. QED BY <1>1, <1>2, RequestBegins DEF ScheduleAloneInv, AtOnce, Begin, Counted, Keep, Step

LEMMA CountersKeep ==
  ASSUME ScheduleAloneInv, NEW w \in Workers, ScheduleStep(w)
  PROVE  requests' \in Nat /\ crashes' \in Nat
<1>1. CASE ScheduleRequest(w)
  BY <1>1, RequestBegins DEF ScheduleAloneInv, AtOnce, Begin, Counted, Keep
<1>2. CASE CalendarStep(w)
  BY <1>2 DEF ScheduleAloneInv, CalendarStep, Unmark, Mark, SaveYear, SaveTerm, Seed, AddDay,
              Dies, End, Step, Keep
<1>3. CASE CurriculumStep(w) \/ SaveClass(w) \/ SaveSlot(w)
  BY <1>3 DEF ScheduleAloneInv, CurriculumStep, SaveCycle, SaveCourse, SaveGrade,
     SaveSubject, SaveClass, SaveSlot
<1>. QED BY <1>1, <1>2, <1>3 DEF ScheduleStep

\* What a request has read when it begins.
LEMMA AloneBegins ==
  ASSUME ScheduleInv, NEW w \in Workers, \A v \in Workers \ {w} : pc'[v] = "idle",
         ScheduleRequest(w), pc'[w] # "idle"
  PROVE  ScheduleAloneOK(w)'
<1>. USE DEF ScheduleSteps
<1>0. DOMAIN pc = Workers /\ DOMAIN task = Workers
  BY DEF ScheduleInv, ScheduleRequestsOK
<1>1. CASE AtOnce(w)
  BY <1>1 DEF AtOnce
<1>2. CASE \E y \in Years : MarkRequest(w, y)
  BY <1>0, <1>2 DEF MarkRequest, Begin, Counted, Keep, Step, ScheduleAloneOK, calendarVars
<1>3. CASE \E y \in Years, from, to \in Dates : EditYear(w, y, from, to)
  BY <1>0, <1>3 DEF EditYear, Begin, Counted, Keep, Step, ScheduleAloneOK, calendarVars
<1>4. CASE \E t \in Terms, row \in TermRow : CreateTerm(w, t, row)
  BY <1>0, <1>4 DEF CreateTerm, Begin, Counted, Keep, Step, ScheduleAloneOK, calendarVars
<1>5. CASE \E t \in Terms, row \in TermRow : EditTerm(w, t, row)
  <2>1. PICK t \in Terms, row \in TermRow : EditTerm(w, t, row)
    BY <1>5
  <2>2. row.year \in DOMAIN years /\ Within(row.from, row.to, years[row.year])
    BY <2>1 DEF EditTerm, ScheduleInv, CalendarTypeOK
  <2>. QED BY <1>0, <2>1, <2>2 DEF EditTerm, Begin, Counted, Keep, Step, ScheduleAloneOK,
                                   calendarVars
<1>6. CASE SeedRequest(w)
  BY <1>0, <1>6 DEF SeedRequest, Begin, Counted, Keep, Step, ScheduleAloneOK
<1>7. CASE /\ \/ \E c \in Cycles, row \in CycleRow : CreateCycle(w, c, row) \/ EditCycle(w, c, row)
              \/ \E k \in Courses, row \in CourseRow : CourseForm(w, k, row)
              \/ \E g \in Grades, row \in GradeRow : GradeForm(w, g, row)
  BY <1>0, <1>7 DEF CreateCycle, EditCycle, CourseForm, GradeForm, Form, Begin, Counted, Keep,
                    Step, ScheduleAloneOK
<1>8. CASE \/ \E s \in Subjects, row \in SubjectRow : SubjectForm(w, s, row)
           \/ \E c \in Classes, row \in ClassRow : CreateClass(w, c, row) \/ EditClass(w, c, row)
  BY <1>0, <1>8 DEF SubjectForm, CreateClass, EditClass, Form, Begin, Counted, Keep, Step,
                    ScheduleAloneOK, OfCourse, curriculumVars
<1>9. CASE \E s \in Slots, row \in SlotRow : SlotRequest(w, s, row)
  BY <1>0, <1>9 DEF SlotRequest, Form, Begin, Counted, Keep, Step, ScheduleAloneOK, Clean,
                    Conflicts, curriculumVars, scheduleVars
<1>. QED
  BY <1>1, <1>2, <1>3, <1>4, <1>5, <1>6, <1>7, <1>8, <1>9
  DEF ScheduleRequest, CalendarRequest, CurriculumRequest, DeleteYear, CreateYear, DeleteTerm,
      CreateDay,
      DeleteDay, DeleteCycle, DeleteCourse, DeleteGrade, DeleteSubject, DeleteClass, DeleteSlot

\* What remains so, from one statement of the request to the next.
LEMMA AloneGoesOn ==
  ASSUME ScheduleInv, NEW w \in Workers, ScheduleAloneOK(w),
         \A v \in Workers \ {w} : pc'[v] = "idle",
         ScheduleStep(w), pc[w] # "idle", pc'[w] # "idle"
  PROVE  ScheduleAloneOK(w)'
<1>0. DOMAIN pc = Workers /\ DOMAIN task = Workers /\ ScheduleTaskOK(w)
  BY DEF ScheduleInv, ScheduleRequestsOK
<1>1. CASE Unmark(w)
  <2>1. /\ DOMAIN years' = DOMAIN years
        /\ \A y \in DOMAIN years : years'[y] \in YearRow /\ ~ years'[y].current
    BY <1>1 DEF Unmark, ScheduleInv, CalendarTypeOK, YearRow
  <2>2. pc[w] = "unmark" /\ pc'[w] = "mark" /\ task'[w].id = task[w].id
    BY <1>0, <1>1 DEF Unmark, Step
  <2>. QED BY <2>1, <2>2 DEF ScheduleAloneOK, CurrentYears
<1>2. CASE Seed(w) /\ ~ End(w, "seed")
  <2>. DEFINE h == task[w].next
  <2>1. /\ h \in 1 .. Holidays /\ days[h] \in {0, 1} /\ task[w] \in [id : {None}, next : Nat]
        /\ days' = days
    BY <1>0, <1>2, CalendarAssumption DEF Seed, ScheduleTaskOK, ScheduleInv, CalendarTypeOK,
       calendarVars
  <2>2. \A k \in 1 .. h - 1 : days[k] = 1
    BY <1>2 DEF ScheduleAloneOK, Seed
  <2>3. /\ pc'[w] = IF days[h] = 0 THEN "day" ELSE "seed"
        /\ task'[w].next = IF days[h] = 0 THEN h ELSE h + 1
    BY <1>0, <1>2, <2>1 DEF Seed
  <2>. HIDE DEF h
  <2>. QED BY <2>1, <2>2, <2>3 DEF ScheduleAloneOK
<1>3. CASE AddDay(w)
  <2>. DEFINE h == task[w].next
  <2>1. h \in 1 .. Holidays /\ days[h] = 0 /\ task[w] \in [id : {None}, next : Nat] /\ pc[w] = "day"
        /\ days \in [1 .. Holidays -> Nat] /\ \A k \in 1 .. h - 1 : days[k] = 1
    BY <1>0, <1>3, CalendarAssumption DEF AddDay, Step, ScheduleTaskOK, ScheduleInv,
       CalendarTypeOK, ScheduleAloneOK
  <2>2. pc'[w] = "seed" /\ task'[w].next = h + 1 /\ days' = [days EXCEPT ![h] = 1]
    BY <1>0, <1>3, <2>1 DEF AddDay, Step
  <2>. HIDE DEF h
  <2>3. \A k \in 1 .. h : days'[k] = 1
    BY <2>1, <2>2
  <2>. QED BY <2>1, <2>2, <2>3 DEF ScheduleAloneOK
<1>4. ~ ScheduleRequest(w)
  BY RequestBegins DEF AtOnce, Begin, Counted, Keep, Step
<1>. QED
  BY <1>0, <1>1, <1>2, <1>3, <1>4
  DEF ScheduleStep, CalendarStep, CurriculumStep, Mark, SaveYear, SaveTerm, Dies, End, Step, Keep,
      SaveCycle, SaveCourse, SaveGrade, SaveSubject, SaveClass, SaveSlot, Seed

\* A request that is alone, before and after a step, has made the step.
LEMMA ScheduleStepIsOwn ==
  ASSUME ScheduleInv, ScheduleAloneInv, NEW v \in Workers, ScheduleStep(v), NEW w \in Workers,
         alone[w],
         pc[w] # "idle", pc'[w] # pc[w] \/ requests' = requests
  PROVE  v = w
<1>. SUFFICES ASSUME v # w PROVE FALSE
  OBVIOUS
<1>1. pc[v] = "idle"
  BY DEF ScheduleAloneInv, ScheduleAloneOK
<1>. QED BY <1>1, IdleStep

LEMMA NextScheduleAloneInv ==
  ASSUME ScheduleInv, ScheduleAloneInv, ScopedNext PROVE ScheduleAloneInv'
<1>1. PICK v \in Workers : ScheduleStep(v)
  BY DEF ScopedNext, AloneNext, ScheduleNext, ScheduleStep
<1>2. requests' \in Nat /\ crashes' \in Nat
  BY <1>1, CountersKeep
<1>3. ASSUME NEW w \in Workers
      PROVE  IF pc'[w] = "idle" THEN alone'[w] ELSE alone'[w] => ScheduleAloneOK(w)'
  <2>1. alone'[w] = \/ pc'[w] = "idle"
                    \/ /\ alone[w] /\ \A u \in Workers \ {w} : pc[u] = "idle" /\ pc'[u] = "idle"
                       /\ pc'[w] # pc[w] \/ requests' = requests
    BY DEF ScopedNext, AloneNext
  <2>. SUFFICES ASSUME pc'[w] # "idle", alone'[w] PROVE ScheduleAloneOK(w)'
    BY <2>1
  <2>2. /\ alone[w] /\ \A u \in Workers \ {w} : pc[u] = "idle" /\ pc'[u] = "idle"
        /\ pc'[w] # pc[w] \/ requests' = requests
    BY <2>1
  <2>3. CASE pc[w] = "idle"
    <3>1. v = w
      BY <1>1, <2>2, <2>3, IdleStep
    <3>. QED BY <1>1, <2>2, <2>3, <3>1, IdleStep, AloneBegins
  <2>4. CASE pc[w] # "idle"
    <3>1. v = w /\ ScheduleAloneOK(w)
      BY <1>1, <2>2, <2>4, ScheduleStepIsOwn DEF ScheduleAloneInv
    <3>. QED BY <1>1, <2>2, <2>4, <3>1, AloneGoesOn
  <2>. QED BY <2>3, <2>4
<1>. QED BY <1>2, <1>3 DEF ScheduleAloneInv

LEMMA ScheduleInvariant == ScopedSpec => [](ScheduleInv /\ ScheduleAloneInv)
<1>1. ScopedInit => ScheduleInv /\ ScheduleAloneInv
  <2>1. ScopedInit => ScheduleAloneInv
    BY DEF ScopedInit, AloneInit, ScheduleInit, CalendarInit, RequestsInit, ScheduleAloneInv
  <2>. QED BY <2>1, InitScheduleInv DEF ScopedInit, AloneInit
<1>2. ScheduleInv /\ ScheduleAloneInv /\ [ScopedNext]_scopedVars
        => (ScheduleInv /\ ScheduleAloneInv)'
  <2>1. ASSUME ScheduleInv, ScheduleAloneInv, UNCHANGED scopedVars PROVE ScheduleAloneInv'
    BY <2>1 DEF ScheduleAloneInv, ScheduleAloneOK, scopedVars, schoolVars, calendarVars,
                curriculumVars, scheduleVars, requestVars, CurrentYears, OfCourse, Clean, Conflicts
  <2>2. ScheduleInv /\ [ScopedNext]_scopedVars => ScheduleInv'
    BY NextScheduleInv DEF ScopedNext, scopedVars
  <2>. QED BY <2>1, <2>2, NextScheduleAloneInv
<1>. QED BY <1>1, <1>2, PTL DEF ScopedSpec

\* What ends alone is a statement of the request.
LEMMA EndIsOwn ==
  ASSUME ScheduleInv, ScheduleAloneInv, ScopedNext, NEW w \in Workers, NEW from, from # "idle",
         EndsAlone(w, from)
  PROVE  ScheduleAloneOK(w) /\ ScheduleStep(w) /\ ~ Dies(w) /\ pc[w] = from
<1>1. PICK v \in Workers : ScheduleStep(v)
  BY DEF ScopedNext, AloneNext, ScheduleNext, ScheduleStep
<1>2. v = w /\ ScheduleAloneOK(w)
  BY <1>1, ScheduleStepIsOwn DEF EndsAlone, ScheduleAloneInv
<1>3. ~ Dies(w)
  BY DEF Dies, End, Step, Keep, EndsAlone, ScheduleAloneInv
<1>. QED BY <1>1, <1>2, <1>3 DEF EndsAlone

\* The statement a step of the request stands for.
LEMMA StatementOf ==
  ASSUME NEW w \in Workers, ScheduleStep(w), ~ Dies(w), pc'[w] = "idle"
  PROVE  /\ pc[w] = "mark" => Mark(w)
         /\ pc[w] = "year" => SaveYear(w)
         /\ pc[w] = "term" => SaveTerm(w)
         /\ pc[w] = "seed" => Seed(w)
         /\ pc[w] = "subject" => SaveSubject(w)
         /\ pc[w] = "class" => SaveClass(w)
         /\ pc[w] = "slot" => SaveSlot(w)
<1>1. pc[w] # "idle" => ~ ScheduleRequest(w)
  BY RequestBegins DEF AtOnce, Begin, Counted, Keep, Step
<1>. QED BY <1>1 DEF ScheduleStep, CalendarStep, CurriculumStep, Unmark, Mark, SaveYear, SaveTerm,
                     Seed, AddDay, SaveCycle, SaveCourse, SaveGrade, SaveSubject, SaveClass,
                     SaveSlot, End, Keep, Step

\* A request of the academic years that runs alone leaves the year it marks as the
\* one current year, and the current year as it is when it edits one.
THEOREM AloneYearsAreMarked == ScopedSpec => AloneMarks
<1>. DEFINE P == \A w \in Workers :
                   /\ EndsAlone(w, "mark") => CurrentYears' = {task[w].id}
                   /\ EndsAlone(w, "year") => CurrentYears' = CurrentYears
<1>1. ASSUME ScheduleInv, ScheduleAloneInv, ScopedNext, NEW w \in Workers, EndsAlone(w, "mark")
      PROVE  CurrentYears' = {task[w].id}
  <2>1. ScheduleAloneOK(w) /\ Mark(w) /\ pc[w] = "mark"
    BY <1>1, EndIsOwn, StatementOf DEF EndsAlone
  <2>. DEFINE id == task[w].id
  <2>2. id \in DOMAIN years /\ CurrentYears = {}
    BY <2>1 DEF ScheduleAloneOK
  <2>3. years' = [years EXCEPT ![id].current = TRUE] /\ years[id] \in YearRow
    BY <1>1, <2>1, <2>2 DEF Mark, ScheduleInv, CalendarTypeOK
  <2>4. /\ DOMAIN years' = DOMAIN years /\ years'[id].current
        /\ \A y \in DOMAIN years \ {id} : years'[y] = years[y] /\ ~ years[y].current
    BY <2>2, <2>3 DEF CurrentYears, YearRow
  <2>. HIDE DEF id
  <2>5. CurrentYears' = {id}
    BY <2>2, <2>4 DEF CurrentYears
  <2>. QED BY <2>5 DEF id
<1>2. ASSUME ScheduleInv, ScheduleAloneInv, ScopedNext, NEW w \in Workers, EndsAlone(w, "year")
      PROVE  CurrentYears' = CurrentYears
  <2>1. ScheduleAloneOK(w) /\ SaveYear(w) /\ pc[w] = "year"
    BY <1>2, EndIsOwn, StatementOf DEF EndsAlone
  <2>. DEFINE id == task[w].id
              row == task[w].row
  <2>2. id \in DOMAIN years /\ row.current = years[id].current /\ row \in YearRow
    BY <1>2, <2>1 DEF ScheduleAloneOK, ScheduleInv, ScheduleRequestsOK, ScheduleTaskOK, RowOf
  <2>3. row.current => CurrentYears \subseteq {id}
    BY <1>2, <2>2 DEF ScheduleInv, CalendarTypeOK, CurrentYears
  <2>4. years' = Put(years, id, row)
    BY <2>1, <2>3 DEF SaveYear
  <2>5. DOMAIN years' = DOMAIN years /\ \A y \in DOMAIN years : years'[y].current = years[y].current
    BY <2>2, <2>4 DEF Put
  <2>. QED BY <2>5 DEF CurrentYears
<1>3. ScheduleInv /\ ScheduleAloneInv /\ [ScopedNext]_scopedVars => [P]_scopedVars
  BY <1>1, <1>2
<1>. QED BY ScheduleInvariant, <1>3, PTL DEF ScopedSpec, AloneMarks

\* A term, a subject, a class or a slot saved by a request that runs alone respects
\* the rule its form was checked against.
THEOREM AloneRowsAreChecked == ScopedSpec => AloneChecks
<1>. DEFINE P ==
       \A w \in Workers :
         /\ EndsAlone(w, "term") /\ terms' # terms =>
              LET term == terms'[task[w].id]
                  year == years[term.year]
              IN year.from <= term.from /\ term.from < term.to /\ term.to <= year.to
         /\ EndsAlone(w, "subject") /\ subjects' # subjects =>
              grades[subjects'[task[w].id].grade].course = subjects'[task[w].id].course
         /\ EndsAlone(w, "class") /\ classes' # classes =>
              grades[classes'[task[w].id].grade].course = classes'[task[w].id].course
         /\ EndsAlone(w, "slot") =>
              subjects[task[w].row.subject].grade = classes[task[w].row.class].grade
         /\ EndsAlone(w, "slot") =>
              \A s \in DOMAIN slots \ {task[w].id} :
                ~ (/\ Shared(slots[s], task[w].row) /\ slots[s].day = task[w].row.day
                   /\ \E hour \in Hours : /\ At(task[w].row.day, hour, slots[s])
                                          /\ At(task[w].row.day, hour, task[w].row))
<1>1. ASSUME ScheduleInv, ScheduleAloneInv, ScopedNext, NEW w \in Workers, EndsAlone(w, "term"),
             terms' # terms
      PROVE  LET term == terms'[task[w].id]
                 year == years[term.year]
             IN year.from <= term.from /\ term.from < term.to /\ term.to <= year.to
  <2>1. ScheduleAloneOK(w) /\ SaveTerm(w) /\ pc[w] = "term"
    BY <1>1, EndIsOwn, StatementOf DEF EndsAlone
  <2>2. terms' = Put(terms, task[w].id, task[w].row)
    BY <1>1, <2>1 DEF SaveTerm
  <2>3. terms'[task[w].id] = task[w].row
    BY <2>2 DEF Put
  <2>4. Within(task[w].row.from, task[w].row.to, years[task[w].row.year])
    BY <2>1 DEF ScheduleAloneOK
  <2>. QED BY <2>3, <2>4 DEF Within
<1>2. ASSUME ScheduleInv, ScheduleAloneInv, ScopedNext, NEW w \in Workers, EndsAlone(w, "subject"),
             subjects' # subjects
      PROVE  grades[subjects'[task[w].id].grade].course = subjects'[task[w].id].course
  <2>1. ScheduleAloneOK(w) /\ SaveSubject(w) /\ pc[w] = "subject"
    BY <1>2, EndIsOwn, StatementOf DEF EndsAlone
  <2>2. subjects'[task[w].id] = task[w].row
    BY <1>2, <2>1 DEF SaveSubject, Saved, Put
  <2>. QED BY <2>1, <2>2 DEF ScheduleAloneOK, OfCourse
<1>3. ASSUME ScheduleInv, ScheduleAloneInv, ScopedNext, NEW w \in Workers, EndsAlone(w, "class"),
             classes' # classes
      PROVE  grades[classes'[task[w].id].grade].course = classes'[task[w].id].course
  <2>1. ScheduleAloneOK(w) /\ SaveClass(w) /\ pc[w] = "class"
    BY <1>3, EndIsOwn, StatementOf DEF EndsAlone
  <2>2. classes'[task[w].id] = task[w].row
    BY <1>3, <2>1 DEF SaveClass, Saved, Put
  <2>. QED BY <2>1, <2>2 DEF ScheduleAloneOK, OfCourse
<1>4. ASSUME ScheduleInv, ScheduleAloneInv, ScopedNext, NEW w \in Workers, EndsAlone(w, "slot")
      PROVE  /\ subjects[task[w].row.subject].grade = classes[task[w].row.class].grade
             /\ \A s \in DOMAIN slots \ {task[w].id} :
                  ~ (/\ Shared(slots[s], task[w].row) /\ slots[s].day = task[w].row.day
                     /\ \E hour \in Hours : /\ At(task[w].row.day, hour, slots[s])
                                            /\ At(task[w].row.day, hour, task[w].row))
  <2>1. ScheduleAloneOK(w) /\ pc[w] = "slot"
    BY <1>4, EndIsOwn
  <2>2. /\ Clean(task[w].row) /\ Conflicts(task[w].id, task[w].row) = {}
        /\ task[w].row \in SlotRow
    BY <1>4, <2>1 DEF ScheduleAloneOK, ScheduleInv, ScheduleRequestsOK, ScheduleTaskOK, RowOf
  <2>3. ASSUME NEW s \in DOMAIN slots \ {task[w].id}, NEW hour \in Hours,
               At(task[w].row.day, hour, slots[s]), At(task[w].row.day, hour, task[w].row)
        PROVE  Overlap(slots[s], task[w].row)
    <3>1. slots[s] \in SlotRow
      BY <1>4 DEF ScheduleInv, ScheduleOK
    <3>2. Hours \subseteq Int
      BY <1>4, ScheduleAssumption DEF ScheduleInv
    <3>3. \A row \in SlotRow : row.from \in Int /\ row.to \in Int
      BY <3>2 DEF SlotRow
    <3>4. hour \in Int
      BY <3>2
    <3>. QED BY <2>2, <2>3, <3>1, <3>3, <3>4 DEF At, Overlap
  <2>. QED BY <2>2, <2>3 DEF Clean, Conflicts
<1>5. ScheduleInv /\ ScheduleAloneInv /\ [ScopedNext]_scopedVars => [P]_scopedVars
  BY <1>1, <1>2, <1>3, <1>4
<1>. QED BY ScheduleInvariant, <1>5, PTL DEF ScopedSpec, AloneChecks

\* seed_national_holidays alone, and to its end, leaves each holiday once.
THEOREM AloneHolidaysAreSeeded == ScopedSpec => AloneSeeds
<1>. DEFINE P == \A w \in Workers :
                   EndsAlone(w, "seed") /\ ~ Raises(w) => \A h \in 1 .. Holidays : days'[h] = 1
<1>1. ASSUME ScheduleInv, ScheduleAloneInv, ScopedNext, NEW w \in Workers, EndsAlone(w, "seed"),
             ~ Raises(w)
      PROVE  \A h \in 1 .. Holidays : days'[h] = 1
  <2>1. ScheduleAloneOK(w) /\ Seed(w) /\ pc[w] = "seed" /\ pc'[w] = "idle"
    BY <1>1, EndIsOwn, StatementOf DEF EndsAlone
  <2>2. task[w].next \in 1 .. Holidays + 1 /\ DOMAIN pc = Workers /\ days' = days
    BY <1>1, <2>1 DEF ScheduleInv, ScheduleRequestsOK, ScheduleTaskOK, Seed, calendarVars
  <2>3. task[w].next > Holidays
    BY <1>1, <2>1, <2>2, CalendarAssumption DEF Seed, Raises, ScheduleInv
  <2>4. \A h \in 1 .. task[w].next - 1 : days[h] = 1
    BY <2>1 DEF ScheduleAloneOK
  <2>. QED BY <1>1, <2>2, <2>3, <2>4, CalendarAssumption DEF ScheduleInv
<1>2. ScheduleInv /\ ScheduleAloneInv /\ [ScopedNext]_scopedVars => [P]_scopedVars
  BY <1>1
<1>. QED BY ScheduleInvariant, <1>2, PTL DEF ScopedSpec, AloneSeeds

-----------------------------------------------------------------------------
(* Easter. The formula of _easter_sunday has two parts: Moon counts the days   *)
(* from 21 March to the full moon, Week those from the day after it to the     *)
(* Sunday, and a late moon whose Sunday would be the latest of all is moved    *)
(* one week back. The first is the reference's epact told another way, the     *)
(* second is a count of days modulo 7.                                         *)
Moon(year) ==
  LET b == year \div 100
  IN (19 * (year % 19) + b - b \div 4 - (b - (b + 8) \div 25 + 1) \div 3 + 15) % 30

Week(year) ==
  LET b == year \div 100
      c == year % 100
  IN (32 + 2 * (b % 4) + 2 * (c \div 4) - Moon(year) - (c % 4)) % 7

\* The years whose epact the calendar moves by one.
Late(year) == Moon(year) = 29 \/ (Moon(year) = 28 /\ year % 19 > 10)

LEMMA EarliestIs ==
  ASSUME NEW S, S \subseteq Int, NEW d \in S, \A m \in S : d <= m
  PROVE  Earliest(S) = d
<1>1. \A n \in S : (\A m \in S : n <= m) => n = d
  OBVIOUS
<1>. QED BY <1>1 DEF Earliest

LEMMA MoonAndWeekRange ==
  ASSUME NEW year \in Int
  PROVE  Moon(year) \in 0 .. 29 /\ Week(year) \in 0 .. 6 /\ year % 19 \in 0 .. 18
<1>1. \A n \in Int : n % 30 \in 0 .. 29 /\ n % 7 \in 0 .. 6 /\ n % 19 \in 0 .. 18
  OBVIOUS
<1>2. Moon(year) \in 0 .. 29
  BY <1>1 DEF Moon
<1>3. Week(year) \in 0 .. 6
  <2>. DEFINE c == year % 100
              n == 32 + 2 * ((year \div 100) % 4) + 2 * (c \div 4) - Moon(year) - (c % 4)
  <2>1. n \in Int
    BY <1>2
  <2>2. Week(year) = n % 7
    BY DEF Week
  <2>. HIDE DEF n
  <2>. QED BY <2>1, <2>2, <1>1
<1>. QED BY <1>1, <1>2, <1>3

\* The number and the remainders the code computes Easter from.
LEMMA EasterByParts ==
  ASSUME NEW year \in Int
  PROVE  EasterSunday(year) =
           22 + Moon(year) + Week(year) - (IF Late(year) /\ Week(year) = 6 THEN 7 ELSE 0)
<1>. DEFINE a == year % 19
            h == Moon(year)
            l == Week(year)
            m == (a + 11 * h + 22 * l) \div 451
            n == h + l - 7 * m + 114
<1>1. EasterSunday(year) = 31 * (n \div 31 - 3) + (n % 31) + 1
  BY DEF EasterSunday, Moon, Week
<1>2. h \in 0 .. 29 /\ l \in 0 .. 6 /\ a \in 0 .. 18
  BY MoonAndWeekRange
<1>3. Late(year) <=> h = 29 \/ (h = 28 /\ a > 10)
  BY DEF Late
<1>. HIDE DEF a, h, l
<1>4. m = IF Late(year) /\ l = 6 THEN 1 ELSE 0
  BY <1>2, <1>3
<1>. HIDE DEF m
<1>5. n \in Int
  BY <1>2, <1>4
<1>. HIDE DEF n
<1>6. EasterSunday(year) = n - 92
  BY <1>1, <1>5
<1>7. n - 92 = 22 + h + l - (IF Late(year) /\ l = 6 THEN 7 ELSE 0)
  BY <1>2, <1>4 DEF n
<1>8. EasterSunday(year) = 22 + h + l - (IF Late(year) /\ l = 6 THEN 7 ELSE 0)
  BY <1>6, <1>7
<1>. QED BY <1>8 DEF h, l

\* The epact is the age of the moon on the first day of the year, the code's h
\* the days left until it is full: they add up to the same day of the month.
LEMMA EpactByMoon ==
  ASSUME NEW year \in Int
  PROVE  /\ Epact(year) \in Int
         /\ IF Late(year) THEN Epact(year) + Moon(year) = 54
                          ELSE Epact(year) + Moon(year) \in {23, 53}
<1>. DEFINE a == year % 19
            b == year \div 100
            g == (b - (b + 8) \div 25 + 1) \div 3
            z == b - b \div 4 - g
            h == (19 * a + z + 15) % 30
            e == (11 * (a + 1) + 27 - z) % 30
<1>1. a \in 0 .. 18 /\ b \in Int
  BY MoonAndWeekRange
<1>2. Moon(year) = h
  BY DEF Moon
<1>3. Epact(year) = IF e = 24 \/ (e = 25 /\ a > 10) THEN e + 1 ELSE e
  <2>. HIDE DEF b
  <2>1. (3 * (b + 1)) \div 4 - 12 = b - b \div 4 - 12
    BY <1>1
  <2>2. (8 * (b + 1) + 5) \div 25 - 5 = g - 5
    BY <1>1
  <2>3. 11 * (a + 1) + 20 + (g - 5) - (b - b \div 4 - 12) = 11 * (a + 1) + 27 - z
    BY <1>1
  <2>4. Epact(year) =
          LET solar == (3 * (b + 1)) \div 4 - 12
              lunar == (8 * (b + 1) + 5) \div 25 - 5
              epact == (11 * (a + 1) + 20 + lunar - solar) % 30
          IN IF epact = 24 \/ (epact = 25 /\ a > 10) THEN epact + 1 ELSE epact
    BY DEF Epact, b
  <2>. QED BY <2>1, <2>2, <2>3, <2>4
<1>4. z \in Int
  BY <1>1
<1>. HIDE DEF a, z
<1>5. e \in 0 .. 29 /\ h \in 0 .. 29 /\ e + h \in {23, 53}
  BY <1>1, <1>4
<1>6. Late(year) <=> h = 29 \/ (h = 28 /\ a > 10)
  BY <1>2 DEF Late, a
<1>. HIDE DEF e, h
<1>7. Late(year) <=> e = 24 \/ (e = 25 /\ a > 10)
  BY <1>1, <1>5, <1>6
<1>. QED BY <1>2, <1>3, <1>5, <1>6, <1>7, <1>1

\* The ecclesiastical full moon, as the code's h tells it.
LEMMA FullMoonDay ==
  ASSUME NEW year \in Int
  PROVE  Earliest({n \in 21 .. 50 : IsFullMoon(year, n)}) =
           21 + Moon(year) - (IF Late(year) THEN 1 ELSE 0)
<1>. DEFINE d == 21 + Moon(year) - (IF Late(year) THEN 1 ELSE 0)
            S == {n \in 21 .. 50 : IsFullMoon(year, n)}
<1>1. Moon(year) \in 0 .. 29 /\ Epact(year) \in Int
  BY MoonAndWeekRange, EpactByMoon
<1>2. d \in 21 .. 50 /\ d + Epact(year) \in {44, 74}
  <2>1. CASE Late(year)
    BY <1>1, <2>1, EpactByMoon DEF Late
  <2>2. CASE ~ Late(year)
    BY <1>1, <2>2, EpactByMoon DEF Late
  <2>. QED BY <2>1, <2>2
<1>. HIDE DEF d
<1>3. d \in S
  BY <1>1, <1>2 DEF IsFullMoon
<1>4. \A n \in S : d <= n
  BY <1>1, <1>2 DEF IsFullMoon
<1>5. Earliest(S) = d
  BY <1>3, <1>4, EarliestIs
<1>. QED BY <1>5 DEF d

\* The days elapsed, told by the century, its year and the code's l.
LEMMA SundayByWeek ==
  ASSUME NEW year \in Int
  PROVE  IsSunday(year, 22 + Moon(year) + Week(year))
<1>. DEFINE b == year \div 100
            c == year % 100
            q == b \div 4
            k == c \div 4
            h == Moon(year)
            l == Week(year)
<1>1. h \in 0 .. 29 /\ l \in 0 .. 6 /\ b \in Int /\ c \in 0 .. 99 /\ year = 100 * b + c
  BY MoonAndWeekRange
<1>2. year \div 4 = 25 * b + c \div 4 /\ year \div 400 = b \div 4
  OBVIOUS
<1>3. l = (32 + 2 * (b % 4) + 2 * (c \div 4) - h - (c % 4)) % 7
  BY DEF Week
<1>. HIDE DEF b, c, h, l
<1>4. b % 4 = b - 4 * q /\ c % 4 = c - 4 * k /\ q \in Int /\ k \in Int
  BY <1>1
<1>5. PICK t \in Int : 32 + 2 * (b - 4 * q) + 2 * k - h - (c - 4 * k) = 7 * t + l
  <2>. DEFINE x == 32 + 2 * (b - 4 * q) + 2 * k - h - (c - 4 * k)
  <2>1. x \in Int /\ l = x % 7
    BY <1>1, <1>3, <1>4
  <2>. HIDE DEF x
  <2>2. x = 7 * (x \div 7) + l /\ x \div 7 \in Int
    BY <2>1
  <2>. QED BY <2>2 DEF x
<1>. HIDE DEF q, k
<1>. DEFINE v == 5218 * b - q + 52 * c + k - t + 7
<1>6. 36524 * b + 365 * c + k + q + 22 + h + l = 7 * v + 5
  BY <1>1, <1>4, <1>5
<1>7. v \in Int
  BY <1>1, <1>4, <1>5
<1>. HIDE DEF v
<1>8. (7 * v + 5) % 7 = 5
  BY <1>7
<1>9. year \div 4 = 25 * b + k /\ year \div 100 = b /\ year \div 400 = q
  BY <1>2 DEF b, c, q, k
<1>10. 365 * year + year \div 4 - year \div 100 + year \div 400 + (22 + h + l) =
         36524 * b + 365 * c + k + q + 22 + h + l
  BY <1>1, <1>4, <1>9
<1>. QED BY <1>6, <1>8, <1>10 DEF IsSunday, h, l

LEMMA SundaysApart ==
  ASSUME NEW year \in Int, NEW n \in Int, NEW m \in Int, n - m \in -6 .. 6,
         IsSunday(year, n), IsSunday(year, m)
  PROVE  n = m
<1>. DEFINE k == 365 * year + year \div 4 - year \div 100 + year \div 400
<1>1. k \in Int
  OBVIOUS
<1>2. (k + n) % 7 = 5 /\ (k + m) % 7 = 5
  BY DEF IsSunday
<1>. HIDE DEF k
<1>. QED BY <1>1, <1>2

LEMMA WeekBefore ==
  ASSUME NEW year \in Int, NEW n \in Int, IsSunday(year, n)
  PROVE  IsSunday(year, n - 7)
<1>. DEFINE k == 365 * year + year \div 4 - year \div 100 + year \div 400
<1>1. k \in Int
  OBVIOUS
<1>2. (k + n) % 7 = 5
  BY DEF IsSunday
<1>3. IsSunday(year, n - 7) <=> (k + (n - 7)) % 7 = 5
  BY DEF IsSunday
<1>. HIDE DEF k
<1>. QED BY <1>1, <1>2, <1>3

(* _easter_sunday: its formula gives the first Sunday after the first          *)
(* ecclesiastical full moon from 21 March on, in every year there is.          *)
THEOREM EasterIsCorrect ==
  ASSUME NEW year \in Int
  PROVE  EasterSunday(year) = EasterReference(year)
<1>. DEFINE h == Moon(year)
            l == Week(year)
            moon == 21 + h - (IF Late(year) THEN 1 ELSE 0)
            sunday == EasterSunday(year)
            after == {n \in moon + 1 .. moon + 7 : IsSunday(year, n)}
<1>1. h \in 0 .. 29 /\ l \in 0 .. 6
  BY MoonAndWeekRange
<1>2. sunday = 22 + h + l - (IF Late(year) /\ l = 6 THEN 7 ELSE 0)
  BY EasterByParts
<1>3. IsSunday(year, 22 + h + l) /\ IsSunday(year, (22 + h + l) - 7)
  BY <1>1, SundayByWeek, WeekBefore
<1>4. EasterReference(year) = Earliest(after)
  BY FullMoonDay DEF EasterReference
<1>. HIDE DEF h, l, sunday
<1>5. moon \in Int /\ sunday \in moon + 1 .. moon + 7
  BY <1>1, <1>2
<1>6. sunday = 22 + h + l \/ sunday = (22 + h + l) - 7
  BY <1>1, <1>2
<1>7. IsSunday(year, sunday)
  BY <1>3, <1>6
<1>. HIDE DEF moon
<1>8. sunday \in after /\ after \subseteq Int
  BY <1>5, <1>7
<1>9. \A n \in after : n = sunday
  <2>. TAKE n \in after
  <2>1. n \in Int /\ sunday \in Int /\ n - sunday \in -6 .. 6 /\ IsSunday(year, n)
    BY <1>5
  <2>. QED BY <2>1, <1>7, SundaysApart
<1>. HIDE DEF after
<1>10. \A n \in after : sunday <= n
  BY <1>5, <1>9
<1>11. Earliest(after) = sunday
  BY <1>8, <1>10, EarliestIs
<1>. QED BY <1>4, <1>11 DEF sunday

(* _easter_sunday: the month and the day it builds a date from are always a    *)
(* day from 22 March to 25 April.                                              *)
THEOREM EasterDates ==
  ASSUME NEW year \in Int
  PROVE  EasterSunday(year) \in 22 .. 56
BY MoonAndWeekRange, EasterByParts DEF Late

\* _easter_sunday, "for any year": of every span of years.
THEOREM EasterIsFound == ScopedSpec => []EasterMatches
<1>1. EasterMatches
  BY EasterAssumption, EasterIsCorrect DEF EasterMatches
<1>. QED BY <1>1, PTL

=============================================================================

----------------------------- MODULE Permissoes -----------------------------
(* What each profile may do (apps/accounts/migrations 0003 to 0018): twelve    *)
(* groups, one per profile, whose permissions are written by a chain of data   *)
(* migrations and by nothing else. Each migration adds the permissions of the  *)
(* models that its release brought; going back removes what it had added. The  *)
(* schema migrations of the chain (0006, 0007) touch no permission.            *)
EXTENDS Naturals, Sequences

CONSTANTS MaxRollbacks \* bound: migrations that are taken back

ASSUME RollbacksAssumption == MaxRollbacks \in Nat

VARIABLES
  level,    \* how many migrations of Chain the database has
  groups,   \* auth_group: the profiles that have their group
  granted,  \* auth_group_permissions: <<profile, model, action>>
  rollbacks

permissionVars == <<level, groups, granted, rollbacks>>

-----------------------------------------------------------------------------
Profiles == {"super", "admin", "pedagogica", "secretaria", "financeiro", "rh", "docente",
             "diretor", "biblioteca", "encarregado", "aluno", "publico"}

FullCrud == {"add", "change", "delete", "view"}
CreateViewChange == {"add", "change", "view"}
AddAndView == {"add", "view"}
ViewAndChange == {"view", "change"}
ViewOnly == {"view"}

May(profiles, models, actions) == profiles \X models \X actions

Reference == {"province", "municipality", "mobileoperator", "identificationdocumenttype",
              "profession"}
Calendar == {"academicyear", "academicterm", "academiccycle", "nonteachingday"}
Sync == {"node", "changerecord", "syncsession"}
Curriculum == {"department", "course", "curricularyear", "subject", "room", "schoolclass"}
Enrolment == {"student", "guardian", "studentguardian", "candidate", "enrollment"}
Grading == {"evaluationtype", "gradingformulaoverride"}

-----------------------------------------------------------------------------
(* What each migration adds to the groups.                                    *)

ProfileGroups ==
  May({"super"}, {"institution"} \cup Calendar \cup Reference \cup Sync, FullCrud)
  \cup May({"admin"}, {"institution"}, ViewAndChange) \cup May({"admin"}, Calendar, FullCrud)
  \cup May({"admin"}, Reference \cup Sync, ViewOnly)
  \cup May({"pedagogica"}, {"institution"} \cup Calendar \cup Reference, ViewOnly)

CurriculumAndEnrollment ==
  May({"super", "secretaria"}, Curriculum, ViewOnly)
  \cup May({"super", "admin", "pedagogica", "financeiro"}, Enrolment, ViewOnly)
  \cup May({"admin"}, Curriculum, FullCrud) \cup May({"pedagogica"}, Curriculum, CreateViewChange)
  \cup May({"secretaria"}, Enrolment, FullCrud)

GradingFormula ==
  May({"super", "pedagogica"}, Grading, ViewOnly) \cup May({"admin"}, Grading, CreateViewChange)

GuardianObjectScoped == May({"encarregado"}, {"student", "enrollment"}, ViewOnly)

Audit == May({"super", "admin"}, {"auditlogentry"}, ViewOnly)

UserManagement ==
  May({"super"}, {"user"}, FullCrud) \cup May({"admin"}, {"user"}, CreateViewChange)

Schedule ==
  May({"super", "secretaria"}, {"schedule"}, ViewOnly)
  \cup May({"admin"}, {"schedule"}, FullCrud)
  \cup May({"pedagogica"}, {"schedule"}, CreateViewChange)

GradingScale ==
  May({"super"}, {"gradingscale"}, FullCrud)
  \cup May({"admin", "pedagogica"}, {"gradingscale"}, ViewOnly)

Grade ==
  May({"super"}, {"grade"}, ViewOnly) \cup May({"admin"}, {"grade"}, FullCrud)
  \cup May({"pedagogica"}, {"grade"}, CreateViewChange)

FinalGrade ==
  May({"super"}, {"finalgrade"}, ViewOnly) \cup May({"admin"}, {"finalgrade"}, FullCrud)
  \cup May({"pedagogica"}, {"finalgrade"}, CreateViewChange)

FinalSituation == May({"super", "admin", "pedagogica"}, {"finalsituation"}, ViewOnly)

IssuedDocument ==
  May({"super"}, {"issueddocument"}, ViewOnly)
  \cup May({"admin", "pedagogica", "secretaria", "financeiro"}, {"issueddocument"}, AddAndView)

Attendance ==
  May({"super", "admin", "secretaria"}, {"attendance"}, ViewOnly)
  \cup May({"pedagogica"}, {"attendance"}, ViewAndChange)

SecretariaAttendanceChange == May({"secretaria"}, {"attendance"}, ViewAndChange)

Chain == <<ProfileGroups, CurriculumAndEnrollment, GradingFormula, GuardianObjectScoped, Audit,
           UserManagement, Schedule, GradingScale, Grade, FinalGrade, FinalSituation,
           IssuedDocument, Attendance, SecretariaAttendanceChange>>

Deployed == level = Len(Chain)

-----------------------------------------------------------------------------
\* Fault: set() where the migrations add().
ExtendReplacing(n) ==
  IF n = 1 THEN groups' = Profiles /\ granted' = Chain[1]
           ELSE groups' = groups /\ granted' = {g \in granted : \A h \in Chain[n] : h[1] # g[1]} \cup Chain[n]

\* 0003 creates the groups and sets their permissions; the later ones add theirs.
Extend(n) ==
  IF n = 1 THEN groups' = Profiles /\ granted' = Chain[1]
           ELSE groups' = groups /\ granted' = granted \cup Chain[n]

\* Deleting the groups of 0003 deletes their permissions with them.
Revert(n) ==
  IF n = 1 THEN groups' = {} /\ granted' = {}
           ELSE groups' = groups /\ granted' = granted \ Chain[n]

\* manage.py migrate runs the migrations in the order of their dependencies.
Migrate ==
  /\ ~ Deployed /\ level' = level + 1
  /\ Extend(level') /\ UNCHANGED rollbacks

MigrateBack ==
  /\ level > 0 /\ rollbacks < MaxRollbacks /\ rollbacks' = rollbacks + 1
  /\ Revert(level) /\ level' = level - 1

PermissionsInit == level = 0 /\ groups = {} /\ granted = {} /\ rollbacks = 0

PermissionsNext == Migrate \/ MigrateBack

\* A user of a profile is in the group of that name; a super administrator is a
\* superuser, who has every permission.
HasPerm(profile, model, action) ==
  \/ profile = "super"
  \/ profile \in groups /\ <<profile, model, action>> \in granted

=============================================================================

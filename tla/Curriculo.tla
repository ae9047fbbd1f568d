------------------------------ MODULE Curriculo ------------------------------
(* The curriculum (apps/academic, and the cycles of apps/core): courses of a   *)
(* cycle, the curricular years of a course, their subjects.                    *)
(*                                                                            *)
(* Cycles have screens in apps/admin_panel, the rest the forms of the Django   *)
(* Admin. Either form is checked against rows it reads, and saved later, whole. *)
(* Names, codes and departments are left out.                                  *)
EXTENDS Calendario

CONSTANTS Cycles, Courses, Grades, Subjects \* identifiers

VARIABLES cycles, courses, grades, subjects \* identifier -> row

curriculumVars == <<cycles, courses, grades, subjects>>

CycleRow == [order : Numbers]
CourseRow == [cycle : Cycles]
GradeRow == [course : Courses, number : Numbers]
SubjectRow == [course : Courses, grade : Grades, cycle : Cycles]

\* A form has been found valid; the save is another statement.
Form(w, step, id, row) ==
  /\ Begin(w, step, [id |-> id, row |-> row])
  /\ UNCHANGED <<calendarVars, curriculumVars>>

\* What save() leaves of a table when a constraint admits the row.
Saved(w, table, admitted) ==
  IF admitted THEN Put(table, task[w].id, task[w].row) ELSE table

\* The row is new, or one that the form edits.
NewOrKnown(id, table) == id \in DOMAIN table \/ Fresh(id, table)

Unshared(table, id, row, fields) ==
  ~ \E o \in DOMAIN table \ {id} : \A f \in fields : table[o][f] = row[f]

-----------------------------------------------------------------------------
(* Cycles: academic_cycle_create_view, academic_cycle_edit_view.              *)

CreateCycle(w, c, row) ==
  /\ Fresh(c, cycles) /\ Unshared(cycles, c, row, {"order"})
  /\ Form(w, "cycle", c, row)

EditCycle(w, c, row) ==
  /\ c \in DOMAIN cycles /\ Unshared(cycles, c, row, {"order"})
  /\ Form(w, "cycle", c, row)

\* The unique order of a cycle in its institution.
SaveCycle(w) ==
  /\ End(w, "cycle")
  /\ cycles' = Saved(w, cycles, Unshared(cycles, task[w].id, task[w].row, {"order"}))
  /\ UNCHANGED <<calendarVars, courses, grades, subjects, requests, crashes>>

\* ProtectedError: courses and subjects keep their cycle.
DeleteCycle(w, c) ==
  /\ c \in DOMAIN cycles
  /\ \A k \in DOMAIN courses : courses[k].cycle # c
  /\ \A s \in DOMAIN subjects : subjects[s].cycle # c
  /\ AtOnce(w)
  /\ cycles' = Without(cycles, {c})
  /\ UNCHANGED <<calendarVars, courses, grades, subjects>>

-----------------------------------------------------------------------------
(* Courses and their curricular years: CourseAdmin, CurricularYearAdmin.      *)

CourseForm(w, k, row) ==
  /\ NewOrKnown(k, courses) /\ row.cycle \in DOMAIN cycles
  /\ Form(w, "course", k, row)

SaveCourse(w) ==
  /\ End(w, "course")
  /\ courses' = Saved(w, courses, task[w].row.cycle \in DOMAIN cycles)
  /\ UNCHANGED <<calendarVars, cycles, grades, subjects, requests, crashes>>

GradesOf(k) == {g \in DOMAIN grades : grades[g].course = k}

\* Its curricular years go with a course, unless subjects or classes have one
\* of them, or the course itself.
DeleteCourse(w, k, kept, keptGrades) ==
  /\ k \in DOMAIN courses \ kept
  /\ GradesOf(k) \cap keptGrades = {}
  /\ \A s \in DOMAIN subjects : subjects[s].course # k /\ subjects[s].grade \notin GradesOf(k)
  /\ AtOnce(w)
  /\ courses' = Without(courses, {k})
  /\ grades' = Without(grades, GradesOf(k))
  /\ UNCHANGED <<calendarVars, cycles, subjects>>

\* A curricular year may move to another course: its subjects and classes are
\* not looked at.
GradeForm(w, g, row) ==
  /\ NewOrKnown(g, grades) /\ row.course \in DOMAIN courses
  /\ Unshared(grades, g, row, {"course", "number"})
  /\ Form(w, "grade", g, row)

\* The unique number of a curricular year in its course.
SaveGrade(w) ==
  LET row == task[w].row
  IN /\ End(w, "grade")
     /\ grades' = Saved(w, grades,
                        /\ row.course \in DOMAIN courses
                        /\ Unshared(grades, task[w].id, row, {"course", "number"}))
     /\ UNCHANGED <<calendarVars, cycles, courses, subjects, requests, crashes>>

DeleteGrade(w, g, kept) ==
  /\ g \in DOMAIN grades \ kept
  /\ \A s \in DOMAIN subjects : subjects[s].grade # g
  /\ AtOnce(w)
  /\ grades' = Without(grades, {g})
  /\ UNCHANGED <<calendarVars, cycles, courses, subjects>>

-----------------------------------------------------------------------------
(* Subjects: SubjectAdmin.                                                    *)

\* Subject.clean and SchoolClass.clean: the curricular year is one of the course.
OfCourse(row) ==
  /\ row.course \in DOMAIN courses /\ row.grade \in DOMAIN grades
  /\ grades[row.grade].course = row.course

SubjectForm(w, s, row) ==
  /\ NewOrKnown(s, subjects) /\ OfCourse(row) /\ row.cycle \in DOMAIN cycles
  /\ Form(w, "subject", s, row)

\* The foreign keys are all that is left to refuse.
Exist(row) == row.course \in DOMAIN courses /\ row.grade \in DOMAIN grades

SaveSubject(w) ==
  /\ End(w, "subject")
  /\ subjects' = Saved(w, subjects, Exist(task[w].row) /\ task[w].row.cycle \in DOMAIN cycles)
  /\ UNCHANGED <<calendarVars, cycles, courses, grades, requests, crashes>>

DeleteSubject(w, s, kept) ==
  /\ s \in DOMAIN subjects \ kept
  /\ AtOnce(w)
  /\ subjects' = Without(subjects, {s})
  /\ UNCHANGED <<calendarVars, cycles, courses, grades>>

-----------------------------------------------------------------------------
\* The curriculum of an institution that has begun to define it.
CurriculumInit ==
  /\ \E known \in SUBSET Cycles, order \in Numbers :
       /\ Cardinality(known) <= 1
       /\ cycles = [c \in known |-> [order |-> order]]
  /\ \E known \in SUBSET Courses, cycle \in Cycles :
       /\ known # {} => cycle \in DOMAIN cycles
       /\ courses = [k \in known |-> [cycle |-> cycle]]
  /\ \E known \in SUBSET Grades :
       \E table \in [known -> [course : DOMAIN courses, number : Numbers]] :
         /\ \A g \in known : Unshared(table, g, table[g], {"course", "number"})
         /\ grades = table
  /\ \E known \in SUBSET Subjects, row \in SubjectRow :
       /\ known # {} => OfCourse(row) /\ row.cycle \in DOMAIN cycles
       /\ subjects = [s \in known |-> row]

\* kept: the rows that classes and slots protect.
CurriculumRequest(w, kept) ==
  \/ \E c \in Cycles :
       DeleteCycle(w, c) \/ \E row \in CycleRow : CreateCycle(w, c, row) \/ EditCycle(w, c, row)
  \/ \E k \in Courses :
       \/ DeleteCourse(w, k, kept.courses, kept.grades)
       \/ \E row \in CourseRow : CourseForm(w, k, row)
  \/ \E g \in Grades :
       DeleteGrade(w, g, kept.grades) \/ \E row \in GradeRow : GradeForm(w, g, row)
  \/ \E s \in Subjects :
       DeleteSubject(w, s, kept.subjects) \/ \E row \in SubjectRow : SubjectForm(w, s, row)

CurriculumStep(w) == SaveCycle(w) \/ SaveCourse(w) \/ SaveGrade(w) \/ SaveSubject(w)

CurriculumTypeOK ==
  /\ DOMAIN cycles \subseteq Cycles /\ \A c \in DOMAIN cycles : cycles[c] \in CycleRow
  /\ DOMAIN courses \subseteq Courses /\ \A k \in DOMAIN courses : courses[k] \in CourseRow
  /\ \A k \in DOMAIN courses : courses[k].cycle \in DOMAIN cycles
  /\ DOMAIN grades \subseteq Grades /\ \A g \in DOMAIN grades : grades[g] \in GradeRow
  /\ \A g \in DOMAIN grades : grades[g].course \in DOMAIN courses
  /\ DOMAIN subjects \subseteq Subjects /\ \A s \in DOMAIN subjects : subjects[s] \in SubjectRow
  /\ \A s \in DOMAIN subjects : Exist(subjects[s]) /\ subjects[s].cycle \in DOMAIN cycles
=============================================================================

------------------------------- MODULE Horario -------------------------------
(* Classes and their weekly schedule (apps/academic), over the calendar and    *)
(* the curriculum: a class belongs to an academic year and a curricular year,  *)
(* a slot of the schedule to a class and a subject.                            *)
(*                                                                            *)
(* ScheduleAdminForm looks for conflicts among the committed slots; the row is  *)
(* inserted by a later statement and no constraint backs the form.             *)
EXTENDS Curriculo

CONSTANTS
  Classes, Slots,      \* identifiers
  Teachers, Rooms,
  Days, Hours          \* weekdays, moments of a day

ASSUME ScheduleAssumption == Hours \subseteq Int /\ IsFiniteSet(Workers)

VARIABLES
  classes, slots       \* identifier -> row

scheduleVars == <<classes, slots>>
schoolVars == <<calendarVars, curriculumVars, scheduleVars, requestVars>>

ClassRow == [year : Years, course : Courses, grade : Grades]
SlotRow == [class : Classes, subject : Subjects, teacher : Teachers, room : Rooms,
            day : Days, from : Hours, to : Hours]

-----------------------------------------------------------------------------
(* Classes: school_class_create_view, school_class_edit_view.                 *)

CreateClass(w, c, row) ==
  /\ Fresh(c, classes) /\ row.year \in DOMAIN years /\ OfCourse(row)
  /\ Form(w, "class", c, row) /\ UNCHANGED scheduleVars

\* Every field may change, the slots of the class are not looked at.
EditClass(w, c, row) ==
  /\ c \in DOMAIN classes /\ row.year \in DOMAIN years /\ OfCourse(row)
  /\ Form(w, "class", c, row) /\ UNCHANGED scheduleVars

\* The foreign keys refuse a year or a curricular year deleted since.
SaveClass(w) ==
  /\ End(w, "class")
  /\ classes' = Saved(w, classes, task[w].row.year \in DOMAIN years /\ Exist(task[w].row))
  /\ UNCHANGED <<calendarVars, curriculumVars, slots, requests, crashes>>

\* ProtectedError: a class with slots stays.
DeleteClass(w, c) ==
  /\ c \in DOMAIN classes
  /\ \A s \in DOMAIN slots : slots[s].class # c
  /\ AtOnce(w)
  /\ classes' = Without(classes, {c})
  /\ UNCHANGED <<calendarVars, curriculumVars, slots>>

YearsInUse == {classes[c].year : c \in DOMAIN classes}

\* The rows of the curriculum that classes and slots protect.
Kept == [courses |-> {classes[c].course : c \in DOMAIN classes},
         grades |-> {classes[c].grade : c \in DOMAIN classes},
         subjects |-> {slots[s].subject : s \in DOMAIN slots}]

-----------------------------------------------------------------------------
(* The weekly schedule.                                                       *)

\* Fault: intervals that begin at the same time do not overlap.
OverlapUnlessTogether(a, b) ==
  \/ a.from < b.from /\ b.from < a.to
  \/ b.from < a.from /\ a.from < b.to

Overlap(a, b) == a.from < b.to /\ b.from < a.to

Shared(a, b) == a.teacher = b.teacher \/ a.room = b.room \/ a.class = b.class

\* validate_schedule_conflict: the other slots that slot s would clash with.
Conflicts(s, row) ==
  {o \in DOMAIN slots \ {s} :
     Shared(slots[o], row) /\ slots[o].day = row.day /\ Overlap(slots[o], row)}

\* Schedule.clean; that the teacher is one is left out.
Clean(row) ==
  /\ row.from < row.to
  /\ row.class \in DOMAIN classes /\ row.subject \in DOMAIN subjects
  /\ subjects[row.subject].grade = classes[row.class].grade

\* ScheduleAdminForm of the Django Admin, for a new slot and for one that exists.
SlotRequest(w, s, row) ==
  /\ NewOrKnown(s, slots)
  /\ Clean(row) /\ Conflicts(s, row) = {}
  /\ Form(w, "slot", s, row) /\ UNCHANGED scheduleVars

\* save() looks for no conflict; the foreign keys refuse a class or a subject
\* that is gone.
SaveSlot(w) ==
  /\ End(w, "slot")
  /\ slots' = Saved(w, slots, /\ task[w].row.class \in DOMAIN classes
                             /\ task[w].row.subject \in DOMAIN subjects)
  /\ UNCHANGED <<calendarVars, curriculumVars, classes, requests, crashes>>

DeleteSlot(w, s) ==
  /\ s \in DOMAIN slots
  /\ AtOnce(w)
  /\ slots' = Without(slots, {s})
  /\ UNCHANGED <<calendarVars, curriculumVars, classes>>

-----------------------------------------------------------------------------
ScheduleInit ==
  /\ CalendarInit /\ CurriculumInit
  /\ \E known \in SUBSET Classes, row \in ClassRow :
       /\ known # {} => row.year \in DOMAIN years /\ OfCourse(row)
       /\ classes = [c \in known |-> row]
  /\ slots = [s \in {} |-> None]

ScheduleRequest(w) ==
  \/ CalendarRequest(w, YearsInUse) /\ UNCHANGED <<curriculumVars, scheduleVars>>
  \/ CurriculumRequest(w, Kept) /\ UNCHANGED scheduleVars
  \/ \E c \in Classes :
       \/ DeleteClass(w, c)
       \/ \E row \in ClassRow : CreateClass(w, c, row) \/ EditClass(w, c, row)
  \/ \E s \in Slots : DeleteSlot(w, s) \/ \E row \in SlotRow : SlotRequest(w, s, row)

ScheduleNext ==
  \E w \in Workers :
    \/ ScheduleRequest(w)
    \/ CalendarStep(w) /\ UNCHANGED <<curriculumVars, scheduleVars>>
    \/ CurriculumStep(w) /\ UNCHANGED scheduleVars
    \/ SaveClass(w) \/ SaveSlot(w)

ScheduleSpec == ScheduleInit /\ [][ScheduleNext]_schoolVars

-----------------------------------------------------------------------------
(* Properties.                                                                *)

\* Rows are what the code stores, references exist and one year is current at
\* most.
ScheduleTypeOK ==
  /\ CalendarTypeOK /\ CurriculumTypeOK
  /\ DOMAIN classes \subseteq Classes /\ \A c \in DOMAIN classes : classes[c] \in ClassRow
  /\ DOMAIN slots \subseteq Slots /\ \A s \in DOMAIN slots : slots[s] \in SlotRow
  /\ YearsInUse \subseteq DOMAIN years
  /\ \A c \in DOMAIN classes : Exist(classes[c])
  /\ \A s \in DOMAIN slots : /\ slots[s].class \in DOMAIN classes
                             /\ slots[s].subject \in DOMAIN subjects

At(day, hour, row) == row.day = day /\ row.from <= hour /\ hour < row.to

\* RF-CURR-06, validate_schedule_conflict: although the conflict is looked for
\* before the row is saved, a teacher, a room or a class is never in more places
\* at one time than there are processes to race.
ClashesBounded ==
  \A day \in Days, hour \in Hours :
    \A field \in {"teacher", "room", "class"} : \A v \in Teachers \cup Rooms \cup Classes :
      Cardinality({s \in DOMAIN slots : At(day, hour, slots[s]) /\ slots[s][field] = v})
        <= Cardinality(Workers)
=============================================================================

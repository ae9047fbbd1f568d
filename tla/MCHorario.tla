------------------------------ MODULE MCHorario ------------------------------
(* Small instances of Horario for TLC. A behaviour takes the requests of the   *)
(* calendar, of the curriculum or of the schedule, each with those of the      *)
(* classes: the three only meet in a class.                                    *)
EXTENDS Horario, MCPedidos

CONSTANTS FirstYear, LastYear \* for which Easter is computed

ASSUME EasterAssumption == FirstYear \in Int /\ LastYear \in Int

WorkerSymmetry == Permutations(Workers)

VARIABLE scope \* which requests there are

scopedVars == <<schoolVars, alone, scope>>

\* The steps of the requests of a scope.
StepsOf(s) ==
  {"idle", "class"} \cup CASE s = "calendar" -> {"unmark", "mark", "year", "term", "seed", "day"}
                           [] s = "curriculum" -> {"cycle", "course", "grade", "subject"}
                           [] s = "schedule" -> {"slot", "subject"}

NoRows == [id \in {} |-> None]

First(S) == CHOOSE id \in S : TRUE

ScopedInit ==
  /\ ScheduleInit /\ AloneInit
  /\ scope \in {"calendar", "curriculum", "schedule"}
  /\ DOMAIN cycles = {First(Cycles)}
  /\ IF scope = "calendar"
     THEN DOMAIN courses = {First(Courses)} /\ DOMAIN grades = {First(Grades)} /\ subjects = NoRows
     ELSE /\ DOMAIN years = {First(Years)}
          /\ \A y \in DOMAIN years : years[y].to = years[y].from + 1 /\ years[y].to + 1 \in Dates
          /\ IF scope = "curriculum"
             THEN DOMAIN grades \subseteq {First(Grades)}
             ELSE DOMAIN grades = Grades /\ subjects # NoRows

ScopedNext ==
  /\ ScheduleNext /\ AloneNext /\ scope' = scope
  /\ \A w \in Workers : pc'[w] \in StepsOf(scope)
  /\ scope # "calendar" => calendarVars' = calendarVars
  /\ scope # "curriculum" => <<cycles, courses, grades>>' = <<cycles, courses, grades>>
  /\ scope = "calendar" => subjects' = subjects
  /\ scope # "schedule" => slots' = slots

ScopedSpec == ScopedInit /\ [][ScopedNext]_scopedVars

\* academic_year_list_view, academic_year_edit_view: whatever races have left,
\* a request that marks a year and runs alone leaves it the one current year,
\* and an edition that runs alone leaves the same year current.
AloneMarks ==
  [][\A w \in Workers :
       /\ EndsAlone(w, "mark") => CurrentYears' = {task[w].id}
       /\ EndsAlone(w, "year") => CurrentYears' = CurrentYears]_scopedVars

\* AcademicTerm.clean, Subject.clean, SchoolClass.clean, Schedule.clean,
\* validate_schedule_conflict: a row that is saved by a request that runs alone
\* respects the rule it was checked against.
AloneChecks ==
  [][\A w \in Workers :
       /\ EndsAlone(w, "term") /\ terms' # terms =>
            LET term == terms'[task[w].id]
                year == years[term.year]
            IN year.from <= term.from /\ term.from < term.to /\ term.to <= year.to
       /\ EndsAlone(w, "subject") /\ subjects' # subjects =>
            grades[subjects'[task[w].id].grade].course = subjects'[task[w].id].course
       /\ EndsAlone(w, "class") /\ classes' # classes =>
            grades[classes'[task[w].id].grade].course = classes'[task[w].id].course
       /\ EndsAlone(w, "slot") =>
            subjects[task[w].row.subject].grade = classes[task[w].row.class].grade
       /\ EndsAlone(w, "slot") =>
            \A s \in DOMAIN slots \ {task[w].id} :
              ~ (/\ Shared(slots[s], task[w].row) /\ slots[s].day = task[w].row.day
                 /\ \E hour \in Hours : /\ At(task[w].row.day, hour, slots[s])
                                        /\ At(task[w].row.day, hour, task[w].row))
    ]_scopedVars

Raises(w) == task[w].next <= Holidays /\ days[task[w].next] > 1

\* seed_national_holidays, "safe to call again for a year already seeded": one
\* that runs alone to its end leaves one row of each holiday, whatever earlier
\* calls, their crashes and the screens of the calendar have left.
AloneSeeds ==
  [][\A w \in Workers :
       EndsAlone(w, "seed") /\ ~ Raises(w) => \A h \in 1 .. Holidays : days'[h] = 1]_scopedVars

-----------------------------------------------------------------------------
(* Easter Sunday is the first Sunday after the first ecclesiastical full moon  *)
(* from 21 March on. The moon is told by the age the epact gives it, a Sunday  *)
(* by the days elapsed.                                                       *)
Epact(year) ==
  LET century == year \div 100 + 1
      solar == (3 * century) \div 4 - 12
      lunar == (8 * century + 5) \div 25 - 5
      epact == (11 * ((year % 19) + 1) + 20 + lunar - solar) % 30
  IN IF epact = 24 \/ (epact = 25 /\ year % 19 > 10) THEN epact + 1 ELSE epact

IsFullMoon(year, n) == (n + Epact(year)) % 30 = 14

IsSunday(year, n) ==
  (365 * year + year \div 4 - year \div 100 + year \div 400 + n) % 7 = 5

Earliest(S) == CHOOSE n \in S : \A m \in S : n <= m

EasterReference(year) ==
  LET moon == Earliest({n \in 21 .. 50 : IsFullMoon(year, n)})
  IN Earliest({n \in moon + 1 .. moon + 7 : IsSunday(year, n)})

\* _easter_sunday, "stay correct offline, on any Nó Local, for any year". The
\* formula has no variables: it is evaluated in the initial states.
EasterMatches ==
  requests = 0 => \A year \in FirstYear .. LastYear : EasterSunday(year) = EasterReference(year)
=============================================================================

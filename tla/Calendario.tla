----------------------------- MODULE Calendario -----------------------------
(* The academic calendar of an institution (apps/core/models/calendar.py and   *)
(* its screens in apps/admin_panel): academic years, of which one is current,  *)
(* their terms, and the national holidays loaded on demand.                    *)
(*                                                                            *)
(* The screens run without ATOMIC_REQUESTS: a row is read by one statement and *)
(* all of it written by a later one. Names, designations and the institution,  *)
(* which every query filters by, are left out.                                 *)
EXTENDS Pedidos, Integers, FiniteSets

CONSTANTS
  Years, Terms, \* identifiers
  Dates,        \* days of the calendar
  Numbers,      \* of terms, of curricular years, orders of cycles
  Holidays,     \* how many national holidays a calendar year has
  MaxRows       \* bound: rows of one non-teaching day

ASSUME CalendarAssumption == Dates \subseteq Int /\ Holidays \in Nat

VARIABLES
  years, terms, \* identifier -> row
  days          \* national holiday -> rows of NonTeachingDay

calendarVars == <<years, terms, days>>

YearRow == [from : Dates, to : Dates, current : BOOLEAN]
TermRow == [year : Years, number : Numbers, from : Dates, to : Dates]

-----------------------------------------------------------------------------
\* uuid7: the identifier of a new row has never been one.
Fresh(id, table) == id \notin DOMAIN table /\ \A w \in Workers : pc[w] # "idle" => task[w].id # id

-----------------------------------------------------------------------------
(* Academic years.                                                            *)

CurrentYears == {y \in DOMAIN years : years[y].current}

CreateYear(w, y, from, to) ==
  /\ Fresh(y, years) /\ from < to
  /\ AtOnce(w)
  /\ years' = Put(years, y, [from |-> from, to |-> to, current |-> FALSE])
  /\ UNCHANGED <<terms, days>>

\* academic_year_list_view, "mark_current": the year is read ...
MarkRequest(w, y) ==
  /\ y \in DOMAIN years
  /\ Begin(w, "unmark", [id |-> y])
  /\ UNCHANGED calendarVars

\* Fault: only a year that is not the one asked for is unmarked while it is read.
UnmarkNone(w) ==
  /\ Step(w, "unmark", "mark")
  /\ UNCHANGED <<calendarVars, task, requests, crashes>>

\* ... one UPDATE unmarks every year ...
Unmark(w) ==
  /\ Step(w, "unmark", "mark")
  /\ years' = [y \in DOMAIN years |-> [years[y] EXCEPT !.current = FALSE]]
  /\ UNCHANGED <<terms, days, task, requests, crashes>>

(* ... and another marks it: full_clean() and the partial unique index refuse a *)
(* second current year, and save(update_fields) a year that is gone.           *)
Mark(w) ==
  /\ End(w, "mark")
  /\ IF task[w].id \in DOMAIN years /\ CurrentYears \subseteq {task[w].id}
     THEN years' = [years EXCEPT ![task[w].id].current = TRUE]
     ELSE UNCHANGED years
  /\ UNCHANGED <<terms, days, requests, crashes>>

\* academic_year_edit_view reads the whole row, is_current among it ...
EditYear(w, y, from, to) ==
  /\ y \in DOMAIN years /\ from < to
  /\ Begin(w, "year", [id |-> y, row |-> [from |-> from, to |-> to,
                                          current |-> years[y].current]])
  /\ UNCHANGED calendarVars

\* ... and writes it whole; save() inserts a row again that was deleted since.
SaveYear(w) ==
  /\ End(w, "year")
  /\ IF task[w].row.current /\ ~ CurrentYears \subseteq {task[w].id}
     THEN UNCHANGED years
     ELSE years' = Put(years, task[w].id, task[w].row)
  /\ UNCHANGED <<terms, days, requests, crashes>>

\* Terms go with their year; the classes of a year protect it.
DeleteYear(w, y, protected) ==
  /\ y \in DOMAIN years /\ y \notin protected
  /\ AtOnce(w)
  /\ years' = Without(years, {y})
  /\ terms' = Without(terms, {t \in DOMAIN terms : terms[t].year = y})
  /\ UNCHANGED days

-----------------------------------------------------------------------------
(* Terms.                                                                     *)

\* Fault: the end of the term is not compared.
StartsWithin(from, to, year) == from < to /\ year.from <= from

\* AcademicTerm.clean.
Within(from, to, year) == from < to /\ year.from <= from /\ to <= year.to

\* academic_term_create_view: the term is checked against the year that was read.
CreateTerm(w, t, row) ==
  /\ Fresh(t, terms) /\ row.year \in DOMAIN years
  /\ Within(row.from, row.to, years[row.year])
  /\ Begin(w, "term", [id |-> t, row |-> row])
  /\ UNCHANGED calendarVars

\* academic_term_edit_view cannot move a term to another year.
EditTerm(w, t, row) ==
  /\ t \in DOMAIN terms /\ row.year = terms[t].year
  /\ Within(row.from, row.to, years[row.year])
  /\ Begin(w, "term", [id |-> t, row |-> row])
  /\ UNCHANGED calendarVars

\* The foreign key and the unique number of a term in its year refuse the others.
SaveTerm(w) ==
  LET row == task[w].row
      taken == \E t \in DOMAIN terms \ {task[w].id} :
                 terms[t].year = row.year /\ terms[t].number = row.number
  IN /\ End(w, "term")
     /\ IF row.year \in DOMAIN years /\ ~ taken
        THEN terms' = Put(terms, task[w].id, row)
        ELSE UNCHANGED terms
     /\ UNCHANGED <<years, days, requests, crashes>>

DeleteTerm(w, t) ==
  /\ t \in DOMAIN terms
  /\ AtOnce(w)
  /\ terms' = Without(terms, {t})
  /\ UNCHANGED <<years, days>>

-----------------------------------------------------------------------------
(* National holidays.                                                         *)

\* Fault: the century is not corrected for the drift of the moon.
EasterWithoutLunarCorrection(year) ==
  LET a == year % 19
      b == year \div 100
      c == year % 100
      h == (19 * a + b - b \div 4 - 6 + 15) % 30
      l == (32 + 2 * (b % 4) + 2 * (c \div 4) - h - (c % 4)) % 7
      m == (a + 11 * h + 22 * l) \div 451
      n == h + l - 7 * m + 114
  IN 31 * (n \div 31 - 3) + (n % 31) + 1

\* _easter_sunday: the day of March (April from 32 on) of Easter Sunday.
EasterSunday(year) ==
  LET a == year % 19
      b == year \div 100
      c == year % 100
      g == (b - (b + 8) \div 25 + 1) \div 3
      h == (19 * a + b - b \div 4 - g + 15) % 30
      l == (32 + 2 * (b % 4) + 2 * (c \div 4) - h - (c % 4)) % 7
      m == (a + 11 * h + 22 * l) \div 451
      n == h + l - 7 * m + 114
  IN 31 * (n \div 31 - 3) + (n % 31) + 1

SeedRequest(w) ==
  /\ Begin(w, "seed", [id |-> None, next |-> 1])
  /\ UNCHANGED calendarVars

\* Fault: the last holiday is never reached.
SeedAllButLast(w) ==
  LET h == task[w].next
  IN /\ pc[w] = "seed"
     /\ IF h >= Holidays \/ days[h] > 1
        THEN End(w, "seed")
        ELSE /\ pc' = [pc EXCEPT ![w] = IF days[h] = 0 THEN "day" ELSE "seed"]
             /\ task' = [task EXCEPT ![w].next = IF days[h] = 0 THEN h ELSE h + 1]
     /\ UNCHANGED <<calendarVars, requests, crashes>>

(* seed_national_holidays: get_or_create of each holiday in turn. No constraint *)
(* keeps a second row out, and with one of them get() raises from then on.     *)
Seed(w) ==
  LET h == task[w].next
  IN /\ pc[w] = "seed"
     /\ IF h > Holidays \/ days[h] > 1
        THEN End(w, "seed")
        ELSE /\ pc' = [pc EXCEPT ![w] = IF days[h] = 0 THEN "day" ELSE "seed"]
             /\ task' = [task EXCEPT ![w].next = IF days[h] = 0 THEN h ELSE h + 1]
     /\ UNCHANGED <<calendarVars, requests, crashes>>

AddDay(w) ==
  /\ Step(w, "day", "seed")
  /\ days' = [days EXCEPT ![task[w].next] = @ + 1]
  /\ task' = [task EXCEPT ![w].next = @ + 1]
  /\ UNCHANGED <<years, terms, requests, crashes>>

\* The screens of the non-teaching days add and remove any day, a holiday too.
CreateDay(w, h) ==
  /\ days[h] < MaxRows
  /\ AtOnce(w)
  /\ days' = [days EXCEPT ![h] = @ + 1]
  /\ UNCHANGED <<years, terms>>

DeleteDay(w, h) ==
  /\ days[h] > 0
  /\ AtOnce(w)
  /\ days' = [days EXCEPT ![h] = @ - 1]
  /\ UNCHANGED <<years, terms>>

-----------------------------------------------------------------------------
\* An institution that has years already, none of them current.
CalendarInit ==
  /\ \E known \in SUBSET Years, from, to \in Dates :
       /\ from < to
       /\ years = [y \in known |-> [from |-> from, to |-> to, current |-> FALSE]]
  /\ terms = [t \in {} |-> None]
  /\ days = [h \in 1 .. Holidays |-> 0]
  /\ RequestsInit

CalendarRequest(w, protected) ==
  \/ \E y \in Years :
       MarkRequest(w, y) \/ DeleteYear(w, y, protected)
  \/ \E y \in Years, from, to \in Dates : CreateYear(w, y, from, to) \/ EditYear(w, y, from, to)
  \/ \E t \in Terms : DeleteTerm(w, t) \/ \E row \in TermRow : CreateTerm(w, t, row) \/ EditTerm(w, t, row)
  \/ SeedRequest(w)
  \/ \E h \in 1 .. Holidays : CreateDay(w, h) \/ DeleteDay(w, h)

CalendarStep(w) ==
  \/ Unmark(w) \/ Mark(w) \/ SaveYear(w)
  \/ SaveTerm(w)
  \/ Seed(w) \/ AddDay(w)
  \/ Dies(w) /\ UNCHANGED calendarVars

CalendarTypeOK ==
  /\ DOMAIN years \subseteq Years /\ \A y \in DOMAIN years : years[y] \in YearRow
  /\ DOMAIN terms \subseteq Terms /\ \A t \in DOMAIN terms : terms[t] \in TermRow
  /\ \A t \in DOMAIN terms : terms[t].year \in DOMAIN years
  /\ \A y, z \in CurrentYears : y = z
  /\ days \in [1 .. Holidays -> Nat]
=============================================================================

----------------------------- MODULE PautaProofs -----------------------------
(***************************************************************************)
(* Theorems about Pauta, for any numbers of grades, cells, values, workers *)
(* and failures: a request that runs alone implements PautaServico, so     *)
(* that it changes closed grades only by opening them again; and so does,  *)
(* whatever it races with, a request that no closing has overtaken.        *)
(***************************************************************************)
EXTENDS MCPauta, TLAPS

\* The table alone.
TableOK ==
  /\ DOMAIN grades \subseteq Grades
  /\ \A g \in DOMAIN grades : grades[g] \in Grade

\* A row in memory belongs to a row of the table and has its cell, so that a
\* save() moves no grade to another cell; a grade about to be created is known.
WorkerOK(w) ==
  /\ \A g \in DOMAIN held[w] : /\ g \in DOMAIN grades
                               /\ held[w][g] \in Grade
                               /\ held[w][g].cell = grades[g].cell
  /\ pc[w] = "create" => \E c \in Cells, v \in Scale : launch[w] = New(c, v)

\* The inductive invariant.
IInv == TypeOK /\ \A w \in Workers : WorkerOK(w)

\* No grade is removed or moved to another cell.
Grows ==
  /\ DOMAIN grades \subseteq DOMAIN grades'
  /\ \A g \in DOMAIN grades : grades'[g].cell = grades[g].cell

\* A step of w that leaves the table and its own memory in order leaves all in order.
LEMMA OwnStep ==
  ASSUME IInv, NEW w \in Workers, TableOK', Grows,
         pc' = [pc EXCEPT ![w] = pc'[w]], pc'[w] \in Steps,
         launch' = [launch EXCEPT ![w] = launch'[w]], launch'[w] \in Grade \cup {None},
         DOMAIN held' = Workers, \A u \in Workers \ {w} : held'[u] = held[u],
         WorkerOK(w)', failures' \in 0 .. MaxFailures
  PROVE  IInv'
<1>1. \A v \in Workers : WorkerOK(v)'
  <2>1. SUFFICES ASSUME NEW v \in Workers \ {w} PROVE WorkerOK(v)'
    OBVIOUS
  <2>2. held'[v] = held[v] /\ pc'[v] = pc[v] /\ launch'[v] = launch[v]
    BY DEF IInv, TypeOK
  <2>. QED BY <2>2 DEF IInv, WorkerOK, Grows
<1>2. TypeOK'
  BY <1>1 DEF IInv, TypeOK, WorkerOK, TableOK
<1>. QED BY <1>1, <1>2 DEF IInv, TableOK

LEMMA SameTable ==
  ASSUME IInv, UNCHANGED grades
  PROVE  TableOK' /\ Grows
BY DEF IInv, TypeOK, TableOK, Grows

\* save() of a row in memory.
LEMMA SaveKeeps ==
  ASSUME IInv, NEW w \in Workers, NEW g \in DOMAIN held[w], NEW row \in Grade,
         row.cell = held[w][g].cell, Save(g, row)
  PROVE  TableOK' /\ Grows
<1>1. g \in DOMAIN grades /\ row.cell = grades[g].cell
  BY DEF IInv, WorkerOK
<1>2. DOMAIN grades' = DOMAIN grades
  BY DEF Save
<1>3. \A h \in DOMAIN grades : grades'[h] = IF h = g THEN row ELSE grades[h]
  BY DEF Save
<1>4. \A h \in DOMAIN grades : grades'[h].cell = grades[h].cell
  BY <1>1, <1>3
<1>. QED BY <1>2, <1>3, <1>4 DEF IInv, TypeOK, TableOK, Grows

\* A worker that answers its request, or dies.
LEMMA ReleaseStep ==
  ASSUME IInv, NEW w \in Workers, TableOK', Grows, Release(w), failures' \in 0 .. MaxFailures
  PROVE  IInv'
<1>1. /\ pc' = [pc EXCEPT ![w] = pc'[w]] /\ pc'[w] = "idle"
      /\ launch' = [launch EXCEPT ![w] = launch'[w]] /\ launch'[w] = None
      /\ DOMAIN held' = Workers /\ \A u \in Workers \ {w} : held'[u] = held[u]
      /\ held'[w] = NoRows
  BY DEF Release, IInv, TypeOK
<1>2. WorkerOK(w)'
  BY <1>1 DEF WorkerOK, NoRows
<1>. QED BY <1>1, <1>2, OwnStep DEF Steps

\* A request that ends in an exception, or a worker that dies.
LEMMA FailStep ==
  ASSUME IInv, NEW w \in Workers, Fails(w)
  PROVE  IInv'
<1>1. Release(w) /\ UNCHANGED grades /\ failures' \in 0 .. MaxFailures
  BY FailuresAssumption DEF Fails, IInv, TypeOK
<1>. QED BY <1>1, SameTable, ReleaseStep

-----------------------------------------------------------------------------
LEMMA InitIInv == Init => IInv
BY FailuresAssumption DEF Init, IInv, TypeOK, NoRows, Steps, WorkerOK

LEMMA EditStep ==
  ASSUME IInv, NEW w \in Workers, NEW g \in DOMAIN grades, NEW v \in Scale, NEW closed \in BOOLEAN,
         Edit(w, g, v, closed)
  PROVE  IInv'
<1>1. TableOK' /\ Grows
  BY SameTable DEF Edit
<1>2. /\ pc' = [pc EXCEPT ![w] = pc'[w]] /\ pc'[w] = "check"
      /\ launch' = [launch EXCEPT ![w] = launch'[w]] /\ launch'[w] \in Grade \cup {None}
      /\ DOMAIN held' = Workers /\ \A u \in Workers \ {w} : held'[u] = held[u]
      /\ held'[w] = [x \in {g} |-> [grades[x] EXCEPT !.value = v, !.closed = closed]]
      /\ failures' \in 0 .. MaxFailures
  BY DEF Edit, Goto, IInv, TypeOK
<1>3. grades[g] \in Grade /\ grades' = grades
  BY DEF Edit, IInv, TypeOK
<1>4. [grades[g] EXCEPT !.value = v, !.closed = closed] \in Grade
  BY <1>3 DEF Grade
<1>5. [grades[g] EXCEPT !.value = v, !.closed = closed].cell = grades[g].cell
  BY <1>3 DEF Grade
<1>6. DOMAIN held'[w] = {g} /\ held'[w][g] = [grades[g] EXCEPT !.value = v, !.closed = closed]
  BY <1>2
<1>7. WorkerOK(w)'
  BY <1>2, <1>3, <1>4, <1>5, <1>6 DEF WorkerOK
<1>. QED BY <1>1, <1>2, <1>7, OwnStep DEF Steps

LEMMA LaunchStep ==
  ASSUME IInv, NEW w \in Workers, NEW c \in Cells, NEW v \in Values, LaunchRequest(w, c, v)
  PROVE  IInv'
<1>1. CASE \E g \in DOMAIN grades : grades[g].cell = c /\ Edit(w, g, v, grades[g].closed)
  BY <1>1, EditStep DEF LaunchRequest, IInv, TypeOK, Grade
<1>2. CASE /\ launch' = [launch EXCEPT ![w] = New(c, v)] /\ Goto(w, "create")
           /\ UNCHANGED <<grades, held, failures>>
  <2>1. TableOK' /\ Grows
    BY <1>2, SameTable
  <2>2. v \in Scale /\ New(c, v) \in Grade
    BY DEF LaunchRequest, New, Grade
  <2>3. /\ pc' = [pc EXCEPT ![w] = pc'[w]] /\ pc'[w] = "create"
        /\ launch' = [launch EXCEPT ![w] = launch'[w]] /\ launch'[w] = New(c, v)
        /\ DOMAIN held' = Workers /\ \A u \in Workers : held'[u] = held[u]
        /\ failures' \in 0 .. MaxFailures
    BY <1>2 DEF Goto, IInv, TypeOK
  <2>4. WorkerOK(w)'
    BY <1>2, <2>2, <2>3 DEF WorkerOK, IInv
  <2>. QED BY <2>1, <2>2, <2>3, <2>4, OwnStep DEF Steps
<1>. QED BY <1>1, <1>2 DEF LaunchRequest

\* The rows a loop reads, and the rows it has left.
LEMMA HoldStep ==
  ASSUME IInv, NEW w \in Workers, NEW step \in Steps \ {"create"}, NEW rows,
         Goto(w, step), held' = [held EXCEPT ![w] = rows], UNCHANGED <<launch, failures>>,
         TableOK', Grows,
         \A g \in DOMAIN rows : /\ g \in DOMAIN grades' /\ rows[g] \in Grade
                                /\ rows[g].cell = grades'[g].cell
  PROVE  IInv'
<1>1. /\ pc' = [pc EXCEPT ![w] = pc'[w]] /\ pc'[w] = step
      /\ launch' = [launch EXCEPT ![w] = launch'[w]] /\ launch'[w] \in Grade \cup {None}
      /\ DOMAIN held' = Workers /\ \A u \in Workers \ {w} : held'[u] = held[u]
      /\ held'[w] = rows
      /\ failures' \in 0 .. MaxFailures
  BY DEF Goto, IInv, TypeOK
<1>2. WorkerOK(w)'
  BY <1>1 DEF WorkerOK
<1>. QED BY <1>1, <1>2, OwnStep

LEMMA ReadStep ==
  ASSUME IInv, NEW w \in Workers, NEW S, NEW step \in {"homologar", "reabrir"},
         held' = [held EXCEPT ![w] = Read(S \cap DOMAIN grades)], Goto(w, step),
         UNCHANGED <<grades, launch, failures>>
  PROVE  IInv'
<1>1. TableOK' /\ Grows
  BY SameTable
<1>2. \A g \in DOMAIN Read(S \cap DOMAIN grades) :
        /\ g \in DOMAIN grades' /\ Read(S \cap DOMAIN grades)[g] \in Grade
        /\ Read(S \cap DOMAIN grades)[g].cell = grades'[g].cell
  BY DEF Read, IInv, TypeOK
<1>. QED BY <1>1, <1>2, HoldStep DEF Steps

LEMMA StutterStep == IInv /\ UNCHANGED vars => IInv'
BY DEF vars, local, IInv, TypeOK, WorkerOK

LEMMA ReceiveStep ==
  ASSUME IInv, NEW w \in Workers, Receive(w)
  PROVE  IInv'
<1>1. ASSUME NEW v \in Values, NEW c \in Cells, LaunchRequest(w, c, v) PROVE IInv'
  BY <1>1, LaunchStep
<1>2. ASSUME NEW v \in Values, NEW g \in Grades, CorrectRequest(w, g, v) PROVE IInv'
  BY <1>2, EditStep DEF CorrectRequest, IInv, TypeOK, Grade
<1>3. ASSUME NEW v \in Values, OutOfScale(w, v) PROVE IInv'
  BY <1>3, StutterStep DEF OutOfScale, Refused
<1>4. ASSUME NEW selected \in SUBSET Grades, HomologarRequest(w, selected) PROVE IInv'
  BY <1>4, ReadStep DEF HomologarRequest
<1>5. ASSUME NEW selected \in SUBSET Grades, NEW reason \in BOOLEAN,
             ReabrirRequest(w, selected, reason)
      PROVE  IInv'
  <2>1. CASE reason
    BY <1>5, <2>1, ReadStep DEF ReabrirRequest
  <2>2. CASE ~reason
    BY <1>5, <2>2, StutterStep DEF ReabrirRequest, vars, local
  <2>. QED BY <2>1, <2>2
<1>6. ASSUME NEW v \in Values, NEW g \in Grades, NEW closed \in BOOLEAN,
             AdminEdit(w, g, v, closed)
      PROVE  IInv'
  BY <1>6, EditStep, StutterStep DEF AdminEdit
<1>. QED BY <1>1, <1>2, <1>3, <1>4, <1>5, <1>6 DEF Receive

LEMMA CreateStep ==
  ASSUME IInv, NEW w \in Workers, NEW g \in Grades, Create(w, g)
  PROVE  IInv'
<1> DEFINE db == [x \in DOMAIN grades \cup {g} |-> IF x = g THEN launch[w] ELSE grades[x]]
<1>1. launch[w] \in Grade /\ g \notin DOMAIN grades
  <2>1. PICK c \in Cells, v \in Scale : launch[w] = New(c, v)
    BY DEF Create, IInv, WorkerOK
  <2>. QED BY <2>1 DEF Create, New, Grade
<1>2. CASE grades' = db /\ Release(w) /\ UNCHANGED failures
  <2>1. grades' = db
    BY <1>2
  <2>2. TableOK'
    BY <1>1, <1>2, <2>1 DEF TableOK, IInv, TypeOK
  <2>3. Grows
    BY <1>1, <2>1 DEF Grows
  <2>. QED BY <1>2, <2>2, <2>3, ReleaseStep DEF IInv, TypeOK
<1>3. CASE Release(w) /\ UNCHANGED <<grades, failures>>
  BY <1>3, SameTable, ReleaseStep DEF IInv, TypeOK
<1>4. CASE Invalid(w)
  BY <1>4, FailStep DEF Invalid
<1>. QED BY <1>2, <1>3, <1>4 DEF Create

LEMMA CheckStep ==
  ASSUME IInv, NEW w \in Workers, Check(w)
  PROVE  IInv'
<1>1. TableOK' /\ Grows /\ failures' \in 0 .. MaxFailures
  BY SameTable DEF Check, IInv, TypeOK
<1>2. CASE Release(w)
  BY <1>1, <1>2, ReleaseStep
<1>3. CASE Goto(w, "write") /\ UNCHANGED <<launch, held>>
  <2>1. UNCHANGED <<grades, launch, failures>>
    BY <1>3 DEF Check, IInv, TypeOK
  <2>2. pc'[w] = "write" /\ pc' = [pc EXCEPT ![w] = pc'[w]]
    BY <1>3 DEF Goto, IInv, TypeOK
  <2>3. WorkerOK(w)'
    BY <1>3, <2>1, <2>2 DEF IInv, WorkerOK
  <2>4. launch' = [launch EXCEPT ![w] = launch'[w]] /\ launch'[w] \in Grade \cup {None}
    BY <2>1 DEF IInv, TypeOK
  <2>5. DOMAIN held' = Workers /\ \A u \in Workers \ {w} : held'[u] = held[u]
    BY <1>3 DEF IInv, TypeOK
  <2>. QED BY <1>1, <2>2, <2>3, <2>4, <2>5, OwnStep DEF Steps
<1>. QED BY <1>2, <1>3 DEF Check

LEMMA WriteStep ==
  ASSUME IInv, NEW w \in Workers, Write(w)
  PROVE  IInv'
<1>1. ASSUME NEW g \in DOMAIN held[w], Save(g, held[w][g]), Release(w), UNCHANGED failures
      PROVE  IInv'
  <2>1. held[w][g] \in Grade
    BY DEF IInv, WorkerOK
  <2>2. TableOK' /\ Grows
    BY <1>1, <2>1, SaveKeeps
  <2>. QED BY <1>1, <2>2, ReleaseStep DEF IInv, TypeOK
<1>2. CASE Invalid(w)
  BY <1>2, FailStep DEF Invalid
<1>. QED BY <1>1, <1>2 DEF Write

\* One turn of a loop: a row is saved, or left as it is, and forgotten.
LEMMA TurnStep ==
  ASSUME IInv, NEW w \in Workers, NEW g \in DOMAIN held[w], TableOK', Grows,
         Done(w, g), UNCHANGED <<pc, launch, failures>>
  PROVE  IInv'
<1> DEFINE rows == [x \in DOMAIN held[w] \ {g} |-> held[w][x]]
<1>1. /\ pc' = [pc EXCEPT ![w] = pc'[w]] /\ pc'[w] \in Steps
      /\ launch' = [launch EXCEPT ![w] = launch'[w]] /\ launch'[w] \in Grade \cup {None}
      /\ DOMAIN held' = Workers /\ \A u \in Workers \ {w} : held'[u] = held[u]
      /\ held'[w] = rows
      /\ failures' \in 0 .. MaxFailures
  BY DEF Done, IInv, TypeOK
<1>2. WorkerOK(w)'
  BY <1>1 DEF IInv, WorkerOK, Grows
<1>. QED BY <1>1, <1>2, OwnStep

LEMMA HomologarStep ==
  ASSUME IInv, NEW w \in Workers, NEW g \in Grades, Homologar(w, g)
  PROVE  IInv'
<1>1. g \in DOMAIN held[w] /\ held[w][g] \in Grade
  BY DEF Homologar, IInv, WorkerOK
<1>2. /\ [held[w][g] EXCEPT !.closed = TRUE] \in Grade
      /\ [held[w][g] EXCEPT !.closed = TRUE].cell = held[w][g].cell
  BY <1>1 DEF Grade
<1>3. CASE Invalid(w)
  BY <1>3, FailStep DEF Invalid
<1>4. CASE Done(w, g) /\ UNCHANGED <<pc, launch, failures>> /\ ~Invalid(w)
  <2>1. TableOK' /\ Grows
    BY <1>1, <1>2, <1>4, SaveKeeps, SameTable DEF Homologar
  <2>. QED BY <1>1, <1>4, <2>1, TurnStep
<1>. QED BY <1>3, <1>4 DEF Homologar

LEMMA ReabrirStep ==
  ASSUME IInv, NEW w \in Workers, NEW g \in Grades, Reabrir(w, g)
  PROVE  IInv'
<1>1. g \in DOMAIN held[w] /\ held[w][g] \in Grade
  BY DEF Reabrir, IInv, WorkerOK
<1>2. /\ [held[w][g] EXCEPT !.closed = FALSE, !.reason = TRUE] \in Grade
      /\ [held[w][g] EXCEPT !.closed = FALSE, !.reason = TRUE].cell = held[w][g].cell
  BY <1>1 DEF Grade
<1>3. CASE Invalid(w)
  BY <1>3, FailStep DEF Invalid
<1>4. CASE Done(w, g) /\ UNCHANGED <<pc, launch, failures>> /\ ~Invalid(w)
  <2>1. TableOK' /\ Grows
    BY <1>1, <1>2, <1>4, SaveKeeps, SameTable DEF Reabrir
  <2>. QED BY <1>1, <1>4, <2>1, TurnStep
<1>. QED BY <1>3, <1>4 DEF Reabrir

LEMMA EndStep ==
  ASSUME IInv, NEW w \in Workers, LoopEnd(w) \/ Crash(w)
  PROVE  IInv'
BY FailStep, SameTable, ReleaseStep DEF LoopEnd, Crash, IInv, TypeOK

LEMMA NextIInv == IInv /\ [Next]_vars => IInv'
<1> SUFFICES ASSUME IInv, [Next]_vars PROVE IInv'
  OBVIOUS
<1>1. CASE UNCHANGED vars
  BY <1>1, StutterStep
<1>2. ASSUME NEW w \in Workers, Receive(w) PROVE IInv'
  BY <1>2, ReceiveStep
<1>3. ASSUME NEW w \in Workers, Step(w) PROVE IInv'
  BY <1>3, CreateStep, HomologarStep, ReabrirStep, CheckStep, WriteStep, EndStep DEF Step
<1>4. ASSUME NEW w \in Workers, Crash(w) PROVE IInv'
  BY <1>4, EndStep
<1>. QED BY <1>1, <1>2, <1>3, <1>4 DEF Next

\* The inductive invariant holds in every state.
THEOREM Invariance == Spec => []IInv
BY InitIInv, NextIInv, PTL DEF Spec

\* Rows, memory and program counters keep their types.
THEOREM TypeCorrect == Spec => []TypeOK
<1>1. IInv => TypeOK
  BY DEF IInv
<1>. QED BY <1>1, Invariance, PTL

-----------------------------------------------------------------------------
(* A request that runs alone.                                              *)

\* row is old with the values of a form.
EditOf(old, row) ==
  \E v \in Scale, closed \in BOOLEAN : row = [old EXCEPT !.value = v, !.closed = closed]

\* What it holds in memory is what the table has, but for the value it is about
\* to correct; a grade that passed the check is open.
FreshOK(w) ==
  \A g \in DOMAIN held[w] :
    /\ pc[w] \in {"homologar", "reabrir"} => held[w][g] = grades[g]
    /\ pc[w] \in {"check", "write"} =>
         EditOf(grades[g], held[w][g])
    /\ pc[w] = "write" => ~grades[g].closed

AloneOK ==
  \A w \in Workers :
    pc[w] # "idle" /\ alone[w] =>
      /\ \A v \in Workers \ {w} : pc[v] = "idle"
      /\ FreshOK(w)

AInv == IInv /\ AloneOK

\* A request only reads when it arrives, and is fresh then.
LEMMA ReceiveReads ==
  ASSUME IInv, NEW w \in Workers, Receive(w)
  PROVE  /\ UNCHANGED grades /\ pc[w] = "idle"
         /\ \A v \in Workers \ {w} : pc'[v] = pc[v] /\ held'[v] = held[v]
         /\ pc'[w] # "idle" => FreshOK(w)'
<1>1. ASSUME NEW g \in DOMAIN grades, NEW v \in Scale, NEW closed \in BOOLEAN,
             Edit(w, g, v, closed), pc[w] = "idle"
      PROVE  /\ UNCHANGED grades /\ pc[w] = "idle"
             /\ \A u \in Workers \ {w} : pc'[u] = pc[u] /\ held'[u] = held[u]
             /\ FreshOK(w)'
  <2>1. /\ DOMAIN held'[w] = {g}
        /\ held'[w][g] = [grades[g] EXCEPT !.value = v, !.closed = closed]
        /\ pc'[w] = "check" /\ grades' = grades
    BY <1>1 DEF Edit, Goto, IInv, TypeOK
  <2>2. FreshOK(w)'
    BY <2>1 DEF FreshOK, EditOf
  <2>. QED BY <1>1, <2>2 DEF Edit, Goto, IInv, TypeOK
<1>2. ASSUME NEW v \in Values, NEW c \in Cells, LaunchRequest(w, c, v)
      PROVE  /\ UNCHANGED grades /\ pc[w] = "idle"
             /\ \A u \in Workers \ {w} : pc'[u] = pc[u] /\ held'[u] = held[u]
             /\ FreshOK(w)'
  <2>1. CASE \E g \in DOMAIN grades : grades[g].cell = c /\ Edit(w, g, v, grades[g].closed)
    BY <1>1, <1>2, <2>1 DEF LaunchRequest, IInv, TypeOK, Grade
  <2>2. CASE Goto(w, "create") /\ UNCHANGED <<grades, held, failures>>
    BY <1>2, <2>2 DEF LaunchRequest, Goto, FreshOK, IInv, TypeOK
  <2>. QED BY <1>2, <2>1, <2>2 DEF LaunchRequest
<1>3. ASSUME NEW S, NEW step \in {"homologar", "reabrir"}, pc[w] = "idle",
             held' = [held EXCEPT ![w] = Read(S \cap DOMAIN grades)], Goto(w, step),
             UNCHANGED <<grades, launch, failures>>
      PROVE  /\ UNCHANGED grades /\ pc[w] = "idle"
             /\ \A u \in Workers \ {w} : pc'[u] = pc[u] /\ held'[u] = held[u]
             /\ FreshOK(w)'
  <2>1. held'[w] = Read(S \cap DOMAIN grades) /\ pc'[w] = step
    BY <1>3 DEF Goto, IInv, TypeOK
  <2>2. FreshOK(w)'
    BY <1>3, <2>1 DEF FreshOK, Read
  <2>. QED BY <1>3, <2>2 DEF Goto, IInv, TypeOK
<1>4. ASSUME pc[w] = "idle", UNCHANGED vars
      PROVE  /\ UNCHANGED grades /\ pc[w] = "idle"
             /\ \A u \in Workers \ {w} : pc'[u] = pc[u] /\ held'[u] = held[u]
             /\ pc'[w] = "idle"
  BY <1>4 DEF vars, local
<1>5. ASSUME NEW selected \in SUBSET Grades, NEW reason \in BOOLEAN,
             ReabrirRequest(w, selected, reason)
      PROVE  /\ UNCHANGED grades /\ pc[w] = "idle"
             /\ \A u \in Workers \ {w} : pc'[u] = pc[u] /\ held'[u] = held[u]
             /\ pc'[w] # "idle" => FreshOK(w)'
  <2>1. CASE reason
    BY <1>3, <1>5, <2>1 DEF ReabrirRequest
  <2>2. CASE ~reason
    BY <1>4, <1>5, <2>2 DEF ReabrirRequest, vars, local
  <2>. QED BY <2>1, <2>2
<1>6. ASSUME NEW selected \in SUBSET Grades, HomologarRequest(w, selected)
      PROVE  /\ UNCHANGED grades /\ pc[w] = "idle"
             /\ \A u \in Workers \ {w} : pc'[u] = pc[u] /\ held'[u] = held[u]
             /\ FreshOK(w)'
  BY <1>3, <1>6 DEF HomologarRequest
<1>7. ASSUME NEW v \in Values, OutOfScale(w, v)
      PROVE  pc[w] = "idle" /\ UNCHANGED vars
  BY <1>7 DEF OutOfScale, Refused
<1>8. ASSUME NEW v \in Values, NEW g \in Grades, CorrectRequest(w, g, v)
      PROVE  /\ UNCHANGED grades /\ pc[w] = "idle"
             /\ \A u \in Workers \ {w} : pc'[u] = pc[u] /\ held'[u] = held[u]
             /\ FreshOK(w)'
  BY <1>1, <1>8 DEF CorrectRequest, IInv, TypeOK, Grade
<1>9. ASSUME NEW v \in Values, NEW g \in Grades, NEW closed \in BOOLEAN,
             AdminEdit(w, g, v, closed)
      PROVE  /\ UNCHANGED grades /\ pc[w] = "idle"
             /\ \A u \in Workers \ {w} : pc'[u] = pc[u] /\ held'[u] = held[u]
             /\ pc'[w] # "idle" => FreshOK(w)'
  <2>1. CASE grades[g].closed
    BY <1>4, <1>9, <2>1 DEF AdminEdit
  <2>2. CASE ~grades[g].closed
    BY <1>1, <1>9, <2>2 DEF AdminEdit
  <2>. QED BY <2>1, <2>2
<1>. QED BY <1>2, <1>4, <1>5, <1>6, <1>7, <1>8, <1>9 DEF Receive

\* Only a busy worker takes any other step, and it leaves the others alone.
LEMMA StepBusy ==
  ASSUME IInv, NEW w \in Workers, Step(w) \/ Crash(w)
  PROVE  /\ pc[w] # "idle"
         /\ \A v \in Workers \ {w} : pc'[v] = pc[v] /\ held'[v] = held[v]
<1>1. CASE \E g \in Grades : Create(w, g)
  BY <1>1 DEF Create, Invalid, Fails, Release, IInv, TypeOK
<1>2. CASE \E g \in Grades : Homologar(w, g) \/ Reabrir(w, g)
  BY <1>2 DEF Homologar, Reabrir, Done, Invalid, Fails, Release, IInv, TypeOK
<1>3. CASE Check(w)
  BY <1>3 DEF Check, Goto, Release, IInv, TypeOK
<1>4. CASE Write(w) \/ LoopEnd(w) \/ Crash(w)
  BY <1>4 DEF Write, LoopEnd, Crash, Invalid, Fails, Release, IInv, TypeOK
<1>. QED BY <1>1, <1>2, <1>3, <1>4 DEF Step

\* A row that is saved changes its own grade only.
LEMMA SaveOne ==
  ASSUME NEW g \in DOMAIN grades, NEW row, Save(g, row)
  PROVE  grades'[g] = row /\ \A h \in DOMAIN grades \ {g} : grades'[h] = grades[h]
BY DEF Save

\* While it runs alone it stays fresh.
LEMMA OwnFresh ==
  ASSUME IInv, NEW w \in Workers, FreshOK(w), Step(w), pc'[w] # "idle"
  PROVE  FreshOK(w)'
<1>1. CASE \E g \in Grades : Create(w, g)
  BY <1>1 DEF Create, Invalid, Fails, Release, IInv, TypeOK
<1>2. ASSUME NEW g \in Grades, Homologar(w, g) \/ Reabrir(w, g) PROVE FreshOK(w)'
  <2>1. /\ held'[w] = [x \in DOMAIN held[w] \ {g} |-> held[w][x]]
        /\ pc'[w] = pc[w] /\ pc[w] \in {"homologar", "reabrir"}
    BY <1>2 DEF Homologar, Reabrir, Done, Invalid, Fails, Release, IInv, TypeOK
  <2>2. \A h \in DOMAIN held[w] \ {g} : grades'[h] = grades[h]
    BY <1>2, SaveOne DEF Homologar, Reabrir, Invalid, Fails, IInv, WorkerOK
  <2>. QED BY <2>1, <2>2 DEF FreshOK
<1>3. CASE Check(w)
  <2>1. (\A g \in DOMAIN held[w] : ~grades[g].closed) /\ Goto(w, "write") /\ UNCHANGED <<launch, held>>
    BY <1>3 DEF Check, Release, IInv, TypeOK
  <2>2. pc'[w] = "write" /\ pc[w] = "check" /\ UNCHANGED <<grades, held>>
    BY <1>3, <2>1 DEF Check, Goto, IInv, TypeOK
  <2>. QED BY <2>1, <2>2 DEF FreshOK
<1>4. CASE Write(w) \/ LoopEnd(w)
  BY <1>4 DEF Write, LoopEnd, Invalid, Fails, Release, IInv, TypeOK
<1>. QED BY <1>1, <1>2, <1>3, <1>4 DEF Step

LEMMA NextAInv == AInv /\ [MCNext]_<<vars, alone, overtaken>> => AInv'
<1> SUFFICES ASSUME AInv, [MCNext]_<<vars, alone, overtaken>> PROVE AInv'
  OBVIOUS
<1>1. IInv'
  BY NextIInv DEF AInv, MCNext
<1>2. CASE UNCHANGED <<vars, alone, overtaken>>
  BY <1>1, <1>2 DEF AInv, AloneOK, FreshOK, vars, local
<1>3. ASSUME MCNext, NEW w \in Workers, pc'[w] # "idle", alone'[w]
      PROVE  (\A v \in Workers \ {w} : pc'[v] = "idle") /\ FreshOK(w)'
  <2>1. alone[w] /\ \A v \in Workers \ {w} : pc'[v] = "idle"
    BY <1>3 DEF MCNext
  <2>2. PICK u \in Workers : Receive(u) \/ Step(u) \/ Crash(u)
    BY <1>3 DEF MCNext, Next
  <2>3. CASE u # w
    <3>1. pc'[w] = pc[w] /\ held'[w] = held[w]
      BY <2>2, <2>3, ReceiveReads, StepBusy DEF AInv
    <3>2. FreshOK(w) /\ pc[u] = "idle"
      BY <1>3, <2>1, <2>3, <3>1 DEF AInv, AloneOK
    <3>3. UNCHANGED grades
      BY <2>2, <3>2, ReceiveReads, StepBusy DEF AInv
    <3>. QED BY <2>1, <3>1, <3>2, <3>3 DEF FreshOK
  <2>4. CASE u = w /\ Receive(u)
    BY <1>3, <2>1, <2>4, ReceiveReads DEF AInv
  <2>5. CASE u = w /\ Step(u)
    <3>1. FreshOK(w)
      BY <2>1, <2>5, StepBusy DEF AInv, AloneOK
    <3>. QED BY <1>3, <2>1, <2>5, <3>1, OwnFresh DEF AInv
  <2>6. CASE u = w /\ Crash(u)
    BY <1>3, <2>6 DEF Crash, Fails, Release, AInv, IInv, TypeOK
  <2>. QED BY <2>2, <2>3, <2>4, <2>5, <2>6
<1>4. CASE MCNext
  BY <1>1, <1>3, <1>4 DEF AInv, AloneOK
<1>. QED BY <1>2, <1>4

-----------------------------------------------------------------------------
(* A request that runs alone does what PautaServico promises.              *)

LEMMA CreateIsService ==
  ASSUME IInv, NEW w \in Workers, NEW g \in Grades, Create(w, g)
  PROVE  Servico!Next \/ UNCHANGED grades
<1>. DEFINE db == [x \in DOMAIN grades \cup {g} |-> IF x = g THEN launch[w] ELSE grades[x]]
<1>1. PICK c \in Cells, v \in Scale : launch[w] = New(c, v)
  BY DEF Create, IInv, WorkerOK
<1>2. CASE DistinctCells(db) /\ grades' = db
  <2>1. grades' = db /\ g \notin DOMAIN grades
    BY <1>2 DEF Create
  <2>2. \A h \in DOMAIN grades : grades[h].cell # c
    BY <1>1, <1>2, <2>1 DEF DistinctCells, New
  <2>3. Servico!Launch(g, c, v)
    BY <1>1, <2>1, <2>2 DEF Servico!Launch, New
  <2>. QED BY <2>3 DEF Servico!Next, Servico!Scale, Scale
<1>. QED BY <1>2 DEF Create, Invalid, Fails

LEMMA WriteIsService ==
  ASSUME IInv, NEW w \in Workers, FreshOK(w), Write(w)
  PROVE  Servico!Next \/ UNCHANGED grades
<1>. SUFFICES ASSUME ~UNCHANGED grades PROVE Servico!Next
  OBVIOUS
<1>1. PICK g \in DOMAIN held[w] : Save(g, held[w][g])
  BY DEF Write, Invalid, Fails
<1>2. g \in DOMAIN grades /\ g \in Grades /\ ~grades[g].closed
  BY DEF Write, FreshOK, IInv, WorkerOK, TypeOK
<1>3. PICK v \in Scale, closed \in BOOLEAN :
        held[w][g] = [grades[g] EXCEPT !.value = v, !.closed = closed]
  BY DEF Write, FreshOK, EditOf
<1>4. Servico!Correct(g, v, closed)
  BY <1>1, <1>2, <1>3 DEF Servico!Correct, Save
<1>. QED BY <1>2, <1>4 DEF Servico!Next, Servico!Scale, Scale

LEMMA TurnIsService ==
  ASSUME IInv, NEW w \in Workers, FreshOK(w), NEW g \in Grades,
         Homologar(w, g) \/ Reabrir(w, g)
  PROVE  Servico!Next \/ UNCHANGED grades
<1>1. g \in DOMAIN grades /\ held[w][g] = grades[g]
  BY DEF Homologar, Reabrir, FreshOK, IInv, WorkerOK
<1>2. CASE Homologar(w, g) /\ ~grades[g].closed
  BY <1>1, <1>2 DEF Homologar, Invalid, Fails, Save, Servico!Close, Servico!Next
<1>3. CASE Reabrir(w, g) /\ grades[g].closed
  BY <1>1, <1>3 DEF Reabrir, Invalid, Fails, Save, Servico!Reopen, Servico!Next
<1>. QED BY <1>1, <1>2, <1>3 DEF Homologar, Reabrir, Invalid, Fails

LEMMA StepIsService ==
  ASSUME AInv, MCNext, NEW w \in Workers, pc[w] # "idle", alone[w]
  PROVE  Servico!Next \/ UNCHANGED grades
<1>1. FreshOK(w) /\ \A v \in Workers \ {w} : pc[v] = "idle"
  BY DEF AInv, AloneOK
<1>2. PICK u \in Workers : Receive(u) \/ Step(u) \/ Crash(u)
  BY DEF MCNext, Next
<1>3. CASE Receive(u)
  BY <1>3, ReceiveReads DEF AInv
<1>4. CASE Step(u)
  <2>1. u = w
    BY <1>1, <1>4, StepBusy DEF AInv
  <2>. QED BY <1>1, <1>4, <2>1, CreateIsService, WriteIsService, TurnIsService
           DEF AInv, Step, Check, LoopEnd
<1>5. CASE Crash(u)
  BY <1>5 DEF Crash, Fails
<1>. QED BY <1>2, <1>3, <1>4, <1>5

\* lancar_ou_atualizar_nota, atualizar_nota_pauta, homologar_pauta, reabrir_pauta:
\* whatever races have gone before, a request that runs alone launches, corrects,
\* closes and opens grades as if each of these were one indivisible operation.
THEOREM PautaImplemented == MCSpec => ImplementsPauta
<1>. DEFINE Promised == (\E w \in Workers : pc[w] # "idle" /\ alone[w]) => Servico!Next
<1>1. MCInit => AInv /\ Servico!Init
  BY InitIInv DEF MCInit, AInv, AloneOK, Init, NoRows, Servico!Init
<1>2. AInv /\ [MCNext]_<<vars, alone, overtaken>> => [Promised]_grades
  <2>1. UNCHANGED <<vars, alone, overtaken>> => UNCHANGED grades
    BY DEF vars
  <2>. QED BY <2>1, StepIsService
<1>. HIDE DEF Promised
<1>3. MCSpec => Servico!Init /\ [][Promised]_grades
  BY <1>1, <1>2, NextAInv, PTL DEF MCSpec
<1>. QED BY <1>3 DEF ImplementsPauta, Promised

\* The operations promised change a closed grade in one way.
LEMMA ServiceRespectsClosure ==
  ASSUME Servico!Next, NEW g \in DOMAIN grades, grades[g].closed
  PROVE  Reopening(g)
<1>1. CASE \E h \in Grades, c \in Cells, v \in Servico!Scale : Servico!Launch(h, c, v)
  BY <1>1 DEF Servico!Launch, Reopening
<1>2. CASE \E h \in Grades : Servico!Close(h) \/ \E v \in Servico!Scale, closed \in BOOLEAN : Servico!Correct(h, v, closed)
  BY <1>2 DEF Servico!Close, Servico!Correct, Reopening
<1>3. CASE \E h \in Grades : Servico!Reopen(h)
  BY <1>3 DEF Servico!Reopen, Reopening
<1>. QED BY <1>1, <1>2, <1>3 DEF Servico!Next

\* Grade.save() and reabrir_pauta: a request that runs alone changes a closed grade
\* in no other way than by opening it again, with a justification and with the
\* value it was closed with. (ClosedOnlyReopened shows what racing requests do.)
THEOREM AloneIsSafe ==
  MCSpec => [][\A w \in Workers :
                 pc[w] # "idle" /\ alone[w] =>
                   \A g \in DOMAIN grades : grades[g].closed => Reopening(g)]_grades
<1>. DEFINE Busy == \E w \in Workers : pc[w] # "idle" /\ alone[w]
            Promised == Busy => Servico!Next
            Safe == \A w \in Workers :
                      pc[w] # "idle" /\ alone[w] =>
                        \A g \in DOMAIN grades : grades[g].closed => Reopening(g)
<1>1. Promised => Safe
  BY ServiceRespectsClosure
<1>2. MCSpec => [][Promised]_grades
  BY PautaImplemented DEF ImplementsPauta
<1>. HIDE DEF Promised, Safe
<1>3. MCSpec => [][Safe]_grades
  BY <1>1, <1>2, PTL
<1>. QED BY <1>3 DEF Safe

-----------------------------------------------------------------------------
(* A request that no closing has overtaken.                                *)

\* A row in memory of a grade that is closed is closed as well, and the check
\* before its write is still to come, unless the closing has overtaken its request.
LateOK ==
  /\ overtaken \in [Grades -> SUBSET Workers]
  /\ \A w \in Workers, g \in Grades :
       /\ pc[w] \notin {"idle", "create"} /\ g \in DOMAIN held[w]
       /\ Closed(grades, g) /\ w \notin overtaken[g]
       => held[w][g].closed /\ pc[w] # "write"

\* What a busy worker has read when it arrives is closed if the grade is.
LEMMA ReceiveLate ==
  ASSUME IInv, NEW w \in Workers, Receive(w), NEW g \in DOMAIN held'[w],
         g \in DOMAIN grades, grades[g].closed, pc'[w] \notin {"idle", "create"}
  PROVE  held'[w][g].closed /\ pc'[w] # "write"
<1>1. ASSUME NEW h \in DOMAIN grades, NEW v \in Scale, NEW closed \in BOOLEAN,
             Edit(w, h, v, closed), grades[h].closed => closed
      PROVE  held'[w][g].closed /\ pc'[w] # "write"
  <2>1. /\ DOMAIN held'[w] = {h} /\ pc'[w] = "check"
        /\ held'[w][h] = [grades[h] EXCEPT !.value = v, !.closed = closed]
    BY <1>1 DEF Edit, Goto, IInv, TypeOK
  <2>2. grades[h] \in Grade
    BY DEF IInv, TypeOK
  <2>. QED BY <1>1, <2>1, <2>2 DEF Grade
<1>2. ASSUME NEW S, NEW step \in {"homologar", "reabrir"},
             held' = [held EXCEPT ![w] = Read(S \cap DOMAIN grades)], Goto(w, step)
      PROVE  held'[w][g].closed /\ pc'[w] # "write"
  BY <1>2 DEF Goto, Read, IInv, TypeOK
<1>3. ASSUME NEW v \in Values, NEW c \in Cells, LaunchRequest(w, c, v)
      PROVE  held'[w][g].closed /\ pc'[w] # "write"
  <2>1. CASE \E h \in DOMAIN grades : grades[h].cell = c /\ Edit(w, h, v, grades[h].closed)
    BY <1>1, <1>3, <2>1 DEF LaunchRequest, IInv, TypeOK, Grade
  <2>2. CASE Goto(w, "create") /\ UNCHANGED <<grades, held, failures>>
    BY <1>3, <2>2 DEF Goto, IInv, TypeOK
  <2>. QED BY <1>3, <2>1, <2>2 DEF LaunchRequest
<1>4. ASSUME NEW v \in Values, NEW h \in Grades, CorrectRequest(w, h, v)
      PROVE  held'[w][g].closed /\ pc'[w] # "write"
  BY <1>1, <1>4 DEF CorrectRequest, IInv, TypeOK, Grade
<1>5. pc[w] = "idle"
  BY ReceiveReads
<1>6. CASE UNCHANGED <<pc, held>>
  BY <1>5, <1>6
<1>7. ASSUME NEW v \in Values, NEW h \in Grades, NEW closed \in BOOLEAN, AdminEdit(w, h, v, closed)
      PROVE  held'[w][g].closed /\ pc'[w] # "write"
  BY <1>1, <1>6, <1>7 DEF AdminEdit, vars, local
<1>8. ASSUME NEW selected \in SUBSET Grades, NEW reason \in BOOLEAN,
             HomologarRequest(w, selected) \/ ReabrirRequest(w, selected, reason)
      PROVE  held'[w][g].closed /\ pc'[w] # "write"
  BY <1>2, <1>6, <1>8 DEF HomologarRequest, ReabrirRequest
<1>9. ASSUME NEW v \in Values, OutOfScale(w, v)
      PROVE  held'[w][g].closed /\ pc'[w] # "write"
  BY <1>6, <1>9 DEF OutOfScale, Refused, vars, local
<1>. QED BY <1>3, <1>4, <1>7, <1>8, <1>9 DEF Receive

LEMMA NextLate == IInv /\ LateOK /\ [MCNext]_<<vars, alone, overtaken>> => LateOK'
<1> SUFFICES ASSUME IInv, LateOK, [MCNext]_<<vars, alone, overtaken>> PROVE LateOK'
  OBVIOUS
<1>1. CASE UNCHANGED <<vars, alone, overtaken>>
  BY <1>1 DEF LateOK, Closed, vars, local
<1>2. CASE MCNext
  <2>1. overtaken' \in [Grades -> SUBSET Workers]
    BY <1>2 DEF MCNext
  <2>2. SUFFICES ASSUME NEW w \in Workers, NEW g \in Grades,
                        pc'[w] \notin {"idle", "create"}, g \in DOMAIN held'[w],
                        Closed(grades', g), w \notin overtaken'[g]
                 PROVE  held'[w][g].closed /\ pc'[w] # "write"
    BY <2>1 DEF LateOK, Closed
  <2>3. Closed(grades, g) /\ w \notin overtaken[g]
    BY <1>2, <2>2 DEF MCNext
  <2>4. PICK u \in Workers : Receive(u) \/ Step(u) \/ Crash(u)
    BY <1>2 DEF MCNext, Next
  <2>5. CASE u # w
    <3>1. pc'[w] = pc[w] /\ held'[w] = held[w]
      BY <2>4, <2>5, ReceiveReads, StepBusy
    <3>. QED BY <2>2, <2>3, <3>1 DEF LateOK
  <2>6. CASE u = w /\ Receive(w)
    BY <2>2, <2>3, <2>6, ReceiveLate DEF Closed
  <2>7. CASE u = w /\ Step(w)
    <3>1. CASE Check(w)
      <4>1. ~Release(w)
        BY <2>2 DEF Release, IInv, TypeOK
      <4>2. (\A h \in DOMAIN held[w] : ~grades[h].closed) /\ UNCHANGED <<held, grades>>
        BY <3>1, <4>1 DEF Check
      <4>. QED BY <2>2, <2>3, <4>2 DEF Closed
    <3>2. ASSUME NEW h \in Grades, Homologar(w, h) \/ Reabrir(w, h), ~Fails(w)
          PROVE  held'[w][g].closed /\ pc'[w] # "write"
      <4>1. /\ held'[w] = [x \in DOMAIN held[w] \ {h} |-> held[w][x]]
            /\ pc'[w] = pc[w]
        BY <3>2 DEF Homologar, Reabrir, Done, Invalid, IInv, TypeOK
      <4>. QED BY <2>2, <2>3, <4>1 DEF LateOK
    <3>3. ~Fails(w)
      BY <2>2 DEF Fails, Release, IInv, TypeOK
    <3>4. ~(Write(w) \/ LoopEnd(w) \/ \E h \in Grades : Create(w, h))
      BY <2>2, <3>3 DEF Write, LoopEnd, Create, Invalid, Release, IInv, TypeOK
    <3>. QED BY <2>7, <3>1, <3>2, <3>3, <3>4 DEF Step
  <2>8. CASE u = w /\ Crash(w)
    BY <2>2, <2>8 DEF Crash, Fails, Release, IInv, TypeOK
  <2>. QED BY <2>4, <2>5, <2>6, <2>7, <2>8
<1>. QED BY <1>1, <1>2

LEMMA LateStep ==
  ASSUME IInv, LateOK, Next, NEW g \in DOMAIN grades, NEW w \in Workers,
         grades[g].closed, grades'[g] # grades[g], held'[w] # held[w], w \notin overtaken[g]
  PROVE  pc[w] = "reabrir" /\ ~grades'[g].closed /\ grades'[g].reason
<1>1. PICK u \in Workers : Receive(u) \/ Step(u) \/ Crash(u)
  BY DEF Next
<1>2. u = w /\ Step(w) /\ ~Fails(w)
  BY <1>1, ReceiveReads, StepBusy DEF Crash, Fails
<1>3. g \in Grades /\ Closed(grades, g)
  BY DEF IInv, TypeOK, Closed
<1>4. ~(LoopEnd(w) \/ Check(w) \/ \E h \in Grades : Create(w, h))
  BY <1>2 DEF LoopEnd, Check, Create, Invalid
<1>5. ~Write(w)
  <2>. SUFFICES ASSUME Write(w) PROVE FALSE
    OBVIOUS
  <2>1. PICK h \in DOMAIN held[w] : Save(h, held[w][h])
    BY <1>2 DEF Write, Invalid
  <2>2. h = g
    BY <2>1, SaveOne DEF IInv, WorkerOK
  <2>. QED BY <1>3, <2>2 DEF LateOK, Write
<1>6. PICK h \in Grades : Homologar(w, h) \/ Reabrir(w, h)
  BY <1>2, <1>4, <1>5 DEF Step
<1>7. h = g /\ g \in DOMAIN held[w]
  BY <1>2, <1>6, SaveOne DEF Homologar, Reabrir, Invalid, IInv, WorkerOK
<1>8. held[w][g].closed
  BY <1>3, <1>6, <1>7 DEF LateOK, Homologar, Reabrir
<1>9. pc[w] = "reabrir" /\ grades'[g] = [held[w][g] EXCEPT !.closed = FALSE, !.reason = TRUE]
  BY <1>2, <1>6, <1>7, <1>8, SaveOne DEF Homologar, Reabrir, Invalid, IInv, WorkerOK
<1>10. held[w][g] \in Grade
  BY <1>7 DEF IInv, WorkerOK
<1>. QED BY <1>9, <1>10 DEF Grade

\* homologar_pauta, "só pode voltar a ser editada via reabrir_pauta": whatever races,
\* a closed grade is changed only by requests the closing has overtaken and by
\* justified reopenings.
THEOREM ClosedHolds == MCSpec => ClosedAgainstLateRequests
<1>1. MCInit => IInv /\ LateOK
  BY InitIInv DEF MCInit, LateOK, Init
<1>2. IInv /\ LateOK /\ [MCNext]_<<vars, alone, overtaken>> => IInv' /\ LateOK'
  BY NextIInv, NextLate DEF MCNext
<1>3. IInv /\ LateOK /\ [MCNext]_<<vars, alone, overtaken>> =>
        [\A g \in DOMAIN grades, w \in Workers :
           /\ grades[g].closed /\ grades'[g] # grades[g]
           /\ held'[w] # held[w] /\ w \notin overtaken[g]
           => pc[w] = "reabrir" /\ ~grades'[g].closed /\ grades'[g].reason]_vars
  BY LateStep DEF MCNext, vars
<1>. QED BY <1>1, <1>2, <1>3, PTL DEF MCSpec, ClosedAgainstLateRequests

-----------------------------------------------------------------------------
LEMMA LoopStep ==
  ASSUME IInv, Next, NEW w \in Workers, NEW g \in Grades,
         pc[w] \in {"homologar", "reabrir"}, failures' = failures,
         g \in DOMAIN held[w], g \notin DOMAIN held'[w]
  PROVE  \/ held[w][g].closed = (pc[w] = "homologar")
         \/ grades'[g].closed = (pc[w] = "homologar")
<1>1. PICK u \in Workers : Receive(u) \/ Step(u) \/ Crash(u)
  BY DEF Next
<1>2. u = w /\ ~Receive(u) /\ ~Crash(u)
  BY <1>1, ReceiveReads, StepBusy, FailuresAssumption DEF Crash, Fails, IInv, TypeOK
<1>0. ~Fails(w)
  BY FailuresAssumption DEF Fails, IInv, TypeOK
<1>3. PICK h \in Grades : Homologar(w, h) \/ Reabrir(w, h)
  BY <1>1, <1>2 DEF Step, Create, Check, Write, LoopEnd, NoRows
<1>4. h = g
  BY <1>0, <1>3 DEF Homologar, Reabrir, Invalid, Done, IInv, TypeOK
<1>5. g \in DOMAIN grades /\ held[w][g] \in Grade
  BY DEF IInv, WorkerOK
<1>6. CASE Homologar(w, g)
  <2>1. pc[w] = "homologar" /\ held[w][g].closed \in BOOLEAN
    BY <1>5, <1>6 DEF Homologar, Grade
  <2>2. CASE held[w][g].closed
    BY <2>1, <2>2
  <2>3. CASE ~held[w][g].closed
    <3>1. grades'[g] = [held[w][g] EXCEPT !.closed = TRUE]
      BY <1>0, <1>5, <1>6, <2>3, SaveOne DEF Homologar, Invalid
    <3>. QED BY <1>5, <2>1, <3>1 DEF Grade
  <2>. QED BY <2>2, <2>3
<1>7. CASE Reabrir(w, g)
  <2>1. pc[w] = "reabrir" /\ held[w][g].closed \in BOOLEAN
    BY <1>5, <1>7 DEF Reabrir, Grade
  <2>2. CASE ~held[w][g].closed
    BY <2>1, <2>2
  <2>3. CASE held[w][g].closed
    <3>1. grades'[g] = [held[w][g] EXCEPT !.closed = FALSE, !.reason = TRUE]
      BY <1>0, <1>5, <1>7, <2>3, SaveOne DEF Reabrir, Invalid
    <3>. QED BY <1>5, <2>1, <3>1 DEF Grade
  <2>. QED BY <2>2, <2>3
<1>. QED BY <1>3, <1>4, <1>6, <1>7

\* homologar_pauta and reabrir_pauta: whatever races with the loop, it leaves no
\* grade of its selection without the flag that was asked for, unless the worker dies
\* or full_clean() refuses a row.
THEOREM LoopIsComplete == Spec => LoopLeavesNoGrade
<1>1. IInv /\ [Next]_vars =>
        [\A w \in Workers, g \in Grades :
           /\ pc[w] \in {"homologar", "reabrir"} /\ failures' = failures
           /\ g \in DOMAIN held[w] /\ g \notin DOMAIN held'[w]
           => LET closing == pc[w] = "homologar"
              IN  held[w][g].closed = closing \/ grades'[g].closed = closing]_vars
  BY LoopStep
<1>. QED BY <1>1, Invariance, PTL DEF Spec, LoopLeavesNoGrade
=============================================================================

---------------------------- MODULE MatriculaProofs ----------------------------
(***************************************************************************)
(* The safety invariants of Matricula hold for every number of students,   *)
(* classes, years, workers and crashes.                                    *)
(*                                                                         *)
(* None of them is inductive alone: a save() writes back a row read long   *)
(* ago, so what a worker holds in memory must be known to agree with the   *)
(* table on the columns nobody changes, to be live and without a reason    *)
(* (IInv).                                                                 *)
(*                                                                         *)
(* Of a request or task that runs by itself more is known: what it holds   *)
(* is what the table holds, and what it has checked is still true (SInv).  *)
(* From it follow that the code implements MatriculaServico, and how far   *)
(* a class may be overfilled (OInv).                                       *)
(***************************************************************************)
EXTENDS MCMatriculaRaces, FiniteSetTheorems, TLAPS

\* The columns an enrolment keeps for ever.
SameIdentity(q, r) ==
  /\ q.student = r.student
  /\ q.class = r.class
  /\ q.number = r.number
  /\ q.previous = r.previous

\* A row held in memory was live when read; its identity is still current.
HeldRowsOK(w) ==
  \A e \in DOMAIN snap[w] :
    /\ e \in DOMAIN rows
    /\ SameIdentity(snap[w][e], rows[e])
    /\ snap[w][e].status \in ActiveStatuses
    /\ ~ snap[w][e].reason

\* An enrolment under way names its student and class; a transfer holds its
\* old row, of the same student.
RequestOK(w) ==
  pc[w] \in EnrolSteps \cup {"close"} =>
    /\ req[w].student \in Students
    /\ req[w].class \in Classes
    /\ req[w].closing => /\ req[w].previous \in DOMAIN snap[w]
                         /\ snap[w][req[w].previous].student = req[w].student

CloseOK(w) == pc[w] = "close" => req[w].closing

\* The number waiting to be inserted follows one already in the table.
NumberOK(w) ==
  pc[w] = "insert" =>
    \/ number[w] = 1
    \/ \E f \in DOMAIN rows : /\ Year(rows[f]) = YearOf[req[w].class]
                              /\ rows[f].number = number[w] - 1

WorkerOK(w) == HeldRowsOK(w) /\ RequestOK(w) /\ CloseOK(w) /\ NumberOK(w)

TableOK == /\ NumbersSequential
           /\ ReasonIffCancelled
           /\ TransferHasSuccessor

IInv == TypeOK /\ TableOK /\ \A w \in Workers : WorkerOK(w)

\* No enrolment is removed or loses its identity.
Grows == /\ DOMAIN rows \subseteq DOMAIN rows'
         /\ \A e \in DOMAIN rows : SameIdentity(rows'[e], rows[e])

\* A step of worker w leaves the others' memory alone.
OthersKeep(w) ==
  \A v \in Workers \ {w} : /\ pc'[v] = pc[v]
                           /\ req'[v] = req[v]
                           /\ snap'[v] = snap[v]
                           /\ number'[v] = number[v]

-----------------------------------------------------------------------------
\* What is known of the other workers survives any step that keeps identities.
LEMMA Frame ==
  ASSUME NEW w \in Workers, IInv, Grows, OthersKeep(w), WorkerOK(w)'
  PROVE  \A v \in Workers : WorkerOK(v)'
<1> SUFFICES ASSUME NEW v \in Workers \ {w}
             PROVE  WorkerOK(v)'
  OBVIOUS
<1>0. /\ WorkerOK(v)
      /\ pc'[v] = pc[v] /\ req'[v] = req[v]
      /\ snap'[v] = snap[v] /\ number'[v] = number[v]
  BY DEF IInv, OthersKeep
<1>1. HeldRowsOK(v)'
  BY <1>0 DEF WorkerOK, HeldRowsOK, Grows, SameIdentity
<1>2. RequestOK(v)' /\ CloseOK(v)'
  BY <1>0 DEF WorkerOK, RequestOK, CloseOK
<1>3. NumberOK(v)'
  BY <1>0 DEF WorkerOK, NumberOK, Grows, SameIdentity, Year
<1> QED
  BY <1>1, <1>2, <1>3 DEF WorkerOK

\* The end of a request leaves nothing to know of its worker.
LEMMA Released ==
  ASSUME NEW w \in Workers, TypeOK, Release(w)
  PROVE  /\ pc' \in [Workers -> Steps] /\ req' \in [Workers -> Request]
         /\ batch' \in [Workers -> SUBSET Students] /\ number' \in [Workers -> Nat]
         /\ DOMAIN snap' = Workers
         /\ \A v \in Workers : /\ DOMAIN snap'[v] \subseteq Enrollments
                               /\ \A e \in DOMAIN snap'[v] : snap'[v][e] \in Row
         /\ OthersKeep(w)
         /\ WorkerOK(w)'
<1> USE DEF Release, TypeOK
<1>1. NoRequest \in Request
  BY DEF NoRequest, Request
<1>2. DOMAIN snap'[w] = {} /\ pc'[w] = "idle"
  BY DEF NoRows
<1>3. WorkerOK(w)'
  BY <1>2 DEF WorkerOK, HeldRowsOK, RequestOK, CloseOK, NumberOK, EnrolSteps
<1>4. \A v \in Workers : /\ DOMAIN snap'[v] \subseteq Enrollments
                         /\ \A e \in DOMAIN snap'[v] : snap'[v][e] \in Row
  BY <1>2
<1>5. OthersKeep(w)
  BY DEF OthersKeep
<1> QED
  BY <1>1, <1>3, <1>4, <1>5 DEF Steps, EnrolSteps

-----------------------------------------------------------------------------
\* Unchanged rows keep the table's invariants and every identity.
LEMMA SameRows ==
  ASSUME TypeOK, TableOK, UNCHANGED rows
  PROVE  /\ Grows /\ TableOK'
         /\ DOMAIN rows' \subseteq Enrollments
         /\ \A e \in DOMAIN rows' : rows'[e] \in Row
BY DEF TypeOK, TableOK, Grows, SameIdentity, NumbersSequential, DistinctNumbers, ReasonIffCancelled, TransferHasSuccessor, Year

\* Writing a stale row back keeps them: its identity is that of the table, the
\* constraints are checked, and nothing is marked as transferred.
LEMMA SaveKeeps ==
  ASSUME TypeOK, TableOK, NEW e \in DOMAIN rows, NEW r \in Row,
         SameIdentity(r, rows[e]), r.reason <=> r.status = "cancelled",
         r.status # "transferred", CanSave(e, r), Save(e, r)
  PROVE  /\ Grows /\ TableOK'
         /\ DOMAIN rows' \subseteq Enrollments
         /\ \A x \in DOMAIN rows' : rows'[x] \in Row
<1>1. /\ DOMAIN rows' = DOMAIN rows
      /\ rows'[e] = r
      /\ \A x \in DOMAIN rows \ {e} : rows'[x] = rows[x]
  BY DEF Save
<1>2. Grows
  BY <1>1 DEF Grows, SameIdentity
<1>3. Constraints(rows')
  BY DEF CanSave, Save
<1>5. NumbersSequential'
  <2>1. DistinctNumbers(rows)'
    BY <1>3 DEF Constraints, DistinctNumbers, Year
  <2>2. ASSUME NEW x \in DOMAIN rows', rows'[x].number # 1
        PROVE  \E f \in DOMAIN rows' : /\ Year(rows'[f]) = Year(rows'[x])
                                       /\ rows'[f].number = rows'[x].number - 1
    <3>1. \A f \in DOMAIN rows : /\ Year(rows'[f]) = Year(rows[f])
                                 /\ rows'[f].number = rows[f].number
      BY <1>1, <1>2 DEF Grows, SameIdentity, Year
    <3>2. PICK f \in DOMAIN rows : /\ Year(rows[f]) = Year(rows[x])
                                   /\ rows[f].number = rows[x].number - 1
      BY <1>1, <2>2, <3>1 DEF TableOK, NumbersSequential
    <3> QED
      BY <1>1, <3>1, <3>2
  <2> QED
    BY <2>1, <2>2 DEF NumbersSequential
<1>6. ReasonIffCancelled'
  BY <1>1 DEF TableOK, ReasonIffCancelled
<1>7. TransferHasSuccessor'
  BY <1>1, <1>2 DEF TableOK, TransferHasSuccessor, Grows, SameIdentity
<1> QED
  BY <1>1, <1>2, <1>5, <1>6, <1>7 DEF TypeOK, TableOK

\* A worker sees the committed rows but for the one its transaction closes.
LEMMA ViewFacts ==
  ASSUME IInv, NEW w \in Workers
  PROVE  /\ DOMAIN View(w) = DOMAIN rows
         /\ \A x \in DOMAIN rows :
              /\ View(w)[x] \in Row
              /\ SameIdentity(View(w)[x], rows[x])
              /\ View(w)[x].reason <=> View(w)[x].status = "cancelled"
              /\ View(w)[x].status = "transferred" =>
                   \/ rows[x].status = "transferred"
                   \/ InTransaction(w) /\ x = req[w].previous
<1>1. CASE ~ InTransaction(w)
  BY <1>1 DEF View, IInv, TypeOK, TableOK, ReasonIffCancelled, SameIdentity
<1>2. CASE InTransaction(w)
  <2> DEFINE p == req[w].previous
             closed == [snap[w][p] EXCEPT !.status = "transferred"]
  <2>1. /\ p \in DOMAIN snap[w] /\ p \in DOMAIN rows
        /\ SameIdentity(snap[w][p], rows[p])
        /\ ~ snap[w][p].reason
        /\ snap[w][p] \in Row
    BY <1>2 DEF IInv, TypeOK, WorkerOK, RequestOK, HeldRowsOK, InTransaction
  <2>2. /\ closed \in Row /\ closed.status = "transferred" /\ ~ closed.reason
        /\ SameIdentity(closed, rows[p])
    BY <2>1 DEF Row, Status, SameIdentity
  <2>3. View(w) = [rows EXCEPT ![p] = closed]
    BY <1>2 DEF View
  <2> HIDE DEF closed
  <2> QED
    BY <1>2, <2>1, <2>2, <2>3 DEF IInv, TypeOK, TableOK, ReasonIffCancelled, SameIdentity
<1> QED
  BY <1>1, <1>2

\* An insertion, with the closing it commits, keeps the table's invariants.
LEMMA InsertKeeps ==
  ASSUME IInv, NEW w \in Workers, NEW e \in Enrollments \ DOMAIN rows,
         pc[w] = "insert", Constraints(Inserted(w, e)), rows' = Inserted(w, e)
  PROVE  /\ Grows /\ TableOK'
         /\ DOMAIN rows' \subseteq Enrollments
         /\ \A x \in DOMAIN rows' : rows'[x] \in Row
<1> DEFINE new == NewRow(w)
<1>1. /\ DOMAIN rows' = DOMAIN rows \cup {e}
      /\ rows'[e] = new
      /\ \A x \in DOMAIN rows : rows'[x] = View(w)[x]
  BY DEF Inserted
<1>2. /\ new \in Row /\ ~ new.reason /\ new.status = "pending"
      /\ new.class = req[w].class /\ new.number = number[w]
      /\ new.previous = req[w].previous
  BY DEF NewRow, Row, Request, Status, IInv, TypeOK, WorkerOK, RequestOK, EnrolSteps
<1> HIDE DEF new
<1>3. Grows
  BY <1>1, ViewFacts DEF Grows
<1>5. NumbersSequential'
  <2>1. DistinctNumbers(rows)'
    BY DEF Constraints, DistinctNumbers, Year
  <2>2. \A f \in DOMAIN rows : /\ Year(rows'[f]) = Year(rows[f])
                               /\ rows'[f].number = rows[f].number
    BY <1>3 DEF Grows, SameIdentity, Year
  <2>3. ASSUME NEW x \in DOMAIN rows', rows'[x].number # 1
        PROVE  \E f \in DOMAIN rows' : /\ Year(rows'[f]) = Year(rows'[x])
                                       /\ rows'[f].number = rows'[x].number - 1
    <3>1. CASE x = e
      <4>1. PICK f \in DOMAIN rows : /\ Year(rows[f]) = YearOf[req[w].class]
                                     /\ rows[f].number = number[w] - 1
        BY <1>1, <1>2, <2>3, <3>1 DEF IInv, WorkerOK, NumberOK
      <4>2. Year(rows'[x]) = YearOf[req[w].class] /\ rows'[x].number = number[w]
        BY <1>1, <1>2, <3>1 DEF Year
      <4> QED
        BY <1>1, <2>2, <4>1, <4>2
    <3>2. CASE x \in DOMAIN rows
      <4>1. PICK f \in DOMAIN rows : /\ Year(rows[f]) = Year(rows[x])
                                     /\ rows[f].number = rows[x].number - 1
        BY <2>2, <2>3, <3>2 DEF IInv, TableOK, NumbersSequential
      <4> QED
        BY <1>1, <2>2, <3>2, <4>1
    <3> QED
      BY <1>1, <3>1, <3>2
  <2> QED
    BY <2>1, <2>3 DEF NumbersSequential
<1>6. ReasonIffCancelled'
  BY <1>1, <1>2, ViewFacts DEF ReasonIffCancelled
<1>7. TransferHasSuccessor'
  <2> SUFFICES ASSUME NEW x \in DOMAIN rows', rows'[x].status = "transferred"
               PROVE  \E f \in DOMAIN rows' : rows'[f].previous = x
    BY DEF TransferHasSuccessor
  <2>1. x \in DOMAIN rows
    BY <1>1, <1>2
  <2>2. CASE rows[x].status = "transferred"
    <3>1. PICK f \in DOMAIN rows : rows[f].previous = x
      BY <2>1, <2>2 DEF IInv, TableOK, TransferHasSuccessor
    <3> QED
      BY <1>1, <1>3, <3>1 DEF Grows, SameIdentity
  <2>3. CASE InTransaction(w) /\ x = req[w].previous
    BY <1>1, <1>2, <2>3
  <2> QED
    BY <1>1, <2>1, <2>2, <2>3, ViewFacts
<1> QED
  BY <1>1, <1>2, <1>3, <1>5, <1>6, <1>7, ViewFacts DEF IInv, TypeOK, TableOK

-----------------------------------------------------------------------------
LEMMA InitIInv == Init => IInv
<1> SUFFICES ASSUME Init PROVE IInv
  OBVIOUS
<1> USE DEF Init, NoRows
<1>1. TypeOK
  BY CrashAssumption DEF TypeOK, Steps, Request, NoRequest
<1>2. TableOK
  BY DEF TableOK, NumbersSequential,
         DistinctNumbers, ReasonIffCancelled, TransferHasSuccessor
<1>3. \A w \in Workers : WorkerOK(w)
  BY DEF WorkerOK, HeldRowsOK, RequestOK, CloseOK, NumberOK, EnrolSteps
<1> QED
  BY <1>1, <1>2, <1>3 DEF IInv

\* A step that reads or releases, and writes no row.
LEMMA LocalStep ==
  ASSUME IInv, NEW w \in Workers, UNCHANGED rows, TypeOK', OthersKeep(w), WorkerOK(w)'
  PROVE  IInv'
<1>1. Grows /\ TableOK'
  BY SameRows DEF IInv
<1> QED
  BY <1>1, Frame DEF IInv

LEMMA ReleaseStep ==
  ASSUME IInv, NEW w \in Workers, UNCHANGED rows, UNCHANGED started, Release(w),
         crashes' \in 0 .. MaxCrashes
  PROVE  IInv'
<1>1. TypeOK' /\ OthersKeep(w) /\ WorkerOK(w)'
  BY Released DEF IInv, TypeOK
<1> QED
  BY <1>1, LocalStep

LEMMA EnrolRequestStep ==
  ASSUME IInv, NEW w \in Workers, NEW s \in Students, NEW c \in Classes,
         NEW force \in ForceOptions, EnrolRequest(w, s, c, force)
  PROVE  IInv'
<1>1. PICK p \in {None} \cup DOMAIN rows : Begin(w, s, c, force, p, FALSE, {})
  BY DEF EnrolRequest
<1> USE <1>1, ForceAssumption DEF EnrolRequest, Begin, Goto
<1>2. TypeOK'
  BY DEF IInv, TypeOK, Request, Steps, EnrolSteps
<1>3. OthersKeep(w)
  BY DEF IInv, TypeOK, OthersKeep
<1>4. WorkerOK(w)'
  BY DEF IInv, TypeOK, WorkerOK, HeldRowsOK, RequestOK, CloseOK, NumberOK
<1> QED
  BY <1>2, <1>3, <1>4, LocalStep

LEMMA BulkRequestStep ==
  ASSUME IInv, NEW w \in Workers, NEW c \in Classes, NEW selected \in SUBSET Students,
         BulkRequest(w, c, selected)
  PROVE  IInv'
<1>1. PICK s \in selected : Begin(w, s, c, FALSE, None, FALSE, selected \ {s})
  BY DEF BulkRequest
<1> USE <1>1 DEF BulkRequest, Begin, Goto
<1>2. TypeOK'
  BY DEF IInv, TypeOK, Request, Steps, EnrolSteps
<1>3. OthersKeep(w)
  BY DEF IInv, TypeOK, OthersKeep
<1>4. WorkerOK(w)'
  BY DEF IInv, TypeOK, WorkerOK, HeldRowsOK, RequestOK, CloseOK, NumberOK
<1> QED
  BY <1>2, <1>3, <1>4, LocalStep

\* The row read is live, so it carries no reason.
LEMMA ReadRow ==
  ASSUME IInv, NEW w \in Workers, NEW s \in Students, NEW e \in Current(s),
         snap' = [snap EXCEPT ![w] = [x \in {e} |-> rows[x]]], UNCHANGED rows
  PROVE  /\ e \in DOMAIN rows /\ e \in Enrollments
         /\ DOMAIN snap'[w] = {e} /\ snap'[w][e].student = s
         /\ HeldRowsOK(w)'
         /\ \A v \in Workers : /\ DOMAIN snap'[v] \subseteq Enrollments
                               /\ \A x \in DOMAIN snap'[v] : snap'[v][x] \in Row
         /\ DOMAIN snap' = Workers
         /\ \A v \in Workers \ {w} : snap'[v] = snap[v]
<1>1. e \in DOMAIN rows /\ rows[e].status \in ActiveStatuses /\ rows[e].student = s
  BY DEF Current, Live
<1>2. ~ rows[e].reason
  BY <1>1 DEF IInv, TableOK, ReasonIffCancelled, ActiveStatuses
<1>3. DOMAIN snap'[w] = {e} /\ snap'[w][e] = rows[e]
  BY DEF IInv, TypeOK
<1>4. HeldRowsOK(w)'
  BY <1>1, <1>2, <1>3 DEF HeldRowsOK, SameIdentity
<1> QED
  BY <1>1, <1>3, <1>4 DEF IInv, TypeOK

LEMMA TransferRequestStep ==
  ASSUME IInv, NEW w \in Workers, NEW s \in Students, NEW c \in Classes,
         NEW force \in ForceOptions, TransferRequest(w, s, c, force)
  PROVE  IInv'
<1>1. PICK e \in Current(s) :
        /\ snap' = [snap EXCEPT ![w] = [x \in {e} |-> rows[x]]]
        /\ Begin(w, s, c, force, e, TRUE, {})
  BY DEF TransferRequest
<1> USE DEF TransferRequest, Begin, Goto
<1>2. /\ e \in Enrollments /\ DOMAIN snap'[w] = {e} /\ snap'[w][e].student = s
      /\ HeldRowsOK(w)'
      /\ \A v \in Workers : /\ DOMAIN snap'[v] \subseteq Enrollments
                            /\ \A x \in DOMAIN snap'[v] : snap'[v][x] \in Row
      /\ DOMAIN snap' = Workers
      /\ \A v \in Workers \ {w} : snap'[v] = snap[v]
  BY <1>1, ReadRow
<1>3. TypeOK'
  BY <1>1, <1>2, ForceAssumption DEF IInv, TypeOK, Request, Steps, EnrolSteps
<1>4. OthersKeep(w)
  BY <1>1, <1>2 DEF IInv, TypeOK, OthersKeep
<1>5. WorkerOK(w)'
  BY <1>1, <1>2 DEF IInv, TypeOK, WorkerOK, RequestOK, CloseOK, NumberOK
<1> QED
  BY <1>3, <1>4, <1>5, LocalStep

LEMMA CancelRequestStep ==
  ASSUME IInv, NEW w \in Workers, NEW s \in Students, CancelRequest(w, s)
  PROVE  IInv'
<1>1. PICK e \in Current(s) : snap' = [snap EXCEPT ![w] = [x \in {e} |-> rows[x]]]
  BY DEF CancelRequest
<1> USE DEF CancelRequest, Goto
<1>2. /\ HeldRowsOK(w)'
      /\ \A v \in Workers : /\ DOMAIN snap'[v] \subseteq Enrollments
                            /\ \A x \in DOMAIN snap'[v] : snap'[v][x] \in Row
      /\ DOMAIN snap' = Workers
      /\ \A v \in Workers \ {w} : snap'[v] = snap[v]
  BY <1>1, ReadRow
<1>3. TypeOK'
  BY <1>2 DEF IInv, TypeOK, Steps, EnrolSteps
<1>4. OthersKeep(w)
  BY <1>2 DEF IInv, TypeOK, OthersKeep
<1>5. WorkerOK(w)'
  BY <1>2 DEF IInv, TypeOK, WorkerOK, RequestOK, CloseOK, NumberOK, EnrolSteps
<1> QED
  BY <1>3, <1>4, <1>5, LocalStep

\* The row a worker holds, with another status than transferred, may be saved.
LEMMA SaveHeld ==
  ASSUME IInv, NEW w \in Workers, NEW e \in DOMAIN snap[w], NEW r \in Row,
         SameIdentity(r, snap[w][e]), r.reason <=> r.status = "cancelled",
         r.status # "transferred", CanSave(e, r), Save(e, r)
  PROVE  /\ Grows /\ TableOK'
         /\ DOMAIN rows' \subseteq Enrollments
         /\ \A x \in DOMAIN rows' : rows'[x] \in Row
<1>1. e \in DOMAIN rows /\ SameIdentity(r, rows[e])
  BY DEF IInv, WorkerOK, HeldRowsOK, SameIdentity
<1> QED
  BY <1>1, SaveKeeps DEF IInv

LEMMA AnularStep ==
  ASSUME IInv, NEW w \in Workers, NEW reason \in BOOLEAN, Anular(w, reason)
  PROVE  IInv'
<1>1. PICK e \in DOMAIN snap[w] :
        LET r == [snap[w][e] EXCEPT !.status = "cancelled", !.reason = TRUE]
        IN  IF snap[w][e].status \in ActiveStatuses /\ reason /\ CanSave(e, r)
            THEN Unlocked(w, e) /\ Save(e, r)
            ELSE UNCHANGED rows
  BY DEF Anular
<1> DEFINE r == [snap[w][e] EXCEPT !.status = "cancelled", !.reason = TRUE]
<1>2. CASE UNCHANGED rows
  BY <1>2, ReleaseStep DEF Anular, IInv, TypeOK
<1>3. CASE CanSave(e, r) /\ Save(e, r)
  <2>1. snap[w][e] \in Row
    BY DEF IInv, TypeOK
  <2>2. /\ r \in Row /\ SameIdentity(r, snap[w][e])
        /\ r.status = "cancelled" /\ r.reason
    BY <2>1 DEF Row, Status, SameIdentity
  <2> HIDE DEF r
  <2>3. /\ Grows /\ TableOK' /\ DOMAIN rows' \subseteq Enrollments
        /\ \A x \in DOMAIN rows' : rows'[x] \in Row
    BY <1>3, <2>2, SaveHeld
  <2>4. TypeOK' /\ OthersKeep(w) /\ WorkerOK(w)'
    BY <2>3, Released DEF Anular, IInv, TypeOK
  <2> QED
    BY <2>3, <2>4, Frame DEF IInv
<1> QED
  BY <1>1, <1>2, <1>3

-----------------------------------------------------------------------------
\* A statement that only moves its worker on to another one.
LEMMA MoveStep ==
  ASSUME IInv, NEW w \in Workers, NEW step \in EnrolSteps \ {"insert"},
         pc[w] \in EnrolSteps \cup {"close"}, Goto(w, step),
         UNCHANGED <<rows, started, req, batch, snap, number, crashes>>
  PROVE  IInv'
<1> USE DEF Goto
<1>1. TypeOK'
  BY DEF IInv, TypeOK, Steps
<1>2. OthersKeep(w)
  BY DEF IInv, TypeOK, OthersKeep
<1>3. WorkerOK(w)'
  BY DEF IInv, TypeOK, WorkerOK, HeldRowsOK, RequestOK, CloseOK, NumberOK, EnrolSteps
<1> QED
  BY <1>1, <1>2, <1>3, LocalStep

LEMMA CheckSteps ==
  ASSUME IInv, NEW w \in Workers, CloseOld(w) \/ CheckDuplicate(w) \/ CheckCapacity(w)
  PROVE  IInv'
<1>1. CASE Release(w)
  BY <1>1, ReleaseStep DEF CloseOld, CheckDuplicate, CheckCapacity, IInv, TypeOK
<1>2. CASE ~ Release(w)
  BY <1>2, MoveStep DEF CloseOld, CheckDuplicate, CheckCapacity, EnrolSteps
<1> QED
  BY <1>1, <1>2

LEMMA ReadNumberStep ==
  ASSUME IInv, NEW w \in Workers, ReadNumber(w)
  PROVE  IInv'
<1> USE DEF ReadNumber, Goto
<1>1. PICK n \in 1 .. Cardinality(Enrollments) :
        /\ IsNextNumber(View(w), YearOf[req[w].class], n)
        /\ number' = [number EXCEPT ![w] = n]
  OBVIOUS
<1>2. n \in Nat
  BY <1>1, EnrollmentsAssumption, FS_CardinalityType
<1>3. TypeOK'
  BY <1>1, <1>2 DEF IInv, TypeOK, Steps, EnrolSteps
<1>4. OthersKeep(w)
  BY <1>1 DEF IInv, TypeOK, OthersKeep
<1>5. NumberOK(w)'
  <2>1. number'[w] = n
    BY <1>1 DEF IInv, TypeOK
  <2>2. \A f \in DOMAIN rows : /\ Year(rows[f]) = Year(View(w)[f])
                               /\ rows[f].number = View(w)[f].number
    BY ViewFacts DEF SameIdentity, Year
  <2>3. n = 1 \/ \E f \in DOMAIN rows : /\ Year(rows[f]) = YearOf[req[w].class]
                                        /\ rows[f].number = n - 1
    BY <1>1, <2>2, ViewFacts DEF IsNextNumber
  <2> QED
    BY <2>1, <2>3 DEF NumberOK, Year
<1>6. WorkerOK(w)'
  BY <1>5 DEF IInv, TypeOK, WorkerOK, HeldRowsOK, RequestOK, CloseOK, EnrolSteps
<1> QED
  BY <1>3, <1>4, <1>6, LocalStep

LEMMA InsertStep ==
  ASSUME IInv, NEW w \in Workers, NEW e \in Enrollments, Insert(w, e)
  PROVE  IInv'
<1>1. CASE UNCHANGED rows /\ Release(w)
  BY <1>1, ReleaseStep DEF Insert, IInv, TypeOK
<1>2. CASE Constraints(Inserted(w, e)) /\ rows' = Inserted(w, e) /\ NextInBatch(w)
  <2>1. /\ Grows /\ TableOK' /\ DOMAIN rows' \subseteq Enrollments
        /\ \A x \in DOMAIN rows' : rows'[x] \in Row
    BY <1>2, InsertKeeps DEF Insert
  <2>2. TypeOK' /\ OthersKeep(w) /\ WorkerOK(w)'
    <3>1. CASE batch[w] = {}
      BY <1>2, <2>1, <3>1, Released DEF NextInBatch, Insert, IInv, TypeOK
    <3>2. CASE batch[w] # {}
      <4>1. PICK s \in batch[w] :
              Begin(w, s, req[w].class, FALSE, None, FALSE, batch[w] \ {s})
        BY <1>2, <3>2 DEF NextInBatch
      <4>2. s \in Students /\ req[w].class \in Classes
        BY DEF IInv, TypeOK, WorkerOK, RequestOK, Insert, EnrolSteps
      <4> USE <1>2, <3>2, <4>1, <4>2 DEF NextInBatch, Insert, Begin, Goto
      <4>3. TypeOK'
        BY <2>1 DEF IInv, TypeOK, Request, Steps, EnrolSteps
      <4>4. OthersKeep(w)
        BY DEF IInv, TypeOK, OthersKeep
      <4>5. HeldRowsOK(w)'
        BY <2>1 DEF IInv, WorkerOK, HeldRowsOK, Grows, SameIdentity
      <4>6. RequestOK(w)' /\ CloseOK(w)' /\ NumberOK(w)'
        BY DEF IInv, TypeOK, RequestOK, CloseOK, NumberOK
      <4> QED
        BY <4>3, <4>4, <4>5, <4>6 DEF WorkerOK
    <3> QED
      BY <3>1, <3>2
  <2> QED
    BY <2>1, <2>2, Frame DEF IInv
<1> QED
  BY <1>1, <1>2 DEF Insert

LEMMA JobStartStep ==
  ASSUME IInv, NEW w \in Workers, JobStart(w)
  PROVE  IInv'
<1> USE DEF JobStart, Due, Goto
<1>1. DOMAIN snap'[w] = Due /\ \A e \in Due : snap'[w][e] = rows[e]
  BY DEF IInv, TypeOK
<1>2. TypeOK'
  BY <1>1 DEF IInv, TypeOK, Steps, EnrolSteps
<1>3. OthersKeep(w)
  BY DEF IInv, TypeOK, OthersKeep
<1>4. HeldRowsOK(w)'
  BY <1>1 DEF HeldRowsOK, SameIdentity, IInv, TableOK, ReasonIffCancelled, ActiveStatuses
<1>5. WorkerOK(w)'
  BY <1>4 DEF IInv, TypeOK, WorkerOK, RequestOK, CloseOK, NumberOK, EnrolSteps
<1> QED
  BY <1>2, <1>3, <1>5, LocalStep

LEMMA JobSaveStep ==
  ASSUME IInv, NEW w \in Workers, NEW e \in Enrollments, JobSave(w, e)
  PROVE  IInv'
<1>1. CASE UNCHANGED rows /\ Release(w)
  BY <1>1, ReleaseStep DEF JobSave, IInv, TypeOK
<1>2. CASE /\ CanSave(e, Activated(snap[w][e]))
           /\ Save(e, Activated(snap[w][e]))
           /\ snap' = [snap EXCEPT ![w] = [x \in DOMAIN snap[w] \ {e} |-> snap[w][x]]]
           /\ UNCHANGED <<pc, req, batch, number>>
  <2> DEFINE r == Activated(snap[w][e])
  <2>1. e \in DOMAIN snap[w] /\ snap[w][e] \in Row /\ ~ snap[w][e].reason
    BY DEF IInv, TypeOK, WorkerOK, HeldRowsOK, JobSave
  <2>2. /\ r \in Row /\ SameIdentity(r, snap[w][e]) /\ r.status = "active" /\ ~ r.reason
    BY <2>1 DEF Activated, Row, Status, SameIdentity
  <2> HIDE DEF r
  <2>3. /\ Grows /\ TableOK' /\ DOMAIN rows' \subseteq Enrollments
        /\ \A x \in DOMAIN rows' : rows'[x] \in Row
    BY <1>2, <2>1, <2>2, SaveHeld DEF r
  <2>4. TypeOK'
    BY <1>2, <2>3 DEF JobSave, IInv, TypeOK
  <2>5. OthersKeep(w)
    BY <1>2 DEF IInv, TypeOK, OthersKeep
  <2>6. HeldRowsOK(w)'
    BY <1>2, <2>3 DEF IInv, TypeOK, WorkerOK, HeldRowsOK, Grows, SameIdentity
  <2>7. RequestOK(w)' /\ CloseOK(w)' /\ NumberOK(w)'
    BY <1>2 DEF JobSave, RequestOK, CloseOK, NumberOK, EnrolSteps
  <2> QED
    BY <2>3, <2>4, <2>5, <2>6, <2>7, Frame DEF IInv, WorkerOK
<1> QED
  BY <1>1, <1>2 DEF JobSave

LEMMA StutterStep == IInv /\ UNCHANGED vars => IInv'
<1> SUFFICES ASSUME IInv, UNCHANGED vars PROVE IInv'
  OBVIOUS
<1>1. TableOK' /\ TypeOK'
  BY SameRows DEF IInv, TypeOK, vars
<1>2. \A w \in Workers : WorkerOK(w)'
  BY DEF IInv, vars, WorkerOK, HeldRowsOK, SameIdentity, RequestOK, CloseOK, NumberOK, Year
<1> QED
  BY <1>1, <1>2 DEF IInv

LEMMA YearStartsStep ==
  ASSUME IInv, NEW y \in Years, YearStarts(y)
  PROVE  IInv'
<1>1. TableOK' /\ TypeOK'
  BY SameRows DEF IInv, TypeOK, YearStarts, local
<1>2. \A w \in Workers : WorkerOK(w)'
  BY DEF IInv, YearStarts, local, WorkerOK, HeldRowsOK, SameIdentity, RequestOK, CloseOK,
         NumberOK, Year
<1> QED
  BY <1>1, <1>2 DEF IInv

LEMMA CrashStep ==
  ASSUME IInv, NEW w \in Workers, Crash(w)
  PROVE  IInv'
<1>1. crashes' \in 0 .. MaxCrashes
  BY CrashAssumption DEF IInv, TypeOK, Crash
<1> QED
  BY <1>1, ReleaseStep DEF Crash

LEMMA NextIInv == IInv /\ [Next]_vars => IInv'
<1> SUFFICES ASSUME IInv, [Next]_vars PROVE IInv'
  OBVIOUS
<1>1. ASSUME NEW w \in Workers, NEW s \in Students, NEW c \in Classes,
             NEW force \in ForceOptions,
             EnrolRequest(w, s, c, force) \/ TransferRequest(w, s, c, force)
      PROVE  IInv'
  BY <1>1, EnrolRequestStep, TransferRequestStep
<1>2. ASSUME NEW w \in Workers, NEW c \in Classes, NEW selected \in SUBSET Students,
             BulkRequest(w, c, selected)
      PROVE  IInv'
  BY <1>2, BulkRequestStep
<1>3. ASSUME NEW w \in Workers, NEW s \in Students,
             CancelRequest(w, s) \/ NothingCurrent(w, s)
      PROVE  IInv'
  BY <1>3, CancelRequestStep, StutterStep DEF NothingCurrent
<1>4. ASSUME NEW w \in Workers, WebStep(w)
      PROVE  IInv'
  BY <1>4, AnularStep, CheckSteps, ReadNumberStep, InsertStep DEF WebStep
<1>5. ASSUME NEW w \in Workers, JobStep(w)
      PROVE  IInv'
  <2>1. CASE JobEnd(w)
    BY <2>1, ReleaseStep DEF JobEnd, IInv, TypeOK
  <2> QED
    BY <1>5, <2>1, JobStartStep, JobSaveStep DEF JobStep
<1>6. ASSUME NEW w \in Workers, Crash(w)
      PROVE  IInv'
  BY <1>6, CrashStep
<1>7. ASSUME NEW y \in Years, YearStarts(y)
      PROVE  IInv'
  BY <1>7, YearStartsStep
<1>8. CASE UNCHANGED vars
  BY <1>8, StutterStep
<1> QED
  BY <1>1, <1>2, <1>3, <1>4, <1>5, <1>6, <1>7, <1>8 DEF Next

-----------------------------------------------------------------------------
\* The inductive invariant holds in every reachable state.
THEOREM Invariance == Spec => []IInv
BY InitIInv, NextIInv, PTL DEF Spec

\* Every variable keeps its type, whatever requests, tasks and crashes interleave.
THEOREM TypeCorrect == Spec => []TypeOK
<1>1. IInv => TypeOK
  BY DEF IInv
<1> QED
  BY <1>1, Invariance, PTL

\* Enrolment numbers run from 1 without duplicates or gaps in every year.
THEOREM SequentialNumbers == Spec => []NumbersSequential
<1>1. IInv => NumbersSequential
  BY DEF IInv, TableOK
<1> QED
  BY <1>1, Invariance, PTL

\* Exactly the cancelled enrolments carry a cancellation reason, and a
\* transferred enrolment always has the enrolment it was transferred to.
THEOREM ClosedExplained == Spec => []ClosedRowsExplained
<1>1. IInv => ClosedRowsExplained
  BY DEF IInv, TableOK, ClosedRowsExplained
<1> QED
  BY <1>1, Invariance, PTL

\* What a step may do to the history of enrolments.
HistoryKept ==
  /\ Grows
  /\ \A e \in DOMAIN rows :
       rows[e].status \in ClosedStatuses /\ e \in Live(rows')
         => \E w \in Workers : JobSave(w, e)

LEMMA UnchangedKeeps ==
  ASSUME IInv, UNCHANGED rows
  PROVE  HistoryKept
BY SameRows DEF IInv, HistoryKept, TypeOK, Live, ActiveStatuses, ClosedStatuses

LEMMA AnularKeeps ==
  ASSUME IInv, NEW w \in Workers, NEW reason \in BOOLEAN, Anular(w, reason)
  PROVE  HistoryKept
<1>1. PICK e \in DOMAIN snap[w] :
        LET r == [snap[w][e] EXCEPT !.status = "cancelled", !.reason = TRUE]
        IN  \/ CanSave(e, r) /\ Save(e, r)
            \/ UNCHANGED rows
  BY DEF Anular
<1>. DEFINE r == [snap[w][e] EXCEPT !.status = "cancelled", !.reason = TRUE]
<1>2. CASE CanSave(e, r) /\ Save(e, r)
  <2>1. snap[w][e] \in Row
    BY DEF IInv, TypeOK
  <2>2. /\ r \in Row /\ SameIdentity(r, snap[w][e])
        /\ r.status = "cancelled" /\ r.reason
    BY <2>1 DEF Row, Status, SameIdentity
  <2>. HIDE DEF r
  <2>3. Grows
    BY <1>2, <2>2, SaveHeld
  <2>4. \A x \in DOMAIN rows : rows'[x] = rows[x] \/ rows'[x].status = "cancelled"
    BY <1>2, <2>2 DEF Save
  <2>. QED BY <2>3, <2>4 DEF HistoryKept, Live, ActiveStatuses, ClosedStatuses
<1>. QED BY <1>1, <1>2, UnchangedKeeps

LEMMA InsertionKeeps ==
  ASSUME IInv, NEW w \in Workers, NEW e \in Enrollments, Insert(w, e)
  PROVE  HistoryKept
<1>1. CASE Constraints(Inserted(w, e)) /\ rows' = Inserted(w, e)
  <2>1. Grows
    BY <1>1, InsertKeeps DEF Insert
  <2>2. \A x \in DOMAIN rows : rows'[x] = View(w)[x]
    BY <1>1 DEF Inserted, Insert
  <2>3. \A x \in DOMAIN rows : View(w)[x] = rows[x] \/ View(w)[x].status = "transferred"
    <3>1. CASE ~ InTransaction(w)
      BY <3>1 DEF View
    <3>2. CASE InTransaction(w)
      <4>. DEFINE p == req[w].previous
                  closed == [snap[w][p] EXCEPT !.status = "transferred"]
      <4>1. p \in DOMAIN snap[w] /\ snap[w][p] \in Row
        BY <3>2 DEF IInv, TypeOK, WorkerOK, RequestOK, InTransaction
      <4>2. closed.status = "transferred"
        BY <4>1 DEF Row
      <4>3. View(w) = [rows EXCEPT ![p] = closed]
        BY <3>2 DEF View
      <4>. HIDE DEF closed
      <4>. QED BY <4>2, <4>3
    <3>. QED BY <3>1, <3>2
  <2>. QED BY <2>1, <2>2, <2>3 DEF HistoryKept, Live, ActiveStatuses, ClosedStatuses
<1>. QED BY <1>1, UnchangedKeeps DEF Insert

LEMMA ActivationKeeps ==
  ASSUME IInv, NEW w \in Workers, NEW e \in Enrollments, JobSave(w, e)
  PROVE  HistoryKept
<1>. DEFINE r == Activated(snap[w][e])
<1>1. CASE CanSave(e, r) /\ Save(e, r)
  <2>1. e \in DOMAIN snap[w] /\ snap[w][e] \in Row /\ ~ snap[w][e].reason
    BY DEF IInv, TypeOK, WorkerOK, HeldRowsOK, JobSave
  <2>2. /\ r \in Row /\ SameIdentity(r, snap[w][e]) /\ r.status = "active" /\ ~ r.reason
    BY <2>1 DEF Activated, Row, Status, SameIdentity
  <2>. HIDE DEF r
  <2>3. Grows
    BY <1>1, <2>1, <2>2, SaveHeld
  <2>4. \A x \in DOMAIN rows \ {e} : rows'[x] = rows[x]
    BY <1>1 DEF Save
  <2>. QED BY <2>3, <2>4 DEF HistoryKept, Live, ActiveStatuses, ClosedStatuses
<1>. QED BY <1>1, UnchangedKeeps DEF JobSave

LEMMA NextKeeps == IInv /\ [Next]_vars => HistoryKept
<1>. SUFFICES ASSUME IInv, [Next]_vars PROVE HistoryKept
  OBVIOUS
<1>1. ASSUME NEW w \in Workers, WebStep(w)
      PROVE  HistoryKept
  BY <1>1, AnularKeeps, InsertionKeeps, UnchangedKeeps
     DEF WebStep, CloseOld, CheckDuplicate, CheckCapacity, ReadNumber
<1>2. ASSUME NEW w \in Workers, JobStep(w)
      PROVE  HistoryKept
  BY <1>2, ActivationKeeps, UnchangedKeeps DEF JobStep, JobStart, JobEnd
<1>3. CASE UNCHANGED rows
  BY <1>3, UnchangedKeeps
<1>. QED BY <1>1, <1>2, <1>3
         DEF Next, EnrolRequest, BulkRequest, TransferRequest, CancelRequest, NothingCurrent,
             Crash, YearStarts, vars

\* anular_matricula, "nunca elimina o registo (soft-delete/estado), que continua
\* consultável": no enrolment disappears or changes student, class, number or
\* predecessor, although every save() writes a row back whole; and of all the
\* statements that race only the save() of the daily task reopens a closed one.
THEOREM HistoryIsKept ==
  Spec => [][/\ \A e \in DOMAIN rows : e \in DOMAIN rows' /\ SameIdentity(rows'[e], rows[e])
             /\ \A e \in DOMAIN rows :
                  rows[e].status \in ClosedStatuses /\ e \in Live(rows')
                    => \E w \in Workers : JobSave(w, e)]_vars
<1>. DEFINE Kept ==
       /\ \A e \in DOMAIN rows : e \in DOMAIN rows' /\ SameIdentity(rows'[e], rows[e])
       /\ \A e \in DOMAIN rows :
            rows[e].status \in ClosedStatuses /\ e \in Live(rows')
              => \E w \in Workers : JobSave(w, e)
<1>1. HistoryKept => Kept
  BY DEF HistoryKept, Grows
<1>. HIDE DEF Kept
<1>2. Spec => [][Kept]_vars
  BY <1>1, NextKeeps, Invariance, PTL DEF Spec
<1>. QED BY <1>2 DEF Kept

-----------------------------------------------------------------------------
(***************************************************************************)
(* Requests and tasks that run one at a time have the effect of the        *)
(* services of MatriculaServico.                                           *)
(***************************************************************************)

\* The first step of a request or task and its other steps.
Begins(w) ==
  \/ \E s \in Students, c \in Classes, force \in ForceOptions :
       EnrolRequest(w, s, c, force) \/ TransferRequest(w, s, c, force)
  \/ \E c \in Classes, selected \in SUBSET Students : BulkRequest(w, c, selected)
  \/ \E s \in Students : CancelRequest(w, s)
  \/ JobStart(w)

Works(w) == WebStep(w) \/ (\E e \in Enrollments : JobSave(w, e)) \/ JobEnd(w)

LEMMA StepCases ==
  ASSUME Next
  PROVE  \/ \E w \in Workers : Begins(w) \/ Works(w) \/ Crash(w)
         \/ \E y \in Years : YearStarts(y)
         \/ UNCHANGED vars
BY DEF Next, Begins, Works, JobStep, NothingCurrent

LEMMA ReleaseOwn ==
  ASSUME IInv, NEW w \in Workers, Release(w)
  PROVE  pc'[w] = "idle" /\ OthersKeep(w)
BY DEF Release, OthersKeep, IInv, TypeOK

LEMMA BeginsOwn ==
  ASSUME IInv, NEW w \in Workers, Begins(w)
  PROVE  pc[w] = "idle" /\ pc'[w] # "idle" /\ UNCHANGED <<rows, started>> /\ OthersKeep(w)
<1>. USE DEF Begin, Goto, OthersKeep, IInv, TypeOK
<1>1. ASSUME NEW s \in Students, NEW c \in Classes, NEW force \in ForceOptions,
             EnrolRequest(w, s, c, force)
      PROVE  pc[w] = "idle" /\ pc'[w] # "idle" /\ UNCHANGED <<rows, started>> /\ OthersKeep(w)
  BY <1>1 DEF EnrolRequest
<1>2. ASSUME NEW s \in Students, NEW c \in Classes, NEW force \in ForceOptions,
             TransferRequest(w, s, c, force)
      PROVE  pc[w] = "idle" /\ pc'[w] # "idle" /\ UNCHANGED <<rows, started>> /\ OthersKeep(w)
  BY <1>2 DEF TransferRequest
<1>3. ASSUME NEW c \in Classes, NEW selected \in SUBSET Students, BulkRequest(w, c, selected)
      PROVE  pc[w] = "idle" /\ pc'[w] # "idle" /\ UNCHANGED <<rows, started>> /\ OthersKeep(w)
  BY <1>3 DEF BulkRequest
<1>4. ASSUME NEW s \in Students, CancelRequest(w, s)
      PROVE  pc[w] = "idle" /\ pc'[w] # "idle" /\ UNCHANGED <<rows, started>> /\ OthersKeep(w)
  BY <1>4 DEF CancelRequest
<1>5. CASE JobStart(w)
  BY <1>5 DEF JobStart
<1>. QED BY <1>1, <1>2, <1>3, <1>4, <1>5 DEF Begins

LEMMA WorksOwn ==
  ASSUME IInv, NEW w \in Workers, Works(w)
  PROVE  pc[w] # "idle" /\ UNCHANGED started /\ OthersKeep(w)
<1>1. CASE (\E reason \in BOOLEAN : Anular(w, reason)) \/ JobEnd(w)
  BY <1>1, ReleaseOwn DEF Anular, JobEnd
<1>2. CASE CloseOld(w) \/ CheckDuplicate(w) \/ CheckCapacity(w)
  BY <1>2, ReleaseOwn DEF CloseOld, CheckDuplicate, CheckCapacity, Goto, OthersKeep, IInv, TypeOK
<1>3. CASE ReadNumber(w)
  BY <1>3 DEF ReadNumber, Goto, OthersKeep, IInv, TypeOK
<1>4. CASE \E e \in Enrollments : Insert(w, e)
  <2>1. pc[w] = "insert" /\ UNCHANGED started /\ (Release(w) \/ NextInBatch(w))
    BY <1>4 DEF Insert
  <2>2. CASE NextInBatch(w) /\ batch[w] # {}
    BY <2>1, <2>2 DEF NextInBatch, Begin, Goto, OthersKeep, IInv, TypeOK
  <2>. QED BY <2>1, <2>2, ReleaseOwn DEF NextInBatch
<1>5. CASE \E e \in Enrollments : JobSave(w, e)
  BY <1>5, ReleaseOwn DEF JobSave, OthersKeep, IInv, TypeOK
<1>. QED BY <1>1, <1>2, <1>3, <1>4, <1>5 DEF Works, WebStep

-----------------------------------------------------------------------------
(* The numbers of a year *)

\* The finite initial segments of Nat are well founded, so each set of natural
\* numbers has a least element.
LEMMA LeastElement ==
  ASSUME NEW T \in SUBSET Nat, T # {}
  PROVE  \E x \in T : \A y \in T : x <= y
<1>. DEFINE below == {0 .. x : x \in T}
<1>1. \A x \in T : (0 .. x) \in SUBSET Nat /\ IsFiniteSet(0 .. x)
  BY FS_Interval
<1>2. below \subseteq FiniteSubsetsOf(Nat) /\ below # {}
  BY <1>1 DEF FiniteSubsetsOf
<1>. HIDE DEF below
<1>3. IsWellFoundedOn(StrictSubsetOrdering(Nat), FiniteSubsetsOf(Nat))
  BY FS_StrictSubsetOrderingWellFounded
<1>4. PICK b \in below : \A c \in below : ~ (<<c, b>> \in StrictSubsetOrdering(Nat))
  BY <1>2, <1>3, WFMin
<1>5. PICK x \in T : b = 0 .. x
  BY DEF below
<1>6. ASSUME NEW y \in T, y < x PROVE FALSE
  <2>1. (0 .. y) \in below /\ (0 .. y) \in SUBSET Nat /\ (0 .. x) \in SUBSET Nat
    BY <1>1 DEF below
  <2>2. (0 .. y) \subseteq (0 .. x) /\ x \in 0 .. x /\ x \notin 0 .. y
    BY <1>6
  <2>3. (0 .. y) # (0 .. x)
    BY <2>2
  <2>. QED BY <1>4, <1>5, <2>1, <2>2, <2>3 DEF StrictSubsetOrdering
<1>. QED BY <1>6

\* Numbers without gaps, the greatest of which is n - 1, are those up to it.
LEMMA NumbersFill ==
  ASSUME NEW U \in SUBSET Nat, NEW n \in Nat, n = 1 \/ n - 1 \in U,
         \A k \in U : k < n, \A k \in U : k = 1 \/ k - 1 \in U
  PROVE  U = 1 .. n - 1
<1>1. U \subseteq 1 .. n - 1
  OBVIOUS
<1>2. ASSUME NEW k \in 1 .. n - 1, k \notin U PROVE FALSE
  <2>. DEFINE missing == {d \in Nat : n - 1 - d \in Nat \ {0} /\ n - 1 - d \notin U}
  <2>1. n - 1 - k \in missing
    BY <1>2
  <2>2. PICK d \in missing : \A x \in missing : d <= x
    BY <2>1, LeastElement
  <2>3. d # 0
    BY <2>2
  <2>4. d - 1 \in Nat /\ d - 1 \notin missing /\ n - 1 - (d - 1) \in Nat \ {0, 1}
    BY <2>2, <2>3
  <2>5. n - 1 - (d - 1) \in U
    BY <2>4
  <2>6. (n - 1 - (d - 1)) - 1 \in U
    BY <2>4, <2>5
  <2>7. (n - 1 - (d - 1)) - 1 = n - 1 - d
    BY <2>2
  <2>. QED BY <2>2, <2>6, <2>7
<1>. QED BY <1>1, <1>2

-----------------------------------------------------------------------------
(* What a request or task that runs by itself knows of the table *)

ClosedBy(w) == IF req[w].closing THEN {req[w].previous} ELSE {}

SerialOK(w) ==
  LET r == req[w]
      p == req[w].previous
  IN /\ pc[w] \in {"cancel", "job"} => \A e \in DOMAIN snap[w] : snap[w][e] = rows[e]
     /\ pc[w] = "job" =>
          \A e \in DOMAIN snap[w] : rows[e].status = "pending" /\ Year(rows[e]) \in started
     /\ pc[w] \in EnrolSteps \cup {"close"} =>
          /\ r.force \in ForceOptions
          /\ IF r.closing
             THEN snap[w][p] = rows[p] /\ rows[p].student = r.student /\ rows[p].class # r.class
             ELSE p \in {None} \cup {x \in DOMAIN rows : rows[x].student = r.student}
     /\ pc[w] \in {"capacity", "number", "insert"} =>
          \A x \in Live(rows) \ ClosedBy(w) :
            rows[x].student = r.student => Year(rows[x]) # YearOf[r.class]
     /\ pc[w] \in {"number", "insert"} =>
          r.force \/ Cardinality(LiveInClass(rows, r.class)) < Capacity[r.class]
     /\ pc[w] = "insert" => number[w] = Cardinality(Servico!Used(YearOf[r.class])) + 1

SInv ==
  serial => \A w \in Workers :
    pc[w] # "idle" => SerialOK(w) /\ \A v \in Workers \ {w} : pc[v] = "idle"

\* Requests are served by web workers, and a transfer is to another class.
WebOK(w) ==
  pc[w] \in EnrolSteps \cup {"close"} =>
    /\ w \in WebWorkers
    /\ req[w].force \in ForceOptions
    /\ req[w].closing => rows[req[w].previous].class # req[w].class

WInv == \A w \in Workers : WebOK(w)

LEMMA RequestFacts ==
  ASSUME IInv, NEW w \in Workers, NEW s \in Students, NEW c \in Classes,
         NEW force, NEW previous, NEW closing, NEW rest,
         Begin(w, s, c, force, previous, closing, rest)
  PROVE  /\ req'[w].student = s /\ req'[w].class = c /\ req'[w].force = force
         /\ req'[w].previous = previous /\ req'[w].closing = closing
BY DEF Begin, IInv, TypeOK

LEMMA BeginsWeb ==
  ASSUME IInv, NEW w \in Workers, Begins(w)
  PROVE  WebOK(w)'
<1>1. UNCHANGED rows
  BY BeginsOwn
<1>2. ASSUME NEW s \in Students, NEW c \in Classes, NEW force \in ForceOptions,
             EnrolRequest(w, s, c, force)
      PROVE  WebOK(w)'
  <2>1. w \in WebWorkers /\ req'[w].force = force /\ ~ req'[w].closing
    BY <1>2, RequestFacts DEF EnrolRequest
  <2>. QED BY <2>1 DEF WebOK
<1>3. ASSUME NEW s \in Students, NEW c \in Classes, NEW force \in ForceOptions,
             TransferRequest(w, s, c, force)
      PROVE  WebOK(w)'
  <2>1. PICK e \in Current(s) : c # rows[e].class /\ Begin(w, s, c, force, e, TRUE, {})
    BY <1>3 DEF TransferRequest
  <2>2. w \in WebWorkers /\ req'[w].force = force /\ req'[w].previous = e /\ req'[w].class = c
    BY <1>3, <2>1, RequestFacts DEF TransferRequest
  <2>. QED BY <1>1, <2>1, <2>2 DEF WebOK
<1>4. ASSUME NEW c \in Classes, NEW selected \in SUBSET Students, BulkRequest(w, c, selected)
      PROVE  WebOK(w)'
  <2>1. PICK s \in selected : Begin(w, s, c, FALSE, None, FALSE, selected \ {s})
    BY <1>4 DEF BulkRequest
  <2>2. w \in WebWorkers /\ req'[w].force = FALSE /\ ~ req'[w].closing
    BY <1>4, <2>1, RequestFacts DEF BulkRequest
  <2>. QED BY <2>2, ForceAssumption DEF WebOK
<1>5. ASSUME NEW s \in Students, CancelRequest(w, s)
      PROVE  WebOK(w)'
  BY <1>5 DEF CancelRequest, Goto, IInv, TypeOK, WebOK, EnrolSteps
<1>6. CASE JobStart(w)
  BY <1>6 DEF JobStart, Goto, IInv, TypeOK, WebOK, EnrolSteps
<1>. QED BY <1>2, <1>3, <1>4, <1>5, <1>6 DEF Begins

\* The next student of a batch.
LEMMA NextFacts ==
  ASSUME IInv, NEW w \in Workers, pc[w] = "insert", NextInBatch(w), pc'[w] # "idle"
  PROVE  /\ pc'[w] = "check" /\ req'[w].student \in Students /\ req'[w].class = req[w].class
         /\ req'[w].force = FALSE /\ req'[w].previous = None /\ req'[w].closing = FALSE
<1>0. PICK c : c = req[w].class
  OBVIOUS
<1>1. PICK s \in batch[w] : Begin(w, s, c, FALSE, None, FALSE, batch[w] \ {s})
  BY <1>0, ReleaseOwn DEF NextInBatch
<1>2. s \in Students /\ c \in Classes
  BY <1>0 DEF IInv, TypeOK, WorkerOK, RequestOK, EnrolSteps
<1>3. pc'[w] = "check"
  BY ReleaseOwn DEF NextInBatch, Goto, IInv, TypeOK
<1>4. /\ req'[w].student = s /\ req'[w].class = c /\ req'[w].force = FALSE
      /\ req'[w].previous = None /\ req'[w].closing = FALSE
  BY <1>1, <1>2, RequestFacts
<1>. QED BY <1>0, <1>2, <1>3, <1>4

\* A statement of an enrolment that goes on with it.
LEMMA GoesOn ==
  ASSUME IInv, NEW w \in Workers, pc'[w] # "idle",
         CloseOld(w) \/ CheckDuplicate(w) \/ CheckCapacity(w) \/ ReadNumber(w)
  PROVE  /\ UNCHANGED <<rows, started, req, snap>>
         /\ CASE pc[w] = "close" -> pc'[w] = "check"
              [] pc[w] = "check" -> pc'[w] = (IF req[w].force THEN "number" ELSE "capacity")
              [] pc[w] = "capacity" -> pc'[w] = "number"
              [] pc[w] = "number" -> pc'[w] = "insert"
              [] OTHER -> FALSE
BY ReleaseOwn DEF CloseOld, CheckDuplicate, CheckCapacity, ReadNumber, Goto, IInv, TypeOK

LEMMA WorksWeb ==
  ASSUME IInv, NEW w \in Workers, WebOK(w), Works(w), Grows
  PROVE  WebOK(w)'
<1>1. CASE pc'[w] = "idle"
  BY <1>1 DEF WebOK, EnrolSteps
<1>2. CASE pc'[w] # "idle" /\ (CloseOld(w) \/ CheckDuplicate(w) \/ CheckCapacity(w) \/ ReadNumber(w))
  <2>1. UNCHANGED <<rows, req>> /\ pc[w] \in EnrolSteps \cup {"close"}
    BY <1>2, GoesOn DEF CloseOld, CheckDuplicate, CheckCapacity, ReadNumber, EnrolSteps
  <2>. QED BY <2>1 DEF WebOK
<1>3. CASE pc'[w] # "idle" /\ \E e \in Enrollments : Insert(w, e)
  <2>1. pc[w] = "insert" /\ NextInBatch(w)
    BY <1>3, ReleaseOwn DEF Insert
  <2>2. ~ req'[w].closing /\ req'[w].force = FALSE
    BY <1>3, <2>1, NextFacts
  <2>. QED BY <2>1, <2>2, ForceAssumption DEF WebOK, EnrolSteps
<1>4. CASE \/ \E reason \in BOOLEAN : Anular(w, reason)
           \/ (\E e \in Enrollments : JobSave(w, e)) \/ JobEnd(w)
  BY <1>4, ReleaseOwn DEF Anular, JobSave, JobEnd, WebOK, EnrolSteps
<1>. QED BY <1>1, <1>2, <1>3, <1>4 DEF Works, WebStep

-----------------------------------------------------------------------------
\* What a worker sees but for the row it closes.
LEMMA ViewElsewhere ==
  ASSUME IInv, NEW w \in Workers, pc[w] \in EnrolSteps
  PROVE  /\ DOMAIN View(w) = DOMAIN rows
         /\ \A x \in DOMAIN rows \ ClosedBy(w) : View(w)[x] = rows[x]
         /\ req[w].closing => /\ req[w].previous \in DOMAIN rows
                              /\ View(w)[req[w].previous].status = "transferred"
                              /\ View(w)[req[w].previous].class = rows[req[w].previous].class
<1>1. CASE ~ req[w].closing
  BY <1>1 DEF View, InTransaction, ClosedBy
<1>2. CASE req[w].closing
  <2>. DEFINE p == req[w].previous
              closed == [snap[w][p] EXCEPT !.status = "transferred"]
  <2>1. /\ p \in DOMAIN snap[w] /\ p \in DOMAIN rows /\ snap[w][p] \in Row
        /\ SameIdentity(snap[w][p], rows[p])
    BY <1>2 DEF IInv, TypeOK, WorkerOK, RequestOK, HeldRowsOK
  <2>2. closed.status = "transferred" /\ closed.class = rows[p].class
    BY <2>1 DEF Row, SameIdentity
  <2>3. View(w) = [rows EXCEPT ![p] = closed]
    BY <1>2 DEF View, InTransaction
  <2>. HIDE DEF closed
  <2>. QED BY <1>2, <2>1, <2>2, <2>3 DEF ClosedBy
<1>. QED BY <1>1, <1>2

\* The row closed is not in the class of the new enrolment.
LEMMA ViewOfClass ==
  ASSUME IInv, NEW w \in Workers, WebOK(w), pc[w] \in EnrolSteps
  PROVE  LiveInClass(View(w), req[w].class) = LiveInClass(rows, req[w].class)
<1>. DEFINE c == req[w].class
<1>1. /\ DOMAIN View(w) = DOMAIN rows
      /\ \A x \in DOMAIN rows \ ClosedBy(w) : View(w)[x] = rows[x]
      /\ \A x \in ClosedBy(w) : x \in DOMAIN rows => View(w)[x].class = rows[x].class
  BY ViewElsewhere DEF ClosedBy
<1>2. \A x \in ClosedBy(w) : rows[x].class # c
  BY DEF WebOK, ClosedBy
<1>3. \A x \in DOMAIN rows :
        x \in LiveInClass(View(w), c) <=> x \in LiveInClass(rows, c)
  BY <1>1, <1>2 DEF LiveInClass, Live
<1>4. LiveInClass(View(w), c) \subseteq DOMAIN rows /\ LiveInClass(rows, c) \subseteq DOMAIN rows
  BY <1>1 DEF LiveInClass, Live
<1>. QED BY <1>3, <1>4

\* MAX + 1 is one more than the rows of the year.
LEMMA NextNumberCounts ==
  ASSUME IInv, NEW w \in Workers, NEW y, NEW n \in Nat, IsNextNumber(View(w), y, n)
  PROVE  n = Cardinality(Servico!Used(y)) + 1
<1>. DEFINE U == Servico!Used(y)
<1>1. \A k : k \in U <=> \E e \in DOMAIN rows : Year(rows[e]) = y /\ k = rows[e].number
  BY DEF Servico!Used, Servico!Year, Year
<1>2. /\ DOMAIN View(w) = DOMAIN rows
      /\ \A e \in DOMAIN rows : Year(View(w)[e]) = Year(rows[e]) /\ View(w)[e].number = rows[e].number
  BY ViewFacts DEF SameIdentity, Year
<1>3. U \in SUBSET Nat
  BY <1>1 DEF IInv, TypeOK, Row
<1>. HIDE DEF U
<1>4. \A k \in U : k < n
  BY <1>1, <1>2 DEF IsNextNumber
<1>5. n = 1 \/ n - 1 \in U
  BY <1>1, <1>2 DEF IsNextNumber
<1>6. \A k \in U : k = 1 \/ k - 1 \in U
  BY <1>1 DEF IInv, TableOK, NumbersSequential
<1>7. U = 1 .. n - 1
  BY <1>3, <1>4, <1>5, <1>6, NumbersFill
<1>8. n # 0
  BY <1>3, <1>5
<1>9. Cardinality(1 .. n - 1) = n - 1
  <2>1. 1 \in Int /\ n - 1 \in Int
    OBVIOUS
  <2>2. Cardinality(1 .. n - 1) = IF 1 > n - 1 THEN 0 ELSE (n - 1) - 1 + 1
    BY <2>1, FS_Interval
  <2>. QED BY <1>8, <2>2
<1>. QED BY <1>7, <1>9 DEF U

\* The view reads the row as it is.
LEMMA ReadIsCurrent ==
  ASSUME IInv, NEW w \in Workers, NEW e, snap' = [snap EXCEPT ![w] = [x \in {e} |-> rows[x]]]
  PROVE  DOMAIN snap'[w] = {e} /\ snap'[w][e] = rows[e]
BY DEF IInv, TypeOK

LEMMA BeginsSerial ==
  ASSUME IInv, NEW w \in Workers, Begins(w)
  PROVE  SerialOK(w)'
<1>1. UNCHANGED <<rows, started>>
  BY BeginsOwn
<1>2. ASSUME NEW s \in Students, NEW c \in Classes, NEW force \in ForceOptions,
             EnrolRequest(w, s, c, force)
      PROVE  SerialOK(w)'
  <2>1. PICK p \in {None} \cup {x \in DOMAIN rows : rows[x].student = s} :
          Begin(w, s, c, force, p, FALSE, {})
    BY <1>2 DEF EnrolRequest
  <2>2. /\ req'[w].student = s /\ req'[w].force = force /\ req'[w].closing = FALSE
        /\ req'[w].previous = p
    BY <2>1, RequestFacts
  <2>3. pc'[w] = "check"
    BY <1>2 DEF EnrolRequest, Goto, IInv, TypeOK
  <2>. QED BY <1>1, <2>1, <2>2, <2>3 DEF SerialOK, EnrolSteps
<1>3. ASSUME NEW s \in Students, NEW c \in Classes, NEW force \in ForceOptions,
             TransferRequest(w, s, c, force)
      PROVE  SerialOK(w)'
  <2>1. PICK e \in Current(s) : /\ c # rows[e].class /\ Begin(w, s, c, force, e, TRUE, {})
                                /\ snap' = [snap EXCEPT ![w] = [x \in {e} |-> rows[x]]]
    BY <1>3 DEF TransferRequest
  <2>2. /\ req'[w].student = s /\ req'[w].force = force /\ req'[w].closing = TRUE
        /\ req'[w].previous = e /\ req'[w].class = c
    BY <2>1, RequestFacts
  <2>3. pc'[w] = "close"
    BY <1>3 DEF TransferRequest, Goto, IInv, TypeOK
  <2>4. snap'[w][e] = rows[e] /\ rows[e].student = s
    BY <2>1, ReadIsCurrent DEF Current
  <2>. QED BY <1>1, <2>1, <2>2, <2>3, <2>4 DEF SerialOK, EnrolSteps
<1>4. ASSUME NEW c \in Classes, NEW selected \in SUBSET Students, BulkRequest(w, c, selected)
      PROVE  SerialOK(w)'
  <2>1. PICK s \in selected : Begin(w, s, c, FALSE, None, FALSE, selected \ {s})
    BY <1>4 DEF BulkRequest
  <2>2. /\ req'[w].student = s /\ req'[w].class = c /\ req'[w].force = FALSE
        /\ req'[w].previous = None /\ req'[w].closing = FALSE
    <3>1. s \in Students
      BY <2>1
    <3>. QED BY <2>1, <3>1, RequestFacts
  <2>3. pc'[w] = "check"
    BY <1>4 DEF BulkRequest, Goto, IInv, TypeOK
  <2>. QED BY <2>2, <2>3, ForceAssumption DEF SerialOK, EnrolSteps
<1>5. ASSUME NEW s \in Students, CancelRequest(w, s)
      PROVE  SerialOK(w)'
  <2>1. PICK e \in Current(s) : snap' = [snap EXCEPT ![w] = [x \in {e} |-> rows[x]]]
    BY <1>5 DEF CancelRequest
  <2>2. DOMAIN snap'[w] = {e} /\ snap'[w][e] = rows[e]
    BY <2>1, ReadIsCurrent
  <2>3. pc'[w] = "cancel"
    BY <1>5 DEF CancelRequest, Goto, IInv, TypeOK
  <2>. QED BY <1>1, <2>2, <2>3 DEF SerialOK, EnrolSteps
<1>6. CASE JobStart(w)
  <2>1. pc'[w] = "job" /\ snap'[w] = [e \in Due |-> rows[e]]
    BY <1>6 DEF JobStart, Goto, IInv, TypeOK
  <2>. QED BY <1>1, <2>1 DEF SerialOK, EnrolSteps, Due
<1>. QED BY <1>2, <1>3, <1>4, <1>5, <1>6 DEF Begins

\* The statements of an enrolment that read.
LEMMA ReadsSerial ==
  ASSUME IInv, NEW w \in Workers, WebOK(w), SerialOK(w), pc'[w] # "idle",
         CloseOld(w) \/ CheckDuplicate(w) \/ CheckCapacity(w) \/ ReadNumber(w)
  PROVE  SerialOK(w)'
<1>. DEFINE c == req[w].class
            s == req[w].student
<1>1. UNCHANGED <<rows, started, req, snap>> /\ pc[w] \in {"close", "check", "capacity", "number"}
  BY GoesOn DEF CloseOld, CheckDuplicate, CheckCapacity, ReadNumber
<1>2. Servico!Used(YearOf[c])' = Servico!Used(YearOf[c])
  BY <1>1 DEF Servico!Used, Servico!Year
<1>3. CASE CloseOld(w)
  <2>1. pc'[w] = "check" /\ pc[w] = "close"
    BY <1>3, GoesOn DEF CloseOld
  <2>. QED BY <1>1, <2>1 DEF SerialOK, EnrolSteps
<1>4. CASE CheckDuplicate(w)
  <2>1. pc[w] = "check" /\ pc'[w] = (IF req[w].force THEN "number" ELSE "capacity")
    BY <1>4, GoesOn DEF CheckDuplicate
  <2>2. LiveInYear(View(w), s, YearOf[c]) \ ClosedBy(w) = {}
    BY <1>4, ReleaseOwn DEF CheckDuplicate, ClosedBy
  <2>3. \A x \in Live(rows) \ ClosedBy(w) : rows[x].student = s => Year(rows[x]) # YearOf[c]
    <3>1. /\ DOMAIN View(w) = DOMAIN rows
          /\ \A x \in DOMAIN rows \ ClosedBy(w) : View(w)[x] = rows[x]
      BY <2>1, ViewElsewhere DEF EnrolSteps
    <3>. QED BY <2>2, <3>1 DEF LiveInYear, Live
  <2>. QED BY <1>1, <2>1, <2>3 DEF SerialOK, EnrolSteps, ClosedBy, Live, LiveInClass
<1>5. CASE CheckCapacity(w)
  <2>1. pc[w] = "capacity" /\ pc'[w] = "number"
    BY <1>5, GoesOn DEF CheckCapacity
  <2>2. ~ Cardinality(LiveInClass(View(w), c)) >= Capacity[c]
    BY <1>5, ReleaseOwn DEF CheckCapacity
  <2>3. LiveInClass(View(w), c) = LiveInClass(rows, c)
    BY <2>1, ViewOfClass DEF EnrolSteps
  <2>4. Cardinality(LiveInClass(rows, c)) < Capacity[c]
    <3>1. IsFiniteSet(LiveInClass(rows, c)) /\ c \in Classes
      <4>1. LiveInClass(rows, c) \in SUBSET Enrollments
        BY DEF LiveInClass, Live, IInv, TypeOK
      <4>. QED BY <2>1, <4>1, EnrollmentsAssumption, FS_Subset
               DEF IInv, WorkerOK, RequestOK, EnrolSteps
    <3>2. Cardinality(LiveInClass(rows, c)) \in Nat /\ Capacity[c] \in Nat
      BY <3>1, FS_CardinalityType, ClassesAssumption
    <3>. QED BY <2>2, <2>3, <3>2
  <2>. QED BY <1>1, <2>1, <2>4 DEF SerialOK, EnrolSteps, ClosedBy, Live, LiveInClass
<1>6. CASE ReadNumber(w)
  <2>1. pc[w] = "number" /\ pc'[w] = "insert"
    BY <1>6, GoesOn DEF ReadNumber
  <2>2. PICK n \in 1 .. Cardinality(Enrollments) :
          IsNextNumber(View(w), YearOf[c], n) /\ number' = [number EXCEPT ![w] = n]
    BY <1>6 DEF ReadNumber
  <2>3. n \in Nat
    BY <2>2, EnrollmentsAssumption, FS_CardinalityType
  <2>4. number'[w] = Cardinality(Servico!Used(YearOf[c])) + 1
    BY <2>2, <2>3, NextNumberCounts DEF IInv, TypeOK
  <2>. QED BY <1>1, <1>2, <2>1, <2>4 DEF SerialOK, EnrolSteps, ClosedBy, Live, LiveInClass
<1>. QED BY <1>3, <1>4, <1>5, <1>6

LEMMA WorksSerial ==
  ASSUME IInv, NEW w \in Workers, WebOK(w), SerialOK(w), Works(w), pc'[w] # "idle"
  PROVE  SerialOK(w)'
<1>1. CASE CloseOld(w) \/ CheckDuplicate(w) \/ CheckCapacity(w) \/ ReadNumber(w)
  BY <1>1, ReadsSerial
<1>2. CASE \E e \in Enrollments : Insert(w, e)
  <2>1. pc[w] = "insert" /\ NextInBatch(w)
    BY <1>2, ReleaseOwn DEF Insert
  <2>2. /\ pc'[w] = "check" /\ req'[w].force = FALSE
        /\ req'[w].previous = None /\ req'[w].closing = FALSE
    BY <2>1, NextFacts
  <2>. QED BY <2>2, ForceAssumption DEF SerialOK, EnrolSteps
<1>3. CASE \E e \in Enrollments : JobSave(w, e)
  <2>1. PICK e \in Enrollments : JobSave(w, e)
    BY <1>3
  <2>2. /\ pc[w] = "job" /\ e \in DOMAIN snap[w] /\ UNCHANGED <<pc, started>>
        /\ Save(e, Activated(snap[w][e]))
        /\ snap' = [snap EXCEPT ![w] = [x \in DOMAIN snap[w] \ {e} |-> snap[w][x]]]
    BY <2>1, ReleaseOwn DEF JobSave
  <2>3. DOMAIN snap[w] \subseteq DOMAIN rows
    BY DEF IInv, WorkerOK, HeldRowsOK
  <2>4. /\ DOMAIN snap'[w] = DOMAIN snap[w] \ {e}
        /\ \A x \in DOMAIN snap'[w] : snap'[w][x] = snap[w][x]
    BY <2>2 DEF IInv, TypeOK
  <2>5. \A x \in DOMAIN snap'[w] : rows'[x] = rows[x]
    BY <2>2, <2>3, <2>4 DEF Save
  <2>6. \A x \in DOMAIN snap[w] : /\ snap[w][x] = rows[x] /\ rows[x].status = "pending"
                                  /\ Year(rows[x]) \in started
    BY <2>2 DEF SerialOK
  <2>7. \A x \in DOMAIN snap'[w] : /\ snap'[w][x] = rows'[x] /\ rows'[x].status = "pending"
                                   /\ Year(rows'[x]) \in started'
    BY <2>2, <2>4, <2>5, <2>6
  <2>. QED BY <2>2, <2>7 DEF SerialOK, EnrolSteps, Year
<1>4. CASE (\E reason \in BOOLEAN : Anular(w, reason)) \/ JobEnd(w)
  BY <1>4, ReleaseOwn DEF Anular, JobEnd
<1>. QED BY <1>1, <1>2, <1>3, <1>4 DEF Works, WebStep

LEMMA NextSInv ==
  ASSUME IInv, WInv, SInv, [MCNext]_<<vars, serial, revived>>
  PROVE  SInv'
<1>. SUFFICES ASSUME serial', NEW w \in Workers, pc'[w] # "idle"
              PROVE  SerialOK(w)' /\ \A v \in Workers \ {w} : pc'[v] = "idle"
  BY DEF SInv
<1>1. CASE MCNext
  <2>1. serial /\ \A v \in Workers \ {w} : pc'[v] = "idle"
    BY <1>1 DEF MCNext
  <2>2. \A v \in Workers :
          pc[v] # "idle" => SerialOK(v) /\ \A u \in Workers \ {v} : pc[u] = "idle"
    BY <2>1 DEF SInv
  <2>3. ASSUME NEW u \in Workers, Begins(u) \/ Works(u) \/ Crash(u)
        PROVE  SerialOK(w)'
    <3>1. OthersKeep(u) /\ (Crash(u) => pc[u] # "idle" /\ pc'[u] = "idle")
      BY <2>3, BeginsOwn, WorksOwn, ReleaseOwn DEF Crash
    <3>2. CASE u = w
      <4>1. CASE Begins(w)
        BY <4>1, BeginsSerial
      <4>2. CASE Works(w)
        BY <2>2, <4>2, WorksOwn, WorksSerial DEF WInv
      <4>. QED BY <2>3, <3>1, <3>2, <4>1, <4>2
    <3>3. CASE u # w
      <4>1. pc[u] = "idle" /\ pc'[u] = "idle"
        BY <2>1, <2>2, <3>1, <3>3 DEF OthersKeep
      <4>. QED BY <2>3, <3>1, <4>1, BeginsOwn, WorksOwn
    <3>. QED BY <3>2, <3>3
  <2>4. CASE (\E y \in Years : YearStarts(y)) \/ UNCHANGED vars
    <3>1. UNCHANGED <<rows, local>> /\ started \subseteq started'
      BY <2>4 DEF YearStarts, vars, local
    <3>2. SerialOK(w)
      BY <2>2, <3>1 DEF local
    <3>. QED BY <2>1, <3>1, <3>2 DEF SerialOK, local, ClosedBy, Live, LiveInClass, Year,
                                     Servico!Used, Servico!Year
  <2>5. Next
    BY <1>1 DEF MCNext
  <2>. QED BY <2>1, <2>3, <2>4, <2>5, StepCases
<1>2. CASE UNCHANGED <<vars, serial, revived>>
  <2>1. UNCHANGED <<rows, started, pc, req, snap, number, serial>>
    BY <1>2 DEF vars
  <2>2. SerialOK(w) /\ \A v \in Workers \ {w} : pc[v] = "idle"
    BY <2>1 DEF SInv
  <2>. QED BY <2>1, <2>2 DEF SerialOK, ClosedBy, Live, LiveInClass, Year,
                             Servico!Used, Servico!Year
<1>. QED BY <1>1, <1>2

\* No step removes an enrolment or changes its identity.
LEMMA NextGrows ==
  ASSUME IInv, [Next]_vars
  PROVE  Grows
<1>1. CASE UNCHANGED rows
  BY <1>1, SameRows DEF IInv
<1>2. ASSUME NEW w \in Workers, NEW reason \in BOOLEAN, Anular(w, reason)
      PROVE  Grows
  <2>1. PICK e \in DOMAIN snap[w] :
          LET r == [snap[w][e] EXCEPT !.status = "cancelled", !.reason = TRUE]
          IN  UNCHANGED rows \/ (CanSave(e, r) /\ Save(e, r))
    BY <1>2 DEF Anular
  <2>. DEFINE r == [snap[w][e] EXCEPT !.status = "cancelled", !.reason = TRUE]
  <2>2. snap[w][e] \in Row
    BY DEF IInv, TypeOK
  <2>3. r \in Row /\ SameIdentity(r, snap[w][e]) /\ r.status = "cancelled" /\ r.reason
    BY <2>2 DEF Row, Status, SameIdentity
  <2>4. UNCHANGED rows \/ (CanSave(e, r) /\ Save(e, r))
    BY <2>1
  <2>. HIDE DEF r
  <2>. QED BY <1>1, <2>3, <2>4, SaveHeld
<1>3. ASSUME NEW w \in Workers, NEW e \in Enrollments, JobSave(w, e)
      PROVE  Grows
  <2>. DEFINE r == Activated(snap[w][e])
  <2>1. e \in DOMAIN snap[w] /\ snap[w][e] \in Row /\ ~ snap[w][e].reason
    BY <1>3 DEF IInv, TypeOK, WorkerOK, HeldRowsOK, JobSave
  <2>2. r \in Row /\ SameIdentity(r, snap[w][e]) /\ r.status = "active" /\ ~ r.reason
    BY <2>1 DEF Activated, Row, Status, SameIdentity
  <2>3. UNCHANGED rows \/ (CanSave(e, r) /\ Save(e, r))
    BY <1>3 DEF JobSave
  <2>. HIDE DEF r
  <2>. QED BY <1>1, <2>1, <2>2, <2>3, SaveHeld
<1>4. ASSUME NEW w \in Workers, NEW e \in Enrollments, Insert(w, e)
      PROVE  Grows
  BY <1>1, <1>4, InsertKeeps DEF Insert
<1>5. ASSUME NEW w \in Workers, CloseOld(w) \/ CheckDuplicate(w) \/ CheckCapacity(w) \/ ReadNumber(w)
      PROVE  UNCHANGED rows
  BY <1>5 DEF CloseOld, CheckDuplicate, CheckCapacity, ReadNumber
<1>6. ASSUME NEW w \in Workers, Works(w) PROVE Grows
  BY <1>1, <1>2, <1>3, <1>4, <1>5, <1>6 DEF Works, WebStep, JobEnd
<1>7. ASSUME NEW w \in Workers, Begins(w) \/ Crash(w) PROVE UNCHANGED rows
  BY <1>7, BeginsOwn DEF Crash
<1>8. (\E y \in Years : YearStarts(y)) \/ UNCHANGED vars => UNCHANGED rows
  BY DEF YearStarts, vars
<1>. QED BY <1>1, <1>6, <1>7, <1>8, StepCases

\* A row that is saved as live leaves its student with a live enrolment.
LEMMA PlaceStep ==
  ASSUME IInv, Next, NEW e \in Live(rows),
         \A f \in Live(rows') : rows'[f].student # rows[e].student
  PROVE  rows'[e].status = "cancelled"
<1>1. /\ e \in DOMAIN rows /\ e \in DOMAIN rows' /\ rows'[e].student = rows[e].student
      /\ rows[e] \in Row /\ rows[e].status \in ActiveStatuses
  BY NextGrows DEF Grows, SameIdentity, Live, IInv, TypeOK
<1>2. rows'[e].status \notin ActiveStatuses
  BY <1>1 DEF Live
<1>3. ~UNCHANGED rows
  BY <1>1, <1>2
<1>4. ASSUME NEW w \in Workers, NEW reason \in BOOLEAN, Anular(w, reason)
      PROVE  rows'[e].status = "cancelled"
  <2>1. PICK x \in DOMAIN snap[w] :
          Save(x, [snap[w][x] EXCEPT !.status = "cancelled", !.reason = TRUE])
    BY <1>3, <1>4 DEF Anular
  <2>2. snap[w][x] \in Row /\ x \in DOMAIN rows
    BY DEF IInv, TypeOK, WorkerOK, HeldRowsOK
  <2>3. x = e
    BY <1>1, <1>2, <2>1 DEF Save
  <2>. QED BY <1>1, <2>1, <2>2, <2>3 DEF Save, Row
<1>5. ASSUME NEW w \in Workers, NEW x \in Enrollments, JobSave(w, x)
      PROVE  FALSE
  <2>1. Save(x, Activated(snap[w][x])) /\ x \in DOMAIN snap[w]
    BY <1>3, <1>5 DEF JobSave
  <2>2. snap[w][x] \in Row
    BY <2>1 DEF IInv, TypeOK
  <2>3. x = e
    BY <1>1, <1>2, <2>1 DEF Save
  <2>4. rows'[e].status = "active"
    BY <1>1, <2>1, <2>2, <2>3 DEF Save, Activated, Row
  <2>. QED BY <1>2, <2>4 DEF ActiveStatuses
<1>6. ASSUME NEW w \in Workers, NEW x \in Enrollments, Insert(w, x)
      PROVE  FALSE
  <2>1. /\ rows' = Inserted(w, x) /\ x \notin DOMAIN rows /\ pc[w] \in EnrolSteps
    BY <1>3, <1>6 DEF Insert, EnrolSteps
  <2>2. x \in Live(rows') /\ rows'[x].student = req[w].student
    BY <2>1 DEF Inserted, NewRow, Live, ActiveStatuses
  <2>3. rows'[e] = View(w)[e]
    BY <1>1, <2>1 DEF Inserted
  <2>4. e \in ClosedBy(w)
    BY <1>1, <1>2, <2>1, <2>3, ViewElsewhere
  <2>5. req[w].closing /\ e = req[w].previous
    BY <2>4 DEF ClosedBy
  <2>6. rows[e].student = req[w].student
    BY <2>1, <2>5 DEF IInv, WorkerOK, RequestOK, HeldRowsOK, SameIdentity
  <2>. QED BY <2>2, <2>6
<1>7. ASSUME NEW w \in Workers, Begins(w) \/ Crash(w) \/ JobEnd(w)
      PROVE  FALSE
  BY <1>3, <1>7, BeginsOwn DEF Crash, JobEnd
<1>8. ASSUME NEW w \in Workers, Works(w), ~JobEnd(w)
      PROVE  rows'[e].status = "cancelled"
  BY <1>3, <1>4, <1>5, <1>6, <1>8
     DEF Works, WebStep, CloseOld, CheckDuplicate, CheckCapacity, ReadNumber
<1>9. ~ (\E y \in Years : YearStarts(y)) /\ ~UNCHANGED vars
  BY <1>3 DEF YearStarts, vars
<1>. QED BY <1>7, <1>8, <1>9, StepCases

\* Only anular_matricula takes an enrolment from a student: transfers that are
\* refused or die give it back, and stale rows written back leave one.
THEOREM PlacesAreKept == Spec => OnlyCancelsLoseAPlace
<1>1. IInv /\ [Next]_vars =>
        [\A e \in Live(rows) :
           (\A f \in Live(rows') : rows'[f].student # rows[e].student)
             => rows'[e].status = "cancelled"]_rows
  BY PlaceStep DEF vars
<1>. QED BY <1>1, Invariance, PTL DEF Spec, OnlyCancelsLoseAPlace

LEMMA NextWInv ==
  ASSUME IInv, WInv, [Next]_vars
  PROVE  WInv'
<1>1. Grows
  BY NextGrows
<1>2. ASSUME NEW v \in Workers, pc'[v] = pc[v], req'[v] = req[v]
      PROVE  WebOK(v)'
  <2>1. pc[v] \in EnrolSteps \cup {"close"} /\ req[v].closing => req[v].previous \in DOMAIN rows
    BY DEF IInv, WorkerOK, RequestOK, HeldRowsOK
  <2>2. WebOK(v)
    BY DEF WInv
  <2>. QED BY <1>1, <1>2, <2>1, <2>2 DEF WebOK, Grows, SameIdentity
<1>3. ASSUME NEW w \in Workers, Begins(w) \/ Works(w) \/ Crash(w), NEW v \in Workers
      PROVE  WebOK(v)'
  <2>1. OthersKeep(w) /\ (Crash(w) => pc'[w] = "idle")
    BY <1>3, BeginsOwn, WorksOwn, ReleaseOwn DEF Crash
  <2>2. WebOK(w)'
    <3>1. CASE Crash(w)
      BY <2>1, <3>1 DEF WebOK, EnrolSteps
    <3>. QED BY <1>1, <1>3, <3>1, BeginsWeb, WorksWeb DEF WInv
  <2>. QED BY <1>2, <2>1, <2>2 DEF OthersKeep
<1>4. CASE (\E y \in Years : YearStarts(y)) \/ UNCHANGED vars
  <2>1. UNCHANGED <<pc, req>>
    BY <1>4 DEF YearStarts, vars, local
  <2>. QED BY <1>2, <2>1 DEF WInv
<1>. QED BY <1>3, <1>4, StepCases DEF WInv

LEMMA MCInvariant == MCSpec => [](IInv /\ WInv /\ SInv)
<1>1. MCInit => IInv /\ WInv /\ SInv
  BY InitIInv DEF MCInit, Init, WInv, WebOK, SInv, EnrolSteps
<1>2. IInv /\ WInv /\ SInv /\ [MCNext]_<<vars, serial, revived>> => IInv' /\ WInv' /\ SInv'
  <2>1. [MCNext]_<<vars, serial, revived>> => [Next]_vars
    BY DEF MCNext
  <2>. QED BY <2>1, NextIInv, NextWInv, NextSInv
<1>. QED BY <1>1, <1>2, PTL DEF MCSpec

-----------------------------------------------------------------------------
(* Each write by itself is a service of MatriculaServico. *)

\* MatriculaServico counts as this module does.
LEMMA SameCardinality ==
  ASSUME NEW S
  PROVE  Servico!Cardinality(S) = Cardinality(S)
BY DEF Cardinality, Servico!Cardinality

LEMMA CancelIsService ==
  ASSUME IInv, NEW w \in Workers, SerialOK(w), NEW reason \in BOOLEAN, Anular(w, reason)
  PROVE  Servico!Next \/ UNCHANGED <<rows, started>>
<1>1. PICK e \in DOMAIN snap[w] :
        LET r == [snap[w][e] EXCEPT !.status = "cancelled", !.reason = TRUE]
        IN  IF snap[w][e].status \in ActiveStatuses /\ reason /\ CanSave(e, r)
            THEN Unlocked(w, e) /\ Save(e, r)
            ELSE UNCHANGED rows
  BY DEF Anular
<1>2. CASE UNCHANGED rows
  BY <1>2 DEF Anular
<1>3. CASE /\ snap[w][e].status \in ActiveStatuses
           /\ Save(e, [snap[w][e] EXCEPT !.status = "cancelled", !.reason = TRUE])
  <2>1. e \in DOMAIN rows /\ snap[w][e] = rows[e] /\ e \in Enrollments
    BY DEF Anular, SerialOK, IInv, TypeOK, WorkerOK, HeldRowsOK
  <2>2. rows' = [rows EXCEPT ![e].status = "cancelled", ![e].reason = TRUE]
    BY <1>3, <2>1 DEF Save
  <2>3. e \in Servico!Live /\ UNCHANGED started
    BY <1>3, <2>1 DEF Servico!Live, Servico!ActiveStatuses, ActiveStatuses, Anular
  <2>4. Servico!Cancel(e)
    BY <2>2, <2>3 DEF Servico!Cancel
  <2>. QED BY <2>1, <2>4 DEF Servico!Next
<1>. QED BY <1>1, <1>2, <1>3

LEMMA ActivationIsService ==
  ASSUME IInv, NEW w \in Workers, SerialOK(w), NEW e \in Enrollments, JobSave(w, e)
  PROVE  Servico!Next \/ UNCHANGED <<rows, started>>
<1>1. CASE UNCHANGED rows
  BY <1>1 DEF JobSave
<1>2. CASE Save(e, Activated(snap[w][e]))
  <2>1. /\ e \in DOMAIN rows /\ snap[w][e] = rows[e] /\ rows[e].status = "pending"
        /\ Year(rows[e]) \in started /\ UNCHANGED started
    BY DEF JobSave, SerialOK, IInv, WorkerOK, HeldRowsOK
  <2>2. rows' = [rows EXCEPT ![e].status = "active"]
    BY <1>2, <2>1 DEF Save, Activated
  <2>3. Servico!Activate(e)
    BY <2>1, <2>2 DEF Servico!Activate, Servico!Year, Year
  <2>. QED BY <2>3 DEF Servico!Next
<1>. QED BY <1>1, <1>2 DEF JobSave

LEMMA InsertIsService ==
  ASSUME IInv, NEW w \in Workers, SerialOK(w), NEW e \in Enrollments, Insert(w, e)
  PROVE  Servico!Next \/ UNCHANGED <<rows, started>>
<1>. DEFINE c == req[w].class
            s == req[w].student
            p == req[w].previous
            force == req[w].force
<1>1. CASE UNCHANGED rows
  BY <1>1 DEF Insert
<1>2. CASE rows' = Inserted(w, e)
  <2>1. /\ pc[w] = "insert" /\ e \notin DOMAIN rows /\ UNCHANGED started
        /\ s \in Students /\ c \in Classes /\ force \in ForceOptions
    BY DEF Insert, IInv, WorkerOK, RequestOK, SerialOK, EnrolSteps
  <2>2. NewRow(w) = Servico!New(s, c, p)
    <3>1. number[w] = Cardinality(Servico!Used(YearOf[c])) + 1
      BY <2>1 DEF SerialOK
    <3>. QED BY <3>1, SameCardinality DEF NewRow, Servico!New
  <2>3. Servico!Live = Live(rows)
    BY DEF Servico!Live, Servico!ActiveStatuses, Live, ActiveStatuses
  <2>4. Servico!Occupied(c) = Cardinality(LiveInClass(rows, c))
    <3>1. {x \in Servico!Live : rows[x].class = c} = LiveInClass(rows, c)
      BY <2>3 DEF LiveInClass
    <3>. QED BY <3>1, SameCardinality DEF Servico!Occupied
  <2>5. Servico!MayEnrol(s, c, force, ClosedBy(w))
    BY <2>1, <2>3, <2>4 DEF SerialOK, Servico!MayEnrol, Servico!Year, Year
  <2>6. CASE ~ req[w].closing
    <3>1. View(w) = rows /\ ClosedBy(w) = {}
      BY <2>6 DEF View, InTransaction, ClosedBy
    <3>2. p \in {None} \cup {x \in DOMAIN rows : rows[x].student = s}
      BY <2>1, <2>6 DEF SerialOK, EnrolSteps
    <3>3. rows' = [x \in DOMAIN rows \cup {e} |-> IF x = e THEN Servico!New(s, c, p) ELSE rows[x]]
      BY <1>2, <2>2, <3>1 DEF Inserted
    <3>4. Servico!Enrol(e, s, c, force)
      BY <2>1, <2>5, <3>1, <3>2, <3>3 DEF Servico!Enrol
    <3>. QED BY <2>1, <3>4 DEF Servico!Next
  <2>7. CASE req[w].closing
    <3>1. /\ p \in DOMAIN snap[w] /\ p \in DOMAIN rows /\ p \in Enrollments
          /\ snap[w][p] = rows[p] /\ rows[p].student = s /\ rows[p].class # c
          /\ rows[p].status \in ActiveStatuses
      BY <2>1, <2>7 DEF SerialOK, IInv, TypeOK, WorkerOK, RequestOK, HeldRowsOK, EnrolSteps
    <3>2. View(w) = [rows EXCEPT ![p] = [rows[p] EXCEPT !.status = "transferred"]]
      BY <2>1, <2>7, <3>1 DEF View, InTransaction, EnrolSteps
    <3>3. rows' = [x \in DOMAIN rows \cup {e} |->
                     IF x = e THEN Servico!New(rows[p].student, c, p)
                     ELSE IF x = p THEN [rows[p] EXCEPT !.status = "transferred"]
                     ELSE rows[x]]
      BY <1>2, <2>2, <3>1, <3>2 DEF Inserted
    <3>4. p \in Servico!Live /\ Servico!MayEnrol(rows[p].student, c, force, {p})
      BY <2>3, <2>5, <2>7, <3>1 DEF Live, ClosedBy
    <3>5. Servico!Transfer(p, e, c, force)
      BY <2>1, <3>1, <3>3, <3>4 DEF Servico!Transfer
    <3>. QED BY <2>1, <3>1, <3>5 DEF Servico!Next
  <2>. QED BY <2>6, <2>7
<1>. QED BY <1>1, <1>2 DEF Insert

LEMMA StepIsService ==
  ASSUME IInv, SInv, [MCNext]_<<vars, serial, revived>>, serial'
  PROVE  Servico!Next \/ UNCHANGED <<rows, started>>
<1>1. CASE UNCHANGED <<vars, serial, revived>>
  BY <1>1 DEF vars
<1>2. CASE MCNext
  <2>1. Next /\ serial
    BY <1>2 DEF MCNext
  <2>2. ASSUME NEW w \in Workers, Works(w)
        PROVE  Servico!Next \/ UNCHANGED <<rows, started>>
    <3>1. SerialOK(w)
      BY <2>1, <2>2, WorksOwn DEF SInv
    <3>2. CASE CloseOld(w) \/ CheckDuplicate(w) \/ CheckCapacity(w) \/ ReadNumber(w) \/ JobEnd(w)
      BY <3>2 DEF CloseOld, CheckDuplicate, CheckCapacity, ReadNumber, JobEnd
    <3>. QED BY <2>2, <3>1, <3>2, CancelIsService, ActivationIsService, InsertIsService
             DEF Works, WebStep
  <2>3. ASSUME NEW w \in Workers, Begins(w) \/ Crash(w)
        PROVE  UNCHANGED <<rows, started>>
    BY <2>3, BeginsOwn DEF Crash
  <2>4. ASSUME NEW y \in Years, YearStarts(y)
        PROVE  Servico!Next
    BY <2>4 DEF YearStarts, Servico!YearStarts, Servico!Next
  <2>5. UNCHANGED vars => UNCHANGED <<rows, started>>
    BY DEF vars
  <2>. QED BY <2>1, <2>2, <2>3, <2>4, <2>5, StepCases
<1>. QED BY <1>1, <1>2

\* As long as requests and tasks run one at a time, the enrolments change as if
\* each service of services.py were one indivisible operation: the checks made in
\* memory, the unlocked MAX and the split transfer come to enrolling, transferring,
\* cancelling or activating, and a closed enrolment never changes again.
THEOREM ServiceImplemented == MCSpec => ImplementsService
<1>. DEFINE Promised == serial' => Servico!Next
<1>1. IInv /\ WInv /\ SInv /\ [MCNext]_<<vars, serial, revived>> => [Promised]_<<rows, started>>
  BY StepIsService
<1>2. MCInit => Servico!Init
  BY DEF MCInit, Init, NoRows, Servico!Init
<1>. HIDE DEF Promised
<1>3. MCSpec => Servico!Init /\ [][Promised]_<<rows, started>>
  BY <1>1, <1>2, MCInvariant, PTL DEF MCSpec
<1>. QED BY <1>3 DEF ImplementsService, Promised

\* No service changes a closed enrolment.
LEMMA ServiceKeepsClosed ==
  ASSUME Servico!Next, NEW e \in DOMAIN rows, rows[e].status \in ClosedStatuses
  PROVE  e \in DOMAIN rows' /\ rows'[e] = rows[e]
<1>1. e \notin Servico!Live /\ rows[e].status # "pending"
  BY DEF Servico!Live, Servico!ActiveStatuses, ClosedStatuses, ActiveStatuses
<1>. QED BY <1>1 DEF Servico!Next, Servico!Enrol, Servico!Transfer, Servico!Cancel,
                     Servico!Activate, Servico!YearStarts

\* MatriculaJaEncerradaError, "o histórico é imutável a partir daí": as long as requests
\* and tasks run one at a time, an enrolment that is cancelled or transferred stays
\* as it is.
THEOREM ClosedStayClosed ==
  MCSpec => [][serial' => \A e \in DOMAIN rows :
                 rows[e].status \in ClosedStatuses
                   => e \in DOMAIN rows' /\ rows'[e] = rows[e]]_<<rows, started>>
<1>. DEFINE Promised == serial' => Servico!Next
            Closed == serial' => \A e \in DOMAIN rows :
                        rows[e].status \in ClosedStatuses
                          => e \in DOMAIN rows' /\ rows'[e] = rows[e]
<1>1. Promised => Closed
  BY ServiceKeepsClosed
<1>2. MCSpec => [][Promised]_<<rows, started>>
  BY ServiceImplemented DEF ImplementsService
<1>. HIDE DEF Promised, Closed
<1>3. MCSpec => [][Closed]_<<rows, started>>
  BY <1>1, <1>2, PTL
<1>. QED BY <1>3 DEF Closed

-----------------------------------------------------------------------------
(***************************************************************************)
(* How far the web workers that race past the capacity check, and the      *)
(* daily task that writes closed rows back, overfill a class.              *)
(***************************************************************************)

\* The workers past the capacity check for class c that have not inserted yet.
Allowed(c) == {w \in Workers : pc[w] \in {"number", "insert"} /\ req[w].class = c}

CapacityOK(c) ==
  /\ Cardinality(LiveInClass(rows, c)) + Cardinality(Allowed(c))
       <= Capacity[c] + Cardinality(WebWorkers) - 1 + revived
  /\ serial => Cardinality(LiveInClass(rows, c)) <= Capacity[c]

OInv == revived \in Nat /\ \A c \in Classes : CapacityOK(c)

LEMMA AtMostOneMore ==
  ASSUME NEW S, IsFiniteSet(S), NEW e, NEW T \in SUBSET (S \cup {e})
  PROVE  /\ IsFiniteSet(T) /\ Cardinality(T) \in Nat /\ Cardinality(S) \in Nat
         /\ Cardinality(T) <= Cardinality(S) + 1
<1>1. IsFiniteSet(S \cup {e})
      /\ Cardinality(S \cup {e}) = IF e \in S THEN Cardinality(S) ELSE Cardinality(S) + 1
  BY FS_AddElement
<1>2. IsFiniteSet(T) /\ Cardinality(T) <= Cardinality(S \cup {e})
  BY <1>1, FS_Subset
<1>3. Cardinality(T) \in Nat /\ Cardinality(S) \in Nat
  BY <1>2, FS_CardinalityType
<1>. QED BY <1>1, <1>2, <1>3

LEMMA AtMostAsMany ==
  ASSUME NEW S, IsFiniteSet(S), NEW T \in SUBSET S
  PROVE  /\ IsFiniteSet(T) /\ Cardinality(T) \in Nat /\ Cardinality(S) \in Nat
         /\ Cardinality(T) <= Cardinality(S)
<1>1. IsFiniteSet(T) /\ Cardinality(T) <= Cardinality(S)
  BY FS_Subset
<1>. QED BY <1>1, FS_CardinalityType

LEMMA OneLess ==
  ASSUME NEW S, IsFiniteSet(S), NEW e \in S, NEW T \in SUBSET (S \ {e})
  PROVE  /\ Cardinality(T) \in Nat /\ Cardinality(S) \in Nat
         /\ Cardinality(T) <= Cardinality(S) - 1
<1>1. IsFiniteSet(S \ {e})
      /\ Cardinality(S \ {e}) = IF e \in S THEN Cardinality(S) - 1 ELSE Cardinality(S)
  BY FS_RemoveElement
<1>2. Cardinality(S \ {e}) = Cardinality(S) - 1
  BY <1>1
<1>3. Cardinality(T) <= Cardinality(S \ {e}) /\ IsFiniteSet(T)
  BY <1>1, FS_Subset
<1>. QED BY <1>2, <1>3, FS_CardinalityType

LEMMA LiveIsFinite ==
  ASSUME IInv, NEW c
  PROVE  IsFiniteSet(LiveInClass(rows, c))
<1>1. LiveInClass(rows, c) \in SUBSET Enrollments
  BY DEF LiveInClass, Live, IInv, TypeOK
<1>. QED BY <1>1, EnrollmentsAssumption, FS_Subset

LEMMA AllowedIsFinite ==
  ASSUME WInv, IsFiniteSet(WebWorkers), NEW c
  PROVE  Allowed(c) \in SUBSET WebWorkers /\ IsFiniteSet(Allowed(c))
<1>1. Allowed(c) \in SUBSET WebWorkers
  BY DEF Allowed, WInv, WebOK, EnrolSteps
<1>. QED BY <1>1, FS_Subset

\* A step that fills no class and lets nobody past the capacity check.
LEMMA NoFuller ==
  ASSUME IInv, WInv, OInv, IsFiniteSet(WebWorkers), NEW c \in Classes,
         LiveInClass(rows, c)' \subseteq LiveInClass(rows, c), Allowed(c)' \subseteq Allowed(c),
         revived' \in Nat, revived' >= revived, serial' => serial
  PROVE  CapacityOK(c)'
<1>. DEFINE L == Cardinality(LiveInClass(rows, c))
            A == Cardinality(Allowed(c))
            W == Cardinality(WebWorkers)
<1>1. L \in Nat /\ L' \in Nat /\ L' <= L
  BY LiveIsFinite, AtMostAsMany
<1>2. A \in Nat /\ A' \in Nat /\ A' <= A
  BY AllowedIsFinite, AtMostAsMany
<1>3. Capacity[c] \in Nat /\ W \in Nat /\ revived \in Nat
  BY ClassesAssumption, FS_CardinalityType DEF OInv
<1>4. L + A <= Capacity[c] + W - 1 + revived /\ (serial => L <= Capacity[c])
  BY DEF OInv, CapacityOK
<1>5. CapacityOK(c)' <=> /\ L' + A' <= Capacity[c] + W - 1 + revived'
                         /\ serial' => L' <= Capacity[c]
  BY DEF CapacityOK
<1>. HIDE DEF L, A, W
<1>6. L' + A' <= Capacity[c] + W - 1 + revived'
  BY <1>1, <1>2, <1>3, <1>4
<1>7. serial' => L' <= Capacity[c]
  BY <1>1, <1>3, <1>4
<1>. QED BY <1>5, <1>6, <1>7

LEMMA AllowedElsewhere ==
  ASSUME NEW w \in Workers, OthersKeep(w), pc'[w] \notin {"number", "insert"}, NEW c
  PROVE  Allowed(c)' \subseteq Allowed(c) \ {w}
BY DEF Allowed, OthersKeep

LEMMA BeginsOutside ==
  ASSUME IInv, NEW w \in Workers, Begins(w)
  PROVE  pc'[w] \notin {"number", "insert"}
<1>1. pc' \in {[pc EXCEPT ![w] = step] : step \in {"check", "close", "cancel", "job"}}
  BY DEF Begins, EnrolRequest, TransferRequest, BulkRequest, CancelRequest, JobStart, Goto
<1>. QED BY <1>1 DEF IInv, TypeOK

\* What the statements that save no new row do to the classes.
LEMMA QuietStep ==
  ASSUME IInv, WInv, OInv, IsFiniteSet(WebWorkers), NEW w \in Workers, OthersKeep(w),
         pc'[w] \notin {"number", "insert"}, UNCHANGED rows,
         revived' \in Nat, revived' >= revived, serial' => serial, NEW c \in Classes
  PROVE  CapacityOK(c)'
<1>1. LiveInClass(rows, c)' = LiveInClass(rows, c)
  BY DEF LiveInClass, Live
<1>2. Allowed(c)' \subseteq Allowed(c)
  BY AllowedElsewhere
<1>. QED BY <1>1, <1>2, NoFuller

LEMMA CapacityStep ==
  ASSUME IInv, WInv, WInv', OInv, IsFiniteSet(WebWorkers), NEW w \in Workers, CheckCapacity(w),
         revived' \in Nat, revived' >= revived, serial' => serial, NEW c \in Classes
  PROVE  CapacityOK(c)'
<1>1. UNCHANGED rows /\ OthersKeep(w)
  BY WorksOwn DEF CheckCapacity, Works, WebStep
<1>2. CASE pc'[w] = "idle"
  BY <1>1, <1>2, QuietStep
<1>3. CASE pc'[w] # "idle"
  <2>0. UNCHANGED <<rows, req>> /\ pc[w] = "capacity"
    BY <1>3, GoesOn DEF CheckCapacity
  <2>1. CASE req[w].class # c
    <3>1. LiveInClass(rows, c)' = LiveInClass(rows, c)
      BY <2>0 DEF LiveInClass, Live
    <3>2. Allowed(c)' \subseteq Allowed(c)
      BY <1>1, <2>0, <2>1 DEF Allowed, OthersKeep
    <3>. QED BY <3>1, <3>2, NoFuller
  <2>2. CASE req[w].class = c
    <3>. DEFINE L == Cardinality(LiveInClass(rows, c))
                A == Cardinality(Allowed(c))
                W == Cardinality(WebWorkers)
    <3>1. ~ Cardinality(LiveInClass(View(w), c)) >= Capacity[c]
      BY <1>3, <2>2, ReleaseOwn DEF CheckCapacity
    <3>2. LiveInClass(View(w), c) = LiveInClass(rows, c) /\ LiveInClass(rows, c)' = LiveInClass(rows, c)
      BY <2>0, <2>2, ViewOfClass DEF WInv, EnrolSteps, LiveInClass, Live
    <3>3. L \in Nat /\ L' = L
      BY <3>2, LiveIsFinite, FS_CardinalityType
    <3>4. Allowed(c)' \in SUBSET WebWorkers
      <4>1. \A v \in Workers : WebOK(v)'
        BY DEF WInv
      <4>. QED BY <4>1 DEF Allowed, WebOK, EnrolSteps
    <3>5. A' \in Nat /\ W \in Nat /\ A' <= W
      BY <3>4, AtMostAsMany
    <3>6. Capacity[c] \in Nat /\ revived \in Nat
      BY ClassesAssumption DEF OInv
    <3>7. CapacityOK(c)' <=> /\ L' + A' <= Capacity[c] + W - 1 + revived'
                             /\ serial' => L' <= Capacity[c]
      BY DEF CapacityOK
    <3>8. ~ L >= Capacity[c]
      BY <3>1, <3>2
    <3>. HIDE DEF L, A, W
    <3>. QED BY <3>3, <3>5, <3>6, <3>7, <3>8
  <2>. QED BY <2>1, <2>2
<1>. QED BY <1>2, <1>3

LEMMA InsertFills ==
  ASSUME IInv, WInv, SInv, OInv, IsFiniteSet(WebWorkers), TRUE \notin ForceOptions,
         NEW w \in Workers, NEW e \in Enrollments, Insert(w, e),
         revived' \in Nat, revived' >= revived, serial' => serial, NEW c \in Classes
  PROVE  CapacityOK(c)'
<1>1. pc[w] = "insert" /\ OthersKeep(w)
  BY WorksOwn DEF Insert, Works, WebStep
<1>2. pc'[w] \notin {"number", "insert"}
  BY <1>1, NextFacts, ReleaseOwn DEF Insert
<1>3. CASE UNCHANGED rows
  BY <1>1, <1>2, <1>3, QuietStep
<1>4. CASE rows' = Inserted(w, e)
  <2>1. /\ DOMAIN rows' = DOMAIN rows \cup {e}
        /\ rows'[e].class = req[w].class
        /\ \A x \in DOMAIN rows : x # e => rows'[x] = View(w)[x]
    BY <1>4 DEF Inserted, NewRow
  <2>2. \A x \in DOMAIN rows : x # e /\ x \in LiveInClass(rows', c) => x \in LiveInClass(rows, c)
    <3>1. /\ DOMAIN View(w) = DOMAIN rows
          /\ \A x \in DOMAIN rows \ ClosedBy(w) : View(w)[x] = rows[x]
          /\ \A x \in ClosedBy(w) : View(w)[x].status = "transferred"
      BY <1>1, ViewElsewhere DEF EnrolSteps, ClosedBy
    <3>. QED BY <2>1, <3>1 DEF LiveInClass, Live, ActiveStatuses
  <2>3. LiveInClass(rows', c) \subseteq LiveInClass(rows, c) \cup {e}
    BY <2>1, <2>2 DEF LiveInClass, Live
  <2>4. CASE req[w].class # c
    <3>1. LiveInClass(rows, c)' \subseteq LiveInClass(rows, c)
      BY <2>1, <2>3, <2>4 DEF LiveInClass
    <3>2. Allowed(c)' \subseteq Allowed(c)
      BY <1>1, <1>2, AllowedElsewhere
    <3>. QED BY <3>1, <3>2, NoFuller
  <2>5. CASE req[w].class = c
    <3>. DEFINE L == Cardinality(LiveInClass(rows, c))
                A == Cardinality(Allowed(c))
                W == Cardinality(WebWorkers)
    <3>1. L \in Nat /\ L' \in Nat /\ L' <= L + 1
      <4>1. IsFiniteSet(LiveInClass(rows, c))
        BY LiveIsFinite
      <4>. QED BY <2>3, <4>1, AtMostOneMore
    <3>2. A \in Nat /\ A' \in Nat /\ A' <= A - 1
      <4>1. IsFiniteSet(Allowed(c)) /\ w \in Allowed(c)
        BY <1>1, <2>5, AllowedIsFinite DEF Allowed
      <4>2. Allowed(c)' \subseteq Allowed(c) \ {w}
        BY <1>1, <1>2, AllowedElsewhere
      <4>. QED BY <4>1, <4>2, OneLess
    <3>3. Capacity[c] \in Nat /\ W \in Nat /\ revived \in Nat
      BY ClassesAssumption, FS_CardinalityType DEF OInv
    <3>4. L + A <= Capacity[c] + W - 1 + revived
      BY DEF OInv, CapacityOK
    <3>5. serial' => L < Capacity[c]
      <4>. SUFFICES ASSUME serial' PROVE L < Capacity[c]
        OBVIOUS
      <4>1. SerialOK(w)
        BY <1>1 DEF SInv
      <4>2. req[w].force = FALSE
        BY <1>1, ForceAssumption DEF WInv, WebOK, EnrolSteps
      <4>. QED BY <1>1, <2>5, <4>1, <4>2 DEF SerialOK
    <3>6. CapacityOK(c)' <=> /\ L' + A' <= Capacity[c] + W - 1 + revived'
                             /\ serial' => L' <= Capacity[c]
      BY DEF CapacityOK
    <3>. HIDE DEF L, A, W
    <3>7. L' + A' <= Capacity[c] + W - 1 + revived'
      BY <3>1, <3>2, <3>3, <3>4
    <3>8. serial' => L' <= Capacity[c]
      BY <3>1, <3>3, <3>5
    <3>. QED BY <3>6, <3>7, <3>8
  <2>. QED BY <2>4, <2>5
<1>. QED BY <1>3, <1>4 DEF Insert

LEMMA ActivationFills ==
  ASSUME IInv, WInv, SInv, OInv, IsFiniteSet(WebWorkers),
         NEW w \in Workers, NEW e \in Enrollments, JobSave(w, e),
         revived' = IF Revives THEN revived + 1 ELSE revived, serial' => serial, NEW c \in Classes
  PROVE  CapacityOK(c)'
<1>1. /\ pc[w] = "job" /\ e \in DOMAIN snap[w] /\ e \in DOMAIN rows
      /\ snap[w][e].class = rows[e].class /\ snap[w][e] \in Row /\ OthersKeep(w)
  BY WorksOwn DEF JobSave, Works, IInv, TypeOK, WorkerOK, HeldRowsOK, SameIdentity
<1>2. pc'[w] \notin {"number", "insert"}
  BY <1>1, ReleaseOwn DEF JobSave
<1>3. revived \in Nat /\ revived' \in Nat /\ revived' >= revived
  BY DEF OInv
<1>4. CASE UNCHANGED rows
  BY <1>1, <1>2, <1>3, <1>4, QuietStep
<1>5. CASE Save(e, Activated(snap[w][e]))
  <2>1. /\ DOMAIN rows' = DOMAIN rows
        /\ rows'[e].class = rows[e].class /\ rows'[e].status = "active"
        /\ \A x \in DOMAIN rows : x # e => rows'[x] = rows[x]
    <3>1. Activated(snap[w][e]).class = snap[w][e].class /\ Activated(snap[w][e]).status = "active"
      BY <1>1 DEF Activated, Row
    <3>. QED BY <1>1, <1>5, <3>1 DEF Save
  <2>2. LiveInClass(rows', c) \subseteq LiveInClass(rows, c) \cup {e}
    BY <2>1 DEF LiveInClass, Live
  <2>3. Allowed(c)' \subseteq Allowed(c)
    BY <1>1, <1>2, AllowedElsewhere
  <2>4. CASE LiveInClass(rows', c) \subseteq LiveInClass(rows, c)
    <3>1. LiveInClass(rows, c)' \subseteq LiveInClass(rows, c)
      BY <2>4
    <3>. QED BY <1>3, <2>3, <3>1, NoFuller
  <2>5. CASE ~ (LiveInClass(rows', c) \subseteq LiveInClass(rows, c))
    <3>. DEFINE L == Cardinality(LiveInClass(rows, c))
                A == Cardinality(Allowed(c))
                W == Cardinality(WebWorkers)
    <3>1. e \in LiveInClass(rows', c) /\ e \notin LiveInClass(rows, c)
      BY <2>2, <2>5
    <3>2. rows[e].class = c /\ rows[e].status \notin ActiveStatuses
      BY <1>1, <2>1, <3>1 DEF LiveInClass, Live
    <3>3. Revives
      BY <1>1, <3>1, <3>2 DEF Revives, ClosedStatuses, LiveInClass, IInv, TypeOK, Row
    <3>4. ~ serial'
      BY <1>1, <3>2 DEF SInv, SerialOK, ActiveStatuses
    <3>5. L \in Nat /\ L' \in Nat /\ L' <= L + 1
      <4>1. IsFiniteSet(LiveInClass(rows, c))
        BY LiveIsFinite
      <4>. QED BY <2>2, <4>1, AtMostOneMore
    <3>6. A \in Nat /\ A' \in Nat /\ A' <= A
      <4>1. IsFiniteSet(Allowed(c))
        BY AllowedIsFinite
      <4>. QED BY <2>3, <4>1, AtMostAsMany
    <3>7. Capacity[c] \in Nat /\ W \in Nat
      BY ClassesAssumption, FS_CardinalityType
    <3>8. L + A <= Capacity[c] + W - 1 + revived
      BY DEF OInv, CapacityOK
    <3>9. CapacityOK(c)' <=> /\ L' + A' <= Capacity[c] + W - 1 + revived'
                             /\ serial' => L' <= Capacity[c]
      BY DEF CapacityOK
    <3>. HIDE DEF L, A, W
    <3>. QED BY <1>3, <3>3, <3>4, <3>5, <3>6, <3>7, <3>8, <3>9
  <2>. QED BY <2>4, <2>5
<1>. QED BY <1>4, <1>5 DEF JobSave

LEMMA NextOInv ==
  ASSUME IInv, WInv, SInv, OInv, IsFiniteSet(WebWorkers), TRUE \notin ForceOptions,
         [MCNext]_<<vars, serial, revived>>
  PROVE  OInv'
<1>0. [Next]_vars
  BY DEF MCNext
<1>1. /\ revived \in Nat /\ revived' \in Nat /\ revived' >= revived
      /\ serial' => serial
  <2>1. CASE MCNext
    <3>1. revived' = (IF Revives THEN revived + 1 ELSE revived)
      BY <2>1 DEF MCNext
    <3>2. revived \in Nat /\ revived' \in Nat /\ revived' >= revived
      BY <3>1 DEF OInv
    <3>3. serial' => serial
      BY <2>1, Zenon DEF MCNext
    <3>. QED BY <3>2, <3>3
  <2>2. CASE UNCHANGED <<vars, serial, revived>>
    BY <2>2 DEF OInv
  <2>. QED BY <2>1, <2>2
<1>. SUFFICES ASSUME NEW c \in Classes PROVE CapacityOK(c)'
  BY <1>1 DEF OInv
<1>2. ASSUME NEW w \in Workers, Begins(w) \/ Crash(w) PROVE CapacityOK(c)'
  <2>1. UNCHANGED rows /\ OthersKeep(w) /\ pc'[w] \notin {"number", "insert"}
    BY <1>2, BeginsOwn, BeginsOutside, ReleaseOwn DEF Crash
  <2>. QED BY <1>1, <2>1, QuietStep
<1>3. ASSUME NEW w \in Workers, CloseOld(w) \/ CheckDuplicate(w) \/ JobEnd(w)
      PROVE  CapacityOK(c)'
  <2>1. UNCHANGED rows /\ OthersKeep(w)
    BY <1>3, WorksOwn DEF CloseOld, CheckDuplicate, JobEnd, Works, WebStep
  <2>2. pc'[w] \notin {"number", "insert"}
    <3>1. CASE pc'[w] = "idle"
      BY <3>1
    <3>2. CASE pc'[w] # "idle" /\ CloseOld(w)
      BY <3>2, GoesOn DEF CloseOld
    <3>3. CASE pc'[w] # "idle" /\ CheckDuplicate(w)
      <4>1. pc[w] = "check" /\ req[w].force = FALSE
        BY <3>3, ForceAssumption DEF CheckDuplicate, WInv, WebOK, EnrolSteps
      <4>. QED BY <3>3, <4>1, GoesOn
    <3>4. CASE JobEnd(w)
      BY <3>4, ReleaseOwn DEF JobEnd
    <3>. QED BY <1>3, <3>1, <3>2, <3>3, <3>4
  <2>. QED BY <1>1, <2>1, <2>2, QuietStep
<1>4. ASSUME NEW w \in Workers, ReadNumber(w)
      PROVE  CapacityOK(c)'
  <2>1. UNCHANGED <<rows, req>> /\ OthersKeep(w) /\ pc[w] = "number"
    BY <1>4, WorksOwn DEF ReadNumber, Works, WebStep
  <2>2. LiveInClass(rows, c)' = LiveInClass(rows, c)
    BY <2>1 DEF LiveInClass, Live
  <2>3. Allowed(c)' \subseteq Allowed(c)
    BY <2>1 DEF Allowed, OthersKeep
  <2>. QED BY <1>1, <2>2, <2>3, NoFuller
<1>5. ASSUME NEW w \in Workers, NEW reason \in BOOLEAN, Anular(w, reason)
      PROVE  CapacityOK(c)'
  <2>1. OthersKeep(w) /\ pc'[w] = "idle"
    BY <1>5, ReleaseOwn DEF Anular
  <2>2. PICK e \in DOMAIN snap[w] :
          \/ UNCHANGED rows
          \/ Save(e, [snap[w][e] EXCEPT !.status = "cancelled", !.reason = TRUE])
    BY <1>5 DEF Anular
  <2>. DEFINE r == [snap[w][e] EXCEPT !.status = "cancelled", !.reason = TRUE]
  <2>3. r.status = "cancelled"
    BY DEF IInv, TypeOK, Row
  <2>4. UNCHANGED rows \/ rows' = [rows EXCEPT ![e] = r]
    BY <2>2 DEF Save
  <2>. HIDE DEF r
  <2>5. LiveInClass(rows, c)' \subseteq LiveInClass(rows, c)
    BY <2>3, <2>4 DEF LiveInClass, Live, ActiveStatuses
  <2>6. Allowed(c)' \subseteq Allowed(c)
    BY <2>1, AllowedElsewhere
  <2>. QED BY <1>1, <2>5, <2>6, NoFuller
<1>6. ASSUME MCNext, NEW w \in Workers, NEW e \in Enrollments, JobSave(w, e)
      PROVE  CapacityOK(c)'
  BY <1>1, <1>6, ActivationFills DEF MCNext
<1>7. ASSUME MCNext, NEW w \in Workers, Works(w)
      PROVE  CapacityOK(c)'
  <2>1. WInv'
    BY <1>0, NextWInv
  <2>. QED BY <1>1, <1>3, <1>4, <1>5, <1>6, <1>7, <2>1, CapacityStep, InsertFills
           DEF Works, WebStep
<1>8. CASE (\E y \in Years : YearStarts(y)) \/ UNCHANGED vars
  <2>1. UNCHANGED <<rows, pc, req>>
    BY <1>8 DEF YearStarts, vars, local
  <2>2. LiveInClass(rows, c)' = LiveInClass(rows, c) /\ Allowed(c)' = Allowed(c)
    BY <2>1 DEF LiveInClass, Live, Allowed
  <2>. QED BY <1>1, <2>2, NoFuller
<1>9. CASE MCNext
  BY <1>2, <1>7, <1>8, <1>9, StepCases DEF MCNext
<1>. QED BY <1>8, <1>9

\* Without confirmation, requests that race past the capacity check overfill a
\* class by at most the number of web workers less one, and by the rows that the
\* daily task brings back; requests served one at a time never overfill it.
THEOREM OverbookingIsBounded ==
  ASSUME TRUE \notin ForceOptions, IsFiniteSet(WebWorkers), WebWorkers # {}
  PROVE  MCSpec => []OverbookingBounded
<1>1. MCInit => OInv
  <2>. SUFFICES ASSUME MCInit, NEW c \in Classes PROVE revived = 0 /\ CapacityOK(c)
    BY DEF OInv, MCInit
  <2>1. LiveInClass(rows, c) = {} /\ Allowed(c) = {}
    BY DEF MCInit, Init, NoRows, LiveInClass, Live, Allowed
  <2>2. Cardinality({}) = 0 /\ Cardinality(WebWorkers) \in Nat \ {0} /\ Capacity[c] \in Nat
    BY FS_EmptySet, FS_CardinalityType, ClassesAssumption
  <2>3. revived = 0
    BY DEF MCInit
  <2>4. CapacityOK(c) <=> /\ 0 + 0 <= Capacity[c] + Cardinality(WebWorkers) - 1 + 0
                          /\ serial => 0 <= Capacity[c]
    BY <2>1, <2>2, <2>3 DEF CapacityOK
  <2>. QED BY <2>2, <2>3, <2>4
<1>2. IInv /\ WInv /\ SInv /\ OInv /\ [MCNext]_<<vars, serial, revived>> => OInv'
  BY NextOInv
<1>3. OInv => OverbookingBounded
  BY DEF OInv, CapacityOK, Allowed, OverbookingBounded
<1>. QED BY <1>1, <1>2, <1>3, MCInvariant, PTL DEF MCSpec
=============================================================================

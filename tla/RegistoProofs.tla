---------------------------- MODULE RegistoProofs ----------------------------
(***************************************************************************)
(* Theorems about Registo and Copias, for any numbers of entities, values, *)
(* workers, backups, requests and faults: what is stored has been          *)
(* recorded, the versions of a row saved under its lock grow, an archive   *)
(* that is whole restores such a database, and a save that runs alone      *)
(* leaves its trace.                                                       *)
(***************************************************************************)
EXTENDS MCRegisto, FiniteSetTheorems, TLAPS

\* What a request holds in memory.
Task == [entity : Entities, row : Row, field : Fields \cup {None}, adding : BOOLEAN,
         before : Row \cup {None}]

\* A request that has not written yet knows the field it changes, unless it
\* creates the row.
TaskOK(w) ==
  pc[w] # "idle" =>
    /\ task[w] \in Task
    /\ pc[w] \in {"before", "write"} /\ ~ task[w].adding => task[w].field \in Fields

\* A request that saves under a lock holds it until it commits, and has in memory
\* the version that is stored, or the next one.
LockOK(w) ==
  pc[w] # "idle" /\ task[w].entity \in Locked =>
    /\ pc[w] \in {"before", "write"} /\ ~ task[w].adding
    /\ lock[task[w].entity] = w
    /\ task[w].row.version =
         rows[task[w].entity].version + (IF pc[w] = "write" THEN 1 ELSE 0)

\* A locked row is never deleted, and no record is ahead of it.
RecordsOK(e) ==
  /\ rows[e] \in Row
  /\ \A n \in DOMAIN outbox[e] : outbox[e][n].row.version <= rows[e].version
  /\ \A m, n \in DOMAIN outbox[e] :
       m < n => outbox[e][m].row.version < outbox[e][n].row.version

\* The row that is stored, or its deletion, is the payload of a record.
Recorded(e) ==
  \E n \in DOMAIN outbox[e] :
    IF rows[e] = None THEN outbox[e][n].operation = "delete" ELSE outbox[e][n].row = rows[e]

\* Who wrote what is stored records it or is about to.
WriterOK(e) ==
  e \in Locked \/ crashes = 0 =>
    \/ Recorded(e)
    \/ \E w \in Workers : pc[w] = "record" /\ task[w].entity = e /\ task[w].row = rows[e]

\* The inductive invariant.
IInv ==
  /\ TypeOK /\ DOMAIN task = Workers
  /\ \A w \in Workers : TaskOK(w) /\ LockOK(w)
  /\ \A e \in Locked : RecordsOK(e)
  /\ \A e \in Synced \ (Partial \cup Bulk) : WriterOK(e)

\* The initial rows and their records.
LEMMA Initial == Init => IInv
<1>. SUFFICES ASSUME Init PROVE IInv
  OBVIOUS
<1>1. FirstRow \in Row
  BY RegistoAssumption DEF FirstRow, First, Row
<1>2. TypeOK
  <2>1. outbox \in [Entities -> Seq([operation : {"create", "update", "delete"}, row : Row])]
    <3>1. Change("create", FirstRow) \in [operation : {"create", "update", "delete"}, row : Row]
      BY <1>1 DEF Change
    <3>. DEFINE Changes == [operation : {"create", "update", "delete"}, row : Row]
    <3>2. <<Change("create", FirstRow)>> \in Seq(Changes) /\ <<>> \in Seq(Changes)
      BY <3>1
    <3>. HIDE DEF Changes
    <3>3. outbox \in [Entities -> Seq(Changes)]
      BY <3>2 DEF Init, RequestsInit
    <3>. QED BY <3>3 DEF Changes
  <2>2. trail \in [Entities -> Seq([before : Row \cup {None}, after : Row \cup {None}])]
    <3>1. Entry(None, FirstRow) \in [before : Row \cup {None}, after : Row \cup {None}]
      BY <1>1 DEF Entry
    <3>. DEFINE Entries == [before : Row \cup {None}, after : Row \cup {None}]
    <3>2. <<Entry(None, FirstRow)>> \in Seq(Entries) /\ <<>> \in Seq(Entries)
      BY <3>1
    <3>. HIDE DEF Entries
    <3>3. trail \in [Entities -> Seq(Entries)]
      BY <3>2 DEF Init, RequestsInit
    <3>. QED BY <3>3 DEF Entries
  <2>3. requests \in 0 .. MaxRequests /\ crashes \in 0 .. MaxCrashes
    BY PedidosAssumption DEF Init, RequestsInit
  <2>4. rows \in [Entities -> Row \cup {None}] /\ lock \in [Entities -> Workers \cup {None}]
        /\ pc \in [Workers -> {"idle", "before", "write", "record", "audit"}]
    BY <1>1 DEF Init, RequestsInit
  <2>. QED BY <2>1, <2>2, <2>3, <2>4 DEF TypeOK
<1>3. \A e \in Locked : RecordsOK(e)
  BY <1>1, RegistoAssumption DEF Init, RequestsInit, RecordsOK, Change, Row
<1>4. \A e \in Synced : Recorded(e)
  BY <1>1, RegistoAssumption, NoneAssumption DEF Init, RequestsInit, Recorded,
                                                                    Change
<1>. QED BY <1>2, <1>3, <1>4 DEF Init, RequestsInit, IInv, TaskOK, LockOK, WriterOK

\* A step of w that leaves alone the rows others have locked leaves the others
\* in order.
LEMMA Others ==
  ASSUME IInv, NEW w \in Workers,
         \A v \in Workers \ {w} : pc'[v] = pc[v] /\ task'[v] = task[v],
         \A e \in Locked : lock[e] \in Workers \ {w} =>
                             lock'[e] = lock[e] /\ rows'[e].version = rows[e].version
  PROVE  \A v \in Workers \ {w} : TaskOK(v)' /\ LockOK(v)'
BY DEF IInv, TaskOK, LockOK

\* A step that ends no save leaves a writer of every row.
LEMMA WritersKept ==
  ASSUME IInv, UNCHANGED <<rows, outbox>>, crashes' = 0 => crashes = 0,
         NEW w \in Workers, pc[w] # "record",
         \A v \in Workers \ {w} : pc'[v] = pc[v] /\ task'[v] = task[v]
  PROVE  \A e \in Synced \ (Partial \cup Bulk) : WriterOK(e)'
BY DEF IInv, WriterOK, Recorded

LEMMA RecordsKept ==
  ASSUME IInv, \A e \in Locked : rows'[e] = rows[e] /\ outbox'[e] = outbox[e]
  PROVE  \A e \in Locked : RecordsOK(e)'
BY DEF IInv, RecordsOK

LEMMA LoadKeeps ==
  ASSUME IInv, NEW w \in Workers, LoadRequest(w)
  PROVE  IInv'
<1>. PICK e \in Entities, field \in Fields, value \in Values :
       /\ rows[e] # None /\ lock[e] = None /\ Counted /\ Step(w, "idle", "before")
       /\ Keep(w, [entity |-> e, row |-> [rows[e] EXCEPT ![field] = value],
                   field |-> field, adding |-> FALSE, before |-> None])
       /\ lock' = IF e \in Locked THEN Replace(lock, e, w) ELSE lock
       /\ UNCHANGED <<rows, outbox, trail, crashes>>
  BY DEF LoadRequest, Begin
<1>1. rows[e] \in Row /\ pc[w] = "idle"
  BY DEF IInv, TypeOK, Step
<1>2. [rows[e] EXCEPT ![field] = value] \in Row
      /\ [rows[e] EXCEPT ![field] = value].version = rows[e].version
  BY <1>1 DEF Row, Fields
<1>3. pc' = [pc EXCEPT ![w] = "before"] /\ DOMAIN task' = Workers
      /\ task'[w] = [entity |-> e, row |-> [rows[e] EXCEPT ![field] = value],
                     field |-> field, adding |-> FALSE, before |-> None]
      /\ \A v \in Workers \ {w} : task'[v] = task[v]
  BY DEF IInv, Step, Keep
<1>4. TypeOK'
  <2>1. requests' \in 0 .. MaxRequests
    BY PedidosAssumption DEF IInv, TypeOK, Counted
  <2>2. pc' \in [Workers -> {"idle", "before", "write", "record", "audit"}]
    BY <1>3 DEF IInv, TypeOK
  <2>3. lock' \in [Entities -> Workers \cup {None}]
    BY DEF IInv, TypeOK, Replace
  <2>. QED BY <2>1, <2>2, <2>3 DEF IInv, TypeOK
<1>5. task'[w] \in Task /\ TaskOK(w)'
  BY <1>2, <1>3 DEF TaskOK, Task, Fields, IInv, TypeOK
<1>6. LockOK(w)'
  BY <1>1, <1>2, <1>3 DEF LockOK, Replace, IInv, TypeOK, Row
<1>7. \A v \in Workers \ {w} : TaskOK(v)' /\ LockOK(v)'
  <2>1. \A f \in Locked : lock[f] \in Workers \ {w} =>
          lock'[f] = lock[f] /\ rows'[f].version = rows[f].version
    BY RegistoAssumption DEF Replace, IInv, TypeOK
  <2>. QED BY <1>3, <2>1, Others DEF IInv, TypeOK
<1>8. \A f \in Synced \ (Partial \cup Bulk) : WriterOK(f)'
  <2>1. \A v \in Workers \ {w} : pc'[v] = pc[v] /\ task'[v] = task[v]
    BY <1>3 DEF IInv, TypeOK
  <2>. QED BY <1>1, <2>1, WritersKept
<1>. QED BY <1>3, <1>4, <1>5, <1>6, <1>7, <1>8, RecordsKept DEF IInv

LEMMA CreateKeeps ==
  ASSUME IInv, NEW w \in Workers, CreateRequest(w)
  PROVE  IInv'
<1>. PICK e \in Entities \ Locked, value \in Values :
       /\ rows[e] = None /\ Counted /\ Step(w, "idle", "before")
       /\ Keep(w, [entity |-> e, row |-> [value |-> value, note |-> value, version |-> 1],
                   field |-> None, adding |-> TRUE, before |-> None])
       /\ UNCHANGED <<rows, outbox, trail, lock, crashes>>
  BY DEF CreateRequest, Begin
<1>1. pc' = [pc EXCEPT ![w] = "before"] /\ DOMAIN task' = Workers /\ pc[w] = "idle"
      /\ task'[w] = [entity |-> e, row |-> [value |-> value, note |-> value, version |-> 1],
                     field |-> None, adding |-> TRUE, before |-> None]
      /\ \A v \in Workers \ {w} : task'[v] = task[v]
  BY DEF IInv, Step, Keep
<1>2. TypeOK'
  <2>1. requests' \in 0 .. MaxRequests
    BY PedidosAssumption DEF IInv, TypeOK, Counted
  <2>2. pc' \in [Workers -> {"idle", "before", "write", "record", "audit"}]
    BY <1>1 DEF IInv, TypeOK
  <2>. QED BY <2>1, <2>2 DEF IInv, TypeOK
<1>3. TaskOK(w)' /\ LockOK(w)'
  BY <1>1 DEF TaskOK, LockOK, Task, Row, IInv, TypeOK
<1>4. \A v \in Workers \ {w} : TaskOK(v)' /\ LockOK(v)'
  BY <1>1, Others DEF IInv, TypeOK
<1>5. \A f \in Synced \ (Partial \cup Bulk) : WriterOK(f)'
  <2>1. \A v \in Workers \ {w} : pc'[v] = pc[v] /\ task'[v] = task[v]
    BY <1>1 DEF IInv, TypeOK
  <2>. QED BY <1>1, <2>1, WritersKept
<1>. QED BY <1>1, <1>2, <1>3, <1>4, <1>5, RecordsKept DEF IInv

LEMMA PreSaveKeeps ==
  ASSUME IInv, NEW w \in Workers, PreSave(w)
  PROVE  IInv'
<1>1. pc' = [pc EXCEPT ![w] = "write"] /\ DOMAIN task' = Workers /\ pc[w] = "before"
      /\ \A v \in Workers \ {w} : task'[v] = task[v]
  BY DEF IInv, Step, Keep, PreSave
<1>2. task[w] \in Task
  BY <1>1 DEF IInv, TaskOK
<1>3. /\ BumpVersion(task[w]) \in Row
      /\ task[w].entity \in Locked =>
           BumpVersion(task[w]).version = task[w].row.version + 1
  BY <1>1, <1>2, RegistoAssumption DEF BumpVersion, Task, Row, IInv, LockOK
<1>. DEFINE before == IF task[w].entity \in Audited THEN rows[task[w].entity] ELSE None
            row == BumpVersion(task[w])
<1>4. task'[w] \in Task
      /\ task'[w].entity = task[w].entity /\ task'[w].adding = task[w].adding
      /\ task'[w].field = task[w].field /\ task'[w].row = BumpVersion(task[w])
  <2>1. before \in Row \cup {None}
    BY <1>2 DEF IInv, TypeOK, Task
  <2>2. task'[w] = [task[w] EXCEPT !.row = row, !.before = before]
    BY DEF PreSave, Keep, IInv
  <2>3. row \in Row
    BY <1>3
  <2>. HIDE DEF row, before
  <2>4. task'[w] \in Task /\ task'[w].row = row
        /\ task'[w].entity = task[w].entity /\ task'[w].adding = task[w].adding
        /\ task'[w].field = task[w].field
    BY <1>2, <2>1, <2>2, <2>3 DEF Task
  <2>. QED BY <2>4 DEF row
<1>5. TypeOK'
  BY <1>1 DEF IInv, TypeOK, PreSave, Same
<1>6. TaskOK(w)'
  BY <1>1, <1>4 DEF IInv, TaskOK
<1>7. LockOK(w)'
  <2>1. rows' = rows /\ lock' = lock
    BY DEF PreSave
  <2>2. SUFFICES ASSUME task[w].entity \in Locked PROVE LockOK(w)'
    BY <1>4 DEF LockOK
  <2>3. rows[task[w].entity].version \in Nat
    BY <2>2 DEF IInv, RecordsOK, Row
  <2>4. ~ task[w].adding /\ lock[task[w].entity] = w
        /\ task[w].row.version = rows[task[w].entity].version
    BY <1>1, <2>2, <2>3 DEF IInv, LockOK
  <2>5. pc'[w] = "write"
    BY <1>1 DEF IInv, TypeOK
  <2>6. task'[w].row.version = rows'[task'[w].entity].version + 1
    BY <1>3, <1>4, <2>1, <2>2, <2>4
  <2>7. ~ task'[w].adding /\ lock'[task'[w].entity] = w
    BY <1>4, <2>1, <2>4
  <2>. QED BY <2>5, <2>6, <2>7 DEF LockOK
<1>8. \A v \in Workers \ {w} : TaskOK(v)' /\ LockOK(v)'
  BY <1>1, Others DEF PreSave, IInv, TypeOK
<1>9. \A f \in Synced \ (Partial \cup Bulk) : WriterOK(f)'
  <2>1. \A v \in Workers \ {w} : pc'[v] = pc[v] /\ task'[v] = task[v]
    BY <1>1 DEF IInv, TypeOK
  <2>. QED BY <1>1, <2>1, WritersKept DEF PreSave, Same
<1>. QED BY <1>1, <1>5, <1>6, <1>7, <1>8, <1>9, RecordsKept DEF IInv, PreSave

\* Written(t) is a row when the write is not refused.
LEMMA WrittenIsRow ==
  ASSUME IInv, NEW w \in Workers, pc[w] = "write", task[w].entity \notin Locked,
         ~ Refused(task[w])
  PROVE  /\ Written(task[w]) \in Row
         /\ task[w].entity \notin Partial => Written(task[w]) = task[w].row
<1>1. task[w] \in Task /\ (~ task[w].adding => task[w].field \in Fields)
  BY DEF IInv, TaskOK
<1>2. CASE task[w].entity \in Partial /\ ~ task[w].adding
  <2>1. rows[task[w].entity] \in Row
    BY <1>1, <1>2 DEF Refused, IInv, TypeOK, Task
  <2>. QED BY <1>1, <1>2, <2>1 DEF Written, Task, Row, Fields
<1>3. CASE ~ (task[w].entity \in Partial /\ ~ task[w].adding)
  BY <1>1, <1>3 DEF Written, Task
<1>. QED BY <1>2, <1>3

LEMMA WriteKeeps ==
  ASSUME IInv, NEW w \in Workers, Write(w)
  PROVE  IInv'
<1>. DEFINE e == task[w].entity
<1>1. pc[w] = "write" /\ e \notin Locked /\ e \in Entities /\ task[w] \in Task
  BY DEF Write, IInv, TaskOK, Task
<1>2. DOMAIN task' = Workers /\ (\A v \in Workers \ {w} : task'[v] = task[v] /\ pc'[v] = pc[v])
      /\ UNCHANGED <<requests, crashes, outbox, trail, lock>>
  BY DEF Write, IInv, TypeOK, End, Keep, Step, Same
<1>3. CASE Refused(task[w])
  <2>1. pc' = [pc EXCEPT ![w] = "idle"] /\ rows' = rows
    BY <1>3 DEF Write, End, Keep, Step
  <2>2. TypeOK'
    BY <1>2, <2>1 DEF IInv, TypeOK
  <2>3. TaskOK(w)' /\ LockOK(w)'
    BY <2>1 DEF TaskOK, LockOK, IInv, TypeOK
  <2>4. \A v \in Workers \ {w} : TaskOK(v)' /\ LockOK(v)'
    BY <1>2, <2>1, Others
  <2>5. \A f \in Synced \ (Partial \cup Bulk) : WriterOK(f)'
    BY <1>1, <1>2, <2>1, WritersKept
  <2>. QED BY <1>2, <2>1, <2>2, <2>3, <2>4, <2>5, RecordsKept DEF IInv
<1>4. CASE ~ Refused(task[w])
  <2>1. pc' = [pc EXCEPT ![w] = "record"] /\ rows' = Replace(rows, e, Written(task[w]))
        /\ task'[w] = [task[w] EXCEPT !.adding = rows[e] = None]
    BY <1>4 DEF Write, Step, Keep, IInv
  <2>2. Written(task[w]) \in Row
    BY <1>1, <1>4, WrittenIsRow
  <2>3. TypeOK'
    <3>1. rows' \in [Entities -> Row \cup {None}]
      BY <1>1, <2>1, <2>2 DEF IInv, TypeOK, Replace
    <3>. QED BY <1>2, <2>1, <3>1 DEF IInv, TypeOK
  <2>4. task'[w] \in Task /\ task'[w].entity = e /\ task'[w].row = task[w].row
        /\ pc'[w] = "record"
    BY <1>1, <2>1 DEF Task, IInv, TypeOK
  <2>5. TaskOK(w)' /\ LockOK(w)'
    BY <1>1, <2>4 DEF TaskOK, LockOK
  <2>6. \A f \in Entities \ {e} : rows'[f] = rows[f]
    BY <2>1 DEF Replace, IInv, TypeOK
  <2>7. \A v \in Workers \ {w} : TaskOK(v)' /\ LockOK(v)'
    BY <1>1, <1>2, <2>6, Others, RegistoAssumption
  <2>8. ASSUME NEW f \in Synced \ (Partial \cup Bulk) PROVE WriterOK(f)'
    <3>1. CASE f = e
      <4>1. rows'[f] = task'[w].row
        BY <1>1, <1>4, <2>1, <2>4, <3>1, WrittenIsRow DEF Replace, IInv, TypeOK
      <4>. QED BY <2>4, <3>1, <4>1 DEF WriterOK
    <3>2. CASE f # e
      <4>1. rows'[f] = rows[f] /\ WriterOK(f)
        BY <2>6, <3>2, RegistoAssumption DEF IInv
      <4>. QED BY <1>1, <1>2, <4>1 DEF WriterOK, Recorded
    <3>. QED BY <3>1, <3>2
  <2>9. \A f \in Locked : RecordsOK(f)'
    BY <1>1, <1>2, <2>6, RecordsKept, RegistoAssumption
  <2>. QED BY <1>2, <2>3, <2>5, <2>7, <2>8, <2>9 DEF IInv
<1>. QED BY <1>3, <1>4

LEMMA RecordKeeps ==
  ASSUME IInv, NEW w \in Workers, RecordChange(w)
  PROVE  IInv'
<1>. DEFINE e == task[w].entity
            c == Change(IF task[w].adding THEN "create" ELSE "update", task[w].row)
<1>1. pc[w] = "record" /\ task[w] \in Task /\ e \in Entities \ Locked
      /\ pc' = [pc EXCEPT ![w] = "audit"]
      /\ UNCHANGED <<requests, crashes, rows, trail, lock, task>>
  BY DEF RecordChange, Step, Same, IInv, TaskOK, LockOK, Task
<1>2. outbox' = IF e \in Synced THEN Log(outbox, e, c) ELSE outbox
  BY DEF RecordChange
<1>3. c \in [operation : {"create", "update", "delete"}, row : Row] /\ c.row = task[w].row
      /\ c.operation # "delete"
  BY <1>1 DEF Change, Task
<1>4. TypeOK'
  <2>. DEFINE Changes == [operation : {"create", "update", "delete"}, row : Row]
  <2>1. outbox \in [Entities -> Seq(Changes)]
    BY DEF IInv, TypeOK
  <2>2. c \in Changes
    BY <1>3
  <2>. HIDE DEF c, Changes
  <2>3. Append(outbox[e], c) \in Seq(Changes)
    BY <1>1, <2>1, <2>2
  <2>4. outbox' \in [Entities -> Seq(Changes)]
    BY <1>1, <1>2, <2>1, <2>3 DEF Log
  <2>. QED BY <1>1, <2>4 DEF Changes, IInv, TypeOK
<1>5. TaskOK(w)' /\ LockOK(w)'
  BY <1>1 DEF TaskOK, LockOK, IInv, TypeOK
<1>6. \A v \in Workers \ {w} : TaskOK(v)' /\ LockOK(v)'
  <2>1. \A v \in Workers \ {w} : pc'[v] = pc[v] /\ task'[v] = task[v]
    BY <1>1 DEF IInv, TypeOK
  <2>. QED BY <1>1, <2>1, Others
<1>7. \A f \in Entities \ {e} : outbox'[f] = outbox[f]
  BY <1>2 DEF Log, IInv, TypeOK
<1>8. \A f \in Locked : RecordsOK(f)'
  BY <1>1, <1>7, RecordsKept, RegistoAssumption
<1>9. ASSUME NEW f \in Synced \ (Partial \cup Bulk) PROVE WriterOK(f)'
  <2>1. WriterOK(f) /\ f \in Entities
    BY RegistoAssumption DEF IInv
  <2>4. ASSUME NEW v \in Workers \ {w}, pc[v] = "record", task[v].entity = f, task[v].row = rows[f]
        PROVE  WriterOK(f)'
    <3>1. pc'[v] = pc[v]
      BY <1>1 DEF IInv, TypeOK
    <3>. QED BY <1>1, <2>4, <3>1 DEF WriterOK
  <2>2. CASE f = e
    <3>1. DOMAIN outbox'[f] = 1 .. Len(outbox[f]) + 1 /\ Len(outbox[f]) \in Nat
          /\ outbox'[f][Len(outbox[f]) + 1] = c
          /\ \A n \in DOMAIN outbox[f] : n \in DOMAIN outbox'[f] /\ outbox'[f][n] = outbox[f][n]
      <4>. HIDE DEF c
      <4>. QED BY <1>1, <1>2, <2>1, <2>2 DEF Log, IInv, TypeOK
    <3>2. CASE task[w].row = rows[f]
      <4>1. rows[f] # None
        BY <1>1, <3>2, NoneAssumption DEF Task
      <4>2. Recorded(f)'
        BY <1>1, <1>3, <3>1, <3>2, <4>1 DEF Recorded
      <4>. QED BY <4>2 DEF WriterOK
    <3>3. CASE task[w].row # rows[f]
      <4>1. Recorded(f) => Recorded(f)'
        BY <1>1, <3>1 DEF Recorded
      <4>. QED BY <1>1, <2>1, <2>4, <3>3, <4>1 DEF WriterOK
    <3>. QED BY <3>2, <3>3
  <2>3. CASE f # e
    <3>1. Recorded(f) => Recorded(f)'
      BY <1>1, <1>7, <2>1, <2>3 DEF Recorded
    <3>. QED BY <1>1, <2>1, <2>3, <2>4, <3>1 DEF WriterOK
  <2>. QED BY <2>2, <2>3
<1>. QED BY <1>1, <1>4, <1>5, <1>6, <1>8, <1>9 DEF IInv

LEMMA AuditKeeps ==
  ASSUME IInv, NEW w \in Workers, Audit(w)
  PROVE  IInv'
<1>. DEFINE e == task[w].entity
            entry == Entry(task[w].before, task[w].row)
<1>1. pc[w] = "audit" /\ task[w] \in Task /\ pc' = [pc EXCEPT ![w] = "idle"]
      /\ DOMAIN task' = Workers /\ (\A v \in Workers \ {w} : task'[v] = task[v])
      /\ UNCHANGED <<requests, crashes, rows, outbox, lock>>
  BY DEF Audit, End, Keep, Step, Same, IInv, TaskOK
<1>2. TypeOK'
  <2>. DEFINE Entries == [before : Row \cup {None}, after : Row \cup {None}]
  <2>1. trail \in [Entities -> Seq(Entries)] /\ entry \in Entries /\ e \in Entities
    BY <1>1 DEF IInv, TypeOK, Entry, Task
  <2>2. trail' = Log(trail, e, entry) \/ trail' = trail
    BY DEF Audit
  <2>. HIDE DEF entry, Entries
  <2>3. Append(trail[e], entry) \in Seq(Entries)
    BY <2>1
  <2>4. trail' \in [Entities -> Seq(Entries)]
    BY <2>1, <2>2, <2>3 DEF Log
  <2>. QED BY <1>1, <2>4 DEF Entries, IInv, TypeOK
<1>3. TaskOK(w)' /\ LockOK(w)' /\ \A v \in Workers \ {w} : pc'[v] = pc[v]
  BY <1>1 DEF TaskOK, LockOK, IInv, TypeOK
<1>4. \A v \in Workers \ {w} : TaskOK(v)' /\ LockOK(v)'
  BY <1>1, <1>3, Others
<1>5. \A f \in Synced \ (Partial \cup Bulk) : WriterOK(f)'
  BY <1>1, <1>3, WritersKept
<1>. QED BY <1>1, <1>2, <1>3, <1>4, <1>5, RecordsKept DEF IInv

LEMMA RecordTyped ==
  ASSUME TypeOK, NEW e \in Entities, NEW n \in DOMAIN outbox[e]
  PROVE  outbox[e][n].row \in Row /\ outbox[e][n].row.version \in Nat
<1>. DEFINE Changes == [operation : {"create", "update", "delete"}, row : Row]
<1>1. outbox[e] \in Seq(Changes)
  BY DEF TypeOK
<1>. HIDE DEF Changes
<1>2. outbox[e][n] \in Changes
  BY <1>1
<1>. QED BY <1>2 DEF Changes, Row

\* A commit stores the next version and its record at once.
LEMMA CommitKeeps ==
  ASSUME IInv, NEW w \in Workers, Commit(w)
  PROVE  IInv'
<1>. DEFINE e == task[w].entity
            c == Change("update", task[w].row)
<1>1. pc[w] = "write" /\ task[w] \in Task /\ e \in Locked /\ e \in Entities
      /\ pc' = [pc EXCEPT ![w] = "idle"]
      /\ DOMAIN task' = Workers /\ (\A v \in Workers \ {w} : task'[v] = task[v])
      /\ UNCHANGED <<requests, crashes, trail>>
  BY DEF Commit, End, Keep, Step, Same, IInv, TaskOK, Task
<1>2. /\ rows' = Replace(rows, e, task[w].row) /\ outbox' = Log(outbox, e, c)
      /\ lock' = Replace(lock, e, None)
  BY DEF Commit
<1>3. lock[e] = w /\ rows[e] \in Row /\ task[w].row \in Row
      /\ task[w].row.version = rows[e].version + 1
  BY <1>1 DEF IInv, LockOK, RecordsOK, Task
<1>4. c.row = task[w].row
      /\ c \in [operation : {"create", "update", "delete"}, row : Row]
  BY <1>3 DEF Change
<1>5. TypeOK'
  <2>. DEFINE Changes == [operation : {"create", "update", "delete"}, row : Row]
  <2>1. outbox \in [Entities -> Seq(Changes)] /\ c \in Changes
    BY <1>4 DEF IInv, TypeOK
  <2>2. rows' \in [Entities -> Row \cup {None}] /\ lock' \in [Entities -> Workers \cup {None}]
    BY <1>1, <1>2, <1>3 DEF IInv, TypeOK, Replace
  <2>. HIDE DEF c, Changes
  <2>3. Append(outbox[e], c) \in Seq(Changes)
    BY <1>1, <2>1
  <2>4. outbox' \in [Entities -> Seq(Changes)]
    BY <1>1, <1>2, <2>1, <2>3 DEF Log
  <2>. QED BY <1>1, <2>2, <2>4 DEF Changes, IInv, TypeOK
<1>6. TaskOK(w)' /\ LockOK(w)' /\ \A v \in Workers \ {w} : pc'[v] = pc[v]
  BY <1>1 DEF TaskOK, LockOK, IInv, TypeOK
<1>7. \A f \in Entities \ {e} : rows'[f] = rows[f] /\ outbox'[f] = outbox[f] /\ lock'[f] = lock[f]
  BY <1>1, <1>2 DEF IInv, TypeOK, Replace, Log
<1>8. \A v \in Workers \ {w} : TaskOK(v)' /\ LockOK(v)'
  <2>1. \A f \in Locked : lock[f] \in Workers \ {w} =>
          lock'[f] = lock[f] /\ rows'[f].version = rows[f].version
    BY <1>3, <1>7, RegistoAssumption
  <2>. QED BY <1>1, <1>6, <2>1, Others
<1>9. /\ rows'[e] = task[w].row
      /\ Len(outbox[e]) \in Nat /\ DOMAIN outbox'[e] = 1 .. Len(outbox[e]) + 1
      /\ outbox'[e][Len(outbox[e]) + 1] = c
      /\ \A n \in 1 .. Len(outbox[e]) : n \in DOMAIN outbox[e] /\ outbox'[e][n] = outbox[e][n]
  <2>. HIDE DEF c
  <2>. QED BY <1>1, <1>2 DEF IInv, TypeOK, Replace, Log
<1>10. \A f \in Locked : RecordsOK(f)'
  <2>1. SUFFICES ASSUME NEW f \in Locked PROVE RecordsOK(f)'
    OBVIOUS
  <2>2. RecordsOK(f) /\ f \in Entities
    BY RegistoAssumption DEF IInv
  <2>3. CASE f # e
    BY <1>7, <2>2, <2>3 DEF RecordsOK
  <2>4. CASE f = e
    <3>. DEFINE last == Len(outbox[e]) + 1
    <3>1. \A n \in 1 .. Len(outbox[e]) : outbox'[e][n].row.version < outbox'[e][last].row.version
      <4>1. SUFFICES ASSUME NEW n \in 1 .. Len(outbox[e])
                     PROVE  outbox'[e][n].row.version < outbox'[e][last].row.version
        OBVIOUS
      <4>2. n \in DOMAIN outbox[e] /\ outbox'[e][n] = outbox[e][n]
        BY <1>9
      <4>3. outbox[e][n].row \in Row
        BY <1>1, <4>2, RecordTyped DEF IInv
      <4>4. outbox[e][n].row.version <= rows[e].version
        BY <2>2, <2>4, <4>2 DEF RecordsOK
      <4>5. outbox[e][n].row.version \in Nat /\ rows[e].version \in Nat
        BY <1>3, <4>3 DEF Row
      <4>6. outbox'[e][last].row.version = rows[e].version + 1
        BY <1>3, <1>4, <1>9
      <4>. HIDE DEF last
      <4>. QED BY <4>2, <4>4, <4>5, <4>6
    <3>2. rows'[e].version = outbox'[e][last].row.version /\ rows'[e] \in Row
          /\ rows'[e].version \in Nat
      BY <1>3, <1>4, <1>9 DEF Row
    <3>3. \A n \in 1 .. Len(outbox[e]) :
             outbox'[e][n].row.version \in Nat
      BY <1>1, <1>9, RecordTyped DEF IInv
    <3>4. \A m, n \in 1 .. Len(outbox[e]) :
            m < n => outbox'[e][m].row.version < outbox'[e][n].row.version
      BY <1>9, <2>2, <2>4 DEF RecordsOK
    <3>5. DOMAIN outbox'[e] = 1 .. last /\ last = Len(outbox[e]) + 1 /\ Len(outbox[e]) \in Nat
      BY <1>9
    <3>. HIDE DEF last
    <3>6. \A n \in DOMAIN outbox'[e] : outbox'[e][n].row.version <= rows'[e].version
      <4>1. SUFFICES ASSUME NEW n \in 1 .. last
                     PROVE  outbox'[e][n].row.version <= rows'[e].version
        BY <3>5
      <4>2. n \in 1 .. Len(outbox[e]) \/ n = last
        BY <3>5
      <4>. QED BY <3>1, <3>2, <3>3, <4>2
    <3>7. ASSUME NEW m \in DOMAIN outbox'[e], NEW n \in DOMAIN outbox'[e], m < n
          PROVE  outbox'[e][m].row.version < outbox'[e][n].row.version
      <4>1. m \in 1 .. Len(outbox[e]) /\ (n \in 1 .. Len(outbox[e]) \/ n = last)
        BY <3>5, <3>7
      <4>. QED BY <3>1, <3>4, <3>7, <4>1
    <3>. QED BY <2>4, <3>2, <3>6, <3>7 DEF RecordsOK
  <2>. QED BY <2>3, <2>4
<1>11. ASSUME NEW f \in Synced \ (Partial \cup Bulk) PROVE WriterOK(f)'
  <2>1. WriterOK(f) /\ f \in Entities
    BY RegistoAssumption DEF IInv
  <2>2. CASE f = e
    <3>1. rows'[f] # None
      BY <1>3, <1>9, <2>2, NoneAssumption
    <3>2. Recorded(f)'
      BY <1>4, <1>9, <2>2, <3>1 DEF Recorded
    <3>. QED BY <3>2 DEF WriterOK
  <2>3. CASE f # e
    BY <1>1, <1>6, <1>7, <2>1, <2>3 DEF WriterOK, Recorded
  <2>. QED BY <2>2, <2>3
<1>. QED BY <1>1, <1>5, <1>6, <1>8, <1>10, <1>11 DEF IInv

\* QuerySet.update and the Django Admin, whose rows nobody locks.
LEMMA BulkKeeps ==
  ASSUME IInv, NEW w \in Workers, BulkUpdate(w)
  PROVE  IInv'
<1>. PICK e \in Bulk, value \in Values :
       /\ rows[e] # None /\ Counted
       /\ rows' = [rows EXCEPT ![e].value = value]
       /\ UNCHANGED <<outbox, trail, lock, pc, task, crashes>>
  BY DEF BulkUpdate, AtOnce
<1>1. e \in Entities \ Locked /\ rows[e] \in Row
  BY RegistoAssumption DEF IInv, TypeOK
<1>2. \A f \in Entities \ {e} : rows'[f] = rows[f]
  BY DEF IInv, TypeOK
<1>3. TypeOK'
  <2>1. requests' \in 0 .. MaxRequests
    BY PedidosAssumption DEF IInv, TypeOK, Counted
  <2>2. [rows[e] EXCEPT !.value = value] \in Row
    BY <1>1 DEF Row
  <2>3. rows' \in [Entities -> Row \cup {None}]
    BY <1>1, <2>2 DEF IInv, TypeOK
  <2>. QED BY <2>1, <2>3 DEF IInv, TypeOK
<1>4. \A v \in Workers : TaskOK(v)' /\ LockOK(v)'
  <2>1. \A f \in Locked : rows'[f] = rows[f]
    BY <1>1, <1>2, RegistoAssumption
  <2>. QED BY <2>1 DEF IInv, TaskOK, LockOK
<1>5. \A f \in Locked : RecordsOK(f)'
  BY <1>1, <1>2, RecordsKept, RegistoAssumption
<1>6. \A f \in Synced \ (Partial \cup Bulk) : WriterOK(f)'
  <2>1. \A f \in Synced \ (Partial \cup Bulk) : rows'[f] = rows[f]
    BY <1>2, RegistoAssumption
  <2>. QED BY <2>1 DEF IInv, WriterOK, Recorded
<1>. QED BY <1>3, <1>4, <1>5, <1>6 DEF IInv

LEMMA DeleteKeeps ==
  ASSUME IInv, NEW w \in Workers, Delete(w)
  PROVE  IInv'
<1>. PICK e \in Entities \ Locked :
       /\ rows[e] # None /\ Counted
       /\ rows' = Replace(rows, e, None)
       /\ outbox' = IF e \in Synced THEN Log(outbox, e, Change("delete", rows[e])) ELSE outbox
       /\ trail' = IF e \in Audited THEN Log(trail, e, Entry(rows[e], None)) ELSE trail
       /\ UNCHANGED <<lock, pc, task, crashes>>
  BY DEF Delete, AtOnce
<1>. DEFINE c == Change("delete", rows[e])
            entry == Entry(rows[e], None)
<1>1. rows[e] \in Row
  BY DEF IInv, TypeOK
<1>2. \A f \in Entities \ {e} : rows'[f] = rows[f] /\ outbox'[f] = outbox[f]
  BY DEF IInv, TypeOK, Replace, Log
<1>3. TypeOK'
  <2>. DEFINE Changes == [operation : {"create", "update", "delete"}, row : Row]
              Entries == [before : Row \cup {None}, after : Row \cup {None}]
  <2>1. /\ outbox \in [Entities -> Seq(Changes)] /\ trail \in [Entities -> Seq(Entries)]
        /\ c \in Changes /\ entry \in Entries
    BY <1>1 DEF IInv, TypeOK, Change, Entry
  <2>2. requests' \in 0 .. MaxRequests /\ rows' \in [Entities -> Row \cup {None}]
    BY PedidosAssumption DEF IInv, TypeOK, Counted, Replace
  <2>3. (outbox' = Log(outbox, e, c) \/ outbox' = outbox)
        /\ (trail' = Log(trail, e, entry) \/ trail' = trail)
    OBVIOUS
  <2>. HIDE DEF c, entry, Changes, Entries
  <2>4. Append(outbox[e], c) \in Seq(Changes) /\ Append(trail[e], entry) \in Seq(Entries)
    BY <2>1
  <2>5. outbox' \in [Entities -> Seq(Changes)]
    BY <2>1, <2>3, <2>4 DEF Log
  <2>6. trail' \in [Entities -> Seq(Entries)]
    BY <2>1, <2>3, <2>4 DEF Log
  <2>. QED BY <2>2, <2>5, <2>6 DEF Changes, Entries, IInv, TypeOK
<1>4. \A v \in Workers : TaskOK(v)' /\ LockOK(v)'
  <2>1. \A f \in Locked : rows'[f] = rows[f]
    BY <1>2, RegistoAssumption
  <2>. QED BY <2>1 DEF IInv, TaskOK, LockOK
<1>5. \A f \in Locked : RecordsOK(f)'
  BY <1>2, RecordsKept, RegistoAssumption
<1>6. ASSUME NEW f \in Synced \ (Partial \cup Bulk) PROVE WriterOK(f)'
  <2>1. WriterOK(f) /\ f \in Entities
    BY RegistoAssumption DEF IInv
  <2>2. CASE f = e
    <3>1. /\ Len(outbox[e]) + 1 \in DOMAIN outbox'[e]
          /\ outbox'[e][Len(outbox[e]) + 1] = c
      <4>1. outbox' = Log(outbox, e, c)
        BY <2>2
      <4>. HIDE DEF c
      <4>. QED BY <4>1 DEF Log, IInv, TypeOK
    <3>2. rows'[e] = None /\ c.operation = "delete"
      BY DEF Replace, IInv, TypeOK, Change
    <3>3. Recorded(f)'
      BY <2>2, <3>1, <3>2 DEF Recorded
    <3>. QED BY <3>3 DEF WriterOK
  <2>3. CASE f # e
    BY <1>2, <2>1, <2>3 DEF WriterOK, Recorded
  <2>. QED BY <2>2, <2>3
<1>. QED BY <1>3, <1>4, <1>5, <1>6 DEF IInv

LEMMA CrashKeeps ==
  ASSUME IInv, NEW w \in Workers, Crash(w)
  PROVE  IInv'
<1>1. pc' = [pc EXCEPT ![w] = "idle"] /\ DOMAIN task' = Workers
      /\ (\A v \in Workers \ {w} : task'[v] = task[v])
      /\ lock' = [e \in Entities |-> IF lock[e] = w THEN None ELSE lock[e]]
      /\ UNCHANGED <<rows, outbox, trail, requests>>
  BY DEF Crash, Dies, End, Step, Keep, IInv
<1>2. crashes \in Nat /\ crashes' = crashes + 1 /\ crashes' \in 0 .. MaxCrashes
  BY PedidosAssumption DEF Crash, Dies, End, Step, Keep, IInv, TypeOK
<1>3. TypeOK'
  <2>1. pc' \in [Workers -> {"idle", "before", "write", "record", "audit"}]
        /\ lock' \in [Entities -> Workers \cup {None}]
    BY <1>1 DEF IInv, TypeOK
  <2>. QED BY <1>1, <1>2, <2>1 DEF IInv, TypeOK
<1>4. TaskOK(w)' /\ LockOK(w)' /\ \A v \in Workers \ {w} : pc'[v] = pc[v]
  BY <1>1 DEF TaskOK, LockOK, IInv, TypeOK
<1>5. \A v \in Workers \ {w} : TaskOK(v)' /\ LockOK(v)'
  <2>1. \A f \in Locked : lock[f] \in Workers \ {w} => lock'[f] = lock[f]
    BY <1>1, RegistoAssumption
  <2>. QED BY <1>1, <1>4, <2>1, Others
<1>6. \A f \in Synced \ (Partial \cup Bulk) : WriterOK(f)'
  <2>1. SUFFICES ASSUME NEW f \in Locked \ (Partial \cup Bulk) PROVE WriterOK(f)'
    BY <1>2 DEF WriterOK
  <2>2. Recorded(f)
    BY <2>1, RegistoAssumption DEF IInv, WriterOK, LockOK
  <2>. QED BY <1>1, <2>2 DEF WriterOK, Recorded
<1>. QED BY <1>1, <1>3, <1>4, <1>5, <1>6, RecordsKept DEF IInv

LEMMA Inductive == IInv /\ [Next]_vars => IInv'
<1>. SUFFICES ASSUME IInv, [Next]_vars PROVE IInv'
  OBVIOUS
<1>1. ASSUME NEW w \in Workers, Save(w) PROVE IInv'
  BY <1>1, LoadKeeps, CreateKeeps, PreSaveKeeps, WriteKeeps, RecordKeeps, AuditKeeps, CommitKeeps
     DEF Save
<1>2. CASE UNCHANGED vars
  <2>1. TypeOK' /\ DOMAIN task' = Workers
    BY <1>2 DEF vars, requestVars, IInv, TypeOK
  <2>2. \A w \in Workers : TaskOK(w)' /\ LockOK(w)'
    BY <1>2 DEF vars, requestVars, IInv, TaskOK, LockOK
  <2>3. \A e \in Locked : RecordsOK(e)'
    BY <1>2, RecordsKept DEF vars, requestVars
  <2>4. \A e \in Synced \ (Partial \cup Bulk) : WriterOK(e)'
    BY <1>2 DEF vars, requestVars, IInv, WriterOK, Recorded
  <2>. QED BY <2>1, <2>2, <2>3, <2>4 DEF IInv
<1>. QED BY <1>1, <1>2, BulkKeeps, DeleteKeeps, CrashKeeps DEF Next

LEMMA Invariant == Spec => []IInv
BY Initial, Inductive, PTL DEF Spec

\* Every state of the saves, their outbox and their trail is well typed.
THEOREM TypeCorrect == Spec => []TypeOK
<1>1. IInv => TypeOK
  BY DEF IInv
<1>. QED BY <1>1, Invariant, PTL

\* sync/signals.py: once no save of a row is under way, what is stored, or its
\* deletion, is the payload of a record, unless the save died or bypassed the
\* signals.
THEOREM StoredRecorded == Spec => []StoredIsRecorded
<1>1. IInv => StoredIsRecorded
  <2>1. SUFFICES ASSUME IInv, NEW e \in Synced \ (Partial \cup Bulk), Settled(e),
                        e \in Locked \/ crashes = 0
                 PROVE  Recorded(e)
    BY DEF StoredIsRecorded, Recorded
  <2>. QED BY <2>1 DEF IInv, WriterOK, Settled
<1>. QED BY <1>1, Invariant, PTL

\* docs/08 section 8.6: among the records of a row saved under its lock, a later
\* one has a greater version.
THEOREM VersionsIncrease == Spec => []LockedVersionsIncrease
<1>1. IInv => LockedVersionsIncrease
  BY DEF IInv, RecordsOK, LockedVersionsIncrease
<1>. QED BY <1>1, Invariant, PTL

-----------------------------------------------------------------------------
(***************************************************************************)
(* The backups beside the saves.                                           *)
(***************************************************************************)

\* An image in which every row saved in a transaction is recorded.
Restores(image) ==
  \A e \in Locked : \E n \in DOMAIN image.outbox[e] : image.outbox[e][n].row = image.rows[e]

\* A file that is whole holds one image, and every image restores.
FileOK(file) ==
  file # None =>
    /\ file.image # None => Restores(file.image)
    /\ file.whole => file.image # None

Steps == {"none", "named", "dump", "dumped", "gzip", "done", "failed", "killed"}

BackupsTyped ==
  /\ now \in Seconds
  /\ dumps \in [Seconds -> Files \cup {None}] /\ archives \in [Seconds -> Files \cup {None}]
  /\ backup \in [Backups -> [step : Steps, second : Seconds, forced : BOOLEAN]]
  /\ source \in [Backups -> Files \cup {None}]

FilesOK ==
  /\ \A s \in Seconds : FileOK(dumps[s]) /\ FileOK(archives[s])
  /\ \A b \in Backups : FileOK(source[b])

\* Who opened a file last was named by its second and has come that far.
OwnersOK ==
  \A s \in Seconds :
    /\ dumps[s] # None =>
         backup[dumps[s].by].second = s /\ backup[dumps[s].by].step \notin {"none", "named"}
    /\ archives[s] # None =>
         /\ backup[archives[s].by].second = s
         /\ backup[archives[s].by].step \in {"gzip", "done", "failed", "killed"}

\* The dump that a gzip reads, and its copy.
SourceOK(b) ==
  IF At(b, "gzip")
  THEN /\ source[b] # None
       /\ Owned(b, archives[backup[b].second]) =>
            archives[backup[b].second].image = source[b].image
  ELSE source[b] = None

\* No other backup was named by the second of b.
Sole(b) == \A o \in Backups \ {b} : At(o, "none") \/ backup[o].second # backup[b].second

\* A backup that has its second for itself ends in a whole archive, in none, or
\* dies.
ProgressOK(b) ==
  LET s == backup[b].second
  IN Sole(b) =>
       /\ At(b, "dump") => dumps[s] # None /\ dumps[s].image # None
       /\ At(b, "dumped") => dumps[s] # None /\ dumps[s].whole
       /\ At(b, "gzip") => source[b].whole
       /\ At(b, "done") /\ archives[s] # None => archives[s].whole
       /\ At(b, "failed") => archives[s] = None

\* The inductive invariant of the backups.
BInv ==
  /\ BackupsTyped /\ FilesOK /\ OwnersOK
  /\ \A b \in Backups : SourceOK(b) /\ ProgressOK(b)

\* What pg_dump reads restores: a row saved in a transaction is never stored
\* without its record.
LEMMA SnapshotRestores ==
  ASSUME IInv
  PROVE  Snapshot \in Images /\ Snapshot # None /\ Restores(Snapshot)
<1>1. Snapshot \in Images
  BY DEF Snapshot, Images, IInv, TypeOK
<1>2. ASSUME NEW e \in Locked
      PROVE  \E n \in DOMAIN outbox[e] : outbox[e][n].row = rows[e]
  <2>1. WriterOK(e) /\ RecordsOK(e)
    BY RegistoAssumption DEF IInv
  <2>2. \A w \in Workers : ~ (pc[w] = "record" /\ task[w].entity = e)
    BY DEF IInv, LockOK
  <2>. QED BY <2>1, <2>2, NoneAssumption DEF WriterOK, Recorded, RecordsOK
<1>. QED BY <1>1, <1>2, CopiasAssumption DEF Snapshot, Restores

\* Deaths: of nobody, or of every worker with its transaction.
LEMMA DeathsKeep ==
  ASSUME IInv, UNCHANGED <<rows, outbox, trail, requests>>,
         crashes' \in 0 .. MaxCrashes, crashes' = 0 => crashes = 0,
         \/ UNCHANGED <<lock, pc, task>>
         \/ /\ pc' = [w \in Workers |-> "idle"] /\ task' = [w \in Workers |-> None]
            /\ lock' = [e \in Entities |-> None]
            /\ crashes' = 0 => \A w \in Workers : pc[w] = "idle"
  PROVE  IInv'
<1>1. TypeOK' /\ DOMAIN task' = Workers
  BY DEF IInv, TypeOK
<1>2. \A w \in Workers : TaskOK(w)' /\ LockOK(w)'
  BY DEF IInv, TaskOK, LockOK
<1>3. ASSUME NEW e \in Synced \ (Partial \cup Bulk) PROVE WriterOK(e)'
  <2>1. CASE e \in Locked
    <3>1. Recorded(e)
      BY <2>1 DEF IInv, WriterOK, LockOK
    <3>. QED BY <3>1 DEF WriterOK, Recorded
  <2>2. CASE e \notin Locked
    BY <2>2 DEF IInv, WriterOK, Recorded
  <2>. QED BY <2>1, <2>2
<1>. QED BY <1>1, <1>2, <1>3, RecordsKept DEF IInv

\* The saves keep their invariant whatever the backups do.
LEMMA SavesInductive == IInv /\ [CopiasNext]_allVars => IInv'
<1>. SUFFICES ASSUME IInv, [CopiasNext]_allVars PROVE IInv'
  OBVIOUS
<1>1. CASE Next \/ UNCHANGED vars
  BY <1>1, Inductive
<1>2. ASSUME NEW b \in Backups, Killed(b) PROVE IInv'
  <2>1. crashes \in Nat /\ crashes' = crashes + 1 /\ crashes' \in 0 .. MaxCrashes
    BY <1>2, PedidosAssumption DEF Killed, IInv, TypeOK
  <2>. QED BY <1>2, <2>1, DeathsKeep DEF Killed
<1>3. CASE Stop
  <2>. DEFINE killed == {b \in Backups : Running(b)}
              dead == {w \in Workers : pc[w] # "idle"}
  <2>1. IsFiniteSet(killed) /\ IsFiniteSet(dead)
    BY FS_Subset, CopiasAssumption
  <2>2. Cardinality(killed) \in Nat /\ Cardinality(dead) \in Nat
        /\ (Cardinality(dead) = 0 => dead = {})
    BY <2>1, FS_CardinalityType, FS_EmptySet
  <2>3. crashes' = crashes + Cardinality(killed) + Cardinality(dead) /\ crashes' <= MaxCrashes
        /\ crashes \in Nat
    BY <1>3 DEF Stop, IInv, TypeOK
  <2>4. dead = {} => \A w \in Workers : pc[w] = "idle"
    OBVIOUS
  <2>. HIDE DEF killed, dead
  <2>5. crashes' \in 0 .. MaxCrashes /\ (crashes' = 0 => crashes = 0 /\ dead = {})
    BY <2>2, <2>3, PedidosAssumption
  <2>. QED BY <1>3, <2>4, <2>5, DeathsKeep DEF Stop
<1>. QED BY <1>1, <1>2, <1>3 DEF CopiasNext, allVars

\* A step of b that leaves alone the files of other seconds leaves the backups
\* that have theirs for themselves in order.
LEMMA OtherBackups ==
  ASSUME BInv, NEW b \in Backups, \A o \in Backups \ {b} : backup'[o] = backup[o],
         ~ At(b, "none") => backup'[b].second = backup[b].second, ~ At(b, "none")',
         \A s \in Seconds \ {backup'[b].second} : dumps'[s] = dumps[s] /\ archives'[s] = archives[s],
         \A o \in Backups \ {b} :
           backup[o].second # backup'[b].second => source'[o] = source[o]
  PROVE  \A o \in Backups \ {b} : ProgressOK(o)'
<1>. SUFFICES ASSUME NEW o \in Backups \ {b}, Sole(o)' PROVE ProgressOK(o)'
  BY DEF ProgressOK
<1>1. Sole(o)
  BY DEF Sole, At
<1>2. backup'[o] = backup[o] /\ backup[o].second # backup'[b].second
      /\ backup[o].second \in Seconds
  BY DEF Sole, At, BInv, BackupsTyped
<1>. QED BY <1>1, <1>2 DEF BInv, ProgressOK, At

\* The same for what every gzip reads, when no archive changes image.
LEMMA OtherSources ==
  ASSUME BInv, NEW b \in Backups, \A o \in Backups \ {b} : backup'[o] = backup[o],
         \A o \in Backups \ {b} :
           source'[o] = source[o]
           \/ (source[o] # None /\ source'[o] # None /\ source'[o].image = source[o].image),
         \A o \in Backups \ {b} :
           archives'[backup[o].second] # archives[backup[o].second] =>
             archives'[backup[o].second] = None \/ archives'[backup[o].second].by # o
  PROVE  \A o \in Backups \ {b} : SourceOK(o)'
<1>. SUFFICES ASSUME NEW o \in Backups \ {b} PROVE SourceOK(o)'
  OBVIOUS
<1>1. SourceOK(o) /\ backup'[o] = backup[o]
  BY DEF BInv
<1>. QED BY <1>1 DEF SourceOK, At, Owned

LEMMA FileTyped ==
  ASSUME NEW b \in Backups, NEW image \in Images \cup {None}, NEW whole \in BOOLEAN
  PROVE  /\ File(b, image, whole) \in Files /\ File(b, image, whole) # None
         /\ File(b, image, whole).by = b /\ File(b, image, whole).image = image
         /\ File(b, image, whole).whole = whole
BY CopiasAssumption DEF File, Files

\* A backup named by a second.
LEMMA NameKeeps ==
  ASSUME BInv, NEW b \in Backups, NEW forced \in BOOLEAN, At(b, "none"),
         backup' = [backup EXCEPT ![b] = [step |-> "named", second |-> now, forced |-> forced]],
         UNCHANGED <<now, dumps, archives, source>>
  PROVE  BInv'
<1>1. BackupsTyped'
  BY DEF BInv, BackupsTyped, Steps
<1>2. backup'[b].step = "named" /\ \A o \in Backups \ {b} : backup'[o] = backup[o]
  BY DEF BInv, BackupsTyped
<1>3. FilesOK'
  BY DEF BInv, FilesOK, FileOK
<1>4. OwnersOK'
  <2>1. \A s \in Seconds : /\ dumps[s] # None => dumps[s].by \in Backups \ {b}
                           /\ archives[s] # None => archives[s].by \in Backups \ {b}
    BY DEF BInv, OwnersOK, BackupsTyped, Files, At
  <2>. QED BY <1>2, <2>1 DEF BInv, OwnersOK
<1>5. SourceOK(b)' /\ ProgressOK(b)'
  BY <1>2 DEF SourceOK, ProgressOK, BInv, At
<1>6. \A o \in Backups \ {b} : ProgressOK(o)'
  BY <1>2, OtherBackups DEF At
<1>7. \A o \in Backups \ {b} : SourceOK(o)'
  BY <1>2, OtherSources
<1>. QED BY <1>1, <1>3, <1>4, <1>5, <1>6, <1>7 DEF BInv

\* What a step of a backup does to its own place.
LEMMA StepTo ==
  ASSUME BInv, NEW b \in Backups, NEW step \in Steps, GoTo(b, step)
  PROVE  /\ backup' \in [Backups -> [step : Steps, second : Seconds, forced : BOOLEAN]]
         /\ backup'[b].step = step /\ backup'[b].second = backup[b].second
         /\ \A o \in Backups \ {b} : backup'[o] = backup[o]
         /\ backup[b].second \in Seconds
BY DEF GoTo, BInv, BackupsTyped

\* A step of b keeps who opened the files, when it opens those of its second only.
LEMMA OwnersKept ==
  ASSUME BInv, NEW b \in Backups, \A o \in Backups \ {b} : backup'[o] = backup[o],
         backup'[b].second = backup[b].second, backup'[b].step \notin {"none", "named"},
         \A t \in Seconds :
           dumps'[t] # None =>
             \/ dumps'[t].by = b /\ t = backup[b].second
             \/ dumps[t] # None /\ dumps'[t].by = dumps[t].by,
         \A t \in Seconds :
           archives'[t] # None =>
             \/ archives'[t].by = b /\ t = backup[b].second
             \/ archives[t] # None /\ archives'[t].by = archives[t].by,
         \A t \in Seconds : archives'[t] # None /\ archives'[t].by = b =>
                              backup'[b].step \in {"gzip", "done", "failed", "killed"}
  PROVE  OwnersOK'
<1>. SUFFICES ASSUME NEW t \in Seconds
              PROVE  /\ dumps'[t] # None =>
                          /\ backup'[dumps'[t].by].second = t
                          /\ backup'[dumps'[t].by].step \notin {"none", "named"}
                     /\ archives'[t] # None =>
                          /\ backup'[archives'[t].by].second = t
                          /\ backup'[archives'[t].by].step
                               \in {"gzip", "done", "failed", "killed"}
  BY DEF OwnersOK
<1>1. /\ dumps[t] # None => dumps[t].by \in Backups
      /\ archives[t] # None => archives[t].by \in Backups
  BY DEF BInv, BackupsTyped, Files
<1>2. ASSUME dumps'[t] # None
      PROVE  /\ backup'[dumps'[t].by].second = t
             /\ backup'[dumps'[t].by].step \notin {"none", "named"}
  <2>1. CASE dumps'[t].by = b
    BY <1>1, <1>2, <2>1 DEF BInv, OwnersOK
  <2>2. CASE dumps'[t].by # b
    BY <1>1, <1>2, <2>2 DEF BInv, OwnersOK
  <2>. QED BY <2>1, <2>2
<1>3. ASSUME archives'[t] # None
      PROVE  /\ backup'[archives'[t].by].second = t
             /\ backup'[archives'[t].by].step \in {"gzip", "done", "failed", "killed"}
  <2>1. CASE archives'[t].by = b
    BY <1>1, <1>3, <2>1 DEF BInv, OwnersOK
  <2>2. CASE archives'[t].by # b
    BY <1>1, <1>3, <2>2 DEF BInv, OwnersOK
  <2>. QED BY <2>1, <2>2
<1>. QED BY <1>2, <1>3

LEMMA DumpStartsKeeps ==
  ASSUME IInv, BInv, NEW b \in Backups, DumpStarts(b)
  PROVE  BInv'
<1>. DEFINE s == backup[b].second
            image == IF Contended(b, "dump") THEN None ELSE Snapshot
            read == {o \in Backups : source[o] # None /\ backup[o].second = s /\ dumps[s] # None}
<1>1. /\ At(b, "named") /\ GoTo(b, "dump")
      /\ dumps' = [dumps EXCEPT ![s] = File(b, image, FALSE)]
      /\ source' = [o \in Backups |-> IF o \in read THEN [source[o] EXCEPT !.whole = FALSE]
                                     ELSE source[o]]
      /\ UNCHANGED <<now, archives, stopping, failures>>
  BY DEF DumpStarts
<1>2. s \in Seconds /\ backup'[b].step = "dump" /\ backup'[b].second = s
      /\ (\A o \in Backups \ {b} : backup'[o] = backup[o])
      /\ backup' \in [Backups -> [step : Steps, second : Seconds, forced : BOOLEAN]]
  BY <1>1, StepTo DEF Steps
<1>3. image \in Images \cup {None} /\ (image # None => Restores(image))
      /\ (~ Contended(b, "dump") => image # None)
  BY SnapshotRestores
<1>. HIDE DEF image
<1>4. /\ File(b, image, FALSE) \in Files /\ File(b, image, FALSE) # None
      /\ File(b, image, FALSE).by = b /\ File(b, image, FALSE).image = image
      /\ File(b, image, FALSE).whole = FALSE
  BY <1>3, FileTyped
<1>5. dumps'[s] = File(b, image, FALSE) /\ \A t \in Seconds \ {s} : dumps'[t] = dumps[t]
  BY <1>1, <1>2 DEF BInv, BackupsTyped
<1>6. \A o \in Backups :
        /\ source'[o] \in Files \cup {None}
        /\ source'[o] # source[o] =>
             /\ source[o] # None /\ source'[o] # None /\ backup[o].second = s
             /\ source'[o].image = source[o].image /\ source'[o].whole = FALSE
  BY <1>1, CopiasAssumption DEF BInv, BackupsTyped, Files
<1>7. BackupsTyped'
  <2>1. source' \in [Backups -> Files \cup {None}]
    BY <1>1, <1>6
  <2>2. dumps' \in [Seconds -> Files \cup {None}]
    BY <1>1, <1>4 DEF BInv, BackupsTyped
  <2>. QED BY <1>1, <1>2, <2>1, <2>2 DEF BInv, BackupsTyped
<1>8. FilesOK'
  <2>1. \A t \in Seconds : FileOK(dumps[t])'
    BY <1>3, <1>4, <1>5 DEF FileOK, BInv, FilesOK
  <2>2. \A o \in Backups : FileOK(source[o])'
    BY <1>6 DEF FileOK, BInv, FilesOK
  <2>. QED BY <1>1, <2>1, <2>2 DEF FilesOK, BInv, FileOK
<1>9. OwnersOK'
  <2>1. \A t \in Seconds : /\ dumps[t] # None => dumps[t].by \in Backups \ {b}
                           /\ archives[t] # None => archives[t].by \in Backups \ {b}
    BY <1>1 DEF BInv, OwnersOK, BackupsTyped, Files, At
  <2>2. \A t \in Seconds :
          dumps'[t] # None =>
            \/ dumps'[t].by = b /\ t = s
            \/ dumps[t] # None /\ dumps'[t].by = dumps[t].by
    BY <1>4, <1>5
  <2>. QED BY <1>1, <1>2, <2>1, <2>2, OwnersKept
<1>10. SourceOK(b)'
  BY <1>1, <1>2, <1>6 DEF BInv, SourceOK, At
<1>11. ProgressOK(b)'
  <2>1. Sole(b)' => ~ Contended(b, "dump")
    BY <1>2 DEF Sole, Contended, At
  <2>. QED BY <1>2, <1>3, <1>4, <1>5, <2>1 DEF ProgressOK, At
<1>12. \A o \in Backups \ {b} : SourceOK(o)'
  BY <1>1, <1>2, <1>6, OtherSources
<1>13. \A o \in Backups \ {b} : ProgressOK(o)'
  BY <1>1, <1>2, <1>5, <1>6, OtherBackups DEF At
<1>. QED BY <1>7, <1>8, <1>9, <1>10, <1>11, <1>12, <1>13 DEF BInv

LEMMA DumpEndsKeeps ==
  ASSUME BInv, NEW b \in Backups, DumpEnds(b)
  PROVE  BInv'
<1>. DEFINE s == backup[b].second
<1>1. /\ At(b, "dump") /\ GoTo(b, "dumped")
      /\ dumps' = IF Owned(b, dumps[s])
                  THEN [dumps EXCEPT ![s].whole = dumps[s].image # None] ELSE dumps
      /\ UNCHANGED <<now, archives, source, stopping, failures>>
  BY DEF DumpEnds
<1>2. s \in Seconds /\ backup'[b].step = "dumped" /\ backup'[b].second = s
      /\ (\A o \in Backups \ {b} : backup'[o] = backup[o])
      /\ backup' \in [Backups -> [step : Steps, second : Seconds, forced : BOOLEAN]]
  BY <1>1, StepTo DEF Steps
<1>3. \A t \in Seconds \ {s} : dumps'[t] = dumps[t]
  BY <1>1, <1>2 DEF BInv, BackupsTyped
<1>4. Owned(b, dumps[s]) =>
        /\ dumps'[s] \in Files /\ dumps'[s] # None /\ dumps'[s].by = b
        /\ dumps'[s].image = dumps[s].image /\ dumps'[s].whole = (dumps[s].image # None)
  <2>. SUFFICES ASSUME Owned(b, dumps[s])
                PROVE  /\ dumps'[s] \in Files /\ dumps'[s] # None /\ dumps'[s].by = b
                       /\ dumps'[s].image = dumps[s].image
                       /\ dumps'[s].whole = (dumps[s].image # None)
    OBVIOUS
  <2>1. dumps[s] \in Files /\ dumps'[s] = [dumps[s] EXCEPT !.whole = dumps[s].image # None]
    BY <1>1, <1>2 DEF BInv, BackupsTyped, Owned
  <2>. QED BY <2>1, CopiasAssumption DEF Files, Owned
<1>5. ~ Owned(b, dumps[s]) => dumps' = dumps
  BY <1>1
<1>6. BackupsTyped'
  <2>1. \A t \in Seconds : dumps'[t] \in Files \cup {None}
    BY <1>3, <1>4, <1>5 DEF BInv, BackupsTyped
  <2>2. dumps' = [t \in Seconds |-> dumps'[t]]
    BY <1>1, <1>2 DEF BInv, BackupsTyped
  <2>3. dumps' \in [Seconds -> Files \cup {None}]
    BY <2>1, <2>2
  <2>. QED BY <1>1, <1>2, <2>3 DEF BInv, BackupsTyped
<1>7. FilesOK'
  <2>1. \A t \in Seconds : FileOK(dumps[t])'
    <3>. SUFFICES ASSUME NEW t \in Seconds PROVE FileOK(dumps[t])'
      OBVIOUS
    <3>1. CASE t # s
      BY <1>3, <3>1 DEF BInv, FilesOK, FileOK
    <3>2. CASE t = s
      BY <1>2, <1>4, <1>5, <3>2 DEF BInv, FilesOK, FileOK, Owned
    <3>. QED BY <3>1, <3>2
  <2>. QED BY <1>1, <2>1 DEF BInv, FilesOK, FileOK
<1>8. OwnersOK'
  <2>1. \A t \in Seconds :
          dumps'[t] # None => dumps[t] # None /\ dumps'[t].by = dumps[t].by
    BY <1>3, <1>4, <1>5 DEF Owned
  <2>2. \A t \in Seconds : archives[t] # None => archives[t].by \in Backups \ {b}
    BY <1>1 DEF BInv, OwnersOK, BackupsTyped, Files, At
  <2>. QED BY <1>1, <1>2, <2>1, <2>2, OwnersKept
<1>9. SourceOK(b)'
  BY <1>1, <1>2 DEF BInv, SourceOK, At
<1>10. ProgressOK(b)'
  <2>1. SUFFICES ASSUME Sole(b) PROVE dumps'[s] # None /\ dumps'[s].whole
    BY <1>2 DEF ProgressOK, Sole, At
  <2>2. dumps[s] # None /\ dumps[s].image # None
    BY <1>1, <2>1 DEF BInv, ProgressOK
  <2>3. Owned(b, dumps[s])
    BY <1>2, <2>1, <2>2 DEF BInv, OwnersOK, BackupsTyped, Files, Sole, At, Owned
  <2>. QED BY <1>4, <2>2, <2>3
<1>11. \A o \in Backups \ {b} : SourceOK(o)'
  BY <1>1, <1>2, OtherSources
<1>12. \A o \in Backups \ {b} : ProgressOK(o)'
  BY <1>1, <1>2, <1>3, OtherBackups DEF At
<1>. QED BY <1>6, <1>7, <1>8, <1>9, <1>10, <1>11, <1>12 DEF BInv

\* A dump that fails, and a backup that is killed, leave the files as they are.
LEMMA StopKeeps ==
  ASSUME BInv, NEW b \in Backups, NEW step \in {"failed", "killed"}, GoTo(b, step),
         step = "failed" => At(b, "dump") /\ UNCHANGED source,
         step = "killed" => Running(b) /\ source' = [source EXCEPT ![b] = None],
         UNCHANGED <<now, dumps, archives>>
  PROVE  BInv'
<1>. DEFINE s == backup[b].second
<1>2. s \in Seconds /\ backup'[b].step = step /\ backup'[b].second = s
      /\ (\A o \in Backups \ {b} : backup'[o] = backup[o])
      /\ backup' \in [Backups -> [step : Steps, second : Seconds, forced : BOOLEAN]]
  BY StepTo DEF Steps
<1>3. source'[b] = None /\ (\A o \in Backups \ {b} : source'[o] = source[o])
      /\ source' \in [Backups -> Files \cup {None}]
  BY DEF BInv, BackupsTyped, SourceOK, At
<1>4. ~ At(b, "none")
  BY DEF At, Running
<1>5. BackupsTyped'
  BY <1>2, <1>3 DEF BInv, BackupsTyped
<1>6. FilesOK'
  BY <1>3 DEF BInv, FilesOK, FileOK
<1>7. OwnersOK'
  <2>1. \A t \in Seconds : /\ dumps[t] # None => dumps[t].by \in Backups
                           /\ archives[t] # None => archives[t].by \in Backups
    BY DEF BInv, BackupsTyped, Files
  <2>. QED BY <1>2, <2>1 DEF BInv, OwnersOK
<1>8. SourceOK(b)'
  BY <1>2, <1>3 DEF SourceOK, At
<1>9. ProgressOK(b)'
  <2>1. SUFFICES ASSUME Sole(b), step = "failed" PROVE archives[s] = None
    BY <1>2 DEF ProgressOK, Sole, At
  <2>. QED BY <1>2, <2>1 DEF BInv, OwnersOK, BackupsTyped, Files, Sole, At
<1>10. \A o \in Backups \ {b} : SourceOK(o)'
  BY <1>2, <1>3, OtherSources
<1>11. \A o \in Backups \ {b} : ProgressOK(o)'
  BY <1>2, <1>3, <1>4, OtherBackups DEF At
<1>. QED BY <1>5, <1>6, <1>7, <1>8, <1>9, <1>10, <1>11 DEF BInv

LEMMA GzipStartsKeeps ==
  ASSUME BInv, NEW b \in Backups, GzipStarts(b)
  PROVE  BInv'
<1>. DEFINE s == backup[b].second
<1>1. At(b, "dumped") /\ s \in Seconds /\ UNCHANGED <<now, dumps>> /\ ~ At(b, "none")
  BY DEF GzipStarts, At, BInv, BackupsTyped
<1>2. CASE dumps[s] = None \/ (~ backup[b].forced /\ archives[s] # None)
  <2>1. GoTo(b, "failed") /\ UNCHANGED <<archives, source>>
    BY <1>2 DEF GzipStarts
  <2>2. backup'[b].step = "failed" /\ backup'[b].second = s
        /\ (\A o \in Backups \ {b} : backup'[o] = backup[o])
        /\ backup' \in [Backups -> [step : Steps, second : Seconds, forced : BOOLEAN]]
    BY <2>1, StepTo DEF Steps
  <2>3. BackupsTyped'
    BY <1>1, <2>1, <2>2 DEF BInv, BackupsTyped
  <2>4. FilesOK'
    BY <1>1, <2>1 DEF BInv, FilesOK, FileOK
  <2>5. OwnersOK'
    <3>1. \A t \in Seconds : /\ dumps[t] # None => dumps[t].by \in Backups
                             /\ archives[t] # None => archives[t].by \in Backups
      BY DEF BInv, BackupsTyped, Files
    <3>. QED BY <1>1, <2>1, <2>2, <3>1 DEF BInv, OwnersOK
  <2>6. SourceOK(b)'
    BY <1>1, <2>1, <2>2 DEF BInv, SourceOK, At
  <2>7. ProgressOK(b)'
    <3>1. SUFFICES ASSUME Sole(b) PROVE archives[s] = None
      BY <2>1, <2>2 DEF ProgressOK, Sole, At
    <3>. QED BY <1>1, <3>1 DEF BInv, OwnersOK, BackupsTyped, Files, Sole, At
  <2>8. \A o \in Backups \ {b} : SourceOK(o)'
    BY <2>1, <2>2, OtherSources
  <2>9. \A o \in Backups \ {b} : ProgressOK(o)'
    BY <1>1, <2>1, <2>2, OtherBackups DEF At
  <2>. QED BY <2>3, <2>4, <2>5, <2>6, <2>7, <2>8, <2>9 DEF BInv
<1>3. CASE ~ (dumps[s] = None \/ (~ backup[b].forced /\ archives[s] # None))
  <2>. DEFINE file == File(b, dumps[s].image, FALSE)
  <2>1. GoTo(b, "gzip") /\ source' = [source EXCEPT ![b] = dumps[s]]
        /\ archives' = [archives EXCEPT ![s] = file]
    BY <1>3 DEF GzipStarts
  <2>2. backup'[b].step = "gzip" /\ backup'[b].second = s
        /\ (\A o \in Backups \ {b} : backup'[o] = backup[o])
        /\ backup' \in [Backups -> [step : Steps, second : Seconds, forced : BOOLEAN]]
    BY <2>1, StepTo DEF Steps
  <2>3. dumps[s] \in Files /\ dumps[s] # None
    BY <1>1, <1>3 DEF BInv, BackupsTyped
  <2>4. dumps[s].image \in Images \cup {None}
    BY <2>3 DEF Files
  <2>5. /\ file \in Files /\ file # None /\ file.by = b /\ file.image = dumps[s].image
        /\ file.whole = FALSE
    BY <2>4, FileTyped
  <2>6. archives'[s] = file /\ (\A t \in Seconds \ {s} : archives'[t] = archives[t])
        /\ source'[b] = dumps[s] /\ (\A o \in Backups \ {b} : source'[o] = source[o])
    BY <1>1, <2>1 DEF BInv, BackupsTyped
  <2>7. BackupsTyped'
    BY <1>1, <2>1, <2>2, <2>3, <2>5 DEF BInv, BackupsTyped
  <2>8. FilesOK'
    <3>1. FileOK(dumps[s])
      BY <1>1 DEF BInv, FilesOK
    <3>2. FileOK(file)
      BY <2>3, <2>5, <3>1 DEF FileOK
    <3>3. \A t \in Seconds : FileOK(dumps[t])' /\ FileOK(archives[t])'
      BY <1>1, <2>6, <3>2 DEF BInv, FilesOK, FileOK
    <3>4. \A o \in Backups : FileOK(source[o])'
      BY <2>6, <3>1 DEF BInv, FilesOK, FileOK
    <3>. QED BY <3>3, <3>4 DEF FilesOK
  <2>9. OwnersOK'
    <3>1. \A t \in Seconds :
            archives'[t] # None =>
              \/ archives'[t].by = b /\ t = s
              \/ archives[t] # None /\ archives'[t].by = archives[t].by
      BY <2>5, <2>6
    <3>. QED BY <1>1, <2>2, <3>1, OwnersKept
  <2>10. SourceOK(b)'
    BY <2>2, <2>3, <2>5, <2>6 DEF SourceOK, At
  <2>11. ProgressOK(b)'
    <3>1. Sole(b)' => Sole(b)
      BY <2>2 DEF Sole, At
    <3>. QED BY <1>1, <2>2, <2>6, <3>1 DEF BInv, ProgressOK, At
  <2>12. \A o \in Backups \ {b} : SourceOK(o)'
    <3>1. \A o \in Backups \ {b} : archives'[backup[o].second] # archives[backup[o].second]
                                    => archives'[backup[o].second].by # o
      BY <2>5, <2>6 DEF BInv, BackupsTyped
    <3>. QED BY <2>2, <2>6, <3>1, OtherSources
  <2>13. \A o \in Backups \ {b} : ProgressOK(o)'
    BY <1>1, <2>2, <2>6, OtherBackups DEF At
  <2>. QED BY <2>7, <2>8, <2>9, <2>10, <2>11, <2>12, <2>13 DEF BInv
<1>. QED BY <1>2, <1>3

\* The end of a gzip: its archive, if it still is its own, becomes `file`, the
\* dump is removed or left.
LEMMA GzipDone ==
  ASSUME BInv, NEW b \in Backups, NEW step \in {"done", "failed"}, At(b, "gzip"),
         GoTo(b, step), NEW file \in Files \cup {None}, FileOK(file),
         archives' = IF Owned(b, archives[backup[b].second])
                     THEN [archives EXCEPT ![backup[b].second] = file] ELSE archives,
         file # None => file.by = b,
         Sole(b) => IF step = "failed" THEN file = None ELSE file # None => file.whole,
         source' = [source EXCEPT ![b] = None],
         dumps' = dumps \/ dumps' = [dumps EXCEPT ![backup[b].second] = None],
         UNCHANGED now
  PROVE  BInv'
<1>. DEFINE s == backup[b].second
<1>1. s \in Seconds /\ backup'[b].step = step /\ backup'[b].second = s
      /\ (\A o \in Backups \ {b} : backup'[o] = backup[o])
      /\ backup' \in [Backups -> [step : Steps, second : Seconds, forced : BOOLEAN]]
  BY StepTo DEF Steps
<1>2. source'[b] = None /\ (\A o \in Backups \ {b} : source'[o] = source[o])
      /\ source' \in [Backups -> Files \cup {None}]
  BY DEF BInv, BackupsTyped
<1>3. dumps' \in [Seconds -> Files \cup {None}]
      /\ \A t \in Seconds : dumps'[t] = None \/ dumps'[t] = dumps[t]
  BY <1>1 DEF BInv, BackupsTyped
<1>4. archives' \in [Seconds -> Files \cup {None}]
      /\ (\A t \in Seconds \ {s} : archives'[t] = archives[t])
      /\ (\A t \in Seconds \ {s} : dumps'[t] = dumps[t])
      /\ (Owned(b, archives[s]) => archives'[s] = file)
      /\ (~ Owned(b, archives[s]) => archives'[s] = archives[s])
  BY <1>1 DEF BInv, BackupsTyped
<1>5. BackupsTyped'
  BY <1>1, <1>2, <1>3, <1>4 DEF BInv, BackupsTyped
<1>6. FilesOK'
  <2>1. ASSUME NEW t \in Seconds PROVE FileOK(dumps[t])'
    <3>1. FileOK(dumps[t])
      BY DEF BInv, FilesOK
    <3>. QED BY <1>3, <3>1 DEF FileOK
  <2>2. ASSUME NEW t \in Seconds PROVE FileOK(archives[t])'
    <3>1. FileOK(archives[t])
      BY DEF BInv, FilesOK
    <3>2. archives'[t] = archives[t] \/ archives'[t] = file
      BY <1>4
    <3>. QED BY <3>1, <3>2 DEF FileOK
  <2>3. ASSUME NEW o \in Backups PROVE FileOK(source[o])'
    BY <1>2 DEF BInv, FilesOK, FileOK
  <2>. QED BY <2>1, <2>2, <2>3 DEF FilesOK
<1>7. OwnersOK'
  <2>1. \A t \in Seconds :
          dumps'[t] # None => dumps[t] # None /\ dumps'[t].by = dumps[t].by
    BY <1>3
  <2>2. \A t \in Seconds :
          archives'[t] # None => archives[t] # None /\ archives'[t].by = archives[t].by
    BY <1>4 DEF Owned
  <2>. QED BY <1>1, <2>1, <2>2, OwnersKept
<1>8. SourceOK(b)'
  BY <1>1, <1>2 DEF SourceOK, At
<1>9. ProgressOK(b)'
  <2>1. SUFFICES ASSUME Sole(b)
                 PROVE  IF step = "failed" THEN archives'[s] = None
                        ELSE archives'[s] # None => archives'[s].whole
    BY <1>1 DEF ProgressOK, Sole, At
  <2>2. archives[s] # None => Owned(b, archives[s])
    BY <1>1, <2>1 DEF BInv, OwnersOK, BackupsTyped, Files, Sole, At, Owned
  <2>3. archives'[s] = None \/ archives'[s] = file
    BY <1>4, <2>2
  <2>. QED BY <2>1, <2>3
<1>10. \A o \in Backups \ {b} : SourceOK(o)'
  <2>1. \A o \in Backups \ {b} :
          archives'[backup[o].second] # archives[backup[o].second] =>
            archives'[backup[o].second] = None \/ archives'[backup[o].second].by # o
    BY <1>4 DEF BInv, BackupsTyped
  <2>. QED BY <1>1, <1>2, <2>1, OtherSources
<1>11. \A o \in Backups \ {b} : ProgressOK(o)'
  BY <1>1, <1>2, <1>4, OtherBackups DEF At
<1>. QED BY <1>5, <1>6, <1>7, <1>8, <1>9, <1>10, <1>11 DEF BInv

LEMMA GzipEndsKeeps ==
  ASSUME BInv, NEW b \in Backups, GzipEnds(b)
  PROVE  BInv'
<1>. DEFINE s == backup[b].second
            file == IF Owned(b, archives[s]) THEN [archives[s] EXCEPT !.whole = source[b].whole]
                    ELSE None
<1>1. At(b, "gzip") /\ GoTo(b, "done") /\ UNCHANGED now
      /\ archives' = (IF Owned(b, archives[s])
                      THEN [archives EXCEPT ![s].whole = source[b].whole] ELSE archives)
      /\ dumps' = [dumps EXCEPT ![s] = None] /\ source' = [source EXCEPT ![b] = None]
  BY DEF GzipEnds
<1>2. s \in Seconds /\ source[b] \in Files
  BY <1>1 DEF BInv, BackupsTyped, SourceOK
<1>3. Owned(b, archives[s]) =>
        /\ file \in Files /\ file.by = b /\ file.image = archives[s].image
        /\ file.whole = source[b].whole
  <2>1. Owned(b, archives[s]) => archives[s] \in Files
    BY <1>2 DEF BInv, BackupsTyped, Owned
  <2>. QED BY <1>2, <2>1 DEF Files, Owned
<1>4. archives' = IF Owned(b, archives[s]) THEN [archives EXCEPT ![s] = file] ELSE archives
  BY <1>1, <1>2 DEF BInv, BackupsTyped
<1>5. FileOK(file) /\ (file # None => file.by = b)
  <2>1. CASE Owned(b, archives[s])
    <3>1. archives[s].image = source[b].image /\ FileOK(archives[s]) /\ FileOK(source[b])
          /\ source[b] # None
      BY <1>1, <1>2, <2>1 DEF BInv, SourceOK, FilesOK
    <3>. QED BY <1>3, <2>1, <3>1 DEF FileOK, Owned
  <2>2. CASE ~ Owned(b, archives[s])
    BY <2>2 DEF FileOK
  <2>. QED BY <2>1, <2>2
<1>6. Sole(b) => (file # None => file.whole)
  BY <1>1, <1>3 DEF BInv, ProgressOK
<1>7. file \in Files \cup {None}
  BY <1>3
<1>. HIDE DEF file
<1>. QED BY <1>1, <1>4, <1>5, <1>6, <1>7, GzipDone

LEMMA GzipFailsKeeps ==
  ASSUME BInv, NEW b \in Backups, GzipFails(b)
  PROVE  BInv'
<1>1. FileOK(None)
  BY DEF FileOK
<1>2. At(b, "gzip") /\ GoTo(b, "failed") /\ UNCHANGED <<now, dumps>>
      /\ archives' = (IF Owned(b, archives[backup[b].second])
                      THEN [archives EXCEPT ![backup[b].second] = None] ELSE archives)
      /\ source' = [source EXCEPT ![b] = None]
  BY DEF GzipFails
<1>. QED BY <1>1, <1>2, GzipDone

\* docker compose stop kills every backup that runs.
LEMMA StopAllKeeps ==
  ASSUME BInv, Stop
  PROVE  BInv'
<1>1. /\ backup' = [b \in Backups |-> IF Running(b) THEN [backup[b] EXCEPT !.step = "killed"]
                                      ELSE backup[b]]
      /\ source' = [b \in Backups |-> None] /\ UNCHANGED <<now, dumps, archives>>
  BY DEF Stop
<1>2. \A b \in Backups :
        /\ backup'[b] \in [step : Steps, second : Seconds, forced : BOOLEAN]
        /\ backup'[b].second = backup[b].second
        /\ Running(b) => backup'[b].step = "killed"
        /\ ~ Running(b) => backup'[b] = backup[b]
  BY <1>1 DEF BInv, BackupsTyped, Steps
<1>3. BackupsTyped'
  <2>1. backup' \in [Backups -> [step : Steps, second : Seconds, forced : BOOLEAN]]
    BY <1>1, <1>2
  <2>. QED BY <1>1, <2>1 DEF BInv, BackupsTyped
<1>4. FilesOK'
  BY <1>1 DEF BInv, FilesOK, FileOK
<1>5. OwnersOK'
  <2>1. \A t \in Seconds : /\ dumps[t] # None => dumps[t].by \in Backups
                           /\ archives[t] # None => archives[t].by \in Backups
    BY DEF BInv, BackupsTyped, Files
  <2>2. \A b \in Backups : Running(b) => backup'[b].step = "killed"
    BY <1>2
  <2>. QED BY <1>1, <1>2, <2>1, <2>2 DEF BInv, OwnersOK
<1>6. ASSUME NEW b \in Backups PROVE SourceOK(b)' /\ ProgressOK(b)'
  <2>1. ~ At(b, "gzip")' /\ source'[b] = None
    BY <1>1, <1>2 DEF At, Running
  <2>2. Sole(b)' => Sole(b)
    BY <1>2 DEF Sole, At, Running
  <2>. QED BY <1>1, <1>2, <2>1, <2>2 DEF BInv, SourceOK, ProgressOK, At, Running
<1>. QED BY <1>3, <1>4, <1>5, <1>6 DEF BInv

LEMMA BackupsInductive == IInv /\ BInv /\ [CopiasNext]_allVars => BInv'
<1>. SUFFICES ASSUME IInv, BInv, [CopiasNext]_allVars PROVE BInv'
  OBVIOUS
<1>1. ASSUME UNCHANGED <<dumps, archives, backup, source>>, now' \in Seconds PROVE BInv'
  <2>1. BackupsTyped' /\ FilesOK' /\ OwnersOK'
    BY <1>1 DEF BInv, BackupsTyped, FilesOK, FileOK, OwnersOK
  <2>2. \A b \in Backups : SourceOK(b)' /\ ProgressOK(b)'
    BY <1>1 DEF BInv, SourceOK, ProgressOK, Sole, At
  <2>. QED BY <2>1, <2>2 DEF BInv
<1>2. now \in Seconds
  BY DEF BInv, BackupsTyped
<1>3. CASE Tick
  BY <1>1, <1>2, <1>3, CopiasAssumption DEF Tick, Seconds
<1>4. CASE UNCHANGED backupVars
  BY <1>1, <1>2, <1>4 DEF backupVars
<1>5. ASSUME NEW b \in Backups, BackupStep(b) PROVE BInv'
  <2>1. ASSUME NEW forced \in BOOLEAN, BackupRequest(b, forced) PROVE BInv'
    BY <2>1, NameKeeps DEF BackupRequest
  <2>2. CASE LowBattery(b)
    BY <2>2, NameKeeps DEF LowBattery
  <2>3. CASE DumpFails(b)
    BY <2>3, StopKeeps DEF DumpFails
  <2>. QED BY <1>5, <2>1, <2>2, <2>3, DumpStartsKeeps, DumpEndsKeeps, GzipStartsKeeps,
              GzipEndsKeeps, GzipFailsKeeps DEF BackupStep
<1>6. ASSUME NEW b \in Backups, Killed(b) PROVE BInv'
  BY <1>6, StopKeeps DEF Killed
<1>. QED BY <1>3, <1>4, <1>5, <1>6, StopAllKeeps DEF CopiasNext, allVars

LEMMA BackupsInitial == CopiasInit => IInv /\ BInv
<1>. SUFFICES ASSUME CopiasInit PROVE BInv
  BY Initial DEF CopiasInit
<1>1. BackupsTyped
  BY CopiasAssumption DEF CopiasInit, BackupsInit, BackupsTyped, Seconds, Steps
<1>. QED BY <1>1 DEF CopiasInit, BackupsInit, BInv, FilesOK, FileOK, OwnersOK, SourceOK,
                     ProgressOK, At

LEMMA BackupsInvariant == CopiasSpec => [](IInv /\ BInv)
BY BackupsInitial, SavesInductive, BackupsInductive, PTL DEF CopiasSpec

\* backup_database: whatever fails, an archive that nobody is writing holds a
\* whole database, unless its backup was killed or shared its second with
\* another; and in the database it restores, every row saved in a transaction is
\* recorded in the outbox.
THEOREM WholeArchivesRestore == CopiasSpec => []ArchivesRestore
<1>1. ASSUME BInv PROVE ArchivesRestore
  <2>1. ASSUME NEW s \in Damaged \ Shared
        PROVE  \E b \in Backups : At(b, "killed") /\ backup[b].second = s
    <3>. DEFINE o == archives[s].by
                named == {b \in Backups : ~ At(b, "none") /\ backup[b].second = s}
    <3>1. s \in Seconds /\ archives[s] # None /\ ~ archives[s].whole
          /\ \A b \in Backups : At(b, "gzip") => backup[b].second # s
      BY <2>1 DEF Damaged, Listed
    <3>2. o \in Backups /\ backup[o].second = s
          /\ backup[o].step \in {"gzip", "done", "failed", "killed"}
      BY <1>1, <3>1 DEF BInv, BackupsTyped, Files, OwnersOK
    <3>3. o \in named
      BY <3>2 DEF At
    <3>4. ASSUME NEW b \in named \ {o} PROVE FALSE
      <4>1. Cardinality({b, o}) = 2 /\ {b, o} \subseteq named
        <5>1. IsFiniteSet({o}) /\ Cardinality({o}) = 1
          BY FS_Singleton
        <5>2. {b, o} = {o} \cup {b} /\ b \notin {o}
          OBVIOUS
        <5>3. Cardinality({o} \cup {b}) = Cardinality({o}) + 1
          BY <5>1, <5>2, FS_AddElement
        <5>. QED BY <3>3, <5>1, <5>2, <5>3
      <4>2. IsFiniteSet(named) /\ Cardinality(named) \in Nat
        BY CopiasAssumption, FS_Subset, FS_CardinalityType
      <4>3. Cardinality({b, o}) <= Cardinality(named)
        BY <4>1, <4>2, FS_Subset
      <4>4. s \in Shared
        BY <3>1, <4>1, <4>2, <4>3 DEF Shared
      <4>. QED BY <2>1, <4>4
    <3>5. Sole(o)
      BY <3>2, <3>4 DEF Sole
    <3>6. At(o, "killed")
      BY <1>1, <3>1, <3>2, <3>5 DEF BInv, ProgressOK, At
    <3>. QED BY <3>2, <3>6
  <2>2. ASSUME NEW s \in Listed, archives[s].whole PROVE Restores(archives[s].image)
    BY <1>1, <2>2 DEF Listed, BInv, FilesOK, FileOK
  <2>. QED BY <2>1, <2>2 DEF ArchivesRestore, Restores
<1>. QED BY <1>1, BackupsInvariant, PTL

-----------------------------------------------------------------------------
(***************************************************************************)
(* A save that has the database to itself.                                 *)
(***************************************************************************)

\* The row in memory is the one that was loaded, but for the field that changes
\* and the version.
ChangesOne(t, old) ==
  /\ old \in Row /\ t.field \in Fields
  /\ \A f \in Fields \ {t.field} : t.row[f] = old[f]
  /\ t.entity \notin Synced => t.row.version = old.version

\* The row in the table is the one in memory, but for the version of a row that
\* is saved in part.
Stores(t) ==
  LET e == t.entity
  IN /\ rows[e] \in Row /\ \A f \in Fields : rows[e][f] = t.row[f]
     /\ e \notin Partial \cap Synced => t.row.version = rows[e].version

\* What a request that runs alone has loaded, changed and left behind.
AloneOK(w) ==
  LET t == task[w]
      e == task[w].entity
  IN /\ \A v \in Workers \ {w} : pc[v] = "idle"
     /\ stored[w] \in Row \cup {None}
     /\ pc[w] \in {"before", "write"} =>
          /\ rows[e] = stored[w] /\ (t.adding <=> stored[w] = None)
          /\ ~ t.adding => ChangesOne(t, stored[w])
     /\ pc[w] # "before" /\ e \in Audited => t.before = stored[w]
     /\ pc[w] \in {"record", "audit"} => Stores(t)
     /\ pc[w] = "audit" /\ e \in Synced =>
          /\ Len(outbox[e]) > 0 /\ Last(outbox[e]).operation # "delete"
          /\ Last(outbox[e]).row = t.row

AInv == \A w \in Workers : IF pc[w] = "idle" THEN alone[w] ELSE alone[w] => AloneOK(w)

LEMMA MCInvariant == MCSpec => [](IInv /\ BInv)
<1>1. MCInit => IInv /\ BInv
  BY BackupsInitial DEF MCInit
<1>2. [MCNext]_<<allVars, alone, stored, backups>> => [CopiasNext]_allVars
  BY DEF MCNext
<1>. QED BY <1>1, <1>2, SavesInductive, BackupsInductive, PTL DEF MCSpec

\* A request begins with a load or a creation.
LEMMA FirstStep ==
  ASSUME IInv, CopiasNext, NEW w \in Workers, pc[w] = "idle", pc'[w] # "idle"
  PROVE  LoadRequest(w) \/ CreateRequest(w)
<1>1. pc' # pc
  OBVIOUS
<1>2. CASE Stop
  BY <1>2 DEF Stop
<1>3. ASSUME NEW b \in Backups, Killed(b) PROVE FALSE
  BY <1>1, <1>3 DEF Killed
<1>4. CASE UNCHANGED vars
  BY <1>1, <1>4 DEF vars, requestVars
<1>5. CASE Next
  <2>1. PICK v \in Workers : Save(v) \/ BulkUpdate(v) \/ Delete(v) \/ Crash(v)
    BY <1>5 DEF Next
  <2>2. ~ BulkUpdate(v) /\ ~ Delete(v)
    BY <1>1 DEF BulkUpdate, Delete, AtOnce
  <2>3. Save(v) \/ Crash(v)
    BY <2>1, <2>2
  <2>4. v = w
    <3>1. \A u \in Workers \ {v} : pc'[u] = pc[u]
      BY <2>3 DEF Save, Crash, Dies, End, Step, Keep, LoadRequest, Begin, Counted, CreateRequest,
                  PreSave, Write, RecordChange, Audit, Commit, IInv, TypeOK
    <3>. QED BY <3>1
  <2>. QED BY <2>3, <2>4 DEF Save, Crash, Dies, End, Step, Keep, PreSave, Write, RecordChange,
                             Audit, Commit
<1>. QED BY <1>2, <1>3, <1>4, <1>5 DEF CopiasNext

\* What happens while the request of w runs alone, before its end: a step of its
\* own, or nothing that touches the saves.
LEMMA OwnStep ==
  ASSUME IInv, AInv, MCNext, NEW w \in Workers, alone'[w], pc[w] # "idle", pc'[w] # "idle"
  PROVE  /\ alone[w] /\ stored'[w] = stored[w]
         /\ \A v \in Workers \ {w} : pc[v] = "idle" /\ pc'[v] = "idle"
         /\ \/ PreSave(w) \/ Write(w) \/ RecordChange(w)
            \/ UNCHANGED <<rows, outbox, trail, pc, task>>
<1>1. /\ alone[w] /\ (\A v \in Workers \ {w} : pc[v] = "idle" /\ pc'[v] = "idle")
      /\ pc'[w] # pc[w] \/ requests' = requests
      /\ stored'[w] = stored[w]
  BY DEF MCNext, AloneNext
<1>2. requests \in Nat
  BY RegistoAssumption DEF IInv, TypeOK
<1>3. ~ Stop
  BY DEF Stop
<1>4. ASSUME NEW v \in Workers, LoadRequest(v) \/ CreateRequest(v) \/ BulkUpdate(v) \/ Delete(v)
      PROVE  FALSE
  <2>1. pc[v] = "idle" /\ requests' = requests + 1 /\ v # w
    BY <1>4 DEF LoadRequest, Begin, Counted, Keep, CreateRequest, BulkUpdate, Delete, AtOnce, Step
  <2>2. pc'[w] = pc[w]
    BY <1>4, <2>1 DEF LoadRequest, Begin, Counted, Keep, CreateRequest, BulkUpdate, Delete, AtOnce,
                      Step, IInv, TypeOK
  <2>. QED BY <1>1, <1>2, <2>1, <2>2
<1>5. ASSUME NEW v \in Workers, Audit(v) \/ Commit(v) \/ Crash(v) PROVE FALSE
  <2>1. pc[v] # "idle" /\ pc'[v] = "idle"
    BY <1>5 DEF Audit, Commit, Crash, Dies, End, Step, Keep, IInv, TypeOK
  <2>. QED BY <1>1, <2>1
<1>6. ASSUME NEW v \in Workers, PreSave(v) \/ Write(v) \/ RecordChange(v) PROVE v = w
  <2>1. pc[v] # "idle"
    BY <1>6 DEF PreSave, Write, RecordChange, Step
  <2>. QED BY <1>1, <2>1
<1>7. \/ PreSave(w) \/ Write(w) \/ RecordChange(w)
      \/ UNCHANGED <<rows, outbox, trail, pc, task>>
  <2>1. CASE Next
    BY <1>4, <1>5, <1>6, <2>1 DEF Next, Save
  <2>2. ASSUME NEW b \in Backups, Killed(b) PROVE UNCHANGED <<rows, outbox, trail, pc, task>>
    BY <2>2 DEF Killed
  <2>3. CASE UNCHANGED vars
    BY <2>3 DEF vars, requestVars
  <2>. QED BY <1>3, <2>1, <2>2, <2>3 DEF MCNext, CopiasNext
<1>. QED BY <1>1, <1>7

LEMMA FirstKeeps ==
  ASSUME IInv, AInv, MCNext, NEW w \in Workers, alone'[w], pc[w] = "idle", pc'[w] # "idle"
  PROVE  AloneOK(w)'
<1>1. /\ (\A v \in Workers \ {w} : pc[v] = "idle" /\ pc'[v] = "idle")
      /\ stored'[w] = rows[task'[w].entity] /\ CopiasNext
  BY DEF MCNext, AloneNext
<1>2. CASE LoadRequest(w)
  <2>1. PICK e \in Entities, field \in Fields, value \in Values :
          /\ rows[e] # None /\ Step(w, "idle", "before")
          /\ Keep(w, [entity |-> e, row |-> [rows[e] EXCEPT ![field] = value],
                      field |-> field, adding |-> FALSE, before |-> None])
          /\ UNCHANGED rows
    BY <1>2 DEF LoadRequest, Begin, Counted, Keep
  <2>2. rows[e] \in Row /\ pc'[w] = "before"
        /\ task'[w] = [entity |-> e, row |-> [rows[e] EXCEPT ![field] = value],
                       field |-> field, adding |-> FALSE, before |-> None]
    BY <2>1 DEF IInv, TypeOK, Step, Keep
  <2>3. ChangesOne(task[w], stored[w])'
    BY <1>1, <2>2 DEF ChangesOne, Row, Fields
  <2>. QED BY <1>1, <2>1, <2>2, <2>3 DEF AloneOK
<1>3. CASE CreateRequest(w)
  <2>1. PICK e \in Entities, value \in Values :
          /\ rows[e] = None /\ Step(w, "idle", "before")
          /\ Keep(w, [entity |-> e, row |-> [value |-> value, note |-> value, version |-> 1],
                      field |-> None, adding |-> TRUE, before |-> None])
          /\ UNCHANGED rows
    BY <1>3 DEF CreateRequest, Begin, Counted, Keep
  <2>2. pc'[w] = "before" /\ task'[w].entity = e /\ task'[w].adding
    BY <2>1 DEF IInv, TypeOK, Step, Keep
  <2>. QED BY <1>1, <2>1, <2>2 DEF AloneOK
<1>. QED BY <1>1, <1>2, <1>3, FirstStep

LEMMA OwnStepKeeps ==
  ASSUME IInv, IInv', AInv, MCNext, NEW w \in Workers, alone'[w], pc[w] # "idle", pc'[w] # "idle"
  PROVE  AloneOK(w)'
<1>. DEFINE t == task[w]
            e == task[w].entity
<1>1. /\ stored'[w] = stored[w] /\ AloneOK(w)
      /\ \A v \in Workers \ {w} : pc[v] = "idle" /\ pc'[v] = "idle"
      /\ \/ PreSave(w) \/ Write(w) \/ RecordChange(w)
         \/ UNCHANGED <<rows, outbox, trail, pc, task>>
  BY OwnStep DEF AInv
<1>2. t \in Task /\ e \in Entities
      /\ (pc[w] \in {"before", "write"} /\ ~ t.adding => t.field \in Fields)
  BY DEF IInv, TaskOK, Task
<1>3. CASE UNCHANGED <<rows, outbox, trail, pc, task>>
  BY <1>1, <1>3 DEF AloneOK, ChangesOne, Stores
<1>4. CASE PreSave(w)
  <2>1. pc[w] = "before" /\ pc'[w] = "write" /\ UNCHANGED <<rows, outbox>>
        /\ task'[w] = [t EXCEPT !.row = BumpVersion(t),
                                !.before = IF e \in Audited THEN rows[e] ELSE None]
    BY <1>4 DEF PreSave, Step, Keep, IInv, TypeOK
  <2>2. task'[w].entity = e /\ task'[w].adding = t.adding /\ task'[w].field = t.field
        /\ task'[w].row = BumpVersion(t) /\ (e \in Audited => task'[w].before = rows[e])
    BY <1>2, <2>1 DEF Task
  <2>3. \A f \in Fields : BumpVersion(t)[f] = t.row[f]
    BY <1>2 DEF BumpVersion, Task, Row, Fields
  <2>4. e \notin Synced => BumpVersion(t) = t.row
    BY DEF BumpVersion
  <2>5. ~ t.adding => ChangesOne(task[w], stored[w])'
    BY <1>1, <2>1, <2>2, <2>3, <2>4 DEF AloneOK, ChangesOne
  <2>. QED BY <1>1, <2>1, <2>2, <2>5 DEF AloneOK
<1>5. CASE Write(w)
  <2>1. /\ ~ Refused(t) /\ rows' = Replace(rows, e, Written(t)) /\ pc[w] = "write"
        /\ pc'[w] = "record" /\ task'[w] = [t EXCEPT !.adding = rows[e] = None]
        /\ e \notin Locked
    BY <1>5 DEF Write, Step, Keep, End, IInv, TypeOK
  <2>2. task'[w].entity = e /\ task'[w].row = t.row /\ task'[w].before = t.before
    BY <1>2, <2>1 DEF Task
  <2>3. rows'[e] = Written(t) /\ Written(t) \in Row
    BY <1>2, <2>1, WrittenIsRow DEF Replace, IInv, TypeOK
  <2>4. /\ \A f \in Fields : Written(t)[f] = t.row[f]
        /\ e \notin Partial \cap Synced => t.row.version = Written(t).version
    <3>1. CASE e \in Partial /\ ~ t.adding
      <4>1. Written(t) = [rows[e] EXCEPT ![t.field] = t.row[t.field]]
            /\ rows[e] = stored[w] /\ ChangesOne(t, stored[w])
        BY <1>1, <2>1, <3>1 DEF Written, AloneOK
      <4>. QED BY <1>2, <3>1, <4>1 DEF ChangesOne, Row, Fields
    <3>2. CASE ~ (e \in Partial /\ ~ t.adding)
      BY <3>2 DEF Written
    <3>. QED BY <3>1, <3>2
  <2>5. Stores(task[w])'
    BY <2>2, <2>3, <2>4 DEF Stores
  <2>. QED BY <1>1, <2>1, <2>2, <2>5 DEF AloneOK
<1>6. CASE RecordChange(w)
  <2>1. pc[w] = "record" /\ pc'[w] = "audit" /\ UNCHANGED <<rows, task>>
    BY <1>6 DEF RecordChange, Step, IInv, TypeOK
  <2>2. ASSUME e \in Synced
        PROVE  /\ Len(outbox'[e]) > 0 /\ Last(outbox'[e]).operation # "delete"
               /\ Last(outbox'[e]).row = t.row
    <3>. DEFINE c == Change(IF t.adding THEN "create" ELSE "update", t.row)
                Changes == [operation : {"create", "update", "delete"}, row : Row]
    <3>1. outbox' = Log(outbox, e, c)
      BY <1>6, <2>2 DEF RecordChange
    <3>2. c \in Changes /\ c.operation # "delete" /\ c.row = t.row
      BY <1>2 DEF Change, Task
    <3>3. outbox[e] \in Seq(Changes) /\ DOMAIN outbox = Entities
      BY <1>2 DEF IInv, TypeOK
    <3>. HIDE DEF c, Changes
    <3>4. outbox'[e] = Append(outbox[e], c)
      BY <1>2, <3>1, <3>3 DEF Log
    <3>5. Len(outbox'[e]) = Len(outbox[e]) + 1 /\ outbox'[e][Len(outbox[e]) + 1] = c
          /\ Len(outbox[e]) \in Nat
      BY <3>2, <3>3, <3>4
    <3>. QED BY <3>2, <3>5 DEF Last
  <2>. QED BY <1>1, <2>1, <2>2 DEF AloneOK, Stores
<1>. QED BY <1>1, <1>3, <1>4, <1>5, <1>6

LEMMA AloneInductive ==
  ASSUME IInv, IInv', AInv, [MCNext]_<<allVars, alone, stored, backups>>
  PROVE  AInv'
<1>1. CASE UNCHANGED <<allVars, alone, stored, backups>>
  BY <1>1 DEF allVars, vars, requestVars, AInv, AloneOK, ChangesOne, Stores
<1>2. ASSUME MCNext, NEW w \in Workers
      PROVE  IF pc'[w] = "idle" THEN alone'[w] ELSE alone'[w] => AloneOK(w)'
  <2>1. pc'[w] = "idle" => alone'[w]
    BY <1>2 DEF MCNext, AloneNext
  <2>. QED BY <1>2, <2>1, FirstKeeps, OwnStepKeeps
<1>. QED BY <1>1, <1>2 DEF AInv

LEMMA AloneInvariant == MCSpec => []AInv
<1>1. MCInit => AInv
  BY DEF MCInit, AloneInit, CopiasInit, Init, RequestsInit, AInv
<1>2. IInv /\ IInv' /\ AInv /\ [MCNext]_<<allVars, alone, stored, backups>> => AInv'
  BY AloneInductive
<1>. QED BY <1>1, <1>2, MCInvariant, PTL DEF MCSpec

\* The last step of a save that has not died.
LEMMA LastStep ==
  ASSUME IInv, CopiasNext, NEW w \in Workers, pc[w] = "audit", pc'[w] = "idle",
         crashes' = crashes
  PROVE  Audit(w)
<1>1. crashes \in Nat
  BY PedidosAssumption DEF IInv, TypeOK
<1>2. CASE Stop
  <2>. DEFINE killed == {b \in Backups : Running(b)}
              dead == {v \in Workers : pc[v] # "idle"}
  <2>1. IsFiniteSet(killed) /\ IsFiniteSet(dead)
    BY FS_Subset, CopiasAssumption
  <2>2. Cardinality(killed) \in Nat /\ Cardinality(dead) \in Nat
        /\ (Cardinality(dead) = 0 => dead = {})
    BY <2>1, FS_CardinalityType, FS_EmptySet
  <2>3. w \in dead
    OBVIOUS
  <2>4. crashes' = crashes + Cardinality(killed) + Cardinality(dead)
    BY <1>2 DEF Stop
  <2>. HIDE DEF killed, dead
  <2>. QED BY <1>1, <2>2, <2>3, <2>4
<1>3. ASSUME NEW b \in Backups, Killed(b) PROVE FALSE
  BY <1>3 DEF Killed
<1>4. CASE UNCHANGED vars
  BY <1>4 DEF vars, requestVars
<1>5. CASE Next
  <2>1. PICK v \in Workers : Save(v) \/ BulkUpdate(v) \/ Delete(v) \/ Crash(v)
    BY <1>5 DEF Next
  <2>2. ~ BulkUpdate(v) /\ ~ Delete(v)
    BY DEF BulkUpdate, Delete, AtOnce
  <2>3. ~ Crash(v)
    BY <1>1 DEF Crash, Dies, End, Step, Keep
  <2>4. Save(v)
    BY <2>1, <2>2, <2>3
  <2>5. \A u \in Workers \ {v} : pc'[u] = pc[u]
    BY <2>4 DEF Save, LoadRequest, Begin, Counted, Keep, CreateRequest, PreSave, Write,
                RecordChange, Audit, Commit, End, Step, IInv, TypeOK
  <2>6. v = w
    BY <2>5
  <2>. QED BY <2>4, <2>6 DEF Save, LoadRequest, Begin, Counted, Keep, CreateRequest, PreSave,
                             Write, RecordChange, Commit, End, Step
<1>. QED BY <1>2, <1>3, <1>4, <1>5 DEF CopiasNext

\* audit/signals.py and sync/signals.py: a save that ran alone and did not die
\* leaves, as the last record of a synchronised row, what is stored, but for the
\* version of a row saved in part; and for an audited row that has changed one
\* more entry, with the row as it was loaded and as it is now.
THEOREM SavesLeaveTrace == MCSpec => AloneLeavesTrace
<1>. DEFINE Trace ==
       \A w \in Workers :
         EndsAlone(w, "audit") =>
           LET e == task[w].entity
           IN /\ e \in Synced =>
                   /\ Last(outbox'[e]).operation # "delete"
                   /\ IF e \in Partial
                      THEN [Last(outbox'[e]).row EXCEPT !.version = rows'[e].version] = rows'[e]
                      ELSE Last(outbox'[e]).row = rows'[e]
              /\ e \in Audited /\ rows'[e] # stored[w] =>
                   /\ Len(trail'[e]) = Len(trail[e]) + 1
                   /\ Last(trail'[e]) = [before |-> stored[w], after |-> rows'[e]]
<1>1. ASSUME IInv, AInv, MCNext PROVE Trace
  <2>. SUFFICES ASSUME NEW w \in Workers, alone[w], pc[w] = "audit", pc'[w] = "idle",
                       crashes' = crashes
                PROVE  LET e == task[w].entity
                       IN /\ e \in Synced =>
                               /\ Last(outbox'[e]).operation # "delete"
                               /\ IF e \in Partial
                                  THEN [Last(outbox'[e]).row EXCEPT !.version = rows'[e].version]
                                         = rows'[e]
                                  ELSE Last(outbox'[e]).row = rows'[e]
                          /\ e \in Audited /\ rows'[e] # stored[w] =>
                               /\ Len(trail'[e]) = Len(trail[e]) + 1
                               /\ Last(trail'[e]) = [before |-> stored[w], after |-> rows'[e]]
    BY DEF EndsAlone
  <2>. DEFINE t == task[w]
              e == task[w].entity
              entry == Entry(t.before, t.row)
  <2>1. Audit(w)
    BY <1>1, LastStep DEF MCNext
  <2>2. AloneOK(w) /\ UNCHANGED <<rows, outbox>>
    BY <1>1, <2>1 DEF AInv, Audit
  <2>3. t \in Task /\ e \in Entities /\ t.row \in Row
    BY <1>1 DEF IInv, TaskOK, Task
  <2>4. rows[e] \in Row /\ (e \notin Partial \cap Synced => t.row = rows[e])
        /\ [t.row EXCEPT !.version = rows[e].version] = rows[e]
    <3>1. Stores(t)
      BY <2>2 DEF AloneOK
    <3>. QED BY <2>3, <3>1 DEF Stores, Row, Fields
  <2>5. e \in Synced => /\ Last(outbox[e]).operation # "delete"
                        /\ Last(outbox[e]).row = t.row
    BY <2>2 DEF AloneOK
  <2>6. ASSUME e \in Audited, rows[e] # stored[w]
        PROVE  /\ Len(trail'[e]) = Len(trail[e]) + 1
               /\ Last(trail'[e]) = [before |-> stored[w], after |-> rows[e]]
    <3>. DEFINE Entries == [before : Row \cup {None}, after : Row \cup {None}]
    <3>1. t.before = stored[w] /\ t.row = rows[e]
      BY <2>2, <2>4, <2>6, RegistoAssumption DEF AloneOK
    <3>2. entry = [before |-> stored[w], after |-> rows[e]] /\ entry \in Entries
      BY <2>3, <3>1 DEF Entry, Task
    <3>3. trail' = Log(trail, e, entry)
      BY <2>1, <2>6, <3>1 DEF Audit
    <3>4. trail[e] \in Seq(Entries) /\ DOMAIN trail = Entities
      BY <1>1, <2>3 DEF IInv, TypeOK
    <3>. HIDE DEF entry, Entries
    <3>5. trail'[e] = Append(trail[e], entry)
      BY <2>3, <3>3, <3>4 DEF Log
    <3>6. Len(trail'[e]) = Len(trail[e]) + 1 /\ trail'[e][Len(trail[e]) + 1] = entry
          /\ Len(trail[e]) \in Nat
      BY <3>2, <3>4, <3>5
    <3>. QED BY <3>2, <3>6 DEF Last
  <2>. QED BY <2>2, <2>4, <2>5, <2>6
<1>2. [MCNext]_<<allVars, alone, stored, backups>> /\ IInv /\ AInv
        => [Trace]_<<allVars, alone, stored, backups>>
  BY <1>1
<1>. HIDE DEF Trace
<1>3. MCSpec => [][Trace]_<<allVars, alone, stored, backups>>
  BY <1>2, MCInvariant, AloneInvariant, PTL DEF MCSpec
<1>. QED BY <1>3 DEF Trace, AloneLeavesTrace
=============================================================================

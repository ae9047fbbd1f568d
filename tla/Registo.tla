------------------------------ MODULE Registo ------------------------------
(* What a save leaves behind: the outbox of the synchronisation               *)
(* (apps/sync/signals.py) and the audit trail (apps/audit/signals.py), written *)
(* by the signals that Model.save and Model.delete send.                       *)
(*                                                                            *)
(* There is one row of each entity. A save reads the row, changes a field,     *)
(* increments the version, writes every column or those of update_fields, and  *)
(* then sends post_save. Unless the caller has opened a transaction each of    *)
(* these statements commits alone.                                            *)
EXTENDS Pedidos, Integers, Sequences, FiniteSets

CONSTANTS
  Entities,     \* models that are saved
  Synced,       \* those that inherit SyncedModel
  Audited,      \* those audit_model has been called for
  Partial,      \* those saved with update_fields, "version" not among them
  Bulk,         \* those also written by QuerySet.update
  Locked,       \* those saved under select_for_update, in a transaction
  Values        \* of a field

ASSUME RegistoAssumption ==
  /\ Synced \cup Audited \cup Partial \cup Bulk \cup Locked \subseteq Entities
  /\ Locked \subseteq Synced /\ Locked \cap (Audited \cup Partial \cup Bulk) = {}
  /\ Audited \cap Synced \cap Partial = {}
  /\ Values # {} /\ None \notin Values \cup Workers

VARIABLES
  rows,    \* entity -> its row, or None
  outbox,  \* entity -> its rows of ChangeRecord, in the order of created_at
  trail,   \* entity -> its rows of AuditLogEntry, in the order of timestamp
  lock     \* entity -> the worker whose transaction has locked its row, or None

vars == <<rows, outbox, trail, lock, requestVars>>

Fields == {"value", "note"}

\* The version of a model that is not synchronised stays 1.
Row == [value : Values, note : Values, version : Nat]

ASSUME NoneAssumption == None \notin Row

\* ChangeRecord: the payload is the instance in memory; a deleted row's too.
Change(operation, row) == [operation |-> operation, row |-> row]

Entry(before, after) == [before |-> before, after |-> after]

-----------------------------------------------------------------------------
Same == UNCHANGED <<requests, crashes>>

Replace(table, e, row) == [table EXCEPT ![e] = row]
Log(table, e, row) == [table EXCEPT ![e] = Append(@, row)]

\* The request reads the row, under select_for_update when the entity is saved
\* in a transaction, and assigns one field of it.
LoadRequest(w) ==
  \E e \in Entities, field \in Fields, value \in Values :
    /\ rows[e] # None /\ lock[e] = None
    /\ Begin(w, "before", [entity |-> e, row |-> [rows[e] EXCEPT ![field] = value],
                           field |-> field, adding |-> FALSE, before |-> None])
    /\ lock' = IF e \in Locked THEN Replace(lock, e, w) ELSE lock
    /\ UNCHANGED <<rows, outbox, trail>>

\* Model.objects.create
CreateRequest(w) ==
  \E e \in Entities \ Locked, value \in Values :
    /\ rows[e] = None
    /\ Begin(w, "before", [entity |-> e, row |-> [value |-> value, note |-> value, version |-> 1],
                           field |-> None, adding |-> TRUE, before |-> None])
    /\ UNCHANGED <<rows, outbox, trail, lock>>

\* Fault: the version is not incremented.
VersionKept(t) == t.row

\* bump_version_before_update
BumpVersion(t) ==
  IF t.adding \/ t.entity \notin Synced THEN t.row ELSE [t.row EXCEPT !.version = @ + 1]

\* Fault: the image is that of the instance, already changed.
PreSaveOwnImage(w) ==
  /\ Step(w, "before", "write")
  /\ Keep(w, [task[w] EXCEPT !.row = BumpVersion(task[w]), !.before = task[w].row])
  /\ Same /\ UNCHANGED <<rows, outbox, trail, lock>>

\* pre_save: the version, and for an audited model the row as it now is.
PreSave(w) ==
  /\ Step(w, "before", "write")
  /\ Keep(w, [task[w] EXCEPT !.row = BumpVersion(task[w]),
                             !.before = IF task[w].entity \in Audited THEN rows[task[w].entity]
                                        ELSE None])
  /\ Same /\ UNCHANGED <<rows, outbox, trail, lock>>

\* The row an UPDATE or INSERT leaves in the table: every column, or the one in
\* update_fields.
Written(t) ==
  IF t.entity \in Partial /\ ~ t.adding
  THEN [rows[t.entity] EXCEPT ![t.field] = t.row[t.field]]
  ELSE t.row

\* The row to create exists meanwhile, or the one to update in part does not.
Refused(t) ==
  IF t.adding THEN rows[t.entity] # None ELSE rows[t.entity] = None /\ t.entity \in Partial

\* A whole row that has been deleted meanwhile is inserted again.
Write(w) ==
  /\ pc[w] = "write" /\ task[w].entity \notin Locked
  /\ IF Refused(task[w])
     THEN End(w, "write") /\ UNCHANGED rows
     ELSE /\ rows' = Replace(rows, task[w].entity, Written(task[w]))
          /\ Step(w, "write", "record")
          /\ Keep(w, [task[w] EXCEPT !.adding = rows[task[w].entity] = None])
  /\ Same /\ UNCHANGED <<outbox, trail, lock>>

\* Fault: creations are not recorded.
RecordUpdates(w) ==
  /\ Step(w, "record", "audit")
  /\ outbox' = IF task[w].entity \in Synced /\ ~ task[w].adding
               THEN Log(outbox, task[w].entity, Change("update", task[w].row))
               ELSE outbox
  /\ Same /\ UNCHANGED <<rows, trail, lock, task>>

\* record_change_on_save
RecordChange(w) ==
  /\ Step(w, "record", "audit")
  /\ outbox' = IF task[w].entity \in Synced
               THEN Log(outbox, task[w].entity,
                        Change(IF task[w].adding THEN "create" ELSE "update", task[w].row))
               ELSE outbox
  /\ Same /\ UNCHANGED <<rows, trail, lock, task>>

\* audit_model, post_save_handler: a row that has been inserted is always logged;
\* the image of a SyncedModel holds updated_at, which always differs.
Audit(w) ==
  /\ pc[w] = "audit" /\ End(w, "audit")
  /\ LET t == task[w]
     IN trail' = IF t.entity \in Audited /\ (t.adding \/ t.entity \in Synced \/ t.before # t.row)
                 THEN Log(trail, t.entity, Entry(t.before, t.row)) ELSE trail
  /\ Same /\ UNCHANGED <<rows, outbox, lock>>

\* The same inside a transaction: row and record are committed together.
Commit(w) ==
  /\ pc[w] = "write" /\ task[w].entity \in Locked /\ End(w, "write")
  /\ rows' = Replace(rows, task[w].entity, task[w].row)
  /\ outbox' = Log(outbox, task[w].entity, Change("update", task[w].row))
  /\ lock' = Replace(lock, task[w].entity, None)
  /\ Same /\ UNCHANGED trail

-----------------------------------------------------------------------------
\* QuerySet.update sends no signal.
BulkUpdate(w) ==
  \E e \in Bulk, value \in Values :
    /\ rows[e] # None /\ AtOnce(w)
    /\ rows' = [rows EXCEPT ![e].value = value]
    /\ UNCHANGED <<outbox, trail, lock>>

\* Django Admin deletes in a transaction; record_change_on_delete and
\* post_delete_handler run in it.
Delete(w) ==
  \E e \in Entities \ Locked :
    /\ rows[e] # None /\ AtOnce(w)
    /\ rows' = Replace(rows, e, None)
    /\ outbox' = IF e \in Synced THEN Log(outbox, e, Change("delete", rows[e])) ELSE outbox
    /\ trail' = IF e \in Audited THEN Log(trail, e, Entry(rows[e], None)) ELSE trail
    /\ UNCHANGED lock

\* A process dies, and with it the transaction it had open.
Crash(w) ==
  /\ Dies(w)
  /\ lock' = [e \in Entities |-> IF lock[e] = w THEN None ELSE lock[e]]
  /\ UNCHANGED <<rows, outbox, trail>>

First == CHOOSE value \in Values : TRUE
FirstRow == [value |-> First, note |-> First, version |-> 1]

Init ==
  /\ rows = [e \in Entities |-> FirstRow]
  /\ outbox = [e \in Entities |-> IF e \in Synced THEN <<Change("create", FirstRow)>> ELSE <<>>]
  /\ trail = [e \in Entities |-> IF e \in Audited THEN <<Entry(None, FirstRow)>> ELSE <<>>]
  /\ lock = [e \in Entities |-> None]
  /\ RequestsInit

Save(w) ==
  \/ LoadRequest(w) \/ CreateRequest(w) \/ PreSave(w) \/ Write(w)
  \/ RecordChange(w) \/ Audit(w) \/ Commit(w)

Next == \E w \in Workers : Save(w) \/ BulkUpdate(w) \/ Delete(w) \/ Crash(w)

Spec == Init /\ [][Next]_vars

-----------------------------------------------------------------------------
TypeOK ==
  /\ rows \in [Entities -> Row \cup {None}]
  /\ outbox \in [Entities -> Seq([operation : {"create", "update", "delete"}, row : Row])]
  /\ trail \in [Entities -> Seq([before : Row \cup {None}, after : Row \cup {None}])]
  /\ lock \in [Entities -> Workers \cup {None}]
  /\ pc \in [Workers -> {"idle", "before", "write", "record", "audit"}]
  /\ requests \in 0 .. MaxRequests /\ crashes \in 0 .. MaxCrashes

\* No request has written the row of e and not yet recorded it.
Settled(e) == \A w \in Workers : pc[w] \in {"record", "audit"} => task[w].entity # e

\* "exactly one ChangeRecord -- in the same transaction as the business change":
\* once no save is under way, the row that is stored, or its deletion, is the
\* payload of a record, however the saves have raced. For a row saved in a
\* transaction this holds wherever processes die; for one saved without, as
\* long as none has; a partial or bulk save leaves rows that nothing has
\* recorded.
StoredIsRecorded ==
  \A e \in Synced \ (Partial \cup Bulk) :
    Settled(e) /\ (e \in Locked \/ crashes = 0) =>
      \E n \in DOMAIN outbox[e] :
        IF rows[e] = None THEN outbox[e][n].operation = "delete"
                          ELSE outbox[e][n].row = rows[e]

\* docs/08 section 8.6, the version tells an older change from a newer one: so
\* it does between the records of a row that is saved under its lock.
LockedVersionsIncrease ==
  \A e \in Locked : \A m, n \in DOMAIN outbox[e] :
    m < n => outbox[e][m].row.version < outbox[e][n].row.version
=============================================================================

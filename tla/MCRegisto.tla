------------------------------ MODULE MCRegisto ------------------------------
(* Small instances of Registo and Copias for TLC. A behaviour has either saves *)
(* only, or backups and the saves, of rows saved in a transaction, that run    *)
(* beside them.                                                                *)
EXTENDS Copias, MCPedidos

CONSTANT BackupRequests \* bound: requests of a behaviour with backups

Symmetry == Permutations(Workers) \cup Permutations(Backups)

VARIABLES
  stored, \* worker -> the row in the table when its request loaded it
  backups \* there are backups

MCInit ==
  /\ CopiasInit /\ backups \in BOOLEAN
  /\ AloneInit /\ stored = [w \in Workers |-> None]

MCNext ==
  /\ CopiasNext /\ AloneNext /\ backups' = backups
  /\ IF backups
     THEN /\ requests' <= BackupRequests
          /\ \A e \in Entities \ Locked : rows'[e] = rows[e]
          /\ \A w \in Workers : pc'[w] # "idle" => task'[w].entity \in Locked
     ELSE backupVars' = backupVars
  /\ stored' = [w \in Workers |->
                 IF pc'[w] = "idle" THEN None
                 ELSE IF pc[w] = "idle" THEN rows[task'[w].entity] ELSE stored[w]]

MCSpec == MCInit /\ [][MCNext]_<<allVars, alone, stored, backups>>

Last(log) == log[Len(log)]

\* audit/signals.py and sync/signals.py: a save that ran alone and did not die
\* leaves, as the last record of a synchronised row, what is stored, but for the
\* version when update_fields leaves it out; and for an audited row one more
\* entry, with the row as it was loaded and as it is now, unless nothing changed.
AloneLeavesTrace ==
  [][\A w \in Workers :
       EndsAlone(w, "audit") =>
         LET e == task[w].entity
         IN /\ e \in Synced =>
                 /\ Last(outbox'[e]).operation # "delete"
                 /\ IF e \in Partial
                    THEN [Last(outbox'[e]).row EXCEPT !.version = rows'[e].version] = rows'[e]
                    ELSE Last(outbox'[e]).row = rows'[e]
            /\ e \in Audited /\ rows'[e] # stored[w] =>
                 /\ Len(trail'[e]) = Len(trail[e]) + 1
                 /\ Last(trail'[e]) = [before |-> stored[w], after |-> rows'[e]]
    ]_<<allVars, alone, stored, backups>>
=============================================================================

------------------------------- MODULE MCContas -------------------------------
(* Small instances of Contas for TLC, with a history variable that tells the   *)
(* requests no other request has overlapped.                                  *)
EXTENDS Contas, TLC

Symmetry == Permutations(Workers)

VARIABLE alone \* worker -> its request has had the database to itself so far

MCInit == Init /\ alone = [w \in Workers |-> TRUE]

MCNext ==
  /\ Next
  /\ alone' = [w \in Workers |->
                pc'[w] = "idle" \/ (alone[w] /\ \A v \in Workers \ {w} : pc'[v] = "idle")]

MCSpec == MCInit /\ [][MCNext]_<<vars, alone>> /\ Fairness

\* What the operations on a lockout promise (ContasServico).
LockoutOf(row) == [failed |-> row.failed, left |-> row.left, count |-> row.count]
Lockouts == [u \in DOMAIN users |-> LockoutOf(users[u])]
Servico == INSTANCE ContasServico WITH lockouts <- Lockouts, Duration <- LockoutDuration

\* AccountLockoutMixin, "until the lockout expires or an Administrator unlocks
\* it", and register_failed_login, "a no-op while already locked": whatever
\* races have gone before, the split reads, counts and writes of a request that
\* runs alone have the effect of the operations promised.
ImplementsLockout ==
  Servico!Init /\ [][(\A w \in Workers : pc'[w] # pc[w] => alone[w]) => Servico!Next]_Lockouts

\* sync_profile_group_membership, "`groups` are always derived from it": whatever
\* groups races and crashes have left, a save that runs alone leaves the user
\* in the group of its profile and in no other.
AloneSyncsGroups ==
  [][\A w \in Workers :
       /\ pc[w] \in {"update", "groups", "set"} /\ pc'[w] = "idle"
       /\ alone[w] /\ crashes' = crashes
       => LET row == users'[task[w].user]
          IN /\ groups'[task[w].user] = {row.profile}
             /\ row.profile = SuperAdmin => row.superuser]_<<vars, alone>>
=============================================================================

---------------------------- MODULE ContasServico ----------------------------
(***************************************************************************)
(* What apps/accounts promises about the lockout of an account, each       *)
(* failed login, login and unlock as one indivisible step over three       *)
(* columns of User: failures are counted up to a limit, each lockout lasts *)
(* what the lockouts before it justify, and only time and an Administrator *)
(* end one.  Contas implements it when a request runs alone.               *)
(***************************************************************************)
EXTENDS Naturals

CONSTANTS
  Users, MaxFailed,
  Duration(_) \* the minutes the lockout after n others lasts

VARIABLE lockouts \* username -> its failures, the time to locked_until, its lockouts

Clear == [failed |-> 0, left |-> 0, count |-> 0]

Open(u) == u \in DOMAIN lockouts /\ lockouts[u].left = 0

\* create_user.
Create(u) ==
  /\ u \notin DOMAIN lockouts
  /\ lockouts' = [v \in DOMAIN lockouts \cup {u} |-> IF v = u THEN Clear ELSE lockouts[v]]

\* register_failed_login, of a failure that does not lock the account yet.
Fail(u) ==
  /\ Open(u) /\ lockouts[u].failed + 1 < MaxFailed
  /\ lockouts' = [lockouts EXCEPT ![u].failed = @ + 1]

\* ... and of one that does. The lockout lasts from the failure, which may be
\* minutes old when the account is saved.
Lock(u) ==
  /\ Open(u) /\ lockouts[u].failed + 1 >= MaxFailed
  /\ \E minutes \in 0 .. Duration(lockouts[u].count) :
       lockouts' = [lockouts EXCEPT ![u] = [failed |-> 0, left |-> minutes, count |-> @.count + 1]]

\* reset_lockout_state, of a login that authenticate() let through.
Login(u) == Open(u) /\ lockouts' = [lockouts EXCEPT ![u] = Clear]

\* CustomUserAdmin.unlock_accounts.
Unlock(u) == u \in DOMAIN lockouts /\ lockouts' = [lockouts EXCEPT ![u] = Clear]

Minute ==
  lockouts' = [u \in DOMAIN lockouts |->
                 [lockouts[u] EXCEPT !.left = IF @ = 0 THEN 0 ELSE @ - 1]]

Init == \E old \in SUBSET Users : lockouts = [u \in old |-> Clear]

Next ==
  \/ \E u \in Users : Create(u) \/ Fail(u) \/ Lock(u) \/ Login(u) \/ Unlock(u)
  \/ Minute

Spec == Init /\ [][Next]_lockouts

=============================================================================

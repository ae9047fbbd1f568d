------------------------------- MODULE Contas -------------------------------
(* The accounts of a node (apps/accounts): the progressive lockout after       *)
(* failed logins, the groups a user has through its profile, the enrolment of  *)
(* the device of the second factor and the session of the user.               *)
(*                                                                            *)
(* Requests are served by several processes without ATOMIC_REQUESTS, so that   *)
(* each query or save is a step of its own; a step of the model is one of     *)
(* them with the computation around it. "left" is the time from now to         *)
(* locked_until: a minute that passes shortens it in the rows and in the       *)
(* copies the processes hold, both of which record the same instant.          *)
EXTENDS Pedidos, Sequences, FiniteSets

CONSTANTS
  Users,        \* usernames
  Profiles,     \* Profile.choices
  SuperAdmin,   \* Profile.SUPER_ADMIN
  Mandatory,    \* MANDATORY_2FA_PROFILES
  MaxFailed,    \* MAX_FAILED_LOGIN_ATTEMPTS
  BaseLockout, BackoffFactor, MaxLockout, \* minutes
  MaxLockouts   \* bound: lockouts in a row

ASSUME LockoutAssumption ==
  /\ MaxFailed \in Nat \ {0} /\ BaseLockout \in Nat \ {0}
  /\ BackoffFactor \in Nat \ {0} /\ MaxLockout \in Nat \ {0}
ASSUME ProfileAssumption == SuperAdmin \in Profiles /\ Mandatory \subseteq Profiles

VARIABLES
  users,    \* username -> row of accounts.User
  groups,   \* username -> profiles whose group the user is in
  devices,  \* rows of TOTPDevice, in the order of their identifiers
  session   \* username -> "none", "open" or "verified" (OTP)

vars == <<users, groups, devices, session, requestVars>>

Row == [failed : 0 .. MaxFailed - 1, left : Nat, count : Nat,
        profile : Profiles, active : BOOLEAN, superuser : BOOLEAN]

\* The profiles the screens of the site may give.
Assignable == Profiles \ {SuperAdmin}

\* PROFILE_GROUP_NAMES gives each profile a group of its own: its name stands for it.
GroupsOf(profile) == {profile}

NewRow(p) == [failed |-> 0, left |-> 0, count |-> 0,
              profile |-> p, active |-> TRUE, superuser |-> FALSE]

-----------------------------------------------------------------------------
(* Lockout: apps/accounts/services.py.                                        *)

LockoutDuration(count) ==
  LET minutes == BaseLockout * BackoffFactor ^ count
  IN IF minutes \in 1 .. MaxLockout THEN minutes ELSE MaxLockout

\* Fault: the next lockout counts from one too late.
LockoutAfterCount(row) ==
  IF row.failed + 1 < MaxFailed
  THEN [row EXCEPT !.failed = @ + 1]
  ELSE [row EXCEPT !.left = LockoutDuration(row.count + 1), !.count = @ + 1, !.failed = 0]

\* Fault: a failure that does not reach the limit forgets the earlier ones.
FailureForgets(row) ==
  IF row.failed + 1 < MaxFailed
  THEN [row EXCEPT !.failed = 0]
  ELSE [row EXCEPT !.left = LockoutDuration(row.count), !.count = @ + 1, !.failed = 0]

IsLocked(row) == row.left > 0

AfterFailure(row) ==
  IF row.failed + 1 < MaxFailed
  THEN [row EXCEPT !.failed = @ + 1]
  ELSE [row EXCEPT !.left = LockoutDuration(row.count), !.count = @ + 1, !.failed = 0]

Unlocked(row) == [row EXCEPT !.failed = 0, !.left = 0, !.count = 0]

-----------------------------------------------------------------------------
KeepRow(w, row) == task' = [task EXCEPT ![w].row = row]

\* The row has been saved: the post_save handler of User looks at the groups.
Saved(w, from) ==
  /\ Step(w, from, "groups")
  /\ task' = [task EXCEPT ![w] = [user |-> @.user, profile |-> @.row.profile]]

\* save(update_fields=["failed_login_attempts", "locked_until", "lockout_count"])
SaveLockout(w, from, row) ==
  LET u == task[w].user
  IN /\ Saved(w, from)
     /\ users' = [users EXCEPT ![u].failed = row.failed, ![u].left = row.left,
                               ![u].count = row.count]

(* LoginForm.clean and the login of the Django Admin, which has no such check, *)
(* then authenticate() with its backends.                                     *)
Login(w, u, correct, screen) ==
  /\ u \in DOMAIN users
  /\ screen = "form" => ~ IsLocked(users[u])
  /\ correct => session[u] = "none"
  /\ users[u].count < MaxLockouts
  /\ Step(w, "idle", IF correct THEN "authenticate" ELSE "failure")
  /\ task' = [task EXCEPT ![w] = [user |-> u, row |-> None]]
  /\ UNCHANGED <<users, groups, devices, session, requests, crashes>>

\* The backends take a right password for an active account that is not locked.
Authenticate(w) ==
  LET row == users[task[w].user]
      accepted == row.active /\ ~ IsLocked(row)
  IN /\ Step(w, "authenticate", IF accepted THEN "welcome" ELSE "failure")
     /\ KeepRow(w, IF accepted THEN row ELSE None)
     /\ UNCHANGED <<users, groups, devices, session, requests, crashes>>

\* Fault: failures of an account that is locked count towards the next lockout.
CountWhileLocked(w) ==
  /\ Step(w, "failure", "count") /\ KeepRow(w, AfterFailure(users[task[w].user]))
  /\ UNCHANGED <<users, groups, devices, session, requests, crashes>>

\* user_login_failed: the handler reads the user again and counts in memory.
CountFailure(w) ==
  LET row == users[task[w].user]
  IN /\ pc[w] = "failure"
     /\ IF IsLocked(row)
        THEN End(w, "failure")
        ELSE Step(w, "failure", "count") /\ KeepRow(w, AfterFailure(row))
     /\ UNCHANGED <<users, groups, devices, session, requests, crashes>>

SaveFailure(w) ==
  /\ SaveLockout(w, "count", task[w].row)
  /\ UNCHANGED <<groups, devices, session, requests, crashes>>

(* user_logged_in: reset_lockout_state decides on the row authenticate() read. *)
(* update_last_login saves that row too, so the groups are always looked at.   *)
Welcome(w) ==
  LET row == task[w].row
  IN /\ IF pc[w] = "welcome" /\ row = Unlocked(row)
        THEN Saved(w, "welcome") /\ UNCHANGED users
        ELSE SaveLockout(w, "welcome", Unlocked(row))
     /\ session' = [session EXCEPT ![task[w].user] = "open"]
     /\ UNCHANGED <<groups, devices, requests, crashes>>

\* CustomUserAdmin.unlock_accounts reads the users chosen and saves each of them.
UnlockRequest(w, u) ==
  /\ u \in DOMAIN users
  /\ Begin(w, "unlock", [user |-> u, row |-> users[u]])
  /\ UNCHANGED <<users, groups, devices, session>>

Unlock(w) ==
  /\ SaveLockout(w, "unlock", Unlocked(task[w].row))
  /\ UNCHANGED <<groups, devices, session, requests, crashes>>

\* RequireTwoFactorMiddleware sends the others to the screens of the second factor.
MayBrowse(u) ==
  session[u] = "verified" \/ (session[u] = "open" /\ users[u].profile \notin Mandatory)

\* set_preferred_language_view saves one column of the user the session loaded.
SaveLanguage(w, u) ==
  /\ MayBrowse(u)
  /\ Begin(w, "groups", [user |-> u, profile |-> users[u].profile])
  /\ UNCHANGED <<users, groups, devices, session>>

-----------------------------------------------------------------------------
(* Users and the groups derived from their profile.                           *)

\* UserCreateForm.clean_username.
CreateUser(w, u, p) ==
  /\ p \in Assignable /\ u \notin DOMAIN users
  /\ Begin(w, "insert", [user |-> u, site |-> FALSE, row |-> NewRow(p)])
  /\ UNCHANGED <<users, groups, devices, session>>

\* create_user; the unique constraint on username refuses a second row.
InsertUser(w) ==
  LET u == task[w].user
  IN /\ pc[w] = "insert"
     /\ IF u \in DOMAIN users
        THEN End(w, "insert") /\ UNCHANGED users
        ELSE /\ Saved(w, "insert")
             /\ users' = [v \in DOMAIN users \cup {u} |-> IF v = u THEN task[w].row ELSE users[v]]
     /\ UNCHANGED <<groups, devices, session, requests, crashes>>

(* user_edit_view, which never offers SuperAdmin, and the change form of the   *)
(* Django Admin: both read the whole row and put the fields of the form in it. *)
EditUser(w, u, p, a, site) ==
  /\ u \in DOMAIN users
  /\ site \/ p \in Assignable
  /\ Begin(w, "update", [user |-> u, site |-> site,
                         row |-> [users[u] EXCEPT !.profile = p, !.active = a]])
  /\ UNCHANGED <<users, groups, devices, session>>

\* Fault: the whole access of the profile is granted without the group.
SaveWithoutGroups(w) ==
  LET u == task[w].user
      row == task[w].row
  IN /\ End(w, "update")
     /\ users' = [users EXCEPT ![u] = row]
     /\ UNCHANGED <<groups, devices, session, requests, crashes>>

(* save() writes every column. The site does it in one transaction with the    *)
(* post_save handler, which grants a Super Administrador the whole access and  *)
(* puts the user in its group.                                                *)
SaveUser(w) ==
  LET u == task[w].user
      row == task[w].row
  IN /\ pc[w] = "update"
     /\ IF task[w].site
        THEN /\ End(w, "update")
             /\ users' = [users EXCEPT ![u] =
                            [row EXCEPT !.superuser = @ \/ row.profile = SuperAdmin]]
             /\ groups' = [groups EXCEPT ![u] = GroupsOf(row.profile)]
        ELSE /\ Saved(w, "update")
             /\ users' = [users EXCEPT ![u] = row]
             /\ UNCHANGED groups
     /\ UNCHANGED <<devices, session, requests, crashes>>

(* sync_profile_group_membership, after every save: it reads the groups of the *)
(* user (a Super Administrador has its access since the save that made it one) *)
ReadGroups(w) ==
  /\ pc[w] = "groups"
  /\ IF groups[task[w].user] = GroupsOf(task[w].profile)
     THEN End(w, "groups")
     ELSE Step(w, "groups", "set") /\ UNCHANGED task
  /\ UNCHANGED <<users, groups, devices, session, requests, crashes>>

\* ... and sets them to that of the profile its copy of the row has.
SetGroups(w) ==
  /\ End(w, "set")
  /\ groups' = [groups EXCEPT ![task[w].user] = GroupsOf(task[w].profile)]
  /\ UNCHANGED <<users, devices, session, requests, crashes>>

-----------------------------------------------------------------------------
(* Second factor and sessions.                                                *)

DevicesOf(u, confirmed) ==
  {d \in DOMAIN devices : devices[d].user = u /\ devices[d].confirmed = confirmed}

(* two_factor_setup_view: get_or_create finds a device to confirm or not. With *)
(* two of them it raises MultipleObjectsReturned and the request changes       *)
(* nothing.                                                                   *)
SetupTwoFactor(w, u) ==
  LET pending == DevicesOf(u, FALSE)
  IN /\ u \in DOMAIN users /\ session[u] = "open"
     /\ IF pending = {}
        THEN Begin(w, "enrol", [user |-> u, device |-> None])
        ELSE /\ Cardinality(pending) = 1
             /\ \E d \in pending : Begin(w, "token", [user |-> u, device |-> d])
     /\ UNCHANGED <<users, groups, devices, session>>

CreateDevice(w) ==
  /\ Step(w, "enrol", "token")
  /\ devices' = Append(devices, [user |-> task[w].user, confirmed |-> FALSE])
  /\ task' = [task EXCEPT ![w].device = Len(devices')]
  /\ UNCHANGED <<users, groups, session, requests, crashes>>

\* The form shown, or posted with a wrong code, ends the request.
ConfirmDevice(w, valid) ==
  LET u == task[w].user
  IN /\ End(w, "token")
     /\ IF valid /\ session[u] # "none"
        THEN /\ devices' = [devices EXCEPT ![task[w].device].confirmed = TRUE]
             /\ session' = [session EXCEPT ![u] = "verified"]
        ELSE UNCHANGED <<devices, session>>
     /\ UNCHANGED <<users, groups, requests, crashes>>

\* two_factor_verify_view with a code that matches a confirmed device.
VerifyTwoFactor(u) ==
  /\ session[u] = "open" /\ DevicesOf(u, TRUE) # {}
  /\ session' = [session EXCEPT ![u] = "verified"]
  /\ UNCHANGED <<users, groups, devices, pc, task, requests, crashes>>

\* Logout, or the silence SessionIdleTimeoutMiddleware allows has passed.
EndSession(u) ==
  /\ session[u] # "none"
  /\ session' = [session EXCEPT ![u] = "none"]
  /\ UNCHANGED <<users, groups, devices, pc, task, requests, crashes>>

-----------------------------------------------------------------------------
Shorter(row) == [row EXCEPT !.left = IF @ = 0 THEN 0 ELSE @ - 1]

HoldsRow(w) == pc[w] \in {"welcome", "count", "unlock", "update"}

\* A minute passes.
Minute ==
  /\ \E u \in DOMAIN users : IsLocked(users[u])
  /\ users' = [u \in DOMAIN users |-> Shorter(users[u])]
  /\ task' = [w \in Workers |->
                IF HoldsRow(w) THEN [task[w] EXCEPT !.row = Shorter(@)] ELSE task[w]]
  /\ UNCHANGED <<groups, devices, session, pc, requests, crashes>>

\* A process dies in the middle of a request.
Crash(w) == Dies(w) /\ UNCHANGED <<users, groups, devices, session>>

\* A node whose first users, if any, are of one profile.
Init ==
  /\ \E old \in SUBSET Users, p \in Assignable :
       /\ users = [u \in old |-> NewRow(p)]
       /\ groups = [u \in Users |-> IF u \in old THEN GroupsOf(p) ELSE {}]
  /\ devices = <<>>
  /\ session = [u \in Users |-> "none"]
  /\ RequestsInit

LoginStep(w) ==
  \/ Authenticate(w) \/ CountFailure(w) \/ SaveFailure(w) \/ Welcome(w) \/ Unlock(w)

RequestStep(w) ==
  \/ LoginStep(w)
  \/ InsertUser(w) \/ SaveUser(w) \/ ReadGroups(w) \/ SetGroups(w)
  \/ CreateDevice(w) \/ \E valid \in BOOLEAN : ConfirmDevice(w, valid)

Next ==
  \/ \E w \in Workers : RequestStep(w) \/ Crash(w)
  \/ \E w \in Workers, u \in Users :
       \/ \E correct \in BOOLEAN, screen \in {"form", "site"} : Login(w, u, correct, screen)
       \/ \E p \in Profiles : CreateUser(w, u, p)
       \/ \E p \in Profiles, a, site \in BOOLEAN : EditUser(w, u, p, a, site)
       \/ UnlockRequest(w, u) \/ SaveLanguage(w, u) \/ SetupTwoFactor(w, u)
  \/ \E u \in Users : VerifyTwoFactor(u) \/ EndSession(u)
  \/ Minute

\* A request that has started is carried on.
Fairness ==
  \A w \in Workers : WF_vars(RequestStep(w))

Spec == Init /\ [][Next]_vars /\ Fairness

-----------------------------------------------------------------------------
(* Properties.                                                                *)

DeviceRow == [user : Users, confirmed : BOOLEAN]

\* The rows and the local variables of the requests are what the code stores.
TypeOK ==
  /\ DOMAIN users \subseteq Users /\ \A u \in DOMAIN users : users[u] \in Row
  /\ groups \in [Users -> SUBSET Profiles]
  /\ devices \in Seq(DeviceRow)
  /\ session \in [Users -> {"none", "open", "verified"}]
  /\ \A w \in Workers :
       /\ pc[w] # "idle" => task[w].user \in Users
       /\ HoldsRow(w) \/ pc[w] = "insert" => task[w].row \in Row
       /\ pc[w] \in {"groups", "set"} => task[w].profile \in Profiles
       /\ pc[w] = "token" => task[w].device \in DOMAIN devices
  /\ requests \in 0 .. MaxRequests /\ crashes \in 0 .. MaxCrashes

\* register_failed_login, "progressively longer": in spite of lost updates and
\* rows written back whole, no account is locked for longer than the lockouts
\* its row counts justify, and a first lockout never lasts longer than the base.
LockoutProportional ==
  \A u \in DOMAIN users :
    IsLocked(users[u]) =>
      users[u].count > 0 /\ users[u].left <= LockoutDuration(users[u].count - 1)

Resets(u) ==
  \E w \in Workers : (Welcome(w) \/ Unlock(w) \/ SaveUser(w)) /\ task[w].user = u

\* register_failed_login counts in memory and concurrent failures are lost, even
\* the ones already saved: still, failed logins that never end lock the account
\* again and again, unless it is reset again and again.
EventuallyLocked ==
  \A u \in Users :
    []<><<\E w \in Workers : SaveFailure(w) /\ task[w].user = u>>_vars
      => []<>(u \in DOMAIN users /\ IsLocked(users[u])) \/ []<><<Resets(u)>>_vars
=============================================================================

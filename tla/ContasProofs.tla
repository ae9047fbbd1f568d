---------------------------- MODULE ContasProofs ----------------------------
(***************************************************************************)
(* Theorems about Contas, for any numbers of users, workers, requests and  *)
(* crashes and any lengths of the lockouts: no account is locked for       *)
(* longer than the lockouts its row counts justify, a request that runs    *)
(* alone fails, logs in and unlocks as ContasServico promises, and it does *)
(* not leave the groups behind.                                            *)
(***************************************************************************)
EXTENDS MCContas, TLAPS

\* A row whose lockout, if any, is no longer than its count justifies.
Justified(row) ==
  IsLocked(row) => row.count > 0 /\ row.left <= LockoutDuration(row.count - 1)

SoundRow == {row \in Row : Justified(row)}

AllSteps == {"idle", "authenticate", "failure", "welcome", "count", "unlock", "groups", "set",
             "insert", "update", "enrol", "token"}

\* What a request holds in memory at each of its steps.
TaskOK(w) ==
  /\ pc[w] \in {"authenticate", "failure"} => task[w] \in [user : DOMAIN users, row : {None}]
  /\ pc[w] \in {"welcome", "count", "unlock"} => task[w] \in [user : DOMAIN users, row : SoundRow]
  /\ pc[w] \in {"insert", "update"} => task[w] \in [user : Users, site : BOOLEAN, row : SoundRow]
  /\ pc[w] = "update" => task[w].user \in DOMAIN users
  /\ pc[w] \in {"groups", "set"} => task[w] \in [user : Users, profile : Profiles]
  /\ pc[w] = "enrol" => task[w] \in [user : Users, device : {None}]
  /\ pc[w] = "token" => task[w] \in [user : Users, device : DOMAIN devices]

TablesOK ==
  /\ DOMAIN users \subseteq Users /\ \A u \in DOMAIN users : users[u] \in SoundRow
  /\ groups \in [Users -> SUBSET Profiles]
  /\ devices \in Seq(DeviceRow)
  /\ session \in [Users -> {"none", "open", "verified"}]
  /\ \A u \in Users : session[u] # "none" => u \in DOMAIN users
  /\ requests \in 0 .. MaxRequests /\ crashes \in 0 .. MaxCrashes

\* The inductive invariant.
IInv ==
  /\ TablesOK /\ pc \in [Workers -> AllSteps] /\ DOMAIN task = Workers
  /\ \A w \in Workers : TaskOK(w)

\* Users and devices are not removed.
Grows == DOMAIN users \subseteq DOMAIN users' /\ DOMAIN devices \subseteq DOMAIN devices'

-----------------------------------------------------------------------------
LEMMA DurationIsNat ==
  ASSUME NEW n PROVE LockoutDuration(n) \in Nat
<1>. DEFINE minutes == BaseLockout * BackoffFactor ^ n
<1>1. LockoutDuration(n) = IF minutes \in 1 .. MaxLockout THEN minutes ELSE MaxLockout
  BY DEF LockoutDuration
<1>. HIDE DEF minutes
<1>. QED BY <1>1, LockoutAssumption

\* The next failure, a reset and a minute leave a row that is sound.
LEMMA FailureIsSound ==
  ASSUME NEW row \in SoundRow, ~ IsLocked(row)
  PROVE  AfterFailure(row) \in SoundRow
<1>1. row \in Row /\ row.count + 1 - 1 = row.count
  BY DEF SoundRow, Row
<1>2. CASE row.failed + 1 < MaxFailed
  <2>1. AfterFailure(row) = [row EXCEPT !.failed = @ + 1]
    BY <1>2 DEF AfterFailure
  <2>2. AfterFailure(row) \in Row /\ AfterFailure(row).left = row.left
    BY <1>1, <1>2, <2>1, LockoutAssumption DEF Row
  <2>. QED BY <2>2 DEF SoundRow, Justified, IsLocked
<1>3. CASE ~ (row.failed + 1 < MaxFailed)
  <2>. DEFINE left == LockoutDuration(row.count)
  <2>1. AfterFailure(row) = [row EXCEPT !.left = left, !.count = @ + 1, !.failed = 0]
    BY <1>3 DEF AfterFailure
  <2>2. left \in Nat
    BY DurationIsNat
  <2>. HIDE DEF left
  <2>5. 0 \in 0 .. MaxFailed - 1 /\ row.count \in Nat /\ row.count + 1 \in Nat
    BY <1>1, LockoutAssumption DEF Row
  <2>3. AfterFailure(row) \in Row /\ AfterFailure(row).left = left
        /\ AfterFailure(row).count = row.count + 1 /\ row.count \in Nat
    BY <1>1, <2>1, <2>2, <2>5 DEF Row
  <2>4. left = LockoutDuration(AfterFailure(row).count - 1)
    BY <1>1, <2>3 DEF left
  <2>. QED BY <2>2, <2>3, <2>4 DEF SoundRow, Justified
<1>. QED BY <1>2, <1>3

LEMMA UnlockedIsSound ==
  ASSUME NEW row \in SoundRow
  PROVE  Unlocked(row) \in SoundRow /\ Unlocked(row).profile = row.profile
<1>1. 0 \in 0 .. MaxFailed - 1 /\ row \in Row
  BY LockoutAssumption DEF SoundRow
<1>2. Unlocked(row) \in Row /\ Unlocked(row).left = 0 /\ Unlocked(row).profile = row.profile
  BY <1>1 DEF Unlocked, Row
<1>. QED BY <1>2 DEF SoundRow, Justified, IsLocked

LEMMA UnlockedIsClear ==
  ASSUME NEW row \in SoundRow
  PROVE  LockoutOf(Unlocked(row)) = Servico!Clear
BY DEF SoundRow, Row, Unlocked, LockoutOf, Servico!Clear

LEMMA ShorterIsSound ==
  ASSUME NEW row \in SoundRow
  PROVE  Shorter(row) \in SoundRow
<1>1. row \in Row /\ LockoutDuration(row.count - 1) \in Nat
  BY DurationIsNat DEF SoundRow
<1>2. /\ Shorter(row) \in Row /\ Shorter(row).count = row.count
      /\ Shorter(row).left = IF row.left = 0 THEN 0 ELSE row.left - 1
  BY <1>1 DEF Shorter, Row
<1>3. row.left \in Nat /\ row.count \in Nat
  BY <1>1 DEF Row
<1>4. Justified(row)
  BY DEF SoundRow
<1>. QED BY <1>1, <1>2, <1>3, <1>4 DEF SoundRow, Justified, IsLocked

LEMMA NewIsSound == ASSUME NEW p \in Profiles PROVE NewRow(p) \in SoundRow
BY LockoutAssumption DEF NewRow, SoundRow, Row, Justified, IsLocked

\* The columns of a lockout are written together.
LEMMA LockoutSaved ==
  ASSUME NEW old \in SoundRow, NEW row \in SoundRow
  PROVE  [old EXCEPT !.failed = row.failed, !.left = row.left, !.count = row.count] \in SoundRow
BY DEF SoundRow, Row, Justified, IsLocked

-----------------------------------------------------------------------------
\* A step of w that leaves the tables and its own memory in order leaves all in order.
LEMMA OwnStep ==
  ASSUME IInv, NEW w \in Workers, TablesOK', Grows,
         NEW to \in AllSteps, pc' = [pc EXCEPT ![w] = to], DOMAIN task' = Workers,
         \A v \in Workers \ {w} : task'[v] = task[v], TaskOK(w)'
  PROVE  IInv'
<1>1. ASSUME NEW v \in Workers \ {w} PROVE TaskOK(v)'
  <2>1. pc'[v] = pc[v] /\ task'[v] = task[v]
    BY DEF IInv
  <2>. QED BY <2>1 DEF IInv, TaskOK, Grows
<1>. QED BY <1>1 DEF IInv

LEMMA SameTables ==
  ASSUME IInv, UNCHANGED <<users, groups, devices, session, requests, crashes>>
  PROVE  TablesOK' /\ Grows
BY DEF IInv, TablesOK, Grows

\* A request that begins changes the tables in no way.
LEMMA BeginKeeps ==
  ASSUME IInv, NEW w \in Workers, NEW to \in AllSteps, NEW t, Begin(w, to, t),
         UNCHANGED <<users, groups, devices, session, crashes>>
  PROVE  /\ TablesOK' /\ Grows /\ pc' = [pc EXCEPT ![w] = to] /\ DOMAIN task' = Workers
         /\ \A v \in Workers \ {w} : task'[v] = task[v]
         /\ task'[w] = t /\ pc'[w] = to
<1>1. requests' \in 0 .. MaxRequests
  BY PedidosAssumption DEF Begin, Counted, Keep, IInv, TablesOK
<1>. QED BY <1>1 DEF Begin, Counted, Keep, Step, IInv, TablesOK, Grows

\* A save of the columns of a lockout.
LEMMA SaveLockoutKeeps ==
  ASSUME IInv, NEW w \in Workers, NEW from, NEW row \in SoundRow, SaveLockout(w, from, row),
         task[w].user \in DOMAIN users, task[w].row \in Row,
         session' \in [Users -> {"none", "open", "verified"}],
         \A v \in Users : session'[v] # "none" => v \in DOMAIN users,
         UNCHANGED <<groups, devices, requests, crashes>>
  PROVE  IInv'
<1>. DEFINE u == task[w].user
            saved == [users[u] EXCEPT !.failed = row.failed, !.left = row.left, !.count = row.count]
<1>1. users' = [users EXCEPT ![u] = saved]
  BY DEF SaveLockout
<1>2. saved \in SoundRow
  BY LockoutSaved DEF IInv, TablesOK
<1>. HIDE DEF saved
<1>3. TablesOK' /\ Grows
  BY <1>1, <1>2 DEF IInv, TablesOK, Grows
<1>4. pc' = [pc EXCEPT ![w] = "groups"] /\ DOMAIN task' = Workers
      /\ task'[w] = [user |-> u, profile |-> task[w].row.profile]
      /\ \A v \in Workers \ {w} : task'[v] = task[v]
  BY DEF SaveLockout, Saved, Step, IInv
<1>5. TaskOK(w)'
  <2>1. u \in Users /\ task[w].row.profile \in Profiles /\ pc'[w] = "groups"
    BY <1>4 DEF IInv, TablesOK, Row
  <2>. QED BY <1>4, <2>1 DEF TaskOK
<1>. QED BY <1>3, <1>4, <1>5, OwnStep DEF AllSteps

LEMMA LoginKeeps ==
  ASSUME IInv, NEW w \in Workers, NEW u \in Users, NEW correct \in BOOLEAN, NEW screen,
         Login(w, u, correct, screen)
  PROVE  IInv'
<1>. DEFINE to == IF correct THEN "authenticate" ELSE "failure"
<1>1. pc' = [pc EXCEPT ![w] = to] /\ DOMAIN task' = Workers /\ u \in DOMAIN users
      /\ task'[w] = [user |-> u, row |-> None]
      /\ (\A v \in Workers \ {w} : task'[v] = task[v])
      /\ UNCHANGED <<users, groups, devices, session, requests, crashes>>
  BY DEF Login, Step, IInv
<1>2. TaskOK(w)'
  BY <1>1 DEF TaskOK, IInv
<1>3. to \in AllSteps
  BY DEF AllSteps
<1>. HIDE DEF to
<1>. QED BY <1>1, <1>2, <1>3, SameTables, OwnStep

LEMMA AuthenticateKeeps ==
  ASSUME IInv, NEW w \in Workers, Authenticate(w)
  PROVE  IInv'
<1>. DEFINE row == users[task[w].user]
            accepted == row.active /\ ~ IsLocked(row)
            to == IF accepted THEN "welcome" ELSE "failure"
<1>1. pc' = [pc EXCEPT ![w] = to] /\ DOMAIN task' = Workers /\ pc[w] = "authenticate"
      /\ task'[w] = [task[w] EXCEPT !.row = IF accepted THEN row ELSE None]
      /\ (\A v \in Workers \ {w} : task'[v] = task[v])
      /\ UNCHANGED <<users, groups, devices, session, requests, crashes>>
  BY DEF Authenticate, Step, KeepRow, IInv
<1>2. task[w] \in [user : DOMAIN users, row : {None}]
  BY <1>1 DEF IInv, TaskOK
<1>3. row \in SoundRow
  BY <1>2 DEF IInv, TablesOK
<1>4. to \in AllSteps /\ pc'[w] = to
  BY <1>1 DEF AllSteps, IInv
<1>. HIDE DEF row, accepted
<1>5. TaskOK(w)'
  BY <1>1, <1>2, <1>3, <1>4 DEF TaskOK
<1>. HIDE DEF to
<1>. QED BY <1>1, <1>4, <1>5, SameTables, OwnStep

LEMMA CountFailureKeeps ==
  ASSUME IInv, NEW w \in Workers, CountFailure(w)
  PROVE  IInv'
<1>. DEFINE row == users[task[w].user]
<1>1. pc[w] = "failure" /\ DOMAIN task' = Workers
      /\ (\A v \in Workers \ {w} : task'[v] = task[v])
      /\ UNCHANGED <<users, groups, devices, session, requests, crashes>>
  BY DEF CountFailure, End, Keep, Step, KeepRow, IInv
<1>2. task[w] \in [user : DOMAIN users, row : {None}] /\ row \in SoundRow
  BY <1>1 DEF IInv, TaskOK, TablesOK
<1>3. CASE IsLocked(row)
  <2>1. pc' = [pc EXCEPT ![w] = "idle"]
    BY <1>3 DEF CountFailure, End, Keep, Step
  <2>2. TaskOK(w)'
    BY <2>1 DEF TaskOK, IInv
  <2>. QED BY <1>1, <2>1, <2>2, SameTables, OwnStep DEF AllSteps
<1>4. CASE ~ IsLocked(row)
  <2>1. pc' = [pc EXCEPT ![w] = "count"]
        /\ task'[w] = [task[w] EXCEPT !.row = AfterFailure(row)]
    BY <1>4 DEF CountFailure, Step, KeepRow, IInv
  <2>2. AfterFailure(row) \in SoundRow
    BY <1>2, <1>4, FailureIsSound
  <2>3. TaskOK(w)'
    <3>1. pc'[w] = "count"
      BY <2>1 DEF IInv
    <3>. HIDE DEF row
    <3>. QED BY <1>1, <1>2, <2>1, <2>2, <3>1 DEF TaskOK
  <2>. QED BY <1>1, <2>1, <2>3, SameTables, OwnStep DEF AllSteps
<1>. QED BY <1>3, <1>4

LEMMA SaveFailureKeeps ==
  ASSUME IInv, NEW w \in Workers, SaveFailure(w)
  PROVE  IInv'
<1>1. pc[w] = "count"
  BY DEF SaveFailure, SaveLockout, Saved, Step
<1>2. task[w].user \in DOMAIN users /\ task[w].row \in SoundRow /\ task[w].row \in Row
  BY <1>1 DEF IInv, TaskOK, SoundRow
<1>. QED BY <1>2, SaveLockoutKeeps DEF SaveFailure, IInv, TablesOK

LEMMA UnlockKeeps ==
  ASSUME IInv, NEW w \in Workers, Unlock(w)
  PROVE  IInv'
<1>1. pc[w] = "unlock"
  BY DEF Unlock, SaveLockout, Saved, Step
<1>2. task[w].user \in DOMAIN users /\ task[w].row \in SoundRow /\ task[w].row \in Row
  BY <1>1 DEF IInv, TaskOK, SoundRow
<1>. QED BY <1>2, UnlockedIsSound, SaveLockoutKeeps DEF Unlock, IInv, TablesOK

LEMMA WelcomeKeeps ==
  ASSUME IInv, NEW w \in Workers, Welcome(w)
  PROVE  IInv'
<1>1. pc[w] = "welcome"
  BY DEF Welcome, SaveLockout, Saved, Step
<1>2. task[w] \in [user : DOMAIN users, row : SoundRow] /\ task[w].row \in Row
  BY <1>1 DEF IInv, TaskOK, SoundRow
<1>3. /\ session' \in [Users -> {"none", "open", "verified"}]
      /\ \A v \in Users : session'[v] # "none" => v \in DOMAIN users
  BY <1>2 DEF Welcome, IInv, TablesOK
<1>4. CASE SaveLockout(w, "welcome", Unlocked(task[w].row))
  BY <1>2, <1>3, <1>4, UnlockedIsSound, SaveLockoutKeeps DEF Welcome
<1>5. CASE Saved(w, "welcome") /\ UNCHANGED users
  <2>1. TablesOK' /\ Grows
    BY <1>3, <1>5 DEF Welcome, IInv, TablesOK, Grows
  <2>2. pc' = [pc EXCEPT ![w] = "groups"] /\ DOMAIN task' = Workers
        /\ task'[w] = [user |-> task[w].user, profile |-> task[w].row.profile]
        /\ \A v \in Workers \ {w} : task'[v] = task[v]
    BY <1>5 DEF Saved, Step, IInv
  <2>3. TaskOK(w)'
    <3>1. task[w].user \in Users /\ task[w].row.profile \in Profiles /\ pc'[w] = "groups"
      BY <1>2, <2>2 DEF IInv, TablesOK, Row
    <3>. QED BY <2>2, <3>1 DEF TaskOK
  <2>. QED BY <2>1, <2>2, <2>3, OwnStep DEF AllSteps
<1>. QED BY <1>4, <1>5 DEF Welcome

LEMMA UnlockRequestKeeps ==
  ASSUME IInv, NEW w \in Workers, NEW u \in Users, UnlockRequest(w, u)
  PROVE  IInv'
<1>. DEFINE t == [user |-> u, row |-> users[u]]
<1>1. u \in DOMAIN users /\ users[u] \in SoundRow
  BY DEF UnlockRequest, IInv, TablesOK
<1>2. Begin(w, "unlock", t) /\ UNCHANGED <<users, groups, devices, session, crashes>>
  BY DEF UnlockRequest, Begin
<1>3. t \in [user : DOMAIN users, row : SoundRow]
  BY <1>1
<1>. HIDE DEF t
<1>4. "unlock" \in AllSteps
  BY DEF AllSteps
<1>5. pc'[w] = "unlock" /\ task'[w] = t
  BY <1>2, <1>4, BeginKeeps
<1>6. TaskOK(w)'
  BY <1>2, <1>3, <1>5 DEF TaskOK
<1>. QED BY <1>2, <1>4, <1>6, BeginKeeps, OwnStep

LEMMA SaveLanguageKeeps ==
  ASSUME IInv, NEW w \in Workers, NEW u \in Users, SaveLanguage(w, u)
  PROVE  IInv'
<1>. DEFINE t == [user |-> u, profile |-> users[u].profile]
<1>1. u \in DOMAIN users /\ users[u].profile \in Profiles
  BY DEF SaveLanguage, MayBrowse, IInv, TablesOK, SoundRow, Row
<1>2. Begin(w, "groups", t) /\ UNCHANGED <<users, groups, devices, session, crashes>>
  BY DEF SaveLanguage, Begin
<1>3. t \in [user : Users, profile : Profiles]
  BY <1>1
<1>. HIDE DEF t
<1>4. "groups" \in AllSteps
  BY DEF AllSteps
<1>5. pc'[w] = "groups" /\ task'[w] = t
  BY <1>2, <1>4, BeginKeeps
<1>6. TaskOK(w)'
  BY <1>3, <1>5 DEF TaskOK
<1>. QED BY <1>2, <1>4, <1>6, BeginKeeps, OwnStep

LEMMA CreateUserKeeps ==
  ASSUME IInv, NEW w \in Workers, NEW u \in Users, NEW p \in Profiles, CreateUser(w, u, p)
  PROVE  IInv'
<1>. DEFINE t == [user |-> u, site |-> FALSE, row |-> NewRow(p)]
<1>1. Begin(w, "insert", t) /\ UNCHANGED <<users, groups, devices, session, crashes>>
  BY DEF CreateUser, Begin
<1>2. t \in [user : Users, site : BOOLEAN, row : SoundRow]
  BY NewIsSound
<1>. HIDE DEF t
<1>3. "insert" \in AllSteps
  BY DEF AllSteps
<1>4. pc'[w] = "insert" /\ task'[w] = t
  BY <1>1, <1>3, BeginKeeps
<1>5. TaskOK(w)'
  BY <1>2, <1>4 DEF TaskOK
<1>. QED BY <1>1, <1>3, <1>5, BeginKeeps, OwnStep

LEMMA EditUserKeeps ==
  ASSUME IInv, NEW w \in Workers, NEW u \in Users, NEW p \in Profiles, NEW a \in BOOLEAN,
         NEW site \in BOOLEAN, EditUser(w, u, p, a, site)
  PROVE  IInv'
<1>. DEFINE row == [users[u] EXCEPT !.profile = p, !.active = a]
            t == [user |-> u, site |-> site, row |-> row]
<1>1. u \in DOMAIN users /\ users[u] \in SoundRow
  BY DEF EditUser, IInv, TablesOK
<1>2. Begin(w, "update", t) /\ UNCHANGED <<users, groups, devices, session, crashes>>
  BY DEF EditUser, Begin
<1>3. row \in SoundRow
  <2>1. row \in Row /\ row.left = users[u].left /\ row.count = users[u].count
    BY <1>1 DEF SoundRow, Row
  <2>. QED BY <1>1, <2>1 DEF SoundRow, Justified, IsLocked
<1>. HIDE DEF row
<1>4. t \in [user : Users, site : BOOLEAN, row : SoundRow] /\ t.user = u
  BY <1>3
<1>. HIDE DEF t
<1>5. "update" \in AllSteps
  BY DEF AllSteps
<1>6. pc'[w] = "update" /\ task'[w] = t
  BY <1>2, <1>5, BeginKeeps
<1>7. TaskOK(w)'
  BY <1>1, <1>2, <1>4, <1>6 DEF TaskOK
<1>. QED BY <1>2, <1>5, <1>7, BeginKeeps, OwnStep

LEMMA InsertUserKeeps ==
  ASSUME IInv, NEW w \in Workers, InsertUser(w)
  PROVE  IInv'
<1>. DEFINE u == task[w].user
<1>1. pc[w] = "insert" /\ UNCHANGED <<groups, devices, session, requests, crashes>>
  BY DEF InsertUser
<1>2. u \in Users /\ task[w].row \in SoundRow /\ task[w].row.profile \in Profiles
  BY <1>1 DEF IInv, TaskOK, SoundRow, Row
<1>3. CASE u \in DOMAIN users
  <2>1. pc' = [pc EXCEPT ![w] = "idle"] /\ DOMAIN task' = Workers /\ users' = users
        /\ \A v \in Workers \ {w} : task'[v] = task[v]
    BY <1>3 DEF InsertUser, End, Keep, Step, IInv
  <2>2. TaskOK(w)'
    BY <2>1 DEF TaskOK, IInv
  <2>. QED BY <1>1, <2>1, <2>2, SameTables, OwnStep DEF AllSteps
<1>4. CASE u \notin DOMAIN users
  <2>1. pc' = [pc EXCEPT ![w] = "groups"] /\ DOMAIN task' = Workers
        /\ task'[w] = [user |-> u, profile |-> task[w].row.profile]
        /\ \A v \in Workers \ {w} : task'[v] = task[v]
    BY <1>4 DEF InsertUser, Saved, Step, IInv
  <2>2. users' = [v \in DOMAIN users \cup {u} |-> IF v = u THEN task[w].row ELSE users[v]]
    BY <1>4 DEF InsertUser
  <2>3. TablesOK' /\ Grows
    BY <1>1, <1>2, <2>2 DEF IInv, TablesOK, Grows
  <2>4. TaskOK(w)'
    BY <1>2, <2>1 DEF TaskOK, IInv
  <2>. QED BY <2>1, <2>3, <2>4, OwnStep DEF AllSteps
<1>. QED BY <1>3, <1>4

LEMMA SaveUserKeeps ==
  ASSUME IInv, NEW w \in Workers, SaveUser(w)
  PROVE  IInv'
<1>. DEFINE u == task[w].user
            row == task[w].row
            granted == [row EXCEPT !.superuser = @ \/ row.profile = SuperAdmin]
<1>1. pc[w] = "update" /\ UNCHANGED <<devices, session, requests, crashes>>
  BY DEF SaveUser
<1>2. u \in DOMAIN users /\ u \in Users /\ row \in SoundRow /\ row \in Row
      /\ row.profile \in Profiles
  BY <1>1 DEF IInv, TaskOK, SoundRow, Row
<1>3. CASE task[w].site
  <2>1. pc' = [pc EXCEPT ![w] = "idle"] /\ DOMAIN task' = Workers
        /\ users' = [users EXCEPT ![u] = granted]
        /\ groups' = [groups EXCEPT ![u] = GroupsOf(row.profile)]
        /\ \A v \in Workers \ {w} : task'[v] = task[v]
    BY <1>3 DEF SaveUser, End, Keep, Step, IInv
  <2>2. granted \in SoundRow
    <3>1. granted \in Row /\ granted.left = row.left /\ granted.count = row.count
      BY <1>2 DEF Row
    <3>. QED BY <1>2, <3>1 DEF SoundRow, Justified, IsLocked
  <2>. HIDE DEF granted
  <2>3. GroupsOf(row.profile) \in SUBSET Profiles
    BY <1>2 DEF GroupsOf
  <2>4. TablesOK' /\ Grows
    BY <1>1, <1>2, <2>1, <2>2, <2>3 DEF IInv, TablesOK, Grows
  <2>5. TaskOK(w)'
    BY <2>1 DEF TaskOK, IInv
  <2>. QED BY <2>1, <2>4, <2>5, OwnStep DEF AllSteps
<1>4. CASE ~ task[w].site
  <2>1. pc' = [pc EXCEPT ![w] = "groups"] /\ DOMAIN task' = Workers
        /\ task'[w] = [user |-> u, profile |-> row.profile]
        /\ users' = [users EXCEPT ![u] = row] /\ groups' = groups
        /\ \A v \in Workers \ {w} : task'[v] = task[v]
    BY <1>4 DEF SaveUser, Saved, Step, IInv
  <2>2. TablesOK' /\ Grows
    BY <1>1, <1>2, <2>1 DEF IInv, TablesOK, Grows
  <2>3. TaskOK(w)'
    BY <1>2, <2>1 DEF TaskOK, IInv
  <2>. QED BY <2>1, <2>2, <2>3, OwnStep DEF AllSteps
<1>. QED BY <1>3, <1>4

LEMMA ReadGroupsKeeps ==
  ASSUME IInv, NEW w \in Workers, ReadGroups(w)
  PROVE  IInv'
<1>1. pc[w] = "groups" /\ UNCHANGED <<users, groups, devices, session, requests, crashes>>
      /\ DOMAIN task' = Workers /\ \A v \in Workers \ {w} : task'[v] = task[v]
  BY DEF ReadGroups, End, Keep, Step, IInv
<1>2. CASE groups[task[w].user] = GroupsOf(task[w].profile)
  <2>1. pc' = [pc EXCEPT ![w] = "idle"]
    BY <1>2 DEF ReadGroups, End, Keep, Step
  <2>2. TaskOK(w)'
    BY <2>1 DEF TaskOK, IInv
  <2>. QED BY <1>1, <2>1, <2>2, SameTables, OwnStep DEF AllSteps
<1>3. CASE groups[task[w].user] # GroupsOf(task[w].profile)
  <2>1. pc' = [pc EXCEPT ![w] = "set"] /\ task' = task
    BY <1>3 DEF ReadGroups, Step
  <2>2. TaskOK(w)'
    BY <1>1, <2>1 DEF TaskOK, IInv
  <2>. QED BY <1>1, <2>1, <2>2, SameTables, OwnStep DEF AllSteps
<1>. QED BY <1>2, <1>3

\* A step that ends the request of w.
LEMMA EndKeeps ==
  ASSUME IInv, NEW w \in Workers, NEW from, End(w, from), TablesOK', Grows
  PROVE  IInv'
<1>1. pc' = [pc EXCEPT ![w] = "idle"] /\ DOMAIN task' = Workers
      /\ \A v \in Workers \ {w} : task'[v] = task[v]
  BY DEF End, Keep, Step, IInv
<1>2. TaskOK(w)'
  BY <1>1 DEF TaskOK, IInv
<1>. QED BY <1>1, <1>2, OwnStep DEF AllSteps

LEMMA SetGroupsKeeps ==
  ASSUME IInv, NEW w \in Workers, SetGroups(w)
  PROVE  IInv'
<1>1. pc[w] = "set" /\ task[w] \in [user : Users, profile : Profiles]
  BY DEF SetGroups, End, Keep, Step, IInv, TaskOK
<1>2. GroupsOf(task[w].profile) \in SUBSET Profiles
  BY <1>1 DEF GroupsOf
<1>3. TablesOK' /\ Grows
  BY <1>1, <1>2 DEF SetGroups, IInv, TablesOK, Grows
<1>. QED BY <1>3, EndKeeps DEF SetGroups

LEMMA SetupTwoFactorKeeps ==
  ASSUME IInv, NEW w \in Workers, NEW u \in Users, SetupTwoFactor(w, u)
  PROVE  IInv'
<1>1. UNCHANGED <<users, groups, devices, session, crashes>>
  BY DEF SetupTwoFactor, Begin
<1>2. "enrol" \in AllSteps /\ "token" \in AllSteps
  BY DEF AllSteps
<1>3. CASE Begin(w, "enrol", [user |-> u, device |-> None])
  <2>1. pc'[w] = "enrol" /\ task'[w] = [user |-> u, device |-> None]
    BY <1>1, <1>2, <1>3, BeginKeeps
  <2>2. TaskOK(w)'
    BY <2>1 DEF TaskOK
  <2>. QED BY <1>1, <1>2, <1>3, <2>2, BeginKeeps, OwnStep
<1>4. ASSUME NEW d \in DOMAIN devices, Begin(w, "token", [user |-> u, device |-> d])
      PROVE  IInv'
  <2>1. pc'[w] = "token" /\ task'[w] = [user |-> u, device |-> d]
    BY <1>1, <1>2, <1>4, BeginKeeps
  <2>2. TaskOK(w)'
    BY <1>1, <2>1 DEF TaskOK
  <2>. QED BY <1>1, <1>2, <1>4, <2>2, BeginKeeps, OwnStep
<1>. QED BY <1>3, <1>4 DEF SetupTwoFactor, DevicesOf

LEMMA CreateDeviceKeeps ==
  ASSUME IInv, NEW w \in Workers, CreateDevice(w)
  PROVE  IInv'
<1>1. pc[w] = "enrol" /\ pc' = [pc EXCEPT ![w] = "token"] /\ DOMAIN task' = Workers
      /\ task'[w] = [task[w] EXCEPT !.device = Len(devices')]
      /\ (\A v \in Workers \ {w} : task'[v] = task[v])
      /\ UNCHANGED <<users, groups, session, requests, crashes>>
  BY DEF CreateDevice, Step, IInv
<1>2. task[w] \in [user : Users, device : {None}]
  BY <1>1 DEF IInv, TaskOK
<1>. DEFINE d == [user |-> task[w].user, confirmed |-> FALSE]
<1>3. devices' = Append(devices, d) /\ d \in DeviceRow
  BY <1>2 DEF CreateDevice, DeviceRow
<1>. HIDE DEF d
<1>4. devices' \in Seq(DeviceRow) /\ DOMAIN devices \subseteq DOMAIN devices'
      /\ Len(devices') \in DOMAIN devices'
  BY <1>3 DEF IInv, TablesOK
<1>5. TablesOK' /\ Grows
  BY <1>1, <1>4 DEF IInv, TablesOK, Grows
<1>6. TaskOK(w)'
  <2>1. pc'[w] = "token"
    BY <1>1 DEF IInv
  <2>. QED BY <1>1, <1>2, <1>4, <2>1 DEF TaskOK
<1>. QED BY <1>1, <1>5, <1>6, OwnStep DEF AllSteps

LEMMA ConfirmDeviceKeeps ==
  ASSUME IInv, NEW w \in Workers, NEW valid \in BOOLEAN, ConfirmDevice(w, valid)
  PROVE  IInv'
<1>. DEFINE u == task[w].user
            d == task[w].device
<1>1. pc[w] = "token" /\ End(w, "token") /\ UNCHANGED <<users, groups, requests, crashes>>
  BY DEF ConfirmDevice, End, Keep, Step
<1>2. u \in Users /\ d \in DOMAIN devices
  BY <1>1 DEF IInv, TaskOK
<1>3. CASE valid /\ session[u] # "none"
  <2>1. devices' = [devices EXCEPT ![d].confirmed = TRUE]
        /\ session' = [session EXCEPT ![u] = "verified"]
    BY <1>3 DEF ConfirmDevice
  <2>2. [devices[d] EXCEPT !.confirmed = TRUE] \in DeviceRow
    <3>1. devices \in Seq(DeviceRow)
      BY DEF IInv, TablesOK
    <3>2. devices[d] \in DeviceRow
      BY <1>2, <3>1
    <3>. QED BY <3>2 DEF DeviceRow
  <2>3. devices' \in Seq(DeviceRow) /\ DOMAIN devices' = DOMAIN devices
    BY <1>2, <2>1, <2>2 DEF IInv, TablesOK
  <2>4. TablesOK' /\ Grows
    BY <1>1, <1>2, <1>3, <2>1, <2>3 DEF IInv, TablesOK, Grows
  <2>. QED BY <1>1, <2>4, EndKeeps
<1>4. CASE ~ (valid /\ session[u] # "none")
  <2>1. TablesOK' /\ Grows
    BY <1>1, <1>4, SameTables DEF ConfirmDevice
  <2>. QED BY <1>1, <2>1, EndKeeps
<1>. QED BY <1>3, <1>4

\* Steps that touch sessions only.
LEMMA SessionKeeps ==
  ASSUME IInv, NEW u \in Users, VerifyTwoFactor(u) \/ EndSession(u)
  PROVE  IInv'
<1>1. UNCHANGED <<users, groups, devices, pc, task, requests, crashes>>
  BY DEF VerifyTwoFactor, EndSession
<1>2. TablesOK'
  BY <1>1 DEF VerifyTwoFactor, EndSession, IInv, TablesOK
<1>3. \A w \in Workers : TaskOK(w)'
  BY <1>1 DEF IInv, TaskOK
<1>. QED BY <1>1, <1>2, <1>3 DEF IInv

LEMMA MinuteKeeps ==
  ASSUME IInv, Minute
  PROVE  IInv'
<1>1. users' = [u \in DOMAIN users |-> Shorter(users[u])]
      /\ UNCHANGED <<groups, devices, session, pc, requests, crashes>>
  BY DEF Minute
<1>2. TablesOK' /\ DOMAIN users' = DOMAIN users
  BY <1>1, ShorterIsSound DEF IInv, TablesOK
<1>3. ASSUME NEW w \in Workers PROVE TaskOK(w)'
  <2>1. CASE HoldsRow(w)
    <3>1. task'[w] = [task[w] EXCEPT !.row = Shorter(@)]
      BY <2>1 DEF Minute
    <3>2. task[w].row \in SoundRow /\ Shorter(task[w].row) \in SoundRow
      BY <2>1, ShorterIsSound DEF HoldsRow, IInv, TaskOK
    <3>3. CASE pc[w] = "update"
      <4>1. task[w] \in [user : Users, site : BOOLEAN, row : SoundRow]
            /\ task[w].user \in DOMAIN users
        BY <3>3 DEF IInv, TaskOK
      <4>2. task'[w] \in [user : Users, site : BOOLEAN, row : SoundRow]
            /\ task'[w].user = task[w].user
        BY <3>1, <3>2, <4>1
      <4>. QED BY <1>1, <1>2, <3>3, <4>1, <4>2 DEF TaskOK
    <3>4. CASE pc[w] \in {"welcome", "count", "unlock"}
      <4>1. task[w] \in [user : DOMAIN users, row : SoundRow]
        BY <3>4 DEF IInv, TaskOK
      <4>2. task'[w] \in [user : DOMAIN users, row : SoundRow]
        BY <3>1, <3>2, <4>1
      <4>. QED BY <1>1, <1>2, <3>4, <4>2 DEF TaskOK
    <3>. QED BY <2>1, <3>3, <3>4 DEF HoldsRow
  <2>2. CASE ~ HoldsRow(w)
    <3>1. task'[w] = task[w]
      BY <2>2 DEF Minute
    <3>. QED BY <1>1, <1>2, <3>1 DEF IInv, TaskOK
  <2>. QED BY <2>1, <2>2
<1>. QED BY <1>1, <1>2, <1>3 DEF IInv, Minute

LEMMA CrashKeeps ==
  ASSUME IInv, NEW w \in Workers, Crash(w)
  PROVE  IInv'
<1>1. crashes' \in 0 .. MaxCrashes
  BY PedidosAssumption DEF Crash, Dies, End, Step, Keep, IInv, TablesOK
<1>2. TablesOK' /\ Grows
  BY <1>1 DEF Crash, Dies, End, Step, Keep, IInv, TablesOK, Grows
<1>. QED BY <1>2, EndKeeps DEF Crash, Dies, End, Step, Keep

-----------------------------------------------------------------------------
LEMMA Initial == Init => IInv
<1>. SUFFICES ASSUME Init PROVE IInv
  OBVIOUS
<1>1. PICK old \in SUBSET Users, p \in Assignable :
        /\ users = [u \in old |-> NewRow(p)]
        /\ groups = [u \in Users |-> IF u \in old THEN GroupsOf(p) ELSE {}]
  BY DEF Init, RequestsInit
<1>2. p \in Profiles /\ NewRow(p) \in SoundRow /\ GroupsOf(p) \in SUBSET Profiles
  BY NewIsSound DEF Assignable, GroupsOf
<1>3. devices \in Seq(DeviceRow)
  BY DEF Init, RequestsInit
<1>4. TablesOK
  BY <1>1, <1>2, <1>3, PedidosAssumption DEF Init, RequestsInit, TablesOK
<1>5. \A w \in Workers : pc[w] = "idle"
  BY DEF Init, RequestsInit
<1>. QED BY <1>4, <1>5 DEF Init, RequestsInit, IInv, TaskOK, AllSteps

LEMMA Inductive == IInv /\ [Next]_vars => IInv'
<1>. SUFFICES ASSUME IInv, [Next]_vars PROVE IInv'
  OBVIOUS
<1>1. ASSUME NEW w \in Workers, RequestStep(w) PROVE IInv'
  BY <1>1, AuthenticateKeeps, CountFailureKeeps, SaveFailureKeeps, WelcomeKeeps, UnlockKeeps,
     InsertUserKeeps, SaveUserKeeps, ReadGroupsKeeps, SetGroupsKeeps, CreateDeviceKeeps,
     ConfirmDeviceKeeps DEF RequestStep, LoginStep
<1>2. CASE UNCHANGED vars
  <2>1. TablesOK' /\ Grows
    BY <1>2, SameTables DEF vars, requestVars
  <2>. QED BY <1>2, <2>1 DEF vars, requestVars, IInv, TaskOK
<1>. QED BY <1>1, <1>2, CrashKeeps, LoginKeeps, CreateUserKeeps, EditUserKeeps,
            UnlockRequestKeeps, SaveLanguageKeeps, SetupTwoFactorKeeps, SessionKeeps, MinuteKeeps
         DEF Next

LEMMA Invariant == Spec => []IInv
BY Initial, Inductive, PTL DEF Spec

\* Every state of the accounts and of the requests under way is well typed.
THEOREM TypeCorrect == Spec => []TypeOK
<1>1. IInv => TypeOK
  <2>1. SUFFICES ASSUME IInv PROVE TypeOK
    OBVIOUS
  <2>2. ASSUME NEW w \in Workers
        PROVE  /\ pc[w] # "idle" => task[w].user \in Users
               /\ HoldsRow(w) \/ pc[w] = "insert" => task[w].row \in Row
               /\ pc[w] \in {"groups", "set"} => task[w].profile \in Profiles
               /\ pc[w] = "token" => task[w].device \in DOMAIN devices
    BY <2>1 DEF IInv, TaskOK, TablesOK, SoundRow, HoldsRow, AllSteps
  <2>. QED BY <2>1, <2>2 DEF IInv, TablesOK, TypeOK, SoundRow
<1>. QED BY <1>1, Invariant, PTL

\* register_failed_login: in spite of lost updates and rows written back whole, no
\* account is locked for longer than the lockouts its row counts justify.
THEOREM LockoutsProportional == Spec => []LockoutProportional
<1>1. IInv => LockoutProportional
  BY DEF IInv, TablesOK, SoundRow, Justified, LockoutProportional
<1>. QED BY <1>1, Invariant, PTL

-----------------------------------------------------------------------------
(***************************************************************************)
(* Requests that run alone.                                                *)
(***************************************************************************)

\* A Super Administrador has the whole access, and the screens of the site make
\* nobody one.
ProfilesOK ==
  /\ \A u \in DOMAIN users : users[u].profile = SuperAdmin => users[u].superuser
  /\ \A w \in Workers :
       pc[w] = "insert" \/ (pc[w] = "update" /\ ~ task[w].site) =>
         task[w].row.profile # SuperAdmin

\* What a failed login makes of the columns of a lockout.
Failed(row, new) ==
  IF row.failed + 1 < MaxFailed
  THEN LockoutOf(new) = [failed |-> row.failed + 1, left |-> 0, count |-> row.count]
  ELSE \E minutes \in 0 .. LockoutDuration(row.count) :
         LockoutOf(new) = [failed |-> 0, left |-> minutes, count |-> row.count + 1]

\* A request that runs alone holds the profile, and the lockout, that is stored:
\* what it is about to save is the effect of one operation on what is there.
AloneOK(w) ==
  LET t == task[w]
      u == task[w].user
  IN /\ \A v \in Workers \ {w} : pc[v] = "idle"
     /\ pc[w] \in {"welcome", "count"} => ~ IsLocked(users[u])
     /\ pc[w] = "count" => Failed(users[u], t.row)
     /\ pc[w] = "update" => LockoutOf(t.row) = LockoutOf(users[u])
     /\ pc[w] = "insert" => LockoutOf(t.row) = Servico!Clear
     /\ pc[w] \in {"welcome", "count", "unlock"} => t.row.profile = users[u].profile
     /\ pc[w] \in {"groups", "set"} => u \in DOMAIN users /\ t.profile = users[u].profile

AInv ==
  /\ ProfilesOK
  /\ \A w \in Workers : IF pc[w] = "idle" THEN alone[w] ELSE alone[w] => AloneOK(w)

LEMMA FailureIsCounted ==
  ASSUME NEW row \in Row, ~ IsLocked(row)
  PROVE  Failed(row, AfterFailure(row))
<1>. DEFINE minutes == LockoutDuration(row.count)
<1>1. row.left = 0 /\ row.failed \in Nat /\ row.count \in Nat
  BY DEF Row, IsLocked
<1>2. minutes \in Nat
  BY DurationIsNat
<1>3. CASE row.failed + 1 < MaxFailed
  <2>1. AfterFailure(row) = [row EXCEPT !.failed = @ + 1]
    BY <1>3 DEF AfterFailure
  <2>. QED BY <1>1, <1>3, <2>1 DEF Failed, Row, LockoutOf
<1>4. CASE ~ (row.failed + 1 < MaxFailed)
  <2>1. AfterFailure(row) = [row EXCEPT !.left = minutes, !.count = @ + 1, !.failed = 0]
    BY <1>4 DEF AfterFailure
  <2>. HIDE DEF minutes
  <2>2. LockoutOf(AfterFailure(row)) = [failed |-> 0, left |-> minutes, count |-> row.count + 1]
    BY <2>1 DEF Row, LockoutOf
  <2>3. minutes \in 0 .. minutes
    BY <1>2
  <2>. QED BY <1>4, <2>2, <2>3 DEF Failed, minutes
<1>. QED BY <1>3, <1>4

\* A minute shortens what an operation is about to save as it shortens the lockout.
LEMMA MinuteIsShared ==
  ASSUME NEW old \in Row, NEW new \in Row, NEW old2, NEW new2,
         LockoutOf(old2) = LockoutOf(Shorter(old)), LockoutOf(new2) = LockoutOf(Shorter(new))
  PROVE  /\ LockoutOf(new) = LockoutOf(old) => LockoutOf(new2) = LockoutOf(old2)
         /\ ~ IsLocked(old) => ~ IsLocked(old2)
         /\ ~ IsLocked(old) /\ Failed(old, new) => Failed(old2, new2)
<1>1. ASSUME NEW row \in Row, NEW row2, LockoutOf(row2) = LockoutOf(Shorter(row))
      PROVE  /\ row.failed \in Nat /\ row.left \in Nat /\ row.count \in Nat
             /\ row2.failed = row.failed /\ row2.count = row.count
             /\ row2.left = IF row.left = 0 THEN 0 ELSE row.left - 1
  BY <1>1 DEF LockoutOf, Shorter, Row
<1>2. /\ old2.failed = old.failed /\ old2.count = old.count /\ old.left \in Nat
      /\ new2.failed = new.failed /\ new2.count = new.count /\ new.left \in Nat
      /\ old2.left = (IF old.left = 0 THEN 0 ELSE old.left - 1)
      /\ new2.left = (IF new.left = 0 THEN 0 ELSE new.left - 1)
  BY <1>1
<1>3. ASSUME LockoutOf(new) = LockoutOf(old) PROVE LockoutOf(new2) = LockoutOf(old2)
  BY <1>2, <1>3 DEF LockoutOf
<1>4. ASSUME ~ IsLocked(old) PROVE ~ IsLocked(old2)
  BY <1>2, <1>4 DEF IsLocked
<1>5. ASSUME Failed(old, new) PROVE Failed(old2, new2)
  <2>1. CASE old.failed + 1 < MaxFailed
    <3>1. new.failed = old.failed + 1 /\ new.left = 0 /\ new.count = old.count
      BY <1>5, <2>1 DEF Failed, LockoutOf
    <3>. QED BY <1>2, <2>1, <3>1 DEF Failed, LockoutOf
  <2>2. CASE ~ (old.failed + 1 < MaxFailed)
    <3>. DEFINE limit == LockoutDuration(old.count)
    <3>1. new.failed = 0 /\ new.left \in 0 .. limit /\ new.count = old.count + 1
      BY <1>5, <2>2 DEF Failed, LockoutOf
    <3>2. limit \in Nat
      BY DurationIsNat
    <3>. HIDE DEF limit
    <3>3. new2.left \in 0 .. limit
      BY <1>2, <3>1, <3>2
    <3>4. LockoutOf(new2) = [failed |-> 0, left |-> new2.left, count |-> old.count + 1]
      BY <1>2, <3>1 DEF LockoutOf
    <3>. QED BY <1>2, <2>2, <3>3, <3>4 DEF Failed, limit
  <2>. QED BY <2>1, <2>2
<1>. QED BY <1>3, <1>4, <1>5

LEMMA MCInvariant == MCSpec => []IInv
<1>1. MCInit => IInv
  BY Initial DEF MCInit
<1>2. [MCNext]_<<vars, alone>> => [Next]_vars
  BY DEF MCNext
<1>. QED BY <1>1, <1>2, Inductive, PTL DEF MCSpec

\* The columns a lockout writes.
LEMMA LockoutColumns ==
  ASSUME IInv, NEW w \in Workers, NEW from, NEW row \in Row, SaveLockout(w, from, row),
         task[w].user \in DOMAIN users
  PROVE  /\ DOMAIN users' = DOMAIN users
         /\ \A v \in DOMAIN users \ {task[w].user} : users'[v] = users[v]
         /\ LockoutOf(users'[task[w].user]) = LockoutOf(row)
         /\ \A v \in DOMAIN users : /\ users'[v].profile = users[v].profile
                                    /\ users'[v].superuser = users[v].superuser
         /\ pc' = [pc EXCEPT ![w] = "groups"]
         /\ task' = [task EXCEPT ![w] = [user |-> task[w].user, profile |-> task[w].row.profile]]
<1>. DEFINE u == task[w].user
            saved == [users[u] EXCEPT !.failed = row.failed, !.left = row.left, !.count = row.count]
<1>1. users' = [users EXCEPT ![u] = saved]
  BY DEF SaveLockout
<1>2. users[u] \in Row
  BY DEF IInv, TablesOK, SoundRow
<1>3. LockoutOf(saved) = LockoutOf(row) /\ saved.profile = users[u].profile
      /\ saved.superuser = users[u].superuser
  BY <1>2 DEF Row, LockoutOf
<1>. HIDE DEF saved
<1>. QED BY <1>1, <1>3 DEF SaveLockout, Saved, Step

\* The steps that write a lockout: of a failure, a login and an unlock.
LEMMA LockoutSteps ==
  ASSUME IInv, NEW w \in Workers, SaveFailure(w) \/ Welcome(w) \/ Unlock(w)
  PROVE  /\ pc[w] \in {"count", "welcome", "unlock"} /\ task[w].user \in DOMAIN users
         /\ DOMAIN users' = DOMAIN users
         /\ \A v \in DOMAIN users \ {task[w].user} : users'[v] = users[v]
         /\ \A v \in DOMAIN users : /\ users'[v].profile = users[v].profile
                                    /\ users'[v].superuser = users[v].superuser
         /\ pc' = [pc EXCEPT ![w] = "groups"]
         /\ task' = [task EXCEPT ![w] = [user |-> task[w].user, profile |-> task[w].row.profile]]
         /\ \/ LockoutOf(users'[task[w].user]) =
                 (IF pc[w] = "count" THEN LockoutOf(task[w].row) ELSE Servico!Clear)
            \/ pc[w] = "welcome" /\ UNCHANGED users
<1>1. pc[w] \in {"count", "welcome", "unlock"}
  BY DEF SaveFailure, Welcome, Unlock, SaveLockout, Saved, Step
<1>2. task[w].user \in DOMAIN users /\ task[w].row \in SoundRow /\ task[w].row \in Row
  BY <1>1 DEF IInv, TaskOK, SoundRow
<1>3. Unlocked(task[w].row) \in Row /\ LockoutOf(Unlocked(task[w].row)) = Servico!Clear
  BY <1>2, UnlockedIsSound, UnlockedIsClear DEF SoundRow
<1>4. CASE SaveFailure(w)
  <2>1. pc[w] = "count"
    BY <1>4 DEF SaveFailure, SaveLockout, Saved, Step
  <2>. QED BY <1>2, <1>4, <2>1, LockoutColumns DEF SaveFailure
<1>5. CASE Unlock(w)
  <2>1. pc[w] = "unlock"
    BY <1>5 DEF Unlock, SaveLockout, Saved, Step
  <2>. QED BY <1>2, <1>3, <1>5, <2>1, LockoutColumns DEF Unlock
<1>6. CASE Welcome(w)
  <2>1. CASE SaveLockout(w, "welcome", Unlocked(task[w].row))
    <3>1. pc[w] = "welcome"
      BY <2>1 DEF SaveLockout, Saved, Step
    <3>. QED BY <1>2, <1>3, <2>1, <3>1, LockoutColumns
  <2>2. CASE Saved(w, "welcome") /\ UNCHANGED users
    BY <1>2, <2>2 DEF Saved, Step
  <2>. QED BY <1>6, <2>1, <2>2 DEF Welcome
<1>. QED BY <1>4, <1>5, <1>6

\* A request begins with one of these steps, of its own.
Begins(w) ==
  \E u \in Users :
    \/ \E correct \in BOOLEAN, screen \in {"form", "site"} : Login(w, u, correct, screen)
    \/ \E p \in Profiles : CreateUser(w, u, p)
    \/ \E p \in Profiles, a, site \in BOOLEAN : EditUser(w, u, p, a, site)
    \/ UnlockRequest(w, u) \/ SaveLanguage(w, u) \/ SetupTwoFactor(w, u)

LEMMA BeginsOwn ==
  ASSUME IInv, NEW w \in Workers, Begins(w)
  PROVE  /\ pc[w] = "idle" /\ pc'[w] # "idle" /\ UNCHANGED <<users, groups, crashes>>
         /\ \A v \in Workers \ {w} : pc'[v] = pc[v] /\ task'[v] = task[v]
BY DEF Begins, Login, CreateUser, EditUser, UnlockRequest, SaveLanguage, SetupTwoFactor, Begin,
       Counted, Keep, Step, IInv

LEMMA RequestStepOwn ==
  ASSUME IInv, NEW w \in Workers, RequestStep(w)
  PROVE  /\ pc[w] # "idle" /\ crashes' = crashes
         /\ \A v \in Workers \ {w} : pc'[v] = pc[v] /\ task'[v] = task[v]
BY DEF RequestStep, LoginStep, Authenticate, CountFailure, SaveFailure, Welcome, Unlock,
       InsertUser, SaveUser, ReadGroups, SetGroups, CreateDevice, ConfirmDevice, SaveLockout,
       Saved, End, Keep, KeepRow, Step, IInv

\* What any step does.
LEMMA StepCases ==
  ASSUME Next
  PROVE  \/ \E w \in Workers : RequestStep(w) \/ Crash(w) \/ Begins(w)
         \/ Minute
         \/ UNCHANGED <<users, groups, pc, task, crashes>>
BY DEF Next, Begins, VerifyTwoFactor, EndSession

-----------------------------------------------------------------------------
\* A step of w that changes neither rows nor the requests of others.
LEMMA ProfilesKept ==
  ASSUME IInv, ProfilesOK, NEW w \in Workers,
         DOMAIN users' = DOMAIN users,
         \A u \in DOMAIN users : /\ users'[u].profile = users[u].profile
                                 /\ users'[u].superuser = users[u].superuser,
         \A v \in Workers \ {w} : pc'[v] = pc[v] /\ task'[v] = task[v],
         pc'[w] = "insert" \/ (pc'[w] = "update" /\ ~ task'[w].site) =>
           task'[w].row.profile # SuperAdmin
  PROVE  ProfilesOK'
BY DEF ProfilesOK

LEMMA BeginsProfiles ==
  ASSUME IInv, ProfilesOK, NEW w \in Workers, Begins(w)
  PROVE  ProfilesOK'
<1>1. /\ UNCHANGED users
      /\ \A v \in Workers \ {w} : pc'[v] = pc[v] /\ task'[v] = task[v]
  BY BeginsOwn
<1>2. PICK u \in Users :
        \/ \E correct \in BOOLEAN, screen \in {"form", "site"} : Login(w, u, correct, screen)
        \/ \E p \in Profiles : CreateUser(w, u, p)
        \/ \E p \in Profiles, a, site \in BOOLEAN : EditUser(w, u, p, a, site)
        \/ UnlockRequest(w, u) \/ SaveLanguage(w, u) \/ SetupTwoFactor(w, u)
  BY DEF Begins
<1>3. ASSUME NEW p \in Profiles, CreateUser(w, u, p) PROVE task'[w].row.profile # SuperAdmin
  <2>1. task'[w] = [user |-> u, site |-> FALSE, row |-> NewRow(p)] /\ p # SuperAdmin
    BY <1>3 DEF CreateUser, Begin, Counted, Keep, Assignable, IInv
  <2>. QED BY <2>1 DEF NewRow
<1>4. ASSUME NEW p \in Profiles, NEW a \in BOOLEAN, NEW site \in BOOLEAN,
             EditUser(w, u, p, a, site)
      PROVE  pc'[w] = "update" /\ (~ task'[w].site => task'[w].row.profile # SuperAdmin)
  <2>. DEFINE row == [users[u] EXCEPT !.profile = p, !.active = a]
  <2>1. users[u] \in Row
    BY <1>4 DEF EditUser, IInv, TablesOK, SoundRow
  <2>2. task'[w] = [user |-> u, site |-> site, row |-> row]
        /\ pc'[w] = "update" /\ (site \/ p # SuperAdmin)
    BY <1>4 DEF EditUser, Begin, Counted, Keep, Step, Assignable, IInv
  <2>3. row.profile = p
    BY <2>1 DEF Row
  <2>. HIDE DEF row
  <2>4. task'[w].site = site /\ task'[w].row = row
    BY <2>2
  <2>. QED BY <2>2, <2>3, <2>4
<1>5. CASE \/ \E correct \in BOOLEAN, screen \in {"form", "site"} : Login(w, u, correct, screen)
           \/ UnlockRequest(w, u) \/ SaveLanguage(w, u) \/ SetupTwoFactor(w, u)
  <2>1. pc'[w] \notin {"insert", "update"}
    BY <1>5 DEF Login, UnlockRequest, SaveLanguage, SetupTwoFactor, Begin, Counted, Keep, Step,
                IInv
  <2>. QED BY <1>1, <2>1, ProfilesKept
<1>. QED BY <1>1, <1>2, <1>3, <1>4, <1>5, ProfilesKept

LEMMA InsertProfiles ==
  ASSUME IInv, ProfilesOK, NEW w \in Workers, InsertUser(w)
  PROVE  ProfilesOK'
<1>1. pc[w] = "insert" /\ pc'[w] \in {"idle", "groups"}
      /\ \A v \in Workers \ {w} : pc'[v] = pc[v] /\ task'[v] = task[v]
  BY DEF InsertUser, End, Keep, Saved, Step, IInv
<1>2. task[w].row.profile # SuperAdmin
  BY <1>1 DEF ProfilesOK
<1>3. CASE UNCHANGED users
  BY <1>1, <1>3, ProfilesKept
<1>4. CASE users' = [v \in DOMAIN users \cup {task[w].user} |->
                       IF v = task[w].user THEN task[w].row ELSE users[v]]
  BY <1>1, <1>2, <1>4 DEF ProfilesOK
<1>. QED BY <1>3, <1>4 DEF InsertUser

LEMMA SaveUserStep ==
  ASSUME IInv, NEW w \in Workers, SaveUser(w)
  PROVE  LET u == task[w].user
             row == task[w].row
         IN /\ pc[w] = "update" /\ u \in DOMAIN users /\ DOMAIN users' = DOMAIN users
            /\ \A v \in DOMAIN users \ {u} : users'[v] = users[v]
            /\ LockoutOf(users'[u]) = LockoutOf(row) /\ users'[u].profile = row.profile
            /\ IF task[w].site
               THEN /\ pc'[w] = "idle" /\ (row.profile = SuperAdmin => users'[u].superuser)
                    /\ groups'[u] = {row.profile}
               ELSE pc'[w] = "groups" /\ task'[w] = [user |-> u, profile |-> row.profile]
<1>. DEFINE u == task[w].user
            row == task[w].row
            granted == [row EXCEPT !.superuser = @ \/ row.profile = SuperAdmin]
<1>1. pc[w] = "update" /\ u \in DOMAIN users /\ u \in Users /\ row \in Row
  BY DEF SaveUser, IInv, TaskOK, SoundRow
<1>2. LockoutOf(granted) = LockoutOf(row) /\ granted.profile = row.profile
      /\ (row.profile = SuperAdmin => granted.superuser)
  BY <1>1 DEF Row, LockoutOf
<1>3. CASE task[w].site
  <2>1. users' = [users EXCEPT ![u] = granted] /\ pc'[w] = "idle"
        /\ groups' = [groups EXCEPT ![u] = {row.profile}]
    BY <1>3 DEF SaveUser, End, Keep, Step, IInv, GroupsOf
  <2>2. groups'[u] = {row.profile}
    BY <1>1, <2>1 DEF IInv, TablesOK
  <2>. HIDE DEF granted
  <2>. QED BY <1>1, <1>2, <1>3, <2>1, <2>2
<1>4. CASE ~ task[w].site
  <2>1. users' = [users EXCEPT ![u] = row] /\ pc'[w] = "groups"
        /\ task'[w] = [user |-> u, profile |-> row.profile]
    BY <1>4 DEF SaveUser, Saved, Step, IInv
  <2>. QED BY <1>1, <1>4, <2>1
<1>. QED BY <1>3, <1>4

LEMMA SaveUserProfiles ==
  ASSUME IInv, ProfilesOK, NEW w \in Workers, SaveUser(w)
  PROVE  ProfilesOK'
<1>1. \A v \in Workers \ {w} : pc'[v] = pc[v] /\ task'[v] = task[v]
  BY RequestStepOwn DEF RequestStep
<1>. DEFINE u == task[w].user
            row == task[w].row
<1>2. /\ pc[w] = "update" /\ u \in DOMAIN users /\ DOMAIN users' = DOMAIN users
      /\ \A v \in DOMAIN users \ {u} : users'[v] = users[v]
      /\ users'[u].profile = row.profile /\ pc'[w] \in {"idle", "groups"}
      /\ task[w].site /\ row.profile = SuperAdmin => users'[u].superuser
  BY SaveUserStep
<1>3. ~ task[w].site => row.profile # SuperAdmin
  BY <1>2 DEF ProfilesOK
<1>4. \A v \in DOMAIN users' : users'[v].profile = SuperAdmin => users'[v].superuser
  BY <1>2, <1>3 DEF ProfilesOK
<1>. QED BY <1>1, <1>2, <1>4 DEF ProfilesOK

LEMMA MinuteColumns ==
  ASSUME IInv, Minute
  PROVE  /\ DOMAIN users' = DOMAIN users /\ pc' = pc
         /\ \A u \in DOMAIN users :
              /\ LockoutOf(users'[u]) = LockoutOf(Shorter(users[u]))
              /\ users'[u].profile = users[u].profile
              /\ users'[u].superuser = users[u].superuser
         /\ \A w \in Workers :
              IF HoldsRow(w)
              THEN /\ task'[w].user = task[w].user
                   /\ task'[w].row.profile = task[w].row.profile
                   /\ LockoutOf(task'[w].row) = LockoutOf(Shorter(task[w].row))
                   /\ pc[w] = "update" => task'[w].site = task[w].site
              ELSE task'[w] = task[w]
<1>1. ASSUME NEW row \in Row
      PROVE  /\ Shorter(row).profile = row.profile /\ Shorter(row).superuser = row.superuser
  BY DEF Shorter, Row
<1>2. \A u \in DOMAIN users : users[u] \in Row
  BY DEF IInv, TablesOK, SoundRow
<1>3. users' = [u \in DOMAIN users |-> Shorter(users[u])] /\ pc' = pc
  BY DEF Minute
<1>4. ASSUME NEW w \in Workers, HoldsRow(w)
      PROVE  /\ task'[w].user = task[w].user
             /\ task'[w].row = Shorter(task[w].row) /\ task[w].row \in Row
             /\ pc[w] = "update" => task'[w].site = task[w].site
  <2>1. task'[w] = [task[w] EXCEPT !.row = Shorter(task[w].row)]
    BY <1>4 DEF Minute
  <2>2. \/ pc[w] = "update" /\ task[w] \in [user : Users, site : BOOLEAN, row : SoundRow]
        \/ pc[w] # "update" /\ task[w] \in [user : DOMAIN users, row : SoundRow]
    BY <1>4 DEF HoldsRow, IInv, TaskOK
  <2>. QED BY <2>1, <2>2 DEF SoundRow
<1>5. ASSUME NEW w \in Workers, ~ HoldsRow(w) PROVE task'[w] = task[w]
  BY <1>5 DEF Minute
<1>. QED BY <1>1, <1>2, <1>3, <1>4, <1>5

LEMMA ProfilesInductive ==
  ASSUME IInv, ProfilesOK, Next
  PROVE  ProfilesOK'
<1>1. ASSUME NEW w \in Workers, RequestStep(w) PROVE ProfilesOK'
  <2>1. \A v \in Workers \ {w} : pc'[v] = pc[v] /\ task'[v] = task[v]
    BY <1>1, RequestStepOwn
  <2>2. CASE InsertUser(w) \/ SaveUser(w)
    BY <2>2, InsertProfiles, SaveUserProfiles
  <2>3. CASE SaveFailure(w) \/ Welcome(w) \/ Unlock(w)
    <3>1. pc'[w] = "groups"
      BY <2>3, LockoutSteps DEF IInv
    <3>. QED BY <2>1, <2>3, <3>1, LockoutSteps, ProfilesKept
  <2>4. CASE \/ Authenticate(w) \/ CountFailure(w) \/ ReadGroups(w) \/ SetGroups(w)
             \/ CreateDevice(w) \/ \E valid \in BOOLEAN : ConfirmDevice(w, valid)
    <3>1. UNCHANGED users /\ pc'[w] \notin {"insert", "update"}
      BY <2>4 DEF Authenticate, CountFailure, ReadGroups, SetGroups, CreateDevice, ConfirmDevice,
                  End, Keep, Step, IInv
    <3>. QED BY <2>1, <3>1, ProfilesKept
  <2>. QED BY <1>1, <2>2, <2>3, <2>4 DEF RequestStep, LoginStep
<1>2. ASSUME NEW w \in Workers, Crash(w) PROVE ProfilesOK'
  <2>1. UNCHANGED users /\ pc'[w] = "idle"
        /\ \A v \in Workers \ {w} : pc'[v] = pc[v] /\ task'[v] = task[v]
    BY <1>2 DEF Crash, Dies, End, Step, Keep, IInv
  <2>. QED BY <2>1, ProfilesKept
<1>3. CASE Minute
  <2>1. \A u \in DOMAIN users' : users'[u].profile = SuperAdmin => users'[u].superuser
    BY <1>3, MinuteColumns DEF ProfilesOK
  <2>2. ASSUME NEW w \in Workers, pc'[w] = "insert" \/ (pc'[w] = "update" /\ ~ task'[w].site)
        PROVE  task'[w].row.profile # SuperAdmin
    BY <1>3, <2>2, MinuteColumns DEF ProfilesOK, HoldsRow
  <2>. QED BY <2>1, <2>2 DEF ProfilesOK
<1>4. CASE UNCHANGED <<users, groups, pc, task, crashes>>
  BY <1>4 DEF ProfilesOK
<1>. QED BY <1>1, <1>2, <1>3, <1>4, StepCases, BeginsProfiles

-----------------------------------------------------------------------------
LEMMA FirstKeeps ==
  ASSUME IInv, MCNext, NEW w \in Workers, alone'[w], Begins(w)
  PROVE  AloneOK(w)'
<1>1. /\ UNCHANGED users /\ pc'[w] # "idle"
      /\ \A v \in Workers \ {w} : pc'[v] = "idle"
  BY BeginsOwn DEF MCNext
<1>2. PICK u \in Users :
        \/ \E correct \in BOOLEAN, screen \in {"form", "site"} : Login(w, u, correct, screen)
        \/ \E p \in Profiles : CreateUser(w, u, p)
        \/ \E p \in Profiles, a, site \in BOOLEAN : EditUser(w, u, p, a, site)
        \/ UnlockRequest(w, u) \/ SaveLanguage(w, u) \/ SetupTwoFactor(w, u)
  BY DEF Begins
<1>3. CASE UnlockRequest(w, u)
  <2>1. pc'[w] = "unlock" /\ task'[w] = [user |-> u, row |-> users[u]]
    BY <1>3 DEF UnlockRequest, Begin, Counted, Keep, Step, IInv
  <2>. QED BY <1>1, <2>1 DEF AloneOK
<1>4. CASE SaveLanguage(w, u)
  <2>1. pc'[w] = "groups" /\ task'[w] = [user |-> u, profile |-> users[u].profile]
    BY <1>4 DEF SaveLanguage, Begin, Counted, Keep, Step, IInv
  <2>2. u \in DOMAIN users
    BY <1>4 DEF SaveLanguage, MayBrowse, IInv, TablesOK
  <2>. QED BY <1>1, <2>1, <2>2 DEF AloneOK
<1>5. ASSUME NEW p \in Profiles, NEW a \in BOOLEAN, NEW site \in BOOLEAN,
             EditUser(w, u, p, a, site)
      PROVE  AloneOK(w)'
  <2>. DEFINE row == [users[u] EXCEPT !.profile = p, !.active = a]
  <2>1. users[u] \in Row
    BY <1>5 DEF EditUser, IInv, TablesOK, SoundRow
  <2>2. task'[w] = [user |-> u, site |-> site, row |-> row] /\ pc'[w] = "update"
    BY <1>5 DEF EditUser, Begin, Counted, Keep, Step, IInv
  <2>3. LockoutOf(row) = LockoutOf(users[u])
    BY <2>1 DEF Row, LockoutOf
  <2>. HIDE DEF row
  <2>. QED BY <1>1, <2>2, <2>3 DEF AloneOK
<1>6. CASE \/ \E correct \in BOOLEAN, screen \in {"form", "site"} : Login(w, u, correct, screen)
           \/ SetupTwoFactor(w, u)
  <2>1. pc'[w] \in {"authenticate", "failure", "enrol", "token"}
    BY <1>6 DEF Login, SetupTwoFactor, Begin, Counted, Keep, Step, IInv
  <2>. QED BY <1>1, <2>1 DEF AloneOK
<1>7. ASSUME NEW p \in Profiles, CreateUser(w, u, p) PROVE AloneOK(w)'
  <2>1. pc'[w] = "insert" /\ task'[w] = [user |-> u, site |-> FALSE, row |-> NewRow(p)]
    BY <1>7 DEF CreateUser, Begin, Counted, Keep, Step, IInv
  <2>2. LockoutOf(NewRow(p)) = Servico!Clear
    BY DEF NewRow, LockoutOf, Servico!Clear
  <2>. QED BY <1>1, <2>1, <2>2 DEF AloneOK
<1>. QED BY <1>2, <1>3, <1>4, <1>5, <1>6, <1>7

LEMMA RequestStepKeeps ==
  ASSUME IInv, NEW w \in Workers, AloneOK(w), RequestStep(w), pc'[w] # "idle",
         \A v \in Workers \ {w} : pc'[v] = "idle"
  PROVE  AloneOK(w)'
<1>. DEFINE t == task[w]
            u == task[w].user
<1>1. CASE Authenticate(w)
  <2>. DEFINE row == IF users[u].active /\ ~ IsLocked(users[u]) THEN users[u] ELSE None
  <2>1. pc[w] = "authenticate" /\ UNCHANGED users
        /\ pc'[w] = (IF users[u].active /\ ~ IsLocked(users[u]) THEN "welcome" ELSE "failure")
        /\ task'[w] = [t EXCEPT !.row = row]
    BY <1>1 DEF Authenticate, Step, KeepRow, IInv
  <2>2. task'[w].user = u /\ task'[w].row = row
    BY <2>1 DEF IInv, TaskOK
  <2>. QED BY <2>1, <2>2 DEF AloneOK
<1>2. CASE CountFailure(w)
  <2>1. pc[w] = "failure" /\ UNCHANGED users /\ ~ IsLocked(users[u]) /\ pc'[w] = "count"
        /\ task'[w] = [t EXCEPT !.row = AfterFailure(users[u])]
    BY <1>2 DEF CountFailure, End, Keep, Step, KeepRow, IInv
  <2>2. task'[w].user = u /\ task'[w].row = AfterFailure(users[u]) /\ users[u] \in Row
    BY <2>1 DEF IInv, TaskOK, TablesOK, SoundRow
  <2>3. AfterFailure(users[u]).profile = users[u].profile
    BY <2>2 DEF AfterFailure, Row
  <2>4. Failed(users[u], AfterFailure(users[u]))
    BY <2>1, <2>2, FailureIsCounted
  <2>. QED BY <2>1, <2>2, <2>3, <2>4 DEF AloneOK
<1>3. CASE SaveFailure(w) \/ Welcome(w) \/ Unlock(w)
  <2>1. /\ pc[w] \in {"count", "welcome", "unlock"} /\ u \in DOMAIN users
        /\ DOMAIN users' = DOMAIN users /\ users'[u].profile = users[u].profile
        /\ pc' = [pc EXCEPT ![w] = "groups"]
        /\ task' = [task EXCEPT ![w] = [user |-> u, profile |-> t.row.profile]]
    BY <1>3, LockoutSteps
  <2>2. pc'[w] = "groups" /\ task'[w] = [user |-> u, profile |-> t.row.profile]
    BY <2>1 DEF IInv
  <2>3. t.row.profile = users[u].profile
    BY <2>1 DEF AloneOK
  <2>. QED BY <2>1, <2>2, <2>3 DEF AloneOK
<1>4. CASE InsertUser(w)
  <2>1. pc'[w] = "groups" /\ task'[w] = [user |-> u, profile |-> t.row.profile]
        /\ users' = [v \in DOMAIN users \cup {u} |-> IF v = u THEN t.row ELSE users[v]]
    BY <1>4 DEF InsertUser, End, Keep, Saved, Step, IInv
  <2>. QED BY <2>1 DEF AloneOK
<1>5. CASE SaveUser(w)
  <2>1. /\ u \in DOMAIN users /\ DOMAIN users' = DOMAIN users
        /\ users'[u].profile = t.row.profile
        /\ pc'[w] = "groups" /\ task'[w] = [user |-> u, profile |-> t.row.profile]
    BY <1>5, SaveUserStep
  <2>. QED BY <2>1 DEF AloneOK
<1>6. CASE ReadGroups(w)
  <2>1. pc[w] = "groups" /\ pc'[w] = "set" /\ UNCHANGED <<task, users>>
    BY <1>6 DEF ReadGroups, End, Keep, Step, IInv
  <2>. QED BY <2>1 DEF AloneOK
<1>7. CASE SetGroups(w) \/ \E valid \in BOOLEAN : ConfirmDevice(w, valid)
  BY <1>7 DEF SetGroups, ConfirmDevice, End, Keep, Step, IInv
<1>8. CASE CreateDevice(w)
  BY <1>8 DEF CreateDevice, Step, IInv, AloneOK
<1>. QED BY <1>1, <1>2, <1>3, <1>4, <1>5, <1>6, <1>7, <1>8 DEF RequestStep, LoginStep

LEMMA MinuteKeepsAlone ==
  ASSUME IInv, NEW w \in Workers, AloneOK(w), Minute
  PROVE  AloneOK(w)'
<1>. DEFINE u == task[w].user
<1>1. task'[w].user = u /\ pc' = pc /\ DOMAIN users' = DOMAIN users
  BY MinuteColumns
<1>2. HoldsRow(w) => u \in DOMAIN users /\ users[u] \in Row /\ task[w].row \in Row
  BY DEF HoldsRow, IInv, TaskOK, TablesOK, SoundRow
<1>3. CASE HoldsRow(w)
  <2>1. /\ LockoutOf(users'[u]) = LockoutOf(Shorter(users[u]))
        /\ LockoutOf(task'[w].row) = LockoutOf(Shorter(task[w].row))
        /\ users'[u].profile = users[u].profile
        /\ task'[w].row.profile = task[w].row.profile
    BY <1>2, <1>3, MinuteColumns
  <2>2. /\ LockoutOf(task[w].row) = LockoutOf(users[u]) =>
             LockoutOf(task'[w].row) = LockoutOf(users'[u])
        /\ ~ IsLocked(users[u]) => ~ IsLocked(users'[u])
        /\ ~ IsLocked(users[u]) /\ Failed(users[u], task[w].row) =>
             Failed(users'[u], task'[w].row)
    BY <1>2, <1>3, <2>1, MinuteIsShared
  <2>. QED BY <1>1, <1>3, <2>1, <2>2 DEF AloneOK, HoldsRow
<1>4. CASE ~ HoldsRow(w)
  <2>1. task'[w] = task[w] /\ \A v \in DOMAIN users : users'[v].profile = users[v].profile
    BY <1>4, MinuteColumns
  <2>. QED BY <1>1, <1>4, <2>1 DEF AloneOK, HoldsRow
<1>. QED BY <1>3, <1>4

LEMMA AloneInductive ==
  ASSUME IInv, AInv, [MCNext]_<<vars, alone>>
  PROVE  AInv'
<1>1. CASE UNCHANGED <<vars, alone>>
  BY <1>1 DEF vars, requestVars, AInv, AloneOK, ProfilesOK
<1>2. ASSUME MCNext PROVE ProfilesOK'
  BY <1>2, ProfilesInductive DEF AInv, MCNext
<1>3. ASSUME MCNext, NEW w \in Workers, pc'[w] # "idle", alone'[w] PROVE AloneOK(w)'
  <2>1. \A v \in Workers \ {w} : pc'[v] = "idle"
    BY <1>3 DEF MCNext
  <2>2. pc[w] # "idle" => AloneOK(w)
    BY <1>3 DEF AInv, MCNext
  <2>3. ASSUME NEW v \in Workers, RequestStep(v) PROVE AloneOK(w)'
    <3>1. CASE v = w
      <4>1. pc[w] # "idle"
        BY <2>3, <3>1, RequestStepOwn
      <4>. QED BY <1>3, <2>1, <2>2, <2>3, <3>1, <4>1, RequestStepKeeps
    <3>2. CASE v # w
      <4>1. pc[v] # "idle" /\ pc'[w] = pc[w]
        BY <2>3, <3>2, RequestStepOwn
      <4>. QED BY <1>3, <2>2, <3>2, <4>1 DEF AloneOK
    <3>. QED BY <3>1, <3>2
  <2>4. ASSUME NEW v \in Workers, Crash(v) PROVE AloneOK(w)'
    <3>1. pc[v] # "idle" /\ pc'[v] = "idle" /\ \A o \in Workers \ {v} : pc'[o] = pc[o]
      BY <2>4 DEF Crash, Dies, End, Step, Keep, IInv
    <3>. QED BY <1>3, <2>2, <3>1 DEF AloneOK
  <2>5. ASSUME NEW v \in Workers, Begins(v) PROVE AloneOK(w)'
    <3>1. pc'[v] # "idle"
      BY <2>5, BeginsOwn
    <3>2. v = w
      BY <2>1, <3>1
    <3>. QED BY <1>3, <2>5, <3>2, FirstKeeps
  <2>6. CASE Minute
    <3>1. pc'[w] = pc[w]
      BY <2>6 DEF Minute
    <3>. QED BY <1>3, <2>2, <2>6, <3>1, MinuteKeepsAlone
  <2>7. CASE UNCHANGED <<users, groups, pc, task, crashes>>
    BY <1>3, <2>2, <2>7 DEF AloneOK
  <2>. QED BY <1>3, <2>3, <2>4, <2>5, <2>6, <2>7, StepCases DEF MCNext
<1>4. ASSUME MCNext, NEW w \in Workers, pc'[w] = "idle" PROVE alone'[w]
  BY <1>4 DEF MCNext
<1>. QED BY <1>1, <1>2, <1>3, <1>4 DEF AInv

LEMMA AloneInvariant == MCSpec => []AInv
<1>1. MCInit => AInv
  <2>. SUFFICES ASSUME MCInit PROVE ProfilesOK
    BY DEF MCInit, Init, RequestsInit, AInv
  <2>1. PICK old \in SUBSET Users, p \in Assignable : users = [u \in old |-> NewRow(p)]
    BY DEF MCInit, Init, RequestsInit
  <2>2. NewRow(p).profile = p /\ p # SuperAdmin
    BY DEF NewRow, Assignable
  <2>. QED BY <2>1, <2>2 DEF MCInit, Init, RequestsInit, ProfilesOK
<1>2. IInv /\ AInv /\ [MCNext]_<<vars, alone>> => AInv'
  BY AloneInductive
<1>. QED BY <1>1, <1>2, MCInvariant, PTL DEF MCSpec

-----------------------------------------------------------------------------
(* The step that writes is where an operation takes effect, the others change  *)
(* no lockout.                                                                *)
LEMMA OneLockout ==
  ASSUME NEW u \in DOMAIN users, DOMAIN users' = DOMAIN users,
         \A v \in DOMAIN users \ {u} : users'[v] = users[v],
         NEW x, LockoutOf(users'[u]) = x
  PROVE  Lockouts' = [Lockouts EXCEPT ![u] = x]
BY DEF Lockouts, LockoutOf

LEMMA LockoutColumnsOf ==
  ASSUME IInv, NEW u \in DOMAIN users
  PROVE  /\ u \in Users /\ u \in DOMAIN Lockouts /\ DOMAIN Lockouts = DOMAIN users
         /\ Lockouts[u] = LockoutOf(users[u])
         /\ Lockouts[u].failed = users[u].failed /\ users[u].failed \in Nat
         /\ Lockouts[u].left = users[u].left /\ users[u].left \in Nat
         /\ Lockouts[u].count = users[u].count /\ users[u].count \in Nat
BY DEF IInv, TablesOK, SoundRow, Row, Lockouts, LockoutOf

LEMMA FailureIsService ==
  ASSUME IInv, NEW w \in Workers, AloneOK(w), SaveFailure(w)
  PROVE  Servico!Next
<1>. DEFINE u == task[w].user
            row == task[w].row
<1>1. pc[w] = "count"
  BY DEF SaveFailure, SaveLockout, Saved, Step
<1>2. /\ u \in DOMAIN users /\ DOMAIN users' = DOMAIN users
      /\ \A v \in DOMAIN users \ {u} : users'[v] = users[v]
      /\ LockoutOf(users'[u]) = LockoutOf(row)
  BY <1>1, LockoutSteps
<1>3. ~ IsLocked(users[u]) /\ Failed(users[u], row)
  BY <1>1 DEF AloneOK
<1>4. Lockouts' = [Lockouts EXCEPT ![u] = LockoutOf(row)]
  BY <1>2, OneLockout
<1>5. /\ u \in Users /\ u \in DOMAIN Lockouts
      /\ Lockouts[u] = LockoutOf(users[u]) /\ Lockouts[u].left = 0
      /\ Lockouts[u].failed = users[u].failed /\ Lockouts[u].count = users[u].count
      /\ users[u].failed \in Nat
  BY <1>2, <1>3, LockoutColumnsOf DEF IsLocked
<1>6. CASE users[u].failed + 1 < MaxFailed
  <2>1. LockoutOf(row) = [Lockouts[u] EXCEPT !.failed = @ + 1]
    BY <1>3, <1>5, <1>6 DEF Failed, LockoutOf
  <2>2. Servico!Fail(u)
    BY <1>4, <1>5, <1>6, <2>1 DEF Servico!Fail, Servico!Open
  <2>. QED BY <1>5, <2>2 DEF Servico!Next
<1>7. CASE ~ (users[u].failed + 1 < MaxFailed)
  <2>1. PICK minutes \in 0 .. LockoutDuration(Lockouts[u].count) :
          LockoutOf(row) = [failed |-> 0, left |-> minutes, count |-> Lockouts[u].count + 1]
    BY <1>3, <1>5, <1>7 DEF Failed
  <2>2. Lockouts[u].failed + 1 >= MaxFailed
    BY <1>5, <1>7, LockoutAssumption
  <2>3. Servico!Lock(u)
    BY <1>4, <1>5, <2>1, <2>2 DEF Servico!Lock, Servico!Open
  <2>. QED BY <1>5, <2>3 DEF Servico!Next
<1>. QED BY <1>6, <1>7

LEMMA ResetIsService ==
  ASSUME IInv, NEW w \in Workers, AloneOK(w), Welcome(w) \/ Unlock(w)
  PROVE  Servico!Next \/ Lockouts' = Lockouts
<1>. DEFINE u == task[w].user
<1>1. CASE Welcome(w)
  <2>1. pc[w] = "welcome"
    BY <1>1 DEF Welcome, SaveLockout, Saved, Step
  <2>2. ~ IsLocked(users[u])
    BY <2>1 DEF AloneOK
  <2>3. CASE UNCHANGED users
    BY <2>3 DEF Lockouts
  <2>4. CASE ~ UNCHANGED users
    <3>1. u \in DOMAIN users /\ Lockouts' = [Lockouts EXCEPT ![u] = Servico!Clear]
      BY <1>1, <2>1, <2>4, LockoutSteps, OneLockout
    <3>2. Servico!Open(u) /\ u \in Users
      BY <2>2, <3>1, LockoutColumnsOf DEF IsLocked, Servico!Open
    <3>. QED BY <3>1, <3>2 DEF Servico!Login, Servico!Next
  <2>. QED BY <2>3, <2>4
<1>2. CASE Unlock(w)
  <2>1. pc[w] = "unlock"
    BY <1>2 DEF Unlock, SaveLockout, Saved, Step
  <2>2. u \in DOMAIN users /\ Lockouts' = [Lockouts EXCEPT ![u] = Servico!Clear]
    BY <1>2, <2>1, LockoutSteps, OneLockout
  <2>3. u \in Users /\ u \in DOMAIN Lockouts
    BY <2>2, LockoutColumnsOf
  <2>. QED BY <2>2, <2>3 DEF Servico!Unlock, Servico!Next
<1>. QED BY <1>1, <1>2

LEMMA InsertIsService ==
  ASSUME IInv, NEW w \in Workers, AloneOK(w), InsertUser(w)
  PROVE  Servico!Next \/ Lockouts' = Lockouts
<1>. DEFINE u == task[w].user
<1>1. pc[w] = "insert" /\ u \in Users /\ LockoutOf(task[w].row) = Servico!Clear
  BY DEF InsertUser, AloneOK, IInv, TaskOK
<1>2. CASE UNCHANGED users
  BY <1>2 DEF Lockouts
<1>3. CASE ~ UNCHANGED users
  <2>1. /\ u \notin DOMAIN users
        /\ users' = [v \in DOMAIN users \cup {u} |-> IF v = u THEN task[w].row ELSE users[v]]
    BY <1>3 DEF InsertUser
  <2>2. DOMAIN Lockouts = DOMAIN users
    BY DEF Lockouts
  <2>3. Lockouts' = [v \in DOMAIN Lockouts \cup {u} |->
                      IF v = u THEN Servico!Clear ELSE Lockouts[v]]
    BY <1>1, <2>1, <2>2 DEF Lockouts, LockoutOf
  <2>4. Servico!Create(u)
    BY <2>1, <2>2, <2>3 DEF Servico!Create
  <2>. QED BY <1>1, <2>4 DEF Servico!Next
<1>. QED BY <1>2, <1>3

LEMMA EditionIsStutter ==
  ASSUME IInv, NEW w \in Workers, AloneOK(w), SaveUser(w)
  PROVE  Lockouts' = Lockouts
<1>. DEFINE u == task[w].user
<1>1. /\ pc[w] = "update" /\ u \in DOMAIN users /\ DOMAIN users' = DOMAIN users
      /\ \A v \in DOMAIN users \ {u} : users'[v] = users[v]
      /\ LockoutOf(users'[u]) = LockoutOf(task[w].row)
  BY SaveUserStep
<1>2. LockoutOf(users'[u]) = LockoutOf(users[u])
  BY <1>1 DEF AloneOK
<1>. QED BY <1>1, <1>2 DEF Lockouts

LEMMA MinuteIsService ==
  ASSUME IInv, Minute
  PROVE  Servico!Next
<1>1. DOMAIN users' = DOMAIN users
      /\ \A u \in DOMAIN users : LockoutOf(users'[u]) = LockoutOf(Shorter(users[u]))
  BY MinuteColumns
<1>2. ASSUME NEW u \in DOMAIN users
      PROVE  LockoutOf(Shorter(users[u])) =
               [Lockouts[u] EXCEPT !.left = IF @ = 0 THEN 0 ELSE @ - 1]
  BY DEF IInv, TablesOK, SoundRow, Row, Lockouts, LockoutOf, Shorter
<1>3. Lockouts' = [u \in DOMAIN Lockouts |->
                    [Lockouts[u] EXCEPT !.left = IF @ = 0 THEN 0 ELSE @ - 1]]
  BY <1>1, <1>2 DEF Lockouts
<1>. QED BY <1>3 DEF Servico!Minute, Servico!Next

LEMMA StepIsService ==
  ASSUME IInv, AInv, MCNext, \A w \in Workers : pc'[w] # pc[w] => alone[w]
  PROVE  Servico!Next \/ Lockouts' = Lockouts
<1>1. ASSUME NEW w \in Workers, RequestStep(w)
      PROVE  Servico!Next \/ Lockouts' = Lockouts
  <2>1. pc[w] # "idle"
    BY <1>1, RequestStepOwn
  <2>2. CASE UNCHANGED users
    BY <2>2 DEF Lockouts
  <2>3. CASE ~ UNCHANGED users
    <3>1. SaveFailure(w) \/ Welcome(w) \/ Unlock(w) \/ SaveUser(w) \/ InsertUser(w)
      BY <1>1, <2>3 DEF RequestStep, LoginStep, Authenticate, CountFailure, ReadGroups, SetGroups,
                        CreateDevice, ConfirmDevice
    <3>2. pc'[w] # pc[w]
      <4>1. CASE SaveFailure(w) \/ Welcome(w) \/ Unlock(w)
        BY <4>1, LockoutSteps DEF IInv
      <4>2. CASE SaveUser(w)
        BY <4>2, SaveUserStep
      <4>3. CASE InsertUser(w)
        BY <2>3, <4>3 DEF InsertUser, Saved, Step, IInv
      <4>. QED BY <3>1, <4>1, <4>2, <4>3
    <3>3. AloneOK(w)
      BY <2>1, <3>2 DEF AInv
    <3>. QED BY <3>1, <3>3, FailureIsService, ResetIsService, InsertIsService, EditionIsStutter
  <2>. QED BY <2>2, <2>3
<1>2. ASSUME NEW w \in Workers, Crash(w) \/ Begins(w) PROVE Lockouts' = Lockouts
  BY <1>2, BeginsOwn DEF Crash, Lockouts
<1>3. CASE Minute
  BY <1>3, MinuteIsService
<1>4. CASE UNCHANGED <<users, groups, pc, task, crashes>>
  BY <1>4 DEF Lockouts
<1>. QED BY <1>1, <1>2, <1>3, <1>4, StepCases DEF MCNext

\* register_failed_login, reset_lockout_state, unlock_accounts and create_user:
\* whatever races have gone before, the split reads, counts and writes of a request
\* that runs alone have the effect of the operations ContasServico promises.
THEOREM LockoutImplemented == MCSpec => ImplementsLockout
<1>. DEFINE Served == (\A w \in Workers : pc'[w] # pc[w] => alone[w]) => Servico!Next
<1>1. MCInit => Servico!Init
  <2>. SUFFICES ASSUME MCInit PROVE Servico!Init
    OBVIOUS
  <2>1. PICK old \in SUBSET Users, p \in Assignable : users = [u \in old |-> NewRow(p)]
    BY DEF MCInit, Init, RequestsInit
  <2>2. LockoutOf(NewRow(p)) = Servico!Clear
    BY DEF NewRow, LockoutOf, Servico!Clear
  <2>3. Lockouts = [u \in old |-> Servico!Clear]
    BY <2>1, <2>2 DEF Lockouts
  <2>. QED BY <2>3 DEF Servico!Init
<1>2. [MCNext]_<<vars, alone>> /\ IInv /\ AInv => [Served]_Lockouts
  <2>1. CASE MCNext
    BY <2>1, StepIsService
  <2>2. CASE UNCHANGED <<vars, alone>>
    BY <2>2 DEF vars, Lockouts
  <2>. QED BY <2>1, <2>2
<1>. HIDE DEF Served
<1>3. MCSpec => [][Served]_Lockouts
  BY <1>2, MCInvariant, AloneInvariant, PTL DEF MCSpec
<1>4. MCSpec => Servico!Init
  BY <1>1 DEF MCSpec
<1>. QED BY <1>3, <1>4 DEF Served, ImplementsLockout

\* Only time, an unlock and the stale row of an overlapped request.
KeepsLock ==
  \A u \in DOMAIN users :
    IsLocked(users[u]) =>
      \/ users'[u].left \in {users[u].left, users[u].left - 1}
      \/ \E w \in Workers : pc[w] = "unlock" /\ pc'[w] = "groups"
      \/ \E w \in Workers : pc'[w] # pc[w] /\ ~ alone[w]

\* AccountLockoutMixin, "until the lockout expires or an Administrator unlocks it":
\* whatever races have gone before, only time, an unlock and the stale row of a
\* request that overlapped another change how long an account stays locked.
THEOREM LocksAreKept == MCSpec => [][KeepsLock]_<<vars, alone>>
<1>1. ASSUME IInv, AInv, MCNext PROVE KeepsLock
  <2>. SUFFICES ASSUME NEW u \in DOMAIN users, IsLocked(users[u]),
                       ~ \E w \in Workers : pc[w] = "unlock" /\ pc'[w] = "groups",
                       ~ \E w \in Workers : pc'[w] # pc[w] /\ ~ alone[w]
                PROVE  users'[u].left \in {users[u].left, users[u].left - 1}
    BY DEF KeepsLock
  <2>1. ASSUME NEW w \in Workers, RequestStep(w)
        PROVE  users'[u].left = users[u].left
    <3>1. pc[w] # "idle"
      BY <1>1, <2>1, RequestStepOwn
    <3>2. pc'[w] # pc[w] => AloneOK(w)
      BY <1>1, <3>1 DEF AInv
    <3>3. CASE SaveFailure(w) \/ Welcome(w) \/ Unlock(w)
      <4>1. /\ pc[w] \in {"count", "welcome", "unlock"}
            /\ \A v \in DOMAIN users \ {task[w].user} : users'[v] = users[v]
            /\ pc'[w] = "groups"
        BY <1>1, <3>3, LockoutSteps DEF IInv
      <4>2. u # task[w].user
        BY <3>2, <4>1 DEF AloneOK
      <4>. QED BY <4>1, <4>2
    <3>4. CASE SaveUser(w)
      <4>1. /\ pc[w] = "update" /\ pc'[w] # pc[w]
            /\ \A v \in DOMAIN users \ {task[w].user} : users'[v] = users[v]
            /\ LockoutOf(users'[task[w].user]) = LockoutOf(task[w].row)
        BY <1>1, <3>4, SaveUserStep
      <4>. QED BY <3>2, <4>1 DEF AloneOK, LockoutOf
    <3>5. CASE InsertUser(w)
      BY <3>5 DEF InsertUser
    <3>6. CASE \/ Authenticate(w) \/ CountFailure(w) \/ ReadGroups(w) \/ SetGroups(w)
               \/ CreateDevice(w) \/ \E valid \in BOOLEAN : ConfirmDevice(w, valid)
      BY <3>6 DEF Authenticate, CountFailure, ReadGroups, SetGroups, CreateDevice, ConfirmDevice
    <3>. QED BY <2>1, <3>3, <3>4, <3>5, <3>6 DEF RequestStep, LoginStep
  <2>2. ASSUME NEW w \in Workers, Crash(w) \/ Begins(w)
        PROVE  users'[u].left = users[u].left
    BY <1>1, <2>2, BeginsOwn DEF Crash, Dies, End, Step, Keep
  <2>3. CASE Minute
    <3>1. LockoutOf(users'[u]) = LockoutOf(Shorter(users[u])) /\ users[u] \in Row
      BY <1>1, <2>3, MinuteColumns DEF IInv, TablesOK, SoundRow
    <3>. QED BY <3>1 DEF LockoutOf, Shorter, IsLocked, Row
  <2>. QED BY <1>1, <2>1, <2>2, <2>3, StepCases DEF MCNext
<1>2. [MCNext]_<<vars, alone>> /\ IInv /\ AInv => [KeepsLock]_<<vars, alone>>
  BY <1>1
<1>. QED BY <1>2, MCInvariant, AloneInvariant, PTL DEF MCSpec

\* sync_profile_group_membership: whatever groups races and crashes have left, a
\* save that runs alone leaves the user in the group of its profile and in no
\* other, and a Super Administrador with the whole access.
THEOREM GroupsAreSynced == MCSpec => AloneSyncsGroups
<1>. DEFINE Synced ==
       \A w \in Workers :
         /\ pc[w] \in {"update", "groups", "set"} /\ pc'[w] = "idle"
         /\ alone[w] /\ crashes' = crashes
         => LET row == users'[task[w].user]
            IN /\ groups'[task[w].user] = {row.profile}
               /\ row.profile = SuperAdmin => row.superuser
<1>1. ASSUME IInv, AInv, MCNext PROVE Synced
  <2>. SUFFICES ASSUME NEW w \in Workers, pc[w] \in {"update", "groups", "set"},
                       pc'[w] = "idle", alone[w], crashes' = crashes
                PROVE  /\ groups'[task[w].user] = {users'[task[w].user].profile}
                       /\ users'[task[w].user].profile = SuperAdmin =>
                            users'[task[w].user].superuser
    OBVIOUS
  <2>. DEFINE u == task[w].user
  <2>1. AloneOK(w) /\ crashes \in Nat /\ u \in Users
    BY <1>1, PedidosAssumption DEF AInv, IInv, TablesOK, TaskOK
  <2>2. ASSUME NEW v \in Workers, Crash(v) PROVE FALSE
    BY <2>1, <2>2 DEF Crash, Dies, End, Step, Keep
  <2>3. ASSUME NEW v \in Workers, Begins(v) PROVE FALSE
    <3>1. pc[v] = "idle" /\ (v # w => pc'[w] = pc[w])
      BY <1>1, <2>3, BeginsOwn
    <3>. QED BY <3>1
  <2>4. ~ Minute
    BY DEF Minute
  <2>5. PICK v \in Workers : RequestStep(v)
    BY <1>1, <2>2, <2>3, <2>4, StepCases DEF MCNext
  <2>6. v = w
    BY <1>1, <2>5, RequestStepOwn
  <2>7. SaveUser(w) \/ ReadGroups(w) \/ SetGroups(w)
    BY <2>5, <2>6 DEF RequestStep, LoginStep, Authenticate, CountFailure, SaveFailure, Welcome,
                      Unlock, InsertUser, CreateDevice, ConfirmDevice, SaveLockout, Saved, End,
                      Keep, Step
  <2>8. CASE SaveUser(w)
    <3>1. /\ users'[u].profile = task[w].row.profile
          /\ IF task[w].site
             THEN /\ task[w].row.profile = SuperAdmin => users'[u].superuser
                  /\ groups'[u] = {task[w].row.profile}
             ELSE pc'[w] = "groups"
      BY <1>1, <2>8, SaveUserStep
    <3>. QED BY <3>1
  <2>9. CASE ReadGroups(w) \/ SetGroups(w)
    <3>1. pc[w] \in {"groups", "set"} /\ UNCHANGED users /\ groups'[u] = {task[w].profile}
      BY <1>1, <2>1, <2>9 DEF ReadGroups, SetGroups, End, Keep, Step, GroupsOf, IInv, TablesOK
    <3>. QED BY <1>1, <2>1, <3>1 DEF AloneOK, AInv, ProfilesOK
  <2>. QED BY <2>7, <2>8, <2>9
<1>2. [MCNext]_<<vars, alone>> /\ IInv /\ AInv => [Synced]_<<vars, alone>>
  BY <1>1
<1>. HIDE DEF Synced
<1>3. MCSpec => [][Synced]_<<vars, alone>>
  BY <1>2, MCInvariant, AloneInvariant, PTL DEF MCSpec
<1>. QED BY <1>3 DEF Synced, AloneSyncsGroups
=============================================================================

------------------------------ MODULE Sessions ------------------------------
(***************************************************************************)
(* Sessions and user administration: auth.service.ts, middleware/auth.ts,  *)
(* user.service.ts and the session part of cache.ts.                       *)
(*                                                                         *)
(* A user is named by the email address.  A pair of tokens is its claims;  *)
(* the access half is presented with requests, the refresh half to         *)
(* refreshAccessToken.  Tokens that expired are tokens nobody presents.    *)
(***************************************************************************)
EXTENDS Integers, FiniteSets

CONSTANTS
  Users,
  Secrets,        \* passwords
  InitialUsers,   \* the tables of users a behaviour may start from
  Wants,          \* what requests ask of user.service: [kind, change]
  Requests,       \* slots for handlers in flight at the same time
  MaxOperations,  \* bound: requests served
  NULL

Roles == {"SUPER_ADMIN", "ADMIN"}  \* those that pass the guard of user.routes

ASSUME SessionAssumption ==
  /\ MaxOperations \in Nat
  /\ Wants \subseteq
       [kind : {"create"}, change : [role : Roles]] \cup
       [kind : {"update"}, change : [role : Roles] \cup [password : Secrets] \cup
                                    [isActive : BOOLEAN]] \cup
       [kind : {"status"}, change : [isActive : BOOLEAN]] \cup
       [kind : {"delete"}, change : {[isDeleted |-> TRUE]}]
  /\ NULL \notin Secrets \cup Nat

VARIABLES
  user,      \* user[u]: the row of u in the table users
  snapshot,  \* snapshot[u]: what the cache keeps under session_u
  family,    \* family[u]: what the cache keeps under refresh_family_u
  tokens,    \* the pairs of tokens issued
  task,      \* task[r]: the handler running in slot r
  served     \* requests begun

vars == <<user, snapshot, family, tokens, task, served>>

NoRow == [role |-> NULL]
Idle == [op |-> "idle"]

Row == [role : Roles, isActive : BOOLEAN, isDeleted : BOOLEAN,
        tokenVersion : Nat, password : Secrets]

ASSUME InitialUsersAssumption == InitialUsers \subseteq [Users -> Row \cup {NoRow}]

(* The claims jti and tokenVersion; parent is the jti that was presented   *)
(* for the pair, password the one its login used, and early that the login *)
(* read the user while a password change was half done.                    *)
Pair == [user : Users, jti : Nat, tokenVersion : Nat,
         parent : Nat \cup {NULL}, password : Secrets, early : BOOLEAN]

TypeOK ==
  /\ user \in [Users -> Row \cup {NoRow}]
  /\ tokens \subseteq Pair
  /\ \A u \in Users : family[u] # NULL =>
       family[u].current \in Nat /\ family[u].previous \in Nat \cup {NULL}
  /\ \A u \in Users : snapshot[u] # NULL => snapshot[u].row \in Row \cup {NoRow}

(* Everybody has logged in once. *)
Init ==
  /\ user \in InitialUsers
  /\ snapshot = [u \in Users |-> NULL]
  /\ tokens = {[user |-> u, jti |-> 0, tokenVersion |-> user[u].tokenVersion,
                parent |-> NULL, password |-> user[u].password, early |-> FALSE] :
                 u \in {x \in Users : user[x] # NoRow}}
  /\ family = [u \in Users |->
       IF user[u] = NoRow THEN NULL ELSE [current |-> 0, previous |-> NULL]]
  /\ task = [r \in Requests |-> Idle]
  /\ served = 0

-----------------------------------------------------------------------------

Live(u) == user[u] # NoRow /\ ~user[u].isDeleted

(* findUnique with isDeleted: false *)
Found(u) == IF Live(u) THEN user[u] ELSE NoRow

SuperAdmins ==
  {u \in Users : Live(u) /\ user[u].role = "SUPER_ADMIN" /\ user[u].isActive}

(* fresh: nobody else has written the rows the handler relies on.          *)
Serve(r, t) ==
  /\ task[r] = Idle
  /\ served < MaxOperations
  /\ served' = served + 1
  /\ task' = [task EXCEPT ![r] = t]

Goto(r, op) == task' = [task EXCEPT ![r].op = op]
Answer(r) == task' = [task EXCEPT ![r] = Idle]

(* Goes on, or ends in an error. *)
Proceed(r, op, allowed) == IF allowed THEN Goto(r, op) ELSE Answer(r)

(* A write to the row of u. *)
WriteUser(r, u, row, op) ==
  /\ user' = [user EXCEPT ![u] = row]
  /\ task' = [q \in Requests |->
       IF q = r THEN IF op = "done" THEN Idle ELSE [task[r] EXCEPT !.op = op]
       ELSE IF task[q] # Idle /\ u \in {task[q].user, task[q].target}
            THEN [task[q] EXCEPT !.fresh = FALSE]
            ELSE task[q]]

NextJti(u) == Cardinality({p \in tokens : p.user = u})

NewPair(t, parent) ==
  [user |-> t.user, jti |-> NextJti(t.user), tokenVersion |-> t.row.tokenVersion,
   parent |-> parent, password |-> t.password, early |-> t.early]

-----------------------------------------------------------------------------
(* auth.service.ts *)

HalfChanged(u) ==
  \E q \in Requests : /\ task[q].op = "write"
                      /\ task[q].target = u
                      /\ "password" \in DOMAIN task[q].change

(* loginUser: the user is read once, before the password is compared. *)
BeginLogin(r) ==
  \E u \in Users :
    /\ Live(u)
    /\ user[u].isActive
    /\ Serve(r, [op |-> "clear", user |-> u, target |-> u, row |-> user[u],
                 password |-> user[u].password, early |-> HalfChanged(u),
                 fresh |-> TRUE])
    /\ UNCHANGED <<user, snapshot, family, tokens>>

invalidateUserSession(u) ==
  /\ snapshot' = [snapshot EXCEPT ![u] = NULL]
  /\ family' = [family EXCEPT ![u] = NULL]

ClearOldSession(r) ==
  /\ task[r].op = "clear"
  /\ invalidateUserSession(task[r].user)
  /\ Goto(r, "issue")
  /\ UNCHANGED <<user, tokens, served>>

Issue(r, parent) ==
  /\ tokens' = tokens \cup {NewPair(task[r], parent)}
  /\ family' = [family EXCEPT ![task[r].user] =
       [current |-> NextJti(task[r].user), previous |-> parent]]
  /\ task' = [q \in Requests |->
       IF q = r THEN Idle
       ELSE IF task[q].op = "rotate" /\ task[q].user = task[r].user
            THEN [task[q] EXCEPT !.fresh = FALSE]
            ELSE task[q]]
  /\ UNCHANGED <<user, snapshot, served>>

IssueFirstPair(r) == task[r].op = "issue" /\ Issue(r, NULL)

(* refreshAccessToken *)
BeginRefresh(r) ==
  \E p \in tokens :
    /\ Live(p.user)
    /\ user[p.user].isActive
    /\ user[p.user].tokenVersion = p.tokenVersion
    /\ Serve(r, [op |-> "family", user |-> p.user, target |-> p.user,
                 row |-> user[p.user], password |-> p.password, early |-> p.early,
                 jti |-> p.jti, fresh |-> TRUE])
    /\ UNCHANGED <<user, snapshot, family, tokens>>

(* Mutant: the token rotated out last may still be presented. *)
ReplayedLongAgo(f, jti) == f # NULL /\ jti \notin {f.current, f.previous}

Reused(f, jti) == f # NULL /\ jti # f.current

(* fresh now says that the family stays as it was read. *)
CheckFamily(r) ==
  LET f == family[task[r].user]
  IN  /\ task[r].op = "family"
      /\ task' = [task EXCEPT
           ![r].op = IF Reused(f, task[r].jti) THEN "revoke" ELSE "rotate",
           ![r].fresh = f # NULL]
      /\ UNCHANGED <<user, snapshot, family, tokens, served>>

Rotate(r) == task[r].op = "rotate" /\ Issue(r, task[r].jti)

(* revokeSession, by reuse detection or logoutUser *)
BeginLogout(r) ==
  \E p \in tokens :
    /\ Serve(r, [op |-> "revoke", user |-> p.user, target |-> p.user, fresh |-> TRUE])
    /\ UNCHANGED <<user, snapshot, family, tokens>>

Bumped(u) == [user[u] EXCEPT !.tokenVersion = @ + 1]

Revoke(r) ==
  LET u == task[r].user
  IN  /\ task[r].op = "revoke"
      /\ WriteUser(r, u, Bumped(u), "invalidate")
      /\ UNCHANGED <<snapshot, family, tokens, served>>

-----------------------------------------------------------------------------
(* middleware/auth.ts: authGuard in front of a request on user target. *)

Admits(row, version) ==
  row # NoRow /\ row.isActive /\ row.tokenVersion = version

Admitted(p, row, want, target) ==
  [op |-> want.kind, kind |-> want.kind, change |-> want.change, user |-> p.user,
   target |-> target, role |-> row.role, fresh |-> row = Found(p.user)]

(* A snapshot at hand decides at once. *)
BeginRequest(r) ==
  \E p \in tokens, target \in Users, want \in Wants :
    LET s == snapshot[p.user]
    IN  /\ IF s = NULL
           THEN Serve(r, [op |-> "lookup", user |-> p.user, target |-> target,
                          want |-> want, pair |-> p, fresh |-> TRUE])
           ELSE /\ Admits(s.row, p.tokenVersion)
                /\ Serve(r, Admitted(p, s.row, want, target))
        /\ UNCHANGED <<user, snapshot, family, tokens>>

LookUp(r) ==
  LET t == task[r]
  IN  /\ t.op = "lookup"
      /\ task' = [task EXCEPT ![r] =
           [op |-> "keep", user |-> t.user, target |-> t.target, want |-> t.want,
            pair |-> t.pair, row |-> Found(t.user), fresh |-> TRUE]]
      /\ UNCHANGED <<user, snapshot, family, tokens, served>>

(* raced: the row was written between the two. *)
KeepSnapshot(r) ==
  LET t == task[r]
  IN  /\ t.op = "keep"
      /\ snapshot' = [snapshot EXCEPT ![t.user] =
           [row |-> t.row, raced |-> t.row # Found(t.user)]]
      /\ task' = [task EXCEPT ![r] =
           IF Admits(t.row, t.pair.tokenVersion)
           THEN Admitted(t.pair, t.row, t.want, t.target)
           ELSE Idle]
      /\ UNCHANGED <<user, family, tokens, served>>

(* Mutant: a snapshot is kept without a time to live. *)
SnapshotStays(u) == FALSE /\ UNCHANGED vars

SnapshotExpires(u) ==
  /\ snapshot[u] # NULL
  /\ snapshot' = [snapshot EXCEPT ![u] = NULL]
  /\ UNCHANGED <<user, family, tokens, task, served>>

(* The process restarts, or leaves Redis for its own store. *)
CacheIsLost ==
  /\ snapshot' = [u \in Users |-> NULL]
  /\ family' = [u \in Users |-> NULL]
  /\ UNCHANGED <<user, tokens, task, served>>

-----------------------------------------------------------------------------
(* user.service.ts; task[r].role is the caller's as the guard saw it. *)

OnlyBySuperAdmin(role, existing, change) ==
  \/ role = "SUPER_ADMIN"
  \/ /\ existing.role # "SUPER_ADMIN"
     /\ "role" \in DOMAIN change => change.role # "SUPER_ADMIN"

(* Mutant: nothing keeps super admins from demoting themselves. *)
MayLockOut(t, existing) == FALSE

LocksItselfOut(t, existing) ==
  /\ t.user = t.target
  /\ \/ /\ "isActive" \in DOMAIN t.change
        /\ ~t.change.isActive
        /\ t.kind = "status" \/ existing.role = "SUPER_ADMIN"
     \/ /\ "role" \in DOMAIN t.change
        /\ existing.role = "SUPER_ADMIN"
        /\ t.change.role # "SUPER_ADMIN"

(* Mutant: only a change of role invalidates outstanding sessions. *)
EndsSessionsOfOldRole(existing, change) ==
  "role" \in DOMAIN change /\ change.role # existing.role

EndsSessions(existing, change) ==
  \/ "password" \in DOMAIN change
  \/ "role" \in DOMAIN change /\ change.role # existing.role

CreateUser(r) ==
  LET t == task[r]
  IN  /\ t.op = "create"
      /\ IF OnlyBySuperAdmin(t.role, NoRow, t.change) /\ user[t.target] = NoRow
         THEN \E p \in Secrets :
                WriteUser(r, t.target,
                  [role |-> t.change.role, isActive |-> TRUE, isDeleted |-> FALSE,
                   tokenVersion |-> 0, password |-> p], "done")
         ELSE Answer(r) /\ UNCHANGED user
      /\ UNCHANGED <<snapshot, family, tokens, served>>

(* updateUser and setUserStatus *)
BeginUpdate(r) ==
  LET t == task[r]
      existing == user[t.target]
  IN  /\ t.op \in {"update", "status"}
      /\ Proceed(r, IF t.kind = "update" /\ EndsSessions(existing, t.change)
                    THEN "bump" ELSE "write",
                 /\ Live(t.target)
                 /\ OnlyBySuperAdmin(t.role, existing, t.change)
                 /\ ~LocksItselfOut(t, existing))
      /\ UNCHANGED <<user, snapshot, family, tokens, served>>

BeginDelete(r) ==
  LET t == task[r]
  IN  /\ t.op = "delete"
      /\ Proceed(r, "write", Live(t.target) /\ user[t.target].role # "SUPER_ADMIN")
      /\ UNCHANGED <<user, snapshot, family, tokens, served>>

(* Writes WHERE not deleted, or ends in an error. *)
incrementTokenVersion(r) ==
  /\ task[r].op = "bump"
  /\ IF Live(task[r].target)
     THEN WriteUser(r, task[r].target, Bumped(task[r].target), "write")
     ELSE Answer(r) /\ UNCHANGED user
  /\ UNCHANGED <<snapshot, family, tokens, served>>

(* Mutant: deleting a user leaves the snapshot in the cache. *)
AfterDelete(t) == IF t.kind = "delete" THEN "done" ELSE "invalidate"

AfterWrite(t) == "invalidate"

(* updateUser writes WHERE id, the two others only a user not deleted. *)
WriteChange(r) ==
  LET t == task[r]
      row == user[t.target]
  IN  /\ t.op = "write"
      /\ IF t.kind = "update" \/ Live(t.target)
         THEN WriteUser(r, t.target,
                [c \in DOMAIN row |->
                   IF c \in DOMAIN t.change THEN t.change[c] ELSE row[c]],
                AfterWrite(t))
         ELSE Answer(r) /\ UNCHANGED user
      /\ UNCHANGED <<snapshot, family, tokens, served>>

Invalidate(r) ==
  /\ task[r].op = "invalidate"
  /\ invalidateUserSession(task[r].target)
  /\ Answer(r)
  /\ UNCHANGED <<user, tokens, served>>

Begin(r) ==
  \/ BeginLogin(r)
  \/ BeginRefresh(r)
  \/ BeginLogout(r)
  \/ BeginRequest(r)

Continue(r) ==
  \/ ClearOldSession(r) \/ IssueFirstPair(r)
  \/ CheckFamily(r) \/ Rotate(r) \/ Revoke(r)
  \/ LookUp(r) \/ KeepSnapshot(r)
  \/ CreateUser(r) \/ BeginUpdate(r) \/ BeginDelete(r)
  \/ incrementTokenVersion(r) \/ WriteChange(r) \/ Invalidate(r)

Next ==
  \/ \E r \in Requests : Begin(r) \/ Continue(r)
  \/ \E u \in Users : SnapshotExpires(u)
  \/ CacheIsLost

Spec == Init /\ [][Next]_vars

(* Handlers are driven by the event loop and every call settles; NodeCache *)
(* and Redis drop an entry whose time has come.                            *)
FairSpec ==
  /\ Spec
  /\ \A r \in Requests : WF_vars(Continue(r))
  /\ \A u \in Users : WF_vars(SnapshotExpires(u))

-----------------------------------------------------------------------------

(* "Prevent a Super Admin from locking themselves out": the last active    *)
(* super admin goes only by a request whose caller or target was changed   *)
(* by another one under way (two super admins who demote each other).      *)
LastSuperAdminStays ==
  [][\A r \in Requests :
       /\ task[r].op = "write"
       /\ task'[r].op # "write"
       /\ task[r].fresh
       /\ SuperAdmins # {}
       => SuperAdmins' # {}]_vars

(* updateUser ends the sessions first and writes the password in a later   *)
(* call: a session opened with the old password outlives the change only   *)
(* when its login read the user between the two.                           *)
OldPasswordsEnd ==
  \A p \in tokens :
    Live(p.user) /\ p.tokenVersion = user[p.user].tokenVersion =>
      p.password = user[p.user].password \/ p.early

(* A refresh token that has bought a pair buys no second one, unless two   *)
(* rotations raced or the family was not in the cache.                     *)
SpentTokensBuyNothing ==
  [][\A r \in Requests :
       task[r].op = "rotate" /\ task'[r] = Idle /\ task[r].fresh =>
         \A p \in tokens : p.user = task[r].user => p.parent # task[r].jti]_vars

(* A request sees the user as last written, unless that write has not come *)
(* to its invalidation yet or a lookup raced it and kept the old row.      *)
ChangesShowAtOnce ==
  \A u \in Users :
    snapshot[u] # NULL /\ snapshot[u].row # Found(u) =>
      \/ snapshot[u].raced
      \/ \E r \in Requests :
           task[r].op \in {"write", "invalidate"} /\ task[r].target = u

(* Once changes stop every request sees the users as they are: a snapshot  *)
(* that a racing lookup kept lasts no longer than its time to live.  An    *)
(* ended session is then refused for good.                                 *)
ChangesShowInTheEnd ==
  \A u \in Users : <>[](snapshot[u] # NULL => snapshot[u].row = Found(u))

=============================================================================

---------------------------- MODULE SessionProofs ----------------------------
(***************************************************************************)
(* Theorems about Sessions, for every value of its constants.              *)
(*                                                                         *)
(* Typed holds the shape of every handler in flight; four invariants on    *)
(* top of it carry the properties: what the holders of a password may      *)
(* still know (Honest), why a snapshot may be old (Explained), what a      *)
(* request still has of its guard (Entitled) and in which order the pairs  *)
(* of a user were issued (Chained).                                        *)
(***************************************************************************)
EXTENDS Sessions, TLAPS, FiniteSetTheorems

Exists(u) == user[u] # NoRow

PairsOf(u) == {p \in tokens : p.user = u}

(* Handlers by the fields they carry. *)
LogsIn(t) ==
  /\ t.op \in {"clear", "issue"}
  /\ DOMAIN t = {"op", "user", "target", "row", "password", "early", "fresh"}

Refreshes(t) ==
  /\ t.op \in {"family", "rotate"}
  /\ DOMAIN t = {"op", "user", "target", "row", "password", "early", "jti", "fresh"}
  /\ t.jti \in Nat

Holder(t) ==
  /\ LogsIn(t) \/ Refreshes(t)
  /\ t.target = t.user
  /\ t.row \in Row
  /\ t.password \in Secrets
  /\ t.early \in BOOLEAN

Revokes(t) ==
  /\ t.op \in {"revoke", "invalidate"}
  /\ {"op", "user", "target", "fresh"} \subseteq DOMAIN t
  /\ t.target = t.user

LooksUp(t) ==
  /\ t.op = "lookup"
  /\ DOMAIN t = {"op", "user", "target", "want", "pair", "fresh"}
  /\ t.want \in Wants
  /\ t.pair \in tokens
  /\ t.pair.user = t.user

Keeps(t) ==
  /\ t.op = "keep"
  /\ DOMAIN t = {"op", "user", "target", "want", "pair", "row", "fresh"}
  /\ t.want \in Wants
  /\ t.pair \in tokens
  /\ t.pair.user = t.user
  /\ t.row \in Row \cup {NoRow}

Wanted(kind, change) ==
  \/ kind = "create" /\ change \in [role : Roles]
  \/ /\ kind = "update"
     /\ change \in [role : Roles] \cup [password : Secrets] \cup [isActive : BOOLEAN]
  \/ kind = "status" /\ change \in [isActive : BOOLEAN]
  \/ kind = "delete" /\ change = [isDeleted |-> TRUE]

Administers(t) ==
  /\ DOMAIN t = {"op", "kind", "change", "user", "target", "role", "fresh"}
  /\ Wanted(t.kind, t.change)
  /\ t.role \in Roles
  /\ \/ t.op = t.kind
     \/ t.op = "bump" /\ t.kind = "update" /\ Exists(t.target)
     \/ t.op \in {"write", "invalidate"} /\ t.kind # "create" /\ Exists(t.target)

InFlight(t) ==
  /\ t.user \in Users
  /\ t.target \in Users
  /\ Exists(t.user)
  /\ Holder(t) \/ Revokes(t) \/ LooksUp(t) \/ Keeps(t) \/ Administers(t)

Typed ==
  /\ user \in [Users -> Row \cup {NoRow}]
  /\ tokens \subseteq Pair
  /\ \A p \in tokens : Exists(p.user)
  /\ \A u \in Users : IsFiniteSet(PairsOf(u))
  /\ DOMAIN family = Users
  /\ \A u \in Users : family[u] # NULL =>
       family[u].current \in Nat /\ family[u].previous \in Nat \cup {NULL}
  /\ DOMAIN snapshot = Users
  /\ \A u \in Users : snapshot[u] # NULL =>
       snapshot[u].row \in Row \cup {NoRow} /\ Exists(u)
  /\ DOMAIN task = Requests
  /\ \A r \in Requests : task[r] # Idle => InFlight(task[r])

-----------------------------------------------------------------------------
(* Records. *)

LEMMA NoRowIsNoRow == NoRow \notin Row
  BY DEF Row, NoRow

LEMMA WantsAreWanted ==
  ASSUME SessionAssumption, NEW want \in Wants
  PROVE  Wanted(want.kind, want.change)
  BY DEF SessionAssumption, Wanted

(* A handler overtaken by another one changes nowhere but in fresh. *)
Same(t, u) ==
  /\ t # Idle
  /\ DOMAIN u = DOMAIN t
  /\ \A f \in DOMAIN t : f # "fresh" => u[f] = t[f]

Overtaken(t, u) == (t = Idle /\ u = Idle) \/ Same(t, u)

RowsStay == \A u \in Users : Exists(u) => Exists(u)'

LEMMA SameStaysInFlight ==
  ASSUME NEW q \in Requests, Same(task[q], task'[q]), InFlight(task[q]),
         RowsStay, tokens \subseteq tokens'
  PROVE  InFlight(task[q])'
  <1>. DEFINE t == task[q]
              u == task'[q]
  <1>1. /\ "op" \in DOMAIN t /\ "user" \in DOMAIN t /\ "target" \in DOMAIN t
        /\ t.user \in Users /\ t.target \in Users
    BY DEF InFlight, Holder, LogsIn, Refreshes, Revokes, LooksUp, Keeps, Administers
  <1>2. /\ u.op = t.op /\ u.user = t.user /\ u.target = t.target
        /\ DOMAIN u = DOMAIN t
        /\ \A f \in DOMAIN t : f # "fresh" => u[f] = t[f]
    BY <1>1 DEF Same, Overtaken
  <1>3. user'[t.user] # NoRow /\ (Exists(t.target) => user'[t.target] # NoRow)
    BY <1>1 DEF InFlight, RowsStay, Exists
  <1>4. CASE Holder(t)
    <2>1. Holder(u)
      BY <1>2, <1>4 DEF Holder, LogsIn, Refreshes
    <2>. QED
      BY <1>1, <1>2, <1>3, <2>1 DEF InFlight, Holder, LogsIn, Refreshes, Exists
  <1>5. CASE Revokes(t)
    BY <1>1, <1>2, <1>3, <1>5 DEF InFlight, Revokes, Exists
  <1>6. CASE LooksUp(t)
    BY <1>1, <1>2, <1>3, <1>6 DEF InFlight, LooksUp, Exists
  <1>7. CASE Keeps(t)
    BY <1>1, <1>2, <1>3, <1>7 DEF InFlight, Keeps, Exists
  <1>8. CASE Administers(t)
    BY <1>1, <1>2, <1>3, <1>8 DEF InFlight, Administers, Wanted, Exists
  <1>. QED
    BY <1>4, <1>5, <1>6, <1>7, <1>8 DEF InFlight

(* Enough for a step of r: its own handler, and that rows stay. *)
LEMMA StepTyped ==
  ASSUME Typed, NEW r \in Requests,
         user' \in [Users -> Row \cup {NoRow}],
         RowsStay,
         tokens \subseteq tokens',
         tokens' \subseteq Pair,
         \A p \in tokens' \ tokens : Exists(p.user),
         \A u \in Users : IsFiniteSet(PairsOf(u)'),
         DOMAIN family' = Users,
         \A u \in Users : family'[u] # NULL =>
           family'[u].current \in Nat /\ family'[u].previous \in Nat \cup {NULL},
         DOMAIN snapshot' = Users,
         \A u \in Users : snapshot'[u] # NULL =>
           snapshot'[u].row \in Row \cup {NoRow} /\ Exists(u)',
         DOMAIN task' = Requests,
         \A q \in Requests \ {r} : Overtaken(task[q], task'[q]),
         task'[r] # Idle => InFlight(task[r])'
  PROVE  Typed'
  <1>1. ASSUME NEW q \in Requests, task'[q] # Idle
        PROVE  InFlight(task[q])'
    BY <1>1, SameStaysInFlight DEF Typed, Same, Overtaken
  <1>2. ASSUME NEW p \in tokens'
        PROVE  Exists(p.user)'
    <2>1. p.user \in Users
      BY DEF Pair
    <2>2. Exists(p.user)
      BY DEF Typed
    <2>. QED
      BY <2>1, <2>2 DEF RowsStay
  <1>. QED
    BY <1>1, <1>2 DEF Typed

(* Two ways for task to change. *)
LEMMA TaskStep ==
  ASSUME Typed, NEW r \in Requests, NEW t, task' = [task EXCEPT ![r] = t]
  PROVE  /\ DOMAIN task' = Requests
         /\ task'[r] = t
         /\ \A q \in Requests \ {r} : Overtaken(task[q], task'[q])
  BY DEF Typed, Same, Overtaken

LEMMA WriteUserStep ==
  ASSUME Typed, NEW r \in Requests, NEW u \in Users, NEW row \in Row, NEW op,
         WriteUser(r, u, row, op)
  PROVE  /\ user' \in [Users -> Row \cup {NoRow}]
         /\ user' = [user EXCEPT ![u] = row]
         /\ RowsStay
         /\ Exists(u)'
         /\ DOMAIN task' = Requests
         /\ task'[r] = IF op = "done" THEN Idle ELSE [task[r] EXCEPT !.op = op]
         /\ \A q \in Requests \ {r} : Overtaken(task[q], task'[q])
  <1>1. /\ user' = [user EXCEPT ![u] = row]
        /\ user' \in [Users -> Row \cup {NoRow}]
        /\ row # NoRow
    BY NoRowIsNoRow DEF WriteUser, Typed
  <1>2. RowsStay /\ Exists(u)'
    BY <1>1 DEF RowsStay, Exists, Typed
  <1>3. /\ DOMAIN task' = Requests
        /\ task'[r] = IF op = "done" THEN Idle ELSE [task[r] EXCEPT !.op = op]
    BY DEF WriteUser
  <1>4. ASSUME NEW q \in Requests, q # r
        PROVE  Overtaken(task[q], task'[q])
    <2>1. task'[q] \in {task[q], [task[q] EXCEPT !.fresh = FALSE]}
      BY <1>4 DEF WriteUser
    <2>2. task[q] = Idle => task'[q] = Idle
      BY <1>4 DEF WriteUser
    <2>. QED
      BY <2>1, <2>2 DEF Same, Overtaken
  <1>. QED
    BY <1>1, <1>2, <1>3, <1>4

-----------------------------------------------------------------------------
(* Every step keeps Typed.  Most change their handler only. *)

LEMMA QuietTyped ==
  ASSUME Typed, NEW r \in Requests, NEW t, task' = [task EXCEPT ![r] = t],
         UNCHANGED <<user, snapshot, family, tokens>>,
         t = Idle \/ InFlight(t)
  PROVE  Typed'
  <1>1. /\ DOMAIN task' = Requests
        /\ task'[r] = t
        /\ \A q \in Requests \ {r} : Overtaken(task[q], task'[q])
    BY TaskStep
  <1>2. task'[r] # Idle => InFlight(task[r])'
    BY <1>1 DEF InFlight, Holder, LogsIn, Refreshes, Revokes, LooksUp, Keeps,
       Administers, Exists
  <1>3. RowsStay
    BY DEF RowsStay, Exists
  <1>. QED
    BY <1>1, <1>2, <1>3, StepTyped DEF Typed, Exists, PairsOf

LEMMA AnswerTyped ==
  ASSUME Typed, NEW r \in Requests, Answer(r), UNCHANGED <<user, snapshot, family, tokens>>
  PROVE  Typed'
  BY QuietTyped DEF Answer

LEMMA LiveIsRow ==
  ASSUME Typed, NEW u \in Users, Live(u)
  PROVE  Exists(u) /\ user[u] \in Row
  BY DEF Live, Exists, Typed

LEMMA BeginLoginTyped ==
  ASSUME Typed, NEW r \in Requests, BeginLogin(r)
  PROVE  Typed'
  <1>1. PICK u \in Users :
          /\ Live(u)
          /\ task' = [task EXCEPT ![r] =
               [op |-> "clear", user |-> u, target |-> u, row |-> user[u],
                password |-> user[u].password, early |-> HalfChanged(u),
                fresh |-> TRUE]]
          /\ UNCHANGED <<user, snapshot, family, tokens>>
    BY DEF BeginLogin, Serve
  <1>. DEFINE t == [op |-> "clear", user |-> u, target |-> u, row |-> user[u],
                    password |-> user[u].password, early |-> HalfChanged(u),
                    fresh |-> TRUE]
  <1>2. Exists(u) /\ user[u] \in Row /\ HalfChanged(u) \in BOOLEAN
    BY <1>1, LiveIsRow DEF HalfChanged
  <1>3. Holder(t)
    BY <1>2 DEF Holder, LogsIn, Row
  <1>4. InFlight(t)
    BY <1>2, <1>3 DEF InFlight
  <1>. QED
    BY <1>1, <1>4, QuietTyped

LEMMA BeginRefreshTyped ==
  ASSUME Typed, NEW r \in Requests, BeginRefresh(r)
  PROVE  Typed'
  <1>1. PICK p \in tokens :
          /\ Live(p.user)
          /\ task' = [task EXCEPT ![r] =
               [op |-> "family", user |-> p.user, target |-> p.user,
                row |-> user[p.user], password |-> p.password, early |-> p.early,
                jti |-> p.jti, fresh |-> TRUE]]
          /\ UNCHANGED <<user, snapshot, family, tokens>>
    BY DEF BeginRefresh, Serve
  <1>. DEFINE t == [op |-> "family", user |-> p.user, target |-> p.user,
                    row |-> user[p.user], password |-> p.password, early |-> p.early,
                    jti |-> p.jti, fresh |-> TRUE]
  <1>2. p \in Pair
    BY DEF Typed
  <1>3. p.user \in Users /\ p.password \in Secrets /\ p.early \in BOOLEAN /\ p.jti \in Nat
    BY <1>2 DEF Pair
  <1>4. Exists(p.user) /\ user[p.user] \in Row
    BY <1>1, <1>3, LiveIsRow
  <1>5. Holder(t)
    BY <1>3, <1>4 DEF Holder, Refreshes
  <1>6. InFlight(t)
    BY <1>3, <1>4, <1>5 DEF InFlight
  <1>. QED
    BY <1>1, <1>6, QuietTyped

LEMMA BeginLogoutTyped ==
  ASSUME Typed, NEW r \in Requests, BeginLogout(r)
  PROVE  Typed'
  <1>1. PICK p \in tokens :
          /\ task' = [task EXCEPT ![r] =
               [op |-> "revoke", user |-> p.user, target |-> p.user, fresh |-> TRUE]]
          /\ UNCHANGED <<user, snapshot, family, tokens>>
    BY DEF BeginLogout, Serve
  <1>2. p.user \in Users /\ Exists(p.user)
    BY DEF Typed, Pair
  <1>3. InFlight([op |-> "revoke", user |-> p.user, target |-> p.user, fresh |-> TRUE])
    BY <1>2 DEF InFlight, Revokes
  <1>. QED
    BY <1>1, <1>3, QuietTyped

(* What authGuard hands on. *)
LEMMA AdmittedInFlight ==
  ASSUME SessionAssumption, Typed, NEW p \in tokens, NEW row \in Row \cup {NoRow},
         NEW want \in Wants, NEW target \in Users, Admits(row, p.tokenVersion)
  PROVE  InFlight(Admitted(p, row, want, target))
  <1>. DEFINE t == Admitted(p, row, want, target)
  <1>1. /\ DOMAIN t = {"op", "kind", "change", "user", "target", "role", "fresh"}
        /\ t.op = want.kind
        /\ t.kind = want.kind
        /\ t.change = want.change
        /\ t.user = p.user
        /\ t.target = target
        /\ t.role = row.role
    BY DEF Admitted
  <1>2. row \in Row
    BY DEF Admits
  <1>3. Wanted(want.kind, want.change)
    BY WantsAreWanted
  <1>4. p.user \in Users /\ Exists(p.user)
    BY DEF Typed, Pair
  <1>5. Administers(t)
    BY <1>1, <1>2, <1>3 DEF Administers, Row
  <1>. QED
    BY <1>1, <1>4, <1>5 DEF InFlight

LEMMA BeginRequestTyped ==
  ASSUME SessionAssumption, Typed, NEW r \in Requests, BeginRequest(r)
  PROVE  Typed'
  <1>1. PICK p \in tokens, target \in Users, want \in Wants :
          LET s == snapshot[p.user]
          IN  /\ IF s = NULL
                 THEN Serve(r, [op |-> "lookup", user |-> p.user, target |-> target,
                                want |-> want, pair |-> p, fresh |-> TRUE])
                 ELSE /\ Admits(s.row, p.tokenVersion)
                      /\ Serve(r, Admitted(p, s.row, want, target))
              /\ UNCHANGED <<user, snapshot, family, tokens>>
    BY DEF BeginRequest
  <1>2. p.user \in Users /\ Exists(p.user)
    BY DEF Typed, Pair
  <1>3. CASE snapshot[p.user] = NULL
    <2>. DEFINE t == [op |-> "lookup", user |-> p.user, target |-> target,
                      want |-> want, pair |-> p, fresh |-> TRUE]
    <2>1. LooksUp(t)
      BY DEF LooksUp
    <2>2. InFlight(t)
      BY <1>2, <2>1 DEF InFlight
    <2>3. task' = [task EXCEPT ![r] = t] /\ UNCHANGED <<user, snapshot, family, tokens>>
      BY <1>1, <1>3 DEF Serve
    <2>. QED
      BY <2>2, <2>3, QuietTyped
  <1>4. CASE snapshot[p.user] # NULL
    <2>1. snapshot[p.user].row \in Row \cup {NoRow}
      BY <1>2, <1>4 DEF Typed
    <2>2. InFlight(Admitted(p, snapshot[p.user].row, want, target))
      BY <1>1, <1>4, <2>1, AdmittedInFlight
    <2>. QED
      BY <1>1, <1>4, <2>2, QuietTyped DEF Serve
  <1>. QED
    BY <1>3, <1>4

(* The kind of handler a step belongs to. *)
LEMMA KindOfTask ==
  ASSUME Typed, NEW r \in Requests, task[r] # Idle
  PROVE  /\ InFlight(task[r])
         /\ task[r].op \in {"clear", "issue"} => Holder(task[r]) /\ LogsIn(task[r])
         /\ task[r].op \in {"family", "rotate"} => Holder(task[r]) /\ Refreshes(task[r])
         /\ task[r].op = "revoke" => Revokes(task[r])
         /\ task[r].op = "lookup" => LooksUp(task[r])
         /\ task[r].op = "keep" => Keeps(task[r])
         /\ task[r].op \in {"create", "update", "status", "delete", "bump", "write"} =>
              Administers(task[r])
  <1>1. InFlight(task[r])
    BY DEF Typed
  <1>2. Administers(task[r]) =>
          task[r].op \in {"create", "update", "status", "delete", "bump", "write",
                          "invalidate"}
    BY DEF Administers, Wanted
  <1>. QED
    BY <1>1, <1>2 DEF InFlight, Holder, LogsIn, Refreshes, Revokes, LooksUp, Keeps

LEMMA NotIdle ==
  ASSUME NEW r, task[r].op # "idle"
  PROVE  task[r] # Idle
  BY DEF Idle

LEMMA LookUpTyped ==
  ASSUME Typed, NEW r \in Requests, LookUp(r)
  PROVE  Typed'
  <1>. DEFINE t == task[r]
              u == [op |-> "keep", user |-> t.user, target |-> t.target, want |-> t.want,
                    pair |-> t.pair, row |-> Found(t.user), fresh |-> TRUE]
  <1>1. t.op = "lookup" /\ task' = [task EXCEPT ![r] = u]
        /\ UNCHANGED <<user, snapshot, family, tokens>>
    BY DEF LookUp
  <1>2. InFlight(t) /\ LooksUp(t)
    BY <1>1, NotIdle, KindOfTask
  <1>3. Found(t.user) \in Row \cup {NoRow}
    BY <1>2 DEF Found, InFlight, Typed
  <1>4. Keeps(u)
    BY <1>2, <1>3 DEF LooksUp, Keeps
  <1>5. InFlight(u)
    BY <1>2, <1>4 DEF InFlight
  <1>. QED
    BY <1>1, <1>5, QuietTyped

LEMMA KeepSnapshotTyped ==
  ASSUME SessionAssumption, Typed, NEW r \in Requests, KeepSnapshot(r)
  PROVE  Typed'
  <1>. DEFINE t == task[r]
              u == IF Admits(t.row, t.pair.tokenVersion)
                   THEN Admitted(t.pair, t.row, t.want, t.target)
                   ELSE Idle
  <1>1. /\ t.op = "keep"
        /\ snapshot' = [snapshot EXCEPT ![t.user] =
             [row |-> t.row, raced |-> t.row # Found(t.user)]]
        /\ task' = [task EXCEPT ![r] = u]
        /\ UNCHANGED <<user, family, tokens>>
    BY DEF KeepSnapshot
  <1>2. InFlight(t) /\ Keeps(t)
    BY <1>1, NotIdle, KindOfTask
  <1>3. u = Idle \/ InFlight(u)
    BY <1>2, AdmittedInFlight DEF Keeps, InFlight
  <1>4. /\ DOMAIN task' = Requests
        /\ task'[r] = u
        /\ \A q \in Requests \ {r} : Overtaken(task[q], task'[q])
    BY <1>1, TaskStep
  <1>5. task'[r] # Idle => InFlight(task[r])'
    BY <1>1, <1>3, <1>4 DEF InFlight, Holder, LogsIn, Refreshes, Revokes, LooksUp, Keeps,
       Administers, Exists
  <1>6. /\ DOMAIN snapshot' = Users
        /\ \A x \in Users : snapshot'[x] # NULL =>
             snapshot'[x].row \in Row \cup {NoRow} /\ Exists(x)
    BY <1>1, <1>2 DEF Typed, InFlight, Keeps
  <1>7. RowsStay
    BY <1>1 DEF RowsStay, Exists
  <1>. QED
    BY <1>1, <1>4, <1>5, <1>6, <1>7, StepTyped DEF Typed, Exists, PairsOf

LEMMA CheckFamilyTyped ==
  ASSUME Typed, NEW r \in Requests, CheckFamily(r)
  PROVE  Typed'
  <1>. DEFINE t == task[r]
              f == family[t.user]
              op == IF Reused(f, t.jti) THEN "revoke" ELSE "rotate"
              u == [[t EXCEPT !.op = op] EXCEPT !.fresh = f # NULL]
  <1>1. t.op = "family" /\ task' = [task EXCEPT ![r] = u]
        /\ UNCHANGED <<user, snapshot, family, tokens>>
    BY DEF CheckFamily, Typed
  <1>2. InFlight(t) /\ Holder(t) /\ Refreshes(t)
    BY <1>1, NotIdle, KindOfTask
  <1>3. /\ DOMAIN u = DOMAIN t
        /\ u.op = op
        /\ \A c \in DOMAIN t \ {"op", "fresh"} : u[c] = t[c]
    BY <1>2 DEF Refreshes
  <1>4. op \in {"revoke", "rotate"}
    OBVIOUS
  <1>. HIDE DEF u, op
  <1>5. /\ u.user = t.user /\ u.target = t.target
        /\ Holder(u) \/ Revokes(u)
    BY <1>2, <1>3, <1>4 DEF Holder, Refreshes, Revokes
  <1>6. InFlight(u)
    BY <1>2, <1>5 DEF InFlight
  <1>. QED
    BY <1>1, <1>6, QuietTyped

(* An administrator's handler goes on. *)
LEMMA GotoTyped ==
  ASSUME Typed, NEW r \in Requests, task[r] # Idle, Administers(task[r]),
         task[r].kind # "create", Exists(task[r].target),
         NEW op, op = "write" \/ (op = "bump" /\ task[r].kind = "update"), Goto(r, op),
         UNCHANGED <<user, snapshot, family, tokens>>
  PROVE  Typed'
  <1>. DEFINE t == task[r]
              u == [t EXCEPT !.op = op]
  <1>1. task' = [task EXCEPT ![r] = u]
    BY DEF Goto
  <1>2. /\ DOMAIN u = DOMAIN t
        /\ u.op = op
        /\ \A c \in DOMAIN t \ {"op"} : u[c] = t[c]
    BY DEF Administers
  <1>. HIDE DEF u
  <1>3. u.user = t.user /\ u.target = t.target /\ Administers(u)
    BY <1>2 DEF Administers
  <1>4. InFlight(u)
    BY <1>3 DEF InFlight, Typed
  <1>. QED
    BY <1>1, <1>4, QuietTyped

LEMMA BeginUpdateTyped ==
  ASSUME Typed, NEW r \in Requests, BeginUpdate(r)
  PROVE  Typed'
  <1>1. /\ task[r].op \in {"update", "status"}
        /\ UNCHANGED <<user, snapshot, family, tokens>>
        /\ \/ Answer(r)
           \/ /\ Live(task[r].target)
              /\ \/ Goto(r, "write")
                 \/ task[r].kind = "update" /\ Goto(r, "bump")
    BY DEF BeginUpdate, Proceed
  <1>2. task[r] # Idle /\ InFlight(task[r]) /\ Administers(task[r])
    BY <1>1, NotIdle, KindOfTask
  <1>3. task[r].kind = task[r].op /\ (Live(task[r].target) => Exists(task[r].target))
    BY <1>1, <1>2 DEF Administers, Live, Exists
  <1>. QED
    BY <1>1, <1>2, <1>3, AnswerTyped, GotoTyped

LEMMA BeginDeleteTyped ==
  ASSUME Typed, NEW r \in Requests, BeginDelete(r)
  PROVE  Typed'
  <1>1. /\ task[r].op = "delete"
        /\ UNCHANGED <<user, snapshot, family, tokens>>
        /\ Answer(r) \/ (Live(task[r].target) /\ Goto(r, "write"))
    BY DEF BeginDelete, Proceed
  <1>2. task[r] # Idle /\ InFlight(task[r]) /\ Administers(task[r])
    BY <1>1, NotIdle, KindOfTask
  <1>3. task[r].kind = "delete" /\ (Live(task[r].target) => Exists(task[r].target))
    BY <1>1, <1>2 DEF Administers, Live, Exists
  <1>. QED
    BY <1>1, <1>2, <1>3, AnswerTyped, GotoTyped

LEMMA SessionsCleared ==
  ASSUME Typed, NEW u, invalidateUserSession(u)
  PROVE  /\ DOMAIN family' = Users /\ DOMAIN snapshot' = Users
         /\ \A x \in Users : family'[x] \in {family[x], NULL}
         /\ \A x \in Users : snapshot'[x] \in {snapshot[x], NULL}
         /\ u \in Users => snapshot'[u] = NULL
  BY DEF Typed, invalidateUserSession

LEMMA ClearOldSessionTyped ==
  ASSUME Typed, NEW r \in Requests, ClearOldSession(r)
  PROVE  Typed'
  <1>. DEFINE t == task[r]
              u == [t EXCEPT !.op = "issue"]
  <1>1. /\ t.op = "clear"
        /\ invalidateUserSession(t.user)
        /\ task' = [task EXCEPT ![r] = u]
        /\ UNCHANGED <<user, tokens>>
    BY DEF ClearOldSession, Goto
  <1>2. InFlight(t) /\ Holder(t) /\ LogsIn(t)
    BY <1>1, NotIdle, KindOfTask
  <1>3. /\ DOMAIN u = DOMAIN t
        /\ u.op = "issue"
        /\ \A c \in DOMAIN t \ {"op"} : u[c] = t[c]
    BY <1>2 DEF LogsIn
  <1>. HIDE DEF u
  <1>4. u.user = t.user /\ u.target = t.target /\ Holder(u)
    BY <1>2, <1>3 DEF Holder, LogsIn, Refreshes
  <1>5. InFlight(u)
    BY <1>2, <1>4 DEF InFlight
  <1>6. /\ DOMAIN task' = Requests
        /\ task'[r] = u
        /\ \A q \in Requests \ {r} : Overtaken(task[q], task'[q])
    BY <1>1, TaskStep
  <1>7. InFlight(task[r])'
    BY <1>1, <1>5, <1>6 DEF InFlight, Holder, LogsIn, Refreshes, Revokes, LooksUp, Keeps,
       Administers, Exists
  <1>8. /\ DOMAIN family' = Users /\ DOMAIN snapshot' = Users
        /\ \A x \in Users : family'[x] \in {family[x], NULL}
        /\ \A x \in Users : snapshot'[x] \in {snapshot[x], NULL}
    BY <1>1, SessionsCleared
  <1>9. RowsStay
    BY <1>1 DEF RowsStay, Exists
  <1>. QED
    BY <1>1, <1>6, <1>7, <1>8, <1>9, StepTyped DEF Typed, Exists, PairsOf

LEMMA InvalidateTyped ==
  ASSUME Typed, NEW r \in Requests, Invalidate(r)
  PROVE  Typed'
  <1>1. /\ invalidateUserSession(task[r].target)
        /\ task' = [task EXCEPT ![r] = Idle]
        /\ UNCHANGED <<user, tokens>>
    BY DEF Invalidate, Answer
  <1>2. /\ DOMAIN task' = Requests
        /\ task'[r] = Idle
        /\ \A q \in Requests \ {r} : Overtaken(task[q], task'[q])
    BY <1>1, TaskStep
  <1>3. /\ DOMAIN family' = Users /\ DOMAIN snapshot' = Users
        /\ \A x \in Users : family'[x] \in {family[x], NULL}
        /\ \A x \in Users : snapshot'[x] \in {snapshot[x], NULL}
    BY <1>1, SessionsCleared
  <1>4. RowsStay
    BY <1>1 DEF RowsStay, Exists
  <1>. QED
    BY <1>1, <1>2, <1>3, <1>4, StepTyped DEF Typed, Exists, PairsOf

(* Ids of pairs are handed out in order. *)
LEMMA JtiIsNat ==
  ASSUME Typed, NEW u \in Users
  PROVE  NextJti(u) \in Nat
  <1>1. IsFiniteSet(PairsOf(u))
    BY DEF Typed
  <1>. QED
    BY <1>1, FS_CardinalityType DEF NextJti, PairsOf

LEMMA IssueStep ==
  ASSUME Typed, NEW r \in Requests, NEW parent \in Nat \cup {NULL}, task[r] # Idle,
         Holder(task[r]), Issue(r, parent)
  PROVE  /\ NewPair(task[r], parent) \in Pair
         /\ NewPair(task[r], parent).user = task[r].user
         /\ tokens' = tokens \cup {NewPair(task[r], parent)}
         /\ task[r].user \in Users
         /\ NextJti(task[r].user) \in Nat
  <1>. DEFINE t == task[r]
              p == NewPair(t, parent)
  <1>1. InFlight(t)
    BY DEF Typed
  <1>2. t.user \in Users /\ NextJti(t.user) \in Nat
    BY <1>1, JtiIsNat DEF InFlight
  <1>3. p \in Pair /\ p.user = t.user
    BY <1>2 DEF Holder, NewPair, Pair, Row
  <1>. QED
    BY <1>2, <1>3 DEF Issue

LEMMA IssueTyped ==
  ASSUME Typed, NEW r \in Requests, NEW parent \in Nat \cup {NULL}, task[r] # Idle,
         Holder(task[r]), Issue(r, parent)
  PROVE  Typed'
  <1>. DEFINE t == task[r]
              p == NewPair(t, parent)
  <1>1. /\ p \in Pair
        /\ p.user = t.user
        /\ tokens' = tokens \cup {p}
        /\ t.user \in Users
        /\ NextJti(t.user) \in Nat
    BY IssueStep
  <1>. HIDE DEF p
  <1>2. UNCHANGED <<user, snapshot>>
    BY DEF Issue
  <1>3. ASSUME NEW u \in Users
        PROVE  IsFiniteSet(PairsOf(u)')
    <2>1. IsFiniteSet(PairsOf(u))
      BY DEF Typed
    <2>2. PairsOf(u)' = PairsOf(u) \/ PairsOf(u)' = PairsOf(u) \cup {p}
      BY <1>1 DEF PairsOf
    <2>. QED
      BY <2>1, <2>2, FS_AddElement
  <1>4. /\ DOMAIN family' = Users
        /\ \A u \in Users : family'[u] # NULL =>
             family'[u].current \in Nat /\ family'[u].previous \in Nat \cup {NULL}
    BY <1>1 DEF Issue, Typed
  <1>5. /\ DOMAIN task' = Requests
        /\ task'[r] = Idle
    BY DEF Issue
  <1>6. ASSUME NEW q \in Requests \ {r}
        PROVE  Overtaken(task[q], task'[q])
    <2>1. \/ task'[q] = task[q]
          \/ /\ task[q].op = "rotate"
             /\ task'[q] = [task[q] EXCEPT !.fresh = FALSE]
      BY <1>6 DEF Issue
    <2>. QED
      BY <2>1, NotIdle DEF Same, Overtaken
  <1>7. Exists(t.user)
    BY DEF Typed, InFlight
  <1>8. RowsStay
    BY <1>2 DEF RowsStay, Exists
  <1>. QED
    BY <1>1, <1>2, <1>3, <1>4, <1>5, <1>6, <1>7, <1>8, StepTyped DEF Typed, Exists

LEMMA IssuersTyped ==
  ASSUME Typed, NEW r \in Requests, IssueFirstPair(r) \/ Rotate(r)
  PROVE  Typed'
  <1>1. CASE IssueFirstPair(r)
    <2>1. task[r] # Idle /\ Holder(task[r]) /\ Issue(r, NULL)
      BY <1>1, NotIdle, KindOfTask DEF IssueFirstPair
    <2>. QED
      BY <2>1, IssueTyped
  <1>2. CASE Rotate(r)
    <2>1. task[r] # Idle /\ Holder(task[r]) /\ Refreshes(task[r]) /\ Issue(r, task[r].jti)
      BY <1>2, NotIdle, KindOfTask DEF Rotate
    <2>2. task[r].jti \in Nat
      BY <2>1 DEF Refreshes
    <2>. QED
      BY <2>1, <2>2, IssueTyped
  <1>. QED
    BY <1>1, <1>2

(* Steps that write a row. *)
LEMMA WriteUserTyped ==
  ASSUME Typed, NEW r \in Requests, NEW u \in Users, NEW row \in Row, NEW op,
         WriteUser(r, u, row, op), UNCHANGED <<snapshot, family, tokens>>,
         op = "done" \/ InFlight(task[r])'
  PROVE  Typed'
  <1>1. /\ user' \in [Users -> Row \cup {NoRow}]
        /\ RowsStay
        /\ DOMAIN task' = Requests
        /\ op = "done" => task'[r] = Idle
        /\ \A q \in Requests \ {r} : Overtaken(task[q], task'[q])
    BY WriteUserStep
  <1>. QED
    BY <1>1, StepTyped DEF Typed, PairsOf, RowsStay

LEMMA BumpedIsRow ==
  ASSUME Typed, NEW u \in Users, Exists(u)
  PROVE  /\ Bumped(u) \in Row
         /\ user[u] \in Row
         /\ Bumped(u).tokenVersion = user[u].tokenVersion + 1
         /\ Bumped(u).role = user[u].role
         /\ Bumped(u).isActive = user[u].isActive
         /\ Bumped(u).isDeleted = user[u].isDeleted
         /\ Bumped(u).password = user[u].password
  BY DEF Typed, Exists, Bumped, Row

LEMMA RevokeTyped ==
  ASSUME Typed, NEW r \in Requests, Revoke(r)
  PROVE  Typed'
  <1>. DEFINE t == task[r]
  <1>1. /\ t.op = "revoke"
        /\ WriteUser(r, t.user, Bumped(t.user), "invalidate")
        /\ UNCHANGED <<snapshot, family, tokens>>
    BY DEF Revoke
  <1>2. InFlight(t) /\ Revokes(t)
    BY <1>1, NotIdle, KindOfTask
  <1>3. t.user \in Users /\ Exists(t.user) /\ Bumped(t.user) \in Row
    BY <1>2, BumpedIsRow DEF InFlight
  <1>4. task'[r] = [t EXCEPT !.op = "invalidate"] /\ user'[t.user] # NoRow
    BY <1>1, <1>3, WriteUserStep DEF Exists
  <1>5. /\ task'[r].op = "invalidate"
        /\ DOMAIN task'[r] = DOMAIN t
        /\ task'[r].user = t.user
        /\ task'[r].target = t.target
    BY <1>2, <1>4 DEF Revokes
  <1>6. InFlight(task[r])'
    BY <1>2, <1>3, <1>4, <1>5 DEF InFlight, Revokes, Exists
  <1>. QED
    BY <1>1, <1>3, <1>6, WriteUserTyped

LEMMA CreateUserTyped ==
  ASSUME Typed, NEW r \in Requests, CreateUser(r)
  PROVE  Typed'
  <1>. DEFINE t == task[r]
  <1>1. t.op = "create" /\ UNCHANGED <<snapshot, family, tokens>>
    BY DEF CreateUser
  <1>2. InFlight(t) /\ Administers(t)
    BY <1>1, NotIdle, KindOfTask
  <1>3. t.target \in Users /\ t.change.role \in Roles
    BY <1>1, <1>2 DEF InFlight, Administers, Wanted
  <1>4. CASE Answer(r) /\ UNCHANGED user
    BY <1>1, <1>4, AnswerTyped
  <1>5. ASSUME NEW p \in Secrets,
               WriteUser(r, t.target,
                 [role |-> t.change.role, isActive |-> TRUE, isDeleted |-> FALSE,
                  tokenVersion |-> 0, password |-> p], "done")
        PROVE  Typed'
    <2>1. [role |-> t.change.role, isActive |-> TRUE, isDeleted |-> FALSE,
           tokenVersion |-> 0, password |-> p] \in Row
      BY <1>3 DEF Row
    <2>. QED
      BY <1>1, <1>3, <1>5, <2>1, WriteUserTyped
  <1>. QED
    BY <1>4, <1>5 DEF CreateUser

(* The write of an administrator's handler, which then goes on to op. *)
LEMMA AdministratorWriteTyped ==
  ASSUME Typed, NEW r \in Requests, task[r] # Idle, Administers(task[r]),
         task[r].kind # "create", Exists(task[r].target),
         NEW row \in Row, NEW op \in {"write", "invalidate"},
         WriteUser(r, task[r].target, row, op), UNCHANGED <<snapshot, family, tokens>>
  PROVE  Typed'
  <1>. DEFINE t == task[r]
  <1>1. InFlight(t) /\ t.target \in Users
    BY DEF Typed, InFlight
  <1>2. /\ task'[r] = [t EXCEPT !.op = op]
        /\ user'[t.target] # NoRow
        /\ RowsStay
    BY <1>1, WriteUserStep DEF Exists
  <1>3. /\ DOMAIN task'[r] = DOMAIN t
        /\ task'[r].op = op
        /\ task'[r].kind = t.kind
        /\ task'[r].change = t.change
        /\ task'[r].user = t.user
        /\ task'[r].target = t.target
        /\ task'[r].role = t.role
    BY <1>2 DEF Administers
  <1>4. Administers(task[r])'
    BY <1>2, <1>3 DEF Administers, Exists, Wanted
  <1>5. user'[t.user] # NoRow
    BY <1>1, <1>2 DEF InFlight, RowsStay, Exists
  <1>6. InFlight(task[r])'
    BY <1>1, <1>3, <1>4, <1>5 DEF InFlight, Exists
  <1>. QED
    BY <1>1, <1>6, WriteUserTyped

LEMMA IncrementTyped ==
  ASSUME Typed, NEW r \in Requests, incrementTokenVersion(r)
  PROVE  Typed'
  <1>1. task[r].op = "bump" /\ UNCHANGED <<snapshot, family, tokens>>
    BY DEF incrementTokenVersion
  <1>2. task[r] # Idle /\ InFlight(task[r]) /\ Administers(task[r])
    BY <1>1, NotIdle, KindOfTask
  <1>3. CASE Answer(r) /\ UNCHANGED user
    BY <1>1, <1>3, AnswerTyped
  <1>4. CASE WriteUser(r, task[r].target, Bumped(task[r].target), "write")
    <2>1. /\ task[r].kind = "update"
          /\ task[r].target \in Users
          /\ Exists(task[r].target)
      BY <1>1, <1>2 DEF InFlight, Administers, Wanted
    <2>. QED
      BY <1>1, <1>2, <1>4, <2>1, BumpedIsRow, AdministratorWriteTyped
  <1>. QED
    BY <1>3, <1>4 DEF incrementTokenVersion

(* The columns of a request take the place of the stored ones. *)
Changed(row, change) ==
  [c \in DOMAIN row |-> IF c \in DOMAIN change THEN change[c] ELSE row[c]]

LEMMA ChangedIsRow ==
  ASSUME NEW row \in Row, NEW kind, NEW change, Wanted(kind, change), kind # "create"
  PROVE  /\ Changed(row, change) \in Row
         /\ Changed(row, change).tokenVersion = row.tokenVersion
         /\ "password" \notin DOMAIN change => Changed(row, change).password = row.password
         /\ "role" \notin DOMAIN change => Changed(row, change).role = row.role
         /\ "role" \in DOMAIN change => Changed(row, change).role = change.role
         /\ "isActive" \notin DOMAIN change => Changed(row, change).isActive = row.isActive
         /\ "isActive" \in DOMAIN change => Changed(row, change).isActive = change.isActive
         /\ "isDeleted" \notin DOMAIN change => Changed(row, change).isDeleted = row.isDeleted
  <1>. DEFINE new == Changed(row, change)
              columns == {"role", "isActive", "isDeleted", "tokenVersion", "password"}
  <1>1. DOMAIN new = columns
    BY DEF Changed, Row
  <1>2. \A c \in columns : new[c] = IF c \in DOMAIN change THEN change[c] ELSE row[c]
    BY DEF Changed, Row
  <1>3. new = [c \in columns |-> new[c]]
    BY DEF Changed, Row
  <1>. HIDE DEF new
  <1>4. /\ "tokenVersion" \notin DOMAIN change
        /\ "role" \in DOMAIN change => change.role \in Roles
        /\ "isActive" \in DOMAIN change => change.isActive \in BOOLEAN
        /\ "isDeleted" \in DOMAIN change => change.isDeleted \in BOOLEAN
        /\ "password" \in DOMAIN change => change.password \in Secrets
    <2>1. CASE change \in [role : Roles]
      BY <2>1
    <2>2. CASE change \in [password : Secrets]
      BY <2>2
    <2>3. CASE change \in [isActive : BOOLEAN]
      BY <2>3
    <2>4. CASE change = [isDeleted |-> TRUE]
      BY <2>4
    <2>. QED
      BY <2>1, <2>2, <2>3, <2>4 DEF Wanted
  <1>5. /\ new.role \in Roles
        /\ new.isActive \in BOOLEAN
        /\ new.isDeleted \in BOOLEAN
        /\ new.tokenVersion \in Nat
        /\ new.password \in Secrets
    BY <1>2, <1>4 DEF Row
  <1>6. new \in Row
    BY <1>3, <1>5 DEF Row
  <1>. QED
    BY <1>2, <1>4, <1>6 DEF new

LEMMA WriteChangeStep ==
  ASSUME Typed, NEW r \in Requests, WriteChange(r)
  PROVE  /\ task[r] # Idle
         /\ task[r].op = "write"
         /\ InFlight(task[r])
         /\ Administers(task[r])
         /\ task[r].kind # "create"
         /\ task[r].target \in Users
         /\ Exists(task[r].target)
         /\ user[task[r].target] \in Row
         /\ UNCHANGED <<snapshot, family, tokens>>
         /\ \/ /\ task[r].kind # "update" /\ ~Live(task[r].target)
               /\ Answer(r) /\ UNCHANGED user
            \/ WriteUser(r, task[r].target,
                 Changed(user[task[r].target], task[r].change), "invalidate")
  <1>1. task[r].op = "write" /\ UNCHANGED <<snapshot, family, tokens>>
    BY DEF WriteChange
  <1>2. task[r] # Idle /\ InFlight(task[r]) /\ Administers(task[r])
    BY <1>1, NotIdle, KindOfTask
  <1>3. task[r].kind # "create" /\ task[r].target \in Users /\ Exists(task[r].target)
    BY <1>1, <1>2 DEF InFlight, Administers, Wanted
  <1>4. user[task[r].target] \in Row
    BY <1>3 DEF Typed, Exists
  <1>. QED
    BY <1>1, <1>2, <1>3, <1>4 DEF WriteChange, Changed, AfterWrite

LEMMA WriteChangeTyped ==
  ASSUME Typed, NEW r \in Requests, WriteChange(r)
  PROVE  Typed'
  <1>. DEFINE t == task[r]
              new == Changed(user[t.target], t.change)
  <1>1. /\ t # Idle /\ Administers(t) /\ t.kind # "create" /\ Exists(t.target)
        /\ user[t.target] \in Row
        /\ UNCHANGED <<snapshot, family, tokens>>
        /\ \/ Answer(r) /\ UNCHANGED user
           \/ WriteUser(r, t.target, new, "invalidate")
    BY WriteChangeStep
  <1>2. new \in Row
    BY <1>1, ChangedIsRow DEF Administers
  <1>. QED
    BY <1>1, <1>2, AnswerTyped, AdministratorWriteTyped

LEMMA CacheTyped ==
  ASSUME Typed, UNCHANGED <<user, tokens, task>>,
         DOMAIN family' = Users, DOMAIN snapshot' = Users,
         \A x \in Users : family'[x] \in {family[x], NULL},
         \A x \in Users : snapshot'[x] \in {snapshot[x], NULL}
  PROVE  Typed'
  BY DEF Typed, InFlight, Holder, LogsIn, Refreshes, Revokes, LooksUp, Keeps, Administers,
     Exists, PairsOf

LEMMA InitTyped ==
  ASSUME SessionAssumption, InitialUsersAssumption, Init
  PROVE  Typed
  <1>1. user \in [Users -> Row \cup {NoRow}]
    BY DEF Init, InitialUsersAssumption
  <1>2. ASSUME NEW p \in tokens
        PROVE  p \in Pair /\ Exists(p.user)
    <2>1. PICK u \in Users :
            /\ user[u] # NoRow
            /\ p = [user |-> u, jti |-> 0, tokenVersion |-> user[u].tokenVersion,
                    parent |-> NULL, password |-> user[u].password, early |-> FALSE]
      BY DEF Init
    <2>. QED
      BY <1>1, <2>1 DEF Pair, Row, Exists
  <1>3. ASSUME NEW u \in Users
        PROVE  IsFiniteSet(PairsOf(u))
    <2>. DEFINE p == [user |-> u, jti |-> 0, tokenVersion |-> user[u].tokenVersion,
                      parent |-> NULL, password |-> user[u].password, early |-> FALSE]
    <2>1. ASSUME NEW q \in PairsOf(u)
          PROVE  q = p
      BY DEF Init, PairsOf
    <2>. HIDE DEF p
    <2>2. IsFiniteSet({p}) /\ PairsOf(u) \subseteq {p}
      BY <2>1, FS_Singleton
    <2>. QED
      BY <2>2, FS_Subset
  <1>4. /\ DOMAIN family = Users
        /\ \A u \in Users : family[u] # NULL =>
             family[u].current \in Nat /\ family[u].previous \in Nat \cup {NULL}
        /\ DOMAIN snapshot = Users
        /\ \A u \in Users : snapshot[u] = NULL
        /\ DOMAIN task = Requests
        /\ \A r \in Requests : task[r] = Idle
    BY DEF Init
  <1>. QED
    BY <1>1, <1>2, <1>3, <1>4 DEF Typed

LEMMA NextTyped ==
  ASSUME SessionAssumption, Typed, [Next]_vars
  PROVE  Typed'
  <1>1. ASSUME NEW r \in Requests, Begin(r)
        PROVE  Typed'
    BY <1>1, BeginLoginTyped, BeginRefreshTyped, BeginLogoutTyped, BeginRequestTyped
       DEF Begin
  <1>2. ASSUME NEW r \in Requests, Continue(r)
        PROVE  Typed'
    BY <1>2, ClearOldSessionTyped, IssuersTyped, CheckFamilyTyped, RevokeTyped, LookUpTyped,
       KeepSnapshotTyped, CreateUserTyped, BeginUpdateTyped, BeginDeleteTyped,
       IncrementTyped, WriteChangeTyped, InvalidateTyped
       DEF Continue
  <1>3. ASSUME NEW u \in Users, SnapshotExpires(u)
        PROVE  Typed'
    BY <1>3, CacheTyped DEF SnapshotExpires, Typed
  <1>4. CASE CacheIsLost
    BY <1>4, CacheTyped DEF CacheIsLost
  <1>5. CASE UNCHANGED vars
    BY <1>5, CacheTyped DEF vars, Typed
  <1>. QED
    BY <1>1, <1>2, <1>3, <1>4, <1>5 DEF Next

LEMMA AlwaysTyped == Spec => []Typed
  <1>1. Init => Typed
    BY SessionAssumption, InitialUsersAssumption, InitTyped
  <1>2. Typed /\ [Next]_vars => Typed'
    BY SessionAssumption, NextTyped
  <1>. QED
    BY <1>1, <1>2, PTL DEF Spec

-----------------------------------------------------------------------------
(* What a step of one handler does to the others. *)

LEMMA OthersSame ==
  ASSUME Typed, NEW r \in Requests, Begin(r) \/ Continue(r),
         NEW q \in Requests, q # r
  PROVE  Overtaken(task[q], task'[q])
  <1>1. CASE \E t : task' = [task EXCEPT ![r] = t]
    BY <1>1, TaskStep
  <1>2. ASSUME NEW u, NEW row, NEW op, WriteUser(r, u, row, op)
        PROVE  Overtaken(task[q], task'[q])
    <2>1. task'[q] \in {task[q], [task[q] EXCEPT !.fresh = FALSE]}
      BY <1>2 DEF WriteUser
    <2>2. task[q] = Idle => task'[q] = Idle
      BY <1>2 DEF WriteUser
    <2>. QED
      BY <2>1, <2>2 DEF Same, Overtaken
  <1>3. ASSUME NEW parent, Issue(r, parent)
        PROVE  Overtaken(task[q], task'[q])
    <2>1. \/ task'[q] = task[q]
          \/ task[q].op = "rotate" /\ task'[q] = [task[q] EXCEPT !.fresh = FALSE]
      BY <1>3 DEF Issue
    <2>. QED
      BY <2>1, NotIdle DEF Same, Overtaken
  <1>4. ASSUME Begin(r)
        PROVE  \E t : task' = [task EXCEPT ![r] = t]
    <2>1. ASSUME NEW t, Serve(r, t)
          PROVE  \E u : task' = [task EXCEPT ![r] = u]
      BY <2>1 DEF Serve
    <2>. QED
      BY <1>4, <2>1 DEF Begin, BeginLogin, BeginRefresh, BeginLogout, BeginRequest
  <1>5. ASSUME NEW op, Goto(r, op) \/ Answer(r)
        PROVE  \E t : task' = [task EXCEPT ![r] = t]
    BY <1>5 DEF Goto, Answer
  <1>6. ASSUME CheckFamily(r)
        PROVE  Overtaken(task[q], task'[q])
    BY <1>6 DEF CheckFamily, Same, Overtaken, Typed
  <1>7. ASSUME LookUp(r) \/ KeepSnapshot(r)
        PROVE  \E t : task' = [task EXCEPT ![r] = t]
    BY <1>7 DEF LookUp, KeepSnapshot
  <1>8. CASE ClearOldSession(r) \/ BeginUpdate(r) \/ BeginDelete(r) \/ Invalidate(r)
    BY <1>1, <1>5, <1>8 DEF ClearOldSession, BeginUpdate, BeginDelete, Invalidate, Proceed
  <1>9. CASE IssueFirstPair(r) \/ Rotate(r)
    BY <1>3, <1>9 DEF IssueFirstPair, Rotate
  <1>10. CASE Revoke(r) \/ CreateUser(r) \/ incrementTokenVersion(r) \/ WriteChange(r)
    BY <1>1, <1>2, <1>5, <1>10 DEF Revoke, CreateUser, incrementTokenVersion, WriteChange
  <1>. QED
    BY <1>1, <1>4, <1>6, <1>7, <1>8, <1>9, <1>10 DEF Continue

(* Who comes to which point. *)
LEMMA NextOp ==
  ASSUME SessionAssumption, Typed, NEW r \in Requests, Begin(r) \/ Continue(r)
  PROVE  /\ task'[r].op = "write" =>
              incrementTokenVersion(r) \/ BeginUpdate(r) \/ BeginDelete(r)
         /\ task'[r].op = "invalidate" => Revoke(r) \/ WriteChange(r)
         /\ task'[r].op = "bump" => BeginUpdate(r)
         /\ task'[r].op \in {"create", "update", "status", "delete"} =>
              BeginRequest(r) \/ KeepSnapshot(r)
         /\ task'[r].op \in {"clear", "issue", "family", "rotate"} =>
              BeginLogin(r) \/ BeginRefresh(r) \/ ClearOldSession(r) \/ CheckFamily(r)
  <1>1. \A want \in Wants : want.kind \in {"create", "update", "status", "delete"}
    BY WantsAreWanted DEF Wanted
  <1>2. r \in DOMAIN task
    BY DEF Typed
  <1>3. CASE Begin(r)
    <2>1. ASSUME NEW t, Serve(r, t)
          PROVE  task'[r] = t
      BY <1>2, <2>1 DEF Serve
    <2>2. CASE BeginLogin(r)
      <3>1. task'[r].op = "clear"
        BY <2>1, <2>2 DEF BeginLogin
      <3>. QED
        BY <2>2, <3>1
    <2>3. CASE BeginRefresh(r)
      <3>1. task'[r].op = "family"
        BY <2>1, <2>3 DEF BeginRefresh
      <3>. QED
        BY <2>3, <3>1
    <2>4. CASE BeginLogout(r)
      <3>1. task'[r].op = "revoke"
        BY <2>1, <2>4 DEF BeginLogout
      <3>. QED
        BY <3>1
    <2>5. CASE BeginRequest(r)
      <3>1. task'[r].op \in {"lookup", "create", "update", "status", "delete"}
        BY <1>1, <2>1, <2>5 DEF BeginRequest, Admitted
      <3>. QED
        BY <2>5, <3>1
    <2>. QED
      BY <1>3, <2>2, <2>3, <2>4, <2>5 DEF Begin
  <1>4. Answer(r) => task'[r].op = "idle"
    BY <1>2 DEF Answer, Idle
  <1>5. CASE ClearOldSession(r)
    <2>1. LogsIn(task[r])
      BY <1>5, NotIdle, KindOfTask DEF ClearOldSession
    <2>. QED
      BY <1>2, <1>5, <2>1 DEF ClearOldSession, Goto, LogsIn
  <1>6. CASE IssueFirstPair(r) \/ Rotate(r)
    BY <1>6 DEF IssueFirstPair, Rotate, Issue, Idle
  <1>7. CASE CheckFamily(r)
    <2>1. Refreshes(task[r])
      BY <1>7, NotIdle, KindOfTask DEF CheckFamily
    <2>2. task'[r].op \in {"revoke", "rotate"}
      BY <1>2, <1>7, <2>1 DEF CheckFamily, Refreshes
    <2>. QED
      BY <1>7, <2>2
  <1>8. CASE LookUp(r)
    BY <1>2, <1>8 DEF LookUp
  <1>9. CASE KeepSnapshot(r)
    <2>1. task[r].want \in Wants
      BY <1>9, NotIdle, KindOfTask DEF KeepSnapshot, Keeps
    <2>. QED
      BY <1>1, <1>2, <1>9, <2>1 DEF KeepSnapshot, Admitted, Idle
  <1>10. CASE CreateUser(r)
    <2>1. ASSUME NEW u, NEW row, WriteUser(r, u, row, "done")
          PROVE  task'[r].op = "idle"
      BY <2>1 DEF WriteUser, Idle
    <2>. QED
      BY <1>4, <1>10, <2>1 DEF CreateUser
  <1>11. CASE incrementTokenVersion(r)
    <2>1. Administers(task[r])
      BY <1>11, NotIdle, KindOfTask DEF incrementTokenVersion
    <2>. QED
      BY <1>4, <1>11, <2>1 DEF incrementTokenVersion, WriteUser, Administers
  <1>12. CASE BeginUpdate(r)
    <2>1. Administers(task[r])
      BY <1>12, NotIdle, KindOfTask DEF BeginUpdate
    <2>2. task'[r].op \in {"idle", "bump", "write"}
      BY <1>2, <1>4, <1>12, <2>1 DEF BeginUpdate, Proceed, Goto, Administers
    <2>. QED
      BY <1>12, <2>2
  <1>13. CASE BeginDelete(r)
    <2>1. Administers(task[r])
      BY <1>13, NotIdle, KindOfTask DEF BeginDelete
    <2>2. task'[r].op \in {"idle", "write"}
      BY <1>2, <1>4, <1>13, <2>1 DEF BeginDelete, Proceed, Goto, Administers
    <2>. QED
      BY <1>13, <2>2
  <1>14. CASE Revoke(r)
    <2>1. Revokes(task[r])
      BY <1>14, NotIdle, KindOfTask DEF Revoke
    <2>2. task'[r].op = "invalidate"
      BY <1>14, <2>1 DEF Revoke, WriteUser, Revokes
    <2>. QED
      BY <1>14, <2>2
  <1>15. CASE WriteChange(r)
    <2>1. Administers(task[r])
      BY <1>15, WriteChangeStep
    <2>2. task'[r].op \in {"idle", "invalidate"}
      BY <1>4, <1>15, <2>1, WriteChangeStep DEF WriteUser, Administers
    <2>. QED
      BY <1>15, <2>2
  <1>16. CASE Invalidate(r)
    BY <1>4, <1>16 DEF Invalidate
  <1>. QED
    BY <1>3, <1>5, <1>6, <1>7, <1>8, <1>9, <1>10, <1>11, <1>12, <1>13, <1>14, <1>15,
       <1>16 DEF Continue

-----------------------------------------------------------------------------
(* Passwords.  Whoever knows a password at the current token version, and  *)
(* did not read the user while a change was half done, knows the current   *)
(* one, and no change is half done: a change begins by leaving that        *)
(* version behind.                                                         *)

Trusts(u, version, password, early) ==
  /\ version <= user[u].tokenVersion
  /\ version = user[u].tokenVersion /\ ~early =>
       password = user[u].password /\ ~HalfChanged(u)

TrustsPair(p) == Trusts(p.user, p.tokenVersion, p.password, p.early)
TrustsTask(t) == Trusts(t.user, t.row.tokenVersion, t.password, t.early)

Honest ==
  /\ \A p \in tokens : TrustsPair(p)
  /\ \A r \in Requests : task[r] # Idle /\ Holder(task[r]) => TrustsTask(task[r])

KeepsTrust(u) ==
  /\ user[u].tokenVersion \in Nat
  /\ user'[u].tokenVersion \in Nat
  /\ \/ user'[u].tokenVersion > user[u].tokenVersion
     \/ /\ user'[u].tokenVersion = user[u].tokenVersion
        /\ user'[u].password = user[u].password \/ HalfChanged(u)
        /\ HalfChanged(u)' => HalfChanged(u)

(* Only the handler that ends the sessions comes to a change of password.  *)
LEMMA HalfChangeBegins ==
  ASSUME SessionAssumption, Typed, NEW r \in Requests, Begin(r) \/ Continue(r),
         NEW u, HalfChanged(u)', ~HalfChanged(u)
  PROVE  incrementTokenVersion(r) /\ task'[r].target = u
  <1>1. PICK q \in Requests : /\ task'[q].op = "write"
                              /\ task'[q].target = u
                              /\ "password" \in DOMAIN task'[q].change
    BY DEF HalfChanged
  <1>2. ASSUME q # r
        PROVE  FALSE
    <2>1. Same(task[q], task'[q])
      BY <1>1, <1>2, OthersSame DEF Overtaken, Idle
    <2>2. InFlight(task[q])
      BY <2>1 DEF Same, Typed
    <2>3. "op" \in DOMAIN task[q]
      BY <2>2 DEF InFlight, Holder, LogsIn, Refreshes, Revokes, LooksUp, Keeps, Administers
    <2>4. task[q].op = "write"
      BY <1>1, <2>1, <2>3 DEF Same, Overtaken
    <2>5. Administers(task[q])
      BY <2>1, <2>4, KindOfTask DEF Same, Overtaken
    <2>6. task[q].target = u /\ "password" \in DOMAIN task[q].change
      BY <1>1, <2>1, <2>5 DEF Same, Administers
    <2>. QED
      BY <2>4, <2>6 DEF HalfChanged
  <1>3. CASE BeginUpdate(r)
    <2>1. Administers(task[r]) /\ task[r].op \in {"update", "status"}
      BY <1>3, NotIdle, KindOfTask DEF BeginUpdate
    <2>2. task'[r].op = "write"
      BY <1>1, <1>2
    <2>3. task'[r] = [task[r] EXCEPT !.op = "write"] /\ task'[r].op # "bump"
      BY <1>3, <2>1, <2>2 DEF BeginUpdate, Proceed, Goto, Answer, Typed, Idle, Administers
    <2>4. task'[r].change = task[r].change
      BY <2>1, <2>3 DEF Administers
    <2>5. ~(task[r].kind = "update" /\ EndsSessions(user[task[r].target], task[r].change))
      <3>1. ASSUME Goto(r, "bump")
            PROVE  FALSE
        BY <2>1, <2>3, <3>1 DEF Goto, Typed, Administers
      <3>2. ~Answer(r)
        BY <2>2 DEF Answer, Typed, Idle
      <3>. QED
        BY <1>3, <3>1, <3>2 DEF BeginUpdate, Proceed
    <2>6. "password" \notin DOMAIN task[r].change
      BY <2>1, <2>5 DEF EndsSessions, Administers, Wanted
    <2>. QED
      BY <1>1, <1>2, <2>4, <2>6
  <1>4. CASE BeginDelete(r)
    <2>1. Administers(task[r]) /\ task[r].op = "delete"
      BY <1>4, NotIdle, KindOfTask DEF BeginDelete
    <2>2. task'[r] \in {[task[r] EXCEPT !.op = "write"], Idle}
      BY <1>4 DEF BeginDelete, Proceed, Goto, Answer, Typed
    <2>3. task'[r].change = task[r].change
      BY <1>1, <1>2, <2>1, <2>2 DEF Administers, Idle
    <2>4. "password" \notin DOMAIN task[r].change
      BY <2>1 DEF Administers, Wanted
    <2>. QED
      BY <1>1, <1>2, <2>3, <2>4
  <1>. QED
    BY <1>1, <1>2, <1>3, <1>4, NextOp

LEMMA TrustFrame ==
  ASSUME SessionAssumption, Typed, NEW r \in Requests, Begin(r) \/ Continue(r),
         NEW u \in Users, Exists(u)
  PROVE  KeepsTrust(u)
  <1>1. user[u] \in Row /\ user[u].tokenVersion \in Nat
    BY DEF Typed, Exists, Row
  <1>2. CASE Revoke(r)
    <2>1. task[r].user \in Users /\ Exists(task[r].user)
      BY <1>2, NotIdle, KindOfTask DEF Revoke, InFlight
    <2>2. /\ user' = [user EXCEPT ![task[r].user] = Bumped(task[r].user)]
          /\ Bumped(task[r].user).tokenVersion = user[task[r].user].tokenVersion + 1
      BY <1>2, <2>1, BumpedIsRow DEF Revoke, WriteUser
    <2>3. HalfChanged(u)' => HalfChanged(u)
      <3>1. ~incrementTokenVersion(r)
        BY <1>2 DEF Revoke, incrementTokenVersion
      <3>. QED
        BY <3>1, HalfChangeBegins
    <2>. QED
      BY <1>1, <2>1, <2>2, <2>3 DEF KeepsTrust, Typed
  <1>3. CASE incrementTokenVersion(r)
    <2>1. /\ task[r].op = "bump"
          /\ task[r] # Idle
          /\ Administers(task[r])
          /\ InFlight(task[r])
      BY <1>3, NotIdle, KindOfTask DEF incrementTokenVersion
    <2>2. CASE Answer(r) /\ UNCHANGED user
      <3>1. task'[r].op = "idle"
        BY <2>2 DEF Answer, Typed, Idle
      <3>2. HalfChanged(u)' => HalfChanged(u)
        <4>. SUFFICES ASSUME HalfChanged(u)', ~HalfChanged(u) PROVE FALSE
          OBVIOUS
        <4>1. PICK q \in Requests : task'[q].op = "write" /\ task'[q].target = u
                                    /\ "password" \in DOMAIN task'[q].change
          BY DEF HalfChanged
        <4>2. q # r
          BY <3>1, <4>1
        <4>3. task'[q] = task[q]
          BY <2>2, <4>2 DEF Answer, Typed
        <4>. QED
          BY <4>1, <4>3 DEF HalfChanged
      <3>. QED
        BY <1>1, <2>2, <3>2 DEF KeepsTrust
    <2>3. CASE WriteUser(r, task[r].target, Bumped(task[r].target), "write")
      <3>1. task[r].target \in Users /\ Exists(task[r].target)
        BY <2>1 DEF InFlight, Administers, Wanted
      <3>2. /\ user' = [user EXCEPT ![task[r].target] = Bumped(task[r].target)]
            /\ Bumped(task[r].target).tokenVersion = user[task[r].target].tokenVersion + 1
        BY <2>3, <3>1, BumpedIsRow DEF WriteUser
      <3>3. task'[r].target = task[r].target
        BY <2>1, <2>3 DEF WriteUser, Administers
      <3>4. u # task[r].target => (HalfChanged(u)' => HalfChanged(u))
        BY <3>3, HalfChangeBegins
      <3>. QED
        BY <1>1, <3>1, <3>2, <3>4 DEF KeepsTrust, Typed
    <2>. QED
      BY <1>3, <2>2, <2>3 DEF incrementTokenVersion
  <1>4. CASE WriteChange(r)
    <2>. DEFINE t == task[r]
    <2>1. /\ t.op = "write" /\ Administers(t) /\ t.kind # "create"
          /\ t.target \in Users /\ user[t.target] \in Row
          /\ \/ UNCHANGED user
             \/ WriteUser(r, t.target, Changed(user[t.target], t.change), "invalidate")
      BY <1>4, WriteChangeStep
    <2>2. HalfChanged(u)' => HalfChanged(u)
      <3>1. ~incrementTokenVersion(r)
        BY <2>1 DEF incrementTokenVersion
      <3>. QED
        BY <3>1, HalfChangeBegins
    <2>3. /\ Changed(user[t.target], t.change).tokenVersion = user[t.target].tokenVersion
          /\ "password" \notin DOMAIN t.change =>
               Changed(user[t.target], t.change).password = user[t.target].password
      BY <2>1, ChangedIsRow DEF Administers
    <2>4. "password" \in DOMAIN t.change => HalfChanged(t.target)
      BY <2>1 DEF HalfChanged
    <2>. QED
      BY <1>1, <2>1, <2>2, <2>3, <2>4 DEF KeepsTrust, WriteUser, Typed
  <1>5. CASE CreateUser(r)
    <2>1. HalfChanged(u)' => HalfChanged(u)
      <3>1. ~incrementTokenVersion(r)
        BY <1>5 DEF CreateUser, incrementTokenVersion
      <3>. QED
        BY <3>1, HalfChangeBegins
    <2>2. user'[u] = user[u]
      BY <1>5 DEF CreateUser, WriteUser, Exists, Typed
    <2>. QED
      BY <1>1, <2>1, <2>2 DEF KeepsTrust
  <1>6. CASE ~(Revoke(r) \/ incrementTokenVersion(r) \/ WriteChange(r) \/ CreateUser(r))
    <2>1. UNCHANGED user
      BY <1>6 DEF Begin, BeginLogin, BeginRefresh, BeginLogout, BeginRequest, Continue,
         ClearOldSession, IssueFirstPair, CheckFamily, Rotate, Issue, LookUp, KeepSnapshot,
         BeginUpdate, BeginDelete, Invalidate
    <2>2. HalfChanged(u)' => HalfChanged(u)
      BY <1>6, HalfChangeBegins
    <2>. QED
      BY <1>1, <2>1, <2>2 DEF KeepsTrust
  <1>. QED
    BY <1>2, <1>3, <1>4, <1>5, <1>6

LEMMA TrustStays ==
  ASSUME NEW u \in Users, NEW version \in Nat, NEW password, NEW early,
         Trusts(u, version, password, early), KeepsTrust(u)
  PROVE  Trusts(u, version, password, early)'
  BY DEF Trusts, KeepsTrust

LEMMA TrustNow ==
  ASSUME Typed, NEW u \in Users, Exists(u)
  PROVE  Trusts(u, user[u].tokenVersion, user[u].password, HalfChanged(u))
  <1>1. user[u].tokenVersion \in Nat
    BY DEF Typed, Exists, Row
  <1>. QED
    BY <1>1 DEF Trusts

(* What a handler holds after the step could be trusted before it. *)
LEMMA HoldersTrust ==
  ASSUME SessionAssumption, Typed, Honest, NEW r \in Requests, Begin(r) \/ Continue(r),
         NEW q \in Requests, task'[q] # Idle, Holder(task'[q])
  PROVE  /\ Trusts(task'[q].user, task'[q].row.tokenVersion, task'[q].password,
                   task'[q].early)
         /\ task'[q].user \in Users /\ Exists(task'[q].user)
  <1>1. ASSUME NEW t, task[q] = t, t # Idle, Holder(t),
               task'[q].user = t.user, task'[q].row = t.row,
               task'[q].password = t.password, task'[q].early = t.early
        PROVE  /\ Trusts(task'[q].user, task'[q].row.tokenVersion, task'[q].password,
                         task'[q].early)
               /\ task'[q].user \in Users /\ Exists(task'[q].user)
    BY <1>1 DEF Honest, TrustsTask, Typed, InFlight
  <1>2. CASE q # r
    <2>1. Same(task[q], task'[q])
      BY <1>2, OthersSame DEF Overtaken
    <2>2. /\ DOMAIN task'[q] = DOMAIN task[q]
          /\ {"op", "user", "target", "row", "password", "early"} \subseteq DOMAIN task[q]
      BY <2>1 DEF Same, Holder, LogsIn, Refreshes
    <2>3. /\ task'[q].op = task[q].op
          /\ task'[q].user = task[q].user
          /\ task'[q].target = task[q].target
          /\ task'[q].row = task[q].row
          /\ task'[q].password = task[q].password
          /\ task'[q].early = task[q].early
          /\ "jti" \in DOMAIN task[q] => task'[q].jti = task[q].jti
      BY <2>1, <2>2 DEF Same, Overtaken
    <2>4. Holder(task[q])
      BY <2>2, <2>3 DEF Holder, LogsIn, Refreshes
    <2>. QED
      BY <1>1, <2>1, <2>3, <2>4 DEF Same, Overtaken
  <1>3. CASE q = r
    <2>1. task'[r].op \in {"clear", "issue", "family", "rotate"}
      BY <1>3 DEF Holder, LogsIn, Refreshes
    <2>2. CASE BeginLogin(r)
      <3>1. PICK u \in Users :
              /\ Live(u)
              /\ task'[r] = [op |-> "clear", user |-> u, target |-> u, row |-> user[u],
                             password |-> user[u].password, early |-> HalfChanged(u),
                             fresh |-> TRUE]
        BY <2>2 DEF BeginLogin, Serve, Typed
      <3>2. Trusts(u, user[u].tokenVersion, user[u].password, HalfChanged(u))
        BY <3>1, TrustNow, LiveIsRow
      <3>. QED
        BY <1>3, <3>1, <3>2, LiveIsRow
    <2>3. CASE BeginRefresh(r)
      <3>1. PICK p \in tokens :
              /\ user[p.user].tokenVersion = p.tokenVersion
              /\ task'[r] = [op |-> "family", user |-> p.user, target |-> p.user,
                             row |-> user[p.user], password |-> p.password,
                             early |-> p.early, jti |-> p.jti, fresh |-> TRUE]
        BY <2>3 DEF BeginRefresh, Serve, Typed
      <3>. QED
        BY <1>3, <3>1 DEF Honest, TrustsPair, Typed, Pair
    <2>4. CASE ClearOldSession(r)
      <3>1. task[r] # Idle /\ Holder(task[r]) /\ LogsIn(task[r])
        BY <2>4, NotIdle, KindOfTask DEF ClearOldSession
      <3>2. task'[r] = [task[r] EXCEPT !.op = "issue"]
        BY <2>4 DEF ClearOldSession, Goto, Typed
      <3>. QED
        BY <1>1, <1>3, <3>1, <3>2 DEF LogsIn
    <2>5. CASE CheckFamily(r)
      <3>1. task[r] # Idle /\ Holder(task[r]) /\ Refreshes(task[r])
        BY <2>5, NotIdle, KindOfTask DEF CheckFamily
      <3>2. \A c \in DOMAIN task[r] \ {"op", "fresh"} : task'[r][c] = task[r][c]
        BY <2>5, <3>1 DEF CheckFamily, Typed, Refreshes
      <3>. QED
        BY <1>1, <1>3, <3>1, <3>2 DEF Refreshes
    <2>. QED
      BY <2>1, <2>2, <2>3, <2>4, <2>5, NextOp
  <1>. QED
    BY <1>2, <1>3

(* So could what a new pair is made from. *)
LEMMA NewPairsTrust ==
  ASSUME SessionAssumption, Typed, Honest, NEW r \in Requests, Begin(r) \/ Continue(r),
         NEW p \in tokens'
  PROVE  /\ Trusts(p.user, p.tokenVersion, p.password, p.early)
         /\ p.user \in Users /\ Exists(p.user) /\ p.tokenVersion \in Nat
  <1>1. CASE p \in tokens
    BY <1>1 DEF Honest, TrustsPair, Typed, Pair
  <1>2. CASE p \notin tokens
    <2>1. IssueFirstPair(r) \/ Rotate(r)
      BY <1>2 DEF Begin, BeginLogin, BeginRefresh, BeginLogout, BeginRequest, Continue,
         ClearOldSession, CheckFamily, Revoke, LookUp, KeepSnapshot, CreateUser,
         BeginUpdate, BeginDelete, incrementTokenVersion, WriteChange, Invalidate
    <2>2. task[r] # Idle /\ InFlight(task[r]) /\ Holder(task[r])
      BY <2>1, NotIdle, KindOfTask DEF IssueFirstPair, Rotate
    <2>3. PICK parent : Issue(r, parent)
      BY <2>1 DEF IssueFirstPair, Rotate
    <2>4. p = NewPair(task[r], parent)
      BY <1>2, <2>3 DEF Issue
    <2>5. TrustsTask(task[r])
      BY <2>2 DEF Honest
    <2>. QED
      BY <2>2, <2>4, <2>5 DEF TrustsTask, NewPair, InFlight, Holder, Row
  <1>. QED
    BY <1>1, <1>2

LEMMA HonestStep ==
  ASSUME SessionAssumption, Typed, Honest, NEW r \in Requests, Begin(r) \/ Continue(r)
  PROVE  Honest'
  <1>1. Typed'
    BY NextTyped DEF Next
  <1>2. ASSUME NEW p \in tokens'
        PROVE  TrustsPair(p)'
    <2>1. /\ Trusts(p.user, p.tokenVersion, p.password, p.early)
          /\ p.user \in Users /\ Exists(p.user) /\ p.tokenVersion \in Nat
      BY NewPairsTrust
    <2>2. Trusts(p.user, p.tokenVersion, p.password, p.early)'
      BY <2>1, TrustFrame, TrustStays
    <2>. QED
      BY <2>2 DEF TrustsPair
  <1>3. ASSUME NEW q \in Requests, task'[q] # Idle, Holder(task'[q])
        PROVE  TrustsTask(task[q])'
    <2>1. /\ Trusts(task'[q].user, task'[q].row.tokenVersion, task'[q].password,
                   task'[q].early)
          /\ task'[q].user \in Users /\ Exists(task'[q].user)
      BY <1>3, HoldersTrust
    <2>2. /\ task'[q].row.tokenVersion \in Nat
          /\ task'[q].password \in Secrets /\ task'[q].early \in BOOLEAN
      BY <1>3 DEF Holder, Row
    <2>3. PICK u \in Users, version \in Nat, password \in Secrets, early \in BOOLEAN :
            /\ u = task'[q].user /\ version = task'[q].row.tokenVersion
            /\ password = task'[q].password /\ early = task'[q].early
            /\ Trusts(u, version, password, early) /\ Exists(u)
      BY <2>1, <2>2
    <2>4. Trusts(u, version, password, early)'
      BY <2>3, TrustFrame, TrustStays
    <2>. QED
      BY <2>3, <2>4 DEF TrustsTask
  <1>. QED
    BY <1>2, <1>3 DEF Honest, Holder, LogsIn, Refreshes

LEMMA CacheKeepsHonest ==
  ASSUME Honest, UNCHANGED <<user, tokens, task>>
  PROVE  Honest'
  BY DEF Honest, TrustsPair, TrustsTask, Trusts, HalfChanged, Holder, LogsIn, Refreshes

LEMMA AlwaysHonest == Spec => []Honest
  <1>1. Init => Honest
    <2>. SUFFICES ASSUME Init PROVE Honest
      OBVIOUS
    <2>1. Typed
      BY SessionAssumption, InitialUsersAssumption, InitTyped
    <2>2. \A r \in Requests : task[r] = Idle
      BY DEF Init
    <2>3. \A u : ~HalfChanged(u)
      BY <2>2 DEF HalfChanged, Idle
    <2>4. ASSUME NEW p \in tokens
          PROVE  TrustsPair(p)
      <3>1. /\ p.tokenVersion = user[p.user].tokenVersion
            /\ p.password = user[p.user].password
        BY DEF Init
      <3>2. user[p.user].tokenVersion \in Nat
        BY <2>1, <3>1 DEF Typed, Pair
      <3>. QED
        BY <2>3, <3>1, <3>2 DEF TrustsPair, Trusts
    <2>. QED
      BY <2>2, <2>4 DEF Honest
  <1>2. Typed /\ Honest /\ [Next]_vars => Honest'
    BY SessionAssumption, HonestStep, CacheKeepsHonest
       DEF Next, SnapshotExpires, CacheIsLost, vars
  <1>. QED
    BY <1>1, <1>2, AlwaysTyped, PTL DEF Spec

(* Nobody is let in with an old password once the change is through, but   *)
(* for a login that read the user while it was half done.                  *)
THEOREM OldPasswordsAreRefused == Spec => []OldPasswordsEnd
  <1>1. Honest => OldPasswordsEnd
    BY DEF Honest, TrustsPair, Trusts, OldPasswordsEnd
  <1>. QED
    BY <1>1, AlwaysHonest, PTL

-----------------------------------------------------------------------------
(* Snapshots.  A handler that has written a row, or is about to write it   *)
(* unconditionally, comes to the invalidation.                             *)

Due(q, u) ==
  /\ task[q].op = "invalidate" \/ (task[q].op = "write" /\ task[q].kind = "update")
  /\ task[q].target = u

Explained ==
  \A u \in Users :
    snapshot[u] # NULL /\ snapshot[u].row # Found(u) =>
      snapshot[u].raced \/ \E q \in Requests : Due(q, u)

(* A step of r from a given point is the action of that point. *)
LEMMA ActionOfOp ==
  ASSUME NEW r \in Requests, Begin(r) \/ Continue(r)
  PROVE  /\ task[r].op = "invalidate" => Invalidate(r)
         /\ task[r].op = "write" => WriteChange(r)
  <1>1. ASSUME Begin(r)
        PROVE  task[r].op = "idle"
    <2>1. ASSUME NEW t, Serve(r, t)
          PROVE  task[r].op = "idle"
      BY <2>1 DEF Serve, Idle
    <2>. QED
      BY <1>1, <2>1 DEF Begin, BeginLogin, BeginRefresh, BeginLogout, BeginRequest
  <1>2. ASSUME Continue(r), ~Invalidate(r), ~WriteChange(r)
        PROVE  /\ task[r].op # "invalidate"
               /\ task[r].op # "write"
    BY <1>2 DEF Continue, ClearOldSession, IssueFirstPair, CheckFamily, Rotate, Revoke,
       LookUp, KeepSnapshot, CreateUser, BeginUpdate, BeginDelete, incrementTokenVersion
  <1>3. /\ Invalidate(r) => task[r].op = "invalidate"
        /\ WriteChange(r) => task[r].op = "write"
    BY DEF Invalidate, WriteChange
  <1>. QED
    BY <1>1, <1>2, <1>3

LEMMA SnapshotStep ==
  ASSUME Typed, NEW r \in Requests, Begin(r) \/ Continue(r), NEW u \in Users,
         ~(KeepSnapshot(r) /\ task[r].user = u)
  PROVE  snapshot'[u] \in {snapshot[u], NULL}
  <1>1. CASE ClearOldSession(r) \/ Invalidate(r)
    BY <1>1, SessionsCleared DEF ClearOldSession, Invalidate
  <1>2. CASE KeepSnapshot(r)
    BY <1>2 DEF KeepSnapshot, Typed
  <1>3. CASE ~(ClearOldSession(r) \/ Invalidate(r) \/ KeepSnapshot(r))
    BY <1>3 DEF Begin, BeginLogin, BeginRefresh, BeginLogout, BeginRequest, Continue,
       IssueFirstPair, CheckFamily, Rotate, Issue, Revoke, LookUp, CreateUser,
       BeginUpdate, BeginDelete, incrementTokenVersion, WriteChange
  <1>. QED
    BY <1>1, <1>2, <1>3

(* Who writes the row of a user that exists owes the invalidation. *)
LEMMA WriterIsDue ==
  ASSUME SessionAssumption, Typed, NEW r \in Requests, Begin(r) \/ Continue(r),
         NEW u \in Users, Exists(u), user'[u] # user[u]
  PROVE  Due(r, u)'
  <1>1. CASE Revoke(r)
    <2>1. Revokes(task[r]) /\ task[r].user \in Users /\ Exists(task[r].user)
      BY <1>1, NotIdle, KindOfTask DEF Revoke, InFlight
    <2>2. /\ user' = [user EXCEPT ![task[r].user] = Bumped(task[r].user)]
          /\ task'[r] = [task[r] EXCEPT !.op = "invalidate"]
      BY <1>1 DEF Revoke, WriteUser
    <2>3. u = task[r].user
      BY <2>1, <2>2 DEF Typed
    <2>. QED
      BY <2>1, <2>2, <2>3 DEF Due, Revokes
  <1>2. CASE incrementTokenVersion(r)
    <2>1. /\ task[r].op = "bump"
          /\ Administers(task[r])
          /\ task[r].target \in Users
      BY <1>2, NotIdle, KindOfTask DEF incrementTokenVersion, InFlight
    <2>2. task[r].kind = "update"
      BY <2>1 DEF Administers, Wanted
    <2>3. /\ user' = [user EXCEPT ![task[r].target] = Bumped(task[r].target)]
          /\ task'[r] = [task[r] EXCEPT !.op = "write"]
      BY <1>2 DEF incrementTokenVersion, WriteUser
    <2>4. u = task[r].target
      BY <2>1, <2>3 DEF Typed
    <2>. QED
      BY <2>1, <2>2, <2>3, <2>4 DEF Due, Administers
  <1>3. CASE WriteChange(r)
    <2>1. /\ Administers(task[r])
          /\ task[r].target \in Users
          /\ WriteUser(r, task[r].target,
               Changed(user[task[r].target], task[r].change), "invalidate")
      BY <1>3, WriteChangeStep
    <2>2. /\ u = task[r].target
          /\ task'[r] = [task[r] EXCEPT !.op = "invalidate"]
      BY <2>1 DEF WriteUser, Typed
    <2>. QED
      BY <2>1, <2>2 DEF Due, Administers
  <1>4. CASE CreateUser(r)
    BY <1>4 DEF CreateUser, WriteUser, Exists, Typed
  <1>5. CASE ~(Revoke(r) \/ incrementTokenVersion(r) \/ WriteChange(r) \/ CreateUser(r))
    BY <1>5 DEF Begin, BeginLogin, BeginRefresh, BeginLogout, BeginRequest, Continue,
       ClearOldSession, IssueFirstPair, CheckFamily, Rotate, Issue, LookUp, KeepSnapshot,
       BeginUpdate, BeginDelete, Invalidate
  <1>. QED
    BY <1>1, <1>2, <1>3, <1>4, <1>5

(* And owes it until the snapshot is gone. *)
LEMMA DueStays ==
  ASSUME Typed, NEW r \in Requests, Begin(r) \/ Continue(r), NEW q \in Requests,
         NEW u \in Users, Due(q, u), snapshot'[u] # NULL
  PROVE  Due(q, u)'
  <1>1. task[q] # Idle /\ InFlight(task[q])
    BY NotIdle, KindOfTask DEF Due
  <1>2. /\ {"op", "target"} \subseteq DOMAIN task[q]
        /\ task[q].op = "write" => Administers(task[q]) /\ "kind" \in DOMAIN task[q]
    BY <1>1, KindOfTask DEF InFlight, Holder, LogsIn, Refreshes, Revokes, LooksUp, Keeps,
       Administers
  <1>3. CASE q # r
    <2>1. Same(task[q], task'[q])
      BY <1>1, <1>3, OthersSame DEF Overtaken
    <2>. QED
      BY <1>2, <2>1 DEF Same, Due
  <1>4. CASE q = r /\ task[q].op = "invalidate"
    <2>1. Invalidate(r)
      BY <1>4, ActionOfOp
    <2>2. snapshot'[u] = NULL
      BY <1>4, <2>1, SessionsCleared DEF Invalidate, Due
    <2>. QED
      BY <2>2
  <1>5. CASE q = r /\ task[q].op = "write" /\ task[q].kind = "update"
    <2>1. WriteChange(r)
      BY <1>5, ActionOfOp
    <2>2. task'[r] = [task[r] EXCEPT !.op = "invalidate"]
      BY <1>5, <2>1, WriteChangeStep DEF WriteUser
    <2>. QED
      BY <1>2, <1>5, <2>2 DEF Due
  <1>. QED
    BY <1>3, <1>4, <1>5 DEF Due

LEMMA ExplainedStep ==
  ASSUME SessionAssumption, Typed, Explained, NEW r \in Requests, Begin(r) \/ Continue(r)
  PROVE  Explained'
  <1>. SUFFICES ASSUME NEW u \in Users, snapshot'[u] # NULL,
                       snapshot'[u].row # Found(u)'
                PROVE  snapshot'[u].raced \/ \E q \in Requests : Due(q, u)'
    BY DEF Explained
  <1>1. CASE KeepSnapshot(r) /\ task[r].user = u
    BY <1>1 DEF KeepSnapshot, Typed, Found, Live
  <1>2. CASE ~(KeepSnapshot(r) /\ task[r].user = u)
    <2>1. snapshot'[u] = snapshot[u] /\ Exists(u)
      BY <1>2, SnapshotStep DEF Typed
    <2>2. CASE user'[u] = user[u]
      <3>1. snapshot[u].row # Found(u)
        BY <2>1, <2>2 DEF Found, Live
      <3>2. snapshot[u].raced \/ \E q \in Requests : Due(q, u)
        BY <2>1, <3>1 DEF Explained
      <3>. QED
        BY <2>1, <3>2, DueStays
    <2>3. CASE user'[u] # user[u]
      BY <2>1, <2>3, WriterIsDue
    <2>. QED
      BY <2>2, <2>3
  <1>. QED
    BY <1>1, <1>2

LEMMA CacheKeepsExplained ==
  ASSUME Explained, UNCHANGED <<user, task>>,
         \A u \in Users : snapshot'[u] \in {snapshot[u], NULL}
  PROVE  Explained'
  BY DEF Explained, Due, Found, Live

LEMMA AlwaysExplained == Spec => []Explained
  <1>1. Init => Explained
    BY DEF Init, Explained
  <1>2. Typed /\ Explained /\ [Next]_vars => Explained'
    <2>. SUFFICES ASSUME Typed, Explained, [Next]_vars PROVE Explained'
      OBVIOUS
    <2>1. ASSUME NEW r \in Requests, Begin(r) \/ Continue(r)
          PROVE  Explained'
      BY <2>1, SessionAssumption, ExplainedStep
    <2>2. ASSUME NEW u \in Users, SnapshotExpires(u)
          PROVE  Explained'
      BY <2>2, CacheKeepsExplained DEF SnapshotExpires, Typed
    <2>3. CASE CacheIsLost
      BY <2>3, CacheKeepsExplained DEF CacheIsLost
    <2>4. CASE UNCHANGED vars
      BY <2>4, CacheKeepsExplained DEF vars
    <2>. QED
      BY <2>1, <2>2, <2>3, <2>4 DEF Next
  <1>. QED
    BY <1>1, <1>2, AlwaysTyped, PTL DEF Spec

(* Requests see the user as last written, but for the two windows that     *)
(* ChangesShowAtOnce names.                                                *)
THEOREM ChangesAreSeen == Spec => []ChangesShowAtOnce
  <1>1. Explained => ChangesShowAtOnce
    BY DEF Explained, Due, ChangesShowAtOnce
  <1>. QED
    BY <1>1, AlwaysExplained, PTL

-----------------------------------------------------------------------------
(* Guards.  What a request nobody interfered with still has of them. *)

Guarded(t) ==
  IF t.kind = "delete"
  THEN user[t.target].role # "SUPER_ADMIN"
  ELSE /\ OnlyBySuperAdmin(t.role, user[t.target], t.change)
       /\ ~LocksItselfOut(t, user[t.target])

Caller(t) == Live(t.user) /\ user[t.user].isActive /\ user[t.user].role = t.role

EntitledTask(t) ==
  t # Idle /\ Administers(t) /\ t.fresh /\ t.op # "invalidate" =>
    /\ Caller(t)
    /\ t.op \in {"bump", "write"} => Guarded(t)

Entitled == \A r \in Requests : EntitledTask(task[r])

(* A handler that stays fresh has seen no write to its rows. *)
LEMMA OthersFresh ==
  ASSUME Typed, NEW r \in Requests, Begin(r) \/ Continue(r), NEW q \in Requests, q # r,
         task[q] # Idle, Administers(task[q]), task'[q].fresh
  PROVE  /\ task[q].fresh
         /\ user'[task[q].user] = user[task[q].user]
         /\ user'[task[q].target] = user[task[q].target]
  <1>1. "fresh" \in DOMAIN task[q] /\ task[q].user \in Users /\ task[q].target \in Users
    BY DEF Administers, Typed, InFlight
  <1>2. CASE task'[q] = task[q] /\ UNCHANGED user
    BY <1>2
  <1>3. ASSUME NEW t, task' = [task EXCEPT ![r] = t]
        PROVE  task'[q] = task[q]
    BY <1>3 DEF Typed
  <1>4. ASSUME NEW u, NEW row, NEW op, WriteUser(r, u, row, op)
        PROVE  /\ task[q].fresh
               /\ user'[task[q].user] = user[task[q].user]
               /\ user'[task[q].target] = user[task[q].target]
    <2>1. CASE u \in {task[q].user, task[q].target}
      <3>1. task'[q] = [task[q] EXCEPT !.fresh = FALSE]
        BY <1>4, <2>1 DEF WriteUser
      <3>. QED
        BY <1>1, <3>1
    <2>2. CASE u \notin {task[q].user, task[q].target}
      <3>1. task'[q] = task[q]
        BY <1>4, <2>2 DEF WriteUser
      <3>. QED
        BY <1>1, <1>4, <2>2, <3>1 DEF WriteUser, Typed
    <2>. QED
      BY <2>1, <2>2
  <1>5. ASSUME NEW parent, Issue(r, parent)
        PROVE  task'[q] = task[q] /\ UNCHANGED user
    <2>1. task[q].op # "rotate"
      BY DEF Administers, Wanted
    <2>. QED
      BY <1>5, <2>1 DEF Issue
  <1>6. CASE Begin(r)
    <2>1. ASSUME NEW t, Serve(r, t)
          PROVE  task'[q] = task[q]
      BY <1>3, <2>1 DEF Serve
    <2>. QED
      BY <1>2, <1>6, <2>1 DEF Begin, BeginLogin, BeginRefresh, BeginLogout, BeginRequest
  <1>7. ASSUME NEW op, Goto(r, op) \/ Answer(r)
        PROVE  task'[q] = task[q]
    BY <1>7 DEF Goto, Answer, Typed
  <1>8. CASE ClearOldSession(r) \/ BeginUpdate(r) \/ BeginDelete(r) \/ Invalidate(r)
    BY <1>2, <1>7, <1>8 DEF ClearOldSession, BeginUpdate, BeginDelete, Invalidate, Proceed
  <1>9. CASE IssueFirstPair(r) \/ Rotate(r)
    BY <1>2, <1>5, <1>9 DEF IssueFirstPair, Rotate
  <1>10. CASE CheckFamily(r) \/ LookUp(r) \/ KeepSnapshot(r)
    BY <1>2, <1>10 DEF CheckFamily, LookUp, KeepSnapshot, Typed
  <1>11. CASE Revoke(r) \/ CreateUser(r) \/ incrementTokenVersion(r) \/ WriteChange(r)
    BY <1>2, <1>4, <1>7, <1>11 DEF Revoke, CreateUser, incrementTokenVersion, WriteChange
  <1>. QED
    BY <1>6, <1>8, <1>9, <1>10, <1>11 DEF Continue

(* Requests let in with the row as it is. *)
LEMMA AdmittedEntitled ==
  ASSUME SessionAssumption, Typed, NEW p \in tokens, NEW row \in Row \cup {NoRow},
         NEW want \in Wants, NEW target \in Users, Admits(row, p.tokenVersion)
  PROVE  EntitledTask(Admitted(p, row, want, target))
  <1>. DEFINE t == Admitted(p, row, want, target)
  <1>1. /\ t.op = want.kind
        /\ t.user = p.user
        /\ t.role = row.role
        /\ t.fresh <=> row = Found(p.user)
    BY DEF Admitted
  <1>2. t.op \notin {"bump", "write"}
    BY <1>1, WantsAreWanted DEF Wanted
  <1>3. t.fresh => Caller(t)
    <2>. SUFFICES ASSUME row = Found(p.user) PROVE Caller(t)
      BY <1>1
    <2>1. Live(p.user) /\ row = user[p.user] /\ row.isActive
      BY DEF Found, Admits
    <2>. QED
      BY <1>1, <2>1 DEF Caller
  <1>. HIDE DEF t
  <1>. QED
    BY <1>2, <1>3 DEF EntitledTask, t

(* The same handler, further on, over rows that read the same to a guard. *)
LEMMA EntitledMoves ==
  ASSUME NEW t, NEW u, t # Idle, Administers(t), t.fresh, Caller(t), Guarded(t),
         u.kind = t.kind, u.change = t.change, u.user = t.user, u.target = t.target,
         u.role = t.role,
         \A x \in {t.user, t.target} :
           /\ user[x] # NoRow => user'[x] # NoRow
           /\ user'[x].role = user[x].role
           /\ user'[x].isActive <=> user[x].isActive
           /\ user'[x].isDeleted <=> user[x].isDeleted
  PROVE  /\ user'[u.user] # NoRow /\ ~user'[u.user].isDeleted
         /\ user'[u.user].isActive /\ user'[u.user].role = u.role
         /\ IF u.kind = "delete"
            THEN user'[u.target].role # "SUPER_ADMIN"
            ELSE /\ OnlyBySuperAdmin(u.role, user'[u.target], u.change)
                 /\ ~LocksItselfOut(u, user'[u.target])
  <1>1. /\ user'[u.user] # NoRow /\ ~user'[u.user].isDeleted
        /\ user'[u.user].isActive /\ user'[u.user].role = u.role
    BY DEF Caller, Live
  <1>. QED
    BY <1>1 DEF Guarded, OnlyBySuperAdmin, LocksItselfOut

LEMMA EntitledStep ==
  ASSUME SessionAssumption, Typed, Entitled, NEW r \in Requests, Begin(r) \/ Continue(r),
         NEW q \in Requests
  PROVE  EntitledTask(task[q])'
  <1>. SUFFICES ASSUME task'[q] # Idle, Administers(task[q])', task'[q].fresh,
                       task'[q].op # "invalidate"
                PROVE  /\ Caller(task[q])'
                       /\ task'[q].op \in {"bump", "write"} => Guarded(task[q])'
    BY DEF EntitledTask
  <1>1. CASE q # r
    <2>1. Same(task[q], task'[q])
      BY <1>1, OthersSame DEF Overtaken
    <2>2. /\ DOMAIN task[q] =
               {"op", "kind", "change", "user", "target", "role", "fresh"}
          /\ task'[q].op = task[q].op /\ task'[q].kind = task[q].kind
          /\ task'[q].change = task[q].change /\ task'[q].user = task[q].user
          /\ task'[q].target = task[q].target /\ task'[q].role = task[q].role
      BY <2>1 DEF Same, Administers
    <2>3. task[q] # Idle /\ InFlight(task[q])
      BY <2>1 DEF Same, Typed
    <2>4. Administers(task[q])
      BY <2>2, <2>3 DEF InFlight, Holder, LogsIn, Refreshes, Revokes, LooksUp, Keeps,
         Administers
    <2>5. /\ task[q].fresh
          /\ user'[task[q].user] = user[task[q].user]
          /\ user'[task[q].target] = user[task[q].target]
      BY <1>1, <2>3, <2>4, OthersFresh
    <2>6. /\ Caller(task[q])
          /\ task[q].op \in {"bump", "write"} => Guarded(task[q])
      BY <2>2, <2>3, <2>4, <2>5 DEF Entitled, EntitledTask
    <2>. QED
      BY <2>2, <2>5, <2>6 DEF Caller, Live, Guarded, OnlyBySuperAdmin, LocksItselfOut
  <1>2. CASE q = r /\ task'[r].op \in {"create", "update", "status", "delete"}
    <2>1. BeginRequest(r) \/ KeepSnapshot(r)
      BY <1>2, NextOp
    <2>2. EntitledTask(task'[r])
      <3>1. CASE BeginRequest(r)
        <4>1. PICK p \in tokens, target \in Users, want \in Wants :
                \/ task'[r].op = "lookup"
                \/ /\ snapshot[p.user] # NULL
                   /\ Admits(snapshot[p.user].row, p.tokenVersion)
                   /\ task'[r] = Admitted(p, snapshot[p.user].row, want, target)
          BY <3>1 DEF BeginRequest, Serve, Typed
        <4>2. CASE task'[r].op = "lookup"
          BY <1>2, <4>2
        <4>3. CASE task'[r].op # "lookup"
          <5>1. snapshot[p.user].row \in Row \cup {NoRow}
            BY <4>1, <4>3 DEF Typed, Pair
          <5>. QED
            BY <4>1, <4>3, <5>1, AdmittedEntitled
        <4>. QED
          BY <4>2, <4>3
      <3>2. CASE KeepSnapshot(r)
        <4>. DEFINE t == task[r]
        <4>1. InFlight(t) /\ Keeps(t)
          BY <3>2, NotIdle, KindOfTask DEF KeepSnapshot
        <4>2. /\ Admits(t.row, t.pair.tokenVersion)
              /\ task'[r] = Admitted(t.pair, t.row, t.want, t.target)
          BY <1>2, <3>2 DEF KeepSnapshot, Typed, Idle
        <4>. QED
          BY <4>1, <4>2, AdmittedEntitled DEF Keeps, InFlight
      <3>. QED
        BY <2>1, <3>1, <3>2
    <2>3. UNCHANGED user
      BY <2>1 DEF BeginRequest, KeepSnapshot
    <2>4. Administers(task'[r])
      BY <1>2, <2>3 DEF Administers, Exists
    <2>5. Caller(task'[r])
      BY <1>2, <2>2, <2>4 DEF EntitledTask
    <2>. QED
      BY <1>2, <2>3, <2>5 DEF Caller, Live
  <1>3. CASE q = r /\ (BeginUpdate(r) \/ BeginDelete(r))
    <2>. DEFINE t == task[r]
    <2>1. t # Idle /\ Administers(t) /\ t.op = t.kind /\ UNCHANGED user
      <3>1. t.op \in {"update", "status", "delete"}
        BY <1>3 DEF BeginUpdate, BeginDelete
      <3>. QED
        BY <1>3, <3>1, NotIdle, KindOfTask DEF Administers, BeginUpdate, BeginDelete
    <2>2. PICK op \in {"bump", "write"} : task'[r] = [t EXCEPT !.op = op]
      BY <1>3 DEF BeginUpdate, BeginDelete, Proceed, Goto, Answer, Typed
    <2>3. /\ task'[r].kind = t.kind /\ task'[r].change = t.change
          /\ task'[r].user = t.user /\ task'[r].target = t.target
          /\ task'[r].role = t.role /\ (task'[r].fresh <=> t.fresh)
      BY <2>1, <2>2 DEF Administers
    <2>4. Guarded(t)
      BY <1>3, <2>1 DEF BeginUpdate, BeginDelete, Proceed, Answer, Guarded, Typed
    <2>5. Caller(t)
      BY <1>3, <2>1, <2>3 DEF Entitled, EntitledTask, BeginUpdate, BeginDelete
    <2>. QED
      BY <1>3, <2>1, <2>3, <2>4, <2>5 DEF Caller, Live, Guarded, OnlyBySuperAdmin,
         LocksItselfOut
  <1>4. CASE q = r /\ incrementTokenVersion(r)
    <2>. DEFINE t == task[r]
                u == task'[r]
    <2>1. t.op = "bump" /\ t # Idle /\ Administers(t) /\ InFlight(t)
      BY <1>4, NotIdle, KindOfTask DEF incrementTokenVersion
    <2>2. WriteUser(r, t.target, Bumped(t.target), "write")
      BY <1>4 DEF incrementTokenVersion, Answer, Typed
    <2>3. u = [t EXCEPT !.op = "write"] /\ user' = [user EXCEPT ![t.target] = Bumped(t.target)]
      BY <2>2 DEF WriteUser
    <2>4. /\ u.kind = t.kind /\ u.change = t.change
          /\ u.user = t.user /\ u.target = t.target
          /\ u.role = t.role /\ (u.fresh <=> t.fresh)
      BY <2>1, <2>3 DEF Administers
    <2>5. Caller(t) /\ Guarded(t)
      BY <1>4, <2>1, <2>4 DEF Entitled, EntitledTask
    <2>6. t.target \in Users /\ t.user \in Users /\ Exists(t.target)
      BY <2>1 DEF InFlight, Administers, Wanted
    <2>7. ASSUME NEW x \in {t.user, t.target}
          PROVE  /\ user[x] # NoRow => user'[x] # NoRow
                 /\ user'[x].role = user[x].role
                 /\ user'[x].isActive <=> user[x].isActive
                 /\ user'[x].isDeleted <=> user[x].isDeleted
      BY <2>3, <2>6, BumpedIsRow, NoRowIsNoRow DEF Typed
    <2>. QED
      BY <1>4, <2>1, <2>4, <2>5, <2>7, EntitledMoves DEF Caller, Live, Guarded
  <1>5. task'[r].op \in {"create", "update", "status", "delete"} \/ BeginUpdate(r)
        \/ BeginDelete(r) \/ incrementTokenVersion(r) \/ q # r
    <2>1. q = r => task'[r].op \in {"create", "update", "status", "delete", "bump", "write"}
      BY DEF Administers, Wanted
    <2>. QED
      BY <2>1, NextOp
  <1>. QED
    BY <1>1, <1>2, <1>3, <1>4, <1>5

LEMMA AlwaysEntitled == Spec => []Entitled
  <1>1. Init => Entitled
    BY DEF Init, Entitled, EntitledTask
  <1>2. Typed /\ Entitled /\ [Next]_vars => Entitled'
    <2>. SUFFICES ASSUME Typed, Entitled, [Next]_vars PROVE Entitled'
      OBVIOUS
    <2>1. ASSUME NEW r \in Requests, Begin(r) \/ Continue(r)
          PROVE  Entitled'
      BY <2>1, SessionAssumption, EntitledStep DEF Entitled
    <2>2. CASE UNCHANGED <<user, task>>
      BY <2>2 DEF Entitled, EntitledTask, Caller, Guarded, Live, Administers, Exists
    <2>. QED
      BY <2>1, <2>2 DEF Next, SnapshotExpires, CacheIsLost, vars
  <1>. QED
    BY <1>1, <1>2, AlwaysTyped, PTL DEF Spec

(* What an entitled write leaves of the super admins. *)
LEMMA WriteSparesOne ==
  ASSUME SessionAssumption, Typed, Entitled, NEW r \in Requests, WriteChange(r),
         task[r].fresh, SuperAdmins # {}
  PROVE  SuperAdmins' # {}
  <1>. DEFINE t == task[r]
              new == Changed(user[t.target], t.change)
  <1>1. /\ t # Idle /\ t.op = "write" /\ InFlight(t) /\ Administers(t)
        /\ t.kind # "create" /\ t.target \in Users /\ user[t.target] \in Row
        /\ \/ Answer(r) /\ UNCHANGED user
           \/ WriteUser(r, t.target, new, "invalidate")
    BY WriteChangeStep
  <1>2. CASE UNCHANGED user
    BY <1>2 DEF SuperAdmins, Live
  <1>3. CASE WriteUser(r, t.target, new, "invalidate")
    <2>1. user' = [user EXCEPT ![t.target] = new]
      BY <1>3 DEF WriteUser
    <2>2. Caller(t) /\ Guarded(t) /\ t.user \in Users
      BY <1>1 DEF Entitled, EntitledTask, InFlight
    <2>3. ASSUME NEW x \in SuperAdmins, x # t.target
          PROVE  SuperAdmins' # {}
      <3>1. x \in Users /\ user'[x] = user[x]
        BY <2>1, <2>3 DEF SuperAdmins, Typed
      <3>2. x \in SuperAdmins'
        BY <3>1 DEF SuperAdmins, Live
      <3>. QED
        BY <3>2
    <2>4. CASE user[t.target].role # "SUPER_ADMIN"
      BY <2>3, <2>4 DEF SuperAdmins
    <2>5. CASE user[t.target].role = "SUPER_ADMIN"
      <3>1. /\ t.kind # "delete" /\ t.role = "SUPER_ADMIN"
            /\ ~LocksItselfOut(t, user[t.target])
        BY <2>2, <2>5 DEF Guarded, OnlyBySuperAdmin
      <3>2. t.user \in SuperAdmins
        BY <2>2, <3>1 DEF Caller, SuperAdmins
      <3>3. CASE t.user # t.target
        BY <2>3, <3>2, <3>3
      <3>4. CASE t.user = t.target
        <4>1. /\ "isActive" \in DOMAIN t.change => t.change.isActive
              /\ "role" \in DOMAIN t.change => t.change.role = "SUPER_ADMIN"
          BY <2>5, <3>1, <3>4 DEF LocksItselfOut
        <4>2. "isDeleted" \notin DOMAIN t.change
          BY <1>1, <3>1 DEF Administers, Wanted
        <4>3. /\ Live(t.target) /\ user[t.target].isActive
          BY <2>2, <3>4 DEF Caller
        <4>4. /\ new \in Row
              /\ new.role = "SUPER_ADMIN" /\ new.isActive /\ ~new.isDeleted
          BY <1>1, <2>5, <4>1, <4>2, <4>3, ChangedIsRow DEF Administers, Live
        <4>5. user'[t.target] = new
          BY <1>1, <2>1 DEF Typed
        <4>6. t.target \in SuperAdmins'
          BY <1>1, <4>4, <4>5, NoRowIsNoRow DEF SuperAdmins, Live
        <4>. QED
          BY <4>6
      <3>. QED
        BY <3>3, <3>4
    <2>. QED
      BY <2>4, <2>5
  <1>. QED
    BY <1>1, <1>2, <1>3

(* Guards of requests that nothing interfered with leave a super admin.    *)
THEOREM OneSuperAdminRemains == Spec => LastSuperAdminStays
  <1>. DEFINE Spares ==
         \A r \in Requests :
           /\ task[r].op = "write"
           /\ task'[r].op # "write"
           /\ task[r].fresh
           /\ SuperAdmins # {}
           => SuperAdmins' # {}
  <1>1. Typed /\ Entitled /\ [Next]_vars => [Spares]_vars
    <2>. SUFFICES ASSUME Typed, Entitled, Next,
                         NEW r \in Requests, task[r].op = "write", task'[r].op # "write",
                         task[r].fresh, SuperAdmins # {}
                  PROVE  SuperAdmins' # {}
      OBVIOUS
    <2>1. CASE UNCHANGED task
      BY <2>1
    <2>2. ASSUME NEW s \in Requests, Begin(s) \/ Continue(s), s # r
          PROVE  FALSE
      <3>1. task[r] # Idle /\ Administers(task[r])
        BY NotIdle, KindOfTask
      <3>2. Same(task[r], task'[r])
        BY <2>2, <3>1, OthersSame DEF Overtaken
      <3>. QED
        BY <3>1, <3>2 DEF Same, Administers
    <2>3. CASE Begin(r) \/ Continue(r)
      BY <2>3, SessionAssumption, ActionOfOp, WriteSparesOne
    <2>. QED
      BY <2>1, <2>2, <2>3 DEF Next, SnapshotExpires, CacheIsLost
  <1>. QED
    BY <1>1, AlwaysTyped, AlwaysEntitled, PTL DEF Spec, LastSuperAdminStays

-----------------------------------------------------------------------------
(* Pairs.  Ids grow, so nothing has yet been bought with the latest one. *)

Unspent(u, jti) == \A p \in PairsOf(u) : p.parent # jti

KnownJti(u, jti) == jti < NextJti(u)

ChainedTask(t) ==
  t # Idle /\ Refreshes(t) =>
    /\ KnownJti(t.user, t.jti)
    /\ t.op = "rotate" /\ t.fresh => Unspent(t.user, t.jti)

Chained ==
  /\ \A p \in tokens :
       /\ KnownJti(p.user, p.jti)
       /\ p.parent # NULL => KnownJti(p.user, p.parent)
  /\ \A u \in Users : family[u] # NULL => Unspent(u, family[u].current)
  /\ \A r \in Requests : ChainedTask(task[r])

LEMMA PairsCounted ==
  ASSUME NEW u
  PROVE  NextJti(u) = Cardinality(PairsOf(u))
  BY DEF NextJti, PairsOf

(* Steps that issue nothing. *)
LEMMA JtiStays ==
  ASSUME UNCHANGED tokens, NEW u
  PROVE  /\ NextJti(u)' = NextJti(u)
         /\ PairsOf(u)' = PairsOf(u)
  BY DEF NextJti, PairsOf

LEMMA OthersStay ==
  ASSUME Typed, NEW r \in Requests, Begin(r) \/ Continue(r), NEW q \in Requests, q # r,
         task[q] # Idle
  PROVE  task'[q] = task[q] \/ ~task'[q].fresh
  <1>1. "fresh" \in DOMAIN task[q]
    BY DEF Typed, InFlight, Holder, LogsIn, Refreshes, Revokes, LooksUp, Keeps, Administers
  <1>2. ASSUME NEW t, task' = [task EXCEPT ![r] = t]
        PROVE  task'[q] = task[q]
    BY <1>2 DEF Typed
  <1>3. ASSUME NEW u, NEW row, NEW op, WriteUser(r, u, row, op)
        PROVE  task'[q] = task[q] \/ ~task'[q].fresh
    <2>1. task'[q] \in {task[q], [task[q] EXCEPT !.fresh = FALSE]}
      BY <1>3 DEF WriteUser
    <2>. QED
      BY <1>1, <2>1
  <1>4. ASSUME NEW parent, Issue(r, parent)
        PROVE  task'[q] = task[q] \/ ~task'[q].fresh
    <2>1. task'[q] \in {task[q], [task[q] EXCEPT !.fresh = FALSE]}
      BY <1>4 DEF Issue
    <2>. QED
      BY <1>1, <2>1
  <1>5. CASE Begin(r)
    <2>1. ASSUME NEW t, Serve(r, t)
          PROVE  task'[q] = task[q]
      BY <1>2, <2>1 DEF Serve
    <2>. QED
      BY <1>5, <2>1 DEF Begin, BeginLogin, BeginRefresh, BeginLogout, BeginRequest
  <1>6. ASSUME NEW op, Goto(r, op) \/ Answer(r)
        PROVE  task'[q] = task[q]
    BY <1>6 DEF Goto, Answer, Typed
  <1>7. CASE ClearOldSession(r) \/ BeginUpdate(r) \/ BeginDelete(r) \/ Invalidate(r)
    BY <1>6, <1>7 DEF ClearOldSession, BeginUpdate, BeginDelete, Invalidate, Proceed
  <1>8. CASE IssueFirstPair(r) \/ Rotate(r)
    BY <1>4, <1>8 DEF IssueFirstPair, Rotate
  <1>9. CASE CheckFamily(r) \/ LookUp(r) \/ KeepSnapshot(r)
    BY <1>9 DEF CheckFamily, LookUp, KeepSnapshot, Typed
  <1>10. CASE Revoke(r) \/ CreateUser(r) \/ incrementTokenVersion(r) \/ WriteChange(r)
    BY <1>3, <1>6, <1>10 DEF Revoke, CreateUser, incrementTokenVersion, WriteChange
  <1>. QED
    BY <1>5, <1>7, <1>8, <1>9, <1>10 DEF Continue

(* The next id of a user is taken by no pair yet, and parents lie below. *)
LEMMA IssueCounts ==
  ASSUME SessionAssumption, Typed, Chained, NEW r \in Requests,
         NEW parent \in Nat \cup {NULL}, task[r] # Idle, Holder(task[r]), Issue(r, parent),
         NEW u0, u0 = task[r].user, NEW p, p = NewPair(task[r], parent)
  PROVE  /\ NextJti(u0)' = NextJti(u0) + 1
         /\ PairsOf(u0)' = PairsOf(u0) \cup {p}
         /\ \A u \in Users \ {u0} : NextJti(u)' = NextJti(u) /\ PairsOf(u)' = PairsOf(u)
  <1>1. /\ p \in Pair
        /\ p.user = u0
        /\ tokens' = tokens \cup {p}
        /\ u0 \in Users
        /\ NextJti(u0) \in Nat
    BY IssueStep
  <1>2. p.jti = NextJti(u0)
    BY DEF NewPair
  <1>3. PairsOf(u0)' = PairsOf(u0) \cup {p}
    BY <1>1 DEF PairsOf
  <1>4. p \notin PairsOf(u0)
    BY <1>1, <1>2 DEF PairsOf, Chained, KnownJti
  <1>5. Cardinality(PairsOf(u0)') = Cardinality(PairsOf(u0)) + 1
    <2>1. IsFiniteSet(PairsOf(u0))
      BY <1>1 DEF Typed
    <2>. QED
      BY <1>3, <1>4, <2>1, FS_AddElement
  <1>6. NextJti(u0)' = NextJti(u0) + 1
    BY <1>5 DEF NextJti, PairsOf
  <1>7. ASSUME NEW u \in Users \ {u0}
        PROVE  NextJti(u)' = NextJti(u) /\ PairsOf(u)' = PairsOf(u)
    <2>1. PairsOf(u)' = PairsOf(u)
      BY <1>1 DEF PairsOf
    <2>. QED
      BY <2>1 DEF NextJti, PairsOf
  <1>. QED
    BY <1>3, <1>6, <1>7

LEMMA IssueChained ==
  ASSUME SessionAssumption, Typed, Chained, NEW r \in Requests,
         NEW parent \in Nat \cup {NULL}, task[r] # Idle, Holder(task[r]), Issue(r, parent),
         parent # NULL => KnownJti(task[r].user, parent)
  PROVE  Chained'
  <1>. PICK u0, p : u0 = task[r].user /\ p = NewPair(task[r], parent)
    OBVIOUS
  <1>1. /\ p \in Pair
        /\ p.user = u0
        /\ tokens' = tokens \cup {p}
        /\ u0 \in Users
        /\ NextJti(u0) \in Nat
    BY IssueStep
  <1>2. p.jti = NextJti(u0) /\ p.parent = parent
    BY DEF NewPair
  <1>3. /\ NextJti(u0)' = NextJti(u0) + 1
        /\ PairsOf(u0)' = PairsOf(u0) \cup {p}
        /\ \A u \in Users \ {u0} : NextJti(u)' = NextJti(u) /\ PairsOf(u)' = PairsOf(u)
    BY IssueCounts
  <1>4. \A u \in Users : NextJti(u) \in Nat
    BY JtiIsNat
  <1>5. \A u \in Users : \A n \in Nat : n < NextJti(u) => n < NextJti(u)'
    BY <1>3, <1>4
  <1>6. ASSUME NEW x \in tokens'
        PROVE  /\ KnownJti(x.user, x.jti)'
               /\ x.parent # NULL => KnownJti(x.user, x.parent)'
    <2>1. CASE x = p
      BY <1>1, <1>2, <1>3, <2>1 DEF KnownJti
    <2>2. CASE x \in tokens
      <3>1. /\ x.user \in Users /\ x.jti \in Nat /\ x.parent \in Nat \cup {NULL}
            /\ x.jti < NextJti(x.user)
            /\ x.parent # NULL => x.parent < NextJti(x.user)
        BY <2>2 DEF Chained, KnownJti, Typed, Pair
      <3>. QED
        BY <1>5, <3>1 DEF KnownJti
    <2>. QED
      BY <1>1, <2>1, <2>2
  <1>7. ASSUME NEW u \in Users, family'[u] # NULL
        PROVE  \A x \in PairsOf(u)' : x.parent # family'[u].current
    <2>1. CASE u = u0
      <3>1. family'[u].current = NextJti(u0)
        BY <2>1 DEF Issue, Typed
      <3>2. ASSUME NEW x \in PairsOf(u0)'
            PROVE  x.parent # NextJti(u0)
        <4>1. CASE x = p
          BY <1>1, <1>2, <4>1 DEF KnownJti, SessionAssumption
        <4>2. CASE x \in PairsOf(u0)
          BY <1>1, <4>2 DEF PairsOf, Chained, KnownJti, SessionAssumption
        <4>. QED
          BY <1>3, <4>1, <4>2
      <3>. QED
        BY <2>1, <3>1, <3>2
    <2>2. CASE u # u0
      <3>1. family'[u] = family[u]
        BY <2>2 DEF Issue, Typed
      <3>. QED
        BY <1>3, <1>7, <2>2, <3>1 DEF Chained, Unspent
    <2>. QED
      BY <2>1, <2>2
  <1>8. ASSUME NEW q \in Requests, NEW u, u = task'[q], u # Idle, Refreshes(u)
        PROVE  /\ KnownJti(u.user, u.jti)'
               /\ u.op = "rotate" /\ u.fresh => Unspent(u.user, u.jti)'
    <2>1. q # r
      BY <1>8 DEF Issue
    <2>2. PICK t : t = task[q]
      OBVIOUS
    <2>3. \/ u = t /\ ~(t.op = "rotate" /\ t.user = u0)
          \/ /\ t.op = "rotate" /\ t.user = u0
             /\ u = [t EXCEPT !.fresh = FALSE]
      BY <1>8, <2>1, <2>2 DEF Issue
    <2>4. t # Idle
      BY <1>8, <2>2, <2>3, NotIdle
    <2>5. InFlight(t) /\ (t.op = "rotate" => Refreshes(t))
      BY <2>2, <2>4, KindOfTask
    <2>6. /\ Refreshes(t)
          /\ u.user = t.user /\ u.jti = t.jti
          /\ u.op = t.op
          /\ u.op = "rotate" /\ u.fresh => t.fresh /\ t.user # u0
      BY <1>8, <2>3, <2>5 DEF Refreshes
    <2>7. /\ t.user \in Users /\ t.jti \in Nat
          /\ t.jti < NextJti(t.user)
          /\ t.op = "rotate" /\ t.fresh => Unspent(t.user, t.jti)
      BY <2>2, <2>4, <2>5, <2>6 DEF Chained, ChainedTask, KnownJti, InFlight, Refreshes
    <2>8. KnownJti(u.user, u.jti)'
      BY <1>5, <2>6, <2>7 DEF KnownJti
    <2>9. u.op = "rotate" /\ u.fresh => Unspent(u.user, u.jti)'
      BY <1>3, <2>6, <2>7 DEF Unspent
    <2>. QED
      BY <2>8, <2>9
  <1>9. ASSUME NEW q \in Requests
        PROVE  ChainedTask(task[q])'
    BY <1>8 DEF ChainedTask, Refreshes
  <1>10. ASSUME NEW u \in Users, family'[u] # NULL
         PROVE  Unspent(u, family[u].current)'
    BY <1>7, <1>10 DEF Unspent
  <1>. QED
    BY <1>6, <1>9, <1>10 DEF Chained

LEMMA QuietChained ==
  ASSUME Typed, Chained, UNCHANGED tokens,
         \A u \in Users : family'[u] \in {family[u], NULL},
         \A q \in Requests : \A t : t = task'[q] => ChainedTask(t)
  PROVE  Chained'
  <1>1. \A u : NextJti(u)' = NextJti(u) /\ PairsOf(u)' = PairsOf(u)
    BY JtiStays
  <1>2. ASSUME NEW p \in tokens'
        PROVE  /\ KnownJti(p.user, p.jti)'
               /\ p.parent # NULL => KnownJti(p.user, p.parent)'
    BY <1>1 DEF Chained, KnownJti
  <1>3. ASSUME NEW u \in Users, family'[u] # NULL
        PROVE  Unspent(u, family[u].current)'
    BY <1>1, <1>3 DEF Chained, Unspent
  <1>4. ASSUME NEW q \in Requests, NEW t, t = task'[q], t # Idle, Refreshes(t)
        PROVE  /\ KnownJti(t.user, t.jti)'
               /\ t.op = "rotate" /\ t.fresh => Unspent(t.user, t.jti)'
    BY <1>1, <1>4 DEF ChainedTask, KnownJti, Unspent
  <1>5. ASSUME NEW q \in Requests
        PROVE  ChainedTask(task[q])'
    BY <1>4 DEF ChainedTask, Refreshes
  <1>. QED
    BY <1>2, <1>3, <1>5 DEF Chained

LEMMA ChainedStep ==
  ASSUME SessionAssumption, Typed, Chained, NEW r \in Requests, Begin(r) \/ Continue(r)
  PROVE  Chained'
  <1>1. CASE IssueFirstPair(r)
    <2>1. task[r] # Idle /\ Holder(task[r]) /\ Issue(r, NULL)
      BY <1>1, NotIdle, KindOfTask DEF IssueFirstPair
    <2>. QED
      BY <2>1, IssueChained
  <1>2. CASE Rotate(r)
    <2>1. task[r] # Idle /\ Holder(task[r]) /\ Refreshes(task[r]) /\ Issue(r, task[r].jti)
      BY <1>2, NotIdle, KindOfTask DEF Rotate
    <2>2. task[r].jti \in Nat /\ KnownJti(task[r].user, task[r].jti)
      BY <2>1 DEF Refreshes, Chained, ChainedTask
    <2>. QED
      BY <2>1, <2>2, IssueChained
  <1>3. CASE ~(IssueFirstPair(r) \/ Rotate(r))
    <2>1. UNCHANGED tokens
      BY <1>3 DEF Begin, BeginLogin, BeginRefresh, BeginLogout, BeginRequest, Continue,
         ClearOldSession, CheckFamily, Revoke, LookUp, KeepSnapshot, CreateUser,
         BeginUpdate, BeginDelete, incrementTokenVersion, WriteChange, Invalidate
    <2>2. \A u \in Users : family'[u] \in {family[u], NULL}
      <3>1. CASE ClearOldSession(r) \/ Invalidate(r)
        BY <3>1, SessionsCleared DEF ClearOldSession, Invalidate
      <3>2. CASE ~(ClearOldSession(r) \/ Invalidate(r))
        BY <1>3, <3>2 DEF Begin, BeginLogin, BeginRefresh, BeginLogout, BeginRequest,
           Continue, CheckFamily, Revoke, LookUp, KeepSnapshot, CreateUser, BeginUpdate,
           BeginDelete, incrementTokenVersion, WriteChange
      <3>. QED
        BY <3>1, <3>2
    <2>3. ASSUME NEW q \in Requests, NEW t, t = task'[q], t # Idle, Refreshes(t)
          PROVE  /\ KnownJti(t.user, t.jti)
                 /\ t.op = "rotate" /\ t.fresh => Unspent(t.user, t.jti)
      <3>1. CASE q # r
        <4>1. Same(task[q], t)
          BY <2>3, <3>1, OthersSame DEF Overtaken
        <4>2. /\ Refreshes(task[q])
              /\ t.user = task[q].user /\ t.jti = task[q].jti /\ t.op = task[q].op
          BY <2>3, <4>1 DEF Same, Refreshes
        <4>3. t.fresh => task[q].fresh
          BY <2>3, <3>1, <4>1, OthersStay DEF Same
        <4>. QED
          BY <4>1, <4>2, <4>3 DEF Same, Chained, ChainedTask
      <3>2. CASE q = r
        <4>1. BeginLogin(r) \/ BeginRefresh(r) \/ ClearOldSession(r) \/ CheckFamily(r)
          BY <2>3, <3>2, NextOp DEF Refreshes
        <4>2. CASE BeginLogin(r) \/ ClearOldSession(r)
          <5>1. CASE BeginLogin(r)
            BY <2>3, <3>2, <5>1 DEF BeginLogin, Serve, Typed, Refreshes
          <5>2. CASE ClearOldSession(r)
            <6>1. LogsIn(task[r])
              BY <5>2, NotIdle, KindOfTask DEF ClearOldSession
            <6>. QED
              BY <2>3, <3>2, <5>2, <6>1 DEF ClearOldSession, Goto, Typed, Refreshes, LogsIn
          <5>. QED
            BY <4>2, <5>1, <5>2
        <4>3. CASE BeginRefresh(r)
          <5>1. PICK p \in tokens :
                  t = [op |-> "family", user |-> p.user, target |-> p.user,
                       row |-> user[p.user], password |-> p.password,
                       early |-> p.early, jti |-> p.jti, fresh |-> TRUE]
            BY <2>3, <3>2, <4>3 DEF BeginRefresh, Serve, Typed
          <5>. QED
            BY <5>1 DEF Chained
        <4>4. CASE CheckFamily(r)
          <5>. DEFINE f == family[task[r].user]
          <5>1. /\ task[r] # Idle /\ Refreshes(task[r]) /\ InFlight(task[r])
            BY <4>4, NotIdle, KindOfTask DEF CheckFamily
          <5>2. /\ t.user = task[r].user /\ t.jti = task[r].jti
                /\ t.op = "rotate" => ~Reused(f, task[r].jti)
                /\ t.fresh <=> f # NULL
            BY <2>3, <3>2, <4>4, <5>1 DEF CheckFamily, Typed, Refreshes
          <5>3. KnownJti(t.user, t.jti)
            BY <5>1, <5>2 DEF Chained, ChainedTask
          <5>4. t.op = "rotate" /\ t.fresh => Unspent(t.user, t.jti)
            BY <5>1, <5>2 DEF Reused, Chained, InFlight
          <5>. QED
            BY <5>3, <5>4
        <4>. QED
          BY <4>1, <4>2, <4>3, <4>4
      <3>. QED
        BY <3>1, <3>2
    <2>. QED
      BY <2>1, <2>2, <2>3, QuietChained DEF ChainedTask
  <1>. QED
    BY <1>1, <1>2, <1>3

LEMMA InitChained ==
  ASSUME SessionAssumption, InitialUsersAssumption, Init
  PROVE  Chained
  <1>1. Typed
    BY InitTyped
  <1>2. \A p \in tokens : p.jti = 0 /\ p.parent = NULL /\ p.user \in Users
    BY DEF Init
  <1>3. ASSUME NEW p \in tokens
        PROVE  KnownJti(p.user, p.jti)
    <2>1. p \in PairsOf(p.user) /\ IsFiniteSet(PairsOf(p.user))
      BY <1>1, <1>2 DEF PairsOf, Typed
    <2>2. NextJti(p.user) # 0
      BY <2>1, FS_EmptySet, PairsCounted
    <2>3. NextJti(p.user) \in Nat
      BY <1>1, <1>2, JtiIsNat
    <2>. QED
      BY <1>2, <2>2, <2>3 DEF KnownJti
  <1>4. ASSUME NEW u \in Users, family[u] # NULL
        PROVE  Unspent(u, family[u].current)
    <2>1. family[u].current = 0
      BY <1>4 DEF Init
    <2>2. NULL # 0
      BY DEF SessionAssumption
    <2>. QED
      BY <1>2, <2>1, <2>2 DEF Unspent, PairsOf
  <1>5. \A r \in Requests : task[r] = Idle
    BY DEF Init
  <1>. QED
    BY <1>2, <1>3, <1>4, <1>5 DEF Chained, ChainedTask

LEMMA AlwaysChained == Spec => []Chained
  <1>1. Init => Chained
    BY SessionAssumption, InitialUsersAssumption, InitChained
  <1>2. Typed /\ Chained /\ [Next]_vars => Chained'
    <2>. SUFFICES ASSUME Typed, Chained, [Next]_vars PROVE Chained'
      OBVIOUS
    <2>1. ASSUME NEW r \in Requests, Begin(r) \/ Continue(r)
          PROVE  Chained'
      BY <2>1, SessionAssumption, ChainedStep
    <2>2. ASSUME UNCHANGED <<tokens, task>>,
                 \A u \in Users : family'[u] \in {family[u], NULL}
          PROVE  Chained'
      BY <2>2, QuietChained DEF Chained
    <2>. QED
      BY <2>1, <2>2 DEF Next, SnapshotExpires, CacheIsLost, vars
  <1>. QED
    BY <1>1, <1>2, AlwaysTyped, PTL DEF Spec

(* A refresh token buys one pair, unless rotations raced or the family was *)
(* not in the cache.                                                       *)
THEOREM TokensAreSpentOnce == Spec => SpentTokensBuyNothing
  <1>. DEFINE Once ==
         \A r \in Requests :
           task[r].op = "rotate" /\ task'[r] = Idle /\ task[r].fresh =>
             \A p \in tokens : p.user = task[r].user => p.parent # task[r].jti
  <1>1. Typed /\ Chained => Once
    <2>. SUFFICES ASSUME Typed, Chained, NEW r \in Requests, task[r].op = "rotate",
                         task[r].fresh, NEW p \in tokens, p.user = task[r].user
                  PROVE  p.parent # task[r].jti
      OBVIOUS
    <2>1. task[r] # Idle /\ Refreshes(task[r])
      BY NotIdle, KindOfTask
    <2>. QED
      BY <2>1 DEF Chained, ChainedTask, Unspent, PairsOf
  <1>2. Typed /\ Chained /\ [Next]_vars => [Once]_vars
    BY <1>1
  <1>. QED
    BY <1>2, AlwaysTyped, AlwaysChained, PTL DEF Spec, SpentTokensBuyNothing

(* Every row, pair, family and snapshot has its type. *)
THEOREM TypesHold == Spec => []TypeOK
  <1>1. Typed => TypeOK
    BY DEF Typed, TypeOK
  <1>. QED
    BY <1>1, AlwaysTyped, PTL

=============================================================================

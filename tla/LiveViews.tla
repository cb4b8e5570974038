----------------------------- MODULE LiveViews -----------------------------
(***************************************************************************)
(* What the dashboards see: the cached lists of cache.ts, the realtime hub *)
(* of realtime.ts with its SSE streams, and notification.service.ts, which *)
(* uses both: it writes a row, drops the cached lists and publishes.       *)
(*                                                                         *)
(* Several processes may serve.  Each has a store and a hub of its own;    *)
(* those connected to Redis keep the lists there instead, until a call     *)
(* fails once: from then on that process uses its own store.               *)
(***************************************************************************)
EXTENDS Integers, FiniteSets

CONSTANTS
  Processes, Branches,
  Keys,               \* the cached lists: [kind, scope]
  Clients,            \* browsers that may hold an event stream,
  ScopeOf, HubOf,     \* the scope of the user of each, and the process that serves it
  MaxRequests,        \* bound: handlers in flight at the same time
  MaxNotifications,   \* bound: notifications created
  MaxWrites,          \* bound: requests that write
  NULL

Scopes == {"all"} \cup Branches
Ids == 1..MaxNotifications
Requests == 1..MaxRequests

ASSUME LiveViewsAssumption ==
  /\ Keys \subseteq [kind : {"list", "unread"}, scope : Scopes]
  /\ ScopeOf \in [Clients -> Scopes]
  /\ HubOf \in [Clients -> Processes]
  /\ MaxRequests \in Nat
  /\ MaxNotifications \in Nat
  /\ MaxWrites \in Nat
  /\ "all" \notin Branches
  /\ "redis" \notin Processes
  /\ NULL \notin {"all", "redis"}

VARIABLES
  notification,  \* notification[id]: its row, NULL before it is created
  store,         \* store[s][k]: what store s keeps under key k
  mode,          \* mode[p]: the store process p uses, and whether it connects
  stream,        \* stream[c]: the event stream of client c
  published,     \* notifications whose event is out
  task,          \* task[r]: the handler running in slot r
  writes         \* writing requests begun

vars == <<notification, store, mode, stream, published, task, writes>>

Stores == Processes \cup {"redis"}
Gone == [read |-> TRUE]  \* what is left of a deleted row
Row == [branch : Branches, read : BOOLEAN]

ASSUME RowAssumption == NULL \notin Row \cup {Gone}

Exists(id) == notification[id] \notin {NULL, Gone}
Idle == [op |-> "idle"]

(* branchScope: managers only see their own branch. *)
Sees(scope, branch) == scope \in {"all", branch}
InScope(scope) == {id \in Ids : Exists(id) /\ Sees(scope, notification[id].branch)}
Unread(scope) == {id \in InScope(scope) : ~notification[id].read}

(* What the fetcher of a key reads. *)
Fetch(k) ==
  IF k.kind = "unread" THEN Cardinality(Unread(k.scope))
  ELSE {<<id, notification[id].read>> : id \in InScope(k.scope)}

TypeOK ==
  /\ \A id \in Ids :
       notification[id] \in Row \cup {NULL, Gone}
  /\ \A s \in Stores, k \in Keys :
       store[s][k] # NULL => store[s][k].late \in BOOLEAN
  /\ mode \in [Processes -> {"connecting", "redis", "own"}]
  /\ stream \in [Clients -> {"none", "registered", "open", "leaving", "closed"}]
  /\ published \subseteq Ids

(* Without REDIS_URL no process connects. *)
Init ==
  /\ notification = [id \in Ids |-> NULL]
  /\ store = [s \in Stores |-> [k \in Keys |-> NULL]]
  /\ mode \in {[p \in Processes |-> m] : m \in {"connecting", "own"}}
  /\ stream = [c \in Clients |-> "none"]
  /\ published = {}
  /\ task = [r \in Requests |-> Idle]
  /\ writes = 0

-----------------------------------------------------------------------------
(* cache.ts *)

Connect(p) ==
  /\ mode[p] = "connecting"
  /\ \E m \in {"redis", "own"} : mode' = [mode EXCEPT ![p] = m]
  /\ UNCHANGED <<notification, store, stream, published, task, writes>>

(* A call of process p works on the stores S.  One that fails on Redis is  *)
(* done again on the process's own store; Redis may have carried it out.   *)
Reaches(p, S) ==
  \/ mode[p] = "redis" /\ S = {"redis"} /\ UNCHANGED mode
  \/ mode[p] # "redis" /\ S = {p} /\ UNCHANGED mode
  \/ /\ mode[p] = "redis"
     /\ S \in {{p}, {p, "redis"}}
     /\ mode' = [mode EXCEPT ![p] = "own"]

(* The first free slot is taken. *)
Free(r) == task[r] = Idle /\ \A q \in Requests : q < r => task[q] # Idle

Goto(r, op) == task' = [task EXCEPT ![r].op = op]
Answer(r) == task' = [task EXCEPT ![r] = Idle]

(* withCache: a hit answers at once. *)
BeginRead(r) ==
  /\ Free(r)
  /\ \E p \in Processes, k \in Keys, S \in SUBSET Stores :
       /\ Reaches(p, S)
       /\ LET s == IF S = {"redis"} THEN "redis" ELSE p
          IN  task' = [task EXCEPT ![r] =
                IF store[s][k] # NULL THEN Idle
                ELSE [op |-> "fetch", process |-> p, key |-> k]]
  /\ UNCHANGED <<notification, store, stream, published, writes>>

FetchRows(r) ==
  LET t == task[r]
  IN  /\ t.op = "fetch"
      /\ task' = [task EXCEPT ![r] =
           [op |-> "keep", process |-> t.process, key |-> t.key, value |-> Fetch(t.key)]]
      /\ UNCHANGED <<notification, store, mode, stream, published, writes>>

(* late: the rows were written between the two. *)
KeepRows(r) ==
  LET t == task[r]
      entry == [value |-> t.value, late |-> t.value # Fetch(t.key)]
  IN  /\ t.op = "keep"
      /\ \E S \in SUBSET Stores :
           /\ Reaches(t.process, S)
           /\ store' = [s \in Stores |->
                IF s \in S THEN [store[s] EXCEPT ![t.key] = entry] ELSE store[s]]
      /\ Answer(r)
      /\ UNCHANGED <<notification, stream, published, writes>>

(* Mutant: entries are kept without a time to live. *)
NeverExpires(s, k) == FALSE /\ UNCHANGED vars

Expire(s, k) ==
  /\ store[s][k] # NULL
  /\ store' = [store EXCEPT ![s][k] = NULL]
  /\ UNCHANGED <<notification, mode, stream, published, task, writes>>

(* An entry that outlives an invalidation, in a store that was not reached. *)
Left(entry, k) ==
  IF entry = NULL \/ entry.value = Fetch(k) THEN entry
  ELSE [entry EXCEPT !.late = TRUE]

(* SCAN finds every key that is there from the beginning to the end. *)
ScanBatch(r) ==
  LET t == task[r]
  IN  /\ t.op = "invalidate"
      /\ mode[t.process] = "redis"
      /\ \E k \in Keys :
           /\ store["redis"][k] # NULL
           /\ store' = [store EXCEPT !["redis"][k] = NULL]
           /\ task' = [task EXCEPT ![r].todo = @ \ {k}]
      /\ UNCHANGED <<notification, mode, stream, published, writes>>

(* Mutant: the prefix covers the lists only. *)
DroppedLists(r, S) ==
  [s \in Stores |-> [k \in Keys |->
     IF s \in S /\ k.kind = "list" THEN NULL ELSE store[s][k]]]

(* The end of storeDelByPrefix: S are the stores it has emptied. *)
Dropped(r, S) ==
  [s \in Stores |-> [k \in Keys |->
     IF s = "redis" /\ s \in S
     THEN IF k \in task[r].todo THEN NULL ELSE store[s][k]
     ELSE IF s \in S THEN NULL ELSE Left(store[s][k], k)]]

invalidateByPrefix(r) ==
  LET t == task[r]
  IN  /\ t.op = "invalidate"
      /\ \E S \in SUBSET Stores :
           /\ Reaches(t.process, S)
           /\ store' = Dropped(r, S)
      /\ IF t.id = NULL THEN Answer(r) ELSE Goto(r, "publish")
      /\ UNCHANGED <<notification, stream, published, writes>>

-----------------------------------------------------------------------------
(* realtime.ts and realtime.controller.ts *)

(* streamEvents and subscribe *)
OpenStream(c) ==
  /\ stream[c] = "none"
  /\ stream' = [stream EXCEPT ![c] = "registered"]
  /\ UNCHANGED <<notification, store, mode, published, task, writes>>

(* A ping that fails unregisters the subscriber and leaves the stream open. *)
HeartbeatFails(c) ==
  /\ stream[c] = "registered"
  /\ stream' = [stream EXCEPT ![c] = "open"]
  /\ UNCHANGED <<notification, store, mode, published, task, writes>>

(* The client leaves; while it is registered events still go to it. *)
ClientLeaves(c) ==
  /\ stream[c] \in {"registered", "open"}
  /\ stream' = [stream EXCEPT ![c] = IF @ = "open" THEN "closed" ELSE "leaving"]
  /\ UNCHANGED <<notification, store, mode, published, task, writes>>

(* Mutant: who is not registered any more is not cleaned up. *)
UnsubscribeRegistered(c) ==
  /\ stream[c] = "leaving"
  /\ stream' = [stream EXCEPT ![c] = "none"]
  /\ UNCHANGED <<notification, store, mode, published, task, writes>>

(* What subscribe returns, called on "close" and "error": ends the heartbeat. *)
Unsubscribe(c) ==
  /\ stream[c] \in {"leaving", "closed"}
  /\ stream' = [stream EXCEPT ![c] = "none"]
  /\ UNCHANGED <<notification, store, mode, published, task, writes>>

shouldDeliver(c, branch) == Sees(ScopeOf[c], branch)

Receivers(p, branch) ==
  {c \in Clients : /\ HubOf[c] = p
                   /\ stream[c] \in {"registered", "leaving"}
                   /\ shouldDeliver(c, branch)}

(* A subscriber whose send throws is unregistered and closed. *)
publish(r) ==
  LET t == task[r]
  IN  /\ t.op = "publish"
      /\ \E failed \in SUBSET Receivers(t.process, t.branch) :
           stream' = [c \in Clients |-> IF c \in failed THEN "closed" ELSE stream[c]]
      /\ published' = published \cup {t.id}
      /\ Answer(r)
      /\ UNCHANGED <<notification, store, mode, writes>>

-----------------------------------------------------------------------------
(* notification.service.ts *)

Present == {k \in Keys : store["redis"][k] # NULL}

(* Mutant: a creation only publishes, and leaves the lists to expire. *)
AfterCreate(p, id, branch) ==
  [op |-> IF id = NULL THEN "invalidate" ELSE "publish",
   process |-> p, id |-> id, branch |-> branch, todo |-> Present]

(* id is that of a notification to announce. *)
AfterWrite(p, id, branch) ==
  [op |-> "invalidate", process |-> p, id |-> id, branch |-> branch, todo |-> Present]

createSubmissionNotification(r) ==
  /\ Free(r)
  /\ writes < MaxWrites
  /\ \E id \in Ids, p \in Processes, b \in Branches :
       /\ notification[id] = NULL
       /\ \A i \in Ids : i < id => notification[i] # NULL
       /\ notification' = [notification EXCEPT ![id] = [branch |-> b, read |-> FALSE]]
       /\ task' = [task EXCEPT ![r] = AfterWrite(p, id, b)]
  /\ writes' = writes + 1
  /\ UNCHANGED <<store, mode, stream, published>>

(* markAsRead and deleteNotification look the row up first. *)
BeginChange(r) ==
  /\ Free(r)
  /\ writes < MaxWrites
  /\ \E scope \in Scopes, p \in Processes, op \in {"read", "delete"} :
       \E id \in InScope(scope) :
         task' = [task EXCEPT ![r] = [op |-> op, process |-> p, id |-> id]]
  /\ writes' = writes + 1
  /\ UNCHANGED <<notification, store, mode, stream, published>>

(* A row that has gone is an error, which nothing announces. *)
Change(r) ==
  LET t == task[r]
  IN  /\ t.op \in {"read", "delete"}
      /\ IF Exists(t.id)
         THEN /\ notification' = [notification EXCEPT
                   ![t.id] = IF t.op = "delete" THEN Gone ELSE [@ EXCEPT !.read = TRUE]]
              /\ task' = [task EXCEPT ![r] = AfterWrite(t.process, NULL, NULL)]
         ELSE Answer(r) /\ UNCHANGED notification
      /\ UNCHANGED <<store, mode, stream, published, writes>>

markAllRead(r) ==
  /\ Free(r)
  /\ writes < MaxWrites
  /\ \E scope \in Scopes, p \in Processes :
       /\ notification' = [id \in Ids |->
            IF id \in Unread(scope) THEN [notification[id] EXCEPT !.read = TRUE]
            ELSE notification[id]]
       /\ task' = [task EXCEPT ![r] = AfterWrite(p, NULL, NULL)]
  /\ writes' = writes + 1
  /\ UNCHANGED <<store, mode, stream, published>>

-----------------------------------------------------------------------------

Begin(r) ==
  \/ BeginRead(r) \/ BeginChange(r)
  \/ createSubmissionNotification(r) \/ markAllRead(r)

Continue(r) ==
  \/ FetchRows(r) \/ KeepRows(r)
  \/ Change(r) \/ ScanBatch(r) \/ invalidateByPrefix(r) \/ publish(r)

Next ==
  \/ \E r \in Requests : Begin(r) \/ Continue(r)
  \/ \E s \in Stores, k \in Keys : Expire(s, k)
  \/ \E p \in Processes : Connect(p)
  \/ \E c \in Clients :
       OpenStream(c) \/ HeartbeatFails(c) \/ ClientLeaves(c) \/ Unsubscribe(c)

Spec == Init /\ [][Next]_vars

(* Every call settles, NodeCache and Redis drop an entry whose time has    *)
(* come, and Node emits "close" for a connection that is gone.             *)
FairSpec ==
  /\ Spec
  /\ \A r \in Requests : WF_vars(Continue(r))
  /\ \A s \in Stores, k \in Keys : WF_vars(Expire(s, k))
  /\ \A c \in Clients : WF_vars(Unsubscribe(c))

-----------------------------------------------------------------------------

(* A cached list or count is what the database holds, unless a write has   *)
(* not come to its invalidation yet, a fetch raced the write, or the write *)
(* invalidated another store: the other process's own, or Redis lost.      *)
StaleForAReason ==
  \A s \in Stores, k \in Keys :
    store[s][k] # NULL /\ store[s][k].value # Fetch(k) =>
      \/ store[s][k].late
      \/ \E r \in Requests : task[r].op = "invalidate"

(* Whoever heard of a notification finds it in the list when they refetch: *)
(* the lists are dropped before the event is published.                    *)
HeardIsListed ==
  \A id \in published, s \in Stores, k \in Keys :
    (/\ Exists(id)
     /\ k.kind = "list"
     /\ Sees(k.scope, notification[id].branch)
     /\ store[s][k] # NULL
     /\ ~store[s][k].late) =>
       \E read \in BOOLEAN : <<id, read>> \in store[s][k].value

(* Once writing stops, everybody sees the same, true, lists: what races    *)
(* and lost stores left behind lasts no longer than its time to live.      *)
ListsCatchUp ==
  <>[](\A s \in Stores, k \in Keys :
         store[s][k] # NULL => store[s][k].value = Fetch(k))

(* The hub forgets a client that is gone, with its heartbeat, also one it  *)
(* had unregistered before.                                                *)
HubForgets ==
  \A c \in Clients : stream[c] \in {"leaving", "closed"} ~> stream[c] = "none"

=============================================================================

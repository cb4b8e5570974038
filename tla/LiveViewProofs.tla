--------------------------- MODULE LiveViewProofs ---------------------------
(***************************************************************************)
(* Theorems about LiveViews, for every value of its constants.             *)
(*                                                                         *)
(* Neither property is inductive by itself, as SCAN finds only the keys    *)
(* that were in Redis when it began.  Explained says which entries an      *)
(* invalidation still reaches, AllListed from when on a notification is in *)
(* every list that is there.                                               *)
(***************************************************************************)
EXTENDS LiveViews, TLAPS

Entry(e) == DOMAIN e = {"value", "late"} /\ e.late \in BOOLEAN

Known(id) == id \in Ids /\ notification[id] # NULL

(* Handlers by the fields they carry. *)
Reads(t) ==
  /\ \/ t.op = "fetch" /\ DOMAIN t = {"op", "process", "key"}
     \/ t.op = "keep" /\ DOMAIN t = {"op", "process", "key", "value"}
  /\ t.process \in Processes
  /\ t.key \in Keys

Changes(t) ==
  /\ t.op \in {"read", "delete"}
  /\ t.process \in Processes
  /\ Known(t.id)

Announces(t) ==
  /\ t.op \in {"invalidate", "publish"}
  /\ DOMAIN t = {"op", "process", "id", "branch", "todo"}
  /\ t.process \in Processes
  /\ t.op = "publish" => t.id # NULL
  /\ t.id # NULL => Known(t.id)

InFlight(t) == Reads(t) \/ Changes(t) \/ Announces(t)

Typed ==
  /\ notification \in [Ids -> Row \cup {NULL, Gone}]
  /\ DOMAIN store = Stores
  /\ \A s \in Stores : DOMAIN store[s] = Keys
  /\ \A s \in Stores, k \in Keys : store[s][k] # NULL => Entry(store[s][k])
  /\ mode \in [Processes -> {"connecting", "redis", "own"}]
  /\ stream \in [Clients -> {"none", "registered", "open", "leaving", "closed"}]
  /\ published \subseteq Ids
  /\ \A id \in published : Known(id)
  /\ DOMAIN task = Requests
  /\ \A r \in Requests : task[r] # Idle => InFlight(task[r])

-----------------------------------------------------------------------------
(* Rows. *)

LEMMA FetchStays ==
  ASSUME UNCHANGED notification, NEW k
  PROVE  Fetch(k)' = Fetch(k)
  BY DEF Fetch, Unread, InScope, Exists

(* Rows come into being once and keep their branch. *)
RowsGrow ==
  /\ notification' \in [Ids -> Row \cup {NULL, Gone}]
  /\ \A id \in Ids : notification[id] # NULL =>
       /\ notification'[id] # NULL
       /\ notification'[id] # Gone => /\ notification[id] # Gone
                                      /\ notification'[id].branch = notification[id].branch

LEMMA RowsStepGrow ==
  ASSUME RowAssumption, Typed, NEW r \in Requests,
         createSubmissionNotification(r) \/ Change(r) \/ markAllRead(r)
         \/ UNCHANGED notification
  PROVE  RowsGrow
  <1>1. CASE UNCHANGED notification
    BY <1>1 DEF RowsGrow, Typed
  <1>2. CASE createSubmissionNotification(r)
    <2>1. PICK id \in Ids, b \in Branches :
            /\ notification[id] = NULL
            /\ notification' = [notification EXCEPT ![id] = [branch |-> b, read |-> FALSE]]
      BY <1>2 DEF createSubmissionNotification
    <2>. QED
      BY <2>1 DEF RowsGrow, Typed, Row
  <1>3. CASE Change(r)
    <2>1. CASE Exists(task[r].id) /\ Changes(task[r])
      <3>1. PICK id \in Ids : id = task[r].id /\ notification[id] \in Row
        BY <2>1 DEF Changes, Known, Exists, Typed
      <3>2. PICK row \in {Gone, [notification[id] EXCEPT !.read = TRUE]} :
              notification' = [notification EXCEPT ![id] = row]
        BY <1>3, <2>1, <3>1 DEF Change
      <3>3. row = Gone \/ (row \in Row /\ row.branch = notification[id].branch)
        BY <3>1, <3>2 DEF Row
      <3>4. row # NULL /\ notification[id] # Gone
        BY <2>1, <3>1, <3>3 DEF RowAssumption, Exists
      <3>. QED
        BY <3>1, <3>2, <3>3, <3>4 DEF RowsGrow, Typed
    <2>2. task[r] # Idle /\ ~Reads(task[r]) /\ ~Announces(task[r])
      BY <1>3 DEF Change, Idle, Reads, Announces
    <2>3. Changes(task[r])
      BY <2>2 DEF Typed, InFlight
    <2>. QED
      BY <1>1, <1>3, <2>1, <2>3 DEF Change
  <1>4. CASE markAllRead(r)
    <2>1. PICK scope \in Scopes :
            notification' = [id \in Ids |->
              IF id \in Unread(scope) THEN [notification[id] EXCEPT !.read = TRUE]
              ELSE notification[id]]
      BY <1>4 DEF markAllRead
    <2>2. ASSUME NEW id \in Ids
          PROVE  /\ notification'[id] \in Row \cup {NULL, Gone}
                 /\ notification[id] # NULL =>
                      /\ notification'[id] # NULL
                      /\ notification'[id] # Gone =>
                           /\ notification[id] # Gone
                           /\ notification'[id].branch = notification[id].branch
      <3>1. CASE id \in Unread(scope)
        <4>1. notification[id] \in Row
          BY <3>1 DEF Unread, InScope, Exists, Typed
        <4>2. notification'[id] = [notification[id] EXCEPT !.read = TRUE]
          BY <2>1, <3>1
        <4>3. notification'[id] \in Row /\ notification'[id].branch = notification[id].branch
          BY <4>1, <4>2 DEF Row
        <4>4. notification[id] # Gone
          BY <3>1 DEF Unread, InScope, Exists
        <4>. QED
          BY <4>3, <4>4 DEF RowAssumption
      <3>2. CASE id \notin Unread(scope)
        BY <2>1, <3>2 DEF Typed
      <3>. QED
        BY <3>1, <3>2
    <2>. QED
      BY <2>1, <2>2 DEF RowsGrow
  <1>. QED
    BY <1>1, <1>2, <1>3, <1>4

-----------------------------------------------------------------------------
(* What a step does to the cached lists. *)

(* Every entry is dropped, kept, marked late, or just what the rows say. *)
EntriesMove ==
  /\ DOMAIN store' = Stores
  /\ \A s \in Stores : DOMAIN store'[s] = Keys
  /\ \A s \in Stores, k \in Keys : store'[s][k] # NULL =>
       /\ Entry(store'[s][k])
       /\ \/ store[s][k] # NULL /\ store'[s][k] = store[s][k]
          \/ store'[s][k].late
          \/ UNCHANGED notification /\ store'[s][k].value = Fetch(k)

LEMMA LeftMoves ==
  ASSUME NEW entry, NEW k, Entry(entry), Left(entry, k) # NULL
  PROVE  /\ Entry(Left(entry, k))
         /\ Left(entry, k).late \/ Left(entry, k).value = Fetch(k)
  <1>1. CASE entry = NULL \/ entry.value = Fetch(k)
    BY <1>1 DEF Left, Entry
  <1>2. CASE ~(entry = NULL \/ entry.value = Fetch(k))
    BY <1>2 DEF Left, Entry
  <1>. QED
    BY <1>1, <1>2

(* After an invalidation a list is true or late, or SCAN did not see it. *)
Unseen(r, S, s, k) == s = "redis" /\ s \in S /\ k \notin task[r].todo

LEMMA DroppedMoves ==
  ASSUME Typed, NEW r, NEW S, store' = Dropped(r, S)
  PROVE  /\ DOMAIN store' = Stores
         /\ \A s \in Stores : DOMAIN store'[s] = Keys
         /\ \A s \in Stores, k \in Keys : store'[s][k] # NULL =>
              /\ Entry(store'[s][k])
              /\ \/ Unseen(r, S, s, k) /\ store'[s][k] = store[s][k]
                 \/ ~Unseen(r, S, s, k) /\ (\/ store'[s][k].late
                                            \/ store'[s][k].value = Fetch(k))
  <1>1. DOMAIN store' = Stores /\ \A s \in Stores : DOMAIN store'[s] = Keys
    BY DEF Dropped
  <1>2. ASSUME NEW s \in Stores, NEW k \in Keys, store'[s][k] # NULL
        PROVE  /\ Entry(store'[s][k])
               /\ \/ Unseen(r, S, s, k) /\ store'[s][k] = store[s][k]
                  \/ ~Unseen(r, S, s, k) /\ (\/ store'[s][k].late
                                             \/ store'[s][k].value = Fetch(k))
    <2>1. CASE Unseen(r, S, s, k)
      <3>1. store'[s][k] = store[s][k]
        BY <2>1 DEF Dropped, Unseen
      <3>. QED
        BY <1>2, <2>1, <3>1 DEF Typed
    <2>2. CASE ~Unseen(r, S, s, k)
      <3>1. store'[s][k] = Left(store[s][k], k)
        BY <1>2, <2>2 DEF Dropped, Unseen
      <3>2. store[s][k] # NULL
        BY <1>2, <3>1 DEF Left
      <3>3. Entry(store[s][k])
        BY <3>2 DEF Typed
      <3>. QED
        BY <1>2, <2>2, <3>1, <3>3, LeftMoves
    <2>. QED
      BY <2>1, <2>2
  <1>. QED
    BY <1>1, <1>2

LEMMA KeepRowsMoves ==
  ASSUME Typed, NEW r \in Requests, KeepRows(r)
  PROVE  EntriesMove
  <1>1. PICK S \in SUBSET Stores :
          store' = [s \in Stores |->
            IF s \in S
            THEN [store[s] EXCEPT ![task[r].key] =
                    [value |-> task[r].value, late |-> task[r].value # Fetch(task[r].key)]]
            ELSE store[s]]
    BY DEF KeepRows
  <1>2. ASSUME NEW s \in Stores, NEW k \in Keys
        PROVE  \/ store'[s][k] = store[s][k]
               \/ /\ k = task[r].key
                  /\ store'[s][k] = [value |-> task[r].value,
                                     late |-> task[r].value # Fetch(k)]
    BY <1>1 DEF Typed
  <1>3. UNCHANGED notification
    BY DEF KeepRows
  <1>4. ASSUME NEW s \in Stores, NEW k \in Keys, store'[s][k] # NULL
        PROVE  /\ Entry(store'[s][k])
               /\ \/ store[s][k] # NULL /\ store'[s][k] = store[s][k]
                  \/ store'[s][k].late
                  \/ UNCHANGED notification /\ store'[s][k].value = Fetch(k)
    <2>1. CASE store'[s][k] = store[s][k]
      BY <1>4, <2>1 DEF Typed
    <2>2. CASE store'[s][k] = [value |-> task[r].value, late |-> task[r].value # Fetch(k)]
      <3>. DEFINE late == task[r].value # Fetch(k)
      <3>1. late \in BOOLEAN
        OBVIOUS
      <3>. HIDE DEF late
      <3>2. store'[s][k] = [value |-> task[r].value, late |-> late]
        BY <2>2 DEF late
      <3>3. Entry(store'[s][k]) /\ store'[s][k].late = late
        BY <3>1, <3>2 DEF Entry
      <3>4. ~late => store'[s][k].value = Fetch(k)
        BY <3>2 DEF late
      <3>. QED
        BY <1>3, <3>1, <3>3, <3>4
    <2>. QED
      BY <1>2, <2>1, <2>2
  <1>5. DOMAIN store' = Stores /\ \A s \in Stores : DOMAIN store'[s] = Keys
    BY <1>1 DEF Typed
  <1>. QED
    BY <1>4, <1>5 DEF EntriesMove

LEMMA StoreStepMoves ==
  ASSUME Typed, Next
  PROVE  EntriesMove
  <1>1. ASSUME UNCHANGED store
        PROVE  EntriesMove
    BY <1>1 DEF EntriesMove, Typed
  <1>2. ASSUME NEW s \in Stores, NEW k \in Keys, store' = [store EXCEPT ![s][k] = NULL]
        PROVE  EntriesMove
    BY <1>2 DEF EntriesMove, Typed
  <1>3. ASSUME NEW r \in Requests, invalidateByPrefix(r)
        PROVE  EntriesMove
    <2>1. PICK S : store' = Dropped(r, S)
      BY <1>3 DEF invalidateByPrefix
    <2>2. UNCHANGED notification
      BY <1>3 DEF invalidateByPrefix
    <2>. QED
      BY <2>1, <2>2, DroppedMoves DEF EntriesMove
  <1>4. ASSUME NEW r \in Requests, ScanBatch(r)
        PROVE  EntriesMove
    BY <1>2, <1>4 DEF ScanBatch, Stores
  <1>5. ASSUME NEW r \in Requests,
               Begin(r) \/ FetchRows(r) \/ Change(r) \/ publish(r)
        PROVE  EntriesMove
    BY <1>1, <1>5 DEF Begin, BeginRead, BeginChange, createSubmissionNotification,
       markAllRead, FetchRows, Change, publish
  <1>6. ASSUME NEW s \in Stores, NEW k \in Keys, Expire(s, k)
        PROVE  EntriesMove
    BY <1>2, <1>6 DEF Expire
  <1>7. ASSUME NEW p \in Processes, Connect(p)
        PROVE  EntriesMove
    BY <1>1, <1>7 DEF Connect
  <1>8. ASSUME NEW c \in Clients,
               OpenStream(c) \/ HeartbeatFails(c) \/ ClientLeaves(c) \/ Unsubscribe(c)
        PROVE  EntriesMove
    BY <1>1, <1>8 DEF OpenStream, HeartbeatFails, ClientLeaves, Unsubscribe
  <1>. QED
    BY <1>3, <1>4, <1>5, <1>6, <1>7, <1>8, KeepRowsMoves DEF Next, Continue

-----------------------------------------------------------------------------
(* Every step keeps Typed. *)

LEMMA ReachesTyped ==
  ASSUME Typed, NEW p \in Processes, NEW S, Reaches(p, S)
  PROVE  mode' \in [Processes -> {"connecting", "redis", "own"}]
  BY DEF Reaches, Typed

(* The handler that took the step, if any, and the rest. *)
LEMMA StepTyped ==
  ASSUME RowAssumption, Typed, EntriesMove, RowsGrow,
         mode' \in [Processes -> {"connecting", "redis", "own"}],
         stream' \in [Clients -> {"none", "registered", "open", "leaving", "closed"}],
         published' \subseteq Ids,
         \A id \in published' \ published : Known(id),
         DOMAIN task' = Requests,
         \A r \in Requests : task'[r] # task[r] /\ task'[r] # Idle => InFlight(task[r])'
  PROVE  Typed'
  <1>1. \A id \in Ids : Known(id) => Known(id)'
    BY DEF RowsGrow, Known
  <1>2. ASSUME NEW r \in Requests, task'[r] # Idle, task'[r] = task[r]
        PROVE  InFlight(task[r])'
    <2>1. InFlight(task[r])
      BY <1>2 DEF Typed
    <2>2. \A id : Known(id) => Known(id)'
      BY <1>1 DEF Known
    <2>3. CASE Reads(task[r])
      BY <1>2, <2>3 DEF InFlight, Reads
    <2>4. CASE Changes(task[r])
      BY <1>2, <2>2, <2>4 DEF InFlight, Changes, Known
    <2>5. CASE Announces(task[r])
      BY <1>2, <2>2, <2>5 DEF InFlight, Announces, Known
    <2>. QED
      BY <2>1, <2>3, <2>4, <2>5 DEF InFlight
  <1>3. ASSUME NEW id \in published'
        PROVE  Known(id)'
    BY <1>1 DEF Typed
  <1>. QED
    BY <1>2, <1>3 DEF Typed, EntriesMove, RowsGrow, Entry

(* Steps of one handler. *)
LEMMA HandlerTyped ==
  ASSUME RowAssumption, Typed, EntriesMove, NEW r \in Requests, RowsGrow,
         mode' \in [Processes -> {"connecting", "redis", "own"}],
         UNCHANGED <<stream, published>>,
         NEW t, task' = [task EXCEPT ![r] = t],
         t # Idle => InFlight(task[r])'
  PROVE  Typed'
  <1>1. /\ DOMAIN task' = Requests
        /\ \A q \in Requests : task'[q] # task[q] /\ task'[q] # Idle => InFlight(task[q])'
    BY DEF Typed
  <1>. QED
    BY <1>1, StepTyped DEF Typed

LEMMA KindOfTask ==
  ASSUME Typed, NEW r \in Requests, task[r].op # "idle"
  PROVE  /\ task[r] # Idle
         /\ task[r].op \in {"fetch", "keep"} => Reads(task[r])
         /\ task[r].op \in {"read", "delete"} => Changes(task[r])
         /\ task[r].op \in {"invalidate", "publish"} => Announces(task[r])
  <1>1. task[r] # Idle
    BY DEF Idle
  <1>. QED
    BY <1>1 DEF Typed, InFlight, Reads, Changes, Announces

(* What a handler is after its write. *)
LEMMA AfterWriteInFlight ==
  ASSUME NEW p \in Processes, NEW id, NEW branch, NEW t, t = AfterWrite(p, id, branch),
         id # NULL => Known(id)'
  PROVE  /\ t.op = "invalidate"
         /\ \A r : task'[r] = t => InFlight(task[r])'
  <1>1. /\ t.op = "invalidate" /\ t.process = p /\ t.id = id
        /\ DOMAIN t = {"op", "process", "id", "branch", "todo"}
    BY DEF AfterWrite
  <1>2. ASSUME NEW r, task'[r] = t
        PROVE  InFlight(task[r])'
    BY <1>1, <1>2 DEF InFlight, Announces, Known
  <1>. QED
    BY <1>1, <1>2

LEMMA BeginReadTyped ==
  ASSUME RowAssumption, Typed, EntriesMove, NEW r \in Requests, RowsGrow, BeginRead(r)
  PROVE  Typed'
  <1>1. PICK p \in Processes, k \in Keys, S \in SUBSET Stores :
          /\ Reaches(p, S)
          /\ LET s == IF S = {"redis"} THEN "redis" ELSE p
             IN  task' = [task EXCEPT ![r] =
                   IF store[s][k] # NULL THEN Idle
                   ELSE [op |-> "fetch", process |-> p, key |-> k]]
    BY DEF BeginRead
  <1>2. PICK t \in {Idle, [op |-> "fetch", process |-> p, key |-> k]} :
          task' = [task EXCEPT ![r] = t]
    BY <1>1
  <1>3. task'[r] = t
    BY <1>2 DEF Typed
  <1>4. t # Idle => InFlight(task[r])'
    BY <1>2, <1>3 DEF InFlight, Reads
  <1>5. mode' \in [Processes -> {"connecting", "redis", "own"}]
    BY <1>1, ReachesTyped
  <1>. QED
    BY <1>2, <1>4, <1>5, HandlerTyped DEF BeginRead

LEMMA FetchRowsTyped ==
  ASSUME RowAssumption, Typed, EntriesMove, NEW r \in Requests, RowsGrow, FetchRows(r)
  PROVE  Typed'
  <1>. DEFINE t == [op |-> "keep", process |-> task[r].process, key |-> task[r].key,
                    value |-> Fetch(task[r].key)]
  <1>1. Reads(task[r])
    BY KindOfTask DEF FetchRows
  <1>2. task' = [task EXCEPT ![r] = t] /\ task'[r] = t
    BY DEF FetchRows, Typed
  <1>3. InFlight(task[r])'
    BY <1>1, <1>2 DEF InFlight, Reads
  <1>. QED
    BY <1>2, <1>3, HandlerTyped DEF FetchRows, Typed

LEMMA KeepRowsTyped ==
  ASSUME RowAssumption, Typed, EntriesMove, NEW r \in Requests, RowsGrow, KeepRows(r)
  PROVE  Typed'
  <1>1. Reads(task[r])
    BY KindOfTask DEF KeepRows
  <1>2. mode' \in [Processes -> {"connecting", "redis", "own"}]
    BY <1>1, ReachesTyped DEF KeepRows, Reads
  <1>. QED
    BY <1>2, HandlerTyped DEF KeepRows, Answer

LEMMA ScanBatchTyped ==
  ASSUME RowAssumption, Typed, EntriesMove, NEW r \in Requests, RowsGrow, ScanBatch(r)
  PROVE  Typed'
  <1>1. Announces(task[r])
    BY KindOfTask DEF ScanBatch
  <1>2. PICK todo : task' = [task EXCEPT ![r] = [task[r] EXCEPT !.todo = todo]]
    BY DEF ScanBatch, Typed
  <1>3. task'[r] = [task[r] EXCEPT !.todo = todo]
    BY <1>2 DEF Typed
  <1>4. /\ DOMAIN task'[r] = DOMAIN task[r]
        /\ task'[r].op = task[r].op /\ task'[r].process = task[r].process
        /\ task'[r].id = task[r].id
    BY <1>1, <1>3 DEF Announces
  <1>5. InFlight(task[r])'
    BY <1>1, <1>4 DEF InFlight, Announces, Known, ScanBatch
  <1>. QED
    BY <1>2, <1>5, HandlerTyped DEF ScanBatch, Typed

LEMMA InvalidateTyped ==
  ASSUME RowAssumption, Typed, EntriesMove, NEW r \in Requests, RowsGrow,
         invalidateByPrefix(r)
  PROVE  Typed'
  <1>1. Announces(task[r])
    BY KindOfTask DEF invalidateByPrefix
  <1>2. mode' \in [Processes -> {"connecting", "redis", "own"}]
    BY <1>1, ReachesTyped DEF invalidateByPrefix, Announces
  <1>3. CASE task[r].id = NULL
    BY <1>2, <1>3, HandlerTyped DEF invalidateByPrefix, Answer
  <1>4. CASE task[r].id # NULL
    <2>1. /\ task' = [task EXCEPT ![r] = [task[r] EXCEPT !.op = "publish"]]
          /\ task'[r] = [task[r] EXCEPT !.op = "publish"]
      BY <1>4 DEF invalidateByPrefix, Goto, Typed
    <2>2. /\ DOMAIN task'[r] = DOMAIN task[r]
          /\ task'[r].op = "publish" /\ task'[r].process = task[r].process
          /\ task'[r].id = task[r].id
      BY <1>1, <2>1 DEF Announces
    <2>3. InFlight(task[r])'
      BY <1>1, <1>4, <2>2 DEF InFlight, Announces, Known, invalidateByPrefix
    <2>. QED
      BY <1>2, <2>1, <2>3, HandlerTyped DEF invalidateByPrefix
  <1>. QED
    BY <1>3, <1>4

LEMMA PublishTyped ==
  ASSUME RowAssumption, Typed, EntriesMove, NEW r \in Requests, RowsGrow, publish(r)
  PROVE  Typed'
  <1>1. Announces(task[r])
    BY KindOfTask DEF publish
  <1>2. Known(task[r].id) /\ published' = published \cup {task[r].id}
    BY <1>1 DEF Announces, publish
  <1>3. stream' \in [Clients -> {"none", "registered", "open", "leaving", "closed"}]
    BY DEF publish, Typed
  <1>4. /\ DOMAIN task' = Requests
        /\ \A q \in Requests : task'[q] = task[q] \/ task'[q] = Idle
    BY DEF publish, Answer, Typed
  <1>. QED
    BY <1>2, <1>3, <1>4, StepTyped DEF publish, Known, Typed

LEMMA BeginWriteTyped ==
  ASSUME RowAssumption, Typed, EntriesMove, NEW r \in Requests, RowsGrow,
         createSubmissionNotification(r) \/ markAllRead(r) \/ Change(r)
  PROVE  Typed'
  <1>1. ASSUME NEW p \in Processes, NEW id, NEW branch, id # NULL => Known(id)',
               task' = [task EXCEPT ![r] = AfterWrite(p, id, branch)],
               UNCHANGED <<mode, stream, published>>
        PROVE  Typed'
    <2>1. task'[r] = AfterWrite(p, id, branch)
      BY <1>1 DEF Typed
    <2>2. InFlight(task[r])'
      BY <1>1, <2>1, AfterWriteInFlight
    <2>. QED
      BY <1>1, <2>2, HandlerTyped DEF Typed
  <1>2. CASE createSubmissionNotification(r)
    <2>1. PICK id \in Ids, p \in Processes, b \in Branches :
            /\ notification' = [notification EXCEPT ![id] = [branch |-> b, read |-> FALSE]]
            /\ task' = [task EXCEPT ![r] = AfterWrite(p, id, b)]
      BY <1>2 DEF createSubmissionNotification
    <2>2. notification'[id] = [branch |-> b, read |-> FALSE]
      BY <2>1 DEF Typed
    <2>3. notification'[id] # NULL
      <3>1. notification'[id] \in Row
        BY <2>2 DEF Row
      <3>. QED
        BY <3>1 DEF RowAssumption
    <2>. QED
      BY <1>1, <1>2, <2>1, <2>3 DEF createSubmissionNotification, Known
  <1>3. CASE markAllRead(r)
    BY <1>1, <1>3 DEF markAllRead
  <1>4. CASE Change(r)
    <2>1. task[r].process \in Processes
      BY <1>4, KindOfTask DEF Change, Changes
    <2>2. CASE Answer(r) /\ UNCHANGED notification
      BY <1>4, <2>2, HandlerTyped DEF Change, Answer, Typed
    <2>3. CASE task' = [task EXCEPT ![r] = AfterWrite(task[r].process, NULL, NULL)]
      BY <1>1, <1>4, <2>1, <2>3 DEF Change
    <2>. QED
      BY <1>4, <2>2, <2>3 DEF Change
  <1>. QED
    BY <1>2, <1>3, <1>4

LEMMA BeginChangeTyped ==
  ASSUME RowAssumption, Typed, EntriesMove, NEW r \in Requests, RowsGrow, BeginChange(r)
  PROVE  Typed'
  <1>1. PICK scope \in Scopes, p \in Processes, op \in {"read", "delete"} :
          \E id \in InScope(scope) :
            task' = [task EXCEPT ![r] = [op |-> op, process |-> p, id |-> id]]
    BY DEF BeginChange
  <1>2. PICK id \in InScope(scope) :
          task' = [task EXCEPT ![r] = [op |-> op, process |-> p, id |-> id]]
    BY <1>1
  <1>3. id \in Ids /\ notification[id] # NULL
    BY DEF InScope, Exists
  <1>4. task'[r] = [op |-> op, process |-> p, id |-> id]
    BY <1>2 DEF Typed
  <1>5. InFlight(task[r])'
    BY <1>3, <1>4 DEF InFlight, Changes, Known, BeginChange
  <1>. QED
    BY <1>2, <1>5, HandlerTyped DEF BeginChange, Typed

LEMMA NextGrows ==
  ASSUME RowAssumption, Typed, Next
  PROVE  RowsGrow
  <1>1. ASSUME UNCHANGED notification
        PROVE  RowsGrow
    BY <1>1 DEF RowsGrow, Typed
  <1>2. ASSUME NEW r \in Requests, Begin(r) \/ Continue(r)
        PROVE  RowsGrow
    <2>1. \/ createSubmissionNotification(r) \/ Change(r) \/ markAllRead(r)
          \/ UNCHANGED notification
      BY <1>2 DEF Begin, Continue, BeginRead, BeginChange, FetchRows, KeepRows, ScanBatch,
         invalidateByPrefix, publish
    <2>. QED
      BY <2>1, RowsStepGrow
  <1>. QED
    BY <1>1, <1>2 DEF Next, Expire, Connect, OpenStream, HeartbeatFails, ClientLeaves,
       Unsubscribe

LEMMA NextTyped ==
  ASSUME RowAssumption, Typed, [Next]_vars
  PROVE  Typed'
  <1>1. CASE UNCHANGED vars
    BY <1>1 DEF vars, Typed, InFlight, Reads, Changes, Announces, Known, Entry
  <1>2. CASE Next
    <2>1. EntriesMove /\ RowsGrow
      BY <1>2, StoreStepMoves, NextGrows
    <2>2. ASSUME NEW r \in Requests, Begin(r) \/ Continue(r)
          PROVE  Typed'
      BY <2>1, <2>2, BeginReadTyped, BeginChangeTyped, BeginWriteTyped, FetchRowsTyped,
         KeepRowsTyped, ScanBatchTyped, InvalidateTyped, PublishTyped DEF Begin, Continue
    <2>3. ASSUME UNCHANGED <<published, task>>,
                 mode' \in [Processes -> {"connecting", "redis", "own"}],
                 stream' \in [Clients -> {"none", "registered", "open", "leaving", "closed"}]
          PROVE  Typed'
      BY <2>1, <2>3, StepTyped DEF Typed
    <2>4. ASSUME NEW s \in Stores, NEW k \in Keys, Expire(s, k)
          PROVE  Typed'
      BY <2>3, <2>4 DEF Expire, Typed
    <2>5. ASSUME NEW p \in Processes, Connect(p)
          PROVE  Typed'
      BY <2>3, <2>5 DEF Connect, Typed
    <2>6. ASSUME NEW c \in Clients,
                 OpenStream(c) \/ HeartbeatFails(c) \/ ClientLeaves(c) \/ Unsubscribe(c)
          PROVE  Typed'
      <3>1. stream' \in [Clients -> {"none", "registered", "open", "leaving", "closed"}]
        BY <2>6 DEF OpenStream, HeartbeatFails, ClientLeaves, Unsubscribe, Typed
      <3>. QED
        BY <2>3, <2>6, <3>1 DEF OpenStream, HeartbeatFails, ClientLeaves, Unsubscribe, Typed
    <2>. QED
      BY <1>2, <2>2, <2>4, <2>5, <2>6 DEF Next
  <1>. QED
    BY <1>1, <1>2

LEMMA AlwaysTyped == Spec => []Typed
  <1>1. Init => Typed
    BY DEF Init, Typed
  <1>2. Typed /\ [Next]_vars => Typed'
    BY RowAssumption, NextTyped
  <1>. QED
    BY <1>1, <1>2, PTL DEF Spec

(* Rows, cached entries, store modes and streams have their types. *)
THEOREM TypesHold == Spec => []TypeOK
  <1>1. Typed => TypeOK
    BY DEF Typed, TypeOK, Entry
  <1>. QED
    BY <1>1, AlwaysTyped, PTL

-----------------------------------------------------------------------------
(* Stale lists.  An invalidation that is still to come reaches an entry of *)
(* Redis only if the entry was there when its SCAN began.                  *)

Pending(r, s, k) ==
  task[r].op = "invalidate" /\ (s = "redis" => k \in task[r].todo)

Explained ==
  \A s \in Stores, k \in Keys :
    store[s][k] # NULL /\ store[s][k].value # Fetch(k) =>
      store[s][k].late \/ \E r \in Requests : Pending(r, s, k)

(* Which steps a handler with something to announce takes. *)
LEMMA ActionOfOp ==
  ASSUME NEW r \in Requests, Begin(r) \/ Continue(r), task[r].op = "invalidate"
  PROVE  ScanBatch(r) \/ invalidateByPrefix(r)
  <1>1. Begin(r) => task[r] = Idle
    BY DEF Begin, BeginRead, BeginChange, createSubmissionNotification, markAllRead, Free
  <1>2. ~Begin(r)
    BY <1>1 DEF Idle
  <1>3. ~(FetchRows(r) \/ KeepRows(r) \/ Change(r) \/ publish(r))
    BY DEF FetchRows, KeepRows, Change, publish
  <1>. QED
    BY <1>2, <1>3 DEF Continue

LEMMA OthersStay ==
  ASSUME Typed, NEW r \in Requests, Begin(r) \/ Continue(r), NEW q \in Requests, q # r
  PROVE  task'[q] = task[q]
  <1>1. ASSUME NEW t, task' = [task EXCEPT ![r] = t]
        PROVE  task'[q] = task[q]
    BY <1>1 DEF Typed
  <1>2. CASE Begin(r)
    BY <1>1, <1>2 DEF Begin, BeginRead, BeginChange, createSubmissionNotification,
       markAllRead
  <1>3. CASE FetchRows(r) \/ KeepRows(r) \/ Change(r) \/ ScanBatch(r)
             \/ invalidateByPrefix(r) \/ publish(r)
    BY <1>1, <1>3 DEF FetchRows, KeepRows, Change, ScanBatch, invalidateByPrefix, publish,
       Goto, Answer
  <1>. QED
    BY <1>2, <1>3 DEF Continue

(* Who writes rows owes an invalidation of all that is in Redis. *)
LEMMA WriterIsPending ==
  ASSUME Typed, NEW r \in Requests, Begin(r) \/ Continue(r), notification' # notification
  PROVE  /\ UNCHANGED store
         /\ task'[r].op = "invalidate"
         /\ task'[r].todo = Present
  <1>1. ASSUME NEW p, NEW id, NEW branch,
               task' = [task EXCEPT ![r] = AfterWrite(p, id, branch)]
        PROVE  task'[r].op = "invalidate" /\ task'[r].todo = Present
    <2>1. task'[r] = AfterWrite(p, id, branch)
      BY <1>1 DEF Typed
    <2>. QED
      BY <2>1 DEF AfterWrite
  <1>2. createSubmissionNotification(r) \/ markAllRead(r) \/ Change(r)
    BY DEF Begin, BeginRead, BeginChange, Continue, FetchRows, KeepRows, ScanBatch,
       invalidateByPrefix, publish
  <1>. QED
    BY <1>1, <1>2 DEF createSubmissionNotification, markAllRead, Change

LEMMA ScanStep ==
  ASSUME Typed, NEW r \in Requests, ScanBatch(r)
  PROVE  \E k \in Keys : /\ store' = [store EXCEPT !["redis"][k] = NULL]
                         /\ task'[r].op = "invalidate"
                         /\ task'[r].id = task[r].id
                         /\ task'[r].todo = task[r].todo \ {k}
  <1>1. Announces(task[r])
    BY KindOfTask DEF ScanBatch
  <1>2. PICK k \in Keys :
          /\ store' = [store EXCEPT !["redis"][k] = NULL]
          /\ task' = [task EXCEPT ![r].todo = @ \ {k}]
    BY DEF ScanBatch
  <1>3. task'[r] = [task[r] EXCEPT !.todo = @ \ {k}]
    BY <1>2 DEF Typed
  <1>4. /\ task'[r].op = task[r].op
        /\ task'[r].id = task[r].id
        /\ task'[r].todo = task[r].todo \ {k}
    BY <1>1, <1>3 DEF Announces
  <1>. QED
    BY <1>2, <1>4 DEF ScanBatch

LEMMA ExplainedStep ==
  ASSUME RowAssumption, Typed, Explained, Next
  PROVE  Explained'
  <1>. SUFFICES ASSUME NEW s \in Stores, NEW k \in Keys, store'[s][k] # NULL,
                       store'[s][k].value # Fetch(k)', ~store'[s][k].late
                PROVE  \E q \in Requests : Pending(q, s, k)'
    BY DEF Explained
  <1>1. store[s][k] # NULL /\ store'[s][k] = store[s][k]
    BY StoreStepMoves, FetchStays DEF EntriesMove
  <1>2. ASSUME UNCHANGED notification
        PROVE  \E q \in Requests : Pending(q, s, k)
    BY <1>1, <1>2, FetchStays DEF Explained
  <1>3. ASSUME NEW r \in Requests, Begin(r) \/ Continue(r)
        PROVE  \E q \in Requests : Pending(q, s, k)'
    <2>1. CASE notification' # notification
      BY <1>1, <1>3, <2>1, WriterIsPending DEF Pending, Present
    <2>2. CASE UNCHANGED notification
      <3>1. PICK q \in Requests : Pending(q, s, k)
        BY <1>2, <2>2
      <3>2. CASE q # r
        <4>1. task'[q] = task[q]
          BY <1>3, <3>2, OthersStay
        <4>. QED
          BY <3>1, <4>1 DEF Pending
      <3>3. CASE q = r /\ ScanBatch(r)
        <4>1. PICK k0 \in Keys : /\ store' = [store EXCEPT !["redis"][k0] = NULL]
                                 /\ task'[r].op = "invalidate"
                                 /\ task'[r].todo = task[r].todo \ {k0}
          BY <3>3, ScanStep
        <4>2. ~(s = "redis" /\ k = k0)
          BY <4>1 DEF Typed, Stores
        <4>. QED
          BY <3>1, <3>3, <4>1, <4>2 DEF Pending
      <3>4. CASE q = r /\ invalidateByPrefix(r)
        <4>1. PICK S : store' = Dropped(r, S)
          BY <3>4 DEF invalidateByPrefix
        <4>2. Unseen(r, S, s, k)
          BY <2>2, <4>1, DroppedMoves, FetchStays
        <4>. QED
          BY <3>1, <3>4, <4>2 DEF Pending, Unseen
      <3>. QED
        BY <1>3, <3>1, <3>2, <3>3, <3>4, ActionOfOp DEF Pending
    <2>. QED
      BY <2>1, <2>2
  <1>4. ASSUME UNCHANGED <<notification, task>>
        PROVE  \E q \in Requests : Pending(q, s, k)'
    BY <1>2, <1>4 DEF Pending
  <1>. QED
    BY <1>3, <1>4 DEF Next, Expire, Connect, OpenStream, HeartbeatFails, ClientLeaves,
       Unsubscribe

LEMMA AlwaysExplained == Spec => []Explained
  <1>1. Init => Explained
    BY DEF Init, Explained
  <1>2. Typed /\ Explained /\ [Next]_vars => Explained'
    <2>1. ASSUME Explained, UNCHANGED vars
          PROVE  Explained'
      BY <2>1, FetchStays DEF Explained, Pending, vars
    <2>. QED
      BY <2>1, RowAssumption, ExplainedStep
  <1>. QED
    BY <1>1, <1>2, AlwaysTyped, PTL DEF Spec

(* A cached list is what the database holds, but for the windows that      *)
(* StaleForAReason names.                                                  *)
THEOREM ListsAreTrueOrExplained == Spec => []StaleForAReason
  <1>1. Explained => StaleForAReason
    BY DEF Explained, Pending, StaleForAReason
  <1>. QED
    BY <1>1, AlwaysExplained, PTL

-----------------------------------------------------------------------------
(* Heard of.  From the end of its creator's invalidation on, and in Redis  *)
(* from the creation on where SCAN finds nothing to drop, a notification   *)
(* is in every list that is there.                                         *)

ListedAt(s, k, id) ==
  /\ Exists(id)
  /\ k.kind = "list"
  /\ Sees(k.scope, notification[id].branch)
  /\ store[s][k] # NULL
  /\ ~store[s][k].late
  => \E read \in BOOLEAN : <<id, read>> \in store[s][k].value

AllListed ==
  \A s \in Stores, k \in Keys :
    /\ \A id \in published : ListedAt(s, k, id)
    /\ \A r \in Requests :
         \/ task[r].op = "publish"
         \/ /\ task[r].op = "invalidate" /\ task[r].id # NULL
            /\ s = "redis" /\ k \notin task[r].todo
         => ListedAt(s, k, task[r].id)

LEMMA FetchLists ==
  ASSUME Typed, NEW id \in Ids, NEW k, Exists(id), k.kind = "list",
         Sees(k.scope, notification[id].branch)
  PROVE  \E read \in BOOLEAN : <<id, read>> \in Fetch(k)
  <1>1. id \in InScope(k.scope)
    BY DEF InScope
  <1>2. notification[id].read \in BOOLEAN
    BY DEF Typed, Exists, Row
  <1>3. <<id, notification[id].read>> \in Fetch(k)
    BY <1>1 DEF Fetch
  <1>. QED
    BY <1>2, <1>3

(* In a list that is late, or just what the rows say, nothing is missing. *)
LEMMA ListedAnew ==
  ASSUME Typed, RowsGrow, NEW id \in Ids, NEW s \in Stores, NEW k \in Keys,
         Known(id), UNCHANGED notification,
         store'[s][k] # NULL => store'[s][k].late \/ store'[s][k].value = Fetch(k)
  PROVE  ListedAt(s, k, id)'
  <1>. SUFFICES ASSUME Exists(id), k.kind = "list",
                       Sees(k.scope, notification[id].branch),
                       store'[s][k] # NULL, ~store'[s][k].late
                PROVE  \E read \in BOOLEAN : <<id, read>> \in store'[s][k].value
    BY DEF ListedAt, Exists
  <1>. QED
    BY FetchLists

LEMMA ListedStays ==
  ASSUME Typed, EntriesMove, RowsGrow, NEW id, Known(id),
         NEW s \in Stores, NEW k \in Keys, ListedAt(s, k, id)
  PROVE  ListedAt(s, k, id)'
  <1>. SUFFICES ASSUME Exists(id)', k.kind = "list",
                       Sees(k.scope, notification'[id].branch),
                       store'[s][k] # NULL, ~store'[s][k].late
                PROVE  \E read \in BOOLEAN : <<id, read>> \in store'[s][k].value
    BY DEF ListedAt
  <1>1. Exists(id) /\ Sees(k.scope, notification[id].branch) /\ id \in Ids
    BY DEF RowsGrow, Known, Exists
  <1>2. CASE store[s][k] # NULL /\ store'[s][k] = store[s][k]
    BY <1>1, <1>2 DEF ListedAt
  <1>3. CASE store'[s][k].value = Fetch(k)
    BY <1>1, <1>3, FetchLists
  <1>. QED
    BY <1>2, <1>3 DEF EntriesMove

(* What a handler is about to announce. *)
Announced(t, s, k) ==
  \/ t.op = "publish"
  \/ t.op = "invalidate" /\ t.id # NULL /\ s = "redis" /\ k \notin t.todo

LEMMA AnnouncedIsListed ==
  ASSUME RowAssumption, Typed, AllListed, Next, EntriesMove, RowsGrow,
         NEW r \in Requests, Begin(r) \/ Continue(r), NEW q \in Requests,
         NEW s \in Stores, NEW k \in Keys, NEW id, id = task'[q].id,
         Announced(task'[q], s, k)
  PROVE  ListedAt(s, k, id)'
  <1>1. ASSUME task[q].id = id, Announced(task[q], s, k)
        PROVE  Known(id) /\ ListedAt(s, k, id)
    <2>1. task[q].op \in {"publish", "invalidate"} /\ (task[q].op # "publish" => id # NULL)
      BY <1>1 DEF Announced
    <2>2. Announces(task[q])
      BY <2>1, KindOfTask
    <2>. QED
      BY <1>1, <2>1, <2>2 DEF Announces, AllListed, Announced
  <1>2. CASE task'[q] = task[q]
    BY <1>1, <1>2, ListedStays
  <1>3. CASE q = r /\ ScanBatch(r)
    <2>1. PICK k0 \in Keys : /\ store' = [store EXCEPT !["redis"][k0] = NULL]
                             /\ task'[r].op = "invalidate"
                             /\ task'[r].id = task[r].id
                             /\ task'[r].todo = task[r].todo \ {k0}
      BY <1>3, ScanStep
    <2>2. CASE k = k0
      <3>1. store'[s][k] = NULL
        BY <1>3, <2>1, <2>2 DEF Announced, Typed, Stores
      <3>. QED
        BY <3>1 DEF ListedAt
    <2>3. CASE k # k0
      <3>1. Announced(task[q], s, k)
        BY <1>3, <2>1, <2>3 DEF Announced, ScanBatch
      <3>. QED
        BY <1>1, <1>3, <2>1, <3>1, ListedStays
    <2>. QED
      BY <2>2, <2>3
  <1>4. CASE q = r /\ invalidateByPrefix(r)
    <2>1. PICK S : store' = Dropped(r, S) /\ UNCHANGED notification
      BY <1>4 DEF invalidateByPrefix
    <2>2. Announces(task[r])
      BY <1>4, KindOfTask DEF invalidateByPrefix
    <2>3. task[r].id # NULL /\ task'[r] = [task[r] EXCEPT !.op = "publish"]
      BY <1>4 DEF invalidateByPrefix, Goto, Answer, Typed, Announced, Idle
    <2>4. id = task[r].id /\ Known(id)
      BY <1>4, <2>2, <2>3 DEF Announces
    <2>5. CASE Unseen(r, S, s, k)
      <3>1. Announced(task[q], s, k)
        BY <1>4, <2>3, <2>5 DEF Announced, Unseen, invalidateByPrefix
      <3>. QED
        BY <1>1, <1>4, <2>4, <3>1, ListedStays
    <2>6. CASE ~Unseen(r, S, s, k)
      BY <2>1, <2>4, <2>6, DroppedMoves, ListedAnew DEF Known
    <2>. QED
      BY <2>5, <2>6
  <1>5. CASE q = r /\ createSubmissionNotification(r)
    <2>1. PICK p, b, i : task'[r] = AfterWrite(p, i, b)
      BY <1>5 DEF createSubmissionNotification, Typed
    <2>2. store'[s][k] = NULL
      BY <1>5, <2>1 DEF createSubmissionNotification, AfterWrite, Announced, Present
    <2>. QED
      BY <2>2 DEF ListedAt
  <1>6. CASE q = r /\ (markAllRead(r) \/ Change(r))
    <2>1. task'[r] = Idle \/ \E p : task'[r] = AfterWrite(p, NULL, NULL)
      BY <1>6 DEF markAllRead, Change, Answer, Typed
    <2>2. CASE task'[r] = Idle
      BY <1>6, <2>2 DEF Announced, Idle
    <2>3. ASSUME NEW p, task'[r] = AfterWrite(p, NULL, NULL)
          PROVE  FALSE
      <3>1. task'[r].op = "invalidate" /\ task'[r].id = NULL
        BY <2>3 DEF AfterWrite
      <3>. QED
        BY <1>6, <3>1 DEF Announced
    <2>. QED
      BY <2>1, <2>2, <2>3
  <1>7. CASE q = r /\ (\/ BeginRead(r) \/ BeginChange(r) \/ FetchRows(r) \/ KeepRows(r)
                       \/ publish(r))
    <2>1. task'[r].op \in {"idle", "fetch", "read", "delete", "keep"}
      BY <1>7 DEF BeginRead, BeginChange, FetchRows, KeepRows, publish, Answer, Typed, Idle
    <2>. QED
      BY <1>7, <2>1 DEF Announced
  <1>8. q # r => task'[q] = task[q]
    BY OthersStay
  <1>. QED
    BY <1>2, <1>3, <1>4, <1>5, <1>6, <1>7, <1>8 DEF Begin, Continue

LEMMA AllListedStep ==
  ASSUME RowAssumption, Typed, AllListed, Next
  PROVE  AllListed'
  <1>1. EntriesMove /\ RowsGrow
    BY StoreStepMoves, NextGrows
  <1>2. ASSUME NEW s \in Stores, NEW k \in Keys, NEW id \in published'
        PROVE  ListedAt(s, k, id)'
    <2>1. CASE id \in published
      <3>1. Known(id) /\ ListedAt(s, k, id)
        BY <2>1 DEF Typed, AllListed
      <3>. QED
        BY <1>1, <3>1, ListedStays
    <2>2. CASE id \notin published
      <3>1. PICK r \in Requests : publish(r) /\ id = task[r].id
        BY <2>2 DEF Next, Begin, Continue, BeginRead, BeginChange,
           createSubmissionNotification, markAllRead, FetchRows, KeepRows, Change,
           ScanBatch, invalidateByPrefix, publish, Expire, Connect, OpenStream,
           HeartbeatFails, ClientLeaves, Unsubscribe
      <3>2. Announces(task[r])
        BY <3>1, KindOfTask DEF publish
      <3>3. Known(id) /\ ListedAt(s, k, id)
        BY <3>1, <3>2 DEF Announces, AllListed, publish
      <3>. QED
        BY <1>1, <3>3, ListedStays
    <2>. QED
      BY <2>1, <2>2
  <1>3. ASSUME NEW q \in Requests, NEW s \in Stores, NEW k \in Keys, NEW id,
               id = task'[q].id, Announced(task'[q], s, k)
        PROVE  ListedAt(s, k, id)'
    <2>1. CASE \E r \in Requests : Begin(r) \/ Continue(r)
      BY <1>1, <1>3, <2>1, AnnouncedIsListed
    <2>2. CASE UNCHANGED task
      <3>1. task[q].op \in {"publish", "invalidate"}
            /\ (task[q].op # "publish" => id # NULL)
        BY <1>3, <2>2 DEF Announced
      <3>2. Announces(task[q])
        BY <3>1, KindOfTask
      <3>3. Known(id) /\ ListedAt(s, k, id)
        BY <1>3, <2>2, <3>1, <3>2 DEF Announces, AllListed, Announced
      <3>. QED
        BY <1>1, <3>3, ListedStays
    <2>. QED
      BY <2>1, <2>2 DEF Next, Expire, Connect, OpenStream, HeartbeatFails, ClientLeaves,
         Unsubscribe
  <1>4. ASSUME NEW q \in Requests, NEW s \in Stores, NEW k \in Keys,
               Announced(task'[q], s, k)
        PROVE  ListedAt(s, k, task[q].id)'
    BY <1>3, <1>4 DEF ListedAt
  <1>. QED
    BY <1>2, <1>4 DEF AllListed, Announced

LEMMA AlwaysAllListed == Spec => []AllListed
  <1>1. Init => AllListed
    BY DEF Init, AllListed, Idle
  <1>2. Typed /\ AllListed /\ [Next]_vars => AllListed'
    <2>1. ASSUME AllListed, UNCHANGED vars
          PROVE  AllListed'
      BY <2>1 DEF AllListed, ListedAt, Exists, vars
    <2>. QED
      BY <2>1, RowAssumption, AllListedStep
  <1>. QED
    BY <1>1, <1>2, AlwaysTyped, PTL DEF Spec

(* Whoever heard of a notification finds it in every list that is there    *)
(* and was not fetched around a write.                                     *)
THEOREM WhoHearsAlsoSees == Spec => []HeardIsListed
  <1>1. AllListed => HeardIsListed
    BY DEF AllListed, ListedAt, HeardIsListed
  <1>. QED
    BY <1>1, AlwaysAllListed, PTL

=============================================================================

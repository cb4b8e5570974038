# TLA+ verification of xfm-backend

The backend manages a chain of restaurants: party bookings, monthly inventory
statements, guest offers, manager reports, guest feedback, users and their
sessions, and the caches and events that keep its dashboards fresh. It is an
Express service over MySQL (through Prisma) with an optional Redis. This
directory holds TLA+ models of its modules, TLC configurations that check them
on small instances, and theorems about them proved with TLAPS.

Almost every operation of the service has one shape: an async handler reads
rows, checks its rules in JavaScript, and then issues a write whose WHERE clause
names the id and little else. Handlers of one process interleave at every
`await`, and several processes may share the database. The hard questions are
therefore which rules survive a guard that acts on a stale read, which records
of one fact stay consistent when they are written by different calls, which
cached answers are stale and for how long, and whether retries end. The models
are built around those questions.

## 1. Inventory of the system

Paths are relative to `src/src/`.

| Component | State | Operations | Hard behaviour | Correct when | Modules |
|---|---|---|---|---|---|
| Booking operations (`modules/booking/booking.service.ts`) | `bookings`, `booking_pax_adjustments`, `booking_status_history` | create, update, soft delete, pax adjustment, actual pax, status; lists, dashboard, calendar, reports | guards on stale reads, compare-and-set with retry, unique-number retry, two writes outside a transaction, reports made of parallel queries | pax is neither lost nor doubled, history and stamps explain the status, every request is answered, figures of one report agree | `Booking`, `BookingReports` |
| Booking rules (`modules/booking/booking.logic.ts`) | none | status table, ledger arithmetic, pax summary, warnings | | they follow the status and the ledger | `BookingLogic` |
| Inventory (`modules/inventory/`) | items, statements, lines | item and category admin, create statement, line updates, status DRAFT/SUBMITTED/LOCKED, report | carry-over of closing stock, edits racing the lock, overwritten counts | an edited line adds up, closing stock never goes below zero, a locked statement was submitted, a carried opening stock is fixed | `Inventory`, `OperationsReports` |
| Guest offers (`modules/guest-offer/`) | discount and entertainment logs | create, update, delete, approve, reject | approval racing an edit, recomputed discount, defaults of a partial schema | decision and signature agree, an unraced edit leaves the right amount | `GuestOffers`, `OperationsReports` |
| Manager reports (`modules/manager-report/`) | one report per branch and day | create (revives a soft-deleted one), update, approve, reject, delete, comment | edit racing approval, two creations racing | a deleted report returns only by a creation, decision and signature agree | `ManagerReports`, `OperationsReports` |
| Sessions (`modules/auth/`, `middleware/auth.ts`) | token version, refresh families, cached session snapshot | login, refresh, logout, the guard | refreshes racing, cached snapshot, revocation, lost cache | an ended session stops being accepted, a spent token buys nothing | `Sessions` |
| User administration (`modules/user/`) | users | create, update, status, role, password, delete | version bump and update are two calls | a change of rights reaches every session | `Sessions` |
| Response cache (`lib/cache.ts`) | key/value store with TTL, Redis or in-process | read-through, delete by key or prefix | a fill racing an invalidation, one-way fallback per process | a stale answer has a reason and a bounded life | `LiveViews` |
| Realtime (`lib/realtime.ts`, `modules/realtime/`) | subscribers | subscribe, publish, heartbeat, disconnect | failing and leaving clients | who heard finds the row, clients that left are forgotten | `LiveViews` |
| Notifications (`modules/notification/`) | notification rows | create, mark read, mark all, delete, list, count | created after the write they announce | a submission is announced, lists catch up | `LiveViews`, `Inventory` |
| Feedback and analytics (`modules/feedback/`, `modules/analytics/`) | feedback rows, coalescing window, two levels of caches | submit, list, aggregate | client retries, dropped invalidations | one row per submission, bounded staleness, every feedback counted once | `FeedbackReports` |
| Dashboard, reports, mail (`modules/dashboard/`, `modules/reports/`, `lib/report-mailer.ts`) | none | aggregates, spreadsheets, mails | reads at different instants, limits of rows, ends of periods | what tells of the same rows agrees | `BookingReports`, `FeedbackReports`, `OperationsReports` |
| Branches (`modules/branch/`) | branch rows | create, update, activate, delete | deactivation while its branch is used | | as the others meet them |
| Settings (`modules/settings/`) | settings | read, upsert | | | not modelled |
| HTTP shell, utilities, schema, seeds | none of their own | | | | where used |

Interaction: write handlers drop cached lists and publish a change event
(realtime); submissions also create notifications; every request passes the
session check, which rests on the cache; nearly every handler applies
`resolveBranchScope`, which confines a branch manager to their branch; the
dashboards and reports read the tables of all the others.

`PROJECT.json` lists the components with their status, and every hazard with
its line and the properties aimed at it.

## 2. Plan

Done: booking and inventory with their abstract specifications and proofs; the
approval workflow of manager reports and guest offers; sessions with user
administration; cache, events and notifications; everything that is read from
the tables. Every invariant and action property of the passing runs, and every
refinement, is also a theorem; the liveness properties are model-checked.

Left: the creation and edit of branches, and settings. Both are single writes
about which the source promises little.

## 3. The booking modules

`BookingLogic` holds the pure rules (status table, ledger sum, pax summary,
warnings). `Booking` is the write side of `booking.service.ts`.

*State.* `row[b]` is the row of `bookings` (number, branch, party date, pax
columns, status, soft-delete flag, the three stamps), or `NoRow` before its
insertion. `ledger[b]` and `history[b]` are the rows of the pax ledger and the
status history, oldest first. `task[r]` is the local state of the handler
running in slot `r`: the values it has read and the arguments it was called
with. `today` is the current day in Dhaka; `failures` counts dead requests.

*Actions.* Each handler is split at its awaits. A `Begin` action is the guard read
with every early return of the handler: the 404, the branch scope, the status
rule, the date rule. A request a guard rejects changes nothing and is no step.
The later actions are the writes, and they test what the code's WHERE clause
tests and no more:

| Handler | Actions |
|---|---|
| `createBooking` | `BeginCreate`, `InsertBooking`, `BookingNumberCollides` (at most 5 attempts) |
| `updateBooking` | `BeginUpdate`, `WriteUpdate` |
| `deleteBooking` | `BeginDelete`, `WriteDelete` |
| `addPaxAdjustment` | `BeginAdjust`, `CompareAndSetPax`, `LoseCompareAndSet`, `RereadPax`, `RecordAdjustment` (at most 3 attempts) |
| `setActualPax` | `BeginActualPax`, `WriteActualPax` |
| `setBookingStatus` | `BeginStatus`, `WriteStatus` (status, stamp and history row are one `$transaction`) |
| any | `RequestDies`: a database error or the end of the process between two calls |
| | `DayPasses`: midnight in Dhaka |

*Abstractions.* Of the editable columns only the party date is read by another
rule; it stands for them all. The nested create of `createBooking` and the
`$transaction` of `setBookingStatus` are atomic. A booking number is the pair of
the party date and the random suffix. The cancellation reason is taken as
present. The lookup of the branch in `createBooking` is the constant
`ActiveBranches`. The publication and the invalidation at the end of a handler
touch cache and subscribers only; `LiveViews` has their pattern. Pax columns are
unbounded integers (the code bounds one adjustment to 100000 and the column is
32 bits wide; it takes more than 21000 increases of one booking to overflow).

*Abstract specifications.* `PaxCounter`: `expectedPax` is a counter that each
adjustment moves once, in one step, never below zero. `BookingRules`: the rules
as the handlers state them, each operation atomic on the current row.
`BookingRefinement` has the two refinement mappings. `Booking` implements
`PaxCounter` under every interleaving, and `BookingRules` only while one request
is in flight; with two, rules that rest on a stale read are lost.

### Runs

All runs use `MCBooking`. Deadlock is not checked, here and in all the runs:
clients owe nothing, rows and bounds run out, and then the system stands still.

| Run | Instance | Shows |
|---|---|---|
| `booking_serial` | 2 bookings, 1 slot, 1 user, 3 days, 1 suffix, 1 death | each handler follows the atomic rules, in whatever sequence |
| `booking_lifecycle` | 1 booking, 2 slots, admin and manager, 2 branches, 2 days, 1 death | completed bookings have an actual pax; history explains the status; stamps agree with the history; managers stay in their branch |
| `booking_pax` | 2 bookings of one number, 2 slots, 3 adjustments, closings included | no adjustment is lost or doubled, `PaxCounter` is implemented (so pax is never negative), no loop exceeds its attempts, and every request is answered: also a creation that loses its number to another one draws at most five times |

*Bounds.* `MaxDay` (days), `MaxAdjustments` (ledger length beyond which no
adjustment begins), `MaxFailures` (deaths), the finite `Bookings` (`IdLeft`: a
creation begins only if an id is left), `Requests` (handlers in flight) and
`NumberSuffixes`. One booking suffices wherever a property relates the parts of
one booking, since no handler touches two. Two meet in the number: there is one
suffix, so that the numbers of a day collide at once and a moved booking keeps a
number of its old day. In `booking_pax` both are created in flight, the loser
of the race finds the number taken at every draw, and gives up after the fifth;
that the numbers are unique is no property of the handlers but the guard of
`InsertBooking`, the unique index of the schema. Two slots show a race of guard
and write. With three adjustments by the other slot, an adjustment may lose its
compare-and-set three times, and may meet a value that moved away and came back.
Deaths are in the two other runs; `LedgerBalanced` says nothing once there is
one. The slots are symmetric in the run without liveness properties.

*Fairness.* `FairSpec` has weak fairness of `Continue(r)`: a handler that has
begun takes its next step, because every database call settles (with a result
or an error) and the event loop then resumes the handler. Nothing is assumed of
clients, of the calendar or of failures.

### What the code does not keep

Two statements of the source are definitions of `Booking` that no run checks,
because they do not hold:

- `ClosedIsTerminal`: `booking.logic.ts:56` calls CANCELLED and COMPLETED
  terminal; `setBookingStatus` writes WHERE id only, so of two changes that both
  passed the guard both are applied.
- `ExpectedPaxIsLedgerSum`: `booking.logic.ts:24` defines expected pax as initial
  pax plus the ledger's sum; pax and ledger row are two calls outside a
  transaction, and a death between them parts the two. `LedgerBalanced` says that
  nothing else does.

The first pattern is general: the guards of `deleteBooking` (a cancelled booking
is protected), of `addPaxAdjustment` (a closed booking is not adjusted) and of
`setBookingStatus` (no completion before the day) are lost in the same way when
another handler writes between the guard and the write.

## 4. The inventory modules

`Inventory` is the write side of `inventory.service.ts`.

*State.* `item[i]` says whether item `i` exists and is listed on new statements.
`statement[s]` is the row of the statement named by branch and month, or `NoRow`;
the unique index on the two keeps statements apart and nothing deletes one.
`line[s][i]` is its line for item `i`, or `NoRow`. `announced` holds the
submissions that have a notification, `task` the handlers in flight, `failures`
the dead requests.

| Handler | Actions |
|---|---|
| `createItem`, `updateItem`, `deleteItem` | `CreateItem`, `UpdateItem`, `DeleteItem` |
| `createStatement` | `BeginCreate`, `ReadItems` and `ReadPrevious` (two queries in parallel, in either order), `InsertStatement`, `MonthIsTaken` (unique index) |
| `updateStatementLines` | `BeginUpdateLines`, `CheckLines` (opening check, new counts, negative-stock check), `WriteLines` |
| `updateStatementStatus` | `BeginStatus`, `WriteStatus`, `AnnounceSubmission` |
| any | `RequestDies` |

*Abstractions.* The guard and the write of an item operation are one step,
because the write touches a column the guard does not read: both orders end in
the same row. A `findUnique` or `findFirst` with its `include` is one step,
although the client may issue the included lines as a second query: lines would
then be newer than the status they are read with, and no property that passes
under races rests on that status. The writes of `updateStatementLines` are one
transaction, which locks the rows it updates and is taken as atomic. A request
that names an item twice computes both edits from the same read and so has the
effect of naming it once, with one of the two. `submitted`
stands for "`submittedAt` is set". `id` is the order in which insertions of
statements commit (the sequence behind the column may hand out numbers in
another order; the code never compares ids). `announced` is a set: repeated
announcements of one submission are not counted. Categories decide nothing for
statements; they are in `OperationsReports`.

*Abstract specification.* `InventoryRules`: a statement opens with what the
latest earlier one closed with, an edit recomputes whole lines from current
counts, opening stock is the first statement's, a locked statement is neither
edited nor submitted. `Inventory` implements it while one request is in flight.

### Runs

All runs use `MCInventory`.

| Run | Instance | Shows |
|---|---|---|
| `inventory_serial` | 1 item, 3 months, 1 slot, item administration, 1 death | each handler follows the atomic rules, carry-over included |
| `inventory_races` | 1 item, 2 months, admin and manager, 2 slots | written lines add up whatever updates overwrite each other; a carried opening stock is fixed, although months are created while updates are under way; what is locked was submitted; a manager's submission is eventually announced |
| `inventory_closing` | 1 item, 2 months, 2 slots | *violation*: a carried line closes at zero until it is edited |

*Bounds.* `MaxMonth`: two months are a statement and its predecessor; three let
"latest earlier" differ from "first" and let a month be skipped, which the serial
run needs. The races have two, so that the month before may be created between the
check of an update (which finds the opening stock editable) and its write. They
have one branch: no handler touches statements of two, and that submitters are
of the branch is left to the theorem `StatementsStayHome`.
`Inputs`: an initial count of 1, a delivery of 2, a loss of 1, each
naming one count, so that updates keep the counts they do not name, overwrite
each other's, and would go below zero; counts stay within a few units, because
a line is set and never incremented. `Requests`: two handlers show a
race of guard and write. `MaxFailures`: one death in the serial run, none where
the announcement is checked, since a request that dies between the status write
and the notification loses the announcement and nothing restores it.

*Fairness* as for booking: a handler that has begun takes its next step.

### What the code does not keep

- `API Documentation.md:1379` says the closing stock is always computed;
  `createStatement` stores only the opening stock and leaves the closing stock at
  its default 0 until the line's first edit. A month without edits thus opens the
  next one at zero. This is the run `inventory_closing`.
- `LockedLinesAreFrozen` (not checked): `inventory.service.ts:271` forbids editing
  a locked statement; the write of the lines does not test the status.
- `LockedIsFinal` (not checked): `inventory.service.ts:352` says a locked statement
  cannot be changed; nothing is asked of a change to DRAFT.

The opening stock rules are lost in the same way: whether it is editable, and
what it is carried over from, are read before the transaction that writes.
`CarriedOpeningIsFixed` is what remains of them under races.

## 5. The approval modules

`ManagerReports` (`manager-report.service.ts`) and `GuestOffers`
(`guest-offer.service.ts`) are two of a kind: a manager enters a record, an
approver decides on it, and each handler reads, applies its rules and writes
WHERE id. A `Begin` action (in `GuestOffers` the action named after the handler)
is the guard read; it leaves in `task[r].data` the columns that will be written,
and no others. `fresh` says that no other write has reached the record since.

| Handler | Actions |
|---|---|
| `createReport` | `BeginCreate` (a deleted report of the day is revived, its deletion undone and its comment and signature kept), `InsertReport` or `UpdateReport`, `FailOnDuplicate`, `Announce` |
| `updateReport` | `BeginUpdate`, `CheckDate` (only when the date changes), `UpdateReport`, `FailOnDuplicate`, `Announce` (a manager's edit resubmits a rejected report) |
| `setReportApproval`, `deleteReport` | `BeginApproval`, `BeginDelete`, `UpdateReport` |
| `addReportComment` | `AddComment` |
| discounts and entertainments | `Create…`, `Update…`, `Set…Approval`, `Delete…`, each followed by `InsertLog` or `UpdateLog` |

*Abstractions.* Columns that no rule reads are left out. Of a rejection comment
only its presence is kept, of a signature whose it is. Money is in hundredths and
rounded half up, as `roundMoney` does. `hadLunch` stands for both meals. The
approver's profile is read in a later call; profiles do not change here.
Nothing is fair, so that a request which dies is one that takes no further step.

*Abstract specification.* `ApprovalRules`: a record is pending, decided, perhaps
resubmitted, removed and perhaps revived; an approval is final. Under races the
modules do not implement it (a rejection that passed its guard undoes an
approval); `UnracedWritesFollowTheRules` compares every single write that nothing
overtook with a step of `ApprovalRules` under the mapping `Status`, `Removed`.

| Run | Instance | Shows |
|---|---|---|
| `manager_reports` | 2 reports, 2 branches, 2 days, manager and super admin, 2 slots | a deleted report comes back only by a creation, pending and undecided, whatever else was under way; status, decider and signature agree under every race; managers write in their branch; unraced writes follow the rules |
| `guest_offers` | 1 log of either kind, 2 branches, manager, COO and super admin, 2 bills, 2 percents, 2 slots | the same for offers, and an unraced edit leaves the right amount |
| `guest_offer_meals` | 1 log, a manager whose clients always say lunch was had | *violation*: an update of the bill alone clears the meal |

*Bounds.* Two reports and two days are needed for an edit that moves a report to
a day that is taken or whose report was deleted (that a day has one report is
the guard of `Store`, the unique index of the schema, and no property), two
branches for a manager and somebody else's report. A log is alone, since no
handler touches two. The bills 10 and 25 with 10 and 50 percent make a product
that has to be rounded. Slots and report ids are symmetric.

*What the code does not keep.*

- `guestDiscountUpdateSchema` is the creation schema made partial; Zod 4 applies
  the default of an absent optional field, so that an update which leaves the meals
  out writes FALSE. `API Documentation.md:1278` says an update takes any subset of
  the fields. This is the run `guest_offer_meals`.
- `AmountIsTheProduct` (not checked): the API documentation calls the discount
  amount bill times percent; two racing edits, one of the bill and one of the
  percent, store an amount that is neither product. `UnracedEditsMendTheAmount` is
  what remains.
- An approved report or log may be rejected, edited or deleted by a request that
  passed its guard before the approval.

## 6. Sessions and user administration

`Sessions` is `auth.service.ts`, `middleware/auth.ts`, `user.service.ts` and the
session keys of `cache.ts`.

*State.* `user[u]` is the row (role, activity, deletion, token version, password),
`snapshot[u]` and `family[u]` what the cache keeps for the guard and for the
rotation of refresh tokens, `tokens` the pairs of tokens issued so far, by
their claims. `task[r]` is the handler in slot `r`, `served` counts requests.

| Handler | Actions |
|---|---|
| `login` | `BeginLogin`, `ClearOldSession`, `IssueFirstPair` |
| `refreshAccessToken` | `BeginRefresh`, `CheckFamily`, `Rotate`; on reuse `Revoke`, `Invalidate` |
| `logout` | `BeginLogout`, `Revoke`, `Invalidate` |
| `authGuard` | `BeginRequest` (snapshot at hand), or `LookUp`, `KeepSnapshot` |
| `createUser`, `updateUser`, `setUserStatus`, `deleteUser` | after the guard: `CreateUser`; `BeginUpdate` or `BeginDelete`, `incrementTokenVersion`, `WriteChange`, `Invalidate` |
| cache | `SnapshotExpires`, `CacheIsLost` (a restart, or the fallback to the own store) |

*Abstractions.* A user is named by the email address, which is not changed.
Any token issued may be presented at any time by anybody who holds it; an expired
one is one nobody presents. `parent`, `early`, `raced` and `fresh` are history
variables: they name the races a property excuses, and no action reads them.

Run `sessions`: two users (one a super admin, the other a super admin too or not
there yet), two slots, `MaxOperations` = 3 requests, everyone logged in at first,
changes of role, password and activity, deletion, creation. Three requests are
enough for a change, a request that races it, and one after both; two users for
super admins who demote each other. Fairness: `Continue(r)` as above, and
`SnapshotExpires(u)`, because NodeCache and Redis drop an entry whose time has
come. It shows

- `OldPasswordsEnd`: after a change of password only a login that read the user
  between the version bump and the write still holds the old one;
- `ChangesShowAtOnce` and `ChangesShowInTheEnd`: the guard sees the user as last
  written, but for a write that has not come to its invalidation or a lookup that
  raced it, and what such a lookup kept lasts no longer than its time to live;
- `LastSuperAdminStays`: the last active super admin goes only through a request
  that another one overtook;
- `SpentTokensBuyNothing`: a refresh token buys one pair, unless two rotations
  race or the family is not in the cache.

The excuses are real: each of them, left out, is violated by the code.

## 7. Cache, events and notifications

`LiveViews` is `cache.ts`, `realtime.ts` with the event streams, and
`notification.service.ts`, the component that uses both.

*State.* `notification`, the rows; `store[s][k]`, what Redis or the store of a
process keeps under a key; `mode[p]`, which of them process `p` uses;
`stream[c]`, the event stream of a client; `published`, the events that are out;
`task[r]` and `writes`.

| Code | Actions |
|---|---|
| `withCache` | `BeginRead` (a hit answers), `FetchRows`, `KeepRows` |
| `invalidateByPrefix` | `ScanBatch` (Redis only, any key found), `invalidateByPrefix` (the end) |
| connection, fallback | `Connect`; `Reaches` says which stores a call works on, a failing one included |
| `subscribe`, SSE handler | `OpenStream`, `HeartbeatFails`, `ClientLeaves`, `Unsubscribe` |
| `publish` | `publish`, with any set of receivers failing |
| notifications | `createSubmissionNotification`, `BeginChange`, `Change`, `markAllRead` |

*Abstractions.* A call that fails on Redis may have been carried out there. `late`
is a history variable of an entry: the rows changed while it was fetched, or
it was left in a store that an invalidation did not reach. A publication reaches
the subscribers of its process in one step, as `publish` does.

Run `live_views`: one process with its own store and with Redis, two keys (the
admins' list and the unread count of a branch), two slots, one notification, two
writing requests, one client. One process is enough for the fallback, since what
it leaves in Redis is what another process would read. A request takes the first
free slot, so that slots need no symmetry, which liveness forbids. Fairness: handlers continue, entries expire, and Node
emits "close" for a connection that is gone, so that `Unsubscribe` happens. It
shows that a stale list has one of three reasons (`StaleForAReason`), that who
heard of a notification finds it (`HeardIsListed`), that the lists are right for
good once writing stops (`ListsCatchUp`), and that the hub forgets clients
(`HubForgets`).

Observed, without a run: `realtime.ts:41` promises events to every connected
dashboard, yet a stream whose heartbeat failed stays open without them; a stream
also outlives the session that opened it. The booking services publish before
they invalidate, so that `HeardIsListed` does not hold for them.

## 8. What is read from the tables

Three modules of operators over the tables, each with just enough writers to
make the tables vary, composed in `MCReporting` and explored one `side` at a time,
because they share no rows.

- `BookingReports`: lists, dashboard, calendar, warnings, reports and export of
  `booking.service.ts`, and the mails of `report-mailer.ts`. `past` holds the
  tables since a report was asked for, and `seen` which of them each query saw:
  the six queries of a report run in parallel and a booking may be written among
  them; a mail reads reports and rows one after the other, each report in one
  step. The model reads the current tables; in the code a report may come from
  the cache of `getBookingReport` (`booking.service.ts:743`) and be up to 20
  seconds older, so that it is of an earlier moment still.
- `FeedbackReports`: submission with its retry (`BeginSubmit`, `Insert`, `Die`),
  the derived rating, the analytics caches (`getBranchPerformanceMisses`,
  `getDashboardSummaryMisses`, `KeepFetched`, `invalidateAnalyticsCaches` with its
  coalescing window, `Tick`), and the aggregates of `analytics.service.ts`,
  `dashboard.service.ts` and `reports.service.ts`. Time is counted in ticks.
- `OperationsReports`: lists, summaries, widgets and exports of guest offers,
  manager reports and inventory, and the pages of `queryBuilder.ts`. A page is
  asked for with its number, its limit and a column and direction to sort by; the
  rows are in the order of that column, and rows that tie in it are in any order,
  chosen anew by every query (`Pages`). Views are read
  past their cache of 20 seconds; the writers are abbreviated, their rules are the
  modules of sections 4 and 5. What there is at first is a constant (`FirstLogs`,
  `FirstReports`, `FirstStatements`), and so are what complaints there are
  (`ReportOf`) and the limits lists are asked for with (`PageSizes`).

The rows of `BookingReports` keep expected pax and ledger together
(`BookingRows`): what a death between the two writes does to them is the subject
of `Booking`, section 3. The two are written in one step here, so that a report
whose queries fall between the two calls is not among the behaviours; the
aggregates read the column alone, and each call is one write to them.

Run `reporting` checks

| Property | Says |
|---|---|
| `FiguresAgree` | the sums of one report differ by no more than the writes that came between its queries, and agree exactly with the export and with the single days when none did |
| `MailAddsUp` | rows, totals and text of a mail agree, and the weeks cover a month once |
| `ViewsAgree` | dashboard, calendar, upcoming list, warnings and report tell the same of today |
| `ResendsGetTheirRow` | however often a feedback is sent, one row is stored and every answer is that row |
| `AnalyticsLagIsBounded` | a cached figure lacks nothing for longer than its time to live, the summary's branch figures for no longer than two |
| `FeedbackFiguresAgree` | every figure counts each feedback once: ratings, days and months, branches, lists, percentages; the overall rating is fair to every form |
| `OperationsAgree` | lists and pages, widgets, summaries, month's report, categories and sheets agree, with the exceptions it names |

The two last are conjunctions of named parts (`RatingsAgree`, `PeriodsAgree`,
`BranchesAgree`, `ListsAgree`, `PercentagesAgree`, `RatingIsFair`; `LogsAgree`,
`PagesShowOnce`, `ReportsAgree`, `InventoryAgrees`). The exceptions are written
out as equations, so that they say how far figures are apart: the week of the
dashboard and the same week from its Sunday morning on differ by what was given
that morning; the totals of the categories are those of the branches and of the
statements of branches that were deleted. `PagesShowOnce` promises a row to one
page and keeps it off the others only where its ties are all on that page;
otherwise it says between which pages the row may be (`FirstPage`, `LastPage`),
and for every page how many rows it has.

*Bounds.* Bookings: 3, one write during a report, a limit of 2 rows so that
lists are cut off, a month of 30 days with parties on three of them. Feedback: 3
submissions of 2 ids, two at a time; days and months of 2, a window of 1, times
to live of 2 and 1, 4 ticks: every order of submission, wipe, fill and expiry
fits. A query is shorter than a tick and one cache is read at a time. The wipe
is atomic here (`LiveViews` has the scan). Operations: 3 logs (two of which, to
begin with, tie on their day), 3 reports, 2 branches by 2 months, 2 categories,
2 changes on two days (`SecondDay`), an export limit of 1 so that sheets are cut
off, pages of 2 rows, sorted by day or amount, up or down. The run looks at the
fairness of the rating once in a behaviour, for all 1296 forms. None of these
bounds is in the theorems of section 9.

Observed, without a run:

- `analytics.service.ts:17` says analytics are at most one window stale; a wipe the
  window skipped is never made up for, and the figures stay for their time to live.
- The dashboard's week begins on Sunday at the current time of day, and lacks
  Sunday's earlier feedback. Cached views of today survive midnight by their time
  to live.
- Guest offers are listed by `logDate` unless the caller names a column
  (`guest-offer.validation.ts:40`), with nothing to break ties: logs of one day
  that the end of a page cuts may come twice or never as the pages are turned.
- The guests in a mail's text include cancelled parties, the attached matrix leaves
  them out.
- The dashboard's rows stop at 200, the counts beside them go on.
- In the month's inventory report `missing` falls short, and may be negative, by
  the branches with a statement that were deleted; it counts locked statements as
  submitted while the dashboard's widget does not; items of a deleted category
  stay on new statements.
- `sendDailyBookingReport` and `sendMonthlyBookingReports` are called by nothing in
  the service.

## 9. Proofs

Eight modules hold theorems. Each is about one module of the model, but for
`ReportingProofs`, which is about the three of section 8, and holds for all values
of its constants that satisfy the named assumptions: any number of request slots,
rows, users and days.

The shape is the same wherever handlers interleave. A type invariant is not
inductive: nothing in it says that what a running handler is about still exists,
or what it is going to write. `Typed` adds that. Frame lemmas then say, once for
all handlers, what a step can change. Each property is strengthened by what a
guard established and no other handler can undo: that it cannot be undone is why
the property survives the stale read.

### Booking

`BookingProofs`, from `BookingAssumption`:

| Theorem | Statement |
|---|---|
| `TypeCorrect` | `Spec => []TypeOK` |
| `CompletedIsCounted` | `Spec => []CompletedHasActualPax` |
| `PaxStaysNonNegative` | `Spec => []PaxNeverNegative` |
| `PaxIsACounter` | `Spec => ImplementsPaxCounter` |
| `HistoryIsTraceable` | `Spec => []HistoryExplainsStatus` |
| `StampsAreTheHistorys` | `Spec => []StampsMatchHistory` |
| `ManagersStayHome` | `Spec => []ManagersKeepToTheirBranch` |
| `LedgerStaysBalanced` | `Spec => []LedgerBalanced` |
| `OneByOneTheRulesHold` | `OneSlot` implies `Spec => ImplementsBookingRules` |

`Typed`: a handler past its guard holds a stored row (`HoldsRow`), and rows are
never removed. On top of it:

- `Counted`: a completion in flight has seen an actual pax, and no handler sets
  `actualPax` back to NULL;
- `PaxSafe`: an adjustment in flight would not take the value it *saw* below zero,
  and the compare-and-set only succeeds on that value;
- `Traced`: a status change in flight starts from a status the history has reached
  and is an allowed transition from it; the history only grows;
- `Scoped`: a manager's status change in flight is about a booking of their
  branch, and no handler changes a booking's branch;
- `Signed`: a stamp is the author of the *last* history row that reaches its
  status (`LastBy`), stated without a maximum so that an append can be reasoned
  about; status, stamp and history row are one transaction;
- `Balanced`: the row equals its records plus what handlers hold between their
  compare-and-set and their ledger row (`Pending`), and those handlers are
  finitely many because they join one at a time: no bound on the number of
  request slots is assumed. A booking without a row has an empty ledger, which
  is what the insert needs;
- `Serial`, for the refinement: with one slot nothing comes between a read and
  its write, so what a guard read is still true (`Fresh`). `OneSlot` is a
  hypothesis of the theorem and not an assumption of the module: the run
  `booking_serial` has one slot too, and with two the refinement is false, as
  section 3 says. The theorem uses that `NULL` is not a row of the rules
  (`RuleRowAssumption`).

`BookingLogicProofs` is about the folds of `booking.logic.ts`, for ledgers of
any length. The library's induction theorems take an operator as a parameter,
which no installed prover can instantiate; here induction is over a *set*, the
set of all that a statement holds of (`NumbersByInduction`,
`SubsetsByInduction`, from well-foundedness). The library defines a fold by a
CHOOSE of a function that satisfies an equation; `FoldExists` shows that such a
function exists over finite sets, `FoldAdds` that any such function adds up its
set in whatever order, `AddsUnique` that the sum is unique. From these:

| Result | Statement |
|---|---|
| `SumStep`, `SumNone` | a finite sum is a number, and one member plus the others |
| `AddsUnion`, `SumOfParts`, `CountOfParts` | the sums and counts of the parts of a set make that of the set |
| `ExpectedPaxEmpty`, `ExpectedPaxAppend` | `computeExpectedPax` of one more adjustment |
| `SummaryIsExpectedPax` | `computePaxSummary` and `computeExpectedPax`, which sum in different ways, give one expected pax |

### Inventory

`InventoryProofs`, from `InventoryAssumption`:

| Theorem | Statement |
|---|---|
| `InventoryTypeCorrect` | `Spec => []TypeOK` |
| `EditsAddUp` | `Spec => []EditedLinesAddUp` |
| `LocksFollowSubmissions` | `Spec => []LockedWasSubmitted` |
| `StatementsStayHome` | `Spec => []SubmitterIsOfTheBranch` |
| `CarriedOpeningStays` | `Spec => CarriedOpeningIsFixed` |
| `OneByOneTheRulesHold` | `OneSlot` implies `Spec => ImplementsInventoryRules` |

`Typed` again adds that a handler which has read a statement holds the key of a
stored row. That the carried stock is a number needs the latest earlier month to
exist (`LatestExists`, by well-foundedness of the naturals). The strengthenings:

- `Summed`: the lines an update is about to write add up by themselves;
- `LockSafe`: a lock in flight is about a statement that has been submitted, and
  no handler takes the submission stamp back;
- `Attributed`: a creation or submission in flight is entitled to put its user's
  name on the statement;
- `Carried`: ids grow (`IdsGrow`), so a statement never gains an older one after
  its creation (`OlderStays`); hence every update in flight about a statement
  with an older one has found it closed to opening stock and still holds the
  opening stock that is stored;
- `Serial` and `Fresh`, for the refinement, as in booking: a creation in flight
  still carries the closing stock of the latest earlier month, an edit is of the
  stored lines. `SheetAssumption` keeps `NULL` apart from a statement.

### Approvals

`ManagerReportProofs` and `GuestOfferProofs`, from the assumptions of their
modules (`Notes`, the comments of a report, is a set of Booleans):

| Theorem | Module | Statement |
|---|---|---|
| `TypesHold` | both | `Spec => []TypeOK` |
| `DeletedReportsStayDeleted` | reports | `Spec => OnlyCreationRevives` |
| `DecisionsBearTheirSigner` | both | `Spec => []DecisionsAreSigned` |
| `ManagersStayInTheirBranch` | both | `Spec => ManagersKeepToTheirBranch` |
| `UnracedWritesKeepTheRules` | both | `Spec => UnracedWritesFollowTheRules` |
| `UnracedEditsKeepTheAmount` | offers | `Spec => UnracedEditsMendTheAmount` |

`InFlight` has one shape for each kind of handler (`Creating`, `Reviving`,
`Editing`, `Deciding`, `Deleting`): the columns it will write with what values,
that its row exists and is of a branch its user may reach, which nothing undoes,
and, as long as no other write has come between (`fresh`), what its guard read.
`Signed` says of a row which combinations of status, decider, comment and
signature there are. It is inductive only because no handler writes one of these
columns without those it has to agree with: a decision writes the decision
columns together, and an edit that reopens a rejected report takes them back
together. Of all that is in flight only the columns of a
revival take the mark of deletion off (`UnmarkedByRevival`). `Mends` says
that an edit holds the amount for the factors the log will have once its own are
written, which is why only an unraced edit is right.

### Sessions and user administration

`SessionProofs`, from the assumptions of `Sessions` (tokens' versions are
numbers, `NULL` is neither a secret nor a number, and the users there are at the
start are rows of their type, `InitialUsersAssumption`):

| Theorem | Statement |
|---|---|
| `TypesHold` | `Spec => []TypeOK` |
| `OldPasswordsAreRefused` | `Spec => []OldPasswordsEnd` |
| `ChangesAreSeen` | `Spec => []ChangesShowAtOnce` |
| `OneSuperAdminRemains` | `Spec => LastSuperAdminStays` |
| `TokensAreSpentOnce` | `Spec => SpentTokensBuyNothing` |

- `Honest`: what holds of issued pairs must already hold of a login or refresh
  that has read the user and not yet issued its pair: its version is behind the
  user's, or its password is the user's and no change of it is half done, or it
  is *early* (read between bump and write);
- `Explained`: a snapshot differs from the row only if its lookup was overtaken or
  a handler is `Due` to drop it;
- `Entitled`: the caller's own rights and the guard on the target, as long as no
  administration of either has come between (`Caller`, `Guarded`);
- `Chained`: jtis grow, every parent was issued before its child, and nothing was
  bought yet with the current token of a family that is in the cache
  (`Unspent`). The pairs of a user are finitely many, so there is a next jti.

### Cache, events and notifications

`LiveViewProofs`, from the assumptions of `LiveViews` and `RowAssumption`
(neither `NULL` nor `Gone` is a row):

| Theorem | Statement |
|---|---|
| `TypesHold` | `Spec => []TypeOK` |
| `ListsAreTrueOrExplained` | `Spec => []StaleForAReason` |
| `WhoHearsAlsoSees` | `Spec => []HeardIsListed` |

An invalidation drops the keys its SCAN found when it began. `Explained` says of
every entry that differs from the rows that it was filled late or that an
invalidation is running whose list of keys still has it (`Pending`): the
property only says that some invalidation runs, which is not inductive.
`AllListed` says from when on a notification is in every entry that was not
filled late (`ListedAt`): key by key, from the moment the invalidation is past
that key. A list is replaced by what the rows say or dropped and nothing else
(`EntriesMove`), and rows are only added, read or deleted (`RowsGrow`).

### What is read from the tables

`ReportingProofs`, about each of the three modules with writers of its own:
`BookingSpec`, `FeedbackSpec` and `OperationsSpec`, from `BookingInit` and
`BookingNext` and so on. The run `reporting` takes all of these steps on one of
its sides, chosen at the start. The assumptions are `ReportsAssumption`,
`FeedbackAssumption` and `OperationsAssumption`: sets of ids are finite and
tables to begin with hold rows of their types; days have a length, the month
has 28 to 31 days and limits are natural numbers; `"all"` is not the name of a
branch, and `NULL` is neither a branch nor a rating.

| Theorem | Statement |
|---|---|
| `ResendsAreAnswered` | `FeedbackSpec => []ResendsGetTheirRow` |
| `CachedFiguresLagBriefly` | `FeedbackSpec => []AnalyticsLagIsBounded` |
| `FiguresOfFeedbackAgree` | `FeedbackSpec => []FeedbackFiguresAgree` |
| `ReportsTypeCorrect` | `BookingSpec => [](ReportsTyped /\ OneByOne)` |
| `FiguresOfReportsAgree` | `BookingSpec => []FiguresAgree` |
| `ViewsOfBookingsAgree` | `BookingSpec => []ViewsAgree` |
| `MailsAddUp` | `BookingSpec => []MailAddsUp` |
| `OperationsTypeCorrect` | `OperationsSpec => []OperationsTyped` |
| `OperationsFiguresAgree` | `OperationsSpec => []OperationsAgree` |

The first two are about steps. `OneRow`: ids are unique and every answer given is
the row of its id. `Lagging` bounds what an entry lacks by its age, not by the
clock: the two levels of the summary add their times to live, and a query under
way has an age of its own. `Caught` relates each entry and each query under way
to the last wipe.

The others are about what is computed. Little of the state has to be known:
that tables are typed, and, for reports whose queries see different moments,
which moments (`ReportsTyped`) and that one write lies between two moments in a
row (`OneByOne`). The rest is arithmetic of finite sums:

- *Parts.* Counts and sums over the parts of a set make that of the set
  (`CountOfParts`, `SumOfParts`, `AddsUnion` of `BookingLogicProofs`). Days,
  months, weeks, statuses, meals, branches and ratings are such parts, each with
  a proof that no row is in two and none is left out: for the weeks of a month
  that is the arithmetic of `splitMonthWeeks` for every month from 28 days to
  31. What is not shown is nothing or is named (`SumWithoutZeros`).
- *Moments.* A set that changes in one element changes its count by one at most,
  so that queries which are `torn` writes apart differ by `torn`
  (`CountsChangeByOne`, `WhereChangesByOne`).
- *Rows and columns.* The matrix of a mail and the categories of the month's
  inventory are summed both ways (`SumByRowsAndColumns`), by induction over the
  set of rows.
- *Limits.* Of a finite set the first `n` in an order can be taken
  (`FirstExist`), which is what `Take` chooses and `Latest` describes. A list not
  cut off is the whole set. Of two lists of the latest, one begins with the
  other.
- *Pages.* Page `n` takes the rows from `(n - 1) * limit` to `n * limit` in some
  order that the sorted column allows (`PagesOfList`). A row with `a` rows before
  its ties and `b` up to their end is among the places `a` to `b` in every such
  order, so that a page that starts at `s` has it only if `a < s + limit` and
  `b > s` (`RowTaken`), and has it for certain if `s <= a` and `b <= s + limit`
  (`RowLeftOut`). `NumberFalls` turns places into numbers of pages.
- *Quotients.* An instant is in the day or month its quotient says
  (`MonthIsOfTrend`, `DayEndsAtMidnight`, `WeekIsOfDays`). A percentage is off by
  a half at most, `n` percentages of a whole by `n` halves (`SumsAreNear`).

### Only model-checked

- Liveness (`EveryRequestAnswered`, `SubmissionIsAnnounced`,
  `ChangesShowInTheEnd`, `ListsCatchUp`, `HubForgets`): the proof system does not
  reach fairness and ENABLED. They are checked under the fairness that sections 3,
  4, 6 and 7 justify.

The other way round, two theorems are about properties that no run lists:
`PaxStaysNonNegative`, being part of what `ImplementsPaxCounter` says, and
`StatementsStayHome`, which takes two branches to say anything.

## 10. Not modelled

- Settings: one upsert per key, in parallel and outside a transaction; every key
  by itself is a register of the database, and the source promises nothing about
  several.
- The creation and edit of branches, which rest on the unique code alone.
- Averages, which are floating-point SQL; the modules count and sum.
- Layout of PDF, spreadsheets and mails, the SMTP exchange, request validation
  beyond the defaults of section 5, rate limits, the HTTP shell: formatting and
  I/O.
- Expiry and signatures of tokens: cryptography.
- Seeds and index scripts: they run once, outside the service.

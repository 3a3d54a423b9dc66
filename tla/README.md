# ServerPinger in TLA+

A verification project for ServerPinger, a reachability monitor in Python: one
process with a monitor thread, a pool of checking threads and the request
threads of a web server, over one SQLite database. The specifications are
translated from the code under `app/`; every definition names its lines in
`PROJECT.json`. TLC model-checks small instances; TLAPS proves every invariant
and action property that the passing runs check, and every refinement, for all
values of the constants. Liveness stays with TLC.

## Inventory

| Part | State | Operations | Interacts with |
| --- | --- | --- | --- |
| Monitor loop (`app/monitor.py`) | `_inflight`, the pool's queue, `last_prune` | list due targets, claim, submit, housekeeping, Check now | targets table, update check, pool |
| A check (`app/monitor.py`) | locals of `_apply_result`; `target_state`, `check_history` | read target, probe, read state, record, update, alert or remind | mailer, operators editing the same rows |
| Targets (`app/models.py`) | `targets`, `target_state`, `check_history` | create, edit, clone, pause, resume, delete | checks, loop, subscribers (cascade) |
| Subscribers (`app/models.py`) | `subscribers` | create, edit, toggle, delete; `recipients_for_target` | targets (foreign key), mailer |
| Mailer (`app/mailer.py`) | `last_email_*` settings | `notify`, `send_email`, test email | settings, SMTP server |
| Settings (`app/settings.py`) | `settings`, one row per key | `get`, `set_many`, `ensure_defaults` | everybody, key by key |
| Update check (`app/updates.py`) | `update_*` settings | `maybe_check`, `check` | loop, forced from a request, git |
| Schema and startup (`app/schema.py`, `app/__init__.py`, `run.py`) | tables, `schema_version`, `secret_key` | `migrate`, `ensure_defaults`, `_secret_key` | a second process (`--init-db`) |
| Web handlers (`app/views.py`) | none of their own | one per form and button | all of the above, from request threads |
| Probes (`app/checks.py`, the target form) | none; `targets` holds what the form let through | ICMP, TCP, HTTP | called by a check; ping, sockets, urllib |
| SQLite access (`app/db.py`) | a connection per thread | `get_db`, `execute`, `query`: one transaction per statement | all of the above |
| Statistics (`app/models.py`, `app/views.py`) | `check_history` | `status_counts`, `uptime_percent`, `prune_history` | checks append, housekeeping prunes, pages read |
| Browser (`static/js/app.js`) | status pills, counts | poll every 15 s, Check now, apply an answer | JSON API |
| Logging, paths, deployment | none that others rely on | write, look up, install | not modelled |

What makes this code hard:

- **Every statement commits by itself.** `db.execute` wraps each statement in a
  transaction of its own, so a check, a pause, a saved form or a migration is a
  sequence of steps that other threads see half done, and that a crash cuts.
- **Checks decide on what they read earlier.** The state row is read before the
  result is recorded and written after it; the target itself is read before a
  probe that may take minutes; the due list is read before the claims.
- **The claim set is the only mutual exclusion**, and it lives in memory only.
- **The stamp of an alert is stored before the alert is sent.**
- **Settings are read and written key by key**, by senders and by forms.

What makes each part correct: no target is checked twice at once and claims are
exact and always given back; no check overwrites an update other than a pause; a
DOWN is declared after N failures, announced once and then throttled; due
targets are checked eventually; the cached update result is fresh; an alert goes
to the server of one form; every subscriber in scope gets one copy and nobody
else; a process that serves finds a complete schema and keeps what was saved; a
statement is atomic and gives the write lock back; a probe is ok only on an
answer that was asked for; rows and counts of the page agree but for what moved,
the page comes to show the tables, and an uptime counts every check of its window.

## Modules

| Module | Models | Composes |
| --- | --- | --- |
| `TargetState` | the `target_state` row; what a check, a pause and a reminder compute from it | - |
| `AlertPolicy` | abstract specification: what the status and the stamp of a target may do | `TargetState` |
| `ClaimProtocol` | abstract specification: a target is free, queued or checking, and moves one step at a time | - |
| `Alerting` | one check statement by statement, operators, crashes, failing statements | `TargetState`, implements `AlertPolicy` and `ClaimProtocol` |
| `Scheduler` | the loop, the pool and its queue, claims, Check now, housekeeping | implements `ClaimProtocol` |
| `AtomicStatements` | abstract specification: a statement takes effect at one moment or not at all, and dependent rows go with their target | - |
| `Database` | connections, pragmas, transactions, the write lock, failing statements, crashes | implements `AtomicStatements` |
| `UpdateCheck` | `maybe_check`, `check`, the switch, the four rows of the cached result, and what the footer says of them | - |
| `Mailer` | `notify`, `send_email`, the settings form and the rows they share | - |
| `Subscribers` | subscribers, groups, deletes that cascade, `recipients_for_target` | - |
| `Startup` | `create_app` up to serving, by one or several processes | - |
| `Probes` | the target form and what ping, TCP and HTTP probes conclude on three platforms | - |
| `History` | appending to `check_history`, pruning, uptimes | - |
| `Dashboard` | the open page: polls and Check now, answered in any order | - |
| `AlertingProofs`, `SchedulerProofs`, `DatabaseProofs`, `UpdateCheckProofs`, `MailerProofs`, `StartupProofs` | theorems | the module they are named for |
| `DashboardProofs` | theorems about the page and the history | `MCDashboard` |
| `FormsProofs` | theorems about what the forms store: subscribers and targets | `Subscribers`, `MCProbes` |
| `MC...` | symmetry and values for TLC | the module they are named for; `MCDashboard` takes `Dashboard` and `History` together, `MCProbes` names an instance of `Probes` so that it can stand beside other modules |

**From code to actions.** A variable `pc` says which statement a thread runs next
and `loc` (or `read`, `todo`, `job`) holds its locals; an action is one SQL
statement or one step under `_inflight_lock`, with the decisions in Python that
follow it up to the next statement. In `Alerting`, `GetTarget`, `Probe`,
`ReadState`, `RecordCheck`, `UpdateOk`/`UpdateFail`, `FreshState`, `Remind` and
`Notify` are `perform_check`, `_apply_result` and `_maybe_remind` from top to
bottom. `DueTargets` is the list of the loop, and a scheduled check claims from that
list whatever has become of the target since; Check now claims any target that its
handler may have seen. `get_state` is a query and, if need be, an insert and a
second query: one action, because only the deletion of the target can come between
them and then the next statement raises. `CheckFails` and `AdminFails` are a
statement that raises: nothing is written and the rest is skipped. `Vanished` is the
foreign key that a deleted target violates. `Crash` keeps the tables and loses all
else.

`Scheduler` looks at the same checks from the other side: what a check does to
the row is one step (`Apply`), and what matters is who holds the claim, where the
job waits, and how old `last_checked_at` is. Times are ages there and in
`UpdateCheck`, which keeps the state space finite without bounding the run.

In `Mailer`, `todo` holds what a `set_many` has left to write, for the settings
form and for the bookkeeping of a delivery alike. In `Subscribers`,
`Recipients(target)` is the set of lists that the query and the loop that removes
duplicates may end with, one for each order of the rows. In `Startup`, `made` counts
tables: `executescript` commits each `CREATE TABLE IF NOT EXISTS`.

All these take a statement for one step. `Database` is where that is earned: it
follows `get_db`, `with conn` and SQLite's write lock row by row, with any call
raising, a read too (`SelectFails`), and is shown to implement `AtomicStatements`,
whose steps are those of the other modules. That `DeleteTarget` is a single step
elsewhere rests on `NoOrphans`, hence on `PRAGMA foreign_keys` being in force on
every connection.

In `Scheduler`, `Begin` and `BeginFails` are the statements of `_loop` before
its `try`: a database that is locked at that moment ends the thread.

In `UpdateCheck`, `HousekeepFails` is a pruning that raises after `last_prune` was
set, so that `maybe_check` is not submitted for an hour, and `Raises` a statement
of the check that raises (nothing makes up for it before the next hour, where
`Restart` starts `last_prune` again at 0). `skipped` counts what the hours lost in a
row cost. `Ask` lets git answer with any set of tags and `IsNewest` picks
from it; `Footer` is `status()` over the rows as they stand (it reads them one
by one, but what it shows halfway is gone at the next page).

In `Probes`, texts of the form are their numbers, `Blank` or `Garbled`, hosts are
the ways to write one, and a *world* is what the network and the ping binary do
with one probe. `SaveTarget` is the form with its errors; `RunCheck` maps a
target and a world to "ok" or a reason.

`Dashboard` keeps the two statements of `/api/status` apart, so that checks,
pauses, new and deleted targets come between rows and counts, and gives requests
no order on the way back. `History`
keeps the moment that is computed apart from the statement that uses it, for a
check, a prune and a page.

**History variables.** `tail` and `pending` (Alerting), `submitted`, `unwritten`,
`outcomes` and the field `early` of what is read (Mailer), `used` and `together`
(Startup), `told`, `cut` and `skipped` (UpdateCheck), the field `moved` of a request
(Dashboard), `log`, `pruned` and the moments `begun` and `asked` (History) record
the past for the properties. They guard actions only as bounds, with one exception:
in `Startup`, `together` says whether the processes of a behaviour may start while
another one is starting.

**Mutants.** A definition marked "Mutant" stands before the one it replaces and
differs from it as a slip in the code would. No specification uses it; putting
it in place makes TLC report the property that `PROJECT.json` names.

## Runs

Passing runs:

| Run | Question | Instance |
| --- | --- | --- |
| `alerting_faults` | Do claims, snapshots, stamps, one-email-per-stamp, throttle and the refinement of `AlertPolicy` survive crashes and failing statements? | 1 target, 1 loop check, 1 Check now, 1 operator, thresholds 1 and 2, throttle 2, clock to 2, 3 failures |
| `alerting_calm` | Without faults, is every DOWN and every reminder handed to the mailer, and are N consecutive failures real? | 1 target, 1 loop check, 1 Check now, 2 operators, thresholds 1 and 2, throttle 1, clock to 2, 3 failures; 2 targets with checks and operators in turn |
| `scheduler_loop` | Is `_inflight` exactly the queued and running checks? Does the loop go on even if no check ever ends? While checks end, is every due target checked, and are updates asked for? | 2 targets, 1 pool thread, 1 requester, 1 crash or failing statement |
| `updatecheck_fresh` | Is the cached result as fresh as the loop and the hours it lost allow, and does the footer say what a check was told? | 1 requester, the switch, restarts and raising statements anywhere, 2 lost housekeepings in a row; 2 tags, the running version and a newer one; retry 1, an hour 2, interval 4 |
| `mailer_first` | Does an alert use the server, mode and user name of the first configuration, and its password unless it was not stored yet? Is the error shown that of the last attempts? | 2 senders, 1 test request, 1 form of 3, crashes |
| `subscribers_scopes` | Do the right addresses get one copy each, and does a delete widen nothing? | 2 subscribers, 3 addresses of which 2 are equal but for case, 2 targets, 2 groups |
| `startup_boot` | Is the schema complete and the version never set back when processes start together? One at a time, are secret and saved settings kept? | 2 processes, crashes anywhere |
| `database_atomic` | Is a statement atomic, is the lock given back, do foreign keys hold, does every call return? | 2 threads, 1 target, 2 dependent tables, every call may raise, crashes |
| `probes_forms` | Does the form keep its ranges, what does an ok guarantee, and is a service that answers as configured ok? | 3 platforms; every host form, type and port with one number off its default; worlds on both sides of every limit |
| `dashboard_page` | Do rows and counts fit and does the page settle? Is an uptime whole in spite of pruning? | page: 1 target and 2 requests, 2 targets and 1 request, 1 request lost; history: 1 target, 1 page, 2 rows, clock to 3, a day of 2, windows 1 and 2, retention 0 and 1 |

Runs that end in a violation show where code and documentation disagree; each
checks one statement of the repository (the quotes are under `findings` in
`PROJECT.json`):

| Run | What happens |
| --- | --- |
| `alerting_disabled` | The loop declares a target up or down, and the edit form disables it during the check or after it: the status stays. |
| `probes_redirect` | `urlopen` follows redirects, so a 302 that is configured as expected is never seen. |

Further divergences met while modelling, which the models show but for which no
run is kept:

- A check claimed before a pause still probes the paused target, and may alert
  (`monitor.py:50`; the button says "Pause monitoring - no checks, no alerts",
  `_macros.html:8`). A check that has read the row before the pause also writes its
  status back (`models.py:92`): `SnapshotCurrent` and `AlertPolicy` allow that one.
- A crash between `record_check` and `update_state` loses a success from the
  state row but not from the history, so failures on both sides of it add up to N
  (`monitor.py:64`; `README.md:33` says consecutive).
- The loop works through a list that was due when it was read, so a target that
  Check now has checked since is checked again at once (`monitor.py:175`).
- Two update checks interleave their rows: `failed` without a reason, or with the
  reason of the other (`updates.py:126`; `CHANGELOG.md:20`).
- A restarted process does not ask while the cached result is fresh
  (`updates.py:143`; `README.md:323`).
- With two deliveries at once, one that succeeds clears the failure of the other
  (`mailer.py:46`; `README.md:277`). `LastErrorExact` therefore compares with the
  attempts whose bookkeeping overlaps.
- A check in flight alerts the group that its target has left
  (`monitor.py:47`; `subscribers.html:41`).
- `ensure_defaults` of one process overwrites what was saved through another that
  started at the same time (`settings.py:92`).
- A crash after the stamp and before `notify`: nobody is told, and the throttle
  holds the reminder back (`monitor.py:98`; `README.md:33`).
- The 15 minute retry of a failed update check waits for the hourly housekeeping,
  and when `prune_history` raises there, for the next one (`monitor.py:185`;
  `CHANGELOG.md:36`). `CacheIsFresh` states the bound that the loop does keep.
- A restart or a raise between the time and the status of a failed update check
  makes the failure look like the last success (`updates.py:117`).
- A sender that reads the password before the first form has stored it, or after a
  crash that kept it from being stored, logs in without (`views.py:452`).
- With a retention as long as the longest uptime shown, 7 days both, a prune that
  begins between the cutoff of a page and its query takes the row on the edge
  (`models.py:170`). `UptimeIsWhole` says how much longer it would have to be.
- The header counts a paused target by its stored status where its row says
  "unknown" (`models.py:125`, `views.py:35`). `CountsFitRows` allows for it.
- After a redirect "ok" speaks of the page it leads to, perhaps on another host
  (`checks.py:164`). `OkWasAnswered` says no more than that.
- A sender that reads a half-written form logs in to the internal relay
  (`mailer.py:48`; `README.md:252`).
- "The loop must survive anything" (`monitor.py:178`), but its first statement is
  outside of the `try` (`monitor.py:167`): if it raises, nothing is monitored while
  the web server goes on. `LoopNeverBlocks` and `DueIsChecked` except a dead loop.
- A restart between the rows "ok" and the version leaves the footer "up to date"
  for hours while a release is out (`updates.py:134`). `FooterTellsTheAnswer`
  excepts a `set_many` that was cut off.
- Before the first check has ended the footer says "update check failed"
  (`updates.py:174`; `README.md:329`).
- A deleted target stays on an open page with its last status, and Check now that
  straddles the delete fails with 500 (`app.js:57`, `views.py:115`).
- An HTTP URL that redirects to HTTPS is verified although `verify_tls` is off
  (`checks.py:154`), and an IPv6 target on Windows, whose ping prints no TTL, is
  never up (`checks.py:91`). `AnsweredIsOk` excepts both.

**Bounds.** `MaxTime` bounds the clock of `Alerting`: 2 with a throttle of 2 covers
stamps that are too young, just old enough, and relapses in between; 2 with a
throttle of 1, a first and a second reminder. `MaxFails` 3 covers failures below, at
and above both thresholds, so that a target that is down fails again and reminds.
One loop check and one Check now are enough for a race over one claim and one row,
two operators for a pause between the statements of a form; rows and claims are per
target, so what one target shows holds for each (and is proved). A clone needs a
second target, which `alerting_calm` has: from its creation on the state constraint
`SecondTarget` lets checks and operators take turns and stops the clock. `MaxAge` is
the longest interval, since nothing depends on greater ages; a wait of `PruneEvery`
is one step where its length does not matter. One thread of the pool and one fault
already give a full queue, a crash in every place, and the loop that dies at its
start; the claims of any number of threads are proved. `UpdatePending` holds the
clock of the housekeeping while an update check is queued: the pool gets through
with it within the hour. `MaxSaves` bounds forms, and each is submitted once.
`NumTables` 3 has a first, a middle and a last table. In `UpdateCheck` the interval
is two housekeepings, not six, so that one finds the result fresh and the next one
stale, and the retry is half an hour; `MaxSkipped` 4 is two lost housekeepings in a
row, and ages are counted up to what these make. `Freshness` is proved for all
intervals and losses. Two tags decide every comparison of a newest tag with the
running version. Two threads of `Database` are a holder of the lock and one that
waits. A row of the page depends on one target only, its counts on all: one target
with overlapping requests settles the first, two targets under one poll, from an
empty page, the second. Times 0 to 3 with a day of 2 have rows older than, on and
younger than both edges of a window and of a retention. `Probes` is a function of a
form and a world, and every comparison in it has a value on each side. Ids are
handed out once (`AUTOINCREMENT`), so most instances run out of ids or reach the end
of the clock and stop; those runs switch off the deadlock check.

Symmetry is used only for sets of interchangeable ids and threads, and never in
a run with a liveness property.

**Fairness.** `Scheduler`: the loop runs and the clock goes on (`LoopFairness`, part
of `Spec`). That checks end, because every probe, statement and SMTP call has a
timeout, is `PoolFairness`, an antecedent of the two properties that need it;
`LoopNeverBlocks` does without. `Database`: each thread is scheduled, and SQLite
answers or gives up after the busy timeout (30 s); nothing says that it ever gets
the lock. `Dashboard`: the page polls for ever (`setInterval`), and the server and
the network get on with each request. The fairness of `Poll` is strong, as the
browser starts a poll whatever else is under way, while the model has a bounded
number of requests and a poll waits for a free one. No fairness is assumed of
operators, of Check now or of faults, so nothing is assumed about who presses what.
Faults are bounded where liveness is checked: a database that fails for ever checks
nothing.

## Proofs

The theorems hold for all sets of targets and threads, all thresholds, throttles
and faults. They rest on the assumption that each module states about its
constants, named after it: thresholds are positive (the form accepts 1 to 100),
`Null` is no value, a thread has one kind, a retry is not longer than the
interval. Four theorems assume more, in their statement: three that nothing fails,
one that a single form is saved.

**Alerting.** `Typing`, `Claims`, `Snapshots`, `Stamps`, `Emails` follow from one
inductive invariant `Inv`, whose parts need each other:

1. `TypeInv` adds to `TypeOK` that a running check has a target.
2. `ClaimExclusive` is inductive on top of it: `Claim` looks before it adds, and
   `Release` removes what the releasing check held alone. Every path of a check,
   the raising ones included, ends in `Release`, so no claim is left behind.
3. `RowInv`: rows go with their target and ids are not reused, so a check that
   has read the row and no longer finds it knows the target is gone.
4. `SnapshotInv`: between `ReadState` and the update only a pause, a delete or
   the holder of the claim may touch the row, so it equals what was read, or that
   with the status forgotten. A DOWN that was read had a stamp, hence the DOWN
   written back has one too.
5. `EmailInv`: the stamp of an email stays pending until `Notify`; only the
   holder of the claim clears it.
6. `StampInv`: stamps are in the past, in the order they were read, and the
   reminder is decided on the stamp the row still has.

`Throttle` follows from `Inv` in one step. `Refinement` maps `status` and
`stamp` of `AlertPolicy` to the columns of the row, where a missing row reads as
unknown and without a stamp, and shows that each action of `Alerting` is a step
of `AlertPolicy` or leaves both as they are; `Inv` is needed exactly where the
update of a check is computed from what it read.

`Alerts`, `Failures` and `Declared` assume `Faults = {}`, since a crash after the
stamp does lose the alert (see the divergences above). `ToldInv`: an alert that is
pending for a target that exists is with a check on its way to `Notify`; at most
the reading of the fresh row comes in between, and that fails only with the
target. `FailsInv`: the failures a check has read, with the one it has recorded
since, are at the end of the history, as are those of a row nobody is updating.

**Claim protocol.** `Alerting` and `Scheduler` see a check from two sides, one its
statements, the other its place in the queue. What ties them is `ClaimProtocol`:
`Protocols` and `Implements` map each to it, a target being "checking" while a busy
thread has it and "queued" while the queue does. The step to prove is that a
release frees the target and a claim finds it free, which is `ClaimExclusive`
and `ClaimsExact`. So `Alerting`, which lets a scheduled check start at any time,
has no overlap of checks of one target that `Scheduler` rules out, or the
reverse.

**Scheduler.** `Typing` and `Claims` prove `TypeOK` and `ClaimsExact` together with
`ThreadInv` (which job each label of a thread goes with), for any pool, any
queue length and any number of faults.

**Database.** `Atomic`, `Locks`, `Typing` and `ForeignKeys` follow from one
invariant: only the holder of the write lock is in "write", so the committed rows
cannot change under its copy; the copy is the committed rows with the part of
the statement done that is no longer in `todo`; every kept connection has its
foreign keys on; the committed rows have no orphans. Then `Commit` is `Apply` of the
abstract statement, `Rollback` and `ConnectFails` are `Refuse`, and every other step
between call and return is a stutter.

**Update check.** `Freshness` needs to know what is true while things happen:
`JustAsked` (a thread past its answer, or a result just written, has age 0),
`ReadRight` (what `maybe_check` has read is the age, or the age has been renewed
since) and `Renewed` (after the housekeeping of this hour the result is as young as
the decision allows, where `Elapsed`, the time since the last one that got through,
is the age of the hour and the hours lost before). It uses that a retry is not
longer than the interval, and that time stands still during a check. `Typing` adds
that a version is written only by a check that got an answer. `Footers` follows two
debts: what a check has still to write is what it was told (`WritesTold`), and a
status is either about to be written again or was told, likewise the version beside
an "ok" (`RowsTold`).

**Mailer.** `LastError` rests on `ErrorInv`: what is about to be stored is the
outcome of one of the attempts that overlap, and if all of them ended alike, the
stored value is that outcome or a thread owes it. `FormUsed` rests on `FirstInv`:
the statements left to a form have the form's values, the switch waits behind all
keys but the password, so a sender that has seen the switch on reads settings of
which only the password still changes. The second form is where this ends, hence
`MaxSaves = 1`.

**Subscribers.** `Scopes` holds as the foreign key is checked when the form is
saved, not when it is opened, and a delete cascades; then nobody's scope is widened
(`Deletes`), as no scope of a target is ever left empty. `Addresses` says what the
loop of `recipients_for_target` computes, for rows of any number and order: the list
has every address in scope, no other, and none twice. The invariant of the loop
(`DistinctFacts`) is proved by the well-foundedness of the numbers of rows, stated
of a *set* of numbers, since an induction over a predicate is out of reach.

**Probes.** `Answers` and `Ups` bound "ok" from both sides. Each kind of probe has a
lemma that says exactly when its conclusion is "ok" (`IcmpOk`, `HttpOk`), and
`ProbeInv` says what a stored target fulfils after the form's checks, so that an
answer "as configured" speaks of numbers in range; that gives `Ranges` too. What
`Answers` says of a redirect is what the code compares, the status of the last page. The
assumptions about the constants of `Probes` are stated in `MCProbes`.

**Startup.** `Migrated`: the version is stored after the last table, and what a
process takes for filled stays filled. `Alone`: if processes start one at a time,
nobody gives a row to a key that another is about to fill; with the process
itself to look before it writes, this proves `Secret` and `Saves`. `Complete` and
`Version` do without it, for processes that start together.

**History.** `Whole` rests on `Kept`: a recorded row of a live target that is gone
from the table is older than the days of the retention before the moment when some
prune began. A page's window reaches back from the moment it asked; a prune that
spares it has a cutoff that is not later than its edge, and comparisons on both
sides are such that a row on the edge is kept and counted.

**Dashboard.** `RowsAndCounts` rests on `ReadInv`: between rows and counts, a target
that is neither paused nor moved still has the status its row shows. Then the
targets counted under a status are those whose row says so and some that are
paused or moved (`Counting`, on cardinalities), for any finite set of targets.

**Model-checked only.** Liveness (`LoopNeverBlocks`, `DueIsChecked`, `UpdatesAskedFor`,
`EveryCallReturns`, `PageSettles`): fairness and `ENABLED` are beyond the prover.

## Not modelled

- The ping binary, sockets, urllib and git: external, they answer for any world. How
  long a probe takes beyond its timeout (per address, per read) is left out.
- Texts, formatting, latencies, sparklines, rendering, logging, deployment. The
  pages that only render rows hold no state and decide nothing.
- `close_db`, `executemany` and `stop`, which nothing calls.
- Durability when the machine loses power (`synchronous=NORMAL`): a crash is the
  death of the process.
- An exception of a failed COMMIT leaves no transaction open: true of CPython from
  3.9.7 and 3.10 on, where `with conn` rolls back then too.
- A wall clock that steps back, and a pool that cannot start a thread.
- Parsing of the email form (its values come from a set of forms), and the
  environment's secret key.
- A `VERSION` that changes while an older result is cached.

## Plan

Done, in this order: `TargetState`, `Alerting` and its runs; `AlertPolicy` and the
refinement; `Scheduler`; `UpdateCheck`; `Mailer`; `Subscribers`; `Startup`; the
proofs of Alerting, AlertPolicy and Scheduler; `Probes`; `AtomicStatements`, `Database`
and the proof of the refinement; `Dashboard` and `History`; the proofs of
`UpdateCheck`, `History`, `Startup`, `Subscribers` and `Mailer`, and of Alerting without
faults; the proofs of `Probes`, `Dashboard` and of the list of addresses;
`ClaimProtocol` and that Alerting and Scheduler implement it.

Next, most important first:

1. `Mailer` below `Alerting`: the call of `notify` with the switch, the
   recipients and a mailer that blocks for its timeout, and what the last-error
   rows then say about an alert that was stamped.
2. An upgrade of the program while an older update result is cached.
3. A wall clock that steps back, below the throttle and the loop.

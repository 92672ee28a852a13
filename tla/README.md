# Verification of Remake_X

Remake_X is a Django shop with a synchronization engine for products kept in
an Odoo ERP. The engine is where the program is concurrent and can fail
half-way: Celery workers, the trigger endpoint, the admin site, the scheduler,
WebSocket consumers and a page in a browser all work on the same few tables. The
shop is concurrent in one place, the session of a visitor.
These specifications model the engine and the session, check them with TLC, and
prove most of their safety with TLAPS. Paths are relative to the repository root; line
numbers are those of the modelled commit, and `PROJECT.json` maps every
definition to its lines.

## 1. Inventory

| Component | State it keeps | Operations | What is hard | What makes it correct |
|---|---|---|---|---|
| Synchronization runs: `odoo_sync/tasks.py`, `models.py` (SyncLog), trigger in `views.py`, actions in `admin.py`, schedule in `upcycle/settings.py` | `SyncLog` rows (status, `finished_at`, counters, `error_detail`), the broker's queue, retries of a task | trigger, beat, rerun, resync, deliver, count, fetch, process, finish, fail, retry, abort | retries reuse a row; a failing notification after success; aborts and kills; rows deleted while a task runs; counters changed in several updates | one writer per row; counters add up; the status tells the truth; every run ends |
| Product mirror: `tasks.py` 312-694, `views.py` 51-75, `admin.py` 98-182 | `OdooProduct` rows, linked `Product` rows, the delta watermark (last SUCCESS log) | full, delta and by-ids runs; create with fallback; update; local update; resolve, mark, edit, delete | overlapping runs; values read before and written after someone else's write; offset pages over a changing list; a page partly written | every fetched record has its row; the watermark is never ahead of the mirror; mirror and Odoo agree in the end |
| Live status channel: `ws_utils.py`, `consumers.py` | channel group, a channel per socket | started, progress, completed, error; connect, snapshot, `get_latest`, forward, disconnect | events during the handshake; full channels | whoever is connected learns how the run ended, if that could be announced, and nothing its row did not say |
| Dashboard page: `dashboard.html` 260-441, `admin.py` 399-462 | figures on the page | fetch on events and on a timer, apply answers | answers out of order, lost requests | what is shown becomes what is stored |
| Odoo connector: `connector.py`, `health.py` | cached user id, its lock | execute, authenticate, clear | threads, denied access, retries around retries | one authentication at a time; no stale id after a clearing; calls return |
| REST read side: serializers, filters, list views | none | lists | - | - |
| Sync configuration: `models.py` 148-168, `views.py`, `admin.py`, read in `tasks.py` 221 | the one row of SyncConfig | get_or_create, PATCH and PUT, the form of the admin site, a run's paging | two first accesses at once; every save writes all fields; `batch_size` 0, or changed while a run pages | settings handed out were in force; a run fetches each record once |
| Shop: `myapp/views.py` cart, checkout, chat, login | the session dictionary, a rate-limit entry per process | add, remove, delete, checkout, success, chat, login, registration, logout | a request reads the session and writes it back as a whole, some of them seconds later; logout and login move or remove the row under others | a login that was left stays left; a conversation is whole; nobody pays more than was shown |
| Shop: accounts, products, AI image, static pages | rows, files | single forms | - | - |
| Deployment: docker, k8s, nginx | none | - | several processes per service | - |

They interact through the database (`SyncLog`, `OdooProduct`, `Product`),
through Redis (Celery's broker and the channel layer), by XML-RPC calls to Odoo
and by HTTP and WebSocket messages to the browser. No call is made back from Odoo.

The deployment fixes what runs concurrently: gunicorn with several processes,
Daphne for the sockets, Celery's prefork pool (so two runs may overlap), beat
(a delta run every 30 minutes, a full one at 03:00, `settings.py` 121-132),
early acknowledgement (Celery's default: a task of a killed worker is not
delivered again).

## 2. Modules

| Module | Models | Composition |
|---|---|---|
| `AuditTrail` | abstract: the ways the status of a SyncLog row may move | - |
| `SyncTasks` | tasks and their SyncLog rows, step by step | implements `AuditTrail` (`AuditSpec`) |
| `ProductMirror` | values in Odoo, the mirror and the shop; page by page runs; people | - |
| `StatusChannel` | events that may fail to be sent, channel group, consumers, retries, kills and deleted rows | its rows move as `AuditTrail` says (`AuditSpec`) |
| `StatusDashboard` | the page on top of the channel | extends `StatusChannel`, its actions conjoin those of the consumer |
| `OdooConnector` | threads of a process in the connector | - |
| `RunConfig` | the configuration row, who accesses it, and a run that pages with it | - |
| `CustomerSession` | abstract: what a visitor expects of the session | - |
| `ShopSession` | requests of one browser over the session table | compared with `CustomerSession` (`AloneIsAtomic`) |
| `SyncTasks_proof`, `OdooConnector_proof`, `ProductMirror_proof`, `StatusChannel_proof`, `RunConfig_proof`, `ShopSession_proof` | theorems about the module of that name | extend it |
| `ProductMirrorWindow_proof` | theorems about the window of delta runs | extends `ProductMirror_proof` |
| `StatusDashboard_proof` | theorems about the page on top of the channel | extends `StatusDashboard` and `StatusChannel_proof` |
| `MCSyncTasks`, `MCProductMirror`, `MCShopSession` | symmetry sets and prices for TLC | extend the above |

Each module says in its own comments which state and which code it stands for.
Some points a reader should know:

**SyncTasks.** A task keeps its Celery id over retries, so it is a process with
a program counter `pc`. The counter's values follow the code: `prepare` (read
the configuration, count, `notify_sync_started`), `page` (`search_read`),
`batch` (the per-record loop), `salvage` (single saves after a failed
`bulk_create`), `update` (both bulk updates), `report` (`notify_sync_progress`),
`finish` (`mark_finished`), `announce` (`notify_sync_completed`), then `handler`
(`error_detail` is saved), `fail` (`mark_finished`), `complain`
(`notify_sync_error`), `again` for the `except` branch, and `finally`. `greet` is
the notification of `sync_odoo_products_by_ids`, which is outside its `try`. A
record is a unit of work with an outcome. What the code commits separately is a
step of its own: a record that cannot be saved is first taken off
`records_created` (`SaveFails`), then counted in `records_errored` (`CountError`),
then entered into `error_detail` (`Blame`), at `batch_error`, `batch_blame`,
`salvage_error` and `salvage_blame`; a view whose message the broker refuses saves
why (`Refuse`) before it closes the row (`CloseRefused`). A process may be killed
or interrupted, and the row deleted, between any two of them. Counters are updated
with `F()` expressions on a queryset, which do nothing when the row is gone;
`mark_finished` and `_record_sync_error` raise then. `Finally` closes a row that
is still RUNNING.
The database is assumed to be up whenever a task uses it.

**ProductMirror.** A run reads the existing rows of a page once (`Read`), decides
on them, and writes later (`Create`, `Update`, `UpdateLocal`), so that other runs
and requests come in between. Quantities are counted in halves, because Odoo's
are floats and the shop's are natural numbers; a price in `BadPrices` has more
digits than the mirror's column, one in `WidePrices` more than the shop's, which
is narrower. `Linked` products have their local product from the
start: no code of the repository links one later (`_build_local_product` always
gives up for this `Product` model, and the link is read-only in the admin site).
Time is the number of acts of people so far: `written` is `write_date`, and the
watermark is `finished_at` of the last SUCCESS log; a delta run's cut to the
second may include the act before it. A request that reads a row and saves it
later is at the `desk`: `resolve_conflict`, and the change form, which saves all
fields as it read them.

**StatusChannel.** Runs are numbered by `started_at`; the newest row that is left is
the one a snapshot shows. A worker is `started`, at `work`, `completed` (its row is
closed and its end to be announced), `failing` (an exception is to be handled),
`error` (its row is FAILED and that is to be announced), about to start `again`, or
through: `gone` if its end was announced, `silent` if not. `Send` is a `group_send`
that reaches every socket of the group, or raises having reached some: then a run
fails, one that was closed in success included (`Announce`, `Fail`), and if it was
the failure that could not be announced there is no retry. Workers may be killed, the
broker may refuse a task, and rows be deleted at any time. A consumer that is in
`connect` or `get_latest` handles no events; they wait in its channel. Two history
variables say what may be told when: `past`, what a row has said in which attempt of
its run, and the attempt in each message, which the real messages do not have. The
retry of a task without `sync_log_id` takes a row of its own and is another run here.

**OdooConnector.** Odoo is external. It may fail a call or an authentication, with a
failure that is tried again (`faultCode` 1, timeouts, broken connections) or with one
that is not; it may deny access, with or without `faultCode` 1, to an id it no longer
accepts (`Expire`) or to one it does; and it may reject the credentials. A denied
access that `execute` sees as the cause of the failure leads to the second round, also
one that came from an authentication inside the call. The two unlocked reads of
`self.uid` in `_get_uid` and in `authenticate` are steps of their own. An id bears the
number of the authentication that asked for it (`asked`), and `since` is history: how
many there were when the thread cleared the id.

**RunConfig.** `get_or_create` looks for the row, and inserts it through the model's
own `save()`, which drops `force_insert`, looks again, and updates or inserts: five
steps, between which others come in. `PATCH` and `PUT` write all fields as read; the
form of the admin site is a page that may be sent later, or never. A form whose
JSON lists are empty is refused, so `lists` says whether they have something in
them; the other fields behave like `batch`. A run reads the row once and pages by
offset. `force` is a history variable: the settings in force since an access began.

**ShopSession.** A request is `sent` with the cookie of that moment, reads the row of
its session when the view first looks at it, and works on its copy. `reply` is the
middleware: it writes the whole copy, inserts a session that has no key, or fails
when the row is gone. Login moves an anonymous session to a new key (`CycleKey`) and
flushes that of another account (`ChangeUser`); logout flushes. A request that calls
Groq waits at `asking`, after the question was put into the copy. Each step that
reads the session reads it at once, each that writes writes at once; several
requests of the browser are in flight. Logins are named by the number of the
request that made them. Django's session, Groq and Stripe are external.

A definition marked `Mutant:` is a plausible mistake in the definition that
follows it. No specification uses it. Putting it in that definition's place
makes the property it is listed with in `PROJECT.json` fail, which shows that the
property depends on the code.

## 3. Runs

Each run is a `.cfg` of the same name. "Fails" marks a run whose property is a
statement of the repository's documentation, comments or tests that the code
does not keep; `PROJECT.json` quotes it under `findings`.

| Run | Asks | Bounds, and why they are enough |
|---|---|---|
| `sync_one` | do counters, status and `finished_at` of a run agree, is no record lost or counted twice, does its row move as `AuditTrail` allows, does the inductive invariant hold, and does every queued run end with its row closed? | one task; up to 3 records in pages of 2, so that a full page, a short one and an empty one occur; one retry, which reuses the row; one kill, between any two commits |
| `sync_two` | do tasks keep apart, and are only failed attempts repeated? | two tasks with a retry each, four logs: enough for every attempt to insert its own; no records, which play no part (and which the proof covers for any number of tasks) |
| `sync_ids_stranded` | fails: a by-ids run is closed whatever happens | the first notification fails |
| `mirror_window` | does each good record of a written page have its row, has a run without errors mirrored all that is behind its page, and is the delta watermark behind every difference? | two workers, which insert the same three products, in pages of two; a bad price, archiving, one failing run; three acts of people: one makes a difference, one archives, one comes back to either; Odoo edited only between runs |
| `mirror_converges` | do full runs make the mirror equal to Odoo in the end? | two acts of people: one to disturb, one to disturb what reacts to it; a failed run; pages of one, so that archiving shifts them; a price too wide for the shop |
| `mirror_missed` | fails as `mirror_window` when Odoo is edited during a run | one edit |
| `mirror_manual` | fails: a MANUAL conflict waits for people | two edits |
| `channel_informed` | does a connected socket learn the end of the last run's last attempt, and nothing its row did not say; do rows move as `AuditTrail` allows; does the inductive invariant hold, which includes the types? | two runs, so that the newest may be deleted; the first may be refused by the broker, and retried once, the second not; each of their notifications may raise; a channel of one message, which overflows at the second; a progress message an attempt (the proof has no such bounds) |
| `dash_settles` | does the page end up right? | one run with a progress message, whose notifications may raise; a channel of two, two requests in flight, so that answers overtake each other |
| `conn_calls` | one authentication at a time, with no id cached; no id from before the clearing in a second round; and does every call return? | two threads: one authenticates while the other waits for the lock or clears; three attempts, as in the code, and four failures, more than one round of them; one forgotten id; two calls |
| `shop_session` | is a logout final, are conversations whole, is nobody overcharged, is a request that overlaps no other one atomic, do the inductive invariants of logins and of the chat hold? | four requests, two at a time: a login, a logout, and two to overlap with either; three keys, the third for a session that moved twice; two items with a price of half a cent too much |
| `config_run` | are settings handed out those in force, does a run fetch each record once, does everybody get done, does the inductive invariant hold? | three accesses at once, one more than `get_or_create` has to tell apart; sizes 0, 1 and 2 for three records, so that pages are full, short and empty |

In `conn_calls` `CHECK_DEADLOCK` is off: threads rest when the bounded number of
calls is used up. Everywhere else deadlock is checked; `Quiet` in `SyncTasks` and
`Finished` in `ShopSession` and `RunConfig` are the states in which all is over.

What the failing runs show: the delta watermark is the end of a run where its
beginning would be needed; a MANUAL conflict lasts for one run; a by-ids run can
be RUNNING for ever.

Known limits of the code that the models contain and no run is spent on, since a
single step shows them or they are variants of the above:

- a successful run over a few selected ids moves the delta watermark as well
  (`tasks.py` 62; `StartIds` followed by `EndRun`);
- a linked local product is written only when it lost a conflict, so a price
  changed in Odoo alone never reaches it (`tasks.py` 369; `UpdateLocal`);
- a quantity of 1.5 is 1 in the shop, and makes the next change in Odoo a conflict
  (`tasks.py` 538; `Conflict` and `Applied`);
- an over-long price of a product that has a row fails `bulk_update` and the run
  (`tasks.py` 405; `Update` and `GiveUp`), while that of a new one is an error of
  its own record;
- a call may be sent to Odoo six times, three in each round (`connector.py` 244;
  `Denied`, `Clear`), where the repository's `README.md` 231 has "max 3 retries":
  two limits of three attempts keep to it only if the second call counts as another;
- `_get_uid` returns None when another thread clears the id between its two reads,
  and a call in its second round then fails although Odoo is up (`connector.py`
  154; `Check`, `Take` and `Denied`);
- a run that fails replaces `error_detail`, so the errors of its records are gone,
  though `records_errored` still counts them (`tasks.py` 290; `Handler`), where
  `README.md` 231 has failures stored there; and a run killed between the two commits
  has counted an error it does not name (`tasks.py` 506-518; `CountError`, `Blame`);
- a record that fails after it was counted updated, because Odoo's quantity for a
  local product is no integer, is counted twice (`tasks.py` 367, 562; `RecordError`),
  which is why `NothingCountedTwice` adds up what went through and what failed apart;
- the end of a run is told to no socket when the notification of its failure raises
  too (`tasks.py` 299), when the broker refuses its task (`views.py` 155) and when its
  process is killed (`Announce`, `Refused`, `Kill`), and a completion told in a
  snapshot may be revoked after it (`tasks.py` 266-298);
- the page ignores `sync_error` and learns of a failure by its timer
  (`dashboard.html` 408; `Hear`);
- two first accesses to the configuration: the second one's `save()` may write the
  defaults over what was edited in between (`models.py` 162; `Exists`, `Update`);
- `batch_size` 0 is raised to 1 for paging, but handed as 0 to `bulk_update`, which
  refuses it and fails the run (`tasks.py` 421; `Reject`);
- a chat request under way when the conversation is cleared brings it back
  (`views.py` 303-343; `ChatSend`, `GroqAnswers`), as every overlapping request of a
  session undoes what others saved since it read (`Save`);
- the success page empties the cart whatever became of the payment (`views.py` 447;
  `PaymentSuccess`).

## 4. Fairness

- `SyncTasks!FairSpec`: weak fairness of `Work(t)`. A living worker executes, the
  broker delivers what is queued and a view finishes its request. `Ask`, `Abort`,
  `Kill` and `Delete` are never forced. `Work` includes failures as well as
  successes, so no success is assumed. How many worker processes there are is left
  out: the prefork pool only restricts which tasks overlap, and a queued task gets
  a process when another ends, which every run does.
- `ProductMirror!FairSpec`: workers and requests that have begun go on; strong
  fairness of starting a full run, which is what beat does for ever. Nothing is assumed of people, and `MaxStops` bounds how many runs
  fail: with failures at every run nothing can converge.
- `StatusDashboard!FairSpec`: `setInterval` keeps firing, an answer that was sent
  arrives (weak fairness); the server does not fail for ever (strong fairness of
  `Answer` against `FetchFails`). Nothing is assumed of sockets or of runs.
- `RunConfig!FairSpec`: weak fairness of `Work(p)`: requests and tasks that began go
  on. A form need not be sent, nor closed.
- `ShopSession`: none, and no liveness is claimed: a process may be killed at any
  point, and the browser may wait for ever.
- `OdooConnector!FairSpec`: threads run, and a call ends because sockets have a
  timeout of 10 seconds (`connector.py` 101); strong fairness of getting the lock,
  since a thread that waits for a lock that is released again and again gets it.

## 5. Proofs

All theorems hold for every value of the constants that the named assumptions of
the modules allow; TLC evaluates those assumptions in the runs. Each proof has
the same plan: an inductive invariant, one lemma for each group of actions, a
lemma for a step of `Next`, and temporal theorems of three lines.

**`SyncTasks_proof`**: for every number of tasks, logs, retries and records, every
page size, and whether the channel layer works or not, all safety properties of
the runs: types, `OneWriter`, `StatusTellsErrors`, `NothingCountedTwice`,
`NothingLost`, `Stamped`; the action property `RetriesFollowFailure`; and `Refinement`, that the table behaves as
`AuditTrail`. `Tasks` and `Logs` are any sets; `NoLog` is no log, `MaxRetries` and
`Catalogue` are naturals, `BatchSize` is positive.

None of the properties is inductive. That a row's counters never exceed what was
fetched depends on which records of the page its task has still to count (one in the midst of
`_record_sync_error` among them), that
`records_created` never goes below zero on the new rows it has still to save, and
both on the row having no other writer. `Inv` therefore adds: `Held` (where a task
has a log), `Phases` (the status of its row at each point), `Locals` (which local
variables are empty at each point), `Balance` (the rest of the page completes the
counters) and `Unborn` (rows not yet inserted). The proof cuts `Inv` into facts of
one task (`TaskFacts`) and of one log (`LogFacts`): lemma `Local` says that a step
of a task that touches only its own row keeps everybody else's facts, because of
`OneWriter`, and what is left is one lemma for each group of actions. `Refinement`
shows, from `Phases`, that each step moves one row as `AuditTrail` allows or no row.

**`StatusChannel_proof`** (any number of runs, sockets, messages, retries, any
capacity above zero; about `ChannelSpec`): `ChannelTypes`; `NeverAhead`
(`EventsFollowRow`); `EndArrives` (`Informed`); `Refinement` (`AuditSpec`). What a
socket was told is only as good as what was on its way to it, so `Follow` says of what
was told, of waiting events and of a snapshot in hand that the row has said it before,
in that attempt, and `Staged` what a row can say at each point of its worker, failed
announcements and retries included. `Informed` needs `Delivered`: once the last run is
over and announced, either the event of its end waits in the channel with nothing of
that run but progress behind it, or nothing of the run waits and what the row says was
told, is in the snapshot to be sent, or will be read. `Refinement` also makes precise
what this table shares with that of `SyncTasks`: both move within `AuditTrail`, with
its `Revoke` and `Resume`. It does not show that they are the same table.

**`ProductMirror_proof`** (any number of workers, products, prices, page sizes and
each policy): `MirrorTypes`, which includes that no table holds what its column
refuses and that a run only writes what is in its page; `Mirrored`: if `"delete"` is
not among the acts of people, `EveryFetchedMirrored`. The assumption is needed, a
row deleted in the admin site is gone until the next run. `TypeOK` is inductive as
it stands, because it says what a run holds in its hands; `Mirrored` uses that rows
are never removed otherwise, so that only the run's own steps matter. Quantities
are naturals (in halves), every price the mirror refuses the shop refuses too.

**`ProductMirrorWindow_proof`** (any finite number of products, any number of workers,
any page size, policy and mix of full and delta runs): `DeltaMissesNothing`
(`NothingMissed`) and `NoneLeftBehind` (`PassedAreMirrored`), when `Calm`: Odoo is not
edited while a run is in progress, no run is by ids, and people neither delete rows nor
save them by the form or by resolving a conflict; editing products in Odoo and in the
shop, archiving and marking rows are free. Each part of `Calm` is needed:
`mirror_missed` shows an edit during a run lost, a by-ids run moves the watermark over
what it did not fetch, and the others take a row away or put an old value back without
Odoo having changed. The invariant is `Window`: a run without errors has
mirrored all that its search returned up to where it is in its page, the page in hand is
what Odoo holds, and its search starts no later than the watermark
(`PassedAreMirrored`); what its search leaves out is mirrored by `NothingMissed` itself.
When a run ends with SUCCESS nothing is left ahead of it, so that its end may become
the watermark. "Behind"
is by rank in the list Odoo returns; the lemmas about ranks (distinct, gapless, as many
as there are ids up to there) show that a page that is not full is the last one.

**`OdooConnector_proof`** (any number of threads, attempts, failures): `ConnectorTypes`,
`LockDiscipline` (`LockHeldByAuth`), `SecondRound` (`FreshRound`). Who is where in the
code says whether the lock is held. A second round may only come upon ids asked for
since the clearing because `Later` holds of the cached id as well, for every thread in
its second round, and because `_clear_uid` waits for the lock: an authentication begun
before the clearing has ended by then, so that one under way is newer than every
clearing.

**`RunConfig_proof`** (any number of processes, sizes, records): `ConfigTypes`,
`HandedOut` (`SettingsInForce`), `WholeList` (`PagesCover`). The first needs `Present`
(whoever is past the insert finds the row) and `Told` (the row is in the history of
all who ask), the second `Paged`: a run has fetched what is before its offset and the
page in hand once, and a short page is the end of the list.

**`ShopSession_proof`** (any number of requests in flight, keys, items): `SessionTypes`,
`FinalLogout` (`LogoutIsFinal`). That a late request cannot bring a login back is no
property of the table alone: it holds because a login is at home under one key
(`OneHome`), because whoever still has a copy of a login that was left has a key
without a row (`Outlived`), which is never issued again, and because a login to come
is known to nobody (`Unknown`, from the numbering of requests, `Numbered`, and from
what a copy can hold, `Copied`).

Three more results; `Atomic` assumes that no session is taken for an absent row
(`NoRowAssumption`), `FairPrice` that the items are finitely many (`ItemsAssumption`):

- `WholeConversation` (`Conversation`), from `WholeTalks` (`ChatInv`): since every save
  writes a whole copy, what is said of rows is said of all copies. A copy holds whole
  exchanges, except that of a request that waits for Groq, which ends with its
  question; and a question still to be asked is in no copy, so it is never there twice.
- `Atomic` (`AloneIsAtomic`): each step of a request that overlaps no other is the
  operation of `CustomerSession`, no change, or a logout when the row is lost. The
  invariant is `SoloInv`: nobody else is in flight, and `Fits`: at each point of its
  code the request's copy is what the visitor has, or that with the operation applied
  (`Turns`), and its key is that of the cookie unless login has moved it. The bulk of
  the proof is what the visitor sees: until a response sets the cookie, the session
  that login has moved counts as theirs.
- `FairPrice` (`NeverOvercharged`), for every cart and all prices. The sums are folds
  over the items. An induction theorem takes an operator, which the provers cannot
  instantiate; the lemmas take instead a least set of items, by inclusion, for which
  the claim fails, and remove one item from it. That the recursive function
  behind the fold exists is part of this (`SumsExist`).

**`StatusDashboard_proof`** (any number of runs, browsers, requests): `ChannelBelow`,
that the page's system implements `ChannelSpec`, so `ChannelHolds`: the channel's
inductive invariant holds below the page; and `PageHolds` (`TypeOK`).

Only model-checked: the liveness properties `SyncRunsEnd`, `Converges`, `Settles`,
`CallsReturn` and `AccessesEnd`, since everything under fairness is out of this prover's
reach. Every invariant and every safety property of a step that a passing run checks is
the statement of a theorem; two of them, `EveryFetchedMirrored` and `NothingMissed`, under
the hypotheses named above, which are those of the run.

## 6. Not modelled

The read side of the API, templates and static files, accounts and product forms
and the deployment change no state over several steps (see the inventory).
Image generation is one external call around a temporary file. Nor are modelled:
`trigger_manual_sync`, which has no caller; the wording of errors and notifications;
fields of a product other than price and quantity, which are copied along with them;
creation of local products, which always gives up for this `Product` model; who may
open a socket, and malformed frames; the number in the chat's rate limit, which is a
refusal that may always happen; what Stripe does with a payment; prices that change
between two looks at a cart; a database that is down.

Two small windows of a run are left out: an interruption between the insert of its row
and the `try` (`tasks.py` 204-219), which is a kill in the models, and an exception
inside the `finally` clause, whose second notification changes no row.

`SyncTasks` and `ProductMirror` are not composed: the first abstracts records to
outcomes, the second a log to the watermark. `RunConfig` stands beside both: its runs
meet a list that does not change, theirs a configuration that does not. `SyncTasks`
and `StatusChannel` are not composed either: both implement `AuditTrail`, and the
second repeats, of the first, the steps that write a status or announce one.

## 7. Plan

Done: the modules above with their proofs. What would come next:

1. `ProductMirror`: an abstract `Replica` (rows only ever get values Odoo had) and the
   refinement; `NothingMissed` with by-ids runs, for the watermark a run would need.
2. `ShopSession`: requests that overlap but touch different parts of the session, with
   what is kept of both.
3. `StatusDashboard`: which request an answer belongs to, if the page comes to tell.
4. The temporary file of image generation, and local products, once it is said what
   they promise.

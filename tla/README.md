# Verification of lockinspiel

TLA+ models of the lockinspiel backend and frontend, checked with TLC on small
instances and, for every value of the constants, proved with TLAPS. All
paths are relative to the root of the repository; `BE` stands for
`rust/crates/backend`, `SC` for `rust/crates/schemas`.

## 1. The system and its components

lockinspiel is a Pomodoro timer with accounts. A browser application talks to two
HTTP services, *timekeeper* and *user*, which share one PostgreSQL database and one
library, and to a small time service over TCP. The database enforces who
may write what by row level security (RLS).

| Component | State it keeps | Operations | Depends on |
|---|---|---|---|
| Database sessions (`BE/lockinspiel-backend-common/src/{lib,auth}.rs`) | a bounded pool of connections; on each a role and a user id that outlive the request | `from_request_parts`: take a connection, set role `authenticator`, decode the token, set role, set user id | bb8, PostgreSQL |
| Timekeeper, time splits and timesheet (`BE/lockinspiel-timekeeper/src/routes/{time_split,timer}.rs`) | tables `time_split`, `time_split_timer`, `timesheet` | create, get, modify, delete a split; post, get, modify a timer | a session; RLS policies of its migration |
| Timekeeper, tags (`BE/lockinspiel-timekeeper/src/routes/tag.rs`) | table `tag` | create, get, modify, delete | a session |
| User service, profiles and avatars (`BE/lockinspiel-user/src`) | table `profiles`; images in an S3 bucket; presigned upload URLs | create, get, update a profile; put, delete an avatar | a session; S3; the client's upload |
| Timesync server (`BE/lockinspiel-timesync/src`) | per worker: the connections of an edge-triggered poll, a 2048-byte buffer | accept, read, answer, close | mio |
| Frontend timer (`bun/packages/lockinspiel-frontend/src/app/timer`) | remaining time, deadline, state, an interval of the browser | toggle, reset, the interval's callback, destruction | `Date.now`, `setInterval` |
| Conversions (`SC/lockinspiel-common-schema/src/sql_types.rs`) | none | times and lengths to and from PostgreSQL and JSON | jiff |
| API descriptions (`rust/crates/utoipa-e2e`, the route declarations in `SC/*`) | none; built at start and for each request of it | derive a route's description, collect those of a service | utoipa |
| Start, stop and migrations (`BE/*/src/main.rs`, `BE/lockinspiel-backend-common/src/lib.rs`, `postgres/init-user-db.sh`) | the table of executed migrations both services share; per process its requests and the batches of its telemetry | migrate, build the pool, serve, drain, shut down | PostgreSQL, axum, OpenTelemetry, the container engine |
| Error responses (`BE/lockinspiel-backend-common/src/error.rs`) | none | give a failure its status; `PanicHandler`, which the build profile keeps from ever running | every handler |
| Logging and tracing (`telemetry.rs`), frontend shell | no state the others depend on | | |

How they interact: a handler of timekeeper or user never sees the caller except
through the session it is handed; what it may write is decided by the settings
`DbSession` establishes on that connection. `Timekeeper` and `Avatar` therefore take
the caller as given, and `DbSession` shows that it is the right one. No handler
opens a transaction: every statement commits on its own, and requests of any
users interleave between any two statements.

How it is built matters: `rust/Cargo.toml:65-72` sets `panic = "abort"` in the `dev` and in the `release`
profile, and the Dockerfile builds `--release`. Nothing unwinds. A panic anywhere ends its whole process, with
all connections of the time server or all calls in flight of a service, until the container is started again.

In all models a request is dropped when its client goes away, when an await fails or when its process is aborted. A
statement that was sent by then can still be executed, or be lost. In `DbSession`, `Timekeeper` and `Tags` such a request counts as in
progress until the one or the other has happened; no property of theirs depends on what a client was told, and on the
connection it used the statements of the next request come behind. In `Avatar`, which has properties of clients that
wait, it is a state of its own.

### What is hard, and what makes each part correct

* **Sessions.** Connections are passed from user to user, identities are session
  settings nobody resets, and a request can be dropped between any two of the
  three statements that set them. Correct: whenever a handler runs, the session
  is that of its caller; a connection is in one pair of hands; none is lost;
  a bad token never degrades to an anonymous caller; a dry pool answers.
* **Time splits and timesheet.** Create, delete, list, post and modify are two
  statements each. Correct: the timers of a split live or die together; a listing is
  whole although its two halves are read at different moments; one of two posts
  for the same start wins; nothing done is undone; rows change only in a step of
  their owner.
* **Avatars.** A row, an object in a different system and a URL that stays valid for
  ten minutes are updated in three awaits. Correct: no user's text is lost to a
  stale write; users who send nothing while an earlier request, dropped or not, can still take effect on
  the profile never leave an image that it does not name.
* **Frontend timer.** Callbacks are throttled in background tabs, a click may be
  handled in place of the callback that should have completed the timer, and the
  wall clock may be set. Correct: the timer stands for its duration on the clock;
  no interval leaks; 00:00 means complete; a running timer ends.
* **Timesync workers.** All workers poll one socket, edge-triggered, most of them come too late for a
  connection, and any panic aborts the process. Correct: no race over the queue ends the process; no wake-up
  is lost; nobody is left in the queue for ever, though the process may be aborted and started again.
* **Timesync connections.** A request may arrive in pieces, with others, or larger than the
  buffer; a response may not fit into the socket. Correct: a connection is answered
  as long as it sends, and in step with its requests.
* **Conversions.** A sum of units may exceed what one unit can hold, and times before
  2000 are negative. Correct: what is listed is as long as what was sent; the latest
  time in the database is the latest that was sent; the service is aborted over nothing but a
  stored length that cannot be read back, in the hands of the one who sent it. That it is aborted then, for everybody, is a finding.
* **API descriptions.** What a route demands and returns is declared in one crate, derived by
  a second and implemented in a third. Correct: they agree.
* **Start and stop.** Two services migrate one database in either order; one uses a
  function the other's migration creates; a process is told to stop while it has
  requests, and its last telemetry is sent by nothing but its shutdown. Correct: each
  migration takes effect once; no instance serves without the migrations of its own service; in the end all
  come up, although a timekeeper may serve, and fail its requests, before the user service has created `"user".set_uid`;
  who ends by itself and without an error leaves nothing behind.

The full list, with the line at which each hazard bites and the property aimed at
it, is `hazards` in `PROJECT.json`.

## 2. Modules

| Module | Models | Proofs | Instances for TLC |
|---|---|---|---|
| `DbSession` | the pool and `from_request_parts` | `Tags_proofs` | `MCTags`, as a part of `Tags` |
| `Tags` | the tag routes, on the connections of `DbSession` | `Tags_proofs` | `MCTags` |
| `TagStore` | abstract: what the tag routes promise | implemented by `Tags` | `MCTags` |
| `Timekeeper` | splits, their timers, the timesheet | `Timekeeper_proofs` | `MCTimekeeper` |
| `PackagedSplits` | abstract: what the routes of splits and timers promise | implemented by `Timekeeper`, in `Timekeeper_proofs` | |
| `Avatar` | profiles, the bucket, upload URLs | `Avatar_proofs` | `MCAvatar` |
| `FocusTimer` | the timer of the frontend | `FocusTimer_proofs` | `MCFocusTimer` |
| `Countdown` | abstract: what the timer of the frontend promises | implemented by `FocusTimer`, in `FocusTimer_proofs` | `MCFocusTimer` |
| `Timesync` | a connection of the time server | `Timesync_proofs` | `MCTimesync` |
| `Workers` | the workers of the time server and the socket they share | `Workers_proofs` | `MCWorkers` |
| `Startup` | instances that migrate one database | `Lifecycle_proofs` | `MCLifecycle`, as a part of `Lifecycle` |
| `Lifecycle` | `Startup`, and then requests, the end and the next start | `Lifecycle_proofs` | `MCLifecycle` |
| `PgTypes` | the conversions of times and lengths | `Api_proofs` | `MCApi` |
| `Api` | all sixteen routes as a client sees them, one call after the other | `Api_proofs` | `MCApi` |
| `IntoPath` | the macros that derive a route's description | `Api_proofs` | `MCApi` |
| `ApiDoc` | the declared routes of both services, beside `Api` | `Api_proofs` | `MCApi` |

In each, a definition whose name ends in a suffix after an underscore
(`Owns_AnyRow`, `StopInterval_Never`) is a plausible bug. It is used nowhere in the
specification; the `mutants` of `PROJECT.json` put it in the place of the
definition it is named after, and the property named there is then violated.

### DbSession

`conn` is, for each of the pool's `max_size` connections, whether it is closed, idle
or held, and the session's role and user id. `req` is, for each concurrent
request, its credentials, its connection and the point of
`from_request_parts` it has reached. One action per await: `GetOwned` or `TimedOut`,
`SetAuthenticator`, `Extract` (decoding does not suspend), `SetRole`, `SetUid`,
`Finish`. `Abandon` is a failed statement or a future dropped at any await;
`BreakHeld` and `BreakIdle` lose a connection. Dropping the connection puts
it back with the session exactly as it is, which is the point of the model.

### Timekeeper

Rows are never removed, so `splits` and `timers` are sequences whose positions are the
serial ids; `sheet` maps the primary key (user, start) to a timer or to `NoRow`.
`req[r].pc` names the statement a handler will run next and the record holds what
the handler remembers across the await. RLS is `Owns`, the condition of the
policies of the migration; it filters an UPDATE silently, as PostgreSQL does, and
the handlers ignore the number of rows. Names, lengths, tags and end times are
abstracted away; a description is only present or not, because the changeset of
`modify_time_split` skips what is absent. After its answer a request keeps what
the properties need of it.

### PackagedSplits

What the schema crate's `PackagedTimeSplit` and `Timer` say of the same routes: `docs` are the time splits, each a
document with all its timers, which arrive at once (`Fill`) and disappear at once (`Clear`); a timer
is known by its split and its index there; `sheet` maps user and start time to such a timer; `call` is what a client's
call does next and how it was answered. There are no rows of timers, no ids of them, no column to sort by, no grouping
and no policies: a document of somebody else is left alone. A call still has two steps where its handler has two
statements, because other calls do see what is between them. `Timekeeper` implements it
(`ImplementsPackagedSplits`): a document is what `DocumentOf` gathers of a split's row and those of its timers,
and a timer's id stands for its split and its `order_idx` (`HandleOf`).

### Avatar

`profiles` is the table, `objects` the paths that hold an image, `urls` those with an
upload URL still valid, `stray` deletions that were sent by requests that are
gone. `ReadProfile`, `DeleteUrl`, `UpdateLocation` are the three awaits of
`put_avatar` and `delete_avatar`; `PathToDelete` is the location as it was *read*.
`Abandon` drops a request at any await. If its UPDATE was sent, the database may have executed it (`LoseAnswer`) or may do so at any
time later (`LateUpdate`), when other requests have read the row, were answered and had their images uploaded.
`Upload`, `Expire` and `StrayDelete` belong to the clients and S3 and are external.
The history variable `patient` is the set of users who have so far behaved like
that of `bun/packages/testing/user.test.ts`: one request in progress at a time, and
uploads only between requests, to the location the profile shows. A request that was dropped is in progress
as long as its UPDATE is late. `Next` takes a user
out of it with the first step that is not so (`Impatient`). `NoOrphan` and
`DeleteLeavesNothing` speak of the patient users only, while the requests of all others
go on around them, and their own are still dropped at any await.

That patience is more than a client can practise: it is told of its dropped request nothing, least of all when the UPDATE was
executed. Of a user who waits for answers only, both properties are false: a put that is dropped with its UPDATE on the way, a second
put that reads the row before it, and the profile ends with the path of the first while the image is under that of the
second. So are they of one with two requests at once, see `avatar_delete` below.
`NoLostUpdate` is about all users and late UPDATEs.

### FocusTimer

`timer` holds the fields of `TimerComponent` and the number of intervals set in the
browser; `now` is `Date.now()`; `ran` is a history of how far the clock moved while
the timer was running. `toggle()` is split at its `if` into `Pause` and `Start`;
`Callback` may come as late as the browser likes, and `MoveClock` sets the clock
forwards or back. `Reset` is guarded by the disabled button of `timer.html`.

### Countdown

What the timer promises, without `Date.now()`, a deadline or an interval: `left` is what is left to run, and
time (`Pass`) takes from it while the timer runs; `shown` is what the display was last told. `Begin` goes on with
what is left, or with all of it after the end; `Refresh` tells the display, at a pause too, as long as something is left, and
when nothing is, `Finish` completes the timer, whoever notices. `FocusTimer` implements it
(`ImplementsCountdown`): of a running timer, what is left is the time until its deadline (`Left`). A click or a
callback is a `Refresh` or a `Finish`, and setting the clock is a `Pass` of more or less than a moment. A
callback that came after a pause, a reset or the end, when an interval was left behind, would be none of these.

### Timesync

A byte is its position in the client's stream, so the buffer is the interval of `total`
positions that ends at `pos`, and a request is the position at which its empty line
ends. `event` is what the edge-triggered poll has to report: `Arrive`, `Close` and
`Reset` set it, `TakeEvent` takes it and enters `handle_readable`, whose iterations are
`ReadNothing` (WouldBlock, end of stream, error), `ReadRequest` (the buffer ends with
a request: answer and return) and `ReadMore`. New bytes may arrive between two
iterations. A response is `RespLen` bytes that are cut off where the socket's send
buffer, of which the client has left `unread`, is full. `Panic` is the abort of the process,
by whichever worker, and takes the connection wherever it is, in the queue too. The history variable `polite` says that the client has so far sent
each request only after it had read the answer to the one before, within the length
of the buffer, and did not close its half while it waited. `InStep`, `Answered` and
`Removed` are about such clients: behind a request that is answered, `handle_readable`
leaves unread whatever had already arrived, the end of the stream too, until
something new arrives. `OneReplyEach` is about every client.

### Workers

`backlog` is the queue of the listening socket, `event[w]` whether the poll of worker `w` has
something new to report of it, `holder` the slab a connection is in. A worker registers,
takes an event and goes round in `accept_connections` (`Accept`) until nobody waits
(`WouldBlock`). `Abort` is a panic of any worker: the process ends, and with it all workers, all connections and the
queue. It comes of a missing descriptor (`PanicWithoutDescriptor`) or of any other system call whose result is unwrapped
(`SystemCallFails`), and the container starts the process again (`Restart`). The history variable `calm` says that neither had
a reason in this life of the process: no system call failed, and there was always a descriptor to spare beyond the polls of all workers and
everybody who had come (`Fits`). What is said on a connection is the subject of `Timesync`; `Remove` is its end there.

### Startup

An instance connects, creates the table of migrations if there is none, lists what it
has not run, runs it one by one and serves. `pending` is the list it made, `applied` the
rows of the table, `owner` the role that created it, `executed` a history. A migration and
its row are one transaction, as diesel runs them. The first migration is the same file in
both services and ends with the GRANT that lets the other service use the table (`Granted`);
before it an instance of another service fails (`ListMigrations`), as does one whose
migration somebody else ran in the meantime (`Migrate`). `Fail` is any other failure or a
kill, at any point; all failures end the process, and `restart: unless-stopped` begins
again with `Connect`. `docker-compose.yaml` asks for one replica of each service; two of
one are modelled, as when it is scaled or when an old container is still going.

### Lifecycle

`Lifecycle` extends `Startup`: `Starting` and `Crash` take its steps, `Ends` takes `Exit`, and all other
actions leave its variables alone, so that it implements `Startup` (proved). `phase` is what `main` of a serving
instance waits for: requests, the last of them (`draining`), the shutdown of the tracer, that of the
logger. `open` counts the requests that were begun, `batch` the exporters with something unsent, which
every `Finish` may add to. `Signal` is `shutdown_signal`, `Drain` the end of axum's graceful shutdown,
`ShutdownTracer`, `ShutdownLogger` and `ShutdownFails` are `InitState::shutdown` with its early return, and `Kill` is
the container engine after its grace period. `status` remembers how the process of an
instance ended. A batch is only empty or not.

### PgTypes and Api

`PgTypes` has the `ToSql` and `FromSql` of `sql_types.rs` as arithmetic over the integers: `Timestamp` by way
of a `SignedDuration`, with Rust's division towards zero, `DateTime` by whole microseconds, `Interval`
as three sums of ten units. jiff's range of times and its limits of units are constants.
`Api` executes one call per step: `splits` and `sheet` keep what was sent (`sent`, a history) beside
what the conversions make of it (`stored`), and `answer` is what the client gets: a status, its cause and
the values. `Handlers` lists what each of the sixteen handlers extracts, returns, demands and fails with; calls
end where the code ends them: no session (`RefuseSession`), an extractor (`RefuseRequest`), no login
(`AskForLogin`), a statement (`Fail`) or a panic. A panic (`Panicked`) is not answered: the timekeeper is down (`service`) until
`Restart`, calls that come meanwhile fail (`Unreachable`), and a call that was in flight when another's panicked is cut off,
whatever it had done (`CutOff`). The user service has nothing to panic over in this model. `CreateWithoutTimers` and `DeleteTimersOnly` are calls
whose second statement fails. Routes whose rows are the subject of other modules only answer (`Other`).

### IntoPath and ApiDoc

`derive_into_path` and `implementor_of` are the macros of `utoipa-e2e`: a declaration is its attributes and fields,
an attribute a sequence of items, and the result the operation of an OpenAPI document, with what the
macro does with keywords given twice, attributes in the wrong place and fields that are
marked twice. Of an item given twice the last counts, whose place is the largest index
(`LastGiven`); a field's attributes are told apart by their places (`Marked`). `ApiDoc` writes down the declarations of all routes and their response types, builds the
documents of both services from them, and states what they have to agree on with
`Api`.

### Tags and TagStore

`Tags` extends `DbSession`: the requests are its requests, and what happens to them up to
their handlers and in their ends is its `Next` (`SessionStep`). In the handler one of
`CreateTag`, `GetTags`, `ModifyTag`, `DeleteTag` is executed, one statement each, with the
privileges and policies that the *session* has (`MayWrite`, `MayRead`, `Policy`), on rows and
filters that come from the *token* (`db.user`). `reply` is what the handler then has; it is
lost if the request ends before it is answered. `TagStore` knows no connections: a call
takes effect at once, as its caller, at most once, and is answered or lost. The
refinement mapping `Calls` takes the caller from the token, shows a call as performed
when its handler has a reply, and shows calls with bad credentials as none at all.

## 3. Runs

| Run | Bounds | Kind | What it shows |
|---|---|---|---|
| `timekeeper` | 2 requests, 2 users, 2 splits (one seeded) of at most 2 timers, 1 start time | safety, actions | whole splits, whole listings, one post wins, owners, nothing undone |
| `tags` | 2 requests, 2 users or nobody, 1 connection, 2 names, 2 tags | safety, actions, liveness, refinement | a session is that of its request and in one pair of hands; every call reaches its handler or is answered; the tags behave as `TagStore`; only owners write |
| `avatar` | 1 user, 2 requests, 2 extensions, 2 texts | safety, actions | no lost update under any interleaving; a patient user leaves no orphan, and a deletion nothing |
| `api` | 2 users or nobody, 3 lengths, 3 splits (one seeded), 2 start times, 2 rows | safety | lengths and times come back as sent; the service is aborted over nothing but a stored length that cannot be read back; statuses, types and logins are those of the API description |
| `focus_timer` | duration 6, display unit 2, clock 0..14, jumps -2, -1, 2, 3 | safety, liveness, refinement | exact duration, one interval, 00:00 means complete, a running timer ends; the timer behaves as `Countdown` |
| `timesync` | buffer 4, empty line 2, response 2, send buffer 3, pieces of 1 to 5, 9 bytes | safety, liveness | no request answered twice; a polite client is answered in step, in the end, and removed |
| `workers` | 3 workers, 4 connections, 6 descriptors | safety, liveness | no race over the queue ends the process; no wake-up is lost while somebody waits; nobody is left in the queue for ever |
| `startup` | 2 instances of one service and 1 of another, 2 failures, 2 stops, 1 request each, 2 exporters | safety, liveness | each migration once; nobody serves without its own; who ends by itself leaves no request and no telemetry; all come up, and again |
| `timekeeper_orphans`, `timekeeper_latest`, `avatar_delete`, `api_panic` | as above | violated | see *Findings* |

Why the bounds are enough: the hazards are between *two* requests, of the same or of
different users, on the same or on different rows. One connection makes every request
inherit another's session, and wait while the pool is dry. A second timer is
needed for a split to be half deleted, a second extension for a replaced avatar to have a
different path. In `avatar` one user suffices because rows, paths and URLs of
different users are disjoint; the proofs have any number. In `timesync` a stream of 9
bytes has room for a request that fills the buffer, one that exceeds it and one
behind either, and a send buffer of 3 for one response and half of the next. In `workers`
six descriptors are enough for the polls of all three workers, two connections and the one to spare (`calm`), a third connection takes
that and makes the next `accept` fail, with a fourth waiting or not; one worker accepts while another sleeps and a third comes too late. In `startup` two of the
instances are of one service and one of the other: both the race of equals and the dependency
between services occur, and two stops take any two of them down, or one twice, while another is at
any point of its start. In `api` the lengths have some of every unit, more clock time than
`microseconds` may count, and more years, negative, than `months` may; the start times are a
microsecond before and after the PostgreSQL epoch, which is scaled to a second after Unix's, as
the limits of units are scaled to numbers of two digits. The proofs
then remove the bounds for everything but liveness. Symmetry is
declared in the runs of `Timekeeper`, `Avatar` and `Api`, over users, requests, extensions and
texts, which no definition tells apart; they have no liveness properties. Bounds in
the guards are `MaxSplits` and `MaxLen` (`Timekeeper`), `MaxSplits` and `MaxRows` (`Api`),
`MaxTags` (`Tags`), `MaxNow` (`FocusTimer`), `MaxBytes` (`Timesync`), `MaxFails` (`Startup`), `MaxOpen` and `MaxStops`
(`Lifecycle`); `MaxFiles` of `Workers` is the process's limit of descriptors and no bound. Deadlock is checked
everywhere but in `FocusTimer`, where a destroyed component really does nothing and the
clock ends at `MaxNow`, in `Timesync`, where nothing happens to a connection that is
removed, and in `Lifecycle`, where instances that serve do nothing more once the bounds are reached.

### Fairness

`tags` assumes weak fairness of `TimedOut`, because bb8 races every wait
against `connection_timeout`, and of `Setup`, because the runtime polls a future whose
statement was answered. Nothing is assumed of handlers: they wait for the
body of their request and for S3 with their connection in hand. `focus_timer`
assumes that time passes and that the browser runs the callback of a set interval
sooner or later. `Ends` excepts a clock that is set back for ever: that keeps the timer
running for ever, and the code promises nothing else. `timesync` assumes that a worker
accepts, takes events and goes on reading, which its loop does, and that the network
delivers a reset; nothing of the client, which may stop in the middle of a request, and
`Answered` excepts a process that was aborted. `workers` assumes that threads are scheduled and that the container is
restarted; clients may keep their connections for ever, and no system call has to fail. `startup` assumes that every instance that is
down is started and goes on (`restart: unless-stopped`, or the operator who stopped it), and that a process
that was told to stop is killed in the end if it does not end by itself; nothing is assumed of its
requests, which may never end. Failures of its own and stops are
bounded, failures that other instances cause are not.

## 4. Findings

Each is a run that TLC violates, with the quoted line in `PROJECT.json`.

* `timekeeper_orphans`: a delete whose two statements surround the second
  statement of the create of the same split leaves a deleted split with live timers,
  and a timer can be posted for it; `timekeeper.test.ts:102` expects 404.
* `timekeeper_latest`: `get_timers` is to return the most recent timer even when its split
  was deleted; the inner join drops it.
* `avatar_delete`: a delete that races a put deletes the image it read, then forgets
  the newer one, which stays stored.

* `api_panic`: the services install `CatchPanicLayer` with a `PanicHandler` that answers 500, and their descriptions promise
  a 5XX; built with `panic = "abort"`, a handler that panics, over a length that can be stored and not be read back,
  ends the timekeeper without an answer and with the calls of everybody, and again on every listing of that split.

Met while modelling and without a run of its own: the documentation of `get_time_splits`
(`SC/lockinspiel-timekeeper-schema/src/time_split.rs:221`) promises the default splits, but the filter looks for a NULL owner
in a NOT NULL column, so a logged-in user never gets them (`ListableBy` of `Timekeeper` and `Api`). The successful response of `put_avatar` is
described as `text/plain` (`SC/lockinspiel-user-schema/src/lib.rs:130`), but the handler answers
`Json` (`BE/lockinspiel-user/src/routes.rs:113`); `TypesAsDescribed` excepts this route.

## 5. Proofs

Every theorem is about the module's specification (without fairness) for arbitrary constants that meet the
named assumption of the module. Those assumptions say only that special values are
not among the ordinary ones and that bounds are numbers.

* `Tags_proofs`, of `DbSession`: `TypeCorrect`, `SessionIsolation`, `NoConnectionShared`,
  `CredentialsChecked`. `SessionMatchesRequest` alone is not inductive: it speaks of
  requests in their handlers. The invariant says what has been established at every
  point of `from_request_parts`, and that a held connection has exactly one holder, so that
  a step of another request cannot disturb it.
* `Timekeeper_proofs`: `TypeCorrect`, `LiveOrDieTogether`, `OnePostWins`, and the action
  properties `OwnersOnly` and `NothingIsUndone`. That a split's timers live or die together
  needs that a split whose timers are about to be inserted has none, and that no
  other request is about to insert into it (the id a request holds was given to it alone).
  `OwnersOnly` follows from that and from `Owns`. `ListingsAreWhole` (`ListedWhole`) needs that the timers of a split are one batch of
  consecutive rows, inserted and deleted as one, and that the ids of a listing are sorted by their order in it (`InOrderOfBatch`). That one post wins follows from the row
  being kept once inserted and the primary key being free before.
  `Refinement`: every statement of `Timekeeper` is a step of `PackagedSplits`
  (one lemma for each action, `CreateSplitPackaged` to `StoppedPackaged`). It rests on the invariant of `ListingsAreWhole`,
  extended by `TimerOK` to `RInv`: what a listing sorts and groups is the batch a document stands for, a document that is
  cleared has no timer left and one that is to be filled has none yet, an id keeps its meaning (`HandlesKept`), and a request
  holds a timer only for its next statement. With one user TLC checks the refinement, too; with two it takes
  longer than a run may, so the theorem stands alone.
* `Avatar_proofs`: `TypeCorrect`, `ProfileTextIsSafe`, `PatientLeavesNoOrphan`, `PatientDeletes`.
  The invariant for the last two says of every patient user that it has one request in
  progress, dropped ones with a late UPDATE included, that what that request read is still what the table holds, and
  that nothing of the user is stored as long as its UPDATE has not been executed.
* `FocusTimer_proofs`: `TypeCorrect`, `ExactDuration`, `NoIntervalLeaks`, `ZeroIsComplete`, for every
  duration, unit and set of clock jumps. The number of intervals is part of the invariant
  because a callback must find a running timer; the rounding of the display needs that
  nothing is left to run only if the timer is complete. `Refinement`: each handler is a step of `Countdown`, one lemma for
  each. It rests on the same invariant: the callback of an interval finds a running timer because there is no interval
  otherwise, and the deadline is what has not been run yet away, so the test of the deadline is that of `left`.
* `Timesync_proofs`: `TypeCorrect`, `RepliesMatchRequests`, `PoliteInStep`. The invariant `Aligned` relates
  the buffer to the stream: for a polite client it begins where the last answered
  request ended, so the whole of the next one is in it when its end is read.
* `Lifecycle_proofs`, of `Startup`: `TypeCorrect`, `MigratedOnce`, `ServedAreMigrated`. What an instance has listed and
  what is recorded may overlap, because others went on; that a migration of an instance
  is always in one of the two is the invariant that serving rests on. Of `Lifecycle`: `LifecycleIsStartup`, which
  carries these over, `LifeCorrect` and `StoppedCleanly`. A process ends with nothing unsent because
  the tracer's batch stays empty once it was shut down, which rests on no request being open then.
* `Api_proofs`, of the conversions: `UsecsKept`, `StoredAlike`, `ReadAlike`, `OrderKept`, `WholeUsecsKept`, `IntervalKept`,
  for every integer. Of `Api`: `TypeCorrect`, `AsSent`, `AbortsExplained` and `LatestReturned`, for all limits of units, ranges of
  times and epochs; each is a fact about one answer that rests on `TypeCorrect`, by which what is stored is the image
  of what was sent, and on the facts about the conversions. Of `ApiDoc`: `HandlersAsDescribed`, `SecurityDescribed` and
  `TypesDescribed`. That the macros keep what a route was declared with is proved once, for every method, path, tag, type and
  security a declaration of that form may have (`DerivedTells`, on `ItemsOfRoute` and `FieldsOfRoute`); that a function is
  described once (`RoutesDistinct`) makes the description the one derived from its declaration (`DescribedAsDerived`). What is
  left are the declarations, whose entries are compared with `Handlers` one group of routes at a time. The invariant
  of the last two theorems, `AnsweredByHandler`, says that an answer is that of one of the handlers of its route, and
  demanded a login only if that handler does.
* `Tags_proofs`, of `Tags`: `Refinement`, `OwnersWrite`, `NamesStayUnique`, `TagsTypeCorrect`. `SessionsRefined` shows that every
  step of `Tags` is one of `DbSession` or hidden from it, so the invariant of
  `DbSession` holds here too; `Identity` draws from it what the database makes of a
  handler's session. `OwnersWrite` says of whom the write is, not only that the owner has a request in a handler: `OnePerforms` shows
  that in a step of a handler its request and no other gets its reply. Each handler is then a step of `TagStore!Perform`, and each step of
  a session (`StepKinds`) a call, an answer, a loss or nothing.
* `Workers_proofs`: `TypeCorrect`, `WakeUpsKept`, `CalmStaysUp`, for any number of workers, connections and
  descriptors. The invariant adds to the types that a connection is in one place, once (`InOnePlace`: `TypeOK` only counts
  the queue, and a count says nothing of an `Accept` that would take a connection still waiting), that only workers that
  poll hold connections and a process that is down has nothing (`HeldByTheLiving`), that those held are finitely many
  (`WithinLimits`), that in a calm life all who wait or are held fit into the descriptors with one to spare (`CalmFits`:
  so an `Accept` finds one whoever comes first, `CalmHasDescriptors`) and `NoWakeUpLost`,
  which is inductive because `WouldBlock` returns to the poll only from an empty queue and `Connect` sets
  the event of every worker that has registered.

Only model-checked are the liveness properties `SetupEnds`, `Ends`, `Answered`, `Removed`, `QueueServed` and `ComesUp`, because
fairness and ENABLED are beyond the prover. Every invariant, action property and refinement that a passing run checks is
also a theorem.

## 6. Plan

Done: the modules above, in this order: `Timekeeper`, `DbSession`, `Avatar`, `FocusTimer`,
`Timesync`, `Startup`, `Tags` with `TagStore`, `PgTypes` with `Api`, `IntoPath` with `ApiDoc`, `Workers`, `Lifecycle`,
`PackagedSplits`, `Countdown`. Open, most important first:

1. `PooledTimekeeper`: the statements of `Timekeeper` executed on `DbSession`'s connections as
   those of `Tags` are, with the refinement of `Timekeeper` by the same mapping.
2. An abstract exchange of requests and answers that `Timesync` implements for polite clients.

## 7. Not modelled

How an error is written into the body of its answer, the texts and parents of spans, the filter of
log levels and the sanitizing of query texts only format; a telemetry batch that overflows concerns
no answer. Summaries and descriptions in the API descriptions are text, and the TypeScript types are generated from them.
The frontend shell serves static files. Configuration and certificates are input at the
edge: reading them may fail, which `Startup` has as `Fail`. The tables `socials` and `social_links` have no
routes. That sums of units do not overflow an `i64` or `i32` follows from jiff's limits and is not stated. PostgreSQL,
bb8, axum, S3, the container engine and the browser are modelled only as far as the code relies on them.

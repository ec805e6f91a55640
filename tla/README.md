# A specification of WebSiteBase

WebSiteBase is a Rust API (Axum, PostgreSQL, Redis) and a Next.js front end that
serves the browser and calls the API for it (a "backend for frontend", BFF).
This directory specifies in TLA+ the parts of it that decide something over time:
the sessions and their refresh tokens, the login lock and the two rate limits, the
admin listing, the sealed cookie of the BFF, the start, service and stop of the
process, and the metrics and logs it leaves. TLC checks the modules on
small instances; TLAPS proves the theorems listed below for every value of the
constants. `PROJECT.json` maps each definition to the lines it stands for.

Paths below are relative to the repository (`backend/src/…` is B, `frontend/…`
is F).

## 1. The system

    browser ── sealed cookie ──> Next server (BFF) ── JWT, refresh cookie ──> API
                                                                     │   │   │
                                                   PostgreSQL <──────┘   │   └──> channel ──> shipper task ──> OpenSearch
                                                                       Redis

| component | state | operations | calls |
|---|---|---|---|
| Session store, B `session/store.rs` | Redis: `sess:{sid}` (hash), `rt:{hash}`, `usess:{uid}` (set), each with a deadline | create, rotate, owner_if_active, logout, list, revoke, revoke_others, delete | Redis, one command or MULTI at a time |
| Lock and rate limit, same file | Redis: `lock:{uid}`, `rl:auth:{ip}` counters with a deadline | is_locked, record_login_failure, clear_login_failures, auth_rate_limit_ok | Redis |
| Auth handlers, B `handlers/auth.rs` | none | register, login, refresh, logout | session store, lock, database, JWT |
| Extractors, B `middleware/auth.rs` | none | AuthUser, AdminUser | JWT, session store, database |
| Session handlers, B `handlers/sessions.rs` | none | list_sessions, revoke_session, logout_others | session store |
| User and admin handlers, B `handlers/users.rs`, `admin.rs`, B `db/` | table `users` | get_me, update_me, list_users | database |
| Access tokens, passwords, B `auth/` | none (the clock) | issue, verify; hash, verify | |
| Shipper, B `monitoring/shipper.rs` | bounded channel, buffer, batch in flight, `dropped` counter | record, the select loop, flush, report_dropped | OpenSearch client |
| Metrics, B `monitoring/metrics.rs`, `layer.rs` | registry: counters, histograms | observe_request, render | |
| Log layer and events, B `monitoring/log_layer.rs`, `event.rs`, `telemetry.rs`, `errors.rs` | the global handle | on_event, the access document, into_response | shipper handle |
| Configuration, B `config.rs` | the environment | from_env: admit or refuse, defaults, floors | |
| Client address, B `middleware/client.rs` | none | client_ip, the key of the in-memory limiter | |
| In-memory limiter, B `routes/mod.rs` | a bucket for each address | one request of an `/auth` route | client address |
| Router, start and stop, B `routes/`, `lib.rs`, `main.rs` | the process: how far its start has come, the requests in flight | run; the layers of the router; graceful shutdown | all of the above, handlers |
| Headers, health, validation | none | answers of one kind | |
| BFF session, F `lib/auth.ts`, `lib/session.ts`, `lib/api.ts`, `app/actions/` | sealed cookie in the browser; a session object per request | getAuthContext, establishSession, loginAction, registerAction, logoutAction, updateProfileAction, requireAuth | API |
| BFF checks, F `proxy.ts`, `lib/redirect.ts`, `lib/csrf.ts`, `lib/schemas.ts`, `lib/api-schemas.ts` | none | safeNextPath, assertSameOrigin, schemas | |

What is hard here, and what makes each part correct:

* **Session store.** Each operation is several Redis commands with an await
  between them. Other requests, key expiry and the dropping of the handler's
  future (timeout layer, client gone, Redis error, crash) fall in between, and
  HSET recreates a hash that has gone. Correct: a session that ended never
  returns; the right to refresh it never forks; the hash names the token that
  redeems it; a revocation that has answered has ended all it covered; only the
  user's own sessions are ended; the index reaches every active session; the cap
  bounds the life of a session.
* **Lock and limit in Redis.** The lock is tested before an expensive password check and
  counted after it. Correct: concurrent logins overshoot the limit by a known
  amount; no account is locked for ever; no window of time admits more than the
  quota.
* **Shipper.** Producers never wait; the task shares one loop between receiving,
  a ticker and awaiting OpenSearch, which may have indexed any part of a batch
  when it fails. Correct: order and no duplicates, bounded memory, no silent loss,
  no document that waits for ever, nothing left behind at the end of the process.
* **Client address and in-memory limiter.** The address is an entry of a header that
  the client begins and the proxies end; it must be counted from the right and blank
  entries must not shift the count. Correct: whatever a client sends, it
  gets its own budget, no more, and costs nobody else a request.
* **Start, service and stop.** Some thirty variables, each with its own reader, decide
  what is started; every step may fail. Requests end in a handler, in a layer or
  nowhere (dropped), and what is recorded of them comes after. Correct: a process that
  serves is soundly configured and has its dependencies; every request ends; a stop
  comes to its end.
* **Metrics and logs.** Threads record while another renders; the shipper's own
  warnings pass the layer that ships events; ids come from spans that a filter may
  disable. Correct: each answered request is counted and logged once, as the client saw
  it; a scrape is of one instant and no series goes back; each error of the application has
  its event, under the id of its request, and it is known which others have none; no loop.
* **Admin listing.** An answer is three statements outside of any transaction, a
  walk is many answers, and accounts are inserted meanwhile. Correct: a total
  covers its page; a link never leads to an empty page; a walk misses nobody; a
  demoted account gets nothing, whatever its cookie says.
* **BFF session.** The cookie is a copy: concurrent requests act on stale copies,
  their answers overwrite each other, calls time out with their effect unknown,
  renders may not write cookies. Correct: a session that has ended yields no
  data; a token that is used has not expired; logout ends the session; a failed
  refresh ends at the login page.

`PROJECT.json` lists these hazards at the line where each bites, with the
properties that would notice.

## 2. Plan

| step | modules | status |
|---|---|---|
| 1 | `SessionStore`, `SessionLifecycle` (the abstract promise), `SessionStoreRefinement`, `SessionStoreProofs` | done, all properties proved |
| 2 | `AuthFlow`, `AuthFlowProofs` | done, all safety proved |
| 3 | `LogShipper`, `LossyLog` (the abstract promise), `LogShipperProofs` | done, all safety proved |
| 4 | `BffSession`, over `SessionLifecycle`, `BffSessionProofs` | done, all safety proved |
| 5 | `UserListing` (pagination, `list_users`/`count_users`, `AdminUser`, the admin page), `UserListingProofs` | done, all properties proved |
| 6 | `ClientAddress`, `ClientLimiter` (the abstract promise), `AuthGovernor`, `AuthGovernorProofs` | done, all properties proved |
| 7 | `Configuration`, `Observability`, `Server`, `ServerProofs`, `ServerReportProofs` | done, all safety proved |

`BffSession` composes the BFF with `SessionLifecycle` and not with `SessionStore`:
the run `store_all` and the theorem `StoreImplementsLifecycle` show that the
store implements that promise, so that what holds of the BFF over the promise
holds over the store, and the product of the two state spaces is never built.
`Server` composes `Configuration` and `Observability` with the layers of the router,
and takes a handler for its answer: what handlers do is in the other modules. Its
log documents end where `LogShipper` begins, at `try_send`.

## 3. The modules

A definition whose name ends in `Slip` is a mistake one could make in the code.
No action uses it; replacing the definition it imitates by it makes TLC refute
one property, which shows that the property can see the code.

### SessionStore

State: the three families of keys with their deadlines (`sess`, `rt`, `usess`),
the clock, and for each request in flight the local variables of the store
operation it runs (`req[p]`, whose `pc` names the command sent next). `born` and
`minted` keep the identifiers drawn: a UUID or a 256-bit token is never drawn
twice. `owed` and `revoked` are history: what a revocation in progress has to
end, and what those that answered had to end.

One action per Redis command or MULTI: `Create`; `RotateGetDel`,
`RotateHGetAll`, `RotateMulti`; `LogoutGetDel`, `LogoutHGet`; `Authenticate`
(the test of `AuthUser`, after which a session handler runs); `RevokeHGet`;
`RevokeOthersMembers`; `ListMembers`, `ListHGetAll`, `ListSRem`; `DeleteHGet`,
`DeleteMulti`, shared by rotate (past the cap), logout, revoke and
revoke_others, as in the code. `Abort` drops a request between any two commands.
`Tick` advances the clock, removes the keys whose deadline has come, and does not
let a request grow older than the timeout layer allows.

Abstractions: `last_seen`, `ua` and `ip` are not kept, nothing is decided on
them. A `NoHash` record is an absent key; a hash whose `user_id` is `NONE` and
whose `exp` is not zero is what a late rotation leaves behind. Lifetimes of 0,
which the configuration accepts, are excluded (`TimeAssumption`): Redis deletes a
key at once then, and no session exists. The three requests `revoke`,
`revoke_others` and `list` start at `Authenticate`, so that whatever happens
between the extractor and the handler is covered.

### SessionLifecycle and SessionStoreRefinement

`SessionLifecycle` is the promise to the callers, without keys, clocks or
requests: `Open`, `Redeem`, `Renew`, `Lapse`. The refinement maps `live` to the
`user_id` of the hashes, `retired` to the drawn sids that are not active, and
`chain` to the one token that redeems a session, or the one request that has taken
it.

### AuthFlow

State: the accounts, the two families of counters with the remaining life of
each, the requests. One action per step of the handlers between two awaits:
`Login`, `Register` (`enforce_auth_rate_limit`), `FindUser`, `IsLocked`,
`RecordFailure`, `ClearFailures`, `InsertUser`, `StartSession`, `Abort`,
`TimeOut`, `Tick`. The verification of the password is the time between
`IsLocked` and one of the two actions that follow it. `admitted` is history: for
each address and each k up to the window, the requests admitted in the last k ticks.
Past the quota the counter of the rate limit is kept at `RlMax + 1`: all higher values
answer alike. `held` is history too: for each account, how many ticks its lock has
lasted, counted up to `LongLock`, a lockout and a request timeout.

### LogShipper and LossyLog

State: the channel, the buffer, the batch awaiting its answer, the `dropped`
counter, whether senders are left, and what OpenSearch has (`indexed`). `sent`,
`abandoned` and `reported` are history: the answered batches in order, those of their
documents that were not indexed, and the losses that were logged. `Record` is
`try_send`; `Receive`, `ReceiveClosed` and `Tick` are the arms of the select; `AnswerAny` is the answer
of OpenSearch, which may have indexed any part of the batch; the task only logs
it. `ServeEnds` and `Exit` are the end of `run` in B `lib.rs`. `keptOpen`,
chosen at the start, says whether this handle is the one kept in `GLOBAL_HANDLE`
(the first of a process is), which is why the arm for a closed channel can be
reached at all.

`LossyLog` is the promise to those that record, without channel, buffer, batches, ticker
or task: `Offer` takes a document or refuses it, at once, and refuses only when `Room`
documents wait; `Settle` lets at most `Lot` of the oldest leave, indexed or not; `End`
loses the rest. The refinement maps what waits to the batch, the buffer and the channel
end to end, and what was refused to the counter and its reports together.

### BffSession

State: the abstract backend, the generation of the last refresh token of each
session (older ones were rotated), the cookie (`jar`), and the requests of one
browser with the session object each works on. `SendLogin`, `SendProtected` and
`SendLogout` start the actions and the protected pages; `RefreshTakes`,
`RefreshRenews`, `RefreshFindsDead`, `LoginOpens`, `CallAnswered`, `LogoutTakes`
and `LogoutEnds` are what the backend does for them; `Establish` is
establishSession; `ApiFails` is a 5xx, a lost answer or the timeout of apiFetch, at
any point, with the rest of the backend's work done or not (`Aftermath`);
`Deliver` and `Lose` are the fate of the answer; `EndElsewhere` is a revocation
from another device, or an expiry. A seal keeps two countdowns: to
`accessTokenExpiresAt` (`believed`) and to the moment from which
`verify_access_token` refuses the token, leeway included (`left`).

`RendersWrite` is about Next, which is not in the repository: cookies are
read-only in a render (`ReadonlyRequestCookies`, the type that
F `lib/session.ts` casts away) and writable in an action. With `FALSE`, `save` and
`destroy` throw in a page. The layout of the protected area and the page in it both
call `requireAuth`: they are two requests of the model. What the backend still does
for an abandoned call happens in the step that abandons it; a delayed effect
is the same as a request of another process that is slow, which the model has.

### UserListing

State: the table `users` (`rows` are visible, `pending` are being inserted,
`created` is `created_at`), the role of the administrator in the table and in the
cookie, and one client who looks at pages: the admin page through the cookie
(`Visit`, `Follow`), or the API with any page and size (`Call`). `PageGuard` is the
test of the cookie's role (proxy, layout and page make the same), `Extract` is
`AdminUser` and `ValidatedQuery`, `List` and `Count` are the two statements of
`list_users`, `Fail` is any error on the way. `IsPage` says which sets of rows
`ORDER BY created_at DESC LIMIT OFFSET` may return, with any order among equal
instants; the order within a page is left out. `Offset` saturates at `MaxInt`, and
`PageParam` falls back to page 1 as the zod schema does. An insertion takes its
instant when it begins and shows its row when it commits. Rows are never deleted:
no statement of the repository does. `linked`, `fromTop`, `start`, `seen` and
`entitled` are history.

### ClientAddress, ClientLimiter and AuthGovernor

`ClientAddress` translates `client_ip` and `peer_ip`: a header is the sequence of its
trimmed entries, and the trusted one has `hops` non-blank entries from itself to the
right end. The code filters, then indexes; `MCAuthGovernor` assumes, and TLC evaluates,
that both readings agree on all headers of up to four entries. `Header` and `PeerIp`
say what proxies, which are external, make of a client's header.

`AuthGovernor` is the limiter in front of the `/auth` routes. The token bucket is the
governor crate's, external: `backlog` is the time until a bucket is full, a request
costs `Period`, and passes if the bucket holds it. What the code chooses is the burst
(10), the period (2 s) and the key. `within` is history. `ClientLimiter` is
the promise, with one bucket per client and no addresses at all.

### Configuration and Observability

Both are stateless. `Configuration` says which environments the start admits
(`Admits`) and what it makes of them (`Config`), variable by variable: the value of a
variable is what the code can tell about it, its shape (unset, blank, junk that does not
parse, padded with white space in front, followed by it, bare) and what its text stands for. The readers differ:
`req_parse` refuses padding, `opt_parse` trims it, the JWT secret is measured with it,
the log filter is taken as it is, the scheme of the Redis URL is looked for at the start of
the text as it is, a blank API key is refused and a blank password is missing.

`Observability` has the status, code and level of each `ApiError`, the outcome and the
labels of a request, the cumulative histogram, which events the filter enables
and the log layer ships, and the id an event takes from its spans.

### Server

State: the environment, how far `run` has come (`phase`), the dependencies reached, the
global handle, the requests of the process in order, the registry, the last scrape, and
the bag of log documents. The start is `LoadConfig`, `OpenPool`, `ConnectStore`,
`StartMonitoring`, `Listen`, each of which goes on or ends the process. A request is
`Receive`d and then handled: `Emit` is an event of its handler or extractor;
`AnswerSilently`, `Fail`, `Readiness`, `Scrape` and `Timeout` are the ways it is
answered, by handlers, by axum, by the router or by a layer, and `Drop` is the loss of its
future where it awaits. `SilentStatuses` are the answers that no `ApiError` makes, among
them the 400 by which axum refuses a session id that is no UUID (`RawPath`). `Observe` and `LogAccess` are the two things
`record_requests` does after the answer, with other threads between them.
`ShipperWarns` is an event of the monitoring itself. `Signal` and `Exit` are the
graceful stop; `Kill` is any other end.

A latency is the bucket that holds it. A status 200 stands for every success. Headers,
bodies and time stamps are left out; the sum of the latencies too.

## 4. The runs

| run | question | result |
|---|---|---|
| `store_all` | two requests at a time on the sessions of two users: types, one refresh right per session, hash names token, no revival, revocations that answered hold, the index reaches every active session, the cap bounds a session, no request ends another user's session, the store implements `SessionLifecycle` | holds |
| `store_cap` | a session past the cap is not active | violated |
| `store_list` | list returns active sessions only | violated |
| `auth_limits` | the overshoot of the lock, how long a lock lasts under attempts that go on, the quota of every window, locks lift | holds |
| `shipper_ship` | order, accounting, memory, progress; the shipper implements `LossyLog` | holds |
| `shipper_exit` | at the end of the process nothing is left | violated |
| `limiter_budget` | a client behind the proxies gets its budget and costs nobody else a request, whatever header it forges | holds |
| `server_life` | a process that serves is sound; requests are counted and logged, each `ApiError` and each failed readiness has its event and five other kinds of error have none; scrapes are coherent; requests and stops end | holds |
| `list_pages` | totals cover pages, links lead to rows, walks miss nobody, only admins are served | holds |
| `bff_tabs` | skew covers the delays; a session that has ended yields no data | holds |
| `bff_logout` | an answered logout has ended the session | violated |
| `bff_render` | a refresh that fails clears the cookie and leads to the login page | violated |

**Bounds.** The interesting cases need few actors. `store_all` has two requests at a
time, and as many one after the other as its identifiers and four ticks allow: one
of them stays between two commands while the other opens, rotates or ends
sessions, of the same user or of another one, so that `list` and `revoke_others` work
on sessions that change under them. Four tokens let each of the two sessions rotate
once, or one rotate three times; lifetimes of two and three ticks put an expiry between any
two commands and carry a rotated session past its cap. A third
request would only repeat what one of the two can do after it has ended; the theorems
hold for any number. `auth_limits` has three requests against a limit of two
and windows of two ticks; the address is one, since counters of different
addresses do not meet. `shipper_ship` has five documents for a channel of two and
batches of two: it fills, overflows, sends two batches and leaves one that does
not fill. `limiter_budget` has two clients behind two proxies and five headers: none, an
address of the other client, a proxy's address after a blank, two addresses before a
blank, and a chain longer than the trusted one; a burst of three at a period of two in windows of four exhausts and refills a
bucket. `list_pages` has five accounts in pages of two: a walk takes
three pages, and insertions push rows from the first to the last; three instants
give rows with and without a twin; with the largest integer at five and pages of up to three
the offset passes it. `bff_tabs` has two requests in flight and two sessions (a login while
the previous session is open), one rotation each, an API timeout of one tick, a
skew of two and an access token of three, the smallest numbers that satisfy
the assumption; the code's are 10 s, 30 s and 900 s. `server_life` starts in each of 40
environments, which put one setting at a time at an edge; requests are made in three of
them (without monitoring, with it, and with the filter at `warn`), two at a
time out of seven: a limited route, its preflight, a route with a parameter, the scrape, the
readiness, a wrong method and an unknown path with an unknown method. The ids are absent,
shared by two requests, or not text. Widths are small numbers that the defaults fit in.
`MaxTime`, `MaxGen`, `MaxDocs`, `MaxRequests` and `MaxEvents` are the bounds on what
would grow without end.

**Symmetry** is used where only safety is checked, over the sets whose members no
property tells apart. `auth_limits`, `shipper_ship` and `server_life` check liveness, without it.

**Deadlock** is checked in `auth_limits`, `limiter_budget`, `list_pages` and the BFF
runs. The runs of SessionStore stop when `MaxTime` and the identifiers are used up, and
the shipper and the server stop with their process: they say `CHECK_DEADLOCK FALSE`.

**Fairness.** SessionStore, UserListing, BffSession and AuthGovernor are specified without fairness:
all that is said of them is safety, and a request may indeed be dropped or wait for ever.
AuthFlow assumes that time passes and that the timeout layer drops a request that
has reached its timeout. LogShipper assumes that `tokio::select!` polls its arms
in random order (a document that stays in the channel is received), that the
interval elapses, and that a `_bulk` request ends: the client is built with a
timeout. Server assumes that the timer of a request fires where its handler awaits, that
code which does not await runs on, and that the serve loop returns once no request is
left. The last of these is about connections as the model has them, by their requests: one
whose request head never arrives in full has no request, and `Stops` says nothing of a
stop that waits for it. Nothing is assumed about requests being sent, servers stopping, or
OpenSearch succeeding.

## 5. What is proved

All proofs are for any sets of users, sessions, tokens and requests, any lifetimes
and limits that satisfy the assumptions in the modules.

**SessionStore** (`SessionStoreProofs`). `TypeCorrect` is inductive by itself. The
others rest on six invariants that are not visible in the code:
`Drawn` (nothing refers to an identifier that was not drawn), `OwnerKnown` (a
request about to delete or renew names the owner of the session), `IndexSound`
(an index names sessions of its user only), `Timely` (nothing is dated in the
future; a request is younger than the timeout), `IndexOutlives` (the index of a
user expires no earlier than the user's active sessions) and `OwedPending` (what a
revocation has to end is dead or on its list).
`EndedForGood` needs types only: `create` alone writes `user_id`, and draws a new
sid. `RefreshLinear` follows from `Drawn`, since a new token redeems nothing
before; `HashesNameTokens` from the two being written in one MULTI;
`OnlyOwnDeletions` from `OwnerKnown` and `IndexSound`; `CapHolds` from `Timely`.
`IndexIsComplete` and `RevocationIsFinal` have the hypothesis
`IdleTTL <= AbsTTL`, which `IndexOutlives` needs.
`StoreImplementsLifecycle` is the refinement: a create is an `Open`, a GETDEL a
`Redeem`, the MULTI of a rotation a `Renew` (or nothing visible, when the session
has ended meanwhile), all else a `Lapse` or a stutter.

**AuthFlow** (`AuthFlowProofs`). `TypeCorrect`, `OvershootBounded`: the failures
counted plus the logins between the test and the count never exceed the limit by
as much as the number of requests in flight. Inductive with types and
`PassedWithRoom` (whoever is between them found a limit above zero). And
`QuotaNeverExceeded`, by `Metered`: while a counter lives it is at least what was
admitted in any window, and a counter with r ticks left has seen no request, hence
admitted none, in the ticks since; every request re-arms the deadline, so that a counter
that lapses leaves a window with nothing in it. `LockIsTemporary`: whoever keeps sending
logins to a locked account cannot keep it locked. Attempts that meet the lock are not
counted, and a login that was past the test when the lock began is at least as old as
the lock (`Timed`), so that it counts, and arms the deadline again, only while the lock
is younger than the request timeout. The hypothesis `MaxAttempts > 0` is in the property: with zero
every account is locked at all times.

**BffSession** (`BffSessionProofs`). `TypeCorrect`, and `SkewIsEnough`: with a skew of
at least twice the API timeout, the access token of a call in flight has not
expired. The invariant `Delays` says that a seal is too optimistic by one API
timeout at most (the age of the answer it was computed from), and keeps for a
token being issued, or used, the sum of its remaining life and the age of the call.
`EndedYieldsNothing`: a request sent after its session has ended works for a sid that
is retired, and a retired sid never lives again, which is the promise of
`SessionLifecycle`; no call of such a request is answered with data.
The backend's part of every action is an action of `SessionLifecycle`, by construction: the
specification that `StoreImplementsLifecycle` shows of the store.
`WritableRefreshToLogin` is about the property that `bff_render` finds violated: under the
hypothesis `RendersWrite` it holds, so that read-only cookies are the only cause.

**LogShipper** (`LogShipperProofs`). `TypeCorrect`, `SentInOrderOnce`,
`EveryDocumentAccounted` and `MemoryBounded`. The sent batches, the one in flight, the
buffer and the channel are one sequence which every step but `Record` leaves as it is,
and to which `Record` appends a document later than all of it: that gives order, no
duplicates, and, as an increasing sequence has as many members as its length, the count.
`ShipperImplementsLossyLog` is the refinement, from the same invariant: a record is an
`Offer`, since the buffer and the batch together never exceed one batch (`OneBatch`); an
answer is a `Settle` of the front of the sequence (`FrontLeaves`); the arms of the select
only move documents within it, and reports move refusals from one counter to the other
(`LoopIsSilent`). `EndedTaskDrained` is what remains of the shutdown: a task that has
ended has left nothing behind, since it saw the channel closed and nobody can record
any more (`Sealed`). The process does not wait for it, which is what `shipper_exit` shows.

**AuthGovernor** (`AuthGovernorProofs`). `KeyIsClient`: with as many trusted hops as
proxies, the key is the client, whatever header it sent. Counting non-blank entries from
the right, those that the proxies appended come first, and the one at `hops` is what
the outermost proxy wrote. The refinement `GovernorImplementsLimiter` follows at once;
`BudgetHolds` by an invariant that relates what was admitted in the last k ticks to the
backlog: each tick pays one back at most.

**Server** (`ServerProofs`). `AdmittedIsSound`: every environment that `Admits` lets
pass gives a configuration without the zeroes and the clear text that `Sound` excludes.
`AdmittedMeetsAssumptions`: the settings it gives are what `LogShipper` and `AuthFlow` assume of their
constants, but for the number of attempts, which may be negative.
`ServiceIsSound`, by an invariant that says for each phase what the
steps before it have established. `TypeCorrect`, `EachRequestCountedOnce` and
`EachAccessLogged`, by one invariant that is exact for the registry and for the
log: every key has as many as there are requests past that point with that key.
`NoSeriesGoesBack` follows step by step from the types.

What the process says of itself is in `ServerReportProofs`. `ScrapesAgree`: in the registry, and
in what was last scraped of it, each histogram has as many observations as the counters of
its method and route have requests (`Agree`). The counters of one series are added up by
pairs of a key and a number up to its count (`CountedAt`): an observation adds one pair,
and the sum needs no induction. `EachErrorExplained`: by `EventInv`, exact in its turn,
each event of an error or of the readiness probe has as many documents as there
are answers that call for it, which needs an answer and its event to come in one step
(`Explains`) and a request without an answer to call for none (`Unanswered`). It is about
`ApiError` and the readiness: by `AllAccounted` every other error is a sid that is no UUID
(400), a method that the path does not have (405), the timeout (408), the limiter in memory
(429) or a panic (500), and, as the events are counted exactly, none is about it. The
process's own events are counted by how far the start or the stop has come (`Told`).

**UserListing** (`UserListingProofs`). `TypeCorrect`, then one inductive invariant
for the other four properties. Its core is `UnseenAhead`: an account the walk has
not shown is preceded by at least as many rows as the pages read so far hold,
and, once the total is known, that total passes the page. Insertions only add to the
rows before it (`RanksGrow`); a page that does not show it lies before it
(`PageRank`); and the link is offered exactly when the total passes the page
(`LinkCriterion`). This needs the rows to be read before they are counted. The only
hypothesis on sizes is that the number of accounts fits in an `i64`.

**Model-checked only:** `LockLifts`, `Settles`, `RequestsEnd` and `Stops`, which are
liveness under fairness and out of the prover's reach. Every invariant, action property
and refinement that a passing run checks is also a theorem. The five violated
properties are of course not proved.

## 6. Where code and documents part

* `store_cap`. The cap is tested in `rotate` only, and each rotation grants a whole
  idle lifetime: a session rotated just before the cap authenticates after it.
  `config.rs:94` calls it a hard cap after which a new authentication is required.
* `store_list`. A rotation overtaken by a deletion or an expiry recreates the hash
  with `last_seen` and `rth` only. It authenticates nobody (`DeadStaysDead`), but
  `list` tests for an empty hash and shows it among the active sessions.
* `shipper_exit`. The global handle keeps the channel open, so the task never sees it
  closed, and nothing awaits the task: what is buffered at shutdown is lost and
  uncounted.
* `bff_logout`. A logout whose cookie is one rotation old is answered with 204,
  and the session stays active under the new token until it expires.
* `bff_render`. In a page render the refresh of a due token succeeds at the backend and
  cannot be saved: the rotated token is lost, `destroy` throws in turn, and the
  error page is shown with the old cookie still in place.

Without a run of their own:

* `SESSIONS.md` and comments in `store.rs` call the window of the auth rate limit
  fixed; EXPIRE accompanies every INCR, so it slides, and a steady client over the
  quota is refused until it pauses for a window. `QuotaHolds` needs that.
* The comment on `record_login_failure` says that the lock lapses only when attempts
  stop. Attempts on a locked account return before they are counted, so the lock
  lapses one lockout period after the last counted failure: `LockEnds` and `LockLifts`
  need that.
* Rows with the same `created_at` have no order between queries: a walk through
  the admin pages may miss one of them. `WalkShowsEveryone` leaves them out. A tie-break
  on `id` would close the gap.
* A refresh that the backend answers with 503, or that times out, destroys the browser's
  session (`lib/auth.ts:93`, whose comment has only refused tokens in mind), although
  `SESSIONS.md` says that the 503 lets the client try again. A second request
  with the same cookie, which loses the race of the rotation, does the same.
* Once a page render has failed as in `bff_render`, the browser keeps getting the error
  page: `/login` sends a browser with a sealed session back to `/profile`. A
  logout ends that.
* The layers that add the security headers are inside the ones that answer
  a timeout (408), a panic (500) and a preflight, so that those answers lack them;
  `routes/mod.rs:86` and `backend/SECURITY.md:89` say all answers.
* The BFF sends no `X-Forwarded-For` to the API, so that all browsers share one bucket
  and one Redis counter, the BFF's; `frontend/README.md:189` counts on the client
  chain there. `ClientBudget` is about the clients of the API.
* Five kinds of error pass by `ApiError`: the plain 400 of axum for a session id that is no
  UUID (`handlers/sessions.rs:37` takes a `Path<Uuid>` as it is, where `ValidatedJson` and
  `ValidatedQuery` map their rejections), the 405 of the router, the 408 of the timeout, the
  429 of the in-memory limiter and the 500 of a panic. Their access documents have no
  `error_code` and no event stands beside them (`Unexplained`); their bodies are not the
  JSON of the API. `MONITORING.md:159` has an `error_code` for an error, and
  `backend/SECURITY.md:119` counts refusals by 429 among the logged events.
* With `LOG_FILTER=warn` the `http_request` span is disabled and events lose their
  request id; an empty value lets errors through only, also without it.
  `MONITORING.md` and `errors.rs:3` promise the id on every event.
* A request whose future is dropped is neither counted nor logged, and `/metrics` is
  left out on purpose; `monitoring/layer.rs:1` says each request.
* A client's own `x-request-id` is kept, so that ids are not unique; one that is not
  text is logged as `unknown`.
* `normalize_route` does not know the session routes, which are all `other`.
* `client_ip` reads the first `X-Forwarded-For` line only. A proxy that adds a line
  instead of appending to it would not be read; `ClientAddress` takes one line.
* The configuration admits zero for `REQUEST_TIMEOUT_SECONDS` and the lifetimes, a
  negative `LOGIN_MAX_FAILED_ATTEMPTS` (which acts as zero: every account is
  locked; `AuthFlow` assumes a natural number) and `DATABASE_MAX_CONNECTIONS=0`, with
  which the start then fails.
* The readiness probe asks PostgreSQL only; the health check of `main.rs` asks
  127.0.0.1 whatever the address bound.
* The configuration does not require the life of an access token to exceed the skew of
  the BFF (30 s), which `SkewCovers` assumes. At or below it every token is due as soon as it
  is issued, and each request of the BFF refreshes; below the timeout of a call the new token
  itself may expire under it.
* The configuration does not require the idle lifetime to be at most the absolute
  one. When it is longer, the index expires before the sessions it names, and
  `revoke_others` answers without having ended them: `IndexComplete` and
  `RevocationHolds` then fail.

## 7. What is not modelled

* Cryptography is taken as given: a hash names its token, a seal cannot be forged, a
  password is right or wrong.
* The request checks of the BFF (`safeNextPath`, `assertSameOrigin`, the schemas) and the
  validation of fields are stateless tests of the characters of one string or
  of the fields of one form: no step of theirs meets another, and a model would spell
  the strings out. The bodies of errors, headers and the rendering of pages are formatting.
* `get_me` and `update_me` are single reads and one statement on one row. The
  health check sub-command is one request.
* Migrations, queries, TLS to OpenSearch and its index template are I/O set up once;
  `Server` has their success and their failure.
* The free fields of an event, time stamps and the format of a bulk request.
* Hazards without a property, with the reason in `PROJECT.json`: `register`
  that inserts the account and then fails to open a session; the refresh that meets a
  503; rows with the same `created_at`; the limiter's map, which nothing empties; a
  rotation dropped between GETDEL and MULTI, which leaves an active session that no token
  can refresh (the store and `SessionLifecycle` both have it, and no document promises
  more); an absolute lifetime shorter than the idle one (section 6).

## 8. Running it

From this directory, for instance:

    tlc -config MCSessionStore_all.cfg MCSessionStore.tla
    tlc -config MCServer_life.cfg MCServer.tla
    tlapm ServerProofs.tla

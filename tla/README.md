# Verification of the Firecrawl gateway

TLA+ models, TLC runs and TLAPS proofs for the gateway in `apps/api` and its admin
UI in `apps/admin`. The gateway accepts Firecrawl requests, decides
between Firecrawl Cloud and a self-hosted instance, spreads Cloud requests over several
Cloud API keys by the credits each has left, and records what it did.

Contents: [inventory](#inventory) · [modules](#modules-and-how-they-correspond-to-the-code) ·
[runs](#runs) · [bounds](#bounds) · [fairness](#fairness) · [proofs](#proofs) ·
[finding](#finding) · [not modelled](#only-model-checked-and-not-modelled) · [plan](#plan)

## Inventory

Paths are relative to `src/apps/api/src` unless they start with `apps/`.

| Component | State it keeps | Operations | What makes it correct |
|---|---|---|---|
| Shared credit ledger, `credits/credit-ledger.store.ts` | in Redis, per Cloud key: pool hash (credits, reserved, reserveSequence, disabled, cooldownUntil), a hash per open reservation with a time to live, a sorted set indexing them | five Lua scripts: reserve, capture, settle (refund, cooldown, disabled), actual usage, reconcile | counters, hashes and index agree; an estimate is returned at most once; a refresh neither forgets newer promises nor keeps older ones; cooldowns last; leaked reservations return |
| Credit routing, `credits/credit-routing.service.ts` | per instance: locally disabled keys, local cooldowns, rotation cursor, Redis circuit breaker, usage cache and refreshes in flight | `reserve`, `recordResponse`, `refreshCreditUsage`, the streaming `creditsUsed` scanner | the ledger never promises credits the provider does not have, except where it cannot know; each reservation is used once |
| Request proxy, `proxy/proxy.service.ts`, `policy.ts` | per request: backend, tried keys, loop counters, answer, timers, stream, audit insert | `handle`, `proxyCloud`, `proxyToBackend`, `sendProxyResponse` | modes and privacy respected on every path, exact quota fallback, no backend used twice, attempts settled once, requests end |
| Settings, `settings/settings.service.ts`, `settings.controller.ts` | a PostgreSQL row per key; per instance a five-second cache and reads in flight | `getSetting`, `setSetting`, `deleteSetting`; PUT of several settings; re-encryption of the key list | a read racing a write does not take the instance back to the old value; no lost update |
| API keys, `api-keys/` | rows; per instance a validation cache and a touch debounce | create, revoke, validate, touch | a revoked key is refused within the cache's lifetime; a used key is not revoked as inactive |
| Rate limiter, `common/rate-limit.middleware.ts` | buckets per instance, one counter row per bucket | `use`, `flushBucket`, eviction | no instance admits much more than the limit, counts reach the database |
| Audit log, `audit/` | audit rows | append (late, beside the reply), list since a cursor, delete one, several or a period | deletions are final; a reader who follows the log converges to it |
| Maintenance, `cron/` | none | prune old audit rows and expired windows in batches, refresh all Cloud keys, revoke unused API keys | only old rows go; a key in use stays |
| Admin sessions, `auth/` | none (signed cookie) | login, logout, me, guards | no page without an identity |
| Admin UI, session and routes, `apps/admin/src/contexts`, `App.tsx` | identity, the first `/me` under way, route | login, logout, navigation, reload | who has signed out stays out |
| Admin UI, dashboard, `pages/Dashboard.tsx` with its components | entries, the fetch under way, filters, page, selection, drawer, dialogs, deletions under way | polls, merges, full refreshes, filters, saved views, chips, paging, selections, deletions | the view converges to the log, nothing deleted returns, a page with matches is not empty |
| Admin UI, key list, `pages/ApiKeys.tsx` | list, fetches under way, filter and page, form, secret, dialog, POST and DELETE under way | refresh, create, revoke, filter, page | own changes appear in the list |
| Admin UI, settings, `pages/Configure.tsx` | draft, snapshot of what is saved, requests under way, reset dialog | load, edit, save, reset, balances | "Saved" means saved |
| Bootstrap, configuration, crypto, health, schema | none that changes | start-up, parsing, ping, migrations | left aside |

**Interactions.** `handle()` reads settings through the cache, validates the API key,
calls `reserve` (which runs the ledger's script or falls back to local rotation), calls the
upstream, and passes the status to `recordResponse`, which settles in the ledger. A 2xx
JSON answer is observed while it streams, and its usage is settled from a task that may
outlive the request. The cron job and the admin UI call `refreshCreditUsage`, which captures
the ledger's sequence, asks the provider, and reconciles. Several instances share Redis and
PostgreSQL and nothing else.

**Hard behaviour.** Every `await` is a point where other requests, refreshes and
instances run; Redis commands may run although their caller gave up on them after 750 ms;
reservation hashes expire beneath counters that still count them; Redis may lose its
data; refreshes overlap; the retry loop mixes rejections and broken connections; streams
outlive the function that opened them; database reads overlap writes; verdicts, touches and counts are cached per
instance while others change what they stand for; answers reach the admin UI late, out of order, or after
the page has changed. The full list, with
lines, is under `hazards` in `PROJECT.json`.

## Modules and how they correspond to the code

| Module | What it is |
|---|---|
| `CreditBudget` | the abstract promise of the ledger: per key an amount `available` and an amount `held`, whose sum only a reading of the provider may raise |
| `CreditLedger` | the five scripts, one action each (three for settle, by its action), with expiry, data loss and clock; `Budget` is the refinement mapping |
| `CreditRouting` | the instances around the ledger: `CreditLedger` is instantiated with the attempts as its reservation keys and with one refresh per instance and key |
| `ProxyFlow` | one request through `handle()`, with its timers, stream, observer and audit insert as concurrent parts |
| `SettingsCache` | one setting, the caches of several instances, overlapping reads and writes |
| `CreditsScanner` | the streaming scanner for `metadata.creditsUsed`, driven byte by byte by the JSON grammar, which also says what it should report |
| `ApiKeyAccess` | rows of API keys, validation caches, joined reads, debounced touches, revocation by an administrator and by the maintenance job |
| `RateLimiter` | one client address: buckets of several instances, flushes under way, the shared row |
| `DashboardSync` | the audit log and the page that follows it by polls, refreshes and deletions |
| `DashboardView` | filters, paging, selection, drawer and dialogs of that page, over whatever entries it holds |
| `ApiKeysPage` | the page of the API keys |
| `SettingsForm` | the page of the settings with the controller behind it |
| `AdminSession` | identity, login, logout and routes |
| `AdminConsole` | the four modules before it as one UI: a page is mounted while its route shows, and forgets everything when it is left |
| `CreditLedgerProofs`, `CreditRoutingProofs`, `ProxyFlowProofs`, `SettingsCacheProofs`, `ApiKeyAccessProofs`, `RateLimiterProofs`, `DashboardSyncProofs`, `AdminConsoleProofs` | theorems; those of the scanner are in `ProxyFlowProofs`, with the request whose answer it reads |
| `MC...` | symmetry sets and small tables for TLC |

**CreditLedger.** `credits`, `reserved`, ... are the fields of the pool hash (`initialized`:
the field `credits` exists), `ticket[r]` is the sequence in the hash of reservation `r` (0:
no hash), `members` the sorted set, `refresh` a captured sequence. A script is one action,
since Redis runs it atomically. `holder` says for which pool a caller still holds a
reservation: keys come from `randomUUID` and a caller settles at most once. `LedgerUsedOnce`
and `ImplementsLedger` check in `CreditRouting` that the callers keep to that. States
written into a hash that the same script deletes are not represented. Estimates are one
constant; `known` and `epoch` in a refresh are history variables that the properties use
and no action reads.

**CreditRouting.** An attempt goes `idle → asking → told → sent → answered → settling →
done`; each arrow is one stretch of code between two awaits. `reserve` computes its candidates
before Redis is asked and tests the local state again in `reserveLocally`, and so does the
model. A command that times out either ran or did not, and the caller sees the same
(`ScriptReserves` and `ScriptDeclines` with the answer "unavailable", `Settle` and
`RunReconcile` with the command left out). A reserve script may also run after its caller went
on without it (`QueuedScriptReserves`). A settlement that runs late is one whose attempt lingers
in `settling`, since nothing else waits for it; a reconcile that runs late is, for the ledger, the reconcile of another
instance's slower refresh. The provider is external: `Provide` lets it answer whatever the code tells apart,
402 only when the key is empty, and charge before it answers. The usage cache is left out
because a cached answer changes nothing, so a refresh may start whenever none is in flight.
`tainted` is a history variable, the list of the situations in which the ledger cannot know
better: consumption around the ledger by local rotation, consumption between a reading and
its reconcile, a clamp at zero, a sequence captured before a loss of data.

**ProxyFlow.** `pc` is where `handle()` stands; `asking` says on whose behalf a key is
reserved or the self-hosted instance is called. Requests differ by what
policy.ts derives from them: mode, features that need Cloud, privacy. `reserve()` is a choice
of any untried key or none, which covers every state of the pools. `armed` and `streams`
are sets of upstream calls, so that a leaked timer or body would remain visible. A URL that does not parse is answered 400
before anything else, without an audit entry (`RejectUrl`).

**SettingsCache.** A value is the number of the commit that wrote it. A `get` waits for the
database read it started or joined; `DatabaseReads` is when PostgreSQL evaluates that read, which may
lie before or after a commit whose confirmation is still on its way.

**CreditsScanner.** One action per kind of byte the grammar allows next; each appends to the document and
passes the byte to `ProcessByte`, which is `processByte` with its six states, one operator each. `expected` is
computed from the document's structure alone (`Within`, `Completes`). Chunks make no difference, since the scanner keeps its state
from byte to byte. Letters stand for printable characters, `"other"` for a byte outside printable ASCII, for which the code
puts a backslash and a zero into its key buffer (`Unprintable`); digits are binary.

**ApiKeyAccess.** A request is `idle → reading → verdict → touching → touched`. A read is started by one request and
joined by others; `DatabaseReads` is when PostgreSQL evaluates it. A verdict is acted on in the same turn of the event loop, so other
actions wait for it (`Next`). The maps' eviction is an action that may happen at any time. Time passes in
`Tick`, which lets no database call take longer than `QueryDelay`.

**RateLimiter.** A bucket is an object with an identity: `current` is the one in the map, others live on while a flush or
a waiting request refers to them. `StartFlush`, `FlushCommits` and `FlushReturns` (or `FlushFails`, before or after
the commit) are the three moments of `flushBucket`. `own`, `quiet`, `arrived` and `clean` are history.

**DashboardSync.** An entry is its position in the order of `created_at`, which the proxy assigns before it writes the
row. `fetches` has at most one element in the code, whose flag `fetchingRef` `FetchData` models; a mutant without the flag has more.
A deletion and the lookup it answers with are one action, its answer another.

**AdminConsole.** `ConsoleNext` is a step of the session or of the page that is mounted. What the server holds is chosen
anew at each mount, since anything may have changed it. Session answers are choices: other windows share the cookie. In
`SettingsForm`, a PUT goes through its fields one action each (`PutWrites`, `PutRefused`), and whoever finds the key list in clear
writes it back (`EncryptBack`). `doubtful` is history: it excepts what the page cannot know.

## Runs

| Run | Shows |
|---|---|
| `ledger_safety` | `TypeOK`, `IndexSound`, `ReservedMatchesIndex`, `FenceSound`; the action properties `NewerReservationsKept` and `CooldownNeverShortened`; and the refinement `ImplementsBudget`, for two pools, two reservations and two overlapping refreshes |
| `ledger_liveness` | `LeakedReservationsReturn`: an abandoned reservation leaves the index |
| `routing` | `LedgerWithinProvider` with two attempts of one instance interleaved with a refresh, and `LedgerUsedOnce` |
| `routing_shared` | `ImplementsLedger` with overlapping refreshes of two instances and a loss of Redis data: the gateways only take steps that `CreditLedger` allows, so that what is proved there holds here |
| `proxy_safety` | `RouteModeKept`, `QuotaFallbackExact`, `EachBackendOnce`, `AttemptsSettledOnce`, `StreamsUnderTimer` and the liveness property `RequestEnds`, for every request and every sequence of answers of three keys |
| `proxy_privacy` | a violation, see [finding](#finding) |
| `settings_cache` | `NeverGoesBack` |
| `api_keys` | `RevokedHereAtOnce`: an instance that has answered a revocation lets no later request pass; `RevokedSoonEverywhere`: nor does any other, one cache lifetime and one read later; `UsedKeysStay`: the maintenance job does not revoke a key in use |
| `rate_limiter` | `CountedOnce`, `LocalCountKept`, `LimitHolds`: no count is lost or written twice while flushes succeed, a failed flush gives its counts back, and a bucket lets no more than the limit pass while it has no flush under way |
| `credits_scanner` | `ScannerExact`: after every byte of every document, the scanner has reported what it should |
| `dashboard_sync` | `NoResurrection` and the liveness property `Converges` |
| `admin_console` | `SignedOutStays`, `NoEmptyPage`, `OneBackendButton`, `OwnChangesListed`, `CleanIsSaved` for session and pages together |

Each property comes with a mutant: a change to one modelled definition, of the kind a bug
would be, under which TLC finds the property violated in the same run. The mutated operators stand
before the ones they replace, marked "Mutant". Deadlock is not checked: reservations, attempts, requests,
calls, the clock and the entries of the log are finite and a behaviour uses them up, and a request that is done takes no
further step.

## Bounds

* `ledger_safety`: two reservations and two refreshes are what it takes for a settlement and a
  refresh to fall between another refresh's capture and its reconcile; two pools make the
  choice of a pool real and show that pools do not disturb each other; `MaxReading = 2` with
  `Amount = 1` has readings of none, one and both promises, `MaxActual = 2` has usage below, at
  and above the estimate; one clock tick separates running from ended cooldowns; one loss
  repeats every sequence number. The theorems lift these bounds.
* `routing`: two attempts, one refresh, no loss, no cost above the estimate, no tick (a local
  cooldown, once set, stays). `routing_shared` trades the second attempt for a second
  instance and a loss. Both at once is beyond the time a run should take; a third attempt adds no
  new pair of racing steps, since a reservation interacts with a refresh and not with another reservation except through the counters.
* `proxy_safety`: three keys allow a rejection, a broken connection and a capacity answer in
  every order in one loop. `proxy_privacy` needs two.
* `settings_cache`: three reads give one that started before a write, one that joined it and one
  after; two writes give the second commit between a read and its return.
* `api_keys`: two instances, since a revocation is heard by one of them only; two requests, one that reads while
  the other joins or comes later; one key, since keys do not interact except by evicting one another. `MaxTime = 4` is
  enough for an entry (`Ttl = 1`), a debounce of 2 and an inactivity limit of 2 to begin and to end.
* `rate_limiter`: two instances flush to one row; two bucket objects are the one in the map and the one it replaced.
  `MaxRequests = 1` and `MaxArrivals = 3` reach the limit and pass it in either instance; the clock passes the end of two windows.
* `credits_scanner`: depth 4 is two levels more than `metadata` itself, for both kinds of container; the keys sought are "u" and
  "cu", one the end of the other; strings are two characters longer than the longest of them, and any character may be unprintable, so
  that the buffer is filled to its last place; numbers pass the safe bound by a digit.
* `dashboard_sync`: an answer holds two rows and the log three, so that answers are cut; two deletions
  under way give one that is answered while the other's refresh runs.
* `admin_console`: two entries and page sizes 1 and 2 make pages that come and go; two keys are one to create and one to
  revoke; two fields are one the API stores as entered and one it trims or refuses. Named bounds in the modules: nobody
  leaves the login page during a login; one DELETE of each page and one PUT at a time. Day, month and year of the date filter are one criterion.

## Fairness

* `CreditLedger!FairSpec`: expiry of a hash is weakly fair (Redis expires keys). Captures are
  strongly fair for each key, since the cron job refreshes every key on each of its runs
  whatever else happens, and reconciles are strongly fair: the provider answers a refresh once in a while,
  though any one fetch may fail. Nothing is assumed of callers, which may crash.
* `ProxyFlow!FairSpec`: the request's own steps are weakly fair, because each awaits only
  Redis commands with a timeout or the database. Of upstreams and clients nothing is
  assumed; the abort timer of a call in flight fires (`TimerFires`).
* `DashboardSync!FairSpec`: the browser's interval fires while the page is live and in sight, a minute passes, a row under
  way is written or given up, a merge or a failure ends a fetch (weakly fair). Answers and full refreshes are strongly
  fair: any one fetch may fail, not all for ever. Of administrators nothing is assumed.
* The other specifications are safety only.

## Proofs

Checked by TLAPS for all values of the constants: any number of keys, attempts, instances, requests, entries and
fields, any limits, lifetimes and cooldowns, documents of any depth. Every invariant and action property of a passing run is
a theorem; of the liveness properties, the part that is safety. Nothing is assumed but what the modules say of their constants:

* `CreditLedger`, `CreditRouting`: a positive estimate, natural bounds, finitely many reservation keys or attempts, two
  distinct markers that are no pools;
* `ProxyFlow`: finitely many keys, and a marker that is none of them;
* `CreditsScanner`: natural bounds, a positive largest value; the two keys are made of letters and are not longer than the buffer that
  holds a key (`credit-routing.service.ts:30` takes the longer one's length for it); quote, backslash and unprintable bytes are no letters,
  and `Null` is neither a number nor a key;
* `SettingsCache`: finitely many writes, and a marker for nothing that is no instance and no read;
* `ApiKeyAccess`: times are naturals, and a cached verdict and the debounce last for at least one unit; the marker for
  nothing is none of the things it stands beside;
* `RateLimiter`: finitely many instances, positive window, interval and limit, a marker that is no bucket and no flush;
* `DashboardSync`: positive bounds;
* the admin modules: the settings come in a finite order, the defaults are stored as they are, and what the API stores
  for an accepted value is accepted and stays as it is (`FormConstants`); there is an entry, a page size is positive
  (`ViewConstants`); `FormEmpty`, `KeysConstants` and `ConsoleRoutes` give the other constants their types.

| Theorem | Statement |
|---|---|
| `TypeCorrect` | `CreditLedger`: `Spec => []TypeOK`: among others, credits and the reserved counter never go below zero |
| `IndexCorrect`, `ReservedCorrect` | `Spec => []IndexSound`, `Spec => []ReservedMatchesIndex` |
| `FenceCorrect` | `Spec => []FenceSound` |
| `NewerKept` | `Spec => NewerReservationsKept` |
| `CooldownKept` | `Spec => CooldownNeverShortened` |
| `LedgerImplementsBudget` | `Spec => ImplementsBudget` |
| `ExpiredPromisesLeave` | an indexed reservation whose hash has expired is not revived, and the next reconcile of its pool removes it |
| `RoutingImplementsLedger` | `CreditRouting`: `Spec => ImplementsLedger` |
| `LedgerStaysWithinProvider` | `Spec => []LedgerWithinProvider`: the ledger promises no credits the provider does not have |
| `LedgerIsUsedOnce`, `RoutingTypeCorrect` | `Spec => []LedgerUsedOnce`, `Spec => []TypeOK` |
| `LedgerStaysSound` | `IndexSound`, `ReservedMatchesIndex` and `FenceSound` of the ledger in the whole system |
| `GatewaysKeepNewerReservations`, `GatewaysKeepCooldowns` | `NewerReservationsKept` and `CooldownNeverShortened` of the ledger in the whole system |
| `GatewaysImplementBudget` | the whole system implements `CreditBudget` |
| `RouteModeIsKept`, `QuotaFallbackIsExact` | `ProxyFlow`: `Spec => []RouteModeKept`, `Spec => []QuotaFallbackExact` |
| `EachBackendIsCalledOnce`, `AttemptsAreSettledOnce` | `Spec => []EachBackendOnce`, `Spec => []AttemptsSettledOnce` |
| `StreamsStayUnderTimer`, `FlowTypeCorrect` | `Spec => []StreamsUnderTimer`, `Spec => []TypeOK` |
| `RequestsAreBounded` | a natural number that begins at `13 + 5 * Cardinality(Keys)` gets smaller with every step |
| `ScannerIsExact`, `ScannerTypeCorrect` | `CreditsScanner`: `ScannerSpec => []ScannerExact`, `ScannerSpec => []ScannerTypeOK` (in `ProxyFlowProofs`) |
| `CacheNeverGoesBack`, `CacheTypeCorrect` | `SettingsCache`: `Spec => []NeverGoesBack`, `Spec => []TypeOK` |
| `RevocationIsInForceHere`, `RevocationIsInForceSoon` | `ApiKeyAccess`: `Spec => []RevokedHereAtOnce`, `Spec => []RevokedSoonEverywhere` |
| `KeysInUseStay`, `AccessTypeCorrect` | `Spec => UsedKeysStay`, `Spec => []TypeOK` |
| `EveryRequestIsCountedOnce`, `LocalCountIsKept` | `RateLimiter`: `Spec => []CountedOnce`, `Spec => []LocalCountKept` |
| `LimitIsKept`, `LimiterTypeCorrect` | `Spec => []LimitHolds`, `Spec => []TypeOK` |
| `ResurrectionExcluded`, `SyncTypeCorrect` | `DashboardSync`: `Spec => []NoResurrection`, `Spec => []TypeOK` |
| `CaughtUpStays` | while the log does not change: answers stay up to date, a full refresh makes the page catch up, and a page that has caught up stays so |
| `SignedOutForGood`, `BackendButtonsExclude` | `AdminConsole`: `ConsoleSpec => []SignedOutStays`, `ConsoleSpec => []OneBackendButton` |
| `OwnChangesAreListed`, `CleanPagesAreSaved` | `ConsoleSpec => []OwnChangesListed`, `ConsoleSpec => []CleanIsSaved` |
| `PagesAreNeverEmpty`, `ConsoleTypeCorrect` | `ConsoleSpec => []NoEmptyPage`, `ConsoleSpec => []TypeOK` |

**The ledger.** `LedgerInv` is the conjunction of types, index and counter. None of the three is
inductive alone: that credits and the counter stay natural when a settlement subtracts an
estimate needs the counter to equal the estimate times the size of the index and the reservation to be in the
index; that an open reservation is in the index of *its* pool needs that holders and members
agree and that an expired or reconciled key is never drawn again. One lemma per action
(`ReservePreserves`, `SettleRefundPreserves`, ..., `LoseDataPreserves`) carries it, the four
settlements sharing `ClosePreserves`. `FenceSound` is then inductive together with the bound
that a captured sequence of the current epoch does not exceed the pool's own: a new
reservation gets a higher number and cannot be among those known, and an open ticket never changes.
`NewerKept` and the refinement follow step by step, with `LedgerInv` at hand: a
settlement that finds its reservation closed is invisible in the budget, and only
`Reconcile` maps to `Refill`. `ExpiredPromisesLeave` rests on the same facts: a key whose hash is gone is never drawn again
while it is in the index, and a reconcile keeps only what has a hash.

**The gateways around it.** `RoutingImplementsLedger` needs its own invariant, `RoutingInv`: what an attempt carries over an await is
legal input for the script it will call. An attempt that settles has a key and one of the four answers that
settle; the end of its cooldown is some past time plus the cooldown; a reading lies in its
range because the provider's counter does. From the refinement, everything that is proved of the ledger holds of
this system too: `CreditRoutingProofs` instantiates `CreditLedgerProofs` (`LedgerHolds`, `RunsProvedLedger`) and builds on it. Its
last four theorems (`LedgerStaysSound` to `GatewaysImplementBudget`) say so of each property of the ledger.

`LedgerWithinProvider` compares three counters that no step changes together: what the ledger may still promise and has
promised (`credits` and `reserved`), what the provider has left, and what the reservations in the index have used. (The
counter `reserved` is the estimate times the size of the index, by `ReservedCorrect`; so this is the same as to say that
`credits` and what indexed reservations have yet to use fit into what is left.) `SystemInv` strengthens it
by three groups of facts:

* `UsesInv`, which also gives `LedgerUsedOnce`: an attempt draws its key once, holds the reservation from the answer of the
  reserve script to the settlement, and for one pool; a queued script runs only for an attempt that has given up on it;
* `ReadInv`: what a refresh may rely on between its capture and its reconcile. A reservation it knew at the capture,
  and that its reading did not find under way, was answered before the reading (`Knows`); the reading is covered by what the
  provider has now and what was charged since (`ReadHolds`);
* `CoverInv`: in a pool that is not tainted, every attempt under way has its reservation in the index, so that its charge will be
  accounted for, unless the pool is empty and promises nothing (`Covered`).

The central lemma, `KeptAccountsForAll`, is about the reconcile: unless it is blind, each reserved attempt that was charged after
the reading, or is still to be charged, keeps its reservation. An attempt whose reservation goes was captured, hence of this
pool and answered before the reading, which already holds its charge.

**One request.** `FlowInv` says for each phase of `handle()` why `proxyCloud` was called, and relates the counters of
the loop to the answers: `attempts` is the number of keys tried, without the one in hand, `quotaAttempts` the number of
those that lacked capacity (`Counters`), so that their equality, which the code tests, means that all of them did
(`QuotaKept`). A key is settled when the loop leaves it (`Settled`), and of the calls only the last one
can have a timer or a body (`Timers`).

That a request ends has a safety half, `RequestsAreBounded`. `StepsLeft` adds up the longest way from the phase to the end,
five for each key not drawn yet, and one each for the audit insert and the observer under way. Each action of the flow lowers
it: the step that draws a key adds four steps to the way (the call, its record, the decision to go on, the next reservation), and
leaves one key less. What `RequestEnds` adds is that the steps are taken at all.

**The scanner.** `ScannerInv` says for each place in a document what the scanner's fields hold: its two counters are the numbers of
open objects and arrays, and the two depths it remembers are set exactly inside the top-level `metadata` object (`Depths`); the
pending key is that of the value to come, if that is one of the two sought (`Pending`); the buffer holds the key that is being written,
or cannot be taken for one, being too long or having a backslash in it (`Buffered`); the value is that of the digits so far, unless it has passed the bound, which is noticed at
the digit that passes it and never forgotten (`Added`, `OverflowIsSeen`). There is one lemma for each step of the grammar
(`OpenContainerFollowed`, `DigitFollowed`, ...). After the value is found nothing is claimed of the fields, as the code returns early.

What a row of digits is worth is a recursive function, and to unfold it one must know that the function exists. An induction
over the digits is not available; instead the invariant carries that the number being written has one value (`Valued`), and
`OneMoreDigit` extends the function by a digit when the document does.

**The settings cache.** `CacheNeverGoesBack` rests on `CacheInv`. A cached entry is the latest its instance has seen (`Fresh`), and so
is what a read still in flight brings, once the database has evaluated it: this is where it matters that a write
drops the read in flight along with the entry. Whoever joins a read waits for one of its own instance and for a row not older than
its caller may see (`Joined`). The type invariant adds that versions are as many as writes that have begun.

**API keys.** `AccessInv`: a revocation that an instance has answered leaves nothing good about the key there, not in the cache,
not in a read that may be joined, not in the one a later request waits for (`Fencing`); elsewhere, a good verdict was
read before the revocation, and no read takes longer than `QueryDelay`, which bounds the end of every cache entry (`Timely`).
For `UsedKeysStay`, the recorded time of use is behind an admission by the debounce and one write at most, although
touches of different instances may land in any order (`Touches`).

**The rate limiter.** `LimiterInv`: what an object has counted itself is in what it last read of the row, in
its pending counts or in the flush that took them out, before and after the commit, and those who wait for the flush
are among them (`EntrySound`); a count once read is not ahead of the row while its window runs (`Synced`). `CountedOnce`
is a sum over instances, and each action changes one term of it, or moves an amount between a term and the row.

**The dashboard.** `ResurrectionExcluded` rests on `SyncInv`. The number of an entry is on its way, in the log or deleted, and never
returns from the last; answers do not overlap, because of `fetchingRef`; and the one that is on its
way holds nothing that was deleted when it was put together or has been dropped from the page since.

That the page holds no more than an answer needs a fact about sets of numbers: of the entries that have fewer than `Limit` above
them there are no more than `Limit`, because the lowest of them has all others above it (`NewestAreFew`).

`CaughtUpStays` is the safety half of `Converges`. A poll that is answered brings rows of the log from a cursor on; joined with the
newest rows they leave the newest rows as they are (`NewestJoined`), because an entry that is not among these has `Limit` of
them above it (`NewestAreEnough`). So a page that shows the newest rows keeps doing so, and a full refresh, which asks from
the start (`FromStart`), makes it.

**The admin UI.** The theorems of `AdminConsole` each have an invariant of one part, which the steps of the other parts leave
alone and a mount begins anew. `SessionInv`: after a sign-out no `GET /me` and no login is on its
way. `OneBackendButton` is inductive. `KeysInv`: every fetch was sent when the change it must show had been
carried out, which was before the dialog or the button let go of it. `FormInv`: unless the settings have changed by other
means, what a load has read is stored, the fields a save has passed are stored as it sent them
(`PutProgress`, by the order of the fields), and the snapshot is stored until the next load or save takes over; a load never
begins during a save of the same page (`LoadsAlone`), because a save disables the reset button and a load hides the form.
`NoEmptyPage` needs nothing of the page number but its type, since the page is clamped: it follows from the arithmetic of pages (`PagesCover`)
and from a fact about finite sets of numbers, that every rank is taken (`EveryRankIsTaken`).

**Induction.** The induction theorems of the library take a predicate as a parameter, which the installed provers cannot
instantiate. Facts about sums and ranks are therefore proved by the smallest counterexample: the subsets of a finite set are well-founded
by strict inclusion (`FS_StrictSubsetOrderingWellFounded`, `WFMin`), so a smallest subset for which the fact fails exists if any does, and
without one of its elements it would hold. This covers the sums of `RateLimiter` and `CreditRouting` and the ranks of
`DashboardView`; the few lemmas two proof modules need are stated in each.

## Finding

`SELF_HOST.md:40` says that sensitive headers and private target URLs disable fallback.
`proxy.service.ts:309-325` (and 226) falls back from Cloud to the self-hosted instance
after asking `isCloudQuotaFallbackAllowed`, which looks at the mode and the needed features only;
privacy is asked in the other direction alone. `proxy_privacy` shows a cloud-first request
with the private flag that reaches both backends. Whether code or document is meant is for
the maintainers to say: what such a request discloses, Cloud has seen before the fallback.
`RouteModeKept` states the half that holds. The repository's own `README.md:47` claims less than `SELF_HOST.md`: "the
self-hosted-first path does not fall back when sensitive upstream headers or cookies, sensitive body headers, or private
target URLs are present". That is what the code does; the two documents differ in what they say of cloud-first.

## Only model-checked, and not modelled

Only TLC, on the instances above: the liveness properties `LeakedReservationsReturn`, `RequestEnds` and `Converges`. Liveness
under fairness and ENABLED are outside what the prover handles. What each of them needs of single steps is proved
(`ExpiredPromisesLeave`, `RequestsAreBounded`, `CaughtUpStays`); that the steps are taken in the end is what their runs check.

Not represented in the modelled parts:

* in the gateway: header and URL rewriting, the tables of features that need Cloud, the redaction of audit
  entries, the hashing of keys and passwords and the encryption of settings (an encrypted value is the value), fractional credits, estimates that
  differ between requests, the connection set-up of the Redis client, and the size and number of the batches
  in which the maintenance job prunes (a prune removes one old row);
* in the admin UI: toasts, layout and formatting, the sums of `useAuditMetrics`, which keep no state, and the rows of balances that
  credit-usage answers with, which are shown and used for nothing else.

Bootstrap and configuration, the health check and the database schema have no module: they run once or keep no state of
their own. `components` in `PROJECT.json` says for each part what is modelled and what is not.

Some hazards listed there have no property, because the code lets them happen and a
property would only say so, or, for the second look at local state in `reserveLocally`, because it would restate the guard of one
action. The note of each says what follows from it.

## Plan

Done: the modules above, their runs, and the theorems listed. Left:

1. An abstract specification of the key list and the settings form (what the API holds, what the page may show), with
   `OwnChangesListed` and `CleanIsSaved` as consequences of a refinement.
2. Liveness of `CreditRouting` under the fairness of the cron job: an empty local pool is asked about again.

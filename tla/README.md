# A formal model of the Local Trailer Hire integration

This directory models the concurrent core of the Home Assistant integration in
`custom_components/localtrailerhire` in TLA+, checks it with TLC and proves its
central invariants with TLAPS. Line numbers refer to the sources of this
repository; `__init__.py`, `api.py` and so on are those of the integration.

## 1. The system

A provider of trailers on a Sharetribe marketplace runs this integration in
Home Assistant. It polls the marketplace, fires events about bookings on Home
Assistant's bus, and offers services that send messages, move transactions and
post reviews. Everything runs on one asyncio event loop: code is atomic from
one `await` to the next, and anything may happen at an `await`.

| component | state | operations | interacts with |
|---|---|---|---|
| Coordinator, booking events (`__init__.py` 293-766, 846-866) | `transaction_states`: last transition, its time, `message_sent`, event times; the fetched list `data` | poll, detect requests, detect confirmations, mark message sent | API client (fetch), store (save), event bus, services |
| Store (`__init__.py` 87-167) | one JSON file per entry, one dictionary per generation | load, migrate v1 to v2, save the whole dictionary | all of the others |
| Entry setup and reload (`__init__.py` 126-290, `setup_lifecycle.py`) | the runtime in `hass.data`, attempted platforms | set up, publish, first refresh, forward platforms, roll back, unload, reload | coordinator, services |
| Services (`services.py`) | none of their own; they hold a runtime across an `await` | send_message, mark_message_sent, refresh_now, accept, decline, leave_review, auto-review and archive services | coordinator, API client |
| Auto-review (`auto_review.py`, `__init__.py` 976-1136) | per entry: attempts, next attempt, `auto_reviewed`; the Repair | select, attempt, record, back off, retry now, summarise | API client, store, poll |
| API client (`api.py`) | access token, refresh token, expiry, lock | authenticate, refresh on 401, retry 429/502/503/504, page through lists | marketplace, config entry (token rotation) |
| Message archive (`message_archive.py`, `__init__.py` 882-974, 1138-1229, `api.py` 1151-1248) | messages by transaction, sync status, backfill anchor, cursor, lock | scan, sync a batch, merge, prune, clear | API client, store |
| Customer history (`customer_history.py`) | customers and their bookings | merge, prune, clear, scrub | poll, store |
| Config, options and reauth flows (`config_flow.py`) | the config entry | create, change options, reauthenticate | API client, setup |
| Entities (`sensor.py`, `binary_sensor.py`, `calendar.py`), diagnostics | known listing ids | read the coordinator | coordinator |
| Example automations (`examples/`) | Home Assistant's queue of runs | react to `booking_confirmed` by `send_message` | services |

What makes it hard:

* The dictionary of a generation is shared by the poll, the services and the
  archives, each of which writes the *whole* dictionary to the file after an
  `await`.
* A reload replaces the generation, but work of the old one that Home Assistant
  does not cancel (a poll that `refresh_now` started, a service call) goes on
  with the old dictionary and saves it over the same file.
* The polls of a generation exclude one another (the timer and
  `async_request_refresh` share a lock), but for the first refresh of the setup.
  The runtime is published before it, so `refresh_now`, `accept_booking` and the
  others may start a poll beside it, and the older list may be detected last.
* Events are fired before they are recorded, and recorded before they are
  saved; a crash may come between.
* A refresh token is good for one exchange. The poll, its later calls and the
  services share a client's tokens and lock; every rotation is stored in the
  entry, which makes the entry's update listener reload the integration, so
  old and new clients meet over the same token.
* A pass of auto-review keeps a reference to an entry that a poll may replace
  while the pass waits for an answer; an answer may be lost after the
  marketplace acted on the request.

Correctness, per component: no booking transition is missed, none is announced
twice without need, a mark silences a booking for good (booking events);
records say what happened, failed attempts back off, every reviewable booking
is reviewed in the end (auto-review); a conversation called complete has no
gap (archive); setup leaves nothing behind when it fails (setup); the entry
holds the last token that was issued (API client).

## 2. Plan

| order | module | models | abstract view, composition, proofs | state |
|---|---|---|---|---|
| 1 | `BookingEvents` | polls, generations, marks, the message automation | type invariant, no missed confirmation or request; marks last and events fire once under restricted faults; proved | done |
| 2 | `AutoReview` | passes, backoff, records, the marketplace's review window | type invariant, records are true, delay bounds, the backoff at work and in the file; proved | done |
| 3 | `MessageSync` | paging, anchors, cursor, archive, lock | type invariant, no gap, clears are final, nothing lost, the rotation reaches every conversation; proved | done |
| 4 | `TokenAuth` | token rotation, 401 and 429 retries, several clients of one entry, reauth | types, password discarded, stored token accepted, reauth justified, the newest token without faults; proved | done |
| 5 | `SetupLifecycle` | platforms one by one, rollback, cancellation, unload, the old install's data | implements `AllOrNothing`; refinement proved | done |
| 6 | `CustomerHistory`, `EntryLifetime` | merge, prune, scrub and clear in the polls and services that call them; composed with the setup | implements `SetupLifecycle` and with it `AllOrNothing`; file, consent and retention invariants proved | done |
| 7 | `AtLeastOnce` | an abstract notifier with a memory | implemented by `BookingEvents`; refinement proved | done |
| 8 | overlapping generations of `MessageSync` | a sync that outlives a reload, against a clear of the new generation | as `EntryLifetime` has it for the customer history | not begun |
| 9 | `TokenAuth` composed with `EntryLifetime` | the reload that a stored token starts | | not begun |
| 10 | the sensors' discovery of listings | entities added by a poll, known ids | | not begun |

## 3. Modules

### BookingEvents

One config entry, any number of generations `Gen` (a slot is free again when
neither its poll nor a service call refers to it). `hist[t]` is what happened
to transaction `t` on the marketplace; a `last_transitioned_at` is a position
in it. `mem[g]` is the dictionary of generation `g`, `disk` the file.
Transitions are told apart as the code does: a request
(`REQUEST_TRANSITIONS`), a confirmed one (`CONFIRMED_TRANSITIONS`) or another.

A generation has two polls over its dictionary, `<<g, "first">>`, the refresh of
its setup, and `<<g, "later">>`, which the timer or a service starts; `pc` and
`snap` say of each where it stands and what it fetched. `EarlyRefresh` says
whether a service may request a refresh while the first one is under way. The
code allows that; what does not hold then is named where it is stated
(`AnnouncedOnce`), and everything else is checked or proved with it.

| actions | code |
|---|---|
| `Load`, `AuthenticationFails`, `Publish`, `SetupFails`, `SetupCancelled` | `async_setup_entry`, `async_setup_transaction` |
| `UnloadAndStop`, `UnloadInFlight` | `async_unload_entry`, `async_reload_entry`; with or without a poll that goes on |
| `StartPoll`, `FetchSucceeds`, `FetchFails`, `DetectRequests`, `DetectConfirmations`, `SavePoll`, `FinishPoll` | `_async_update_data` and the two detections, cut at their awaits, for either poll; a first refresh that fails is `SetupFails` |
| `SaveArchives` | the saves of the customer history and the message archive, which write the same dictionary |
| `AutomationSends`, `AutomationRefused`, `SendDelivered`, `SendFails`, `MarkSent`, `SaveMark` | `auto_message.yaml`, `send_message`, `mark_message_sent` |
| `ProviderMarks` | the `mark_message_sent` service |
| `Restart` | Home Assistant stops, at rest or (fault `"crash"`) at any moment |
| `Transact` | the marketplace (external) |

`Faults` switches on what is not normal operation: `"crash"`, `"cancel"` (a
setup or a poll is cancelled) and `"overlap"` (a generation's work outlives
its unload). A save is one step: Home Assistant serialises the dictionary as
it is when the write starts, and logs write errors without raising them.

### AutoReview

One generation; the first refresh of its setup, its later polls and a call of
`auto_review_retry_now` each run a pass, `pass["first"]`, `pass["later"]` and
`pass["manual"]`, over the same entries. `view[p]` is the list that poll `p`
fetched, `data` the one of the poll that ended last; `EarlyRefresh` is the same
as in `BookingEvents`. The marketplace's process is `stage[t]`. Time is relative: an entry's `wait` is the number of
units (30 minutes) until its next attempt is due, a pass's `age` the units
since its `now`; `Tick` moves all of them. `pass[p].held` says whether the
entry the pass refers to is still the one in the mapping: a poll's `Detect`
replaces the entry for a confirmation that is not the entry's (`Replaced`), be
it newer or, in an older list, a former one, and writes any other transition
into it (`Overwritten`), after which that confirmation would be new again.
`failures` and `owed` observe what
the failed attempts call for and are not read by any action.

| actions | code |
|---|---|
| `StartPoll`, `FetchSucceeds`, `FetchFails`, `Detect` | a poll up to its auto-review pass |
| `SetupFails` | a first refresh whose fetch fails: the setup is given up and begins again with what the file holds |
| `SelectReviews` | `select_auto_reviews` in `_run_auto_review` |
| `RetryNow` | `retry_auto_reviews_now` |
| `LookupOffers`, `PostApplied`, `ReviewRecorded` | `leave_review`, its post, and what a success records |
| `AttemptFails`, `AnswerLost` | an `APIError` or `AuthenticationError`, before or after the marketplace acted |
| `TimesOut` | the session's `TimeoutError`, which is neither |
| `SaveReviews`, `SaveOthers` | the saves |
| `ProviderReviews`, `MarketMoves`, `Reconfirmed`, `Tick` | the provider, the marketplace, the clock |

A first refresh that fails while a requested one or a manual retry goes on would
leave an outlived generation at work; `BookingEvents` has those, `AutoReview`
does not.

### MessageSync

One generation with `archive_messages` on. The messages of a conversation are
numbered from the oldest on, the marketplace serves them newest first in pages
of `PerPage`, and `count[t]` and `expired[t]` say how many there are and how
many are past the retention period. `archive` is `message_history` in memory,
`stored` the part of the dictionary that belongs to it (with the cursor),
`disk` the file. `job[p]` is what the poll, the sync service and the clear
service are doing; `work` is the archive an operation reads and writes, which a
scan writes back after every conversation and a sync only at its end. `fetched`
and `forgotten` observe, since the last clear, what was read and where a
failed request ended a backfill; no action reads them.

| actions | code |
|---|---|
| `BeginPoll`, `ScanSkipped` | the poll up to `_refresh_awaiting_replies`, and its failure before the lock |
| `BeginSync` | the `sync_message_history` service |
| `SyncNothing`, `Acquire`, `Start` | `sync_message_history` and `_scan`: nothing to read, the lock, the batch and the first conversation |
| `ReadPage` | one page of `get_messages_incremental`; after the last page `merge_messages`, and after the last conversation `prune_message_archive` and what is written back |
| `RequestFails` | an `APIError` or `AuthenticationError`: a sync records `failed`, a scan goes on |
| `TimesOut` | any other exception, which ends the scan or sync |
| `SaveArchive`, `SaveOthers` | the saves; the lock is let go |
| `ClearMessages`, `ClearSaved` | `clear_message_history` |
| `Restart` | a crash; memory is what the file holds |
| `MessageSent`, `Expire` | the marketplace, the clock (external) |

A page is read and merged in one step, since `merge_messages` has no await.
Message bodies, sender and the `deleted` flag are left out. There is one poll at
a time: a scan of a requested refresh beside the one of the first refresh would
be one more operation that waits for the lock, as the sync does.

What an operation reads are places of the list of bookings: `Places(S)` are
those of the conversations in `S`, `FirstPlaces(S)` the first one of each, which
is what `dict.fromkeys` keeps, and `Listed` makes a list of them again, in
order: its `n`-th element is the place with `n` places up to it. This says
without recursion what a filter of the list says, so that it can be proved
about. `SelectBatch` is the arithmetic of `select_sync_batch`.

### TokenAuth

One config entry and the clients (`SharetribeFlexAPI`) of its generations: the
one in use and those that outlived a reload. `client[c]` has the phase, the
refresh token and password it was made with or got since, whether its access
token lasts, and who holds its lock. Each client has two tasks, `"poll"` (the
fetch of the transactions, or the setup) and `"service"`. The second also
stands for the later calls of a poll, which like a service call ask nobody for
credentials. A requested poll beside the setup's first refresh is not a task of
its own: what it does to the token and the lock is what `"service"` does, and its
check of the stored token and its request for credentials are those of `"poll"`. `entry` is what Home Assistant stores, `live` and `account` what
the marketplace accepts. `exposed` observes that something happened that can
cost the entry its token: an answer with a new token lost, a token revoked, a
client still at work after its unload. No action reads it.

| actions | code |
|---|---|
| `Setup`, `SetupCancelled`, `Unload`, `UnloadInFlight`, `Forget`, `Restart` | `async_setup_entry` up to its authentication, `async_unload_entry`, `async_reload_entry`, a stop of Home Assistant |
| `BeginCall`, `EnsureToken` | a call and `_ensure_valid_token`: the access token lasts, or the lock and `_authenticate_internal` |
| `ForceToken` | `_refresh_access_token` after a 401 |
| `TokenGranted`, `TokenRefused` | the marketplace's token endpoint (external) |
| `ReceiveToken` | `_process_token_response` with `persist_refresh_token`; the end of the authentication of a setup |
| `ReceiveRefusal` | the fallback to the password; otherwise `ConfigEntryAuthFailed` of a setup or poll, or an error of a service call |
| `CallAnswered` | the call's answer; the poll's check that the entry holds the client's token |
| `CallUnauthorized`, `CallLimited`, `RequestFails` | 401, tried again once; 429, 502, 503, 504, up to `MaxRetries`; a network error |
| `CredentialsGiven` | `async_step_reauth_confirm` |
| `Expire`, `Revoke` | time, the marketplace (external) |

The three request loops of `api.py` (`_request_with_retry` and those of
messages and transitions) treat tokens and retries alike and are one. The
reload by the update listener is an `Unload` and a `Setup`, which may follow at
any time and need not. The name of a token that nobody holds is used again, so
`Token` bounds the tokens held at one time. `Faults` adds `"revoke"` and
`"outage"` (the token endpoint answers with a status other than 200) to the
kinds above.

### SetupLifecycle and AllOrNothing

One config entry. `step` is the await that the setup or the unload stands at,
`at` the platform it forwards to or unwinds next; `loaded` and `leftover` are
Home Assistant's platforms of the entry and those that would not unload;
`runtime` says that `hass.data` has the entry. `own` and `legacy` are the entry's
store file and the shared one of an install before 1.2.

| actions | code |
|---|---|
| `BeginSetup`, `LoadStore`, `SaveAdopted`, `RemoveLegacy`, `AbandonSetup`, `Publish` | `async_setup_entry`, cut at its awaits |
| `FirstRefreshDone`, `Forwarded`, `SetupFails` | `async_setup_transaction`: the refresh, the loop over the platforms, and `except BaseException`, where a cancellation ends up too |
| `UnwindPlatform`, `UnwindFails`, `Unwound` | `_async_unload_attempted_platforms` and the `finally` after it |
| `BeginUnload`, `Unloaded`, `UnloadFails` | `async_unload_entry`, from a reload or otherwise |
| `SaveOwn` | a save of a poll or service, as far as the setup is concerned with it |
| `PlatformLoads`, `PlatformUnloads`, `PlatformSticks`, `Restart` | Home Assistant (external) |

`AllOrNothing` is what the rest of Home Assistant may rely on: a phase and the
set of parts (runtime and platforms) that exist. `SetupLifecycle` maps its steps
to phases (`PhaseBar`) and what is loaded to parts (`PartsBar`). The fault
`"stuck"` lets an unload fail; the abstract phase is then `"stuck"`, in which
nothing is promised but that the entry does not count as set up.

### CustomerHistory and EntryLifetime

`CustomerHistory` has the archive of a generation: `held[g].stored` is the part
of the dictionary, `held[g].shown` the coordinator's attribute, from which
sensors and exports read and a clear starts; `disk` is the file. An archive is
told apart by its bookings, the customers whose phone, address or licence it
holds, and the bookings whose referrer it holds. Which list arrives and which
bookings are past a limited retention is left open.

| actions | code |
|---|---|
| `StartPoll`, `Archived`, `FetchFails`, `PollSaved`, `FinishPoll` | `_async_update_data`, cut at the fetch, the save of the history, and the rest |
| `Clear`, `ClearSaved` | `clear_customer_history` of the coordinator |
| `Build`, `DropFirstPoll`, `Withdraw` | the coordinator is built, its first poll ends with the setup, its runtime is removed |

`Merge`, `Prune` and `Cleared` are `merge_customer_history`,
`prune_customer_history` and `clear_customer_history` of `customer_history.py`,
`HistoryChanged` is `history_changed` (`__init__.py` 393-404).

`EntryLifetime` composes both: each action of `SetupLifecycle` happens together
with what it does to the generation. The options are read when the coordinator
is built. The setup's own refresh is the poll `"first"`, the timer's and those
of `refresh_now` are `"later"`; a later poll or a clear may outlive its runtime
(fault `"overlap"`) and then saves its own dictionary. `stale` and `kept`
observe that this happened and which bookings came to the file to stay; no
action reads them. `SaveOthers` are the saves of events, messages and reviews,
which write the same dictionary.

### AtLeastOnce

A set of things that happened, those told of and those the memory counts as
settled. `BookingEvents` maps the marketplace's history, the events fired and
the records of the file to them (`HappenedBar`, `ToldBar`, `SettledBar`).
Telling and settling are separate steps, in this order, which is the order of
the code: fire, record, save.

### MC modules

`MCBookingEvents` and `MCAutoReview` add the symmetry sets, and `MCAutoReview` the
view of `review_faults` (see the bounds); `MCMessageSync` has the
lists of conversations, `MCEntryLifetime` the customer of each booking;
`TokenAuth` needs none. Definitions whose
comment begins with "Variant for the checks" are plausible mistakes in the
definition that follows them; each property is known to fail with one of them.

## 4. Runs

| run | configuration | what it shows |
|---|---|---|
| `events_clean` | 1 transaction with up to 3 transitions, 1 generation at a time, automation and provider, no faults, no refresh requested during the first one, fair | `AnnouncedOnce`, `MarksSurvive`, `QuietOnceMarked`, `RuntimeForEvents`, `EventuallyAnnounced`, `TypeOK` |
| `events_faults` | 2 overlapping generations, 2 transitions, provider, requested refreshes beside the first one, all faults | `NoMissedConfirmation`, `NoMissedRequest`, `NotifiesAtLeastOnce` |
| `events_messages` | automation only, no faults | violation of `NoSendAfterMark` |
| `review_clean` | 1 transaction, lost answers, no refresh requested during the first one, fair | `BackoffKept`, `EventuallyReviewed`, `TypeOK` |
| `review_faults` | 1 transaction, requested refreshes beside the first one, all faults | `RecordsAreTrue`, `SavedBackoffKept` (no attempt earlier than the file allows, by more than a pass takes) |
| `review_timeouts` | timeouts only | violation of `BackoffKept` |
| `messages_faults` | 1 conversation of up to 6 messages, 2 to a page, poll, service and clear, all faults, messages expire | `NoGap`, `ClearIsFinal`, `NothingLost`, `TypeOK` |
| `messages_backfill` | 3 conversations of up to 3 messages, 1 to a page, 1 conversation a poll, no faults, fair | `NothingSkipped`, `EventuallyArchived` |
| `messages_failures` | 2 conversations, failed requests only, the code's limits of 2 and 3 pages | violation of `NothingSkipped` |
| `token_faults` | 1 client, 3 tokens, 1 retry, all faults but `"outage"`, fair | `StoredTokenLives`, `ReauthJustified`, `PasswordDiscarded`, `CallsEnd`, `TypeOK` |
| `token_reload` | 2 clients, overlap only | violation of `NewestTokenStored` |
| `entry_lifetime` | 2 platforms, 2 generations, 1 booking, both opt-ins and retentions, an old install's file, all faults, fair | `EverythingOrNothing`, `OnlyStuckRemain`, `SetupEnds`, `AdoptedDataKept`, `FileAgrees`, `ConsentKept`, `ReferencesKept`, `TypeOK` |

The four violations are disagreements between the code and its documentation:

* `events_messages`: two events for one booking (a request confirmed and then
  changed, within the time of one send) queue two runs of `auto_message.yaml`.
  `send_message` never looks at the mark, so the second run sends as well.
* `review_timeouts`: an attempt that ends in a `TimeoutError` leaves no
  backoff, since `_run_auto_review` catches only `APIError` and
  `AuthenticationError`.
* `messages_failures`: a request that fails during a backfill turns `partial`
  into `failed`. The next sync uses the anchor only when the status is
  `partial`, so it stops at the newest known message and records `complete`;
  the pages below the anchor are never read.
* `token_reload`: a poll that goes on after the reload of its entry ends with
  the check that the entry holds *its* client's token
  (`__init__.py` 413-419), and so puts a token that is used up over the newer one
  that its successor stored. The next start cannot authenticate.

Announcements are at least once, not exactly once. A poll that outlives the
reload of its entry announces a request, and so does the new generation, which
loaded the file before. And without any fault, a refresh that a service requests
during the first one of a setup is enough: the first refresh fetches a request;
the booking is accepted, and the poll after it announces and records the
confirmation; the first refresh detects its older list, announces the request
and puts the entry back to it; the next poll announces the confirmation again.
TLC finds these steps when `EarlyRefresh` is set in `events_clean`, whose property
`AnnouncedOnce` is therefore one of setups without such a refresh.
`NotifiesAtLeastOnce` says what does hold in both cases.

`BackoffKept` has the same restriction. With `EarlyRefresh` in `review_clean`, and
no fault, TLC finds a first refresh that has fetched a past booking as confirmed;
the poll beside it finds the booking completed, tries the review and fails; the
first refresh then sees a confirmation that is not the entry's, replaces the
entry with its backoff by a blank one, and its own pass tries again at once.
The documentation promises neither property of overlapping polls, so these are
restrictions and not findings. `SavedBackoffKept` and `RecordsAreTrue` hold all
the same: the blank entry is saved by the detection that made it.

What `EverythingOrNothing` excludes in `entry_lifetime` is a platform that was
partly loaded when its setup failed, a rollback that stops at the first platform
that was never loaded, and an entry that counts as set up without one of its
platforms. `ConsentKept` and `FileAgrees` speak of the file only while no
outlived generation wrote it last: a poll of the old generation that
`refresh_now` started under the opt-in does put contact data back into the file
that the new generation had scrubbed, where they stay until its next save.

Bounds. The code treats transactions independently of one another but for the
shared file, which every save writes as a whole, so one transaction shows the
interleavings of its own entry; what is proved holds for any number. Three
transitions (`MaxAt`) allow request, confirmation and change, and two suffice
for the faults, which need one event before and one after a crash or reload.
Two generations are an old and a new one. `MaxPending = 2` and `MaxCount = 2`
tell zero, one and too many apart in `events_clean`; in `events_faults`, whose
properties ask only whether something was announced, both are 1, and the provider
alone calls services: a run of the automation marks and saves as the provider's
call does, and the theorems have any callers. In `AutoReview`, `MaxAttempts = 3` is where
the Repair appears; the delay for more failures than that is bounded by
`RetryDelayBounds`. `MaxAge = 1` lets a pass be older than its answer. Two
transactions of `AutoReview` exceed nine million states. `review_faults`, with
two polls, a manual retry and every fault, identifies the states that
`Observed` (in `MCAutoReview`) makes equal, as its `VIEW`: it leaves out what no
step reads again (where a process stands that can be confirmed or reviewed no
more, how a list differs once it was detected but for what it offers to
review), and `repair`, `failures` and `owed`, which no action and no property of
that run reads.

In `MessageSync` the hazard of paging lies within one conversation, so
`messages_faults` has one, with up to three pages, enough for a first capped
call, a call that resumes, messages that shift the page in between and
`MaxPages` reached before the anchor, and two operations that want the lock at
once; the rotation of the cursor needs several conversations, and
`messages_backfill` has three. A page limit of one
together with one message per page would make no progress (the page with the
anchor is the whole budget), so the liveness run has two pages, as the code
does for a scan; `MaxPages` is beyond the longest conversation there: one of
more than 50 pages is cut off by the code's safety limit, as documented.

In `TokenAuth` the two tasks of one client contend for its lock and tokens,
which is all that the claims of `token_faults` are about; clients that overlap
meet only in the entry, which `token_reload` shows, and the theorems hold for
any number. One retry instead of three tells a refusal within the budget from the last.
Three tokens are the entry's, the client's and the one on its way. The fault
`"outage"` is left out: see `ReauthIsJustified` below.

In `EntryLifetime` two platforms are the first and the last one, so one may be
loaded while the other fails, and one may stick while the other goes. One
booking of one customer tells a list with it from a list without it, which is
what merge, prune and scrub distinguish; what they do to several is a union or
an intersection, and the theorems hold for any number. Two generations are one
that outlives its runtime and the one after it. `MaxWork = 1` bounds the later
polls and clears under way at one time; with the setup's own poll this gives the
overlaps of two that matter, and saves for other reasons (`SaveOthers`) are not
bounded. `Installs = {TRUE}`: an entry without the shared file is reached after
its removal.

Symmetry is used only in `events_faults`, which checks invariants and a
refinement without liveness.

Fairness. `BookingEvents`: the coordinator's timer polls again and again (weak
fairness of `StartPoll`) and a poll runs to its end; Home Assistant retries a
failed setup; a marketplace that is asked infinitely often answers infinitely
often (strong fairness of `FetchSucceeds` and `Publish`). Nothing is assumed
of the automation, the provider or the marketplace's moves, nor that a refresh is
requested during the first one (`ready /\ StartPoll`). `AutoReview`: the
same for polls and passes, time passes, and a lookup or post that is tried for
ever succeeds at some time. `MessageSync`: polls begin again, pages are
answered and saves end (weak fairness), and an operation that waits for the
lock gets it (strong fairness: `asyncio.Lock` is first come, first served).
`TokenAuth`: the same for the client's lock, and requests are answered; what the
answers say is left open, so calls end because their retries do.
`EntryLifetime`: a setup or an unload that can go on does (weak fairness of
`Advance`, which includes every way its await can fail): requests and Home
Assistant's own calls have time limits. That a setup succeeds is not assumed,
and nothing of polls and services.

Deadlock is checked in every passing run.

## 5. Theorems

`BookingEvents_proofs`, for all constants allowed by its assumptions:

* `TypeCorrect`: `Spec => []TypeOK`.
* `ConfirmationsNotMissed`: `Spec => []NoMissedConfirmation`. The invariant is
  inductive with `TypeOK`. Most steps only copy entries between the file and
  the dictionaries (`Copying`, and the lemmas named `...Copies`); the two
  detections are the ones that write, and they fire what they write.
* `RequestsNotMissed`: `Spec => []NoMissedRequest`. Not inductive: the
  detection of confirmations records requests too, so one needs that
  `request_event_fired_at` on an entry that stands at a request means that this
  request was announced. `RequestsRemembered` says so and is proved along.
* `NotifiesOrRepeats`: `Spec => NotifiesAtLeastOnce`. The step that settles is a
  save, and what it writes was announced by `NoMissedConfirmation` and
  `NoMissedRequest` of the dictionary; the steps that fire do not write the file.

`BookingEventsOnce_proofs`, of restricted faults but all other constants:

* `MarksLast`: `Spec => MarksSurvive`, `MarkedAreQuiet`: `Spec =>
  QuietOnceMarked` and `EventsFindRuntime`: `Spec => RuntimeForEvents`, as long
  as no generation outlives its runtime (`"overlap"` is not among the faults),
  whatever crashes, is cancelled or overlaps within a generation
  (`EarlyRefresh` is left open). The properties speak of steps; the states
  they start from must satisfy `MarkInv`. `OneGeneration` says that a
  generation with a poll under way is the live one and the only one, and that
  a service call belongs to it: then the dictionary that is saved is the one
  that was marked. `MarksKnown` says that a mark in the file is in the
  dictionary at work, so no save drops it and the detection of confirmations
  skips the booking.
* `NeverTwice`: `Spec => []AnnouncedOnce` without faults, restarts and reloads
  included, assuming `~EarlyRefresh`, without which it is false (section 4).
  `OnePoll` says that the two polls of a generation are then never under way
  together; it is what `ListIsNewer` rests on. `OnceInv` relates what was fired, the entries, the lists and the
  marketplace: an entry stands at or beyond everything announced
  (`NothingForgotten`), no list is older than the entries it is compared with
  (`ListIsNewer`), what was announced is what happened (`EventsAreTrue`), and
  the file equals the dictionary unless a save is due (`FileIsCurrent`), which
  is why a generation that ends leaves nothing behind that only it knew. Most
  steps carry entries along (`Carrying`); the two detections write them and
  have a lemma each, as has the marketplace's own step.

`AutoReview_proofs`:

* `RetryDelayBounds`: the delay is between 1 and 24 units and never shrinks.
* `TypeCorrect`: `Spec => []TypeOK`.
* `ReviewRecordsAreTrue`: `Spec => []RecordsAreTrue`, through `ReviewInv`: a
  pass that waits for an answer is the only one that waits for it and the one
  that posted the review, and before the provider's review the process stands
  where nobody has posted one.
* `SavedBackoff`: `Spec => SavedBackoffKept`, under every fault. `SavedBehind`
  is the inductive part: unless its booking is done, an entry in the file counts
  no more failures than the one at work, and is due at most `MaxAge` later;
  `EntryStep` lists what a step can do to the two. The tolerance is needed: a
  poll and `auto_review_retry_now` run over the same entries, each with the
  clock it read at its start. At the longest delay, the poll with the older
  clock can fail after the other one's failure was saved, and end in a
  `TimeoutError` at its next booking before it saves: the entry at work is then
  due up to a pass's time before the one in the file. TLC finds this with two
  bookings that stay as they are; with one, nothing is left to time out at.
* `BackoffIsKept`: `Spec => BackoffKept`, assuming that timeouts, crashes and
  new confirmations are not among the faults (`NothingDropped`), and
  `~EarlyRefresh`. `review_timeouts`
  shows that the first of them breaks it, a crash before the save and a new
  confirmation drop failures by design, and an older list that is detected late
  replaces the entry (section 4). `OneList` says that without such a refresh there
  is one list at a time, and that a setup's first one is fetched while the
  entries are those of the file and nothing else is under way. `BackoffInv` says that the entry at work
  counts every failure and waits as they call for (`EntryCounts`), and why no
  poll replaces it: every pass holds the entry in the mapping, what a poll
  fetched was so (`ViewIsPast`), and the confirmation of a booking that was
  taken up is recorded already or in no list any more (`TakenArePast`), so it is
  not new again.

`MessageSync_proofs`:

* `TypeCorrect`: `Spec => []TypeOK`. `TypedJob` adds what keeps the counters of a
  call in their ranges: the cursor is a place of the list, and an anchor that
  was found is one to resume at.
* `BatchRepeatsNothing` and `RotationReachesAll`, about `SelectBatch` alone, for
  every list, size and cursor. A batch names no conversation twice and none that
  is skipped; and while the list stays the same, every conversation of it is in
  one of the batches it takes to go round once. `ListedFacts` says that `Listed`
  keeps all places it is given, in order; it rests on how the number of places
  up to `i` grows with `i` (`RankFacts`, `RankReached`). `OneTurn` and
  `BatchNearer` say that a batch picks the conversation or brings the cursor
  nearer by its size. Both need induction over the numbers, which is taken from
  a least counterexample (`LeastNat`, on the library's `WFMin`).
* `CompleteMeansNoGap`: `Spec => []NoGap`. `NoGap` is not inductive: it says
  nothing of records that are partial, of the copies in the dictionary, the
  file and the operations under way, or of a call half read. `SyncInv` adds
  that a failed record has no gap either and that a partial record's anchor is
  archived or expired (`RecordOK`), for all copies, and what a call knows
  before its next page (`PageInv`): it has everything above the page, and
  without an anchor nothing of it was known before. `BoundaryCloses` and
  `PageCovers` are the two ways a page can end that. A clear empties
  `forgotten`, so it must leave no record of such a conversation anywhere:
  `LockInv` says that only the holder of the lock reads or saves, that nobody
  else has an archive in hand, and that while a clear has the lock the archive
  and the dictionary are empty. Without the exception for `forgotten` the claim
  is false, as `messages_failures` shows.
* `NothingIsSkipped`: `Spec => []NothingSkipped`, assuming that no request fails
  (`"fail"` is not among the faults). Then `forgotten` stays empty, and
  `NoGap` has no exception: of the faults only the failed request makes
  `complete` untrue.

`MessageSyncMerge_proofs`, on the same invariant:

* `ClearsAreFinal`: `Spec => []ClearIsFinal`. `FetchedInv` extends it to the
  dictionary, the work of every operation and what a call has got so far.
* `NothingIsLost`: `Spec => NothingLost`. `WorkInv`: what an operation works on
  while it has the lock is never behind the archive. `StepOfReading` says once,
  for both theorems, what a page or a failure makes of a job.

`TokenAuth_proofs`:

* `TypeCorrect`: `Spec => []TypeOK`.
* `PasswordIsDiscarded`: `Spec => []PasswordDiscarded`. `CallInv` is the
  invariant of the lock: a task that asks for a token holds its client's lock,
  so it is the only one that asks, and while a client is being set up its setup
  is the only task.
* `StoredTokenIsAlive`: `Spec => []StoredTokenLives`. `TokenInv` says how, while
  nothing exposed the token, there is one client at work, and its token is the
  entry's and accepted unless the one task that holds the lock is exchanging it.
* `ReauthIsJustified`: `Spec => []ReauthJustified`, from `TokenInv` and
  `ReauthInv` (a password is only asked with by who has no token). It assumes
  that `"outage"` is not among the faults: any status of the token endpoint
  other than 200 is taken for refused credentials (`api.py` 233-305), so
  a 503 there does ask the provider to log in again.
* `NewestIsStored`: `Spec => []NewestTokenStored` without faults. `QuietNext`:
  nothing then exposes the token, since a client is unloaded between its calls
  and nobody is asked for credentials (`ReauthInv`). With an overlap alone it is
  false, as `token_reload` shows.

`SetupLifecycle_proofs`, for any number of platforms:

* `Accounted`: `Spec => []LifecycleInv`. The invariant that the rest follows
  from: what is loaded lies below the platform the setup stands at, or is left
  over; while the entry is set up or forwards further, nothing below is left
  over; the runtime is there exactly in the steps between publication and
  removal.
* `StuckRemain`: `Spec => []OnlyStuckRemain`, and `AdoptionKeepsData`:
  `Spec => AdoptedDataKept`.
* `Refinement`: `Spec => EverythingOrNothing`, one lemma per action that names
  the step of `AllOrNothing` it maps to.

`EntryLifetime_proofs`, for any bookings, customers, generations and bounds:

* `Simulates`: `EntrySpec => Spec`, every step of the composition is one of
  `SetupLifecycle` or leaves it alone. `EntryRefines`, `EntryStuckRemain` and
  `EntryAdoption` follow from it and the theorems above.
* `EntryTypes`, `HistoryFileAgrees`, `HistoryConsent`, `HistoryKept`: from
  `HistoryInv` together with `LifecycleInv`. Dictionary and attribute of a
  generation are always equal (`HeldAgree`), which is why it does no harm that
  `history_changed` compares one before the merge and the other after it; the
  file differs from them only while a save is outstanding or an outlived
  generation wrote it (`CurrentAccounted`, `FileAccounted`); what is to be kept
  is in the file and in the dictionary of the current generation
  (`KeptAccounted`).

Model-checked only: the liveness properties (`EventuallyAnnounced`,
`EventuallyReviewed`, `EventuallyArchived`, `CallsEnd`, `SetupEnds`), since
`ENABLED` and fairness are out of the provers' reach. Every invariant and every
action property of a passing run is proved. Of the four claims that a run
refutes, three are proved where what breaks them is left out
(`BackoffIsKept`, `NothingIsSkipped`, `NewestIsStored`); `NoSendAfterMark` needs
no fault to fail.

## 6. Not modelled

The forms of the config flow, the parsing of payloads, entities, diagnostics
and exports: functions of their input that keep no state and interleave with
nothing. The one state of the entities, the listings that sensors were made
for, is not modelled yet. `fire_confirmed_events_since` re-fires events on
request and changes no state. A message or transition that is tried again after
an answer was lost may take effect twice; `TokenAuth` has the tries but not what
they do. Of `pending_retries`, which the auto-review summary counts, nothing is
checked.

Of the setup: the check for missing services cannot fail, since `async_setup`
registers them before any entry is set up. A second entry that is set up after
a crash between the save of the old install's data and the removal of the shared
file would adopt them as well; there is one entry. Options that change while a
setup runs, before its update listener is there, take effect with the next
setup; `EntryLifetime` has this as options that may differ at every setup.

Of the customer history: the fields of a snapshot other than those that hold
contact data, the merging of an older snapshot's fields with a newer one's, and
the counts and export rows computed from it. `MessageSync` has one generation,
and `TokenAuth` its own reloads: neither is composed with `EntryLifetime`.

# foo_discord_rich: a TLA+ verification project

foo_discord_rich is a foobar2000 component that shows the playing track in
Discord, with artwork that it uploads or looks up.  This directory models the
program in TLA+, checks the models with TLC and proves theorems about them
with TLAPS.  `PROJECT.json` lists the runs, the mutants that every property is
tried against, the source lines of every definition, the hazards, the findings
and the theorems.

Sources are named relative to `src/foo_discord_rich/`.

## 1. Inventory

| part | state | operations | works with |
|------|-------|-----------|------------|
| Artwork fetcher (`artwork/fetcher.cpp`) | cache of URLs, retry times, one pending request, two generations, status, worker thread, cache file | `GetArtUrl`, `CancelPendingRequest`, `LoadCache`, `SaveCache`, `ClearCache`, `InvalidateProviderCache`, `Initialize`, `Finalize`, `ThreadMain` | called by the presence modifier and Preferences on the main thread; its worker calls the providers and posts `UpdateImage` to the main thread |
| TheAudioDB request layer (`artwork/theaudiodb_fetcher.cpp`) | rejected keys, rate limits per key, request mutex, time of the last request | `FetchArt`, `IsRateLimited`, `IsApiKeyRejected`, `ResetRejectedApiKeyState` | called by the worker, by `GetArtUrl` and by the thread of the Test button |
| MusicBrainz (`artwork/musicbrainz_fetcher.cpp`) | time of the last request | `FetchArt` with throttle and retries | called by the worker |
| Local artwork uploader (`artwork/local_artwork_uploader.cpp`) | none | encode as WebP, upload to Catbox or Imgur | called by the worker and by the upload tests |
| Discord adapter (`discord/discord_integration.cpp`) | data of the presence, application id, initialised, has presence, callback generation | `Initialize`, `Finalize`, `OnSettingsChanged`, `SendPresence`, `ClearPresence`, the callback pump, `OnReady` | calls discord-rpc; called by the modifier, the menu, Preferences |
| Presence modifier (`discord/presence_data.cpp`) | a copy of the data, disabled or not | `UpdateTrack`, `UpdateImage`, `UpdateSmallImage`, `UpdateDuration`, `Rollback`, `Disable`; its destructor saves and sends | opened by every handler |
| Playback callbacks (`fb2k/callbacks/playback.cpp`) | refresh needed, dynamic update scheduled | `on_playback_*`, a timer | called by foobar2000 |
| Menu command, Preferences (`fb2k/callbacks/mainmenu.cpp`, `ui/`) | options being edited, a pending TheAudioDB key, the active tab and its window, the status line | toggle, edits, Apply, Reset, tab changes, cache buttons, tests, a timer | change the configuration, then call the fetcher and the adapter |
| Credential store (`utils/credential_store.cpp`) | the stored key | read, write, clear | called by Preferences and the modifier |
| Configuration and migration (`fb2k/config.cpp`, `utils/discord_application_id_migration.h`) | stored values, the marker of the migration | `MigrateLegacyDiscordApplicationId`, `SanitiseArtworkDisplayPolicy` | called by `on_init`; read everywhere |
| Pure helpers (`utils/*.h`) | none | cache keys, freshness, text limit, artwork policy, TheAudioDB keys and matching | called everywhere |

Two threads matter: foobar2000's main thread, which runs every handler, timer
and posted callback one at a time, and the fetcher's worker.  The Test button
adds a third one for a while.  The Discord client is a process of its own.

What is hard, and what makes each part correct:

* *Fetcher.*  The worker reads a request, lets go of the lock for as long as a
  provider takes, and commits afterwards.  Meanwhile the request may have been
  replaced, cancelled or repeated under the same key, the cache cleared,
  reloaded or invalidated, the program told to quit.  Correct means: nothing
  outdated is committed; no request is asked again for what is cached; no
  request is left without a worker; the status tells the truth; every ended
  request leads to a re-evaluation, so that the fallback chain goes on and
  artwork is shown; quitting ends; the maps keep their bound.
* *Adapter, modifier, callbacks.*  What was decided in one handler (a rolled
  back title, a refresh that is due, a posted `OnReady`, a scheduled pump) acts
  in a later one, after any other events.  Correct means: Discord shows a
  presence exactly if playback and settings call for it, with the text, the
  timestamps and the small image of the track; it comes back when Discord
  does; nothing is sent after quitting; one pump runs.
* *Request layer.*  The worker and the tests share keys, limits, a mutex and a
  throttle, wait for each other for as long as three attempts take, and may be
  superseded or cancelled at any point.  Correct means: one request at a time,
  spaced by the minimum interval; none with a key that the service refused,
  although the key was checked before the wait; a call that is no longer wanted
  ends; the tables keep their bound and forget the right key.
* *MusicBrainz and the uploader.*  One answer is put together from many requests
  or calls, each of which may fail, be repeated, be missing or be aborted.  Correct
  means: the answer is about the album that was asked for; no match is only
  reported when nothing is left to ask; the interval holds over retries and aborted
  sleeps; a posted image fits its box and keeps its ratio; COM is left as it was
  found; each lookup ends, and quitting does not wait for the rest of it.
* *Presence and fetcher together.*  A result arrives after the track, the title or
  the artwork policy changed.  Correct means: no artwork of what played before, no
  icon or artwork against the policy, and a status that agrees with the presence
  once nothing is queued.
* *Preferences.*  Edits, a typed or a cleared key and the end of a test reach the
  dialog in any order; Apply validates, stores, invalidates and applies several
  things, of which one may fail.  Correct means: the configuration can be used
  whatever was refused or failed; cached artwork belongs to the settings in
  force; the stored key changes only to what the user asked for last; the dialog
  shows the current values and offers what can be done; the status line of the Main
  tab follows options of other tabs, and the worker.
* *Configuration.*  A start migrates in several writes, between which the program
  may crash; an old release may run between two starts of this one.  Correct means:
  what the user chose last is in force.

## 2. Modules

`ArtworkFetcher.tla` models `fetcher.cpp` and what it needs of its callers.
Every critical section of `mutex_` is one action, and so is every step outside
it that another thread can see: asking a provider (`SendFetch`), its answer
(`ProviderAnswers`, `ProviderRefuses`, `RefuseFetch`, `AbortFetch`), posting the
refresh (`PostRefresh`), asking the worker to stop and joining it
(`RequestStop`, `JoinWorker`).  `pc` is the place of the worker in `ThreadMain`
and `mainPc` the place of the main thread in a handler that locks more than
once; the other handlers are single actions from `mainPc = "idle"`.  The main
correspondences:

| code | model |
|------|-------|
| `currentRequestOpt_`, `cacheKeyToEntry_`, `cacheKeyToRetryAfter_`, `requestGeneration_`, `cacheGeneration_`, `isWorkerAvailable_`, `status_` | `current`, `cache`, `retryAfter`, `requestGen`, `cacheGen`, `workerAvailable`, `status` |
| `lastRequest`, `work`, `outcome` of `ThreadMain`; the stop token | `lastRequest`, `work`, `outcome`; `stopRequested` |
| `ProviderKeyState` | `rejected`, `limitedUntil` |
| the callbacks posted with `inMainThread` | `posted` |
| the requests `ResolveTrackArtUrl` builds, the URL in the presence | `wanted`, `image` |
| the cache file | `disk` |
| `GlobalAbortCallback` | `aborting` |

`outdated` is a history variable: the cache was replaced since the worker took
its work item.  No action but the ones that set it reads it.

`GetArtUrl` is stated without its loop: the scan ends at the first fresh URL
(`Hits`), drops the stale entries it meets (`DropStale`), and the first request
that may be asked (`Candidates`) becomes the current one.

`DiscordPresence.tla` models the adapter, the modifier, the playback callbacks,
the menu and the settings that reach them.  Everything there runs on the main
thread, so each handler is one action; the destructor of the modifier is the
operator `Closed`, applied by every handler to the adapter and the data the
handler prepared.  A call that goes through several functions is their
composition, in the order of the code.  `discord` and the three `Discord...`
actions are the client and discord-rpc's connection; they are external and
follow from how the code uses the library: a queued presence may be lost when
the connection is made, and `OnReady` follows every connection.

`TheAudioDbRequests.tla` models the request layer of TheAudioDB.  `pc[t]` is the
place of a thread's call in `FetchArt` and `GetWithRetry`:

| `pc` | code |
|------|------|
| `start` | entered, the key not yet checked (`CheckKey`) |
| `waiting` | polls the request mutex (`Lock`, `GiveUp`) |
| `locked` | the second checks, under the mutex (`Recheck`) |
| `attempt`, `throttle` | before and in `ThrottleRequest` (`BeginAttempt`, `AbortSleep`, `Proceed`) |
| `network` | in `cpr::Get` (`Answer`, `Disconnect`) |
| `answered` | after it (`Drop`, `Retry`, `Conclude`) |
| `backoff` | the sleep between attempts (`NextAttempt`) |

`rejected` is the vector in `BoundedTheAudioDbKeySet`, `limits` the map of rate
limits, `current` what `requestIsCurrent` would answer, `aborting` the abort
callback of each call.  `quiet`, `told` and `refusals` are histories: when a
request was last sent, and what the service last said of each key.
`RequestGate.tla` is the abstract specification that the layer implements: one
request at a time, none with a barred key, none barred while a request is under
way.

`ProviderPreferences.tla` models the Providers tab.  `cur` holds the values of the
options, `saved` the configuration, `stored` the key in the credential manager,
`window` what the dialog shows and enables, and `cached` the settings under which
each provider's cached artwork was fetched.  Every handler is one action; `Apply`
is the operator that ends well, `ApplyFails` the two returns after a credential
failure.  `asked` is a history of what the user last asked for the key.

`MusicBrainzRequests.tla` models the lookups of MusicBrainz and the Cover Art
Archive.  `mbPc` is the place in `GetWithRetry` (`loop`, `throttle`, `network`,
`backoff`), `stage` the caller it returns to: the search, a release of the first
group, or the cover.  `verdicts` is a history of what became of each release, in
order; the index of the loop is its length.  `LocalArtworkUpload.tla` models the
uploader: reading, COM and the image, the post.  Between the constructor and the
destructor of `ComInitialiser` there is one step, since every failure in between
leaves the same scope; what it may do is what any of the calls may do.
`ArtworkProviders.tla` composes the two on the worker's thread, with
`GlobalAbort.tla` for the flag that `on_quit` raises, and
`ProviderLookup.tla` is the abstract specification of both: what `ArtworkFetcher`
assumes of a provider.

`PresenceArtwork.tla` composes `DiscordPresence` and `ArtworkFetcher`, unchanged,
as instances `P` and `F`.  They meet in `PresenceModifier::UpdateImage`: a handler is
one step of both, in which the request list that `F` is asked for is that of the
track `P` formats (`List`), and the image that `P` shows is what `F` answers
(`LargeImage`), both under `artworkDisplayPolicy`.  The image that `DiscordPresence`
chooses freely and the request lists that `ArtworkFetcher` takes from anywhere
become those of the program.  `Wanted` is every list of a handle and a text, whether or
not the text is one of that track: the handle may be an earlier track's (finding 2).
For the same reason `ArtworkIsRight` lets a shown artwork be that of the playing track
or of the handle that the adapter kept, in either case for the text that plays.

`PreferencePages.tla` models the configuration over starts, crashes and releases,
and the pages that edit it.  Each assignment of a start is a step (`running` is its
place); `disk` is what a crash falls back to; `RunOldRelease` is a release that knows
neither the new text lines nor the marker.  `cur` holds the current values of the
open pages, `active` and `tab` the tab and its window, `line` the status line.
`wish` is a history: what the user chose last, and whether the marker may be missing
since then.

The modules ending in `Proofs` hold the proofs, those beginning with `MC` the
instances for TLC.

### Abstractions

* An artwork URL is named by the request that produced it; whether a URL is one
  Discord accepts is the outcome `badUrl`.
* Cache keys, tags and settings reach the fetcher as `Wanted`, the request lists
  they can produce, and `KeyOf`.  Two requests may share a key (the pin of an
  album), and a request may have none (incomplete metadata).
* One clock for `std::time` and `steady_clock`, which only advances.
* Statuses keep their kind, not their text.
* The cache file is replaced atomically or not at all (the code writes a
  temporary file and renames it).  A failed Clear or Load changes nothing and
  is not an action.
* Apply may invalidate any sequence of providers; resetting a rejected key is an
  action of its own, so that more orders are explored than Apply produces.
* The three lines of text are one value, a function of the track and its
  dynamic title.  A timestamp is named by the epoch of the playback timeline it
  was computed from.
* `isConnected_` is written and never read, and is left out.
* The steady clock of the request layer appears as differences only: the age of
  the last request up to the minimum interval, what is left of a sleep and of a
  rate limit.  A limit that is over is 0, like a missing one, since every reader
  erases it first.  `ThrottleRequest` storing the time and the request going out
  happen in one step.
* A seek is one of a track that plays or is paused: `on_playback_seek` has a branch for
  a stopped player, and the host reports no seek then.
* Of a response the model keeps the class that `GetWithRetry` and `FetchArt` tell
  apart; what a final response contains is an outcome of `ArtworkFetcher`.
* A test runs on a thread of its own, and several may run, since a new Preferences
  dialog has a new test state.
* In the Providers tab width and height are one size; a popup is not part of the
  state; the message that a test posts is handled before any input, as Windows does.
  The cue text and the masking of the key field, and the upload tests, are left out.
* A search of MusicBrainz returns one of `Groups`, the releases of its first group;
  the body of a release says whether there is artwork.  Of images the dimensions are
  kept.  `std::round` of a product of doubles is the nearest integer, and at an exact
  half either neighbour.
* In `PresenceArtwork` the two calls of `UpdateImage` in `OnSettingsChanged` are one;
  of the settings the policy changes.  The other settings, the cache file, restarts and
  keys are in the component modules.
* In `PreferencePages` the three text lines are one text, the options of the Providers
  tab are whether a source is enabled (`ProviderPreferences` has them all), and Apply
  may keep or revert them, as a refused or failed Apply of that tab does.

## 3. Runs

| run | instance | shows |
|-----|----------|-------|
| `fetcher_chain` | an upload, then MusicBrainz for track A; MusicBrainz for B; three generations | the fallback chain reaches its end, cache, status and presence agree, stale results are dropped |
| `fetcher_liveness` | two tracks of an album whose uploads share a key, the second also with TheAudioDB and its key | every request ends, also by the result of the other, whatever is superseded, refused or limited; quitting ends; resolved artwork is shown |
| `fetcher_storage` | three keys, room for two; the file, crashes, restarts | the bound of both maps, URLs under their own keys, nothing committed after the last save |
| `fetcher_lost_artwork` | two requests, one key | finding 1 |
| `presence` | a stream with two titles and a file, two application ids, Discord that comes and goes; liveness | what Discord is told matches playback and settings; the presence comes back, and disappears when it must |
| `presence_stale_handle` | two tracks that look the same | finding 2 |
| `tadb_requests` | the worker and a test, three keys of which one is not eligible, tables of one; liveness | mutual exclusion, spacing, good keys, no use of a refused key, the refinement of `RequestGate`, and the end of unwanted calls |
| `provider_preferences` | three keys, two client ids, two pin queries, two sizes, every handler | configuration, stored key, caches and dialog agree |
| `artwork_providers` | groups of no, one and two releases, canonical and other pins, three attempts; images and boxes of 0 to 5 pixels with a limit of 4; liveness | answers and images are right, requests are paced and bounded, COM is balanced, and the refinement of `ProviderLookup` |
| `musicbrainz_skipped` | the same lookups | finding 3 |
| `presence_artwork` | a stream with two titles that MusicBrainz is asked for, a file that is uploaded, three policies | no artwork of what played before, status and presence agree, the policy holds |
| `preference_pages` | the legacy, the default and another id, two texts, three policies, every tab | choices survive crashes, downgrades and upgrades; the status line comes to be right |

Bounds.  `MaxGen` stops user events at a request generation: three generations
are what a stale commit needs (taken, replaced, asked again), four let a request
be replaced by one with its key and that one be re-evaluated (finding 1); two
suffice for liveness, where a request is superseded once.  `MaxTime = 2` with
lifetimes of at most one tick and a cool-down of one lets every entry and every retry
time expire; in `fetcher_chain` entries are stale one tick after the answer, so that a
list is evaluated again when its URL is.
`MaxEntries = 2` with three keys makes every insertion case happen.  `MaxEpoch`,
`MaxGeneration` and `MaxPosted` bound new timelines, changes of the application id
and queued connections: two timelines and a third event make a stale timestamp, two
changes of the id make two pumps if there could be any.  In the request layer a
limit lasts as long as the interval, so that it may still be there after a wait; two
good keys overrun tables of one, and two attempts make a repetition happen.  Which
entry a table of several evicts is beyond the run: `RefusedKeysAreNotAsked` is proved
for tables of any size.  Likewise no request of `fetcher_chain` needs a TheAudioDB key:
that a superseded call of TheAudioDB ends with a refresh rests on the theorem
`EndedRequestsAreRefreshed`.  In Preferences the user makes at most three edits between
two calls of Apply, or resets
all (`FewEdits`): enabling an upload takes two, and a third is needed for a key that
cannot be stored.  One provider at a time has cached artwork (`OneIsCached`), since
nothing relates the caches.

Two releases make a missing, skipped or bare one come before another and after
another; a release that is pinned may be canonical or not.  Images up to 5 pixels in
boxes up to 4 contain every case of the scaling: not shrunk, shrunk by either ratio,
rounded up, down and at a half, and raised to one pixel.  `SmallStates` of
`presence_artwork` fixes the settings other than the policy, keeps one posted refresh
and one timer, no cache file, and lets the program quit in the first generation: the
component runs vary these.  `StoredBeforeEdits` of `preference_pages` stores the
configuration while nothing is pending, and starts edits from a stored configuration:
a crash may still come between any two writes of a start and after any Apply.
Symmetry (of albums, API keys, client ids) is used only in runs that check invariants
and action properties, and only between values that no constant tells apart.  Four
action constraints keep the runs of the fetcher apart: `OneProcess` leaves restarts,
`NoFile` and `NoManualSave` the file to `fetcher_storage`, where in turn the track
changes only in a re-evaluation (`TrackStays`).

Deadlock is checked in `artwork_providers`, `musicbrainz_skipped` and
`preference_pages`.  In the others an exited program at the last tick, or a player
that reached its bounds, rightly does nothing.

Fairness.  The worker keeps running while it has something to do
(`WF(WorkerProgress)`): a provider answers or runs into the timeouts that every
request of the code has, and the wait of two seconds ends by itself, so that no
notification is needed.  foobar2000 runs posted callbacks and finishes handlers
(`WF(MainProgress)`).  In the presence model the pump, the posted `OnReady`, the
timer and, while a track plays, the time event are fair, and so is Discord
reading what was queued for it.  In the request layer threads run and time passes;
nothing is assumed of the service, but `SupersededCallsEnd` states as its premise
that `kRequestTimeout` ends every request.  `std::timed_mutex` is not fair, so no
property says that every call gets the mutex.  In `ArtworkProviders` the thread of
the worker runs, time passes, and a request without an answer is ended by
`kConnectTimeout` or `kRequestTimeout`; reading artwork is assumed to return, which
the host promises.  In `PreferencePages` the timer of a window that exists is served.
No user action, no failure and no tick of the fetcher's clock is fair.

## 4. Findings

1. *Artwork fetched and not shown* (`fetcher_lost_artwork`).  Two tracks of an
   album have different upload requests with one cache key.  The first request
   fails while the second is pending: the key is put on hold, and nothing is
   published.  The next re-evaluation (a posted refresh, an edit) finds the key
   on hold and supersedes the second request, which the worker may have taken
   already.  Its artwork is then cached without being published or refreshed,
   and the presence keeps the fallback until the next event.
   `docs/CONFIGURATION.md:316` promises an update "after a provider returns
   artwork".
2. *Handle of an earlier track* (`presence_stale_handle`).  `UpdateTrack` saves
   the handle "since refresh might be required when settings are changed"
   (`discord/presence_data.cpp:446`), but the destructor copies the data only if
   something that Discord shows has changed.  Two tracks that look the same
   leave the handle of the first behind, and an artwork refresh then uploads the
   artwork of that handle.
3. *A failure cached as no match* (`musicbrainz_skipped`).  A release whose request
   fails is skipped (`artwork/musicbrainz_fetcher.cpp:139`).  If no other release has
   artwork, the lookup returns no match, which is cached as long as a real one.
   `docs/CONFIGURATION.md:182` distinguishes a clean no match from "a temporary
   provider failure", which "is held in memory briefly".

## 5. Proofs

Assumptions: `ConstantsAssumption` and `NoneAssumption` of `ArtworkFetcher`, the
types of its constants.  No bound on the number of requests, keys, generations
or ticks is assumed; `Bounded` needs only `MaxEntries > 0`.

The argument is layered; every layer is inductive with those below it.

1. `TypeCorrect`.  `TypeOK` includes that the worker holds a work item exactly in
   `fetch`, `request` and `commit`.  It is inductive with `NoThreadWhenOff`: a new
   process has no thread, so `Initialize` finds no work item.
2. `Lifecycle`: the order of start, stop and join, and what `workerAvailable`
   promises (the worker is live until the program quits; nothing is pending
   without it).  It gives `PendingRequestsAreServed`, and with the absence of a
   thread after the join `NothingIsCommittedAfterFinalSave`.
3. `Generations`: neither the work item nor the current request is ahead of the
   counters, an outdated work item has an older cache generation, and a fetch
   that was given up belongs to a request that is no longer current.  It gives
   `StaleCommitsAreDropped` and `EndedRequestsAreRefreshed`.
4. `Pending`: the key of the pending request has no entry and the status says
   "fetching" exactly while something is pending.  `PendingIsUnknown` is not
   inductive alone: a commit under the pending key must end the request, which
   needs that the pending request carries its own key.
5. `Bounded`: both maps and the file, since a load copies the file, have at most
   `MaxEntries` keys.  Evicting one key and inserting one keeps the cardinality.
6. `Filing`: cached URLs belong to their keys, in memory and in the file, and the key
   of a work item that may still be committed has no entry yet (`WorkIsUnknown`), as it
   had none when the worker took it: until then only that commit can file one, or the
   cache is replaced and the item outdated.  It gives `UrlsStayRight`, and a commit
   never overwrites a URL.
7. At rest.  `QuietSteps` says that a step evaluates the list, commits, ends the
   worker, starts or leaves the idle state, or changes nothing that the status and the
   chain are about.  `StatusStaysRight` follows, since a commit that publishes posts a
   refresh.  `ChainStaysExhausted` needs `Filing` and `Generations` besides: an
   evaluation that asks nobody finds every request of the list tried, up to the first
   URL (`EvaluationExhausts`), and a commit forgets none of that, because it files a
   URL only under a key that had no entry and evicts only from a full map.

`ChainIsExhausted` says what the proof can keep for every constant.  An entry that was
fresh when the list was scanned gets stale without an evaluation, so a URL before an
untried request need not be fresh; and an eviction forgets what was tried, so the
property is about maps with room for one more key (`HasRoom`).  Without either it is
false, in instances with more ticks or smaller maps than those of the run.

For `TheAudioDbRequests` the assumption is `ConstantsAssumption`, the types of the
constants; the number of threads and keys and every limit are arbitrary.

1. `TypeCorrect`.  Inserting keeps the rejected keys distinct and bounded, erasing
   moves the later ones down by one (`WithoutProperties`), and marking a limit
   keeps the map bounded because the victim leaves first (`FS_*` theorems).
2. `KeysStayGood`: at most one call holds the mutex, and the key of a call that
   repeats its request is good.  A call that is not alone under the mutex could
   reject or limit the key of another: mutual exclusion is part of the invariant.
3. `SpacingHolds` from `SleepIsEnough`: a sleep and the time since the last request
   add up to the interval, because nobody else sends during the sleep, which again
   needs mutual exclusion, and because `age` never exceeds `quiet`.
4. `ImplementsGate`: the initial states map to initial states of `RequestGate`, and
   every step to `Send`, `Finish`, `Bar`, `Release` or a stutter.
5. `RefusedKeysAreNotAsked`.  The tables forget, the histories do not, and the invariant
   says what a table that forgot a key still knows (`RefusalInv`): it is full of limits
   that end no earlier (`Displaced`), since the limit that ends first is the victim; and
   a rejected key has at most as many keys behind it in the vector as were rejected
   since (`Behind`), since the oldest leaves first and a reset only moves keys up.  A
   call that has its answer and not yet recorded it is an exception (`Pending`), and
   mutual exclusion keeps the others from sending in the meantime.

For `ProviderPreferences` it is `ConstantsAssumption`, again types, with `"clear"`
no key.  `TypeCorrect` includes that a key is never both replaced and cleared.
`SettingsStayUsable` and `CachesMatch` need only the types and the cases of `Apply`;
`DialogStaysRight` needs that the key field shows the pending key even while
options are stale; `StoredKeyIsAsked` needs that what is pending is what the user
asked for last, which relies on it.

For `DiscordPresence` it is `PresenceAssumption`, the types of the constants; tracks,
titles, images, ids and bounds are arbitrary.  The adapter's calls are operators on
the adapter, and what each preserves is a lemma (`SendPresenceKeeps`, `ClosedKeeps`,
`InitializedKeeps`); a handler cites the lemma of the modifier that it closes.  The
inductive invariant has these parts.  `SessionInv`: the adapter runs under the
configured id, if there is one, until the program quits; what was queued is its data
or will be sent again (`SentIsData`), and generations to come have no pump, which
`OnePump` needs when the id changes.  `CallbackInv`: one postponed update is queued
exactly while its flag is set; with `SessionInv` it gives what `TypeOK` says beyond
types.  `PlayerInv`: the reported position only lags while a refresh is due.  `DataInv`: text,
timestamps and small image are right also while no presence is shown, because it may
be shown any time without another update; `PlaybackStateIsShown` alone is not
inductive.  And `PresenceFollowsPlayback` itself.

For `ArtworkProviders` they are `MusicBrainzAssumption` and `UploadAssumption`: every set
of releases and groups, every interval and number of attempts, every set of
dimensions.  `SearchInv` says how far a lookup has got and what the releases before it
answered; `SentInv` counts requests per answer (`MaxAttempts * Asks + attempt`), which
bounds them by `MaxAttempts * (2 + Len(group))`; `ClockInv` is that the age of the last
request and the sleep cover the interval.  `ScaledFits` is the arithmetic of the
scaling: the product of the smaller ratio fits the box, and rounding does not leave it,
because the box is an integer.  `ImplementsLookupSteps` is the safety part of the
refinement of `ProviderLookup`; TLC checks it with its fairness.

For `PreferencePages` it is `PagesAssumption`.  Both the configuration and what a crash
falls back to are good (`IsGood`) at every place of the start, which is the reason why
the marker is written after the id and the old text reset after it was copied.

For `PresenceArtwork` it is `PresenceArtworkAssumption`: those of its two parts, the type
of `ListOf`, and an icon that is no artwork.

1. `ImplementsFetcher` and `ImplementsPresence`: every step of the composition is a step
   or a stutter of either part, so that all theorems above hold of it.  The instances
   `FP` and `PP` bring them in, and the `Same...` lemmas identify their definitions with
   those of `F` and `P`.  The second needs the type of the fetcher's answer.
2. `AskingAnswers`: a step that asks (`Asking`) leaves the answer in `image`, none if
   nothing was asked and else artwork for a key of the list (`Answered`, by
   `UrlsStayRight`), and leaves it in the presence too (`ShowsAnswer`), unless the
   change is rolled back and its timer is on the way.
3. `OtherStepsAreQuiet`: the other steps change neither what was asked nor what is
   shown, and the track and the title of a shown presence only with an update on its
   way (`ScheduledIsQueued`).
4. `Synced`, from these two: the presence holds what the fetcher last answered.  With
   `StatusStaysRight` it gives `StatusAlwaysMatchesPresence`.  `PolicyIsAlwaysObeyed` and
   `ArtworkStaysRight` are inductive by the same two lemmas; what they need of the past
   is in `PresenceFollowsPlayback` (a shown presence has a playing track).

Every safety invariant and action property that a run checks is proved.  The type
invariants of `ProviderPreferences` and `PreferencePages` are proved and not run.  Only
model-checked is liveness, which is out of the prover's reach: `NothingHangs`,
`ResolvedIsShown`, `DiscordFollows`, `UnwantedCallsEnd`, `LineFollows`, and the fairness
part of `ImplementsProviderLookup`.

## 6. Not modelled

* Bytes and text: the decoder and the encoder, the matching of artists and albums of
  TheAudioDB, the cache keys, the text limit, title formatting.  They are functions
  without state, and what a caller does with their result is modelled.
* Malformed and oversized cache files, a clock that is set back, the overflow of a
  timestamp (the model names a timestamp by the timeline it was computed from).
* The cue text and the masking of the key field, upload tests, the preview and the
  links of Preferences, the folder button: they change no state of the program.
* The logging options of `advanced_config.cpp`, logging, paths, the registration for
  updates, the build scripts and the tests.
* The libraries: cpr, discord-rpc, foobar2000's threads and stores appear as the steps
  that the code relies on.

What the models show but no property forbids, because no document promises otherwise:
a cancellation that arrives with a response hides what the service said about the key;
a 401 of a request sent before can undo the reset of a key; a superseded MusicBrainz
lookup goes on to its end; a request without a response is not repeated; an upload that
the host has taken is lost when the program quits before the answer; artwork is looked
up while the presence is hidden; after a credential failure the Providers tab may show
values that are no longer current.

## 7. What is left

1. The safety part of the liveness arguments as theorems: what keeps a request, a
   presence or a line on its way until the fair step that ends it.
2. The pure functions against reference definitions: saturation of timestamps at the
   64-bit limit, the domains of the cache keys.
3. A cache file that cannot be read, and a wall clock that moves back.

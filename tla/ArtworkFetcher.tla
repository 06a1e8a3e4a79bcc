---------------------------- MODULE ArtworkFetcher ----------------------------
(***************************************************************************)
(* The artwork fetcher (artwork/fetcher.cpp): a cache of artwork URLs, one *)
(* pending request, and a worker thread that debounces the request, asks   *)
(* its provider and commits the answer.  Every call but the worker's is    *)
(* made on foobar2000's main thread.  Each critical section of mutex_ is   *)
(* one action.                                                             *)
(*                                                                         *)
(* Data abstraction.  An artwork URL is named by the request it was        *)
(* obtained for.  A map is a total function with None (the cache) or 0     *)
(* (the retry times) for a missing key.  Only the kind of a status is      *)
(* kept, not its text.                                                     *)
(***************************************************************************)
EXTENDS Integers, Sequences, FiniteSets

CONSTANTS
    Request,          \* FetchRequest values
    CacheKey,         \* keys of the cache
    Provider,         \* the providers a settings change can invalidate
    ApiKey,           \* TheAudioDB keys
    None,             \* std::nullopt, and the missing entry of a map
    KeyOf,            \* [Request -> CacheKey \cup {None}]: GenerateCacheKey
    ProviderOf,       \* [CacheKey -> Provider \cup {None}]: the prefix of a key
    ApiKeyOf,         \* [Request -> ApiKey \cup {None}], None unless TheAudioDB
    Executable,       \* the requests that IsRequestExecutable accepts
    Wanted,           \* the request lists the settings and tracks can produce
    PositiveLifetime, NegativeLifetime, Cooldown,   \* seconds, as clock ticks
    MaxEntries,       \* kMaxCacheEntries
    MaxGen,           \* bound: user events stop at this request generation
    MaxTime           \* bound: the clock stops here

ASSUME ConstantsAssumption ==
    /\ KeyOf \in [Request -> CacheKey \cup {None}]
    /\ ProviderOf \in [CacheKey -> Provider \cup {None}]
    /\ ApiKeyOf \in [Request -> ApiKey \cup {None}]
    /\ Executable \subseteq Request
    /\ Wanted \subseteq Seq(Request)
    /\ PositiveLifetime \in Nat /\ NegativeLifetime \in Nat
    /\ Cooldown \in Nat /\ MaxEntries \in Nat \ {0}
    /\ MaxGen \in Nat /\ MaxTime \in Nat

PendingRequest == [request : Request, cacheKey : CacheKey, generation : Nat]
WorkItem == [pending : PendingRequest, cacheGeneration : Nat]
CacheEntry == [artUrl : Request \cup {None}, fetchedAt : Nat]
Cache == [CacheKey -> CacheEntry \cup {None}]

ASSUME NoneAssumption ==
    /\ None \notin Request /\ None \notin CacheKey /\ None \notin ApiKey
    /\ None \notin Wanted
    /\ None \notin PendingRequest /\ None \notin WorkItem
    /\ None \notin CacheEntry /\ None \notin Cache

Status == {"Idle", "Fetching", "Resolved", "NotFound", "Failed"}

(***************************************************************************)
(* What ProcessFetchRequest can answer: artwork, a clean no-match, a       *)
(* provider failure, a URL Discord cannot use, TheAudioDB refusing its key *)
(* or its rate, and exception_aborted.                                     *)
(***************************************************************************)
Outcome == {"found", "none", "failed", "badUrl", "suppressed", "aborted"}
Cacheable == {"found", "none"}
WithMessage == {"failed", "badUrl", "suppressed"}

VARIABLES
    current,          \* currentRequestOpt_
    cache,            \* cacheKeyToEntry_
    retryAfter,       \* cacheKeyToRetryAfter_
    requestGen,       \* requestGeneration_
    cacheGen,         \* cacheGeneration_
    workerAvailable,  \* isWorkerAvailable_
    status,           \* status_.status
    pc,               \* where the worker thread is ("none": no thread)
    lastRequest,      \* ThreadMain's lastRequest
    work,             \* ThreadMain's work item
    outcome,          \* ThreadMain's outcome
    stopRequested,    \* the jthread's stop token
    posted,           \* UpdateImage callbacks queued with inMainThread
    rejected,         \* ProviderKeyState.rejectedApiKeys
    limitedUntil,     \* ProviderKeyState.retryAfterByApiKey
    mainPc,           \* where the main thread is
    aborting,         \* GlobalAbortCallback
    wanted,           \* the list of the last UpdateImage; None: nothing to resolve
    image,            \* the URL that UpdateImage put in the presence, or None
    disk,             \* the cache file, None if there is none
    now,              \* the clock
    outdated          \* history: the cache was replaced since the work was taken

fetcherVars == <<current, cache, retryAfter, requestGen, cacheGen,
                 workerAvailable, status>>
workerVars == <<pc, lastRequest, work, outcome>>
keyVars == <<rejected, limitedUntil>>
mainVars == <<mainPc, aborting, wanted, image>>
vars == <<fetcherVars, workerVars, keyVars, mainVars, stopRequested, posted,
          disk, now, outdated>>

EmptyCache == [k \in CacheKey |-> None]
NoRetries == [k \in CacheKey |-> 0]
NoLimits == [a \in ApiKey |-> 0]

Init ==
    /\ current = None /\ cache = EmptyCache /\ retryAfter = NoRetries
    /\ requestGen = 0 /\ cacheGen = 0
    /\ workerAvailable = FALSE /\ status = "Idle"
    /\ pc = "none" /\ lastRequest = None /\ work = None /\ outcome = "none"
    /\ stopRequested = FALSE /\ posted = 0
    /\ rejected = {} /\ limitedUntil = NoLimits
    /\ mainPc = "off" /\ aborting = FALSE
    /\ wanted = None /\ image = None /\ outdated = FALSE
    /\ disk = None /\ now = 1

-----------------------------------------------------------------------------
(* Helpers. *)

IsCacheEntryFresh(fetchedAt, lifetime) ==
    fetchedAt > 0 /\ now >= fetchedAt /\ now - fetchedAt <= lifetime

Lifetime(entry) ==
    IF entry.artUrl = None THEN NegativeLifetime ELSE PositiveLifetime

Fresh(entry) ==
    entry # None /\ IsCacheEntryFresh(entry.fetchedAt, Lifetime(entry))

Keys(map) == {k \in CacheKey : map[k] # None}
RetryKeys == {k \in CacheKey : retryAfter[k] # 0}

IsApiKeyRejected(r) == ApiKeyOf[r] \in rejected
IsRateLimited(r) == ApiKeyOf[r] # None /\ limitedUntil[ApiKeyOf[r]] > now

(* SupersedeCurrentRequestLocked *)
Supersede == requestGen' = requestGen + 1 /\ current' = None

First(indices) == CHOOSE i \in indices : \A j \in indices : i <= j

-----------------------------------------------------------------------------
(***************************************************************************)
(* GetArtUrl: the scan over the request list.  A request is a hit if the   *)
(* cache holds a fresh URL for it; the scan ends at the first hit.  Before *)
(* that, stale entries and elapsed retry times are dropped, and the first  *)
(* request that may be asked is the candidate.                             *)
(***************************************************************************)
HasKey(r) == KeyOf[r] # None
KnownFresh(r) == HasKey(r) /\ Fresh(cache[KeyOf[r]])
IsHit(r) == KnownFresh(r) /\ cache[KeyOf[r]].artUrl # None
Unknown(r) == HasKey(r) /\ ~Fresh(cache[KeyOf[r]])
Suppressed(r) == IsApiKeyRejected(r) \/ IsRateLimited(r)
Cooling(r) == retryAfter[KeyOf[r]] > now
Askable(r) == Unknown(r) /\ ~Suppressed(r) /\ ~Cooling(r) /\ r \in Executable
Blocked(r) == Unknown(r) /\ ~Askable(r)

Hits(reqs) == {i \in DOMAIN reqs : IsHit(reqs[i])}
Scanned(reqs) == {i \in DOMAIN reqs : \A h \in Hits(reqs) : i <= h}
Candidates(reqs) == {i \in Scanned(reqs) : Askable(reqs[i])}
ScannedKeys(reqs) == {KeyOf[reqs[i]] : i \in {j \in Scanned(reqs) : Unknown(reqs[j])}}

(* The URL of the first hit: the answer, or the fallback while waiting. *)
CachedUrl(reqs) ==
    IF Hits(reqs) = {} THEN None ELSE cache[KeyOf[reqs[First(Hits(reqs))]]].artUrl

DropStale(reqs) ==
    /\ cache' = [k \in CacheKey |-> IF k \in ScannedKeys(reqs) THEN None ELSE cache[k]]
    /\ retryAfter' = [k \in CacheKey |->
          IF /\ \E i \in Scanned(reqs) : /\ Unknown(reqs[i]) /\ KeyOf[reqs[i]] = k
                                         /\ ~Suppressed(reqs[i]) /\ ~Cooling(reqs[i])
          THEN 0 ELSE retryAfter[k]]

(* Ask for r: a request equal to the pending one keeps its generation. *)
SetCurrent(r) ==
    IF current # None /\ current.request = r
    THEN UNCHANGED <<current, requestGen>>
    ELSE /\ requestGen' = requestGen + 1
         /\ current' = [request |-> r, cacheKey |-> KeyOf[r],
                        generation |-> requestGen + 1]

GetArtUrl(reqs) ==
    /\ DropStale(reqs)
    /\ image' = CachedUrl(reqs)
    /\ IF Candidates(reqs) # {} /\ workerAvailable
       THEN /\ SetCurrent(reqs[First(Candidates(reqs))])
            /\ status' = "Fetching"
       ELSE /\ Supersede
            /\ status' = IF Hits(reqs) # {} THEN "Resolved"
                         ELSE IF Candidates(reqs) # {}
                                 \/ \E i \in DOMAIN reqs : Blocked(reqs[i])
                              THEN "Failed" ELSE "NotFound"
    /\ UNCHANGED <<cacheGen, workerAvailable>>

(* Mutant: a cancelled request leaves its status behind. *)
CancelKeepsStatus ==
    /\ image' = None
    /\ IF current = None THEN UNCHANGED <<current, requestGen>> ELSE Supersede
    /\ UNCHANGED <<status, cache, retryAfter, cacheGen, workerAvailable>>

CancelPendingRequest ==
    /\ image' = None
    /\ IF current = None
       THEN UNCHANGED <<current, requestGen, status>>
       ELSE Supersede /\ status' = "Idle"
    /\ UNCHANGED <<cache, retryAfter, cacheGen, workerAvailable>>

(* PresenceModifier::UpdateImage for the request list w *)
UpdateImage(w) ==
    /\ wanted' = w
    /\ IF w = None THEN CancelPendingRequest ELSE GetArtUrl(w)

-----------------------------------------------------------------------------
(* The main thread. *)

InMain(from, to) == mainPc = from /\ mainPc' = to
mainFrame == <<workerVars, keyVars, stopRequested, posted, disk, now, outdated>>

(* A new track, an edit, a pause or seek, or a settings change. *)
PlaybackEvent ==
    /\ InMain("idle", "idle") /\ requestGen < MaxGen
    /\ \E w \in Wanted \cup {None} : UpdateImage(w)
    /\ UNCHANGED <<aborting, mainFrame>>

(* The callback that the worker posted.  It asks for the list of the track and *)
(* of the title as they are now: a stop or a new title of a stream may have    *)
(* changed the list since the last UpdateImage.                                *)
RefreshImage ==
    /\ InMain("idle", "idle") /\ posted > 0
    /\ posted' = posted - 1
    /\ \E w \in Wanted \cup {None} : UpdateImage(w)
    /\ UNCHANGED <<aborting, workerVars, keyVars, stopRequested, disk, now, outdated>>

(* The re-evaluation that ends a cache button's handler, or OnSettingsChanged *)
(* after the provider settings were applied.                                  *)
ReEvaluateTrack ==
    /\ InMain("reEvaluate", "idle")
    /\ \E w \in Wanted \cup {None} : UpdateImage(w)
    /\ UNCHANGED <<aborting, mainFrame>>

SettingsApplied ==
    /\ InMain("applying", "idle")
    /\ \E w \in Wanted \cup {None} : UpdateImage(w)
    /\ UNCHANGED <<aborting, mainFrame>>

(* The locked part of ClearCache, LoadCache and InvalidateProviderCache. *)
ReplaceCache(newCache, newRetryAfter) ==
    /\ cache' = newCache
    /\ retryAfter' = newRetryAfter
    /\ cacheGen' = cacheGen + 1
    /\ Supersede
    /\ status' = "Idle"
    /\ outdated' = (work # None)

FreshOnly(file) == [k \in CacheKey |-> IF Fresh(file[k]) THEN file[k] ELSE None]

(* LoadCache by the button; a missing or unreadable file changes nothing. *)
LoadCache ==
    /\ InMain("idle", "reEvaluate") /\ requestGen < MaxGen /\ disk # None
    /\ ReplaceCache(FreshOnly(disk), NoRetries)
    /\ UNCHANGED <<workerAvailable, workerVars, keyVars, aborting, wanted, image,
                   stopRequested, posted, disk, now>>

(* A failure to write is only logged and leaves the old file. *)
WriteFile == disk' \in {cache, disk}

SaveCache ==
    /\ InMain("idle", "idle") /\ WriteFile
    /\ UNCHANGED <<fetcherVars, workerVars, keyVars, aborting, wanted, image,
                   stopRequested, posted, now, outdated>>

ClearCache ==
    /\ InMain("idle", "reEvaluate") /\ requestGen < MaxGen
    /\ disk' = None
    /\ ReplaceCache(EmptyCache, NoRetries)
    /\ UNCHANGED <<workerAvailable, workerVars, keyVars, aborting, wanted, image,
                   stopRequested, posted, now>>

(* Apply invalidates the caches of the providers whose settings changed. *)
InvalidateProviderCache(p) ==
    LET gone == {k \in CacheKey : ProviderOf[k] = p} IN
    /\ mainPc \in {"idle", "applying"} /\ requestGen < MaxGen
    /\ ReplaceCache([k \in CacheKey |-> IF k \in gone THEN None ELSE cache[k]],
                    [k \in CacheKey |-> IF k \in gone THEN 0 ELSE retryAfter[k]])
    /\ mainPc' = IF gone \cap Keys(cache) # {} THEN "saving" ELSE "applying"
    /\ UNCHANGED <<workerAvailable, workerVars, keyVars, aborting, wanted, image,
                   stopRequested, posted, disk, now>>

SaveInvalidated ==
    /\ InMain("saving", "applying") /\ WriteFile
    /\ UNCHANGED <<fetcherVars, workerVars, keyVars, aborting, wanted, image,
                   stopRequested, posted, now, outdated>>

(* Storing a key, or the Test button, forgets that the key was rejected. *)
ResetRejectedApiKeyState(a) ==
    /\ InMain("idle", "idle") /\ requestGen < MaxGen
    /\ a \in rejected /\ rejected' = rejected \ {a}
    /\ UNCHANGED <<fetcherVars, workerVars, limitedUntil, aborting, wanted, image,
                   stopRequested, posted, disk, now, outdated>>

(* on_init: the cache is loaded before the worker starts.  Starting the *)
(* thread may throw; then StopThread and SetWorkerFailure run.          *)
Initialize ==
    /\ InMain("off", "idle")
    /\ \E loads \in {FALSE, disk # None}, starts \in BOOLEAN :
          /\ IF loads
             THEN cache' = FreshOnly(disk) /\ cacheGen' = cacheGen + 1
             ELSE UNCHANGED <<cache, cacheGen>>
          /\ requestGen' = requestGen + (IF loads THEN 1 ELSE 0) + (IF starts THEN 0 ELSE 2)
          /\ workerAvailable' = starts
          /\ pc' = IF starts THEN "wait" ELSE "none"
          /\ status' = IF starts THEN "Idle" ELSE "Failed"
    /\ UNCHANGED <<current, retryAfter, lastRequest, work, outcome,
                   keyVars, aborting, wanted, image, stopRequested, posted, disk,
                   now, outdated>>

(* on_quit: Abort, then Finalize, which is StopThread and SaveCache. *)
Quit ==
    /\ InMain("idle", "stopping") /\ aborting' = TRUE
    /\ UNCHANGED <<fetcherVars, wanted, image, mainFrame>>

StopThread ==
    /\ mainPc = "stopping"
    /\ mainPc' = IF pc = "none" THEN "finalSave" ELSE "requestStop"
    /\ workerAvailable' = FALSE /\ Supersede
    /\ UNCHANGED <<cache, retryAfter, cacheGen, status, aborting, wanted, image, mainFrame>>

(* Mutant: the worker is joined without being asked to stop. *)
RequestNoStop ==
    /\ InMain("requestStop", "joining")
    /\ UNCHANGED <<fetcherVars, workerVars, keyVars, aborting, wanted, image, stopRequested,
                   posted, disk, now, outdated>>

RequestStop ==
    /\ InMain("requestStop", "joining") /\ stopRequested' = TRUE
    /\ UNCHANGED <<fetcherVars, workerVars, keyVars, aborting, wanted, image, posted,
                   disk, now, outdated>>

(* Mutant: the thread is detached instead of joined. *)
DetachWorker ==
    /\ InMain("joining", "finalSave")
    /\ UNCHANGED <<fetcherVars, workerVars, keyVars, aborting, wanted, image, stopRequested,
                   posted, disk, now, outdated>>

JoinWorker ==
    /\ InMain("joining", "finalSave") /\ pc = "done" /\ pc' = "none"
    /\ UNCHANGED <<fetcherVars, lastRequest, work, outcome, keyVars, aborting, wanted,
                   image, stopRequested, posted, disk, now, outdated>>

FinalSave ==
    /\ InMain("finalSave", "exited") /\ WriteFile
    /\ UNCHANGED <<fetcherVars, workerVars, keyVars, aborting, wanted, image,
                   stopRequested, posted, now, outdated>>

-----------------------------------------------------------------------------
(* The worker thread: ThreadMain. *)

InWorker(from, to) == pc = from /\ pc' = to
workerFrame == <<mainVars, stopRequested, disk, now>>

(* Mutant: the work item outlives its iteration. *)
EndIterationKeepsWork ==
    outcome' = "none" /\ lastRequest' = None /\ outdated' = FALSE /\ UNCHANGED work

(* The thread's local variables are unset between two requests. *)
EndIteration == work' = None /\ outcome' = "none" /\ lastRequest' = None /\ outdated' = FALSE

(* The wait ends because the request changed; wait again. *)
ObserveChange ==
    /\ pc = "wait" /\ lastRequest # current
    /\ lastRequest' = current
    /\ UNCHANGED <<pc, fetcherVars, work, outcome, keyVars, posted, outdated, workerFrame>>

(* The request did not change for kRequestProcessingDelay. *)
TakeWork ==
    /\ InWorker("wait", "fetch") /\ lastRequest = current /\ current # None
    /\ work' = [pending |-> current, cacheGeneration |-> cacheGen]
    /\ outdated' = FALSE
    /\ UNCHANGED <<fetcherVars, lastRequest, outcome, keyVars, posted, workerFrame>>

LeaveLoop ==
    /\ InWorker("wait", "done") /\ stopRequested
    /\ EndIteration
    /\ UNCHANGED <<fetcherVars, keyVars, posted, workerFrame>>

(* The validity check that a TheAudioDB request makes before each attempt. *)
IsTheAudioDb(r) == ApiKeyOf[r] # None
RequestIsCurrent ==
    /\ work.cacheGeneration = cacheGen
    /\ current # None /\ current.generation = work.pending.generation

(* No result of an interrupted fetch is kept, unless there is a URL. *)
AfterFetch(o) ==
    IF o \in {"found", "badUrl"} \/ ~(aborting \/ stopRequested) THEN "commit" ELSE "done"

FetchAnswers(o) ==
    /\ pc' = AfterFetch(o)
    /\ IF pc' = "done" THEN EndIteration
       ELSE outcome' = o /\ UNCHANGED <<lastRequest, work, outdated>>
    /\ UNCHANGED <<fetcherVars, posted, workerFrame>>

(* FetchArt of TheAudioDB refuses before any network request. *)
RefuseFetch ==
    /\ pc = "fetch" /\ IsTheAudioDb(work.pending.request)
    /\ Suppressed(work.pending.request) /\ FetchAnswers("suppressed")
    /\ UNCHANGED keyVars

SendFetch ==
    /\ InWorker("fetch", "request") /\ ~aborting
    /\ ~Suppressed(work.pending.request)
    /\ IsTheAudioDb(work.pending.request) => RequestIsCurrent
    /\ UNCHANGED <<fetcherVars, lastRequest, work, outcome, keyVars, posted, outdated,
                   workerFrame>>

AbortFetch ==
    /\ pc \in {"fetch", "request"}
    /\ aborting \/ (IsTheAudioDb(work.pending.request) /\ ~RequestIsCurrent)
    /\ FetchAnswers("aborted") /\ UNCHANGED keyVars

ProviderAnswers ==
    /\ pc = "request"
    /\ \E o \in {"found", "none", "failed", "badUrl"} : FetchAnswers(o)
    /\ UNCHANGED keyVars

(* HTTP 401, 403 or 404: MarkApiKeyRejected; HTTP 429: MarkRateLimited. *)
MarkKey(a) ==
    \/ rejected' = rejected \cup {a} /\ UNCHANGED limitedUntil
    \/ limitedUntil' = [limitedUntil EXCEPT ![a] = now + Cooldown] /\ UNCHANGED rejected

ProviderRefuses ==
    /\ pc = "request" /\ IsTheAudioDb(work.pending.request)
    /\ FetchAnswers("suppressed")
    /\ MarkKey(ApiKeyOf[work.pending.request])

(* Mutants: no check of the cache generation; a result satisfies only the very *)
(* request it was fetched for.                                                 *)
AlwaysCommit == TRUE
MayCommit == work.cacheGeneration = cacheGen
MatchesCurrentGeneration ==
    current # None /\ work.pending.generation = current.generation
SatisfiesCurrentGeneration == MayCommit /\ outcome \in Cacheable /\ MatchesCurrentGeneration
SatisfiesCurrentCacheKey ==
    /\ MayCommit /\ outcome \in Cacheable
    /\ current # None /\ current.cacheKey = work.pending.cacheKey
MayPublish == MayCommit /\ (MatchesCurrentGeneration \/ SatisfiesCurrentCacheKey)

(* Mutant: one entry too many. *)
CacheVictimsLate(key) ==
    IF cache[key] # None \/ Cardinality(Keys(cache)) <= MaxEntries THEN {None}
    ELSE {k \in Keys(cache) : \A j \in Keys(cache) : cache[k].fetchedAt <= cache[j].fetchedAt}

(* The entry that makes room for a new key; {None} if there is room. *)
CacheVictims(key) ==
    IF cache[key] # None \/ Cardinality(Keys(cache)) < MaxEntries THEN {None}
    ELSE {k \in Keys(cache) : \A j \in Keys(cache) : cache[k].fetchedAt <= cache[j].fetchedAt}
RetryVictims(key) ==
    IF retryAfter[key] # 0 \/ Cardinality(RetryKeys) < MaxEntries THEN {None}
    ELSE {k \in RetryKeys : \A j \in RetryKeys : retryAfter[k] <= retryAfter[j]}

StoreResult(key) ==
    \E victim \in CacheVictims(key) :
       /\ cache' = [k \in CacheKey |->
             IF k = key
             THEN [artUrl |-> IF outcome = "found" THEN work.pending.request ELSE None,
                   fetchedAt |-> now]
             ELSE IF k = victim THEN None ELSE cache[k]]
       /\ retryAfter' = [retryAfter EXCEPT ![key] = 0]

HoldOff(key) ==
    \E victim \in RetryVictims(key) :
       /\ retryAfter' = [k \in CacheKey |-> IF k = key THEN now + Cooldown
                                            ELSE IF k = victim THEN 0 ELSE retryAfter[k]]
       /\ UNCHANGED cache

(* Mutant: a late result is filed under the key of the request that replaced its own. *)
RecordUnderCurrent ==
    IF MayCommit /\ outcome \in Cacheable
    THEN StoreResult(IF current # None THEN current.cacheKey ELSE work.pending.cacheKey)
    ELSE IF MayCommit /\ outcome \in {"failed", "badUrl"} THEN HoldOff(work.pending.cacheKey)
    ELSE UNCHANGED <<cache, retryAfter>>

(* What a commit records: the result, or a hold-off after a failure. *)
RecordOutcome ==
    IF MayCommit /\ outcome \in Cacheable THEN StoreResult(work.pending.cacheKey)
    ELSE IF MayCommit /\ outcome \in {"failed", "badUrl"} THEN HoldOff(work.pending.cacheKey)
    ELSE UNCHANGED <<cache, retryAfter>>

PublishedStatus ==
    CASE outcome = "found" -> "Resolved"
      [] outcome = "none"  -> "NotFound"
      [] OTHER             -> "Failed"

(* Mutants: the presence is refreshed for some of the outcomes only. *)
RefreshAfterCacheable == MayPublish /\ outcome \in Cacheable
RefreshUnlessNoMatch == MayPublish /\ outcome \in {"found"} \cup WithMessage

ShouldRefresh ==
    IF MayPublish THEN outcome \in Cacheable \cup WithMessage ELSE outcome = "suppressed"

Commit ==
    /\ pc = "commit"
    /\ RecordOutcome
    /\ IF MayPublish THEN status' = PublishedStatus /\ current' = None
       ELSE UNCHANGED <<status, current>>
    /\ EndIteration
    /\ pc' = IF ShouldRefresh THEN "post" ELSE "wait"
    /\ UNCHANGED <<requestGen, cacheGen, workerAvailable, keyVars, posted, workerFrame>>

(* Mutant: the posted callback is lost after a success. *)
PostAfterFailure ==
    /\ InWorker("post", "wait")
    /\ posted' = IF stopRequested \/ aborting \/ status # "Failed" THEN posted ELSE posted + 1
    /\ UNCHANGED <<fetcherVars, lastRequest, work, outcome, keyVars, outdated, workerFrame>>

PostRefresh ==
    /\ InWorker("post", "wait")
    /\ posted' = IF stopRequested \/ aborting THEN posted ELSE posted + 1
    /\ UNCHANGED <<fetcherVars, lastRequest, work, outcome, keyVars, outdated, workerFrame>>

(* Mutant: the failed worker still counts as available. *)
WorkerFailsUnnoticed ==
    /\ pc \in {"wait", "fetch", "request", "commit", "post"} /\ pc' = "done"
    /\ Supersede /\ status' = "Failed"
    /\ EndIteration
    /\ UNCHANGED <<cache, retryAfter, cacheGen, workerAvailable, keyVars, posted, workerFrame>>

(* An exception leaves ThreadMain: SetWorkerFailure, and the thread ends. *)
WorkerFails ==
    /\ pc \in {"wait", "fetch", "request", "commit", "post"} /\ pc' = "done"
    /\ workerAvailable' = FALSE /\ Supersede /\ status' = "Failed"
    /\ EndIteration
    /\ UNCHANGED <<cache, retryAfter, cacheGen, keyVars, posted, workerFrame>>

-----------------------------------------------------------------------------
(* The environment. *)

(* The thread of the Test button was refused: it shares the key state. *)
TestRefused(a) ==
    /\ mainPc \notin {"off", "exited"} /\ MarkKey(a)
    /\ UNCHANGED <<fetcherVars, workerVars, mainVars, stopRequested, posted, disk, now,
                   outdated>>

(* The process ends, by a crash or after on_quit: only the file outlives it. *)
ProcessEnds ==
    /\ mainPc # "off"
    /\ current' = None /\ cache' = EmptyCache /\ retryAfter' = NoRetries
    /\ requestGen' = 0 /\ cacheGen' = 0
    /\ workerAvailable' = FALSE /\ status' = "Idle"
    /\ pc' = "none" /\ lastRequest' = None /\ work' = None /\ outcome' = "none"
    /\ stopRequested' = FALSE /\ posted' = 0
    /\ rejected' = {} /\ limitedUntil' = NoLimits
    /\ mainPc' = "off" /\ aborting' = FALSE
    /\ wanted' = None /\ image' = None /\ outdated' = FALSE
    /\ UNCHANGED <<disk, now>>

Tick ==
    /\ now < MaxTime /\ now' = now + 1
    /\ UNCHANGED <<fetcherVars, workerVars, keyVars, mainVars, stopRequested, posted, disk,
                   outdated>>

WorkerProgress ==
    \/ ObserveChange \/ TakeWork \/ LeaveLoop
    \/ RefuseFetch \/ SendFetch \/ AbortFetch \/ ProviderAnswers \/ ProviderRefuses
    \/ Commit \/ PostRefresh

MainProgress ==
    \/ RefreshImage \/ ReEvaluateTrack \/ SettingsApplied \/ SaveInvalidated
    \/ StopThread \/ RequestStop \/ JoinWorker \/ FinalSave

UserAction ==
    \/ Initialize \/ PlaybackEvent \/ Quit
    \/ LoadCache \/ SaveCache \/ ClearCache
    \/ \E p \in Provider : InvalidateProviderCache(p)
    \/ \E a \in ApiKey : ResetRejectedApiKeyState(a)

Next ==
    \/ WorkerProgress \/ MainProgress \/ UserAction
    \/ WorkerFails \/ ProcessEnds \/ Tick
    \/ \E a \in ApiKey : TestRefused(a)

Spec == Init /\ [][Next]_vars
FairSpec == Spec /\ WF_vars(WorkerProgress) /\ WF_vars(MainProgress)
-----------------------------------------------------------------------------
(***************************************************************************)
(* Properties.                                                             *)
(***************************************************************************)
MainPcs == {"off", "idle", "reEvaluate", "applying", "saving", "stopping", "requestStop",
            "joining", "finalSave", "exited"}
WorkerPcs == {"none", "wait", "fetch", "request", "commit", "post", "done"}
InIteration == pc \in {"fetch", "request", "commit"}

FetcherTypeOK ==
    /\ current \in PendingRequest \cup {None}
    /\ cache \in Cache /\ retryAfter \in [CacheKey -> Nat]
    /\ requestGen \in Nat /\ cacheGen \in Nat
    /\ status \in Status
WorkerTypeOK ==
    /\ pc \in WorkerPcs /\ lastRequest \in PendingRequest \cup {None}
    /\ work \in WorkItem \cup {None} /\ (work # None <=> InIteration)
    /\ outcome \in Outcome
KeyTypeOK == rejected \subseteq ApiKey /\ limitedUntil \in [ApiKey -> Nat]
MainTypeOK ==
    /\ mainPc \in MainPcs
    /\ wanted \in Wanted \cup {None} /\ image \in Request \cup {None}
SharedTypeOK == posted \in Nat /\ disk \in Cache \cup {None} /\ now \in Nat \ {0}
FlagTypeOK ==
    /\ workerAvailable \in BOOLEAN /\ stopRequested \in BOOLEAN
    /\ aborting \in BOOLEAN /\ outdated \in BOOLEAN

(* Every variable has its type, and the worker holds a work item exactly *)
(* while it fetches and commits.                                         *)
TypeOK ==
    /\ FetcherTypeOK /\ WorkerTypeOK /\ KeyTypeOK /\ MainTypeOK
    /\ SharedTypeOK /\ FlagTypeOK

(* The fetcher never asks a provider, nor uploads again, for what the cache   *)
(* already answers: a pending request has no cache entry, although results of *)
(* earlier requests with the same key are committed while it waits.           *)
PendingIsUnknown == current # None => cache[current.cacheKey] = None

(* A pending request always has a live worker to serve it, whatever failed,  *)
(* until the program quits.                                                  *)
PendingIsServed ==
    current # None /\ ~aborting => pc \in {"wait", "fetch", "request", "commit", "post"}

(* The status shown in Preferences says "fetching" exactly while a request is *)
(* pending: it is not left behind by a superseded, failed or finished one.    *)
Running == {"idle", "reEvaluate", "applying", "saving", "stopping"}
FetchingIsPending == mainPc \in Running => (status = "Fetching" <=> current # None)

(* Once the posted refreshes have run, the status agrees with the presence: a *)
(* resolved status has its artwork on display and a no-match status has none. *)
(* (With artwork off, wanted = None, Preferences do not show this status.)    *)
NothingQueued == mainPc = "idle" /\ posted = 0 /\ pc # "post"
StatusMatchesImage ==
    NothingQueued /\ wanted # None => /\ status = "Resolved" => image # None
                                      /\ status = "NotFound" => image = None

(* Clearing, reloading or invalidating the cache while a fetch is in flight *)
(* keeps its result, failure and status from coming back.                   *)
NoStaleCommit ==
    [][outdated /\ pc = "commit" /\ pc' \in {"wait", "post"}
         => UNCHANGED <<cache, retryAfter, status, current>>]_vars

(* A request that the worker ends is never dropped in silence: the presence   *)
(* is re-evaluated, so that the next provider is tried or the artwork shown.  *)
EndedRequestIsRefreshed ==
    [][pc = "commit" /\ pc' \in {"wait", "post"} /\ current' # current => pc' = "post"]_vars

(* When nothing is pending or queued, every request of the current list that   *)
(* precedes a URL in the cache, fresh or stale, was tried: a failing or empty  *)
(* provider never ends the fallback chain before its last member.  What was    *)
(* tried is on record in one of the maps, as long as nothing had to be evicted *)
(* from them.                                                                  *)
Untried(r) ==
    /\ HasKey(r) /\ r \in Executable /\ ~IsTheAudioDb(r)
    /\ cache[KeyOf[r]] = None /\ retryAfter[KeyOf[r]] = 0
HoldsUrl(r) ==
    HasKey(r) /\ cache[KeyOf[r]] # None /\ cache[KeyOf[r]].artUrl # None
HasRoom == Cardinality(Keys(cache) \cup RetryKeys) < MaxEntries
ChainIsExhausted ==
    NothingQueued /\ current = None /\ workerAvailable /\ wanted # None /\ HasRoom
      => \A i \in DOMAIN wanted :
            Untried(wanted[i]) => \E j \in DOMAIN wanted : j < i /\ HoldsUrl(wanted[j])

(* Both maps keep their bound when keys come and go. *)
MapsAreBounded ==
    Cardinality(Keys(cache)) <= MaxEntries /\ Cardinality(RetryKeys) <= MaxEntries

(* A URL in the cache, or in its file, was obtained for a request with its key: *)
(* a result that comes late is not filed under the key of the request that      *)
(* replaced its own, and no load or restart mixes keys up.                      *)
UrlsMatch(c) ==
    \A k \in CacheKey : c[k] # None /\ c[k].artUrl # None => KeyOf[c[k].artUrl] = k
CachedUrlsAreRight == UrlsMatch(cache) /\ (disk # None => UrlsMatch(disk))

(* The worker is gone before the last save: what quitting writes is all that *)
(* was ever learnt, and no commit comes after it.                            *)
NoCommitAfterFinalSave ==
    [][(mainPc \in {"finalSave", "exited"} /\ mainPc' # "off") => cache' = cache]_vars

EveryRequestEnds ==
    \A g \in 1 .. MaxGen : (current # None /\ current.generation = g)
                              ~> ~(current # None /\ current.generation = g)

QuitEnds == (mainPc = "stopping") ~> (mainPc \in {"exited", "off"})

(* Liveness: no request stays pending for ever, whatever its provider does, and *)
(* quitting joins the worker and ends, from whatever the worker is in.          *)
NothingHangs == EveryRequestEnds /\ QuitEnds

(* Liveness: artwork that was resolved reaches the presence. *)
ResolvedIsShown ==
    (status = "Resolved" /\ image = None /\ wanted # None)
        ~> (image # None \/ status # "Resolved" \/ wanted = None \/ aborting)

(* docs/CONFIGURATION.md:316: the first play "may briefly show the large-image *)
(* fallback, then update after a provider returns artwork".  At rest, artwork  *)
(* that the cache holds for the current list is on display.                    *)
NoLostArtwork ==
    NothingQueued /\ current = None /\ pc = "wait" /\ wanted # None
      => (Hits(wanted) # {} => image # None)
=============================================================================

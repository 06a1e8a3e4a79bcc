---------------------- MODULE ArtworkFetcherSafetyProofs ----------------------
(***************************************************************************)
(* The safety properties of ArtworkFetcher, for every value of its         *)
(* constants.  The inductive invariant is built in layers, each proved     *)
(* with the help of those before: the life cycle of the worker thread, the *)
(* generations of requests and of the cache, the pending request, the      *)
(* bounds of the maps, what is filed in them, and what the fetcher leaves  *)
(* behind at rest.                                                         *)
(***************************************************************************)
EXTENDS ArtworkFetcherProofs

(***************************************************************************)
(* The life cycle: the order in which on_init and on_quit start and stop   *)
(* the worker, and what workerAvailable promises about it.                 *)
(***************************************************************************)
Live == {"wait", "fetch", "request", "commit", "post"}
Quitting == {"stopping", "requestStop", "joining", "finalSave", "exited"}

Lifecycle ==
    /\ mainPc = "off" => pc = "none" /\ current = None /\ ~stopRequested /\ ~aborting
    /\ aborting => mainPc \in Quitting
    /\ stopRequested => mainPc \in {"joining", "finalSave", "exited"}
    /\ workerAvailable => mainPc \notin Quitting \ {"stopping"}
    /\ mainPc \in {"finalSave", "exited"} => pc = "none"
    /\ workerAvailable /\ ~aborting => pc \in Live
    /\ current # None => workerAvailable

(* The worker ends only when it fails or was asked to stop, and then nothing is pending. *)
LEMMA WorkerLifecycle == TypeOK /\ Lifecycle /\ (WorkerProgress \/ WorkerFails) => Lifecycle'
<1> SUFFICES ASSUME TypeOK, Lifecycle, WorkerProgress \/ WorkerFails PROVE Lifecycle'
  OBVIOUS
<1>1. UNCHANGED <<mainPc, aborting, stopRequested>>
  BY DEF WorkerProgress, ObserveChange, TakeWork, LeaveLoop, RefuseFetch, SendFetch, AbortFetch,
     ProviderAnswers, ProviderRefuses, Commit, PostRefresh, WorkerFails, FetchAnswers, workerFrame,
     mainVars
<1>2. pc \in Live
  BY DEF Live, WorkerProgress, ObserveChange, TakeWork, LeaveLoop, RefuseFetch, SendFetch,
     AbortFetch, ProviderAnswers, ProviderRefuses, Commit, PostRefresh, WorkerFails, InWorker
<1>3. (workerAvailable' = workerAvailable /\ current' \in {current, None})
      \/ (workerAvailable' = FALSE /\ current' = None)
  BY DEF WorkerProgress, ObserveChange, TakeWork, LeaveLoop, RefuseFetch, SendFetch, AbortFetch,
     ProviderAnswers, ProviderRefuses, Commit, PostRefresh, WorkerFails, FetchAnswers, Supersede,
     fetcherVars
<1>4. pc' \in Live \/ aborting \/ stopRequested \/ workerAvailable' = FALSE
  BY DEF Live, WorkerProgress, ObserveChange, TakeWork, LeaveLoop, RefuseFetch, SendFetch,
     AbortFetch, ProviderAnswers, ProviderRefuses, Commit, PostRefresh, WorkerFails, InWorker,
     FetchAnswers, AfterFetch
<1> QED
  BY <1>1, <1>2, <1>3, <1>4 DEF Lifecycle, Live, Quitting

(* UpdateImage asks only an available worker. *)
LEMMA UpdateImageAsksWorker ==
    ASSUME NEW w, UpdateImage(w)
    PROVE  UNCHANGED workerAvailable /\ (current' \in {current, None} \/ workerAvailable)
BY DEF UpdateImage, CancelPendingRequest, GetArtUrl, Supersede

(* The main thread requests, stops and joins in the order of Initialize and Finalize. *)
LEMMA MainLifecycle == TypeOK /\ Lifecycle /\ (MainProgress \/ UserAction) => Lifecycle'
<1> SUFFICES ASSUME TypeOK, Lifecycle, MainProgress \/ UserAction PROVE Lifecycle'
  OBVIOUS
<1>1. CASE RefreshImage \/ ReEvaluateTrack \/ SettingsApplied \/ PlaybackEvent
  <2>1. UNCHANGED workerAvailable /\ (current' \in {current, None} \/ workerAvailable)
    BY <1>1, UpdateImageAsksWorker DEF RefreshImage, ReEvaluateTrack, SettingsApplied, PlaybackEvent
  <2>2. /\ mainPc \in {"idle", "reEvaluate", "applying"} /\ mainPc' = "idle"
        /\ UNCHANGED <<pc, aborting, stopRequested>>
    BY <1>1 DEF RefreshImage, ReEvaluateTrack, SettingsApplied, PlaybackEvent, InMain, mainFrame,
       workerVars
  <2> QED
    BY <2>1, <2>2 DEF Lifecycle, Live, Quitting
<1>2. CASE LoadCache \/ ClearCache \/ \E p \in Provider : InvalidateProviderCache(p)
  <2>1. /\ mainPc \in {"idle", "applying"} /\ mainPc' \in {"reEvaluate", "saving", "applying"}
        /\ UNCHANGED <<workerAvailable, pc, aborting, stopRequested>> /\ current' = None
    BY <1>2 DEF LoadCache, ClearCache, InvalidateProviderCache, ReplaceCache, Supersede, InMain,
       workerVars
  <2> QED
    BY <2>1 DEF Lifecycle, Live, Quitting
<1>3. CASE SaveInvalidated \/ SaveCache \/ FinalSave
           \/ \E a \in ApiKey : ResetRejectedApiKeyState(a)
  <2>1. /\ UNCHANGED <<workerAvailable, pc, current, aborting, stopRequested>>
        /\ \/ mainPc = "finalSave" /\ mainPc' = "exited"
           \/ mainPc \in {"idle", "saving"} /\ mainPc' \in {"idle", "applying"}
    BY <1>3 DEF SaveInvalidated, SaveCache, FinalSave, ResetRejectedApiKeyState, InMain,
       workerVars, fetcherVars
  <2> QED
    BY <2>1 DEF Lifecycle, Live, Quitting
<1>4. CASE Initialize
  <2>1. /\ mainPc = "off" /\ mainPc' = "idle" /\ UNCHANGED <<current, aborting, stopRequested>>
        /\ \/ workerAvailable' = TRUE /\ pc' = "wait"
           \/ workerAvailable' = FALSE /\ pc' = "none"
    BY <1>4, Zenon DEF Initialize, InMain
  <2> QED
    BY <2>1 DEF Lifecycle, Live, Quitting
<1>5. CASE Quit
  BY <1>5 DEF Quit, InMain, fetcherVars, mainFrame, workerVars, Lifecycle, Live, Quitting
<1>6. CASE StopThread
  BY <1>6 DEF StopThread, Supersede, mainFrame, workerVars, Lifecycle, Live, Quitting
<1>7. CASE RequestStop
  BY <1>7 DEF RequestStop, InMain, fetcherVars, workerVars, Lifecycle, Live, Quitting
<1>8. CASE JoinWorker
  BY <1>8 DEF JoinWorker, InMain, fetcherVars, Lifecycle, Live, Quitting
<1> QED
  BY <1>1, <1>2, <1>3, <1>4, <1>5, <1>6, <1>7, <1>8 DEF MainProgress, UserAction

(* Every step keeps the life cycle. *)
LEMMA StepLifecycle == TypeOK /\ Lifecycle /\ [Next]_vars => Lifecycle'
<1> SUFFICES ASSUME TypeOK, Lifecycle, [Next]_vars PROVE Lifecycle'
  OBVIOUS
<1>1. CASE Tick \/ (\E a \in ApiKey : TestRefused(a)) \/ UNCHANGED vars
  BY <1>1 DEF Tick, TestRefused, vars, fetcherVars, workerVars, mainVars, Lifecycle
<1>2. CASE ProcessEnds
  BY <1>2 DEF ProcessEnds, Lifecycle, Live, Quitting
<1> QED
  BY <1>1, <1>2, WorkerLifecycle, MainLifecycle DEF Next

(* The life cycle holds in every state, together with the types. *)
THEOREM LifecycleHolds == Spec => []Lifecycle
<1>1. Init => Lifecycle
  BY DEF Init, Lifecycle, Live, Quitting
<1>2. TypeOK /\ Lifecycle /\ [Next]_vars => Lifecycle'
  BY StepLifecycle
<1> QED
  BY <1>1, <1>2, TypeCorrect, PTL DEF Spec

-----------------------------------------------------------------------------
(***************************************************************************)
(* The generations: they only grow, so that a work item taken before the   *)
(* cache was replaced, or before its request was superseded, can never     *)
(* match again.                                                            *)
(***************************************************************************)
Generations ==
    /\ current # None => current.generation <= requestGen
    /\ work # None => /\ work.cacheGeneration <= cacheGen
                      /\ work.pending.generation <= requestGen
    /\ outdated => work # None /\ work.cacheGeneration < cacheGen
    /\ pc = "commit" /\ outcome = "aborted" => ~RequestIsCurrent

(* The worker takes its generations from the current ones and never raises them. *)
LEMMA WorkerGenerations ==
    TypeOK /\ Generations /\ (WorkerProgress \/ WorkerFails) => Generations'
<1> SUFFICES ASSUME TypeOK, Generations, WorkerProgress \/ WorkerFails PROVE Generations'
  OBVIOUS
<1> USE DEF TypeOK, FetcherTypeOK, WorkerTypeOK
<1>1. CASE ObserveChange \/ SendFetch \/ PostRefresh
  BY <1>1 DEF ObserveChange, SendFetch, PostRefresh, InWorker, fetcherVars, Generations,
     RequestIsCurrent
<1>2. CASE TakeWork
  BY <1>2 DEF TakeWork, InWorker, fetcherVars, Generations, RequestIsCurrent
<1>3. CASE LeaveLoop
  BY <1>3 DEF LeaveLoop, EndIteration, InWorker, fetcherVars, Generations
<1>4. ASSUME NEW o \in Outcome, FetchAnswers(o), o = "aborted" => pc' = "done" \/ ~RequestIsCurrent
      PROVE  Generations'
  BY <1>4 DEF FetchAnswers, EndIteration, fetcherVars, Generations, RequestIsCurrent
<1>5. CASE AbortFetch
  <2>1. FetchAnswers("aborted") /\ (aborting \/ ~RequestIsCurrent)
    BY <1>5 DEF AbortFetch
  <2>2. pc' = "done" \/ ~RequestIsCurrent
    BY <2>1 DEF FetchAnswers, AfterFetch
  <2> QED
    BY <1>4, <2>1, <2>2 DEF Outcome
<1>6. CASE RefuseFetch \/ ProviderAnswers \/ ProviderRefuses
  BY <1>4, <1>6 DEF RefuseFetch, ProviderAnswers, ProviderRefuses, Outcome
<1>7. CASE Commit
  BY <1>7 DEF Commit, EndIteration, Generations
<1>8. CASE WorkerFails
  BY <1>8 DEF WorkerFails, EndIteration, Supersede, Generations
<1> QED
  BY <1>1, <1>2, <1>3, <1>5, <1>6, <1>7, <1>8 DEF WorkerProgress

(* A new request gets a generation that no request had. *)
LEMMA UpdateImageGenerations ==
    ASSUME TypeOK, NEW w, UpdateImage(w)
    PROVE  /\ UNCHANGED cacheGen /\ requestGen' \in {requestGen, requestGen + 1}
           /\ \/ current' = current
              \/ current' = None
              \/ requestGen' = requestGen + 1 /\ current'.generation = requestGen'
<1>1. CASE w = None
  BY <1>1 DEF UpdateImage, CancelPendingRequest, Supersede
<1>2. CASE w # None
  BY <1>2 DEF UpdateImage, GetArtUrl, SetCurrent, Supersede
<1> QED
  BY <1>1, <1>2

(* The main thread raises the cache generation whenever it replaces the cache. *)
LEMMA MainGenerations ==
    TypeOK /\ NoThreadWhenOff /\ Generations /\ (MainProgress \/ UserAction) => Generations'
<1> SUFFICES ASSUME TypeOK, NoThreadWhenOff, Generations, MainProgress \/ UserAction
             PROVE  Generations'
  OBVIOUS
<1>1. CASE RefreshImage \/ ReEvaluateTrack \/ SettingsApplied \/ PlaybackEvent
  <2>1. UNCHANGED <<workerVars, outdated>>
    BY <1>1 DEF RefreshImage, ReEvaluateTrack, SettingsApplied, PlaybackEvent, mainFrame
  <2>2. /\ UNCHANGED cacheGen /\ requestGen' \in {requestGen, requestGen + 1}
        /\ \/ current' = current
           \/ current' = None
           \/ requestGen' = requestGen + 1 /\ current'.generation = requestGen'
    BY <1>1, UpdateImageGenerations
    DEF RefreshImage, ReEvaluateTrack, SettingsApplied, PlaybackEvent
  <2> QED
    BY <2>1, <2>2 DEF workerVars, Generations, RequestIsCurrent, TypeOK, FetcherTypeOK,
       WorkerTypeOK, InIteration, WorkItem, PendingRequest
<1>2. CASE LoadCache \/ ClearCache \/ \E p \in Provider : InvalidateProviderCache(p)
  <2>1. /\ current' = None /\ requestGen' = requestGen + 1 /\ cacheGen' = cacheGen + 1
        /\ UNCHANGED workerVars
    BY <1>2 DEF LoadCache, ClearCache, InvalidateProviderCache, ReplaceCache, Supersede
  <2>2. outdated' => work # None
    BY <1>2 DEF LoadCache, ClearCache, InvalidateProviderCache, ReplaceCache
  <2> QED
    BY <2>1, <2>2 DEF workerVars, Generations, RequestIsCurrent, TypeOK, FetcherTypeOK,
       WorkerTypeOK, WorkItem, PendingRequest
<1>3. CASE SaveInvalidated \/ SaveCache \/ FinalSave \/ RequestStop \/ JoinWorker \/ Quit
           \/ \E a \in ApiKey : ResetRejectedApiKeyState(a)
  <2>1. UNCHANGED <<fetcherVars, work, outcome, outdated>> /\ pc' \in {pc, "none"}
    BY <1>3 DEF SaveInvalidated, SaveCache, FinalSave, RequestStop, JoinWorker, Quit, mainFrame,
       ResetRejectedApiKeyState, workerVars
  <2> QED
    BY <2>1 DEF fetcherVars, Generations, RequestIsCurrent
<1>4. CASE StopThread
  BY <1>4 DEF StopThread, Supersede, mainFrame, workerVars, Generations, RequestIsCurrent, TypeOK,
     FetcherTypeOK, WorkerTypeOK, WorkItem, PendingRequest
<1>5. CASE Initialize
  <2>1. work = None /\ pc = "none"
    BY <1>5 DEF Initialize, InMain, NoThreadWhenOff, TypeOK, WorkerTypeOK, InIteration
  <2>2. requestGen' \in Nat /\ requestGen' >= requestGen /\ UNCHANGED <<current, work, outdated>>
        /\ pc' \in {"none", "wait"}
    <3>1. \E m \in {0, 1}, n \in {0, 2} : requestGen' = requestGen + m + n
      BY <1>5, Zenon DEF Initialize
    <3> QED
      BY <1>5, <3>1 DEF Initialize, TypeOK, FetcherTypeOK
  <2>3. current # None => current.generation <= requestGen'
    BY <2>2 DEF Generations, TypeOK, FetcherTypeOK, PendingRequest
  <2>4. ~outdated'
    BY <2>1, <2>2 DEF Generations
  <2> QED
    BY <2>1, <2>2, <2>3, <2>4 DEF Generations
<1> QED
  BY <1>1, <1>2, <1>3, <1>4, <1>5 DEF MainProgress, UserAction

(* Every step keeps the order of the generations. *)
LEMMA StepGenerations == TypeOK /\ NoThreadWhenOff /\ Generations /\ [Next]_vars => Generations'
<1> SUFFICES ASSUME TypeOK, NoThreadWhenOff, Generations, [Next]_vars PROVE Generations'
  OBVIOUS
<1>1. CASE Tick \/ (\E a \in ApiKey : TestRefused(a)) \/ UNCHANGED vars
  BY <1>1 DEF Tick, TestRefused, vars, fetcherVars, workerVars, Generations, RequestIsCurrent
<1>2. CASE ProcessEnds
  BY <1>2 DEF ProcessEnds, Generations
<1> QED
  BY <1>1, <1>2, WorkerGenerations, MainGenerations DEF Next

(* Generations never run behind what the worker holds. *)
THEOREM GenerationsHold == Spec => []Generations
<1>1. Init => Generations
  BY DEF Init, Generations
<1>2. Lifecycle => NoThreadWhenOff
  BY DEF Lifecycle, NoThreadWhenOff
<1>3. TypeOK /\ NoThreadWhenOff /\ Generations /\ [Next]_vars => Generations'
  BY StepGenerations
<1> QED
  BY <1>1, <1>2, <1>3, TypeCorrect, LifecycleHolds, PTL DEF Spec

(* Only a commit takes the worker from its commit back to its wait. *)
LEMMA LeavingCommit ==
    ASSUME Lifecycle, [Next]_vars, pc = "commit", pc' \in {"wait", "post"}
    PROVE  Commit
<1>1. CASE WorkerProgress
  BY <1>1 DEF WorkerProgress, ObserveChange, TakeWork, LeaveLoop, RefuseFetch, SendFetch,
     AbortFetch, ProviderAnswers, ProviderRefuses, PostRefresh, InWorker
<1>2. CASE MainProgress
  BY <1>2 DEF MainProgress, RefreshImage, ReEvaluateTrack, SettingsApplied, SaveInvalidated,
     StopThread, RequestStop, JoinWorker, FinalSave, mainFrame, workerVars
<1>3. CASE UserAction
  BY <1>3 DEF UserAction, PlaybackEvent, Quit, LoadCache, SaveCache, ClearCache, Initialize,
     InvalidateProviderCache, ResetRejectedApiKeyState, InMain, Lifecycle, mainFrame, workerVars
<1>4. CASE WorkerFails \/ ProcessEnds \/ Tick \/ (\E a \in ApiKey : TestRefused(a)) \/ UNCHANGED vars
  BY <1>4 DEF WorkerFails, ProcessEnds, Tick, TestRefused, vars, workerVars
<1> QED
  BY <1>1, <1>2, <1>3, <1>4 DEF Next

(***************************************************************************)
(* Clearing, reloading or invalidating the cache while a fetch is in       *)
(* flight keeps its result, failure and status from coming back: the       *)
(* worker finds its cache generation outdated.                             *)
(***************************************************************************)
THEOREM StaleCommitsAreDropped == Spec => NoStaleCommit
<1>1. ASSUME TypeOK, Lifecycle, Generations, [Next]_vars, outdated, pc = "commit", pc' \in {"wait", "post"}
      PROVE  UNCHANGED <<cache, retryAfter, status, current>>
  <2>1. Commit
    BY <1>1, LeavingCommit
  <2>2. ~MayCommit
    BY <1>1 DEF MayCommit, Generations, TypeOK, FetcherTypeOK, WorkerTypeOK, WorkItem
  <2> QED
    BY <2>1, <2>2 DEF Commit, RecordOutcome, MayPublish
<1>2. TypeOK /\ Lifecycle /\ Generations /\ [Next]_vars
        => [outdated /\ pc = "commit" /\ pc' \in {"wait", "post"}
              => UNCHANGED <<cache, retryAfter, status, current>>]_vars
  BY <1>1
<1> QED
  BY <1>2, TypeCorrect, LifecycleHolds, GenerationsHold, PTL DEF Spec, NoStaleCommit

(***************************************************************************)
(* A request that the worker ends is never dropped in silence.  The only   *)
(* outcome without a refresh is exception_aborted, and its request is no   *)
(* longer the current one.                                                 *)
(***************************************************************************)
THEOREM EndedRequestsAreRefreshed == Spec => EndedRequestIsRefreshed
<1>1. ASSUME TypeOK, Lifecycle, Generations, [Next]_vars, pc = "commit", pc' \in {"wait", "post"},
             current' # current
      PROVE  pc' = "post"
  <2>1. Commit /\ MayPublish
    BY <1>1, LeavingCommit DEF Commit
  <2>2. outcome # "aborted"
    BY <1>1, <2>1 DEF MayPublish, MayCommit, MatchesCurrentGeneration, SatisfiesCurrentCacheKey,
       Cacheable, Generations, RequestIsCurrent
  <2>3. outcome \in Cacheable \cup WithMessage
    BY <1>1, <2>2 DEF TypeOK, WorkerTypeOK, Outcome, Cacheable, WithMessage
  <2> QED
    BY <2>1, <2>3 DEF Commit, ShouldRefresh
<1>2. TypeOK /\ Lifecycle /\ Generations /\ [Next]_vars
        => [pc = "commit" /\ pc' \in {"wait", "post"} /\ current' # current => pc' = "post"]_vars
  BY <1>1
<1> QED
  BY <1>2, TypeCorrect, LifecycleHolds, GenerationsHold, PTL DEF Spec, EndedRequestIsRefreshed

(***************************************************************************)
(* The last save of on_quit finds no worker, and nothing commits after it. *)
(***************************************************************************)
THEOREM NothingIsCommittedAfterFinalSave == Spec => NoCommitAfterFinalSave
<1>1. ASSUME TypeOK, Lifecycle, [Next]_vars, mainPc \in {"finalSave", "exited"}, mainPc' # "off"
      PROVE  cache' = cache
  <2>1. pc = "none"
    BY <1>1 DEF Lifecycle
  <2>2. CASE WorkerProgress \/ WorkerFails
    BY <2>1, <2>2 DEF WorkerProgress, ObserveChange, TakeWork, LeaveLoop, RefuseFetch, SendFetch,
       AbortFetch, ProviderAnswers, ProviderRefuses, Commit, PostRefresh, WorkerFails, InWorker
  <2>3. CASE MainProgress
    BY <1>1, <2>3 DEF MainProgress, RefreshImage, ReEvaluateTrack, SettingsApplied, InMain,
       SaveInvalidated, StopThread, RequestStop, JoinWorker, FinalSave, fetcherVars
  <2>4. CASE UserAction
    BY <1>1, <2>4 DEF UserAction, Initialize, PlaybackEvent, Quit, LoadCache, SaveCache,
       ClearCache, InvalidateProviderCache, ResetRejectedApiKeyState, InMain, fetcherVars
  <2>5. CASE ProcessEnds \/ Tick \/ (\E a \in ApiKey : TestRefused(a)) \/ UNCHANGED vars
    BY <1>1, <2>5 DEF ProcessEnds, Tick, TestRefused, vars, fetcherVars
  <2> QED
    BY <1>1, <2>2, <2>3, <2>4, <2>5 DEF Next
<1>2. TypeOK /\ Lifecycle /\ [Next]_vars
        => [(mainPc \in {"finalSave", "exited"} /\ mainPc' # "off") => cache' = cache]_vars
  BY <1>1
<1> QED
  BY <1>2, TypeCorrect, LifecycleHolds, PTL DEF Spec, NoCommitAfterFinalSave

-----------------------------------------------------------------------------
(***************************************************************************)
(* The pending request: its key is the key of its request, and the cache   *)
(* has no entry for it.  The first part is what makes the second           *)
(* inductive: a commit compares keys, GetArtUrl compares requests.         *)
(***************************************************************************)
Pending ==
    /\ current # None => current.cacheKey = KeyOf[current.request]
    /\ PendingIsUnknown
    /\ FetchingIsPending

(* GetArtUrl asks for an unknown key only, and sets the status to match. *)
LEMMA UpdateImagePending ==
    ASSUME TypeOK, Pending, mainPc \in Running, NEW w \in Wanted \cup {None}, UpdateImage(w)
    PROVE  Pending'
<1>1. CASE w = None
  BY <1>1 DEF UpdateImage, CancelPendingRequest, Supersede, Pending, PendingIsUnknown,
     FetchingIsPending
<1>2. CASE w # None /\ Candidates(w) # {} /\ workerAvailable
  <2> DEFINE i == First(Candidates(w))
             r == w[i]
  <2>1. w \in Wanted /\ DropStale(w) /\ SetCurrent(r) /\ status' = "Fetching"
    BY <1>2 DEF UpdateImage, GetArtUrl
  <2>2. i \in Scanned(w) /\ r \in Request /\ Unknown(r)
    BY <1>2, <2>1, Scan DEF Candidates, Askable
  <2>3. KeyOf[r] \in CacheKey /\ KeyOf[r] \in ScannedKeys(w)
    BY <2>2, ConstantsAssumption DEF ScannedKeys, Unknown, HasKey
  <2>4. cache'[KeyOf[r]] = None
    BY <2>1, <2>3 DEF DropStale
  <2>5. current' \in PendingRequest /\ current'.request = r /\ current'.cacheKey = KeyOf[r]
    BY <2>1, <2>2, <2>3 DEF SetCurrent, Pending, TypeOK, FetcherTypeOK, PendingRequest
  <2> QED
    BY <2>1, <2>4, <2>5, NoneAssumption DEF Pending, PendingIsUnknown, FetchingIsPending
<1>3. CASE w # None /\ ~(Candidates(w) # {} /\ workerAvailable)
  <2>1. current' = None /\ status' # "Fetching"
    BY <1>3 DEF UpdateImage, GetArtUrl, Supersede
  <2> QED
    BY <2>1 DEF Pending, PendingIsUnknown, FetchingIsPending
<1> QED
  BY <1>2, <1>1, <1>3

(* A commit under the pending key ends the pending request with it. *)
LEMMA WorkerPending == TypeOK /\ Pending /\ (WorkerProgress \/ WorkerFails) => Pending'
<1> SUFFICES ASSUME TypeOK, Pending, WorkerProgress \/ WorkerFails PROVE Pending'
  OBVIOUS
<1>1. UNCHANGED mainPc
  BY DEF WorkerProgress, ObserveChange, TakeWork, LeaveLoop, RefuseFetch, SendFetch, AbortFetch,
     ProviderAnswers, ProviderRefuses, Commit, PostRefresh, WorkerFails, FetchAnswers, workerFrame,
     mainVars
<1>2. CASE WorkerProgress /\ ~Commit
  <2>1. UNCHANGED fetcherVars
    BY <1>2 DEF WorkerProgress, ObserveChange, TakeWork, LeaveLoop, RefuseFetch, SendFetch,
       AbortFetch, ProviderAnswers, ProviderRefuses, PostRefresh, FetchAnswers
  <2> QED
    BY <1>1, <2>1 DEF fetcherVars, Pending, PendingIsUnknown, FetchingIsPending
<1>3. CASE WorkerFails
  BY <1>1, <1>3 DEF WorkerFails, Supersede, Pending, PendingIsUnknown, FetchingIsPending
<1>4. CASE Commit /\ MayPublish
  <2>1. current' = None /\ status' # "Fetching"
    BY <1>4 DEF Commit, PublishedStatus
  <2> QED
    BY <2>1 DEF Pending, PendingIsUnknown, FetchingIsPending
<1>5. CASE Commit /\ ~MayPublish
  <2>1. UNCHANGED <<status, current>>
    BY <1>5 DEF Commit
  <2>2. ASSUME current # None PROVE cache'[current.cacheKey] = None
    <3>1. cache[current.cacheKey] = None /\ current.cacheKey \in CacheKey
      BY <2>2 DEF Pending, PendingIsUnknown, TypeOK, FetcherTypeOK, PendingRequest
    <3>2. CASE MayCommit /\ outcome \in Cacheable
      <4>1. current.cacheKey # work.pending.cacheKey
        BY <1>5, <2>2, <3>2 DEF MayPublish, SatisfiesCurrentCacheKey
      <4>2. StoreResult(work.pending.cacheKey)
        BY <1>5, <3>2 DEF Commit, RecordOutcome
      <4> QED
        BY <3>1, <4>1, <4>2 DEF StoreResult
    <3>3. CASE ~(MayCommit /\ outcome \in Cacheable)
      BY <1>5, <3>1, <3>3 DEF Commit, RecordOutcome, HoldOff
    <3> QED
      BY <3>2, <3>3
  <2> QED
    BY <1>1, <2>1, <2>2 DEF Pending, PendingIsUnknown, FetchingIsPending
<1> QED
  BY <1>2, <1>3, <1>4, <1>5

(* Loading, clearing and invalidating the cache supersede the pending request. *)
LEMMA MainPending == TypeOK /\ Lifecycle /\ Pending /\ (MainProgress \/ UserAction) => Pending'
<1> SUFFICES ASSUME TypeOK, Lifecycle, Pending, MainProgress \/ UserAction PROVE Pending'
  OBVIOUS
<1> USE DEF Pending, PendingIsUnknown, FetchingIsPending, Running
<1>1. CASE RefreshImage \/ ReEvaluateTrack \/ SettingsApplied \/ PlaybackEvent
  <2>1. PICK w \in Wanted \cup {None} : UpdateImage(w)
    BY <1>1 DEF RefreshImage, ReEvaluateTrack, SettingsApplied, PlaybackEvent, TypeOK, MainTypeOK
  <2>2. mainPc \in Running
    BY <1>1 DEF RefreshImage, ReEvaluateTrack, SettingsApplied, PlaybackEvent, InMain
  <2> QED
    BY <2>1, <2>2, UpdateImagePending
<1>2. CASE LoadCache \/ ClearCache \/ \E p \in Provider : InvalidateProviderCache(p)
  <2>1. current' = None /\ status' = "Idle"
    BY <1>2 DEF LoadCache, ClearCache, InvalidateProviderCache, ReplaceCache, Supersede
  <2> QED
    BY <2>1
<1>3. CASE SaveInvalidated \/ SaveCache \/ Quit \/ \E a \in ApiKey : ResetRejectedApiKeyState(a)
  BY <1>3 DEF SaveInvalidated, SaveCache, Quit, ResetRejectedApiKeyState, InMain, fetcherVars
<1>4. CASE StopThread \/ RequestStop \/ JoinWorker \/ FinalSave
  BY <1>4 DEF StopThread, Supersede, RequestStop, JoinWorker, FinalSave, InMain, fetcherVars
<1>5. CASE Initialize
  <2>1. current' = None
    BY <1>5 DEF Initialize, InMain, Lifecycle
  <2>2. status' \in {"Idle", "Failed"}
    BY <1>5, Zenon DEF Initialize
  <2> QED
    BY <2>1, <2>2
<1> QED
  BY <1>1, <1>2, <1>3, <1>4, <1>5 DEF MainProgress, UserAction

(* Every step keeps what is said of the pending request. *)
LEMMA StepPending == TypeOK /\ Lifecycle /\ Pending /\ [Next]_vars => Pending'
<1> SUFFICES ASSUME TypeOK, Lifecycle, Pending, [Next]_vars PROVE Pending'
  OBVIOUS
<1> USE DEF Pending, PendingIsUnknown, FetchingIsPending, Running
<1>1. CASE Tick \/ (\E a \in ApiKey : TestRefused(a)) \/ UNCHANGED vars
  BY <1>1 DEF Tick, TestRefused, vars, fetcherVars, mainVars
<1>2. CASE ProcessEnds
  BY <1>2 DEF ProcessEnds
<1> QED
  BY <1>1, <1>2, WorkerPending, MainPending DEF Next

(* The pending request is unknown to the cache and announced by the status. *)
LEMMA PendingHolds == Spec => []Pending
<1>1. Init => Pending
  BY DEF Init, Pending, PendingIsUnknown, FetchingIsPending, Running
<1>2. TypeOK /\ Lifecycle /\ Pending /\ [Next]_vars => Pending'
  BY StepPending
<1> QED
  BY <1>1, <1>2, TypeCorrect, LifecycleHolds, PTL DEF Spec

(***************************************************************************)
(* A pending request has no cache entry, whatever other requests commit    *)
(* under its key: what the cache answers is never asked again.             *)
(***************************************************************************)
THEOREM PendingRequestsAreUnknown == Spec => []PendingIsUnknown
<1>1. Pending => PendingIsUnknown
  BY DEF Pending
<1> QED
  BY <1>1, PendingHolds, PTL

(***************************************************************************)
(* The status says "fetching" exactly while a request is pending.          *)
(***************************************************************************)
THEOREM FetchingStatusIsTrue == Spec => []FetchingIsPending
<1>1. Pending => FetchingIsPending
  BY DEF Pending
<1> QED
  BY <1>1, PendingHolds, PTL

(***************************************************************************)
(* A pending request has a live worker until the program quits, whether    *)
(* the thread did not start, failed or was stopped.                        *)
(***************************************************************************)
THEOREM PendingRequestsAreServed == Spec => []PendingIsServed
<1>1. Lifecycle => PendingIsServed
  BY DEF Lifecycle, Live, PendingIsServed
<1> QED
  BY <1>1, LifecycleHolds, PTL

-----------------------------------------------------------------------------
(***************************************************************************)
(* The bound on both maps.  The cache file is part of the invariant, since *)
(* LoadCache trusts it to be one that SaveCache wrote.                     *)
(***************************************************************************)
Small(S) == IsFiniteSet(S) /\ Cardinality(S) <= MaxEntries

Bounded ==
    /\ Small(Keys(cache))
    /\ Small(RetryKeys)
    /\ disk # None => Small(Keys(disk))

(* A part of a small set is small. *)
LEMMA SmallSubset ==
    ASSUME NEW S, Small(S), NEW T, T \subseteq S
    PROVE  Small(T)
<1>1. IsFiniteSet(T) /\ Cardinality(T) <= Cardinality(S)
  BY FS_Subset DEF Small
<1>2. Cardinality(S) \in Nat /\ Cardinality(T) \in Nat
  BY <1>1, FS_CardinalityType DEF Small
<1> QED
  BY <1>1, <1>2, ConstantsAssumption DEF Small

(* Inserting a key where there is room, or in place of a victim, keeps the bound. *)
LEMMA SmallInsert ==
    ASSUME NEW S, Small(S), Cardinality(S) < MaxEntries, NEW key, NEW T, T \subseteq S \cup {key}
    PROVE  Small(T)
<1>1. IsFiniteSet(S) /\ Cardinality(S) \in Nat
  BY FS_CardinalityType DEF Small
<1>2. IsFiniteSet(S \cup {key}) /\ Cardinality(S \cup {key}) <= Cardinality(S) + 1
  BY <1>1, FS_AddElement
<1>3. Cardinality(S \cup {key}) \in Nat
  BY <1>2, FS_CardinalityType
<1>4. Small(S \cup {key})
  BY <1>1, <1>2, <1>3, ConstantsAssumption DEF Small
<1> QED
  BY <1>4, SmallSubset

(* A key in the place of a victim keeps the bound. *)
LEMMA SmallReplace ==
    ASSUME NEW S, Small(S), NEW victim \in S, NEW key, NEW T, T \subseteq (S \ {victim}) \cup {key}
    PROVE  Small(T)
<1> DEFINE R == S \ {victim}
<1>1. IsFiniteSet(S) /\ Cardinality(S) \in Nat
  BY FS_CardinalityType DEF Small
<1>2. IsFiniteSet(R) /\ Cardinality(R) = Cardinality(S) - 1
  BY <1>1, FS_RemoveElement
<1>3. Cardinality(R) < MaxEntries /\ Small(R)
  BY <1>1, <1>2, ConstantsAssumption DEF Small
<1> HIDE DEF R
<1>4. T \subseteq R \cup {key}
  BY DEF R
<1> QED
  BY <1>3, <1>4, SmallInsert

(* The maps of a new process are small. *)
LEMMA SmallEmpty == Small(Keys(EmptyCache)) /\ Small({k \in CacheKey : NoRetries[k] # 0})
<1>1. Keys(EmptyCache) = {} /\ {k \in CacheKey : NoRetries[k] # 0} = {}
  BY DEF Keys, EmptyCache, NoRetries
<1>2. Small({})
  BY FS_EmptySet, ConstantsAssumption DEF Small
<1> QED
  BY <1>1, <1>2

(* What LoadCache keeps of a small file is small. *)
LEMMA SmallFresh ==
    ASSUME NEW file, Small(Keys(file))
    PROVE  Small(Keys(FreshOnly(file)))
BY SmallSubset DEF Keys, FreshOnly

(* A commit evicts before it inserts into a full map. *)
LEMMA CommitBounded == TypeOK /\ Bounded /\ Commit => Bounded'
<1> SUFFICES ASSUME TypeOK, Bounded, Commit PROVE Bounded'
  OBVIOUS
<1> DEFINE key == work.pending.cacheKey
<1>1. key \in CacheKey /\ UNCHANGED disk
  BY DEF Commit, workerFrame, TypeOK, WorkerTypeOK, InIteration, WorkItem, PendingRequest
<1>2. CASE StoreResult(key)
  <2>1. PICK victim \in CacheVictims(key) :
           /\ \A k \in CacheKey : k # key => cache'[k] = IF k = victim THEN None ELSE cache[k]
           /\ \A k \in CacheKey : k # key => retryAfter'[k] = retryAfter[k]
           /\ retryAfter'[key] = 0
    BY <1>1, <1>2 DEF StoreResult, TypeOK, FetcherTypeOK
  <2>2. Small(Keys(cache)')
    <3>1. CASE cache[key] # None
      <4>1. Keys(cache)' \subseteq Keys(cache)
        BY <1>1, <2>1, <3>1, NoneAssumption DEF CacheVictims, Keys
      <4> QED
        BY <4>1, SmallSubset DEF Bounded
    <3>2. CASE cache[key] = None /\ Cardinality(Keys(cache)) < MaxEntries
      <4>1. Keys(cache)' \subseteq Keys(cache) \cup {key}
        BY <2>1 DEF Keys
      <4> QED
        BY <3>2, <4>1, SmallInsert DEF Bounded
    <3>3. CASE cache[key] = None /\ ~(Cardinality(Keys(cache)) < MaxEntries)
      <4>1. victim \in Keys(cache) /\ Keys(cache)' \subseteq (Keys(cache) \ {victim}) \cup {key}
        BY <2>1, <3>3 DEF CacheVictims, Keys
      <4> QED
        BY <4>1, SmallReplace DEF Bounded
    <3> QED
      BY <3>1, <3>2, <3>3
  <2>3. Small(RetryKeys')
    <3>1. RetryKeys' \subseteq RetryKeys
      BY <2>1 DEF RetryKeys
    <3> QED
      BY <3>1, SmallSubset DEF Bounded
  <2> QED
    BY <1>1, <2>2, <2>3 DEF Bounded, Keys
<1>3. CASE HoldOff(key)
  <2>1. PICK victim \in RetryVictims(key) :
           \A k \in CacheKey : k # key => retryAfter'[k] = IF k = victim THEN 0 ELSE retryAfter[k]
    BY <1>3 DEF HoldOff
  <2>2. Small(RetryKeys')
    <3>1. CASE retryAfter[key] # 0
      <4>1. RetryKeys' \subseteq RetryKeys
        BY <1>1, <2>1, <3>1, NoneAssumption DEF RetryVictims, RetryKeys
      <4> QED
        BY <4>1, SmallSubset DEF Bounded
    <3>2. CASE retryAfter[key] = 0 /\ Cardinality(RetryKeys) < MaxEntries
      <4>1. RetryKeys' \subseteq RetryKeys \cup {key}
        BY <2>1, <3>2, NoneAssumption DEF RetryVictims, RetryKeys
      <4> QED
        BY <3>2, <4>1, SmallInsert DEF Bounded
    <3>3. CASE retryAfter[key] = 0 /\ ~(Cardinality(RetryKeys) < MaxEntries)
      <4>1. victim \in RetryKeys /\ RetryKeys' \subseteq (RetryKeys \ {victim}) \cup {key}
        BY <2>1, <3>3 DEF RetryVictims, RetryKeys
      <4> QED
        BY <4>1, SmallReplace DEF Bounded
    <3> QED
      BY <3>1, <3>2, <3>3
  <2> QED
    BY <1>1, <1>3, <2>2 DEF HoldOff, Bounded, Keys
<1>4. CASE UNCHANGED <<cache, retryAfter>>
  BY <1>1, <1>4 DEF Bounded, Keys, RetryKeys
<1> QED
  BY <1>2, <1>3, <1>4 DEF Commit, RecordOutcome

(* UpdateImage only drops entries. *)
LEMMA UpdateImageBounded ==
    ASSUME Bounded, NEW w, UpdateImage(w), UNCHANGED disk
    PROVE  Bounded'
<1>1. Keys(cache)' \subseteq Keys(cache) /\ RetryKeys' \subseteq RetryKeys
  BY DEF UpdateImage, CancelPendingRequest, GetArtUrl, DropStale, Keys, RetryKeys
<1>2. Small(Keys(cache)') /\ Small(RetryKeys')
  BY <1>1, SmallSubset DEF Bounded
<1> QED
  BY <1>2 DEF Bounded, Keys

(* A step that changes none of the three, or only saves the cache. *)
LEMMA SavedBounded ==
    ASSUME Bounded, UNCHANGED <<cache, retryAfter>>, disk' \in {cache, disk, None}
    PROVE  Bounded'
BY DEF Bounded, Keys, RetryKeys

(* Loading, clearing and invalidating keep the bound of the maps and of the file. *)
LEMMA ReplaceBounded ==
    ASSUME Bounded, LoadCache \/ ClearCache \/ \E p \in Provider : InvalidateProviderCache(p)
    PROVE  Bounded'
<1>1. CASE LoadCache
  <2>1. disk # None /\ cache' = FreshOnly(disk) /\ retryAfter' = NoRetries /\ UNCHANGED disk
    BY <1>1 DEF LoadCache, ReplaceCache
  <2>2. Small(Keys(cache'))
    BY <2>1, SmallFresh DEF Bounded
  <2> QED
    BY <2>1, <2>2, SmallEmpty DEF Bounded, Keys, RetryKeys
<1>2. CASE ClearCache
  <2>1. disk' = None /\ cache' = EmptyCache /\ retryAfter' = NoRetries
    BY <1>2 DEF ClearCache, ReplaceCache
  <2> QED
    BY <2>1, SmallEmpty DEF Bounded, Keys, RetryKeys
<1>3. ASSUME NEW p \in Provider, InvalidateProviderCache(p) PROVE Bounded'
  <2>1. Keys(cache)' \subseteq Keys(cache) /\ RetryKeys' \subseteq RetryKeys /\ UNCHANGED disk
    BY <1>3 DEF InvalidateProviderCache, ReplaceCache, Keys, RetryKeys
  <2>2. Small(Keys(cache)') /\ Small(RetryKeys')
    BY <2>1, SmallSubset DEF Bounded
  <2> QED
    BY <2>1, <2>2 DEF Bounded, Keys
<1> QED
  BY <1>1, <1>2, <1>3

(* Every step keeps the bound of both maps and of the file. *)
LEMMA StepBounded == TypeOK /\ Bounded /\ [Next]_vars => Bounded'
<1> SUFFICES ASSUME TypeOK, Bounded, [Next]_vars PROVE Bounded'
  OBVIOUS
<1>1. CASE RefreshImage \/ ReEvaluateTrack \/ SettingsApplied \/ PlaybackEvent
  BY <1>1, UpdateImageBounded
  DEF RefreshImage, ReEvaluateTrack, SettingsApplied, PlaybackEvent, mainFrame
<1>2. CASE LoadCache \/ ClearCache \/ \E p \in Provider : InvalidateProviderCache(p)
  BY <1>2, ReplaceBounded
<1>3. CASE Commit
  BY <1>3, CommitBounded
<1>4. CASE Initialize
  <2>1. \/ cache' = cache
        \/ disk # None /\ cache' = FreshOnly(disk)
    BY <1>4, Zenon DEF Initialize
  <2>2. Small(Keys(cache'))
    BY <2>1, SmallFresh DEF Bounded
  <2>3. UNCHANGED <<retryAfter, disk>>
    BY <1>4 DEF Initialize
  <2> QED
    BY <2>2, <2>3 DEF Bounded, Keys, RetryKeys
<1>5. CASE ProcessEnds
  <2>1. cache' = EmptyCache /\ retryAfter' = NoRetries /\ UNCHANGED disk
    BY <1>5 DEF ProcessEnds
  <2> QED
    BY <2>1, SmallEmpty DEF Bounded, Keys, RetryKeys
<1>6. CASE (WorkerProgress /\ ~Commit) \/ WorkerFails \/ Tick
           \/ (\E a \in ApiKey : TestRefused(a)) \/ UNCHANGED vars
  <2>1. UNCHANGED <<cache, retryAfter, disk>>
    BY <1>6 DEF WorkerProgress, ObserveChange, TakeWork, LeaveLoop, RefuseFetch, SendFetch,
       AbortFetch, ProviderAnswers, ProviderRefuses, PostRefresh, FetchAnswers, WorkerFails,
       Tick, TestRefused, vars, fetcherVars, workerFrame
  <2> QED
    BY <2>1, SavedBounded
<1>7. CASE SaveInvalidated \/ SaveCache \/ FinalSave \/ StopThread \/ RequestStop \/ JoinWorker
           \/ Quit \/ \E a \in ApiKey : ResetRejectedApiKeyState(a)
  <2>1. UNCHANGED <<cache, retryAfter>> /\ disk' \in {cache, disk}
    BY <1>7 DEF SaveInvalidated, SaveCache, FinalSave, WriteFile, StopThread, RequestStop,
       JoinWorker, Quit, ResetRejectedApiKeyState, fetcherVars, mainFrame
  <2> QED
    BY <2>1, SavedBounded
<1> QED
  BY <1>1, <1>2, <1>3, <1>4, <1>5, <1>6, <1>7 DEF Next, WorkerProgress, MainProgress, UserAction

(* Both maps and the file are finite and small in every state. *)
LEMMA BoundedHolds == Spec => []Bounded
<1>1. Init => Bounded
  BY SmallEmpty DEF Init, Bounded, RetryKeys
<1>2. TypeOK /\ Bounded /\ [Next]_vars => Bounded'
  BY StepBounded
<1> QED
  BY <1>1, <1>2, TypeCorrect, PTL DEF Spec

(***************************************************************************)
(* Neither the cache nor the retry times outgrow their limit, through      *)
(* commits, evictions, saves, loads, crashes and restarts.                 *)
(***************************************************************************)
THEOREM MapsStayBounded == Spec => []MapsAreBounded
<1>1. Bounded => MapsAreBounded
  BY DEF Bounded, Small, MapsAreBounded
<1> QED
  BY <1>1, BoundedHolds, PTL

-----------------------------------------------------------------------------
(***************************************************************************)
(* What is filed under a key: the answer to a request with that key, and   *)
(* nothing yet for the key of a work item that may still be committed.     *)
(***************************************************************************)
WorkIsUnknown ==
    work # None /\ work.cacheGeneration = cacheGen => cache[work.pending.cacheKey] = None

Filing ==
    /\ work # None => work.pending.cacheKey = KeyOf[work.pending.request]
    /\ WorkIsUnknown
    /\ CachedUrlsAreRight

(* Dropping entries keeps what is filed. *)
LEMMA DropKeepsUrls ==
    ASSUME NEW c, UrlsMatch(c), NEW d, \A k \in CacheKey : d[k] \in {c[k], None}
    PROVE  UrlsMatch(d)
BY DEF UrlsMatch

(* UpdateImage only drops entries. *)
LEMMA UpdateImageDrops ==
    ASSUME TypeOK, NEW w, UpdateImage(w)
    PROVE  \A k \in CacheKey : cache'[k] \in {cache[k], None}
BY DEF UpdateImage, CancelPendingRequest, GetArtUrl, DropStale

(* A commit files the answer under the key of its own request. *)
LEMMA CommitFiling == TypeOK /\ Filing /\ Commit => Filing'
<1> SUFFICES ASSUME TypeOK, Filing, Commit PROVE Filing'
  OBVIOUS
<1>1. work' = None /\ UNCHANGED disk
  BY DEF Commit, EndIteration, workerFrame
<1>2. work \in WorkItem /\ work.pending \in PendingRequest
  BY DEF Commit, TypeOK, WorkerTypeOK, InIteration, WorkItem
<1>3. work # None
  BY DEF Commit, TypeOK, WorkerTypeOK, InIteration
<1>4. UrlsMatch(cache')
  <2>1. CASE StoreResult(work.pending.cacheKey)
    <3> DEFINE key == work.pending.cacheKey
               url == IF outcome = "found" THEN work.pending.request ELSE None
    <3>1. PICK victim : cache' = [k \in CacheKey |->
                 IF k = key THEN [artUrl |-> url, fetchedAt |-> now]
                 ELSE IF k = victim THEN None ELSE cache[k]]
      BY <2>1 DEF StoreResult
    <3>2. url # None => KeyOf[url] = key
      BY <1>3 DEF Filing
    <3> QED
      BY <3>1, <3>2 DEF Filing, CachedUrlsAreRight, UrlsMatch
  <2>2. CASE HoldOff(work.pending.cacheKey) \/ UNCHANGED <<cache, retryAfter>>
    BY <2>2 DEF HoldOff, Filing, CachedUrlsAreRight
  <2> QED
    BY <2>1, <2>2 DEF Commit, RecordOutcome
<1> QED
  BY <1>1, <1>4 DEF Filing, WorkIsUnknown, CachedUrlsAreRight

(* The worker takes a request with its own key, which is unknown. *)
LEMMA WorkerFiling ==
    TypeOK /\ Pending /\ Filing /\ (WorkerProgress \/ WorkerFails) => Filing'
<1> SUFFICES ASSUME TypeOK, Pending, Filing, WorkerProgress \/ WorkerFails PROVE Filing'
  OBVIOUS
<1>1. CASE Commit
  BY <1>1, CommitFiling
<1>2. CASE ~Commit
  <2>1. UNCHANGED <<cache, disk, cacheGen>>
    BY <1>2 DEF WorkerProgress, ObserveChange, TakeWork, LeaveLoop, RefuseFetch, SendFetch,
       AbortFetch, ProviderAnswers, ProviderRefuses, PostRefresh, FetchAnswers, WorkerFails,
       fetcherVars, workerFrame
  <2>2. CachedUrlsAreRight'
    BY <2>1 DEF Filing, CachedUrlsAreRight, UrlsMatch
  <2>3. CASE TakeWork
    <3>1. work' # None => work'.pending = current /\ current # None
      BY <2>3 DEF TakeWork
    <3> QED
      BY <2>1, <2>2, <3>1 DEF Filing, WorkIsUnknown, Pending, PendingIsUnknown
  <2>4. CASE ~TakeWork
    <3>1. work' \in {work, None}
      BY <1>2, <2>4 DEF WorkerProgress, ObserveChange, LeaveLoop, RefuseFetch, SendFetch,
         AbortFetch, ProviderAnswers, ProviderRefuses, PostRefresh, FetchAnswers, WorkerFails,
         EndIteration
    <3> QED
      BY <2>1, <2>2, <3>1 DEF Filing, WorkIsUnknown
  <2> QED
    BY <2>3, <2>4
<1> QED
  BY <1>1, <1>2

(* Loading, clearing and invalidating outdate the work item. *)
LEMMA ReplaceFiling ==
    ASSUME TypeOK, Generations, Filing,
           LoadCache \/ ClearCache \/ \E p \in Provider : InvalidateProviderCache(p)
    PROVE  Filing'
<1>1. UNCHANGED work /\ cacheGen' = cacheGen + 1 /\ disk' \in {disk, None}
  BY DEF LoadCache, ClearCache, InvalidateProviderCache, ReplaceCache, workerVars
<1>2. work # None => work.cacheGeneration # cacheGen'
  BY <1>1 DEF Generations, TypeOK, FetcherTypeOK, WorkerTypeOK, WorkItem
<1>3. UrlsMatch(cache')
  <2>1. CASE LoadCache
    BY <2>1, DropKeepsUrls DEF LoadCache, ReplaceCache, FreshOnly, Filing, CachedUrlsAreRight
  <2>2. CASE ClearCache
    BY <2>2 DEF ClearCache, ReplaceCache, EmptyCache, UrlsMatch
  <2>3. ASSUME NEW p \in Provider, InvalidateProviderCache(p) PROVE UrlsMatch(cache')
    BY <2>3, DropKeepsUrls DEF InvalidateProviderCache, ReplaceCache, Filing, CachedUrlsAreRight
  <2> QED
    BY <2>1, <2>2, <2>3
<1> QED
  BY <1>1, <1>2, <1>3 DEF Filing, WorkIsUnknown, CachedUrlsAreRight

(* Every step keeps what is filed. *)
LEMMA StepFiling ==
    TypeOK /\ Lifecycle /\ Generations /\ Pending /\ Filing /\ [Next]_vars => Filing'
<1> SUFFICES ASSUME TypeOK, Lifecycle, Generations, Pending, Filing, [Next]_vars PROVE Filing'
  OBVIOUS
<1>1. CASE RefreshImage \/ ReEvaluateTrack \/ SettingsApplied \/ PlaybackEvent
  <2>1. PICK w : UpdateImage(w)
    BY <1>1 DEF RefreshImage, ReEvaluateTrack, SettingsApplied, PlaybackEvent
  <2>2. UNCHANGED <<work, disk, cacheGen>>
    BY <1>1, <2>1 DEF RefreshImage, ReEvaluateTrack, SettingsApplied, PlaybackEvent, mainFrame,
       workerVars, UpdateImage, CancelPendingRequest, GetArtUrl
  <2>3. \A k \in CacheKey : cache'[k] \in {cache[k], None}
    BY <2>1, UpdateImageDrops
  <2>4. UrlsMatch(cache')
    BY <2>3, DropKeepsUrls DEF Filing, CachedUrlsAreRight
  <2>5. work # None => work.pending.cacheKey \in CacheKey
    BY DEF TypeOK, WorkerTypeOK, WorkItem, PendingRequest
  <2> QED
    BY <2>2, <2>3, <2>4, <2>5 DEF Filing, WorkIsUnknown, CachedUrlsAreRight
<1>2. CASE LoadCache \/ ClearCache \/ \E p \in Provider : InvalidateProviderCache(p)
  BY <1>2, ReplaceFiling
<1>3. CASE Initialize
  <2>1. work = None /\ UNCHANGED <<work, disk>>
    BY <1>3 DEF Initialize, InMain, Lifecycle, TypeOK, WorkerTypeOK, InIteration
  <2>2. \/ cache' = cache
        \/ disk # None /\ cache' = FreshOnly(disk)
    BY <1>3, Zenon DEF Initialize
  <2>3. UrlsMatch(cache')
    BY <2>2, DropKeepsUrls DEF FreshOnly, Filing, CachedUrlsAreRight
  <2> QED
    BY <2>1, <2>3 DEF Filing, WorkIsUnknown, CachedUrlsAreRight
<1>4. CASE ProcessEnds
  BY <1>4 DEF ProcessEnds, EmptyCache, Filing, WorkIsUnknown, CachedUrlsAreRight, UrlsMatch
<1>5. CASE WorkerProgress \/ WorkerFails
  BY <1>5, WorkerFiling
<1>6. CASE SaveInvalidated \/ SaveCache \/ FinalSave \/ StopThread \/ RequestStop \/ JoinWorker
           \/ Quit \/ (\E a \in ApiKey : ResetRejectedApiKeyState(a)) \/ Tick
           \/ (\E a \in ApiKey : TestRefused(a)) \/ UNCHANGED vars
  <2>1. UNCHANGED <<cache, work, cacheGen>> /\ disk' \in {cache, disk}
    BY <1>6 DEF SaveInvalidated, SaveCache, FinalSave, WriteFile, StopThread, RequestStop,
       JoinWorker, Quit, ResetRejectedApiKeyState, Tick, TestRefused, vars, fetcherVars,
       workerVars, mainFrame
  <2> QED
    BY <2>1 DEF Filing, WorkIsUnknown, CachedUrlsAreRight
<1> QED
  BY <1>1, <1>2, <1>3, <1>4, <1>5, <1>6 DEF Next, MainProgress, UserAction

(* What is filed is right in every state. *)
LEMMA FilingHolds == Spec => []Filing
<1>1. Init => Filing
  BY DEF Init, EmptyCache, Filing, WorkIsUnknown, CachedUrlsAreRight, UrlsMatch
<1>2. TypeOK /\ Lifecycle /\ Generations /\ Pending /\ Filing /\ [Next]_vars => Filing'
  BY StepFiling
<1> QED
  BY <1>1, <1>2, TypeCorrect, LifecycleHolds, GenerationsHold, PendingHolds, PTL DEF Spec

(***************************************************************************)
(* Artwork is cached, saved and loaded under the key it was asked for,     *)
(* however requests supersede each other while a result is on its way.     *)
(***************************************************************************)
THEOREM UrlsStayRight == Spec => []CachedUrlsAreRight
<1>1. Filing => CachedUrlsAreRight
  BY DEF Filing
<1> QED
  BY <1>1, FilingHolds, PTL

-----------------------------------------------------------------------------
(***************************************************************************)
(* At rest: what the steps may change while nothing is queued.             *)
(***************************************************************************)
(* A step re-evaluates the list, commits, fails, starts, leaves the idle state, *)
(* or changes nothing that the status and the chain are about.                  *)
LEMMA QuietSteps ==
    ASSUME TypeOK, Lifecycle, [Next]_vars
    PROVE  \/ /\ \E w \in Wanted \cup {None} : UpdateImage(w)
              /\ UNCHANGED now
           \/ Commit \/ WorkerFails \/ Initialize
           \/ mainPc' # "idle"
           \/ /\ UNCHANGED <<cache, retryAfter, wanted, image, status, current, workerAvailable>>
              /\ NothingQueued' => NothingQueued
<1>1. CASE RefreshImage \/ ReEvaluateTrack \/ SettingsApplied \/ PlaybackEvent
  BY <1>1 DEF RefreshImage, ReEvaluateTrack, SettingsApplied, PlaybackEvent, mainFrame
<1>2. CASE LoadCache \/ ClearCache \/ (\E p \in Provider : InvalidateProviderCache(p))
           \/ SaveInvalidated \/ StopThread \/ RequestStop \/ JoinWorker \/ FinalSave \/ Quit
           \/ ProcessEnds
  BY <1>2 DEF LoadCache, ClearCache, InvalidateProviderCache, SaveInvalidated, StopThread,
     RequestStop, JoinWorker, FinalSave, Quit, ProcessEnds, InMain
<1>3. CASE SaveCache \/ (\E a \in ApiKey : ResetRejectedApiKeyState(a)) \/ Tick
           \/ (\E a \in ApiKey : TestRefused(a)) \/ UNCHANGED vars
  BY <1>3 DEF SaveCache, InMain, ResetRejectedApiKeyState, Tick, TestRefused, vars, fetcherVars,
     workerVars, mainVars, NothingQueued
<1>4. CASE PostRefresh
  <2>1. ~(aborting \/ stopRequested) => posted' # 0
    BY <1>4 DEF PostRefresh, TypeOK, SharedTypeOK
  <2>2. aborting \/ stopRequested => mainPc # "idle"
    BY DEF Lifecycle, Quitting
  <2> QED
    BY <1>4, <2>1, <2>2 DEF PostRefresh, workerFrame, mainVars, fetcherVars, NothingQueued
<1>5. CASE WorkerProgress /\ ~Commit /\ ~PostRefresh
  <2>1. UNCHANGED <<fetcherVars, posted, mainVars>> /\ pc # "post"
    BY <1>5 DEF WorkerProgress, ObserveChange, TakeWork, LeaveLoop, RefuseFetch, SendFetch,
       AbortFetch, ProviderAnswers, ProviderRefuses, FetchAnswers, InWorker, workerFrame
  <2> QED
    BY <2>1 DEF fetcherVars, mainVars, NothingQueued
<1> QED
  BY <1>1, <1>2, <1>3, <1>4, <1>5 DEF Next, WorkerProgress, MainProgress, UserAction

(* GetArtUrl answers with a URL whenever the scan has a hit. *)
LEMMA HitHasUrl ==
    ASSUME NEW reqs \in Wanted, Hits(reqs) # {}
    PROVE  CachedUrl(reqs) # None
<1>1. Hits(reqs) \in SUBSET Nat
  BY ConstantsAssumption DEF Hits
<1>2. First(Hits(reqs)) \in Hits(reqs)
  BY <1>1, FirstIsMember
<1> QED
  BY <1>2 DEF CachedUrl, Hits, IsHit

(***************************************************************************)
(* Once nothing is queued, a resolved status has its artwork on display    *)
(* and a no-match status has none: every commit that publishes one of them *)
(* posts a refresh, and every refresh sets both.                           *)
(***************************************************************************)
THEOREM StatusStaysRight == Spec => []StatusMatchesImage
<1>1. Init => StatusMatchesImage
  BY DEF Init, StatusMatchesImage
<1>2. ASSUME TypeOK, Lifecycle, StatusMatchesImage, [Next]_vars
      PROVE  StatusMatchesImage'
  <2>1. ASSUME NEW w \in Wanted \cup {None}, UpdateImage(w)
        PROVE  StatusMatchesImage'
    <3>1. CASE w = None
      BY <2>1, <3>1 DEF UpdateImage, StatusMatchesImage
    <3>2. CASE w # None
      <4>1. GetArtUrl(w) /\ w \in Wanted
        BY <2>1, <3>2 DEF UpdateImage
      <4>2. /\ status' = "Resolved" => Hits(w) # {}
            /\ status' = "NotFound" => Hits(w) = {}
        BY <4>1, Zenon DEF GetArtUrl
      <4>3. image' = CachedUrl(w) /\ (Hits(w) = {} => CachedUrl(w) = None)
        BY <4>1 DEF GetArtUrl, CachedUrl
      <4> QED
        BY <4>1, <4>2, <4>3, HitHasUrl DEF StatusMatchesImage
    <3> QED
      BY <3>1, <3>2
  <2>2. CASE Commit
    <3>1. CASE MayPublish
      <4>1. status' \in {"Resolved", "NotFound"} => outcome \in Cacheable
        BY <2>2, <3>1 DEF Commit, PublishedStatus, Cacheable
      <4>2. outcome \in Cacheable => pc' = "post"
        BY <2>2, <3>1 DEF Commit, ShouldRefresh
      <4> QED
        BY <4>1, <4>2 DEF StatusMatchesImage, NothingQueued
    <3>2. CASE ~MayPublish
      BY <1>2, <2>2, <3>2 DEF Commit, workerFrame, mainVars, StatusMatchesImage, NothingQueued
    <3> QED
      BY <3>1, <3>2
  <2>3. CASE WorkerFails
    BY <2>3 DEF WorkerFails, StatusMatchesImage
  <2>4. CASE Initialize
    <3>1. status' \in {"Idle", "Failed"}
      BY <2>4, Zenon DEF Initialize
    <3> QED
      BY <3>1 DEF StatusMatchesImage
  <2>5. CASE mainPc' # "idle"
    BY <2>5 DEF StatusMatchesImage, NothingQueued
  <2>6. CASE UNCHANGED <<wanted, image, status>> /\ (NothingQueued' => NothingQueued)
    BY <1>2, <2>6 DEF StatusMatchesImage
  <2> QED
    BY <1>2, <2>1, <2>2, <2>3, <2>4, <2>5, <2>6, QuietSteps
<1>3. TypeOK /\ Lifecycle /\ StatusMatchesImage /\ [Next]_vars => StatusMatchesImage'
  BY <1>2
<1> QED
  BY <1>1, <1>3, TypeCorrect, LifecycleHolds, PTL DEF Spec

(***************************************************************************)
(* The fallback chain.                                                     *)
(***************************************************************************)
(* A new process wants nothing until it is told of a track. *)
OffWantsNothing == mainPc = "off" => wanted = None

(* An evaluation that asks nobody leaves no request untried before a URL: each *)
(* scanned request is known, or is cooling off after a failure.                *)
LEMMA EvaluationExhausts ==
    ASSUME TypeOK, NEW w \in Wanted \cup {None}, UpdateImage(w)
    PROVE  ChainIsExhausted'
<1>0. wanted' = w
  BY DEF UpdateImage
<1> SUFFICES ASSUME current' = None, workerAvailable', w # None, NEW i \in DOMAIN w, Untried(w[i])'
             PROVE  \E j \in DOMAIN w : j < i /\ HoldsUrl(w[j])'
  BY <1>0 DEF ChainIsExhausted, Untried, HoldsUrl
<1>1. w \in Wanted /\ GetArtUrl(w) /\ workerAvailable
  BY DEF UpdateImage, GetArtUrl
<1>2. \A j \in DOMAIN w : j \in Nat /\ w[j] \in Request
  BY <1>1, Scan
<1> DEFINE r == w[i]
           k == KeyOf[r]
<1>3. r \in Request /\ k \in CacheKey /\ r \in Executable /\ ApiKeyOf[r] = None
      /\ cache'[k] = None /\ retryAfter'[k] = 0
  BY <1>1, <1>2, ConstantsAssumption DEF Untried, HasKey, IsTheAudioDb
<1>4. Candidates(w) = {}
  <2>1. SUFFICES ASSUME Candidates(w) # {} PROVE FALSE
    OBVIOUS
  <2>2. SetCurrent(w[First(Candidates(w))])
    BY <1>1, <2>1, Zenon DEF GetArtUrl
  <2>3. w[First(Candidates(w))] \in Request /\ HasKey(w[First(Candidates(w))])
    BY <1>1, <2>1, Scan DEF Candidates, Askable, Unknown
  <2>4. [request |-> w[First(Candidates(w))], cacheKey |-> KeyOf[w[First(Candidates(w))]],
         generation |-> requestGen + 1] \in PendingRequest
    BY <2>3, ConstantsAssumption DEF HasKey, PendingRequest, TypeOK, FetcherTypeOK
  <2> QED
    BY <2>2, <2>4, NoneAssumption DEF SetCurrent
<1>5. i \notin Scanned(w)
  <2> SUFFICES ASSUME i \in Scanned(w) PROVE FALSE
    OBVIOUS
  <2>1. ~Askable(r)
    BY <1>4 DEF Candidates
  <2>2. ~Suppressed(r)
    BY <1>3, NoneAssumption DEF Suppressed, IsApiKeyRejected, IsRateLimited, TypeOK, KeyTypeOK
  <2>3. ~Unknown(r) \/ Cooling(r)
    BY <1>3, <2>1, <2>2 DEF Askable
  <2>4. DropStale(w)
    BY <1>1 DEF GetArtUrl
  <2>5. CASE Unknown(r) /\ Cooling(r)
    <3>1. retryAfter[k] > now
      BY <2>5 DEF Cooling
    <3>2. retryAfter'[k] = retryAfter[k]
      BY <1>3, <2>4, <2>5 DEF DropStale, Cooling
    <3> QED
      BY <1>3, <3>1, <3>2 DEF TypeOK, SharedTypeOK
  <2>6. CASE ~Unknown(r)
    <3>1. Fresh(cache[k]) /\ cache[k] # None
      BY <1>1, <1>3, <2>6, NoneAssumption DEF Unknown, HasKey, Fresh
    <3>2. k \notin ScannedKeys(w)
      BY <3>1 DEF ScannedKeys, Unknown
    <3>3. cache'[k] = cache[k]
      BY <1>3, <2>4, <3>2 DEF DropStale
    <3> QED
      BY <1>3, <3>1, <3>3
  <2> QED
    BY <2>3, <2>5, <2>6
<1>6. PICK j \in Hits(w) : ~(i <= j)
  BY <1>1, <1>5 DEF Scanned
<1>7. j \in DOMAIN w /\ j < i /\ KnownFresh(w[j]) /\ cache[KeyOf[w[j]]].artUrl # None
  BY <1>1, <1>2, <1>6 DEF Hits, IsHit
<1>8. HoldsUrl(w[j])'
  <2>1. KeyOf[w[j]] \in CacheKey /\ KeyOf[w[j]] \notin ScannedKeys(w)
    BY <1>2, <1>7, ConstantsAssumption DEF ScannedKeys, Unknown, KnownFresh, HasKey
  <2>2. cache'[KeyOf[w[j]]] = cache[KeyOf[w[j]]]
    BY <1>1, <2>1 DEF GetArtUrl, DropStale
  <2> QED
    BY <1>7, <2>2 DEF HoldsUrl, KnownFresh, Fresh
<1> QED
  BY <1>7, <1>8

(* Replacing a member by another value keeps the number of members. *)
LEMMA SwapKeepsSize ==
    ASSUME NEW S, IsFiniteSet(S), NEW victim \in S, NEW key, key \notin S
    PROVE  /\ IsFiniteSet((S \ {victim}) \cup {key})
           /\ Cardinality((S \ {victim}) \cup {key}) = Cardinality(S)
<1> DEFINE R == S \ {victim}
<1>1. IsFiniteSet(R) /\ Cardinality(R) = Cardinality(S) - 1 /\ Cardinality(S) \in Nat
  BY FS_RemoveElement, FS_CardinalityType
<1>2. key \notin R
  OBVIOUS
<1> HIDE DEF R
<1>3. IsFiniteSet(R \cup {key}) /\ Cardinality(R \cup {key}) = Cardinality(R) + 1
  BY <1>1, <1>2, FS_AddElement
<1> QED
  BY <1>1, <1>3 DEF R

(* A full map has no room: where there is room after a step, nothing was swapped out. *)
LEMMA NoSwapWithRoom ==
    ASSUME NEW S, IsFiniteSet(S), NEW victim \in S, NEW key, key \notin S,
           NEW T, IsFiniteSet(T), (S \ {victim}) \cup {key} \subseteq T,
           Cardinality(T) < MaxEntries
    PROVE  Cardinality(S) < MaxEntries
<1> DEFINE R == (S \ {victim}) \cup {key}
<1>1. IsFiniteSet(R) /\ Cardinality(R) = Cardinality(S)
  BY SwapKeepsSize
<1> HIDE DEF R
<1>2. R \subseteq T
  BY DEF R
<1>3. Cardinality(R) <= Cardinality(T) /\ Cardinality(R) \in Nat /\ Cardinality(T) \in Nat
  BY <1>1, <1>2, FS_Subset, FS_CardinalityType
<1> QED
  BY <1>1, <1>3, ConstantsAssumption

(* While there is room a commit adds to what is on record and changes no entry. *)
Recorded == Keys(cache) \cup RetryKeys

LEMMA CommitKeepsRecords ==
    ASSUME TypeOK, Filing, Bounded, Commit, HasRoom'
    PROVE  /\ HasRoom /\ Recorded \subseteq Recorded'
           /\ \A k \in CacheKey : cache[k] # None => cache'[k] = cache[k]
<1> DEFINE key == work.pending.cacheKey
<1>1. key \in CacheKey
  BY DEF Commit, TypeOK, WorkerTypeOK, InIteration, WorkItem, PendingRequest
<1>2. /\ IsFiniteSet(Keys(cache)) /\ IsFiniteSet(RetryKeys)
      /\ IsFiniteSet(Recorded') /\ Cardinality(Recorded') < MaxEntries
  <2>1. Bounded'
    BY CommitBounded
  <2>2. IsFiniteSet(Keys(cache)') /\ IsFiniteSet(RetryKeys')
    BY <2>1 DEF Bounded, Small
  <2>3. IsFiniteSet(Recorded')
    BY <2>2, FS_Union DEF Recorded
  <2> QED
    BY <2>3 DEF Bounded, Small, HasRoom, Recorded
<1>3. /\ Recorded \subseteq Recorded'
      /\ \A k \in CacheKey : cache[k] # None => cache'[k] = cache[k]
  <2>1. CASE MayCommit /\ StoreResult(key)
    <3>1. cache[key] = None
      BY <2>1 DEF MayCommit, Filing, WorkIsUnknown, Commit, TypeOK, WorkerTypeOK, InIteration
    <3>2. PICK victim \in CacheVictims(key) :
             /\ \A k \in CacheKey : k # key => cache'[k] = IF k = victim THEN None ELSE cache[k]
             /\ cache'[key] # None
             /\ \A k \in CacheKey : k # key => retryAfter'[k] = retryAfter[k]
      BY <1>1, <2>1, NoneAssumption
      DEF StoreResult, TypeOK, FetcherTypeOK, WorkerTypeOK, SharedTypeOK, WorkItem, PendingRequest,
          CacheEntry, Commit, InIteration
    <3>3. victim = None
      <4> SUFFICES ASSUME victim # None PROVE FALSE
        OBVIOUS
      <4>1. /\ victim \in Keys(cache) /\ key \notin Keys(cache)
            /\ ~(Cardinality(Keys(cache)) < MaxEntries)
        BY <3>1, <3>2 DEF CacheVictims, Keys
      <4>2. (Keys(cache) \ {victim}) \cup {key} \subseteq Recorded'
        BY <1>1, <3>2 DEF Keys, Recorded
      <4> QED
        BY <1>2, <4>1, <4>2, NoSwapWithRoom
    <3>4. \A k \in CacheKey : k # key => cache'[k] = cache[k]
      BY <3>2, <3>3, NoneAssumption
    <3> QED
      BY <1>1, <3>1, <3>2, <3>4 DEF Recorded, Keys, RetryKeys
  <2>2. CASE HoldOff(key)
    <3>1. PICK victim \in RetryVictims(key) :
             /\ \A k \in CacheKey : k # key
                   => retryAfter'[k] = IF k = victim THEN 0 ELSE retryAfter[k]
             /\ retryAfter'[key] # 0 /\ UNCHANGED cache
      BY <1>1, <2>2, ConstantsAssumption DEF HoldOff, TypeOK, SharedTypeOK
    <3>2. victim = None
      <4> SUFFICES ASSUME victim # None PROVE FALSE
        OBVIOUS
      <4>1. /\ victim \in RetryKeys /\ key \notin RetryKeys
            /\ ~(Cardinality(RetryKeys) < MaxEntries)
        BY <3>1 DEF RetryVictims, RetryKeys
      <4>2. (RetryKeys \ {victim}) \cup {key} \subseteq Recorded'
        BY <1>1, <3>1 DEF RetryKeys, Recorded
      <4> QED
        BY <1>2, <4>1, <4>2, NoSwapWithRoom
    <3> QED
      BY <1>1, <3>1, <3>2, NoneAssumption DEF Recorded, Keys, RetryKeys
  <2>3. CASE UNCHANGED <<cache, retryAfter>>
    BY <2>3 DEF Recorded, Keys, RetryKeys
  <2> QED
    BY <2>1, <2>2, <2>3 DEF Commit, RecordOutcome
<1>4. HasRoom
  <2>1. Cardinality(Recorded) <= Cardinality(Recorded')
    BY <1>2, <1>3, FS_Subset
  <2>2. IsFiniteSet(Recorded) /\ Cardinality(Recorded) \in Nat /\ Cardinality(Recorded') \in Nat
    BY <1>2, <1>3, FS_Subset, FS_CardinalityType
  <2> QED
    BY <1>2, <2>1, <2>2, ConstantsAssumption DEF HasRoom, Recorded
<1> QED
  BY <1>3, <1>4

(* A commit that refreshes nothing leaves the chain as it was: its result is of *)
(* a superseded request, and it only adds to what is on record.                 *)
LEMMA CommitExhausts ==
    ASSUME TypeOK, Generations, Filing, Bounded, ChainIsExhausted, Commit
    PROVE  ChainIsExhausted'
<1>1. UNCHANGED <<wanted, mainPc, posted, workerAvailable>>
  BY DEF Commit, workerFrame, mainVars
<1> SUFFICES ASSUME NothingQueued', current' = None, workerAvailable', wanted # None, HasRoom',
                    NEW i \in DOMAIN wanted, Untried(wanted[i])'
             PROVE  \E j \in DOMAIN wanted : j < i /\ HoldsUrl(wanted[j])'
  BY <1>1 DEF ChainIsExhausted, Untried, HoldsUrl
<1>2. ~ShouldRefresh
  BY DEF Commit, NothingQueued
<1>3. ~MayPublish
  <2> SUFFICES ASSUME MayPublish PROVE FALSE
    OBVIOUS
  <2>1. outcome = "aborted"
    BY <1>2 DEF ShouldRefresh, Cacheable, WithMessage, TypeOK, WorkerTypeOK, Outcome
  <2> QED
    BY <2>1 DEF MayPublish, MayCommit, MatchesCurrentGeneration, SatisfiesCurrentCacheKey,
       Cacheable, Generations, RequestIsCurrent, Commit
<1>4. current = None /\ NothingQueued
  BY <1>1, <1>3 DEF Commit, NothingQueued
<1>5. /\ HasRoom /\ Recorded \subseteq Recorded'
      /\ \A k \in CacheKey : cache[k] # None => cache'[k] = cache[k]
  BY CommitKeepsRecords
<1>6. \A j \in DOMAIN wanted : wanted[j] \in Request
  BY Scan DEF TypeOK, MainTypeOK
<1>7. Untried(wanted[i])
  <2>1. KeyOf[wanted[i]] \in CacheKey
    BY <1>1, <1>6, ConstantsAssumption DEF Untried, HasKey
  <2> QED
    BY <1>1, <1>5, <2>1 DEF Untried, Recorded, Keys, RetryKeys
<1>8. PICK j \in DOMAIN wanted : j < i /\ HoldsUrl(wanted[j])
  BY <1>1, <1>4, <1>5, <1>7 DEF ChainIsExhausted
<1>9. HoldsUrl(wanted[j])'
  <2>1. KeyOf[wanted[j]] \in CacheKey
    BY <1>6, <1>8, ConstantsAssumption DEF HoldsUrl, HasKey
  <2> QED
    BY <1>1, <1>5, <1>8, <2>1 DEF HoldsUrl
<1> QED
  BY <1>8, <1>9

(* A process that is off wants nothing. *)
LEMMA StepOff == TypeOK /\ Lifecycle /\ OffWantsNothing /\ [Next]_vars => OffWantsNothing'
<1> SUFFICES ASSUME TypeOK, Lifecycle, OffWantsNothing, [Next]_vars, mainPc' = "off"
             PROVE  wanted' = None
  BY DEF OffWantsNothing
<1>1. CASE WorkerProgress \/ WorkerFails \/ Tick \/ (\E a \in ApiKey : TestRefused(a))
           \/ UNCHANGED vars
  BY <1>1 DEF WorkerProgress, ObserveChange, TakeWork, LeaveLoop, RefuseFetch, SendFetch,
     AbortFetch, ProviderAnswers, ProviderRefuses, Commit, PostRefresh, WorkerFails, FetchAnswers,
     Tick, TestRefused, vars, workerFrame, mainVars, OffWantsNothing
<1>2. CASE MainProgress \/ UserAction
  BY <1>2 DEF MainProgress, RefreshImage, ReEvaluateTrack, SettingsApplied, SaveInvalidated,
     StopThread, RequestStop, JoinWorker, FinalSave, UserAction, Initialize, PlaybackEvent, Quit,
     LoadCache, SaveCache, ClearCache, InvalidateProviderCache, ResetRejectedApiKeyState, InMain
<1>3. CASE ProcessEnds
  BY <1>3 DEF ProcessEnds
<1> QED
  BY <1>1, <1>2, <1>3 DEF Next

(* Every step keeps the chain exhausted. *)
LEMMA StepChain ==
    ASSUME TypeOK, Lifecycle, Generations, Filing, Bounded, OffWantsNothing, ChainIsExhausted,
           [Next]_vars
    PROVE  ChainIsExhausted'
<1>1. CASE \E w \in Wanted \cup {None} : UpdateImage(w)
  BY <1>1, EvaluationExhausts
<1>2. CASE Commit
  BY <1>2, CommitExhausts
<1>3. CASE WorkerFails
  BY <1>3 DEF WorkerFails, ChainIsExhausted
<1>4. CASE Initialize
  BY <1>4 DEF Initialize, InMain, OffWantsNothing, ChainIsExhausted
<1>5. CASE mainPc' # "idle"
  BY <1>5 DEF ChainIsExhausted, NothingQueued
<1>6. CASE /\ UNCHANGED <<cache, retryAfter, wanted, current, workerAvailable>>
           /\ NothingQueued' => NothingQueued
  BY <1>6 DEF ChainIsExhausted, HasRoom, Keys, RetryKeys, Untried, HoldsUrl
<1> QED
  BY <1>1, <1>2, <1>3, <1>4, <1>5, <1>6, QuietSteps

(***************************************************************************)
(* The fallback chain ends only after its last member: at rest, every      *)
(* request of the list that precedes a cached URL was tried, as long as    *)
(* nothing had to be evicted.                                              *)
(***************************************************************************)
THEOREM ChainStaysExhausted == Spec => []ChainIsExhausted
<1>1. Init => OffWantsNothing /\ ChainIsExhausted
  BY DEF Init, OffWantsNothing, ChainIsExhausted
<1>2. TypeOK /\ Lifecycle /\ Generations /\ Filing /\ Bounded /\ OffWantsNothing
        /\ ChainIsExhausted /\ [Next]_vars => (OffWantsNothing /\ ChainIsExhausted)'
  BY StepOff, StepChain
<1> QED
  BY <1>1, <1>2, TypeCorrect, LifecycleHolds, GenerationsHold, FilingHolds, BoundedHolds, PTL
  DEF Spec
=============================================================================

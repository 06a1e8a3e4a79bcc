------------------------ MODULE PresenceArtworkProofs ------------------------
(***************************************************************************)
(* The theorems of the presence and the fetcher together, for every value  *)
(* of the constants.  Both modules are implemented step for step, so that  *)
(* their own theorems hold of the composition.  What is left to show is    *)
(* where they meet: a step that asks the fetcher for artwork shows its     *)
(* answer, unless it rolls the change back and postpones it, and every     *)
(* other step is quiet: it changes nothing of what was asked and shown.    *)
(*                                                                         *)
(* FP and PP bring the theorems of F and P here.  The provers take the     *)
(* definitions of two instances for different ones, so the first lemmas    *)
(* say that they are the same.                                             *)
(***************************************************************************)
EXTENDS PresenceArtwork, TLAPS

(* The two modules with their theorems, instantiated as F and P are. *)
FP == INSTANCE ArtworkFetcherSafetyProofs WITH
        Provider <- {}, ApiKey <- {}, ProviderOf <- [k \in CacheKey |-> None],
        ApiKeyOf <- [r \in Request |-> None], Executable <- Request,
        PositiveLifetime <- 1, NegativeLifetime <- 1, MaxTime <- 1
PP == INSTANCE DiscordPresenceProofs WITH MaxPosted <- 0, aborting <- mainPc = "exited"

LEMMA SameCommit == F!Commit => FP!Commit
  <1>1. ASSUME NEW key, F!StoreResult(key) PROVE FP!StoreResult(key)
    <2>1. F!CacheVictims(key) = FP!CacheVictims(key)
      BY Zenon DEF F!Cardinality, FP!Cardinality, F!Keys, FP!Keys, F!CacheVictims, FP!CacheVictims
    <2> QED BY <1>1, <2>1, Zenon DEF F!StoreResult, FP!StoreResult
  <1>2. ASSUME NEW key, F!HoldOff(key) PROVE FP!HoldOff(key)
    <2>1. F!RetryVictims(key) = FP!RetryVictims(key)
      BY Zenon DEF F!Cardinality, FP!Cardinality, F!RetryKeys, FP!RetryKeys, F!RetryVictims,
         FP!RetryVictims
    <2> QED BY <1>2, <2>1, Zenon DEF F!HoldOff, FP!HoldOff
  <1>3. F!RecordOutcome => FP!RecordOutcome
    BY <1>1, <1>2, Zenon DEF F!RecordOutcome, FP!RecordOutcome, F!MayCommit, FP!MayCommit,
       F!Cacheable, FP!Cacheable
  <1>4. F!MayPublish = FP!MayPublish
    BY Zenon DEF
      F!Cacheable, FP!Cacheable, F!MayCommit, FP!MayCommit, F!MatchesCurrentGeneration,
      FP!MatchesCurrentGeneration, F!SatisfiesCurrentCacheKey, FP!SatisfiesCurrentCacheKey,
      F!MayPublish, FP!MayPublish
  <1>5. F!ShouldRefresh = FP!ShouldRefresh
    BY Zenon DEF
      F!Cacheable, FP!Cacheable, F!WithMessage, FP!WithMessage, F!MayCommit, FP!MayCommit,
      F!MatchesCurrentGeneration, FP!MatchesCurrentGeneration, F!SatisfiesCurrentCacheKey,
      FP!SatisfiesCurrentCacheKey, F!MayPublish, FP!MayPublish, F!ShouldRefresh,
      FP!ShouldRefresh
  <1>6. F!PublishedStatus = FP!PublishedStatus
    BY Zenon DEF
      F!PublishedStatus, FP!PublishedStatus
  <1>7. F!EndIteration = FP!EndIteration
    BY Zenon DEF
      F!EndIteration, FP!EndIteration
  <1> QED BY <1>3, <1>4, <1>5, <1>6, <1>7, Zenon DEF
      F!Commit, FP!Commit, F!workerFrame, FP!workerFrame, F!keyVars, FP!keyVars, F!mainVars,
      FP!mainVars

LEMMA SameFetcher == F!Spec => FP!Spec
  <1>0. UNCHANGED F!vars => UNCHANGED FP!vars
    BY Zenon DEF F!vars, FP!vars, F!fetcherVars, FP!fetcherVars, F!workerVars, FP!workerVars,
       F!keyVars, FP!keyVars, F!mainVars, FP!mainVars
  <1> USE DEF
      F!fetcherVars, FP!fetcherVars, F!workerVars, FP!workerVars, F!keyVars, FP!keyVars,
      F!mainVars, FP!mainVars, F!EmptyCache, FP!EmptyCache, F!NoRetries, FP!NoRetries,
      F!NoLimits, FP!NoLimits, F!Init, FP!Init, F!IsCacheEntryFresh, FP!IsCacheEntryFresh,
      F!Lifetime, FP!Lifetime, F!Fresh, FP!Fresh, F!Keys, FP!Keys, F!IsApiKeyRejected,
      FP!IsApiKeyRejected, F!IsRateLimited, FP!IsRateLimited, F!Supersede, FP!Supersede,
      F!First, FP!First, F!HasKey, FP!HasKey, F!KnownFresh, FP!KnownFresh, F!IsHit, FP!IsHit,
      F!Unknown, FP!Unknown, F!Suppressed, FP!Suppressed, F!Cooling, FP!Cooling, F!Askable,
      FP!Askable, F!Blocked, FP!Blocked, F!Hits, FP!Hits, F!Scanned, FP!Scanned, F!Candidates,
      FP!Candidates, F!ScannedKeys, FP!ScannedKeys, F!CachedUrl, FP!CachedUrl, F!DropStale,
      FP!DropStale, F!SetCurrent, FP!SetCurrent, F!GetArtUrl, FP!GetArtUrl,
      F!CancelPendingRequest, FP!CancelPendingRequest, F!UpdateImage, FP!UpdateImage, F!InMain,
      FP!InMain, F!mainFrame, FP!mainFrame, F!PlaybackEvent, FP!PlaybackEvent, F!RefreshImage,
      FP!RefreshImage, F!ReEvaluateTrack, FP!ReEvaluateTrack, F!SettingsApplied,
      FP!SettingsApplied, F!ReplaceCache, FP!ReplaceCache, F!FreshOnly, FP!FreshOnly,
      F!LoadCache, FP!LoadCache, F!WriteFile, FP!WriteFile, F!SaveCache, FP!SaveCache,
      F!ClearCache, FP!ClearCache, F!InvalidateProviderCache, FP!InvalidateProviderCache,
      F!SaveInvalidated, FP!SaveInvalidated, F!ResetRejectedApiKeyState,
      FP!ResetRejectedApiKeyState, F!Initialize, FP!Initialize, F!Quit, FP!Quit, F!StopThread,
      FP!StopThread, F!RequestStop, FP!RequestStop, F!JoinWorker, FP!JoinWorker, F!FinalSave,
      FP!FinalSave, F!InWorker, FP!InWorker, F!workerFrame, FP!workerFrame, F!EndIteration,
      FP!EndIteration, F!ObserveChange, FP!ObserveChange, F!TakeWork, FP!TakeWork, F!LeaveLoop,
      FP!LeaveLoop, F!IsTheAudioDb, FP!IsTheAudioDb, F!RequestIsCurrent, FP!RequestIsCurrent,
      F!AfterFetch, FP!AfterFetch, F!FetchAnswers, FP!FetchAnswers, F!RefuseFetch,
      FP!RefuseFetch, F!SendFetch, FP!SendFetch, F!AbortFetch, FP!AbortFetch,
      F!ProviderAnswers, FP!ProviderAnswers, F!MarkKey, FP!MarkKey, F!ProviderRefuses,
      FP!ProviderRefuses, F!PostRefresh, FP!PostRefresh, F!WorkerFails, FP!WorkerFails,
      F!TestRefused, FP!TestRefused, F!ProcessEnds, FP!ProcessEnds, F!Tick, FP!Tick
  <1>1. F!Init => FP!Init
    BY Zenon
  <1>2. F!WorkerFails => FP!WorkerFails
    BY Zenon
  <1>3. F!ProcessEnds => FP!ProcessEnds
    BY Zenon
  <1>4. F!Tick => FP!Tick
    BY Zenon
  <1>5. ASSUME NEW p PROVE F!InvalidateProviderCache(p) => FP!InvalidateProviderCache(p)
    BY Zenon
  <1>6. ASSUME NEW a PROVE F!ResetRejectedApiKeyState(a) => FP!ResetRejectedApiKeyState(a)
    BY Zenon
  <1>7. ASSUME NEW a PROVE F!TestRefused(a) => FP!TestRefused(a)
    BY Zenon
  <1>8. F!RefreshImage => FP!RefreshImage
    BY Zenon
  <1>9. F!ReEvaluateTrack => FP!ReEvaluateTrack
    BY Zenon
  <1>10. F!SettingsApplied => FP!SettingsApplied
    BY Zenon
  <1>11. F!SaveInvalidated => FP!SaveInvalidated
    BY Zenon
  <1>12. F!StopThread => FP!StopThread
    BY Zenon
  <1>13. F!RequestStop => FP!RequestStop
    BY Zenon
  <1>14. F!JoinWorker => FP!JoinWorker
    BY Zenon
  <1>15. F!FinalSave => FP!FinalSave
    BY Zenon
  <1>16. F!Initialize => FP!Initialize
    BY Zenon
  <1>17. F!PlaybackEvent => FP!PlaybackEvent
    BY Zenon
  <1>18. F!Quit => FP!Quit
    BY Zenon
  <1>19. F!LoadCache => FP!LoadCache
    BY Zenon
  <1>20. F!SaveCache => FP!SaveCache
    BY Zenon
  <1>21. F!ClearCache => FP!ClearCache
    BY Zenon
  <1>22. F!ObserveChange => FP!ObserveChange
    BY Zenon
  <1>23. F!TakeWork => FP!TakeWork
    BY Zenon
  <1>24. F!LeaveLoop => FP!LeaveLoop
    BY Zenon
  <1>25. F!RefuseFetch => FP!RefuseFetch
    BY Zenon
  <1>26. F!SendFetch => FP!SendFetch
    BY Zenon
  <1>27. F!AbortFetch => FP!AbortFetch
    BY Zenon
  <1>28. F!ProviderAnswers => FP!ProviderAnswers
    BY Zenon
  <1>29. F!ProviderRefuses => FP!ProviderRefuses
    BY Zenon
  <1>30. F!PostRefresh => FP!PostRefresh
    BY Zenon
  <1> HIDE DEF
      F!fetcherVars, FP!fetcherVars, F!workerVars, FP!workerVars, F!keyVars, FP!keyVars,
      F!mainVars, FP!mainVars, F!EmptyCache, FP!EmptyCache, F!NoRetries, FP!NoRetries,
      F!NoLimits, FP!NoLimits, F!Init, FP!Init, F!IsCacheEntryFresh, FP!IsCacheEntryFresh,
      F!Lifetime, FP!Lifetime, F!Fresh, FP!Fresh, F!Keys, FP!Keys, F!IsApiKeyRejected,
      FP!IsApiKeyRejected, F!IsRateLimited, FP!IsRateLimited, F!Supersede, FP!Supersede,
      F!First, FP!First, F!HasKey, FP!HasKey, F!KnownFresh, FP!KnownFresh, F!IsHit, FP!IsHit,
      F!Unknown, FP!Unknown, F!Suppressed, FP!Suppressed, F!Cooling, FP!Cooling, F!Askable,
      FP!Askable, F!Blocked, FP!Blocked, F!Hits, FP!Hits, F!Scanned, FP!Scanned, F!Candidates,
      FP!Candidates, F!ScannedKeys, FP!ScannedKeys, F!CachedUrl, FP!CachedUrl, F!DropStale,
      FP!DropStale, F!SetCurrent, FP!SetCurrent, F!GetArtUrl, FP!GetArtUrl,
      F!CancelPendingRequest, FP!CancelPendingRequest, F!UpdateImage, FP!UpdateImage, F!InMain,
      FP!InMain, F!mainFrame, FP!mainFrame, F!PlaybackEvent, FP!PlaybackEvent, F!RefreshImage,
      FP!RefreshImage, F!ReEvaluateTrack, FP!ReEvaluateTrack, F!SettingsApplied,
      FP!SettingsApplied, F!ReplaceCache, FP!ReplaceCache, F!FreshOnly, FP!FreshOnly,
      F!LoadCache, FP!LoadCache, F!WriteFile, FP!WriteFile, F!SaveCache, FP!SaveCache,
      F!ClearCache, FP!ClearCache, F!InvalidateProviderCache, FP!InvalidateProviderCache,
      F!SaveInvalidated, FP!SaveInvalidated, F!ResetRejectedApiKeyState,
      FP!ResetRejectedApiKeyState, F!Initialize, FP!Initialize, F!Quit, FP!Quit, F!StopThread,
      FP!StopThread, F!RequestStop, FP!RequestStop, F!JoinWorker, FP!JoinWorker, F!FinalSave,
      FP!FinalSave, F!InWorker, FP!InWorker, F!workerFrame, FP!workerFrame, F!EndIteration,
      FP!EndIteration, F!ObserveChange, FP!ObserveChange, F!TakeWork, FP!TakeWork, F!LeaveLoop,
      FP!LeaveLoop, F!IsTheAudioDb, FP!IsTheAudioDb, F!RequestIsCurrent, FP!RequestIsCurrent,
      F!AfterFetch, FP!AfterFetch, F!FetchAnswers, FP!FetchAnswers, F!RefuseFetch,
      FP!RefuseFetch, F!SendFetch, FP!SendFetch, F!AbortFetch, FP!AbortFetch,
      F!ProviderAnswers, FP!ProviderAnswers, F!MarkKey, FP!MarkKey, F!ProviderRefuses,
      FP!ProviderRefuses, F!PostRefresh, FP!PostRefresh, F!WorkerFails, FP!WorkerFails,
      F!TestRefused, FP!TestRefused, F!ProcessEnds, FP!ProcessEnds, F!Tick, FP!Tick
  <1>31. F!WorkerProgress => FP!WorkerProgress
    BY <1>22, <1>23, <1>24, <1>25, <1>26, <1>27, <1>28, <1>29, <1>30, SameCommit DEF
       F!WorkerProgress, FP!WorkerProgress
  <1>32. F!MainProgress => FP!MainProgress
    BY <1>8, <1>9, <1>10, <1>11, <1>12, <1>13, <1>14, <1>15 DEF F!MainProgress, FP!MainProgress
  <1>33. F!UserAction => FP!UserAction
    BY <1>16, <1>17, <1>18, <1>19, <1>20, <1>21, <1>5, <1>6 DEF F!UserAction, FP!UserAction
  <1>34. [F!Next]_(F!vars) => [FP!Next]_(FP!vars)
    BY <1>0, <1>2, <1>3, <1>4, <1>7, <1>31, <1>32, <1>33 DEF F!Next, FP!Next
  <1> QED BY <1>1, <1>34, PTL DEF F!Spec, FP!Spec

LEMMA SameClosed ==
  ASSUME NEW a, NEW pd, NEW isDisabled, NEW p, NEW c
  PROVE  P!Closed(a, pd, isDisabled, p, c) = PP!Closed(a, pd, isDisabled, p, c)
  BY Zenon DEF
      P!View, PP!View, P!HasChanged, PP!HasChanged, P!RunCallbacks, PP!RunCallbacks,
      P!ClearPresence, PP!ClearPresence, P!SendPresence, PP!SendPresence,
      P!SuppressedWhenPaused, PP!SuppressedWhenPaused, P!Closed, PP!Closed

LEMMA SameInitialized ==
  ASSUME NEW a, NEW i, NEW p, NEW c
  PROVE  P!Initialized(a, i, p, c) = PP!Initialized(a, i, p, c)
  <1>1. ASSUME NEW x PROVE P!RunCallbacks(x) = PP!RunCallbacks(x)
    BY Zenon DEF P!RunCallbacks, PP!RunCallbacks
  <1>2. ASSUME NEW x PROVE P!ScheduleCallbackPump(x) = PP!ScheduleCallbackPump(x)
    BY Zenon DEF P!ScheduleCallbackPump, PP!ScheduleCallbackPump
  <1>3. ASSUME NEW pd PROVE P!UpdatedImage(pd, i) = PP!UpdatedImage(pd, i)
    BY Zenon DEF P!UpdatedImage, PP!UpdatedImage
  <1> QED BY <1>1, <1>2, <1>3, SameClosed, Zenon DEF P!Initialized, PP!Initialized

LEMMA SameSettings ==
  ASSUME NEW a, NEW i, NEW epoch, NEW p, NEW c
  PROVE  P!SettingsChanged(a, i, epoch, p, c) = PP!SettingsChanged(a, i, epoch, p, c)
  <1>1. P!Finalized(a) = PP!Finalized(a)
    BY Zenon DEF P!Finalized, PP!Finalized
  <1>2. ASSUME NEW pd PROVE P!UpdatedSmallImage(pd, p) = PP!UpdatedSmallImage(pd, p)
    BY Zenon DEF P!UpdatedSmallImage, PP!UpdatedSmallImage
  <1>3. ASSUME NEW pd, NEW track
        PROVE  P!UpdatedTrack(pd, p, track, i, epoch) = PP!UpdatedTrack(pd, p, track, i, epoch)
    BY Zenon DEF P!TextFor, PP!TextFor, P!LengthFor, PP!LengthFor, P!UpdatedDuration,
       PP!UpdatedDuration, P!UpdatedTrack, PP!UpdatedTrack
  <1> QED BY <1>1, <1>2, <1>3, SameInitialized, SameClosed
      DEF P!SettingsChanged, PP!SettingsChanged

LEMMA SamePresence == P!Spec => PP!Spec
  <1>0. (UNCHANGED P!vars => UNCHANGED PP!vars) /\ P!Generation = PP!Generation
    BY Zenon DEF P!vars, PP!vars, P!callbackVars, PP!callbackVars, P!Generation, PP!Generation
  <1>1. P!Init => PP!Init
    BY SameInitialized, Zenon DEF P!Init, PP!Init, P!EmptyData, PP!EmptyData, P!Generation,
       PP!Generation
  <1>2. ASSUME NEW i PROVE P!OnSettingsChanged(i) => PP!OnSettingsChanged(i)
    BY SameSettings, Zenon DEF P!OnSettingsChanged, PP!OnSettingsChanged, P!callbackVars,
       PP!callbackVars, P!PositionEpochs, PP!PositionEpochs
  <1> USE DEF
      P!callbackVars, PP!callbackVars, P!View, PP!View, P!HasChanged, PP!HasChanged, P!TextFor,
      PP!TextFor, P!LengthFor, PP!LengthFor, P!PositionEpochs, PP!PositionEpochs,
      P!UpdatedDuration, PP!UpdatedDuration, P!UpdatedSmallImage, PP!UpdatedSmallImage,
      P!UpdatedImage, PP!UpdatedImage, P!UpdatedTrack, PP!UpdatedTrack, P!RunCallbacks,
      PP!RunCallbacks, P!ClearPresence, PP!ClearPresence, P!SendPresence, PP!SendPresence,
      P!SuppressedWhenPaused, PP!SuppressedWhenPaused, P!Closed, PP!Closed,
      P!ScheduleCallbackPump, PP!ScheduleCallbackPump, P!Finalized, PP!Finalized,
      P!UpdateTrackNow, PP!UpdateTrackNow, P!PlaybackChanged, PP!PlaybackChanged,
      P!OnPlaybackNewTrack, PP!OnPlaybackNewTrack, P!OnPlaybackStop, PP!OnPlaybackStop,
      P!OnPlaybackSeek, PP!OnPlaybackSeek, P!OnPlaybackPause, PP!OnPlaybackPause,
      P!OnPlaybackResume, PP!OnPlaybackResume, P!OnPlaybackEdited, PP!OnPlaybackEdited,
      P!OnPlaybackDynamicInfoTrack, PP!OnPlaybackDynamicInfoTrack,
      P!ScheduleDynamicTrackUpdate, PP!ScheduleDynamicTrackUpdate, P!OnPlaybackDynamicInfo,
      PP!OnPlaybackDynamicInfo, P!DynamicUpdateTimer, PP!DynamicUpdateTimer, P!OnPlaybackTime,
      PP!OnPlaybackTime, P!RefreshImage, PP!RefreshImage, P!PumpCallbacks, PP!PumpCallbacks,
      P!ReadyCallback, PP!ReadyCallback, P!Quit, PP!Quit, P!DiscordConnects,
      PP!DiscordConnects, P!DiscordDisconnects, PP!DiscordDisconnects, P!DiscordReceives,
      PP!DiscordReceives, P!PlaybackEvent, PP!PlaybackEvent
  <1>3. P!OnPlaybackStop => PP!OnPlaybackStop
    BY Zenon
  <1>4. P!OnPlaybackSeek => PP!OnPlaybackSeek
    BY Zenon
  <1>5. P!OnPlaybackResume => PP!OnPlaybackResume
    BY Zenon
  <1>6. P!Quit => PP!Quit
    BY Zenon
  <1>7. ASSUME NEW i PROVE P!PlaybackEvent(i) => PP!PlaybackEvent(i)
    BY Zenon
  <1>8. ASSUME NEW i PROVE P!OnPlaybackTime(i) => PP!OnPlaybackTime(i)
    BY Zenon
  <1>9. ASSUME NEW i PROVE P!DynamicUpdateTimer(i) => PP!DynamicUpdateTimer(i)
    BY Zenon
  <1>10. ASSUME NEW i PROVE P!RefreshImage(i) => PP!RefreshImage(i)
    BY Zenon
  <1>11. ASSUME NEW g PROVE P!PumpCallbacks(g) => PP!PumpCallbacks(g)
    BY Zenon
  <1>12. P!ReadyCallback => PP!ReadyCallback
    BY Zenon
  <1>13. P!DiscordConnects => PP!DiscordConnects
    BY Zenon
  <1>14. P!DiscordDisconnects => PP!DiscordDisconnects
    BY Zenon
  <1>15. P!DiscordReceives => PP!DiscordReceives
    BY Zenon
  <1> HIDE DEF
      P!callbackVars, PP!callbackVars, P!View, PP!View, P!HasChanged, PP!HasChanged, P!TextFor,
      PP!TextFor, P!LengthFor, PP!LengthFor, P!PositionEpochs, PP!PositionEpochs,
      P!UpdatedDuration, PP!UpdatedDuration, P!UpdatedSmallImage, PP!UpdatedSmallImage,
      P!UpdatedImage, PP!UpdatedImage, P!UpdatedTrack, PP!UpdatedTrack, P!RunCallbacks,
      PP!RunCallbacks, P!ClearPresence, PP!ClearPresence, P!SendPresence, PP!SendPresence,
      P!SuppressedWhenPaused, PP!SuppressedWhenPaused, P!Closed, PP!Closed,
      P!ScheduleCallbackPump, PP!ScheduleCallbackPump, P!Finalized, PP!Finalized,
      P!UpdateTrackNow, PP!UpdateTrackNow, P!PlaybackChanged, PP!PlaybackChanged,
      P!OnPlaybackNewTrack, PP!OnPlaybackNewTrack, P!OnPlaybackStop, PP!OnPlaybackStop,
      P!OnPlaybackSeek, PP!OnPlaybackSeek, P!OnPlaybackPause, PP!OnPlaybackPause,
      P!OnPlaybackResume, PP!OnPlaybackResume, P!OnPlaybackEdited, PP!OnPlaybackEdited,
      P!OnPlaybackDynamicInfoTrack, PP!OnPlaybackDynamicInfoTrack,
      P!ScheduleDynamicTrackUpdate, PP!ScheduleDynamicTrackUpdate, P!OnPlaybackDynamicInfo,
      PP!OnPlaybackDynamicInfo, P!DynamicUpdateTimer, PP!DynamicUpdateTimer, P!OnPlaybackTime,
      PP!OnPlaybackTime, P!RefreshImage, PP!RefreshImage, P!PumpCallbacks, PP!PumpCallbacks,
      P!ReadyCallback, PP!ReadyCallback, P!Quit, PP!Quit, P!DiscordConnects,
      PP!DiscordConnects, P!DiscordDisconnects, PP!DiscordDisconnects, P!DiscordReceives,
      PP!DiscordReceives, P!PlaybackEvent, PP!PlaybackEvent
  <1>16. [P!Next]_(P!vars) => [PP!Next]_(PP!vars)
    BY <1>0, <1>2, <1>3, <1>4, <1>5, <1>6, <1>7, <1>8, <1>9, <1>10, <1>11, <1>12, <1>13, <1>14,
       <1>15 DEF P!Next, PP!Next
  <1> QED BY <1>1, <1>16, PTL DEF P!Spec, PP!Spec

LEMMA Assumptions == FP!ConstantsAssumption /\ FP!NoneAssumption /\ PP!PresenceAssumption
  BY PresenceArtworkAssumption, Zenon DEF F!ConstantsAssumption, FP!ConstantsAssumption,
     P!PresenceAssumption, PP!PresenceAssumption, F!NoneAssumption, FP!NoneAssumption,
     F!PendingRequest, FP!PendingRequest, F!WorkItem, FP!WorkItem, F!CacheEntry, FP!CacheEntry,
     F!Cache, FP!Cache

-----------------------------------------------------------------------------
(* The composition implements the fetcher: every step is one of the fetcher *)
(* or leaves all its variables alone.                                       *)
LEMMA FetcherSteps == [Next]_vars => [F!Next]_(F!vars)
  <1> SUFFICES ASSUME [Next]_vars PROVE F!Next \/ UNCHANGED F!vars
    OBVIOUS
  <1>1. UNCHANGED fetcherVars => UNCHANGED F!vars
    BY DEF fetcherVars, F!vars, F!fetcherVars, F!workerVars, F!keyVars, F!mainVars
  <1>2. CASE HandlerAsks
    BY <1>2 DEF HandlerAsks, F!Next, F!UserAction
  <1>3. CASE HandlerDoesNotAsk
    BY <1>1, <1>3 DEF HandlerDoesNotAsk
  <1>4. CASE OnSettingsChanged
    BY <1>4 DEF OnSettingsChanged, F!Next, F!UserAction
  <1>5. CASE RefreshImage
    BY <1>5 DEF RefreshImage, F!Next, F!MainProgress
  <1>6. CASE Quit
    BY <1>6 DEF Quit, F!Next, F!MainProgress
  <1>7. CASE FetcherStep
    BY <1>7 DEF FetcherStep, F!Next, F!UserAction, F!MainProgress
  <1>8. CASE UNCHANGED vars
    BY <1>1, <1>8 DEF vars
  <1> QED BY <1>2, <1>3, <1>4, <1>5, <1>6, <1>7, <1>8 DEF Next

(* Whatever the presence asks for and whenever, the fetcher is driven as module *)
(* ArtworkFetcher lets it be: its theorems hold here too.                       *)
THEOREM ImplementsFetcher == Spec => F!Spec
  <1>1. Init => F!Init
    BY DEF Init
  <1> QED BY <1>1, FetcherSteps, PTL DEF Spec, F!Spec

LEMMA FetcherFacts ==
  Spec => [](F!TypeOK /\ F!StatusMatchesImage /\ F!UrlsMatch(cache))
  <1>1. FP!TypeOK => F!TypeOK
    BY Zenon DEF F!TypeOK, FP!TypeOK, F!FetcherTypeOK, FP!FetcherTypeOK, F!WorkerTypeOK,
       FP!WorkerTypeOK, F!KeyTypeOK, FP!KeyTypeOK, F!MainTypeOK, FP!MainTypeOK, F!SharedTypeOK,
       FP!SharedTypeOK, F!FlagTypeOK, FP!FlagTypeOK, F!PendingRequest, FP!PendingRequest,
       F!WorkItem, FP!WorkItem, F!CacheEntry, FP!CacheEntry, F!Cache, FP!Cache, F!Status,
       FP!Status, F!Outcome, FP!Outcome, F!MainPcs, FP!MainPcs, F!WorkerPcs, FP!WorkerPcs,
       F!InIteration, FP!InIteration
  <1>2. FP!StatusMatchesImage => F!StatusMatchesImage
    BY Zenon DEF F!StatusMatchesImage, FP!StatusMatchesImage, F!NothingQueued, FP!NothingQueued
  <1>3. FP!CachedUrlsAreRight => F!UrlsMatch(cache)
    BY Zenon DEF FP!CachedUrlsAreRight, FP!UrlsMatch, F!UrlsMatch
  <1> QED
    BY <1>1, <1>2, <1>3, ImplementsFetcher, SameFetcher, Assumptions, FP!TypeCorrect,
       FP!StatusStaysRight, FP!UrlsStayRight, PTL

(* What UpdateImage makes of an answer is an image. *)
LEMMA LargeImageType ==
  ASSUME NEW url \in Request \cup {None}
  PROVE  /\ LargeImage(url) \in Image /\ None \in Image
         /\ url \in Request => LargeImage(url) = url
         /\ url = None => LargeImage(url) \notin Request
  BY PresenceArtworkAssumption DEF LargeImage, Image, F!NoneAssumption

(* The fetcher's steps neither end nor start the program in the presence's eyes. *)
LEMMA ExitIsFinalSave ==
  ASSUME [Next]_vars, ~Quit
  PROVE  (mainPc = "exited")' = (mainPc = "exited")
  <1>1. CASE HandlerAsks \/ OnSettingsChanged
    BY <1>1 DEF HandlerAsks, OnSettingsChanged, F!PlaybackEvent, F!InMain
  <1>2. CASE HandlerDoesNotAsk \/ UNCHANGED vars
    BY <1>2 DEF HandlerDoesNotAsk, vars, fetcherVars
  <1>3. CASE RefreshImage
    BY <1>3 DEF RefreshImage, F!RefreshImage, F!ReEvaluateTrack, F!InMain
  <1>4. CASE FetcherStep
    <2>1. CASE F!WorkerProgress \/ F!WorkerFails
      BY <2>1 DEF F!WorkerProgress, F!WorkerFails, F!ObserveChange, F!TakeWork, F!LeaveLoop,
         F!RefuseFetch, F!SendFetch, F!AbortFetch, F!ProviderAnswers, F!ProviderRefuses,
         F!Commit, F!PostRefresh, F!FetchAnswers, F!workerFrame, F!mainVars
    <2>2. CASE F!Initialize \/ F!ClearCache \/ F!Quit \/ F!StopThread \/ F!RequestStop
               \/ F!JoinWorker
      BY <2>2 DEF F!Initialize, F!ClearCache, F!Quit, F!StopThread, F!RequestStop,
         F!JoinWorker, F!InMain
    <2> QED BY <1>4, <2>1, <2>2 DEF FetcherStep
  <1> QED BY <1>1, <1>2, <1>3, <1>4 DEF Next

LEMMA PresenceSteps == F!TypeOK' /\ [Next]_vars => [P!Next]_(P!vars)
  <1> SUFFICES ASSUME F!TypeOK', [Next]_vars PROVE P!Next \/ UNCHANGED P!vars
    OBVIOUS
  <1>1. LargeImage(image') \in Image /\ None \in Image
    BY LargeImageType DEF F!TypeOK, F!MainTypeOK
  <1>2. CASE Quit
    BY <1>2 DEF Quit, P!Next
  <1>3. CASE UNCHANGED presenceVars /\ ~Quit
    BY <1>3, ExitIsFinalSave DEF presenceVars, P!vars, P!callbackVars
  <1>4. CASE HandlerAsks
    BY <1>1, <1>4 DEF HandlerAsks, P!Next, P!PlaybackEvent
  <1>5. CASE HandlerDoesNotAsk
    BY <1>1, <1>5 DEF HandlerDoesNotAsk, P!Next, P!PlaybackEvent
  <1>6. CASE OnSettingsChanged
    BY <1>1, <1>6 DEF OnSettingsChanged, P!Next
  <1>7. CASE RefreshImage
    BY <1>1, <1>7 DEF RefreshImage, P!Next
  <1> QED BY <1>2, <1>3, <1>4, <1>5, <1>6, <1>7 DEF Next, FetcherStep, vars

(* The fetcher's answers are images that module DiscordPresence lets a handler *)
(* choose, so that its theorems hold here too.                                 *)
THEOREM ImplementsPresence == Spec => P!Spec
  <1>1. Init => P!Init
    BY DEF Init
  <1>2. Spec => []F!TypeOK
    BY FetcherFacts, PTL
  <1> QED BY <1>1, <1>2, PresenceSteps, PTL DEF Spec, P!Spec

(* An update of the title is on its way as long as one is scheduled. *)
ScheduledIsQueued == hasScheduledDynamicUpdate => timers > 0

LEMMA PresenceFacts ==
  Spec => [](P!TypeOK /\ P!PresenceFollowsPlayback /\ ScheduledIsQueued)
  <1>1. PP!TypeOK => P!TypeOK
    BY Zenon DEF P!TypeOK, PP!TypeOK, P!Player, PP!Player, P!Adapter, PP!Adapter,
       P!Generation, PP!Generation, P!PresenceData, PP!PresenceData, P!Text, PP!Text, P!Small,
       PP!Small
  <1>2. PP!PresenceFollowsPlayback => P!PresenceFollowsPlayback
    BY Zenon DEF P!PresenceFollowsPlayback, PP!PresenceFollowsPlayback, P!MayShow, PP!MayShow,
       P!SuppressedWhenPaused, PP!SuppressedWhenPaused
  <1>3. PP!IInv => ScheduledIsQueued
    BY DEF PP!IInv, PP!CallbackInv, ScheduledIsQueued
  <1> QED
    BY <1>1, <1>2, <1>3, ImplementsPresence, SamePresence, Assumptions,
       PP!PresenceTypeCorrect, PP!PresenceAlwaysFollowsPlayback, PP!IInvHolds, PTL

-----------------------------------------------------------------------------
(* What the adapter's calls leave of the data: a modifier that closes holds *)
(* its image, and the handle it was given or one that looks the same.       *)
HasFields(a) ==
    {"data", "isInitialized"} \subseteq DOMAIN a /\ {"metadb", "image"} \subseteq DOMAIN a.data

(* The same data in the same session. *)
SameData(a, b) ==
    DOMAIN b = DOMAIN a /\ b.data = a.data /\ b.isInitialized = a.isInitialized

LEMMA CallsKeepData ==
  ASSUME NEW a, HasFields(a), NEW c
  PROVE  /\ SameData(a, P!RunCallbacks(a)) /\ SameData(a, P!ScheduleCallbackPump(a))
         /\ SameData(a, P!ClearPresence(a)) /\ SameData(a, P!SendPresence(a, c))
  <1>1. ASSUME NEW x, HasFields(x), SameData(a, x)
        PROVE  SameData(a, P!RunCallbacks(x))
    BY <1>1 DEF HasFields, SameData, P!RunCallbacks
  <1> DEFINE Hidden == [a EXCEPT !.queued = None, !.hasPresence = FALSE]
             Sent == [a EXCEPT !.queued = P!View(a.data), !.hasPresence = TRUE]
  <1>2. \A x \in {a, Hidden, Sent, [a EXCEPT !.hasPresence = FALSE]} :
           HasFields(x) /\ SameData(a, x)
    BY DEF HasFields, SameData
  <1>3. P!ClearPresence(a) \in {P!RunCallbacks(Hidden), [a EXCEPT !.hasPresence = FALSE]}
    BY DEF P!ClearPresence
  <1>4. P!SendPresence(a, c) \in {P!RunCallbacks(Hidden), P!RunCallbacks(Sent), a}
    BY DEF P!SendPresence
  <1>5. SameData(a, P!ScheduleCallbackPump(a))
    BY DEF HasFields, SameData, P!ScheduleCallbackPump
  <1> HIDE DEF Hidden, Sent
  <1>6. SameData(a, P!RunCallbacks(a)) /\ SameData(a, P!RunCallbacks(Hidden))
        /\ SameData(a, P!RunCallbacks(Sent))
    BY <1>1, <1>2
  <1> QED BY <1>2, <1>3, <1>4, <1>5, <1>6

LEMMA ClosedLeaves ==
  ASSUME NEW a, HasFields(a), NEW pd, {"metadb", "image"} \subseteq DOMAIN pd,
         NEW isDisabled \in BOOLEAN, NEW p, NEW c
  PROVE  LET b == P!Closed(a, pd, isDisabled, p, c) IN
         /\ HasFields(b) /\ b.isInitialized = a.isInitialized
         /\ b.data.image = pd.image /\ b.data.metadb \in {pd.metadb, a.data.metadb}
  <1> DEFINE saved == IF P!HasChanged(a, pd) THEN [a EXCEPT !.data = pd] ELSE a
             b == P!Closed(a, pd, isDisabled, p, c)
  <1>1. ~P!HasChanged(a, pd) => a.data.image = pd.image
    <2>1. P!View(pd).image = pd.image /\ P!View(a.data).image = a.data.image
      BY DEF P!View, HasFields
    <2> QED BY <2>1 DEF P!HasChanged
  <1>2. /\ HasFields(saved) /\ saved.isInitialized = a.isInitialized
        /\ saved.data.image = pd.image /\ saved.data.metadb \in {pd.metadb, a.data.metadb}
    BY <1>1 DEF HasFields
  <1>3. b \in {saved, P!ClearPresence(saved), P!SendPresence(saved, c)}
    BY DEF P!Closed
  <1> HIDE DEF saved, b
  <1>4. SameData(saved, b)
    BY <1>2, <1>3, CallsKeepData DEF SameData
  <1> QED BY <1>2, <1>4 DEF b, HasFields, SameData

(* A modifier that changed nothing. *)
LEMMA ClosedKeepsData ==
  ASSUME NEW a, HasFields(a), NEW isDisabled \in BOOLEAN, NEW p, NEW c
  PROVE  SameData(a, P!Closed(a, a.data, isDisabled, p, c))
  <1>1. P!Closed(a, a.data, isDisabled, p, c) \in {a, P!ClearPresence(a), P!SendPresence(a, c)}
    BY DEF P!Closed, P!HasChanged
  <1> QED BY <1>1, CallsKeepData DEF SameData

LEMMA UpdatesLeave ==
  ASSUME NEW pd, {"metadb", "image"} \subseteq DOMAIN pd, NEW p, NEW track, NEW i, NEW epoch
  PROVE  LET u == P!UpdatedTrack(pd, p, track, i, epoch)
             s == P!UpdatedSmallImage(u, p)
             r == P!UpdatedSmallImage(pd, p)
         IN  /\ {"metadb", "image"} \subseteq DOMAIN u /\ DOMAIN s = DOMAIN u
             /\ u.image = i /\ s.image = i /\ s.metadb = u.metadb
             /\ track = None => u.metadb = pd.metadb
             /\ DOMAIN r = DOMAIN pd /\ r.metadb = pd.metadb
  <1>1. LET u == P!UpdatedTrack(pd, p, track, i, epoch) IN
        /\ DOMAIN u = DOMAIN pd /\ u.image = i
        /\ track = None => u.metadb = pd.metadb
    BY DEF P!UpdatedTrack, P!UpdatedDuration
  <1>2. ASSUME NEW x, {"metadb", "image"} \subseteq DOMAIN x
        PROVE  LET y == P!UpdatedSmallImage(x, p) IN
               DOMAIN y = DOMAIN x /\ y.metadb = x.metadb /\ y.image = x.image
    BY <1>2 DEF P!UpdatedSmallImage
  <1> QED BY <1>1, <1>2

(* The adapter after a handler that closes a modifier without a handle. *)
Keeps(a, b, i) ==
    HasFields(b) /\ b.data.image = i /\ b.data.metadb = a.data.metadb

LEMMA UpdateTrackNowLeaves ==
  ASSUME HasFields(adapter), NEW track, NEW u, NEW i, P!UpdateTrackNow(track, u, i)
  PROVE  /\ adapter'.data.image = i
         /\ track = None => adapter'.data.metadb = adapter.data.metadb
  <1>1. PICK epoch :
           LET t == P!UpdatedTrack(adapter.data, player', track, i, epoch) IN
           adapter' = P!Closed(adapter, IF u THEN P!UpdatedSmallImage(t, player') ELSE t,
                               FALSE, player', config)
    BY DEF P!UpdateTrackNow
  <1> DEFINE t == P!UpdatedTrack(adapter.data, player', track, i, epoch)
             pd == IF u THEN P!UpdatedSmallImage(t, player') ELSE t
  <1>2. /\ {"metadb", "image"} \subseteq DOMAIN pd /\ pd.image = i
        /\ track = None => pd.metadb = adapter.data.metadb
    BY UpdatesLeave DEF HasFields
  <1>3. adapter' = P!Closed(adapter, pd, FALSE, player', config)
    BY <1>1
  <1> HIDE DEF t, pd
  <1>4. PICK d \in BOOLEAN : adapter' = P!Closed(adapter, pd, d, player', config)
    BY <1>3
  <1> QED BY <1>2, <1>4, ClosedLeaves

LEMMA InitializedLeaves ==
  ASSUME NEW a, HasFields(a), NEW i, NEW p, NEW c
  PROVE  LET b == P!Initialized(a, i, p, c) IN
         /\ HasFields(b) /\ b.data.metadb = a.data.metadb
         /\ b.isInitialized \/ b.data = a.data
  <1> DEFINE started == [a EXCEPT !.appToken = c.token, !.isInitialized = TRUE,
                                  !.hasPresence = TRUE,
                                  !.callbackGeneration = a.callbackGeneration + 1]
             pumped == P!ScheduleCallbackPump(P!RunCallbacks(started))
             b == P!Initialized(a, i, p, c)
  <1>1. CASE c.token = None
    BY <1>1 DEF P!Initialized, HasFields
  <1>2. CASE c.token # None
    <2>1. HasFields(started) /\ started.isInitialized /\ started.data = a.data
      BY DEF HasFields
    <2> HIDE DEF started
    <2>2. SameData(started, P!RunCallbacks(started)) /\ HasFields(P!RunCallbacks(started))
      BY <2>1, CallsKeepData DEF SameData, HasFields
    <2>3. SameData(P!RunCallbacks(started), pumped)
      BY <2>2, CallsKeepData
    <2>4. HasFields(pumped) /\ pumped.isInitialized /\ pumped.data = a.data
      BY <2>1, <2>2, <2>3 DEF SameData, HasFields
    <2>5. b = P!Closed(pumped, P!UpdatedImage(pumped.data, i), TRUE, p, c)
      BY <1>2 DEF P!Initialized, started
    <2> HIDE DEF pumped
    <2>6. LET pd == P!UpdatedImage(pumped.data, i) IN
          {"metadb", "image"} \subseteq DOMAIN pd /\ pd.metadb = a.data.metadb
      BY <2>4 DEF P!UpdatedImage, HasFields
    <2>7. PICK d \in BOOLEAN : \E pd :
             /\ b = P!Closed(pumped, pd, d, p, c)
             /\ {"metadb", "image"} \subseteq DOMAIN pd /\ pd.metadb = a.data.metadb
      BY <2>5, <2>6
    <2>8. HasFields(b) /\ b.isInitialized /\ b.data.metadb = a.data.metadb
      BY <2>4, <2>7, ClosedLeaves
    <2> QED BY <2>8
  <1> QED BY <1>1, <1>2

LEMMA SettingsLeave ==
  ASSUME NEW a, HasFields(a), NEW i, NEW epoch, NEW p, NEW c
  PROVE  Keeps(a, P!SettingsChanged(a, i, epoch, p, c), i)
  <1> DEFINE r == IF a.appToken # c.token THEN P!Initialized(P!Finalized(a), i, p, c) ELSE a
             t == P!UpdatedTrack(P!UpdatedSmallImage(r.data, p), p, None, i, epoch)
  <1>1. HasFields(r) /\ r.data.metadb = a.data.metadb
    <2>1. HasFields(P!Finalized(a)) /\ P!Finalized(a).data = a.data
      BY DEF HasFields, P!Finalized
    <2> QED BY <2>1, InitializedLeaves
  <1>2. P!SettingsChanged(a, i, epoch, p, c) = P!Closed(r, t, ~c.isEnabled, p, c)
    BY Zenon DEF P!SettingsChanged
  <1> HIDE DEF r
  <1>3. {"metadb", "image"} \subseteq DOMAIN t /\ t.image = i /\ t.metadb = a.data.metadb
    BY <1>1, UpdatesLeave DEF HasFields
  <1> HIDE DEF t
  <1>4. PICK d \in BOOLEAN : P!SettingsChanged(a, i, epoch, p, c) = P!Closed(r, t, d, p, c)
    BY <1>2
  <1> QED BY <1>1, <1>3, <1>4, ClosedLeaves DEF Keeps
-----------------------------------------------------------------------------
(* The fetcher's answer: none if nothing was asked, and else artwork of a *)
(* request with the key of a listed one.                                  *)
LEMMA CachedUrlIsListed ==
  ASSUME F!TypeOK, F!UrlsMatch(cache), NEW reqs \in Seq(Request), F!CachedUrl(reqs) # None
  PROVE  F!CachedUrl(reqs) \in ArtworkOf(reqs)
  <1> DEFINE i == F!First(F!Hits(reqs))
             key == KeyOf[reqs[i]]
  <1>1. F!Hits(reqs) # {} /\ F!CachedUrl(reqs) = cache[key].artUrl
    BY DEF F!CachedUrl
  <1>2. i \in F!Hits(reqs)
    <2>1. F!Hits(reqs) \in SUBSET Nat
      BY DEF F!Hits
    <2>2. F!First(F!Hits(reqs)) = FP!First(F!Hits(reqs))
      BY Zenon DEF F!First, FP!First
    <2> QED BY <1>1, <2>1, <2>2, FP!FirstIsMember, Assumptions
  <1>3. i \in DOMAIN reqs /\ reqs[i] \in Request /\ F!IsHit(reqs[i])
    BY <1>2 DEF F!Hits
  <1> HIDE DEF i
  <1>4. key \in CacheKey /\ cache[key] # None /\ cache[key].artUrl # None
    BY <1>3, PresenceArtworkAssumption
       DEF F!IsHit, F!KnownFresh, F!HasKey, F!Fresh, F!ConstantsAssumption
  <1>5. cache[key].artUrl \in Request /\ KeyOf[cache[key].artUrl] = key
    BY <1>4 DEF F!TypeOK, F!FetcherTypeOK, F!Cache, F!CacheEntry, F!UrlsMatch
  <1> QED BY <1>1, <1>3, <1>5 DEF ArtworkOf

(* What holds of the fetcher after a handler that asks. *)
Answered ==
    /\ image' \in Request \cup {None} /\ wanted' \in Wanted \cup {None}
    /\ wanted' = None => image' = None /\ current' = None
    /\ image' # None => image' \in ArtworkOf(wanted')

LEMMA UpdateImageAnswers ==
  ASSUME F!TypeOK, F!TypeOK', F!UrlsMatch(cache), NEW w, F!UpdateImage(w)
  PROVE  Answered
  <1>1. image' \in Request \cup {None} /\ wanted' \in Wanted \cup {None} /\ wanted' = w
    BY DEF F!TypeOK, F!MainTypeOK, F!UpdateImage
  <1>2. CASE w = None
    BY <1>1, <1>2 DEF F!UpdateImage, F!CancelPendingRequest, F!Supersede, Answered
  <1>3. CASE w # None
    <2>1. image' = F!CachedUrl(w)
      BY <1>3 DEF F!UpdateImage, F!GetArtUrl
    <2>2. w \in Seq(Request)
      BY <1>1, <1>3, PresenceArtworkAssumption DEF F!ConstantsAssumption
    <2> QED BY <1>1, <1>3, <2>1, <2>2, CachedUrlIsListed DEF Answered
  <1> QED BY <1>2, <1>3

(* What holds of the presence after it asked for the artwork of a handle: it *)
(* shows the answer, unless the change was rolled back and postponed.        *)
ShowsAnswer(handle) ==
    /\ Asks(handle)
    /\ \/ /\ adapter'.data.image = LargeImage(image')
          /\ handle \in {player'.track, adapter'.data.metadb}
       \/ /\ adapter'.data = adapter.data /\ policy' = policy
          /\ timers' > 0

LEMMA TypedFields == ASSUME P!TypeOK PROVE HasFields(adapter)
  BY DEF P!TypeOK, P!Adapter, P!PresenceData, HasFields

LEMMA ScheduleShowsAnswer ==
  ASSUME P!TypeOK, UNCHANGED policy, Asks(adapter.data.metadb),
         P!ScheduleDynamicTrackUpdate(LargeImage(image'))
  PROVE  ShowsAnswer(adapter.data.metadb)
  <1> DEFINE i == LargeImage(image')
  <1>1. PICK epoch :
           LET pd == P!UpdatedTrack(adapter.data, player', None, i, epoch) IN
           /\ P!HasChanged(adapter, pd) => timers' = timers + 1
           /\ adapter' = P!Closed(adapter, IF P!HasChanged(adapter, pd) THEN adapter.data ELSE pd,
                                  FALSE, player', config)
    BY DEF P!ScheduleDynamicTrackUpdate
  <1> DEFINE pd == P!UpdatedTrack(adapter.data, player', None, i, epoch)
  <1>2. HasFields(adapter) /\ timers \in Nat
    BY TypedFields DEF P!TypeOK
  <1>3. {"metadb", "image"} \subseteq DOMAIN pd /\ pd.image = i
        /\ pd.metadb = adapter.data.metadb
    BY <1>2, UpdatesLeave DEF HasFields
  <1> HIDE DEF pd
  <1>4. CASE P!HasChanged(adapter, pd)
    <2>1. PICK d \in BOOLEAN : adapter' = P!Closed(adapter, adapter.data, d, player', config)
      BY <1>1, <1>4 DEF pd
    <2>2. adapter'.data = adapter.data
      BY <1>2, <2>1, ClosedKeepsData DEF SameData
    <2>3. timers' > 0
      BY <1>1, <1>2, <1>4 DEF pd
    <2> QED BY <2>2, <2>3 DEF ShowsAnswer
  <1>5. CASE ~P!HasChanged(adapter, pd)
    <2>1. PICK d \in BOOLEAN : adapter' = P!Closed(adapter, pd, d, player', config)
      BY <1>1, <1>5 DEF pd
    <2> QED BY <1>2, <1>3, <2>1, ClosedLeaves DEF ShowsAnswer
  <1> QED BY <1>4, <1>5

LEMMA HandlerShowsAnswer ==
  ASSUME P!TypeOK, HandlerAsks
  PROVE  \E handle : ShowsAnswer(handle)
  <1> DEFINE i == LargeImage(image')
             metadb == adapter.data.metadb
  <1>1. HasFields(adapter)
    BY TypedFields
  <1>2. ASSUME NEW t \in Track, P!OnPlaybackNewTrack(t, i), Asks(t) PROVE ShowsAnswer(t)
    <2>1. P!UpdateTrackNow(t, TRUE, i)
      BY <1>2 DEF P!OnPlaybackNewTrack
    <2>2. player'.track = t
      <3>1. PICK state : player' = [state |-> state, track |-> t, title |-> Plain,
                                    epoch |-> player.epoch + 1, settling |-> FALSE]
        BY <1>2 DEF P!OnPlaybackNewTrack
      <3> QED BY <3>1
    <2>3. adapter'.data.image = i
      BY <1>1, <2>1, UpdateTrackNowLeaves
    <2> QED BY <1>2, <2>2, <2>3 DEF ShowsAnswer
  <1>3. CASE P!OnPlaybackEdited(i) /\ Asks(player.track)
    <2>1. adapter'.data.image = i
      BY <1>1, <1>3, UpdateTrackNowLeaves DEF P!OnPlaybackEdited, P!PlaybackChanged
    <2>2. player'.track = player.track
      BY <1>3 DEF P!OnPlaybackEdited, P!TypeOK, P!Player
    <2> QED BY <1>3, <2>1, <2>2 DEF ShowsAnswer
  <1>4. ASSUME NEW u, P!UpdateTrackNow(None, u, i), Asks(metadb) PROVE ShowsAnswer(metadb)
    BY <1>1, <1>4, UpdateTrackNowLeaves DEF ShowsAnswer
  <1>5. CASE P!OnPlaybackPause(i) /\ Asks(metadb)
    BY <1>4, <1>5 DEF P!OnPlaybackPause
  <1>6. CASE P!OnPlaybackDynamicInfoTrack(i) /\ Asks(metadb)
    BY <1>4, <1>6 DEF P!OnPlaybackDynamicInfoTrack, P!PlaybackChanged
  <1>7. CASE P!DynamicUpdateTimer(i) /\ Asks(metadb)
    <2>1. mainPc # "exited"
      BY DEF HandlerAsks, F!PlaybackEvent, F!InMain
    <2> QED BY <1>4, <1>7, <2>1 DEF P!DynamicUpdateTimer, P!PlaybackChanged
  <1>8. CASE needPresenceRefresh /\ P!OnPlaybackTime(i) /\ Asks(metadb)
    BY <1>4, <1>8 DEF P!OnPlaybackTime
  <1>9. CASE ~hasScheduledDynamicUpdate /\ P!OnPlaybackDynamicInfo(i) /\ Asks(metadb)
    BY <1>9, ScheduleShowsAnswer DEF HandlerAsks, P!OnPlaybackDynamicInfo
  <1> QED
    BY <1>2, <1>3, <1>5, <1>6, <1>7, <1>8, <1>9 DEF HandlerAsks

Asking == HandlerAsks \/ OnSettingsChanged \/ RefreshImage

LEMMA AskingAnswers ==
  ASSUME F!TypeOK, F!TypeOK', F!UrlsMatch(cache), P!TypeOK, Asking
  PROVE  Answered /\ \E handle : ShowsAnswer(handle)
  <1> DEFINE i == LargeImage(image')
             metadb == adapter.data.metadb
  <1>1. HasFields(adapter)
    BY TypedFields
  <1>2. CASE HandlerAsks
    <2>1. PICK w : F!UpdateImage(w)
      BY <1>2 DEF HandlerAsks, F!PlaybackEvent
    <2> QED BY <1>2, <2>1, UpdateImageAnswers, HandlerShowsAnswer
  <1>3. CASE OnSettingsChanged
    <2>1. PICK w : F!UpdateImage(w)
      BY <1>3 DEF OnSettingsChanged, F!PlaybackEvent
    <2>2. PICK epoch : adapter' = P!SettingsChanged(adapter, i, epoch, player, config')
      BY <1>3 DEF OnSettingsChanged, P!OnSettingsChanged
    <2>3. adapter'.data.image = i /\ adapter'.data.metadb = metadb
      BY <1>1, <2>2, SettingsLeave DEF Keeps
    <2>4. ShowsAnswer(metadb)
      BY <1>3, <2>3 DEF OnSettingsChanged, ShowsAnswer
    <2> QED BY <2>1, <2>4, UpdateImageAnswers
  <1>4. CASE RefreshImage
    <2>1. PICK w : F!UpdateImage(w)
      BY <1>4 DEF RefreshImage, F!RefreshImage, F!ReEvaluateTrack
    <2>2. PICK d \in BOOLEAN :
             adapter' = P!Closed(adapter, P!UpdatedImage(adapter.data, i), d, player, config)
      BY <1>4 DEF RefreshImage, P!RefreshImage
    <2>3. LET pd == P!UpdatedImage(adapter.data, i) IN
          {"metadb", "image"} \subseteq DOMAIN pd /\ pd.image = i /\ pd.metadb = metadb
      BY <1>1 DEF P!UpdatedImage, HasFields
    <2>4. adapter'.data.image = i /\ adapter'.data.metadb = metadb
      BY <1>1, <2>2, <2>3, ClosedLeaves
    <2>5. ShowsAnswer(metadb)
      BY <1>4, <2>4 DEF RefreshImage, ShowsAnswer
    <2> QED BY <2>1, <2>5, UpdateImageAnswers
  <1> QED BY <1>2, <1>3, <1>4 DEF Asking

(* What the other steps leave alone. *)
Quiet ==
    /\ UNCHANGED <<policy, wanted, image, timers>> /\ adapter'.data = adapter.data
    /\ current' \in {current, None}

(* The playing track and its title, if a presence was and is shown. *)
SamePlayback ==
    adapter'.hasPresence => /\ adapter.hasPresence /\ player'.track = player.track
                            /\ player.state # "stopped" /\ player'.state # "stopped"
                            /\ player'.title = player.title \/ timers' > 0

LEMMA FetcherStepsAreQuiet ==
  ASSUME FetcherStep \/ Quit
  PROVE  UNCHANGED <<policy, wanted, image, timers>> /\ current' \in {current, None}
  <1>1. CASE Quit
    BY <1>1 DEF Quit, F!FinalSave, F!fetcherVars, P!Quit, P!callbackVars
  <1>2. CASE FetcherStep
    <2>1. UNCHANGED policy /\ UNCHANGED timers
      BY <1>2 DEF FetcherStep, presenceVars
    <2>2. CASE F!WorkerProgress \/ F!WorkerFails
      BY <2>1, <2>2 DEF F!WorkerProgress, F!WorkerFails, F!ObserveChange, F!TakeWork,
         F!LeaveLoop, F!RefuseFetch, F!SendFetch, F!AbortFetch, F!ProviderAnswers,
         F!ProviderRefuses, F!Commit, F!PostRefresh, F!FetchAnswers, F!workerFrame,
         F!mainVars, F!fetcherVars, F!Supersede
    <2>3. CASE F!Initialize \/ F!ClearCache \/ F!Quit \/ F!StopThread \/ F!RequestStop
               \/ F!JoinWorker
      BY <2>1, <2>3 DEF F!Initialize, F!ClearCache, F!Quit, F!StopThread, F!RequestStop,
         F!JoinWorker, F!ReplaceCache, F!fetcherVars, F!Supersede
    <2> QED BY <1>2, <2>2, <2>3 DEF FetcherStep
  <1> QED BY <1>1, <1>2

LEMMA OtherStepsAreQuiet ==
  ASSUME P!TypeOK, P!PresenceFollowsPlayback, P!PresenceFollowsPlayback', ScheduledIsQueued,
         [Next]_vars, ~Asking
  PROVE  Quiet /\ SamePlayback
  <1>1. HasFields(adapter) /\ adapter \in P!Adapter
    BY TypedFields DEF P!TypeOK
  <1>2. adapter.hasPresence => player.state # "stopped"
    BY DEF P!PresenceFollowsPlayback, P!MayShow
  <1>3. adapter'.hasPresence => player'.state # "stopped"
    BY DEF P!PresenceFollowsPlayback, P!MayShow
  <1>4. CASE UNCHANGED presenceVars /\ FetcherStep
    BY <1>2, <1>4, FetcherStepsAreQuiet DEF presenceVars, Quiet, SamePlayback
  <1>5. CASE UNCHANGED vars
    BY <1>2, <1>5 DEF vars, presenceVars, fetcherVars, Quiet, SamePlayback
  <1>6. CASE Quit
    <2>1. adapter'.data = adapter.data /\ ~adapter'.hasPresence
      BY <1>1, <1>6 DEF Quit, P!Quit, P!Finalized, P!Adapter
    <2> QED BY <1>6, <2>1, FetcherStepsAreQuiet DEF Quiet, SamePlayback
  <1>7. CASE HandlerDoesNotAsk
    <2>1. UNCHANGED <<policy, wanted, image, current>>
      BY <1>7 DEF HandlerDoesNotAsk, fetcherVars
    <2>2. CASE P!OnPlaybackStop
      <3>1. PICK d \in BOOLEAN :
               adapter' = P!Closed(adapter, adapter.data, d, player', config)
        BY <2>2 DEF P!OnPlaybackStop
      <3>2. adapter'.data = adapter.data
        BY <1>1, <3>1, ClosedKeepsData DEF SameData
      <3>3. player'.state = "stopped" /\ UNCHANGED timers
        BY <2>2 DEF P!OnPlaybackStop, P!callbackVars, P!TypeOK, P!Player
      <3> QED BY <1>3, <2>1, <3>2, <3>3 DEF Quiet, SamePlayback
    <2>3. CASE P!OnPlaybackSeek \/ P!OnPlaybackResume
               \/ (~needPresenceRefresh /\ P!OnPlaybackTime(None))
      <3>1. UNCHANGED <<adapter, timers>>
        BY <2>3 DEF P!OnPlaybackSeek, P!OnPlaybackResume, P!OnPlaybackTime
      <3>2. player'.track = player.track /\ player'.title = player.title
        BY <2>3 DEF P!OnPlaybackSeek, P!OnPlaybackResume, P!OnPlaybackTime, P!TypeOK, P!Player
      <3> QED BY <1>2, <1>3, <2>1, <3>1, <3>2 DEF Quiet, SamePlayback
    <2>4. CASE hasScheduledDynamicUpdate /\ P!OnPlaybackDynamicInfo(None)
      <3>1. UNCHANGED <<adapter, timers>> /\ player'.track = player.track
        BY <2>4 DEF P!OnPlaybackDynamicInfo, P!TypeOK, P!Player
      <3>2. timers > 0
        BY <2>4 DEF ScheduledIsQueued
      <3> QED BY <1>2, <1>3, <2>1, <3>1, <3>2 DEF Quiet, SamePlayback
    <2>5. ASSUME NEW g \in P!Generation, P!PumpCallbacks(g) PROVE Quiet /\ SamePlayback
      <3> DEFINE a == [adapter EXCEPT !.pumps[g] = @ - 1]
      <3>1. HasFields(a) /\ a.data = adapter.data /\ a.hasPresence = adapter.hasPresence
        BY <1>1 DEF HasFields, P!Adapter
      <3> HIDE DEF a
      <3>2. SameData(a, P!RunCallbacks(a)) /\ HasFields(P!RunCallbacks(a))
        BY <3>1, CallsKeepData DEF SameData, HasFields
      <3>3. SameData(P!RunCallbacks(a), P!ScheduleCallbackPump(P!RunCallbacks(a)))
        BY <3>2, CallsKeepData
      <3>4. P!ScheduleCallbackPump(P!RunCallbacks(a)).hasPresence = a.hasPresence
        BY <1>1 DEF P!ScheduleCallbackPump, P!RunCallbacks, P!Adapter, a
      <3>5. adapter' \in {a, P!ScheduleCallbackPump(P!RunCallbacks(a))}
            /\ UNCHANGED <<player, timers>>
        BY <2>5 DEF P!PumpCallbacks, P!callbackVars, a
      <3> QED BY <1>2, <2>1, <3>1, <3>2, <3>3, <3>4, <3>5 DEF Quiet, SamePlayback, SameData
    <2> QED BY <1>7, <2>2, <2>3, <2>4, <2>5 DEF HandlerDoesNotAsk
  <1> QED BY <1>4, <1>5, <1>6, <1>7 DEF Next, Asking, FetcherStep

(* At the start nothing was asked and nothing is shown. *)
LEMMA InitFacts ==
  ASSUME Init
  PROVE  /\ wanted = None /\ current = None /\ player.state = "stopped"
         /\ adapter.data.image = None \/
               adapter.data.image = (IF policy = "ArtworkOnly" THEN None ELSE Icon)
  <1>1. wanted = None /\ current = None /\ player.state = "stopped"
    BY DEF Init, F!Init, P!Init
  <1>2. PICK i \in Image :
           adapter = P!Initialized([isInitialized |-> FALSE, hasPresence |-> FALSE,
                                    callbackGeneration |-> 0, appToken |-> None,
                                    data |-> P!EmptyData,
                                    pumps |-> [g \in P!Generation |-> 0],
                                    readyPosted |-> 0, queued |-> None, events |-> {}],
                                   i, player, config)
    BY DEF Init, P!Init
  <1> DEFINE a == [isInitialized |-> FALSE, hasPresence |-> FALSE, callbackGeneration |-> 0,
                   appToken |-> None, data |-> P!EmptyData,
                   pumps |-> [g \in P!Generation |-> 0],
                   readyPosted |-> 0, queued |-> None, events |-> {}]
  <1>3. HasFields(a) /\ a.data.image = None
    BY DEF HasFields, P!EmptyData
  <1>4. adapter = P!Initialized(a, i, player, config)
    BY <1>2
  <1> HIDE DEF a
  <1>5. adapter.isInitialized \/ adapter.data = a.data
    BY <1>3, <1>4, InitializedLeaves
  <1> QED BY <1>1, <1>3, <1>5 DEF Init

(* What the induction over a step may use of the fetcher and of the presence. *)
Known ==
    /\ F!TypeOK /\ F!UrlsMatch(cache)
    /\ P!TypeOK /\ P!PresenceFollowsPlayback /\ ScheduledIsQueued

LEMMA KnownHolds == Spec => []Known
  BY FetcherFacts, PresenceFacts, PTL DEF Known

(* Every step asks and shows the answer, or is quiet. *)
LEMMA StepsAskOrAreQuiet ==
  ASSUME Known, Known', [Next]_vars
  PROVE  \/ Answered /\ \E handle : ShowsAnswer(handle)
         \/ Quiet /\ SamePlayback
  BY AskingAnswers, OtherStepsAreQuiet DEF Known

-----------------------------------------------------------------------------
(* The presence holds what the fetcher last answered. *)
Synced ==
    wanted # None /\ timers = 0 =>
        adapter.data.image =
            (IF image # None THEN image ELSE IF policy = "ArtworkOnly" THEN None ELSE Icon)

LEMMA PresenceIsSynced == Spec => []Synced
  <1>1. Init => Synced
    BY InitFacts DEF Synced
  <1>2. Known /\ Known' /\ Synced /\ [Next]_vars => Synced'
    <2> SUFFICES ASSUME Known, Known', Synced, [Next]_vars PROVE Synced'
      OBVIOUS
    <2>1. ASSUME NEW handle, ShowsAnswer(handle) PROVE Synced'
      <3>1. CASE adapter'.data.image = LargeImage(image')
        BY <3>1 DEF Synced, LargeImage
      <3>2. CASE timers' > 0
        BY <3>2 DEF Synced
      <3> QED BY <2>1, <3>1, <3>2 DEF ShowsAnswer
    <2>2. CASE Quiet
      BY <2>2 DEF Quiet, Synced
    <2> QED BY <2>1, <2>2, StepsAskOrAreQuiet
  <1> QED BY <1>1, <1>2, KnownHolds, PTL DEF Spec

(* Once the posted refreshes have run, the status in Preferences agrees with *)
(* the presence, for every list of providers, setting and order of results.  *)
THEOREM StatusAlwaysMatchesPresence == Spec => []StatusMatchesPresence
  <1>1. F!TypeOK /\ F!StatusMatchesImage /\ Synced => StatusMatchesPresence
    <2> SUFFICES ASSUME F!TypeOK, F!StatusMatchesImage, Synced,
                        F!NothingQueued, wanted # None, timers = 0
                 PROVE  /\ status = "Resolved" => adapter.data.image \in Request
                        /\ status = "NotFound" => adapter.data.image \notin Request
      BY DEF StatusMatchesPresence
    <2>1. image \in Request \cup {None} /\ None \notin Request /\ Icon \notin Request
      BY PresenceArtworkAssumption DEF F!TypeOK, F!MainTypeOK, F!NoneAssumption
    <2> QED BY <2>1 DEF F!StatusMatchesImage, Synced
  <1> QED BY <1>1, FetcherFacts, PresenceIsSynced, PTL

(* A result that arrives after the policy changed does not undo it: with the *)
(* icon only, no request is kept and no artwork shown, and with artwork only *)
(* the icon never comes back.                                                *)
THEOREM PolicyIsAlwaysObeyed == Spec => []PolicyIsObeyed
  <1>1. Init => PolicyIsObeyed
    <2> SUFFICES ASSUME Init PROVE PolicyIsObeyed
      OBVIOUS
    <2>1. None \notin Request /\ Icon \notin Request /\ Icon # None
      BY PresenceArtworkAssumption DEF F!NoneAssumption
    <2> QED BY <2>1, InitFacts DEF PolicyIsObeyed
  <1>2. Known /\ Known' /\ PolicyIsObeyed /\ [Next]_vars => PolicyIsObeyed'
    <2> SUFFICES ASSUME Known, Known', PolicyIsObeyed, [Next]_vars PROVE PolicyIsObeyed'
      OBVIOUS
    <2>1. None \notin Request /\ Icon \notin Request /\ Icon # None
      BY PresenceArtworkAssumption DEF F!NoneAssumption
    <2>2. ASSUME Answered, NEW handle, ShowsAnswer(handle) PROVE PolicyIsObeyed'
      <3>1. policy' = "ApplicationIcon" => image' = None /\ current' = None
        BY <2>2 DEF Answered, ShowsAnswer, Asks, List
      <3>2. LargeImage(image') \in Request => image' # None
        BY <2>1 DEF LargeImage
      <3>3. policy' = "ArtworkOnly" => LargeImage(image') # Icon
        BY <2>1, <2>2 DEF LargeImage, Answered
      <3>4. CASE adapter'.data.image = LargeImage(image')
        BY <3>1, <3>2, <3>3, <3>4 DEF PolicyIsObeyed
      <3>5. CASE adapter'.data = adapter.data /\ policy' = policy
        BY <3>1, <3>5 DEF PolicyIsObeyed
      <3> QED BY <2>2, <3>4, <3>5 DEF ShowsAnswer
    <2>3. CASE Quiet
      BY <2>3 DEF Quiet, PolicyIsObeyed
    <2> QED BY <2>2, <2>3, StepsAskOrAreQuiet
  <1> QED BY <1>1, <1>2, KnownHolds, PTL DEF Spec

(* Artwork of an earlier track or title is never shown with a later one,    *)
(* whatever results arrive late: a handler that shows an answer asked for   *)
(* the text of the playing track, and a step that changes that text without *)
(* asking has an update of the title on its way.                            *)
THEOREM ArtworkStaysRight == Spec => []ArtworkIsRight
  <1>1. Init /\ Known => ArtworkIsRight
    BY InitFacts DEF Known, P!PresenceFollowsPlayback, P!MayShow, ArtworkIsRight
  <1>2. Known /\ Known' /\ ArtworkIsRight /\ [Next]_vars => ArtworkIsRight'
    <2> SUFFICES ASSUME Known, Known', ArtworkIsRight, [Next]_vars,
                        adapter'.hasPresence, adapter'.data.image \in Request, timers' = 0
                 PROVE  \E t \in {player'.track, adapter'.data.metadb} \cap Track :
                           adapter'.data.image \in ArtworkOf(ListOf[t][P!TextFor(player', t)])
      BY DEF ArtworkIsRight
    <2>1. ASSUME Answered, NEW handle, ShowsAnswer(handle)
          PROVE  /\ handle \in {player'.track, adapter'.data.metadb} \cap Track
                 /\ adapter'.data.image \in ArtworkOf(ListOf[handle][P!TextFor(player', handle)])
      <3>1. adapter'.data.image = LargeImage(image')
            /\ handle \in {player'.track, adapter'.data.metadb}
        BY <2>1 DEF ShowsAnswer
      <3>2. image' # None /\ LargeImage(image') = image'
        BY <2>1, <3>1, PresenceArtworkAssumption DEF LargeImage, F!NoneAssumption
      <3>3. wanted' # None /\ image' \in ArtworkOf(wanted')
        BY <2>1, <3>2 DEF Answered
      <3>4. handle # None /\ wanted' = ListOf[handle][P!TextFor(player', handle)]
        BY <2>1, <3>3 DEF ShowsAnswer, Asks, List
      <3>5. player'.track \in Track \cup {None} /\ adapter'.data.metadb \in Track \cup {None}
        BY DEF Known, P!TypeOK, P!Player, P!Adapter, P!PresenceData
      <3> QED BY <3>1, <3>2, <3>3, <3>4, <3>5
    <2>2. CASE Quiet /\ SamePlayback
      <3>1. /\ adapter.hasPresence /\ adapter'.data = adapter.data /\ timers = 0
            /\ player.state # "stopped" /\ player'.state # "stopped"
            /\ player'.track = player.track /\ player'.title = player.title
        BY <2>2 DEF Quiet, SamePlayback
      <3>2. ASSUME NEW t PROVE P!TextFor(player', t) = P!TextFor(player, t)
        BY <3>1 DEF P!TextFor
      <3> QED BY <3>1, <3>2 DEF ArtworkIsRight
    <2> QED BY <2>1, <2>2, StepsAskOrAreQuiet
  <1> QED BY <1>1, <1>2, KnownHolds, PTL DEF Spec
=============================================================================

------------------------- MODULE ArtworkFetcherProofs -------------------------
(***************************************************************************)
(* Theorems about ArtworkFetcher, for every value of its constants.        *)
(***************************************************************************)
EXTENDS ArtworkFetcher, FiniteSetTheorems, TLAPS

(***************************************************************************)
(* The scan of GetArtUrl ends at a least index: First returns a member of  *)
(* a nonempty set of indices.  The proof takes a minimal initial segment   *)
(* of the set.                                                             *)
(***************************************************************************)
LEMMA FirstIsMember ==
    ASSUME NEW I \in SUBSET Nat, I # {}
    PROVE  First(I) \in I
<1> DEFINE Upto(i) == I \cap (0 .. i)
           Segments == {Upto(i) : i \in I}
<1>1. Segments \subseteq FiniteSubsetsOf(Nat)
  <2> SUFFICES ASSUME NEW i \in I PROVE Upto(i) \in SUBSET Nat /\ IsFiniteSet(Upto(i))
    BY DEF FiniteSubsetsOf
  <2>1. IsFiniteSet(0 .. i)
    BY FS_Interval
  <2> QED
    BY <2>1, FS_Intersection
<1>2. PICK i \in I : \A j \in I : ~ (<<Upto(j), Upto(i)>> \in StrictSubsetOrdering(Nat))
  <2>1. Segments # {}
    OBVIOUS
  <2>2. \E S \in Segments : \A T \in Segments : ~ (<<T, S>> \in StrictSubsetOrdering(Nat))
    BY <1>1, <2>1, FS_StrictSubsetOrderingWellFounded, WFMin
  <2> QED
    BY <2>2
<1>3. \A j \in I : i <= j
  <2> SUFFICES ASSUME NEW j \in I, j < i PROVE FALSE
    OBVIOUS
  <2>1. Upto(j) \subseteq Upto(i) /\ i \in Upto(i) /\ i \notin Upto(j)
    OBVIOUS
  <2> QED
    BY <1>2, <2>1 DEF StrictSubsetOrdering
<1> QED
  BY <1>3 DEF First

-----------------------------------------------------------------------------
(* Type correctness. *)

(***************************************************************************)
(* The list that GetArtUrl scans holds requests, the URL that it returns   *)
(* names one, and the candidate it picks is askable and has a key.         *)
(***************************************************************************)
LEMMA Scan ==
    ASSUME TypeOK, NEW reqs \in Wanted
    PROVE  /\ CachedUrl(reqs) \in Request \cup {None}
           /\ \A i \in DOMAIN reqs : i \in Nat /\ reqs[i] \in Request
           /\ Candidates(reqs) # {} =>
                 LET i == First(Candidates(reqs)) IN
                 i \in Candidates(reqs) /\ i \in Nat /\ reqs[i] \in Request
<1>1. reqs \in Seq(Request)
  BY ConstantsAssumption
<1>2. \A i \in DOMAIN reqs : i \in Nat /\ reqs[i] \in Request
  BY <1>1
<1>3. Candidates(reqs) # {} =>
                 LET i == First(Candidates(reqs)) IN
                 i \in Candidates(reqs) /\ i \in Nat /\ reqs[i] \in Request
  <2>1. Candidates(reqs) \in SUBSET Nat /\ Candidates(reqs) \subseteq DOMAIN reqs
    BY <1>2 DEF Candidates, Scanned
  <2> QED
    BY <1>2, <2>1, FirstIsMember
<1>4. ASSUME Hits(reqs) # {} PROVE CachedUrl(reqs) \in Request
  <2>1. Hits(reqs) \in SUBSET Nat /\ Hits(reqs) \subseteq DOMAIN reqs
    BY <1>2 DEF Hits
  <2>2. First(Hits(reqs)) \in Hits(reqs)
    BY <1>4, <2>1, FirstIsMember
  <2>3. PICK r \in Request : r = reqs[First(Hits(reqs))] /\ IsHit(r)
    BY <1>2, <2>1, <2>2 DEF Hits
  <2>4. KeyOf[r] \in CacheKey
    BY <2>3, ConstantsAssumption DEF IsHit, KnownFresh, HasKey
  <2>5. cache[KeyOf[r]] \in CacheEntry /\ cache[KeyOf[r]].artUrl # None
    BY <2>3, <2>4 DEF TypeOK, FetcherTypeOK, IsHit, KnownFresh, Fresh, Cache
  <2> QED
    BY <1>4, <2>3, <2>5 DEF CachedUrl, CacheEntry
<1> QED
  BY <1>2, <1>3, <1>4 DEF CachedUrl

(* Whatever UpdateImage is asked for, it leaves a well-typed fetcher and image. *)
LEMMA UpdateImageType ==
    ASSUME TypeOK, NEW w \in Wanted \cup {None}, UpdateImage(w)
    PROVE  FetcherTypeOK' /\ wanted' \in Wanted \cup {None} /\ image' \in Request \cup {None}
<1>1. FetcherTypeOK
  BY DEF TypeOK
<1>2. CASE w = None
  BY <1>1, <1>2 DEF UpdateImage, CancelPendingRequest, Supersede, FetcherTypeOK, Status
<1>3. CASE w # None
  <2>1. /\ w \in Wanted /\ DropStale(w) /\ image' = CachedUrl(w) /\ wanted' = w
        /\ UNCHANGED <<cacheGen, workerAvailable>>
    BY <1>3 DEF UpdateImage, GetArtUrl
  <2>2. cache' \in Cache /\ retryAfter' \in [CacheKey -> Nat]
    BY <1>1, <2>1 DEF DropStale, FetcherTypeOK, Cache
  <2>3. image' \in Request \cup {None}
    BY <2>1, Scan
  <2>4. current' \in PendingRequest \cup {None} /\ requestGen' \in Nat /\ status' \in Status
    <3>1. CASE Candidates(w) # {} /\ workerAvailable
      <4> DEFINE r == w[First(Candidates(w))]
      <4>1. r \in Request /\ Askable(r)
        BY <2>1, <3>1, Scan DEF Candidates
      <4>2. KeyOf[r] \in CacheKey
        BY <4>1, ConstantsAssumption DEF Askable, Unknown, HasKey
      <4>3. SetCurrent(r) /\ status' = "Fetching"
        BY <1>3, <3>1 DEF UpdateImage, GetArtUrl
      <4> QED
        BY <1>1, <4>1, <4>2, <4>3 DEF SetCurrent, FetcherTypeOK, PendingRequest, Status
    <3>2. CASE ~(Candidates(w) # {} /\ workerAvailable)
      <4>1. Supersede /\ status' \in Status
        BY <1>3, <3>2 DEF UpdateImage, GetArtUrl, Status
      <4> QED
        BY <1>1, <4>1 DEF Supersede, FetcherTypeOK
    <3> QED
      BY <3>1, <3>2
  <2> QED
    BY <1>1, <2>1, <2>2, <2>3, <2>4 DEF FetcherTypeOK
<1> QED
  BY <1>2, <1>3

(* What LoadCache keeps of the file, and the maps of a new process. *)
LEMMA FreshOnlyType ==
    ASSUME NEW file \in Cache
    PROVE  FreshOnly(file) \in Cache
BY DEF FreshOnly, Cache

(* The maps of a new process have their types. *)
LEMMA EmptyMaps ==
    EmptyCache \in Cache /\ NoRetries \in [CacheKey -> Nat] /\ NoLimits \in [ApiKey -> Nat]
BY DEF EmptyCache, NoRetries, NoLimits, Cache

(* Replacing the maps by well-typed maps keeps the type of the fetcher. *)
LEMMA ReplaceCacheType ==
    ASSUME TypeOK, NEW c \in Cache, NEW ra \in [CacheKey -> Nat], ReplaceCache(c, ra)
    PROVE  FetcherTypeOK'
BY DEF ReplaceCache, Supersede, TypeOK, FetcherTypeOK, Status

(* A group of variables that a step leaves alone keeps its type. *)
LEMMA FrameType ==
    ASSUME TypeOK
    PROVE  /\ UNCHANGED fetcherVars => FetcherTypeOK'
           /\ UNCHANGED workerVars => WorkerTypeOK'
           /\ UNCHANGED keyVars => KeyTypeOK'
           /\ UNCHANGED mainVars => MainTypeOK'
           /\ UNCHANGED <<posted, disk, now>> => SharedTypeOK'
           /\ UNCHANGED <<workerAvailable, stopRequested, aborting, outdated>> => FlagTypeOK'
<1>1. UNCHANGED fetcherVars => FetcherTypeOK'
  BY DEF TypeOK, FetcherTypeOK, fetcherVars
<1>2. UNCHANGED workerVars => WorkerTypeOK'
  BY DEF TypeOK, WorkerTypeOK, InIteration, workerVars
<1>3. UNCHANGED keyVars => KeyTypeOK'
  BY DEF TypeOK, KeyTypeOK, keyVars
<1>4. UNCHANGED mainVars => MainTypeOK'
  BY DEF TypeOK, MainTypeOK, mainVars
<1>5. UNCHANGED <<posted, disk, now>> => SharedTypeOK'
  BY DEF TypeOK, SharedTypeOK
<1>6. UNCHANGED <<workerAvailable, stopRequested, aborting, outdated>> => FlagTypeOK'
  BY DEF TypeOK, FlagTypeOK
<1> QED
  BY <1>1, <1>2, <1>3, <1>4, <1>5, <1>6

(* The type invariant holds in a new process. *)
LEMMA InitType == Init => TypeOK
<1> SUFFICES ASSUME Init PROVE TypeOK
  OBVIOUS
<1>1. FetcherTypeOK
  BY EmptyMaps DEF Init, FetcherTypeOK, Status
<1>2. WorkerTypeOK
  BY DEF Init, WorkerTypeOK, WorkerPcs, InIteration, Outcome
<1>3. KeyTypeOK
  BY EmptyMaps DEF Init, KeyTypeOK
<1>4. MainTypeOK
  BY DEF Init, MainTypeOK, MainPcs
<1>5. SharedTypeOK
  BY DEF Init, SharedTypeOK
<1>6. FlagTypeOK
  BY Zenon DEF Init, FlagTypeOK
<1> QED
  BY <1>1, <1>2, <1>3, <1>4, <1>5, <1>6 DEF TypeOK

(* A refused or limited API key keeps the type of the key state. *)
LEMMA MarkKeyType ==
    ASSUME TypeOK, NEW a \in ApiKey, MarkKey(a)
    PROVE  KeyTypeOK'
BY ConstantsAssumption DEF MarkKey, TypeOK, KeyTypeOK, SharedTypeOK

(* The worker's steps, each with the groups of variables that it changes. *)
LEMMA WorkerStepType == TypeOK /\ WorkerProgress => TypeOK'
<1> SUFFICES ASSUME TypeOK, WorkerProgress PROVE TypeOK'
  OBVIOUS
<1> USE DEF WorkerProgress
<1>1. UNCHANGED <<mainVars, stopRequested, disk, now>>
  BY DEF ObserveChange, TakeWork, LeaveLoop, RefuseFetch, SendFetch, AbortFetch,
     ProviderAnswers, ProviderRefuses, Commit, PostRefresh, FetchAnswers, workerFrame
<1>2. MainTypeOK'
  BY <1>1, FrameType
<1>3. SharedTypeOK'
  BY <1>1 DEF TypeOK, SharedTypeOK, ObserveChange, TakeWork, LeaveLoop, RefuseFetch, SendFetch,
     AbortFetch, ProviderAnswers, ProviderRefuses, Commit, PostRefresh, FetchAnswers
<1>4. FlagTypeOK'
  <2>1. UNCHANGED <<workerAvailable, stopRequested, aborting>>
    BY <1>1 DEF ObserveChange, TakeWork, LeaveLoop, RefuseFetch, SendFetch, AbortFetch,
       ProviderAnswers, ProviderRefuses, Commit, PostRefresh, FetchAnswers, fetcherVars, mainVars
  <2>2. outdated' = outdated \/ outdated' = FALSE
    BY DEF ObserveChange, TakeWork, LeaveLoop, RefuseFetch, SendFetch, AbortFetch,
       ProviderAnswers, ProviderRefuses, Commit, PostRefresh, FetchAnswers, EndIteration
  <2> QED
    BY <2>1, <2>2, Zenon DEF TypeOK, FlagTypeOK
<1>5. CASE ~Commit
  <2>1. FetcherTypeOK'
    <3>1. UNCHANGED fetcherVars
      BY <1>5 DEF ObserveChange, TakeWork, LeaveLoop, RefuseFetch, SendFetch, AbortFetch,
         ProviderAnswers, ProviderRefuses, PostRefresh, FetchAnswers
    <3> QED
      BY <3>1, FrameType
  <2>2. WorkerTypeOK'
    <3>1. FetcherTypeOK /\ WorkerTypeOK
      BY DEF TypeOK
    <3>2. CASE ObserveChange \/ TakeWork \/ LeaveLoop
      <4>1. CASE ObserveChange \/ LeaveLoop
        BY <3>1, <4>1 DEF ObserveChange, LeaveLoop, InWorker, EndIteration, FetcherTypeOK,
           WorkerTypeOK, WorkerPcs, InIteration, Outcome
      <4>2. CASE TakeWork
        <5>1. work' \in WorkItem
          BY <3>1, <4>2 DEF TakeWork, FetcherTypeOK, WorkItem
        <5> QED
          BY <3>1, <4>2, <5>1, NoneAssumption
          DEF TakeWork, InWorker, WorkerTypeOK, WorkerPcs, InIteration
      <4> QED
        BY <3>2, <4>1, <4>2
    <3>3. CASE SendFetch \/ PostRefresh
      BY <3>1, <3>3 DEF SendFetch, PostRefresh, InWorker, WorkerTypeOK, WorkerPcs, InIteration
    <3>4. ASSUME NEW o \in Outcome, FetchAnswers(o), pc \in {"fetch", "request"}
          PROVE  WorkerTypeOK'
      BY <3>1, <3>4 DEF FetchAnswers, AfterFetch, EndIteration, WorkerTypeOK, WorkerPcs,
         InIteration, Outcome
    <3> QED
      BY <1>5, <3>2, <3>3, <3>4
      DEF RefuseFetch, AbortFetch, ProviderAnswers, ProviderRefuses, Outcome
  <2>3. KeyTypeOK'
    <3>1. CASE UNCHANGED keyVars
      BY <3>1, FrameType
    <3>2. CASE ProviderRefuses
      <4>1. work \in WorkItem
        BY <3>2 DEF ProviderRefuses, TypeOK, WorkerTypeOK, InIteration
      <4>2. ApiKeyOf[work.pending.request] \in ApiKey
        BY <3>2, <4>1, ConstantsAssumption DEF ProviderRefuses, IsTheAudioDb, WorkItem, PendingRequest
      <4> QED
        BY <3>2, <4>2, MarkKeyType DEF ProviderRefuses
    <3> QED
      BY <1>5, <3>1, <3>2 DEF ObserveChange, TakeWork, LeaveLoop, RefuseFetch, SendFetch,
         AbortFetch, ProviderAnswers, PostRefresh, keyVars
  <2> QED
    BY <1>2, <1>3, <1>4, <2>1, <2>2, <2>3 DEF TypeOK
<1>6. CASE Commit
  <2>1. WorkerTypeOK'
    BY <1>6 DEF Commit, EndIteration, TypeOK, WorkerTypeOK, WorkerPcs, InIteration, Outcome
  <2>2. KeyTypeOK'
    BY <1>6, FrameType DEF Commit
  <2>3. work \in WorkItem /\ work.pending.cacheKey \in CacheKey
    BY <1>6 DEF Commit, TypeOK, WorkerTypeOK, InIteration, WorkItem, PendingRequest
  <2>4. cache' \in Cache /\ retryAfter' \in [CacheKey -> Nat]
    <3>1. CASE StoreResult(work.pending.cacheKey)
      BY <2>3, <3>1 DEF StoreResult, TypeOK, FetcherTypeOK, SharedTypeOK, Cache, CacheEntry,
         WorkItem, PendingRequest
    <3>2. CASE HoldOff(work.pending.cacheKey)
      BY <2>3, <3>2, ConstantsAssumption DEF HoldOff, TypeOK, FetcherTypeOK, SharedTypeOK
    <3> QED
      BY <1>6, <3>1, <3>2 DEF Commit, RecordOutcome, TypeOK, FetcherTypeOK
  <2>5. FetcherTypeOK'
    BY <1>6, <2>4 DEF Commit, PublishedStatus, TypeOK, FetcherTypeOK, Status
  <2> QED
    BY <1>2, <1>3, <1>4, <2>1, <2>2, <2>5 DEF TypeOK
<1> QED
  BY <1>5, <1>6

(* The main thread's steps. *)
LEMMA MainStepType == TypeOK /\ MainProgress => TypeOK'
<1> SUFFICES ASSUME TypeOK, MainProgress PROVE TypeOK'
  OBVIOUS
<1>1. CASE RefreshImage \/ ReEvaluateTrack \/ SettingsApplied
  <2>1. PICK w \in Wanted \cup {None} : UpdateImage(w)
    BY <1>1 DEF RefreshImage, ReEvaluateTrack, SettingsApplied, TypeOK, MainTypeOK
  <2>2. FetcherTypeOK' /\ MainTypeOK'
    BY <1>1, <2>1, UpdateImageType DEF RefreshImage, ReEvaluateTrack, SettingsApplied, InMain,
       MainTypeOK, MainPcs
  <2>3. WorkerTypeOK' /\ KeyTypeOK'
    BY <1>1, FrameType DEF RefreshImage, ReEvaluateTrack, SettingsApplied, mainFrame
  <2>4. SharedTypeOK'
    BY <1>1 DEF RefreshImage, ReEvaluateTrack, SettingsApplied, mainFrame, TypeOK, SharedTypeOK
  <2>5. FlagTypeOK'
    <3>1. UNCHANGED workerAvailable
      BY <2>1 DEF UpdateImage, CancelPendingRequest, GetArtUrl
    <3> QED
      BY <1>1, <3>1, FrameType DEF RefreshImage, ReEvaluateTrack, SettingsApplied, mainFrame
  <2> QED
    BY <2>2, <2>3, <2>4, <2>5 DEF TypeOK
<1>2. CASE SaveInvalidated \/ FinalSave
  <2>1. FetcherTypeOK' /\ WorkerTypeOK' /\ KeyTypeOK'
    BY <1>2, FrameType DEF SaveInvalidated, FinalSave
  <2>2. MainTypeOK'
    BY <1>2 DEF SaveInvalidated, FinalSave, InMain, TypeOK, MainTypeOK, MainPcs
  <2>3. SharedTypeOK'
    BY <1>2 DEF SaveInvalidated, FinalSave, WriteFile, TypeOK, FetcherTypeOK, SharedTypeOK
  <2>4. FlagTypeOK'
    BY <1>2, FrameType DEF SaveInvalidated, FinalSave, fetcherVars
  <2> QED
    BY <2>1, <2>2, <2>3, <2>4 DEF TypeOK
<1>3. CASE StopThread
  <2>1. FetcherTypeOK'
    BY <1>3 DEF StopThread, Supersede, TypeOK, FetcherTypeOK
  <2>2. WorkerTypeOK' /\ KeyTypeOK' /\ SharedTypeOK'
    BY <1>3, FrameType DEF StopThread, mainFrame
  <2>3. MainTypeOK'
    BY <1>3 DEF StopThread, TypeOK, MainTypeOK, MainPcs
  <2>4. FlagTypeOK'
    BY <1>3, Zenon DEF StopThread, mainFrame, TypeOK, FlagTypeOK
  <2> QED
    BY <2>1, <2>2, <2>3, <2>4 DEF TypeOK
<1>4. CASE RequestStop
  <2>1. FetcherTypeOK' /\ WorkerTypeOK' /\ KeyTypeOK' /\ SharedTypeOK'
    BY <1>4, FrameType DEF RequestStop
  <2>2. MainTypeOK'
    BY <1>4 DEF RequestStop, InMain, TypeOK, MainTypeOK, MainPcs
  <2>3. FlagTypeOK'
    BY <1>4, Zenon DEF RequestStop, fetcherVars, TypeOK, FlagTypeOK
  <2> QED
    BY <2>1, <2>2, <2>3 DEF TypeOK
<1>5. CASE JoinWorker
  <2>1. FetcherTypeOK' /\ KeyTypeOK' /\ SharedTypeOK'
    BY <1>5, FrameType DEF JoinWorker
  <2>2. WorkerTypeOK'
    BY <1>5 DEF JoinWorker, TypeOK, WorkerTypeOK, WorkerPcs, InIteration
  <2>3. MainTypeOK'
    BY <1>5 DEF JoinWorker, InMain, TypeOK, MainTypeOK, MainPcs
  <2>4. FlagTypeOK'
    BY <1>5, FrameType DEF JoinWorker, fetcherVars
  <2> QED
    BY <2>1, <2>2, <2>3, <2>4 DEF TypeOK
<1> QED
  BY <1>1, <1>2, <1>3, <1>4, <1>5 DEF MainProgress

(* No worker thread outlives its process: Initialize finds none.  Without it *)
(* the type invariant is not inductive.                                      *)
NoThreadWhenOff == mainPc = "off" => pc = "none"

(* Only Initialize starts a thread, and a new process has none. *)
LEMMA NoThreadStep == TypeOK /\ NoThreadWhenOff /\ [Next]_vars => NoThreadWhenOff'
<1> SUFFICES ASSUME TypeOK, NoThreadWhenOff, [Next]_vars, mainPc' = "off" PROVE pc' = "none"
  BY DEF NoThreadWhenOff
<1>1. CASE WorkerProgress \/ WorkerFails
  BY <1>1 DEF NoThreadWhenOff, WorkerProgress, ObserveChange, TakeWork, LeaveLoop, RefuseFetch,
     SendFetch, AbortFetch, ProviderAnswers, ProviderRefuses, Commit, PostRefresh, WorkerFails,
     FetchAnswers, InWorker, workerFrame, mainVars
<1>2. CASE MainProgress \/ UserAction
  BY <1>2 DEF MainProgress, RefreshImage, ReEvaluateTrack, SettingsApplied, SaveInvalidated,
     StopThread, RequestStop, JoinWorker, FinalSave, UserAction, Initialize, PlaybackEvent, Quit,
     LoadCache, SaveCache, ClearCache, InvalidateProviderCache, ResetRejectedApiKeyState, InMain
<1>3. CASE ProcessEnds \/ Tick \/ (\E a \in ApiKey : TestRefused(a)) \/ UNCHANGED vars
  BY <1>3 DEF NoThreadWhenOff, ProcessEnds, Tick, TestRefused, vars, workerVars, mainVars
<1> QED
  BY <1>1, <1>2, <1>3 DEF Next

(* The steps that the user, the player or the host program starts. *)
LEMMA UserStepType == TypeOK /\ NoThreadWhenOff /\ UserAction => TypeOK'
<1> SUFFICES ASSUME TypeOK, NoThreadWhenOff, UserAction PROVE TypeOK'
  OBVIOUS
<1>1. CASE Initialize
  <2>1. cache' \in Cache /\ cacheGen' \in Nat /\ requestGen' \in Nat /\ status' \in Status
    <3>1. disk # None => FreshOnly(disk) \in Cache
      BY FreshOnlyType DEF TypeOK, SharedTypeOK
    <3>2. \/ UNCHANGED <<cache, cacheGen>>
          \/ disk # None /\ cache' = FreshOnly(disk) /\ cacheGen' = cacheGen + 1
      BY <1>1, Zenon DEF Initialize
    <3>3. \E m \in {0, 1}, n \in {0, 2} : requestGen' = requestGen + m + n
      BY <1>1, Zenon DEF Initialize
    <3>4. status' \in {"Idle", "Failed"}
      BY <1>1, Zenon DEF Initialize
    <3> QED
      BY <3>1, <3>2, <3>3, <3>4 DEF TypeOK, FetcherTypeOK, Status
  <2>2. FetcherTypeOK'
    BY <1>1, <2>1 DEF Initialize, TypeOK, FetcherTypeOK
  <2>3. WorkerTypeOK'
    <3>1. pc' \in {"wait", "none"} /\ UNCHANGED <<lastRequest, work, outcome>> /\ work = None
      BY <1>1 DEF Initialize, InMain, NoThreadWhenOff, TypeOK, WorkerTypeOK, InIteration
    <3> QED
      BY <3>1 DEF TypeOK, WorkerTypeOK, WorkerPcs, InIteration
  <2>4. KeyTypeOK' /\ SharedTypeOK'
    BY <1>1, FrameType DEF Initialize
  <2>5. MainTypeOK'
    BY <1>1 DEF Initialize, InMain, TypeOK, MainTypeOK, MainPcs
  <2>6. FlagTypeOK'
    BY <1>1, Zenon DEF Initialize, TypeOK, FlagTypeOK
  <2> QED
    BY <2>2, <2>3, <2>4, <2>5, <2>6 DEF TypeOK
<1>2. CASE PlaybackEvent
  <2>1. PICK w \in Wanted \cup {None} : UpdateImage(w)
    BY <1>2 DEF PlaybackEvent
  <2>2. FetcherTypeOK' /\ MainTypeOK'
    BY <1>2, <2>1, UpdateImageType DEF PlaybackEvent, InMain, MainTypeOK, MainPcs
  <2>3. WorkerTypeOK' /\ KeyTypeOK' /\ SharedTypeOK'
    BY <1>2, FrameType DEF PlaybackEvent, mainFrame
  <2>4. FlagTypeOK'
    <3>1. UNCHANGED workerAvailable
      BY <2>1 DEF UpdateImage, CancelPendingRequest, GetArtUrl
    <3> QED
      BY <1>2, <3>1, FrameType DEF PlaybackEvent, mainFrame
  <2> QED
    BY <2>2, <2>3, <2>4 DEF TypeOK
<1>3. CASE Quit \/ SaveCache
  <2>1. FetcherTypeOK' /\ WorkerTypeOK' /\ KeyTypeOK'
    BY <1>3, FrameType DEF Quit, SaveCache, mainFrame
  <2>2. MainTypeOK'
    BY <1>3 DEF Quit, SaveCache, InMain, TypeOK, MainTypeOK, MainPcs
  <2>3. SharedTypeOK'
    BY <1>3 DEF Quit, SaveCache, mainFrame, WriteFile, TypeOK, FetcherTypeOK, SharedTypeOK
  <2>4. FlagTypeOK'
    BY <1>3, Zenon DEF Quit, SaveCache, fetcherVars, mainFrame, TypeOK, FlagTypeOK
  <2> QED
    BY <2>1, <2>2, <2>3, <2>4 DEF TypeOK
<1>4. CASE LoadCache \/ ClearCache \/ \E p \in Provider : InvalidateProviderCache(p)
  <2>1. PICK c \in Cache, ra \in [CacheKey -> Nat] : ReplaceCache(c, ra)
    <3>1. CASE LoadCache
      BY <3>1, FreshOnlyType, EmptyMaps DEF LoadCache, TypeOK, SharedTypeOK
    <3>2. CASE ClearCache
      BY <3>2, EmptyMaps DEF ClearCache
    <3>3. ASSUME NEW p \in Provider, InvalidateProviderCache(p)
          PROVE  \E c \in Cache, ra \in [CacheKey -> Nat] : ReplaceCache(c, ra)
      <4> DEFINE gone == {k \in CacheKey : ProviderOf[k] = p}
                 c == [k \in CacheKey |-> IF k \in gone THEN None ELSE cache[k]]
                 ra == [k \in CacheKey |-> IF k \in gone THEN 0 ELSE retryAfter[k]]
      <4>1. c \in Cache /\ ra \in [CacheKey -> Nat]
        BY DEF TypeOK, FetcherTypeOK, Cache
      <4>2. ReplaceCache(c, ra)
        BY <3>3 DEF InvalidateProviderCache
      <4> HIDE DEF c, ra
      <4> QED
        BY <4>1, <4>2
    <3> QED
      BY <1>4, <3>1, <3>2, <3>3
  <2>2. FetcherTypeOK'
    BY <2>1, ReplaceCacheType
  <2>3. WorkerTypeOK' /\ KeyTypeOK'
    BY <1>4, FrameType DEF LoadCache, ClearCache, InvalidateProviderCache
  <2>4. MainTypeOK' /\ SharedTypeOK'
    BY <1>4 DEF LoadCache, ClearCache, InvalidateProviderCache, InMain, TypeOK, MainTypeOK,
       MainPcs, SharedTypeOK
  <2>5. FlagTypeOK'
    <3>1. UNCHANGED <<workerAvailable, stopRequested, aborting>>
      BY <1>4 DEF LoadCache, ClearCache, InvalidateProviderCache
    <3>2. outdated' \in BOOLEAN
      BY <2>1 DEF ReplaceCache
    <3> QED
      BY <3>1, <3>2, Zenon DEF TypeOK, FlagTypeOK
  <2> QED
    BY <2>2, <2>3, <2>4, <2>5 DEF TypeOK
<1>5. ASSUME NEW a \in ApiKey, ResetRejectedApiKeyState(a) PROVE TypeOK'
  <2>1. FetcherTypeOK' /\ WorkerTypeOK' /\ SharedTypeOK'
    BY <1>5, FrameType DEF ResetRejectedApiKeyState
  <2>2. KeyTypeOK'
    BY <1>5 DEF ResetRejectedApiKeyState, TypeOK, KeyTypeOK
  <2>3. MainTypeOK'
    BY <1>5 DEF ResetRejectedApiKeyState, InMain, TypeOK, MainTypeOK, MainPcs
  <2>4. FlagTypeOK'
    BY <1>5, FrameType DEF ResetRejectedApiKeyState, fetcherVars
  <2> QED
    BY <2>1, <2>2, <2>3, <2>4 DEF TypeOK
<1> QED
  BY <1>1, <1>2, <1>3, <1>4, <1>5 DEF UserAction

(* Every step keeps the type invariant: one case per group of actions. *)
LEMMA StepType == TypeOK /\ NoThreadWhenOff /\ [Next]_vars => TypeOK'
<1> SUFFICES ASSUME TypeOK, NoThreadWhenOff, [Next]_vars PROVE TypeOK'
  OBVIOUS
<1>1. CASE UNCHANGED vars
  BY <1>1, FrameType DEF vars, fetcherVars, mainVars, TypeOK
<1>2. CASE WorkerFails
  <2>1. FetcherTypeOK'
    BY <1>2 DEF WorkerFails, Supersede, TypeOK, FetcherTypeOK, Status
  <2>2. WorkerTypeOK'
    BY <1>2 DEF WorkerFails, EndIteration, TypeOK, WorkerTypeOK, WorkerPcs, InIteration, Outcome
  <2>3. KeyTypeOK' /\ MainTypeOK' /\ SharedTypeOK'
    BY <1>2, FrameType DEF WorkerFails, workerFrame
  <2>4. FlagTypeOK'
    BY <1>2, Zenon DEF WorkerFails, EndIteration, workerFrame, mainVars, TypeOK, FlagTypeOK
  <2> QED
    BY <2>1, <2>2, <2>3, <2>4 DEF TypeOK
<1>3. CASE ProcessEnds
  <2>1. FetcherTypeOK' /\ KeyTypeOK'
    BY <1>3, EmptyMaps DEF ProcessEnds, FetcherTypeOK, KeyTypeOK, Status
  <2>2. WorkerTypeOK'
    BY <1>3 DEF ProcessEnds, WorkerTypeOK, WorkerPcs, InIteration, Outcome
  <2>3. MainTypeOK' /\ SharedTypeOK'
    BY <1>3 DEF ProcessEnds, TypeOK, MainTypeOK, MainPcs, SharedTypeOK
  <2>4. FlagTypeOK'
    BY <1>3, Zenon DEF ProcessEnds, FlagTypeOK
  <2> QED
    BY <2>1, <2>2, <2>3, <2>4 DEF TypeOK
<1>4. CASE Tick
  <2>1. FetcherTypeOK' /\ WorkerTypeOK' /\ KeyTypeOK' /\ MainTypeOK' /\ FlagTypeOK'
    BY <1>4, FrameType DEF Tick, fetcherVars, mainVars
  <2>2. SharedTypeOK'
    BY <1>4 DEF Tick, TypeOK, SharedTypeOK
  <2> QED
    BY <2>1, <2>2 DEF TypeOK
<1>5. ASSUME NEW a \in ApiKey, TestRefused(a) PROVE TypeOK'
  <2>1. KeyTypeOK'
    BY <1>5, MarkKeyType DEF TestRefused
  <2> QED
    BY <1>5, <2>1, FrameType DEF TestRefused, fetcherVars, mainVars, TypeOK
<1> QED
  BY <1>1, <1>2, <1>3, <1>4, <1>5, WorkerStepType, MainStepType, UserStepType DEF Next

(***************************************************************************)
(* Type correctness: no handler, answer, failure, restart or eviction ever *)
(* gives a variable a value outside its type, and the worker holds a work  *)
(* item exactly while it fetches and commits.                              *)
(***************************************************************************)
THEOREM TypeCorrect == Spec => []TypeOK
<1>1. Init => TypeOK /\ NoThreadWhenOff
  BY InitType DEF Init, NoThreadWhenOff
<1>2. TypeOK /\ NoThreadWhenOff /\ [Next]_vars => (TypeOK /\ NoThreadWhenOff)'
  BY StepType, NoThreadStep
<1> QED
  BY <1>1, <1>2, PTL DEF Spec
=============================================================================

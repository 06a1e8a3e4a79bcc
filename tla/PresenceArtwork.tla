---------------------------- MODULE PresenceArtwork ----------------------------
(***************************************************************************)
(* The presence and the artwork fetcher together.  They meet in            *)
(* PresenceModifier::UpdateImage (discord/presence_data.cpp): a handler of *)
(* the main thread asks the fetcher for the artwork of the track it        *)
(* formats, and the worker's result comes back as a callback that asks     *)
(* again.  A handler is one step of both: the action of DiscordPresence    *)
(* whose image is what the fetcher's action, in the same step, answers.    *)
(*                                                                         *)
(* The two calls of UpdateImage that OnSettingsChanged makes ask for the   *)
(* same and are one.  Of the settings the policy changes; the others, the  *)
(* cache file and the keys of providers are left to the two modules.       *)
(***************************************************************************)
EXTENDS Integers, Sequences, FiniteSets

CONSTANTS
    Track, Title, Plain, TextOf, LengthOf, Token, MaxEpoch, MaxGeneration,
    Request, CacheKey, KeyOf, MaxEntries, MaxGen, Cooldown,
    None,
    ListOf,    \* [Track -> [Text -> Seq(Request)]]: the enabled providers' requests
    Icon       \* the key of the configured large image

Policy == {"PreferArtwork", "ApplicationIcon", "ArtworkOnly"}
Image == Request \cup {Icon, None}

VARIABLES
    policy,    \* artworkDisplayPolicy
    config, player, adapter, needPresenceRefresh, hasScheduledDynamicUpdate, timers, discord,
    current, cache, retryAfter, requestGen, cacheGen, workerAvailable, status,
    pc, lastRequest, work, outcome, stopRequested, posted, rejected, limitedUntil,
    mainPc, aborting, wanted, image, disk, now, outdated

P == INSTANCE DiscordPresence WITH MaxPosted <- 0, aborting <- mainPc = "exited"

(* The lists that UpdateImage can ask for: the text is of the playing track, the *)
(* handle may be an earlier one.                                                 *)
Wanted == {ListOf[t][x] : t \in Track, x \in P!Text}

F == INSTANCE ArtworkFetcher WITH
        Provider <- {}, ApiKey <- {}, ProviderOf <- [k \in CacheKey |-> None],
        ApiKeyOf <- [r \in Request |-> None], Executable <- Request,
        PositiveLifetime <- 1, NegativeLifetime <- 1, MaxTime <- 1

ASSUME PresenceArtworkAssumption ==
    /\ P!PresenceAssumption /\ F!ConstantsAssumption /\ F!NoneAssumption
    /\ ListOf \in [Track -> [P!Text -> Seq(Request)]]
    /\ Icon # None /\ Icon \notin Request

presenceVars == <<config, player, adapter, needPresenceRefresh, hasScheduledDynamicUpdate,
                  timers, discord>>
fetcherVars == <<current, cache, retryAfter, requestGen, cacheGen, workerAvailable, status,
                 pc, lastRequest, work, outcome, stopRequested, posted, rejected, limitedUntil,
                 mainPc, aborting, wanted, image, disk, now, outdated>>
vars == <<policy, presenceVars, fetcherVars>>

-----------------------------------------------------------------------------
(* Mutant: the list does not depend on the policy. *)
ListAlways(handle, p) ==
    IF handle = None THEN None ELSE ListOf[handle][P!TextFor(p, handle)]

(* What UpdateImage asks the fetcher for: nothing, which cancels, or the *)
(* list of ResolveTrackArtUrl.                                           *)
List(handle, p) ==
    IF handle = None \/ policy' = "ApplicationIcon" THEN None
    ELSE ListOf[handle][P!TextFor(p, handle)]

(* Mutant: the last image stays until there is another. *)
LargeImageKept(url) ==
    IF url # None THEN url
    ELSE IF policy' = "ArtworkOnly" THEN None
    ELSE IF adapter.data.image = None THEN Icon ELSE adapter.data.image

(* What UpdateImage makes of the fetcher's answer. *)
LargeImage(url) ==
    IF url # None THEN url ELSE IF policy' = "ArtworkOnly" THEN None ELSE Icon

Init ==
    /\ policy \in Policy
    /\ F!Init /\ P!Init
    /\ adapter.isInitialized =>
          adapter.data.image = (IF policy = "ArtworkOnly" THEN None ELSE Icon)

(* The fetcher's part of a handler that asks for the artwork of a handle. *)
Asks(handle) == wanted' = List(handle, player')

(* A handler that formats the playing track, by its handle or the saved one. *)
HandlerAsks ==
    /\ UNCHANGED policy /\ F!PlaybackEvent
    /\ LET i == LargeImage(image') IN
          \/ \E t \in Track : P!OnPlaybackNewTrack(t, i) /\ Asks(t)
          \/ P!OnPlaybackEdited(i) /\ Asks(player.track)
          \/ /\ \/ P!OnPlaybackPause(i) \/ P!OnPlaybackDynamicInfoTrack(i)
                \/ P!DynamicUpdateTimer(i)
                \/ needPresenceRefresh /\ P!OnPlaybackTime(i)
                \/ ~hasScheduledDynamicUpdate /\ P!OnPlaybackDynamicInfo(i)
             /\ Asks(adapter.data.metadb)

(* A handler that leaves the fetcher alone, and what runs without one. *)
HandlerDoesNotAsk ==
    /\ mainPc = "idle" /\ UNCHANGED <<policy, fetcherVars>>
    /\ \/ P!OnPlaybackStop \/ P!OnPlaybackSeek \/ P!OnPlaybackResume
       \/ ~needPresenceRefresh /\ P!OnPlaybackTime(None)
       \/ hasScheduledDynamicUpdate /\ P!OnPlaybackDynamicInfo(None)
       \/ \E g \in P!Generation : P!PumpCallbacks(g)

(* Apply with another policy. *)
OnSettingsChanged ==
    /\ policy' \in Policy \ {policy} /\ UNCHANGED <<config, player>>
    /\ Asks(adapter.data.metadb)
    /\ F!PlaybackEvent
    /\ P!OnSettingsChanged(LargeImage(image'))

(* The worker's callback, and the end of a cache button's handler. *)
RefreshImage ==
    /\ UNCHANGED <<policy, player>>
    /\ Asks(adapter.data.metadb)
    /\ F!RefreshImage \/ F!ReEvaluateTrack
    /\ P!RefreshImage(LargeImage(image'))

(* on_quit ends with the adapter's Finalize. *)
Quit == UNCHANGED policy /\ F!FinalSave /\ P!Quit

FetcherStep ==
    /\ UNCHANGED <<policy, presenceVars>>
    /\ \/ F!Initialize \/ F!WorkerProgress \/ F!WorkerFails
       \/ F!ClearCache \/ F!Quit \/ F!StopThread \/ F!RequestStop \/ F!JoinWorker

Next ==
    \/ HandlerAsks \/ HandlerDoesNotAsk \/ OnSettingsChanged \/ RefreshImage \/ Quit
    \/ FetcherStep

Spec == Init /\ [][Next]_vars
-----------------------------------------------------------------------------
(* Properties. *)

(* Any request with the key of a listed one names its artwork. *)
ArtworkOf(list) == {r \in Request : \E i \in DOMAIN list : KeyOf[r] = KeyOf[list[i]]}

(* Artwork of an earlier track or title is never shown with a later one,  *)
(* whatever results arrive late: unless an update of the title is due, it *)
(* is that of the playing track, or of the one whose handle the adapter   *)
(* kept because the playing track looks the same (presence_stale_handle). *)
ArtworkIsRight ==
    adapter.hasPresence /\ adapter.data.image \in Request /\ timers = 0 =>
        \E t \in {player.track, adapter.data.metadb} \cap Track :
           adapter.data.image \in ArtworkOf(ListOf[t][P!TextFor(player, t)])

(* Once the posted refreshes have run, the status in Preferences agrees with *)
(* the presence: resolved artwork is in it, and no match has left none.      *)
StatusMatchesPresence ==
    F!NothingQueued /\ wanted # None /\ timers = 0 =>
        /\ status = "Resolved" => adapter.data.image \in Request
        /\ status = "NotFound" => adapter.data.image \notin Request

(* Results that arrive after the policy changed do not undo it: with the icon *)
(* only, nothing is fetched nor shown but the icon, and with artwork only the *)
(* icon never comes back.                                                     *)
PolicyIsObeyed ==
    /\ policy = "ApplicationIcon" => current = None /\ adapter.data.image \notin Request
    /\ policy = "ArtworkOnly" => adapter.data.image # Icon
=============================================================================

--------------------------- MODULE DiscordPresence ---------------------------
(***************************************************************************)
(* The presence itself: DiscordAdapter and PresenceModifier (discord/),    *)
(* the playback callbacks (fb2k/callbacks/playback.cpp), the menu command  *)
(* and the settings that reach them.  Everything here runs on foobar2000's *)
(* main thread, one handler at a time; what interleaves are the playback   *)
(* events, the callbacks queued with inMainThread and callLater, and the   *)
(* connection to the Discord client.                                       *)
(*                                                                         *)
(* Data abstraction.  The three text lines are one Text, a function of the *)
(* track and of its dynamic title.  The large image that a handler's call  *)
(* of UpdateImage chooses is its argument: here any member of Image, and   *)
(* in module PresenceArtwork what the fetcher answers.  A timestamp is named by the epoch  *)
(* of the playback timeline it was computed from; every new track, seek    *)
(* and resume starts an epoch, and 0 means no timestamp.                   *)
(***************************************************************************)
EXTENDS Naturals, FiniteSets

CONSTANTS
    Track,            \* metadb handles
    Title,            \* dynamic titles of a stream
    Plain,            \* the title of a track without dynamic info
    TextOf,           \* [Track -> [Title -> Text]]: the title formatting
    LengthOf,         \* [Track -> Nat], 0 if unknown
    Image,            \* what UpdateImage can choose; None is no image
    Token,            \* Discord application ids
    None,             \* no handle, an empty token, no presence, no image
    MaxEpoch,         \* bound: playback events stop at this epoch
    MaxGeneration,    \* bound: token changes stop at this callbackGeneration_
    MaxPosted         \* bound: connections stop at so many queued callbacks

ASSUME PresenceAssumption ==
    /\ Plain \in Title
    /\ DOMAIN TextOf = Track /\ \A t \in Track : DOMAIN TextOf[t] = Title
    /\ LengthOf \in [Track -> Nat]
    /\ None \notin Track /\ None \notin Token
    /\ Token # {} /\ MaxEpoch \in Nat /\ MaxGeneration \in Nat \ {0} /\ MaxPosted \in Nat

VARIABLES
    config,           \* isEnabled, disableWhenPaused, discordAppToken
    player,           \* foobar2000: state, track, title, epoch, settling
    adapter,          \* DiscordAdapter and the discord-rpc library behind it
    needPresenceRefresh,
    hasScheduledDynamicUpdate,
    timers,           \* dynamic updates queued with callLater
    aborting,         \* GlobalAbortCallback
    discord           \* the Discord client: connected, shown

callbackVars == <<needPresenceRefresh, hasScheduledDynamicUpdate, timers>>
vars == <<config, player, adapter, callbackVars, aborting, discord>>

Text == UNION {{TextOf[t][x] : x \in Title} : t \in Track}
Generation == 0 .. MaxGeneration + 2
Small == {"playing", "paused"}

-----------------------------------------------------------------------------
(* PresenceData.  Its operator== ignores metadb, so what it compares, and  *)
(* what Discord gets to see, is the view.                                  *)
PresenceData == [metadb : Track \cup {None}, text : Text \cup {None}, length : Nat,
                 image : Image \cup {None}, small : Small \cup {None}, stamp : Nat]

EmptyData == [metadb |-> None, text |-> None, length |-> 0, image |-> None, small |-> None,
              stamp |-> 0]

View(pd) == [pd EXCEPT !.metadb = None]
HasChanged(a, pd) == View(pd) # View(a.data)

(* EvaluateQueryForPlayingTrack: the playing track if there is one, the *)
(* saved handle otherwise.                                              *)
TextFor(p, metadb) ==
    IF p.state # "stopped" THEN TextOf[p.track][p.title]
    ELSE IF metadb # None THEN TextOf[metadb][Plain] ELSE None
LengthFor(p, metadb) ==
    IF p.state # "stopped" THEN LengthOf[p.track]
    ELSE IF metadb # None THEN LengthOf[metadb] ELSE 0

(* %playback_time_seconds% may lag behind a seek or a resume. *)
PositionEpochs(p) == IF p.settling THEN {p.epoch - 1, p.epoch} ELSE {p.epoch}

UpdatedDuration(pd, p, epoch) ==
    [pd EXCEPT !.stamp = IF pd.length > 0 /\ p.state = "playing" THEN epoch ELSE 0]

UpdatedSmallImage(pd, p) ==
    [pd EXCEPT !.small = IF p.state = "paused" THEN "paused" ELSE "playing"]

UpdatedImage(pd, image) == [pd EXCEPT !.image = image]

UpdatedTrack(pd, p, track, image, epoch) ==
    LET metadb == IF track # None THEN track ELSE pd.metadb IN
    UpdatedDuration([pd EXCEPT !.metadb = metadb, !.text = TextFor(p, metadb),
                               !.length = LengthFor(p, metadb), !.image = image],
                    p, epoch)

-----------------------------------------------------------------------------
(* DiscordAdapter, as operators from an adapter to the adapter after the   *)
(* call: p is the player and c the configuration that the call sees.       *)

(* Discord_RunCallbacks: OnReady queues its callback. *)
RunCallbacks(a) ==
    [a EXCEPT !.readyPosted = IF "ready" \in a.events THEN @ + 1 ELSE @, !.events = {}]

ClearPresence(a) ==
    IF ~a.isInitialized THEN [a EXCEPT !.hasPresence = FALSE]
    ELSE RunCallbacks([a EXCEPT !.queued = None, !.hasPresence = FALSE])

SendPresence(a, c) ==
    IF ~a.isInitialized THEN a
    ELSE IF c.isEnabled
    THEN RunCallbacks([a EXCEPT !.queued = View(a.data), !.hasPresence = TRUE])
    ELSE RunCallbacks([a EXCEPT !.queued = None, !.hasPresence = FALSE])

SuppressedWhenPaused(p, c) == p.state = "paused" /\ c.disableWhenPaused

(* Mutant of ~PresenceModifier: it sends before it saves. *)
ClosedSendsFirst(a, pd, isDisabled, p, c) ==
    IF isDisabled \/ p.state = "stopped" \/ SuppressedWhenPaused(p, c)
    THEN IF a.hasPresence THEN ClearPresence([a EXCEPT !.data = pd]) ELSE [a EXCEPT !.data = pd]
    ELSE IF ~a.hasPresence \/ HasChanged(a, pd)
         THEN [SendPresence(a, c) EXCEPT !.data = pd] ELSE a

(* ~PresenceModifier: save what changed, then hide or send the presence. *)
Closed(a, pd, isDisabled, p, c) ==
    LET hasChanged == HasChanged(a, pd)
        saved == IF hasChanged THEN [a EXCEPT !.data = pd] ELSE a
    IN  IF isDisabled \/ p.state = "stopped" \/ SuppressedWhenPaused(p, c)
        THEN IF a.hasPresence THEN ClearPresence(saved) ELSE saved
        ELSE IF ~a.hasPresence \/ hasChanged THEN SendPresence(saved, c) ELSE saved

ScheduleCallbackPump(a) == [a EXCEPT !.pumps[a.callbackGeneration] = @ + 1]

(* Discord_Initialize, the pump and the first, disabled, modifier. *)
Initialized(a, image, p, c) ==
    IF c.token = None
    THEN [a EXCEPT !.appToken = None, !.isInitialized = FALSE, !.hasPresence = FALSE]
    ELSE LET started == [a EXCEPT !.appToken = c.token, !.isInitialized = TRUE,
                                  !.hasPresence = TRUE,
                                  !.callbackGeneration = a.callbackGeneration + 1]
             pumped == ScheduleCallbackPump(RunCallbacks(started))
         IN  Closed(pumped, UpdatedImage(pumped.data, image), TRUE, p, c)

(* Discord_ClearPresence and Discord_Shutdown *)
Finalized(a) ==
    IF ~a.isInitialized THEN [a EXCEPT !.hasPresence = FALSE]
    ELSE [a EXCEPT !.hasPresence = FALSE, !.isInitialized = FALSE, !.queued = None,
                   !.events = {}, !.callbackGeneration = a.callbackGeneration + 1]

SettingsChanged(a, image, epoch, p, c) ==
    LET restarted == IF a.appToken # c.token THEN Initialized(Finalized(a), image, p, c) ELSE a
        pd == UpdatedTrack(UpdatedSmallImage(restarted.data, p), p, None, image, epoch)
    IN  Closed(restarted, pd, ~c.isEnabled, p, c)

-----------------------------------------------------------------------------
Init ==
    /\ config \in [isEnabled : BOOLEAN, disableWhenPaused : BOOLEAN, token : Token \cup {None}]
    /\ player = [state |-> "stopped", track |-> None, title |-> Plain, epoch |-> 0,
                 settling |-> FALSE]
    /\ \E image \in Image :
          adapter = Initialized([isInitialized |-> FALSE, hasPresence |-> FALSE,
                                 callbackGeneration |-> 0, appToken |-> None,
                                 data |-> EmptyData, pumps |-> [g \in Generation |-> 0],
                                 readyPosted |-> 0, queued |-> None, events |-> {}],
                                image, player, config)
    /\ needPresenceRefresh = FALSE /\ hasScheduledDynamicUpdate = FALSE /\ timers = 0
    /\ aborting = FALSE
    /\ discord = [connected |-> FALSE, shown |-> None]

(* The modifier that UpdateTrackNow and on_playback_changed open and close. *)
UpdateTrackNow(track, updateSmallImage, image) ==
    \E epoch \in PositionEpochs(player') :
       LET pd == UpdatedTrack(adapter.data, player', track, image, epoch) IN
       adapter' = Closed(adapter, IF updateSmallImage THEN UpdatedSmallImage(pd, player') ELSE pd,
                         FALSE, player', config)

PlaybackChanged(track, image) == UpdateTrackNow(track, FALSE, image)

-----------------------------------------------------------------------------
(* The playback callbacks. *)

(* A track may also start in pause. *)
OnPlaybackNewTrack(t, image) ==
    /\ player.epoch < MaxEpoch
    /\ \E state \in {"playing", "paused"} :
          player' = [state |-> state, track |-> t, title |-> Plain,
                     epoch |-> player.epoch + 1, settling |-> FALSE]
    /\ UpdateTrackNow(t, TRUE, image)
    /\ UNCHANGED <<config, callbackVars, aborting, discord>>

(* A stop that does not start another track. *)
OnPlaybackStop ==
    /\ player.state # "stopped"
    /\ player' = [player EXCEPT !.state = "stopped", !.settling = FALSE]
    /\ adapter' = Closed(adapter, adapter.data, TRUE, player', config)
    /\ UNCHANGED <<config, callbackVars, aborting, discord>>

(* Mutant: a seek asks for no refresh. *)
SeekUnnoticed ==
    /\ player.state # "stopped" /\ player.epoch < MaxEpoch
    /\ player' = [player EXCEPT !.epoch = @ + 1, !.settling = TRUE]
    /\ UNCHANGED <<config, adapter, callbackVars, aborting, discord>>

(* A track that plays or is paused: on_playback_time will refresh.  The other *)
(* branch of the handler is for a seek while stopped, which the host does not *)
(* report.                                                                    *)
OnPlaybackSeek ==
    /\ player.state # "stopped" /\ player.epoch < MaxEpoch
    /\ player' = [player EXCEPT !.epoch = @ + 1, !.settling = TRUE]
    /\ needPresenceRefresh' = TRUE
    /\ UNCHANGED <<config, adapter, hasScheduledDynamicUpdate, timers, aborting, discord>>

OnPlaybackPause(image) ==
    /\ player.state = "playing"
    /\ player' = [player EXCEPT !.state = "paused"]
    /\ UpdateTrackNow(None, TRUE, image)
    /\ UNCHANGED <<config, callbackVars, aborting, discord>>

OnPlaybackResume ==
    /\ player.state = "paused" /\ player.epoch < MaxEpoch
    /\ player' = [player EXCEPT !.state = "playing", !.epoch = @ + 1, !.settling = TRUE]
    /\ needPresenceRefresh' = TRUE
    /\ UNCHANGED <<config, adapter, hasScheduledDynamicUpdate, timers, aborting, discord>>

(* The tags of the playing track were edited, or its stream changed track. *)
OnPlaybackEdited(image) ==
    /\ player.state # "stopped"
    /\ \E x \in Title : player' = [player EXCEPT !.title = x]
    /\ PlaybackChanged(player.track, image)
    /\ UNCHANGED <<config, callbackVars, aborting, discord>>

OnPlaybackDynamicInfoTrack(image) ==
    /\ player.state = "playing"
    /\ \E x \in Title : player' = [player EXCEPT !.title = x]
    /\ PlaybackChanged(None, image)
    /\ UNCHANGED <<config, callbackVars, aborting, discord>>

(* ScheduleDynamicTrackUpdate: a change is rolled back and postponed.  The  *)
(* modifier closes either way.                                              *)
ScheduleDynamicTrackUpdate(image) ==
    \E epoch \in PositionEpochs(player') :
       LET pd == UpdatedTrack(adapter.data, player', None, image, epoch) IN
       /\ IF HasChanged(adapter, pd)
          THEN hasScheduledDynamicUpdate' = TRUE /\ timers' = timers + 1
          ELSE UNCHANGED <<hasScheduledDynamicUpdate, timers>>
       /\ adapter' = Closed(adapter, IF HasChanged(adapter, pd) THEN adapter.data ELSE pd,
                            FALSE, player', config)

(* Mutant: every dynamic title postpones an update of its own. *)
DynamicInfoAlways(image) ==
    /\ player.state = "playing"
    /\ \E x \in Title : player' = [player EXCEPT !.title = x]
    /\ ScheduleDynamicTrackUpdate(image)
    /\ UNCHANGED <<config, needPresenceRefresh, aborting, discord>>

OnPlaybackDynamicInfo(image) ==
    /\ player.state = "playing"
    /\ \E x \in Title : player' = [player EXCEPT !.title = x]
    /\ IF hasScheduledDynamicUpdate
       THEN UNCHANGED <<adapter, hasScheduledDynamicUpdate, timers>>
       ELSE ScheduleDynamicTrackUpdate(image)
    /\ UNCHANGED <<config, needPresenceRefresh, aborting, discord>>

(* Mutant: the postponed update only resets the flag. *)
TimerUpdatesNothing(image) ==
    /\ timers > 0 /\ timers' = timers - 1
    /\ hasScheduledDynamicUpdate' = FALSE
    /\ UNCHANGED <<config, player, adapter, needPresenceRefresh, aborting, discord>>

DynamicUpdateTimer(image) ==
    /\ timers > 0 /\ timers' = timers - 1
    /\ hasScheduledDynamicUpdate' = FALSE
    /\ UNCHANGED player
    /\ IF aborting THEN UNCHANGED adapter ELSE PlaybackChanged(None, image)
    /\ UNCHANGED <<config, needPresenceRefresh, aborting, discord>>

(* Once per second of playback; the position has settled by then. *)
OnPlaybackTime(image) ==
    /\ player.state = "playing"
    /\ player' = [player EXCEPT !.settling = FALSE]
    /\ IF needPresenceRefresh THEN UpdateTrackNow(None, TRUE, image) ELSE UNCHANGED adapter
    /\ needPresenceRefresh' = FALSE
    /\ UNCHANGED <<config, hasScheduledDynamicUpdate, timers, aborting, discord>>

-----------------------------------------------------------------------------
(* Settings, the artwork worker's callback, and Discord. *)

(* The menu command toggles isEnabled; Apply may change all of them. *)
OnSettingsChanged(image) ==
    /\ ~aborting
    /\ \E c \in [isEnabled : BOOLEAN, disableWhenPaused : BOOLEAN, token : Token \cup {None}] :
          /\ c.token # config.token => adapter.callbackGeneration < MaxGeneration
          /\ config' = c
    /\ \E epoch \in PositionEpochs(player) :
          adapter' = SettingsChanged(adapter, image, epoch, player, config')
    /\ discord' = IF adapter'.appToken # adapter.appToken
                  THEN [connected |-> FALSE, shown |-> None] ELSE discord
    /\ UNCHANGED <<player, callbackVars, aborting>>

(* The callback that the artwork worker posts, or a cache button. *)
RefreshImage(image) ==
    /\ ~aborting
    /\ adapter' = Closed(adapter, UpdatedImage(adapter.data, image), FALSE, player, config)
    /\ UNCHANGED <<config, player, callbackVars, aborting, discord>>

(* Mutant: a pump of an earlier generation goes on. *)
PumpAnyGeneration(g) ==
    LET a == [adapter EXCEPT !.pumps[g] = @ - 1] IN
    /\ adapter.pumps[g] > 0
    /\ adapter' = IF a.isInitialized THEN ScheduleCallbackPump(RunCallbacks(a)) ELSE a
    /\ UNCHANGED <<config, player, callbackVars, aborting, discord>>

PumpCallbacks(g) ==
    LET a == [adapter EXCEPT !.pumps[g] = @ - 1] IN
    /\ adapter.pumps[g] > 0
    /\ adapter' = IF a.isInitialized /\ g = a.callbackGeneration
                  THEN ScheduleCallbackPump(RunCallbacks(a)) ELSE a
    /\ UNCHANGED <<config, player, callbackVars, aborting, discord>>

(* Mutants: a paused presence is restored; one that was sent is not sent again. *)
ReadyInPause ==
    LET a == [adapter EXCEPT !.readyPosted = @ - 1] IN
    /\ adapter.readyPosted > 0
    /\ adapter' = IF a.isInitialized /\ config.isEnabled /\ player.state # "stopped"
                  THEN SendPresence(a, config) ELSE a
    /\ UNCHANGED <<config, player, callbackVars, aborting, discord>>

ReadySendsOnce ==
    LET a == [adapter EXCEPT !.readyPosted = @ - 1] IN
    /\ adapter.readyPosted > 0
    /\ adapter' = IF /\ a.isInitialized /\ config.isEnabled /\ player.state # "stopped"
                     /\ ~SuppressedWhenPaused(player, config) /\ ~a.hasPresence
                  THEN SendPresence(a, config) ELSE a
    /\ UNCHANGED <<config, player, callbackVars, aborting, discord>>

(* What OnReady queued with inMainThread. *)
ReadyCallback ==
    LET a == [adapter EXCEPT !.readyPosted = @ - 1] IN
    /\ adapter.readyPosted > 0
    /\ adapter' = IF /\ a.isInitialized /\ config.isEnabled /\ player.state # "stopped"
                     /\ ~SuppressedWhenPaused(player, config)
                  THEN SendPresence(a, config) ELSE a
    /\ UNCHANGED <<config, player, callbackVars, aborting, discord>>

(* on_quit: Abort, and the last Finalize. *)
Quit ==
    /\ ~aborting /\ aborting' = TRUE
    /\ adapter' = Finalized(adapter)
    /\ discord' = [connected |-> FALSE, shown |-> None]
    /\ UNCHANGED <<config, player, callbackVars>>

(* The Discord client starts or reconnects, and the library connects to it: *)
(* what was queued for it may be lost.                                      *)
DiscordConnects ==
    /\ adapter.isInitialized /\ ~discord.connected
    /\ adapter.readyPosted < MaxPosted
    /\ discord' = [discord EXCEPT !.connected = TRUE]
    /\ \E q \in {adapter.queued, None} :
          adapter' = [adapter EXCEPT !.events = @ \cup {"ready"}, !.queued = q]
    /\ UNCHANGED <<config, player, callbackVars, aborting>>

DiscordDisconnects ==
    /\ discord.connected
    /\ discord' = [connected |-> FALSE, shown |-> None]
    /\ UNCHANGED <<config, player, adapter, callbackVars, aborting>>

DiscordReceives ==
    /\ discord.connected
    /\ discord' = [discord EXCEPT !.shown = adapter.queued]
    /\ UNCHANGED <<config, player, adapter, callbackVars, aborting>>

PlaybackEvent(image) ==
    \/ \E t \in Track : OnPlaybackNewTrack(t, image)
    \/ OnPlaybackPause(image) \/ OnPlaybackEdited(image)
    \/ OnPlaybackDynamicInfoTrack(image) \/ OnPlaybackDynamicInfo(image)

Next ==
    \/ OnPlaybackStop \/ OnPlaybackSeek \/ OnPlaybackResume \/ Quit
    \/ \E image \in Image :
          \/ PlaybackEvent(image) \/ OnPlaybackTime(image) \/ DynamicUpdateTimer(image)
          \/ OnSettingsChanged(image) \/ RefreshImage(image)
    \/ \E g \in Generation : PumpCallbacks(g)
    \/ ReadyCallback \/ DiscordConnects \/ DiscordDisconnects \/ DiscordReceives

Spec == Init /\ [][Next]_vars

(* foobar2000 runs what is queued, and reports the time while it plays. *)
Fairness ==
    /\ \A g \in Generation : WF_vars(PumpCallbacks(g))
    /\ WF_vars(ReadyCallback) /\ WF_vars(DiscordReceives)
    /\ WF_vars(\E image \in Image : OnPlaybackTime(image))
    /\ WF_vars(\E image \in Image : DynamicUpdateTimer(image))

FairSpec == Spec /\ Fairness
-----------------------------------------------------------------------------
(***************************************************************************)
(* Properties.                                                             *)
(***************************************************************************)
Adapter == [isInitialized : BOOLEAN, hasPresence : BOOLEAN, callbackGeneration : Generation,
            appToken : Token \cup {None}, data : PresenceData, pumps : [Generation -> Nat],
            readyPosted : Nat, queued : PresenceData \cup {None}, events : SUBSET {"ready"}]
Player == [state : {"stopped", "playing", "paused"}, track : Track \cup {None}, title : Title,
           epoch : Nat, settling : BOOLEAN]

(* Every variable has its type, and two flags say what they stand for.  The   *)
(* flag of a postponed title is set exactly while its callback is queued, so  *)
(* that however many titles a stream reports in between, one update of the    *)
(* presence is under way.  The adapter is initialised exactly if an           *)
(* application id is configured and the program does not quit, and under that *)
(* id, whatever sequence of ids the settings went through.                    *)
TypeOK ==
    /\ config \in [isEnabled : BOOLEAN, disableWhenPaused : BOOLEAN, token : Token \cup {None}]
    /\ player \in Player /\ (player.state # "stopped" => player.track \in Track)
    /\ adapter \in Adapter
    /\ needPresenceRefresh \in BOOLEAN /\ hasScheduledDynamicUpdate \in BOOLEAN
    /\ timers = IF hasScheduledDynamicUpdate THEN 1 ELSE 0
    /\ aborting \in BOOLEAN
    /\ adapter.isInitialized <=> config.token # None /\ ~aborting
    /\ adapter.appToken = config.token
    /\ discord \in [connected : BOOLEAN, shown : PresenceData \cup {None}]

MayShow ==
    /\ config.isEnabled /\ adapter.isInitialized
    /\ player.state # "stopped" /\ ~SuppressedWhenPaused(player, config)

(* Discord is never told of a presence that the settings or the state of    *)
(* playback hide, whatever callback runs late: a reconnect in a pause, an   *)
(* artwork refresh after a stop, a timer after the presence was turned off  *)
(* or after on_quit.  One that may be shown is, unless a refresh is due     *)
(* with the next playback time event.                                       *)
PresenceFollowsPlayback ==
    /\ adapter.hasPresence => MayShow
    /\ MayShow /\ ~needPresenceRefresh => adapter.hasPresence

(* What Discord was last told is what the adapter holds, unless the connection *)
(* was renewed and the callback that sends it again is still queued.           *)
LastSentIsData ==
    /\ adapter.hasPresence /\ "ready" \notin adapter.events /\ adapter.readyPosted = 0
          => adapter.queued = View(adapter.data)
    /\ ~adapter.hasPresence => adapter.queued = None

(* However often the application id changes, one pump runs while the adapter *)
(* is initialised, and none after.                                           *)
OnePump ==
    /\ \A g \in Generation : adapter.pumps[g] <= 1
    /\ adapter.pumps[adapter.callbackGeneration] = 1 <=> adapter.isInitialized

(* A change of the text is never lost: until the program quits, the text is  *)
(* that of the playing track or a postponed update is on its way.            *)
TextIsFresh ==
    player.state # "stopped" /\ ~aborting
        => \/ adapter.data.text = TextFor(player, None)
           \/ timers > 0

(* Timestamps and the small image follow seeks, pauses and resumes, unless *)
(* a refresh is due.                                                       *)
PlaybackStateIsShown ==
    adapter.hasPresence /\ ~needPresenceRefresh =>
        /\ adapter.data.stamp = IF player.state = "playing" /\ adapter.data.length > 0
                                THEN player.epoch ELSE 0
        /\ adapter.data.small = IF player.state = "paused" THEN "paused" ELSE "playing"

Shown == discord.shown # None /\ discord.shown = View(adapter.data)
PresenceAppears ==
    (discord.connected /\ MayShow) ~> (Shown \/ ~discord.connected \/ ~MayShow)
PresenceDisappears == ~MayShow ~> (discord.shown = None \/ MayShow)

(* Liveness: a connected Discord client comes to show the presence, also after *)
(* it was restarted, and after pausing, stopping or disabling shows none.      *)
DiscordFollows == PresenceAppears /\ PresenceDisappears

(* presence_data.cpp:446: the handle passed to UpdateTrack is saved, "since *)
(* refresh might be required when settings are changed".                    *)
HandleIsSaved == player.state = "playing" => adapter.data.metadb = player.track
=============================================================================

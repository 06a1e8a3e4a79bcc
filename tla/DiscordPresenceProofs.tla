------------------------- MODULE DiscordPresenceProofs -------------------------
(***************************************************************************)
(* Proofs about DiscordPresence, for every set of tracks, titles, images   *)
(* and application ids, and every bound.  The calls of DiscordAdapter are  *)
(* operators on the adapter; what each preserves is a lemma, and the       *)
(* handlers cite the lemma of the modifier that they close.                *)
(***************************************************************************)
EXTENDS DiscordPresence, TLAPS

USE PresenceAssumption

Config == [isEnabled : BOOLEAN, disableWhenPaused : BOOLEAN, token : Token \cup {None}]
Images == Image \cup {None}

(* LastSentIsData, of an adapter. *)
SentIsData(a) ==
    /\ a.hasPresence /\ "ready" \notin a.events /\ a.readyPosted = 0
          => a.queued = View(a.data)
    /\ ~a.hasPresence => a.queued = None

(* OnePump, of an adapter; the generations to come have no pump yet. *)
PumpsAreRight(a) ==
    /\ \A g \in Generation : a.pumps[g] <= 1
    /\ \A g \in Generation : g > a.callbackGeneration => a.pumps[g] = 0
    /\ a.pumps[a.callbackGeneration] = 1 <=> a.isInitialized

IsGood(a) ==
    /\ a \in Adapter /\ (a.hasPresence => a.isInitialized)
    /\ SentIsData(a) /\ PumpsAreRight(a)

(* The fields that only Initialize and Finalize change. *)
SameSession(a, b) ==
    /\ b.isInitialized = a.isInitialized /\ b.callbackGeneration = a.callbackGeneration
    /\ b.appToken = a.appToken /\ b.pumps = a.pumps

(* What a modifier may show of the playback. *)
Shows(isDisabled, p, c) ==
    ~isDisabled /\ p.state # "stopped" /\ ~SuppressedWhenPaused(p, c)

-----------------------------------------------------------------------------
(* The data. *)

LEMMA ViewType == ASSUME NEW pd \in PresenceData PROVE View(pd) \in PresenceData
  BY DEF View, PresenceData

LEMMA SameView ==
  ASSUME NEW d \in PresenceData, NEW e \in PresenceData, View(d) = View(e)
  PROVE  /\ d.text = e.text /\ d.length = e.length /\ d.image = e.image
         /\ d.small = e.small /\ d.stamp = e.stamp
  <1>1. /\ View(d).text = d.text /\ View(d).length = d.length /\ View(d).image = d.image
        /\ View(d).small = d.small /\ View(d).stamp = d.stamp
    BY DEF View, PresenceData
  <1>2. /\ View(e).text = e.text /\ View(e).length = e.length /\ View(e).image = e.image
        /\ View(e).small = e.small /\ View(e).stamp = e.stamp
    BY DEF View, PresenceData
  <1> QED BY <1>1, <1>2

-----------------------------------------------------------------------------
(* The adapter's calls. *)

LEMMA RunCallbacksKeeps ==
  ASSUME NEW a \in Adapter
  PROVE  LET b == RunCallbacks(a) IN
         /\ b \in Adapter /\ SameSession(a, b)
         /\ b.hasPresence = a.hasPresence /\ b.queued = a.queued /\ b.data = a.data
         /\ b.events = {} /\ ("ready" \in a.events => b.readyPosted > 0)
         /\ b.readyPosted >= a.readyPosted
  <1> DEFINE n == IF "ready" \in a.events THEN a.readyPosted + 1 ELSE a.readyPosted
  <1>1. n \in Nat /\ n >= a.readyPosted /\ ("ready" \in a.events => n > 0)
    BY DEF Adapter
  <1>2. RunCallbacks(a) = [a EXCEPT !.readyPosted = n, !.events = {}]
    BY DEF RunCallbacks, Adapter
  <1> HIDE DEF n
  <1> QED BY <1>1, <1>2 DEF Adapter, SameSession

LEMMA ClearPresenceKeeps ==
  ASSUME NEW a \in Adapter, a.hasPresence => a.isInitialized, ~a.hasPresence => a.queued = None
  PROVE  LET b == ClearPresence(a) IN
         /\ b \in Adapter /\ SameSession(a, b) /\ b.data = a.data
         /\ ~b.hasPresence /\ b.queued = None
  <1> DEFINE s == [a EXCEPT !.queued = None, !.hasPresence = FALSE]
  <1>1. CASE ~a.isInitialized
    BY <1>1 DEF ClearPresence, Adapter, SameSession
  <1>2. CASE a.isInitialized
    <2>1. s \in Adapter /\ SameSession(a, s) /\ s.data = a.data /\ ~s.hasPresence
          /\ s.queued = None
      BY DEF Adapter, SameSession
    <2>2. ClearPresence(a) = RunCallbacks(s)
      BY <1>2 DEF ClearPresence
    <2> HIDE DEF s
    <2> QED BY <2>1, <2>2, RunCallbacksKeeps DEF SameSession
  <1> QED BY <1>1, <1>2

LEMMA SendPresenceKeeps ==
  ASSUME NEW a \in Adapter, NEW c \in Config, a.hasPresence => a.isInitialized,
         ~a.isInitialized => a.queued = None
  PROVE  LET b == SendPresence(a, c) IN
         /\ b \in Adapter /\ SameSession(a, b) /\ b.data = a.data
         /\ b.hasPresence <=> a.isInitialized /\ c.isEnabled
         /\ SentIsData(b)
  <1> DEFINE s == [a EXCEPT !.queued = View(a.data), !.hasPresence = TRUE]
             h == [a EXCEPT !.queued = None, !.hasPresence = FALSE]
  <1>1. CASE ~a.isInitialized
    BY <1>1 DEF SendPresence, SameSession, SentIsData
  <1>2. CASE a.isInitialized /\ c.isEnabled
    <2>1. View(a.data) \in PresenceData
      BY ViewType DEF Adapter
    <2>2. s \in Adapter /\ SameSession(a, s) /\ s.data = a.data /\ s.hasPresence
          /\ s.queued = View(a.data)
      BY <2>1 DEF Adapter, SameSession
    <2>3. SendPresence(a, c) = RunCallbacks(s)
      BY <1>2 DEF SendPresence
    <2> HIDE DEF s
    <2> QED BY <1>2, <2>2, <2>3, RunCallbacksKeeps DEF SameSession, SentIsData
  <1>3. CASE a.isInitialized /\ ~c.isEnabled
    <2>1. h \in Adapter /\ SameSession(a, h) /\ h.data = a.data /\ ~h.hasPresence
          /\ h.queued = None
      BY DEF Adapter, SameSession
    <2>2. SendPresence(a, c) = RunCallbacks(h)
      BY <1>3 DEF SendPresence
    <2> HIDE DEF h
    <2> QED BY <1>3, <2>1, <2>2, RunCallbacksKeeps DEF SameSession, SentIsData
  <1> QED BY <1>1, <1>2, <1>3

(* A modifier that closes: the data are what it made of them, the presence is *)
(* shown if it may be, and what Discord was told is the data.                 *)
LEMMA ClosedKeeps ==
  ASSUME NEW a, IsGood(a), NEW pd \in PresenceData, NEW isDisabled \in BOOLEAN,
         NEW p \in Player, NEW c \in Config,
         a.hasPresence /\ Shows(isDisabled, p, c) => c.isEnabled
  PROVE  LET b == Closed(a, pd, isDisabled, p, c) IN
         /\ IsGood(b) /\ SameSession(a, b) /\ View(b.data) = View(pd)
         /\ b.hasPresence <=> a.isInitialized /\ c.isEnabled /\ Shows(isDisabled, p, c)
  <1> DEFINE changed == HasChanged(a, pd)
             saved == IF changed THEN [a EXCEPT !.data = pd] ELSE a
             shows == Shows(isDisabled, p, c)
  <1>1. /\ saved \in Adapter /\ SameSession(a, saved) /\ View(saved.data) = View(pd)
        /\ saved.hasPresence = a.hasPresence /\ saved.queued = a.queued
        /\ ~changed => saved = a
    BY DEF IsGood, HasChanged, Adapter, SameSession
  <1>2. PumpsAreRight(saved)
    BY <1>1 DEF IsGood, PumpsAreRight, SameSession
  <1>3. ASSUME NEW b, SameSession(saved, b) PROVE SameSession(a, b) /\ PumpsAreRight(b)
    BY <1>1, <1>2, <1>3 DEF SameSession, PumpsAreRight
  <1>4. Closed(a, pd, isDisabled, p, c) =
          IF ~shows THEN IF a.hasPresence THEN ClearPresence(saved) ELSE saved
          ELSE IF ~a.hasPresence \/ changed THEN SendPresence(saved, c) ELSE saved
    BY DEF Closed, Shows
  <1>5. /\ saved.hasPresence => saved.isInitialized
        /\ ~saved.hasPresence => saved.queued = None
    BY <1>1 DEF IsGood, SentIsData, SameSession
  <1>6. a.hasPresence => a.isInitialized
    BY DEF IsGood
  <1> HIDE DEF changed, saved, shows
  <1>7. CASE ~shows /\ a.hasPresence
    BY <1>1, <1>3, <1>4, <1>5, <1>7, ClearPresenceKeeps DEF IsGood, SentIsData, shows
  <1>8. CASE ~shows /\ ~a.hasPresence
    <2>1. SentIsData(saved) /\ ~saved.hasPresence
      BY <1>1, <1>5, <1>8 DEF SentIsData
    <2> QED BY <1>1, <1>2, <1>4, <1>8, <2>1 DEF IsGood, shows
  <1>9. CASE shows /\ (~a.hasPresence \/ changed)
    <2>1. ~saved.isInitialized => saved.queued = None
      BY <1>5
    <2>2. saved.isInitialized = a.isInitialized
      BY <1>1 DEF SameSession
    <2> DEFINE b == SendPresence(saved, c)
    <2>3. /\ b \in Adapter /\ SameSession(saved, b) /\ b.data = saved.data
          /\ b.hasPresence <=> saved.isInitialized /\ c.isEnabled
          /\ SentIsData(b)
      BY <1>1, <1>5, <2>1, SendPresenceKeeps
    <2>4. Closed(a, pd, isDisabled, p, c) = b
      BY <1>4, <1>9
    <2> HIDE DEF b
    <2>5. SameSession(a, b) /\ PumpsAreRight(b)
      BY <1>3, <2>3
    <2>6. b.hasPresence => b.isInitialized
      BY <2>3 DEF SameSession
    <2>7. IsGood(b)
      BY <2>3, <2>5, <2>6 DEF IsGood
    <2> QED BY <1>1, <1>9, <2>2, <2>3, <2>4, <2>5, <2>7 DEF shows
  <1>10. CASE shows /\ a.hasPresence /\ ~changed
    BY <1>1, <1>4, <1>6, <1>10 DEF IsGood, shows
  <1> QED BY <1>7, <1>8, <1>9, <1>10
LEMMA FinalizedKeeps ==
  ASSUME NEW a, IsGood(a), a.callbackGeneration + 1 \in Generation
  PROVE  LET b == Finalized(a) IN
         /\ IsGood(b) /\ ~b.isInitialized /\ ~b.hasPresence /\ b.data = a.data
         /\ b.appToken = a.appToken
         /\ b.callbackGeneration \in {a.callbackGeneration, a.callbackGeneration + 1}
  <1> USE DEF IsGood, SentIsData, PumpsAreRight
  <1>1. CASE ~a.isInitialized
    BY <1>1 DEF Finalized, Adapter
  <1>2. CASE a.isInitialized
    <2> DEFINE b == [a EXCEPT !.hasPresence = FALSE, !.isInitialized = FALSE, !.queued = None,
                              !.events = {}, !.callbackGeneration = a.callbackGeneration + 1]
    <2>1. b \in Adapter /\ Finalized(a) = b
      BY <1>2 DEF Finalized, Adapter
    <2>2. /\ ~b.isInitialized /\ ~b.hasPresence /\ b.data = a.data /\ b.queued = None
          /\ b.appToken = a.appToken /\ b.callbackGeneration = a.callbackGeneration + 1
          /\ b.pumps = a.pumps
      BY DEF Adapter
    <2>3. a.callbackGeneration + 1 > a.callbackGeneration
      BY DEF Adapter, Generation
    <2>4. \A g \in Generation : g > a.callbackGeneration + 1 => g > a.callbackGeneration
      BY DEF Adapter, Generation
    <2> HIDE DEF b
    <2>5. PumpsAreRight(b)
      BY <2>2, <2>3, <2>4
    <2> QED BY <2>1, <2>2, <2>5
  <1> QED BY <1>1, <1>2

(* Initialize starts a session with one pump and hides the presence. *)
LEMMA InitializedKeeps ==
  ASSUME NEW a, IsGood(a), ~a.isInitialized, a.callbackGeneration + 1 \in Generation,
         NEW image \in Images, NEW p \in Player, NEW c \in Config
  PROVE  LET b == Initialized(a, image, p, c) IN
         /\ IsGood(b) /\ ~b.hasPresence /\ b.appToken = c.token
         /\ b.isInitialized <=> c.token # None
         /\ b.callbackGeneration \in {a.callbackGeneration, a.callbackGeneration + 1}
         /\ b.data.text = a.data.text
  <1>1. ~a.hasPresence /\ a.queued = None /\ a \in Adapter
    BY DEF IsGood, SentIsData
  <1>2. CASE c.token = None
    <2> DEFINE b == [a EXCEPT !.appToken = None, !.isInitialized = FALSE, !.hasPresence = FALSE]
    <2>1. /\ b \in Adapter /\ ~b.isInitialized /\ ~b.hasPresence /\ b.data = a.data
          /\ b.appToken = None /\ b.callbackGeneration = a.callbackGeneration
          /\ b.pumps = a.pumps /\ b.queued = None
      BY <1>1 DEF Adapter
    <2>2. Initialized(a, image, p, c) = b
      BY <1>2 DEF Initialized
    <2> HIDE DEF b
    <2>3. PumpsAreRight(b)
      BY <2>1 DEF IsGood, PumpsAreRight
    <2> QED BY <1>2, <2>1, <2>2, <2>3 DEF IsGood, SentIsData
  <1>3. CASE c.token # None
    <2> DEFINE started == [a EXCEPT !.appToken = c.token, !.isInitialized = TRUE,
                                    !.hasPresence = TRUE,
                                    !.callbackGeneration = a.callbackGeneration + 1]
               ran == RunCallbacks(started)
               pumped == ScheduleCallbackPump(ran)
               pd == UpdatedImage(pumped.data, image)
    <2>1. /\ started \in Adapter /\ started.isInitialized /\ started.appToken = c.token
          /\ started.callbackGeneration = a.callbackGeneration + 1
          /\ started.pumps = a.pumps /\ started.data = a.data
      BY DEF IsGood, Adapter, Config
    <2> HIDE DEF started
    <2>2. /\ ran \in Adapter /\ ran.isInitialized /\ ran.appToken = c.token
          /\ ran.callbackGeneration = a.callbackGeneration + 1
          /\ ran.pumps = a.pumps /\ ran.data = a.data /\ ran.hasPresence = started.hasPresence
      BY <2>1, RunCallbacksKeeps DEF SameSession
    <2> HIDE DEF ran
    <2>3. /\ pumped \in Adapter /\ pumped.isInitialized /\ pumped.appToken = c.token
          /\ pumped.callbackGeneration = a.callbackGeneration + 1 /\ pumped.data = a.data
          /\ pumped.pumps = [a.pumps EXCEPT ![a.callbackGeneration + 1] = @ + 1]
          /\ pumped.hasPresence = started.hasPresence
      BY <2>2 DEF ScheduleCallbackPump, Adapter
    <2> HIDE DEF pumped
    <2>4. PumpsAreRight(pumped)
      <3>1. a.pumps[a.callbackGeneration + 1] = 0
        BY DEF IsGood, PumpsAreRight, Adapter, Generation
      <3>2. \A g \in Generation : g > a.callbackGeneration + 1 => g > a.callbackGeneration
        BY DEF IsGood, Adapter, Generation
      <3>3. a.pumps \in [Generation -> Nat]
        BY DEF IsGood, Adapter
      <3>4. a.callbackGeneration + 1 \in Generation /\ a.callbackGeneration \in Nat
        BY DEF IsGood, Adapter, Generation
      <3>5. /\ pumped.pumps[a.callbackGeneration + 1] = 1
            /\ \A g \in Generation : g # a.callbackGeneration + 1 => pumped.pumps[g] = a.pumps[g]
        BY <2>3, <3>1, <3>3, <3>4
      <3>6. \A g \in Generation : g > a.callbackGeneration + 1 => g # a.callbackGeneration + 1
        BY <3>4 DEF Generation
      <3> QED BY <2>3, <3>2, <3>4, <3>5, <3>6 DEF IsGood, PumpsAreRight
    <2>5. /\ pd \in PresenceData /\ pd.text = a.data.text
      BY <2>3 DEF UpdatedImage, Adapter, PresenceData, Images
    <2> DEFINE saved == IF HasChanged(pumped, pd) THEN [pumped EXCEPT !.data = pd] ELSE pumped
    <2>6. /\ saved \in Adapter /\ SameSession(pumped, saved) /\ saved.data.text = a.data.text
          /\ saved.hasPresence = started.hasPresence
      BY <2>3, <2>5 DEF Adapter, SameSession
    <2>7. started.hasPresence
      BY <1>1 DEF started, Adapter
    <2>8. Initialized(a, image, p, c) = ClearPresence(saved)
      BY <1>3, <2>3, <2>7 DEF Initialized, Closed, started, ran, pumped
    <2> HIDE DEF saved, pd
    <2>9. saved.hasPresence => saved.isInitialized
      BY <2>3, <2>6 DEF SameSession
    <2> DEFINE b == ClearPresence(saved)
    <2>10. /\ b \in Adapter /\ SameSession(saved, b) /\ b.data = saved.data
           /\ ~b.hasPresence /\ b.queued = None
      BY <2>6, <2>7, <2>9, ClearPresenceKeeps
    <2> HIDE DEF b
    <2>11. PumpsAreRight(b)
      BY <2>4, <2>6, <2>10 DEF PumpsAreRight, SameSession
    <2> QED BY <1>3, <2>3, <2>6, <2>8, <2>10, <2>11 DEF IsGood, SentIsData, SameSession, b
  <1> QED BY <1>2, <1>3

-----------------------------------------------------------------------------
(* What the handlers make of the data. *)

LEMMA TextForType ==
  ASSUME NEW p \in Player, p.state # "stopped" => p.track \in Track,
         NEW metadb \in Track \cup {None}
  PROVE  /\ TextFor(p, metadb) \in Text \cup {None} /\ LengthFor(p, metadb) \in Nat
         /\ p.state # "stopped" => TextFor(p, metadb) = TextFor(p, None)
  BY DEF TextFor, LengthFor, Text, Player

LEMMA UpdatedTrackIs ==
  ASSUME NEW pd \in PresenceData, NEW p \in Player, p.state # "stopped" => p.track \in Track,
         NEW track \in Track \cup {None}, NEW image \in Images, NEW epoch \in Nat
  PROVE  LET e == UpdatedTrack(pd, p, track, image, epoch) IN
         /\ e \in PresenceData /\ e.small = pd.small
         /\ p.state # "stopped" => e.text = TextFor(p, None)
         /\ e.stamp = IF e.length > 0 /\ p.state = "playing" THEN epoch ELSE 0
  <1> DEFINE metadb == IF track # None THEN track ELSE pd.metadb
             text == TextFor(p, metadb)
             length == LengthFor(p, metadb)
             d == [pd EXCEPT !.metadb = metadb, !.text = text, !.length = length, !.image = image]
  <1>1. metadb \in Track \cup {None}
    BY DEF PresenceData
  <1>2. /\ text \in Text \cup {None} /\ length \in Nat
        /\ p.state # "stopped" => text = TextFor(p, None)
    BY <1>1, TextForType
  <1>3. UpdatedTrack(pd, p, track, image, epoch) = UpdatedDuration(d, p, epoch)
    BY DEF UpdatedTrack
  <1> HIDE DEF metadb, text, length
  <1>4. d \in PresenceData /\ d.small = pd.small /\ d.text = text /\ d.length = length
    BY <1>1, <1>2 DEF PresenceData, Images
  <1> HIDE DEF d
  <1>5. UpdatedDuration(d, p, epoch)
          = [d EXCEPT !.stamp = IF d.length > 0 /\ p.state = "playing" THEN epoch ELSE 0]
    BY DEF UpdatedDuration
  <1> QED BY <1>2, <1>3, <1>4, <1>5 DEF PresenceData

LEMMA UpdatedSmallImageIs ==
  ASSUME NEW pd \in PresenceData, NEW p \in Player
  PROVE  LET e == UpdatedSmallImage(pd, p) IN
         /\ e \in PresenceData /\ e.small = IF p.state = "paused" THEN "paused" ELSE "playing"
         /\ e.text = pd.text /\ e.length = pd.length /\ e.stamp = pd.stamp
  BY DEF UpdatedSmallImage, PresenceData, Small

LEMMA UpdatedImageIs ==
  ASSUME NEW pd \in PresenceData, NEW image \in Images
  PROVE  LET e == UpdatedImage(pd, image) IN
         /\ e \in PresenceData /\ e.small = pd.small
         /\ e.text = pd.text /\ e.length = pd.length /\ e.stamp = pd.stamp
  BY DEF UpdatedImage, PresenceData, Images

-----------------------------------------------------------------------------
(* The inductive invariant. *)

(* PlaybackStateIsShown, of data and a player. *)
StateIs(d, p) ==
    /\ d.stamp = IF p.state = "playing" /\ d.length > 0 THEN p.epoch ELSE 0
    /\ d.small = IF p.state = "paused" THEN "paused" ELSE "playing"

(* The position only lags while a refresh is due. *)
PlayerInv ==
    /\ player \in Player /\ (player.state # "stopped" => player.track \in Track)
    /\ player.settling => needPresenceRefresh /\ player.epoch >= 1

CallbackInv ==
    /\ needPresenceRefresh \in BOOLEAN /\ hasScheduledDynamicUpdate \in BOOLEAN
    /\ timers = IF hasScheduledDynamicUpdate THEN 1 ELSE 0

DiscordInv ==
    /\ config \in Config /\ aborting \in BOOLEAN
    /\ discord \in [connected : BOOLEAN, shown : PresenceData \cup {None}]

(* The adapter runs under the configured id, if there is one; on_quit leaves *)
(* one generation.                                                           *)
SessionInv ==
    /\ IsGood(adapter) /\ adapter.appToken = config.token
    /\ adapter.isInitialized <=> config.token # None /\ ~aborting
    /\ ~aborting => adapter.callbackGeneration <= MaxGeneration + 1

(* The data are right also while no presence is shown: it may be any time. *)
DataInv ==
    /\ TextIsFresh
    /\ player.state # "stopped" /\ ~needPresenceRefresh => StateIs(adapter.data, player)

IInv ==
    /\ PlayerInv /\ CallbackInv /\ DiscordInv /\ SessionInv
    /\ PresenceFollowsPlayback /\ DataInv

LEMMA PositionIs ==
  ASSUME NEW p \in Player, p.settling => p.epoch >= 1, NEW e \in PositionEpochs(p)
  PROVE  e \in Nat /\ (~p.settling => e = p.epoch)
  BY DEF PositionEpochs, Player

(* A handler that closes a modifier with the data pd. *)
LEMMA HandlerKeeps ==
  ASSUME IInv, NEW pd \in PresenceData, UNCHANGED <<config, aborting, discord>>,
         adapter' = Closed(adapter, pd, FALSE, player', config),
         PlayerInv', CallbackInv',
         player'.state # "stopped" /\ ~aborting => pd.text = TextFor(player', None) \/ timers' > 0,
         player'.state # "stopped" /\ ~needPresenceRefresh' => StateIs(pd, player')
  PROVE  IInv'
  <1>1. /\ IsGood(adapter) /\ config \in Config /\ player' \in Player
        /\ adapter.hasPresence => config.isEnabled
    BY DEF IInv, SessionInv, DiscordInv, PlayerInv, PresenceFollowsPlayback, MayShow
  <1>2. /\ IsGood(adapter') /\ SameSession(adapter, adapter') /\ View(adapter'.data) = View(pd)
        /\ adapter'.hasPresence
             <=> adapter.isInitialized /\ config.isEnabled /\ Shows(FALSE, player', config)
    <2> DEFINE b == Closed(adapter, pd, FALSE, player', config)
    <2>1. FALSE \in BOOLEAN /\ (adapter.hasPresence /\ Shows(FALSE, player', config)
                                => config.isEnabled)
      BY <1>1
    <2>2. /\ IsGood(b) /\ SameSession(adapter, b) /\ View(b.data) = View(pd)
          /\ b.hasPresence
               <=> adapter.isInitialized /\ config.isEnabled /\ Shows(FALSE, player', config)
      BY <1>1, <2>1, ClosedKeeps
    <2>3. adapter' = b
      OBVIOUS
    <2> HIDE DEF b
    <2> QED BY <2>2, <2>3
  <1>3. /\ adapter'.data.text = pd.text /\ adapter'.data.length = pd.length
        /\ adapter'.data.small = pd.small /\ adapter'.data.stamp = pd.stamp
    BY <1>2, SameView DEF IsGood, Adapter
  <1>4. SessionInv' /\ DiscordInv'
    BY <1>2 DEF IInv, SessionInv, DiscordInv, SameSession
  <1>5. PresenceFollowsPlayback'
    BY <1>2 DEF PresenceFollowsPlayback, MayShow, Shows, SameSession
  <1>6. DataInv'
    BY <1>3 DEF DataInv, TextIsFresh, StateIs
  <1> QED BY <1>4, <1>5, <1>6 DEF IInv

(* UpdateTrackNow and on_playback_changed: all of the data are computed anew, *)
(* but for the small image when it is not asked for.                          *)
LEMMA UpdateTrackNowKeeps ==
  ASSUME IInv, NEW track \in Track \cup {None}, NEW updateSmallImage \in BOOLEAN,
         NEW image \in Images, UpdateTrackNow(track, updateSmallImage, image),
         UNCHANGED <<config, aborting, discord>>, PlayerInv', CallbackInv',
         \/ updateSmallImage
         \/ player'.state = player.state /\ (needPresenceRefresh => needPresenceRefresh')
  PROVE  IInv'
  <1>1. PICK epoch \in PositionEpochs(player') :
           LET pd == UpdatedTrack(adapter.data, player', track, image, epoch) IN
           adapter' = Closed(adapter,
                             IF updateSmallImage THEN UpdatedSmallImage(pd, player') ELSE pd,
                             FALSE, player', config)
    BY DEF UpdateTrackNow
  <1> DEFINE pd == UpdatedTrack(adapter.data, player', track, image, epoch)
             all == IF updateSmallImage THEN UpdatedSmallImage(pd, player') ELSE pd
  <1>2. epoch \in Nat /\ (~needPresenceRefresh' => epoch = player'.epoch)
    BY <1>1, PositionIs DEF PlayerInv
  <1>3. /\ adapter.data \in PresenceData /\ player' \in Player
        /\ player'.state # "stopped" => player'.track \in Track
    BY DEF IInv, SessionInv, IsGood, Adapter, PlayerInv
  <1>4. /\ pd \in PresenceData /\ pd.small = adapter.data.small
        /\ player'.state # "stopped" => pd.text = TextFor(player', None)
        /\ pd.stamp = IF pd.length > 0 /\ player'.state = "playing" THEN epoch ELSE 0
    BY <1>2, <1>3, UpdatedTrackIs
  <1> HIDE DEF pd
  <1>5. /\ all \in PresenceData /\ all.text = pd.text /\ all.length = pd.length
        /\ all.stamp = pd.stamp
        /\ all.small = IF ~updateSmallImage THEN pd.small
                       ELSE IF player'.state = "paused" THEN "paused" ELSE "playing"
    BY <1>3, <1>4, UpdatedSmallImageIs
  <1>6. adapter' = Closed(adapter, all, FALSE, player', config)
    BY <1>1 DEF pd
  <1> HIDE DEF all
  <1>7. player'.state # "stopped" /\ ~needPresenceRefresh' => StateIs(all, player')
    BY <1>2, <1>4, <1>5 DEF StateIs, IInv, DataInv
  <1> QED BY <1>4, <1>5, <1>6, <1>7, HandlerKeeps

(* A handler that leaves the adapter alone. *)
LEMMA QuietHandlerKeeps ==
  ASSUME IInv, UNCHANGED <<config, adapter, aborting, discord>>, PlayerInv', CallbackInv',
         needPresenceRefresh => needPresenceRefresh',
         ~needPresenceRefresh' => player'.state = player.state /\ player'.epoch = player.epoch,
         player'.state # player.state => player'.state = "playing" /\ player.state = "paused",
         \/ timers' > 0 \/ aborting
         \/ timers' = timers /\ TextFor(player', None) = TextFor(player, None)
  PROVE  IInv'
  <1>1. SessionInv' /\ DiscordInv'
    BY DEF IInv, SessionInv, DiscordInv
  <1>2. PresenceFollowsPlayback'
    BY DEF IInv, PresenceFollowsPlayback, MayShow, SuppressedWhenPaused
  <1>3. DataInv'
    BY DEF IInv, DataInv, TextIsFresh, StateIs
  <1> QED BY <1>1, <1>2, <1>3 DEF IInv

-----------------------------------------------------------------------------
(* The handlers. *)

LEMMA CallbacksUnchanged == CallbackInv /\ UNCHANGED callbackVars => CallbackInv'
  BY DEF CallbackInv, callbackVars

LEMMA NoneIsATrack == None \in Track \cup {None} /\ TRUE \in BOOLEAN /\ FALSE \in BOOLEAN
  OBVIOUS

LEMMA InitKeeps == Init => IInv
  <1> SUFFICES ASSUME Init PROVE IInv
    OBVIOUS
  <1> DEFINE a == [isInitialized |-> FALSE, hasPresence |-> FALSE, callbackGeneration |-> 0,
                   appToken |-> None, data |-> EmptyData,
                   pumps |-> [g \in Generation |-> 0], readyPosted |-> 0,
                   queued |-> None, events |-> {}]
  <1>1. PICK image \in Image : adapter = Initialized(a, image, player, config)
    BY DEF Init
  <1>2. player \in Player /\ config \in Config /\ player.state = "stopped" /\ ~player.settling
    BY DEF Init, Player, Config
  <1>3. 0 \in Generation /\ 1 \in Generation
    BY DEF Generation
  <1>4. EmptyData \in PresenceData
    BY DEF EmptyData, PresenceData
  <1>5. IsGood(a)
    <2>1. a \in Adapter
      BY <1>3, <1>4 DEF Adapter
    <2>2. PumpsAreRight(a) /\ SentIsData(a)
      BY <1>3 DEF PumpsAreRight, SentIsData
    <2> QED BY <2>1, <2>2 DEF IsGood
  <1>6. ~a.isInitialized /\ a.callbackGeneration = 0
    OBVIOUS
  <1> HIDE DEF a
  <1>7. /\ IsGood(adapter) /\ ~adapter.hasPresence /\ adapter.appToken = config.token
        /\ adapter.isInitialized <=> config.token # None
        /\ adapter.callbackGeneration \in {0, 1}
    BY <1>1, <1>2, <1>3, <1>5, <1>6, InitializedKeeps DEF Images
  <1>8. SessionInv
    BY <1>7 DEF SessionInv, Init
  <1>9. PlayerInv /\ PresenceFollowsPlayback /\ DataInv
    BY <1>2, <1>7 DEF PlayerInv, PresenceFollowsPlayback, MayShow, DataInv, TextIsFresh
  <1>10. DiscordInv
    BY <1>2 DEF Init, DiscordInv
  <1>11. CallbackInv
    BY DEF Init, CallbackInv
  <1> QED BY <1>8, <1>9, <1>10, <1>11 DEF IInv

(* The playback events that update the track at once. *)
LEMMA TrackUpdatesKeep ==
  ASSUME IInv, NEW image \in Images,
         \/ \E t \in Track : OnPlaybackNewTrack(t, image)
         \/ OnPlaybackPause(image) \/ OnPlaybackEdited(image)
         \/ OnPlaybackDynamicInfoTrack(image)
  PROVE  IInv'
  <1> USE DEF IInv
  <1>1. CallbackInv'
    <2>1. UNCHANGED callbackVars
      BY DEF OnPlaybackNewTrack, OnPlaybackPause, OnPlaybackEdited, OnPlaybackDynamicInfoTrack
    <2> QED BY <2>1, CallbacksUnchanged
  <1>2. ASSUME NEW t \in Track, OnPlaybackNewTrack(t, image) PROVE IInv'
    <2>1. PlayerInv'
      BY <1>2 DEF PlayerInv, Player, OnPlaybackNewTrack, callbackVars
    <2> QED BY <1>1, <1>2, <2>1, UpdateTrackNowKeeps DEF OnPlaybackNewTrack
  <1>3. CASE OnPlaybackPause(image)
    <2>1. PlayerInv'
      BY <1>3 DEF PlayerInv, Player, OnPlaybackPause, callbackVars
    <2> QED BY <1>1, <1>3, <2>1, UpdateTrackNowKeeps DEF OnPlaybackPause
  <1>4. ASSUME NEW x \in Title, player' = [player EXCEPT !.title = x], UNCHANGED callbackVars
        PROVE  PlayerInv' /\ player'.state = player.state
                 /\ needPresenceRefresh' = needPresenceRefresh
    BY <1>4 DEF PlayerInv, Player, callbackVars
  <1>5. CASE OnPlaybackEdited(image)
    <2>1. player.track \in Track /\ PlayerInv' /\ player'.state = player.state
            /\ needPresenceRefresh' = needPresenceRefresh
      BY <1>4, <1>5 DEF OnPlaybackEdited, PlayerInv
    <2> QED BY <1>1, <1>5, <2>1, UpdateTrackNowKeeps DEF OnPlaybackEdited, PlaybackChanged
  <1>6. CASE OnPlaybackDynamicInfoTrack(image)
    <2>1. PlayerInv' /\ player'.state = player.state
            /\ needPresenceRefresh' = needPresenceRefresh
      BY <1>4, <1>6 DEF OnPlaybackDynamicInfoTrack
    <2> QED BY <1>1, <1>6, <2>1, UpdateTrackNowKeeps DEF OnPlaybackDynamicInfoTrack,
                                                           PlaybackChanged
  <1> QED BY <1>2, <1>3, <1>5, <1>6

(* A postponed update, and its timer. *)
LEMMA DynamicInfoKeeps ==
  ASSUME IInv, NEW image \in Images, OnPlaybackDynamicInfo(image) PROVE IInv'
  <1> USE DEF IInv
  <1>1. PlayerInv' /\ player'.state = player.state /\ player'.epoch = player.epoch
          /\ needPresenceRefresh' = needPresenceRefresh
    BY DEF OnPlaybackDynamicInfo, PlayerInv, Player
  <1>2. CASE hasScheduledDynamicUpdate
    <2>1. UNCHANGED <<config, adapter, aborting, discord, callbackVars>>
      BY <1>2 DEF OnPlaybackDynamicInfo, callbackVars
    <2>2. CallbackInv' /\ timers' > 0 /\ (needPresenceRefresh => needPresenceRefresh')
      <3>1. timers' = timers /\ needPresenceRefresh' = needPresenceRefresh
        BY <2>1 DEF callbackVars
      <3>2. timers > 0
        BY <1>2 DEF CallbackInv
      <3> QED BY <2>1, <3>1, <3>2, CallbacksUnchanged
    <2> QED BY <1>1, <2>1, <2>2, QuietHandlerKeeps
  <1>3. CASE ~hasScheduledDynamicUpdate
    <2>1. PICK epoch \in PositionEpochs(player') :
             LET pd == UpdatedTrack(adapter.data, player', None, image, epoch) IN
             /\ IF HasChanged(adapter, pd)
                THEN hasScheduledDynamicUpdate' = TRUE /\ timers' = timers + 1
                ELSE UNCHANGED <<hasScheduledDynamicUpdate, timers>>
             /\ adapter' = Closed(adapter,
                                  IF HasChanged(adapter, pd) THEN adapter.data ELSE pd,
                                  FALSE, player', config)
      BY <1>3 DEF OnPlaybackDynamicInfo, ScheduleDynamicTrackUpdate
    <2> DEFINE pd == UpdatedTrack(adapter.data, player', None, image, epoch)
               changed == HasChanged(adapter, pd)
               all == IF changed THEN adapter.data ELSE pd
    <2>2. adapter.data \in PresenceData /\ epoch \in Nat
          /\ (~needPresenceRefresh' => epoch = player'.epoch)
      BY <1>1, <2>1, PositionIs DEF PlayerInv, SessionInv, IsGood, Adapter
    <2>3. /\ pd \in PresenceData /\ pd.small = adapter.data.small
          /\ player'.state # "stopped" => pd.text = TextFor(player', None)
          /\ pd.stamp = IF pd.length > 0 /\ player'.state = "playing" THEN epoch ELSE 0
      <3>1. player' \in Player /\ (player'.state # "stopped" => player'.track \in Track)
        BY <1>1 DEF PlayerInv
      <3> QED BY <2>2, <3>1, NoneIsATrack, UpdatedTrackIs
    <2>4. /\ changed => hasScheduledDynamicUpdate' /\ timers' = timers + 1
          /\ ~changed => UNCHANGED <<hasScheduledDynamicUpdate, timers>>
          /\ adapter' = Closed(adapter, all, FALSE, player', config)
      BY <2>1
    <2> HIDE DEF pd, changed
    <2>5. CallbackInv'
      <3>1. CASE changed
        <4>1. timers' = 1 /\ hasScheduledDynamicUpdate' /\ hasScheduledDynamicUpdate' \in BOOLEAN
          BY <1>3, <2>1, <3>1 DEF CallbackInv, changed, pd
        <4>2. needPresenceRefresh' \in BOOLEAN
          BY <1>1 DEF CallbackInv
        <4> QED BY <4>1, <4>2 DEF CallbackInv
      <3>2. CASE ~changed
        <4>1. UNCHANGED callbackVars
          BY <1>1, <2>4, <3>2 DEF callbackVars
        <4> QED BY <4>1, CallbacksUnchanged
      <3> QED BY <3>1, <3>2
    <2>6. UNCHANGED <<config, aborting, discord>>
      BY DEF OnPlaybackDynamicInfo
    <2>7. CASE changed
      <3>1. timers' > 0 /\ all = adapter.data
        BY <1>3, <2>4, <2>7 DEF CallbackInv
      <3>2. player'.state # "stopped" /\ ~needPresenceRefresh' => StateIs(all, player')
        BY <1>1, <3>1 DEF DataInv, StateIs
      <3> QED BY <1>1, <2>2, <2>4, <2>5, <2>6, <3>1, <3>2, HandlerKeeps
    <2>8. CASE ~changed
      <3>1. player'.state # "stopped" /\ ~needPresenceRefresh' => StateIs(pd, player')
        BY <1>1, <2>2, <2>3 DEF DataInv, StateIs
      <3> QED BY <1>1, <2>3, <2>4, <2>5, <2>6, <2>8, <3>1, HandlerKeeps
    <2> QED BY <2>7, <2>8
  <1> QED BY <1>2, <1>3

LEMMA TimerKeeps ==
  ASSUME IInv, NEW image \in Images, DynamicUpdateTimer(image) PROVE IInv'
  <1> USE DEF IInv
  <1>1. UNCHANGED <<config, player, needPresenceRefresh, aborting, discord>> /\ PlayerInv'
    BY DEF DynamicUpdateTimer, PlayerInv
  <1>2. CallbackInv'
    <2>1. timers' = 0 /\ ~hasScheduledDynamicUpdate'
      BY DEF DynamicUpdateTimer, CallbackInv
    <2>2. hasScheduledDynamicUpdate' \in BOOLEAN
      BY DEF DynamicUpdateTimer
    <2> QED BY <1>1, <2>1, <2>2 DEF CallbackInv
  <1>3. CASE aborting
    <2>1. UNCHANGED adapter
      BY <1>3 DEF DynamicUpdateTimer
    <2> QED BY <1>1, <1>2, <1>3, <2>1, QuietHandlerKeeps
  <1>4. CASE ~aborting
    <2>1. UpdateTrackNow(None, FALSE, image)
      BY <1>4 DEF DynamicUpdateTimer, PlaybackChanged
    <2>2. player'.state = player.state /\ (needPresenceRefresh => needPresenceRefresh')
      BY <1>1
    <2> QED BY <1>1, <1>2, <2>1, <2>2, NoneIsATrack, UpdateTrackNowKeeps
  <1> QED BY <1>3, <1>4

LEMMA PlaybackTimeKeeps ==
  ASSUME IInv, NEW image \in Images, OnPlaybackTime(image) PROVE IInv'
  <1> USE DEF IInv
  <1>1. /\ PlayerInv' /\ CallbackInv' /\ UNCHANGED <<config, aborting, discord, timers>>
        /\ player'.state = player.state /\ player'.epoch = player.epoch
        /\ player'.track = player.track /\ player'.title = player.title
    <2>1. player' = [player EXCEPT !.settling = FALSE] /\ ~needPresenceRefresh'
          /\ UNCHANGED <<config, aborting, discord, timers, hasScheduledDynamicUpdate>>
          /\ needPresenceRefresh' \in BOOLEAN
      BY DEF OnPlaybackTime
    <2>2. /\ PlayerInv' /\ player'.state = player.state /\ player'.epoch = player.epoch
          /\ player'.track = player.track /\ player'.title = player.title
      BY <2>1 DEF PlayerInv, Player
    <2>3. CallbackInv'
      BY <2>1 DEF CallbackInv
    <2> QED BY <2>1, <2>2, <2>3
  <1>2. CASE needPresenceRefresh
    <2>1. UpdateTrackNow(None, TRUE, image)
      BY <1>2 DEF OnPlaybackTime
    <2> QED BY <1>1, <2>1, NoneIsATrack, UpdateTrackNowKeeps
  <1>3. CASE ~needPresenceRefresh
    <2>1. UNCHANGED adapter
      BY <1>3 DEF OnPlaybackTime
    <2>2. TextFor(player', None) = TextFor(player, None)
      BY <1>1 DEF TextFor
    <2> QED BY <1>1, <1>3, <2>1, <2>2, QuietHandlerKeeps
  <1> QED BY <1>2, <1>3

LEMMA SeekAndResumeKeep == IInv /\ (OnPlaybackSeek \/ OnPlaybackResume) => IInv'
  <1> SUFFICES ASSUME IInv, OnPlaybackSeek \/ OnPlaybackResume PROVE IInv'
    OBVIOUS
  <1>1. /\ UNCHANGED <<config, adapter, aborting, discord, timers, hasScheduledDynamicUpdate>>
        /\ needPresenceRefresh' = TRUE
        /\ \/ player' = [player EXCEPT !.epoch = @ + 1, !.settling = TRUE]
           \/ /\ player.state = "paused"
              /\ player' = [player EXCEPT !.state = "playing", !.epoch = @ + 1, !.settling = TRUE]
    BY DEF OnPlaybackSeek, OnPlaybackResume
  <1>2. player.state # "stopped" /\ player \in Player /\ player.track \in Track
    BY DEF OnPlaybackSeek, OnPlaybackResume, IInv, PlayerInv
  <1>3. /\ player' \in Player /\ player'.epoch >= 1
        /\ player'.track = player.track /\ player'.title = player.title
        /\ player'.state # player.state => player'.state = "playing" /\ player.state = "paused"
    <2>1. player.epoch + 1 \in Nat /\ player.epoch + 1 >= 1
      BY <1>2 DEF Player
    <2>2. CASE player' = [player EXCEPT !.epoch = player.epoch + 1, !.settling = TRUE]
      BY <1>2, <2>1, <2>2 DEF Player
    <2>3. CASE /\ player.state = "paused"
               /\ player' = [player EXCEPT !.state = "playing", !.epoch = player.epoch + 1,
                                           !.settling = TRUE]
      BY <1>2, <2>1, <2>3 DEF Player
    <2> QED BY <1>1, <2>2, <2>3
  <1>4. PlayerInv'
    BY <1>1, <1>2, <1>3 DEF PlayerInv
  <1>5. CallbackInv'
    <2>1. needPresenceRefresh' \in BOOLEAN /\ hasScheduledDynamicUpdate' = hasScheduledDynamicUpdate
          /\ timers' = timers
      BY <1>1
    <2> QED BY <2>1 DEF IInv, CallbackInv
  <1>6. TextFor(player', None) = TextFor(player, None)
    <2>1. player'.state # "stopped"
      BY <1>2, <1>3
    <2> QED BY <1>2, <1>3, <2>1 DEF TextFor
  <1>7. UNCHANGED <<config, adapter, aborting, discord>> /\ timers' = timers
        /\ needPresenceRefresh'
    BY <1>1
  <1> QED BY <1>3, <1>4, <1>5, <1>6, <1>7, QuietHandlerKeeps

LEMMA StopKeeps == IInv /\ OnPlaybackStop => IInv'
  <1> SUFFICES ASSUME IInv, OnPlaybackStop PROVE IInv'
    OBVIOUS
  <1> USE DEF IInv
  <1> DEFINE b == Closed(adapter, adapter.data, TRUE, player', config)
  <1>1. /\ player'.state = "stopped" /\ ~player'.settling /\ player' \in Player
        /\ UNCHANGED <<config, callbackVars, aborting, discord>> /\ adapter' = b
    BY DEF OnPlaybackStop, PlayerInv, Player
  <1>2. IsGood(adapter) /\ adapter.data \in PresenceData /\ config \in Config
    BY DEF SessionInv, DiscordInv, IsGood, Adapter
  <1>3. ~Shows(TRUE, player', config) /\ TRUE \in BOOLEAN
    BY DEF Shows
  <1>4. IsGood(b) /\ SameSession(adapter, b) /\ ~b.hasPresence
    BY <1>1, <1>2, <1>3, ClosedKeeps
  <1> HIDE DEF b
  <1>5. SessionInv' /\ DiscordInv' /\ PlayerInv' /\ CallbackInv'
    BY <1>1, <1>4 DEF SessionInv, SameSession, DiscordInv, PlayerInv, CallbackInv, callbackVars
  <1>6. PresenceFollowsPlayback' /\ DataInv'
    BY <1>1, <1>4 DEF PresenceFollowsPlayback, MayShow, DataInv, TextIsFresh
  <1> QED BY <1>5, <1>6

-----------------------------------------------------------------------------
(* Settings and callbacks. *)

LEMMA RestartedKeeps ==
  ASSUME NEW a, IsGood(a), NEW image \in Images, NEW p \in Player, NEW c \in Config,
         a.isInitialized <=> a.appToken # None,
         a.appToken # c.token => a.callbackGeneration < MaxGeneration,
         a.callbackGeneration <= MaxGeneration + 1
  PROVE  LET b == IF a.appToken # c.token THEN Initialized(Finalized(a), image, p, c) ELSE a IN
         /\ IsGood(b) /\ b.appToken = c.token /\ b.callbackGeneration <= MaxGeneration + 1
         /\ b.isInitialized <=> c.token # None
  <1>1. a.callbackGeneration \in Generation /\ a.callbackGeneration \in Nat
    BY DEF IsGood, Adapter, Generation
  <1>2. CASE a.appToken # c.token
    <2> DEFINE f == Finalized(a)
               b == Initialized(f, image, p, c)
    <2>1. a.callbackGeneration + 1 \in Generation
      BY <1>1, <1>2 DEF Generation
    <2>2. /\ IsGood(f) /\ ~f.isInitialized
          /\ f.callbackGeneration \in {a.callbackGeneration, a.callbackGeneration + 1}
      BY <2>1, FinalizedKeeps
    <2> HIDE DEF f
    <2>3. /\ f.callbackGeneration + 1 \in Generation /\ f.callbackGeneration <= MaxGeneration
          /\ f.callbackGeneration \in Nat
      BY <1>1, <1>2, <2>2 DEF Generation
    <2>4. /\ IsGood(b) /\ b.appToken = c.token /\ (b.isInitialized <=> c.token # None)
          /\ b.callbackGeneration \in {f.callbackGeneration, f.callbackGeneration + 1}
      BY <2>2, <2>3, InitializedKeeps
    <2> HIDE DEF b
    <2>5. b.callbackGeneration <= MaxGeneration + 1
      <3>1. b.callbackGeneration <= f.callbackGeneration + 1
        BY <2>3, <2>4
      <3> QED BY <2>3, <2>4
    <2> QED BY <1>2, <2>4, <2>5 DEF f, b
  <1>3. CASE a.appToken = c.token
    BY <1>3
  <1> QED BY <1>2, <1>3

LEMMA SettingsKeep ==
  ASSUME IInv, NEW image \in Images, OnSettingsChanged(image) PROVE IInv'
  <1> USE DEF IInv
  <1>1. /\ ~aborting /\ UNCHANGED <<player, callbackVars, aborting>> /\ config' \in Config
        /\ config'.token # config.token => adapter.callbackGeneration < MaxGeneration
    BY DEF OnSettingsChanged, Config
  <1>2. PICK epoch \in PositionEpochs(player) :
           adapter' = SettingsChanged(adapter, image, epoch, player, config')
    BY DEF OnSettingsChanged
  <1> DEFINE a == IF adapter.appToken # config'.token
                  THEN Initialized(Finalized(adapter), image, player, config') ELSE adapter
             small == UpdatedSmallImage(a.data, player)
             pd == UpdatedTrack(small, player, None, image, epoch)
             b == Closed(a, pd, ~config'.isEnabled, player, config')
  <1>3. /\ IsGood(adapter) /\ player \in Player /\ adapter.appToken = config.token
        /\ adapter.callbackGeneration <= MaxGeneration + 1
        /\ adapter.isInitialized <=> adapter.appToken # None
        /\ player.state # "stopped" => player.track \in Track
    BY <1>1 DEF SessionInv, PlayerInv
  <1>4. /\ IsGood(a) /\ a.appToken = config'.token
        /\ a.isInitialized <=> config'.token # None
        /\ a.callbackGeneration <= MaxGeneration + 1
    BY <1>1, <1>3, RestartedKeeps DEF Images
  <1>5. adapter' = b
    BY <1>2 DEF SettingsChanged
  <1> HIDE DEF a
  <1>6. a.data \in PresenceData
    BY <1>4 DEF IsGood, Adapter
  <1>7. epoch \in Nat /\ (~needPresenceRefresh => epoch = player.epoch)
    BY <1>2, <1>3, PositionIs DEF PlayerInv
  <1>8. small \in PresenceData
        /\ small.small = IF player.state = "paused" THEN "paused" ELSE "playing"
    BY <1>3, <1>6, UpdatedSmallImageIs
  <1> HIDE DEF small
  <1>9. /\ pd \in PresenceData /\ pd.small = small.small
        /\ player.state # "stopped" => pd.text = TextFor(player, None)
        /\ pd.stamp = IF pd.length > 0 /\ player.state = "playing" THEN epoch ELSE 0
    BY <1>3, <1>7, <1>8, NoneIsATrack, UpdatedTrackIs
  <1> HIDE DEF pd
  <1>10. /\ IsGood(b) /\ SameSession(a, b) /\ View(b.data) = View(pd)
         /\ b.hasPresence <=> /\ a.isInitialized /\ config'.isEnabled
                              /\ Shows(~config'.isEnabled, player, config')
    <2>1. (~config'.isEnabled) \in BOOLEAN
      BY <1>1 DEF Config
    <2>2. a.hasPresence /\ Shows(~config'.isEnabled, player, config') => config'.isEnabled
      BY DEF Shows
    <2>3. config' \in Config /\ player \in Player /\ IsGood(a) /\ pd \in PresenceData
      BY <1>1, <1>3, <1>4, <1>9
    <2>4. ASSUME NEW d \in BOOLEAN,
                 a.hasPresence /\ Shows(d, player, config') => config'.isEnabled
          PROVE  LET e == Closed(a, pd, d, player, config') IN
                 /\ IsGood(e) /\ SameSession(a, e) /\ View(e.data) = View(pd)
                 /\ e.hasPresence <=> /\ a.isInitialized /\ config'.isEnabled
                                      /\ Shows(d, player, config')
      BY <2>3, <2>4, ClosedKeeps
    <2> QED BY <2>1, <2>2, <2>4, Zenon
  <1> HIDE DEF b
  <1>11. SessionInv'
    BY <1>1, <1>4, <1>5, <1>10 DEF SessionInv, SameSession
  <1>12. DiscordInv'
    BY <1>1 DEF OnSettingsChanged, DiscordInv
  <1>13. PlayerInv' /\ CallbackInv'
    <2>1. CallbackInv'
      BY <1>1, CallbacksUnchanged
    <2> QED BY <1>1, <2>1 DEF PlayerInv, callbackVars
  <1>14. PresenceFollowsPlayback'
    BY <1>1, <1>5, <1>10 DEF PresenceFollowsPlayback, MayShow, Shows, SameSession
  <1>15. /\ b.data.text = pd.text /\ b.data.length = pd.length
         /\ b.data.small = pd.small /\ b.data.stamp = pd.stamp
    BY <1>9, <1>10, SameView DEF IsGood, Adapter
  <1>16. DataInv'
    <2>1. /\ player' = player /\ timers' = timers /\ needPresenceRefresh' = needPresenceRefresh
          /\ aborting' = aborting /\ adapter'.data = b.data
      BY <1>1, <1>5 DEF callbackVars
    <2>2. player.state # "stopped" => b.data.text = TextFor(player, None)
      BY <1>9, <1>15
    <2>3. player.state # "stopped" /\ ~needPresenceRefresh => StateIs(b.data, player)
      BY <1>7, <1>8, <1>9, <1>15 DEF StateIs
    <2>4. TextIsFresh'
      BY <2>1, <2>2 DEF TextIsFresh
    <2>5. player'.state # "stopped" /\ ~needPresenceRefresh' => StateIs(adapter'.data, player')
      BY <2>1, <2>3
    <2> QED BY <2>4, <2>5 DEF DataInv
  <1> QED BY <1>11, <1>12, <1>13, <1>14, <1>16

LEMMA RefreshImageKeeps ==
  ASSUME IInv, NEW image \in Images, RefreshImage(image) PROVE IInv'
  <1> USE DEF IInv
  <1> DEFINE pd == UpdatedImage(adapter.data, image)
  <1>1. adapter.data \in PresenceData
    BY DEF SessionInv, IsGood, Adapter
  <1>2. /\ pd \in PresenceData /\ pd.small = adapter.data.small /\ pd.text = adapter.data.text
        /\ pd.length = adapter.data.length /\ pd.stamp = adapter.data.stamp
    BY <1>1, UpdatedImageIs
  <1>3. UNCHANGED <<config, player, callbackVars, aborting, discord>>
    BY DEF RefreshImage
  <1>4. adapter' = Closed(adapter, pd, FALSE, player', config)
    BY <1>3 DEF RefreshImage
  <1> HIDE DEF pd
  <1>5. CallbackInv' /\ PlayerInv'
    <2>1. CallbackInv'
      BY <1>3, CallbacksUnchanged
    <2> QED BY <1>3, <2>1 DEF PlayerInv, callbackVars
  <1>6. player'.state # "stopped" /\ ~aborting =>
           pd.text = TextFor(player', None) \/ timers' > 0
    BY <1>2, <1>3 DEF DataInv, TextIsFresh, callbackVars
  <1>7. player'.state # "stopped" /\ ~needPresenceRefresh' => StateIs(pd, player')
    BY <1>2, <1>3 DEF DataInv, StateIs, callbackVars
  <1> QED BY <1>2, <1>3, <1>4, <1>5, <1>6, <1>7, HandlerKeeps

(* A callback of the library leaves the data alone. *)
LEMMA CallbackKeeps ==
  ASSUME IInv, UNCHANGED <<config, player, callbackVars, aborting>>,
         IsGood(adapter'), adapter'.data = adapter.data,
         adapter'.isInitialized = adapter.isInitialized,
         adapter'.callbackGeneration = adapter.callbackGeneration,
         adapter'.appToken = adapter.appToken,
         \/ adapter'.hasPresence = adapter.hasPresence
         \/ MayShow /\ adapter'.hasPresence,
         discord' \in [connected : BOOLEAN, shown : PresenceData \cup {None}]
  PROVE  IInv'
  <1> USE DEF IInv
  <1>1. SessionInv' /\ DiscordInv'
    BY DEF SessionInv, DiscordInv
  <1>2. CallbackInv'
    BY CallbacksUnchanged
  <1>3. PlayerInv' /\ DataInv'
    <2>1. /\ player' = player /\ timers' = timers /\ needPresenceRefresh' = needPresenceRefresh
          /\ aborting' = aborting
      BY DEF callbackVars
    <2>2. PlayerInv' /\ TextIsFresh'
      BY <2>1 DEF PlayerInv, DataInv, TextIsFresh
    <2>3. player'.state # "stopped" /\ ~needPresenceRefresh' => StateIs(adapter'.data, player')
      BY <2>1 DEF DataInv
    <2> QED BY <2>2, <2>3 DEF DataInv
  <1>4. PresenceFollowsPlayback'
    <2>1. MayShow' <=> MayShow
      BY DEF MayShow, SuppressedWhenPaused
    <2>2. needPresenceRefresh' = needPresenceRefresh
      BY DEF callbackVars
    <2> QED BY <2>1, <2>2 DEF PresenceFollowsPlayback
  <1> QED BY <1>1, <1>2, <1>3, <1>4

LEMMA PumpsKeep ==
  ASSUME IInv, NEW g \in Generation, PumpCallbacks(g) PROVE IInv'
  <1> USE DEF IInv
  <1> DEFINE a == [adapter EXCEPT !.pumps[g] = @ - 1]
             ran == RunCallbacks(a)
             b == ScheduleCallbackPump(ran)
             gen == adapter.callbackGeneration
  <1>1. IsGood(adapter) /\ adapter \in Adapter /\ adapter.pumps \in [Generation -> Nat]
        /\ gen \in Generation /\ gen \in Nat
    BY DEF SessionInv, IsGood, Adapter, Generation
  <1>2. /\ adapter.pumps[g] = 1
        /\ adapter' = IF a.isInitialized /\ g = a.callbackGeneration THEN b ELSE a
        /\ UNCHANGED <<config, player, callbackVars, aborting, discord>>
    <2>1. adapter.pumps[g] > 0 /\ adapter.pumps[g] <= 1 /\ adapter.pumps[g] \in Nat
      BY <1>1 DEF PumpCallbacks, IsGood, PumpsAreRight
    <2> QED BY <2>1 DEF PumpCallbacks
  <1>3. [adapter.pumps EXCEPT ![g] = 0] \in [Generation -> Nat]
    BY <1>1
  <1>4. /\ a \in Adapter /\ a.pumps = [adapter.pumps EXCEPT ![g] = 0] /\ a.data = adapter.data
        /\ a.isInitialized = adapter.isInitialized /\ a.callbackGeneration = gen
        /\ a.appToken = adapter.appToken /\ a.hasPresence = adapter.hasPresence
        /\ a.queued = adapter.queued /\ a.events = adapter.events
        /\ a.readyPosted = adapter.readyPosted
    BY <1>1, <1>2, <1>3 DEF Adapter
  <1>5. discord' \in [connected : BOOLEAN, shown : PresenceData \cup {None}]
    BY <1>2 DEF DiscordInv
  <1>6. SentIsData(adapter) /\ PumpsAreRight(adapter)
        /\ (adapter.hasPresence => adapter.isInitialized)
    BY <1>1 DEF IsGood
  <1> HIDE DEF a, gen
  <1>7. CASE a.isInitialized /\ g = gen
    <2>1. /\ ran \in Adapter /\ SameSession(a, ran) /\ ran.hasPresence = a.hasPresence
          /\ ran.queued = a.queued /\ ran.data = a.data /\ ran.events = {}
          /\ ("ready" \in a.events => ran.readyPosted > 0)
          /\ ran.readyPosted >= a.readyPosted /\ ran.readyPosted \in Nat /\ a.readyPosted \in Nat
      BY <1>4, RunCallbacksKeeps DEF Adapter
    <2> HIDE DEF ran
    <2>2. [ran.pumps EXCEPT ![gen] = @ + 1] = adapter.pumps
      BY <1>1, <1>2, <1>4, <1>7, <2>1 DEF SameSession
    <2>3. b = [ran EXCEPT !.pumps = adapter.pumps]
      BY <1>4, <2>1, <2>2 DEF ScheduleCallbackPump, SameSession
    <2> HIDE DEF b
    <2>4. /\ b \in Adapter /\ b.pumps = adapter.pumps /\ b.data = adapter.data
          /\ b.isInitialized = adapter.isInitialized /\ b.callbackGeneration = gen
          /\ b.appToken = adapter.appToken /\ b.hasPresence = adapter.hasPresence
          /\ b.queued = adapter.queued /\ b.events = {} /\ b.readyPosted = ran.readyPosted
      BY <1>1, <1>4, <2>1, <2>3 DEF SameSession, Adapter
    <2>5. SentIsData(b)
      BY <1>4, <1>6, <2>1, <2>4 DEF SentIsData
    <2>6. PumpsAreRight(b)
      BY <1>6, <2>4 DEF PumpsAreRight, gen
    <2>7. IsGood(b) /\ adapter' = b
      BY <1>2, <1>4, <1>6, <1>7, <2>4, <2>5, <2>6 DEF IsGood
    <2> QED BY <1>2, <1>5, <2>4, <2>7, CallbackKeeps DEF gen
  <1>8. CASE ~(a.isInitialized /\ g = gen)
    <2>1. g # gen
      <3>1. CASE ~a.isInitialized
        BY <1>2, <1>4, <1>6, <3>1 DEF PumpsAreRight, gen
      <3> QED BY <1>8, <3>1
    <2>2. /\ a.pumps[gen] = adapter.pumps[gen]
          /\ \A h \in Generation : a.pumps[h] = adapter.pumps[h] \/ a.pumps[h] = 0
      BY <1>1, <1>4, <2>1
    <2>3. PumpsAreRight(a)
      BY <1>4, <1>6, <2>2 DEF PumpsAreRight, gen
    <2>4. SentIsData(a)
      BY <1>4, <1>6 DEF SentIsData
    <2>5. IsGood(a) /\ adapter' = a
      BY <1>2, <1>4, <1>6, <1>8, <2>3, <2>4 DEF IsGood
    <2> QED BY <1>2, <1>4, <1>5, <2>5, CallbackKeeps DEF gen
  <1> QED BY <1>7, <1>8

(* The connection is renewed: the presence is sent again, unless it is hidden, *)
(* and then none was sent.                                                     *)
LEMMA ReadyKeeps == IInv /\ ReadyCallback => IInv'
  <1> SUFFICES ASSUME IInv, ReadyCallback PROVE IInv'
    OBVIOUS
  <1> USE DEF IInv
  <1> DEFINE a == [adapter EXCEPT !.readyPosted = @ - 1]
             shows == /\ config.isEnabled /\ player.state # "stopped"
                      /\ ~SuppressedWhenPaused(player, config)
             b == SendPresence(a, config)
  <1>1. IsGood(adapter) /\ adapter \in Adapter /\ config \in Config
    BY DEF SessionInv, IsGood, DiscordInv
  <1>2. /\ adapter.readyPosted > 0
        /\ adapter' = IF a.isInitialized /\ shows THEN b ELSE a
        /\ UNCHANGED <<config, player, callbackVars, aborting, discord>>
    BY DEF ReadyCallback
  <1>3. /\ a \in Adapter /\ SameSession(adapter, a) /\ a.data = adapter.data
        /\ a.hasPresence = adapter.hasPresence /\ a.queued = adapter.queued
    BY <1>1, <1>2 DEF Adapter, SameSession
  <1>4. discord' \in [connected : BOOLEAN, shown : PresenceData \cup {None}]
    BY <1>2 DEF DiscordInv
  <1>5. SentIsData(adapter) /\ PumpsAreRight(adapter)
        /\ (adapter.hasPresence => adapter.isInitialized)
    BY <1>1 DEF IsGood
  <1>6. ASSUME NEW d, SameSession(adapter, d) PROVE PumpsAreRight(d)
    BY <1>5, <1>6 DEF PumpsAreRight, SameSession
  <1>7. MayShow <=> a.isInitialized /\ shows
    BY <1>3 DEF MayShow, SameSession
  <1> HIDE DEF a
  <1>8. CASE a.isInitialized /\ shows
    <2>1. /\ b \in Adapter /\ SameSession(a, b) /\ b.data = a.data
          /\ b.hasPresence <=> a.isInitialized /\ config.isEnabled
          /\ SentIsData(b)
      BY <1>1, <1>3, <1>8, SendPresenceKeeps
    <2> HIDE DEF b
    <2>2. SameSession(adapter, b)
      BY <1>3, <2>1 DEF SameSession
    <2>3. b.hasPresence /\ b.isInitialized
      BY <1>8, <2>1 DEF SameSession
    <2>4. PumpsAreRight(b)
      BY <1>6, <2>2
    <2>5. IsGood(b) /\ adapter' = b
      BY <1>2, <1>8, <2>1, <2>3, <2>4 DEF IsGood
    <2> QED BY <1>2, <1>3, <1>4, <1>7, <1>8, <2>1, <2>2, <2>3, <2>5, CallbackKeeps DEF SameSession
  <1>9. CASE ~(a.isInitialized /\ shows)
    <2>1. ~adapter.hasPresence
      BY <1>7, <1>9 DEF PresenceFollowsPlayback
    <2>2. SentIsData(a) /\ PumpsAreRight(a)
      BY <1>3, <1>5, <1>6, <2>1 DEF SentIsData
    <2>3. IsGood(a) /\ adapter' = a
      BY <1>2, <1>3, <1>9, <2>1, <2>2 DEF IsGood
    <2> QED BY <1>2, <1>3, <1>4, <2>3, CallbackKeeps DEF SameSession
  <1> QED BY <1>8, <1>9

LEMMA QuitKeeps == IInv /\ Quit => IInv'
  <1> SUFFICES ASSUME IInv, Quit PROVE IInv'
    OBVIOUS
  <1> USE DEF IInv
  <1> DEFINE b == Finalized(adapter)
  <1>1. /\ ~aborting /\ aborting' = TRUE /\ adapter' = b
        /\ discord' = [connected |-> FALSE, shown |-> None]
        /\ UNCHANGED <<config, player, callbackVars>>
    BY DEF Quit
  <1>2. IsGood(adapter) /\ adapter.callbackGeneration + 1 \in Generation
    BY <1>1 DEF SessionInv, IsGood, Adapter, Generation
  <1>3. /\ IsGood(b) /\ ~b.isInitialized /\ ~b.hasPresence /\ b.data = adapter.data
        /\ b.appToken = adapter.appToken
    BY <1>2, FinalizedKeeps
  <1> HIDE DEF b
  <1>4. SessionInv' /\ DiscordInv'
    BY <1>1, <1>3 DEF SessionInv, DiscordInv
  <1>5. CallbackInv'
    BY <1>1, CallbacksUnchanged
  <1>6. PlayerInv' /\ PresenceFollowsPlayback'
    BY <1>1, <1>3 DEF PlayerInv, PresenceFollowsPlayback, MayShow, callbackVars
  <1>7. DataInv'
    <2>1. player' = player /\ needPresenceRefresh' = needPresenceRefresh
          /\ adapter'.data = adapter.data
      BY <1>1, <1>3 DEF callbackVars
    <2>2. TextIsFresh'
      BY <1>1 DEF TextIsFresh
    <2>3. player'.state # "stopped" /\ ~needPresenceRefresh' => StateIs(adapter'.data, player')
      BY <2>1 DEF DataInv
    <2> QED BY <2>2, <2>3 DEF DataInv
  <1> QED BY <1>4, <1>5, <1>6, <1>7

LEMMA ConnectsKeeps == IInv /\ DiscordConnects => IInv'
  <1> SUFFICES ASSUME IInv, DiscordConnects PROVE IInv'
    OBVIOUS
  <1> USE DEF IInv
  <1>1. PICK q \in {adapter.queued, None} :
           adapter' = [adapter EXCEPT !.events = @ \cup {"ready"}, !.queued = q]
    BY DEF DiscordConnects
  <1>2. IsGood(adapter) /\ adapter \in Adapter
    BY DEF SessionInv, IsGood
  <1>3. /\ adapter' \in Adapter /\ SameSession(adapter, adapter')
        /\ adapter'.data = adapter.data /\ adapter'.hasPresence = adapter.hasPresence
        /\ adapter'.queued = q /\ "ready" \in adapter'.events
    BY <1>1, <1>2 DEF Adapter, SameSession
  <1>4. SentIsData(adapter')
    BY <1>2, <1>3 DEF IsGood, SentIsData
  <1>5. PumpsAreRight(adapter')
    BY <1>2, <1>3 DEF IsGood, PumpsAreRight, SameSession
  <1>6. IsGood(adapter')
    BY <1>2, <1>3, <1>4, <1>5 DEF IsGood, SameSession
  <1>7. discord' \in [connected : BOOLEAN, shown : PresenceData \cup {None}]
    BY DEF DiscordConnects, DiscordInv
  <1> QED BY <1>3, <1>6, <1>7, CallbackKeeps DEF DiscordConnects, SameSession

(* The client shows what it was sent, or nothing any more. *)
LEMMA ClientKeeps == IInv /\ (DiscordDisconnects \/ DiscordReceives) => IInv'
  <1> SUFFICES ASSUME IInv, DiscordDisconnects \/ DiscordReceives PROVE IInv'
    OBVIOUS
  <1>1. IsGood(adapter) /\ adapter.queued \in PresenceData \cup {None}
    BY DEF IInv, SessionInv, IsGood, Adapter
  <1>2. discord' \in [connected : BOOLEAN, shown : PresenceData \cup {None}]
    <2>1. discord \in [connected : BOOLEAN, shown : PresenceData \cup {None}]
      BY DEF IInv, DiscordInv
    <2>2. CASE DiscordDisconnects
      BY <2>2 DEF DiscordDisconnects
    <2>3. CASE DiscordReceives
      BY <1>1, <2>1, <2>3 DEF DiscordReceives
    <2> QED BY <2>2, <2>3
  <1>3. UNCHANGED <<config, player, adapter, callbackVars, aborting>>
    BY DEF DiscordDisconnects, DiscordReceives
  <1> QED BY <1>1, <1>2, <1>3, CallbackKeeps

LEMMA IInvStep == IInv /\ [Next]_vars => IInv'
  <1> SUFFICES ASSUME IInv, [Next]_vars PROVE IInv'
    OBVIOUS
  <1>1. CASE OnPlaybackStop
    BY <1>1, StopKeeps
  <1>2. CASE OnPlaybackSeek \/ OnPlaybackResume
    BY <1>2, SeekAndResumeKeep
  <1>3. CASE Quit
    BY <1>3, QuitKeeps
  <1>4. ASSUME NEW image \in Image,
               \/ PlaybackEvent(image) \/ OnPlaybackTime(image) \/ DynamicUpdateTimer(image)
               \/ OnSettingsChanged(image) \/ RefreshImage(image)
        PROVE  IInv'
    <2>1. image \in Images
      BY DEF Images
    <2>2. CASE PlaybackEvent(image)
      BY <2>1, <2>2, TrackUpdatesKeep, DynamicInfoKeeps DEF PlaybackEvent
    <2>3. CASE OnPlaybackTime(image)
      BY <2>1, <2>3, PlaybackTimeKeeps
    <2>4. CASE DynamicUpdateTimer(image)
      BY <2>1, <2>4, TimerKeeps
    <2>5. CASE OnSettingsChanged(image)
      BY <2>1, <2>5, SettingsKeep
    <2>6. CASE RefreshImage(image)
      BY <2>1, <2>6, RefreshImageKeeps
    <2> QED BY <1>4, <2>2, <2>3, <2>4, <2>5, <2>6
  <1>5. ASSUME NEW g \in Generation, PumpCallbacks(g) PROVE IInv'
    BY <1>5, PumpsKeep
  <1>6. CASE ReadyCallback
    BY <1>6, ReadyKeeps
  <1>7. CASE DiscordConnects
    BY <1>7, ConnectsKeeps
  <1>8. CASE DiscordDisconnects \/ DiscordReceives
    BY <1>8, ClientKeeps
  <1>9. CASE UNCHANGED vars
    <2>1. UNCHANGED <<config, player, callbackVars, adapter, aborting, discord>>
      BY <1>9 DEF vars
    <2>2. IsGood(adapter) /\ discord \in [connected : BOOLEAN, shown : PresenceData \cup {None}]
      BY DEF IInv, SessionInv, DiscordInv
    <2> QED BY <2>1, <2>2, CallbackKeeps
  <1> QED BY <1>1, <1>2, <1>3, <1>4, <1>5, <1>6, <1>7, <1>8, <1>9 DEF Next

LEMMA IInvHolds == Spec => []IInv
  BY InitKeeps, IInvStep, PTL DEF Spec

-----------------------------------------------------------------------------
(* The theorems. *)

(* Every variable has its type, at most one postponed update is queued, and   *)
(* the adapter is initialised exactly under the configured application id,    *)
(* for every set of ids and every number of changes of the settings.          *)
THEOREM PresenceTypeCorrect == Spec => []TypeOK
  <1>1. IInv => TypeOK
    BY DEF IInv, PlayerInv, CallbackInv, DiscordInv, SessionInv, IsGood, TypeOK, Config
  <1> QED BY <1>1, IInvHolds, PTL

(* Whatever callback runs late, Discord is told of a presence only while the  *)
(* settings and the playback allow one, and then it is.                       *)
THEOREM PresenceAlwaysFollowsPlayback == Spec => []PresenceFollowsPlayback
  <1>1. IInv => PresenceFollowsPlayback
    BY DEF IInv
  <1> QED BY <1>1, IInvHolds, PTL

(* What the library was last told is the adapter's data, unless it is about *)
(* to be told again.                                                        *)
THEOREM LastSentIsAlwaysData == Spec => []LastSentIsData
  <1>1. IInv => LastSentIsData
    BY DEF IInv, SessionInv, IsGood, SentIsData, LastSentIsData
  <1> QED BY <1>1, IInvHolds, PTL

(* One callback pump runs while the adapter is initialised. *)
THEOREM OnePumpAlways == Spec => []OnePump
  <1>1. IInv => OnePump
    BY DEF IInv, SessionInv, IsGood, PumpsAreRight, OnePump
  <1> QED BY <1>1, IInvHolds, PTL

(* No change of a stream's title is lost. *)
THEOREM TextIsAlwaysFresh == Spec => []TextIsFresh
  <1>1. IInv => TextIsFresh
    BY DEF IInv, DataInv
  <1> QED BY <1>1, IInvHolds, PTL

(* Timestamps and the small image are those of the playback, but for a *)
(* refresh that is due.                                                *)
THEOREM PlaybackStateIsAlwaysShown == Spec => []PlaybackStateIsShown
  <1>1. IInv => PlaybackStateIsShown
    <2> SUFFICES ASSUME IInv, adapter.hasPresence, ~needPresenceRefresh
                 PROVE  StateIs(adapter.data, player)
      BY DEF PlaybackStateIsShown, StateIs, IInv, SessionInv, IsGood, Adapter
    <2>1. player.state # "stopped"
      BY DEF IInv, PresenceFollowsPlayback, MayShow
    <2> QED BY <2>1 DEF IInv, DataInv
  <1> QED BY <1>1, IInvHolds, PTL
=============================================================================

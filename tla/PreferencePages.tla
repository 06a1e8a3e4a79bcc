---------------------------- MODULE PreferencePages ----------------------------
(***************************************************************************)
(* The configuration over starts, crashes and releases (fb2k/config.cpp,   *)
(* dllmain.cpp, the migrations of DiscordAdapter::Initialize), and the     *)
(* Preferences pages that edit it: the tab manager, the Main tab with its  *)
(* status line, the Advanced tab (ui/ui_pref_tab_manager.cpp, _main.cpp,   *)
(* _advanced.cpp).  The Providers tab is module ProviderPreferences; here  *)
(* its options are whether an artwork source is enabled.                   *)
(*                                                                         *)
(* Data abstraction.  Of the options those are kept that something else    *)
(* depends on.  The text lines are one text.  Release "old" stands for the *)
(* releases before the application id and the text lines changed.          *)
(***************************************************************************)
CONSTANTS
    Id,         \* Discord application ids that are typed
    Legacy,     \* kLegacyDiscordApplicationId
    Default,    \* kDefaultDiscordApplicationId
    Text,       \* texts that are typed
    None        \* no old text, no page, no tab

Policy == {"PreferArtwork", "ApplicationIcon", "ArtworkOnly"}
Tab == {"Main", "Providers", "Advanced", "Troubleshooting"}
Values == [id : Id, policy : Policy, sources : BOOLEAN, text : Text]

ASSUME PagesAssumption ==
    /\ {Legacy, Default} \subseteq Id /\ Legacy # Default
    /\ None \notin Text /\ None \notin Tab /\ None \notin Values

Live == {"Idle", "Resolved"}      \* two of the fetcher's statuses

VARIABLES
    config,    \* the configuration
    disk,      \* the configuration that a crash may fall back to
    running,   \* "off", a place in the start, "old", or "this"
    told,      \* DiscordAdapter::appToken_
    cur,       \* the current values of the open pages, or None
    active,    \* activeTabIdx_
    tab,       \* the tab whose window exists, or None
    status,    \* ArtworkFetcher's status
    line       \* the status line of the Main tab

pageVars == <<cur, active, tab, line>>
vars == <<config, disk, running, told, status, pageVars>>

(* wish: history, what the user chose last.  again: history, the marker of *)
(* the migration may be missing since then.                                *)
Wish == [id : Id, text : Text, again : BOOLEAN]
Config == [id : Id, marker : BOOLEAN, policy : Policy \cup {"Unknown"}, sources : BOOLEAN,
           oldText : Text \cup {None}, text : Text, wish : Wish]

(* What an old release left: its id, maybe its text, nothing of this one. *)
Init ==
    /\ \E id \in Id, old \in Text \cup {None}, text \in Text :
          config = [id |-> id, marker |-> FALSE, policy |-> "PreferArtwork", sources |-> TRUE,
                    oldText |-> old, text |-> text,
                    wish |-> [id |-> id, text |-> IF old = None THEN text ELSE old,
                              again |-> TRUE]]
    /\ disk = config
    /\ running = "off" /\ told = Default /\ status = "Idle"
    /\ cur = None /\ active = "Main" /\ tab = None /\ line = "none"

-----------------------------------------------------------------------------
(* The start: each assignment to the configuration is a step, so that the  *)
(* program can crash between any two.                                      *)

Starts(from, to) == running = from /\ running' = to /\ UNCHANGED <<disk, status, pageVars>>

OnInit == Starts("off", "id") /\ UNCHANGED <<config, told>>

(* MigrateLegacyDiscordApplicationId *)
MigrateId ==
    /\ Starts("id", "marker")
    /\ config' = [config EXCEPT !.id = IF ~config.marker /\ @ = Legacy THEN Default ELSE @]
    /\ UNCHANGED told

(* Mutant: the migration is not recorded. *)
MarkNothing == Starts("marker", "policy") /\ UNCHANGED <<config, told>>

MarkMigrated ==
    /\ Starts("marker", "policy")
    /\ config' = [config EXCEPT !.marker = TRUE]
    /\ UNCHANGED told

SanitiseArtworkDisplayPolicy ==
    /\ Starts("policy", "text")
    /\ config' = [config EXCEPT !.policy = IF @ \in Policy THEN @ ELSE "PreferArtwork"]
    /\ UNCHANGED told

(* DiscordAdapter::Initialize: an old text replaces the new one, then it is *)
(* reset, then the adapter takes the application id.                        *)
MigrateText ==
    /\ Starts("text", "oldText")
    /\ config' = [config EXCEPT !.text = IF config.oldText = None THEN @ ELSE config.oldText]
    /\ UNCHANGED told

Initialize ==
    /\ Starts("oldText", "this")
    /\ config' = [config EXCEPT !.oldText = None]
    /\ told' = config.id

(* An old release runs: the user may choose an id and a text, and the marker, *)
(* which that release does not know, may be lost.                             *)
RunOldRelease ==
    /\ running = "off"
    /\ \E id \in Id, old \in Text \cup {None}, marker \in {FALSE, config.marker} :
          LET text == IF old = None THEN config.wish.text ELSE old IN
          config' = [config EXCEPT !.id = id, !.marker = marker,
                                   !.oldText = IF old = None THEN @ ELSE old,
                                   !.wish = [id |-> id, text |-> text, again |-> TRUE]]
    /\ disk' = config'
    /\ UNCHANGED <<running, told, status, pageVars>>

(* A newer release left a policy that this one does not know. *)
RunNewRelease ==
    /\ running = "off" /\ config' = [config EXCEPT !.policy = "Unknown"] /\ disk' = config'
    /\ UNCHANGED <<running, told, status, pageVars>>

(* The host stores the configuration when it likes, and when it exits. *)
StoreConfig == disk' = config /\ UNCHANGED <<config, running, told, status, pageVars>>

Ends ==
    /\ running' = "off" /\ status' = "Idle" /\ UNCHANGED told
    /\ cur' = None /\ active' = "Main" /\ tab' = None /\ line' = "none"

Exit == running = "this" /\ Ends /\ disk' = config /\ UNCHANGED config
Crash == running # "off" /\ Ends /\ config' = disk /\ UNCHANGED disk

-----------------------------------------------------------------------------
(* The pages. *)

ValuesOf(c) == [id |-> c.id, policy |-> c.policy, sources |-> c.sources, text |-> c.text]

(* HasPendingArtworkSettings, and the policy of the Main tab. *)
ArtworkIsPending(c, v) == v.policy # c.policy \/ v.sources # c.sources

(* Mutant: the options of the Providers tab are not looked at. *)
LineOfMainTab(c, v, s) ==
    IF v.policy # c.policy THEN "pending"
    ELSE IF c.policy = "ApplicationIcon" THEN "disabled"
    ELSE IF ~c.sources THEN "noSource" ELSE s

(* UpdateArtworkStatus *)
Line(c, v, s) ==
    IF ArtworkIsPending(c, v) THEN "pending"
    ELSE IF c.policy = "ApplicationIcon" THEN "disabled"
    ELSE IF ~c.sources THEN "noSource" ELSE s

UpdateArtworkStatus == line' = IF tab' = "Main" THEN Line(config', cur', status) ELSE "none"

Pages(guard) == running = "this" /\ guard /\ UNCHANGED <<disk, running, status>>
KeepsSettings == UNCHANGED <<config, told>>

(* The window of a tab is made when the tab is selected or shown. *)
CreateTab(t) == active' = t /\ tab' = t /\ UpdateArtworkStatus

OpenPreferences ==
    /\ Pages(cur = None) /\ KeepsSettings
    /\ cur' = ValuesOf(config)
    /\ CreateTab("Main")

SelectTab ==
    /\ Pages(tab # None) /\ KeepsSettings /\ UNCHANGED cur
    /\ \E t \in Tab : CreateTab(t)

HidePages ==
    /\ Pages(tab # None) /\ KeepsSettings /\ UNCHANGED cur
    /\ tab' = None /\ line' = "none" /\ UNCHANGED active

ShowPages ==
    /\ Pages(cur # None /\ tab = None) /\ KeepsSettings /\ UNCHANGED cur
    /\ CreateTab(active)

(* The destructors revert what was not applied. *)
ClosePreferences ==
    /\ Pages(cur # None) /\ KeepsSettings
    /\ cur' = None /\ active' = "Main" /\ tab' = None /\ line' = "none"

(* Only an edit in the Main tab updates the line. *)
EditMain ==
    /\ Pages(tab = "Main") /\ KeepsSettings /\ UNCHANGED <<active, tab>>
    /\ \E p \in Policy, x \in Text : cur' = [cur EXCEPT !.policy = p, !.text = x]
    /\ UpdateArtworkStatus

EditOtherTab ==
    /\ Pages(tab \in {"Providers", "Advanced"}) /\ KeepsSettings /\ UNCHANGED <<active, tab, line>>
    /\ IF tab = "Providers"
       THEN \E b \in BOOLEAN : cur' = [cur EXCEPT !.sources = b]
       ELSE \E id \in Id : cur' = [cur EXCEPT !.id = id]

(* apply: every tab, then DiscordAdapter::OnSettingsChanged.  The Providers *)
(* tab may refuse its options, or keep them pending after a failure.        *)
Apply ==
    /\ Pages(cur # None) /\ UNCHANGED <<active, tab, line>>
    /\ \E done, kept \in BOOLEAN :
          /\ config' = [config EXCEPT !.id = cur.id, !.policy = cur.policy, !.text = cur.text,
                                      !.sources = IF done THEN cur.sources ELSE @,
                                      !.wish = [id |-> cur.id, text |-> cur.text,
                                                again |-> FALSE]]
          /\ cur' = IF done \/ kept THEN cur ELSE [cur EXCEPT !.sources = config.sources]
    /\ told' = cur.id

(* reset: the defaults are current values; nothing is saved.  Where writing *)
(* them to the Main tab counts as an edit, the line is updated before the    *)
(* Providers tab is reset.                                                   *)
Reset ==
    /\ Pages(cur # None) /\ KeepsSettings /\ UNCHANGED <<active, tab>>
    /\ \E x \in Text : cur' = [id |-> Default, policy |-> "PreferArtwork", sources |-> TRUE,
                               text |-> x]
    /\ line' \in {line, IF tab = "Main"
                         THEN Line(config, [cur' EXCEPT !.sources = cur.sources], status)
                         ELSE "none"}

(* The timer of the Main tab, once per second. *)
OnTimer ==
    /\ Pages(tab = "Main") /\ KeepsSettings /\ UNCHANGED <<cur, active, tab>>
    /\ UpdateArtworkStatus

FetcherReports ==
    /\ running = "this" /\ status' \in Live
    /\ UNCHANGED <<config, disk, running, told, pageVars>>

PageStep ==
    \/ OpenPreferences \/ SelectTab \/ HidePages \/ ShowPages \/ ClosePreferences
    \/ EditMain \/ EditOtherTab \/ Apply \/ Reset \/ OnTimer

StartStep ==
    \/ OnInit \/ MigrateId \/ MarkMigrated \/ SanitiseArtworkDisplayPolicy
    \/ MigrateText \/ Initialize

Next ==
    \/ StartStep \/ PageStep \/ FetcherReports
    \/ RunOldRelease \/ RunNewRelease \/ StoreConfig \/ Exit \/ Crash

(* A timer of a window that exists is served. *)
Spec == Init /\ [][Next]_vars /\ WF_vars(OnTimer)
-----------------------------------------------------------------------------
(* Properties. *)

(* Every variable has its type; the window is that of the active tab. *)
TypeOK ==
    /\ config \in Config /\ disk \in Config /\ told \in Id
    /\ cur \in Values \cup {None} /\ status \in Live
    /\ active \in Tab /\ tab \in {active, None}
    /\ tab # None => cur # None

(* docs/CONFIGURATION.md:334-339: a custom application id is preserved, and  *)
(* the legacy id "can still be selected deliberately afterwards".  Whatever  *)
(* crashes, returns to an old release and re-upgrades come between, what the *)
(* user chose last is in force, but for a legacy id that was chosen without  *)
(* the marker; no text is lost either, and Discord runs under the saved id.  *)
ChoicesAreKept ==
    running = "this" =>
        /\ \/ config.id = config.wish.id
           \/ config.wish.id = Legacy /\ config.wish.again /\ config.id = Default
        /\ config.text = config.wish.text
        /\ config.policy \in Policy /\ told = config.id

LineIsRight ==
    /\ line = "pending" <=> ArtworkIsPending(config, cur)
    /\ line \in Live => line = status /\ config.policy # "ApplicationIcon" /\ config.sources

(* docs/CONFIGURATION.md:198-201: unsaved artwork changes "are labelled as   *)
(* pending rather than being mixed with live status".  Whatever edit in      *)
(* another tab, reset, refused Apply or result of the fetcher made the line  *)
(* of the shown Main tab wrong, it comes to be right.                        *)
LineFollows == (tab = "Main" /\ ~LineIsRight) ~> (tab # "Main" \/ LineIsRight)
=============================================================================

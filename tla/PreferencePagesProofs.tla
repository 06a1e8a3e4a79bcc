------------------------- MODULE PreferencePagesProofs -------------------------
(***************************************************************************)
(* Proofs about PreferencePages, for every set of application ids and      *)
(* texts: no crash, no return to an old release and no page loses what the *)
(* user chose.                                                             *)
(***************************************************************************)
EXTENDS PreferencePages, TLAPS

USE PagesAssumption

(* The id that a start makes of c is the one that was chosen, but for a       *)
(* legacy id that was chosen while the marker may have been missing.          *)
IdIsKept(c) ==
    /\ \/ c.id = c.wish.id
       \/ c.wish.id = Legacy /\ c.wish.again /\ c.id = Default
    /\ c.id = Legacy /\ ~c.marker => c.wish.again

(* The text that a start makes of c is the one that was chosen. *)
TextIsKept(c) == c.wish.text = IF c.oldText = None THEN c.text ELSE c.oldText

IsGood(c) == c \in Config /\ IdIsKept(c) /\ TextIsKept(c)

Marked == {"policy", "text", "oldText", "this"}
Sanitised == {"text", "oldText", "this"}

(* What is true at each place of the start. *)
StartIsRight ==
    /\ running \in Marked => config.marker
    /\ running \in Sanitised => config.policy \in Policy
    /\ running \in {"oldText", "this"} => config.text = config.wish.text
    /\ running = "this" => config.oldText = None /\ told = config.id

(* The inductive invariant: both the configuration and what a crash falls     *)
(* back to are good, at every place.                                          *)
IInv ==
    /\ TypeOK /\ IsGood(config) /\ IsGood(disk) /\ StartIsRight

-----------------------------------------------------------------------------
(* What pages that open show has its type. *)
LEMMA ValuesType == ASSUME NEW c \in Config, c.policy \in Policy PROVE ValuesOf(c) \in Values
  BY DEF ValuesOf, Config, Values

(* A step of the pages that changes no setting keeps the invariant, as long  *)
(* as the pages' values keep their type.                                      *)
LEMMA PageKeeps ==
  ASSUME IInv, KeepsSettings, UNCHANGED <<disk, running, status>>,
         cur' \in Values \cup {None}, active' \in Tab, tab' \in {active', None},
         tab' # None => cur' # None
  PROVE  IInv'
  BY DEF IInv, KeepsSettings, TypeOK, StartIsRight

LEMMA InitIsGood == Init => IInv
  <1> SUFFICES ASSUME Init PROVE IInv
    OBVIOUS
  <1>1. PICK id \in Id, old \in Text \cup {None}, text \in Text :
           config = [id |-> id, marker |-> FALSE, policy |-> "PreferArtwork",
                     sources |-> TRUE, oldText |-> old, text |-> text,
                     wish |-> [id |-> id, text |-> IF old = None THEN text ELSE old,
                               again |-> TRUE]]
    BY DEF Init
  <1>2. config \in Config
    BY <1>1 DEF Config, Wish, Policy
  <1>3. IdIsKept(config) /\ TextIsKept(config)
    BY <1>1 DEF IdIsKept, TextIsKept
  <1> QED BY <1>2, <1>3 DEF Init, IInv, IsGood, TypeOK, StartIsRight, Marked, Sanitised, Live, Tab

LEMMA StartKeeps == IInv /\ StartStep => IInv'
  <1> SUFFICES ASSUME IInv, StartStep PROVE IInv'
    OBVIOUS
  <1> USE DEF IInv, IsGood, TypeOK, Starts, pageVars, Config, Wish
  <1>1. CASE OnInit
    BY <1>1 DEF OnInit, StartIsRight, Marked, Sanitised
  <1>2. CASE MigrateId
    <2>1. config' \in Config /\ TextIsKept(config')
      BY <1>2 DEF MigrateId, TextIsKept
    <2>2. IdIsKept(config')
      BY <1>2 DEF MigrateId, IdIsKept
    <2> QED BY <1>2, <2>1, <2>2 DEF MigrateId, StartIsRight, Marked, Sanitised
  <1>3. CASE MarkMigrated
    <2>1. config' = [config EXCEPT !.marker = TRUE] /\ running' = "policy"
      BY <1>3 DEF MarkMigrated
    <2>2. config' \in Config /\ IdIsKept(config') /\ TextIsKept(config') /\ config'.marker
      BY <2>1 DEF IdIsKept, TextIsKept
    <2> QED BY <1>3, <2>2 DEF MarkMigrated, StartIsRight, Marked, Sanitised
  <1>4. CASE SanitiseArtworkDisplayPolicy
    BY <1>4 DEF SanitiseArtworkDisplayPolicy, StartIsRight, Marked, Sanitised, IdIsKept,
                TextIsKept, Policy
  <1>5. CASE MigrateText
    BY <1>5 DEF MigrateText, StartIsRight, Marked, Sanitised, IdIsKept, TextIsKept
  <1>6. CASE Initialize
    BY <1>6 DEF Initialize, StartIsRight, Marked, Sanitised, IdIsKept, TextIsKept
  <1> QED BY <1>1, <1>2, <1>3, <1>4, <1>5, <1>6 DEF StartStep

(* What runs between the starts: other releases, the host, a crash. *)
LEMMA HostKeeps ==
  IInv /\ (RunOldRelease \/ RunNewRelease \/ StoreConfig \/ Exit \/ Crash \/ FetcherReports)
     => IInv'
  <1> SUFFICES ASSUME IInv,
                      RunOldRelease \/ RunNewRelease \/ StoreConfig \/ Exit \/ Crash
                        \/ FetcherReports
               PROVE  IInv'
    OBVIOUS
  <1> USE DEF IInv, IsGood, TypeOK, pageVars, Ends, Live, Tab
  <1>1. CASE RunOldRelease
    <2>1. PICK id \in Id, old \in Text \cup {None}, marker \in {FALSE, config.marker} :
             config' = [config EXCEPT
                !.id = id, !.marker = marker, !.oldText = IF old = None THEN @ ELSE old,
                !.wish = [id |-> id, text |-> IF old = None THEN config.wish.text ELSE old,
                          again |-> TRUE]]
      BY <1>1 DEF RunOldRelease
    <2>2. config' \in Config
      BY <2>1 DEF Config, Wish
    <2>3. IdIsKept(config') /\ TextIsKept(config')
      BY <2>1 DEF Config, Wish, IdIsKept, TextIsKept
    <2> QED BY <1>1, <2>2, <2>3 DEF RunOldRelease, StartIsRight, Marked, Sanitised
  <1>2. CASE RunNewRelease
    <2>1. config' \in Config /\ IdIsKept(config') /\ TextIsKept(config')
      BY <1>2 DEF RunNewRelease, Config, IdIsKept, TextIsKept
    <2> QED BY <1>2, <2>1 DEF RunNewRelease, StartIsRight, Marked, Sanitised
  <1>3. CASE StoreConfig
    BY <1>3 DEF StoreConfig, StartIsRight
  <1>4. CASE Exit
    BY <1>4 DEF Exit, StartIsRight, Marked, Sanitised
  <1>5. CASE Crash
    BY <1>5 DEF Crash, StartIsRight, Marked, Sanitised
  <1>6. CASE FetcherReports
    BY <1>6 DEF FetcherReports, StartIsRight
  <1> QED BY <1>1, <1>2, <1>3, <1>4, <1>5, <1>6

LEMMA PagesKeep == IInv /\ PageStep => IInv'
  <1> SUFFICES ASSUME IInv, PageStep PROVE IInv'
    OBVIOUS
  <1>1. CASE OpenPreferences
    <2>1. cur' = ValuesOf(config) /\ cur' \in Values
      BY <1>1, ValuesType DEF OpenPreferences, Pages, IInv, StartIsRight, Sanitised, IsGood
    <2>2. cur' # None
      BY <2>1
    <2> QED BY <1>1, <2>1, <2>2, PageKeeps DEF OpenPreferences, Pages, CreateTab, Tab
  <1>2. CASE SelectTab \/ HidePages \/ ShowPages \/ ClosePreferences \/ OnTimer
    <2>1. UNCHANGED cur \/ (cur' = None /\ tab' = None)
      BY <1>2 DEF SelectTab, HidePages, ShowPages, ClosePreferences, OnTimer
    <2>2. KeepsSettings /\ UNCHANGED <<disk, running, status>>
      BY <1>2 DEF SelectTab, HidePages, ShowPages, ClosePreferences, OnTimer, Pages
    <2>3. active' \in Tab /\ tab' \in {active', None} /\ (tab' # None => cur' # None)
      BY <1>2, <2>1 DEF SelectTab, HidePages, ShowPages, ClosePreferences, OnTimer, Pages,
                  CreateTab, IInv, TypeOK, Tab
    <2> QED BY <2>1, <2>2, <2>3, PageKeeps DEF IInv, TypeOK
  <1>3. CASE EditMain \/ EditOtherTab \/ Reset
    <2>1. cur # None
      BY <1>3 DEF EditMain, EditOtherTab, Reset, Pages, IInv, TypeOK, Tab
    <2>2. cur \in Values
      BY <2>1 DEF IInv, TypeOK
    <2>3. cur' \in Values
      <3>1. CASE EditMain
        BY <2>2, <3>1 DEF EditMain, Values
      <3>2. CASE EditOtherTab
        BY <2>2, <3>2 DEF EditOtherTab, Values
      <3>3. CASE Reset
        BY <2>2, <3>3 DEF Reset, Values, Policy
      <3> QED BY <1>3, <3>1, <3>2, <3>3
    <2>4. UNCHANGED <<active, tab>> /\ KeepsSettings /\ UNCHANGED <<disk, running, status>>
      BY <1>3 DEF EditMain, EditOtherTab, Reset, Pages
    <2> QED BY <2>3, <2>4, PageKeeps DEF IInv, TypeOK
  <1>4. CASE Apply
    <2>1. PICK done, kept \in BOOLEAN :
             /\ config' = [config EXCEPT
                   !.id = cur.id, !.policy = cur.policy, !.text = cur.text,
                   !.sources = IF done THEN cur.sources ELSE @,
                   !.wish = [id |-> cur.id, text |-> cur.text, again |-> FALSE]]
             /\ cur' = IF done \/ kept THEN cur ELSE [cur EXCEPT !.sources = config.sources]
      BY <1>4 DEF Apply
    <2>2. cur \in Values /\ running = "this"
      BY <1>4 DEF Apply, Pages, IInv, TypeOK
    <2>3. cur' \in Values
      BY <2>1, <2>2 DEF Values, IInv, TypeOK, Config
    <2>4. /\ config' \in Config /\ config'.policy \in Policy
          /\ config'.marker = config.marker /\ config'.oldText = config.oldText
          /\ config'.id = cur.id /\ config'.text = cur.text
          /\ config'.wish = [id |-> cur.id, text |-> cur.text, again |-> FALSE]
      BY <2>1, <2>2 DEF Values, IInv, TypeOK, Config, Wish
    <2>5. config.marker /\ config.oldText = None
      BY <2>2 DEF IInv, StartIsRight, Marked
    <2>6. IdIsKept(config') /\ TextIsKept(config')
      BY <2>4, <2>5 DEF IdIsKept, TextIsKept
    <2>7. StartIsRight'
      BY <1>4, <2>2, <2>4, <2>5 DEF Apply, Pages, StartIsRight
    <2>8. TypeOK'
      BY <1>4, <2>2, <2>3, <2>4 DEF Apply, Pages, IInv, TypeOK, Values
    <2> QED BY <1>4, <2>4, <2>6, <2>7, <2>8 DEF Apply, Pages, IInv, IsGood
  <1> QED BY <1>1, <1>2, <1>3, <1>4 DEF PageStep

-----------------------------------------------------------------------------
LEMMA IInvStep == IInv /\ [Next]_vars => IInv'
  <1>1. ASSUME IInv, UNCHANGED vars PROVE IInv'
    BY <1>1 DEF IInv, TypeOK, StartIsRight, vars, pageVars
  <1> QED BY <1>1, StartKeeps, PagesKeep, HostKeeps DEF Next

LEMMA IInvHolds == Spec => []IInv
  BY InitIsGood, IInvStep, PTL DEF Spec

(* Every variable has its type. *)
THEOREM PagesTypeCorrect == Spec => []TypeOK
  <1>1. IInv => TypeOK
    BY DEF IInv
  <1> QED BY <1>1, IInvHolds, PTL

(* Whatever crashes, returns to an old release and re-upgrades come between,  *)
(* the application id and the text that the user chose last are in force.     *)
THEOREM ChoicesAreAlwaysKept == Spec => []ChoicesAreKept
  <1>1. IInv => ChoicesAreKept
    BY DEF IInv, IsGood, IdIsKept, StartIsRight, Sanitised, ChoicesAreKept
  <1> QED BY <1>1, IInvHolds, PTL
=============================================================================

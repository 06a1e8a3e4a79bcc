------------------------- MODULE ProviderPreferences -------------------------
(***************************************************************************)
(* The Providers tab of Preferences (ui/ui_pref_tab_providers.cpp).  The   *)
(* user edits options and a TheAudioDB key, which take effect on Apply:    *)
(* the key goes to the credential manager, the options to the              *)
(* configuration, and artwork that was cached under other settings is      *)
(* dropped.  The credential manager may fail.                              *)
(*                                                                         *)
(* Everything runs on the main thread, so a handler is one action.  The    *)
(* window exists while the tab is shown; the object behind it lives until  *)
(* Preferences is closed.  Of the controls, those with distinct conditions *)
(* are kept.  Width and height are one size.                               *)
(***************************************************************************)
EXTENDS FiniteSets

CONSTANTS
    Key,          \* keys that can be typed
    Eligible,     \* those that IsEligibleTheAudioDbSupporterKey accepts
    Client,       \* Imgur client ids
    Pin,          \* pin queries
    Size,         \* upload sizes
    ValidSize,    \* those that AreValidLocalArtworkUploadOptions accepts
    DefaultPin, DefaultSize,
    None          \* an empty field, no key, no window, nothing cached

ASSUME ConstantsAssumption ==
    /\ Eligible \subseteq Key /\ ValidSize \subseteq Size
    /\ None \notin Key \cup Client \cup Pin
    /\ "clear" \notin Key \cup {None}
    /\ DefaultPin \in Pin /\ DefaultSize \in ValidSize

Provider == {"tadb", "catbox", "imgur"}

(* The options of the tab.  The MusicBrainz checkbox is applied with them  *)
(* and takes part in nothing else.                                         *)
Options ==
    [tadb : BOOLEAN, catbox : BOOLEAN, imgur : BOOLEAN,
     client : Client \cup {None}, pin : Pin \cup {None}, size : Size]

Default ==
    [tadb |-> FALSE, catbox |-> FALSE, imgur |-> FALSE,
     client |-> None, pin |-> DefaultPin, size |-> DefaultSize]

VARIABLES
    saved,      \* the configuration
    stored,     \* the key in the credential manager
    cached,     \* of each provider, the settings its cached artwork was
                \* fetched under
    cur,        \* the current values of the options
    pending,    \* pendingTheAudioDbApiKey_
    deleting,   \* isTheAudioDbKeyDeletionPending_
    hasStored,  \* hasStoredTheAudioDbApiKey_
    testing,    \* theAudioDbTestState_->isRunning
    window,     \* what the window shows, or None
    stale,      \* history: a failed Apply reverted options under the window
    asked       \* history: what the user asked for the key since it was last
                \* applied or given up: None, "clear" or a key

effects == <<saved, stored, cached>>
fields == <<cur, pending, deleting, hasStored>>
vars == <<effects, fields, testing, window, stale, asked>>

-----------------------------------------------------------------------------
(* The window. *)

(* UpdateControlState. *)
ControlState(o, key, clearing, has, running) ==
    [edit |-> o.tadb /\ ~running,
     test |-> o.tadb /\ (key # None \/ (has /\ ~clearing)) /\ ~running,
     clear |-> has /\ ~clearing /\ ~running,
     local |-> o.catbox \/ o.imgur,
     client |-> o.imgur]

(* DoFullDdxToUi and UpdateControlState, with the text of the key field.   *)
(* Without a window they do nothing.                                       *)
Filled(o, key, clearing, has, running) ==
    [shown |-> o, text |-> key,
     enabled |-> ControlState(o, key, clearing, has, running)]

Refill ==
    window' = IF window = None THEN None
              ELSE Filled(cur', pending', deleting', hasStored', testing')

(* UpdateControlState alone. *)
UpdateControls ==
    window' = IF window = None THEN None
              ELSE [window EXCEPT !.enabled =
                      ControlState(cur', pending', deleting', hasStored', testing')]

Init ==
    /\ saved = Default /\ stored = None
    /\ cached = [p \in Provider |-> None]
    /\ cur = Default /\ pending = None /\ deleting = FALSE
    /\ hasStored = FALSE /\ testing = FALSE
    /\ window = None /\ stale = FALSE /\ asked = None

(* OnInitDialog.  A credential that cannot be read counts as missing. *)
Open ==
    /\ window = None
    /\ hasStored' \in {FALSE, stored # None}
    /\ window' = Filled(cur, pending, deleting, hasStored', testing)
    /\ UNCHANGED <<effects, cur, pending, deleting, testing, stale, asked>>

(* The user selects another tab. *)
CloseTab ==
    /\ window # None
    /\ window' = None /\ stale' = FALSE
    /\ UNCHANGED <<effects, fields, testing, asked>>

(* Preferences is closed and opened again: a new object. *)
Reopen ==
    /\ cur' = saved /\ pending' = None /\ deleting' = FALSE
    /\ hasStored' = FALSE /\ testing' = FALSE
    /\ window' = None /\ stale' = FALSE /\ asked' = None
    /\ UNCHANGED effects

-----------------------------------------------------------------------------
(* Edits. *)

Checkbox == {"tadb", "catbox", "imgur"}

Edit(field, value) ==
    /\ window # None /\ window.shown[field] # value
    /\ cur' = [cur EXCEPT ![field] = value]
    /\ window' = [window EXCEPT
         !.shown[field] = value,
         !.enabled = IF field \in Checkbox
                       THEN ControlState(cur', pending, deleting, hasStored, testing)
                       ELSE @]
    /\ UNCHANGED <<effects, pending, deleting, hasStored, testing, stale, asked>>

EditOption ==
    \/ \E field \in Checkbox, value \in BOOLEAN : Edit(field, value)
    \/ /\ window # None /\ window.enabled.client
       /\ \E value \in Client \cup {None} : Edit("client", value)
    \/ /\ window # None /\ window.enabled.local
       /\ \/ \E value \in Pin \cup {None} : Edit("pin", value)
          \/ \E value \in Size : Edit("size", value)

(* Typing a key withdraws a requested deletion. *)
EditKey(k) ==
    /\ window # None /\ window.enabled.edit /\ window.text # k
    /\ pending' = k
    /\ deleting' = (deleting /\ k = None)
    /\ window' = [window EXCEPT
         !.text = k,
         !.enabled = ControlState(cur, k, deleting', hasStored, testing)]
    /\ asked' = k
    /\ UNCHANGED <<effects, cur, hasStored, testing, stale>>

(* Clear stored key, confirmed. *)
ClearKey ==
    /\ window # None /\ window.enabled.clear
    /\ deleting' = TRUE
    /\ cur' = [cur EXCEPT !.tadb = FALSE]
    /\ pending' = None
    /\ UNCHANGED <<effects, hasStored, testing>>
    /\ Refill /\ stale' = FALSE /\ asked' = "clear"

(* Mutant: the pending change of the key survives. *)
ResetOptions ==
    /\ cur' = Default
    /\ UNCHANGED <<effects, pending, deleting, hasStored, testing>>
    /\ Refill /\ stale' = FALSE /\ asked' = None

Reset ==
    /\ cur' = Default /\ pending' = None /\ deleting' = FALSE
    /\ UNCHANGED <<effects, hasStored, testing>>
    /\ Refill /\ stale' = FALSE /\ asked' = None

-----------------------------------------------------------------------------
(* Apply. *)

KeyChanged == pending # None
DeletionRequested == deleting /\ ~KeyChanged
EnableRequested == cur.tadb /\ ~saved.tadb
NeedsValidation == KeyChanged \/ EnableRequested

(* GetEffectiveTheAudioDbApiKey.  If the credential manager fails here,    *)
(* Apply and the test return and have changed nothing.                     *)
EffectiveKey ==
    IF KeyChanged THEN pending ELSE IF deleting THEN None ELSE stored

KeyIsInvalid ==
    \/ DeletionRequested /\ cur.tadb
    \/ /\ NeedsValidation
       /\ \/ cur.tadb /\ EffectiveKey = None
          \/ EffectiveKey # None /\ EffectiveKey \notin Eligible

PinIsMissing == (cur.catbox \/ cur.imgur) /\ cur.pin = None
ClientIsMissing == cur.imgur /\ cur.client = None
SizeIsInvalid == (cur.catbox \/ cur.imgur) /\ cur.size \notin ValidSize
UploadsAreInvalid == PinIsMissing \/ ClientIsMissing \/ SizeIsInvalid

(* Invalid options return to their saved values. *)
Reverted ==
    LET base == IF UploadsAreInvalid THEN saved ELSE cur
    IN  [base EXCEPT !.tadb = IF KeyIsInvalid THEN saved.tadb ELSE cur.tadb]

(* Mutant: the pin query is not looked at. *)
ChangedExceptPin ==
    LET o == Reverted
    IN  [p \in Provider |->
          CASE p = "tadb" -> (KeyChanged \/ DeletionRequested) /\ ~KeyIsInvalid
            [] p = "catbox" -> o.catbox # saved.catbox \/ o.size # saved.size
            [] p = "imgur" -> \/ o.imgur # saved.imgur \/ o.client # saved.client
                              \/ o.size # saved.size]

(* Which caches are invalidated.  After a revert nothing has changed. *)
Changed ==
    LET o == Reverted
        localChanged == o.pin # saved.pin \/ o.size # saved.size
    IN  [p \in Provider |->
          CASE p = "tadb" -> (KeyChanged \/ DeletionRequested) /\ ~KeyIsInvalid
            [] p = "catbox" -> o.catbox # saved.catbox \/ localChanged
            [] p = "imgur" -> \/ o.imgur # saved.imgur \/ o.client # saved.client
                              \/ localChanged]

(* The window after Apply.  Clearing the key field makes its handler       *)
(* update the controls; only after a revert is everything filled anew.     *)
AfterApply ==
    IF KeyIsInvalid \/ UploadsAreInvalid
      THEN /\ window' = IF window = None THEN None
                        ELSE Filled(cur', pending', deleting', hasStored', testing)
           /\ stale' = FALSE
    ELSE /\ window' = IF window = None \/ ~KeyChanged THEN window
                      ELSE [window EXCEPT
                             !.text = None,
                             !.enabled = ControlState(cur, None, FALSE, TRUE, testing)]
         /\ stale' = stale

Apply ==
    /\ stored' = IF KeyIsInvalid THEN stored
                 ELSE IF KeyChanged THEN pending
                 ELSE IF DeletionRequested THEN None ELSE stored
    /\ hasStored' = IF KeyIsInvalid THEN hasStored
                    ELSE KeyChanged \/ (hasStored /\ ~DeletionRequested)
    /\ pending' = None /\ deleting' = FALSE
    /\ cached' = [p \in Provider |-> IF Changed[p] THEN None ELSE cached[p]]
    /\ saved' = Reverted /\ cur' = Reverted
    /\ UNCHANGED testing
    /\ AfterApply /\ asked' = None

(* Mutant: the options are applied before the key is stored. *)
ApplyBeforeFailing ==
    /\ ~KeyIsInvalid /\ (KeyChanged \/ DeletionRequested)
    /\ cur' = Reverted /\ saved' = Reverted
    /\ stale' = (window # None /\ (stale \/ Reverted # cur))
    /\ UNCHANGED <<stored, cached, pending, deleting, hasStored, testing,
                   window, asked>>

(* The key cannot be written or cleared: Apply returns, with invalid       *)
(* uploads reverted but neither shown nor applied.                         *)
ApplyFails ==
    /\ ~KeyIsInvalid /\ (KeyChanged \/ DeletionRequested)
    /\ cur' = Reverted
    /\ stale' = (window # None /\ (stale \/ Reverted # cur))
    /\ UNCHANGED <<effects, pending, deleting, hasStored, testing, window, asked>>

-----------------------------------------------------------------------------
(* The test of the key, of which a dialog runs one at a time. *)

TestClick ==
    /\ window # None /\ window.enabled.test /\ ~testing
    /\ EffectiveKey \in Eligible
    /\ testing' = TRUE
    /\ UNCHANGED fields /\ UpdateControls
    /\ UNCHANGED <<effects, stale, asked>>

(* Mutant: the dialog is not told. *)
TestEndsUnheard ==
    /\ testing
    /\ testing' = FALSE
    /\ UNCHANGED <<effects, fields, window, stale, asked>>

(* The end of the test posts a message, which is handled before any input. *)
TestEnds ==
    /\ testing
    /\ testing' = FALSE
    /\ UNCHANGED fields /\ UpdateControls
    /\ UNCHANGED <<effects, stale, asked>>

(* The settings that the artwork of a provider depends on. *)
Basis(p) ==
    CASE p = "tadb" -> <<stored>>
      [] p = "catbox" -> <<saved.pin, saved.size>>
      [] p = "imgur" -> <<saved.client, saved.pin, saved.size>>

(* The fetcher caches artwork of an enabled provider.  The key is read for *)
(* every request.                                                          *)
Fetch(p) ==
    /\ saved[p] /\ (p = "tadb" => stored # None)
    /\ cached' = [cached EXCEPT ![p] = Basis(p)]
    /\ UNCHANGED <<saved, stored, fields, testing, window, stale, asked>>

Next ==
    \/ Open \/ CloseTab \/ Reopen
    \/ EditOption \/ ClearKey \/ Reset \/ Apply \/ ApplyFails
    \/ TestClick \/ TestEnds
    \/ \E k \in Key \cup {None} : EditKey(k)
    \/ \E p \in Provider : Fetch(p)

Spec == Init /\ [][Next]_vars

-----------------------------------------------------------------------------
(* Properties. *)

Controls == [edit : BOOLEAN, test : BOOLEAN, clear : BOOLEAN,
             local : BOOLEAN, client : BOOLEAN]

(* Every variable keeps its type; a key is never both replaced and cleared. *)
TypeOK ==
    /\ saved \in Options /\ cur \in Options
    /\ stored \in Eligible \cup {None}
    /\ DOMAIN cached = Provider
    /\ pending \in Key \cup {None} /\ deleting \in BOOLEAN
    /\ ~(KeyChanged /\ deleting)
    /\ hasStored \in BOOLEAN /\ testing \in BOOLEAN /\ stale \in BOOLEAN
    /\ window \in {None} \cup
         [shown : Options, text : Key \cup {None}, enabled : Controls]
    /\ asked \in Key \cup {None, "clear"}

(* Whatever was edited, refused, reverted or failed, the configuration can *)
(* be used: an enabled TheAudioDB has an eligible key, enabled uploads a   *)
(* pin query and a valid size, Imgur a client id.                          *)
SettingsAreUsable ==
    /\ saved.tadb => stored \in Eligible
    /\ saved.catbox \/ saved.imgur => saved.pin # None /\ saved.size \in ValidSize
    /\ saved.imgur => saved.client # None

(* Cached artwork was fetched under the settings that are in force: every  *)
(* Apply drops what it outdates, and none that fails outdates anything.    *)
CacheMatchesSettings ==
    \A p \in Provider : cached[p] \in {None, Basis(p)}

(* The window shows the current values and enables the controls that fit   *)
(* them, also after a revert, a test that ended in another tab, or a       *)
(* reset; unless a failed Apply reverted options under it.                 *)
DialogIsRight ==
    /\ window # None /\ ~stale =>
         window = Filled(cur, pending, deleting, hasStored, testing)
    /\ hasStored => stored # None

(* docs/CONFIGURATION.md:235: the stored key "remains unchanged until you  *)
(* select Apply; cancelling or resetting Preferences keeps the stored      *)
(* credential".  It changes only to what the user asked for last.          *)
KeyChangesAreAsked ==
    [][stored' # stored =>
         stored' = IF asked = "clear" THEN None ELSE asked]_vars

=============================================================================

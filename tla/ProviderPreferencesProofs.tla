---------------------- MODULE ProviderPreferencesProofs ----------------------
(***************************************************************************)
(* Proofs about ProviderPreferences, for every set of keys, client ids,    *)
(* pin queries and sizes.                                                  *)
(***************************************************************************)
EXTENDS ProviderPreferences, TLAPS

USE ConstantsAssumption DEF Provider, Checkbox

(* What the operators of Apply return. *)
LEMMA DefaultType == Default \in Options
  BY DEF Default, Options

LEMMA ControlsType ==
  ASSUME NEW o \in Options, NEW key, NEW clearing \in BOOLEAN,
         NEW has \in BOOLEAN, NEW running \in BOOLEAN
  PROVE  ControlState(o, key, clearing, has, running) \in Controls
  BY DEF ControlState, Controls, Options

LEMMA RevertedType ==
  ASSUME TypeOK PROVE Reverted \in Options
  <1>1. CASE UploadsAreInvalid
    BY <1>1 DEF TypeOK, Reverted, Options
  <1>2. CASE ~UploadsAreInvalid
    BY <1>2 DEF TypeOK, Reverted, Options
  <1> QED BY <1>1, <1>2

Windows == [shown : Options, text : Key \cup {None}, enabled : Controls]

LEMMA FilledType ==
  ASSUME NEW o \in Options, NEW key \in Key \cup {None},
         NEW clearing \in BOOLEAN, NEW has \in BOOLEAN, NEW running \in BOOLEAN
  PROVE  Filled(o, key, clearing, has, running) \in Windows
  BY ControlsType DEF Filled, Windows

(* The values that a field accepts. *)
Accepts(field, value) ==
  \/ field \in Checkbox /\ value \in BOOLEAN
  \/ field = "client" /\ value \in Client \cup {None}
  \/ field = "pin" /\ value \in Pin \cup {None}
  \/ field = "size" /\ value \in Size

(* A key that is applied is eligible. *)
LEMMA AppliedKeyIsEligible ==
  ASSUME TypeOK, KeyChanged, ~KeyIsInvalid PROVE pending \in Eligible
  BY DEF TypeOK, KeyChanged, KeyIsInvalid, NeedsValidation, EffectiveKey

-----------------------------------------------------------------------------
LEMMA TypeInit == Init => TypeOK
  BY DefaultType DEF Init, TypeOK, KeyChanged

LEMMA TypeStep == TypeOK /\ [Next]_vars => TypeOK'
  <1> SUFFICES ASSUME TypeOK, [Next]_vars PROVE TypeOK'
    OBVIOUS
  <1> USE DEF effects, fields
  <1>1. CASE Open
    BY <1>1, FilledType DEF Open, TypeOK, KeyChanged, Windows
  <1>2. CASE CloseTab
    BY <1>2 DEF CloseTab, TypeOK, KeyChanged
  <1>3. CASE Reopen
    BY <1>3 DEF Reopen, TypeOK, KeyChanged
  <1>4. ASSUME NEW field, NEW value, Edit(field, value), Accepts(field, value)
        PROVE  TypeOK'
    <2>1. cur' \in Options
      BY <1>4 DEF Edit, Accepts, TypeOK, Options
    <2>2. window' \in Windows
      <3>1. [window.shown EXCEPT ![field] = value] \in Options
        BY <1>4 DEF Edit, Accepts, TypeOK, Options
      <3>2. ControlState(cur', pending, deleting, hasStored, testing) \in Controls
        BY <2>1, ControlsType DEF TypeOK
      <3> QED BY <1>4, <3>1, <3>2 DEF Edit, TypeOK, Windows
    <2> QED BY <1>4, <2>1, <2>2 DEF Edit, TypeOK, KeyChanged, Windows
  <1>5. CASE EditOption
    <2>1. PICK field, value : Edit(field, value) /\ Accepts(field, value)
      BY <1>5 DEF EditOption, Accepts
    <2> QED BY <1>4, <2>1
  <1>6. ASSUME NEW k \in Key \cup {None}, EditKey(k) PROVE TypeOK'
    <2>1. deleting' \in BOOLEAN /\ ~(k # None /\ deleting')
      BY <1>6 DEF EditKey, TypeOK
    <2>2. ControlState(cur, k, deleting', hasStored, testing) \in Controls
      BY <2>1, ControlsType DEF TypeOK
    <2>3. window' \in Windows
      BY <1>6, <2>2 DEF EditKey, TypeOK, Windows
    <2> QED BY <1>6, <2>1, <2>3 DEF EditKey, TypeOK, KeyChanged, Windows
  <1>7. CASE ClearKey
    <2>1. cur' \in Options /\ deleting' \in BOOLEAN /\ pending' = None
      BY <1>7 DEF ClearKey, TypeOK, Options
    <2>2. window' \in {None} \cup Windows
      BY <1>7, <2>1, FilledType DEF ClearKey, Refill, TypeOK
    <2> QED BY <1>7, <2>1, <2>2 DEF ClearKey, TypeOK, KeyChanged, Windows
  <1>8. CASE Reset
    <2>1. cur' \in Options
      BY <1>8, DefaultType DEF Reset
    <2>2. window' \in {None} \cup Windows
      BY <1>8, <2>1, FilledType DEF Reset, Refill, TypeOK
    <2> QED BY <1>8, <2>1, <2>2 DEF Reset, TypeOK, KeyChanged, Windows
  <1>9. CASE Apply
    <2>1. saved' \in Options /\ cur' \in Options
      BY <1>9, RevertedType DEF Apply
    <2>2. stored' \in Eligible \cup {None}
      BY <1>9, AppliedKeyIsEligible DEF Apply, TypeOK
    <2>3. hasStored' \in BOOLEAN
      BY <1>9 DEF Apply, TypeOK
    <2>4. window' \in {None} \cup Windows /\ stale' \in BOOLEAN
      <3>1. CASE KeyIsInvalid \/ UploadsAreInvalid
        <4>1. /\ pending' = None /\ deleting' = FALSE /\ testing' = testing
              /\ stale' = FALSE
              /\ window' = IF window = None THEN None
                  ELSE Filled(cur', pending', deleting', hasStored', testing')
          BY <1>9, <3>1 DEF Apply, AfterApply
        <4>2. testing \in BOOLEAN
          BY DEF TypeOK
        <4>3. Filled(cur', None, FALSE, hasStored', testing) \in Windows
          BY <2>1, <2>3, <4>2, FilledType
        <4> QED BY <4>1, <4>3
      <3>2. CASE ~(KeyIsInvalid \/ UploadsAreInvalid)
        <4>1. ControlState(cur, None, FALSE, TRUE, testing) \in Controls
          BY ControlsType DEF TypeOK
        <4> QED BY <1>9, <3>2, <4>1 DEF Apply, AfterApply, TypeOK, Windows
      <3> QED BY <3>1, <3>2
    <2>5. DOMAIN cached' = Provider
      BY <1>9 DEF Apply
    <2> QED BY <1>9, <2>1, <2>2, <2>3, <2>4, <2>5
            DEF Apply, TypeOK, KeyChanged, Windows
  <1>10. CASE ApplyFails
    BY <1>10, RevertedType DEF ApplyFails, TypeOK, KeyChanged
  <1>11. CASE TestClick \/ TestEnds
    <2>1. testing' \in BOOLEAN /\ UNCHANGED fields
      BY <1>11 DEF TestClick, TestEnds
    <2>2. ControlState(cur', pending', deleting', hasStored', testing') \in Controls
      BY <2>1, ControlsType DEF TypeOK
    <2>3. window' \in {None} \cup Windows
      BY <1>11, <2>2 DEF TestClick, TestEnds, UpdateControls, TypeOK, Windows
    <2> QED BY <1>11, <2>1, <2>3 DEF TestClick, TestEnds, TypeOK, KeyChanged, Windows
  <1>12. ASSUME NEW p \in Provider, Fetch(p) PROVE TypeOK'
    BY <1>12 DEF Fetch, TypeOK, KeyChanged
  <1>13. CASE UNCHANGED vars
    BY <1>13 DEF vars, TypeOK, KeyChanged
  <1> QED BY <1>1, <1>2, <1>3, <1>5, <1>6, <1>7, <1>8, <1>9, <1>10, <1>11,
             <1>12, <1>13 DEF Next

(* Every variable keeps its type, and a key is never both replaced and     *)
(* cleared.                                                                *)
THEOREM TypeCorrect == Spec => []TypeOK
  BY TypeInit, TypeStep, PTL DEF Spec
-----------------------------------------------------------------------------
(* Only Apply changes the configuration and the stored key. *)
LEMMA OnlyApply == [Next]_vars => Apply \/ UNCHANGED <<saved, stored>>
  <1> SUFFICES ASSUME [Next]_vars, ~Apply PROVE UNCHANGED <<saved, stored>>
    OBVIOUS
  <1>1. CASE EditOption
    BY <1>1 DEF EditOption, Edit, effects
  <1>2. CASE Next /\ ~EditOption
    BY <1>2 DEF Next, Open, CloseTab, Reopen, EditKey, ClearKey, Reset,
                ApplyFails, TestClick, TestEnds, Fetch, effects
  <1>3. CASE UNCHANGED vars
    BY <1>3 DEF vars, effects
  <1> QED BY <1>1, <1>2, <1>3

LEMMA UsableInit == Init => SettingsAreUsable
  BY DEF Init, Default, SettingsAreUsable

LEMMA UsableStep ==
  TypeOK /\ SettingsAreUsable /\ [Next]_vars => SettingsAreUsable'
  <1> SUFFICES ASSUME TypeOK, SettingsAreUsable, [Next]_vars
               PROVE  SettingsAreUsable'
    OBVIOUS
  <1>1. CASE Apply
    <2>1. saved' = Reverted
      BY <1>1 DEF Apply
    <2>2. saved'.tadb => stored' \in Eligible
      <3>1. CASE KeyIsInvalid
        <4>1. saved'.tadb = saved.tadb /\ stored' = stored
          BY <1>1, <2>1, <3>1 DEF Apply, Reverted, TypeOK, Options
        <4> QED BY <4>1 DEF SettingsAreUsable
      <3>2. CASE ~KeyIsInvalid
        <4>1. saved'.tadb = cur.tadb
          BY <2>1, <3>2 DEF Reverted, TypeOK, Options
        <4>2. CASE KeyChanged
          BY <1>1, <3>2, <4>2, AppliedKeyIsEligible DEF Apply
        <4>3. CASE ~KeyChanged /\ cur.tadb
          <5>1. ~deleting /\ stored' = stored
            BY <1>1, <3>2, <4>3 DEF Apply, KeyIsInvalid, DeletionRequested
          <5>2. CASE saved.tadb
            BY <5>1, <5>2 DEF SettingsAreUsable
          <5>3. CASE ~saved.tadb
            BY <3>2, <4>3, <5>1, <5>3 DEF KeyIsInvalid, NeedsValidation,
               EnableRequested, EffectiveKey
          <5> QED BY <5>2, <5>3
        <4> QED BY <4>1, <4>2, <4>3
      <3> QED BY <3>1, <3>2
    <2>3. /\ saved'.catbox \/ saved'.imgur =>
               saved'.pin # None /\ saved'.size \in ValidSize
          /\ saved'.imgur => saved'.client # None
      <3>1. CASE UploadsAreInvalid
        <4>1. \A f \in {"catbox", "imgur", "pin", "size", "client"} :
                saved'[f] = saved[f]
          BY <2>1, <3>1 DEF Reverted, TypeOK, Options
        <4> QED BY <4>1 DEF SettingsAreUsable
      <3>2. CASE ~UploadsAreInvalid
        <4>1. \A f \in {"catbox", "imgur", "pin", "size", "client"} :
                saved'[f] = cur[f]
          BY <2>1, <3>2 DEF Reverted, TypeOK, Options
        <4> QED BY <3>2, <4>1 DEF UploadsAreInvalid, PinIsMissing,
                                  ClientIsMissing, SizeIsInvalid
      <3> QED BY <3>1, <3>2
    <2> QED BY <2>2, <2>3 DEF SettingsAreUsable
  <1>2. CASE UNCHANGED <<saved, stored>>
    BY <1>2 DEF SettingsAreUsable
  <1> QED BY <1>1, <1>2, OnlyApply

(* Whatever is refused, reverted or fails, the configuration can be used. *)
THEOREM SettingsStayUsable == Spec => []SettingsAreUsable
  BY TypeInit, TypeStep, UsableInit, UsableStep, PTL DEF Spec

-----------------------------------------------------------------------------
LEMMA CachesInit == Init => CacheMatchesSettings
  BY DEF Init, CacheMatchesSettings

LEMMA CachesStep ==
  TypeOK /\ CacheMatchesSettings /\ [Next]_vars => CacheMatchesSettings'
  <1> SUFFICES ASSUME TypeOK, CacheMatchesSettings, [Next]_vars,
                      NEW p \in Provider
               PROVE  cached'[p] \in {None, Basis(p)'}
    BY DEF CacheMatchesSettings
  <1>1. CASE Apply
    <2>1. CASE Changed[p]
      BY <1>1, <2>1 DEF Apply
    <2>2. CASE ~Changed[p]
      <3>1. cached'[p] = cached[p]
        BY <1>1, <2>2 DEF Apply
      <3>2. Basis(p)' = Basis(p)
        <4>1. saved' = Reverted
          BY <1>1 DEF Apply
        <4>2. CASE p = "tadb"
          <5>1. stored' = stored
            BY <1>1, <2>2, <4>2 DEF Apply, Changed
          <5> QED BY <4>2, <5>1 DEF Basis
        <4>3. CASE p = "catbox"
          <5>1. saved'.pin = saved.pin /\ saved'.size = saved.size
            BY <2>2, <4>1, <4>3 DEF Changed
          <5> QED BY <4>3, <5>1 DEF Basis
        <4>4. CASE p = "imgur"
          <5>1. /\ saved'.client = saved.client /\ saved'.pin = saved.pin
                /\ saved'.size = saved.size
            BY <2>2, <4>1, <4>4 DEF Changed
          <5> QED BY <4>4, <5>1 DEF Basis
        <4> QED BY <4>2, <4>3, <4>4
      <3> QED BY <3>1, <3>2 DEF CacheMatchesSettings
    <2> QED BY <2>1, <2>2
  <1>2. ASSUME NEW q \in Provider, Fetch(q)
        PROVE  cached'[p] \in {None, Basis(p)'}
    <2>1. cached'[p] = IF p = q THEN Basis(p) ELSE cached[p]
      BY <1>2 DEF Fetch, TypeOK
    <2>2. Basis(p)' = Basis(p)
      BY <1>2 DEF Fetch, Basis
    <2> QED BY <2>1, <2>2 DEF CacheMatchesSettings
  <1>3. CASE UNCHANGED effects
    <2>1. Basis(p)' = Basis(p)
      BY <1>3 DEF Basis, effects
    <2> QED BY <1>3, <2>1 DEF CacheMatchesSettings, effects
  <1>4. Apply \/ (\E q \in Provider : Fetch(q)) \/ UNCHANGED effects
    <2>1. CASE EditOption
      BY <2>1 DEF EditOption, Edit
    <2>2. CASE Next /\ ~EditOption
      BY <2>2 DEF Next, Open, CloseTab, Reopen, EditKey, ClearKey, Reset,
                  ApplyFails, TestClick, TestEnds
    <2>3. CASE UNCHANGED vars
      BY <2>3 DEF vars
    <2> QED BY <2>1, <2>2, <2>3
  <1> QED BY <1>1, <1>2, <1>3, <1>4

(* Cached artwork was fetched under the settings that are in force. *)
THEOREM CachesMatch == Spec => []CacheMatchesSettings
  BY TypeInit, TypeStep, CachesInit, CachesStep, PTL DEF Spec
-----------------------------------------------------------------------------
(* Even when options are stale, the key field is not. *)
DialogInv ==
  /\ window # None => window.text = pending
  /\ DialogIsRight

LEMMA DialogInit == Init => DialogInv
  BY DEF Init, DialogInv, DialogIsRight

LEMMA DialogStep == TypeOK /\ DialogInv /\ [Next]_vars => DialogInv'
  <1> SUFFICES ASSUME TypeOK, DialogInv, [Next]_vars PROVE DialogInv'
    OBVIOUS
  <1> USE DEF effects, fields, DialogInv, DialogIsRight
  <1>1. CASE Open
    BY <1>1 DEF Open, Filled
  <1>2. CASE CloseTab
    BY <1>2 DEF CloseTab
  <1>3. CASE Reopen
    BY <1>3 DEF Reopen
  <1>4. ASSUME NEW field, NEW value, Edit(field, value), Accepts(field, value)
        PROVE  DialogInv'
    <2>0. window # None /\ window \in Windows
      BY <1>4 DEF Edit, TypeOK, Windows
    <2>1. window' = [shown |-> [window.shown EXCEPT ![field] = value],
                     text |-> window.text,
                     enabled |-> IF field \in Checkbox
                       THEN ControlState(cur', pending, deleting, hasStored, testing)
                       ELSE window.enabled]
      BY <1>4, <2>0 DEF Edit, Windows
    <2>2. CASE ~stale
      <3>1. /\ window.shown = cur
            /\ window.enabled = ControlState(cur, pending, deleting, hasStored, testing)
        BY <2>0, <2>2 DEF Filled
      <3>2. cur' = [cur EXCEPT ![field] = value]
        BY <1>4 DEF Edit
      <3>3. CASE field \in Checkbox
        BY <1>4, <2>0, <2>1, <3>1, <3>2, <3>3 DEF Edit, Filled
      <3>4. CASE field \notin Checkbox
        <4>1. \A f \in Checkbox : cur'[f] = cur[f]
          BY <3>2, <3>4 DEF TypeOK, Options
        <4>2. window.enabled =
                ControlState(cur', pending, deleting, hasStored, testing)
          BY <3>1, <4>1 DEF ControlState
        <4> QED BY <1>4, <2>0, <2>1, <3>1, <3>2, <3>4, <4>2 DEF Edit, Filled
      <3> QED BY <3>3, <3>4
    <2>3. CASE stale
      BY <1>4, <2>0, <2>1, <2>3 DEF Edit
    <2> QED BY <2>2, <2>3
  <1>5. CASE EditOption
    <2>1. PICK field, value : Edit(field, value) /\ Accepts(field, value)
      BY <1>5 DEF EditOption, Accepts
    <2> QED BY <1>4, <2>1
  <1>6. ASSUME NEW k \in Key \cup {None}, EditKey(k) PROVE DialogInv'
    <2>1. /\ window # None
          /\ window' = [shown |-> window.shown, text |-> k,
               enabled |-> ControlState(cur, k, deleting', hasStored, testing)]
      BY <1>6 DEF EditKey, TypeOK
    <2>2. ~stale => window.shown = cur
      BY <2>1 DEF Filled
    <2> QED BY <1>6, <2>1, <2>2 DEF EditKey, Filled
  <1>7. CASE ClearKey
    BY <1>7 DEF ClearKey, Refill, Filled
  <1>8. CASE Reset
    BY <1>8 DEF Reset, Refill, Filled
  <1>9. CASE Apply
    <2>1. /\ pending' = None /\ deleting' = FALSE /\ testing' = testing
          /\ cur' = Reverted
      BY <1>9 DEF Apply
    <2>2. hasStored' => stored' # None
      BY <1>9, AppliedKeyIsEligible DEF Apply
    <2>3. CASE KeyIsInvalid \/ UploadsAreInvalid
      BY <1>9, <2>2, <2>3 DEF Apply, AfterApply, Filled
    <2>4. CASE ~(KeyIsInvalid \/ UploadsAreInvalid)
      <3>1. cur' = cur
        BY <2>1, <2>4 DEF Reverted, TypeOK, Options
      <3>2. CASE window = None
        BY <1>9, <2>2, <2>4, <3>2 DEF Apply, AfterApply
      <3>3. CASE window # None /\ KeyChanged
        <4>1. hasStored' = TRUE /\ stale' = stale
          BY <1>9, <2>4, <3>3 DEF Apply, AfterApply
        <4>2. window' = [shown |-> window.shown, text |-> None,
                enabled |-> ControlState(cur, None, FALSE, TRUE, testing)]
          BY <1>9, <2>4, <3>3 DEF Apply, AfterApply, TypeOK
        <4>3. stale \/ window.shown = cur
          BY <3>3 DEF Filled
        <4> QED BY <2>1, <2>2, <3>1, <4>1, <4>2, <4>3 DEF Filled
      <3>4. CASE window # None /\ ~KeyChanged
        <4>1. window' = window /\ stale' = stale /\ pending = None
          BY <1>9, <2>4, <3>4 DEF Apply, AfterApply, KeyChanged
        <4>2. CASE deleting
          <5>1. DeletionRequested /\ hasStored' = FALSE /\ ~cur.tadb
            BY <1>9, <2>4, <3>4, <4>2 DEF Apply, DeletionRequested, KeyIsInvalid
          <5>2. ControlState(cur, None, FALSE, FALSE, testing)
                  = ControlState(cur, None, TRUE, hasStored, testing)
            BY <5>1 DEF ControlState
          <5>3. deleting = TRUE
            BY <4>2 DEF TypeOK
          <5> QED BY <2>1, <2>2, <3>1, <4>1, <5>1, <5>2, <5>3 DEF Filled
        <4>3. CASE ~deleting
          <5>1. deleting = FALSE /\ hasStored' = hasStored
            BY <1>9, <2>4, <3>4, <4>3 DEF Apply, DeletionRequested, TypeOK
          <5> QED BY <2>1, <2>2, <3>1, <4>1, <5>1
        <4> QED BY <4>2, <4>3
      <3> QED BY <3>2, <3>3, <3>4
    <2> QED BY <2>3, <2>4
  <1>10. CASE ApplyFails
    <2>1. CASE stale' \/ window = None
      BY <1>10, <2>1 DEF ApplyFails
    <2>2. CASE ~stale' /\ window # None
      BY <1>10, <2>2 DEF ApplyFails
    <2> QED BY <2>1, <2>2
  <1>11. CASE TestClick \/ TestEnds
    <2>1. UNCHANGED <<effects, fields, stale>> /\ UpdateControls
      BY <1>11 DEF TestClick, TestEnds
    <2>2. CASE window = None
      BY <2>1, <2>2 DEF UpdateControls
    <2>3. CASE window # None
      <3>1. window' = [shown |-> window.shown, text |-> window.text,
              enabled |-> ControlState(cur', pending', deleting', hasStored', testing')]
        BY <2>1, <2>3 DEF UpdateControls, TypeOK
      <3>2. ~stale => window.shown = cur
        BY <2>3 DEF Filled
      <3> QED BY <2>1, <2>3, <3>1, <3>2 DEF Filled
    <2> QED BY <2>2, <2>3
  <1>12. ASSUME NEW p \in Provider, Fetch(p) PROVE DialogInv'
    BY <1>12 DEF Fetch
  <1>13. CASE UNCHANGED vars
    BY <1>13 DEF vars
  <1> QED BY <1>1, <1>2, <1>3, <1>5, <1>6, <1>7, <1>8, <1>9, <1>10, <1>11,
             <1>12, <1>13 DEF Next

(* The window shows the current values, and the controls fit them. *)
THEOREM DialogStaysRight == Spec => []DialogIsRight
  <1>1. DialogInv => DialogIsRight
    BY DEF DialogInv
  <1> QED BY <1>1, TypeInit, TypeStep, DialogInit, DialogStep, PTL DEF Spec

-----------------------------------------------------------------------------
(* What is pending is what the user asked for last. *)
AskedInv ==
  /\ pending # None => asked = pending
  /\ deleting => asked = "clear"

LEMMA AskedInit == Init => AskedInv
  BY DEF Init, AskedInv

LEMMA AskedStep == TypeOK /\ DialogInv /\ AskedInv /\ [Next]_vars => AskedInv'
  <1> SUFFICES ASSUME TypeOK, DialogInv, AskedInv, [Next]_vars PROVE AskedInv'
    OBVIOUS
  <1> USE DEF fields, AskedInv
  <1>1. CASE EditOption
    <2>1. PICK field, value : Edit(field, value)
      BY <1>1 DEF EditOption
    <2> QED BY <2>1 DEF Edit
  <1>2. ASSUME NEW k \in Key \cup {None}, EditKey(k) PROVE AskedInv'
    <2>1. pending' = k /\ asked' = k /\ k # pending
      BY <1>2 DEF EditKey, DialogInv
    <2>2. ~deleting'
      BY <1>2, <2>1 DEF EditKey, TypeOK, KeyChanged
    <2> QED BY <2>1, <2>2
  <1>3. CASE Open \/ CloseTab \/ TestClick \/ TestEnds
    <2>1. UNCHANGED <<pending, deleting, asked>>
      BY <1>3 DEF Open, CloseTab, TestClick, TestEnds
    <2> QED BY <2>1
  <1>4. CASE Reopen \/ Reset \/ ClearKey \/ Apply
    BY <1>4 DEF Reopen, Reset, ClearKey, Apply
  <1>5. CASE ApplyFails \/ \E p \in Provider : Fetch(p)
    BY <1>5 DEF ApplyFails, Fetch
  <1>6. CASE UNCHANGED vars
    BY <1>6 DEF vars
  <1> QED BY <1>1, <1>2, <1>3, <1>4, <1>5, <1>6 DEF Next

LEMMA AskedKeyIsApplied ==
  TypeOK /\ AskedInv /\ [Next]_vars /\ stored' # stored
    => stored' = IF asked = "clear" THEN None ELSE asked
  <1> SUFFICES ASSUME TypeOK, AskedInv, Apply, stored' # stored
               PROVE  stored' = IF asked = "clear" THEN None ELSE asked
    BY OnlyApply
  <1>1. CASE KeyChanged
    <2>1. stored' = pending /\ asked = pending /\ pending \in Key
      BY <1>1 DEF Apply, AskedInv, KeyChanged, TypeOK
    <2> QED BY <2>1
  <1>2. CASE ~KeyChanged
    <2>1. deleting /\ stored' = None
      BY <1>2 DEF Apply, DeletionRequested
    <2> QED BY <2>1 DEF AskedInv
  <1> QED BY <1>1, <1>2

(* The stored key changes only to what the user asked for last. *)
THEOREM StoredKeyIsAsked == Spec => KeyChangesAreAsked
  <1>1. TypeOK /\ AskedInv /\ [Next]_vars =>
          [stored' # stored =>
             stored' = IF asked = "clear" THEN None ELSE asked]_vars
    BY AskedKeyIsApplied
  <1> QED BY <1>1, TypeInit, TypeStep, DialogInit, DialogStep, AskedInit,
             AskedStep, PTL DEF Spec, KeyChangesAreAsked
=============================================================================

--------------------------- MODULE ActiveSettings ---------------------------
(***************************************************************************)
(* The stub plugin's settings: a settings dialog some of whose items are   *)
(* active: when the user changes one, the plugin answers with another      *)
(* model of the dialog and other values (active_settings_rules.cpp,        *)
(* active_settings_builder.cpp).  When the user applies the values, the    *)
(* plugin makes the model anew, from its manifest, and answers with it.    *)
(*                                                                         *)
(* A Device Agent and an Engine do so with the same rules on different     *)
(* sections.  Only the section of active settings is here; it is reduced   *)
(* to the names of its items and to the limits that rules change.          *)
(***************************************************************************)
EXTENDS Integers, Sequences, FiniteSets, Functions, SequencesExt

CONSTANTS
  Lowest, Middle, Highest   (* 0, 42, 100: the limits and the default of   *)
                            (* the two spin boxes.                         *)

ASSUME SpinAssumption ==
  Lowest \in Int /\ Middle \in Int /\ Highest \in Int /\ Lowest <= Middle /\ Middle <= Highest

VARIABLES
  holder,       (* "deviceAgent" or "engine".                              *)
  dialog        (* The section that the user sees, with its values.        *)

activeVars == <<holder, dialog>>

----------------------------------------------------------------------------
(* The section of settings_model.h, and its values by default.             *)

(* Items with no name of their own. *)
Flow == ""

FreshItems ==
  <<"activeComboBox", "activeCheckBox", "activeRadioButtonGroup",
    "activeMinValue", "activeMaxValue", Flow, Flow>>
  \o IF holder = "deviceAgent"
       THEN <<"activeCheckBoxForValueSetChange", "comboBoxForValueSetChange">> ELSE <<>>

FreshSection(values) ==
  [items |-> FreshItems,
   radioButtons |-> {"Some value", "Show something"},
   valueSet |-> {"Permanent", "Optional"},
   minTop |-> Middle, maxBottom |-> Middle,
   values |-> values]

ActiveItems ==
  {"activeComboBox", "activeCheckBox", "activeRadioButtonGroup", "activeMinValue",
   "activeMaxValue", "activeCheckBoxForValueSetChange"}

DefaultOf(name) ==
  CASE name \in {"activeMinValue", "activeMaxValue"} -> Middle
    [] name = "activeCheckBoxForValueSetChange" -> "true"
    [] name \in {"activeCheckBox", "additionalCheckBox"} -> "false"
    [] name = "comboBoxForValueSetChange" -> "Permanent"
    [] name = "additionalComboBox" -> "Value 1"
    [] OTHER -> "Some value"

(* What the user may choose. *)
Allowed(name) ==
  CASE name = "activeComboBox" -> {"Some value", "Show additional ComboBox"}
    [] name = "additionalComboBox" -> {"Value 1", "Value 2"}
    [] name = "activeRadioButtonGroup" -> dialog.radioButtons
    [] name = "activeMinValue" -> Lowest..dialog.minTop
    [] name = "activeMaxValue" -> dialog.maxBottom..Highest
    [] name = "comboBoxForValueSetChange" -> dialog.valueSet
    [] OTHER -> {"true", "false"}

(* Flow is not a setting, but an Engine asks the map for its value, and so *)
(* gives it an empty one.                                                  *)
SettingNames == Range(dialog.items) \ {Flow}

ActiveInit ==
  /\ holder \in {"deviceAgent", "engine"}
  /\ dialog = FreshSection([n \in Range(FreshItems) \ {Flow} |-> DefaultOf(n)])

----------------------------------------------------------------------------
(* The rules. *)

WithValue(values, name, v) ==
  [n \in DOMAIN values \union {name} |-> IF n = name THEN v ELSE values[n]]

PlaceOf(items, name) == SelectInSeq(items, LAMBDA n : n = name)

(* showAdditionalSetting(), hideAdditionalSetting().  The mutant           *)
(* `HideItemOnly` keeps the value.                                         *)
ShowItem(section, after, name) ==
  [section EXCEPT
     !.items = IF after \in Range(@) THEN InsertAt(@, PlaceOf(@, after) + 1, name)
                                     ELSE @,
     !.values = IF name \in DOMAIN @ THEN @ ELSE WithValue(@, name, DefaultOf(name))]

HideItemOnly(section, name) ==
  [section EXCEPT
     !.items = IF name \in Range(@) THEN RemoveAt(@, PlaceOf(@, name)) ELSE @]

HideItem(section, name) ==
  [section EXCEPT
     !.items = IF name \in Range(@) THEN RemoveAt(@, PlaceOf(@, name)) ELSE @,
     !.values = Restrict(@, DOMAIN @ \ {name})]

(* hideAdditionalRadioButton(): the button is gone once it is chosen.      *)
HideButton(section) ==
  [section EXCEPT
     !.radioButtons = @ \ {"Hide me"},
     !.values = WithValue(@, "activeRadioButtonGroup", "Some value")]

(* removeOptionalValueToComboBox()                                         *)
RemoveOptional(section) ==
  [section EXCEPT
     !.valueSet = {"Permanent"},
     !.values = WithValue(@, "comboBoxForValueSetChange", "Permanent")]

(* updateMinMaxSpinBoxes(): each limits the other.                         *)
UpdateMinMaxSpinBoxes(section) ==
  [section EXCEPT !.minTop = section.values["activeMaxValue"],
                  !.maxBottom = section.values["activeMinValue"]]

(* ActiveSettingsBuilder::updateSettings(): the rule for the value, or the *)
(* rule for the item, or none.  A setting without a value gets an empty    *)
(* one.                                                                    *)
UpdateSettings(given, name) ==
  LET v == IF name \in DOMAIN given.values THEN given.values[name] ELSE ""
      section == [given EXCEPT !.values = WithValue(@, name, v)]
  IN CASE name = "activeComboBox" ->
            IF v = "Show additional ComboBox" THEN ShowItem(section, name, "additionalComboBox")
                                              ELSE HideItem(section, "additionalComboBox")
       [] name = "activeCheckBox" ->
            IF v = "true" THEN ShowItem(section, name, "additionalCheckBox")
                          ELSE HideItem(section, "additionalCheckBox")
       [] name = "activeRadioButtonGroup" ->
            (CASE v = "Show something" -> [section EXCEPT !.radioButtons = @ \union {"Hide me"}]
               [] v = "Hide me" -> HideButton(section)
               [] OTHER -> section)
       [] name = "activeCheckBoxForValueSetChange" ->
            (CASE v = "true" -> [section EXCEPT !.valueSet = {"Permanent", "Optional"}]
               [] v = "false" -> RemoveOptional(section)
               [] OTHER -> section)
       [] name \in {"activeMinValue", "activeMaxValue"} -> UpdateMinMaxSpinBoxes(section)
       [] OTHER -> section

(* settingsReceived(), processActiveSettings(): a fresh section, updated   *)
(* by each active item in turn; an Engine takes the others for active too. *)
Rebuilt(values) ==
  LET IsUpdated(name) == holder = "engine" \/ name \in ActiveItems
      section[i \in 0..Len(FreshItems)] ==
        IF i = 0 THEN FreshSection(values)
        ELSE IF IsUpdated(FreshItems[i]) THEN UpdateSettings(section[i - 1], FreshItems[i])
        ELSE section[i - 1]
  IN section[Len(FreshItems)]

----------------------------------------------------------------------------
(* deduplicateArrayByPropertyName(): Flow items have no name to compare.   *)
Deduplicated(items) ==
  LET kept == {i \in DOMAIN items : \A j \in 1..i - 1 : items[j] = items[i] => items[i] = Flow}
  IN [k \in 1..Cardinality(kept) |->
        items[CHOOSE i \in kept : Cardinality({j \in kept : j <= i}) = k]]

(* The user changes a setting; doGetSettingsOnActiveSettingChange(), if it *)
(* is active.                                                              *)
ChangeSetting(name, v) ==
  LET edited == [dialog EXCEPT !.values[name] = v]
      updated == UpdateSettings(edited, name)
  IN /\ v # dialog.values[name]
     /\ dialog' = IF name \notin ActiveItems THEN edited
                  ELSE IF holder = "engine" THEN updated
                  ELSE [updated EXCEPT !.items = Deduplicated(@)]
     /\ UNCHANGED holder

(* The user applies the values: settingsReceived().                        *)
ApplySettings ==
  /\ dialog' = Rebuilt(dialog.values)
  /\ UNCHANGED holder

ActiveNext ==
  \/ \E name \in SettingNames : \E v \in Allowed(name) : ChangeSetting(name, v)
  \/ ApplySettings

ActiveSpec == ActiveInit /\ [][ActiveNext]_activeVars

----------------------------------------------------------------------------
(* No item is there twice, the values are those of the items, and each is  *)
(* one its item allows, so that the minimum is never above the maximum.    *)
ValuesFit ==
  /\ \A i, j \in DOMAIN dialog.items :
       dialog.items[i] = dialog.items[j] => i = j \/ dialog.items[i] = Flow
  /\ DOMAIN dialog.values \ {Flow} = SettingNames
  /\ \A name \in SettingNames : dialog.values[name] \in Allowed(name)

(* The dialog made anew of the values and the manifest is the same; only a *)
(* radio button that waits to be hidden may have been left by a change.    *)
IsAsRebuilt ==
  LET rebuilt == Rebuilt(dialog.values)
  IN /\ \A name \in SettingNames :
          name \in DOMAIN rebuilt.values /\ rebuilt.values[name] = dialog.values[name]
     /\ rebuilt.items = dialog.items /\ rebuilt.valueSet = dialog.valueSet
     /\ rebuilt.minTop = dialog.minTop /\ rebuilt.maxBottom = dialog.maxBottom
     /\ rebuilt.radioButtons \union {"Hide me"} = dialog.radioButtons \union {"Hide me"}

(* Whatever sequence of changes and answers has led to a dialog, it is     *)
(* sound, and the two ways to make a dialog agree on it: the answers to    *)
(* single changes, and the rules applied in turn to the manifest.          *)
DialogIsSound == ValuesFit /\ IsAsRebuilt

=============================================================================

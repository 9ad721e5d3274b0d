------------------------------ MODULE IniConfig ------------------------------
(***************************************************************************)
(* nx_kit's ini_config.cpp and ini_config.h: the values of parameters are  *)
(* reloaded from a file, by any thread, while the user edits the file; and *)
(* Tweaks objects, made for tests, alter them for a while: each sets its   *)
(* own value, which is the object itself here.                             *)
(*                                                                         *)
(* A line of the file is reduced to the value it has for the parameter:    *)
(* NoLine, NoText when it is empty, BadText when it cannot be converted,   *)
(* and otherwise the value.  Locations, logging and names unknown to the   *)
(* code are left out.                                                      *)
(***************************************************************************)
EXTENDS Integers, Sequences, FiniteSets, SequencesExt, FiniteSetsExt

CONSTANTS
  Reloaders,    (* Threads that call reload().                             *)
  Tweakers,     (* Tweaks objects, each with a thread, and their values.   *)
  ParamOrder,   (* m_params: the registered parameters.                    *)
  StringParams, (* Those of type const char*.                              *)
  TweakedParams, (* Those that Tweaks set.                                 *)
  IniTexts,     (* What the user may write: functions of parameters.       *)
  NoLine, NoText, BadText,
  DefaultValue, (* Of each parameter.                                      *)
  MaxGuards,    (* Bound: m_guards of all Tweaks together.                 *)
  NoReloader

Params == Range(ParamOrder)

ASSUME IniAssumption ==
  /\ ParamOrder \in Seq(Params)
  /\ \A i, j \in DOMAIN ParamOrder : ParamOrder[i] = ParamOrder[j] => i = j
  /\ StringParams \subseteq Params /\ TweakedParams \subseteq Params
  /\ NoReloader \notin Reloaders
  /\ \A text \in IniTexts : DOMAIN text = Params
  /\ IsFiniteSet(Tweakers) /\ MaxGuards \in Nat

VARIABLES
  isEnabled,    (* Impl::isEnabled().                                      *)
  file,         (* The file: "absent", "empty" or "written", and its text. *)
  iniMap,       (* m_iniMap.                                               *)
  everExisted,  (* m_iniFileEverExisted.                                   *)
  firstTime,    (* m_firstTimeReload.                                      *)
  reloading,    (* The thread that holds m_reloadMutex.                    *)
  value,        (* The fields.                                             *)
  reloader,     (* Of each thread: its place in reload(), whether the file *)
                (* existed, the number of the current parameter; and, as   *)
                (* history, whether it has taken what the file says now.   *)
  isFresh,      (* History: so has the reload that ended last.             *)
  tweaker,      (* Of each Tweaks: its place and m_guards.                 *)
  tweaksCount,  (* s_tweaksInstanceCount.                                  *)
  wasEnabled,   (* s_originalValueOfIsEnabled.                             *)
  altered,      (* History: of each field, the Tweaks that have altered it *)
                (* and what they found there, the last one at the end.     *)
  spoiled       (* History: the fields that lost a value out of turn.      *)

iniVars == <<isEnabled, file, iniMap, everExisted, firstTime, reloading, value,
             reloader, isFresh, tweaker, tweaksCount, wasEnabled, altered, spoiled>>

BlankText == [p \in Params |-> NoLine]
AtRest == [at |-> "rest", exists |-> FALSE, param |-> 1, isRead |-> FALSE]
NotMade == [at |-> "gone", guards |-> <<>>]

IniTypeOK ==
  /\ isEnabled \in BOOLEAN /\ wasEnabled \in BOOLEAN
  /\ file.state \in {"absent", "empty", "written"}
  /\ file.state # "written" => file.text = BlankText
  /\ reloading \in Reloaders \union {NoReloader}
  /\ \A r \in Reloaders : (r = reloading) <=> reloader[r].at \in
       {"parse", "fill", "reset", "convert", "finish"}
  /\ tweaksCount = Cardinality({w \in Tweakers : tweaker[w].at # "gone"})
  /\ \A w \in Tweakers : tweaker[w].at = "gone" => tweaker[w].guards = <<>>

(* The constructor: the fields have their defaults.                        *)
IniInit ==
  /\ isEnabled = TRUE /\ wasEnabled = FALSE
  /\ file \in [state : {"absent", "empty"}, text : {BlankText}]
               \union [state : {"written"}, text : IniTexts]
  /\ iniMap = BlankText /\ everExisted = FALSE /\ firstTime = TRUE
  /\ reloading = NoReloader
  /\ value = [p \in Params |-> DefaultValue]
  /\ reloader = [r \in Reloaders |-> AtRest] /\ isFresh = FALSE
  /\ tweaker = [w \in Tweakers |-> NotMade] /\ tweaksCount = 0
  /\ altered = [p \in Params |-> <<>>] /\ spoiled = {}

----------------------------------------------------------------------------
(* The user edits, deletes or creates the file. *)

EditFile(new) ==
  /\ new # file
  /\ file' = new
  /\ isFresh' = FALSE
  /\ reloader' = [r \in Reloaders |-> [reloader[r] EXCEPT !.isRead = FALSE]]
  /\ UNCHANGED <<isEnabled, iniMap, everExisted, firstTime, reloading, value,
                 tweaker, tweaksCount, wasEnabled, altered, spoiled>>

----------------------------------------------------------------------------
(* What becomes of altered fields: history only.  Tweaks that follow one   *)
(* another, or are nested, put back what they have found.  Otherwise a     *)
(* field is spoiled, until a reload writes it when no Tweaks will.         *)

fieldHistory == <<altered, spoiled>>

IsHeld(p) ==
  \E w \in Tweakers : \E i \in DOMAIN tweaker[w].guards : tweaker[w].guards[i].param = p

IsBeingSet(w, p) == tweaker[w].at = "setting" /\ Last(tweaker[w].guards).param = p

Has(w, p) == \E k \in DOMAIN altered[p] : altered[p][k].by = w
HasLast(w, p) == altered[p] # <<>> /\ Last(altered[p]).by = w

Spoil(p) ==
  /\ spoiled' = spoiled \union {p}
  /\ altered' = [altered EXCEPT ![p] = <<>>]

(* A reload writes a field, and is done with it or not.                    *)
Overwrite(p, done) ==
  \/ IsHeld(p) /\ Spoil(p)
  \/ /\ ~IsHeld(p)
     /\ spoiled' = IF done THEN spoiled \ {p} ELSE spoiled
     /\ altered' = [altered EXCEPT ![p] = <<>>]

(* w writes a field: in turn unless another has read it in order to set it, *)
(* or has altered it after w.                                              *)
InTurn(w, p) ==
  /\ \A v \in Tweakers \ {w} : ~IsBeingSet(v, p)
  /\ Has(w, p) => HasLast(w, p)

Alter(w, p) ==
  \/ p \in spoiled /\ UNCHANGED fieldHistory
  \/ /\ p \notin spoiled /\ InTurn(w, p)
     /\ altered' = [altered EXCEPT
          ![p] = IF Has(w, p) THEN @ ELSE Append(@, [by |-> w, found |-> value[p]])]
     /\ UNCHANGED spoiled
  \/ p \notin spoiled /\ ~InTurn(w, p) /\ Spoil(p)

PutBack(w, p) ==
  \/ p \in spoiled /\ UNCHANGED fieldHistory
  \/ /\ p \notin spoiled /\ InTurn(w, p) /\ Has(w, p)
     /\ altered' = [altered EXCEPT ![p] = Front(@)]
     /\ UNCHANGED spoiled
  \/ p \notin spoiled /\ ~(InTurn(w, p) /\ Has(w, p)) /\ Spoil(p)

----------------------------------------------------------------------------
(* Impl::reload(). *)

tweakVars == <<isEnabled, tweaker, tweaksCount, wasEnabled>>

Goes(r, at) == reloader' = [reloader EXCEPT ![r].at = at]

(* Before the lock.  The mutant `HasNothingToDoNow` forgets that the file  *)
(* existed once.                                                           *)
HasNothingToDoNow(exists) == ~firstTime /\ ~exists
HasNothingToDo(exists) == ~firstTime /\ ~everExisted /\ ~exists

(* Nothing happens when reading is disabled, either.                       *)
BeginReload(r) ==
  LET exists == file.state # "absent"
  IN /\ reloader[r].at = "rest" /\ isEnabled
     /\ everExisted' = (everExisted \/ exists)
     /\ IF HasNothingToDo(exists)
          THEN isFresh' = TRUE /\ UNCHANGED reloader
          ELSE /\ reloader' = [reloader EXCEPT ![r] =
                    [at |-> "lock", exists |-> exists, param |-> 1, isRead |-> FALSE]]
               /\ UNCHANGED isFresh
     /\ UNCHANGED <<file, iniMap, firstTime, reloading, value, tweakVars, fieldHistory>>

(* The mutex.  The mutant `LockNothing` goes on without it.                *)
LockNothing(r) ==
  /\ reloader[r].at = "lock"
  /\ reloading' = r
  /\ Goes(r, "parse")
  /\ UNCHANGED <<file, iniMap, everExisted, firstTime, value, isFresh, tweakVars, fieldHistory>>

LockReload(r) ==
  /\ reloader[r].at = "lock" /\ reloading = NoReloader
  /\ reloading' = r
  /\ Goes(r, "parse")
  /\ UNCHANGED <<file, iniMap, everExisted, firstTime, value, isFresh, tweakVars, fieldHistory>>

(* The loop over m_params goes on with the i-th one, or ends.              *)
ParamFrom(i) == IF i \in DOMAIN ParamOrder THEN "reset" ELSE "finish"

(* parseNameValueFile(), or clear().  A file that has been deleted since   *)
(* the check cannot be opened, and is not taken for an empty one.          *)
ParseFile(r) ==
  /\ reloader[r].at = "parse"
  /\ iniMap' = IF reloader[r].exists THEN file.text ELSE BlankText
  /\ reloader' = [reloader EXCEPT
       ![r].at = IF reloader[r].exists /\ file.state = "empty" THEN "fill" ELSE ParamFrom(1),
       ![r].isRead = reloader[r].exists \/ file.state = "absent"]
  /\ UNCHANGED <<file, everExisted, firstTime, reloading, value, isFresh, tweakVars,
                 fieldHistory>>

(* createDefaultIniFile(): only comments, over whatever is there by now;   *)
(* or the file cannot be written.                                          *)
CreateDefaultIniFile(r) ==
  /\ reloader[r].at = "fill"
  /\ file' \in {file, [state |-> "written", text |-> BlankText]}
  /\ Goes(r, ParamFrom(1))
  /\ UNCHANGED <<iniMap, everExisted, firstTime, reloading, value, isFresh, tweakVars,
                 fieldHistory>>

(* Param<Value>::reload(): the field has its default for a moment.         *)
ResetField(r) ==
  /\ reloader[r].at = "reset"
  /\ value' = [value EXCEPT ![ParamOrder[reloader[r].param]] = DefaultValue]
  /\ Overwrite(ParamOrder[reloader[r].param], FALSE)
  /\ Goes(r, "convert")
  /\ UNCHANGED <<file, iniMap, everExisted, firstTime, reloading, isFresh, tweakVars>>

(* The value of a line: an empty one is an empty string, or a default.     *)
Converted(p, line) ==
  IF line \in {NoLine, BadText} \/ (line = NoText /\ p \notin StringParams)
    THEN DefaultValue ELSE line

ConvertField(r) ==
  LET i == reloader[r].param
      p == ParamOrder[i]
  IN /\ reloader[r].at = "convert"
     /\ value' = [value EXCEPT ![p] = Converted(p, iniMap[p])]
     /\ Overwrite(p, TRUE)
     /\ reloader' = [reloader EXCEPT
          ![r].at = ParamFrom(i + 1), ![r].param = i + 1]
     /\ UNCHANGED <<file, iniMap, everExisted, firstTime, reloading, isFresh, tweakVars>>

FinishReload(r) ==
  /\ reloader[r].at = "finish"
  /\ firstTime' = FALSE
  /\ reloading' = NoReloader
  /\ isFresh' = reloader[r].isRead
  /\ reloader' = [reloader EXCEPT ![r] = AtRest]
  /\ UNCHANGED <<file, iniMap, everExisted, value, tweakVars, fieldHistory>>

----------------------------------------------------------------------------
(* Tweaks.  Neither a reload that is under way nor other Tweaks are waited *)
(* for, and the fields are not locked.                                     *)

restVars == <<file, iniMap, everExisted, firstTime, reloading, reloader, isFresh>>

(* The constructor.  The mutant `SaveAlways` saves the flag each time.     *)
SaveAlways == isEnabled
SaveOnce == IF tweaksCount = 0 THEN isEnabled ELSE wasEnabled

BeginTweaks(w) ==
  /\ tweaker[w].at = "gone"
  /\ tweaksCount' = tweaksCount + 1
  /\ wasEnabled' = SaveOnce
  /\ isEnabled' = FALSE
  /\ tweaker' = [tweaker EXCEPT ![w].at = "alive"]
  /\ UNCHANGED <<restVars, value, fieldHistory>>

(* The first half of set(): the guard has the value the field has now.     *)
GuardCount == MapThenSumSet(LAMBDA w : Len(tweaker[w].guards), Tweakers)

SaveField(w, p) ==
  /\ tweaker[w].at = "alive" /\ GuardCount < MaxGuards
  /\ tweaker' = [tweaker EXCEPT
       ![w] = [at |-> "setting", guards |-> Append(@.guards, [param |-> p, saved |-> value[p]])]]
  /\ UNCHANGED <<restVars, value, isEnabled, tweaksCount, wasEnabled, fieldHistory>>

(* The second half of set().                                               *)
SetTweak(w) ==
  LET guards == tweaker[w].guards
      guard == Last(guards)
  IN /\ tweaker[w].at = "setting"
     /\ value' = [value EXCEPT ![guard.param] = w]
     /\ Alter(w, guard.param)
     /\ tweaker' = [tweaker EXCEPT ![w].at = "alive"]
     /\ UNCHANGED <<restVars, isEnabled, tweaksCount, wasEnabled>>

(* The destructor: the guards, from the first to the last; and then, under *)
(* the lock, the flag.                                                     *)
RunGuard(w) ==
  LET guards == tweaker[w].guards
      guard == Head(guards)
  IN /\ tweaker[w].at \in {"alive", "ending"} /\ guards # <<>>
     /\ value' = [value EXCEPT ![guard.param] = guard.saved]
     /\ PutBack(w, guard.param)
     /\ tweaker' = [tweaker EXCEPT ![w] = [at |-> "ending", guards |-> Tail(guards)]]
     /\ UNCHANGED <<restVars, isEnabled, tweaksCount, wasEnabled>>

EndTweaks(w) ==
  /\ tweaker[w].at \in {"alive", "ending"} /\ tweaker[w].guards = <<>>
  /\ tweaksCount' = tweaksCount - 1
  /\ isEnabled' = IF tweaksCount = 1 THEN wasEnabled ELSE isEnabled
  /\ tweaker' = [tweaker EXCEPT ![w] = NotMade]
  /\ UNCHANGED <<restVars, value, wasEnabled, fieldHistory>>

----------------------------------------------------------------------------
IniFiles == [state : {"absent", "empty"}, text : {BlankText}]
              \union [state : {"written"}, text : IniTexts]

EditNext == \E new \in IniFiles : EditFile(new)

ReloadNext ==
  \E r \in Reloaders :
    \/ BeginReload(r) \/ LockReload(r) \/ ParseFile(r) \/ CreateDefaultIniFile(r)
    \/ ResetField(r) \/ ConvertField(r) \/ FinishReload(r)

TweaksNext ==
  \E w \in Tweakers :
    \/ BeginTweaks(w) \/ (\E p \in TweakedParams : SaveField(w, p)) \/ SetTweak(w)
    \/ RunGuard(w) \/ EndTweaks(w)

IniNext == EditNext \/ ReloadNext \/ TweaksNext

IniSpec == IniInit /\ [][IniNext]_iniVars

----------------------------------------------------------------------------
(* Whatever is edited meanwhile, the reload that ends last leaves in the   *)
(* map what the file says, nothing when it has been deleted; unless it was *)
(* edited after it was parsed, or made after that reload, still without    *)
(* the mutex, had not found it.                                            *)
MapIsRead == isFresh /\ reloading = NoReloader => iniMap = file.text

(* A field has the value that the last of the Tweaks has given it, even in *)
(* the middle of a reload; and without them, when no reload is under way,  *)
(* what the map says.  It is otherwise for fields that are spoiled: a      *)
(* reload that had begun before the Tweaks wrote them, or Tweaks in        *)
(* several threads or of one field restored them out of turn.              *)
FieldsAreKept ==
  \A p \in Params \ spoiled :
    /\ altered[p] # <<>> => value[p] = Last(altered[p]).by
    /\ altered[p] = <<>> /\ reloading = NoReloader => value[p] = Converted(p, iniMap[p])

(* Reloads, edits of the file and Tweaks in any order: no reload begins    *)
(* while there are Tweaks, and one may when the last of them is gone, who  *)
(* has nothing more to put back; and the map and the fields are right.     *)
ReloadsAndTweaksAgree ==
  /\ isEnabled <=> \A w \in Tweakers : tweaker[w] = NotMade
  /\ MapIsRead
  /\ FieldsAreKept

(* "Re-reading the values is disabled while at least one Tweaks instance   *)
(* exists", and "the value will be altered up to the end of this scope":   *)
(* what a Tweaks has set, where there is no other, stays.                  *)
TweaksLast ==
  \A w \in Tweakers : tweaker[w].at = "alive" =>
    \A i \in DOMAIN tweaker[w].guards : value[tweaker[w].guards[i].param] = w

=============================================================================

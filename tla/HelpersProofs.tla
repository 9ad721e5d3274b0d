--------------------------- MODULE HelpersProofs ---------------------------
(***************************************************************************)
(* Theorems about the helpers of nx_kit and of the SDK that MCParts checks:*)
(* the .ini files, with any number of threads, Tweaks objects and          *)
(* parameters; the unit-test runner, with any number of tests; the         *)
(* statistics of a media stream, with any number of frames; and a session  *)
(* of a test with a plugin library, with any number of Integrations.       *)
(***************************************************************************)
EXTENDS IniConfig, TestRunner, StreamStatistics, PluginSession,
        InductionLemmas, FiniteSetTheorems, SequenceTheorems, TLAPS

----------------------------------------------------------------------------
(* The .ini files: reloading them and tweaking their parameters.           *)

IniValues ==
  {NoLine, DefaultValue} \union Tweakers \union {text[p] : text \in IniTexts, p \in Params}

Reading == {"parse", "fill", "reset", "convert", "finish"}

ReloadStates ==
  [at : {"rest", "lock"} \union Reading, exists : BOOLEAN, param : Nat, isRead : BOOLEAN]

Guards == [param : Params, saved : IniValues]
TweakStates == [at : {"gone", "alive", "setting", "ending"}, guards : Seq(Guards)]

Alterations == [by : Tweakers, found : IniValues]

IniIsTyped ==
  /\ isEnabled \in BOOLEAN /\ wasEnabled \in BOOLEAN /\ isFresh \in BOOLEAN
  /\ everExisted \in BOOLEAN
  /\ file \in [state : {"absent", "empty", "written"}, text : IniTexts \union {BlankText}]
  /\ file.state # "written" => file.text = BlankText
  /\ iniMap \in IniTexts \union {BlankText}
  /\ reloading \in Reloaders \union {NoReloader}
  /\ value \in [Params -> IniValues]
  /\ reloader \in [Reloaders -> ReloadStates]
  /\ tweaker \in [Tweakers -> TweakStates]
  /\ altered \in [Params -> Seq(Alterations)]

(* How far a thread is, and what it has taken from the file.               *)
ReloadIsSound(r) ==
  /\ (r = reloading) <=> reloader[r].at \in Reading
  /\ reloader[r].at \in {"lock", "parse", "fill"} => reloader[r].param = 1
  /\ reloader[r].at = "fill" => iniMap = BlankText
  /\ reloader[r].at \in Reading \ {"parse"} /\ reloader[r].isRead => iniMap = file.text
  /\ reloader[r].at \in {"reset", "convert"} => reloader[r].param \in DOMAIN ParamOrder
  /\ reloader[r].at = "finish" => reloader[r].param > Len(ParamOrder)

(* As long as no thread has seen the file, nothing is read.                *)
NothingIsRead ==
  ~everExisted => iniMap = BlankText /\ \A r \in Reloaders : ~reloader[r].exists

Living == {w \in Tweakers : tweaker[w].at # "gone"}

TweaksAreSound ==
  /\ tweaksCount = Cardinality(Living)
  /\ isEnabled <=> Living = {}
  /\ Living # {} => wasEnabled
  /\ \A w \in Tweakers :
       /\ tweaker[w].at = "gone" => tweaker[w].guards = <<>>
       /\ tweaker[w].at = "setting" => tweaker[w].guards # <<>>

(* No reload is under way, or it has converted the field.                  *)
IsDone(p) ==
  \/ reloading = NoReloader
  \/ \E r \in Reloaders : /\ r = reloading /\ reloader[r].at \in {"reset", "convert", "finish"}
                          /\ \E i \in DOMAIN ParamOrder :
                               i < reloader[r].param /\ ParamOrder[i] = p

(* What the first of the Tweaks has found, or the value without them.      *)
Base(p) == IF altered[p] = <<>> THEN value[p] ELSE altered[p][1].found

(* Each of the Tweaks has found what the one before it has written.        *)
FieldIsSound(p) ==
  /\ \A k \in DOMAIN altered[p] : k > 1 => altered[p][k].found = altered[p][k - 1].by
  /\ \A j, k \in DOMAIN altered[p] : altered[p][j].by = altered[p][k].by => j = k
  /\ altered[p] # <<>> => value[p] = altered[p][Len(altered[p])].by
  /\ IsDone(p) => Base(p) = Converted(p, iniMap[p])

(* The first guard of a Tweaks for a field.                                *)
IsFirst(guards, p, i) ==
  /\ i \in DOMAIN guards /\ guards[i].param = p
  /\ \A j \in DOMAIN guards : j < i => guards[j].param # p

(* The guards whose values are in the fields, when one is being set.       *)
WrittenCount(w) ==
  Len(tweaker[w].guards) - (IF tweaker[w].at = "setting" THEN 1 ELSE 0)

(* The guard that will run first puts back what w has found; a field that  *)
(* w has set is altered by it; what it is about to set has not changed.    *)
GuardsAreSound(w, p) ==
  /\ \A k \in DOMAIN altered[p] : altered[p][k].by = w =>
       \E i : IsFirst(tweaker[w].guards, p, i)
              /\ tweaker[w].guards[i].saved = altered[p][k].found
  /\ tweaker[w].at \in {"alive", "setting"} =>
       \A i \in DOMAIN tweaker[w].guards :
         i <= WrittenCount(w) /\ tweaker[w].guards[i].param = p => Has(w, p)
  /\ IsBeingSet(w, p) => tweaker[w].guards[Len(tweaker[w].guards)].saved = value[p]

FieldsAreSound ==
  \A p \in Params \ spoiled : FieldIsSound(p) /\ \A w \in Tweakers : GuardsAreSound(w, p)

IniIInv ==
  /\ IniIsTyped
  /\ \A r \in Reloaders : ReloadIsSound(r)
  /\ NothingIsRead
  /\ MapIsRead
  /\ TweaksAreSound
  /\ FieldsAreSound

----------------------------------------------------------------------------
LEMMA ParamFacts ==
  /\ Len(ParamOrder) \in Nat /\ DOMAIN ParamOrder = 1..Len(ParamOrder)
  /\ \A i \in DOMAIN ParamOrder : ParamOrder[i] \in Params
  /\ \A p \in Params : \E i \in DOMAIN ParamOrder : ParamOrder[i] = p
  <1>1. ParamOrder \in Seq(Params)
    BY IniAssumption
  <1>2. Len(ParamOrder) \in Nat /\ DOMAIN ParamOrder = 1..Len(ParamOrder)
    BY <1>1, LenProperties
  <1> QED
    BY <1>2 DEF Params, Range

LEMMA TextValues ==
  ASSUME NEW text \in IniTexts \union {BlankText}, NEW p \in Params
  PROVE  text[p] \in IniValues
  BY DEF BlankText, IniValues

LEMMA ConvertedValues ==
  ASSUME NEW p \in Params, NEW line \in IniValues
  PROVE  Converted(p, line) \in IniValues
  BY DEF Converted, IniValues

(* A field on which a step has no effect.                                  *)
LEMMA FieldStays ==
  ASSUME NEW p \in Params, FieldIsSound(p),
         value'[p] = value[p], altered'[p] = altered[p], iniMap' = iniMap,
         IsDone(p)' => IsDone(p)
  PROVE  FieldIsSound(p)'
  BY DEF FieldIsSound, Base, Converted

(* Guards on which a step has no effect.                                   *)
LEMMA GuardsStay ==
  ASSUME NEW p \in Params, NEW w \in Tweakers, GuardsAreSound(w, p),
         value'[p] = value[p], altered'[p] = altered[p], tweaker'[w] = tweaker[w]
  PROVE  GuardsAreSound(w, p)'
  BY DEF GuardsAreSound, WrittenCount, Has, IsBeingSet

(* No field is affected.                                                   *)
LEMMA FieldsStay ==
  ASSUME FieldsAreSound, UNCHANGED <<value, altered, spoiled, tweaker, iniMap>>,
         \A p \in Params : IsDone(p)' => IsDone(p)
  PROVE  FieldsAreSound'
  BY FieldStays, GuardsStay DEF FieldsAreSound

LEMMA TweaksStay ==
  ASSUME TweaksAreSound, UNCHANGED <<isEnabled, tweaker, tweaksCount, wasEnabled>>
  PROVE  TweaksAreSound'
  BY DEF TweaksAreSound, Living

LEMMA ReloaderMoves ==
  ASSUME IniIInv, NEW r \in Reloaders, NEW s \in ReloadStates,
         reloader' = [reloader EXCEPT ![r] = s]
  PROVE  /\ reloader' \in [Reloaders -> ReloadStates] /\ reloader'[r] = s
         /\ \A q \in Reloaders : q # r => reloader'[q] = reloader[q]
  BY DEF IniIInv, IniIsTyped

(* A thread that waits is not disturbed by one that reads.                 *)
LEMMA WaitingIsKept ==
  ASSUME IniIInv, NEW q \in Reloaders, ~(reloader[q].at \in Reading), reloading' # q,
         reloader'[q] = reloader[q]
  PROVE  ReloadIsSound(q)'
  BY DEF IniIInv, ReloadIsSound, Reading

----------------------------------------------------------------------------
(* The file.                                                               *)

LEMMA EditIsSound ==
  ASSUME IniIInv, NEW new \in IniFiles, EditFile(new)
  PROVE  IniIInv'
  <1>1. /\ file' = new /\ isFresh' = FALSE
        /\ reloader' = [r \in Reloaders |-> [reloader[r] EXCEPT !.isRead = FALSE]]
        /\ UNCHANGED <<isEnabled, iniMap, everExisted, reloading, value, tweaker,
                       tweaksCount, wasEnabled, altered, spoiled>>
    BY DEF EditFile
  <1>2. ASSUME NEW r \in Reloaders
        PROVE  /\ reloader'[r] \in ReloadStates /\ ~reloader'[r].isRead
               /\ reloader'[r].at = reloader[r].at /\ reloader'[r].exists = reloader[r].exists
               /\ reloader'[r].param = reloader[r].param
    <2>1. reloader[r] \in ReloadStates
      BY DEF IniIInv, IniIsTyped
    <2> QED
      BY <1>1, <2>1 DEF ReloadStates
  <1>3. reloader' \in [Reloaders -> ReloadStates]
    BY <1>1, <1>2
  <1>4. /\ new \in [state : {"absent", "empty", "written"}, text : IniTexts \union {BlankText}]
        /\ new.state # "written" => new.text = BlankText
    BY DEF IniFiles
  <1>5. IniIsTyped'
    BY <1>1, <1>3, <1>4 DEF IniIInv, IniIsTyped
  <1>6. ASSUME NEW r \in Reloaders PROVE ReloadIsSound(r)'
    BY <1>1, <1>2 DEF IniIInv, ReloadIsSound
  <1>7. NothingIsRead'
    BY <1>1, <1>2 DEF IniIInv, NothingIsRead
  <1>8. MapIsRead'
    BY <1>1 DEF MapIsRead
  <1>9. TweaksAreSound'
    BY <1>1, TweaksStay DEF IniIInv
  <1>10. FieldsAreSound'
    <2>1. \A p \in Params : IsDone(p)' => IsDone(p)
      BY <1>1, <1>2 DEF IsDone
    <2> QED
      BY <1>1, <2>1, FieldsStay DEF IniIInv
  <1> QED
    BY <1>5, <1>6, <1>7, <1>8, <1>9, <1>10 DEF IniIInv

----------------------------------------------------------------------------
(* Reloading.                                                              *)

LEMMA BeginReloadIsSound ==
  ASSUME IniIInv, NEW r \in Reloaders, BeginReload(r)
  PROVE  IniIInv'
  <1> DEFINE exists == file.state # "absent"
             s == [at |-> "lock", exists |-> exists, param |-> 1, isRead |-> FALSE]
  <1>1. /\ reloader[r].at = "rest"
        /\ everExisted' = (everExisted \/ exists)
        /\ UNCHANGED <<file, iniMap, reloading, value, isEnabled, tweaker,
                       tweaksCount, wasEnabled, altered, spoiled>>
    BY DEF BeginReload, tweakVars, fieldHistory
  <1>2. reloading # r
    BY <1>1 DEF IniIInv, ReloadIsSound, Reading
  <1>3. exists \in BOOLEAN /\ (~exists => file.text = BlankText)
    BY DEF IniIInv, IniIsTyped
  <1>4. TweaksAreSound'
    BY <1>1, TweaksStay DEF IniIInv
  <1>5. CASE HasNothingToDo(exists)
    <2>1. isFresh' = TRUE /\ reloader' = reloader /\ everExisted' = everExisted
          /\ ~everExisted /\ ~exists
      <3>1. isFresh' = TRUE /\ reloader' = reloader /\ ~everExisted /\ ~exists
        BY <1>5 DEF BeginReload, HasNothingToDo
      <3> QED
        BY <1>1, <3>1 DEF IniIInv, IniIsTyped
    <2>2. IniIsTyped'
      BY <1>1, <2>1 DEF IniIInv, IniIsTyped
    <2>3. ASSUME NEW q \in Reloaders PROVE ReloadIsSound(q)'
      BY <1>1, <2>1 DEF IniIInv, ReloadIsSound
    <2>4. NothingIsRead'
      BY <1>1, <2>1 DEF IniIInv, NothingIsRead
    <2>5. MapIsRead'
      BY <1>1, <1>3, <2>1 DEF IniIInv, NothingIsRead, MapIsRead
    <2>6. FieldsAreSound'
      <3>1. \A p \in Params : IsDone(p)' => IsDone(p)
        BY <1>1, <2>1 DEF IsDone
      <3> QED
        BY <1>1, <3>1, FieldsStay DEF IniIInv
    <2> QED
      BY <1>4, <2>2, <2>3, <2>4, <2>5, <2>6 DEF IniIInv
  <1>6. CASE ~HasNothingToDo(exists)
    <2>1. reloader' = [reloader EXCEPT ![r] = s] /\ isFresh' = isFresh
      BY <1>6 DEF BeginReload
    <2>2. s \in ReloadStates /\ s.at = "lock" /\ s.exists = exists /\ s.param = 1
      BY <1>3 DEF ReloadStates
    <2> HIDE DEF s
    <2>3. /\ reloader' \in [Reloaders -> ReloadStates] /\ reloader'[r] = s
          /\ \A q \in Reloaders : q # r => reloader'[q] = reloader[q]
      BY <2>1, <2>2, ReloaderMoves
    <2>4. IniIsTyped'
      <3>1. isFresh' \in BOOLEAN /\ everExisted' \in BOOLEAN
        BY <1>1, <2>1 DEF IniIInv, IniIsTyped
      <3> QED
        BY <1>1, <2>3, <3>1 DEF IniIInv, IniIsTyped
    <2>5. ReloadIsSound(r)'
      BY <1>1, <1>2, <2>2, <2>3 DEF ReloadIsSound, Reading
    <2>6. ASSUME NEW q \in Reloaders, q # r PROVE ReloadIsSound(q)'
      BY <1>1, <2>3, <2>6 DEF IniIInv, ReloadIsSound
    <2>7. NothingIsRead'
      BY <1>1, <2>2, <2>3 DEF IniIInv, NothingIsRead
    <2>8. MapIsRead'
      BY <1>1, <2>1 DEF IniIInv, MapIsRead
    <2>9. FieldsAreSound'
      <3>1. \A p \in Params : IsDone(p)' => IsDone(p)
        BY <1>1, <1>2, <2>3 DEF IsDone
      <3> QED
        BY <1>1, <3>1, FieldsStay DEF IniIInv
    <2> QED
      BY <1>4, <2>4, <2>5, <2>6, <2>7, <2>8, <2>9 DEF IniIInv
  <1> QED
    BY <1>5, <1>6

LEMMA LockIsSound ==
  ASSUME IniIInv, NEW r \in Reloaders, LockReload(r)
  PROVE  IniIInv'
  <1> DEFINE s == [reloader[r] EXCEPT !.at = "parse"]
  <1>1. /\ reloader[r].at = "lock" /\ reloading = NoReloader /\ reloading' = r
        /\ reloader' = [reloader EXCEPT ![r] = s]
        /\ UNCHANGED <<file, iniMap, everExisted, value, isFresh, isEnabled, tweaker,
                       tweaksCount, wasEnabled, altered, spoiled>>
    BY DEF LockReload, Goes, tweakVars, fieldHistory
  <1>2. /\ s \in ReloadStates /\ s.at = "parse" /\ s.exists = reloader[r].exists
        /\ s.param = reloader[r].param
    <2>1. reloader[r] \in ReloadStates
      BY DEF IniIInv, IniIsTyped
    <2> QED
      BY <2>1 DEF ReloadStates, Reading
  <1> HIDE DEF s
  <1>3. /\ reloader' \in [Reloaders -> ReloadStates] /\ reloader'[r] = s
        /\ \A q \in Reloaders : q # r => reloader'[q] = reloader[q]
    BY <1>1, <1>2, ReloaderMoves
  <1>4. IniIsTyped'
    BY <1>1, <1>3 DEF IniIInv, IniIsTyped
  <1>5. ReloadIsSound(r)'
    <2>1. s.param = 1
      BY <1>1, <1>2 DEF IniIInv, ReloadIsSound
    <2> QED
      BY <1>1, <1>2, <1>3, <2>1 DEF ReloadIsSound, Reading
  <1>6. ASSUME NEW q \in Reloaders, q # r PROVE ReloadIsSound(q)'
    <2>1. ~(reloader[q].at \in Reading)
      <3>1. reloading # q
        BY <1>1, IniAssumption
      <3> QED
        BY <3>1 DEF IniIInv, ReloadIsSound
    <2> QED
      BY <1>1, <1>3, <1>6, <2>1, WaitingIsKept
  <1>7. NothingIsRead'
    <2>1. \A q \in Reloaders : reloader'[q].exists = reloader[q].exists
      BY <1>2, <1>3
    <2> QED
      BY <1>1, <2>1 DEF IniIInv, NothingIsRead
  <1>8. MapIsRead'
    BY <1>1, IniAssumption DEF MapIsRead
  <1>9. TweaksAreSound'
    BY <1>1, TweaksStay DEF IniIInv
  <1>10. FieldsAreSound'
    <2>1. \A p \in Params : IsDone(p)' => IsDone(p)
      BY <1>1 DEF IsDone
    <2> QED
      BY <1>1, <2>1, FieldsStay DEF IniIInv
  <1> QED
    BY <1>4, <1>5, <1>6, <1>7, <1>8, <1>9, <1>10 DEF IniIInv

(* A step of the thread that reads the file.                               *)
LEMMA ReadingStep ==
  ASSUME IniIInv, NEW r \in Reloaders, reloader[r].at \in Reading,
         NEW s \in ReloadStates, s.exists = reloader[r].exists,
         reloader' = [reloader EXCEPT ![r] = s],
         UNCHANGED <<everExisted, isFresh, reloading, isEnabled, tweaker, tweaksCount,
                     wasEnabled>>,
         file' = file \/ file' = [state |-> "written", text |-> BlankText],
         iniMap' \in IniTexts \union {BlankText},
         value' \in [Params -> IniValues],
         altered' \in [Params -> Seq(Alterations)],
         ~everExisted => iniMap' = BlankText,
         ReloadIsSound(r)', FieldsAreSound'
  PROVE  IniIInv'
  <1>1. /\ reloader' \in [Reloaders -> ReloadStates] /\ reloader'[r] = s
        /\ \A q \in Reloaders : q # r => reloader'[q] = reloader[q]
    BY ReloaderMoves
  <1>2. reloading = r
    BY DEF IniIInv, ReloadIsSound
  <1>3. IniIsTyped'
    BY <1>1 DEF IniIInv, IniIsTyped
  <1>4. ASSUME NEW q \in Reloaders, q # r PROVE ReloadIsSound(q)'
    <2>1. ~(reloader[q].at \in Reading) /\ reloading' # q
      BY <1>2, <1>4 DEF IniIInv, ReloadIsSound
    <2> QED
      BY <1>1, <1>4, <2>1, WaitingIsKept
  <1>5. NothingIsRead'
    BY <1>1 DEF IniIInv, NothingIsRead
  <1>6. MapIsRead'
    BY <1>2, IniAssumption DEF MapIsRead
  <1>7. TweaksAreSound'
    BY TweaksStay DEF IniIInv
  <1> QED
    BY <1>3, <1>4, <1>5, <1>6, <1>7 DEF IniIInv

(* What the thread that reads knows.                                       *)
LEMMA ReadingFacts ==
  ASSUME IniIInv, NEW r \in Reloaders, reloader[r].at \in Reading
  PROVE  /\ reloading = r /\ reloader[r] \in ReloadStates
         /\ iniMap \in IniTexts \union {BlankText}
         /\ value \in [Params -> IniValues] /\ altered \in [Params -> Seq(Alterations)]
         /\ ReloadIsSound(r)
         /\ \A p \in Params : iniMap[p] \in IniValues
         /\ ~everExisted => iniMap = BlankText /\ ~reloader[r].exists
         /\ \A p : IsDone(p) <=> /\ reloader[r].at \in {"reset", "convert", "finish"}
                                 /\ \E i \in DOMAIN ParamOrder :
                                      i < reloader[r].param /\ ParamOrder[i] = p
  <1>1. reloading = r /\ reloading # NoReloader
    BY IniAssumption DEF IniIInv, ReloadIsSound
  <1>2. /\ reloader[r] \in ReloadStates /\ iniMap \in IniTexts \union {BlankText}
        /\ value \in [Params -> IniValues] /\ altered \in [Params -> Seq(Alterations)]
        /\ ReloadIsSound(r)
    BY DEF IniIInv, IniIsTyped
  <1>3. \A p \in Params : iniMap[p] \in IniValues
    BY <1>2, TextValues
  <1>4. ~everExisted => iniMap = BlankText /\ ~reloader[r].exists
    BY DEF IniIInv, NothingIsRead
  <1>5. \A p : IsDone(p) <=> /\ reloader[r].at \in {"reset", "convert", "finish"}
                             /\ \E i \in DOMAIN ParamOrder :
                                  i < reloader[r].param /\ ParamOrder[i] = p
    BY <1>1 DEF IsDone
  <1> QED
    BY <1>1, <1>2, <1>3, <1>4, <1>5

LEMMA ParamFromFacts ==
  ASSUME NEW i \in Nat
  PROVE  /\ ParamFrom(i) \in {"reset", "finish"}
         /\ ParamFrom(i) = "reset" <=> i \in DOMAIN ParamOrder
  BY DEF ParamFrom

(* A reload that begins with the first field is done with none.            *)
LEMMA NoneIsDone ==
  ASSUME NEW r \in Reloaders, reloading' = r, reloader'[r].param = 1, NEW p
  PROVE  ~IsDone(p)'
  <1>1. r # NoReloader
    BY IniAssumption
  <1>2. \A i \in DOMAIN ParamOrder : ~(i < 1)
    BY ParamFacts
  <1> QED
    BY <1>1, <1>2 DEF IsDone

LEMMA ParseIsSound ==
  ASSUME IniIInv, NEW r \in Reloaders, ParseFile(r)
  PROVE  IniIInv'
  <1> DEFINE place == IF reloader[r].exists /\ file.state = "empty" THEN "fill" ELSE ParamFrom(1)
             isRead == reloader[r].exists \/ file.state = "absent"
             s == [reloader[r] EXCEPT !.at = place, !.isRead = isRead]
  <1>1. /\ reloader[r].at = "parse"
        /\ iniMap' = IF reloader[r].exists THEN file.text ELSE BlankText
        /\ reloader' = [reloader EXCEPT ![r] = s]
        /\ UNCHANGED <<file, everExisted, reloading, value, isFresh, isEnabled,
                       tweaker, tweaksCount, wasEnabled, altered, spoiled>>
    BY DEF ParseFile, tweakVars, fieldHistory
  <1>2. reloader[r].at \in Reading
    BY <1>1 DEF Reading
  <1>3. /\ place \in {"fill", "reset", "finish"}
        /\ place = "fill" => reloader[r].exists /\ file.state = "empty"
        /\ place = "reset" => 1 \in DOMAIN ParamOrder
        /\ place = "finish" => 1 > Len(ParamOrder)
    BY ParamFromFacts, ParamFacts
  <1>4. isRead \in BOOLEAN /\ (isRead => iniMap' = file.text)
    BY <1>1 DEF IniIInv, IniIsTyped
  <1> HIDE DEF place, isRead
  <1>5. /\ s \in ReloadStates /\ s.at = place /\ s.exists = reloader[r].exists
        /\ s.param = reloader[r].param /\ s.isRead = isRead
    <2>1. reloader[r] \in ReloadStates
      BY DEF IniIInv, IniIsTyped
    <2> QED
      BY <1>3, <1>4, <2>1 DEF ReloadStates, Reading
  <1> HIDE DEF s
  <1>6. reloader'[r] = s /\ reloading = r
    BY <1>1, <1>2, <1>5, ReloaderMoves, ReadingFacts
  <1>7. iniMap' \in IniTexts \union {BlankText}
    BY <1>1 DEF IniIInv, IniIsTyped
  <1>8. reloader[r].param = 1
    BY <1>1 DEF IniIInv, ReloadIsSound
  <1>9. place = "fill" => iniMap' = BlankText
    BY <1>1, <1>3 DEF IniIInv, IniIsTyped
  <1>10. ReloadIsSound(r)'
    BY <1>1, <1>3, <1>4, <1>5, <1>6, <1>8, <1>9 DEF ReloadIsSound, Reading
  <1>11. FieldsAreSound'
    <2>1. ASSUME NEW p \in Params \ spoiled PROVE FieldIsSound(p)'
      <3>1. ~IsDone(p)'
        BY <1>1, <1>5, <1>6, <1>8, NoneIsDone
      <3>2. FieldIsSound(p)
        BY DEF IniIInv, FieldsAreSound
      <3> QED
        BY <1>1, <3>1, <3>2 DEF FieldIsSound
    <2>2. ASSUME NEW p \in Params \ spoiled, NEW w \in Tweakers PROVE GuardsAreSound(w, p)'
      BY <1>1, GuardsStay DEF IniIInv, FieldsAreSound
    <2> QED
      BY <1>1, <2>1, <2>2 DEF FieldsAreSound
  <1>12. ~everExisted => iniMap' = BlankText
    BY <1>1, <1>2, ReadingFacts
  <1>13. value' \in [Params -> IniValues] /\ altered' \in [Params -> Seq(Alterations)]
    BY <1>1, <1>2, ReadingFacts
  <1> QED
    BY <1>1, <1>2, <1>5, <1>7, <1>10, <1>11, <1>12, <1>13, ReadingStep

LEMMA CreateIsSound ==
  ASSUME IniIInv, NEW r \in Reloaders, CreateDefaultIniFile(r)
  PROVE  IniIInv'
  <1> DEFINE place == ParamFrom(1)
             s == [reloader[r] EXCEPT !.at = place]
  <1>1. /\ reloader[r].at = "fill"
        /\ file' = file \/ file' = [state |-> "written", text |-> BlankText]
        /\ reloader' = [reloader EXCEPT ![r] = s]
        /\ UNCHANGED <<iniMap, everExisted, reloading, value, isFresh, isEnabled,
                       tweaker, tweaksCount, wasEnabled, altered, spoiled>>
    BY DEF CreateDefaultIniFile, Goes, tweakVars, fieldHistory
  <1>2. reloader[r].at \in Reading
    BY <1>1 DEF Reading
  <1>3. /\ place \in {"reset", "finish"}
        /\ place = "reset" => 1 \in DOMAIN ParamOrder
        /\ place = "finish" => 1 > Len(ParamOrder)
    BY ParamFromFacts, ParamFacts
  <1> HIDE DEF place
  <1>4. /\ s \in ReloadStates /\ s.at = place /\ s.exists = reloader[r].exists
        /\ s.param = reloader[r].param /\ s.isRead = reloader[r].isRead
    <2>1. reloader[r] \in ReloadStates
      BY DEF IniIInv, IniIsTyped
    <2> QED
      BY <1>3, <2>1 DEF ReloadStates, Reading
  <1> HIDE DEF s
  <1>5. reloader'[r] = s /\ reloading = r
    BY <1>1, <1>2, <1>4, ReloaderMoves, ReadingFacts
  <1>6. /\ reloader[r].param = 1 /\ iniMap = BlankText
        /\ reloader[r].isRead => file.text = BlankText
    BY <1>1 DEF IniIInv, ReloadIsSound, Reading
  <1>7. reloader[r].isRead => file'.text = BlankText
    BY <1>1, <1>6
  <1>8. ReloadIsSound(r)'
    BY <1>1, <1>3, <1>4, <1>5, <1>6, <1>7 DEF ReloadIsSound, Reading
  <1>9. FieldsAreSound'
    <2>1. \A p \in Params : IsDone(p)' => IsDone(p)
      BY <1>1, <1>4, <1>5, <1>6, NoneIsDone
    <2> QED
      BY <1>1, <2>1, FieldsStay DEF IniIInv
  <1>10. ~everExisted => iniMap' = BlankText
    BY <1>1, <1>2, ReadingFacts
  <1>11. /\ value' \in [Params -> IniValues] /\ altered' \in [Params -> Seq(Alterations)]
         /\ iniMap' \in IniTexts \union {BlankText}
    BY <1>1, <1>2, ReadingFacts
  <1> QED
    BY <1>1, <1>2, <1>4, <1>8, <1>9, <1>10, <1>11, ReadingStep


(* A reload has written a field.                                           *)
LEMMA OverwriteIsSound ==
  ASSUME IniIInv, NEW p \in Params, NEW v \in IniValues, NEW done \in BOOLEAN,
         value' = [value EXCEPT ![p] = v], Overwrite(p, done),
         iniMap' = iniMap, tweaker' = tweaker,
         \A q \in Params : q # p /\ IsDone(q)' => IsDone(q),
         IsDone(p)' => v = Converted(p, iniMap[p])
  PROVE  /\ FieldsAreSound'
         /\ value' \in [Params -> IniValues] /\ altered' \in [Params -> Seq(Alterations)]
  <1>1. /\ value \in [Params -> IniValues] /\ altered \in [Params -> Seq(Alterations)]
        /\ tweaker \in [Tweakers -> TweakStates]
    BY DEF IniIInv, IniIsTyped
  <1>2. altered' = [altered EXCEPT ![p] = <<>>]
    BY DEF Overwrite, Spoil
  <1>3. value' \in [Params -> IniValues] /\ altered' \in [Params -> Seq(Alterations)]
    <2>1. <<>> \in Seq(Alterations)
      BY EmptySeq
    <2> QED
      BY <1>1, <1>2, <2>1
  <1>4. /\ value'[p] = v /\ altered'[p] = <<>>
        /\ \A q \in Params : q # p => value'[q] = value[q] /\ altered'[q] = altered[q]
    BY <1>1, <1>2
  <1>5. ASSUME NEW q \in Params, q \notin spoiled', q # p
        PROVE  FieldIsSound(q)' /\ \A w \in Tweakers : GuardsAreSound(w, q)'
    <2>1. q \notin spoiled
      BY <1>5 DEF Overwrite, Spoil
    <2>2. FieldIsSound(q) /\ \A w \in Tweakers : GuardsAreSound(w, q)
      BY <2>1 DEF IniIInv, FieldsAreSound
    <2> QED
      BY <1>4, <1>5, <2>2, FieldStays, GuardsStay
  <1>6. ASSUME p \notin spoiled'
        PROVE  FieldIsSound(p)' /\ \A w \in Tweakers : GuardsAreSound(w, p)'
    <2>1. ~IsHeld(p)
      BY <1>6 DEF Overwrite, Spoil
    <2>2. FieldIsSound(p)'
      BY <1>4 DEF FieldIsSound, Base, Converted
    <2>3. ASSUME NEW w \in Tweakers PROVE GuardsAreSound(w, p)'
      <3>1. \A i \in DOMAIN tweaker[w].guards : tweaker[w].guards[i].param # p
        BY <2>1 DEF IsHeld
      <3>2. ~IsBeingSet(w, p)
        <4> SUFFICES ASSUME tweaker[w].at = "setting" PROVE Last(tweaker[w].guards).param # p
          BY DEF IsBeingSet
        <4>1. tweaker[w].guards # <<>> /\ tweaker[w].guards \in Seq(Guards)
          BY <1>1 DEF IniIInv, TweaksAreSound, TweakStates
        <4>2. Len(tweaker[w].guards) \in DOMAIN tweaker[w].guards
          BY <4>1
        <4> QED
          BY <3>1, <4>2 DEF Last
      <3> QED
        BY <1>4, <3>1, <3>2 DEF GuardsAreSound, IsBeingSet
    <2> QED
      BY <2>2, <2>3
  <1>7. FieldsAreSound'
    BY <1>5, <1>6 DEF FieldsAreSound
  <1> QED
    BY <1>3, <1>7

LEMMA ResetIsSound ==
  ASSUME IniIInv, NEW r \in Reloaders, ResetField(r)
  PROVE  IniIInv'
  <1> DEFINE s == [reloader[r] EXCEPT !.at = "convert"]
  <1>0. PICK i \in DOMAIN ParamOrder : i = reloader[r].param
    BY DEF ResetField, IniIInv, ReloadIsSound
  <1> DEFINE p == ParamOrder[i]
  <1>1. /\ reloader[r].at = "reset"
        /\ value' = [value EXCEPT ![p] = DefaultValue] /\ Overwrite(p, FALSE)
        /\ reloader' = [reloader EXCEPT ![r] = s]
        /\ UNCHANGED <<file, iniMap, everExisted, reloading, isFresh, isEnabled,
                       tweaker, tweaksCount, wasEnabled>>
    BY <1>0 DEF ResetField, Goes, tweakVars
  <1>2. reloader[r].at \in Reading
    BY <1>1 DEF Reading
  <1>3. p \in Params
    BY ParamFacts
  <1>4. /\ s \in ReloadStates /\ s.at = "convert" /\ s.exists = reloader[r].exists
        /\ s.param = i /\ s.isRead = reloader[r].isRead
    <2>1. reloader[r] \in ReloadStates
      BY DEF IniIInv, IniIsTyped
    <2> QED
      BY <1>0, <2>1 DEF ReloadStates, Reading
  <1> HIDE DEF s
  <1>5. reloader'[r] = s /\ reloading = r
    BY <1>1, <1>2, <1>4, ReloaderMoves, ReadingFacts
  <1>6. ReloadIsSound(r)'
    <2>1. reloader[r].isRead => iniMap = file.text
      BY <1>1 DEF IniIInv, ReloadIsSound, Reading
    <2> QED
      BY <1>1, <1>4, <1>5, <2>1 DEF ReloadIsSound, Reading
  <1>7. ASSUME NEW q \in Params
        PROVE  IsDone(q)' <=> \E j \in DOMAIN ParamOrder : j < i /\ ParamOrder[j] = q
    BY <1>1, <1>4, <1>5, IniAssumption DEF IsDone
  <1>8. \A q \in Params : q # p /\ IsDone(q)' => IsDone(q)
    BY <1>0, <1>1, <1>2, <1>7, ReadingFacts
  <1>9. ~IsDone(p)'
    <2> SUFFICES ASSUME NEW j \in DOMAIN ParamOrder, j < i, ParamOrder[j] = p PROVE FALSE
      BY <1>3, <1>7
    <2>1. j = i
      BY IniAssumption
    <2> QED
      BY <2>1, ParamFacts
  <1>10. DefaultValue \in IniValues
    BY DEF IniValues
  <1> HIDE DEF p
  <1>11. /\ FieldsAreSound'
         /\ value' \in [Params -> IniValues] /\ altered' \in [Params -> Seq(Alterations)]
    BY <1>1, <1>3, <1>8, <1>9, <1>10, OverwriteIsSound
  <1>12. ~everExisted => iniMap' = BlankText
    BY <1>1, <1>2, ReadingFacts
  <1>13. iniMap' \in IniTexts \union {BlankText}
    BY <1>1, <1>2, ReadingFacts
  <1> QED
    BY <1>1, <1>2, <1>4, <1>6, <1>11, <1>12, <1>13, ReadingStep

LEMMA ConvertIsSound ==
  ASSUME IniIInv, NEW r \in Reloaders, ConvertField(r)
  PROVE  IniIInv'
  <1>0. PICK i \in DOMAIN ParamOrder : i = reloader[r].param
    BY DEF ConvertField, IniIInv, ReloadIsSound
  <1> DEFINE p == ParamOrder[i]
             place == ParamFrom(i + 1)
             s == [reloader[r] EXCEPT !.at = place, !.param = i + 1]
  <1>1. /\ reloader[r].at = "convert"
        /\ value' = [value EXCEPT ![p] = Converted(p, iniMap[p])] /\ Overwrite(p, TRUE)
        /\ reloader' = [reloader EXCEPT ![r] = s]
        /\ UNCHANGED <<file, iniMap, everExisted, reloading, isFresh, isEnabled,
                       tweaker, tweaksCount, wasEnabled>>
    BY <1>0 DEF ConvertField, tweakVars
  <1>2. reloader[r].at \in Reading
    BY <1>1 DEF Reading
  <1>3. p \in Params /\ i \in Nat
    BY ParamFacts
  <1>4. /\ place \in {"reset", "finish"}
        /\ place = "reset" => i + 1 \in DOMAIN ParamOrder
        /\ place = "finish" => i + 1 > Len(ParamOrder)
    <2>1. /\ place \in {"reset", "finish"}
          /\ place = "reset" <=> i + 1 \in DOMAIN ParamOrder
      BY <1>3, ParamFromFacts
    <2> QED
      BY <1>3, <2>1, ParamFacts
  <1> HIDE DEF place
  <1>5. /\ s \in ReloadStates /\ s.at = place /\ s.exists = reloader[r].exists
        /\ s.param = i + 1 /\ s.isRead = reloader[r].isRead
    <2>1. reloader[r] \in ReloadStates
      BY DEF IniIInv, IniIsTyped
    <2>2. i + 1 \in Nat
      BY <1>3
    <2> QED
      BY <1>4, <2>1, <2>2 DEF ReloadStates, Reading
  <1> HIDE DEF s
  <1>6. reloader'[r] = s /\ reloading = r
    BY <1>1, <1>2, <1>5, ReloaderMoves, ReadingFacts
  <1>7. ReloadIsSound(r)'
    <2>1. reloader[r].isRead => iniMap = file.text
      BY <1>1 DEF IniIInv, ReloadIsSound, Reading
    <2> QED
      BY <1>1, <1>4, <1>5, <1>6, <2>1 DEF ReloadIsSound, Reading
  <1>8. \A q \in Params : q # p /\ IsDone(q)' => IsDone(q)
    <2> SUFFICES ASSUME NEW q \in Params, q # p, IsDone(q)' PROVE IsDone(q)
      OBVIOUS
    <2>1. PICK j \in DOMAIN ParamOrder : j < i + 1 /\ ParamOrder[j] = q
      BY <1>1, <1>5, <1>6, IniAssumption DEF IsDone
    <2>2. j # i
      BY <2>1
    <2>3. j < i
      BY <1>3, <2>1, <2>2, ParamFacts
    <2> QED
      BY <1>0, <1>1, <1>2, <2>1, <2>3, ReadingFacts
  <1>9. Converted(p, iniMap[p]) \in IniValues
    BY <1>2, <1>3, ReadingFacts, ConvertedValues
  <1> HIDE DEF p
  <1>10. /\ FieldsAreSound'
         /\ value' \in [Params -> IniValues] /\ altered' \in [Params -> Seq(Alterations)]
    BY <1>1, <1>3, <1>8, <1>9, OverwriteIsSound
  <1>11. ~everExisted => iniMap' = BlankText
    BY <1>1, <1>2, ReadingFacts
  <1>12. iniMap' \in IniTexts \union {BlankText}
    BY <1>1, <1>2, ReadingFacts
  <1> QED
    BY <1>1, <1>2, <1>5, <1>7, <1>10, <1>11, <1>12, ReadingStep

LEMMA FinishReloadIsSound ==
  ASSUME IniIInv, NEW r \in Reloaders, FinishReload(r)
  PROVE  IniIInv'
  <1>1. /\ reloader[r].at = "finish" /\ reloading' = NoReloader
        /\ isFresh' = reloader[r].isRead
        /\ reloader' = [reloader EXCEPT ![r] = AtRest]
        /\ UNCHANGED <<file, iniMap, everExisted, value, isEnabled, tweaker,
                       tweaksCount, wasEnabled, altered, spoiled>>
    BY DEF FinishReload, tweakVars, fieldHistory
  <1>2. reloader[r].at \in Reading
    BY <1>1 DEF Reading
  <1>3. AtRest \in ReloadStates /\ AtRest.at = "rest" /\ ~AtRest.exists
    BY DEF AtRest, ReloadStates
  <1>4. /\ reloader' \in [Reloaders -> ReloadStates] /\ reloader'[r] = AtRest
        /\ \A q \in Reloaders : q # r => reloader'[q] = reloader[q]
    BY <1>1, <1>3, ReloaderMoves
  <1>5. reloading = r /\ reloader[r] \in ReloadStates
    BY <1>2, ReadingFacts
  <1>6. IniIsTyped'
    <2>1. isFresh' \in BOOLEAN
      BY <1>1, <1>5 DEF ReloadStates
    <2> QED
      BY <1>1, <1>4, <2>1 DEF IniIInv, IniIsTyped
  <1>7. ReloadIsSound(r)'
    BY <1>1, <1>3, <1>4, IniAssumption DEF ReloadIsSound, Reading
  <1>8. ASSUME NEW q \in Reloaders, q # r PROVE ReloadIsSound(q)'
    <2>1. ~(reloader[q].at \in Reading)
      BY <1>5, <1>8 DEF IniIInv, ReloadIsSound
    <2>2. reloading' # q
      BY <1>1, IniAssumption
    <2> QED
      BY <1>1, <1>4, <1>8, <2>1, <2>2, WaitingIsKept
  <1>9. NothingIsRead'
    BY <1>1, <1>3, <1>4 DEF IniIInv, NothingIsRead
  <1>10. MapIsRead'
    BY <1>1, <1>2 DEF IniIInv, ReloadIsSound, Reading, MapIsRead
  <1>11. TweaksAreSound'
    BY <1>1, TweaksStay DEF IniIInv
  <1>12. \A p \in Params : IsDone(p)
    <2> SUFFICES ASSUME NEW p \in Params PROVE IsDone(p)
      OBVIOUS
    <2>1. PICK j \in DOMAIN ParamOrder : ParamOrder[j] = p
      BY ParamFacts
    <2>2. reloader[r].param > Len(ParamOrder) /\ reloader[r].param \in Nat
      BY <1>1, <1>5 DEF IniIInv, ReloadIsSound, ReloadStates
    <2>3. j < reloader[r].param
      BY <2>2, ParamFacts
    <2> QED
      BY <1>1, <1>2, <2>1, <2>3, ReadingFacts
  <1>13. FieldsAreSound'
    BY <1>1, <1>12, FieldsStay DEF IniIInv
  <1> QED
    BY <1>6, <1>7, <1>8, <1>9, <1>10, <1>11, <1>13 DEF IniIInv

----------------------------------------------------------------------------
(* Sequences of guards and of alterations.                                 *)

LEMMA AppendFacts ==
  ASSUME NEW S, NEW s \in Seq(S), NEW e \in S
  PROVE  /\ Append(s, e) \in Seq(S) /\ Append(s, e) # <<>>
         /\ Len(s) \in Nat /\ Len(Append(s, e)) = Len(s) + 1
         /\ DOMAIN s = 1..Len(s) /\ DOMAIN Append(s, e) = 1..(Len(s) + 1)
         /\ \A i \in 1..Len(s) : Append(s, e)[i] = s[i]
         /\ Append(s, e)[Len(s) + 1] = e
  OBVIOUS

LEMMA TailFacts ==
  ASSUME NEW S, NEW s \in Seq(S), s # <<>>
  PROVE  /\ Tail(s) \in Seq(S) /\ Len(s) \in Nat \ {0}
         /\ DOMAIN s = 1..Len(s) /\ DOMAIN Tail(s) = 1..(Len(s) - 1)
         /\ \A i \in 1..(Len(s) - 1) : Tail(s)[i] = s[i + 1]
         /\ Head(s) = s[1]
  OBVIOUS

LEMMA FrontFacts ==
  ASSUME NEW S, NEW s \in Seq(S), s # <<>>
  PROVE  /\ Front(s) \in Seq(S) /\ Len(s) \in Nat \ {0} /\ Len(Front(s)) = Len(s) - 1
         /\ DOMAIN s = 1..Len(s) /\ DOMAIN Front(s) = 1..(Len(s) - 1)
         /\ \A i \in 1..(Len(s) - 1) : Front(s)[i] = s[i]
         /\ (Front(s) = <<>> <=> Len(s) = 1)
  <1>1. Len(s) \in Nat \ {0} /\ DOMAIN s = 1..Len(s)
    OBVIOUS
  <1>2. Front(s) = SubSeq(s, 1, Len(s) - 1)
    BY DEF Front
  <1>3. \A i \in 1..(Len(s) - 1) : s[i] \in S
    OBVIOUS
  <1>4. /\ Front(s) \in Seq(S) /\ Len(Front(s)) = Len(s) - 1
        /\ \A i \in 1..(Len(s) - 1) : Front(s)[i] = s[i]
    BY <1>1, <1>2, <1>3, SubSeqProperties
  <1>5. Front(s) = <<>> <=> Len(Front(s)) = 0
    BY <1>4, EmptySeq
  <1> QED
    BY <1>1, <1>4, <1>5

----------------------------------------------------------------------------
(* Tweaks objects.                                                         *)

LEMMA LivingFacts ==
  ASSUME IniIInv
  PROVE  IsFiniteSet(Living) /\ Cardinality(Living) \in Nat
         /\ (Cardinality(Living) = 0 <=> Living = {})
  <1>1. Living \in SUBSET Tweakers
    BY DEF Living
  <1>2. IsFiniteSet(Living)
    BY <1>1, FS_Subset, IniAssumption
  <1> QED
    BY <1>2, FS_EmptySet, FS_CardinalityType

LEMMA TweakerMoves ==
  ASSUME IniIInv, NEW w \in Tweakers, NEW s \in TweakStates,
         tweaker' = [tweaker EXCEPT ![w] = s]
  PROVE  /\ tweaker' \in [Tweakers -> TweakStates] /\ tweaker'[w] = s
         /\ \A v \in Tweakers : v # w => tweaker'[v] = tweaker[v]
         /\ Living' = IF s.at = "gone" THEN Living \ {w} ELSE Living \union {w}
  <1>1. /\ tweaker' \in [Tweakers -> TweakStates] /\ tweaker'[w] = s
        /\ \A v \in Tweakers : v # w => tweaker'[v] = tweaker[v]
    BY DEF IniIInv, IniIsTyped
  <1> QED
    BY <1>1 DEF Living

(* Reloads are not concerned.                                              *)
LEMMA ReloadsStay ==
  ASSUME IniIInv, UNCHANGED restVars
  PROVE  /\ \A r \in Reloaders : ReloadIsSound(r)'
         /\ NothingIsRead' /\ MapIsRead'
         /\ \A p \in Params : IsDone(p)' => IsDone(p)
  <1>1. \A r \in Reloaders : ReloadIsSound(r)'
    BY DEF IniIInv, ReloadIsSound, restVars
  <1>2. NothingIsRead' /\ MapIsRead'
    BY DEF IniIInv, NothingIsRead, MapIsRead, restVars
  <1>3. \A p \in Params : IsDone(p)' => IsDone(p)
    BY DEF IsDone, restVars
  <1> QED
    BY <1>1, <1>2, <1>3

(* A step in the life of a Tweaks.                                         *)
LEMMA LivingStep ==
  ASSUME IniIInv, NEW w \in Tweakers, tweaker[w].at # "gone",
         NEW s \in TweakStates, s.at # "gone", s.at = "setting" => s.guards # <<>>,
         tweaker' = [tweaker EXCEPT ![w] = s],
         UNCHANGED <<restVars, isEnabled, tweaksCount, wasEnabled>>,
         value' \in [Params -> IniValues], altered' \in [Params -> Seq(Alterations)],
         FieldsAreSound'
  PROVE  IniIInv'
  <1>1. /\ tweaker' \in [Tweakers -> TweakStates] /\ tweaker'[w] = s
        /\ \A v \in Tweakers : v # w => tweaker'[v] = tweaker[v]
        /\ Living' = Living \union {w}
    BY TweakerMoves
  <1>2. Living' = Living
    BY <1>1 DEF Living
  <1>3. IniIsTyped'
    BY <1>1 DEF IniIInv, IniIsTyped, restVars
  <1>4. TweaksAreSound'
    <2>1. ASSUME NEW v \in Tweakers
          PROVE  /\ tweaker'[v].at = "gone" => tweaker'[v].guards = <<>>
                 /\ tweaker'[v].at = "setting" => tweaker'[v].guards # <<>>
      BY <1>1 DEF IniIInv, TweaksAreSound
    <2> QED
      BY <1>2, <2>1 DEF IniIInv, TweaksAreSound
  <1> QED
    BY <1>3, <1>4, ReloadsStay DEF IniIInv

(* What is known of a Tweaks.                                              *)
LEMMA TweakerFacts ==
  ASSUME IniIInv, NEW w \in Tweakers
  PROVE  /\ tweaker[w] \in TweakStates /\ tweaker[w].guards \in Seq(Guards)
         /\ Len(tweaker[w].guards) \in Nat
         /\ DOMAIN tweaker[w].guards = 1..Len(tweaker[w].guards)
         /\ tweaker[w].at = "gone" => tweaker[w].guards = <<>>
         /\ tweaker[w].at = "setting" => tweaker[w].guards # <<>>
         /\ value \in [Params -> IniValues] /\ altered \in [Params -> Seq(Alterations)]
  <1>1. tweaker[w] \in TweakStates /\ tweaker[w].guards \in Seq(Guards)
        /\ value \in [Params -> IniValues] /\ altered \in [Params -> Seq(Alterations)]
    BY DEF IniIInv, IniIsTyped, TweakStates
  <1>2. /\ tweaker[w].at = "gone" => tweaker[w].guards = <<>>
        /\ tweaker[w].at = "setting" => tweaker[w].guards # <<>>
    BY DEF IniIInv, TweaksAreSound
  <1> QED
    BY <1>1, <1>2, LenProperties

(* One that has no guards has altered nothing.                             *)
LEMMA NoGuardsAreSound ==
  ASSUME NEW w \in Tweakers, NEW p \in Params, GuardsAreSound(w, p),
         tweaker[w].guards = <<>>, tweaker'[w].guards = <<>>, tweaker'[w].at # "setting",
         altered'[p] = altered[p]
  PROVE  GuardsAreSound(w, p)'
  <1>1. DOMAIN tweaker[w].guards = {} /\ DOMAIN tweaker'[w].guards = {}
    OBVIOUS
  <1> QED
    BY <1>1 DEF GuardsAreSound, IsBeingSet, IsFirst

LEMMA BeginTweaksIsSound ==
  ASSUME IniIInv, NEW w \in Tweakers, BeginTweaks(w)
  PROVE  IniIInv'
  <1> DEFINE s == [tweaker[w] EXCEPT !.at = "alive"]
  <1>1. /\ tweaker[w].at = "gone"
        /\ tweaksCount' = tweaksCount + 1 /\ isEnabled' = FALSE
        /\ wasEnabled' = IF tweaksCount = 0 THEN isEnabled ELSE wasEnabled
        /\ tweaker' = [tweaker EXCEPT ![w] = s]
        /\ UNCHANGED <<value, altered, spoiled>> /\ UNCHANGED restVars
    BY DEF BeginTweaks, SaveOnce, fieldHistory
  <1>2. /\ s \in TweakStates /\ s.at = "alive" /\ s.guards = <<>>
        /\ tweaker[w].guards = <<>>
    BY <1>1, TweakerFacts DEF TweakStates
  <1> HIDE DEF s
  <1>3. /\ tweaker' \in [Tweakers -> TweakStates] /\ tweaker'[w] = s
        /\ \A v \in Tweakers : v # w => tweaker'[v] = tweaker[v]
        /\ Living' = Living \union {w}
    BY <1>1, <1>2, TweakerMoves
  <1>4. wasEnabled' = TRUE
    BY <1>1, LivingFacts DEF IniIInv, TweaksAreSound, IniIsTyped
  <1>5. IniIsTyped'
    BY <1>1, <1>3, <1>4 DEF IniIInv, IniIsTyped, restVars
  <1>6. TweaksAreSound'
    <2>1. w \notin Living /\ Living' # {}
      BY <1>1, <1>3 DEF Living
    <2>2. tweaksCount' = Cardinality(Living')
      BY <1>1, <1>3, <2>1, LivingFacts, FS_AddElement DEF IniIInv, TweaksAreSound
    <2>3. ASSUME NEW v \in Tweakers
          PROVE  /\ tweaker'[v].at = "gone" => tweaker'[v].guards = <<>>
                 /\ tweaker'[v].at = "setting" => tweaker'[v].guards # <<>>
      BY <1>2, <1>3 DEF IniIInv, TweaksAreSound
    <2> QED
      BY <1>1, <1>4, <2>1, <2>2, <2>3 DEF TweaksAreSound
  <1>7. FieldsAreSound'
    <2>1. ASSUME NEW p \in Params \ spoiled
          PROVE  FieldIsSound(p)' /\ \A v \in Tweakers : GuardsAreSound(v, p)'
      <3>1. FieldIsSound(p) /\ \A v \in Tweakers : GuardsAreSound(v, p)
        BY DEF IniIInv, FieldsAreSound
      <3>2. iniMap' = iniMap /\ (IsDone(p)' => IsDone(p))
        BY <1>1, ReloadsStay DEF restVars
      <3>3. FieldIsSound(p)'
        BY <1>1, <3>1, <3>2, FieldStays
      <3>4. GuardsAreSound(w, p)'
        BY <1>1, <1>2, <1>3, <3>1, NoGuardsAreSound
      <3>5. ASSUME NEW v \in Tweakers, v # w PROVE GuardsAreSound(v, p)'
        BY <1>1, <1>3, <3>1, <3>5, GuardsStay
      <3> QED
        BY <3>3, <3>4, <3>5
    <2> QED
      BY <1>1, <2>1 DEF FieldsAreSound
  <1> QED
    BY <1>1, <1>5, <1>6, <1>7, ReloadsStay DEF IniIInv

LEMMA EndTweaksIsSound ==
  ASSUME IniIInv, NEW w \in Tweakers, EndTweaks(w)
  PROVE  IniIInv'
  <1>1. /\ tweaker[w].at \in {"alive", "ending"} /\ tweaker[w].guards = <<>>
        /\ tweaksCount' = tweaksCount - 1
        /\ isEnabled' = IF tweaksCount = 1 THEN wasEnabled ELSE isEnabled
        /\ tweaker' = [tweaker EXCEPT ![w] = NotMade]
        /\ UNCHANGED <<value, wasEnabled, altered, spoiled>> /\ UNCHANGED restVars
    BY DEF EndTweaks, fieldHistory
  <1>2. w \in Living /\ Living # {} /\ wasEnabled /\ ~isEnabled
    <2>1. w \in Living
      BY <1>1 DEF Living
    <2> QED
      BY <2>1 DEF IniIInv, TweaksAreSound
  <1>3. NotMade \in TweakStates /\ NotMade.at = "gone" /\ NotMade.guards = <<>>
    <2>1. <<>> \in Seq(Guards)
      BY EmptySeq
    <2> QED
      BY <2>1 DEF NotMade, TweakStates
  <1>4. /\ tweaker' \in [Tweakers -> TweakStates] /\ tweaker'[w] = NotMade
        /\ \A v \in Tweakers : v # w => tweaker'[v] = tweaker[v]
        /\ Living' = Living \ {w}
    BY <1>1, <1>3, TweakerMoves
  <1>5. isEnabled' = (tweaksCount = 1)
    <2>1. wasEnabled = TRUE /\ isEnabled = FALSE
      BY <1>2 DEF IniIInv, IniIsTyped
    <2> QED
      BY <1>1, <2>1
  <1>6. IniIsTyped'
    <2>1. isEnabled' \in BOOLEAN
      BY <1>5
    <2> QED
      BY <1>1, <1>4, <2>1 DEF IniIInv, IniIsTyped, restVars
  <1>7. TweaksAreSound'
    <2>1. tweaksCount' = Cardinality(Living') /\ IsFiniteSet(Living')
      BY <1>1, <1>2, <1>4, LivingFacts, FS_RemoveElement DEF IniIInv, TweaksAreSound
    <2>2. tweaksCount = 1 <=> Living' = {}
      <3>1. tweaksCount \in Nat
        BY LivingFacts DEF IniIInv, TweaksAreSound
      <3>2. Cardinality(Living') = 0 <=> Living' = {}
        BY <2>1, FS_EmptySet
      <3> QED
        BY <1>1, <2>1, <3>1, <3>2
    <2>3. ASSUME NEW v \in Tweakers
          PROVE  /\ tweaker'[v].at = "gone" => tweaker'[v].guards = <<>>
                 /\ tweaker'[v].at = "setting" => tweaker'[v].guards # <<>>
      BY <1>3, <1>4 DEF IniIInv, TweaksAreSound
    <2> QED
      BY <1>1, <1>2, <1>5, <2>1, <2>2, <2>3 DEF TweaksAreSound
  <1>8. FieldsAreSound'
    <2>1. ASSUME NEW p \in Params \ spoiled
          PROVE  FieldIsSound(p)' /\ \A v \in Tweakers : GuardsAreSound(v, p)'
      <3>1. FieldIsSound(p) /\ \A v \in Tweakers : GuardsAreSound(v, p)
        BY DEF IniIInv, FieldsAreSound
      <3>2. iniMap' = iniMap /\ (IsDone(p)' => IsDone(p))
        BY <1>1, ReloadsStay DEF restVars
      <3>3. FieldIsSound(p)'
        BY <1>1, <3>1, <3>2, FieldStays
      <3>4. GuardsAreSound(w, p)'
        BY <1>1, <1>3, <1>4, <3>1, NoGuardsAreSound
      <3>5. ASSUME NEW v \in Tweakers, v # w PROVE GuardsAreSound(v, p)'
        BY <1>1, <1>4, <3>1, <3>5, GuardsStay
      <3> QED
        BY <3>3, <3>4, <3>5
    <2> QED
      BY <1>1, <2>1 DEF FieldsAreSound
  <1> QED
    BY <1>1, <1>6, <1>7, <1>8, ReloadsStay DEF IniIInv

LEMMA SaveFieldIsSound ==
  ASSUME IniIInv, NEW w \in Tweakers, NEW p \in Params, SaveField(w, p)
  PROVE  IniIInv'
  <1> DEFINE g == tweaker[w].guards
             e == [param |-> p, saved |-> value[p]]
             h == Append(g, e)
             s == [at |-> "setting", guards |-> h]
  <1>1. /\ tweaker[w].at = "alive"
        /\ tweaker' = [tweaker EXCEPT ![w] = s]
        /\ UNCHANGED <<value, altered, spoiled, isEnabled, tweaksCount, wasEnabled>>
        /\ UNCHANGED restVars
    BY DEF SaveField, fieldHistory
  <1>2. g \in Seq(Guards) /\ e \in Guards /\ e.param = p /\ e.saved = value[p]
    BY TweakerFacts DEF Guards
  <1> HIDE DEF e
  <1>3. /\ h \in Seq(Guards) /\ h # <<>>
        /\ Len(g) \in Nat /\ Len(h) = Len(g) + 1
        /\ DOMAIN g = 1..Len(g) /\ DOMAIN h = 1..(Len(g) + 1)
        /\ \A i \in 1..Len(g) : h[i] = g[i]
        /\ h[Len(g) + 1] = e
    BY <1>2, AppendFacts
  <1> HIDE DEF g, h
  <1>4. s \in TweakStates /\ s.at = "setting" /\ s.guards = h
    BY <1>3 DEF TweakStates
  <1> HIDE DEF s
  <1>5. /\ tweaker'[w] = s
        /\ \A v \in Tweakers : v # w => tweaker'[v] = tweaker[v]
    BY <1>1, <1>4, TweakerMoves
  <1>6. ASSUME NEW q \in Params, GuardsAreSound(w, q) PROVE GuardsAreSound(w, q)'
    <2>1. ASSUME NEW k \in DOMAIN altered[q], altered[q][k].by = w
          PROVE  \E i : IsFirst(h, q, i) /\ h[i].saved = altered[q][k].found
      <3>1. PICK i : IsFirst(g, q, i) /\ g[i].saved = altered[q][k].found
        BY <1>6, <2>1 DEF GuardsAreSound, g
      <3>2. IsFirst(h, q, i) /\ h[i] = g[i]
        BY <1>3, <3>1 DEF IsFirst
      <3> QED
        BY <3>1, <3>2
    <2>2. ASSUME NEW i \in DOMAIN h, i <= Len(g), h[i].param = q PROVE Has(w, q)
      <3>1. i \in DOMAIN g /\ g[i].param = q
        BY <1>3, <2>2
      <3>2. i <= WrittenCount(w)
        BY <1>1, <1>3, <2>2 DEF WrittenCount, g
      <3> QED
        BY <1>1, <1>6, <3>1, <3>2 DEF GuardsAreSound, g
    <2>3. WrittenCount(w)' = Len(g)
      BY <1>3, <1>4, <1>5 DEF WrittenCount
    <2>4. IsBeingSet(w, q)' => h[Len(h)].saved = value[q]
      BY <1>2, <1>3, <1>4, <1>5 DEF IsBeingSet, Last
    <2>5. /\ tweaker'[w].guards = h /\ altered'[q] = altered[q] /\ value'[q] = value[q]
          /\ Has(w, q)' = Has(w, q)
      BY <1>1, <1>4, <1>5 DEF Has
    <2> QED
      BY <2>1, <2>2, <2>3, <2>4, <2>5 DEF GuardsAreSound
  <1>7. FieldsAreSound'
    <2>1. ASSUME NEW q \in Params \ spoiled
          PROVE  FieldIsSound(q)' /\ \A v \in Tweakers : GuardsAreSound(v, q)'
      <3>1. FieldIsSound(q) /\ \A v \in Tweakers : GuardsAreSound(v, q)
        BY DEF IniIInv, FieldsAreSound
      <3>2. iniMap' = iniMap /\ (IsDone(q)' => IsDone(q))
        BY <1>1, ReloadsStay DEF restVars
      <3>3. FieldIsSound(q)'
        BY <1>1, <3>1, <3>2, FieldStays
      <3>4. ASSUME NEW v \in Tweakers, v # w PROVE GuardsAreSound(v, q)'
        BY <1>1, <1>5, <3>1, <3>4, GuardsStay
      <3> QED
        BY <1>6, <3>1, <3>3, <3>4
    <2> QED
      BY <1>1, <2>1 DEF FieldsAreSound
  <1>8. /\ value' \in [Params -> IniValues] /\ altered' \in [Params -> Seq(Alterations)]
        /\ tweaker[w].at # "gone" /\ s.at # "gone" /\ s.guards # <<>>
    BY <1>1, <1>3, <1>4, TweakerFacts
  <1> QED
    BY <1>1, <1>4, <1>7, <1>8, LivingStep

(* A field that w is not about to write.                                   *)
LEMMA OtherFieldStays ==
  ASSUME IniIInv, NEW w \in Tweakers, NEW q \in Params \ spoiled,
         value'[q] = value[q], altered'[q] = altered[q], UNCHANGED restVars,
         \A v \in Tweakers : v # w => tweaker'[v] = tweaker[v],
         GuardsAreSound(w, q) => GuardsAreSound(w, q)'
  PROVE  FieldIsSound(q)' /\ \A v \in Tweakers : GuardsAreSound(v, q)'
  <1>1. FieldIsSound(q) /\ \A v \in Tweakers : GuardsAreSound(v, q)
    BY DEF IniIInv, FieldsAreSound
  <1>2. iniMap' = iniMap /\ (IsDone(q)' => IsDone(q))
    BY ReloadsStay DEF restVars
  <1>3. FieldIsSound(q)'
    BY <1>1, <1>2, FieldStays
  <1>4. ASSUME NEW v \in Tweakers, v # w PROVE GuardsAreSound(v, q)'
    BY <1>1, <1>4, GuardsStay
  <1> QED
    BY <1>1, <1>3, <1>4

(* Neither are the guards of Tweaks that do not write it.                  *)
LEMMA OtherGuardsStay ==
  ASSUME NEW p \in Params, NEW v \in Tweakers, GuardsAreSound(v, p),
         tweaker'[v] = tweaker[v], ~IsBeingSet(v, p)', Has(v, p) => Has(v, p)',
         \A k \in DOMAIN altered'[p] : altered'[p][k].by = v
           => k \in DOMAIN altered[p] /\ altered'[p][k] = altered[p][k]
  PROVE  GuardsAreSound(v, p)'
  <1>1. ASSUME NEW k \in DOMAIN altered'[p], altered'[p][k].by = v
        PROVE  \E i : IsFirst(tweaker'[v].guards, p, i)
                      /\ tweaker'[v].guards[i].saved = altered'[p][k].found
    BY <1>1 DEF GuardsAreSound
  <1>2. tweaker'[v].at \in {"alive", "setting"} =>
          \A i \in DOMAIN tweaker'[v].guards :
            i <= WrittenCount(v)' /\ tweaker'[v].guards[i].param = p => Has(v, p)'
    BY DEF GuardsAreSound, WrittenCount
  <1> QED
    BY <1>1, <1>2 DEF GuardsAreSound

(* The first time w writes a field: it is the last that has altered it.    *)
LEMMA FieldIsAltered ==
  ASSUME IniIInv, NEW w \in Tweakers, NEW p \in Params, FieldIsSound(p), ~Has(w, p),
         altered'[p] = Append(altered[p], [by |-> w, found |-> value[p]]),
         value'[p] = w, UNCHANGED restVars
  PROVE  /\ FieldIsSound(p)'
         /\ \A v \in Tweakers \ {w} : \A k \in DOMAIN altered'[p] :
              altered'[p][k].by = v => k \in DOMAIN altered[p] /\ altered'[p][k] = altered[p][k]
         /\ \A v \in Tweakers : Has(v, p) => Has(v, p)'
         /\ Has(w, p)'
         /\ \A k \in DOMAIN altered'[p] :
              altered'[p][k].by = w => altered'[p][k].found = value[p]
  <1> DEFINE A == altered[p]
             e == [by |-> w, found |-> value[p]]
             B == Append(A, e)
  <1>1. A \in Seq(Alterations) /\ e \in Alterations /\ e.by = w /\ e.found = value[p]
    BY TweakerFacts DEF Alterations
  <1> HIDE DEF e
  <1>2. /\ B # <<>> /\ Len(A) \in Nat /\ Len(B) = Len(A) + 1
        /\ DOMAIN A = 1..Len(A) /\ DOMAIN B = 1..(Len(A) + 1)
        /\ \A i \in 1..Len(A) : B[i] = A[i]
        /\ B[Len(A) + 1] = e /\ (A = <<>> <=> Len(A) = 0)
    BY <1>1, AppendFacts, EmptySeq
  <1>3. altered'[p] = B
    BY DEF e
  <1>4. /\ \A k \in 1..Len(A) : k > 1 => A[k].found = A[k - 1].by
        /\ \A j, k \in 1..Len(A) : A[j].by = A[k].by => j = k
        /\ A # <<>> => value[p] = A[Len(A)].by
        /\ IsDone(p) => Base(p) = Converted(p, iniMap[p])
        /\ \A k \in 1..Len(A) : A[k].by # w
    BY <1>2 DEF FieldIsSound, Has
  <1>5. Base(p)' = Base(p)
    BY <1>1, <1>2, <1>3 DEF Base
  <1>6. IsDone(p)' => IsDone(p)
    BY ReloadsStay
  <1> HIDE DEF A, B
  <1>7. FieldIsSound(p)'
    <2>1. ASSUME NEW k \in DOMAIN B, k > 1 PROVE B[k].found = B[k - 1].by
      <3>1. CASE k <= Len(A)
        BY <1>2, <1>4, <2>1, <3>1
      <3>2. CASE k = Len(A) + 1
        <4>1. Len(A) \in 1..Len(A) /\ A # <<>>
          BY <1>2, <2>1, <3>2
        <4> QED
          BY <1>1, <1>2, <1>4, <3>2, <4>1
      <3> QED
        BY <1>2, <3>1, <3>2
    <2>2. ASSUME NEW j \in DOMAIN B, NEW k \in DOMAIN B, B[j].by = B[k].by PROVE j = k
      BY <1>1, <1>2, <1>4, <2>2
    <2>3. value'[p] = B[Len(B)].by
      BY <1>1, <1>2
    <2>4. IsDone(p)' => Base(p)' = Converted(p, iniMap[p])'
      BY <1>4, <1>5, <1>6 DEF restVars, Converted
    <2> QED
      BY <1>3, <2>1, <2>2, <2>3, <2>4 DEF FieldIsSound
  <1>8. ASSUME NEW v \in Tweakers \ {w}, NEW k \in DOMAIN B, B[k].by = v
        PROVE  k \in DOMAIN A /\ B[k] = A[k]
    BY <1>1, <1>2, <1>8
  <1>9. ASSUME NEW v \in Tweakers, Has(v, p) PROVE Has(v, p)'
    <2>1. PICK k \in 1..Len(A) : A[k].by = v
      BY <1>2, <1>9 DEF Has, A
    <2>2. k \in DOMAIN B /\ B[k].by = v
      BY <1>2, <2>1
    <2> QED
      BY <1>3, <2>2 DEF Has
  <1>10. Has(w, p)'
    <2>1. Len(A) + 1 \in DOMAIN B
      BY <1>2
    <2> QED
      BY <1>1, <1>2, <1>3, <2>1 DEF Has
  <1>11. ASSUME NEW k \in DOMAIN B, B[k].by = w PROVE B[k].found = value[p]
    BY <1>1, <1>2, <1>4, <1>11
  <1> QED
    BY <1>3, <1>7, <1>8, <1>9, <1>10, <1>11 DEF A

LEMMA SetTweakIsSound ==
  ASSUME IniIInv, NEW w \in Tweakers, SetTweak(w)
  PROVE  IniIInv'
  <1>0. PICK g \in Seq(Guards) : g = tweaker[w].guards
    BY TweakerFacts
  <1> DEFINE s == [tweaker[w] EXCEPT !.at = "alive"]
             p == g[Len(g)].param
  <1>1. /\ tweaker[w].at = "setting"
        /\ value' = [value EXCEPT ![p] = w] /\ Alter(w, p)
        /\ tweaker' = [tweaker EXCEPT ![w] = s]
        /\ UNCHANGED <<isEnabled, tweaksCount, wasEnabled>> /\ UNCHANGED restVars
    BY <1>0 DEF SetTweak, Last
  <1>2. /\ g # <<>> /\ Len(g) \in Nat \ {0} /\ DOMAIN g = 1..Len(g)
        /\ Len(g) \in DOMAIN g /\ g[Len(g)] \in Guards
    BY <1>0, <1>1, TweakerFacts
  <1>3. p \in Params
    BY <1>2 DEF Guards
  <1>4. s \in TweakStates /\ s.at = "alive" /\ s.guards = g
    BY <1>0, TweakerFacts DEF TweakStates
  <1>5. /\ value \in [Params -> IniValues] /\ altered \in [Params -> Seq(Alterations)]
        /\ w \in IniValues /\ value[p] \in IniValues
    BY <1>3, TweakerFacts DEF IniValues
  <1>6. IsBeingSet(w, p) /\ WrittenCount(w) = Len(g) - 1
    BY <1>0, <1>1 DEF IsBeingSet, WrittenCount, Last
  <1> HIDE DEF s, p
  <1>7. /\ tweaker'[w] = s
        /\ \A v \in Tweakers : v # w => tweaker'[v] = tweaker[v]
    BY <1>1, <1>4, TweakerMoves
  <1>8. /\ WrittenCount(w)' = Len(g)
        /\ \A q \in Params : ~IsBeingSet(w, q)'
    BY <1>2, <1>4, <1>7 DEF WrittenCount, IsBeingSet
  <1>9. /\ value'[p] = w /\ value' \in [Params -> IniValues]
        /\ \A q \in Params : q # p => value'[q] = value[q]
    BY <1>1, <1>3, <1>5
  <1>10. /\ altered' \in [Params -> Seq(Alterations)]
         /\ \A q \in Params : q # p => altered'[q] = altered[q]
         /\ \A q \in Params : q # p => (q \in spoiled' <=> q \in spoiled)
    <2>1. CASE UNCHANGED fieldHistory
      BY <1>5, <2>1 DEF fieldHistory
    <2>2. CASE Spoil(p)
      <3>1. <<>> \in Seq(Alterations)
        BY EmptySeq
      <3> QED
        BY <1>5, <2>2, <3>1 DEF Spoil
    <2>3. CASE /\ altered' = [altered EXCEPT
                    ![p] = IF Has(w, p) THEN @ ELSE Append(@, [by |-> w, found |-> value[p]])]
               /\ UNCHANGED spoiled
      <3>1. [by |-> w, found |-> value[p]] \in Alterations
        BY <1>5 DEF Alterations
      <3>2. Append(altered[p], [by |-> w, found |-> value[p]]) \in Seq(Alterations)
        BY <1>3, <1>5, <3>1, AppendFacts
      <3> QED
        BY <1>5, <2>3, <3>2
    <2> QED
      BY <1>1, <2>1, <2>2, <2>3 DEF Alter
  <1>11. ASSUME NEW q \in Params, q \notin spoiled', q # p
         PROVE  FieldIsSound(q)' /\ \A v \in Tweakers : GuardsAreSound(v, q)'
    <2>1. q \notin spoiled
      BY <1>10, <1>11
    <2>2. ASSUME GuardsAreSound(w, q) PROVE GuardsAreSound(w, q)'
      <3>1. ASSUME NEW i \in DOMAIN g, i <= Len(g), g[i].param = q PROVE Has(w, q)
        <4>1. i <= WrittenCount(w)
          BY <1>2, <1>6, <1>11, <3>1 DEF p
        <4> QED
          BY <1>0, <1>1, <2>2, <3>1, <4>1 DEF GuardsAreSound
      <3>2. Has(w, q)' = Has(w, q)
        BY <1>10, <1>11 DEF Has
      <3>3. tweaker'[w].guards = g /\ altered'[q] = altered[q]
        BY <1>4, <1>7, <1>10, <1>11
      <3> QED
        BY <1>0, <1>8, <2>2, <3>1, <3>2, <3>3 DEF GuardsAreSound
    <2> QED
      BY <1>1, <1>7, <1>9, <1>10, <1>11, <2>1, <2>2, OtherFieldStays
  <1>12. ASSUME p \notin spoiled'
         PROVE  FieldIsSound(p)' /\ \A v \in Tweakers : GuardsAreSound(v, p)'
    <2>1. p \notin spoiled /\ InTurn(w, p)
          /\ altered' = [altered EXCEPT
               ![p] = IF Has(w, p) THEN @ ELSE Append(@, [by |-> w, found |-> value[p]])]
      BY <1>1, <1>12 DEF Alter, Spoil, fieldHistory
    <2>2. FieldIsSound(p) /\ \A v \in Tweakers : GuardsAreSound(v, p)
      BY <1>3, <2>1 DEF IniIInv, FieldsAreSound
    <2>3. \A v \in Tweakers \ {w} : ~IsBeingSet(v, p)'
      BY <1>7, <2>1 DEF InTurn, IsBeingSet
    <2>4. tweaker'[w].guards = g
      BY <1>4, <1>7
    <2>5. CASE Has(w, p)
      <3>1. altered'[p] = altered[p] /\ \A v \in Tweakers : Has(v, p)' = Has(v, p)
        BY <1>3, <1>5, <2>1, <2>5 DEF Has
      <3>2. altered[p] # <<>> /\ altered[p][Len(altered[p])].by = w
        BY <2>1, <2>5 DEF InTurn, HasLast, Last
      <3>3. IsDone(p)' => IsDone(p)
        BY <1>1, <1>3, ReloadsStay
      <3>4. FieldIsSound(p)'
        BY <1>1, <1>9, <2>2, <3>1, <3>2, <3>3 DEF FieldIsSound, Base, Converted, restVars
      <3>5. GuardsAreSound(w, p)'
        BY <1>0, <1>3, <1>8, <2>2, <2>4, <2>5, <3>1 DEF GuardsAreSound
      <3>6. ASSUME NEW v \in Tweakers, v # w PROVE GuardsAreSound(v, p)'
        <4>1. tweaker'[v] = tweaker[v] /\ GuardsAreSound(v, p) /\ ~IsBeingSet(v, p)'
          BY <1>7, <2>2, <2>3, <3>6
        <4> QED
          BY <1>3, <3>1, <4>1, OtherGuardsStay
      <3> QED
        BY <3>4, <3>5, <3>6
    <2>6. CASE ~Has(w, p)
      <3>1. altered'[p] = Append(altered[p], [by |-> w, found |-> value[p]])
        BY <1>3, <1>5, <2>1, <2>6
      <3>2. /\ FieldIsSound(p)'
            /\ \A v \in Tweakers \ {w} : \A k \in DOMAIN altered'[p] :
                 altered'[p][k].by = v
                   => k \in DOMAIN altered[p] /\ altered'[p][k] = altered[p][k]
            /\ \A v \in Tweakers : Has(v, p) => Has(v, p)'
            /\ Has(w, p)'
            /\ \A k \in DOMAIN altered'[p] :
                 altered'[p][k].by = w => altered'[p][k].found = value[p]
        BY <1>1, <1>3, <1>9, <2>2, <2>6, <3>1, FieldIsAltered
      <3>3. GuardsAreSound(w, p)'
        <4>1. g[Len(g)].saved = value[p]
          BY <1>0, <1>6, <2>2 DEF GuardsAreSound
        <4>2. ASSUME NEW j \in DOMAIN g, j < Len(g) PROVE g[j].param # p
          <5>1. j <= WrittenCount(w)
            BY <1>2, <1>6, <4>2
          <5> QED
            BY <1>0, <1>1, <2>2, <2>6, <5>1 DEF GuardsAreSound
        <4>3. IsFirst(g, p, Len(g))
          BY <1>2, <4>2 DEF IsFirst, p
        <4> QED
          BY <1>3, <1>8, <2>4, <3>2, <4>1, <4>3 DEF GuardsAreSound
      <3>4. ASSUME NEW v \in Tweakers, v # w PROVE GuardsAreSound(v, p)'
        <4>1. tweaker'[v] = tweaker[v] /\ v \in Tweakers \ {w}
          BY <1>7, <3>4
        <4>2. GuardsAreSound(v, p) /\ ~IsBeingSet(v, p)'
          BY <2>2, <2>3, <4>1
        <4> QED
          BY <1>3, <3>2, <4>1, <4>2, OtherGuardsStay
      <3> QED
        BY <3>2, <3>3, <3>4
    <2> QED
      BY <2>5, <2>6
  <1>13. FieldsAreSound'
    BY <1>11, <1>12 DEF FieldsAreSound
  <1>14. tweaker[w].at # "gone" /\ s.at # "gone" /\ s.at # "setting"
    BY <1>1, <1>4
  <1> QED
    BY <1>1, <1>4, <1>9, <1>10, <1>13, <1>14, LivingStep

(* The guard that runs puts back what w found, when w is the last that has *)
(* altered the field.                                                      *)
LEMMA FieldIsPutBack ==
  ASSUME IniIInv, NEW w \in Tweakers, NEW p \in Params, FieldIsSound(p),
         altered[p] # <<>>, altered[p][Len(altered[p])].by = w,
         altered'[p] = Front(altered[p]),
         value'[p] = altered[p][Len(altered[p])].found, UNCHANGED restVars
  PROVE  /\ FieldIsSound(p)'
         /\ \A v \in Tweakers \ {w} : \A k \in DOMAIN altered'[p] :
              altered'[p][k].by = v => k \in DOMAIN altered[p] /\ altered'[p][k] = altered[p][k]
         /\ \A v \in Tweakers \ {w} : Has(v, p) => Has(v, p)'
         /\ \A k \in DOMAIN altered'[p] : altered'[p][k].by # w
  <1> DEFINE A == altered[p]
             B == Front(A)
  <1>1. A \in Seq(Alterations)
    BY TweakerFacts
  <1>2. /\ Len(A) \in Nat \ {0} /\ Len(B) = Len(A) - 1
        /\ DOMAIN A = 1..Len(A) /\ DOMAIN B = 1..(Len(A) - 1)
        /\ \A i \in 1..(Len(A) - 1) : B[i] = A[i]
        /\ (B = <<>> <=> Len(A) = 1)
    BY <1>1, FrontFacts
  <1>3. altered'[p] = B
    OBVIOUS
  <1>4. /\ \A k \in 1..Len(A) : k > 1 => A[k].found = A[k - 1].by
        /\ \A j, k \in 1..Len(A) : A[j].by = A[k].by => j = k
        /\ IsDone(p) => A[1].found = Converted(p, iniMap[p])
    BY <1>2 DEF FieldIsSound, Base
  <1>5. A[Len(A)].by = w /\ value'[p] = A[Len(A)].found
    OBVIOUS
  <1>6. IsDone(p)' => IsDone(p)
    BY ReloadsStay
  <1> HIDE DEF A, B
  <1>7. Base(p)' = A[1].found
    BY <1>2, <1>3, <1>5 DEF Base
  <1>8. FieldIsSound(p)'
    <2>1. \A k \in DOMAIN B : k > 1 => B[k].found = B[k - 1].by
      BY <1>2, <1>4
    <2>2. \A j, k \in DOMAIN B : B[j].by = B[k].by => j = k
      BY <1>2, <1>4
    <2>3. B # <<>> => value'[p] = B[Len(B)].by
      <3> SUFFICES ASSUME Len(A) # 1 PROVE A[Len(A)].found = B[Len(B)].by
        BY <1>2, <1>5
      <3>1. Len(A) \in 1..Len(A) /\ Len(A) > 1 /\ Len(A) - 1 \in 1..(Len(A) - 1)
        BY <1>2
      <3> QED
        BY <1>2, <1>4, <3>1
    <2>4. IsDone(p)' => Base(p)' = Converted(p, iniMap[p])'
      BY <1>4, <1>6, <1>7 DEF restVars, Converted
    <2> QED
      BY <1>3, <2>1, <2>2, <2>3, <2>4 DEF FieldIsSound
  <1>9. ASSUME NEW k \in DOMAIN B PROVE k \in DOMAIN A /\ B[k] = A[k] /\ k # Len(A)
    BY <1>2
  <1>10. ASSUME NEW v \in Tweakers \ {w}, Has(v, p) PROVE Has(v, p)'
    <2>1. PICK k \in 1..Len(A) : A[k].by = v
      BY <1>2, <1>10 DEF Has, A
    <2>2. k # Len(A)
      BY <1>5, <2>1
    <2>3. k \in DOMAIN B /\ B[k].by = v
      BY <1>2, <2>1, <2>2
    <2> QED
      BY <1>3, <2>3 DEF Has
  <1>11. ASSUME NEW k \in DOMAIN B PROVE B[k].by # w
    <2>1. k \in 1..Len(A) /\ B[k] = A[k] /\ k # Len(A) /\ Len(A) \in 1..Len(A)
      BY <1>2, <1>9
    <2> QED
      BY <1>4, <1>5, <2>1
  <1> QED
    BY <1>3, <1>8, <1>9, <1>10, <1>11 DEF A

LEMMA RunGuardIsSound ==
  ASSUME IniIInv, NEW w \in Tweakers, RunGuard(w)
  PROVE  IniIInv'
  <1>0. PICK g \in Seq(Guards) : g = tweaker[w].guards
    BY TweakerFacts
  <1> DEFINE s == [at |-> "ending", guards |-> Tail(g)]
             p == g[1].param
  <1>1. /\ tweaker[w].at \in {"alive", "ending"} /\ g # <<>>
        /\ value' = [value EXCEPT ![p] = g[1].saved] /\ PutBack(w, p)
        /\ tweaker' = [tweaker EXCEPT ![w] = s]
        /\ UNCHANGED <<isEnabled, tweaksCount, wasEnabled>> /\ UNCHANGED restVars
    BY <1>0, TailFacts DEF RunGuard
  <1>2. /\ Tail(g) \in Seq(Guards) /\ Len(g) \in Nat \ {0}
        /\ DOMAIN g = 1..Len(g) /\ DOMAIN Tail(g) = 1..(Len(g) - 1)
        /\ \A i \in 1..(Len(g) - 1) : Tail(g)[i] = g[i + 1]
    BY <1>1, TailFacts
  <1>3. p \in Params /\ g[1].saved \in IniValues
    <2>1. g[1] \in Guards
      BY <1>2
    <2> QED
      BY <2>1 DEF Guards
  <1>4. s \in TweakStates /\ s.at = "ending" /\ s.guards = Tail(g)
    BY <1>2 DEF TweakStates
  <1>5. value \in [Params -> IniValues] /\ altered \in [Params -> Seq(Alterations)]
    BY TweakerFacts
  <1> HIDE DEF s, p
  <1>6. /\ tweaker'[w] = s
        /\ \A v \in Tweakers : v # w => tweaker'[v] = tweaker[v]
    BY <1>1, <1>4, TweakerMoves
  <1>7. /\ value'[p] = g[1].saved /\ value' \in [Params -> IniValues]
        /\ \A q \in Params : q # p => value'[q] = value[q]
    BY <1>1, <1>3, <1>5
  <1>8. /\ altered' \in [Params -> Seq(Alterations)]
        /\ \A q \in Params : q # p => altered'[q] = altered[q]
        /\ \A q \in Params : q # p => (q \in spoiled' <=> q \in spoiled)
    <2>1. CASE UNCHANGED fieldHistory
      BY <1>5, <2>1 DEF fieldHistory
    <2>2. CASE Spoil(p)
      <3>1. <<>> \in Seq(Alterations)
        BY EmptySeq
      <3> QED
        BY <1>5, <2>2, <3>1 DEF Spoil
    <2>3. CASE HasLast(w, p) /\ altered' = [altered EXCEPT ![p] = Front(@)]
               /\ UNCHANGED spoiled
      <3>1. Front(altered[p]) \in Seq(Alterations)
        BY <1>3, <1>5, <2>3, FrontFacts DEF HasLast
      <3> QED
        BY <1>5, <2>3, <3>1
    <2> QED
      BY <1>1, <2>1, <2>2, <2>3 DEF PutBack, InTurn
  <1>9. ASSUME NEW q \in Params, q \notin spoiled', q # p
        PROVE  FieldIsSound(q)' /\ \A v \in Tweakers : GuardsAreSound(v, q)'
    <2>1. q \notin spoiled
      BY <1>8, <1>9
    <2>2. ASSUME GuardsAreSound(w, q) PROVE GuardsAreSound(w, q)'
      <3>1. ASSUME NEW k \in DOMAIN altered[q], altered[q][k].by = w
            PROVE  \E i : IsFirst(Tail(g), q, i) /\ Tail(g)[i].saved = altered[q][k].found
        <4>1. PICK i : IsFirst(g, q, i) /\ g[i].saved = altered[q][k].found
          BY <1>0, <2>2, <3>1 DEF GuardsAreSound
        <4>2. i \in 1..Len(g) /\ i # 1
          BY <1>2, <1>9, <4>1 DEF IsFirst, p
        <4>3. i - 1 \in 1..(Len(g) - 1) /\ Tail(g)[i - 1] = g[i]
          BY <1>2, <4>2
        <4>4. ASSUME NEW j \in DOMAIN Tail(g), j < i - 1 PROVE Tail(g)[j].param # q
          <5>1. j + 1 \in DOMAIN g /\ j + 1 < i /\ Tail(g)[j] = g[j + 1]
            BY <1>2, <4>2, <4>4
          <5> QED
            BY <4>1, <5>1 DEF IsFirst
        <4>5. IsFirst(Tail(g), q, i - 1)
          BY <1>2, <4>1, <4>3, <4>4 DEF IsFirst
        <4> QED
          BY <4>1, <4>3, <4>5
      <3>2. tweaker'[w].guards = Tail(g) /\ tweaker'[w].at = "ending" /\ altered'[q] = altered[q]
        BY <1>4, <1>6, <1>8, <1>9
      <3> QED
        BY <3>1, <3>2 DEF GuardsAreSound, IsBeingSet
    <2> QED
      BY <1>1, <1>6, <1>7, <1>8, <1>9, <2>1, <2>2, OtherFieldStays
  <1>10. ASSUME p \notin spoiled'
         PROVE  FieldIsSound(p)' /\ \A v \in Tweakers : GuardsAreSound(v, p)'
    <2>1. /\ p \notin spoiled /\ InTurn(w, p) /\ Has(w, p)
          /\ altered' = [altered EXCEPT ![p] = Front(@)]
      BY <1>1, <1>10 DEF PutBack, Spoil, fieldHistory
    <2>2. FieldIsSound(p) /\ \A v \in Tweakers : GuardsAreSound(v, p)
      BY <1>3, <2>1 DEF IniIInv, FieldsAreSound
    <2>3. altered[p] # <<>> /\ altered[p][Len(altered[p])].by = w
      BY <2>1 DEF InTurn, HasLast, Last
    <2>4. altered'[p] = Front(altered[p])
      BY <1>3, <1>5, <2>1
    <2>5. value'[p] = altered[p][Len(altered[p])].found
      <3>1. Len(altered[p]) \in DOMAIN altered[p]
        BY <1>3, <1>5, <2>3, FrontFacts
      <3>2. PICK i : IsFirst(g, p, i) /\ g[i].saved = altered[p][Len(altered[p])].found
        BY <1>0, <2>2, <2>3, <3>1 DEF GuardsAreSound
      <3>3. i = 1
        BY <1>2, <3>2 DEF IsFirst, p
      <3> QED
        BY <1>7, <3>2, <3>3
    <2>6. /\ FieldIsSound(p)'
          /\ \A v \in Tweakers \ {w} : \A k \in DOMAIN altered'[p] :
               altered'[p][k].by = v
                 => k \in DOMAIN altered[p] /\ altered'[p][k] = altered[p][k]
          /\ \A v \in Tweakers \ {w} : Has(v, p) => Has(v, p)'
          /\ \A k \in DOMAIN altered'[p] : altered'[p][k].by # w
      BY <1>1, <1>3, <2>2, <2>3, <2>4, <2>5, FieldIsPutBack
    <2>7. GuardsAreSound(w, p)'
      <3>1. tweaker'[w].at = "ending"
        BY <1>4, <1>6
      <3> QED
        BY <2>6, <3>1 DEF GuardsAreSound, IsBeingSet
    <2>8. ASSUME NEW v \in Tweakers, v # w PROVE GuardsAreSound(v, p)'
      <3>1. tweaker'[v] = tweaker[v] /\ v \in Tweakers \ {w} /\ GuardsAreSound(v, p)
        BY <1>6, <2>2, <2>8
      <3>2. ~IsBeingSet(v, p)'
        BY <2>1, <3>1 DEF InTurn, IsBeingSet
      <3> QED
        BY <1>3, <2>6, <3>1, <3>2, OtherGuardsStay
    <2> QED
      BY <2>6, <2>7, <2>8
  <1>11. FieldsAreSound'
    BY <1>9, <1>10 DEF FieldsAreSound
  <1>12. tweaker[w].at # "gone" /\ s.at # "gone" /\ s.at # "setting"
    BY <1>1, <1>4
  <1> QED
    BY <1>1, <1>4, <1>7, <1>8, <1>11, <1>12, LivingStep

----------------------------------------------------------------------------
LEMMA IniBegins == IniInit => IniIInv
  <1> SUFFICES ASSUME IniInit PROVE IniIInv
    OBVIOUS
  <1>1. AtRest \in ReloadStates /\ AtRest.at = "rest" /\ ~AtRest.exists
    BY DEF AtRest, ReloadStates
  <1>2. NotMade \in TweakStates /\ NotMade.at = "gone" /\ NotMade.guards = <<>>
    <2>1. <<>> \in Seq(Guards)
      BY EmptySeq
    <2> QED
      BY <2>1 DEF NotMade, TweakStates
  <1>3. reloader = [r \in Reloaders |-> AtRest] /\ reloading = NoReloader
    BY DEF IniInit
  <1>4. tweaker = [w \in Tweakers |-> NotMade]
    BY DEF IniInit
  <1>5. \A w \in Tweakers : tweaker[w].at = "gone" /\ tweaker[w].guards = <<>>
    BY <1>2, <1>4
  <1>6. IniIsTyped
    <2>1. /\ file \in [state : {"absent", "empty", "written"}, text : IniTexts \union {BlankText}]
          /\ file.state # "written" => file.text = BlankText
      BY DEF IniInit
    <2>2. tweaker \in [Tweakers -> TweakStates]
      BY <1>2, <1>4
    <2>3. value \in [Params -> IniValues]
      BY DEF IniInit, IniValues
    <2>4. reloader \in [Reloaders -> ReloadStates]
      BY <1>1, <1>3
    <2>5. /\ isEnabled \in BOOLEAN /\ wasEnabled \in BOOLEAN /\ isFresh \in BOOLEAN
          /\ everExisted \in BOOLEAN
      BY DEF IniInit
    <2>6. iniMap \in IniTexts \union {BlankText} /\ reloading \in Reloaders \union {NoReloader}
      BY DEF IniInit
    <2>7. altered \in [Params -> Seq(Alterations)]
      <3>1. <<>> \in Seq(Alterations)
        BY EmptySeq
      <3> QED
        BY <3>1 DEF IniInit
    <2> QED
      BY <2>1, <2>2, <2>3, <2>4, <2>5, <2>6, <2>7 DEF IniIsTyped
  <1>7. ASSUME NEW r \in Reloaders PROVE ReloadIsSound(r)
    BY <1>1, <1>3, IniAssumption DEF ReloadIsSound, Reading
  <1>8. NothingIsRead
    BY <1>1, <1>3 DEF IniInit, NothingIsRead
  <1>9. MapIsRead
    BY DEF IniInit, MapIsRead
  <1>10. TweaksAreSound
    <2>1. Living = {}
      BY <1>5 DEF Living
    <2> QED
      BY <1>5, <2>1, FS_EmptySet DEF IniInit, TweaksAreSound
  <1>11. FieldsAreSound
    <2>1. ASSUME NEW p \in Params
          PROVE  FieldIsSound(p) /\ \A w \in Tweakers : GuardsAreSound(w, p)
      <3>1. value[p] = DefaultValue /\ iniMap[p] = NoLine /\ altered[p] = <<>>
        BY DEF IniInit, BlankText
      <3>2. FieldIsSound(p)
        BY <3>1 DEF FieldIsSound, Base, Converted
      <3>3. ASSUME NEW w \in Tweakers PROVE GuardsAreSound(w, p)
        BY <1>5, <3>1 DEF GuardsAreSound, IsBeingSet
      <3> QED
        BY <3>2, <3>3
    <2> QED
      BY <2>1 DEF FieldsAreSound
  <1> QED
    BY <1>6, <1>7, <1>8, <1>9, <1>10, <1>11 DEF IniIInv

LEMMA IniIsKept == IniIInv /\ [IniNext]_iniVars => IniIInv'
  <1> SUFFICES ASSUME IniIInv, [IniNext]_iniVars PROVE IniIInv'
    OBVIOUS
  <1>1. CASE UNCHANGED iniVars
    <2>1. UNCHANGED restVars /\ UNCHANGED <<isEnabled, tweaker, tweaksCount, wasEnabled>>
          /\ UNCHANGED <<value, altered, spoiled, tweaker, iniMap>>
      BY <1>1 DEF iniVars, restVars
    <2>2. IniIsTyped'
      BY <1>1 DEF iniVars, IniIInv, IniIsTyped
    <2> QED
      BY <2>1, <2>2, ReloadsStay, TweaksStay, FieldsStay DEF IniIInv
  <1>2. ASSUME NEW r \in Reloaders,
               \/ BeginReload(r) \/ LockReload(r) \/ ParseFile(r) \/ CreateDefaultIniFile(r)
               \/ ResetField(r) \/ ConvertField(r) \/ FinishReload(r)
        PROVE  IniIInv'
    BY <1>2, BeginReloadIsSound, LockIsSound, ParseIsSound, CreateIsSound, ResetIsSound,
       ConvertIsSound, FinishReloadIsSound
  <1>3. ASSUME NEW w \in Tweakers,
               \/ BeginTweaks(w) \/ (\E p \in TweakedParams : SaveField(w, p)) \/ SetTweak(w)
               \/ RunGuard(w) \/ EndTweaks(w)
        PROVE  IniIInv'
    <2>1. TweakedParams \subseteq Params
      BY IniAssumption
    <2> QED
      BY <1>3, <2>1, BeginTweaksIsSound, SaveFieldIsSound, SetTweakIsSound, RunGuardIsSound,
         EndTweaksIsSound
  <1>4. CASE EditNext
    BY <1>4, EditIsSound DEF EditNext
  <1> QED
    BY <1>1, <1>2, <1>3, <1>4 DEF IniNext, ReloadNext, TweaksNext

(* Any number of threads may reload, also while Tweaks begin, write fields *)
(* and end: no reload begins while there are Tweaks, and one may when the  *)
(* last of them is gone and has put back everything; the map is what the   *)
(* file says; and the fields are what the Tweaks that wrote them last have *)
(* set, or what the map says.  Of the fields, those are excepted that a    *)
(* reload, begun before the Tweaks, or Tweaks that end out of turn, have   *)
(* spoiled: of them the documentation is not true.                         *)
THEOREM ReloadsAndTweaksAreSound == IniSpec => []ReloadsAndTweaksAgree
  <1>1. IniIInv => ReloadsAndTweaksAgree
    <2> SUFFICES ASSUME IniIInv PROVE ReloadsAndTweaksAgree
      OBVIOUS
    <2>1. isEnabled <=> \A w \in Tweakers : tweaker[w] = NotMade
      <3>1. ASSUME NEW w \in Tweakers, tweaker[w].at = "gone" PROVE tweaker[w] = NotMade
        BY <3>1, TweakerFacts DEF TweakStates, NotMade
      <3>2. isEnabled <=> \A w \in Tweakers : tweaker[w].at = "gone"
        BY DEF IniIInv, TweaksAreSound, Living
      <3> QED
        BY <3>1, <3>2 DEF NotMade
    <2>2. MapIsRead
      BY DEF IniIInv
    <2>3. FieldsAreKept
      <3> SUFFICES ASSUME NEW p \in Params \ spoiled
                   PROVE  /\ altered[p] # <<>> => value[p] = Last(altered[p]).by
                          /\ altered[p] = <<>> /\ reloading = NoReloader
                               => value[p] = Converted(p, iniMap[p])
        BY DEF FieldsAreKept
      <3>1. FieldIsSound(p)
        BY DEF IniIInv, FieldsAreSound
      <3> QED
        BY <3>1 DEF FieldIsSound, IsDone, Base, Last
    <2> QED
      BY <2>1, <2>2, <2>3 DEF ReloadsAndTweaksAgree
  <1> QED
    BY <1>1, IniBegins, IniIsKept, PTL DEF IniSpec

----------------------------------------------------------------------------
(* Test programs.                                                          *)

DirsAreApart == IsInjective(tempDirs) /\ Range(tempDirs) \subseteq disk

TestIInv ==
  /\ phase \in {"static", "tests", "ended"} /\ isInTest \in BOOLEAN
  /\ test \in 1..TestCount + 1 /\ (isInTest => test <= TestCount)
  /\ failedTests \subseteq 1..TestCount /\ passed \subseteq 1..TestCount
  /\ 1..test - 1 \subseteq passed \union failedTests
  /\ phase = "ended" /\ status = 0 /\ ~IsHelp => passed = 1..TestCount
  /\ DirsAreApart

LEMMA SmallRemainder ==
  ASSUME NEW a \in Nat, NEW n \in Nat, a < n
  PROVE  a % n = a
  OBVIOUS

LEMMA FatalIsNoSuccess == Fatal % StatusRange # 0
  <1>1. 64 \in Nat /\ StatusRange \in Nat /\ 64 < StatusRange
    BY TestAssumption
  <1>2. 64 % StatusRange = 64
    BY <1>1, SmallRemainder
  <1> QED
    BY <1>1, <1>2, SmallRemainder DEF Fatal

(* A directory is given to a test only if it was not there.                *)
LEMMA DirsStayApart ==
  ASSUME DirsAreApart, NEW number, ObtainTempDir(number)
  PROVE  /\ DirsAreApart'
         /\ UNCHANGED <<run, args, test, isInTest, failedTests, passed>>
         /\ UNCHANGED <<phase, status>> \/ (phase' = "ended" /\ status' # 0)
  <1>1. CASE FatalError
    BY <1>1, FatalIsNoSuccess DEF FatalError, Exit, DirsAreApart
  <1>2. CASE ~FatalError
    <2>1. PICK dirs, dir :
            /\ disk \subseteq dirs
            /\ IF MayCreate(dirs, dir)
               THEN /\ disk' = dirs \union {dir}
                    /\ tempDirs' = [k \in DOMAIN tempDirs \union {<<run, number>>} |->
                         IF k = <<run, number>> THEN dir ELSE tempDirs[k]]
                    /\ UNCHANGED <<run, args, phase, test, isInTest, failedTests, passed, status>>
               ELSE Exit(Fatal) /\ disk' = dirs /\ UNCHANGED tempDirs
      BY <1>2 DEF ObtainTempDir
    <2>2. CASE MayCreate(dirs, dir)
      <3>1. dir \notin disk
        BY <2>1, <2>2 DEF MayCreate
      <3>2. <<run, number>> \notin DOMAIN tempDirs
        BY DEF ObtainTempDir
      <3>3. /\ DOMAIN tempDirs' = DOMAIN tempDirs \union {<<run, number>>}
            /\ tempDirs'[<<run, number>>] = dir
            /\ \A k \in DOMAIN tempDirs : tempDirs'[k] = tempDirs[k]
        BY <2>1, <2>2, <3>2
      <3>4. \A k \in DOMAIN tempDirs : tempDirs[k] \in disk /\ tempDirs[k] # dir
        BY <3>1 DEF DirsAreApart, Range
      <3>5. IsInjective(tempDirs')
        BY <3>3, <3>4 DEF DirsAreApart, IsInjective
      <3>6. Range(tempDirs') \subseteq disk'
        BY <2>1, <2>2, <3>3, <3>4 DEF Range
      <3> QED
        BY <2>1, <2>2, <3>5, <3>6 DEF DirsAreApart
    <2>3. CASE ~MayCreate(dirs, dir)
      BY <2>1, <2>3, FatalIsNoSuccess DEF Exit, DirsAreApart
    <2> QED
      BY <2>2, <2>3
  <1> QED
    BY <1>1, <1>2

LEMMA TestIsKept == TestIInv /\ [TestNext]_testVars => TestIInv'
  <1> SUFFICES ASSUME TestIInv, [TestNext]_testVars PROVE TestIInv'
    OBVIOUS
  <1>0. TestCount \in Nat /\ test \in Nat
    BY TestAssumption DEF TestIInv
  <1>1. ASSUME UNCHANGED <<test, isInTest, failedTests, passed, args>>,
               DirsAreApart',
               \/ phase' \in {"static", "tests"}
               \/ UNCHANGED <<phase, status>>
               \/ phase' = "ended" /\ (status' # 0 \/ IsHelp)
        PROVE  TestIInv'
    BY <1>1 DEF TestIInv, IsHelp
  <1>2. CASE StaticTempDir \/ TempDir
    <2>1. PICK number : ObtainTempDir(number)
      BY <1>2 DEF StaticTempDir, TempDir
    <2> QED
      BY <1>1, <2>1, DirsStayApart DEF TestIInv
  <1>3. CASE WrongTempDir
    BY <1>1, <1>3, FatalIsNoSuccess
       DEF WrongTempDir, FatalError, Exit, TestIInv, DirsAreApart
  <1>4. CASE RunAllTests
    <2>1. CASE IsHelp
      BY <1>1, <1>4, <2>1 DEF RunAllTests, Exit, TestIInv, DirsAreApart
    <2>2. CASE ~IsHelp /\ ~ParsedCmdLineArgs.isValid
      BY <1>1, <1>4, <2>2, FatalIsNoSuccess
         DEF RunAllTests, FatalError, Exit, TestIInv, DirsAreApart
    <2>3. CASE ~IsHelp /\ ParsedCmdLineArgs.isValid
      BY <1>1, <1>4, <2>3 DEF RunAllTests, TestIInv, DirsAreApart
    <2> QED
      BY <2>1, <2>2, <2>3
  <1>5. CASE BeginTest
    BY <1>0, <1>5 DEF BeginTest, TestIInv, DirsAreApart, IsHelp
  <1>6. CASE PassTest
    <2>1. /\ isInTest /\ phase = "tests" /\ isInTest' = FALSE /\ test' = test + 1
          /\ passed' = passed \union {test}
          /\ UNCHANGED <<args, phase, failedTests, tempDirs, disk, status>>
      BY <1>6 DEF PassTest
    <2>2. 1..test' - 1 \subseteq passed' \union failedTests'
      BY <1>0, <2>1 DEF TestIInv
    <2>3. /\ test \in 1..TestCount /\ test' \in 1..TestCount + 1
      BY <1>0, <2>1 DEF TestIInv
    <2> QED
      BY <2>1, <2>2, <2>3 DEF TestIInv, DirsAreApart, IsHelp
  <1>7. CASE FailTest
    <2>1. /\ isInTest /\ phase = "tests" /\ isInTest' = FALSE
          /\ UNCHANGED <<args, passed, tempDirs, disk>>
      BY <1>7 DEF FailTest
    <2>2. CASE ParsedCmdLineArgs.stop
      <3>1. phase' = "ended" /\ status' = 1 /\ UNCHANGED <<test, failedTests>>
        BY <1>7, <2>2 DEF FailTest
      <3>2. DirsAreApart'
        BY <2>1 DEF TestIInv, DirsAreApart
      <3>3. 1..test' - 1 \subseteq passed' \union failedTests'
        BY <2>1, <3>1 DEF TestIInv
      <3>4. /\ test' \in 1..TestCount + 1 /\ (isInTest' => test' <= TestCount)
            /\ failedTests' \subseteq 1..TestCount /\ passed' \subseteq 1..TestCount
        BY <2>1, <3>1 DEF TestIInv
      <3>5. ~(phase' = "ended" /\ status' = 0 /\ ~IsHelp')
        BY <3>1
      <3> QED
        BY <2>1, <3>1, <3>2, <3>3, <3>4, <3>5 DEF TestIInv
    <2>3. CASE ~ParsedCmdLineArgs.stop
      <3>1. /\ failedTests' = failedTests \union {test} /\ test' = test + 1
            /\ UNCHANGED <<phase, status>>
        BY <1>7, <2>3 DEF FailTest
      <3>2. 1..test' - 1 \subseteq passed' \union failedTests'
        BY <1>0, <2>1, <3>1 DEF TestIInv
      <3>3. /\ test \in 1..TestCount /\ test' \in 1..TestCount + 1
        BY <1>0, <2>1, <3>1 DEF TestIInv
      <3> QED
        BY <2>1, <3>1, <3>2, <3>3 DEF TestIInv, DirsAreApart, IsHelp
    <2> QED
      BY <2>2, <2>3
  <1>8. CASE EndTests
    <2>1. /\ phase = "tests" /\ test > TestCount /\ phase' = "ended"
          /\ status' = Cardinality(failedTests) % StatusRange
          /\ UNCHANGED <<args, test, isInTest, failedTests, passed, tempDirs, disk>>
      BY <1>8 DEF EndTests, Exit
    <2>2. IsFiniteSet(failedTests) /\ Cardinality(failedTests) \in 0..TestCount
      <3>1. IsFiniteSet(1..TestCount) /\ Cardinality(1..TestCount) = TestCount
        BY <1>0, FS_Interval
      <3>2. failedTests \in SUBSET (1..TestCount)
        BY DEF TestIInv
      <3>3. IsFiniteSet(failedTests) /\ Cardinality(failedTests) <= Cardinality(1..TestCount)
        BY <3>1, <3>2, FS_Subset
      <3> QED
        BY <1>0, <3>1, <3>3, FS_CardinalityType
    <2>3. status' = Cardinality(failedTests)
      <3>1. Cardinality(failedTests) \in Nat /\ StatusRange \in Nat
            /\ Cardinality(failedTests) < StatusRange
        BY <1>0, <2>2, TestAssumption
      <3> QED
        BY <2>1, <3>1, SmallRemainder
    <2>4. status' = 0 => passed = 1..TestCount
      <3>1. status' = 0 => failedTests = {}
        BY <2>2, <2>3, FS_EmptySet
      <3>2. 1..TestCount \subseteq 1..test - 1
        BY <1>0, <2>1
      <3> QED
        BY <3>1, <3>2 DEF TestIInv
    <2> QED
      BY <2>1, <2>4 DEF TestIInv, DirsAreApart, IsHelp
  <1>9. CASE NextProgram
    <2>1. /\ phase' = "static" /\ test' = 1 /\ isInTest' = FALSE
          /\ failedTests' = {} /\ passed' = {} /\ UNCHANGED <<tempDirs, disk>>
      BY <1>9 DEF NextProgram
    <2>2. 1..test' - 1 = {} /\ test' \in 1..TestCount + 1
      BY <1>0, <2>1
    <2> QED
      BY <2>1, <2>2 DEF TestIInv, DirsAreApart
  <1>10. CASE UNCHANGED testVars
    BY <1>1, <1>10 DEF testVars, TestIInv, DirsAreApart
  <1> QED
    BY <1>2, <1>3, <1>4, <1>5, <1>6, <1>7, <1>8, <1>9, <1>10 DEF TestNext

(* Success means that every test has passed, and no two tests of any       *)
(* programs share a directory: for any number of tests and programs.       *)
THEOREM SuccessIsTrue == TestSpec => []RunIsSound
  <1>1. TestInit => TestIInv
    <2> SUFFICES ASSUME TestInit PROVE TestIInv
      OBVIOUS
    <2>1. DOMAIN tempDirs = {}
      <3>1. tempDirs \in Seq({}) /\ Len(tempDirs) = 0
        BY EmptySeq, Zenon DEF TestInit
      <3>2. DOMAIN tempDirs = 1..0
        BY <3>1, LenProperties
      <3> QED
        BY <3>2
    <2>2. DirsAreApart
      BY <2>1 DEF DirsAreApart, IsInjective, Range
    <2>3. 1..test - 1 = {} /\ test \in 1..TestCount + 1
      <3>1. test = 1 /\ TestCount \in Nat
        BY TestAssumption DEF TestInit
      <3> QED
        BY <3>1
    <2> QED
      BY <2>2, <2>3 DEF TestInit, TestIInv
  <1>2. TestIInv => RunIsSound
    BY DEF TestIInv, DirsAreApart, RunIsSound
  <1> QED
    BY <1>1, <1>2, TestIsKept, PTL DEF TestSpec

----------------------------------------------------------------------------
(* Media stream statistics: sums of sizes.                                 *)

Frames == [timestamp : Nat, size : Nat \ {0}]

Sums(s, g) == g[0] = 0 /\ \A i \in 1..Len(s) : g[i] = g[i - 1] + s[i].size

LEMMA FramesOf ==
  ASSUME NEW s \in Seq(Frames)
  PROVE  /\ Len(s) \in Nat /\ DOMAIN s = 1..Len(s)
         /\ \A i \in 1..Len(s) :
              s[i] \in Frames /\ s[i].timestamp \in Nat /\ s[i].size \in Nat \ {0}
  <1>1. Len(s) \in Nat /\ DOMAIN s = 1..Len(s) /\ \A i \in 1..Len(s) : s[i] \in Frames
    BY LenProperties, ElementOfSeq
  <1> QED
    BY <1>1 DEF Frames

(* The recursive function that SizeOf is defined with.                     *)
LEMMA SizeIsSum ==
  ASSUME NEW s \in Seq(Frames)
  PROVE  \E g \in [0..Len(s) -> Nat] : Sums(s, g) /\ SizeOf(s) = g[Len(s)]
  <1> DEFINE n == Len(s)
             Next1(sum, i) == sum + s[i].size
             Steps(g) == g = [i \in 0..n |-> IF i = 0 THEN 0 ELSE g[i - 1] + s[i].size]
             step == [p \in Nat \X (1..n) |-> Next1(p[1], p[2])]
             Upto == CHOOSE g : Steps(g)
  <1>1. n \in Nat /\ \A i \in 1..n : s[i].size \in Nat
    BY FramesOf
  <1>2. step \in [Nat \X (1..n) -> Nat]
    <2> HIDE DEF n
    <2> QED
      BY <1>1
  <1>3. PICK g : g \in Computations(Nat, 0, n, step)
    <2> HIDE DEF n, step
    <2> QED
      BY <1>1, <1>2, ComputationExists
  <1>4. /\ g \in [0..n -> Nat] /\ g[0] = 0
        /\ \A i \in 1..n : g[i] = step[<<g[i - 1], i>>]
    <2> HIDE DEF n, step
    <2> QED
      BY <1>3 DEF Computations
  <1>5. \A i \in 1..n : g[i] = g[i - 1] + s[i].size
    <2> SUFFICES ASSUME NEW i \in 1..n PROVE g[i] = g[i - 1] + s[i].size
      OBVIOUS
    <2> HIDE DEF n
    <2>1. i - 1 \in 0..n
      BY <1>1
    <2>2. g[i - 1] \in Nat
      BY <1>4, <2>1
    <2> QED
      BY <1>4, <2>2
  <1>6. Steps(g)
    <2> HIDE DEF n
    <2> QED
      BY <1>1, <1>4, <1>5
  <1>7. Steps(Upto)
    <2> HIDE DEF Steps
    <2> QED
      BY <1>6
  <1>8. /\ Upto[0] = 0
        /\ \A i \in 1..n : Upto[i] = Upto[i - 1] + s[i].size
    <2> HIDE DEF Upto, n
    <2> QED
      BY <1>1, <1>7
  <1>9. SizeOf(s) = Upto[n]
    BY DEF SizeOf
  <1> DEFINE Bad == {i \in 0..n : Upto[i] # g[i]}
  <1>10. Bad = {}
    <2> SUFFICES ASSUME Bad # {} PROVE FALSE
      OBVIOUS
    <2> HIDE DEF Upto, n
    <2>1. PICK k \in Bad : \A m \in Bad : k <= m
      <3>1. Bad \in SUBSET Nat
        BY <1>1
      <3> HIDE DEF Bad
      <3> QED
        BY <3>1, LeastNumber
    <2>2. k \in 1..n /\ k - 1 \in 0..n /\ ~(k <= k - 1)
      BY <1>1, <1>4, <1>8, <2>1
    <2>3. Upto[k - 1] = g[k - 1]
      BY <2>1, <2>2
    <2> QED
      BY <1>5, <1>8, <2>1, <2>2, <2>3
  <1> HIDE DEF Upto, n
  <1>11. SizeOf(s) = g[n]
    BY <1>1, <1>9, <1>10
  <1> QED
    BY <1>4, <1>5, <1>11 DEF n, Sums

(* Whatever sums up the sizes is their sum.                                *)
LEMMA SizeBySums ==
  ASSUME NEW s \in Seq(Frames), NEW h \in [0..Len(s) -> Nat], Sums(s, h)
  PROVE  SizeOf(s) = h[Len(s)]
  <1> DEFINE n == Len(s)
  <1>1. PICK g \in [0..n -> Nat] : Sums(s, g) /\ SizeOf(s) = g[n]
    BY SizeIsSum
  <1>2. n \in Nat
    BY FramesOf
  <1> DEFINE Bad == {i \in 0..n : h[i] # g[i]}
  <1>3. Bad = {}
    <2> SUFFICES ASSUME Bad # {} PROVE FALSE
      OBVIOUS
    <2>1. /\ g[0] = 0 /\ \A i \in 1..n : g[i] = g[i - 1] + s[i].size
          /\ h[0] = 0 /\ \A i \in 1..n : h[i] = h[i - 1] + s[i].size
      BY <1>1 DEF Sums
    <2> HIDE DEF n
    <2>2. PICK k \in Bad : \A m \in Bad : k <= m
      <3>1. Bad \in SUBSET Nat
        BY <1>2
      <3> HIDE DEF Bad
      <3> QED
        BY <3>1, LeastNumber
    <2>3. k \in 1..n /\ k - 1 \in 0..n /\ ~(k <= k - 1)
      BY <1>2, <2>1, <2>2
    <2>4. h[k - 1] = g[k - 1]
      BY <2>2, <2>3
    <2> QED
      BY <2>1, <2>2, <2>3, <2>4
  <1> HIDE DEF n
  <1> QED
    BY <1>1, <1>2, <1>3 DEF n

LEMMA SizeIsNumber ==
  ASSUME NEW s \in Seq(Frames)
  PROVE  /\ SizeOf(s) \in Nat
         /\ SizeOf(s) > 0 <=> s # <<>>
         /\ s = <<>> => SizeOf(s) = 0
  <1> DEFINE n == Len(s)
  <1>1. PICK g \in [0..n -> Nat] : Sums(s, g) /\ SizeOf(s) = g[n]
    BY SizeIsSum
  <1>2. n \in Nat /\ (n = 0 <=> s = <<>>)
    BY FramesOf, EmptySeq
  <1>3. g[n] \in Nat /\ g[0] = 0
    <2> HIDE DEF n
    <2> QED
      BY <1>1, <1>2 DEF Sums
  <1>4. ASSUME n # 0 PROVE g[n] > 0
    <2>1. n \in 1..n /\ n - 1 \in 0..n
      BY <1>2, <1>4
    <2>2. s[n].size \in Nat \ {0} /\ g[n - 1] \in Nat
      BY <1>1, <2>1, FramesOf
    <2>3. g[n] = g[n - 1] + s[n].size
      BY <1>1, <2>1 DEF Sums
    <2> HIDE DEF n
    <2> QED
      BY <2>2, <2>3
  <1> HIDE DEF n
  <1> QED
    BY <1>1, <1>2, <1>3, <1>4

LEMMA SizeOfConcat ==
  ASSUME NEW a \in Seq(Frames), NEW b \in Seq(Frames)
  PROVE  SizeOf(a \o b) = SizeOf(a) + SizeOf(b)
  <1> DEFINE m == Len(a)
             n == Len(b)
             c == a \o b
  <1>1. PICK f \in [0..m -> Nat] : Sums(a, f) /\ SizeOf(a) = f[m]
    BY SizeIsSum
  <1>2. PICK g \in [0..n -> Nat] : Sums(b, g) /\ SizeOf(b) = g[n]
    BY SizeIsSum
  <1>3. m \in Nat /\ n \in Nat
    BY FramesOf
  <1>4. /\ c \in Seq(Frames) /\ Len(c) = m + n
        /\ \A i \in 1..m + n : c[i] = IF i <= m THEN a[i] ELSE b[i - m]
    BY ConcatProperties
  <1>5. /\ f[0] = 0 /\ \A i \in 1..m : f[i] = f[i - 1] + a[i].size
        /\ g[0] = 0 /\ \A i \in 1..n : g[i] = g[i - 1] + b[i].size
    BY <1>1, <1>2 DEF Sums
  <1> DEFINE h == [i \in 0..m + n |-> IF i <= m THEN f[i] ELSE f[m] + g[i - m]]
  <1>6. \A i \in 1..n : b[i].size \in Nat
    BY FramesOf
  <1> HIDE DEF m, n, c
  <1>7. h \in [0..m + n -> Nat]
    <2> SUFFICES ASSUME NEW i \in 0..m + n
                 PROVE  (IF i <= m THEN f[i] ELSE f[m] + g[i - m]) \in Nat
      OBVIOUS
    <2>1. CASE i <= m
      BY <2>1, <1>3, <1>1
    <2>2. CASE ~(i <= m)
      <3>1. i - m \in 0..n /\ m \in 0..m
        BY <2>2, <1>3
      <3>2. f[m] \in Nat /\ g[i - m] \in Nat
        BY <3>1, <1>1, <1>2
      <3> QED
        BY <3>2, <2>2
    <2> QED
      BY <2>1, <2>2
  <1>8. h[0] = 0
    BY <1>3, <1>5
  <1>9. ASSUME NEW i \in 1..m + n PROVE h[i] = h[i - 1] + c[i].size
    <2>1. CASE i <= m
      <3>1. i \in 1..m /\ i - 1 <= m /\ i - 1 \in 0..m + n /\ i \in 0..m + n
        BY <2>1, <1>3
      <3>2. h[i] = f[i] /\ h[i - 1] = f[i - 1] /\ c[i] = a[i]
        BY <3>1, <2>1, <1>4
      <3> QED
        BY <3>1, <3>2, <1>5
    <2>2. CASE ~(i <= m)
      <3>1. i - m \in 1..n /\ i - 1 \in 0..m + n /\ i \in 0..m + n /\ m \in 0..m
        BY <2>2, <1>3
      <3>2. h[i] = f[m] + g[i - m] /\ c[i] = b[i - m]
        BY <3>1, <2>2, <1>4
      <3>3. g[i - m] = g[(i - m) - 1] + b[i - m].size
        BY <3>1, <1>5
      <3>4. h[i - 1] = f[m] + g[(i - m) - 1]
        <4>1. CASE i = m + 1
          <5>1. i - 1 = m /\ (i - m) - 1 = 0 /\ f[m] \in Nat
            BY <4>1, <1>1, <1>3, <3>1
          <5>2. h[i - 1] = f[m]
            BY <5>1, <3>1, <1>3
          <5> QED
            BY <5>1, <5>2, <1>5
        <4>2. CASE i # m + 1
          <5>1. ~(i - 1 <= m) /\ (i - 1) - m = (i - m) - 1
            BY <4>2, <2>2, <1>3
          <5> QED
            BY <5>1, <3>1
        <4> QED
          BY <4>1, <4>2
      <3>5. f[m] \in Nat /\ g[(i - m) - 1] \in Nat /\ b[i - m].size \in Nat
        <4>1. (i - m) - 1 \in 0..n
          BY <3>1, <1>3
        <4> QED
          BY <3>1, <4>1, <1>1, <1>2, <1>6
      <3> HIDE DEF h
      <3> QED
        BY <3>2, <3>3, <3>4, <3>5
    <2> QED
      BY <2>1, <2>2
  <1>10. Sums(c, h)
    <2> HIDE DEF h
    <2> QED
      BY <1>4, <1>8, <1>9 DEF Sums
  <1>11. SizeOf(c) = h[m + n]
    <2> HIDE DEF h
    <2> QED
      BY <1>4, <1>7, <1>10, SizeBySums
  <1>12. h[m + n] = f[m] + g[n]
    <2>1. CASE n = 0
      <3>1. m + n = m /\ m \in 0..m /\ m + n \in 0..m + n
        BY <2>1, <1>3
      <3>2. f[m] \in Nat
        BY <3>1, <1>1
      <3> QED
        BY <3>1, <3>2, <2>1, <1>5
    <2>2. CASE n # 0
      <3>1. ~(m + n <= m) /\ (m + n) - m = n /\ m + n \in 0..m + n
        BY <2>2, <1>3
      <3> QED
        BY <3>1
    <2> QED
      BY <2>1, <2>2
  <1> QED
    BY <1>1, <1>2, <1>11, <1>12 DEF c

LEMMA SizeOfOne ==
  ASSUME NEW f \in Frames
  PROVE  <<f>> \in Seq(Frames) /\ Len(<<f>>) = 1 /\ SizeOf(<<f>>) = f.size
  <1>1. <<f>> \in Seq(Frames) /\ Len(<<f>>) = 1 /\ <<f>>[1] = f
    OBVIOUS
  <1>2. f.size \in Nat
    BY DEF Frames
  <1> DEFINE h == [i \in 0..1 |-> IF i = 0 THEN 0 ELSE f.size]
             s == <<f>>
  <1>3. h \in [0..1 -> Nat] /\ h[0] = 0 /\ h[1] = f.size
    BY <1>2
  <1>4. \A i \in 1..1 : h[i] = h[i - 1] + s[i].size
    BY <1>1, <1>2, <1>3
  <1> HIDE DEF h, s
  <1>5. Sums(s, h)
    BY <1>1, <1>3, <1>4 DEF Sums, s
  <1>6. SizeOf(s) = h[1]
    BY <1>1, <1>3, <1>5, SizeBySums DEF s
  <1> QED
    BY <1>1, <1>3, <1>6 DEF s

LEMMA SizeOfEqual ==
  ASSUME NEW s \in Seq(Frames), NEW size \in Nat, \A i \in 1..Len(s) : s[i].size = size
  PROVE  SizeOf(s) = Len(s) * size
  <1> DEFINE n == Len(s)
             h == [i \in 0..n |-> i * size]
  <1>1. n \in Nat
    BY FramesOf
  <1>2. \A i \in 0..n : i * size \in Nat
    BY <1>1
  <1>3. h \in [0..n -> Nat] /\ h[0] = 0
    BY <1>1, <1>2
  <1>4. \A i \in 1..n : h[i] = h[i - 1] + s[i].size
    <2> SUFFICES ASSUME NEW i \in 1..n PROVE h[i] = h[i - 1] + s[i].size
      OBVIOUS
    <2>1. i * size = (i - 1) * size + size
      OBVIOUS
    <2>2. i \in 0..n /\ i - 1 \in 0..n
      BY <1>1
    <2>3. s[i].size = size
      OBVIOUS
    <2> HIDE DEF n
    <2> QED
      BY <2>1, <2>2, <2>3
  <1>5. SizeOf(s) = h[n]
    <2> HIDE DEF h
    <2> QED
      BY <1>3, <1>4, SizeBySums DEF Sums
  <1> QED
    BY <1>1, <1>5

----------------------------------------------------------------------------
(* Media stream statistics: frames in the order of time.                   *)

Sorted(s) ==
  \A i, j \in 1..Len(s) : i <= j => s[i].timestamp <= s[j].timestamp

IsBefore(s, time, n) ==
  /\ \A i \in 1..n : s[i].timestamp < time
  /\ \A i \in n + 1..Len(s) : time <= s[i].timestamp

(* The place of a time among frames in order.                              *)
LEMMA BeforeIsPlace ==
  ASSUME NEW s \in Seq(Frames), Sorted(s), NEW time \in Int
  PROVE  Before(s, time) \in 0..Len(s) /\ IsBefore(s, time, Before(s, time))
  <1> DEFINE l == Len(s)
             Late == {n \in 0..l : n = l \/ time <= s[n + 1].timestamp}
  <1>1. l \in Nat /\ \A i \in 1..l : s[i].timestamp \in Nat
    BY FramesOf
  <1>2. \A i, j \in 1..l : i <= j => s[i].timestamp <= s[j].timestamp
    BY DEF Sorted
  <1> HIDE DEF l
  <1>3. PICK n \in Late : \A m \in Late : n <= m
    <2>1. Late \in SUBSET Nat /\ l \in Late
      BY <1>1
    <2> HIDE DEF Late
    <2> QED
      BY <2>1, LeastNumber
  <1>4. n \in 0..l
    OBVIOUS
  <1>5. ASSUME NEW i \in 1..n PROVE s[i].timestamp < time
    <2>1. i - 1 \in 0..l /\ i - 1 # l /\ ~(n <= i - 1) /\ (i - 1) + 1 = i /\ i \in 1..l
      BY <1>1, <1>4
    <2>2. i - 1 \notin Late
      BY <1>3, <2>1
    <2>3. ~(time <= s[i].timestamp)
      BY <2>1, <2>2
    <2> QED
      BY <1>1, <2>1, <2>3
  <1>6. ASSUME NEW i \in n + 1..l PROVE time <= s[i].timestamp
    <2>1. n # l /\ n + 1 \in 1..l /\ i \in 1..l /\ n + 1 <= i
      BY <1>1, <1>4
    <2>2. time <= s[n + 1].timestamp
      BY <1>3, <2>1
    <2> QED
      BY <1>1, <1>2, <2>1, <2>2
  <1>7. IsBefore(s, time, n)
    BY <1>5, <1>6 DEF IsBefore, l
  <1>8. Before(s, time) = CHOOSE k \in 0..l : IsBefore(s, time, k)
    BY DEF Before, IsBefore, l
  <1> QED
    BY <1>4, <1>7, <1>8 DEF l

(* The two parts that a sequence is cut in.                                *)
LEMMA CutFrames ==
  ASSUME NEW s \in Seq(Frames), NEW k \in 0..Len(s)
  PROVE  /\ SubSeq(s, 1, k) \in Seq(Frames) /\ Len(SubSeq(s, 1, k)) = k
         /\ \A i \in 1..k : SubSeq(s, 1, k)[i] = s[i]
         /\ SubSeq(s, k + 1, Len(s)) \in Seq(Frames)
         /\ Len(SubSeq(s, k + 1, Len(s))) = Len(s) - k
         /\ \A i \in 1..Len(s) - k : SubSeq(s, k + 1, Len(s))[i] = s[k + i]
         /\ s = SubSeq(s, 1, k) \o SubSeq(s, k + 1, Len(s))
         /\ SizeOf(s) = SizeOf(SubSeq(s, 1, k)) + SizeOf(SubSeq(s, k + 1, Len(s)))
  <1> DEFINE l == Len(s)
             a == SubSeq(s, 1, k)
             b == SubSeq(s, k + 1, l)
  <1>1. l \in Nat /\ \A i \in 1..l : s[i] \in Frames
    BY FramesOf
  <1> HIDE DEF l
  <1>2. k \in Int /\ 1 \in Int /\ k + 1 \in Int /\ l \in Int
    BY <1>1 DEF l
  <1>3. (\A i \in 1..k : s[i] \in Frames) /\ (\A i \in k + 1..l : s[i] \in Frames)
    BY <1>1 DEF l
  <1>4. /\ a \in Seq(Frames) /\ Len(a) = IF 1 <= k THEN k - 1 + 1 ELSE 0
        /\ \A i \in 1..k - 1 + 1 : a[i] = s[1 + i - 1]
    BY <1>2, <1>3, SubSeqProperties
  <1>5. /\ b \in Seq(Frames) /\ Len(b) = IF k + 1 <= l THEN l - (k + 1) + 1 ELSE 0
        /\ \A i \in 1..l - (k + 1) + 1 : b[i] = s[k + 1 + i - 1]
    BY <1>2, <1>3, SubSeqProperties
  <1> HIDE DEF a, b
  <1>6. k \in 0..l
    BY DEF l
  <1>7. Len(a) = k /\ \A i \in 1..k : a[i] = s[i]
    <2>1. Len(a) = k
      BY <1>4, <1>6
    <2>2. \A i \in 1..k : i \in 1..k - 1 + 1 /\ 1 + i - 1 = i
      BY <1>6
    <2> QED
      BY <1>4, <2>1, <2>2
  <1>8. Len(b) = l - k /\ \A i \in 1..l - k : b[i] = s[k + i]
    <2>1. Len(b) = l - k
      BY <1>5, <1>6, <1>1
    <2>2. \A i \in 1..l - k : i \in 1..l - (k + 1) + 1 /\ k + 1 + i - 1 = k + i
      BY <1>6, <1>1
    <2> QED
      BY <1>5, <2>1, <2>2
  <1>9. s = a \o b
    <2>1. /\ a \o b \in Seq(Frames) /\ Len(a \o b) = k + (l - k)
          /\ \A i \in 1..k + (l - k) : (a \o b)[i] = IF i <= k THEN a[i] ELSE b[i - k]
      <3>1. /\ a \o b \in Seq(Frames) /\ Len(a \o b) = Len(a) + Len(b)
            /\ \A i \in 1..Len(a) + Len(b) :
                 (a \o b)[i] = IF i <= Len(a) THEN a[i] ELSE b[i - Len(a)]
        BY <1>4, <1>5, ConcatProperties
      <3> QED
        BY <3>1, <1>7, <1>8
    <2>2. k + (l - k) = l
      BY <1>6, <1>1
    <2>3. \A i \in 1..l : (a \o b)[i] = s[i]
      <3> SUFFICES ASSUME NEW i \in 1..l PROVE (a \o b)[i] = s[i]
        OBVIOUS
      <3>1. CASE i <= k
        <4>1. i \in 1..k
          BY <3>1, <1>6
        <4> QED
          BY <4>1, <3>1, <2>1, <2>2, <1>7
      <3>2. CASE ~(i <= k)
        <4>1. i - k \in 1..l - k /\ k + (i - k) = i
          BY <3>2, <1>6, <1>1
        <4> QED
          BY <4>1, <3>2, <2>1, <2>2, <1>8
      <3> QED
        BY <3>1, <3>2
    <2> QED
      BY <2>1, <2>2, <2>3, SeqEqual DEF l
  <1>10. SizeOf(s) = SizeOf(a) + SizeOf(b)
    BY <1>4, <1>5, <1>9, SizeOfConcat
  <1> QED
    BY <1>4, <1>5, <1>7, <1>8, <1>9, <1>10 DEF a, b, l

(* removeRange() of the last frames, or of the first ones.                 *)
LEMMA LastAreRemoved ==
  ASSUME NEW s \in Seq(Frames), NEW k \in 0..Len(s), NEW total, total = SizeOf(s),
         RemoveRange(s, k + 1, Len(s), total)
  PROVE  /\ data' \in Seq(Frames) /\ Len(data') = k /\ totalSize' = SizeOf(data')
         /\ \A i \in 1..k : data'[i] = s[i]
  <1>1. (k + 1) - 1 = k /\ Len(s) \in Nat /\ Len(s) + 1 > Len(s)
    BY FramesOf
  <1>2. data' = SubSeq(s, 1, k) \o SubSeq(s, Len(s) + 1, Len(s))
        /\ totalSize' = total - SizeOf(SubSeq(s, k + 1, Len(s)))
    BY <1>1 DEF RemoveRange
  <1>3. SubSeq(s, Len(s) + 1, Len(s)) = <<>>
    BY <1>1, SubSeqEmpty
  <1>4. data' = SubSeq(s, 1, k)
    BY <1>2, <1>3, CutFrames, ConcatEmptySeq
  <1>5. SizeOf(SubSeq(s, 1, k)) \in Nat /\ SizeOf(SubSeq(s, k + 1, Len(s))) \in Nat
    BY CutFrames, SizeIsNumber
  <1>6. SizeOf(s) = SizeOf(SubSeq(s, 1, k)) + SizeOf(SubSeq(s, k + 1, Len(s)))
    BY CutFrames
  <1>7. totalSize' = SizeOf(SubSeq(s, 1, k))
    BY <1>2, <1>5, <1>6
  <1> QED
    BY <1>4, <1>7, CutFrames

LEMMA FirstAreRemoved ==
  ASSUME NEW s \in Seq(Frames), NEW k \in 0..Len(s), NEW total, total = SizeOf(s),
         RemoveRange(s, 1, k, total)
  PROVE  /\ data' \in Seq(Frames) /\ Len(data') = Len(s) - k /\ totalSize' = SizeOf(data')
         /\ \A i \in 1..Len(s) - k : data'[i] = s[k + i]
  <1>1. data' = SubSeq(s, 1, 0) \o SubSeq(s, k + 1, Len(s))
        /\ totalSize' = total - SizeOf(SubSeq(s, 1, k))
    BY DEF RemoveRange
  <1>2. SubSeq(s, 1, 0) = <<>>
    BY SubSeqEmpty
  <1>3. data' = SubSeq(s, k + 1, Len(s))
    BY <1>1, <1>2, CutFrames, ConcatEmptySeq
  <1>4. SizeOf(SubSeq(s, 1, k)) \in Nat /\ SizeOf(SubSeq(s, k + 1, Len(s))) \in Nat
    BY CutFrames, SizeIsNumber
  <1>5. SizeOf(s) = SizeOf(SubSeq(s, 1, k)) + SizeOf(SubSeq(s, k + 1, Len(s)))
    BY CutFrames
  <1>6. totalSize' = SizeOf(SubSeq(s, k + 1, Len(s)))
    BY <1>1, <1>4, <1>5
  <1> QED
    BY <1>3, <1>6, CutFrames

IsInsertion(s, f, n, t) ==
  /\ n \in 0..Len(s) /\ IsBefore(s, f.timestamp, n)
  /\ t \in Seq(Frames) /\ Len(t) = Len(s) + 1 /\ SizeOf(t) = SizeOf(s) + f.size
  /\ \A i \in 1..n : t[i] = s[i]
  /\ t[n + 1] = f
  /\ \A i \in n + 2..Len(s) + 1 : t[i] = s[i - 1]
  /\ Sorted(t)

(* A frame is inserted where the frames stay in order.                     *)
LEMMA FrameIsInserted ==
  ASSUME NEW s \in Seq(Frames), Sorted(s), NEW f \in Frames
  PROVE  IsInsertion(s, f, Before(s, f.timestamp), Inserted(s, f))
  <1> SUFFICES ASSUME NEW n, n = Before(s, f.timestamp), NEW t, t = Inserted(s, f)
               PROVE  IsInsertion(s, f, n, t)
    OBVIOUS
  <1> DEFINE l == Len(s)
             a == SubSeq(s, 1, n)
             b == SubSeq(s, n + 1, l)
             c == <<f>>
             ac == a \o c
             time == f.timestamp
  <1>1. time \in Nat /\ f.size \in Nat
    BY DEF Frames
  <1>2. n \in 0..l /\ IsBefore(s, time, n)
    <2>1. time \in Int
      BY <1>1
    <2> HIDE DEF time
    <2>2. Before(s, time) \in 0..Len(s) /\ IsBefore(s, time, Before(s, time))
      BY <2>1, BeforeIsPlace
    <2>3. n = Before(s, time)
      BY DEF time
    <2> QED
      BY <2>2, <2>3
  <1>3. l \in Nat /\ \A i \in 1..l : s[i].timestamp \in Nat
    BY FramesOf
  <1>4. t = ac \o b
    BY DEF Inserted
  <1>5. /\ a \in Seq(Frames) /\ Len(a) = n /\ \A i \in 1..n : a[i] = s[i]
        /\ b \in Seq(Frames) /\ Len(b) = l - n /\ \A i \in 1..l - n : b[i] = s[n + i]
        /\ SizeOf(s) = SizeOf(a) + SizeOf(b)
    BY <1>2, CutFrames
  <1>6. c \in Seq(Frames) /\ Len(c) = 1 /\ SizeOf(c) = f.size /\ c[1] = f
    BY SizeOfOne
  <1> HIDE DEF a, b, c
  <1>7. /\ ac \in Seq(Frames) /\ Len(ac) = n + 1
        /\ \A i \in 1..n + 1 : ac[i] = IF i <= n THEN a[i] ELSE c[i - n]
        /\ SizeOf(ac) = SizeOf(a) + SizeOf(c)
    <2>1. /\ ac \in Seq(Frames) /\ Len(ac) = Len(a) + Len(c)
          /\ \A i \in 1..Len(a) + Len(c) :
               ac[i] = IF i <= Len(a) THEN a[i] ELSE c[i - Len(a)]
      BY <1>5, <1>6, ConcatProperties
    <2>2. SizeOf(ac) = SizeOf(a) + SizeOf(c)
      BY <1>5, <1>6, SizeOfConcat
    <2> HIDE DEF ac
    <2> QED
      BY <2>1, <2>2, <1>5, <1>6
  <1> HIDE DEF ac
  <1>8. /\ t \in Seq(Frames) /\ Len(t) = (n + 1) + (l - n)
        /\ \A i \in 1..(n + 1) + (l - n) : t[i] = IF i <= n + 1 THEN ac[i] ELSE b[i - (n + 1)]
        /\ SizeOf(t) = SizeOf(ac) + SizeOf(b)
    <2>1. /\ ac \o b \in Seq(Frames) /\ Len(ac \o b) = Len(ac) + Len(b)
          /\ \A i \in 1..Len(ac) + Len(b) :
               (ac \o b)[i] = IF i <= Len(ac) THEN ac[i] ELSE b[i - Len(ac)]
      BY <1>5, <1>7, ConcatProperties
    <2>2. SizeOf(ac \o b) = SizeOf(ac) + SizeOf(b)
      BY <1>5, <1>7, SizeOfConcat
    <2> QED
      BY <2>1, <2>2, <1>4, <1>5, <1>7
  <1> HIDE DEF l, time
  <1>9. (n + 1) + (l - n) = l + 1
    BY <1>2, <1>3
  <1>10. \A i \in 1..n : t[i] = s[i]
    <2> SUFFICES ASSUME NEW i \in 1..n PROVE t[i] = s[i]
      OBVIOUS
    <2>1. i \in 1..n + 1 /\ i \in 1..l + 1 /\ i <= n /\ i <= n + 1
      BY <1>2, <1>3
    <2> QED
      BY <2>1, <1>5, <1>7, <1>8, <1>9
  <1>11. t[n + 1] = f
    <2>1. n + 1 \in 1..n + 1 /\ n + 1 \in 1..l + 1 /\ ~(n + 1 <= n) /\ (n + 1) - n = 1
      BY <1>2, <1>3
    <2> QED
      BY <2>1, <1>6, <1>7, <1>8, <1>9
  <1>12. \A i \in n + 2..l + 1 : t[i] = s[i - 1]
    <2> SUFFICES ASSUME NEW i \in n + 2..l + 1 PROVE t[i] = s[i - 1]
      OBVIOUS
    <2>1. /\ i \in 1..l + 1 /\ ~(i <= n + 1) /\ i - (n + 1) \in 1..l - n
          /\ n + (i - (n + 1)) = i - 1
      BY <1>2, <1>3
    <2> QED
      BY <2>1, <1>5, <1>8, <1>9
  <1>13. SizeOf(t) = SizeOf(s) + f.size
    <2>1. SizeOf(a) \in Nat /\ SizeOf(b) \in Nat
      BY <1>5, SizeIsNumber
    <2> QED
      BY <2>1, <1>1, <1>5, <1>6, <1>7, <1>8
  <1>14. Sorted(t)
    <2>1. /\ \A i \in 1..n : s[i].timestamp < time
          /\ \A i \in n + 1..l : time <= s[i].timestamp
          /\ \A i, j \in 1..l : i <= j => s[i].timestamp <= s[j].timestamp
      BY <1>2 DEF IsBefore, Sorted, l
    <2> SUFFICES ASSUME NEW i \in 1..l + 1, NEW j \in 1..l + 1, i <= j
                 PROVE  t[i].timestamp <= t[j].timestamp
      BY <1>8, <1>9 DEF Sorted
    <2>2. \A m \in 1..l + 1 :
            \/ m \in 1..n /\ m \in 1..l /\ t[m].timestamp = s[m].timestamp
            \/ m = n + 1 /\ t[m].timestamp = time
            \/ m \in n + 2..l + 1 /\ m - 1 \in n + 1..l /\ m - 1 \in 1..l
               /\ t[m].timestamp = s[m - 1].timestamp
      <3> SUFFICES ASSUME NEW m \in 1..l + 1
                   PROVE  \/ m \in 1..n /\ m \in 1..l /\ t[m].timestamp = s[m].timestamp
                          \/ m = n + 1 /\ t[m].timestamp = time
                          \/ m \in n + 2..l + 1 /\ m - 1 \in n + 1..l /\ m - 1 \in 1..l
                             /\ t[m].timestamp = s[m - 1].timestamp
        OBVIOUS
      <3>1. \/ m \in 1..n /\ m \in 1..l
            \/ m = n + 1
            \/ m \in n + 2..l + 1 /\ m - 1 \in n + 1..l /\ m - 1 \in 1..l
        BY <1>2, <1>3
      <3> QED
        BY <3>1, <1>10, <1>11, <1>12 DEF time
    <2>3. n \in Nat /\ l \in Nat /\ time \in Int
      BY <1>1, <1>2, <1>3 DEF time
    <2>4. CASE i \in 1..n
      <3>1. i \in 1..l /\ t[i].timestamp = s[i].timestamp /\ s[i].timestamp < time
            /\ s[i].timestamp \in Nat
        BY <2>1, <2>2, <2>4, <2>3, <1>3
      <3>2. CASE j \in 1..n
        <4>1. j \in 1..l /\ t[j].timestamp = s[j].timestamp
          BY <2>2, <2>3, <3>2
        <4> QED
          BY <2>1, <3>1, <4>1
      <3>3. CASE j = n + 1
        <4>1. t[j].timestamp = time
          BY <2>2, <2>3, <3>3
        <4> QED
          BY <2>3, <3>1, <4>1
      <3>4. CASE j \in n + 2..l + 1
        <4>1. j - 1 \in 1..l /\ t[j].timestamp = s[j - 1].timestamp /\ i <= j - 1
          BY <2>2, <2>4, <2>3, <3>4
        <4> QED
          BY <2>1, <3>1, <4>1
      <3> QED
        BY <2>2, <3>2, <3>3, <3>4
    <2>5. CASE i = n + 1
      <3>1. t[i].timestamp = time
        BY <2>2, <2>5, <2>3
      <3>2. CASE j = n + 1
        BY <2>5, <2>3, <3>1, <3>2
      <3>3. CASE j \in n + 2..l + 1
        <4>1. j - 1 \in n + 1..l /\ t[j].timestamp = s[j - 1].timestamp
          BY <2>2, <2>3, <3>3
        <4> QED
          BY <2>1, <3>1, <4>1
      <3> QED
        BY <2>5, <2>3, <3>2, <3>3
    <2>6. CASE i \in n + 2..l + 1
      <3>1. j \in n + 2..l + 1 /\ i - 1 <= j - 1
        BY <2>6, <1>2, <1>3
      <3> QED
        <4>1. /\ i - 1 \in 1..l /\ t[i].timestamp = s[i - 1].timestamp
              /\ j - 1 \in 1..l /\ t[j].timestamp = s[j - 1].timestamp
          <5>1. i \notin 1..n /\ i # n + 1 /\ j \notin 1..n /\ j # n + 1
            BY <3>1, <2>6, <2>3
          <5> QED
            BY <5>1, <2>2
        <4> QED
          BY <2>1, <3>1, <4>1
    <2> QED
      BY <2>2, <2>4, <2>5, <2>6
  <1> QED
    BY <1>2, <1>8, <1>9, <1>10, <1>11, <1>12, <1>13, <1>14 DEF l, time, IsInsertion

----------------------------------------------------------------------------
(* Media stream statistics: the window.                                    *)

Distance(i) == received[Len(received)].timestamp - received[i].timestamp
InLimit(i) == maxDuration > 0 => i > Len(received) - maxDuration
Dropped == Len(received) - Len(data)

StatisticsAreTyped ==
  /\ windowSize \in Nat /\ maxDuration \in Nat
  /\ stage \in {"free", "past", "count", "extra"}
  /\ data \in Seq(Frames) /\ Sorted(data) /\ totalSize = SizeOf(data)
  /\ received \in Seq(Frames)
  /\ \A i, j \in 1..Len(received) : i < j => received[i].timestamp < received[j].timestamp
  /\ received # <<>> => isSteady
  /\ stage = "extra" => extra \in Int /\ extra <= Len(data)
  /\ stage = "extra" /\ isSteady => extra = Len(data) - maxDuration

(* The last frames are of one window, once those of the past are removed.  *)
WindowIsClosed ==
  isSteady /\ stage # "past" /\ data # <<>> =>
    data[Len(data)].timestamp - data[1].timestamp <= windowSize

(* No frame is dropped that should be kept; and of the frames that should  *)
(* not be, those that the steps so far were to drop are dropped.           *)
ReceivedAreKept ==
  received # <<>> =>
    /\ Dropped >= 0
    /\ \A i \in 1..Len(data) : data[i] = received[Dropped + i]
    /\ \A i \in 1..Len(received) :
         /\ Distance(i) <= windowSize /\ -Distance(i) < windowSize /\ InLimit(i) => i > Dropped
         /\ i > Dropped =>
              /\ -Distance(i) < windowSize
              /\ stage # "past" => Distance(i) <= windowSize
              /\ stage = "free" => InLimit(i)

StatisticsIInv == StatisticsAreTyped /\ WindowIsClosed /\ ReceivedAreKept

LEMMA NoFrames == <<>> \in Seq(Frames) /\ Sorted(<<>>) /\ SizeOf(<<>>) = 0 /\ Len(<<>>) = 0
  <1>1. <<>> \in Seq(Frames) /\ Len(<<>>) = 0
    BY EmptySeq
  <1>2. Sorted(<<>>)
    BY <1>1 DEF Sorted
  <1> QED
    BY <1>1, <1>2, SizeIsNumber

LEMMA StatisticsBegins == StatisticsInit => StatisticsIInv
  <1> SUFFICES ASSUME StatisticsInit PROVE StatisticsIInv
    OBVIOUS
  <1>1. /\ windowSize \in Nat /\ maxDuration \in Nat /\ data = <<>> /\ totalSize = 0
        /\ stage = "free" /\ isSteady = TRUE /\ received = <<>>
    BY StatisticsAssumption DEF StatisticsInit
  <1> QED
    BY <1>1, NoFrames DEF StatisticsIInv, StatisticsAreTyped, WindowIsClosed, ReceivedAreKept

(* While nothing has been received since a setter was called or the time   *)
(* has gone back.                                                          *)
LEMMA NothingReceived ==
  ASSUME StatisticsIInv,
         windowSize' \in Nat, maxDuration' \in Nat, isSteady' = FALSE, received' = <<>>,
         UNCHANGED <<data, totalSize, stage, extra>>
  PROVE  StatisticsIInv'
  <1>1. StatisticsAreTyped'
    BY NoFrames DEF StatisticsIInv, StatisticsAreTyped, Sorted, SizeOf
  <1> QED
    BY <1>1 DEF StatisticsIInv, WindowIsClosed, ReceivedAreKept

LEMMA OnDataIsSound ==
  ASSUME StatisticsIInv, NEW time \in FrameTimes, NEW size \in FrameSizes, OnData(time, size)
  PROVE  StatisticsIInv'
  <1> DEFINE frame == [timestamp |-> time, size |-> size]
             t == Inserted(data, frame)
             n == Before(data, time)
             l == Len(data)
             late == time + windowSize
             k == Before(t, late)
  <1>1. /\ stage = "free" /\ stage' = "past" /\ RemoveFuture(frame)
        /\ UNCHANGED <<windowSize, maxDuration, isSteady>>
        /\ received' = IF IF received = <<>> THEN isSteady /\ data = <<>>
                          ELSE received[Len(received)].timestamp < time
                       THEN Append(received, frame) ELSE <<>>
    BY DEF OnData, Last
  <1>2. time \in Nat /\ frame \in Frames /\ frame.timestamp = time /\ frame.size = size
    BY StatisticsAssumption DEF Frames
  <1>3. /\ windowSize \in Nat /\ maxDuration \in Nat /\ data \in Seq(Frames) /\ Sorted(data)
        /\ totalSize = SizeOf(data) /\ received \in Seq(Frames)
        /\ \A i, j \in 1..Len(received) :
             i < j => received[i].timestamp < received[j].timestamp
        /\ received # <<>> => isSteady
    BY DEF StatisticsIInv, StatisticsAreTyped
  <1>4. l \in Nat /\ \A i \in 1..l : data[i].timestamp \in Nat
    BY <1>3, FramesOf
  <1> HIDE DEF frame
  <1>5. /\ n \in 0..l /\ IsBefore(data, time, n)
        /\ t \in Seq(Frames) /\ Len(t) = l + 1 /\ SizeOf(t) = SizeOf(data) + size
        /\ \A i \in 1..n : t[i] = data[i]
        /\ t[n + 1] = frame
        /\ \A i \in n + 2..l + 1 : t[i] = data[i - 1]
        /\ Sorted(t)
    <2>1. n = Before(data, frame.timestamp)
      BY <1>2
    <2> HIDE DEF n, t
    <2>2. t = Inserted(data, frame)
      BY DEF t
    <2>3. IsInsertion(data, frame, n, t)
      BY <1>2, <1>3, <2>1, <2>2, FrameIsInserted
    <2> QED
      BY <1>2, <2>3 DEF IsInsertion
  <1> HIDE DEF t, n
  <1>6. k \in 0..l + 1 /\ IsBefore(t, late, k)
    <2>1. late \in Int
      BY <1>2, <1>3
    <2> HIDE DEF late
    <2> QED
      BY <1>5, <2>1, BeforeIsPlace
  <1>7. RemoveRange(t, k + 1, Len(t), totalSize + size)
    BY <1>1, <1>2 DEF RemoveFuture, t
  <1> HIDE DEF k, late
  <1>8. /\ data' \in Seq(Frames) /\ Len(data') = k /\ totalSize' = SizeOf(data')
        /\ \A i \in 1..k : data'[i] = t[i]
    BY <1>3, <1>5, <1>6, <1>7, LastAreRemoved
  <1>9. Sorted(data')
    <2>1. \A i \in 1..k : i \in 1..l + 1
      BY <1>4, <1>6
    <2> QED
      BY <2>1, <1>5, <1>8 DEF Sorted
  <1>10. WindowIsClosed'
    BY <1>1 DEF WindowIsClosed
  <1>11. CASE received' = <<>>
    <2>1. StatisticsAreTyped'
      BY <1>1, <1>3, <1>8, <1>9, <1>11, NoFrames DEF StatisticsAreTyped
    <2> QED
      BY <2>1, <1>10, <1>11 DEF StatisticsIInv, ReceivedAreKept
  <1>12. CASE received' # <<>>
    <2> DEFINE m == Len(received)
    <2>1. /\ received' = Append(received, frame)
          /\ received = <<>> => isSteady /\ data = <<>>
          /\ received # <<>> => received[m].timestamp < time
      BY <1>1, <1>12
    <2>2. /\ m \in Nat /\ \A i \in 1..m : received[i].timestamp \in Nat
          /\ received # <<>> <=> m # 0
      BY <1>3, FramesOf, EmptySeq
    <2>3. /\ received' \in Seq(Frames) /\ Len(received') = m + 1
          /\ \A i \in 1..m : received'[i] = received[i]
          /\ received'[m + 1] = frame
      BY <2>1, <1>2, <1>3, AppendProperties
    <2> HIDE DEF m
    <2>4. \A i \in 1..m : received[i].timestamp < time
      <3> SUFFICES ASSUME NEW i \in 1..m PROVE received[i].timestamp < time
        OBVIOUS
      <3>1. m \in 1..m /\ received[m].timestamp < time /\ (i < m \/ i = m)
        BY <2>1, <2>2
      <3> QED
        BY <3>1, <1>2, <1>3, <2>2 DEF m
    <2>5. \A i \in 1..m + 1 : i \in 1..m \/ i = m + 1
      BY <2>2
    <2>6. \A i, j \in 1..m + 1 : i < j => received'[i].timestamp < received'[j].timestamp
      <3> SUFFICES ASSUME NEW i \in 1..m + 1, NEW j \in 1..m + 1, i < j
                   PROVE  received'[i].timestamp < received'[j].timestamp
        OBVIOUS
      <3>1. i \in 1..m
        BY <2>2
      <3>2. CASE j \in 1..m
        BY <3>1, <3>2, <2>3, <1>3 DEF m
      <3>3. CASE j = m + 1
        BY <3>1, <3>3, <2>3, <2>4, <1>2
      <3> QED
        BY <2>5, <3>2, <3>3
    <2>7. isSteady
      BY <2>1, <1>3
    <2>8. StatisticsAreTyped'
      BY <1>1, <1>3, <1>8, <1>9, <2>3, <2>6, <2>7 DEF StatisticsAreTyped
    (* Before the frame came, the data were the last frames.               *)
    <2>9. m - l >= 0 /\ \A i \in 1..l : data[i] = received[(m - l) + i]
      <3>1. CASE received = <<>>
        <4>1. l = 0 /\ m = 0
          BY <2>1, <3>1, NoFrames DEF m
        <4> QED
          BY <4>1
      <3>2. CASE received # <<>>
        BY <3>2 DEF StatisticsIInv, ReceivedAreKept, Dropped, m
      <3> QED
        BY <3>1, <3>2
    <2>10. \A i \in 1..l : data[i].timestamp < time
      <3> SUFFICES ASSUME NEW i \in 1..l PROVE data[i].timestamp < time
        OBVIOUS
      <3>1. (m - l) + i \in 1..m
        BY <1>4, <2>2, <2>9
      <3> QED
        BY <3>1, <2>4, <2>9
    <2>11. n = l
      <3>1. \A i \in n + 1..l : time <= data[i].timestamp
        BY <1>5 DEF IsBefore
      <3>2. n # l => l \in n + 1..l /\ l \in 1..l
        BY <1>4, <1>5
      <3> QED
        BY <3>1, <3>2, <2>10, <1>2, <1>4
    <2>12. windowSize = 0 => l = 0
      <3> SUFFICES ASSUME windowSize = 0, l # 0 PROVE FALSE
        OBVIOUS
      <3>1. received # <<>> /\ m \in 1..m
        BY <2>2, <2>9, <1>4
      <3>2. m > m - l
        BY <2>2, <1>4
      <3>3. -Distance(m) < windowSize
        BY <3>1, <3>2 DEF StatisticsIInv, ReceivedAreKept, Dropped, m
      <3>4. Distance(m) = 0
        BY <3>1, <2>2 DEF Distance, m
      <3> QED
        BY <3>3, <3>4
    <2>13. k = IF windowSize = 0 THEN 0 ELSE l + 1
      <3>1. /\ \A i \in 1..k : t[i].timestamp < late
            /\ \A i \in k + 1..l + 1 : late <= t[i].timestamp
        BY <1>5, <1>6 DEF IsBefore
      <3>2. late \in Nat /\ late = time + windowSize
        BY <1>2, <1>3 DEF late
      <3>3. t[l + 1].timestamp = time
        BY <1>2, <1>5, <2>11
      <3>4. CASE windowSize = 0
        <4>1. l + 1 \notin 1..k
          BY <3>1, <3>2, <3>3, <3>4, <1>2
        <4> QED
          BY <4>1, <3>4, <2>12, <1>6
      <3>5. CASE windowSize # 0
        <4>1. l + 1 \notin k + 1..l + 1
          BY <3>1, <3>2, <3>3, <3>5, <1>2, <1>3
        <4>2. k = l + 1
          BY <4>1, <1>4, <1>6
        <4> QED
          BY <3>5, <4>2
      <3> QED
        BY <3>4, <3>5
    <2>14. \A i \in 1..m : Distance(i)' = time - received[i].timestamp
      BY <2>2, <2>3, <1>2 DEF Distance
    <2>15. ASSUME NEW i, i = m + 1 PROVE Distance(i)' = 0
      <3>1. Distance(i)' = received'[m + 1].timestamp - received'[i].timestamp
        BY <2>3 DEF Distance
      <3>2. received'[m + 1].timestamp = time /\ received'[i].timestamp = time
        BY <2>3, <2>15, <1>2
      <3>3. time - time = 0
        BY <1>2
      <3> QED
        BY <3>1, <3>2, <3>3
    <2>16. Dropped' = IF windowSize = 0 THEN m + 1 ELSE m - l
      BY <1>4, <1>8, <2>2, <2>3, <2>13 DEF Dropped
    <2>17. Dropped' >= 0
      BY <1>4, <2>2, <2>9, <2>16
    <2>18. ASSUME NEW i \in 1..k PROVE data'[i] = received'[Dropped' + i]
      <3>1. windowSize # 0 /\ i \in 1..l + 1 /\ Dropped' = m - l
        BY <2>13, <2>16
      <3>2. data'[i] = t[i]
        BY <1>8
      <3>3. CASE i = l + 1
        <4>1. (m - l) + i = m + 1
          BY <3>3, <1>4, <2>2
        <4> QED
          BY <4>1, <3>1, <3>2, <3>3, <2>3, <2>11, <1>5
      <3>4. CASE i # l + 1
        <4>1. i \in 1..l /\ (m - l) + i \in 1..m
          BY <3>1, <3>4, <1>4, <2>2, <2>9
        <4>2. t[i] = received[(m - l) + i]
          BY <4>1, <1>5, <2>9, <2>11
        <4> QED
          BY <4>1, <4>2, <3>1, <3>2, <2>3
      <3> QED
        BY <3>3, <3>4
    <2>19. ASSUME NEW i \in 1..m + 1,
                  Distance(i)' <= windowSize, -Distance(i)' < windowSize, InLimit(i)'
           PROVE  i > Dropped'
      <3>1. CASE i = m + 1
        <4>1. windowSize # 0
          <5>1. -Distance(i)' < windowSize
            BY <2>19
          <5>2. -0 < windowSize
            BY <5>1, <2>15, <3>1
          <5> QED
            BY <5>2
        <4> QED
          BY <4>1, <3>1, <2>2, <2>9, <2>16, <1>4
      <3>2. CASE i # m + 1
        <4>1. i \in 1..m /\ m \in 1..m /\ received # <<>> /\ i <= m
          BY <3>2, <2>2
        <4>2. /\ received[i].timestamp \in Nat /\ received[m].timestamp \in Nat
              /\ received[i].timestamp <= received[m].timestamp
              /\ received[i].timestamp < time /\ received[m].timestamp < time
          BY <4>1, <1>3, <2>2, <2>4 DEF m
        <4>3. time - received[i].timestamp <= windowSize
          BY <2>14, <2>19, <4>1
        <4>4. windowSize # 0
          BY <4>2, <4>3, <1>2
        <4>5. Distance(i) = received[m].timestamp - received[i].timestamp
          BY DEF Distance, m
        <4>6. Distance(i) <= windowSize /\ -Distance(i) < windowSize
          BY <4>2, <4>3, <4>4, <4>5, <1>2, <1>3
        <4>7. InLimit(i)
          <5>1. maxDuration > 0 => i > (m + 1) - maxDuration
            BY <2>3, <2>19, <1>1 DEF InLimit
          <5> QED
            BY <5>1, <4>1, <1>3, <2>2 DEF InLimit, m
        <4>8. i > m - l
          BY <4>1, <4>6, <4>7 DEF StatisticsIInv, ReceivedAreKept, Dropped, m
        <4> QED
          BY <4>4, <4>8, <2>16
      <3> QED
        BY <3>1, <3>2
    <2>20. ASSUME NEW i \in 1..m + 1, i > Dropped' PROVE -Distance(i)' < windowSize
      <3>1. windowSize # 0
        BY <2>2, <2>16, <2>20
      <3>2. CASE i = m + 1
        <4>1. -0 < windowSize
          BY <3>1, <1>3
        <4> QED
          BY <4>1, <2>15, <3>2
      <3>3. CASE i # m + 1
        <4>1. i \in 1..m
          BY <3>3, <2>2
        <4> QED
          BY <3>1, <4>1, <2>2, <2>4, <2>14, <1>2, <1>3
      <3> QED
        BY <3>2, <3>3
    <2>21. ReceivedAreKept'
      BY <1>1, <1>8, <2>3, <2>17, <2>18, <2>19, <2>20 DEF ReceivedAreKept
    <2> QED
      BY <1>10, <2>8, <2>21 DEF StatisticsIInv
  <1> QED
    BY <1>11, <1>12

LEMMA RemovePastIsSound == StatisticsIInv /\ RemovePast => StatisticsIInv'
  <1> SUFFICES ASSUME StatisticsIInv, RemovePast PROVE StatisticsIInv'
    OBVIOUS
  <1> DEFINE l == Len(data)
             oldest == data[l].timestamp - windowSize
             k == Before(data, oldest)
             m == Len(received)
  <1>1. /\ stage = "past" /\ stage' = "count"
        /\ UNCHANGED <<windowSize, maxDuration, isSteady, received>>
    BY DEF RemovePast
  <1>2. /\ windowSize \in Nat /\ maxDuration \in Nat /\ data \in Seq(Frames) /\ Sorted(data)
        /\ totalSize = SizeOf(data) /\ received \in Seq(Frames)
        /\ \A i, j \in 1..Len(received) :
             i < j => received[i].timestamp < received[j].timestamp
        /\ received # <<>> => isSteady
    BY DEF StatisticsIInv, StatisticsAreTyped
  <1>3. CASE data = <<>>
    <2>1. data' = data /\ totalSize' = totalSize
      BY <1>3 DEF RemovePast
    <2>2. StatisticsAreTyped'
      BY <1>1, <1>2, <2>1 DEF StatisticsAreTyped
    <2>3. WindowIsClosed'
      BY <1>3, <2>1 DEF WindowIsClosed
    <2>4. ReceivedAreKept'
      <3>1. Dropped' = Dropped /\ Dropped = Len(received)
        BY <1>1, <1>2, <1>3, <2>1, NoFrames, FramesOf DEF Dropped
      <3>2. \A i \in 1..Len(received) : ~(i > Dropped)
        BY <3>1, <1>2, FramesOf
      <3>3. \A i \in 1..Len(received) :
              Distance(i)' = Distance(i) /\ InLimit(i)' = InLimit(i)
        BY <1>1 DEF Distance, InLimit
      <3> QED
        BY <1>1, <2>1, <3>1, <3>2, <3>3 DEF StatisticsIInv, ReceivedAreKept
    <2> QED
      BY <2>2, <2>3, <2>4 DEF StatisticsIInv
  <1>4. CASE data # <<>>
    <2>1. l \in Nat \ {0} /\ \A i \in 1..l : data[i].timestamp \in Nat
      BY <1>2, <1>4, FramesOf, EmptySeq
    <2>2. l \in 1..l /\ 1 \in 1..l
      BY <2>1
    <2>3. RemoveRange(data, 1, k, totalSize)
      BY <1>4 DEF RemovePast, Last
    <2>4. k \in 0..l /\ IsBefore(data, oldest, k)
      <3>1. oldest \in Int
        BY <2>1, <2>2, <1>2
      <3> HIDE DEF oldest
      <3> QED
        BY <3>1, <1>2, BeforeIsPlace
    <2> HIDE DEF k
    <2>5. /\ data' \in Seq(Frames) /\ Len(data') = l - k /\ totalSize' = SizeOf(data')
          /\ \A i \in 1..l - k : data'[i] = data[k + i]
      BY <1>2, <2>3, <2>4, FirstAreRemoved
    <2>6. /\ \A i \in 1..k : data[i].timestamp < data[l].timestamp - windowSize
          /\ \A i \in k + 1..l : data[l].timestamp - windowSize <= data[i].timestamp
      BY <2>4 DEF IsBefore
    <2> HIDE DEF l
    <2>7. k # l
      BY <1>2, <2>1, <2>2, <2>6
    <2>8. \A i \in 1..l - k : k + i \in 1..l /\ k + i \in k + 1..l
      BY <2>1, <2>4
    <2>9. Sorted(data')
      <3>1. \A i, j \in 1..l : i <= j => data[i].timestamp <= data[j].timestamp
        BY <1>2 DEF Sorted, l
      <3> SUFFICES ASSUME NEW i \in 1..l - k, NEW j \in 1..l - k, i <= j
                   PROVE  data'[i].timestamp <= data'[j].timestamp
        BY <2>5 DEF Sorted
      <3>2. k + i <= k + j
        BY <2>1, <2>4
      <3> QED
        BY <3>1, <3>2, <2>5, <2>8
    <2>10. StatisticsAreTyped'
      BY <1>1, <1>2, <2>5, <2>9 DEF StatisticsAreTyped
    <2>11. WindowIsClosed'
      <3>1. l - k \in 1..l - k /\ 1 \in 1..l - k /\ k + (l - k) = l
        BY <2>1, <2>4, <2>7
      <3>2. data'[Len(data')] = data[l] /\ data'[1] = data[k + 1]
        BY <3>1, <2>5
      <3>3. k + 1 \in 1..l /\ k + 1 \in k + 1..l
        BY <2>1, <2>4, <2>7
      <3>4. data[l].timestamp - data[k + 1].timestamp <= windowSize
        BY <3>3, <2>1, <2>2, <2>6, <1>2
      <3> QED
        BY <3>2, <3>4, <1>1 DEF WindowIsClosed
    <2>12. CASE received = <<>>
      BY <1>1, <2>10, <2>11, <2>12 DEF StatisticsIInv, ReceivedAreKept
    <2>13. CASE received # <<>>
      <3>1. m \in Nat /\ \A i \in 1..m : received[i].timestamp \in Nat
        BY <1>2, FramesOf
      <3>2. /\ m - l >= 0
            /\ \A i \in 1..l : data[i] = received[(m - l) + i]
            /\ \A i \in 1..m :
                 /\ Distance(i) <= windowSize /\ -Distance(i) < windowSize /\ InLimit(i)
                      => i > m - l
                 /\ i > m - l => -Distance(i) < windowSize
        BY <2>13 DEF StatisticsIInv, ReceivedAreKept, Dropped, l
      <3>3. \A i \in 1..m : Distance(i)' = Distance(i) /\ InLimit(i)' = InLimit(i)
        BY <1>1 DEF Distance, InLimit
      <3> HIDE DEF m
      <3>4. Dropped' = (m - l) + k
        BY <1>1, <2>1, <2>4, <2>5, <3>1 DEF Dropped, m
      <3>5. received[m] = data[l]
        <4>1. (m - l) + l = m
          BY <2>1, <3>1
        <4> QED
          BY <4>1, <2>2, <3>2
      <3>6. \A i \in 1..m : Distance(i) = data[l].timestamp - received[i].timestamp
        BY <3>5 DEF Distance, m
      <3>7. \A i \in 1..m : i > m - l => i - (m - l) \in 1..l /\ (m - l) + (i - (m - l)) = i
        BY <2>1, <3>1, <3>2
      <3>8. \A i \in 1..m : i > m - l => received[i] = data[i - (m - l)]
        BY <3>2, <3>7
      <3>9. Dropped' >= 0
        BY <2>1, <2>4, <3>1, <3>2, <3>4
      <3>10. ASSUME NEW i \in 1..l - k PROVE data'[i] = received[Dropped' + i]
        <4>1. (m - l) + (k + i) = Dropped' + i
          BY <2>1, <2>4, <3>1, <3>4
        <4> QED
          BY <4>1, <2>5, <2>8, <3>2
      <3>11. ASSUME NEW i \in 1..m,
                    Distance(i) <= windowSize, -Distance(i) < windowSize, InLimit(i)
             PROVE  i > Dropped'
        <4>1. i > m - l
          BY <3>2, <3>11
        <4>2. i - (m - l) \in 1..l /\ received[i] = data[i - (m - l)]
          BY <4>1, <3>7, <3>8
        <4>3. i - (m - l) \notin 1..k
          <5> DEFINE j == i - (m - l)
          <5>1. Distance(i) = data[l].timestamp - data[j].timestamp
            BY <4>2, <3>6
          <5>2. data[l].timestamp - data[j].timestamp <= windowSize
            BY <5>1, <3>11
          <5>3. data[l].timestamp \in Nat /\ data[j].timestamp \in Nat
            BY <4>2, <2>1, <2>2
          <5> HIDE DEF j
          <5>4. ~(data[j].timestamp < data[l].timestamp - windowSize)
            BY <5>2, <5>3, <1>2
          <5> QED
            BY <5>4, <2>6 DEF j
        <4> QED
          BY <4>2, <4>3, <2>1, <2>4, <3>1, <3>4
      <3>12. ASSUME NEW i \in 1..m, i > Dropped'
             PROVE  -Distance(i) < windowSize /\ Distance(i) <= windowSize
        <4>1. i > m - l /\ i - (m - l) \in k + 1..l
          BY <2>1, <2>4, <3>1, <3>4, <3>7, <3>12
        <4>2. received[i] = data[i - (m - l)] /\ i - (m - l) \in 1..l
          BY <4>1, <3>7, <3>8
        <4>3. -Distance(i) < windowSize
          BY <4>1, <3>2
        <4>4. Distance(i) <= windowSize
          <5> DEFINE j == i - (m - l)
          <5>1. Distance(i) = data[l].timestamp - data[j].timestamp
            BY <4>2, <3>6
          <5>2. data[l].timestamp \in Nat /\ data[j].timestamp \in Nat
            BY <4>2, <2>1, <2>2
          <5>3. data[l].timestamp - windowSize <= data[j].timestamp
            BY <4>1, <2>6
          <5> HIDE DEF j
          <5> QED
            BY <5>1, <5>2, <5>3, <1>2
        <4> QED
          BY <4>3, <4>4
      <3>13. ReceivedAreKept'
        BY <1>1, <2>5, <3>3, <3>9, <3>10, <3>11, <3>12 DEF ReceivedAreKept, m
      <3> QED
        BY <2>10, <2>11, <3>13 DEF StatisticsIInv
    <2> QED
      BY <2>12, <2>13
  <1> QED
    BY <1>3, <1>4

(* A setter, which is called at any time.                                  *)
LEMMA SettersAreSound ==
  ASSUME StatisticsIInv,
         \/ \E size \in WindowSizes : SetWindowSize(size)
         \/ \E limit \in FrameLimits : SetMaxDurationInFrames(limit)
  PROVE  StatisticsIInv'
  <1>1. windowSize \in Nat /\ maxDuration \in Nat
    BY DEF StatisticsIInv, StatisticsAreTyped
  <1>2. /\ windowSize' \in Nat /\ maxDuration' \in Nat /\ isSteady' = FALSE /\ received' = <<>>
        /\ UNCHANGED <<data, totalSize, stage, extra>>
    BY <1>1, StatisticsAssumption DEF SetWindowSize, SetMaxDurationInFrames
  <1> QED
    BY <1>2, NothingReceived

LEMMA ResetIsKept == StatisticsIInv /\ Reset => StatisticsIInv'
  <1> SUFFICES ASSUME StatisticsIInv, Reset PROVE StatisticsIInv'
    OBVIOUS
  <1>1. /\ windowSize' \in Nat /\ maxDuration' \in Nat /\ data' = <<>> /\ totalSize' = 0
        /\ stage' = "free" /\ received' = <<>>
    BY DEF StatisticsIInv, StatisticsAreTyped, Reset
  <1>2. data' \in Seq(Frames) /\ Sorted(data') /\ totalSize' = SizeOf(data')
    BY <1>1, NoFrames
  <1>3. received' \in Seq(Frames) /\ Len(received') = 0
    BY <1>1, NoFrames
  <1>4. StatisticsAreTyped'
    BY <1>1, <1>2, <1>3 DEF StatisticsAreTyped
  <1> QED
    BY <1>1, <1>4 DEF StatisticsIInv, WindowIsClosed, ReceivedAreKept

LEMMA NothingIsSound ==
  ASSUME StatisticsIInv,
         UNCHANGED <<windowSize, maxDuration, data, totalSize, stage, extra, isSteady, received>>
  PROVE  StatisticsIInv'
  <1>1. Dropped' = Dropped /\ \A i : Distance(i)' = Distance(i) /\ InLimit(i)' = InLimit(i)
    BY DEF Dropped, Distance, InLimit
  <1>2. StatisticsAreTyped'
    BY DEF StatisticsIInv, StatisticsAreTyped
  <1>3. WindowIsClosed'
    BY DEF StatisticsIInv, WindowIsClosed
  <1>4. ReceivedAreKept'
    BY <1>1 DEF StatisticsIInv, ReceivedAreKept
  <1> QED
    BY <1>2, <1>3, <1>4 DEF StatisticsIInv

LEMMA CountExtraIsSound == StatisticsIInv /\ CountExtra => StatisticsIInv'
  <1> SUFFICES ASSUME StatisticsIInv, CountExtra PROVE StatisticsIInv'
    OBVIOUS
  <1>1. /\ stage = "count" /\ stage' = "extra" /\ extra' = Len(data) - maxDuration
        /\ UNCHANGED <<windowSize, maxDuration, data, totalSize, isSteady, received>>
    BY DEF CountExtra
  <1>2. maxDuration \in Nat /\ Len(data) \in Nat
    BY FramesOf DEF StatisticsIInv, StatisticsAreTyped
  <1>3. Dropped' = Dropped /\ \A i : Distance(i)' = Distance(i) /\ InLimit(i)' = InLimit(i)
    BY <1>1 DEF Dropped, Distance, InLimit
  <1>4. extra' \in Int /\ extra' <= Len(data)
    BY <1>1, <1>2
  <1>5. StatisticsAreTyped'
    BY <1>1, <1>4 DEF StatisticsIInv, StatisticsAreTyped
  <1>6. WindowIsClosed'
    BY <1>1 DEF StatisticsIInv, WindowIsClosed
  <1>7. ReceivedAreKept'
    BY <1>1, <1>3 DEF StatisticsIInv, ReceivedAreKept
  <1> QED
    BY <1>5, <1>6, <1>7 DEF StatisticsIInv

(* What is left once the first frames are removed.                         *)
LEMMA RestIsSorted ==
  ASSUME NEW s \in Seq(Frames), Sorted(s), NEW k \in 0..Len(s), NEW t \in Seq(Frames),
         Len(t) = Len(s) - k, \A i \in 1..Len(s) - k : t[i] = s[k + i]
  PROVE  /\ Sorted(t)
         /\ t # <<>> => /\ s # <<>>
                        /\ t[Len(t)].timestamp - t[1].timestamp
                             <= s[Len(s)].timestamp - s[1].timestamp
  <1> DEFINE l == Len(s)
  <1>1. l \in Nat /\ \A i \in 1..l : s[i].timestamp \in Nat
    BY FramesOf
  <1>2. \A i, j \in 1..l : i <= j => s[i].timestamp <= s[j].timestamp
    BY DEF Sorted
  <1>3. k \in 0..l /\ Len(t) = l - k /\ \A i \in 1..l - k : t[i] = s[k + i]
    OBVIOUS
  <1>4. (t # <<>> => Len(t) # 0) /\ (s = <<>> => l = 0)
    BY EmptySeq
  <1> HIDE DEF l
  <1>5. Sorted(t)
    <2> SUFFICES ASSUME NEW i \in 1..l - k, NEW j \in 1..l - k, i <= j
                 PROVE  t[i].timestamp <= t[j].timestamp
      BY <1>3 DEF Sorted
    <2>1. k + i \in 1..l /\ k + j \in 1..l /\ k + i <= k + j
      BY <1>1, <1>3
    <2> QED
      BY <2>1, <1>2, <1>3
  <1>6. ASSUME t # <<>>
        PROVE  /\ s # <<>>
               /\ t[Len(t)].timestamp - t[1].timestamp <= s[l].timestamp - s[1].timestamp
    <2>1. /\ l - k \in 1..l - k /\ 1 \in 1..l - k /\ k + (l - k) = l
          /\ l \in 1..l /\ 1 \in 1..l /\ k + 1 \in 1..l /\ 1 <= k + 1 /\ l # 0
      BY <1>1, <1>3, <1>4, <1>6
    <2>2. t[Len(t)] = s[l] /\ t[1] = s[k + 1]
      BY <2>1, <1>3
    <2>3. s[1].timestamp <= s[k + 1].timestamp
      BY <2>1, <1>2
    <2> QED
      BY <2>1, <2>2, <2>3, <1>1, <1>4
  <1> QED
    BY <1>5, <1>6 DEF l

LEMMA RemoveExtraIsSound == StatisticsIInv /\ RemoveExtra => StatisticsIInv'
  <1> SUFFICES ASSUME StatisticsIInv, RemoveExtra PROVE StatisticsIInv'
    OBVIOUS
  <1> DEFINE l == Len(data)
             m == Len(received)
             k == IF extra > 0 /\ maxDuration > 0 THEN extra ELSE 0
  <1>1. /\ stage = "extra" /\ stage' = "free"
        /\ UNCHANGED <<windowSize, maxDuration, isSteady, received>>
    BY DEF RemoveExtra
  <1>2. /\ windowSize \in Nat /\ maxDuration \in Nat /\ data \in Seq(Frames) /\ Sorted(data)
        /\ totalSize = SizeOf(data) /\ received \in Seq(Frames)
        /\ \A i, j \in 1..Len(received) :
             i < j => received[i].timestamp < received[j].timestamp
        /\ received # <<>> => isSteady
        /\ extra \in Int /\ extra <= l
        /\ isSteady => extra = l - maxDuration
    BY <1>1 DEF StatisticsIInv, StatisticsAreTyped
  <1>3. l \in Nat /\ m \in Nat
    BY <1>2, FramesOf
  <1>4. k \in 0..l
    BY <1>2, <1>3
  <1>5. /\ data' \in Seq(Frames) /\ Len(data') = l - k /\ totalSize' = SizeOf(data')
        /\ \A i \in 1..l - k : data'[i] = data[k + i]
    <2>1. CASE extra > 0 /\ maxDuration > 0
      <3>1. k = extra /\ RemoveRange(data, 1, extra, totalSize)
        BY <2>1 DEF RemoveExtra
      <3>2. extra \in 0..Len(data)
        BY <3>1, <1>4
      <3> QED
        BY <3>1, <3>2, <1>2, FirstAreRemoved
    <2>2. CASE ~(extra > 0 /\ maxDuration > 0)
      <3>1. k = 0 /\ data' = data /\ totalSize' = totalSize
        BY <2>2 DEF RemoveExtra
      <3> QED
        BY <3>1, <1>2, <1>3
    <2> QED
      BY <2>1, <2>2
  <1>6. /\ Sorted(data')
        /\ data' # <<>> => /\ data # <<>>
                           /\ data'[Len(data')].timestamp - data'[1].timestamp
                                <= data[l].timestamp - data[1].timestamp
    BY <1>2, <1>4, <1>5, RestIsSorted
  <1>7. StatisticsAreTyped'
    BY <1>1, <1>2, <1>5, <1>6 DEF StatisticsAreTyped
  <1>8. WindowIsClosed'
    <2> SUFFICES ASSUME isSteady, data' # <<>>
                 PROVE  data'[Len(data')].timestamp - data'[1].timestamp <= windowSize
      BY <1>1 DEF WindowIsClosed
    <2>1. data # <<>> /\ data[l].timestamp - data[1].timestamp <= windowSize
      BY <1>1, <1>6 DEF StatisticsIInv, WindowIsClosed
    <2>2. l # 0 /\ Len(data') # 0
      BY <2>1, <1>2, <1>5, EmptySeq
    <2>3. /\ data[l].timestamp \in Nat /\ data[1].timestamp \in Nat
          /\ data'[Len(data')].timestamp \in Nat /\ data'[1].timestamp \in Nat
      <3>1. l \in 1..l /\ 1 \in 1..l /\ Len(data') \in 1..Len(data') /\ 1 \in 1..Len(data')
        BY <2>2, <1>3, <1>4, <1>5
      <3> QED
        BY <3>1, <1>2, <1>5, FramesOf
    <2> QED
      BY <2>1, <2>3, <1>2, <1>6
  <1>9. ReceivedAreKept'
    <2> SUFFICES ASSUME received # <<>> PROVE ReceivedAreKept'
      BY <1>1 DEF ReceivedAreKept
    <2>1. /\ m - l >= 0
          /\ \A i \in 1..l : data[i] = received[(m - l) + i]
          /\ \A i \in 1..m :
               /\ Distance(i) <= windowSize /\ -Distance(i) < windowSize /\ InLimit(i)
                    => i > m - l
               /\ i > m - l => -Distance(i) < windowSize /\ Distance(i) <= windowSize
      BY <1>1 DEF StatisticsIInv, ReceivedAreKept, Dropped
    <2>2. extra = l - maxDuration
      BY <1>2
    <2>3. \A i \in 1..m : /\ Distance(i)' = Distance(i) /\ InLimit(i)' = InLimit(i)
                          /\ InLimit(i) <=> (maxDuration > 0 => i > m - maxDuration)
      BY <1>1 DEF Distance, InLimit
    <2> HIDE DEF l, m
    <2>4. Dropped' = (m - l) + k
      BY <1>1, <1>3, <1>4, <1>5 DEF Dropped, m
    <2>5. Dropped' >= 0
      BY <2>1, <2>4, <1>3, <1>4
    <2>6. ASSUME NEW i \in 1..l - k PROVE data'[i] = received[Dropped' + i]
      <3>1. k + i \in 1..l /\ (m - l) + (k + i) = Dropped' + i
        BY <1>3, <1>4, <2>4
      <3> QED
        BY <3>1, <1>5, <2>1
    <2>7. ASSUME NEW i \in 1..m,
                 Distance(i) <= windowSize, -Distance(i) < windowSize, InLimit(i)
          PROVE  i > Dropped'
      <3>1. i > m - l
        BY <2>1, <2>7
      <3>2. maxDuration > 0 => i > m - maxDuration
        BY <2>3, <2>7
      <3> QED
        BY <3>1, <3>2, <2>2, <2>4, <1>2, <1>3
    <2>8. ASSUME NEW i \in 1..m, i > Dropped'
          PROVE  -Distance(i) < windowSize /\ Distance(i) <= windowSize /\ InLimit(i)
      <3>1. i > m - l
        BY <2>8, <2>4, <1>3, <1>4
      <3>2. maxDuration > 0 => i > m - maxDuration
        BY <2>8, <2>2, <2>4, <1>2, <1>3
      <3> QED
        BY <3>1, <3>2, <2>1, <2>3
    <2> QED
      BY <1>1, <1>5, <2>3, <2>5, <2>6, <2>7, <2>8 DEF ReceivedAreKept, m
  <1> QED
    BY <1>7, <1>8, <1>9 DEF StatisticsIInv

LEMMA StatisticsAreKept == StatisticsIInv /\ [StatisticsNext]_statisticsVars => StatisticsIInv'
  <1> SUFFICES ASSUME StatisticsIInv, [StatisticsNext]_statisticsVars PROVE StatisticsIInv'
    OBVIOUS
  <1>1. CASE \/ \E size \in WindowSizes : SetWindowSize(size)
             \/ \E limit \in FrameLimits : SetMaxDurationInFrames(limit)
    BY <1>1, SettersAreSound
  <1>2. CASE \E time \in FrameTimes, size \in FrameSizes : OnData(time, size)
    BY <1>2, OnDataIsSound
  <1>3. CASE Reset
    BY <1>3, ResetIsKept
  <1>4. CASE RemovePast
    BY <1>4, RemovePastIsSound
  <1>5. CASE CountExtra
    BY <1>5, CountExtraIsSound
  <1>6. CASE RemoveExtra
    BY <1>6, RemoveExtraIsSound
  <1>7. CASE BecomeIdle
    BY <1>7, NothingIsSound DEF BecomeIdle
  <1>8. CASE UNCHANGED statisticsVars
    BY <1>8, NothingIsSound DEF statisticsVars
  <1> QED
    BY <1>1, <1>2, <1>3, <1>4, <1>5, <1>6, <1>7, <1>8 DEF StatisticsNext

----------------------------------------------------------------------------
(* Media stream statistics: the rates.                                     *)

LEMMA WindowFollows == StatisticsIInv => WindowIsKept
  <1> SUFFICES ASSUME StatisticsIInv PROVE WindowIsKept
    OBVIOUS
  <1> DEFINE l == Len(data)
  <1>1. data \in Seq(Frames) /\ totalSize = SizeOf(data) /\ Sorted(data)
    BY DEF StatisticsIInv, StatisticsAreTyped
  <1>2. HasMediaData <=> data # <<>>
    BY <1>1, SizeIsNumber DEF HasMediaData
  <1>3. \A i \in 2..l : data[i - 1].timestamp <= data[i].timestamp
    <2>1. l \in Nat
      BY <1>1, FramesOf
    <2>2. \A i \in 2..l : i - 1 \in 1..l /\ i \in 1..l /\ i - 1 <= i
      BY <2>1
    <2> QED
      BY <2>2, <1>1 DEF Sorted
  <1>4. stage = "free" /\ isSteady /\ data # <<>> => Interval <= windowSize
    BY DEF StatisticsIInv, WindowIsClosed, Interval, Last
  <1>5. stage = "free" /\ received # <<>> => IsLastFrames
    <2> SUFFICES ASSUME stage = "free", received # <<>> PROVE IsLastFrames
      OBVIOUS
    <2>1. /\ Dropped >= 0
          /\ \A i \in 1..Len(data) : data[i] = received[Dropped + i]
          /\ \A i \in 1..Len(received) :
               i > Dropped <=> /\ Distance(i) <= windowSize /\ -Distance(i) < windowSize
                               /\ InLimit(i)
      BY DEF StatisticsIInv, ReceivedAreKept
    <2> QED
      BY <2>1 DEF IsLastFrames, Last, Dropped, Distance, InLimit
  <1> QED
    BY <1>1, <1>2, <1>3, <1>4, <1>5 DEF WindowIsKept

(* The arithmetic of the rates.                                            *)
LEMMA ProductsAreOrdered ==
  ASSUME NEW a \in Nat, NEW b \in Nat, NEW c \in Nat, a <= b
  PROVE  c * a <= c * b
  <1>1. b - a \in Nat /\ c * (b - a) \in Nat
    OBVIOUS
  <1>2. c * b = c * a + c * (b - a)
    OBVIOUS
  <1> QED
    BY <1>1, <1>2

LEMMA QuotientOfMultiples ==
  ASSUME NEW a \in Nat, NEW b \in Nat \ {0}, NEW m \in Nat \ {0}
  PROVE  (m * a) \div (m * b) = a \div b
  <1> DEFINE r == a \div b
             x == m * a
             y == m * b
             p == x \div y
  <1>1. r \in Nat /\ b * r <= a /\ a + 1 <= b * r + b
    OBVIOUS
  <1>2. x \in Nat /\ y \in Nat \ {0}
    OBVIOUS
  <1>3. p \in Nat /\ y * p <= x /\ x < y * p + y
    <2> HIDE DEF x, y
    <2> QED
      BY <1>2
  <1> HIDE DEF r, p
  <1>4. m * (b * r) <= m * a /\ m * (a + 1) <= m * (b * r + b)
    <2>1. b * r \in Nat /\ b * r + b \in Nat /\ a + 1 \in Nat /\ m \in Nat
      BY <1>1
    <2>2. m * (b * r) <= m * a
      BY <2>1, <1>1, ProductsAreOrdered
    <2>3. m * (a + 1) <= m * (b * r + b)
      BY <2>1, <1>1, ProductsAreOrdered
    <2> QED
      BY <2>2, <2>3
  <1>5. y * r <= x /\ x < y * r + y
    <2>1. m * (b * r) = y * r /\ m * (b * r + b) = y * r + y /\ m * (a + 1) = x + m
      BY <1>1
    <2> HIDE DEF x, y
    <2>2. y * r \in Nat
      BY <1>1, <1>2
    <2> QED
      BY <2>1, <2>2, <1>2, <1>4 DEF x
  <1> HIDE DEF x, y
  <1>6. ~(p + 1 <= r)
    <2> SUFFICES ASSUME p + 1 <= r PROVE FALSE
      OBVIOUS
    <2>1. y * (p + 1) <= y * r
      BY <1>1, <1>2, <1>3, ProductsAreOrdered
    <2>2. y * (p + 1) = y * p + y
      BY <1>2, <1>3
    <2>3. y * p \in Nat /\ y * r \in Nat
      BY <1>1, <1>2, <1>3
    <2> QED
      BY <2>1, <2>2, <2>3, <1>2, <1>3, <1>5
  <1>7. ~(r + 1 <= p)
    <2> SUFFICES ASSUME r + 1 <= p PROVE FALSE
      OBVIOUS
    <2>1. y * (r + 1) <= y * p
      BY <1>1, <1>2, <1>3, ProductsAreOrdered
    <2>2. y * (r + 1) = y * r + y
      BY <1>1, <1>2
    <2>3. y * p \in Nat /\ y * r \in Nat
      BY <1>1, <1>2, <1>3
    <2> QED
      BY <2>1, <2>2, <2>3, <1>2, <1>3, <1>5
  <1>8. p = r
    BY <1>1, <1>3, <1>6, <1>7
  <1> QED
    BY <1>8 DEF p, r, x, y

(* Frames at equal distances.                                              *)
LEMMA TimesAreRegular ==
  ASSUME NEW s \in Seq(Frames), s # <<>>, NEW d \in Nat,
         \A i \in 2..Len(s) : s[i].timestamp = s[i - 1].timestamp + d
  PROVE  s[Len(s)].timestamp = s[1].timestamp + (Len(s) - 1) * d
  <1> DEFINE l == Len(s)
             Bad == {i \in 1..l : s[i].timestamp # s[1].timestamp + (i - 1) * d}
  <1>1. l \in Nat \ {0} /\ \A i \in 1..l : s[i].timestamp \in Nat
    BY FramesOf, EmptySeq
  <1>2. \A i \in 2..l : s[i].timestamp = s[i - 1].timestamp + d
    OBVIOUS
  <1> HIDE DEF l
  <1>3. Bad = {}
    <2> SUFFICES ASSUME Bad # {} PROVE FALSE
      OBVIOUS
    <2>1. PICK k \in Bad : \A m \in Bad : k <= m
      <3>1. Bad \in SUBSET Nat
        BY <1>1
      <3> HIDE DEF Bad
      <3> QED
        BY <3>1, LeastNumber
    <2>2. k \in 1..l /\ s[k].timestamp # s[1].timestamp + (k - 1) * d
      BY <2>1
    <2>3. k # 1
      <3>1. (1 - 1) * d = 0 /\ 1 \in 1..l
        BY <1>1
      <3> QED
        BY <3>1, <2>2, <1>1
    <2>4. k \in 2..l /\ k - 1 \in 1..l /\ ~(k <= k - 1)
      BY <2>2, <2>3, <1>1
    <2>5. s[k - 1].timestamp = s[1].timestamp + ((k - 1) - 1) * d
      BY <2>1, <2>4
    <2>6. s[k].timestamp = s[k - 1].timestamp + d
      BY <2>4, <1>2
    <2>7. (k - 1) * d = ((k - 1) - 1) * d + d /\ ((k - 1) - 1) * d \in Int
      BY <2>4
    <2> QED
      BY <2>2, <2>4, <2>5, <2>6, <2>7, <1>1
  <1>4. l \in 1..l
    BY <1>1
  <1>5. s[l].timestamp = s[1].timestamp + (l - 1) * d
    BY <1>3, <1>4
  <1> QED
    BY <1>5 DEF l

LEMMA RatesFollow == StatisticsIInv => RatesAreExact
  <1> SUFFICES ASSUME StatisticsIInv, stage = "free" PROVE
         /\ data # <<>> =>
              \A d \in 1..Interval, size \in {data[i].size : i \in DOMAIN data} :
                /\ \A i \in DOMAIN data : data[i].size = size
                /\ \A i \in 2..Len(data) : data[i].timestamp = data[i - 1].timestamp + d
                /\ ~isIdle
                => /\ Bitrate = (size * 8 * TimeUnit) \div d
                   /\ FramesPerInterval * d = TimeUnit * Interval
         /\ isIdle => Bitrate = 0 /\ FramesPerInterval = 0
    BY DEF RatesAreExact
  <1>1. isIdle => Bitrate = 0 /\ FramesPerInterval = 0
    BY DEF Bitrate, FramesPerInterval
  <1>2. ASSUME data # <<>>, NEW d \in 1..Interval, NEW size \in {data[i].size : i \in DOMAIN data},
               \A i \in DOMAIN data : data[i].size = size,
               \A i \in 2..Len(data) : data[i].timestamp = data[i - 1].timestamp + d, ~isIdle
        PROVE  /\ Bitrate = (size * 8 * TimeUnit) \div d
               /\ FramesPerInterval * d = TimeUnit * Interval
    <2> DEFINE l == Len(data)
               q == l - 1
               a == size * 8 * TimeUnit
    <2>1. data \in Seq(Frames) /\ totalSize = SizeOf(data)
      BY DEF StatisticsIInv, StatisticsAreTyped
    <2>2. /\ l \in Nat \ {0} /\ DOMAIN data = 1..l
          /\ \A i \in 1..l : data[i].timestamp \in Nat /\ data[i].size \in Nat \ {0}
      BY <2>1, <1>2, FramesOf, EmptySeq
    <2>3. l \in 1..l /\ 1 \in 1..l
      BY <2>2
    <2>4. Interval = data[l].timestamp - data[1].timestamp /\ Interval \in Int
      BY <2>2, <2>3 DEF Interval, Last
    <2>5. d \in Nat \ {0} /\ Interval > 0
      BY <2>4
    <2>6. data[l].timestamp = data[1].timestamp + q * d
      BY <1>2, <2>1, <2>5, TimesAreRegular
    <2>7. size \in Nat \ {0} /\ data[l].size = size /\ \A i \in 1..l : data[i].size = size
      BY <1>2, <2>2, <2>3
    <2>8. totalSize = l * size
      BY <2>1, <2>7, SizeOfEqual
    <2> HIDE DEF l
    <2>9. q \in Nat /\ q * d \in Nat /\ (l * size) - size = q * size
      BY <2>2, <2>5, <2>7
    <2>10. Interval = q * d
      <3> HIDE DEF q
      <3> QED
        BY <2>2, <2>3, <2>4, <2>6, <2>9
    <2>11. q \in Nat \ {0}
      BY <2>5, <2>9, <2>10
    <2> HIDE DEF q
    <2>12. TimeUnit \in Nat
      BY StatisticsAssumption
    <2>13. Bitrate = (q * size * 8 * TimeUnit) \div (q * d)
      <3>1. Bitrate = ((totalSize - data[l].size) * 8 * TimeUnit) \div Interval
        BY <1>2, <2>5 DEF Bitrate, Last, l
      <3>2. totalSize - data[l].size = q * size
        BY <2>7, <2>8, <2>9
      <3> QED
        BY <3>1, <3>2, <2>10
    <2>14. q * size * 8 * TimeUnit = q * a /\ a \in Nat
      BY <2>7, <2>11, <2>12
    <2> HIDE DEF a
    <2>15. (q * a) \div (q * d) = a \div d
      BY <2>5, <2>11, <2>14, QuotientOfMultiples
    <2>16. Bitrate = a \div d
      BY <2>13, <2>14, <2>15
    <2>17. FramesPerInterval = q * TimeUnit
      BY <1>2, <2>5 DEF FramesPerInterval, q, l
    <2>18. (q * TimeUnit) * d = TimeUnit * (q * d)
      BY <2>5, <2>11, <2>12
    <2> QED
      BY <2>10, <2>16, <2>17, <2>18 DEF a
  <1> QED
    BY <1>1, <1>2

(* The rates of the media stream are right: the kept frames are exactly    *)
(* the received ones of the last window and of the limit, their sum is the *)
(* sum of their sizes, and of regular frames the rates are exact, for      *)
(* every number of frames and every change of the settings between two     *)
(* reads of them.                                                          *)
THEOREM RatesAreRight == StatisticsSpec => []StatisticsAreRight
  <1>1. StatisticsIInv => StatisticsAreRight
    BY WindowFollows, RatesFollow DEF StatisticsAreRight
  <1> QED
    BY StatisticsBegins, StatisticsAreKept, <1>1, PTL DEF StatisticsSpec

----------------------------------------------------------------------------
(* PluginSession.  The local variables of the test are a prefix of one     *)
(* list of scopes, and perhaps an answer; the counters follow from it.     *)

Extras == {Nothing, "text", "message"}

ScopeAt(i) ==
  IF i <= 3 THEN "integration"
  ELSE IF i = 4 THEN "engine" ELSE IF i = 5 THEN "deviceInfo" ELSE "agent"

HeldIs(n, e) ==
  /\ held \in Seq(Objects)
  /\ Len(held) = (IF e = Nothing THEN n ELSE n + 1)
  /\ \A i \in 1..n : held[i] = ScopeAt(i)
  /\ e # Nothing => held[n + 1] = e

RefsAre(n, e) ==
  /\ refs \in [Objects -> Nat]
  /\ refs["integration"] = (IF n <= 3 THEN n ELSE 3)
  /\ refs["engine"] = (IF n >= 4 THEN 1 ELSE 0)
  /\ refs["deviceInfo"] = (IF n >= 5 THEN 1 ELSE 0)
  /\ refs["agent"] = (IF n <= 5 THEN 0 ELSE n - 5)
  /\ refs["text"] = (IF e = "text" THEN 1 ELSE 0)
  /\ refs["message"] = (IF e = "message" THEN 1 ELSE 0)
  /\ refs["provider"] = (IF member["integration"] = Nothing THEN 0 ELSE 1)
  /\ refs["engineHandler"] = (IF member["engine"] = Nothing THEN 0 ELSE 1)
  /\ refs["agentHandler"] = (IF member["agent"] = Nothing THEN 0 ELSE 1)

(* Only the destructor of an owner may still find a member when nobody     *)
(* refers to the owner.                                                    *)
MembersAre ==
  /\ member \in [Objects -> Objects \union {Nothing}]
  /\ \A o \in Objects : member[o] # Nothing =>
       /\ <<o, member[o]>> \in {<<"integration", "provider">>, <<"engine", "engineHandler">>,
                                <<"agent", "agentHandler">>}
       /\ refs[o] > 0 \/ dying = <<o>>

DyingIs == dying = <<>> \/ \E o \in Objects : dying = <<o>> /\ refs[o] = 0

Shape(n, e) == HeldIs(n, e) /\ RefsAre(n, e) /\ MembersAre /\ DyingIs

(* Where the test is tells what it holds, but for the scopes it leaves and *)
(* for an answer that is an error or nothing.                              *)
PointIs(n, e) ==
  /\ point \in {"load", "integration", "end"} => n = 0 /\ dying = <<>>
  /\ point = "selected" => n = 1
  /\ point \in {"provider", "query"} => n = 2
  /\ point \in {"manifest", "manifestText", "createEngine"} => n = 3
  /\ point = "engine" => (n = 4 /\ e = Nothing) \/ (n = 3 /\ e # "text")
  /\ point \in {"engineHandler", "engineManifest", "engineText", "emptySettings",
                "emptyAnswer", "settings", "answer", "deviceDependent"} => n = 4
  /\ point = "obtainAgent" => n = 5
  /\ point = "agent" => (n = 6 /\ e = Nothing) \/ (n = 5 /\ e # "text")
  /\ point = "compressed" => n = 6
  /\ point \in {"agentHandler", "agentManifest", "agentText", "emptyAgentSettings",
                "emptyAgentAnswer", "lastSettings", "lastAnswer", "agentSettings",
                "agentAnswer", "types", "typesAnswer", "packet", "packetAnswer"} => n = 7
  /\ e # Nothing => point \in {"manifestText", "engine", "engineText", "emptyAnswer",
                               "answer", "agent", "agentText", "emptyAgentAnswer",
                               "lastAnswer", "agentAnswer", "typesAnswer", "packetAnswer",
                               "leave"}
  /\ point \in {"selected", "provider"} => member["integration"] = Nothing
  /\ point \in {"engine", "engineHandler"} => member["engine"] = Nothing
  /\ point \in {"agent", "compressed", "agentHandler"} => member["agent"] = Nothing
  /\ ~loaded => point \in {"load", "end"}
  /\ point \notin {"load", "integration", "end"} => instance < InstanceCount

SessionInv ==
  /\ instance \in 0..InstanceCount /\ loaded \in BOOLEAN /\ failed \in BOOLEAN
  /\ \E n \in 0..7, e \in Extras : Shape(n, e) /\ PointIs(n, e)

(* What a call leaves when it only changes what the test holds.            *)
Leaves(n, e, next) ==
  /\ Shape(n, e)' /\ point' = next /\ failed' \in {failed, TRUE}
  /\ UNCHANGED <<instance, member, loaded>>

LEMMA SessionShapeKept ==
  ASSUME NEW n \in 0..7, NEW e \in Extras, Shape(n, e), UNCHANGED <<held, refs, member, dying>>
  PROVE  Shape(n, e)'
  BY DEF Shape, HeldIs, RefsAre, MembersAre, DyingIs

LEMMA SessionGoes ==
  ASSUME NEW n \in 0..7, NEW e \in Extras, NEW next, Shape(n, e), GoTo(next) \/ (Throw /\ next = "leave")
  PROVE  Leaves(n, e, next)
  <1>1. /\ UNCHANGED <<held, refs, member, dying>>
        /\ point' = next /\ failed' \in {failed, TRUE} /\ UNCHANGED <<instance, member, loaded>>
    BY DEF GoTo, Throw
  <1> QED
    BY <1>1, SessionShapeKept DEF Leaves

(* The next scope is entered.                                              *)
LEMMA SessionHolds ==
  ASSUME NEW n \in 0..6, NEW next, Shape(n, Nothing), dying = <<>>, Hold(ScopeAt(n + 1), next)
  PROVE  Leaves(n + 1, Nothing, next)
  <1> DEFINE o == ScopeAt(n + 1)
  <1>1. /\ held' = Append(held, o) /\ refs' = [refs EXCEPT ![o] = @ + 1]
        /\ point' = next /\ UNCHANGED <<instance, member, dying, loaded, failed>>
    BY DEF Hold
  <1>2. o \in Objects
    BY DEF ScopeAt, Objects, PluginObjects
  <1>3. HeldIs(n + 1, Nothing)'
    <2>1. held \in Seq(Objects) /\ Len(held) = n /\ \A i \in 1..n : held[i] = ScopeAt(i)
      BY DEF Shape, HeldIs
    <2>2. /\ held' \in Seq(Objects) /\ Len(held') = n + 1
          /\ \A i \in 1..n : held'[i] = held[i]
          /\ held'[n + 1] = o
      <3> HIDE DEF o
      <3> QED
        BY <1>1, <1>2, <2>1
    <2> HIDE DEF o
    <2>3. \A i \in 1..n + 1 : held'[i] = ScopeAt(i)
      <3> SUFFICES ASSUME NEW i \in 1..n + 1 PROVE held'[i] = ScopeAt(i)
        OBVIOUS
      <3>1. CASE i = n + 1
        BY <2>2, <3>1 DEF o
      <3>2. CASE i \in 1..n
        BY <2>1, <2>2, <3>2
      <3> QED
        BY <3>1, <3>2
    <2> QED
      BY <2>2, <2>3 DEF HeldIs
  <1>4. RefsAre(n + 1, Nothing)'
    BY <1>1 DEF Shape, RefsAre, ScopeAt, Objects, PluginObjects, Nothing
  <1>5. MembersAre'
    BY <1>1, <1>2 DEF Shape, RefsAre, MembersAre
  <1>6. DyingIs'
    BY <1>1 DEF DyingIs
  <1> QED
    BY <1>1, <1>3, <1>4, <1>5, <1>6 DEF Leaves, Shape

(* An answer is held.                                                      *)
LEMMA SessionIsAnswered ==
  ASSUME NEW n \in 0..7, NEW next, NEW e \in {"text", "message"},
         Shape(n, Nothing), dying = <<>>, Hold(e, next)
  PROVE  Leaves(n, e, next)
  <1>1. /\ held' = Append(held, e) /\ refs' = [refs EXCEPT ![e] = @ + 1]
        /\ point' = next /\ UNCHANGED <<instance, member, dying, loaded, failed>>
    BY DEF Hold
  <1>2. e \in Objects /\ e # Nothing
    BY DEF Objects, PluginObjects, Nothing
  <1>3. HeldIs(n, e)'
    <2>1. held \in Seq(Objects) /\ Len(held) = n /\ \A i \in 1..n : held[i] = ScopeAt(i)
      BY DEF Shape, HeldIs
    <2>2. /\ held' \in Seq(Objects) /\ Len(held') = n + 1
          /\ \A i \in 1..n : held'[i] = held[i]
          /\ held'[n + 1] = e
      BY <1>1, <1>2, <2>1
    <2> QED
      BY <1>2, <2>1, <2>2 DEF HeldIs
  <1>4. RefsAre(n, e)'
    BY <1>1 DEF Shape, RefsAre, Objects, PluginObjects, Nothing
  <1>5. MembersAre'
    BY <1>1, <1>2 DEF Shape, RefsAre, MembersAre
  <1>6. DyingIs'
    BY <1>1 DEF DyingIs
  <1> QED
    BY <1>1, <1>3, <1>4, <1>5, <1>6 DEF Leaves, Shape

(* The last reference of the test is released.                             *)
LEMMA SessionDrops ==
  ASSUME NEW n \in 0..7, NEW e \in Extras, n > 0 \/ e # Nothing,
         Shape(n, e), dying = <<>>, Drop, UNCHANGED member
  PROVE  Shape(IF e = Nothing THEN n - 1 ELSE n, Nothing)'
  <1> DEFINE m == IF e = Nothing THEN n - 1 ELSE n
             o == Last(held)
  <1>1. /\ held' = Front(held) /\ refs' = [refs EXCEPT ![o] = @ - 1]
        /\ dying' = IF refs[o] = 1 THEN <<o>> ELSE <<>>
        /\ UNCHANGED member
    <2>1. dying' = IF refs[o] = 1 THEN Append(dying, o) ELSE dying
      BY DEF Drop
    <2>2. Append(dying, o) = <<o>>
      OBVIOUS
    <2> QED
      BY <2>1, <2>2 DEF Drop
  <1>2. /\ held \in Seq(Objects) /\ Len(held) = m + 1 /\ m \in Nat
        /\ \A i \in 1..m : held[i] = ScopeAt(i)
        /\ held[m + 1] = (IF e = Nothing THEN ScopeAt(n) ELSE e)
    BY DEF Shape, HeldIs
  <1>3. o = (IF e = Nothing THEN ScopeAt(n) ELSE e)
    BY <1>2 DEF Last
  <1>4. o \in Objects
    BY <1>3 DEF ScopeAt, Objects, PluginObjects, Extras
  <1>5. HeldIs(m, Nothing)'
    <2> HIDE DEF m
    <2>1. /\ held' \in Seq(Objects) /\ Len(held') = m
          /\ \A i \in 1..m : held'[i] = held[i]
      <3>1. held' = SubSeq(held, 1, m)
        BY <1>1, <1>2 DEF Front
      <3> QED
        BY <1>2, <3>1
    <2> QED
      BY <1>2, <2>1 DEF HeldIs
  <1> HIDE DEF o
  <1>6. RefsAre(m, Nothing)'
    <2>1. RefsAre(n, e)
      BY DEF Shape
    <2>2. CASE e = Nothing
      BY <1>1, <1>3, <2>1, <2>2 DEF RefsAre, ScopeAt, Objects, PluginObjects, Nothing
    <2>3. CASE e # Nothing
      BY <1>1, <1>3, <2>1, <2>3 DEF RefsAre, Objects, PluginObjects, Nothing, Extras
    <2> QED
      BY <2>2, <2>3
  <1>7. MembersAre'
    <2>1. refs \in [Objects -> Nat] /\ MembersAre
      BY DEF Shape, RefsAre
    <2>2. \A p \in Objects : refs[p] > 0 => refs'[p] > 0 \/ dying' = <<p>>
      BY <1>1, <1>4, <2>1
    <2> QED
      BY <1>1, <2>1, <2>2 DEF MembersAre
  <1>8. DyingIs'
    <2>1. refs \in [Objects -> Nat]
      BY DEF Shape, RefsAre
    <2> QED
      BY <1>1, <1>4, <2>1 DEF DyingIs
  <1> QED
    BY <1>5, <1>6, <1>7, <1>8 DEF Shape

(* What the test holds last.                                               *)
LEMMA SessionLast ==
  ASSUME NEW n \in 0..7, NEW e \in Extras, Shape(n, e)
  PROVE  /\ HoldsText <=> e = "text"
         /\ HoldsMessage <=> e = "message"
         /\ held = <<>> <=> n = 0 /\ e = Nothing
         /\ n > 0 /\ e = Nothing => Last(held) = ScopeAt(n)
         /\ e # Nothing => Last(held) = e
  <1>1. /\ held \in Seq(Objects) /\ Len(held) = (IF e = Nothing THEN n ELSE n + 1)
        /\ \A i \in 1..n : held[i] = ScopeAt(i)
        /\ e # Nothing => held[n + 1] = e
    BY DEF Shape, HeldIs
  <1>2. CASE e # Nothing
    <2>1. Len(held) = n + 1 /\ Last(held) = e /\ held # <<>>
      BY <1>1, <1>2 DEF Last
    <2> QED
      BY <1>2, <2>1 DEF HoldsText, HoldsMessage
  <1>3. CASE e = Nothing /\ n > 0
    <2>1. Len(held) = n /\ Last(held) = ScopeAt(n) /\ held # <<>>
      BY <1>1, <1>3 DEF Last
    <2>2. ScopeAt(n) \notin {"text", "message"}
      BY DEF ScopeAt
    <2> QED
      BY <1>3, <2>1, <2>2 DEF HoldsText, HoldsMessage, Nothing
  <1>4. CASE e = Nothing /\ n = 0
    <2>1. held = <<>>
      BY <1>1, <1>4
    <2> QED
      BY <1>4, <2>1 DEF HoldsText, HoldsMessage, Nothing
  <1> QED
    BY <1>2, <1>3, <1>4

(* An answer is forgotten.                                                 *)
LEMMA SessionForgets ==
  ASSUME NEW n \in 0..7, NEW e \in Extras, NEW next, Shape(n, e), dying = <<>>, Forget(next)
  PROVE  Leaves(n, Nothing, next)
  <1>1. point' = next /\ UNCHANGED <<instance, member, loaded, failed>>
    BY DEF Forget
  <1>2. HoldsText \/ HoldsMessage <=> e # Nothing
    BY SessionLast DEF Extras, Nothing
  <1>3. CASE e # Nothing
    <2>1. Drop
      BY <1>2, <1>3 DEF Forget
    <2> QED
      BY <1>1, <1>3, <2>1, SessionDrops DEF Leaves
  <1>4. CASE e = Nothing
    <2>1. UNCHANGED <<held, refs, dying>>
      BY <1>2, <1>4 DEF Forget
    <2> QED
      BY <1>1, <1>4, <2>1, SessionShapeKept DEF Leaves
  <1> QED
    BY <1>3, <1>4

(* An owner shares its handler.                                            *)
LEMMA SessionGives ==
  ASSUME NEW n \in 0..7, NEW e \in Extras, NEW next, NEW object, NEW owner,
         <<owner, object>> \in {<<"integration", "provider">>, <<"engine", "engineHandler">>,
                                <<"agent", "agentHandler">>},
         Shape(n, e), dying = <<>>, refs[owner] > 0, member[owner] = Nothing,
         Give(object, owner, next)
  PROVE  /\ Shape(n, e)' /\ point' = next /\ UNCHANGED <<instance, dying, loaded, failed>>
         /\ \A o \in Objects \ {owner} : member'[o] = member[o]
  <1>1. /\ refs' = [refs EXCEPT ![object] = @ + 1] /\ member' = [member EXCEPT ![owner] = object]
        /\ point' = next /\ UNCHANGED <<instance, held, dying, loaded, failed>>
    BY DEF Give
  <1>2. /\ refs \in [Objects -> Nat]
        /\ member \in [Objects -> Objects \union {Nothing}]
        /\ owner \in Objects /\ object \in Objects /\ object # owner
    BY DEF Shape, RefsAre, MembersAre, Objects, PluginObjects
  <1>3. HeldIs(n, e)'
    BY <1>1 DEF Shape, HeldIs
  <1>4. RefsAre(n, e)'
    <2>1. RefsAre(n, e) /\ Nothing \notin Objects
      BY DEF Shape, Objects, PluginObjects, Nothing
    <2>2. CASE owner = "integration" /\ object = "provider"
      BY <1>1, <1>2, <2>1, <2>2 DEF RefsAre, Objects, PluginObjects
    <2>3. CASE owner = "engine" /\ object = "engineHandler"
      BY <1>1, <1>2, <2>1, <2>3 DEF RefsAre, Objects, PluginObjects
    <2>4. CASE owner = "agent" /\ object = "agentHandler"
      BY <1>1, <1>2, <2>1, <2>4 DEF RefsAre, Objects, PluginObjects
    <2> QED
      BY <2>2, <2>3, <2>4
  <1>5. MembersAre'
    <2>1. MembersAre
      BY DEF Shape
    <2>2. member' \in [Objects -> Objects \union {Nothing}]
      BY <1>1, <1>2
    <2>3. \A o \in Objects : refs'[o] >= refs[o]
      BY <1>1, <1>2
    <2>4. ASSUME NEW o \in Objects, member'[o] # Nothing
          PROVE  /\ <<o, member'[o]>> \in {<<"integration", "provider">>,
                       <<"engine", "engineHandler">>, <<"agent", "agentHandler">>}
                 /\ refs'[o] > 0 \/ dying' = <<o>>
      <3>0. refs'[o] \in Nat /\ refs[o] \in Nat
        BY <1>1, <1>2
      <3>1. CASE o = owner
        BY <1>1, <1>2, <2>3, <3>0, <3>1
      <3>2. CASE o # owner
        BY <1>1, <1>2, <2>1, <2>3, <2>4, <3>0, <3>2 DEF MembersAre
      <3> QED
        BY <3>1, <3>2
    <2> QED
      BY <2>2, <2>4 DEF MembersAre
  <1>6. DyingIs'
    BY <1>1 DEF DyingIs
  <1> QED
    BY <1>1, <1>2, <1>3, <1>4, <1>5, <1>6 DEF Shape

(* A destructor releases the handler: an owner that dies has only that one.*)
LEMMA SessionDestroys ==
  ASSUME NEW n \in 0..7, NEW e \in Extras, Shape(n, e), DestroyMembers
  PROVE  /\ Shape(n, e)' /\ UNCHANGED <<point, instance, loaded, failed>>
         /\ dying # <<>>
         /\ \A o \in Objects : member'[o] = member[o] \/ member'[o] = Nothing
  <1>1. PICK o \in Objects : dying = <<o>> /\ refs[o] = 0
    BY DEF Shape, DyingIs, DestroyMembers
  <1> DEFINE m == member[o]
             isLast == m # Nothing /\ refs[m] = 1
  <1>2. Head(dying) = o /\ Tail(dying) = <<>>
    BY <1>1
  <1>3. /\ refs' = IF m = Nothing THEN refs ELSE [refs EXCEPT ![m] = @ - 1]
        /\ member' = [member EXCEPT ![o] = Nothing]
        /\ dying' = <<>> \o (IF isLast THEN <<m>> ELSE <<>>)
        /\ UNCHANGED <<point, instance, held, loaded, failed>>
    BY <1>2 DEF DestroyMembers
  <1>4. /\ refs \in [Objects -> Nat] /\ member \in [Objects -> Objects \union {Nothing}]
        /\ \A p \in Objects \ {o} : member[p] # Nothing => refs[p] > 0
    BY <1>1 DEF Shape, RefsAre, MembersAre
  <1>5. m # Nothing => /\ refs[m] = 1 /\ m # o /\ member[m] = Nothing
                       /\ <<o, m>> \in {<<"integration", "provider">>,
                            <<"engine", "engineHandler">>, <<"agent", "agentHandler">>}
    BY DEF Shape, RefsAre, MembersAre, Nothing
  <1>6. dying' = (IF m = Nothing THEN <<>> ELSE <<m>>)
    <2> HIDE DEF m
    <2> QED
      BY <1>3, <1>5
  <1>7. HeldIs(n, e)'
    BY <1>3 DEF Shape, HeldIs
  <1>8. RefsAre(n, e)'
    <2>1. RefsAre(n, e) /\ Nothing \notin Objects
      BY DEF Shape, Objects, PluginObjects, Nothing
    <2>2. CASE m = Nothing
      BY <1>3, <1>4, <2>1, <2>2 DEF RefsAre, Objects, PluginObjects
    <2>3. CASE o = "integration" /\ m = "provider"
      BY <1>3, <1>4, <1>5, <2>1, <2>3 DEF RefsAre, Objects, PluginObjects
    <2>4. CASE o = "engine" /\ m = "engineHandler"
      BY <1>3, <1>4, <1>5, <2>1, <2>4 DEF RefsAre, Objects, PluginObjects
    <2>5. CASE o = "agent" /\ m = "agentHandler"
      BY <1>3, <1>4, <1>5, <2>1, <2>5 DEF RefsAre, Objects, PluginObjects
    <2> HIDE DEF m
    <2> QED
      BY <1>5, <2>2, <2>3, <2>4, <2>5
  <1>9. MembersAre'
    <2>1. MembersAre
      BY DEF Shape
    <2>2. member' \in [Objects -> Objects \union {Nothing}]
      BY <1>3, <1>4
    <2>3. ASSUME NEW p \in Objects, member'[p] # Nothing
          PROVE  /\ <<p, member'[p]>> \in {<<"integration", "provider">>,
                       <<"engine", "engineHandler">>, <<"agent", "agentHandler">>}
                 /\ refs'[p] > 0
      <3>1. p # o /\ member'[p] = member[p]
        BY <1>3, <1>4, <2>3
      <3>2. p # m
        BY <1>5, <2>3, <3>1 DEF Objects, PluginObjects, Nothing
      <3>3. refs'[p] = refs[p]
        BY <1>3, <1>4, <3>1, <3>2
      <3> QED
        BY <1>4, <2>1, <2>3, <3>1, <3>3 DEF MembersAre
    <2> QED
      BY <2>2, <2>3 DEF MembersAre
  <1>10. DyingIs'
    <2>1. m # Nothing => m \in Objects /\ refs'[m] = 0
      BY <1>3, <1>4, <1>5
    <2> QED
      BY <1>6, <2>1 DEF DyingIs
  <1> QED
    BY <1>1, <1>3, <1>4, <1>7, <1>8, <1>9, <1>10 DEF Shape

(* A result is an answer, an error or nothing; an object may be obtained.  *)
LEMMA SessionAsks ==
  ASSUME NEW n \in 0..7, NEW next, Shape(n, Nothing), dying = <<>>, Answer(next)
  PROVE  \E e \in Extras : Leaves(n, e, next)
  <1>1. "text" \in Extras /\ "message" \in Extras /\ Nothing \in Extras
    BY DEF Extras
  <1>2. CASE Hold("text", next)
    BY <1>1, <1>2, SessionIsAnswered
  <1>3. CASE Hold("message", next)
    BY <1>1, <1>3, SessionIsAnswered
  <1>4. CASE GoTo(next)
    BY <1>1, <1>4, SessionGoes
  <1> QED
    BY <1>2, <1>3, <1>4 DEF Answer

LEMMA SessionObtains ==
  ASSUME NEW n \in 0..6, NEW next, Shape(n, Nothing), dying = <<>>,
         Obtain(ScopeAt(n + 1), next)
  PROVE  \/ Leaves(n + 1, Nothing, next)
         \/ \E e \in {"message", Nothing} : Leaves(n, e, next)
  <1>1. "message" \in Extras /\ Nothing \in Extras
    BY DEF Extras
  <1>2. CASE Hold(ScopeAt(n + 1), next)
    BY <1>2, SessionHolds
  <1>3. CASE Hold("message", next)
    BY <1>1, <1>3, SessionIsAnswered
  <1>4. CASE GoTo(next)
    BY <1>1, <1>4, SessionGoes
  <1> QED
    BY <1>2, <1>3, <1>4 DEF Obtain

(* Where the test arrives, the invariant holds again.                      *)
LEMMA SessionArrives ==
  ASSUME SessionInv, NEW n \in 0..7, NEW e \in Extras, NEW next,
         Leaves(n, e, next), PointIs(n, e)'
  PROVE  SessionInv'
  <1>1. instance' \in 0..InstanceCount /\ loaded' \in BOOLEAN /\ failed' \in BOOLEAN
    BY DEF SessionInv, Leaves
  <1> QED
    BY <1>1 DEF SessionInv, Leaves

LEMMA SessionLeaves ==
  ASSUME SessionInv, point \notin {"load", "integration", "end"}, Throw \/ GoTo("leave")
  PROVE  SessionInv'
  <1>1. PICK n \in 0..7, e \in Extras : Shape(n, e) /\ PointIs(n, e)
    BY DEF SessionInv
  <1>2. Leaves(n, e, "leave")
    BY <1>1, SessionGoes
  <1>3. PointIs(n, e)'
    BY <1>1, <1>2 DEF PointIs, Leaves
  <1> QED
    BY <1>2, <1>3, SessionArrives

LEMMA SessionAskStep ==
  ASSUME SessionInv, NEW at, NEW next, Asked(at, next),
         <<at, next>> \in {<<"manifest", "manifestText">>, <<"engineManifest", "engineText">>,
           <<"emptySettings", "emptyAnswer">>, <<"settings", "answer">>,
           <<"agentManifest", "agentText">>, <<"emptyAgentSettings", "emptyAgentAnswer">>,
           <<"lastSettings", "lastAnswer">>, <<"agentSettings", "agentAnswer">>}
  PROVE  SessionInv'
  <1>1. PICK n \in 0..7, e \in Extras : Shape(n, e) /\ PointIs(n, e)
    BY DEF SessionInv
  <1>2. point = at /\ dying = <<>> /\ Answer(next)
    BY DEF Asked, Running
  <1>3. e = Nothing
    BY <1>1, <1>2 DEF PointIs
  <1>4. PICK f \in Extras : Leaves(n, f, next)
    BY <1>1, <1>2, <1>3, SessionAsks
  <1>5. PointIs(n, f)'
    BY <1>1, <1>2, <1>4 DEF PointIs, Leaves
  <1> QED
    BY <1>4, <1>5, SessionArrives

LEMMA SessionForgetStep ==
  ASSUME SessionInv, NEW at, NEW next, Running(at), Forget(next),
         <<at, next>> \in {<<"manifestText", "createEngine">>, <<"engineText", "emptySettings">>,
           <<"emptyAnswer", "settings">>, <<"answer", "deviceDependent">>,
           <<"agentText", "emptyAgentSettings">>, <<"emptyAgentAnswer", "lastSettings">>,
           <<"emptyAgentAnswer", "agentSettings">>, <<"lastAnswer", "leave">>,
           <<"agentAnswer", "types">>, <<"typesAnswer", "packet">>, <<"packetAnswer", "leave">>}
  PROVE  SessionInv'
  <1>1. PICK n \in 0..7, e \in Extras : Shape(n, e) /\ PointIs(n, e)
    BY DEF SessionInv
  <1>2. point = at /\ dying = <<>> /\ Nothing \in Extras
    BY DEF Running, Extras
  <1>3. Leaves(n, Nothing, next)
    BY <1>1, <1>2, SessionForgets
  <1>4. PointIs(n, Nothing)'
    BY <1>1, <1>2, <1>3 DEF PointIs, Leaves
  <1> QED
    BY <1>2, <1>3, <1>4, SessionArrives

(* A scope is entered, or the test of this Integration ends.               *)
LEMMA SessionEnters ==
  ASSUME SessionInv, NEW n \in 0..6, NEW at, NEW next, Running(at), Hold(ScopeAt(n + 1), next),
         <<n, at, next>> \in {<<1, "selected", "provider">>, <<2, "query", "manifest">>,
           <<4, "deviceDependent", "obtainAgent">>, <<6, "compressed", "agentHandler">>}
  PROVE  SessionInv'
  <1>1. PICK m \in 0..7, e \in Extras : Shape(m, e) /\ PointIs(m, e)
    BY DEF SessionInv
  <1>2. point = at /\ dying = <<>> /\ Nothing \in Extras /\ n + 1 \in 0..7
    BY DEF Running, Extras
  <1>3. m = n /\ e = Nothing
    BY <1>1, <1>2 DEF PointIs
  <1>4. Leaves(n + 1, Nothing, next)
    BY <1>1, <1>2, <1>3, SessionHolds
  <1>5. PointIs(n + 1, Nothing)'
    BY <1>1, <1>2, <1>3, <1>4 DEF PointIs, Leaves
  <1> QED
    BY <1>2, <1>4, <1>5, SessionArrives

LEMMA SessionGiveStep ==
  ASSUME SessionInv, NEW n \in 0..7, NEW at, NEW next, NEW object, NEW owner,
         Running(at), Give(object, owner, next),
         <<n, owner, object, at, next>> \in {
           <<2, "integration", "provider", "provider", "query">>,
           <<4, "engine", "engineHandler", "engineHandler", "engineManifest">>,
           <<7, "agent", "agentHandler", "agentHandler", "agentManifest">>}
  PROVE  SessionInv'
  <1>1. PICK m \in 0..7, e \in Extras : Shape(m, e) /\ PointIs(m, e)
    BY DEF SessionInv
  <1>2. point = at /\ dying = <<>>
    BY DEF Running
  <1>3. m = n /\ e = Nothing /\ member[owner] = Nothing
    BY <1>1, <1>2 DEF PointIs
  <1>4. refs[owner] > 0
    BY <1>1, <1>3 DEF Shape, RefsAre
  <1>5. /\ Shape(n, e)' /\ point' = next /\ UNCHANGED <<instance, dying, loaded, failed>>
        /\ \A o \in Objects \ {owner} : member'[o] = member[o]
    BY <1>1, <1>2, <1>3, <1>4, SessionGives
  <1>6. PointIs(n, e)'
    BY <1>1, <1>2, <1>3, <1>5 DEF PointIs, Objects, PluginObjects
  <1> QED
    BY <1>5, <1>6 DEF SessionInv

(* An Engine or a Device Agent is asked for.                               *)
LEMMA SessionObtainStep ==
  ASSUME SessionInv, NEW n \in 0..6, NEW at, NEW next, NEW object,
         Running(at), Obtain(object, next),
         <<n, object, at, next>> \in {<<3, "engine", "createEngine", "engine">>,
                                      <<5, "agent", "obtainAgent", "agent">>}
  PROVE  SessionInv'
  <1>1. PICK m \in 0..7, e \in Extras : Shape(m, e) /\ PointIs(m, e)
    BY DEF SessionInv
  <1>2. point = at /\ dying = <<>> /\ n + 1 \in 0..7 /\ n \in 0..7
        /\ "message" \in Extras /\ Nothing \in Extras /\ object = ScopeAt(n + 1)
    BY DEF Running, Extras, ScopeAt
  <1>3. m = n /\ e = Nothing
    BY <1>1, <1>2 DEF PointIs
  <1>4. member[object] = Nothing
    BY <1>1, <1>2, <1>3 DEF Shape, RefsAre, MembersAre, Objects, PluginObjects
  <1>5. \/ Leaves(n + 1, Nothing, next)
        \/ \E f \in {"message", Nothing} : Leaves(n, f, next)
    BY <1>1, <1>2, <1>3, SessionObtains
  <1>6. CASE Leaves(n + 1, Nothing, next)
    <2>1. PointIs(n + 1, Nothing)'
      BY <1>1, <1>2, <1>3, <1>4, <1>6 DEF PointIs, Leaves
    <2> QED
      BY <1>2, <1>6, <2>1, SessionArrives
  <1>7. ASSUME NEW f \in {"message", Nothing}, Leaves(n, f, next)
        PROVE  SessionInv'
    <2>1. PointIs(n, f)'
      BY <1>1, <1>2, <1>3, <1>4, <1>7 DEF PointIs, Leaves, Nothing
    <2> QED
      BY <1>2, <1>7, <2>1, SessionArrives
  <1> QED
    BY <1>5, <1>6, <1>7

(* The library is loaded and unloaded with nothing held.                   *)
LEMMA SessionLibraryStep ==
  ASSUME SessionInv, Load \/ Unload \/ CreatePluginByIndex
  PROVE  SessionInv'
  <1>1. PICK n \in 0..7, e \in Extras : Shape(n, e) /\ PointIs(n, e)
    BY DEF SessionInv
  <1>2. point \in {"load", "integration"} /\ dying = <<>>
    BY DEF Load, Unload, CreatePluginByIndex, Running
  <1>3. n = 0 /\ e = Nothing
    BY <1>1, <1>2 DEF PointIs
  <1>4. CASE Load \/ Unload
    <2>1. UNCHANGED <<held, refs, member, dying, instance, failed>> /\ loaded' \in BOOLEAN
      BY <1>4 DEF Load, Unload
    <2>2. Shape(n, e)'
      BY <1>1, <2>1, SessionShapeKept
    <2>3. PointIs(n, e)'
      BY <1>2, <1>3, <1>4, <2>1 DEF PointIs, Load, Unload
    <2> QED
      BY <2>1, <2>2, <2>3 DEF SessionInv
  <1>5. CASE CreatePluginByIndex
    <2>1. 0 \in 0..6 /\ 1 \in 0..7 /\ 0 + 1 = 1 /\ ScopeAt(1) = "integration"
          /\ Nothing \in Extras
      BY DEF ScopeAt, Extras
    <2>2. instance < InstanceCount /\ Hold(ScopeAt(1), "selected") /\ point = "integration"
      BY <1>5, <2>1 DEF CreatePluginByIndex, Running
    <2>3. Leaves(1, Nothing, "selected")
      BY <1>1, <1>2, <1>3, <2>1, <2>2, SessionHolds
    <2>4. member["integration"] = Nothing
      BY <1>1, <1>2, <1>3 DEF Shape, RefsAre, MembersAre, Objects, PluginObjects
    <2>5. PointIs(1, Nothing)'
      BY <1>1, <2>2, <2>3, <2>4 DEF PointIs, Leaves
    <2> QED
      BY <2>1, <2>3, <2>5, SessionArrives
  <1> QED
    BY <1>4, <1>5

(* ASSERT_TRUE() of an object that was asked for.                          *)
LEMMA SessionIsGiven ==
  ASSUME SessionInv, IsEngine \/ IsAgent
  PROVE  SessionInv'
  <1>1. PICK n \in 0..7, e \in Extras : Shape(n, e) /\ PointIs(n, e)
    BY DEF SessionInv
  <1>2. point \in {"engine", "agent"} /\ dying = <<>>
    BY DEF IsEngine, IsAgent, Running
  <1>3. CASE Throw
    BY <1>2, <1>3, SessionLeaves
  <1>4. CASE IsEngine /\ ~Throw
    <2>1. point = "engine" /\ Last(held) = "engine" /\ GoTo("engineHandler")
      BY <1>4 DEF IsEngine, Running
    <2>2. n = 4 /\ e = Nothing
      BY <1>1, <2>1, SessionLast DEF PointIs, ScopeAt, Extras
    <2>3. Leaves(n, e, "engineHandler")
      BY <1>1, <2>1, SessionGoes
    <2>4. PointIs(n, e)'
      BY <1>1, <2>1, <2>2, <2>3 DEF PointIs, Leaves
    <2> QED
      BY <2>3, <2>4, SessionArrives
  <1>5. CASE IsAgent /\ ~Throw
    <2>1. point = "agent" /\ Last(held) = "agent" /\ GoTo("compressed")
      BY <1>5 DEF IsAgent, Running
    <2>2. n = 6 /\ e = Nothing
      BY <1>1, <2>1, SessionLast DEF PointIs, ScopeAt, Extras
    <2>3. Leaves(n, e, "compressed")
      BY <1>1, <2>1, SessionGoes
    <2>4. PointIs(n, e)'
      BY <1>1, <2>1, <2>2, <2>3 DEF PointIs, Leaves
    <2> QED
      BY <2>3, <2>4, SessionArrives
  <1> QED
    BY <1>3, <1>4, <1>5

(* Destructors run, and scopes are left.                                   *)
LEMMA SessionEnds ==
  ASSUME SessionInv, DestroyMembers \/ LeaveScope \/ NextInstance
  PROVE  SessionInv'
  <1>1. PICK n \in 0..7, e \in Extras : Shape(n, e) /\ PointIs(n, e)
    BY DEF SessionInv
  <1>2. CASE DestroyMembers
    <2>1. /\ Shape(n, e)' /\ UNCHANGED <<point, instance, loaded, failed>> /\ dying # <<>>
          /\ \A o \in Objects : member'[o] = member[o] \/ member'[o] = Nothing
      BY <1>1, <1>2, SessionDestroys
    <2>2. PointIs(n, e)'
      BY <1>1, <2>1 DEF PointIs, Objects, PluginObjects
    <2> QED
      BY <2>1, <2>2 DEF SessionInv
  <1>3. CASE LeaveScope
    <2>1. /\ point = "leave" /\ dying = <<>> /\ held # <<>> /\ Drop
          /\ UNCHANGED <<point, instance, member, loaded, failed>>
      BY <1>3 DEF LeaveScope, Running
    <2>2. n > 0 \/ e # Nothing
      BY <1>1, <2>1, SessionLast
    <2> DEFINE m == IF e = Nothing THEN n - 1 ELSE n
    <2>3. m \in 0..7 /\ Nothing \in Extras
      BY <2>2 DEF Extras
    <2>4. Shape(m, Nothing)'
      BY <1>1, <2>1, <2>2, SessionDrops
    <2>5. PointIs(m, Nothing)'
      BY <1>1, <2>1 DEF PointIs
    <2> HIDE DEF m
    <2> QED
      BY <2>1, <2>3, <2>4, <2>5 DEF SessionInv
  <1>4. CASE NextInstance
    <2>1. /\ point = "leave" /\ dying = <<>> /\ held = <<>>
          /\ UNCHANGED <<held, refs, member, dying, loaded, failed>>
      BY <1>4 DEF NextInstance, Running
    <2>2. n = 0 /\ e = Nothing
      BY <1>1, <2>1, SessionLast
    <2>3. \/ point' = "end" /\ instance' = instance
          \/ point' = "integration" /\ instance' = instance + 1
      BY <1>4 DEF NextInstance
    <2>4. instance' \in 0..InstanceCount
      BY <1>1, <2>1, <2>3, InstanceAssumption DEF PointIs, SessionInv
    <2>5. Shape(n, e)'
      BY <1>1, <2>1, SessionShapeKept
    <2>6. PointIs(n, e)'
      BY <1>1, <2>1, <2>2, <2>3 DEF PointIs
    <2> QED
      BY <2>1, <2>4, <2>5, <2>6 DEF SessionInv
  <1> QED
    BY <1>2, <1>3, <1>4

LEMMA SessionStutters ==
  ASSUME SessionInv, UNCHANGED sessionVars
  PROVE  SessionInv'
  <1>1. PICK n \in 0..7, e \in Extras : Shape(n, e) /\ PointIs(n, e)
    BY DEF SessionInv
  <1>2. Shape(n, e)'
    BY <1>1, SessionShapeKept DEF sessionVars
  <1>3. PointIs(n, e)'
    BY <1>1 DEF PointIs, sessionVars
  <1> QED
    BY <1>2, <1>3 DEF SessionInv, sessionVars

LEMMA SessionStarts == SessionInit => SessionInv
  <1> SUFFICES ASSUME SessionInit PROVE SessionInv
    OBVIOUS
  <1> USE DEF SessionInit
  <1>1. HeldIs(0, Nothing)
    <2>1. held \in Seq(Objects) /\ Len(held) = 0
      OBVIOUS
    <2> QED
      BY <2>1 DEF HeldIs
  <1>2. RefsAre(0, Nothing)
    BY DEF RefsAre, Objects, PluginObjects, Nothing
  <1>3. MembersAre /\ DyingIs
    BY DEF MembersAre, DyingIs
  <1>4. PointIs(0, Nothing)
    BY DEF PointIs
  <1>5. instance \in 0..InstanceCount /\ Nothing \in Extras /\ 0 \in 0..7
    BY InstanceAssumption DEF Extras
  <1> QED
    BY <1>1, <1>2, <1>3, <1>4, <1>5 DEF SessionInv, Shape

LEMMA SessionStep ==
  ASSUME SessionInv, SessionNext
  PROVE  SessionInv'
  <1>1. CASE Load \/ Unload \/ CreatePluginByIndex
    BY <1>1, SessionLibraryStep
  <1>2. CASE SelectInstance \/ QueryInterface \/ IsDeviceDependent
    <2>1. CASE GoTo("leave")
      BY <1>2, <2>1, SessionLeaves
      DEF SelectInstance, QueryInterface, IsDeviceDependent, Running
    <2>2. ScopeAt(2) = "integration" /\ ScopeAt(3) = "integration" /\ ScopeAt(5) = "deviceInfo"
      BY DEF ScopeAt
    <2>3. CASE Running("selected") /\ Hold("integration", "provider")
      <3>1. Hold(ScopeAt(1 + 1), "provider") /\ 1 \in 0..6
        BY <2>2, <2>3
      <3> QED
        BY <2>3, <3>1, SessionEnters
    <2>4. CASE Running("query") /\ Hold("integration", "manifest")
      <3>1. Hold(ScopeAt(2 + 1), "manifest") /\ 2 \in 0..6
        BY <2>2, <2>4
      <3> QED
        BY <2>4, <3>1, SessionEnters
    <2>5. CASE Running("deviceDependent") /\ Hold("deviceInfo", "obtainAgent")
      <3>1. Hold(ScopeAt(4 + 1), "obtainAgent") /\ 4 \in 0..6
        BY <2>2, <2>5
      <3> QED
        BY <2>5, <3>1, SessionEnters
    <2> QED
      BY <1>2, <2>1, <2>3, <2>4, <2>5 DEF SelectInstance, QueryInterface, IsDeviceDependent
  <1>3. CASE SetUtilityProvider
    BY <1>3, SessionGiveStep DEF SetUtilityProvider
  <1>4. CASE SetEngineHandler
    BY <1>4, SessionGiveStep DEF SetEngineHandler
  <1>5. CASE SetAgentHandler
    BY <1>5, SessionGiveStep DEF SetAgentHandler
  <1>6. ASSUME NEW at, NEW next, TextIsGood(at, next),
               <<at, next>> \in {<<"manifestText", "createEngine">>,
                 <<"engineText", "emptySettings">>, <<"agentText", "emptyAgentSettings">>}
        PROVE  SessionInv'
    <2>1. CASE Throw
      BY <1>6, <2>1, SessionLeaves DEF TextIsGood, Running
    <2>2. CASE Forget(next)
      BY <1>6, <2>2, SessionForgetStep DEF TextIsGood
    <2> QED
      BY <1>6, <2>1, <2>2 DEF TextIsGood
  <1>7. ASSUME NEW at, NEW next, IsOk(at, next) \/ IsAny(at, next),
               <<at, next>> \in {<<"emptyAnswer", "settings">>, <<"answer", "deviceDependent">>,
                 <<"lastAnswer", "leave">>, <<"agentAnswer", "types">>,
                 <<"typesAnswer", "packet">>, <<"packetAnswer", "leave">>}
        PROVE  SessionInv'
    <2>1. CASE Throw
      BY <1>7, <2>1, SessionLeaves DEF IsOk, IsAny, Running
    <2>2. CASE Forget(next)
      BY <1>7, <2>2, SessionForgetStep DEF IsOk, IsAny
    <2> QED
      BY <1>7, <2>1, <2>2 DEF IsOk, IsAny
  <1>8. CASE TestIntegrationManifest
    BY <1>6, <1>8, SessionAskStep DEF TestIntegrationManifest
  <1>9. CASE TestEngineManifest
    BY <1>6, <1>9, SessionAskStep DEF TestEngineManifest
  <1>10. CASE TestAgentManifest
    BY <1>6, <1>10, SessionAskStep DEF TestAgentManifest
  <1>11. CASE TestEngineSettings
    BY <1>7, <1>11, SessionAskStep DEF TestEngineSettings
  <1>12. CASE TestAgentSettings
    <2>1. CASE Asked("emptyAgentSettings", "emptyAgentAnswer")
      BY <2>1, SessionAskStep
    <2>2. CASE Running("emptyAgentAnswer") /\ Forget("lastSettings")
      BY <2>2, SessionForgetStep
    <2>3. CASE Running("emptyAgentAnswer") /\ Forget("agentSettings")
      BY <2>3, SessionForgetStep
    <2>4. CASE Asked("lastSettings", "lastAnswer") \/ Asked("agentSettings", "agentAnswer")
      BY <2>4, SessionAskStep
    <2>5. CASE IsAny("lastAnswer", "leave") \/ IsAny("agentAnswer", "types")
      BY <1>7, <2>5
    <2> QED
      BY <1>12, <2>1, <2>2, <2>3, <2>4, <2>5 DEF TestAgentSettings
  <1>13. CASE CreateEngine
    <2>1. 3 \in 0..6
      OBVIOUS
    <2> QED
      BY <1>13, <2>1, SessionObtainStep DEF CreateEngine
  <1>14. CASE ObtainDeviceAgent
    <2>1. 5 \in 0..6
      OBVIOUS
    <2> QED
      BY <1>14, <2>1, SessionObtainStep DEF ObtainDeviceAgent
  <1>15. CASE IsEngine \/ IsAgent
    BY <1>15, SessionIsGiven
  <1>16. CASE QueryConsuming
    <2>1. CASE Throw \/ GoTo("leave")
      BY <1>16, <2>1, SessionLeaves DEF QueryConsuming, Running
    <2>2. CASE Hold("agent", "agentHandler")
      <3>1. Hold(ScopeAt(6 + 1), "agentHandler") /\ 6 \in 0..6
        BY <2>2 DEF ScopeAt
      <3> QED
        BY <1>16, <3>1, SessionEnters DEF QueryConsuming
    <2> QED
      BY <1>16, <2>1, <2>2 DEF QueryConsuming
  <1>17. CASE TestAgentCalls
    <2>1. ASSUME NEW at, NEW next, Running(at), Hold("message", next) \/ GoTo(next),
                 <<at, next>> \in {<<"types", "typesAnswer">>, <<"packet", "packetAnswer">>}
          PROVE  SessionInv'
      <3>1. PICK n \in 0..7, e \in Extras : Shape(n, e) /\ PointIs(n, e)
        BY DEF SessionInv
      <3>2. point = at /\ dying = <<>>
        BY <2>1 DEF Running
      <3>3. e = Nothing
        BY <2>1, <3>1, <3>2 DEF PointIs
      <3>4. PICK f \in Extras : Leaves(n, f, next)
        BY <2>1, <3>1, <3>2, <3>3, SessionAsks DEF Answer
      <3>5. PointIs(n, f)'
        BY <2>1, <3>1, <3>2, <3>4 DEF PointIs, Leaves
      <3> QED
        BY <3>4, <3>5, SessionArrives
    <2> QED
      BY <1>7, <1>17, <2>1 DEF TestAgentCalls
  <1>18. CASE DestroyMembers \/ LeaveScope \/ NextInstance
    BY <1>18, SessionEnds
  <1> QED
    BY <1>1, <1>2, <1>3, <1>4, <1>5, <1>8, <1>9, <1>10, <1>11, <1>12, <1>13, <1>14,
       <1>15, <1>16, <1>17, <1>18 DEF SessionNext

(* Whatever the plugin answers, and wherever an assertion of               *)
(* analytics_plugin_ut fails, no object of the plugin is alive when its    *)
(* library is unloaded, an owner is alive as long as what it owns is used, *)
(* and at the end nothing is left, for any number of Integrations.         *)
THEOREM LibraryOutlivesObjects == SessionSpec => []NothingOutlivesItsOwner
  <1>1. SessionInv => NothingOutlivesItsOwner
    <2> SUFFICES ASSUME SessionInv PROVE NothingOutlivesItsOwner
      OBVIOUS
    <2>1. PICK n \in 0..7, e \in Extras : Shape(n, e) /\ PointIs(n, e)
      BY DEF SessionInv
    <2>2. RefsAre(n, e) /\ MembersAre
      BY <2>1 DEF Shape
    <2>3. point \in {"load", "end"} => n = 0 /\ e = Nothing /\ dying = <<>>
      BY <2>1 DEF PointIs
    <2>4. point \in {"load", "end"} => \A o \in PluginObjects : refs[o] = 0
      BY <2>2, <2>3 DEF RefsAre, PluginObjects, Nothing
    <2>5. point \in {"load", "end"} => \A o \in Objects : refs[o] = 0
      <3> SUFFICES ASSUME point \in {"load", "end"}, NEW o \in Objects PROVE refs[o] = 0
        OBVIOUS
      <3>1. \A p \in PluginObjects : member[p] = Nothing
        BY <2>2, <2>3, <2>4 DEF MembersAre, Objects
      <3> QED
        BY <2>2, <2>3, <2>4, <3>1 DEF RefsAre, Objects, PluginObjects
    <2>6. /\ refs["agent"] > 0 => refs["engine"] > 0
          /\ refs["engine"] > 0 => refs["integration"] > 0
      BY <2>2 DEF RefsAre
    <2>7. \A o \in Objects : member[o] # Nothing => refs[member[o]] > 0
      BY <2>2 DEF RefsAre, MembersAre, Nothing
    <2>8. ~loaded => point \in {"load", "end"}
      BY <2>1 DEF PointIs
    <2> QED
      BY <2>4, <2>5, <2>6, <2>7, <2>8 DEF NothingOutlivesItsOwner, Running
  <1>2. SessionInv /\ [SessionNext]_sessionVars => SessionInv'
    BY SessionStep, SessionStutters
  <1> QED
    BY <1>1, <1>2, SessionStarts, PTL DEF SessionSpec

=============================================================================

\* One Tweaks, which sets a field once: what is lost, a reload has overwritten.
CONSTANTS
  number = number
  string = string
  Reloaders = {r1}
  Tweakers = {"w1"}
  MaxGuards = 1
  ParamOrder <- MCParamOrder
  StringParams = {string}
  TweakedParams = {string}
  IniTexts <- MCIniTexts
  NoLine = "NoLine"
  NoText = "NoText"
  BadText = "BadText"
  DefaultValue = "default"
  NoReloader = NoReloader
SPECIFICATION IniSpec
INVARIANTS
  TweaksLast
CHECK_DEADLOCK FALSE

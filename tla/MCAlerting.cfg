SPECIFICATION MCSpec
CONSTANTS
  c1 = c1
  c2 = c2
  c3 = c3
  brute = brute
  cpu = cpu
  bruteRule = bruteRule
  cpuRule = cpuRule
  Calls = {c1, c2, c3}
  Keys = {brute, cpu}
  EngineKeys = {brute}
  Rules = {bruteRule, cpuRule}
  RuleOf <- MCRuleOf
  MaxToggles = 1
  NoAlert = NoAlert
  Servers = {"s1", "s2"}
  Names = {"cpu", "memory"}
  OldRows = 3
  MaxCrashes = 1
  MaxSeeds = 1
  MaxUpdates = 1
INVARIANTS
  DuplicatesNeedOverlap
  DisabledRuleIsQuiet
  ConditionHasAlert
  UniqueWhenServing
PROPERTIES
  CorrelationsAreBroadcast
  SettingsSurvive
  ServesInTheEnd
CHECK_DEADLOCK FALSE

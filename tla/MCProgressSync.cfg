SPECIFICATION SharedSpec
CONSTANTS
  p1 = p1
  p2 = p2
  p3 = p3
  first = first
  second = second
  None = None
  s1 = s1
  s2 = s2
  i1 = i1
  w1 = w1
  Players = {p1, p2, p3}
  Stages = {s1, s2}
  Items = {i1}
  Flags = {w1}
  Facts = {first, second}
  StageFacts = {first}
  Needs <- MCNeeds
  Trades = 2
  MaxKeys = 1
  MaxOffering = 1
  MaxLocals = 3
  MaxMoves = 1
  Kinds = {"poe", "fish", "tear", "life", "rupee", "bottle", "check"}
  Direct = {TRUE, FALSE}
  Cap = 3
  MaxPickups = 4
  MaxResets = 1
SYMMETRY Symmetry
CHECK_DEADLOCK FALSE
INVARIANTS   CountersSafety
PROPERTIES QuestAdvances

SPECIFICATION FairSpec
CONSTANTS
  Display = Display
  Hopper = Hopper
  Copying = Copying
  Faulty = Faulty
  Script = Script
  DisplayActs = 4
  CopyingActs = 5
  FewActs = 3
  DisplayCommands = {"new", "cut", "delete", "paste", "ungroup", "abstract", "abstractfully", "regen", "detail", "detailfully", "redetail", "abstractall", "detailall", "redetailall", "deletedescendants", "quiet"}
  CopyingCommands = {"new", "copy", "cut", "paste", "abstract", "detail"}
  ScriptCommands = {"new", "copy", "cut", "delete", "paste", "group", "ungroup", "abstract", "abstractfully", "regen", "detail", "detailfully", "redetail", "abstractall", "detailall", "redetailall", "deletedescendants", "quiet"}
  Sessions = {Display, Hopper, Copying, Faulty, Script}
  Acts <- MCActs
  Types = {"leaf", "pair", "deep", "nest"}
  Method <- MCMethod
  Program <- MCProgram
  Redetail = TRUE
  Commands <- MCCommands
  Named <- MCNamed
  Fuels <- MCFuels
  NewTypes <- MCNewTypes
  Instances <- MCInstances
  Roots <- MCRoots
  Selections <- MCSelections
INVARIANTS
  FamiliesAgree
  DisplayIsACut
  CreationFollowsActivity
PROPERTIES
  FamiliesTravel
  QuietCommandsEnd
CHECK_DEADLOCK FALSE

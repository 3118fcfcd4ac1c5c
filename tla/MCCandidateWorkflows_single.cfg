\* One run of any workflow on any input, with every way an attempt can fail.
SPECIFICATION FairSpec
CONSTANTS
  Messages = {m1}
  NoMessage = NoMessage
  Keys <- MCKeys
  FollowUps = {}
  Edits = {}
  Runs = {r1}
  Workflows <- AllWorkflows
  Decisions = {}
CHECK_DEADLOCK FALSE
PROPERTIES
  StageMovesForward
  RunsEnd
  RunsAreDurable

\* Two runs on one candidate, with human decisions and the
\* API's writes between their activities.
SPECIFICATION Spec
CONSTANTS
  Messages = {m1}
  NoMessage = NoMessage
  Keys <- PairKeys
  FollowUps = {}
  Edits <- PairEdits
  Runs = {r1, r2}
  Workflows <- SideBySide
  Decisions = {"paused", "qualified"}
SYMMETRY Symmetry
CHECK_DEADLOCK FALSE
INVARIANTS
  TypeOK
  CompletedMeansDone
  ContactedHasRows
  CompletedIsRecorded

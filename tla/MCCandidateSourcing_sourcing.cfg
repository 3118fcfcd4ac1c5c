\* One candidate, two calls at a time.
SPECIFICATION Spec
CONSTANTS
  Candidates = {c1}
  Calls = {s1, s2}
  Profiles <- MCProfiles
  Matches <- MCMatches
  Handles = {FALSE}
  Forms <- MCForms
  Decisions = {"discarded"}
  RunStages = {"contacted"}
  MaxLate = 1
SYMMETRY Symmetry
INVARIANTS
  TypeOK
  UnmarkedIsStarted
  DecisionStands

\* One API process and one run of the worker on a first mail and its follow-up.
SPECIFICATION SystemSpec
CONSTANTS
  Messages = {m1}
  NoMessage = NoMessage
  Keys <- WithFollowUp
  LinkedIn = {}
  FollowUps <- MCFollowUps
  Servers = {s1}
  MaxAppends = 2
  Requested = {"sent", "replied"}
  Reviews = {"approved"}
  Reports = {}
  Threads <- MCThreads
  Attempts = {0}
  Runs = {r1}
  Workflows <- FewAttempts
  Decisions = {}
CHECK_DEADLOCK FALSE
INVARIANTS
  SendIsLicensed
  SentShowsDelivered
PROPERTIES
  PreparationIsCurrent
  ApiIsImplemented
  WorkerIsImplemented

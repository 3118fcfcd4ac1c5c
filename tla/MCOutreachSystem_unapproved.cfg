\* One API process and one lifecycle run on one e-mail interaction.
SPECIFICATION SystemSpec
CONSTANTS
  Messages = {m1}
  NoMessage = NoMessage
  Keys <- MCKeys
  LinkedIn = {}
  FollowUps = {}
  Servers = {s1}
  MaxAppends = 3
  Requested = {"sent", "discarded"}
  Reviews = {"approved"}
  Reports = {}
  Threads = {}
  Attempts = {}
  Runs = {r1}
  Workflows <- OnlyLifecycle
  Decisions = {"paused"}
CHECK_DEADLOCK FALSE
INVARIANT WorkerPostsApproved

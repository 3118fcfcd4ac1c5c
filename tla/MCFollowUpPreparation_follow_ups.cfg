\* Two API processes: the first contact and two follow-ups of one thread.
SPECIFICATION FollowUpSpec
CONSTANTS
  Messages = {m1}
  NoMessage = NoMessage
  first = first
  step1 = step1
  step2 = step2
  Keys = {first, step1, step2}
  FollowUps = {step1, step2}
  LinkedIn = {}
  Servers = {s1, s2}
  MaxAppends = 2
  Requested = {"sent"}
  Reviews = {"approved"}
  Reports = {}
  Threads <- MCThreads
  Attempts = {0, 1}
INVARIANTS
  FollowUpTypeOK
  FollowUpsInOrder
  DeliveredWasApproved
SYMMETRY Symmetry

\* Two API processes on one LinkedIn row: handlers overlap, updates get lost.
SPECIFICATION Spec
CONSTANTS
  Messages = {m1, m2}
  NoMessage = NoMessage
  Keys = {linkedin}
  LinkedIn = {linkedin}
  FollowUps = {}
  Servers = {s1, s2}
  MaxAppends = 2
  Requested = {"approved", "sent"}
  Reviews = {"pending", "approved"}
  Reports = {"sent"}
SYMMETRY Symmetry
INVARIANT DeliveredWasApproved

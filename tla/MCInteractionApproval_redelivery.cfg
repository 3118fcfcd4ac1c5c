SPECIFICATION Spec
CONSTANTS
  Messages = {m1}
  NoMessage = NoMessage
  Keys = {email}
  LinkedIn = {}
  FollowUps = {}
  Servers = {s1}
  MaxAppends = 2
  Requested = {"approved", "sent", "replied", "discarded"}
  Reviews = {"pending", "approved"}
  Reports = {}
PROPERTY OneDeliveryPerApproval

\* A plan change overlaps a webhook; Stripe keeps the order.
SPECIFICATION Spec
CONSTANTS
  s1 = s1
  s2 = s2
  r1 = r1
  r2 = r2
  Subs = {s1, s2}
  Requests = {r1, r2}
  Ordered = TRUE
  MaxLive = 1
  MaxCustomers = 2
  MaxEvents = 4
SYMMETRY Symmetry
INVARIANTS WebhookIsSourceOfTruth

\* Two checkout sessions are paid: Stripe keeps the order, and the API does one thing
\* at a time.
SPECIFICATION Spec
CONSTANTS
  s1 = s1
  s2 = s2
  r1 = r1
  r2 = r2
  Subs = {s1, s2}
  Requests = {r1}
  Ordered = TRUE
  MaxLive = 2
  MaxCustomers = 1
  MaxEvents = 8
SYMMETRY Symmetry
INVARIANTS KeepsPaidFeatures

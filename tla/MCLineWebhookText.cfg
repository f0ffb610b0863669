SPECIFICATION LineSteadySpec
CONSTANTS
  w1 = w1  w2 = w2  a1 = a1  a2 = a2  k1 = k1  k2 = k2  c1 = c1  c2 = c2
  i1 = i1  i2 = i2  i3 = i3 
  Webhooks = {w1}
  Admins = {a1}
  LineUsers = {k1, k2}
  Customers = {c1, c2}
  WithOpenCase = {c1}
  IdentityIds = {i1, i2, i3}
  Deliveries <- MCDeliveries
  Events <- MCTextEvents
  Attempts <- MCOnce
  Links <- MCLinks
CHECK_DEADLOCK FALSE
PROPERTY TextRecorded

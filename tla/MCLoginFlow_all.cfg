\* A login that ends in a code and one redirected with its tokens, of two users; two requests and two exchanges
\* at a time; the clock passes the expiry of the code.
CONSTANTS
  l1 = l1
  l2 = l2
  alice = alice
  bob = bob
  Logins <- AllLogins
  CodeLogins = {l1}
  Users = {alice, bob}
  UserOf <- UserOfLogin
  Requests = {r1, r2}
  Exchanges = {x1, x2}
  TTL = 1
  MaxTime = 3
SPECIFICATION Spec
SYMMETRY SlotSymmetry
INVARIANTS
  DeliveredOnce
  CodesAccountedFor

SPECIFICATION FairSpec
CONSTANTS
  p1 = p1  p2 = p2  d1 = d1  l1 = l1  l2 = l2  ticket = ticket  mobile = mobile
  Proofs = {p1, p2}
  Logins = {l1}
  Deals = {ticket, mobile}
  Ticketed = {ticket}
  LoginOf <- SameLogin
  DealsOf <- OneTicket
  DeclaredAccounts = {d1}
  AttachedTo <- FirstAttached
  Batches = {b1, b2}
  Garbled = {p1}
  MaxAttempts = 2
  MaxMishaps = 1
  None = None
INVARIANTS RealityCountedOnce PositionsUnderTheirLogin ScreenFollowsVerdict
PROPERTIES EveryProofSettles
CHECK_DEADLOCK FALSE

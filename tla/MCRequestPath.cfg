SPECIFICATION Spec
CONSTANTS
  None = None
  Base = Base
  Requests = {"r1", "r2"}
  Offers <- MCOffers
  Lifetime = 2
  Margin = 1
  MaxTime = 2
  MaxReplays = 1
CONSTRAINT AloneOrSharing
CHECK_DEADLOCK FALSE
INVARIANTS
  TypeOK
  NeverCallerRaw
  SignsAsItself
  AcceptedCarriesPolicy
  SentWasAdmitted
  RouteOfResource

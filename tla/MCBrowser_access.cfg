SPECIFICATION BrowserSpec
CONSTANTS
  Root = u1
  Users = {u1, u2}
  Tokens = {t1, t2}
  MaxEpoch = 3
  MaxInFlight = 2
  Trips = {x1, x2, x3}
  NoCookie = NoCookie
SYMMETRY Symmetry
CONSTRAINT Few
INVARIANTS
  AccountsTypeOK
  OneUnspentPerFamily
  ReusedFamilyIsDead
  CookieNotRotatedAway
  NoHiddenSession
PROPERTIES
  RevivedAfterSetbackOnly
CHECK_DEADLOCK FALSE

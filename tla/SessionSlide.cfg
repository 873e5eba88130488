SPECIFICATION Spec
CONSTANTS
  Tokens = {t1}
  Ttl = 4
  SlideAt = 2
  MaxDelay = 1
  Keys = {k1}
  Requests = {r1}
PROPERTIES ActiveUsersStayLoggedIn

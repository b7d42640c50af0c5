\* Two browsers, two people, two logins; a session outlives one tick.
CONSTANTS
  Subjects = {alice, bob}
  Ids = {i1, i2}
  Browsers = {b1, b2}
  Pages = {b1, b2}
  Foreign = {b2}
  Logins = {s1, s2}
  MaxEvents = 2
  SessionAge = 0
  MaxCallbacks = 2
  None = None
  Anything = Anything

SPECIFICATION Spec
SYMMETRY Symmetry

INVARIANTS
  TypeOK
  OwnLogin
  SessionNamesSubject
  PageShowsLastCall

PROPERTIES
  SignInKeepsEntitlement
  AnswersAreTrue
  ClaimsOnlyAgeByOverlap
CHECK_DEADLOCK FALSE

SPECIFICATION Spec
CONSTANTS
  Emails = {e1, e2}
  Identities = {g1}
  Passwords = {p1, p2}
  Cookies = {c1, c2}
  Teams = {t1}
  Slots = {s1, s2}
  Invitations = {i1}
  Tokens = {k1}
  MaxRetries = 1
  MaxFaults = 1
  None = None
SYMMETRY Symmetries
INVARIANTS
  TypeOK
  OneOwner
  ClaimsAreTrue
  TeamsAreWhole
PROPERTIES
  SignUpRefusedOnlyIfTaken
  RolesAreGranted
CHECK_DEADLOCK FALSE

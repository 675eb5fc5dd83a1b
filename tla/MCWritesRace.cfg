SPECIFICATION Spec
CONSTANTS
  r1 = r1
  r2 = r2
  r3 = r3
  k1 = k1
  k2 = k2
  Requests = {r1, r2}
  Keys = {k1, k2}
  KeyOf <- Clicked
  Subjects = {subject}
  SubjectOf <- OneSubject
  Nobody = Nobody
  Modes <- Renegotiations
  MaxFaults = 0
CHECK_DEADLOCK FALSE
INVARIANTS OncePerKey

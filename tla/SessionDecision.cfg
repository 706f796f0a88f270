\* Two operations, two sessions, one initiator with two subjects, three calls.
SPECIFICATION Spec
CONSTANTS
  Operations = {o1, o2}
  Sessions = {s1, s2}
  NoSession = NoSession
  Initiators = {i1}
  Subjects = {a, b}
  Requests = {r1, r2, r3}
SYMMETRY Symmetry
INVARIANTS
  TypeOK
  BindingsAreProven
  RegisteredIsBound
  DecisionIsExact

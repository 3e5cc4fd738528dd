SPECIFICATION Spec
CONSTANTS
  m1 = m1
  m2 = m2
  p1 = p1
  p2 = p2
  comment = comment
  s1 = s1
  s2 = s2
  Calls = {m1, m2}
  Positions = {p1, p2, comment}
  Executable = {p1, p2}
  Systems = {s1}
SYMMETRY Interchangeable
INVARIANT ReportedStays

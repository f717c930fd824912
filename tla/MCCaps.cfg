SPECIFICATION Spec
CONSTANTS
  c1 = c1
  c2 = c2
  c3 = c3
  t1 = t1
  t2 = t2
  Cap = {c1, c2, c3}
  NoCap = none
  Subject = {alice}
  Thread = {t1, t2}
  Constraint <- MCConstraint
  MaxCount = 1
  MaxTime = 1
SYMMETRY Symmetry
INVARIANTS
  NeverOverspent
  RevokedIsClosed
  RevokeReachesAll
  FindsWhatIsThere

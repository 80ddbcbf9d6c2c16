SPECIFICATION Spec
CONSTANTS
  Files = {f1, f2}
  MaxFiles = 1
  MaxOddities = 2
  MaxChanges = 2
INVARIANTS
  NeverContradicts
  VerdictMatchesGuest
  GrantsStayInside

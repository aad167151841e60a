SPECIFICATION FairSpec
CONSTANTS
  c1 = c1
  c2 = c2
  c3 = c3
  None = None
  Callers = {c1, c2, c3}
  MaxToken = 1
INVARIANTS
  TypeOK
  ReadyMeansConfigured
  AnswersAgree
PROPERTIES
  CallerReturns

SPECIFICATION Spec
CONSTANTS
  Runner = {r1}
  Other = {o1, o2}
  MaxFiles = 2
CHECK_DEADLOCK FALSE
INVARIANTS JobSurvives AnswersAreTrue VerdictsStand JobIsBound RetentionBound EvidenceKept
PROPERTIES ImplementsFleet

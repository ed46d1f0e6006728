\* Three claims, of which at most one does not hold: two that do are needed to
\* lose one.
CONSTANTS
  Candidate <- MCCandidate
  Claim <- MCFewClaims
  MaxClaims = 3
  MaxCorrections = 1
SPECIFICATION PlanSpec
INVARIANTS
  RestIsWhatIsMissing
CHECK_DEADLOCK FALSE

\* Plans of one claim.
CONSTANTS
  Candidate <- MCCandidate
  Claim <- MCClaim
  MaxClaims = 1
  MaxCorrections = 1
SPECIFICATION PlanSpec
INVARIANTS
  NumbersAgree
CHECK_DEADLOCK FALSE

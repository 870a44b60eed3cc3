SPECIFICATION Spec
CONSTANTS
  MaxFailures = 2
INVARIANTS
  TypeOK
  NeverLockedOut
  GovernorHasVoters
  WiredTogether
PROPERTIES
  RecordsStay
  AllStopsAtSetup
  DeploymentFinishes

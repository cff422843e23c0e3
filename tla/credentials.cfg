SPECIFICATION Spec
CONSTANTS
  emea = emea
  apac = apac
  Credentials <- MCCredentials
  Reference <- MCReference
  References = {"deploy-key"}
  Secrets = {"old", "new"}
  Accepted = {"new"}
  Requests = {"p", "q"}
  MaxRequests = 2
  MaxChecks = 1
  MaxEdits = 3
INVARIANTS
  SecretIsThere
  FingerprintIsOfStoredSecret
  InvalidIsExplained
PROPERTIES
  RotationIsShown

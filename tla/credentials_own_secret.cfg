SPECIFICATION Spec
CONSTANTS
  emea = emea
  apac = apac
  Credentials <- MCCredentials
  Reference <- MCReference
  References = {"deploy-key"}
  Secrets = {"old", "new"}
  Accepted = {"new"}
  Requests = {"p", "q"}
  MaxRequests = 3
  MaxChecks = 1
  MaxEdits = 1
PROPERTIES
  OwnSecret

\* One fingerprint with two rows; a route for one severity, a repeat period, and a
\* destination that is switched off and on.
SPECIFICATION FairSpec
CONSTANTS
  f1 = f1
  teams = teams
  prdCritical = prdCritical
  repeating = repeating
  host = host
  NoPolicy = NoPolicy
  NoRule = NoRule
  Fingerprints = {f1}
  Sources = {host}
  SourceOf <- OneSource
  Groups <- AllTogether
  Destinations = {teams}
  Editable = {teams}
  Severities = {"HIGH", "CRITICAL"}
  Policies = {repeating}
  PolicySpec <- MCPolicySpec
  Rules <- OwnPolicyRules
  RoutesOf <- CriticalRoutes
  RoutePolicyOf <- CriticalRoutePolicies
  Copies = 2
  MaxSlots = 2
  MaxAge = 0
  MaxCount = 1
  Limit = 1
  MaxRetries = 0
INVARIANT OneActiveAlert
PROPERTIES ImplementsBoard SuppressionLifts

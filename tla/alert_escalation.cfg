\* One production alert under policy-prd-critical, fair jobs.
SPECIFICATION FairSpec
CONSTANTS
  f1 = f1
  teams = teams
  prdCritical = prdCritical
  repeating = repeating
  host = host
  NoPolicy = NoPolicy
  NoRule = NoRule
  Fingerprints = {f1}
  Sources = {host}
  SourceOf <- OneSource
  Groups <- NoGroups
  Destinations = {teams}
  Editable = {}
  Severities = {"CRITICAL"}
  Policies = {prdCritical}
  PolicySpec <- MCPolicySpec
  Rules <- PrdRules
  RoutesOf <- NoRoutes
  RoutePolicyOf <- NoRoutePolicies
  Copies = 1
  MaxSlots = 2
  MaxAge = 1
  MaxCount = 1
  Limit = 50
  MaxRetries = 1
PROPERTIES NotifiedOnce SilencedAlertsStaySilent DueEscalationIsQueued

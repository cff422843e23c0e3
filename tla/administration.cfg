\* One account with one environment, two requests and a discovery at a time.
SPECIFICATION AdminSpec
CONSTANTS
  aws = aws
  nonprod = nonprod
  dev = dev
  Nothing = Nothing
  Providers = {aws}
  Aliases = {nonprod}
  ScopeIds = {dev}
  AliasOf <- OneAccount
  AccountSettings <- MCSettings
  Requests = {1, 2}
  Jobs = {1}
INVARIANTS NothingIsHomeless ReadinessIsEarned
PROPERTIES ReadinessSettles

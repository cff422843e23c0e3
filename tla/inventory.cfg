SPECIFICATION FairSpec
CONSTANTS
  nonprod = nonprod
  prod = prod
  eks = eks
  ack = ack
  ingressTls = ingressTls
  None = None
  Accounts = {nonprod, prod}
  Clusters = {eks, ack}
  AccountOf <- TwoAccounts
  Environments = {"DEV", "UAT"}
  Scopes <- ThreeScopes
  Secrets = {ingressTls}
  SecretOf <- OneName
  Workers = {1, 2}
  MaxChanges = 1
PROPERTIES
  RightRowsStayRight
  InventoryCatchesUp
  CertificatesFollow

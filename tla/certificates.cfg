\* A certificate that expires and is renewed, two jobs, a host with another one.
SPECIFICATION Spec
CONSTANTS
  Jobs = {1, 2}
  Sources = {"https", "listed"}
  Expiry <- MCExpiry
  Others = {200}
  Step = 60
  MaxSteps = 1
  MaxAlerts = 3
  MaxHands = 1
INVARIANTS
  AlertsPerWriter
  AlertsAgree
PROPERTIES
  EndsByRenewal
  RenewalEndsAlerts
  ExpiryIsAlerted

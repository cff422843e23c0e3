SPECIFICATION FairSpec
CONSTANTS
  Sources = {"azure", "github"}
  Runs = {1, 2}
  Workers = {1, 2}
  MaxAttempts = 3
  MaxDeliveries = 1
INVARIANTS
  AnnouncedOnce
PROPERTIES
  RowsCatchUp
  SuccessSettles

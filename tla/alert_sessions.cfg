\* Overlapping jobs of one escalation, or overlapping sessions of one fault.
SPECIFICATION BothSpec
CONSTANTS
  x1 = x1
  x2 = x2
  x3 = x3
  p1 = p1
  p2 = p2
  dispatch = dispatch
  Notices <- MCRows
  Jobs <- MCJobs
  Escalators <- MCRequests
  NoRowId = NoRowId
  Rows <- MCRows
  Requests <- MCRequests
  MaxRaces = 1
SYMMETRY MCSymmetry
INVARIANTS
  OneLivePerEscalator
  
  
  SecondRowIsRaced

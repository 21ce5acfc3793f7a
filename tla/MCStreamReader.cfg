SPECIFICATION Spec
CONSTANTS
  Text <- MCText
  Cap = 3
  MaxRead = 4
  MaxAhead = 3
INVARIANTS
  Validate

  

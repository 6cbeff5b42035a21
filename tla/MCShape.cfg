SPECIFICATION Spec
CONSTANTS
  Menu <- MCMenu
  MaxLabels = 3
  MaxStack = 8
INVARIANTS AddressesAgree DataInImage
PROPERTIES ImplementsProgram
CHECK_DEADLOCK FALSE

SPECIFICATION Spec
CONSTANTS
  Keys <- MCKeys
  ShiftsAtOnce = 1
  MaxHeld = 2
  PortMax = 5
PROPERTY KeysArriveAsTyped

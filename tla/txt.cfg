SPECIFICATION Spec
CONSTANTS
  Keys <- MCKeys
  Values <- MCValues
  Prime = 2
  Copies = {1, 2, 3, 4, 5}
  Behind <- MCBehind
 
 
PROPERTY TableIsMap
CHECK_DEADLOCK FALSE

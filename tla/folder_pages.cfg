SPECIFICATION Spec
CONSTANTS
  nameA = nameA
  nameB = nameB
  nameC = nameC
  dot = dot
  NoName = NoName
  Names <- ThreeNames
  Hidden <- OneHidden
  Slots = 4
  MaxInt = 7
  PageSizes <- OneAndTwo
  Offsets <- EdgeOffsets
  Limits <- EdgeLimits
  MaxChanges = 1
INVARIANTS TypeOK PageInBounds PageAsAsked PagesTile
SYMMETRY Symmetry

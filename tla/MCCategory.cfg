\* Two-dimensional, linear and three-dimensional categories of at most four
\* positions, two objects, an output tree of two events.
CONSTANTS
  Shapes <- MCShapes
  Locators <- MCLocators
  Capacity = 4
  Objects = {a, b}
  Null = Null
  MaxEntries = 2
SYMMETRY Symmetry
SPECIFICATION Spec
INVARIANTS
  IndexMatchesData
PROPERTIES
  NewSlotIsFreeWithoutHoles
  ImplementsStore

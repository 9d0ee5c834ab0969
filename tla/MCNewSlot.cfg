\* A linear category.
CONSTANTS
  Shapes <- MCLinear
  Locators <- MCLocators
  Capacity = 4
  Objects = {a, b}
  Null = Null
  MaxEntries = 1
SYMMETRY Symmetry
SPECIFICATION Spec
PROPERTY NewSlotIsFree

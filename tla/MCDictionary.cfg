\* Three nodes, or two and more pages; two objects fill a page.  Strings of 4 and 13
\* units and buffers of 5 to 15 stay in place, move, or take two pages.
SPECIFICATION Spec
CONSTANTS
  Names = {a, b}
  NoName = NoName
  PageSize = 9
  Word = 9
  Values = {"OBJECT"}
  Lengths = {1, 10}
  MaxNodes = 3
  MaxPages = 3
  MaxTotal = 6
  Avoided = {"nested move", "add after remove", "split datum", "long copy"}
SYMMETRY Symmetry
INVARIANTS TypeOK DataPlaced ObjectsNamed
PROPERTIES ImplementsTree
CHECK_DEADLOCK FALSE

\* Four calls on two entries: an insertion at either end and between two calls.
SPECIFICATION Spec
CONSTANTS
  c1 = c1
  c2 = c2
  c3 = c3
  c4 = c4
  null = null
  Calls = {c1, c2, c3, c4}
  Entries = {1, 2}
  Accepts <- AcceptLists
  Prios = {1, 2}
  Policies = {TRUE, FALSE}
SYMMETRY Symmetry
INVARIANTS ListedInOrder
PROPERTIES ServesTheFirst NoneForgotten

SPECIFICATION Spec
CONSTANTS
  Keys = {k}
  ProductKeys = {k}
  Products = {p1}
  Handlers = {h1, h2}
  DualWrite = TRUE
  MaxRows = 2
  MaxVersion = 3
SYMMETRY Symmetry
PROPERTIES
  RejectedNotApproved
CHECK_DEADLOCK FALSE

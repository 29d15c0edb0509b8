SPECIFICATION Spec
CONSTANT MaxFlags = 3
INVARIANT DocumentsAreBacked
PROPERTIES Monotone
CHECK_DEADLOCK FALSE

SPECIFICATION Spec
CONSTANT
  Subjects = {"bytes: case"}
INVARIANT SameMeansEqual
CHECK_DEADLOCK FALSE

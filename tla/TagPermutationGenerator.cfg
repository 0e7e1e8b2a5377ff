SPECIFICATION Spec
CONSTANT SizesChoices <- MCSizes
INVARIANTS TypeOK ReturnedIsThePast
PROPERTY ImplementsEnumeration
CHECK_DEADLOCK FALSE

SPECIFICATION Spec
CONSTANT Texts <- ExampleTexts
INVARIANT ExampleIsRead
CHECK_DEADLOCK FALSE

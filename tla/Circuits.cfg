SPECIFICATION Spec
CONSTRAINT OrderedInputs
INVARIANTS BuiltRight LevelsKeepOutputs  ProductsExact LinearRight
CHECK_DEADLOCK FALSE

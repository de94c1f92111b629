SPECIFICATION Spec
CONSTANT Inputs <- SmallInputs
INVARIANTS GapsAreExact WindowsTile PlanIsFull PlanIsNextWindow
CHECK_DEADLOCK FALSE

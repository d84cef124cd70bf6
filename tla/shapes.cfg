CONSTANTS
    MaxQueries = 1
SPECIFICATION BudgetSpec
INVARIANTS ShapesAnswered
CHECK_DEADLOCK FALSE

CONSTANTS MaxQueries = 3
SPECIFICATION BudgetSpec
INVARIANTS ProvisionSuffices EstimateHolds
CHECK_DEADLOCK FALSE

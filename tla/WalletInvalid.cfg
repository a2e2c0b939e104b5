\* A transaction reaches the wallet before the one it spends.
CONSTANTS
  Tx <- LedgerTx
  Inputs <- LedgerInputs
  Outputs <- LedgerOutputs
  Gap <- LedgerGap
  MaxHeight = 2
  MaxRestarts = 0
SPECIFICATION Spec
INVARIANTS
  InputsOfValidAreValid

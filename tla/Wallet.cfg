\* Four transactions, in any order, confirmed, reorganised, removed.
CONSTANTS
  Tx <- LedgerTx
  Inputs <- LedgerInputs
  Outputs <- LedgerOutputs
  Gap <- LedgerGap
  MaxHeight = 2
  MaxRestarts = 1
SPECIFICATION Spec
INVARIANTS
  TypeOK
  OffersOnlyUnspent
  OffersEveryUnspent
  BalanceIsSum
  NoDoubleSpend
PROPERTY DependentsRemoved

CONSTANTS
  Workers = {w1, w2, w3}
  MaxKey = 2
SPECIFICATION FairLockSpec
INVARIANTS NoDeadlock
PROPERTY StatementsEnd

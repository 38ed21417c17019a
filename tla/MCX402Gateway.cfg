SPECIFICATION Spec
CONSTANTS
  Call = {c1, c2}
  Payment = {p1, p2}
  Ttl = 1
  MaxTime = 2
  MaxCrashes = 1
INVARIANTS OnePaymentOneCall KnownVaultIsPaid
PROPERTIES AnswersAreKept AcceptedIsAnswered SellsPaidCalls

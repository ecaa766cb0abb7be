\* Every query, every answer, every way to build the client.
SPECIFICATION FairSpec
CONSTANTS
  Nil = Nil
  OptionLists <- Options
  Taxes = {20}
  Codes = {10000}
INVARIANTS TypeOK FailureIsTyped SuccessIsAnswered PersonaKept TaxesFollowAfip AFIPErrorUsable
PROPERTIES EveryQueryReturns

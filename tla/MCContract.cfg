\* One change of the chain, two additions to a Context, one credit a name.
CONSTANTS
  Names <- MCNames
  Denoms = {"a", "b"}
  Amounts = {0, 1}
  canonical_length = 4
  None = None
  NoBytes = NoBytes
  Purses <- MCPurses
  Stakings <- MCStakings
  contract <- MCContractName
  LogKeys = {"x"}
  Texts = {"x", "y"}
  Messages = {"bank"}
  MaxAdded = 2
  MaxUpdates = 1
  MaxCredits = 1
SPECIFICATION Spec
INVARIANTS
  TypeOK
  QueriesAgree
  ResponseIsWhatWasAdded
  FundsCover
  AccountsApart

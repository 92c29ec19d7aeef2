\* One run of features 04.0 to 05, one fault, one client configured otherwise.
SPECIFICATION TcrSpec
CONSTANTS
  Feature <- RunTcrBddDev
  Pointer <- TcrPointers
  Did = {"did:web"}
  GoodDid = {"did:web"}
  Run = {r1}
  Quoted = {"o'hara"}
  Leftover <- Leftovers
  Environments <- OneOther
  MaxFaults = 1
  Outline <- TcrOutlineAt
  Settles <- TcrSettlesAt
  Contexts <- TcrContextsAt
INVARIANTS TcrTypeOK TcrFailureExplained AsksWhatWasGiven TcrOutlineInv
PROPERTIES PassIsEarned JudgesAsSpecified EndsUnlessAClientHangs

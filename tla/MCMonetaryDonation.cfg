SPECIFICATION MonetarySpec
CONSTANTS
  Deciders = {u1, u2, u3, u4}
  NoDecider = NoDecider
SYMMETRY Symmetry
INVARIANTS
  MailAfterDecision
  DecisionIsSigned
PROPERTIES
  DecidedIsFinal
\* Once the donation is decided there is nothing more to do.
CHECK_DEADLOCK FALSE

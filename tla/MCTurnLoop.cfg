SPECIFICATION FairSpec
CONSTANTS
  m1 = m1
  m2 = m2
  Amounts = {m1, m2}
  Allowed = {"read", "escalate", "card", "refund"}
  MaxHops = 3
  MaxCalls = 2
INVARIANTS
  SourcedText
  CompletionsBounded
  CardConfirmable
  OnlyFaultsCutShort
  EscalationMarksSession
PROPERTY TurnEnds
CHECK_DEADLOCK FALSE

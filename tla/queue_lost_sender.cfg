SPECIFICATION FairSpec
CONSTANTS
  Senders = {s1, s2}
  Receivers = {r1}
  Loops = {r1}
  Blocker = blocker
  None = None
  Max = 10
  MaxSends = 2
PROPERTY SendReturns

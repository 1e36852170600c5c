SPECIFICATION FairSpec
CONSTANTS
  NoMessage = NoMessage
  Messages = {m1, m2}
  Pods = {p1, p2}
  BatchSize = 2
  MaxAttempts = 2
  MaxFaults = 1
  Receipts = {"delivered", "read"}
INVARIANTS
  OnceUnlessInDoubt
PROPERTIES
  StatusForward
  MessagesSettle

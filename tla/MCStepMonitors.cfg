CONSTANTS
  r1 = r1
  s1 = s1
  s2 = s2
  s3 = s3
  Replica = {r1, s1, s2, s3}
  Messages <- ReceivedMessages
  Faults = 1
  MaxHeight = 2
  MaxRound = 1
  Capacity = 4
  MaxEvents = 5
SYMMETRY Senders
SPECIFICATION Spec
INVARIANTS NothingLost ExpectationsAreOpen MonitorsAgree
CHECK_DEADLOCK FALSE

CONSTANTS
  e1 = e1
  e2 = e2
  r1 = r1
  r2 = r2
  r3 = r3
  s1 = s1
  s2 = s2
  NoEmitter = NoEmitter
  Emitters = {e1, e2}
  Readers = {r1, r2}
  Socks = {s1}
  SockOf <- MCSockOf
  Capacity = 2
  LostModulus = 2
  MaxEvents = 4
SPECIFICATION FairSpec
INVARIANTS TypeOK TakenWasEmitted LossIsReported NoLostWakeup
PROPERTIES KeepsTheLog PendingEndsWait

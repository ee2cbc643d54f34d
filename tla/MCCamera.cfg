SPECIFICATION Spec
CONSTANTS
  t1 = t1
  t2 = t2
  Threads <- MCThreads
  NoThread = NoThread
  NoFrame = NoFrame
  MaxPauses = 3
INVARIANTS PausedIsDark OneGrabber PausedCapturesNothing
PROPERTY PolledStandby

\* Liveness: turns, tracker, intake, panes, the terminal UI, remotes.
SPECIFICATION MCSpec
CONSTANTS
  Parts = {"hermes", "tracker", "intake", "panes", "watch", "quits", "refills"}
  None = None
  k1 = k1
  k2 = k2
  q = q
  b1 = b1
  ok = ok
  Go = Go
  Blank = Blank
  Owner = Owner
  App = App
  Stranger = Stranger
  i1 = i1
  i2 = i2
  i3 = i3
PROPERTIES
  TurnSettled
  StopsWin
  EndsWhenStopped
  AnswerArrives
  IntakeHolds
  PanesArrive
  RemoteProgress
CHECK_DEADLOCK FALSE

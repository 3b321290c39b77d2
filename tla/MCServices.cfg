\* Code host, checks, workflow files, run directory, visit log, tracker, task
\* inputs, notices; transcripts and the scans that find them.
SPECIFICATION MCSpec
CONSTANTS
  Parts = {"codehost", "checks", "cycles", "journal", "visits", "tracker", "samples",
           "inputs", "notices", "stats", "pane", "rollouts", "history", "turns", "usage", "gemini",
           "messages", "parts", "scans", "namesakes", "ages"}
  None = None
  NoRecord = NoRecord
  x = x
  y = y
  z = z
  b1 = b1
  b2 = b2
  Star = Star
  Query = Query
  Deep = Deep
  Records <- MCRecords
  First <- MCFirst
  Steps = {s_go, s_code, s_review}
  Flow <- MCFlow
  Tags = {}
  Families = {None}
  TransientRetries = 0
  Start = s_go
  MaxEvents = 6
  s_go = s_go
  s_code = s_code
  s_review = s_review
  s_pr = s_pr
  g = g
  q = q
  ok = ok
  no = no
  Go = Go
  Blank = Blank
  Owner = Owner
  App = App
  Stranger = Stranger
  i = i
  j = j
INVARIANTS
  Readable
  VisitsOfLog
  ReadsAsMeant
PROPERTIES
  EvidenceHolds
  MergesOnce
  Corresponds
  Atomic
  TranscriptsHold
CHECK_DEADLOCK FALSE

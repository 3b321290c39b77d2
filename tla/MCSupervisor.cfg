\* Two hosts, two runs, one bot.
SPECIFICATION MCSpec
CONSTANTS
  None = None
  h1 = h1
  h2 = h2
  a_one = a_one
  a_two = a_two
  a_other = a_other
  r_a = r_a
  r_b = r_b
  writer = writer
  Hosts = {h1, h2}
  Attempts = {a_one, a_two, a_other}
  BotOf <- MCBotOf
  RunOf <- MCRunOf
  Resumes <- MCResumes
  MaxFailures = 1
INVARIANTS
  NothingOutlives
  OutcomeKept
  FreshResult
  AnsweredOnce
PROPERTIES
  SupervisedOnce
  EndsInTime
CHECK_DEADLOCK FALSE

CONSTANTS
  r1 = r1
  r2 = r2
  hello = hello
  Requests <- MCRequests
  Texts <- MCTexts
  Worker = worker
  NoText = null
  QuestionCount = 2
  MaxFailures = 1

SPECIFICATION FairSpec
CHECK_DEADLOCK FALSE

INVARIANTS
  TypeOK
  QuestionsInOrder
  StoryIsTrue
  ScheduledOnce
  OpenUntilTheLast

PROPERTIES
  OutcomeIsFinal
  ImplementsLifecycle
  InProgressEnds

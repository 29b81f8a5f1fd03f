\* Two types of limit 1, two workers, one child of the queue, three
\* insertions: a type can have a running and a deferred job at the same time.
CONSTANTS
  Types <- MCTypes
  Limit <- MCLimit
  Skip <- MCSkip
  Threads = {w1, w2}
  Children = {c1}
  MaxJobs = 3
SPECIFICATION FairSpec
INVARIANTS
  WokenFindsJob
  LimitRespected
  AddJobSafe
  StoppedIsQuiet
PROPERTIES
  EveryJobTaken
  StopCompletes
CHECK_DEADLOCK FALSE

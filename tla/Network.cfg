SPECIFICATION FairSpec
CONSTANTS
  Sources = {"q1", "q2"}
  Sinks = {"p1", "p2"}
  Topics = {"t1", "t2"}
  MaxTtl = 8
  Networks <- MCNetworks
  Room = 1
INVARIANTS Sound AnswersReachAsker DeliveredOnce
PROPERTIES PushedArrives SurveysEnd
CHECK_DEADLOCK FALSE

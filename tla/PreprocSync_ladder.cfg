SPECIFICATION Spec
CONSTANTS
  Events = {"debug", "evti", "trig"}
  Predict = TRUE
  Period = 3
  CountsCycles = FALSE
PROPERTIES ReanchorFirst RequestAnsweredOnce LadderServes

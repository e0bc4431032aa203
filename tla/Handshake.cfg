SPECIFICATION FairSpec
CONSTANTS
  Scenarios <- MCScenarios
  Urls <- MCUrls
  Home = "home"
  Answers <- MCAnswers
  Requests <- MCRequests
  Codes = {1000, 3000}
  MaxCloses = 2
  Greetings <- MCGreetings
  Protocols = {"chat", "log"}
INVARIANTS TypeOK OneOutcome Agreement EarlyMessages ClosePostponed RequestsAreSafe
PROPERTIES HandshakeEnds
CHECK_DEADLOCK FALSE

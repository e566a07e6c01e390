SPECIFICATION ViewsSpec
CONSTANTS
  Nothing = Nothing
  MaxCalls = 2
  MaxTimers = 1
  Root = {"A", "B"}
  ReadonlyRoot = {"B"}
  RestartRoot = {"A"}
  Text = {1, 2}
  File <- TwoFiles
  Host = {"h1"}
  NodeId = {"n1"}
  MaxNodes = 1
  Id = {1, 2}
  Card = 1
  Position = {0, 1}
  Speed = {0}
  MaxAngle = {4095}
  Mode = {0, 1}
  Name = {"n1", "n2"}
  Pins = {1, 2}
  Network = {"a"}
  Image = {"i"}
  FileName = {"f"}
  Robot = {"r1", "r2"}
  Pose = {0}
  Home = 0
  Gcode = {"g1", "g2"}
  MaxLog = 2
  Channels = 1
  Pin = {2, 3}
  FirstPin = 2
INVARIANTS
  ViewsTypeOK
  SpinnersEnd
  WritesStayInFile
  
  StateOfItsRobot
PROPERTIES
  RestartFollowsSave
  HandHoldsSlider
  ConsoleKeepsAll

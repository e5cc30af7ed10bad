SPECIFICATION LayeredSpec
CONSTANTS
  c1 = c1
  c2 = c2
  m1 = m1
  x1 = x1
  x2 = x2
  Missing = Missing
  Client <- TwoClients
  Mission <- OneMission
  Content <- Bodies
  MaxVersion = 4
  MaxRequests = 5
  Corners <- Grid
  Boxes <- Boxes2
  Places <- NearGrid
  Heights <- AltLevels
  Grain = 6
  Halvings = 8
  MaxCorners = 6
SYMMETRY Symmetric
INVARIANT TypeOK
INVARIANT NeverDangles
INVARIANT AnswersSurvive
INVARIANT OneAtATimeKeepsHistory
INVARIANT PolygonsSeparate
INVARIANT RulesAgree

\* The listed run checks the first; the others, one at a time, are violated too.
SPECIFICATION RuleSpec
CONSTANTS
  c1 = c1
  c2 = c2
  m1 = m1
  x1 = x1
  x2 = x2
  Missing = Missing
  Client <- OneClient
  Mission <- OneMission
  Content <- Bodies
  MaxVersion = 4
  MaxRequests = 5
  Corners <- Grid
  Boxes <- ThickBox
  Places <- NearGrid
  Heights <- AltLevels
  Grain = 6
  Halvings = 8
  MaxCorners = 4
INVARIANT BowtieIsRefused
\* INVARIANT ExclusionIsOpen
\* INVARIANT OutsideIsRejected
\* INVARIANT CatalogFenceIsSimple
\* INVARIANT SimpleIsAccepted
\* INVARIANT ClampStaysInConcave
\* INVARIANT ClampKeepsMargin
\* INVARIANT BreachIsWarned
\* INVARIANT GotoAnswers: Boxes <- ThinBox
\* With SPECIFICATION StoreSpec, Client <- TwoClients, SYMMETRY Symmetric:
\* PROPERTY VersionIsBumped
\* INVARIANT CurrentIsHighest

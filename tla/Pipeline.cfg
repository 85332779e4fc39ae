SPECIFICATION Spec
CONSTANTS
  HTML_MAX_RESOURCES = 4
  Initial <- Letters
  Docs <- TwoSites
  HtmlNames <- Html
  Missing <- Glued
  MaxItems = 5
  MaxLoads = 2
INVARIANTS TypeOK ParsedAsExpected ItemsOfParsedPage PageComplete StalePageExplained
CHECK_DEADLOCK FALSE

SPECIFICATION Spec
CONSTANTS
  HTML_MAX_RESOURCES = 4
  Initial <- Letters
  Docs <- OnePage
  HtmlNames <- OneHtml
  Missing <- Glued
  MaxItems = 5
  MaxLoads = 1
INVARIANT NamesAsDocumented
CHECK_DEADLOCK FALSE

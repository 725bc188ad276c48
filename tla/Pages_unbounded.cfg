SPECIFICATION FairSpec
CONSTANTS
  MaxTargets = 1
  MaxSnapshots = 1
  MaxHung = 1
  Viewport = FALSE
  Tools = {"list_pages", "select_page", "close_page", "new_page", "take_snapshot", "click", "evaluate_script"}
PROPERTIES ToolReturns

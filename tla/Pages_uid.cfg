SPECIFICATION Spec
CONSTANTS
  MaxTargets = 2
  MaxSnapshots = 1
  MaxHung = 0
  Viewport = TRUE
  Tools = {"list_pages", "select_page", "close_page", "new_page", "take_snapshot", "click", "evaluate_script"}
INVARIANTS ClicksOnUidPage

SPECIFICATION FairSpec
CONSTANTS
  MaxTargets = 2
  MaxSnapshots = 2
  MaxHung = 1
  Viewport = TRUE
  Tools = {"list_pages", "select_page", "close_page", "new_page", "take_snapshot", "click", "evaluate_script", "wait_for"}
INVARIANTS UsesReadyPage OneSessionPerTab UidsAreFresh
PROPERTY ReadyToolReturns

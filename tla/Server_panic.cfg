SPECIFICATION SSpec
CONSTANTS
    Modes = {"temp", "persistent", "attach"}
    MaxLaunches = 3
    MaxBackground = 2
    MaxRead = 2
INVARIANT ChromeGoesWithUs
CHECK_DEADLOCK FALSE

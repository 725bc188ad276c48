SPECIFICATION ConsoleSpec
CONSTANTS
  Pages = {"p1", "p2"}
  Types = {"log", "error"}
  Wanted = {"error"}
  MaxConsoleMessages = 2
  MaxLogged = 5
INVARIANTS PollsAreExact

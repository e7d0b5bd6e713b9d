SPECIFICATION Spec
CONSTANTS
  Players = {p1}
  Characters = {c1, c2}
  Levels = {1, 2}
  Ranks = {"main", "alt"}
  Handlers = {h1}
  Loop = loop
  Starts <- MCStarts
  MaxClicks = 3
  MaxFaults = 0
INVARIANT OneMain
CHECK_DEADLOCK FALSE

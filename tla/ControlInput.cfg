CONSTANTS
  Sessions = {s1, s2}
  Buttons = {b1, b2}
  Keys = {k1, k2}
  Points = {p1}
  NoPoint = NoPoint
SPECIFICATION Spec
INVARIANTS DownIffHeld SweepClears
PROPERTIES FenceHolds ImplementsHeld

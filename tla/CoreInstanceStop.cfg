SPECIFICATION Spec
CONSTANTS
  Calls = {c1, c2}
  Boxes = {b1, b2}
  Ports = {p1}
  Nil = Nil
PROPERTY
  StopStopsTheRunningInstance

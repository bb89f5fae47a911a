\* Two event files, one with two readers, two channels, both interrupt modes.
CONSTANTS
  u1 = u1
  u2 = u2
  p1 = p1
  p2 = p2
  p3 = p3
  Users = {u1, u2}
  Channels = {h2c, c2h}
  h2c = h2c
  c2h = c2h
  Readers = {p1, p2, p3}
  Line <- MCLine
  Modes = {"msix", "shared"}
SPECIFICATION Spec
INVARIANT
  NobodySleepsThrough
PROPERTY EveryInterruptServed

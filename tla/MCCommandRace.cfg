CONSTANTS
  Task = {cloud, local}
  Frames <- MixedFrames
  User = {u1, u2}
  Nobody = Nobody
  Seq8 = {s1, s2}
  Colour = {red, dark}
  Absent = Absent
  NoMessage = NoMessage
  Junk = Junk
  NoCall = NoCall
  s1 = s1
  s2 = s2
  red = red
  dark = dark
  Dark <- dark
SPECIFICATION Spec
INVARIANTS NoLeak AckIsTruthful
PROPERTY OnlyIntactFramesAct

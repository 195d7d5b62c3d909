\* Two mirrors, so that one captures into the target the other has left.
CONSTANTS
  Slots = {0, 1}
  Mirrors <- TwoMirrors
  Textures = {t1, t2, t3}
  MaxSpares = 0
  NoFrame = NoFrame
  NoToken = NoToken
  NoMirror = NoMirror
  NoTexture = NoTexture
SPECIFICATION RetainedSpec
PROPERTIES RedrawsOwnFrame

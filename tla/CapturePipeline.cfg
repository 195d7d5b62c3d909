SPECIFICATION Spec
CONSTANTS
  Slots = {0, 1}
  Mirrors <- MCMirrors
  Textures = {t1, t2, t3, t4}
  MaxSpares = 1
  NoFrame = NoFrame
  NoToken = NoToken
  NoMirror = NoMirror
  NoTexture = NoTexture
SYMMETRY Symmetric
INVARIANTS ShownContent OneRole NoFalseFault NoOrphanAuthority

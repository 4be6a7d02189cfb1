SPECIFICATION Spec
CONSTANTS
  v1 = v1
  Song = {s1}
  Album = al
  Text = {"title"}
  Value = {v1, v2}
  First <- Alike
  Recorded = {al}
  MaxVersion <- Versions
PROPERTIES OnlyAskedChanges ClosedAsShown Frozen

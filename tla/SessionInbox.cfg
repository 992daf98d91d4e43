SPECIFICATION Spec
CONSTANTS
  Id = {i1, i2}
  Client = {c1, c2}
  Content = {x}
  Kind = {"prompt", "synthetic"}
SYMMETRY Symmetry
INVARIANTS TypeOK VisibleIffPromoted HonestAnswers
PROPERTIES WrittenOnce NoOvertaking

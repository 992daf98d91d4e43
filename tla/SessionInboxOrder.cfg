SPECIFICATION Spec
CONSTANTS
  Id = {i1, i2}
  Client = {c1}
  Content = {x}
  Kind = {"prompt", "synthetic"}
PROPERTY SteersInAdmissionOrder

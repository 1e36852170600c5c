\* Two requests in flight, interleaved at every await.
SPECIFICATION Spec
CONSTANTS
  NoRider = NoRider
  Riders = {r1}
  Requests = {q1, q2}
SYMMETRY RequestSymmetry
PROPERTIES
  KeepsPromise
  UndisturbedBehaves

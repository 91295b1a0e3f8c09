CONSTANTS
  Ids = {a, b}
  Handlers = {h1, h2}
  MaxObjects = 2
SPECIFICATION Spec
SYMMETRY Interchangeable
INVARIANTS TypeOK CloudFlags NoLeak DisposedOnce RunsGoWithAgent

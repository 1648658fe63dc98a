SPECIFICATION Spec
CONSTANTS
  Ids = {1, 2, 3}
  Keys = {1, 2}
  MaxBatch = 2
INVARIANTS IdsMatchEntities ImplementationsAgree SortedByComparer
PROPERTIES OrderIsStable

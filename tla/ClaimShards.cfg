SPECIFICATION Spec
CONSTANTS
  s1 = s1  s2 = s2  w1 = w1  a = a
  Writers = {p, q}
  Archivers = {r}
  Workers = {w1}
  Sessions = {s1, s2}
  Item <- OnItems
  MaxArchives = 1
  MaxFaults = 2
SYMMETRY Alike
INVARIANTS ShardSound EpisodesKept EndsKept

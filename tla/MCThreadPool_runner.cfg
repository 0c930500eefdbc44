SPECIFICATION Spec
CONSTANTS
  b1 = b1
  b2 = b2
  s1 = s1
  c1 = c1
  Workers = {w1, w2}
  Posters = {p1}
  Stoppers = {o1}
  Tasks = {b1, b2}
  Behavior <- MCBehavior
  Direct = {b2}
  Delayed = {}
  Panicky = {}
  NoTask = NoTask
INVARIANT AllBlockShutdownFinish

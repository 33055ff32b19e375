\* Three connection objects: one to register an errorhandler on, one to
\* move it into, and one whose hub the moved-from object is given next.
CONSTANTS
  Conn = {a, b, c}
  Handle = {h1, h2}
  Hub = {w1, w2}
  Observer = {o1}
  NoHandle = NoHandle
  NoHub = NoHub
  NoHome = NoHome
  MaxUniqueId = 0
SPECIFICATION Spec
INVARIANT ListedObserversAlive
SYMMETRY MCSymmetry
CHECK_DEADLOCK FALSE

\* Two connection objects, so one can be moved into the other, and two
\* handles and hubs, so both can have connected; two errorhandlers, so a
\* notice can stop at the newest or go on to the older; m_unique_id up to 2,
\* so a session's counter can be taken over by a move and continued.  A
\* crash ends the program, so a crashed state has no successor.
CONSTANTS
  Conn = {a, b}
  Handle = {h1, h2}
  Hub = {w1, w2}
  Observer = {o1, o2}
  NoHandle = NoHandle
  NoHub = NoHub
  NoHome = NoHome
  MaxUniqueId = 2
SPECIFICATION Spec
INVARIANT NoticesReachOwner
PROPERTY NewestFirstUntilStopped AdornedNamesFresh
SYMMETRY MCSymmetry
CHECK_DEADLOCK FALSE

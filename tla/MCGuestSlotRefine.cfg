\* Guest registration against its abstract promise, one open transaction.
CONSTANTS
  t1 = t1
  t2 = t2
  t3 = t3
  t4 = t4
  t5 = t5
  NoGuest = NoGuest
  Guest <- MCGuest
SPECIFICATION Spec
PROPERTY OneOpenTransaction

\* Lines of 0, 1 or 2 bytes; up to 3 lines per COPY.  A broken connection
\* accepts no further step: that final state is not a deadlock.
CONSTANTS
  LineLen = {0, 1, 2}
  MaxLines = 3
SPECIFICATION Spec
INVARIANT CopyOutFaithful
CHECK_DEADLOCK FALSE

\* Bulk transfers of the 8-bit format, full and short by the 512-byte
\* resynchronisation margin, with half blocks lost on the wire.
CONSTANTS
  Formats = {"504_s8"}
  CallLens = {3, 4}
  WireLen = 12
  AddrMod = 65536
  A0 = 65000
  Junk = {0, 7}
SPECIFICATION Spec
\* A run stops when the wire bound WireLen is used up, not by a deadlock
\* of the code: deadlock is not checked.
CHECK_DEADLOCK FALSE
PROPERTY LossIffHole

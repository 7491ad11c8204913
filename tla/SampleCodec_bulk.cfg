\* Bulk transfers of the 16-bit formats: full, short by the 512-byte
\* resynchronisation margin, and runts, so that calls start off a block
\* boundary and read payload as headers.
CONSTANTS
  Formats = {"252_s16", "336_s16", "384_s16", "504_s16"}
  CallLens = {1, 2, 3, 4}
  WireLen = 12
  AddrMod = 65536
  A0 = 65000
  Junk = {0, 7}
SPECIFICATION Spec
\* A run stops when the wire bound WireLen is used up, not by a deadlock
\* of the code: deadlock is not checked.
CHECK_DEADLOCK FALSE
INVARIANT DecodedFromReceived
PROPERTY LossIffHole

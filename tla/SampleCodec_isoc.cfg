\* Isochronous packets: every format, calls of 1, 2 or 3 whole blocks,
\* lost half blocks on the wire, a device counter about to wrap.
CONSTANTS
  Formats = {"252_s16", "336_s16", "384_s16", "504_s16", "504_s8"}
  CallLens = {2, 4, 6}
  WireLen = 12
  AddrMod = 65536
  A0 = 65000
  Junk = {0, 7}
SPECIFICATION Spec
\* A run stops when the wire bound WireLen is used up, not by a deadlock
\* of the code: deadlock is not checked.
CHECK_DEADLOCK FALSE
INVARIANT TypeOK DecodedFromReceived
PROPERTY LossIffHole

CONSTANTS
  MAX_PROCESS = 2
  MAX_IO_EVENTS = 3
  RawCounts <- MCRawCounts
  RawLines <- MCRawLines
  RawEvents <- MCRawEvents
  Arrivals = {0}
  Bursts = {5, 10}
  Priorities = {1}
  IoBursts = {1}
SPECIFICATION Spec
INVARIANTS
  PcbsAreSound
  NoNeedlessDrop
PROPERTY SortKeepsEvents

SPECIFICATION Spec
CONSTANTS
  Sessions = {k1}
  NoSession = NoSession
  MaxSessions = 2
  ReplayWindow = 2
  Sources = {s1}
  Seqs = {1, 2, 3}
  MaxRevision = 2
  MaxOrdinal = 1
INVARIANT ReplayIsRejected

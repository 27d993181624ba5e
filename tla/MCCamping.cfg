SPECIFICATION McSpec
CONSTANTS
  Conns = {m1, m2, m3}
  Chans = {rx0, rx1}
  n_camp = 2
  Port = {p1, p2, p3}
  keep_free = 0
  Lockout = 2
  MaxTime = 4
SYMMETRY Same
INVARIANTS
  TypeOK
  CampCount
  OneCamp
  AudioWasAsked
  FirstIsServed
PROPERTIES
  KeepsCamping
  QueueIsFifo

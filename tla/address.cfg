SPECIFICATION Spec
CONSTANTS
  Shorts = {s1, s2}
  His = {h1, h2}
  Los = {l1}
  Rests = {r1, r2}
  Wants = {r1}
INVARIANTS TypeOK OldOrNew AdoptedIsActual
PROPERTY LostOnlyIfStale

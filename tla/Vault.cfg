SPECIFICATION Spec
CONSTANTS
  a = a
  b = b
  n1 = n1
  n2 = n2
  m1 = m1
  m2 = m2
  gui = gui
  dial = dial
  s1 = s1
  s2 = s2
  Ids <- TwoIds
  Names <- TwoNames
  Secrets <- TwoSecrets
  Masters <- TwoMasters
  Callers <- Gui
  Dialers <- Dial
  Strays <- Nothing
  MaxSaveFailures = 1
  MaxStamps = 0
  MaxCrashes = 1
SYMMETRY Symmetric
INVARIANTS TypeOK ListsSound FileIsWhole StoredStays FileFollows
PROPERTIES SecretsKept

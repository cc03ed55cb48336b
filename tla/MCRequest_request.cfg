SPECIFICATION FairSpec
CONSTANTS
  MaxName = 3
  Suffix = 1
  MaxTyped = 4
  Letters = {"a", "dev", ".", "/", "back", "nul", "ctl", "c1"}
  UrlLetters = {"a", "dev", ".", "bad"}
  MaxRedirects = 2
  Byte <- MCByte
  NoPath = NoPath
INVARIANT RefusedUntouched
INVARIANT ExitTells
INVARIANT DerivedName
INVARIANT DecodeInverts
PROPERTY EndsOrStalls
CHECK_DEADLOCK FALSE

SPECIFICATION RequestSpec
CONSTANTS
  InPipes = {in1}
  OutPipes = {out1}
  Setups = {s1, s2}
  Memories = {m1, m2}
  MaxSize = 2
  NoMem = NoMem
  NoPipe = NoPipe
  NoTransfer = NoTransfer
INVARIANTS
  RequestTypeOK
  CountOfLastTransfer
PROPERTY CarriesWhatWasFormatted
CHECK_DEADLOCK FALSE

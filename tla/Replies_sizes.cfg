SPECIFICATION ReplySpec
CONSTANT MaxInfo = 5
INVARIANTS
  ReplyTypeOK
  ReadsWhatWasAnswered

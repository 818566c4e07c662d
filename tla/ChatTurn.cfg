\* Two turns race for a quota of one message, over a month boundary.
SPECIFICATION Spec
CONSTANTS
  t1 = t1
  t2 = t2
  c1 = c1
  c2 = c2
  Turns = {t1, t2}
  Conversations = {c1, c2}
  NoConversation = NoConversation
  Limit = 1
  LastMonth = 1
  MaxQuestions = 2
SYMMETRY Symmetry
INVARIANTS RepliesAnswerQuestions RepliesAreCounted ResponseWellFormed
PROPERTIES ImplementsQuota

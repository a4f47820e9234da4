SPECIFICATION FairSpec
CONSTANTS
  Agent = {a, b}
  Hooked = {}
  Kind = {}
  Human = human
  Cap = 2
  Limit = 1
  MaxMsg = 3
  MaxEsc = 1
INVARIANT OpenAskIsUnanswered
PROPERTIES LateReplyIsPlain AskSettles
CHECK_DEADLOCK FALSE

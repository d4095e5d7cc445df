SPECIFICATION Spec
CONSTANT Components = {"two_codecs"}
INVARIANT AnswersFit
CHECK_DEADLOCK FALSE

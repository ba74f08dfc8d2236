CONSTANTS
  Pages = {"test", "pilot"}
  MaxCalls = 2
  MaxSpeech = 3
  MaxClicks = 2
SPECIFICATION FairSpec
INVARIANTS TypeOK OneReply TimerOnlyInSilence SilenceIsNoticed StaleWordsNeedBargeIn QuestionNotLostToSilence
PROPERTY QuietCallEnds
CHECK_DEADLOCK FALSE

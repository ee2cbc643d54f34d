SPECIFICATION Spec
CONSTANTS
  Calls = {1, 2}
  Sentences = 4
PROPERTIES ImplementsSpeech SynthesisEnds
CHECK_DEADLOCK FALSE

SPECIFICATION DeviceSpec
CONSTANTS
  Capacity = 3
  Writers = {callback}
  MaxChunks = 12
  PreRoll = 2
  MaxDuration = 5
  MinSpeech = 2
  Ahead = 1
  MaxRecordings = 2
INVARIANTS NoLostSignal UnreadIntact KeptContiguous SpeechNotClipped
PROPERTY RecordingEnds
CHECK_DEADLOCK FALSE

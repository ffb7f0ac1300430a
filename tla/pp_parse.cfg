SPECIFICATION Spec
CONSTANTS
  Frames <- MCFrames
  Rules <- MCRules
INVARIANTS TypeOK LinearHeadersSuffice HeadersFit ValidIffSuccess UnsupportedIsExact MatchIsOnFrame
CHECK_DEADLOCK FALSE

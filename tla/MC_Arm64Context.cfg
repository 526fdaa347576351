CONSTANTS
  Undefined = Undefined
  NotCopied = NotCopied
  Null = Null
  Undef <- Undefined
  NoCopy <- NotCopied
  NullPtr <- Null
  X0 = 0
  SP = 31
  PC = 32
  Values = {7}
  GPRs <- MCGPRs
  FPRs <- MCFPRs
  CallerSavedGPRs <- MCCallerSavedGPRs
  CallerSavedFPRs <- MCCallerSavedFPRs
  Frames <- MCFrames
  CoreMask <- MCCoreMask
  FpMask <- MCFpMask
  FrameSize <- MCFrameSize

SPECIFICATION Spec

INVARIANT TypeOK
PROPERTY ImplementsRegisterContext

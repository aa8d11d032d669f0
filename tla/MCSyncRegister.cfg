CONSTANTS
  DelayReturn = TRUE
  InitVal = 0
  MaxSends = 4
  Data = {init, v, w}
  InitData = init
  None = None
SPECIFICATION RegFairSpec
INVARIANTS PulseExactlyOnce DataSettled
PROPERTIES PulseArrives ReadyReturns MailboxRefined

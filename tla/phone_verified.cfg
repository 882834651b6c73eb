SPECIFICATION PhoneSpec
CONSTANTS
  Number = {n1, n2}
  PhoneSlot = {v1, v2}
  otpMaxAttempts = 2
  maxSendsPerHour = 2
  MaxCodes = 1
INVARIANT VerifiedWasConfirmed
CHECK_DEADLOCK FALSE

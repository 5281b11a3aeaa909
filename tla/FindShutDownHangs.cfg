SPECIFICATION SystemSpec
CONSTANTS
  p1 = p1
  p2 = p2
  pw = pw
  NotANumber = NotANumber
  BadPassword = BadPassword
  Nobody = Nobody
  Pids <- MCPids
  Passwords <- MCPasswords
  Uninitialised <- MCUninitialised
  CommandLines <- MCCommandLines
  Messages <- MCMessages
  Garbage <- MCGarbage
  MAX_OP_DELAY_MS = 4
  MAX_BANK_ACCOUNTS = 2
  MIN_BALANCE = 1
  MAX_BALANCE = 2
  BankOfficesNo = 1
  MaxUnderflow = 1
PROPERTIES
  ShutDownEnds
CHECK_DEADLOCK FALSE

SPECIFICATION FairSpec
CONSTANTS
  p1 = p1
  pw = pw
  Passwords <- MCPasswords
  Pids <- MCPids
  Messages <- OneMessage
  Garbage <- MCGarbage
  MAX_BANK_ACCOUNTS = 2
  MIN_BALANCE = 1
  MAX_BALANCE = 2
  BankOfficesNo = 3
  MaxUnderflow = 2
INVARIANTS
  TypeOK
  QueueInv
  QueueNeverOverruns
  NoOfficeLeavesEarly

  
  
  
CHECK_DEADLOCK FALSE

SPECIFICATION BankSpec
CONSTANTS
  padm = padm
  pcli = pcli
  p1 = p1
  p2 = p2
  salt = salt
  AdminPassword = padm
  Passwords <- MCPasswords
  Pids <- MCPids
  Salts <- MCSalts
  Messages <- Operations
  Garbage <- MCGarbage
  MAX_BANK_ACCOUNTS = 3
  MIN_BALANCE = 1
  MAX_BALANCE = 2
  BankOfficesNo = 2
  MaxUnderflow = 1
  MaxOutstanding = 2
  MaxActive = 2
INVARIANTS
  BankTypeOK
  
  ActiveNotTooFew
CHECK_DEADLOCK FALSE

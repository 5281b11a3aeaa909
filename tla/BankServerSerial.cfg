SPECIFICATION SerialSpec
CONSTANTS
  padm = padm
  pcli = pcli
  p1 = p1
  salt = salt
  AdminPassword = padm
  Passwords <- MCPasswords
  Pids <- MCPids
  Salts <- MCSalts
  Messages <- EveryKind
  Garbage <- MCGarbage
  MAX_BANK_ACCOUNTS = 3
  MIN_BALANCE = 1
  MAX_BALANCE = 2
  BankOfficesNo = 1
  MaxUnderflow = 2
  MaxOutstanding = 1
  MaxActive = 2
INVARIANTS
  AnswerIsRight
  LedgerIsRight
PROPERTIES
  ServesAtomically
CHECK_DEADLOCK FALSE

---------------------------- MODULE UserArguments ----------------------------
(***************************************************************************)
(* What the user program makes of its command line: parse_args and         *)
(* validateArgs of options.c, and the switch of main in user.c.            *)
(*                                                                         *)
(* A command line is a sequence of words.  A word is the number it stands  *)
(* for, or NotANumber for a text that strtol does not take: no digits, a   *)
(* negative number, or one that an int cannot hold.  The last positional   *)
(* argument is itself a list of words, with one space between any two; an  *)
(* empty argument is a list of one empty word.                             *)
(***************************************************************************)
EXTENDS UserRequests, Sequences

CONSTANTS
  MAX_OP_DELAY_MS,     \* the longest delay a user may ask for (99999)
  BadPassword,         \* any password shorter than 8 or longer than 20
  NotANumber,          \* any word that strtol does not take
  Uninitialised        \* what the fields of a fresh option_t may hold

ASSUME ArgumentsAssumption ==
  /\ MAX_OP_DELAY_MS \in Nat
  /\ BadPassword \notin Passwords
  /\ NotANumber \notin Nat
  /\ Uninitialised \subseteq Nat

\* When a word does not parse, a message is printed and the field keeps what
\* it had: print_badpositional does not end the program.
parse_int(word, field) == IF word = NotANumber THEN field ELSE word

parse_args(line, memory) ==
  [account_id          |-> parse_int(line[1], memory.account_id),
   password            |-> line[2],
   op_delay_ms         |-> parse_int(line[3], memory.op_delay_ms),
   type                |-> parse_int(line[4], memory.type),
   operation_arguments |-> line[5]]

\* validateArgs: the greatest account id it lets pass is MAX_BANK_ACCOUNTS.
validateArgs(options) ==
  /\ options.account_id <= MAX_BANK_ACCOUNTS
  /\ options.password \in Passwords
  /\ options.op_delay_ms <= MAX_OP_DELAY_MS

checkArgumentsSpacesNo(arguments) == Len(arguments) - 1

\* atoi gives 0 for a word that is not a number.
atoi(word) == IF word = NotANumber THEN 0 ELSE word

\* The request that the switch builds, in a set; none if it ends the program.
RequestsFor(options, pid) ==
  LET words == options.operation_arguments
      spaces == checkArgumentsSpacesNo(words)
      id == options.account_id
      password == options.password
  IN
  CASE options.type = 0 /\ spaces = 2 ->
         IF /\ TargetAccepted(atoi(words[1]))
            /\ AmountAccepted(atoi(words[2]))
            /\ words[3] \in Passwords
         THEN {createAccountRequest(pid, id, password, atoi(words[1]), atoi(words[2]), words[3])}
         ELSE {}
    [] options.type = 1 /\ spaces = 0 -> {createBalanceRequest(pid, id, password)}
    [] options.type = 2 /\ spaces = 1 ->
         IF TargetAccepted(atoi(words[1])) /\ AmountAccepted(atoi(words[2]))
         THEN {createTransferRequest(pid, id, password, atoi(words[1]), atoi(words[2]))}
         ELSE {}
    [] options.type = 3 /\ spaces = 0 -> {createShutDownRequest(pid, id, password)}
    [] OTHER -> {}

\* The request that a user sends who is given this command line, in a set.
RequestsOf(line, memory, pid) ==
  IF Len(line) # 5 THEN {}
  ELSE LET options == parse_args(line, memory)
       IN  IF validateArgs(options) THEN RequestsFor(options, pid) ELSE {}

\* The block that init_options allocates.
init_options == [account_id : Uninitialised, op_delay_ms : Uninitialised, type : Uninitialised]
=============================================================================

-------------------------- MODULE SaltVaultServer --------------------------
(***************************************************************************)
(* apps/salt_vault/server: main.c and option_handler.c, in front of the TCP *)
(* server; and, as start_tcp_server is a library function, a program that   *)
(* calls it with a configuration of its own.                                *)
(*                                                                         *)
(* main.c still passes NULL for client_request ("TODO(nick): Build out      *)
(* client request function"), so its server ends at the first check.        *)
(*                                                                         *)
(* The command line is the sequence of what getopt finds on it: an option   *)
(* with its argument, attached to it or the next word, "h", "?" for an      *)
(* option it does not know or that lacks its argument, and "extra" for a    *)
(* word that is no option (getopt moves those behind the options).          *)
(***************************************************************************)
EXTENDS TcpServer

CONSTANTS
  CommandLines,    \* command lines of the salt_vault server
  Configs          \* configurations another program passes

CommandOption ==
  [opt : {"p", "n"}, arg : Text, attached : BOOLEAN] \union [opt : {"h", "?", "extra"}]

ASSUME CommandLineAssumption == CommandLines \subseteq Seq(CommandOption)

VARIABLES
  program,    \* which program runs
  apc,        \* where its main is
  given,      \* the command line it was started with
  argv,       \* what getopt has not returned yet
  extras,     \* getopt has passed words that are no options
  options,    \* the options_t of main
  parsed,     \* exit_code of process_options
  config      \* the server_config_t passed to start_tcp_server

appVars == <<program, apc, given, argv, extras, options, parsed, config>>
allVars == <<serverVars, appVars>>

MIN_ARGS == 1
MAX_ARGS == 6
MIN_PORT_VALUE == 1025
MAX_PORT_VALUE == 65535
NoConfig == [client_request |-> FALSE]

Number(v) == [digits |-> TRUE, rest |-> FALSE, fits |-> TRUE, value |-> v]

(* options of main() before process_options.                                *)
DefaultOptions ==
  [n_flag |-> FALSE, n_value |-> 4, p_flag |-> FALSE, p_value |-> Number(31337)]

AppInit ==
  /\ ServerInit
  /\ program \in {"salt_vault", "other"}
  /\ given \in CommandLines /\ (program = "other" => given = <<>>)
  /\ apc = IF program = "salt_vault" THEN "args" ELSE "start"
  /\ argv = given /\ extras = FALSE
  /\ options = DefaultOptions /\ parsed = "E_FAILURE" /\ config = NoConfig

----------------------------------------------------------------------------
(* argc: the name of the program, the options, and the arguments that are   *)
(* words of their own.                                                      *)
argc ==
  1 + Len(given)
    + Cardinality({i \in DOMAIN given : given[i].opt \in {"p", "n"} /\ ~given[i].attached})

(* main: the number of arguments, and signal_action_setup, which may fail.  *)
MainArgs ==
  /\ apc = "args"
  /\ apc' \in IF argc \in MIN_ARGS..MAX_ARGS THEN {"options", "exit"} ELSE {"exit"}
  /\ UNCHANGED <<serverVars, program, given, argv, extras, options, parsed, config>>

(* Mutant: the flag is not tested, the last -p wins.                        *)
process_p_option_again(optarg) ==
  /\ options' = [options EXCEPT !.p_flag = TRUE, !.p_value =
       IF str_to_int32(optarg) /\ optarg.value \in MIN_PORT_VALUE..MAX_PORT_VALUE
         THEN optarg ELSE @]
  /\ parsed' = IF options'.p_value = optarg THEN "E_SUCCESS" ELSE "E_FAILURE"

(* process_p_option: once only, a number, in range; the string is kept.     *)
process_p_option(optarg) ==
  LET ok == /\ ~options.p_flag
            /\ str_to_int32(optarg)
            /\ optarg.value \in MIN_PORT_VALUE..MAX_PORT_VALUE
  IN  /\ options' = [options EXCEPT !.p_flag = TRUE,
                                    !.p_value = IF ok THEN optarg ELSE @]
      /\ parsed' = IF ok THEN "E_SUCCESS" ELSE "E_FAILURE"

(* process_n_option: once only, a number, not below MIN_NUM_THREADS.        *)
process_n_option(optarg) ==
  LET ok == /\ ~options.n_flag
            /\ str_to_int32(optarg)
            /\ optarg.value >= MIN_NUM_THREADS
  IN  /\ options' = [options EXCEPT !.n_flag = TRUE,
                                    !.n_value = IF ok THEN optarg.value ELSE @]
      /\ parsed' = IF ok THEN "E_SUCCESS" ELSE "E_FAILURE"

(* END of process_options, back in main.                                    *)
OptionsDone(exit) == apc' = IF exit = "E_SUCCESS" THEN "start" ELSE "exit"

(* One round of the loop of process_options.  -h leaves it with the result  *)
(* of the option before, so that main goes on when there was a good one.    *)
NextOption ==
  /\ apc = "options" /\ argv # <<>>
  /\ argv' = Tail(argv)
  /\ LET o == Head(argv) IN
       \/ /\ o.opt \in {"p", "n"}
          /\ IF o.opt = "p" THEN process_p_option(o.arg) ELSE process_n_option(o.arg)
          /\ apc' = IF parsed' = "E_SUCCESS" THEN apc ELSE "exit"
          /\ UNCHANGED extras
       \/ o.opt = "h" /\ OptionsDone(parsed) /\ UNCHANGED <<options, parsed, extras>>
       \/ o.opt = "?" /\ parsed' = "E_FAILURE" /\ apc' = "exit" /\ UNCHANGED <<options, extras>>
       \/ o.opt = "extra" /\ extras' = TRUE /\ UNCHANGED <<apc, options, parsed>>
  /\ UNCHANGED <<serverVars, program, given, config>>

(* getopt returns -1; report_extra_arguments.                               *)
NoMoreOptions ==
  /\ apc = "options" /\ argv = <<>>
  /\ parsed' = IF extras THEN "E_FAILURE" ELSE "E_SUCCESS"
  /\ OptionsDone(parsed')
  /\ UNCHANGED <<serverVars, program, given, argv, extras, options, config>>

(* The configuration main builds from its options.                          *)
MainConfig ==
  [port |-> options.p_value, num_threads |-> options.n_value, backlog_size |-> 10,
   max_clients |-> 10, timeout |-> 10, client_request |-> FALSE]

CallServer ==
  /\ apc = "start"
  /\ IF program = "salt_vault" THEN config' = MainConfig ELSE config' \in Configs
  /\ start_tcp_server(config')
  /\ apc' = "server"
  /\ UNCHANGED <<program, given, argv, extras, options, parsed>>

ServerReturns ==
  /\ apc = "server" /\ spc = "returned"
  /\ apc' = "exit"
  /\ UNCHANGED <<serverVars, program, given, argv, extras, options, parsed, config>>

----------------------------------------------------------------------------
AppStep == MainArgs \/ NextOption \/ NoMoreOptions \/ CallServer \/ ServerReturns

AppNext ==
  \/ AppStep
  \/ ServerNext /\ UNCHANGED appVars

(* The calling thread and the workers are scheduled.  Nothing is promised   *)
(* of clients, of the loop's errors or of signals.                          *)
AppSpec ==
  /\ AppInit /\ [][AppNext]_allVars
  /\ WF_allVars(ServerStep /\ UNCHANGED appVars)
  /\ \A w \in Workers : WF_allVars(ServerWorker(w) /\ UNCHANGED appVars)

----------------------------------------------------------------------------
AsksForHelp == \E i \in DOMAIN given : given[i].opt = "h"

(* On a command line without -h, salt_vault calls start_tcp_server only     *)
(* when every word is an option that is known, well formed, in range and    *)
(* given once, with the values of these options or the defaults; and a port *)
(* the options let through is one that validate_config accepts.             *)
StartsAsAsked ==
  (program = "salt_vault" /\ apc = "server" /\ ~AsksForHelp) =>
    /\ \A i \in DOMAIN given : given[i].opt \in {"p", "n"}
    /\ \A i, j \in DOMAIN given : given[i].opt = given[j].opt => i = j
    /\ \A i \in DOMAIN given :
         /\ given[i].opt = "p" => config.port = given[i].arg
         /\ given[i].opt = "n" => config.num_threads = given[i].arg.value
    /\ (\A i \in DOMAIN given : given[i].opt # "p") => config.port = DefaultOptions.p_value
    /\ (\A i \in DOMAIN given : given[i].opt # "n") => config.num_threads = DefaultOptions.n_value
    /\ validate_config([config EXCEPT !.num_threads = MIN_NUM_THREADS,
                                      !.client_request = TRUE])

(* What print_help_menu says of -h, "Print this help menu and exit": no     *)
(* server is started.  process_options leaves its loop at -h with the       *)
(* result of the option before.                                             *)
HelpExits == AsksForHelp => apc # "server"
=============================================================================

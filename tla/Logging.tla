------------------------------ MODULE Logging ------------------------------
(***************************************************************************)
(* libs/Logging and libs/IO/threadsafe_io: message_log, log_system_info and *)
(* the ts_ functions, which share stdout_mutex, the console and the log     *)
(* file.                                                                    *)
(*                                                                         *)
(* A line is the call that wrote it.  One printf is one write to the        *)
(* console (stdio locks the stream); what is printed to the log file is in  *)
(* the buffer of the FILE until fclose.  PRINT_DEBUG, which writes to the   *)
(* console without the mutex, is left out.                                  *)
(*                                                                         *)
(* A printf that fails leaves nothing on the console, and nobody looks.     *)
(*                                                                         *)
(* Main is the thread in start_tcp_server: it logs SESSION_START, calls     *)
(* log_system_info, which prints without the mutex, and only then creates   *)
(* the other threads.                                                       *)
(***************************************************************************)
EXTENDS Naturals, Sequences

CONSTANTS
  Threads, Main,
  NoThread,     \* owner of the mutex when it is free
  Fields,       \* strings log_system_info collects
  BoxLines,     \* lines of the box it prints
  MaxCalls      \* bound: calls of message_log and ts_printf

ASSUME LoggingConstants ==
  /\ Main \in Threads /\ NoThread \notin Threads
  /\ Fields \in Nat /\ BoxLines \in Nat /\ MaxCalls \in Nat \ {0}

VARIABLES
  stdout_mutex,   \* the thread that holds it
  pc,             \* where each thread is
  call,           \* the call each thread makes, or made last
  exit_code,      \* exit_code of each thread's message_log
  why,            \* history: what made the last one leave early
  left,           \* fields or box lines log_system_info still has to do
  console,        \* lines on the console
  lost,           \* history: calls whose printf failed
  logfile,        \* lines in server.log
  open_files,     \* FILEs of message_log that are open
  calls, stage    \* calls made; how far start_tcp_server is

vars == <<stdout_mutex, pc, call, exit_code, why, left, console, lost,
          logfile, open_files, calls, stage>>

LOG_CONSOLE == "LOG_CONSOLE"
LOG_FILE    == "LOG_FILE"
LOG_BOTH    == "LOG_BOTH"
Destinations == {LOG_CONSOLE, LOG_FILE, LOG_BOTH}

Box   == 0          \* the call of a line of the box
Calls == [op : {"none", "message", "printf", "snprintf"}, id : 0..MaxCalls,
          destination : Destinations, show_time : BOOLEAN]
Line  == [id : 0..MaxCalls, destination : Destinations]

TypeOK ==
  /\ stdout_mutex \in Threads \union {NoThread}
  /\ pc \in [Threads -> {"idle", "lock", "format", "open", "console", "file",
                         "close", "write", "info", "box"}]
  /\ call \in [Threads -> Calls]
  /\ exit_code \in [Threads -> {"E_SUCCESS", "E_FAILURE", "true"}]
  /\ why \in [Threads -> {"none", "color", "time", "format", "fopen", "fprintf", "fclose"}]
  /\ left \in Nat /\ calls \in 0..MaxCalls
  /\ stage \in {"session", "system", "threads"}
  /\ console \in Seq(Line) /\ logfile \in Seq(Line)
  /\ open_files \in SUBSET (1..MaxCalls) /\ lost \in SUBSET (1..MaxCalls)

(* Main is in message_log("SESSION_START").                                 *)
Init ==
  /\ stdout_mutex = NoThread
  /\ pc = [t \in Threads |-> IF t = Main THEN "lock" ELSE "idle"]
  /\ call = [t \in Threads |->
               IF t = Main THEN [op |-> "message", id |-> 1, destination |-> LOG_FILE,
                                 show_time |-> FALSE]
               ELSE [op |-> "none", id |-> 0, destination |-> LOG_CONSOLE,
                     show_time |-> FALSE]]
  /\ exit_code = [t \in Threads |-> "E_FAILURE"]
  /\ why = [t \in Threads |-> "none"]
  /\ left = 0
  /\ console = <<>> /\ logfile = <<>> /\ open_files = {} /\ lost = {}
  /\ calls = 1 /\ stage = "session"

----------------------------------------------------------------------------
LineOf(t)     == [id |-> call[t].id, destination |-> call[t].destination]
ToConsole(t)  == call[t].destination \in {LOG_CONSOLE, LOG_BOTH}
ToFile(t)     == call[t].destination \in {LOG_FILE, LOG_BOTH}

(* printf of the line, if it is to be printed; its result is not looked at. *)
Prints(t, wanted) ==
  \/ /\ console' = IF wanted THEN Append(console, LineOf(t)) ELSE console
     /\ lost' = lost
  \/ wanted /\ console' = console /\ lost' = lost \union {call[t].id}

Unlock    == stdout_mutex' = NoThread
Goto(t, where) == pc' = [pc EXCEPT ![t] = where]

(* message_log returns, because of a failure or of nothing.                 *)
Returns(t, reason, code) ==
  /\ Goto(t, "idle")
  /\ why' = [why EXCEPT ![t] = reason]
  /\ exit_code' = [exit_code EXCEPT ![t] = code]

(* A thread calls; before the others exist, that is Main.                   *)
Call(t, c) ==
  /\ pc[t] = "idle" /\ calls < MaxCalls
  /\ stage = "threads" \/ (stage = "system" /\ t = Main)
  /\ calls' = calls + 1
  /\ call' = [call EXCEPT ![t] = [c EXCEPT !.id = calls + 1]]
  /\ exit_code' = [exit_code EXCEPT ![t] = "E_FAILURE"]
  /\ Goto(t, "lock")
  /\ UNCHANGED <<stdout_mutex, why, left, console, lost, logfile, open_files, stage>>

message_log(t, destination, show_time) ==
  Call(t, [op |-> "message", id |-> 0, destination |-> destination,
           show_time |-> show_time])

(* ts_printf and ts_fprintf on a terminal; ts_snprintf, which prints        *)
(* nothing.  (ts_fprintf on another file takes no mutex.)                   *)
ts_call(t, op) ==
  Call(t, [op |-> op, id |-> 0, destination |-> LOG_CONSOLE, show_time |-> FALSE])

Lock(t) ==
  /\ pc[t] = "lock" /\ stdout_mutex = NoThread
  /\ stdout_mutex' = t
  /\ Goto(t, IF call[t].op = "message" THEN "format" ELSE "write")
  /\ UNCHANGED <<call, exit_code, why, left, console, lost, logfile, open_files, calls, stage>>

TsWrite(t) ==
  /\ pc[t] = "write"
  /\ Prints(t, call[t].op = "printf")
  /\ Unlock /\ Goto(t, "idle")
  /\ UNCHANGED <<call, exit_code, why, left, logfile, open_files, calls, stage>>

----------------------------------------------------------------------------
(* Mutant: the early return forgets the mutex.                              *)
FormatFails_keeps(t) ==
  /\ pc[t] = "format"
  /\ \/ Returns(t, "color", "E_FAILURE") \/ Returns(t, "format", "E_FAILURE")
     \/ call[t].show_time /\ Returns(t, "time", "true")
  /\ UNCHANGED <<stdout_mutex, call, left, console, lost, logfile, open_files, calls, stage>>

(* message_log under the mutex.  get_color_code or vsnprintf fails, or      *)
(* get_timestamp succeeds: its true is not E_SUCCESS.                       *)
FormatFails(t) ==
  /\ pc[t] = "format"
  /\ \/ Returns(t, "color", "E_FAILURE") \/ Returns(t, "format", "E_FAILURE")
     \/ call[t].show_time /\ Returns(t, "time", "true")
  /\ Unlock
  /\ UNCHANGED <<call, left, console, lost, logfile, open_files, calls, stage>>

(* They succeed, and get_timestamp was not called or failed.                *)
Format(t) ==
  /\ pc[t] = "format"
  /\ exit_code' = [exit_code EXCEPT ![t] = "E_SUCCESS"]
  /\ Goto(t, "open")
  /\ UNCHANGED <<stdout_mutex, call, why, left, console, lost, logfile, open_files, calls, stage>>

OpenFails(t) ==
  /\ pc[t] = "open" /\ ToFile(t)
  /\ Returns(t, "fopen", exit_code[t]) /\ Unlock
  /\ UNCHANGED <<call, left, console, lost, logfile, open_files, calls, stage>>

Open(t) ==
  /\ pc[t] = "open"
  /\ open_files' = IF ToFile(t) THEN open_files \union {call[t].id} ELSE open_files
  /\ Goto(t, "console")
  /\ UNCHANGED <<stdout_mutex, call, exit_code, why, left, console, lost, logfile, calls, stage>>

(* Mutant: the mutex is only held for the console.                          *)
PrintConsole_unlocks(t) ==
  /\ pc[t] = "console"
  /\ Prints(t, ToConsole(t))
  /\ Goto(t, "file") /\ Unlock
  /\ UNCHANGED <<call, exit_code, why, left, logfile, open_files, calls, stage>>

PrintConsole(t) ==
  /\ pc[t] = "console"
  /\ Prints(t, ToConsole(t))
  /\ Goto(t, "file")
  /\ UNCHANGED <<stdout_mutex, call, exit_code, why, left, logfile, open_files, calls, stage>>

(* fprintf fails: the function returns with the mutex and the open FILE.    *)
PrintFileFails(t) ==
  /\ pc[t] = "file" /\ ToFile(t)
  /\ Returns(t, "fprintf", exit_code[t])
  /\ UNCHANGED <<stdout_mutex, call, left, console, lost, logfile, open_files, calls, stage>>

PrintFile(t) ==
  /\ pc[t] = "file"
  /\ IF ToFile(t) THEN Goto(t, "close") /\ UNCHANGED <<stdout_mutex, exit_code, why>>
                  ELSE Returns(t, "none", "E_SUCCESS") /\ Unlock
  /\ UNCHANGED <<call, left, console, lost, logfile, open_files, calls, stage>>

(* safe_fclose writes the buffer out; a failure may have written it or not, *)
(* and the function returns with the mutex.                                 *)
CloseFile(t) ==
  /\ pc[t] = "close"
  /\ open_files' = open_files \ {call[t].id}
  /\ logfile' = Append(logfile, LineOf(t))
  /\ Returns(t, "none", "E_SUCCESS") /\ Unlock
  /\ UNCHANGED <<call, left, console, lost, calls, stage>>

(* Mutant: the early return unlocks the mutex and the line may be there.    *)
CloseFails_unlocks(t) ==
  /\ pc[t] = "close"
  /\ open_files' = open_files \ {call[t].id}
  /\ logfile' \in {logfile, Append(logfile, LineOf(t))}
  /\ Returns(t, "fclose", "E_FAILURE") /\ Unlock
  /\ UNCHANGED <<call, left, console, lost, calls, stage>>

CloseFails(t) ==
  /\ pc[t] = "close"
  /\ open_files' = open_files \ {call[t].id}
  /\ logfile' \in {logfile, Append(logfile, LineOf(t))}
  /\ Returns(t, "fclose", "E_FAILURE")
  /\ UNCHANGED <<stdout_mutex, call, left, console, lost, calls, stage>>

----------------------------------------------------------------------------
(* log_system_info: each get_ function formats its string with ts_snprintf, *)
(* under the mutex, or fails before it gets there ...                       *)
log_system_info ==
  /\ pc[Main] = "idle" /\ stage = "session"
  /\ stage' = "system" /\ left' = Fields /\ Goto(Main, "info")
  /\ UNCHANGED <<stdout_mutex, call, exit_code, why, console, lost, logfile,
                 open_files, calls>>

FieldDone ==
  /\ pc[Main] = "info" /\ left > 0
  /\ left' = left - 1
  /\ UNCHANGED <<stdout_mutex, pc, call, exit_code, why, console, lost, logfile,
                 open_files, calls, stage>>

InfoField == stdout_mutex = NoThread /\ FieldDone

InfoFieldFails == FieldDone

(* ... then the box goes to the log file, in one write when it is closed    *)
(* (no failure of it is looked at); when the file cannot be opened nothing  *)
(* is printed.                                                              *)
BoxLineOut == [id |-> Box, destination |-> LOG_BOTH]

InfoFile ==
  /\ pc[Main] = "info" /\ left = 0
  /\ \/ /\ logfile' \in {logfile, Append(logfile, BoxLineOut)}
        /\ left' = BoxLines /\ Goto(Main, "box")
     \/ Goto(Main, "idle") /\ UNCHANGED <<logfile, left>>
  /\ UNCHANGED <<stdout_mutex, call, exit_code, why, console, lost, open_files, calls, stage>>

(* print_boxed_info on the console, line after line, without the mutex.     *)
BoxLine ==
  /\ pc[Main] = "box" /\ left > 0
  /\ console' \in {console, Append(console, BoxLineOut)}
  /\ left' = left - 1
  /\ Goto(Main, IF left = 1 THEN "idle" ELSE "box")
  /\ UNCHANGED <<stdout_mutex, call, exit_code, why, lost, logfile, open_files, calls, stage>>

StartThreads ==
  /\ pc[Main] = "idle" /\ stage = "system"
  /\ stage' = "threads"
  /\ UNCHANGED <<stdout_mutex, pc, call, exit_code, why, left, console, lost, logfile,
                 open_files, calls>>

----------------------------------------------------------------------------
ThreadStep(t) ==
  \/ Lock(t) \/ TsWrite(t) \/ FormatFails(t) \/ Format(t) \/ OpenFails(t) \/ Open(t)
  \/ PrintConsole(t) \/ PrintFileFails(t) \/ PrintFile(t) \/ CloseFile(t) \/ CloseFails(t)

(* Steps of start_tcp_server that happen unless the mutex is held; no get_  *)
(* function need fail.                                                      *)
StartNext == log_system_info \/ InfoField \/ InfoFile \/ BoxLine \/ StartThreads

StartStep == StartNext \/ InfoFieldFails

ThreadCall(t) ==
  \/ \E destination \in Destinations, show_time \in BOOLEAN :
       message_log(t, destination, show_time)
  \/ \E op \in {"printf", "snprintf"} : ts_call(t, op)

Next == StartStep \/ \E t \in Threads : ThreadStep(t) \/ ThreadCall(t)

Spec == Init /\ [][Next]_vars

(* A thread that can run does, and a free mutex goes to one that waits.     *)
Fairness == WF_vars(StartNext) /\ \A t \in Threads : WF_vars(ThreadStep(t))

FairSpec == Spec /\ Fairness

----------------------------------------------------------------------------
(* Where message_log and the ts_ functions hold the mutex.                  *)
Inside == {"format", "open", "console", "file", "close", "write"}

(* The owner of the mutex left message_log because of its file, and may be  *)
(* back for the mutex.                                                      *)
Abandoned ==
  \E t \in Threads : /\ stdout_mutex = t /\ pc[t] \notin Inside
                     /\ why[t] \in {"fprintf", "fclose"}

BothLine(l)    == l.destination = LOG_BOTH /\ l.id # Box
InLog(l, log)  == \E i \in DOMAIN log : log[i] = l

(* A LOG_BOTH line of server.log is on the console unless its printf failed,*)
(* and no two are in different orders there (nor is one there twice).       *)
SameOrder ==
  /\ \A i \in DOMAIN logfile :
       BothLine(logfile[i]) => InLog(logfile[i], console) \/ logfile[i].id \in lost
  /\ \A i, k \in DOMAIN logfile, j, m \in DOMAIN console :
       (/\ BothLine(logfile[i]) /\ console[j] = logfile[i]
        /\ BothLine(logfile[k]) /\ console[m] = logfile[k]) => (i < k <=> j < m)

(* Only the last one may be missing in server.log, while somebody has the   *)
(* mutex.                                                                   *)
OnlyLastMissing ==
  \A j \in DOMAIN console :
    (BothLine(console[j]) /\ ~InLog(console[j], logfile)) =>
      /\ stdout_mutex # NoThread
      /\ \A m \in DOMAIN console : m > j => ~BothLine(console[m])

BoxTogether ==
  \A i, j \in DOMAIN console :
    (console[i].id = Box /\ console[j].id = Box) => \A k \in i..j : console[k].id = Box

(* The console and server.log carry the same LOG_BOTH lines in the same     *)
(* order, however many threads log: the file is behind by at most the line  *)
(* being logged, and the console lacks only lines whose own printf failed.  *)
(* When a line does not make it to the file, nobody logs another one.  And  *)
(* the lines of the system box, printed without the mutex, stay together on *)
(* the console.                                                             *)
LogsAgree == SameOrder /\ OnlyLastMissing /\ BoxTogether

(* message_log leaves the mutex locked behind it only when the log file     *)
(* cannot be written or closed, and a FILE stays open only then; as nobody  *)
(* logs after that, there is at most one such FILE.                         *)
MutexKept ==
  /\ TypeOK
  /\ \A t \in Threads : (stdout_mutex = t /\ pc[t] \notin Inside) => Abandoned
  /\ stdout_mutex = NoThread => open_files = {}
  /\ \A i, j \in open_files : i = j

(* A message_log that does not return E_SUCCESS has written nothing, or its *)
(* fclose failed and it left with the mutex: then nobody logs any more, so  *)
(* that a caller that tries again never writes the line a second time.      *)
FailsWhole ==
  \A t \in Threads :
    (pc[t] = "idle" /\ call[t].op = "message" /\ exit_code[t] # "E_SUCCESS") =>
      \/ stdout_mutex = t
      \/ ~InLog(LineOf(t), console) /\ ~InLog(LineOf(t), logfile)

(* What runtime_log.h says of message_log: it returns E_SUCCESS when the    *)
(* line is logged, where it was to be logged, and E_FAILURE otherwise.      *)
ResultTells ==
  \A t \in Threads : (pc[t] = "idle" /\ call[t].op = "message") =>
    exit_code[t] = IF /\ ToConsole(t) => InLog(LineOf(t), console)
                      /\ ToFile(t) => InLog(LineOf(t), logfile)
                     THEN "E_SUCCESS" ELSE "E_FAILURE"

(* A thread that wants the mutex gets it, unless a message_log that could   *)
(* not write its file took it along: the logger that waits, and Main in     *)
(* log_system_info, whose ts_snprintf waits for the mutex that its own      *)
(* SESSION_START may have taken along.                                      *)
LoggersReturn ==
  /\ \A t \in Threads : pc[t] = "lock" ~> (pc[t] # "lock" \/ Abandoned)
  /\ pc[Main] = "info" ~> (pc[Main] # "info" \/ Abandoned)
=============================================================================

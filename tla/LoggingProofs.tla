---------------------------- MODULE LoggingProofs ----------------------------
(***************************************************************************)
(* What the logger keeps true for every number of threads, calls, fields    *)
(* and lines of the box.                                                    *)
(*                                                                         *)
(* That the console and server.log agree is not inductive: it rests on who  *)
(* holds stdout_mutex and where (Mutex), on the calls having identities of  *)
(* their own (Ids) and on what each call has written by where it is         *)
(* (Progress, Behind).  LogInv is their conjunction.                        *)
(***************************************************************************)
EXTENDS Logging, SequenceTheorems, TLAPS

Starting == {"info", "box"}

(* A thread inside has the mutex; a thread that has it and is not inside    *)
(* took it along when its log file failed; and before the other threads     *)
(* exist only Main is anywhere.                                             *)
Mutex ==
  /\ \A t \in Threads : pc[t] \in Inside => stdout_mutex = t
  /\ \A t \in Threads : (stdout_mutex = t /\ pc[t] \notin Inside) =>
       why[t] \in {"fprintf", "fclose"}
  /\ pc[Main] \in Starting => stage = "system"
  /\ \A t \in Threads \ {Main} :
       pc[t] \notin Starting /\ (stage # "threads" => pc[t] = "idle")

(* SESSION_START goes to the log file only.                                 *)
Session ==
  stage = "session" =>
    /\ pc[Main] \notin Starting /\ console = <<>>
    /\ call[Main].op = "message" /\ call[Main].destination = LOG_FILE

(* What each place in message_log says of the call and of its FILE.         *)
Places ==
  \A t \in Threads :
    /\ pc[t] \in Inside \union {"lock"} => call[t].op # "none"
    /\ pc[t] \in {"format", "open", "console", "file", "close"} => call[t].op = "message"
    /\ pc[t] = "write" => call[t].op # "message"
    /\ pc[t] = "close" => ToFile(t)
    /\ call[t].op # "message" => call[t].destination = LOG_CONSOLE

Files ==
  /\ stdout_mutex = NoThread => open_files = {}
  /\ \A t \in Threads :
       /\ pc[t] \in {"format", "open", "write"} => open_files = {}
       /\ pc[t] \in {"console", "file", "close"} => open_files \subseteq {call[t].id}
       /\ (pc[t] \in {"console", "file"} /\ ~ToFile(t)) => open_files = {}
  /\ \A i, j \in open_files : i = j

Ids ==
  /\ \A t \in Threads : call[t].id <= calls /\ (call[t].op # "none" => call[t].id # 0)
  /\ \A t, u \in Threads : (call[t].id # 0 /\ call[t].id = call[u].id) => t = u
  /\ \A i \in DOMAIN console : console[i].id <= calls
  /\ \A i \in DOMAIN logfile : logfile[i].id <= calls

(* No line of the call is in the log.                                       *)
Absent(t, log) == \A i \in DOMAIN log : log[i].id # call[t].id

Told(t) ==
  exit_code[t] # "E_SUCCESS" =>
    stdout_mutex = t \/ (Absent(t, console) /\ Absent(t, logfile))

Back == {"idle"} \union Starting

(* What a message_log has written, by where it is.                          *)
ProgressOf(t) ==
  /\ pc[t] \in {"lock", "format", "open", "console"} => Absent(t, console)
  /\ pc[t] \in {"lock", "format", "open", "console", "file", "close"} => Absent(t, logfile)
  /\ (pc[t] \in {"file", "close"} /\ ToConsole(t)) =>
       InLog(LineOf(t), console) \/ call[t].id \in lost
  /\ pc[t] \in {"open", "console", "file", "close"} => exit_code[t] = "E_SUCCESS"
  /\ pc[t] \in Back => Told(t)

Progress == \A t \in Threads : call[t].op = "message" => ProgressOf(t)

(* A LOG_BOTH line that is on the console only: its thread is between the   *)
(* two, or left in between.                                                 *)
Behind ==
  \A j \in DOMAIN console :
    (BothLine(console[j]) /\ ~InLog(console[j], logfile)) =>
      /\ stdout_mutex \in Threads
      /\ pc[stdout_mutex] \in {"file", "close", "idle", "lock"}
      /\ pc[stdout_mutex] \in {"file", "close"} => console[j] = LineOf(stdout_mutex)
      /\ \A m \in DOMAIN console : m > j => ~BothLine(console[m])

(* The box is at the beginning of the console.                              *)
BoxFirst ==
  /\ pc[Main] \in Starting => \A i \in DOMAIN console : console[i].id = Box
  /\ \A i, j \in DOMAIN console : (j <= i /\ console[i].id = Box) => console[j].id = Box

LogInv ==
  /\ TypeOK /\ Mutex /\ Session /\ Places /\ Files /\ Ids /\ Progress
  /\ SameOrder /\ Behind /\ BoxFirst

----------------------------------------------------------------------------
(* TypeOK in two halves: the threads, and what they write (stage apart).   *)
ThreadTypes ==
  /\ stdout_mutex \in Threads \union {NoThread}
  /\ pc \in [Threads -> {"idle", "lock", "format", "open", "console", "file",
                         "close", "write", "info", "box"}]
  /\ call \in [Threads -> Calls]
  /\ exit_code \in [Threads -> {"E_SUCCESS", "E_FAILURE", "true"}]
  /\ why \in [Threads -> {"none", "color", "time", "format", "fopen", "fprintf", "fclose"}]

LogTypes ==
  /\ left \in Nat /\ calls \in 0..MaxCalls
  /\ console \in Seq(Line) /\ logfile \in Seq(Line)
  /\ open_files \in SUBSET (1..MaxCalls) /\ lost \in SUBSET (1..MaxCalls)

Stages == {"session", "system", "threads"}

(* The type invariant, in parts that different provers can deal with.       *)
LEMMA TypeHalves ==
  /\ TypeOK <=> ThreadTypes /\ LogTypes /\ stage \in Stages
  /\ TypeOK' <=> ThreadTypes' /\ LogTypes' /\ stage' \in Stages
BY DEF TypeOK, ThreadTypes, LogTypes, Stages

(* Writing a line keeps a log a sequence of lines.                          *)
LEMMA AppendLine == \A log \in Seq(Line), l \in Line : Append(log, l) \in Seq(Line)
OBVIOUS

(* The invariant holds before logging starts.                               *)
LEMMA InitLogInv == Init => LogInv
<1> SUFFICES ASSUME Init PROVE LogInv OBVIOUS
<1> USE LoggingConstants
<1>1. TypeOK
  <2>1. /\ [op |-> "none", id |-> 0, destination |-> LOG_CONSOLE, show_time |-> FALSE] \in Calls
        /\ [op |-> "message", id |-> 1, destination |-> LOG_FILE, show_time |-> FALSE] \in Calls
    BY DEF Calls, Destinations
  <2>2. ThreadTypes BY <2>1 DEF Init, ThreadTypes
  <2>3. LogTypes BY DEF Init, LogTypes
  <2>4. stage \in Stages BY DEF Init, Stages
  <2>5. QED BY <2>2, <2>3, <2>4, TypeHalves
<1>2. Mutex /\ Session /\ Places /\ Files
  <2>1. /\ stdout_mutex = NoThread /\ console = <<>> /\ open_files = {} /\ stage = "session"
        /\ pc[Main] = "lock" /\ \A t \in Threads \ {Main} : pc[t] = "idle"
        /\ call[Main].op = "message" /\ call[Main].destination = LOG_FILE
        /\ \A t \in Threads \ {Main} : call[t].op = "none" /\ call[t].destination = LOG_CONSOLE
    BY DEF Init
  <2>2. QED BY <2>1 DEF Mutex, Session, Places, Files, Inside, Starting, ToFile
<1>3. Ids /\ Progress
  <2>1. /\ calls = 1 /\ console = <<>> /\ logfile = <<>>
        /\ call[Main].id = 1 /\ call[Main].op = "message" /\ pc[Main] = "lock"
        /\ \A t \in Threads \ {Main} : call[t].id = 0 /\ call[t].op = "none"
    BY DEF Init
  <2>2. Ids BY <2>1 DEF Ids
  <2>3. ProgressOf(Main) BY <2>1 DEF ProgressOf, Absent, Back, Starting
  <2>4. QED BY <2>1, <2>2, <2>3 DEF Progress
<1>4. SameOrder /\ Behind /\ BoxFirst
  BY DEF Init, SameOrder, Behind, BoxFirst
<1>5. QED BY <1>1, <1>2, <1>3, <1>4 DEF LogInv

(* The steps of a thread that is in a call, by what they do to the logs.    *)
QuietStep(t) ==
  \/ Lock(t) \/ FormatFails(t) \/ Format(t) \/ OpenFails(t) \/ Open(t)
  \/ PrintFileFails(t) \/ PrintFile(t)

(* A line of the thread's call.                                             *)
LEMMA LineOfType ==
  ASSUME TypeOK, NEW t \in Threads
  PROVE  LineOf(t) \in Line /\ call[t] \in Calls /\ call[t].id \in 0..MaxCalls
BY DEF TypeOK, LineOf, Line, Calls

(* Every call a thread makes is one of Calls, with its op; a ts_ function   *)
(* prints to the console.                                                   *)
LEMMA CallsMade ==
  ASSUME NEW t \in Threads, ThreadCall(t)
  PROVE  \E c \in Calls : /\ Call(t, c) /\ c.op # "none"
                          /\ c.op # "message" => c.destination = LOG_CONSOLE
<1> USE LoggingConstants
<1>1. ASSUME NEW d \in Destinations, NEW b \in BOOLEAN, message_log(t, d, b)
      PROVE  \E c \in Calls : Call(t, c) /\ c.op = "message"
  <2>1. [op |-> "message", id |-> 0, destination |-> d, show_time |-> b] \in Calls
    BY DEF Calls
  <2>2. QED BY <1>1, <2>1 DEF message_log
<1>2. ASSUME NEW op \in {"printf", "snprintf"}, ts_call(t, op)
      PROVE  \E c \in Calls : Call(t, c) /\ c.op = op /\ c.destination = LOG_CONSOLE
  <2>1. [op |-> op, id |-> 0, destination |-> LOG_CONSOLE, show_time |-> FALSE] \in Calls
    BY DEF Calls, Destinations
  <2>2. QED BY <1>2, <2>1 DEF ts_call
<1>3. QED BY <1>1, <1>2 DEF ThreadCall

(* A line of the box is no LOG_BOTH line of a message_log.                  *)
LEMMA BoxLineType == BoxLineOut \in Line /\ BoxLineOut.id = Box /\ ~BothLine(BoxLineOut)
BY LoggingConstants DEF BoxLineOut, Line, Destinations, Box, BothLine

(* The steps of start_tcp_server.                                           *)
LEMMA StartKinds ==
  StartStep => log_system_info \/ FieldDone \/ InfoFile \/ BoxLine \/ StartThreads
BY DEF StartStep, StartNext, InfoField, InfoFieldFails

(* Every step preserves the type invariant.                                 *)
LEMMA TypeStep ==
  ASSUME LogInv, [Next]_vars
  PROVE  TypeOK'
<1> USE LoggingConstants
<1>0. TypeOK /\ ThreadTypes /\ LogTypes BY TypeHalves DEF LogInv
<1>a. stage' \in Stages
  <2>1. stage \in Stages BY <1>0, TypeHalves
  <2>2. stage' = stage \/ stage' = "system" \/ stage' = "threads"
    BY DEF Next, StartStep, StartNext, log_system_info, InfoField, InfoFieldFails,
           FieldDone, InfoFile, BoxLine, StartThreads, ThreadStep, Lock,
           TsWrite, FormatFails, Format, OpenFails, Open, PrintConsole, PrintFileFails,
           PrintFile, CloseFile, CloseFails, ThreadCall, message_log, ts_call, Call, vars
  <2>3. QED BY <2>1, <2>2 DEF Stages
<1>b. ASSUME NEW t \in Threads, pc[t] \in Inside, NEW wanted, Prints(t, wanted)
      PROVE  lost' \in SUBSET (1..MaxCalls) /\ console' \in Seq(Line)
  <2>1. call[t].id \in 1..MaxCalls
    BY <1>0, <1>b, LineOfType DEF LogInv, Places, Ids
  <2>2. console \in Seq(Line) /\ lost \in SUBSET (1..MaxCalls) BY <1>0 DEF LogTypes
  <2>3. lost' \in {lost, lost \union {call[t].id}} /\ console' \in {console, Append(console, LineOf(t))}
    BY <1>b DEF Prints
  <2>4. QED BY <1>0, <2>1, <2>2, <2>3, LineOfType, AppendLine
<1>1. ASSUME NEW t \in Threads, QuietStep(t) PROVE TypeOK'
  <2>1. /\ UNCHANGED <<call, left, console, lost, logfile, calls, stage>>
        /\ stdout_mutex' \in {stdout_mutex, t, NoThread}
    BY <1>1 DEF QuietStep, Lock, FormatFails, Format, OpenFails, Open, PrintFileFails,
                PrintFile, Returns, Unlock
  <2>2. \E x \in {"idle", "format", "open", "console", "file", "close", "write"} :
          pc' = [pc EXCEPT ![t] = x]
    BY <1>1 DEF QuietStep, Lock, FormatFails, Format, OpenFails, Open, PrintFileFails,
                PrintFile, Returns, Goto
  <2>3. exit_code' \in [Threads -> {"E_SUCCESS", "E_FAILURE", "true"}]
    BY <1>0, <1>1 DEF QuietStep, Lock, FormatFails, Format, OpenFails, Open,
                      PrintFileFails, PrintFile, Returns, TypeOK
  <2>4. why' \in [Threads -> {"none", "color", "time", "format", "fopen", "fprintf", "fclose"}]
    BY <1>0, <1>1 DEF QuietStep, Lock, FormatFails, Format, OpenFails, Open,
                      PrintFileFails, PrintFile, Returns, TypeOK
  <2>5. open_files' \in SUBSET (1..MaxCalls)
    <3>1. CASE ~Open(t)
      BY <1>0, <1>1, <3>1 DEF QuietStep, Lock, FormatFails, Format, OpenFails,
                              PrintFileFails, PrintFile, TypeOK
    <3>2. CASE Open(t)
      <4>1. call[t].id \in 1..MaxCalls
        BY <1>0, <3>2, LineOfType DEF Open, LogInv, Places, Ids, Inside
      <4>2. QED BY <1>0, <3>2, <4>1 DEF Open, TypeOK
    <3>3. QED BY <3>1, <3>2
  <2>6. ThreadTypes'
    <3>1. stdout_mutex' \in Threads \union {NoThread} /\ call' = call
      BY <1>0, <2>1 DEF ThreadTypes
    <3>2. pc' \in [Threads -> {"idle", "lock", "format", "open", "console", "file",
                              "close", "write", "info", "box"}]
      BY <1>0, <2>2 DEF ThreadTypes
    <3>3. QED BY <1>0, <2>3, <2>4, <3>1, <3>2 DEF ThreadTypes
  <2>7. LogTypes' BY <1>0, <2>1, <2>5 DEF LogTypes
  <2>8. QED BY <2>6, <2>7, <1>a, TypeHalves
<1>2. ASSUME NEW t \in Threads, TsWrite(t) PROVE TypeOK'
  <2>1. ThreadTypes' BY <1>0, <1>2 DEF TsWrite, Unlock, Goto, ThreadTypes
  <2>2. LogTypes'
    <3>1. lost' \in SUBSET (1..MaxCalls) /\ console' \in Seq(Line)
      BY <1>2, <1>b DEF TsWrite, Inside
    <3>2. QED BY <1>0, <1>2, <3>1 DEF TsWrite, LogTypes
  <2>3. QED BY <2>1, <2>2, <1>a, TypeHalves
<1>3. ASSUME NEW t \in Threads, PrintConsole(t) PROVE TypeOK'
  <2>1. ThreadTypes' BY <1>0, <1>3 DEF PrintConsole, Goto, ThreadTypes
  <2>2. LogTypes'
    <3>1. lost' \in SUBSET (1..MaxCalls) /\ console' \in Seq(Line)
      BY <1>3, <1>b DEF PrintConsole, Inside
    <3>2. QED BY <1>0, <1>3, <3>1 DEF PrintConsole, LogTypes
  <2>3. QED BY <2>1, <2>2, <1>a, TypeHalves
<1>4. ASSUME NEW t \in Threads, CloseFile(t) PROVE TypeOK'
  <2>1. ThreadTypes' BY <1>0, <1>4 DEF CloseFile, Returns, Unlock, Goto, ThreadTypes
  <2>2. LogTypes' BY <1>0, <1>4, LineOfType, AppendLine DEF CloseFile, LogTypes
  <2>3. QED BY <2>1, <2>2, <1>a, TypeHalves
<1>5. ASSUME NEW t \in Threads, CloseFails(t) PROVE TypeOK'
  <2>1. ThreadTypes' BY <1>0, <1>5 DEF CloseFails, Returns, Goto, ThreadTypes
  <2>2. LogTypes' BY <1>0, <1>5, LineOfType, AppendLine DEF CloseFails, LogTypes
  <2>3. QED BY <2>1, <2>2, <1>a, TypeHalves
<1>6. ASSUME NEW t \in Threads, ThreadCall(t) PROVE TypeOK'
  <2>1. PICK c \in Calls : Call(t, c) BY <1>6, CallsMade
  <2>2. [c EXCEPT !.id = calls + 1] \in Calls /\ calls + 1 \in 0..MaxCalls
    <3>1. calls + 1 \in 0..MaxCalls BY <1>0, <2>1 DEF Call, LogTypes
    <3>2. \A n \in 0..MaxCalls : [c EXCEPT !.id = n] \in Calls BY DEF Calls
    <3>3. QED BY <3>1, <3>2
  <2>3. ThreadTypes' BY <1>0, <2>1, <2>2 DEF Call, Goto, ThreadTypes
  <2>4. LogTypes' BY <1>0, <2>1, <2>2 DEF Call, LogTypes
  <2>5. QED BY <2>3, <2>4, <1>a, TypeHalves
<1>7. CASE StartStep
  <2>1. BoxLineOut \in Line BY DEF BoxLineOut, Box, Line, Destinations
  <2>2. CASE FieldDone \/ StartThreads \/ log_system_info
    <3>1. ThreadTypes'
      BY <1>0, <2>2 DEF FieldDone, StartThreads, log_system_info, Goto, ThreadTypes
    <3>2. /\ UNCHANGED <<calls, console, lost, logfile, open_files>>
          /\ left' = left \/ (left > 0 /\ left' = left - 1) \/ left' = Fields
      BY <2>2 DEF FieldDone, StartThreads, log_system_info
    <3>3. LogTypes' BY <1>0, <3>2 DEF LogTypes
    <3>4. QED BY <3>1, <3>3, <1>a, TypeHalves
  <2>3. CASE InfoFile
    <3>1. ThreadTypes' BY <1>0, <2>3 DEF InfoFile, Goto, ThreadTypes
    <3>2. LogTypes' BY <1>0, <2>1, <2>3, AppendLine DEF InfoFile, LogTypes
    <3>3. QED BY <3>1, <3>2, <1>a, TypeHalves
  <2>4. CASE BoxLine
    <3>1. ThreadTypes' BY <1>0, <2>4 DEF BoxLine, Goto, ThreadTypes
    <3>2. LogTypes' BY <1>0, <2>1, <2>4, AppendLine DEF BoxLine, LogTypes
    <3>3. QED BY <3>1, <3>2, <1>a, TypeHalves
  <2>5. QED BY <1>7, <2>2, <2>3, <2>4, StartKinds
<1>8. CASE UNCHANGED vars BY <1>0, <1>8 DEF vars, TypeOK
<1>9. QED
  BY <1>1, <1>2, <1>3, <1>4, <1>5, <1>6, <1>7, <1>8 DEF Next, ThreadStep, QuietStep

----------------------------------------------------------------------------
(* What a step of thread t in a call does to its place and to the mutex: it *)
(* takes the mutex, stays inside, leaves with or without unlocking, or      *)
(* begins a call.                                                           *)
Enters(t) == /\ pc[t] = "lock" /\ stdout_mutex = NoThread /\ stdout_mutex' = t
             /\ pc'[t] = IF call[t].op = "message" THEN "format" ELSE "write"
             /\ why' = why
Stays(t)  == /\ pc[t] \in Inside /\ pc'[t] \in Inside
             /\ stdout_mutex' = stdout_mutex /\ why' = why
Leaves(t) == pc[t] \in Inside /\ pc'[t] = "idle" /\ stdout_mutex' = NoThread
Keeps(t)  == /\ pc[t] \in {"file", "close"} /\ pc'[t] = "idle"
             /\ stdout_mutex' = stdout_mutex /\ why'[t] \in {"fprintf", "fclose"}
Begins(t) == /\ pc[t] = "idle" /\ pc'[t] = "lock"
             /\ stage = "threads" \/ (stage = "system" /\ t = Main)
             /\ stdout_mutex' = stdout_mutex /\ why' = why

(* How a step of one thread moves it in or out of the mutex.                *)
LEMMA ThreadMoves ==
  ASSUME TypeOK, NEW t \in Threads, ThreadStep(t) \/ ThreadCall(t)
  PROVE  /\ Enters(t) \/ Stays(t) \/ Leaves(t) \/ Keeps(t) \/ Begins(t)
         /\ \A u \in Threads \ {t} : pc'[u] = pc[u] /\ why'[u] = why[u]
         /\ stage' = stage
<1>0. ThreadTypes BY TypeHalves
<1>1. CASE Lock(t)
  BY <1>0, <1>1 DEF Lock, Goto, ThreadTypes, Enters
<1>2. CASE Format(t) \/ Open(t) \/ PrintConsole(t)
  BY <1>0, <1>2 DEF Format, Open, PrintConsole, Goto, ThreadTypes, Stays, Inside
<1>3. CASE TsWrite(t) \/ FormatFails(t) \/ OpenFails(t) \/ CloseFile(t)
  BY <1>0, <1>3 DEF TsWrite, FormatFails, OpenFails, CloseFile, Returns, Unlock, Goto,
                    ThreadTypes, Leaves, Inside
<1>4. CASE PrintFile(t)
  BY <1>0, <1>4 DEF PrintFile, Returns, Unlock, Goto, ThreadTypes, Leaves, Stays, Inside
<1>5. CASE PrintFileFails(t) \/ CloseFails(t)
  BY <1>0, <1>5 DEF PrintFileFails, CloseFails, Returns, Goto, ThreadTypes, Keeps
<1>6. CASE ThreadCall(t)
  <2>1. PICK c : Call(t, c) BY <1>6 DEF ThreadCall, message_log, ts_call
  <2>2. QED BY <1>0, <2>1 DEF Call, Goto, ThreadTypes, Begins
<1>7. QED BY <1>1, <1>2, <1>3, <1>4, <1>5, <1>6 DEF ThreadStep

(* Start steps are Main's, before the other threads exist or when it lets   *)
(* them exist.                                                              *)
LEMMA StartMoves ==
  ASSUME TypeOK, StartStep
  PROVE  /\ UNCHANGED <<stdout_mutex, why, call, exit_code, open_files, calls, lost>>
         /\ \A u \in Threads \ {Main} : pc'[u] = pc[u]
         /\ logfile' \in {logfile, Append(logfile, BoxLineOut)}
         /\ \/ /\ pc[Main] \in Starting /\ pc'[Main] \in {"info", "box", "idle"}
               /\ stage' = stage /\ console' \in {console, Append(console, BoxLineOut)}
            \/ /\ pc[Main] = "idle" /\ stage = "system"
               /\ pc' = pc /\ stage' = "threads" /\ UNCHANGED <<console, logfile>>
            \/ /\ pc[Main] = "idle" /\ stage = "session"
               /\ pc'[Main] = "info" /\ stage' = "system" /\ UNCHANGED <<console, logfile>>
<1>0. ThreadTypes /\ Main \in Threads BY TypeHalves, LoggingConstants
<1>1. CASE FieldDone \/ InfoFile \/ BoxLine
  BY <1>0, <1>1 DEF FieldDone, InfoFile, BoxLine, Goto, ThreadTypes, Starting
<1>2. CASE StartThreads
  BY <1>0, <1>2 DEF StartThreads
<1>3. CASE log_system_info
  BY <1>0, <1>3 DEF log_system_info, Goto, ThreadTypes
<1>4. QED BY <1>1, <1>2, <1>3, StartKinds

(* A thread that takes a step of a call is in it.                           *)
LEMMA ThreadPlace ==
  ASSUME NEW t \in Threads, ThreadStep(t)
  PROVE  call' = call /\ pc[t] \in Inside \union {"lock"}
BY DEF ThreadStep, Lock, TsWrite, FormatFails, Format, OpenFails, Open, PrintConsole,
       PrintFileFails, PrintFile, CloseFile, CloseFails, Inside

(* The mutex is held by the one thread that is inside.                      *)
LEMMA MutexStep ==
  ASSUME LogInv, [Next]_vars
  PROVE  Mutex'
<1> USE LoggingConstants
<1>0. Mutex /\ TypeOK BY DEF LogInv
<1>1. ASSUME NEW t \in Threads, ThreadStep(t) \/ ThreadCall(t) PROVE Mutex'
  <2>1. /\ Enters(t) \/ Stays(t) \/ Leaves(t) \/ Keeps(t) \/ Begins(t)
        /\ \A u \in Threads \ {t} : pc'[u] = pc[u] /\ why'[u] = why[u]
        /\ stage' = stage
    BY <1>0, <1>1, ThreadMoves
  <2>2. CASE Enters(t)
    BY <1>0, <2>1, <2>2 DEF Enters, Mutex, Inside, Starting
  <2>3. CASE Stays(t)
    BY <1>0, <2>1, <2>3 DEF Stays, Mutex, Inside, Starting
  <2>4. CASE Leaves(t)
    BY <1>0, <2>1, <2>4 DEF Leaves, Mutex, Inside, Starting
  <2>5. CASE Keeps(t)
    BY <1>0, <2>1, <2>5 DEF Keeps, Mutex, Inside, Starting
  <2>6. CASE Begins(t)
    BY <1>0, <2>1, <2>6 DEF Begins, Mutex, Inside, Starting
  <2>7. QED BY <2>1, <2>2, <2>3, <2>4, <2>5, <2>6
<1>2. CASE StartStep
  <2>1. /\ UNCHANGED <<stdout_mutex, why, call>>
        /\ \A u \in Threads \ {Main} : pc'[u] = pc[u]
        /\ \/ pc[Main] \in Starting /\ pc'[Main] \in {"info", "box", "idle"} /\ stage' = stage
           \/ pc[Main] = "idle" /\ stage = "system" /\ pc' = pc /\ stage' = "threads"
           \/ pc[Main] = "idle" /\ stage = "session" /\ pc'[Main] = "info" /\ stage' = "system"
    BY <1>0, <1>2, StartMoves
  <2>2. CASE pc[Main] \in Starting /\ pc'[Main] \in {"info", "box", "idle"} /\ stage' = stage
    BY <1>0, <2>1, <2>2 DEF Mutex, Inside, Starting
  <2>3. CASE pc[Main] = "idle" /\ stage = "system" /\ pc' = pc /\ stage' = "threads"
    BY <1>0, <2>1, <2>3 DEF Mutex, Starting
  <2>4. CASE pc[Main] = "idle" /\ stage = "session" /\ pc'[Main] = "info" /\ stage' = "system"
    BY <1>0, <2>1, <2>4 DEF Mutex, Inside, Starting
  <2>5. QED BY <2>1, <2>2, <2>3, <2>4
<1>3. CASE UNCHANGED vars BY <1>0, <1>3 DEF vars, Mutex
<1>4. QED BY <1>1, <1>2, <1>3 DEF Next

(* Before log_system_info only Main runs, and it prints to the file.        *)
LEMMA SessionStep ==
  ASSUME LogInv, [Next]_vars
  PROVE  Session'
<1> USE LoggingConstants
<1>0. Session /\ Mutex /\ Places /\ TypeOK BY DEF LogInv
<1>1. ASSUME NEW t \in Threads, ThreadStep(t) PROVE Session'
  <2>1. /\ stage' = stage /\ call' = call /\ pc[t] \in Inside \union {"lock"}
        /\ pc'[t] \notin Starting
    BY <1>0, <1>1, ThreadMoves, ThreadPlace
    DEF Enters, Stays, Leaves, Keeps, Begins, Inside, Starting
  <2>2. ASSUME stage = "session" PROVE t = Main /\ console' = console
    <3>1. t = Main BY <1>0, <2>1, <2>2 DEF Mutex, Inside
    <3>2. ~ToConsole(t) /\ call[t].op = "message"
      BY <1>0, <2>2, <3>1 DEF Session, ToConsole, LOG_CONSOLE, LOG_FILE, LOG_BOTH
    <3>3. console' = console
      BY <1>0, <1>1, <3>2
      DEF ThreadStep, Lock, TsWrite, FormatFails, Format, OpenFails, Open, PrintConsole,
          PrintFileFails, PrintFile, CloseFile, CloseFails, Prints, Places
    <3>4. QED BY <3>1, <3>3
  <2>3. QED BY <1>0, <2>1, <2>2 DEF Session
<1>2. ASSUME NEW t \in Threads, ThreadCall(t) PROVE Session'
  <2>1. stage' = stage /\ stage # "session"
    BY <1>2, CallsMade DEF Call
  <2>2. QED BY <2>1 DEF Session
<1>3. CASE StartStep
  BY <1>0, <1>3, StartMoves DEF Session, Mutex, Starting
<1>4. CASE UNCHANGED vars BY <1>0, <1>4 DEF vars, Session
<1>5. QED BY <1>1, <1>2, <1>3, <1>4 DEF Next

(* The thread inside is the only one.                                       *)
LEMMA OneInside ==
  ASSUME Mutex, NEW t \in Threads, pc[t] \in Inside
  PROVE  stdout_mutex = t /\ \A u \in Threads \ {t} : pc[u] \notin Inside
BY DEF Mutex

----------------------------------------------------------------------------
(* A thread that is in no call of its own keeps its call and its result.    *)
LEMMA PlacesStep ==
  ASSUME LogInv, [Next]_vars
  PROVE  Places'
<1> USE LoggingConstants
<1>0. Places /\ TypeOK /\ ThreadTypes BY TypeHalves DEF LogInv
<1>1. ASSUME NEW t \in Threads, ThreadStep(t) PROVE Places'
  <2>1. call' = call /\ \A u \in Threads \ {t} : pc'[u] = pc[u]
    BY <1>0, <1>1, ThreadMoves
    DEF ThreadStep, Lock, TsWrite, FormatFails, Format, OpenFails, Open, PrintConsole,
        PrintFileFails, PrintFile, CloseFile, CloseFails
  <2>2. \/ pc'[t] = "idle"
        \/ pc[t] = "lock" /\ pc'[t] = IF call[t].op = "message" THEN "format" ELSE "write"
        \/ pc[t] = "format" /\ pc'[t] = "open"
        \/ pc[t] = "open" /\ pc'[t] = "console"
        \/ pc[t] = "console" /\ pc'[t] = "file"
        \/ pc[t] = "file" /\ pc'[t] = "close" /\ ToFile(t)
    BY <1>0, <1>1
    DEF ThreadStep, Lock, TsWrite, FormatFails, Format, OpenFails, Open, PrintConsole,
        PrintFileFails, PrintFile, CloseFile, CloseFails, Returns, Goto, ThreadTypes
  <2>3. QED BY <1>0, <2>1, <2>2 DEF Places, Inside, ToFile
<1>2. ASSUME NEW t \in Threads, NEW c \in Calls, Call(t, c), c.op # "none",
             c.op # "message" => c.destination = LOG_CONSOLE
      PROVE  Places'
  <2>1. /\ pc'[t] = "lock" /\ call'[t].op = c.op /\ call'[t].destination = c.destination
        /\ \A u \in Threads \ {t} : pc'[u] = pc[u] /\ call'[u] = call[u]
    BY <1>0, <1>2 DEF Call, Goto, ThreadTypes, Calls
  <2>2. QED BY <1>0, <1>2, <2>1 DEF Places, Inside, ToFile
<1>3. ASSUME NEW t \in Threads, ThreadCall(t) PROVE Places'
  BY <1>2, <1>3, CallsMade
<1>4. CASE StartStep
  <2>1. call' = call /\ \A u \in Threads : pc'[u] = pc[u] \/ pc'[u] \in {"info", "box", "idle"}
    BY <1>0, <1>4, StartMoves
  <2>2. QED BY <1>0, <2>1 DEF Places, Inside, ToFile
<1>5. CASE UNCHANGED vars BY <1>0, <1>5 DEF vars, Places, ToFile
<1>6. QED BY <1>1, <1>3, <1>4, <1>5 DEF Next

(* At most one FILE is open, that of the call inside or of the one that     *)
(* took the mutex along.                                                    *)
LEMMA FilesStep ==
  ASSUME LogInv, [Next]_vars
  PROVE  Files'
<1> USE LoggingConstants
<1>0. Files /\ Mutex /\ Places /\ TypeOK /\ ThreadTypes BY TypeHalves DEF LogInv
<1>1. ASSUME NEW t \in Threads, Lock(t) \/ TsWrite(t) \/ FormatFails(t) \/ Format(t)
             \/ OpenFails(t) \/ PrintConsole(t) \/ PrintFileFails(t) \/ PrintFile(t)
      PROVE  Files'
  <2>1. UNCHANGED <<open_files, call>> /\ \A u \in Threads \ {t} : pc'[u] = pc[u]
    BY <1>0, <1>1, ThreadMoves
    DEF ThreadStep, Lock, TsWrite, FormatFails, Format, OpenFails, PrintConsole,
        PrintFileFails, PrintFile
  <2>2. \/ /\ pc[t] = "lock" /\ pc'[t] \in {"format", "write"}
           /\ stdout_mutex = NoThread /\ stdout_mutex' = t
        \/ pc[t] \in {"write", "format", "open"} /\ pc'[t] = "idle" /\ stdout_mutex' = NoThread
        \/ pc[t] = "format" /\ pc'[t] = "open" /\ stdout_mutex' = stdout_mutex
        \/ pc[t] = "console" /\ pc'[t] = "file" /\ stdout_mutex' = stdout_mutex
        \/ pc[t] = "file" /\ pc'[t] = "idle" /\ stdout_mutex' = stdout_mutex
        \/ pc[t] = "file" /\ pc'[t] = "close" /\ stdout_mutex' = stdout_mutex
        \/ pc[t] = "file" /\ pc'[t] = "idle" /\ stdout_mutex' = NoThread /\ ~ToFile(t)
    BY <1>0, <1>1
    DEF Lock, TsWrite, FormatFails, Format, OpenFails, PrintConsole, PrintFileFails,
        PrintFile, Returns, Unlock, Goto, ThreadTypes
  <2>3. pc[t] \in Inside => stdout_mutex = t /\ \A u \in Threads \ {t} : pc[u] \notin Inside
    BY <1>0, OneInside
  <2>4. pc[t] = "lock" /\ stdout_mutex = NoThread => \A u \in Threads : pc[u] \notin Inside
    BY <1>0 DEF Mutex
  <2>5. QED BY <1>0, <2>1, <2>2, <2>3, <2>4 DEF Files, Inside, ToFile
<1>2. ASSUME NEW t \in Threads, Open(t) PROVE Files'
  <2>1. /\ pc[t] = "open" /\ pc'[t] = "console" /\ UNCHANGED <<call, stdout_mutex>>
        /\ open_files' = IF ToFile(t) THEN open_files \union {call[t].id} ELSE open_files
        /\ \A u \in Threads \ {t} : pc'[u] = pc[u]
    BY <1>0, <1>2 DEF Open, Goto, ThreadTypes
  <2>2. stdout_mutex = t /\ \A u \in Threads \ {t} : pc[u] \notin Inside
    BY <1>0, <2>1, OneInside DEF Inside
  <2>3. open_files = {} BY <1>0, <2>1 DEF Files
  <2>4. QED BY <1>0, <2>1, <2>2, <2>3 DEF Files, Inside, ToFile
<1>3. ASSUME NEW t \in Threads, CloseFile(t) \/ CloseFails(t) PROVE Files'
  <2>1. /\ pc[t] = "close" /\ pc'[t] = "idle" /\ call' = call
        /\ open_files' = open_files \ {call[t].id}
        /\ \A u \in Threads \ {t} : pc'[u] = pc[u]
    BY <1>0, <1>3 DEF CloseFile, CloseFails, Returns, Goto, ThreadTypes
  <2>2. stdout_mutex = t /\ \A u \in Threads \ {t} : pc[u] \notin Inside
    BY <1>0, <2>1, OneInside DEF Inside
  <2>3. open_files' = {} BY <1>0, <2>1 DEF Files
  <2>4. QED BY <2>1, <2>2, <2>3 DEF Files, Inside
<1>4. ASSUME NEW t \in Threads, ThreadCall(t) PROVE Files'
  <2>1. PICK c : Call(t, c) BY <1>4 DEF ThreadCall, message_log, ts_call
  <2>2. /\ pc'[t] = "lock" /\ UNCHANGED <<open_files, stdout_mutex>>
        /\ \A u \in Threads \ {t} : pc'[u] = pc[u] /\ call'[u] = call[u]
    BY <1>0, <2>1 DEF Call, Goto, ThreadTypes
  <2>3. QED BY <1>0, <2>2 DEF Files, ToFile
<1>5. CASE StartStep
  <2>1. /\ UNCHANGED <<call, open_files, stdout_mutex>>
        /\ \A u \in Threads : pc'[u] = pc[u] \/ pc'[u] \in {"info", "box", "idle"}
    BY <1>0, <1>5, StartMoves
  <2>2. QED BY <1>0, <2>1 DEF Files, ToFile
<1>6. CASE UNCHANGED vars BY <1>0, <1>6 DEF vars, Files, ToFile
<1>7. QED BY <1>1, <1>2, <1>3, <1>4, <1>5, <1>6 DEF Next, ThreadStep

----------------------------------------------------------------------------
(* What a thread in a call writes is a line of this call.                   *)
LEMMA Writes ==
  ASSUME TypeOK, NEW t \in Threads, ThreadStep(t)
  PROVE  /\ UNCHANGED <<call, calls>>
         /\ console' \in {console, Append(console, LineOf(t))}
         /\ logfile' \in {logfile, Append(logfile, LineOf(t))}
         /\ pc[t] \in Inside \union {"lock"}
         /\ pc[t] = "lock" => console' = console /\ logfile' = logfile
BY DEF ThreadStep, Lock, TsWrite, FormatFails, Format, OpenFails, Open, PrintConsole,
       PrintFileFails, PrintFile, CloseFile, CloseFails, Prints, Inside

(* What is where in a log after one more line.                              *)
LEMMA Appended ==
  ASSUME NEW log \in Seq(Line), NEW l \in Line
  PROVE  /\ DOMAIN log = 1..Len(log) /\ Len(log) \in Nat
         /\ DOMAIN Append(log, l) = 1..(Len(log) + 1)
         /\ Append(log, l)[Len(log) + 1] = l
         /\ \A i \in DOMAIN log : Append(log, l)[i] = log[i] /\ i \in DOMAIN Append(log, l)
         /\ \A i \in DOMAIN Append(log, l) : i \in DOMAIN log \/ i = Len(log) + 1
OBVIOUS

(* What a log holds it keeps.                                               *)
LEMMA LogKeeps ==
  ASSUME NEW log \in Seq(Line), NEW l \in Line, NEW new,
         new \in {log, Append(log, l)}, NEW x, InLog(x, log)
  PROVE  InLog(x, new)
BY Appended DEF InLog

(* A bound on the ids in a log and on the new line bounds the new log.      *)
LEMMA LogKeepsBound ==
  ASSUME NEW log \in Seq(Line), NEW l \in Line, NEW new,
         new \in {log, Append(log, l)}, NEW n, l.id <= n,
         \A i \in DOMAIN log : log[i].id <= n
  PROVE  \A i \in DOMAIN new : new[i].id <= n
BY Appended

(* What is in a log is a line, with a number for its id.                    *)
LEMMA LineIds ==
  ASSUME NEW log \in Seq(Line), NEW i \in DOMAIN log
  PROVE  log[i] \in Line /\ log[i].id \in Nat
<1>1. log[i] \in Line OBVIOUS
<1>2. QED BY <1>1, LoggingConstants DEF Line

(* Ids stay below the next one, and differ between calls.                   *)
LEMMA IdsStep ==
  ASSUME LogInv, [Next]_vars
  PROVE  Ids'
<1> USE LoggingConstants
<1>0. Ids /\ TypeOK /\ ThreadTypes /\ LogTypes BY TypeHalves DEF LogInv
<1>1. ASSUME NEW t \in Threads, ThreadStep(t) PROVE Ids'
  <2>1. /\ UNCHANGED <<call, calls>>
        /\ console' \in {console, Append(console, LineOf(t))}
        /\ logfile' \in {logfile, Append(logfile, LineOf(t))}
    BY <1>0, <1>1, Writes
  <2>2. LineOf(t) \in Line /\ LineOf(t).id <= calls
    BY <1>0, LineOfType DEF LineOf, Ids
  <2>3. /\ \A i \in DOMAIN console' : console'[i].id <= calls
        /\ \A i \in DOMAIN logfile' : logfile'[i].id <= calls
    BY <1>0, <2>1, <2>2, LogKeepsBound DEF Ids, LogTypes
  <2>4. QED BY <1>0, <2>1, <2>3 DEF Ids
<1>2. ASSUME NEW t \in Threads, ThreadCall(t) PROVE Ids'
  <2>1. PICK c \in Calls : Call(t, c) BY <1>2, CallsMade
  <2>2. /\ calls' = calls + 1 /\ UNCHANGED <<console, logfile>> /\ call'[t].id = calls + 1
        /\ \A u \in Threads \ {t} : call'[u] = call[u]
    BY <1>0, <2>1 DEF Call, ThreadTypes, Calls
  <2>3. calls \in Nat /\ \A u \in Threads : call[u].id \in Nat /\ call[u].id <= calls
    BY <1>0, LineOfType DEF LogTypes, Ids
  <2>4. \A i \in DOMAIN console : console[i].id \in Nat
    BY <1>0, LineIds DEF LogTypes
  <2>5. \A i \in DOMAIN logfile : logfile[i].id \in Nat
    BY <1>0, LineIds DEF LogTypes
  <2>6. QED BY <1>0, <2>2, <2>3, <2>4, <2>5 DEF Ids
<1>3. CASE StartStep
  <2>1. /\ UNCHANGED <<call, calls>>
        /\ console' \in {console, Append(console, BoxLineOut)}
        /\ logfile' \in {logfile, Append(logfile, BoxLineOut)}
    BY <1>0, <1>3, StartMoves
  <2>2. BoxLineOut \in Line /\ BoxLineOut.id <= calls
    BY <1>0, BoxLineType DEF Box, LogTypes
  <2>3. /\ \A i \in DOMAIN console' : console'[i].id <= calls
        /\ \A i \in DOMAIN logfile' : logfile'[i].id <= calls
    BY <1>0, <2>1, <2>2, LogKeepsBound DEF Ids, LogTypes
  <2>4. QED BY <1>0, <2>1, <2>3 DEF Ids
<1>4. CASE UNCHANGED vars BY <1>0, <1>4 DEF vars, Ids
<1>5. QED BY <1>1, <1>2, <1>3, <1>4 DEF Next

(* A step of one thread leaves the records of another's message_log alone.  *)
LEMMA ProgressOthers ==
  ASSUME LogInv, NEW u \in Threads, call[u].op = "message", NEW l \in Line,
         console' \in {console, Append(console, l)}, logfile' \in {logfile, Append(logfile, l)},
         l.id # call[u].id, lost \subseteq lost', stdout_mutex = u => stdout_mutex' = u,
         pc'[u] = pc[u] \/ (pc[u] \in Back /\ pc'[u] \in Back),
         call'[u] = call[u], exit_code'[u] = exit_code[u]
  PROVE  ProgressOf(u)'
<1>0. console \in Seq(Line) /\ logfile \in Seq(Line) BY DEF LogInv, TypeOK
<1>1. ProgressOf(u) BY DEF LogInv, Progress
<1>2. LineOf(u)' = LineOf(u) /\ (ToConsole(u)' <=> ToConsole(u)) /\ (ToFile(u)' <=> ToFile(u))
  BY DEF LineOf, ToConsole, ToFile
<1>3. /\ InLog(LineOf(u), console) => InLog(LineOf(u), console')
      /\ InLog(LineOf(u), logfile) => InLog(LineOf(u), logfile')
      /\ Absent(u, console) => Absent(u, console)'
      /\ Absent(u, logfile) => Absent(u, logfile)'
  <2>1. ASSUME Absent(u, console) PROVE Absent(u, console)'
    <3>1. \A i \in DOMAIN console : console[i].id # call[u].id BY <2>1 DEF Absent
    <3>2. \A i \in DOMAIN console' : console'[i].id # call[u].id
      <4>1. CASE console' = console BY <3>1, <4>1
      <4>2. CASE console' = Append(console, l)
        BY <1>0, <3>1, <4>2, Appended
      <4>3. QED BY <4>1, <4>2
    <3>3. QED BY <3>2 DEF Absent
  <2>2. ASSUME Absent(u, logfile) PROVE Absent(u, logfile)'
    <3>1. \A i \in DOMAIN logfile : logfile[i].id # call[u].id BY <2>2 DEF Absent
    <3>2. \A i \in DOMAIN logfile' : logfile'[i].id # call[u].id
      <4>1. CASE logfile' = logfile BY <3>1, <4>1
      <4>2. CASE logfile' = Append(logfile, l)
        BY <1>0, <3>1, <4>2, Appended
      <4>3. QED BY <4>1, <4>2
    <3>3. QED BY <3>2 DEF Absent
  <2>3. QED BY <1>0, <2>1, <2>2, LogKeeps
<1>4. /\ InLog(LineOf(u), console)' <=> InLog(LineOf(u), console')
      /\ InLog(LineOf(u), logfile)' <=> InLog(LineOf(u), logfile')
  BY <1>2 DEF InLog
<1>5. Told(u) => Told(u)'
  BY <1>2, <1>3, <1>4 DEF Told
<1>6. CASE pc[u] \in Back /\ pc'[u] \in Back
  BY <1>1, <1>5, <1>6 DEF ProgressOf, Back, Starting
<1>7. CASE pc'[u] = pc[u]
  BY <1>1, <1>2, <1>3, <1>4, <1>5, <1>7 DEF ProgressOf
<1>8. QED BY <1>6, <1>7

(* A message_log that is in its call writes what its place says.            *)
LEMMA ProgressSelf ==
  ASSUME LogInv, NEW t \in Threads, ThreadStep(t), call[t].op = "message"
  PROVE  ProgressOf(t)'
<1>0. /\ ThreadTypes /\ Places /\ console \in Seq(Line) /\ logfile \in Seq(Line)
      /\ LineOf(t) \in Line
  BY TypeHalves, LineOfType DEF LogInv, LogTypes
<1>1. ProgressOf(t) BY DEF LogInv, Progress
<1>2. call' = call BY Writes DEF LogInv
<1>3. LineOf(t)' = LineOf(t) /\ (ToConsole(t)' <=> ToConsole(t)) /\ (ToFile(t)' <=> ToFile(t))
  BY <1>2 DEF LineOf, ToConsole, ToFile
<1>4. ~TsWrite(t) BY <1>0 DEF TsWrite, Places
<1>5. CASE Lock(t)
  <2>1. pc[t] = "lock" /\ pc'[t] = "format" /\ UNCHANGED <<console, logfile>>
    BY <1>0, <1>5 DEF Lock, Goto, ThreadTypes
  <2>2. QED BY <1>1, <1>2, <2>1 DEF ProgressOf, Absent, Back, Starting
<1>6. CASE FormatFails(t)
  <2>1. /\ pc[t] = "format" /\ pc'[t] = "idle" /\ UNCHANGED <<console, logfile>>
        /\ exit_code'[t] # "E_SUCCESS"
    BY <1>0, <1>6 DEF FormatFails, Returns, Goto, ThreadTypes
  <2>2. Told(t)' BY <1>1, <1>2, <2>1 DEF ProgressOf, Absent, Told
  <2>3. QED BY <2>1, <2>2 DEF ProgressOf, Back, Starting
<1>7. CASE Format(t)
  <2>1. /\ pc[t] = "format" /\ pc'[t] = "open" /\ UNCHANGED <<console, logfile>>
        /\ exit_code'[t] = "E_SUCCESS"
    BY <1>0, <1>7 DEF Format, Goto, ThreadTypes
  <2>2. QED BY <1>1, <1>2, <2>1 DEF ProgressOf, Absent, Back, Starting
<1>8. CASE OpenFails(t)
  <2>1. /\ pc[t] = "open" /\ pc'[t] = "idle" /\ exit_code'[t] = exit_code[t]
    BY <1>0, <1>8 DEF OpenFails, Returns, Goto, ThreadTypes
  <2>2. Told(t)' BY <1>1, <2>1 DEF ProgressOf, Told
  <2>3. QED BY <2>1, <2>2 DEF ProgressOf, Back, Starting
<1>9. CASE Open(t)
  <2>1. /\ pc[t] = "open" /\ pc'[t] = "console" /\ UNCHANGED <<console, logfile, exit_code>>
    BY <1>0, <1>9 DEF Open, Goto, ThreadTypes
  <2>2. QED BY <1>1, <1>2, <2>1 DEF ProgressOf, Absent, Back, Starting
<1>10. CASE PrintConsole(t)
  <2>1. /\ pc[t] = "console" /\ pc'[t] = "file" /\ UNCHANGED <<logfile, exit_code>>
        /\ Prints(t, ToConsole(t))
    BY <1>0, <1>10 DEF PrintConsole, Goto, ThreadTypes
  <2>2. Absent(t, logfile)' /\ exit_code'[t] = "E_SUCCESS"
    BY <1>1, <1>2, <2>1 DEF ProgressOf, Absent
  <2>3. ToConsole(t) => InLog(LineOf(t), console') \/ call[t].id \in lost'
    BY <1>0, <2>1, Appended DEF Prints, InLog
  <2>4. InLog(LineOf(t), console)' <=> InLog(LineOf(t), console')
    BY <1>3 DEF InLog
  <2>5. QED BY <1>2, <1>3, <2>1, <2>2, <2>3, <2>4 DEF ProgressOf, Back, Starting
<1>11. ASSUME pc[t] = "file", pc'[t] = "idle", exit_code'[t] = "E_SUCCESS"
       PROVE  ProgressOf(t)'
  BY <1>11 DEF Told, ProgressOf
<1>12. CASE PrintFileFails(t)
  <2>1. exit_code[t] = "E_SUCCESS" BY <1>1, <1>12 DEF PrintFileFails, ProgressOf
  <2>2. QED
    BY <1>0, <1>11, <1>12, <2>1 DEF PrintFileFails, Returns, Goto, ThreadTypes
<1>13. CASE PrintFile(t)
  <2>1. CASE ~ToFile(t)
    BY <1>0, <1>11, <1>13, <2>1 DEF PrintFile, Returns, Goto, ThreadTypes
  <2>2. CASE ToFile(t)
    <3>1. /\ pc[t] = "file" /\ pc'[t] = "close" /\ UNCHANGED <<console, logfile, exit_code>>
      BY <1>0, <1>13, <2>2 DEF PrintFile, Goto, ThreadTypes
    <3>2. InLog(LineOf(t), console)' <=> InLog(LineOf(t), console)
      BY <1>3, <3>1 DEF InLog
    <3>3. lost' = lost BY <1>13 DEF PrintFile
    <3>4. QED BY <1>1, <1>2, <1>3, <3>1, <3>2, <3>3 DEF ProgressOf, Absent, Back, Starting
  <2>3. QED BY <2>1, <2>2
<1>14. CASE CloseFile(t)
  <2>1. pc'[t] = "idle" /\ exit_code'[t] = "E_SUCCESS"
    BY <1>0, <1>14 DEF CloseFile, Returns, Goto, ThreadTypes
  <2>2. QED BY <2>1 DEF ProgressOf, Told
<1>15. CASE CloseFails(t)
  <2>1. pc[t] = "close" /\ pc'[t] = "idle" /\ stdout_mutex' = stdout_mutex
    BY <1>0, <1>15 DEF CloseFails, Returns, Goto, ThreadTypes
  <2>2. stdout_mutex = t BY <2>1 DEF LogInv, Mutex, Inside
  <2>3. QED BY <2>1, <2>2 DEF ProgressOf, Told
<1>16. QED
  BY <1>4, <1>5, <1>6, <1>7, <1>8, <1>9, <1>10, <1>12, <1>13, <1>14, <1>15 DEF ThreadStep

(* What each place in message_log says about the two logs.                  *)
LEMMA ProgressStep ==
  ASSUME LogInv, [Next]_vars
  PROVE  Progress'
<1> USE LoggingConstants
<1>0. TypeOK /\ ThreadTypes /\ LogTypes /\ Ids /\ Places /\ Progress
  BY TypeHalves DEF LogInv
<1>1. ASSUME NEW t \in Threads, ThreadStep(t), NEW u \in Threads, call'[u].op = "message"
      PROVE  ProgressOf(u)'
  <2>1. /\ call' = call
        /\ console' \in {console, Append(console, LineOf(t))}
        /\ logfile' \in {logfile, Append(logfile, LineOf(t))}
    BY <1>0, <1>1, Writes
  <2>2. CASE u = t BY <1>1, <2>1, <2>2, ProgressSelf
  <2>3. CASE u # t
    <3>1. LineOf(t) \in Line /\ LineOf(t).id = call[t].id
      BY <1>0, LineOfType DEF LineOf
    <3>2. call[u].id # call[t].id
      BY <1>0, <1>1, <2>1, <2>3 DEF Ids
    <3>3. pc'[u] = pc[u] BY <1>0, <1>1, <2>3, ThreadMoves
    <3>a. stdout_mutex = u => stdout_mutex' = u
      <4>1. Enters(t) \/ Stays(t) \/ Leaves(t) \/ Keeps(t) \/ Begins(t)
        BY <1>0, <1>1, ThreadMoves
      <4>2. QED
        BY <2>3, <4>1, LoggingConstants
        DEF Enters, Stays, Leaves, Keeps, Begins, LogInv, Mutex
    <3>b. lost \subseteq lost'
      BY <1>1
      DEF ThreadStep, Lock, TsWrite, FormatFails, Format, OpenFails, Open, PrintConsole,
          PrintFileFails, PrintFile, CloseFile, CloseFails, Prints
    <3>4. exit_code'[u] = exit_code[u]
      BY <1>0, <1>1, <2>3
      DEF ThreadStep, Lock, TsWrite, FormatFails, Format, OpenFails, Open, PrintConsole,
          PrintFileFails, PrintFile, CloseFile, CloseFails, Returns, ThreadTypes
    <3>5. QED BY <1>1, <2>1, <3>1, <3>2, <3>3, <3>4, <3>a, <3>b, ProgressOthers
  <2>4. QED BY <2>2, <2>3
<1>2. ASSUME NEW t \in Threads, ThreadCall(t), NEW u \in Threads, call'[u].op = "message"
      PROVE  ProgressOf(u)'
  <2>1. PICK c \in Calls : Call(t, c) BY <1>2, CallsMade
  <2>2. /\ UNCHANGED <<console, logfile, lost, stdout_mutex>>
        /\ pc'[t] = "lock" /\ call'[t].id = calls + 1
        /\ \A v \in Threads \ {t} : /\ pc'[v] = pc[v] /\ call'[v] = call[v]
                                    /\ exit_code'[v] = exit_code[v]
    BY <1>0, <2>1 DEF Call, Goto, ThreadTypes, Calls
  <2>3. CASE u = t
    <3>1. \A i \in DOMAIN console : console[i].id # calls + 1
      BY <1>0, LineIds DEF Ids, LogTypes
    <3>2. \A i \in DOMAIN logfile : logfile[i].id # calls + 1
      BY <1>0, LineIds DEF Ids, LogTypes
    <3>3. Absent(t, console)' /\ Absent(t, logfile)'
      BY <2>2, <3>1, <3>2 DEF Absent
    <3>4. QED BY <2>2, <2>3, <3>3 DEF ProgressOf, Back, Starting
  <2>4. CASE u # t
    <3>1. call[u].op = "message" /\ call[u].id # 0
      BY <1>0, <1>2, <2>2, <2>4 DEF Ids
    <3>2. [id |-> 0, destination |-> LOG_CONSOLE] \in Line
      BY DEF Line, Destinations
    <3>3. QED BY <2>2, <2>4, <3>1, <3>2, ProgressOthers
  <2>5. QED BY <2>3, <2>4
<1>3. ASSUME StartStep, NEW u \in Threads, call'[u].op = "message"
      PROVE  ProgressOf(u)'
  <2>1. /\ UNCHANGED <<call, exit_code, stdout_mutex, lost>>
        /\ console' \in {console, Append(console, BoxLineOut)}
        /\ logfile' \in {logfile, Append(logfile, BoxLineOut)}
        /\ pc'[u] = pc[u] \/ (pc[u] \in Back /\ pc'[u] \in Back)
    BY <1>0, <1>3, StartMoves DEF Back, Starting
  <2>2. BoxLineOut \in Line /\ BoxLineOut.id = 0 BY BoxLineType DEF Box
  <2>3. call[u].op = "message" /\ call[u].id # 0 BY <1>0, <1>3, <2>1 DEF Ids
  <2>4. QED BY <2>1, <2>2, <2>3, ProgressOthers
<1>4. CASE UNCHANGED vars
  BY <1>0, <1>4
  DEF vars, Progress, ProgressOf, Told, Absent, InLog, LineOf, ToConsole, ToFile
<1>5. QED BY <1>1, <1>2, <1>3, <1>4 DEF Next, Progress

----------------------------------------------------------------------------
(* The order of the lines.  Appending a line that is no LOG_BOTH line to    *)
(* either log, or a new one to the console, disturbs nothing.               *)
LEMMA OrderQuiet ==
  ASSUME SameOrder, NEW l \in Line, console \in Seq(Line), logfile \in Seq(Line),
         console' \in {console, Append(console, l)}, logfile' \in {logfile, Append(logfile, l)},
         lost \subseteq lost',
         BothLine(l) => /\ logfile' = logfile
                        /\ \A i \in DOMAIN logfile : logfile[i] # l
  PROVE  SameOrder'
<1>1. /\ DOMAIN console \subseteq DOMAIN console' /\ \A i \in DOMAIN console : console'[i] = console[i]
      /\ \A i \in DOMAIN console' : i \in DOMAIN console \/ console'[i] = l
  BY Appended
<1>2. /\ DOMAIN logfile \subseteq DOMAIN logfile' /\ \A i \in DOMAIN logfile : logfile'[i] = logfile[i]
      /\ \A i \in DOMAIN logfile' : i \in DOMAIN logfile \/ (logfile'[i] = l /\ ~BothLine(l))
  <2>1. CASE logfile' = logfile BY <2>1
  <2>2. CASE logfile' = Append(logfile, l) /\ ~BothLine(l)
    BY <2>2, Appended
  <2>3. CASE logfile' = Append(logfile, l) /\ BothLine(l) BY <2>3
  <2>4. QED BY <2>1, <2>2, <2>3
<1>3. ASSUME NEW i \in DOMAIN logfile', BothLine(logfile'[i])
      PROVE  i \in DOMAIN logfile /\ logfile'[i] = logfile[i] /\ BothLine(logfile[i])
  BY <1>2, <1>3
<1>4. ASSUME NEW i \in DOMAIN logfile, BothLine(logfile[i]), NEW j \in DOMAIN console',
             console'[j] = logfile[i]
      PROVE  j \in DOMAIN console /\ console[j] = logfile[i]
  BY <1>1, <1>4
<1>5. ASSUME NEW i \in DOMAIN logfile', BothLine(logfile'[i])
      PROVE  InLog(logfile'[i], console') \/ logfile'[i].id \in lost'
  <2>1. i \in DOMAIN logfile /\ logfile'[i] = logfile[i] /\ BothLine(logfile[i])
    BY <1>3, <1>5
  <2>2. InLog(logfile[i], console) \/ logfile[i].id \in lost BY <2>1 DEF SameOrder
  <2>3. QED BY <1>1, <2>1, <2>2 DEF InLog
<1>6. ASSUME NEW i \in DOMAIN logfile', NEW k \in DOMAIN logfile',
             NEW j \in DOMAIN console', NEW m \in DOMAIN console',
             BothLine(logfile'[i]), console'[j] = logfile'[i],
             BothLine(logfile'[k]), console'[m] = logfile'[k]
      PROVE  i < k <=> j < m
  <2>1. /\ i \in DOMAIN logfile /\ logfile'[i] = logfile[i] /\ BothLine(logfile[i])
        /\ k \in DOMAIN logfile /\ logfile'[k] = logfile[k] /\ BothLine(logfile[k])
    BY <1>3, <1>6
  <2>2. /\ j \in DOMAIN console /\ console[j] = logfile[i]
        /\ m \in DOMAIN console /\ console[m] = logfile[k]
    BY <1>4, <1>6, <2>1
  <2>3. QED BY <2>1, <2>2 DEF SameOrder
<1>7. QED BY <1>5, <1>6 DEF SameOrder, BothLine, InLog

(* A line that was missing in server.log is appended: it was the last one   *)
(* on the console.                                                          *)
LEMMA OrderClose ==
  ASSUME LogInv, NEW t \in Threads, pc[t] = "close", BothLine(LineOf(t)),
         console' = console, lost' = lost, logfile' = Append(logfile, LineOf(t))
  PROVE  SameOrder'
<1>0. /\ SameOrder /\ Behind /\ console \in Seq(Line) /\ logfile \in Seq(Line)
      /\ LineOf(t) \in Line
  BY LineOfType DEF LogInv, TypeOK
<1> DEFINE l == LineOf(t)
<1>1. /\ DOMAIN logfile = 1..Len(logfile) /\ Len(logfile) \in Nat
      /\ \A i \in DOMAIN logfile : logfile'[i] = logfile[i]
      /\ \A i \in DOMAIN logfile' : i \in DOMAIN logfile \/ (i = Len(logfile) + 1 /\ logfile'[i] = l)
  BY <1>0, Appended
<1>2. DOMAIN console = 1..Len(console) /\ Len(console) \in Nat
  BY <1>0
<1>3. call[t].op = "message" BY DEF LogInv, Places
<1>4. ProgressOf(t) BY <1>3 DEF LogInv, Progress
<1>5. (InLog(l, console) \/ l.id \in lost) /\ ~InLog(l, logfile)
  BY <1>4 DEF ProgressOf, Absent, InLog, LineOf, BothLine, ToConsole
<1>6. \A j, m \in DOMAIN console : (console[j] = l /\ BothLine(console[m])) => m <= j
  BY <1>0, <1>2, <1>5 DEF Behind
<1> HIDE DEF l
<1>7. ASSUME NEW i \in DOMAIN logfile', BothLine(logfile'[i])
      PROVE  InLog(logfile'[i], console') \/ logfile'[i].id \in lost'
  BY <1>0, <1>1, <1>5, <1>7 DEF SameOrder
<1>8. ASSUME NEW i \in DOMAIN logfile', NEW k \in DOMAIN logfile',
             NEW j \in DOMAIN console', NEW m \in DOMAIN console',
             BothLine(logfile'[i]), console'[j] = logfile'[i],
             BothLine(logfile'[k]), console'[m] = logfile'[k]
      PROVE  i < k <=> j < m
  <2>1. j \in DOMAIN console /\ m \in DOMAIN console /\ j \in Nat /\ m \in Nat
    BY <1>2
  <2>2. CASE i \in DOMAIN logfile /\ k \in DOMAIN logfile
    BY <1>0, <1>1, <1>8, <2>1, <2>2 DEF SameOrder
  <2>3. CASE i \in DOMAIN logfile /\ k = Len(logfile) + 1 /\ logfile'[k] = l
    <3>1. m >= j BY <1>6, <1>8, <2>1, <2>3
    <3>2. console[j] # l BY <1>1, <1>5, <1>8, <2>3 DEF InLog
    <3>3. QED BY <1>1, <1>8, <2>1, <2>3, <3>1, <3>2
  <2>4. CASE k \in DOMAIN logfile /\ i = Len(logfile) + 1 /\ logfile'[i] = l
    <3>1. j >= m BY <1>6, <1>8, <2>1, <2>4
    <3>2. QED BY <1>1, <2>1, <2>4, <3>1
  <2>5. CASE i = Len(logfile) + 1 /\ k = Len(logfile) + 1 /\ logfile'[i] = l
    <3>1. j >= m BY <1>6, <1>8, <2>1, <2>5
    <3>2. QED BY <1>1, <2>1, <2>5, <3>1
  <2>6. QED BY <1>1, <2>2, <2>3, <2>4, <2>5
<1>9. QED BY <1>7, <1>8 DEF SameOrder, BothLine, InLog

(* A line of the box is no LOG_BOTH line of a message_log, nor is what a    *)
(* ts_ function prints.                                                     *)
LEMMA OrderStep ==
  ASSUME LogInv, [Next]_vars
  PROVE  SameOrder'
<1> USE LoggingConstants
<1>0. TypeOK /\ SameOrder /\ Places /\ console \in Seq(Line) /\ logfile \in Seq(Line)
  BY DEF LogInv, TypeOK
<1>1. ASSUME NEW t \in Threads, ThreadStep(t) PROVE SameOrder'
  <2>1. /\ LineOf(t) \in Line
        /\ console' \in {console, Append(console, LineOf(t))}
        /\ logfile' \in {logfile, Append(logfile, LineOf(t))}
    BY <1>0, <1>1, Writes, LineOfType
  <2>a. lost \subseteq lost'
    BY <1>1
    DEF ThreadStep, Lock, TsWrite, FormatFails, Format, OpenFails, Open, PrintConsole,
        PrintFileFails, PrintFile, CloseFile, CloseFails, Prints
  <2>2. CASE ~BothLine(LineOf(t)) BY <1>0, <2>1, <2>2, <2>a, OrderQuiet
  <2>3. CASE BothLine(LineOf(t))
    <3>1. call[t].op = "message"
      BY <1>0, <2>3 DEF Places, BothLine, LineOf, LOG_CONSOLE, LOG_BOTH
    <3>2. ProgressOf(t) BY <3>1 DEF LogInv, Progress
    <3>3. CASE PrintConsole(t)
      <4>1. logfile' = logfile /\ pc[t] = "console" BY <3>3 DEF PrintConsole
      <4>2. \A i \in DOMAIN logfile : logfile[i] # LineOf(t)
        BY <3>2, <4>1 DEF ProgressOf, Absent, LineOf
      <4>3. QED BY <1>0, <2>1, <2>a, <4>1, <4>2, OrderQuiet
    <3>4. CASE CloseFile(t) \/ CloseFails(t)
      <4>1. pc[t] = "close" /\ console' = console /\ lost' = lost
        BY <3>4 DEF CloseFile, CloseFails
      <4>2. CASE logfile' = Append(logfile, LineOf(t)) BY <2>3, <4>1, <4>2, OrderClose
      <4>3. CASE logfile' = logfile BY <1>0, <4>1, <4>3 DEF SameOrder, InLog, BothLine
      <4>4. QED BY <2>1, <4>2, <4>3
    <3>5. CASE UNCHANGED <<console, logfile, lost>>
      BY <1>0, <3>5 DEF SameOrder, InLog, BothLine
    <3>6. ~TsWrite(t) BY <1>0, <3>1 DEF TsWrite, Places
    <3>7. QED
      BY <1>1, <3>3, <3>4, <3>5, <3>6
      DEF ThreadStep, Lock, FormatFails, Format, OpenFails, Open, PrintFileFails, PrintFile
  <2>4. QED BY <2>2, <2>3
<1>2. ASSUME NEW t \in Threads, ThreadCall(t) PROVE SameOrder'
  <2>1. UNCHANGED <<console, logfile, lost>>
    BY <1>2 DEF ThreadCall, message_log, ts_call, Call
  <2>2. QED BY <1>0, <2>1 DEF SameOrder, InLog, BothLine
<1>3. CASE StartStep
  <2>1. /\ lost' = lost /\ console' \in {console, Append(console, BoxLineOut)}
        /\ logfile' \in {logfile, Append(logfile, BoxLineOut)}
    BY <1>0, <1>3, StartMoves
  <2>2. QED BY <1>0, <2>1, BoxLineType, OrderQuiet
<1>4. CASE UNCHANGED vars BY <1>0, <1>4 DEF vars, SameOrder, InLog, BothLine
<1>5. QED BY <1>1, <1>2, <1>3, <1>4 DEF Next

(* While no line is missing, or after the missing one was written, nobody   *)
(* needs to hold the mutex.                                                 *)
NoneMissing == \A j \in DOMAIN console : BothLine(console[j]) => InLog(console[j], logfile)

(* While a thread is inside, only its own line can be missing.              *)
LEMMA MissingByPlace ==
  ASSUME Behind, Mutex, NEW t \in Threads, pc[t] \in Inside
  PROVE  /\ pc[t] \notin {"file", "close"} => NoneMissing
         /\ pc[t] \in {"file", "close"} =>
              \A j \in DOMAIN console :
                (BothLine(console[j]) /\ ~InLog(console[j], logfile)) => console[j] = LineOf(t)
<1>1. stdout_mutex = t BY OneInside
<1>2. QED BY <1>1 DEF Behind, NoneMissing, Inside

(* With nothing missing the file is behind nowhere.                         *)
LEMMA NoneMissingBehind ==
  ASSUME NoneMissing'
  PROVE  Behind'
BY DEF NoneMissing, Behind

(* The file never lacks more than the line being written.                   *)
LEMMA BehindStep ==
  ASSUME LogInv, [Next]_vars
  PROVE  Behind'
<1> USE LoggingConstants
<1>0. /\ TypeOK /\ ThreadTypes /\ Behind /\ Mutex /\ Places
      /\ console \in Seq(Line) /\ logfile \in Seq(Line)
  BY TypeHalves DEF LogInv, TypeOK
<1>a. ASSUME UNCHANGED <<console, logfile>>, NoneMissing PROVE Behind'
  BY <1>a, NoneMissingBehind DEF NoneMissing, InLog, BothLine
<1>1. ASSUME NEW t \in Threads, Lock(t) PROVE Behind'
  <2>1. stdout_mutex \notin Threads /\ UNCHANGED <<console, logfile>> BY <1>1 DEF Lock
  <2>2. NoneMissing BY <1>0, <2>1 DEF Behind, NoneMissing
  <2>3. QED BY <1>a, <2>1, <2>2
<1>2. ASSUME NEW t \in Threads, FormatFails(t) \/ Format(t) \/ OpenFails(t) \/ Open(t)
      PROVE  Behind'
  <2>1. pc[t] \in {"format", "open"} /\ UNCHANGED <<console, logfile>>
    BY <1>2 DEF FormatFails, Format, OpenFails, Open
  <2>2. NoneMissing BY <1>0, <2>1, MissingByPlace DEF Inside
  <2>3. QED BY <1>a, <2>1, <2>2
<1>3. ASSUME NEW t \in Threads, TsWrite(t) PROVE Behind'
  <2>1. pc[t] = "write" /\ logfile' = logfile
        /\ console' \in {console, Append(console, LineOf(t))}
    BY <1>3 DEF TsWrite, Prints
  <2>2. NoneMissing BY <1>0, <2>1, MissingByPlace DEF Inside
  <2>3. LineOf(t) \in Line /\ ~BothLine(LineOf(t))
    BY <1>0, <2>1, LineOfType DEF Places, BothLine, LineOf, LOG_CONSOLE, LOG_BOTH
  <2>4. \A i \in DOMAIN console' : (i \in DOMAIN console /\ console'[i] = console[i])
                                   \/ console'[i] = LineOf(t)
    BY <1>0, <2>1, <2>3, Appended
  <2>5. NoneMissing' BY <2>1, <2>2, <2>3, <2>4 DEF NoneMissing, InLog, BothLine
  <2>6. QED BY <2>5, NoneMissingBehind
<1>4. ASSUME NEW t \in Threads, PrintConsole(t) PROVE Behind'
  <2>1. /\ pc[t] = "console" /\ UNCHANGED <<logfile, stdout_mutex, call>> /\ pc'[t] = "file"
        /\ console' \in {console, Append(console, LineOf(t))}
    BY <1>0, <1>4 DEF PrintConsole, Prints, Goto, ThreadTypes
  <2>2. NoneMissing /\ stdout_mutex = t
    BY <1>0, <2>1, MissingByPlace, OneInside DEF Inside
  <2>3. LineOf(t) \in Line BY <1>0, LineOfType
  <2>4. LineOf(t)' = LineOf(t) BY <2>1 DEF LineOf
  <2>5. CASE console' = console BY <1>a, <2>1, <2>2, <2>5
  <2>6. CASE console' = Append(console, LineOf(t))
    <3>1. \A i \in DOMAIN console' :
            /\ i \in Nat
            /\ \/ i \in DOMAIN console /\ console'[i] = console[i] /\ i < Len(console) + 1
               \/ i = Len(console) + 1 /\ console'[i] = LineOf(t)
      BY <1>0, <2>3, <2>6, Appended
    <3>2. ASSUME NEW j \in DOMAIN console', BothLine(console'[j]), ~InLog(console'[j], logfile')
          PROVE  /\ console'[j] = LineOf(t)
                 /\ \A m \in DOMAIN console' : ~(m > j)
      <4>1. j = Len(console) + 1 /\ console'[j] = LineOf(t)
        BY <2>1, <2>2, <3>1, <3>2 DEF NoneMissing
      <4>2. QED BY <1>0, <3>1, <4>1
    <3>3. QED BY <2>1, <2>2, <2>4, <3>2 DEF Behind, BothLine, InLog
  <2>7. QED BY <2>1, <2>5, <2>6
<1>b. ASSUME NEW t \in Threads, pc[t] \in {"file", "close"}, UNCHANGED <<console, logfile, call>>,
             stdout_mutex' = stdout_mutex, pc'[t] \in {"close", "idle"}
      PROVE  Behind'
  <2>1. stdout_mutex = t BY <1>0, <1>b, OneInside DEF Inside
  <2>2. LineOf(t)' = LineOf(t) BY <1>b DEF LineOf
  <2>3. QED BY <1>0, <1>b, <2>1, <2>2 DEF Behind, InLog, BothLine
<1>5. ASSUME NEW t \in Threads, PrintFileFails(t) PROVE Behind'
  BY <1>0, <1>5, <1>b DEF PrintFileFails, Returns, Goto, ThreadTypes
<1>6. ASSUME NEW t \in Threads, PrintFile(t) PROVE Behind'
  <2>1. CASE ToFile(t)
    BY <1>0, <1>6, <1>b, <2>1 DEF PrintFile, Goto, ThreadTypes
  <2>2. CASE ~ToFile(t)
    <3>1. pc[t] = "file" /\ UNCHANGED <<console, logfile>> BY <1>6 DEF PrintFile
    <3>2. \A j \in DOMAIN console :
            (BothLine(console[j]) /\ ~InLog(console[j], logfile)) => console[j] = LineOf(t)
      BY <1>0, <3>1, MissingByPlace DEF Inside
    <3>3. ~BothLine(LineOf(t)) BY <2>2 DEF ToFile, BothLine, LineOf
    <3>4. NoneMissing BY <3>2, <3>3 DEF NoneMissing
    <3>5. QED BY <1>a, <3>1, <3>4
  <2>3. QED BY <2>1, <2>2
<1>c. ASSUME NEW t \in Threads, pc[t] = "close", console' = console,
             logfile' = Append(logfile, LineOf(t))
      PROVE  Behind'
  <2>1. \A j \in DOMAIN console :
          (BothLine(console[j]) /\ ~InLog(console[j], logfile)) => console[j] = LineOf(t)
    BY <1>0, <1>c, MissingByPlace DEF Inside
  <2>2. LineOf(t) \in Line BY <1>0, LineOfType
  <2>3. InLog(LineOf(t), logfile') BY <1>0, <1>c, <2>2, Appended DEF InLog
  <2>4. \A x : InLog(x, logfile) => InLog(x, logfile') BY <1>0, <1>c, <2>2, LogKeeps
  <2>5. \A j \in DOMAIN console : BothLine(console[j]) => InLog(console[j], logfile')
    BY <2>1, <2>3, <2>4
  <2>6. NoneMissing' BY <1>c, <2>5 DEF NoneMissing, BothLine, InLog
  <2>7. QED BY <2>6, NoneMissingBehind
<1>7. ASSUME NEW t \in Threads, CloseFile(t) PROVE Behind'
  BY <1>7, <1>c DEF CloseFile
<1>8. ASSUME NEW t \in Threads, CloseFails(t) PROVE Behind'
  <2>1. /\ pc[t] = "close" /\ pc'[t] = "idle" /\ UNCHANGED <<console, call, stdout_mutex>>
        /\ logfile' \in {logfile, Append(logfile, LineOf(t))}
    BY <1>0, <1>8 DEF CloseFails, Returns, Goto, ThreadTypes
  <2>2. QED BY <1>b, <1>c, <2>1
<1>9. ASSUME NEW t \in Threads, ThreadCall(t) PROVE Behind'
  <2>1. PICK c \in Calls : Call(t, c) BY <1>9, CallsMade
  <2>2. /\ UNCHANGED <<console, logfile, stdout_mutex>> /\ pc[t] = "idle" /\ pc'[t] = "lock"
        /\ \A u \in Threads \ {t} : pc'[u] = pc[u] /\ call'[u] = call[u]
    BY <1>0, <2>1 DEF Call, Goto, ThreadTypes
  <2>3. ASSUME NEW j \in DOMAIN console, BothLine(console[j]), ~InLog(console[j], logfile)
        PROVE  /\ stdout_mutex \in Threads
               /\ pc'[stdout_mutex] \in {"file", "close", "idle", "lock"}
               /\ pc'[stdout_mutex] \in {"file", "close"} => console[j] = LineOf(stdout_mutex)'
               /\ \A m \in DOMAIN console : m > j => ~BothLine(console[m])
    <3>1. /\ stdout_mutex \in Threads
          /\ pc[stdout_mutex] \in {"file", "close", "idle", "lock"}
          /\ pc[stdout_mutex] \in {"file", "close"} => console[j] = LineOf(stdout_mutex)
          /\ \A m \in DOMAIN console : m > j => ~BothLine(console[m])
      BY <1>0, <2>3 DEF Behind
    <3>2. CASE stdout_mutex = t BY <2>2, <3>1, <3>2
    <3>3. CASE stdout_mutex # t
      <4>1. pc'[stdout_mutex] = pc[stdout_mutex] /\ call'[stdout_mutex] = call[stdout_mutex]
        BY <2>2, <3>1, <3>3
      <4>2. LineOf(stdout_mutex)' = LineOf(stdout_mutex) BY <2>2, <4>1 DEF LineOf
      <4>3. QED BY <3>1, <4>1, <4>2
    <3>4. QED BY <3>2, <3>3
  <2>4. QED BY <2>2, <2>3 DEF Behind, BothLine, InLog, LineOf
<1>10. CASE FieldDone \/ InfoFile \/ BoxLine
  <2>1. pc[Main] \in Starting /\ console' \in {console, Append(console, BoxLineOut)}
    BY <1>10 DEF FieldDone, InfoFile, BoxLine, Starting
  <2>2. \A i \in DOMAIN console : console[i].id = Box
    BY <2>1 DEF LogInv, BoxFirst
  <2>4. \A i \in DOMAIN console' : console'[i].id = Box
    BY <1>0, <2>1, <2>2, BoxLineType, Appended
  <2>5. NoneMissing' BY <2>4 DEF NoneMissing, BothLine
  <2>6. QED BY <2>5, NoneMissingBehind
<1>11. CASE StartThreads \/ UNCHANGED vars
  <2>1. UNCHANGED <<console, logfile, stdout_mutex, pc, call>>
    BY <1>11 DEF StartThreads, vars
  <2>2. QED BY <1>0, <2>1 DEF Behind, BothLine, InLog, LineOf
<1>12. CASE log_system_info
  <2>1. console' = <<>> BY <1>12 DEF log_system_info, LogInv, Session
  <2>2. NoneMissing' BY <2>1 DEF NoneMissing
  <2>3. QED BY <2>2, NoneMissingBehind
<1>13. QED
  BY <1>1, <1>2, <1>3, <1>4, <1>5, <1>6, <1>7, <1>8, <1>9, <1>10, <1>11, <1>12, StartKinds
  DEF Next, ThreadStep

(* The box is printed before anybody else prints.                           *)
LEMMA BoxStep ==
  ASSUME LogInv, [Next]_vars
  PROVE  BoxFirst'
<1> USE LoggingConstants
<1>0. TypeOK /\ Mutex /\ BoxFirst /\ console \in Seq(Line)
  BY DEF LogInv, TypeOK
<1>1. ASSUME NEW t \in Threads, ThreadStep(t) PROVE BoxFirst'
  <2>1. /\ console' \in {console, Append(console, LineOf(t))} /\ LineOf(t) \in Line
        /\ pc[t] \in Inside \union {"lock"}
    BY <1>0, <1>1, Writes, LineOfType
  <2>2. pc'[Main] \notin Starting
    <3>1. pc'[t] \notin Starting
      BY <1>0, <1>1, ThreadMoves
      DEF Enters, Stays, Leaves, Keeps, Begins, Inside, Starting
    <3>2. t # Main => pc[Main] \notin Starting
      BY <1>0, <2>1 DEF Mutex, Inside
    <3>3. t # Main => pc'[Main] = pc[Main] BY <1>0, <1>1, ThreadMoves
    <3>4. QED BY <3>1, <3>2, <3>3
  <2>3. LineOf(t).id # Box
    BY <2>1 DEF LogInv, Places, Ids, LineOf, Box
  <2>4. \A i, j \in DOMAIN console' : (j <= i /\ console'[i].id = Box) => console'[j].id = Box
    BY <1>0, <2>1, <2>3, Appended DEF BoxFirst
  <2>5. QED BY <2>2, <2>4 DEF BoxFirst
<1>2. ASSUME NEW t \in Threads, ThreadCall(t) PROVE BoxFirst'
  <2>1. console' = console BY <1>2 DEF ThreadCall, message_log, ts_call, Call
  <2>2. pc'[Main] = pc[Main] \/ pc'[Main] = "lock"
    BY <1>0, <1>2, CallsMade DEF Call, Goto, TypeOK
  <2>3. QED BY <1>0, <2>1, <2>2 DEF BoxFirst, Starting
<1>3. CASE FieldDone \/ InfoFile \/ BoxLine
  <2>1. pc[Main] \in Starting /\ console' \in {console, Append(console, BoxLineOut)}
    BY <1>3 DEF FieldDone, InfoFile, BoxLine, Starting
  <2>2. \A i \in DOMAIN console : console[i].id = Box
    BY <1>0, <2>1 DEF BoxFirst
  <2>4. \A i \in DOMAIN console' : console'[i].id = Box
    BY <1>0, <2>1, <2>2, BoxLineType, Appended
  <2>5. QED BY <2>4 DEF BoxFirst
<1>4. CASE StartThreads \/ UNCHANGED vars
  BY <1>0, <1>4 DEF StartThreads, vars, BoxFirst
<1>5. CASE log_system_info
  <2>1. console' = <<>> BY <1>5 DEF log_system_info, LogInv, Session
  <2>2. QED BY <2>1 DEF BoxFirst
<1>6. QED BY <1>1, <1>2, <1>3, <1>4, <1>5, StartKinds DEF Next

----------------------------------------------------------------------------
(* Every step preserves the invariant.                                      *)
LEMMA StepLogInv == LogInv /\ [Next]_vars => LogInv'
BY TypeStep, MutexStep, SessionStep, PlacesStep, FilesStep, IdsStep, ProgressStep, OrderStep,
   BehindStep, BoxStep
DEF LogInv

(* At every moment the mutex, the calls, the FILEs and the lines written so *)
(* far fit together.                                                        *)
THEOREM LogInvariant == Spec => []LogInv
BY InitLogInv, StepLogInv, PTL DEF Spec

(* The console and server.log carry the same LOG_BOTH lines in the same     *)
(* order but for those the console could not print and the last one, which  *)
(* server.log lacks only while the mutex is held; the box of                *)
(* log_system_info, printed without the mutex, stays together.              *)
THEOREM LoggerLogsAgree == Spec => []LogsAgree
<1>1. LogInv => LogsAgree
  <2> SUFFICES ASSUME LogInv PROVE LogsAgree OBVIOUS
  <2>1. SameOrder BY DEF LogInv
  <2>2. OnlyLastMissing
    BY LoggingConstants DEF LogInv, Behind, OnlyLastMissing
  <2>3. BoxTogether
    <3> SUFFICES ASSUME NEW i \in DOMAIN console, NEW j \in DOMAIN console,
                        console[j].id = Box, NEW k \in i..j
                 PROVE  console[k].id = Box
      BY DEF BoxTogether
    <3>1. console \in Seq(Line) /\ DOMAIN console = 1..Len(console)
      BY DEF LogInv, TypeOK
    <3>2. k \in DOMAIN console /\ k <= j BY <3>1
    <3>3. QED BY <3>2 DEF LogInv, BoxFirst
  <2>4. QED BY <2>1, <2>2, <2>3 DEF LogsAgree
<1>2. QED BY <1>1, LogInvariant, PTL

(* message_log leaves the mutex locked only when its log file cannot be     *)
(* written or closed, and at most one FILE stays open.                      *)
THEOREM LoggerMutexKept == Spec => []MutexKept
<1>1. LogInv => MutexKept
  BY DEF LogInv, MutexKept, Mutex, Files, Abandoned, Inside
<1>2. QED BY <1>1, LogInvariant, PTL

(* A message_log that fails has written nothing or keeps the mutex.         *)
THEOREM LoggerFailsWhole == Spec => []FailsWhole
<1>1. LogInv => FailsWhole
  <2> SUFFICES ASSUME LogInv, NEW t \in Threads, pc[t] = "idle", call[t].op = "message",
                      exit_code[t] # "E_SUCCESS"
               PROVE  \/ stdout_mutex = t
                      \/ ~InLog(LineOf(t), console) /\ ~InLog(LineOf(t), logfile)
    BY DEF FailsWhole
  <2>1. Told(t) BY DEF LogInv, Progress, ProgressOf, Back
  <2>2. Absent(t, console) => ~InLog(LineOf(t), console)
    BY DEF Absent, InLog, LineOf
  <2>3. Absent(t, logfile) => ~InLog(LineOf(t), logfile)
    BY DEF Absent, InLog, LineOf
  <2>4. QED BY <2>1, <2>2, <2>3 DEF Told
<1>2. QED BY <1>1, LogInvariant, PTL
=============================================================================

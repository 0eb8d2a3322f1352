-------------------------------- MODULE Logger --------------------------------
(* Logger and FileManagement (log/logger.cpp, logger.h, file.cpp): threads   *)
(* that log to the terminal, to a file and through the queue before it. The  *)
(* file and its archives are names of inodes: who has one open writes to it  *)
(* under whatever name it then has.  A line is <<thread, call, text>>, and   *)
(* its text is what was put into the stream of that call: messages, which    *)
(* are <<thread, call, "file">>, and what calls print, with "terminal".      *)
EXTENDS Integers, Sequences, FiniteSets

CONSTANTS Threads,
          MaxCalls,     \* thread -> how often it logs
          Levels,       \* of the calls
          AllSettings,  \* what log.conf may say
          Earlier,      \* the lines in the file of an earlier process, if any
          MaxQueue,     \* 5000
          MaxSize,      \* logMixSize, in lines
          MaxSecond     \* how often the clock of the archives' names moves on

ASSUME QueueAssumption == MaxQueue \in Nat \ {0}
ASSUME SecondAssumption == MaxSecond \in Nat \ {0}

\* 0 stands for no thread and no file.
ASSUME ThreadsAssumption == 0 \notin Threads

Lines(part) == {part[k] : k \in DOMAIN part}

\* The lines of a thread, over several parts, are in the order of its calls.
InOrder(parts) ==
  \A i, j \in DOMAIN parts : \A k \in DOMAIN parts[i], l \in DOMAIN parts[j] :
    /\ i < j \/ (i = j /\ k < l)
    /\ parts[i][k][1] = parts[j][l][1]
    => parts[i][k][2] < parts[j][l][2]

\* The earlier process kept to that, and had threads of its own.
ASSUME EarlierAssumption ==
  /\ Earlier \in Seq(Lines(Earlier))
  /\ \A line \in Lines(Earlier) : line[1] \notin Threads
  /\ InOrder(<<Earlier>>)

VARIABLES settings,
          writable,     \* the log's directory was there: one that createFilePath()
                        \* makes has no permissions
          singleObject, \* whether the Logger is there
          pc, level,    \* thread -> where it is in its call, and its level
          calls,        \* thread -> its calls so far
          coutTypeMap,  \* the levels in the map of that name
          coutBuf,      \* what std::cout writes to: Stdout or the oss of a call
          pOldBuf,      \* thread -> what it was before
          oss,          \* thread -> what is in the oss of its call, until it is taken
          newFileName,  \* thread -> the name it renames the file to
          file,         \* the inode of the log file, 0 without one
          archive,      \* second -> the inode of that name
          content,      \* inode -> its lines
          opened,       \* thread -> the inode it has open
          messageQueue,
          mutex_file, mutex_queue,      \* the thread that holds it
          second,       \* the time
          written,      \* the calls for which logFileWrite() has returned
          overwritten,  \* a rename has replaced an archive
          undefined,    \* a dangling buffer, or a map in the middle of an insertion, was used
          mixed         \* history: the calls that did not have std::cout to themselves

callVars == <<singleObject, pc, level, calls, coutTypeMap>>
coutVars == <<coutBuf, pOldBuf, oss, mixed>>
fileVars == <<newFileName, file, archive, content, opened, second, overwritten>>
queueVars == <<messageQueue, mutex_file, mutex_queue, written>>
vars == <<settings, writable, callVars, coutVars, fileVars, queueVars, undefined>>

None == 0
Stdout == <<>>

Init == /\ settings \in AllSettings
        /\ writable \in BOOLEAN
        /\ singleObject = FALSE
        /\ pc = [t \in Threads |-> "idle"]
        /\ level = [t \in Threads |-> CHOOSE l \in Levels : TRUE]
        /\ calls = [t \in Threads |-> 0]
        /\ coutTypeMap = {}
        /\ coutBuf = Stdout
        /\ pOldBuf = [t \in Threads |-> Stdout]
        /\ oss = [t \in Threads |-> <<>>]
        /\ mixed = {}
        /\ newFileName = [t \in Threads |-> 0]
        /\ \/ file = None /\ content = <<>>
           \/ file = 1 /\ content = <<Earlier>> /\ writable
        /\ archive = [s \in 1..MaxSecond |-> None]
        /\ opened = [t \in Threads |-> None]
        /\ messageQueue = <<>>
        /\ mutex_file = None
        /\ mutex_queue = None
        /\ second = 1
        /\ written = {}
        /\ overwritten = FALSE
        /\ undefined = FALSE

Goes(t, there) == pc' = [pc EXCEPT ![t] = there]

-----------------------------------------------------------------------------
(* FileManagement *)

\* createFile() and the opening of the log file for appending: the inode, and the lines.
Inode == IF file = None /\ writable THEN Len(content) + 1 ELSE file
WithFile == IF file = None /\ writable THEN Append(content, <<>>) ELSE content

\* verifyFileSize() and the test of it.
TooLarge == file # None /\ Len(content[file]) > MaxSize /\ settings.logBehavior = "1"

\* fileRename(), of a file that may be gone.
Renamed(name) == IF file = None THEN archive ELSE [archive EXCEPT ![name] = file]
Replaces(name) == file # None /\ archive[name] # None

-----------------------------------------------------------------------------
(* LoggerCout *)

\* The first test of getInstance().
Call(t) == /\ pc[t] = "idle" /\ calls[t] < MaxCalls[t]
           /\ calls' = [calls EXCEPT ![t] = @ + 1]
           /\ level' \in {[level EXCEPT ![t] = l] : l \in Levels}
           /\ Goes(t, IF singleObject THEN "coutType" ELSE "mutex_log")
           /\ UNCHANGED <<settings, writable, singleObject, coutTypeMap, coutVars, fileVars,
                          queueVars, undefined>>

\* For mutants: the second test is missing.
MustMakeUnchecked == TRUE

MustMake == ~singleObject

\* getInstance() with mutex_log, the constructor and initLogConfig(): a file
\* that is too large is renamed, a new one made.
MakeLogger(t) ==
  /\ pc[t] = "mutex_log"
  /\ singleObject' = TRUE
  /\ messageQueue' = IF MustMake THEN <<>> ELSE messageQueue
  /\ IF MustMake /\ settings.logFileSwitch = "on"
     THEN /\ archive' = IF TooLarge THEN Renamed(second) ELSE archive
          /\ overwritten' = (overwritten \/ (TooLarge /\ Replaces(second)))
          /\ file' = IF TooLarge THEN Len(content) + 1 ELSE Inode
          /\ content' = IF TooLarge THEN Append(content, <<>>) ELSE WithFile
     ELSE UNCHANGED <<archive, overwritten, file, content>>
  /\ Goes(t, "coutType")
  /\ UNCHANGED <<settings, writable, level, calls, coutTypeMap, coutVars, newFileName, opened, second,
                 mutex_file, mutex_queue, written, undefined>>

\* What follows the part for the file, and what getCoutType().
AfterFile(t) == IF /\ settings.logSwitch = "on" /\ settings.logTerminalSwitch # "off"
                   /\ level[t] \in settings.logOutputLevelTerminal
                THEN "terminal" ELSE "idle"

AfterType(t) == IF /\ settings.logSwitch = "on" /\ settings.logFileSwitch # "off"
                   /\ level[t] \in settings.logOutputLevelFile
                THEN "swap" ELSE AfterFile(t)

\* getCoutType(): operator[] of a map that nothing has filled or guards.
CoutType(t) == /\ pc[t] = "coutType"
               /\ undefined' = \E u \in Threads : pc[u] = "inserting"
               /\ Goes(t, IF level[t] \in coutTypeMap THEN AfterType(t) ELSE "inserting")
               /\ UNCHANGED <<settings, writable, singleObject, level, calls, coutTypeMap, coutVars,
                              fileVars, queueVars>>

Inserted(t) == /\ pc[t] = "inserting"
               /\ coutTypeMap' = coutTypeMap \cup {level[t]}
               /\ Goes(t, AfterType(t))
               /\ UNCHANGED <<settings, writable, singleObject, level, calls, coutVars, fileVars,
                              queueVars, undefined>>

-----------------------------------------------------------------------------
(* COMBINATION_INFO_FILE and logFileWrite() *)

\* The oss of the current call, until the end of the macro.
Oss(t) == <<t, calls[t]>>
InFile == {"put", "take", "restore", "size", "rename", "create", "open", "write", "insert", "flush", "flushing"}
Gone(buf) == /\ buf # Stdout
             /\ ~\E t \in Threads : buf = Oss(t) /\ pc[t] \in InFile

\* Those that std::cout points to the stream of, or should.
Redirected == {t \in Threads : pc[t] \in {"put", "take", "restore"}}

\* And those in the middle of printing a line, who hold mutex_terminal.
Printing == {t \in Threads : pc[t] = "printing"}

\* std::cout << text: it goes to the stream that std::cout has now, and matters
\* there if that is the oss of a call which has not yet taken it.
PutInto(buf, text) ==
  oss' = [u \in Threads |-> IF buf = Oss(u) /\ pc[u] \in {"put", "take"}
                              THEN Append(oss[u], text) ELSE oss[u]]

Swap(t) == /\ pc[t] = "swap"
           /\ pOldBuf' = [pOldBuf EXCEPT ![t] = coutBuf]
           /\ coutBuf' = Oss(t)
           /\ oss' = [oss EXCEPT ![t] = <<>>]
           /\ mixed' = IF Redirected \cup Printing = {} THEN mixed
                       ELSE mixed \cup {Oss(u) : u \in Redirected \cup {t}}
           /\ Goes(t, "put")
           /\ UNCHANGED <<settings, writable, singleObject, level, calls, coutTypeMap, fileVars,
                          queueVars, undefined>>

Put(t) == /\ pc[t] = "put"
          /\ PutInto(coutBuf, <<t, calls[t], "file">>)
          /\ undefined' = Gone(coutBuf)
          /\ Goes(t, "take")
          /\ UNCHANGED <<settings, writable, singleObject, level, calls, coutTypeMap, coutBuf, pOldBuf,
                         mixed, fileVars, queueVars>>

\* ret = oss.str(): nothing changes but that what is put there later is lost.
Take(t) == /\ pc[t] = "take"
           /\ Goes(t, "restore")
           /\ UNCHANGED <<settings, writable, singleObject, level, calls, coutTypeMap, coutVars,
                          fileVars, queueVars, undefined>>

Restore(t) == /\ pc[t] = "restore"
              /\ coutBuf' = pOldBuf[t]
              /\ Goes(t, "size")
              /\ UNCHANGED <<settings, writable, singleObject, level, calls, coutTypeMap, pOldBuf, oss,
                             mixed, fileVars, queueVars, undefined>>

ToWrite == IF settings.logFileQueueSwitch = "off" THEN "open" ELSE "insert"

\* logFileWrite(): the test of the size, and the archive's name.
TestSize(t) == /\ pc[t] = "size"
               /\ newFileName' = [newFileName EXCEPT ![t] = IF TooLarge THEN second ELSE 0]
               /\ Goes(t, IF TooLarge THEN "rename" ELSE ToWrite)
               /\ UNCHANGED <<settings, writable, singleObject, level, calls, coutTypeMap, coutVars,
                              file, archive, content, opened, second, overwritten, queueVars, undefined>>

Rename(t) == /\ pc[t] = "rename"
             /\ archive' = Renamed(newFileName[t])
             /\ overwritten' = (overwritten \/ Replaces(newFileName[t]))
             /\ file' = None
             /\ Goes(t, "create")
             /\ UNCHANGED <<settings, writable, singleObject, level, calls, coutTypeMap, coutVars,
                            newFileName, content, opened, second, queueVars, undefined>>

CreateFile(t) == /\ pc[t] = "create"
                 /\ file' = Inode
                 /\ content' = WithFile
                 /\ Goes(t, ToWrite)
                 /\ UNCHANGED <<settings, writable, singleObject, level, calls, coutTypeMap, coutVars,
                                newFileName, archive, opened, second, overwritten, queueVars, undefined>>

\* logFileWrite() or insertQueue(): mutex_file, and the file opened.
Open(t) == /\ pc[t] \in {"open", "flush"}
           /\ mutex_file = None
           /\ mutex_file' = t
           /\ file' = Inode
           /\ content' = WithFile
           /\ opened' = [opened EXCEPT ![t] = Inode]
           /\ Goes(t, IF pc[t] = "open" THEN "write" ELSE "flushing")
           /\ UNCHANGED <<settings, writable, singleObject, level, calls, coutTypeMap, coutVars,
                          newFileName, archive, second, overwritten, messageQueue, mutex_queue,
                          written, undefined>>

\* The lines go to the file that was opened, or nowhere.
WrittenTo(t, lines) == IF opened[t] = None THEN content ELSE [content EXCEPT ![opened[t]] = @ \o lines]

Line(t) == <<t, calls[t], oss[t]>>

Returns(t) == /\ written' = written \cup {Line(t)}
              /\ Goes(t, AfterFile(t))

Write(t) == /\ pc[t] = "write"
            /\ content' = WrittenTo(t, <<Line(t)>>)
            /\ opened' = [opened EXCEPT ![t] = None]
            /\ mutex_file' = None
            /\ Returns(t)
            /\ UNCHANGED <<settings, writable, singleObject, level, calls, coutTypeMap, coutVars,
                           newFileName, file, archive, second, overwritten, messageQueue, mutex_queue,
                           undefined>>

\* insertQueue(): a full queue keeps mutex_queue until it has been written.
Insert(t) == /\ pc[t] = "insert"
             /\ mutex_queue = None
             /\ messageQueue' = Append(messageQueue, Line(t))
             /\ IF Len(messageQueue') >= MaxQueue
                THEN mutex_queue' = t /\ Goes(t, "flush") /\ written' = written
                ELSE mutex_queue' = None /\ Returns(t)
             /\ UNCHANGED <<settings, writable, singleObject, level, calls, coutTypeMap, coutVars,
                            fileVars, mutex_file, undefined>>

\* For mutants: mutex_queue stays locked.
UnlockedNot == mutex_queue

Unlocked == None

Flush(t) == /\ pc[t] = "flushing"
            /\ content' = WrittenTo(t, messageQueue)
            /\ messageQueue' = <<>>
            /\ opened' = [opened EXCEPT ![t] = None]
            /\ mutex_file' = None
            /\ mutex_queue' = Unlocked
            /\ Returns(t)
            /\ UNCHANGED <<settings, writable, singleObject, level, calls, coutTypeMap, coutVars,
                           newFileName, file, archive, second, overwritten, undefined>>

-----------------------------------------------------------------------------
(* COMBINATION_INFO_TERMINAL: under mutex_terminal, which no other use of    *)
(* std::cout takes, the line goes out in several pieces.                     *)
Prints(t, from, to) ==
  /\ pc[t] = from
  /\ PutInto(coutBuf, <<t, calls[t], "terminal">>)
  /\ mixed' = mixed \cup {Oss(u) : u \in Redirected}
  /\ undefined' = Gone(coutBuf)
  /\ Goes(t, to)
  /\ UNCHANGED <<settings, writable, singleObject, level, calls, coutTypeMap, coutBuf, pOldBuf,
                 fileVars, queueVars>>

Terminal(t) == Printing = {} /\ Prints(t, "terminal", "printing")
Printed(t) == Prints(t, "printing", "idle")

Tick == /\ second < MaxSecond
        /\ second' = second + 1
        /\ UNCHANGED <<settings, writable, callVars, coutVars, newFileName, file, archive, content,
                       opened, overwritten, queueVars, undefined>>

InCall(t) == \/ MakeLogger(t) \/ CoutType(t) \/ Inserted(t)
             \/ Swap(t) \/ Put(t) \/ Take(t) \/ Restore(t)
             \/ TestSize(t) \/ Rename(t) \/ CreateFile(t)
             \/ Open(t) \/ Write(t) \/ Insert(t) \/ Flush(t)
             \/ Terminal(t) \/ Printed(t)

Next == ~undefined /\ (Tick \/ \E t \in Threads : Call(t) \/ InCall(t))

\* Threads go on with their calls, and need not call.
Spec == Init /\ [][Next]_vars /\ \A t \in Threads : WF_vars(~undefined /\ InCall(t))

-----------------------------------------------------------------------------
(* The lines in the file and its archives, from the oldest on, and in the    *)
(* queue, which is the last part.                                            *)
Parts == Append(content, messageQueue)
QueuePart == Len(content) + 1

\* A file whose name is still known, or the queue.
Reachable(i) == i \in {file, QueuePart} \/ \E s \in DOMAIN archive : archive[s] = i

Mixed(line) == <<line[1], line[2]>> \in mixed

\* Whoever else logs or renames the file: the lines of a thread are in the
\* order of its calls, each at most once, over the files and the queue. As
\* long as no archive was replaced, each line that was written is in one that
\* can be found. A line says what its call said and nothing else, unless that
\* call and another have redirected std::cout, or printed, at the same time.
LinesKept ==
  /\ InOrder(Parts)
  /\ writable /\ ~overwritten =>
       \A line \in written : \E i \in DOMAIN Parts : Reachable(i) /\ line \in Lines(Parts[i])
  /\ \A i \in DOMAIN Parts : \A line \in Lines(Parts[i]) :
       line[1] \in Threads /\ ~Mixed(line) => line[3] = <<<<line[1], line[2], "file">>>>

\* What log.conf says of logTerminalSwitch: with it off, no message goes to
\* the terminal. (The code does not keep this, for std::cout has no lock; README.)
TerminalOff ==
  [][\A t \in Threads : Put(t) /\ settings.logTerminalSwitch = "off" => coutBuf # Stdout]_vars

\* Every call of the macros returns: no two threads wait for each other's
\* mutexes, and each path of insertQueue() gives up those that it took.
CallReturns == \A t \in Threads : pc[t] # "idle" ~> undefined \/ pc[t] = "idle"
=============================================================================

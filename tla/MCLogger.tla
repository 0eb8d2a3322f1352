------------------------------- MODULE MCLogger -------------------------------
(* What log.conf may say, for Logger: with and without the file, the queue,  *)
(* the terminal and the renaming, and nothing at all.                        *)
EXTENDS Logger

Config(log, toFile, terminal, queue, behavior, levels) ==
  [logSwitch |-> log, logFileSwitch |-> toFile, logTerminalSwitch |-> terminal,
   logFileQueueSwitch |-> queue, logBehavior |-> behavior,
   logOutputLevelFile |-> levels, logOutputLevelTerminal |-> {"Error"}]

Settings == {Config("on", "on", "on", "on", "1", {"Error"}),
             Config("on", "yes", "off", "off", "1", {"Error"}),
             Config("on", "on", "off", "on", "0", {"Error", "Debug"}),
             Config("on", "off", "on", "on", "1", {"Error"}),
             Config("", "", "", "", "", {})}

Twice == <<2, 1>>

OldLines == <<<<0, 1, <<>>>>, <<0, 2, <<>>>>>>
=============================================================================

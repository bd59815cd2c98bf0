--------------------------------- MODULE Log ---------------------------------
(***************************************************************************)
(* Logging: log.c, as a fold over the calls that change it. A log is the     *)
(* list of categories, newest first, and the levels of the two appenders.    *)
(* And the files that logconf.lua and others are found in: system.c.         *)
(***************************************************************************)
EXTENDS Naturals, Sequences, SequencesExt

CONSTANTS Unset     \* what a level is that logconf.lua does not give

Nil == <<>>     \* no such file

Levels == <<"OFF", "ERROR", "WARN", "INFO", "DEBUG">>

\* log_priority_to_int: what is no level is off.
Priority(level) == IF level \in ToSet(Levels) THEN CHOOSE i \in DOMAIN Levels : Levels[i] = level ELSE 1

\* log_priority_to_string
LevelName(priority) == Levels[priority]

StartLog == [categories |-> <<>>, stdout |-> Priority("DEBUG"), syslog |-> Priority("OFF")]

\* log_category_get
CategoryGet(log, name) ==
    IF \E i \in DOMAIN log.categories : log.categories[i].name = name THEN log
    ELSE [log EXCEPT !.categories = <<[name |-> name, priority |-> Priority("OFF")]>> \o @]

Category(log, name) == CHOOSE i \in DOMAIN log.categories : log.categories[i].name = name

\* log_category_set_priority
SetPriority(log, name, priority) ==
    [log EXCEPT !.categories[Category(log, name)].priority = priority]

\* setLevel of a category that its caller has got
SetLevel(log, name, level) == SetPriority(CategoryGet(log, name), name, Priority(level))

\* jive_log_init: found is nothing if logconf.lua is not found or fails; else the levels
\* of appenders, which may be unset, and of categories in the order of the table.
LogInit(log, found) ==
    IF found = Nil THEN log
    ELSE LET conf == Head(found)
             appenders ==
                 [log EXCEPT !.stdout = IF conf.stdout = Unset THEN @ ELSE Priority(conf.stdout),
                             !.syslog = IF conf.syslog = Unset THEN @ ELSE Priority(conf.syslog)]
         IN  FoldLeft(LAMBDA l, entry : SetLevel(l, entry.name, entry.level), appenders, conf.categories)

Call(log, call) ==
    CASE call.op = "logger" -> CategoryGet(log, call.name)
      [] call.op = "setLevel" -> SetLevel(log, call.name, call.level)
      [] call.op = "init" -> LogInit(log, call.found)

After(calls) == FoldLeft(Call, StartLog, calls)

\* getLevel, and isDebug, isInfo, isWarn and isError
GetLevel(log, name) == LevelName(log.categories[Category(log, name)].priority)
IsLog(log, name, level) == log.categories[Category(log, name)].priority >= Priority(level)

\* log_category_vlog: the appenders that let a message through
Appended(log, level) ==
    {a \in {"stdout", "syslog"} : (IF a = "stdout" THEN log.stdout ELSE log.syslog) >= Priority(level)}

\* do_log: those that it reaches
Reached(log, name, level) == IF IsLog(log, name, level) THEN Appended(log, level) ELSE {}

-----------------------------------------------------------------------------
(* Files *)

\* system_init_file_path: the directories of Lua's path, each up to the question mark
InitFilePath(templates) == [i \in DOMAIN templates |-> templates[i].dir]

\* jive_find_file: as it is, then in one directory after the other, of those that a
\* semicolon ends
FindFile(path, dirs, ended, exists) ==
    LET searched == IF ended \/ dirs = <<>> THEN dirs ELSE Front(dirs)
        found == SelectSeq(searched, LAMBDA dir : <<dir, path>> \in exists)
    IN  CASE <<"", path>> \in exists -> <<"", path>>
          [] <<"", path>> \notin exists /\ found # <<>> -> <<found[1], path>>
          [] OTHER -> Nil

\* jive_system_init: the user's directory comes first, and the path ends with a semicolon.
SystemPath(templates, home) == <<[dir |-> home, file |-> "?.lua"]>> \o templates

-----------------------------------------------------------------------------
(* What they promise *)

LastLevel(calls, name) ==
    LET Said(call) ==
            CASE call.op = "logger" -> <<>>
              [] call.op = "setLevel" -> IF call.name = name THEN <<call.level>> ELSE <<>>
              [] call.op = "init" ->
                     IF call.found = Nil THEN <<>>
                     ELSE FoldLeft(LAMBDA s, e : IF e.name = name THEN Append(s, e.level) ELSE s, <<>>,
                                   Head(call.found).categories)
        all == FoldLeft(LAMBDA s, call : s \o Said(call), <<"OFF">>, calls)
    IN  Levels[Priority(Last(all))]

\* A category has the level that was set last, whoever set it and whether it was there
\* before; a message reaches the appenders that let it through, if its category does.
LevelsKept(calls, names) ==
    LET log == After(calls)
        Known(name) == \E i \in DOMAIN log.categories : log.categories[i].name = name
    IN  /\ \A i, j \in DOMAIN log.categories : log.categories[i].name = log.categories[j].name => i = j
        /\ \A name \in names :
              /\ LastLevel(calls, name) # "OFF" => Known(name)
              /\ Known(name) =>
                    /\ GetLevel(log, name) = LastLevel(calls, name)
                    /\ \A level \in ToSet(Tail(Levels)) :
                          "stdout" \in Reached(log, name, level) <=>
                              Priority(LastLevel(calls, name)) >= Priority(level) /\ log.stdout >= Priority(level)

\* A file is found where the user put it, before any that was installed.
UserFilesFirst(path, templates, home, exists) ==
    LET found == FindFile(path, InitFilePath(SystemPath(templates, home)), TRUE, exists)
    IN  /\ (found = Nil) = (<<"", path>> \notin exists /\ \A i \in DOMAIN SystemPath(templates, home) :
                               <<SystemPath(templates, home)[i].dir, path>> \notin exists)
        /\ <<home, path>> \in exists /\ <<"", path>> \notin exists => found = <<home, path>>
=============================================================================

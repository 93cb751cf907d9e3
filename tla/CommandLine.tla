---------------------------- MODULE CommandLine ----------------------------
(***************************************************************************)
(* main of src/bridge/main.c: the options, which argp_parser takes one by  *)
(* one, and the log of src/shared_c/log.c that they set up.  What main     *)
(* calls, play_file or list_sound_cards, is between Start and Return;      *)
(* Bridge puts it there.  PlayerSetup says what becomes of the numbers.    *)
(*                                                                         *)
(* argp is external: it hands the options to argp_parser in their order,   *)
(* then what is not an option, and ends the program itself for --help and  *)
(* for what it does not know.  Of the log it is remembered which kinds of  *)
(* lines went where.  The session id (log.c:20-26, drawn from a seed that  *)
(* nobody sets) is part of the text and left out.                          *)
(***************************************************************************)
EXTENDS Naturals, FiniteSets, Sequences

CONSTANTS
  Paths,       \* of music
  Numbers,     \* what strtoul makes of an argument, 0 if it is no number
  Unsigned,    \* 2^32
  MaxOptions

VARIABLES
  pc,
  given,    \* history: the options argp_parser has been called with
  config,   \* bridge_config as the options have it
  strings,  \* strings that strdup returned and nobody has freed
  log,      \* the log: its two settings, and what kinds of lines are where
  status    \* of the process

mainVars == <<pc, given, config, strings, log, status>>

None == "null"

Options ==
  ({"file"} \X Paths) \cup ({"hardware"} \X {"card", "no card"})
    \cup ({"format"} \X {"wav", "flac", "ogg"})
    \cup ({"log"} \X {"writable", "unwritable"}) \cup {<<"verbose", None>>}

\* Those whose argument is copied.
Copied == ({"file"} \X Paths) \cup {<<"hardware", "card">>}

\* Options with a number, in a set of their own: TLC does not compare
\* numbers with strings.
NumberOptions == {"buffer", "period", "count"} \X Numbers

Init ==
  /\ pc = "parse"
  /\ given = <<>>
  /\ config = [file |-> None, hardware |-> None, format |-> None,
               buffer |-> 0, period |-> 0, count |-> 0]
  /\ strings = 0
  /\ log = [verbose |-> FALSE, open |-> FALSE,
            stdout |-> {}, stderr |-> {}, file |-> {}]
  /\ status = "running"
-----------------------------------------------------------------------------
(***************************************************************************)
(* log.c.  Each operator is the set of logs it may leave.                  *)
(***************************************************************************)
Put(l, stream, line) == [l EXCEPT ![stream] = @ \cup {line}]

\* A line that cannot be written is complained of.
print_st(l, line) == {Put(l, "file", line), Put(l, "stderr", "complaint")}

BugVerboseTwice(l) ==
  LET shown == Put(l, "stdout", "verbose") IN
  IF ~l.verbose THEN {l} ELSE IF l.open THEN print_st(shown, "verbose") ELSE {shown}

log_verbose(l) ==
  IF ~l.verbose THEN {l}
  ELSE IF l.open THEN print_st(l, "verbose") ELSE {Put(l, "stdout", "verbose")}

PrintAnd(l, stream, line) ==
  LET shown == Put(l, stream, line)
  IN  IF l.open THEN print_st(shown, line) ELSE {shown}

log_info(l) == PrintAnd(l, "stdout", "info")

log_error(l) == PrintAnd(l, "stderr", "error")

log_free(l) == [l EXCEPT !.open = FALSE]

\* Lines of the program's start and of its system.
log_full_system_information(l) == log_verbose(l)
-----------------------------------------------------------------------------
(***************************************************************************)
(* argp_parser.                                                            *)
(***************************************************************************)
Accept == pc' = "parse"

\* An error of argp_parser is what argp_parse returns.
Refuse == pc' = "failed"

RefuseLoudly ==
  /\ Refuse
  /\ log' \in log_error(log)
  /\ UNCHANGED <<config, strings>>

\* The string that was there is not freed.
SAVE_ARG_STRDUP(key, arg) ==
  /\ \/ /\ Accept
        /\ config' = [config EXCEPT ![key] = arg]
        /\ strings' = strings + 1
     \/ /\ Refuse
        /\ config' = [config EXCEPT ![key] = None]
        /\ UNCHANGED strings
  /\ UNCHANGED log

BugCheckedFirst(key, n) ==
  IF n = 0
  THEN RefuseLoudly
  ELSE /\ Accept
       /\ config' = [config EXCEPT ![key] = IF key = "count" THEN n % Unsigned ELSE n]
       /\ UNCHANGED <<strings, log>>

\* Only the count is narrower than what strtoul returns.
SAVE_ARG_UL(key, n) ==
  LET cut == IF key = "count" THEN n % Unsigned ELSE n IN
  /\ config' = [config EXCEPT ![key] = cut]
  /\ IF cut = 0 THEN Refuse /\ log' \in log_error(log) ELSE Accept /\ UNCHANGED log
  /\ UNCHANGED strings

\* fopen; a path it refuses is complained of and forgotten.
log_open_output_st(path) ==
  /\ IF log.open
     THEN pc' = "crashed" /\ UNCHANGED log
     ELSE /\ Accept
          /\ log' = IF path = "writable" THEN [log EXCEPT !.open = TRUE]
                                         ELSE Put(log, "stderr", "complaint")
  /\ UNCHANGED <<config, strings>>

Keyword(option) ==
  LET arg == option[2] IN
  CASE option[1] = "file" -> SAVE_ARG_STRDUP("file", arg)
    [] option[1] = "hardware" /\ arg = "card" -> SAVE_ARG_STRDUP("hardware", arg)
    [] option[1] = "format" /\ arg \in {"wav", "flac"} ->
         /\ Accept
         /\ config' = [config EXCEPT !.format = arg]
         /\ UNCHANGED <<strings, log>>
    [] option[1] = "verbose" ->
         /\ Accept
         /\ log' = [log EXCEPT !.verbose = TRUE]
         /\ UNCHANGED <<config, strings>>
    [] option[1] = "log" -> log_open_output_st(arg)
    [] OTHER -> RefuseLoudly

argp_parser ==
  /\ pc = "parse" /\ Len(given) < MaxOptions
  /\ \/ \E o \in Options : given' = Append(given, o) /\ Keyword(o)
     \/ \E o \in NumberOptions :
          given' = Append(given, o) /\ SAVE_ARG_UL(o[1], o[2])
  /\ UNCHANGED status

\* What is not an option: argp_usage does not return.
ArgumentLeft ==
  /\ pc = "parse"
  /\ log' \in log_error(log)
  /\ pc' = "exited" /\ status' = "usage"
  /\ UNCHANGED <<given, config, strings>>

\* --help, --version and options that are none.
argp_exit ==
  /\ pc = "parse"
  /\ pc' = "exited" /\ status' \in {"0", "usage"}
  /\ UNCHANGED <<given, config, strings, log>>
-----------------------------------------------------------------------------
(***************************************************************************)
(* main.                                                                   *)
(***************************************************************************)
Start ==
  /\ pc = "parse"
  /\ pc' = IF config.file # None THEN "play_file" ELSE "list_sound_cards"
  /\ \E l \in log_verbose(log) : log' \in log_full_system_information(l)
  /\ UNCHANGED <<given, config, strings, status>>

\* Any lines of the three kinds.
Lines(l) ==
  LET infos == {l} \cup log_info(l)
      errors == infos \cup UNION {log_error(k) : k \in infos}
  IN  errors \cup UNION {log_verbose(k) : k \in errors}

\* What main has called returns, having written to the log.
Return(failed) ==
  /\ pc \in {"play_file", "list_sound_cards"}
  /\ pc' = IF failed THEN "failed" ELSE "done"
  /\ log' \in Lines(log)
  /\ UNCHANGED <<given, config, strings, status>>

\* Or it does not.
Crash ==
  /\ pc \in {"play_file", "list_sound_cards"}
  /\ pc' = "crashed"
  /\ UNCHANGED <<given, config, strings, log, status>>

BugFileOnly == {"file"}

Freed == {"file", "hardware"}

\* main's end, with bridge_config_free and log_free.
Finish ==
  /\ pc \in {"done", "failed"}
  /\ pc' = "returned"
  /\ status' = IF pc = "done" THEN "0" ELSE "-1"
  /\ strings' = strings - Cardinality({key \in Freed : config[key] # None})
  /\ config' = [config EXCEPT !.file = None, !.hardware = None]
  /\ \E l \in log_verbose(log) : log' = log_free(l)
  /\ UNCHANGED given
-----------------------------------------------------------------------------
(***************************************************************************)
(* Properties.                                                             *)
(***************************************************************************)
\* Where on the command line an option is.
Places(key) == {i \in DOMAIN given : given[i][1] = key}

\* A program that plays, or lists, does it with the last of the values given
\* for each number; none of them has become zero on the way, which would be
\* taken for the absence of the option (main.c:48, 55 and 61).
NumbersAsGiven ==
  pc \in {"play_file", "list_sound_cards"} =>
    \A key \in {"buffer", "period", "count"} :
      /\ config[key] = 0 <=> Places(key) = {}
      /\ \A i \in Places(key) :
           (\A j \in Places(key) : j <= i) =>
             config[key] \in {given[i][2], given[i][2] % Unsigned}

\* Of the strings of the command line only those are not freed when main
\* returns that a later option of the same kind has replaced (main.c:313),
\* also when the line is refused half way, or memory runs out.
StringsAreFreed ==
  pc = "returned" =>
    strings = Cardinality({i \in DOMAIN given :
                             /\ given[i] \in Copied
                             /\ \E j \in i + 1 .. Len(given) :
                                  given[j] \in Copied /\ given[j][1] = given[i][1]})
============================================================================

------------------------------- MODULE Config -------------------------------
(***************************************************************************)
(* Config of src/src/core/config.cpp: the settings a run of the program    *)
(* takes from a configuration file and from its command line.              *)
(*                                                                         *)
(* A token is an option or the text of a value, with the number that       *)
(* parse_number makes of it.  Blanks, comments and the notation of numbers *)
(* are left out, and numbers are whole and not negative.                   *)
(*                                                                         *)
(* Definitions named Bug... are plausible mistakes in the definition that  *)
(* follows them.                                                           *)
(***************************************************************************)
EXTENDS Integers, Sequences

NaN == -1   \* parse_number throws
Value(text, number) == [kind |-> "value", text |-> text, number |-> number]
Option(key) == [kind |-> "option", text |-> key, number |-> NaN]
ConfigOption == Option("config")

\* A line of a file: a setting, or one without a separator, key or value.
Setting(key, value) == [key |-> key, value |-> value]
NotASetting == [key |-> "", value |-> Value("", NaN)]

Failed == [failed |-> TRUE]   \* an exception
NoPath == "no path"           \* --config without one, which names no file

Defaults ==
  [port |-> 8080, backlog |-> 128, epoll_worker_count |-> 0, thread_pool_size |-> 4,
   task_queue_capacity |-> 1024, log_path |-> "", rate_limit_capacity |-> 10,
   rate_limit_refill_rate |-> 5, storage_directory |-> "data/log",
   storage_segment_size |-> 64 * 1024 * 1024, recent_message_capacity |-> 1024]

Keys == DOMAIN Defaults
TextKeys == {"log_path", "storage_directory"}

\* What a value sets its key to.
Meaning(key, value) == IF key \in TextKeys THEN value.text ELSE value.number
Applies(key, value) == key \in Keys /\ (key \in TextKeys \/ value.number # NaN)

Apply(config, key, value) ==
  IF config = Failed \/ ~Applies(key, value) THEN Failed
  ELSE [config EXCEPT ![key] = Meaning(key, value)]

Valid(config) ==
  /\ config.port \in 1..65535
  /\ config.backlog >= 1
  /\ config.epoll_worker_count <= 256
  /\ config.thread_pool_size \in 1..256
  /\ config.task_queue_capacity \in 1..2^20
  /\ config.rate_limit_capacity >= 1
  /\ config.rate_limit_refill_rate >= 0
  /\ config.storage_directory # ""
  /\ config.storage_segment_size \in 73..2^30
  /\ config.recent_message_capacity \in 1..2^20

Validate(config) == IF config # Failed /\ Valid(config) THEN config ELSE Failed

\* load_file on the lines of a file.
LoadFile(lines) ==
  LET after[n \in 0..Len(lines)] ==
        IF n = 0 THEN Defaults ELSE Apply(after[n - 1], lines[n].key, lines[n].value)
  IN Validate(after[Len(lines)])

\* The first pass of from_args: the path after the last --config from token i on,
\* as a set that is empty when there is none.
ConfigPaths(args) ==
  LET from[i \in 1..(Len(args) + 2)] ==
        IF i > Len(args) THEN {}
        ELSE IF args[i] # ConfigOption THEN from[i + 1]
        ELSE IF i = Len(args) THEN {NoPath}
        ELSE IF from[i + 2] # {} THEN from[i + 2] ELSE {args[i + 1].text}
  IN from[1]

BaseConfig(args, files) ==
  LET paths == ConfigPaths(args)
  IN IF paths = {} \/ paths = {""} THEN Defaults
     ELSE IF paths \subseteq DOMAIN files THEN LoadFile(files[CHOOSE p \in paths : TRUE])
     ELSE Failed

BugSecondPass(config, option, value) == Apply(config, option.text, value)
SecondPass(config, option, value) ==
  IF option = ConfigOption THEN config
  ELSE IF option.kind # "option" THEN Failed
  ELSE Apply(config, option.text, value)

\* from_args.  Both kinds of option take one value, so the second pass finds an
\* option in every other token.
FromArgs(args, files) ==
  LET after[n \in 0..(Len(args) \div 2)] ==
        IF n = 0 THEN BaseConfig(args, files)
        ELSE SecondPass(after[n - 1], args[2 * n - 1], args[2 * n])
  IN IF Len(args) % 2 = 1 /\ args[Len(args)] # ConfigOption THEN Failed
     ELSE Validate(after[Len(args) \div 2])

-----------------------------------------------------------------------------
(* What the settings should be: for each key the last one that was given,  *)
(* with the command line after the file.                                   *)

Given(args, file) ==
  file \o SelectSeq([n \in 1..(Len(args) \div 2) |-> Setting(args[2 * n - 1].text, args[2 * n])],
                    LAMBDA s : s.key # "config")

LastGiven(settings, key) ==
  LET at == {i \in DOMAIN settings : settings[i].key = key}
  IN IF at = {} THEN Defaults[key]
     ELSE Meaning(key, settings[CHOOSE i \in at : \A j \in at : j <= i].value)

SettledBy(settings) == [key \in Keys |-> LastGiven(settings, key)]
AllApply(settings) == \A i \in DOMAIN settings : Applies(settings[i].key, settings[i].value)

\* The file that the last --config option names, if any.
NamedFile(args, files) ==
  LET at == {n \in 1..(Len(args) \div 2) : args[2 * n - 1] = ConfigOption}
      path == args[2 * CHOOSE n \in at : \A m \in at : m <= n].text
  IN IF at = {} THEN <<>> ELSE IF path = "" THEN <<>>
     ELSE IF path \in DOMAIN files THEN files[path] ELSE <<NotASetting>>

\* A command line of options and values; a value that reads --config is an
\* option to the first pass, and is left aside here.
Plain(args) ==
  /\ Len(args) % 2 = 0
  /\ \A n \in 1..(Len(args) \div 2) : args[2 * n - 1].kind = "option" /\ args[2 * n] # ConfigOption

\* from_args accepts a command line when all of its settings and those of the
\* file make sense, and the file by itself and the outcome are valid; it then
\* takes the last setting given for each key.
LastSettingWins(args, files) ==
  LET file == NamedFile(args, files)
      all == Given(args, file)
  IN Plain(args) =>
       FromArgs(args, files) =
         IF AllApply(all) /\ Valid(SettledBy(file)) /\ Valid(SettledBy(all))
         THEN SettledBy(all) ELSE Failed
=============================================================================

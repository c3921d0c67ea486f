--------------------------- MODULE Configuration ----------------------------
(***************************************************************************)
(* initialize_configuration: the configuration is put together from the    *)
(* command line, three configuration files, the environment, and once more *)
(* from the command line.                                                  *)
(*                                                                         *)
(* getopt_long (GNU) permutes argv: while it scans, the words it has seen  *)
(* are split into "options" and "arguments" and the words it has not seen, *)
(* which begin at argv[optind], are "rest"; when it has seen them all it   *)
(* has moved the arguments behind the options.  The second scan starts     *)
(* from the permuted words.                                                *)
(*                                                                         *)
(* A word is one of a few strings; long options without an argument are    *)
(* their short form.  A file is what g_key_file_load_from_file makes of    *)
(* it: its kind, and the settings of its first group as a function on some *)
(* of the fields of the configuration.                                     *)
(***************************************************************************)
EXTENDS Naturals, Sequences, FiniteSets

CONSTANTS
  Words,       \* the words of the command lines
  MaxWords,    \* bound: the length of a command line
  Files,       \* what a configuration file may be
  NULL         \* a pointer to nothing

ASSUME MaxWordsAssumption == MaxWords \in Nat

VARIABLES
  pc,             \* the code that runs next, or how it ended
  command_line,   \* the words as the user gave them
  argv,           \* argv[1..], permuted by getopt_long
  pass,           \* 1: look for the file; 2: override the files
  rest,           \* argv[optind..] while the options are decoded
  options,        \* the options and their arguments seen so far
  arguments,      \* the other words seen so far
  option_error,
  configuration,  \* *configuration
  custom,         \* the local configuration_file of initialize_configuration
  files,          \* the configuration files read, in order (history)
  credentials,    \* the environment variable, once it has been read
  success         \* what initialize_configuration returns

scan == <<rest, options, arguments, option_error>>
vars == <<pc, command_line, argv, pass, scan, configuration, custom, files,
          credentials, success>>

(* The option string "hVLvdut:c:4" and long_options. *)
FieldOf == [w \in {"-v", "-d", "-u", "-4"} |->
              CASE w = "-v" -> "verbose"
                [] w = "-d" -> "force_download"
                [] w = "-u" -> "force_download"
                [] w = "-4" -> "ipv4_only"]
Flags     == DOMAIN FieldOf
Messages  == {"-h", "-V", "-L"}            \* print something and exit
TaskWords == {"-t", "--task=A"}
FileWords == {"-c", "--config=A"}
Separate  == {"-t", "-c"}                  \* the argument is the next word
Unknown   == {"-x"}
Options   == Flags \cup Messages \cup TaskWords \cup FileWords \cup Unknown
EndOfOptions == "--"

(* Kinds of files: one whose settings are read, one without any group, and   *)
(* those that cannot be loaded, by the code of the error.  The codes of two  *)
(* domains are mixed: G_FILE_ERROR_NOENT is 4, and so is                     *)
(* G_KEY_FILE_ERROR_GROUP_NOT_FOUND, a file that does not begin with a group.*)
Ignored == {"no such file", "no permission", "no group first"}
Kinds   == Ignored \cup {"settings", "no group", "malformed"}

(* The environment variable: not set, "user@gmail.com:password", or the      *)
(* same with a space at either end and on both sides of the colon.           *)
Credentials == {"unset", "plain", "spaced"}

ASSUME NullAssumption == NULL \notin Words \cup Credentials \cup {"environment"}

reset_configuration ==
  [listname |-> NULL, ical_filename |-> NULL, force_download |-> FALSE,
   force_upload |-> FALSE, tasks |-> <<>>, gmail_username |-> NULL,
   gmail_password |-> NULL, client_id |-> NULL, client_password |-> NULL,
   verbose |-> FALSE, ipv4_only |-> FALSE, configuration_file |-> NULL]

\* The settings apply_one_configuration_file knows.
FileFields == {"client_id", "client_password", "gmail_username", "gmail_password",
               "ipv4_only"}

\* Only a file that can be loaded has settings.
ASSUME FilesAssumption ==
  \A file \in Files : /\ DOMAIN file.settings \subseteq FileFields
                      /\ file.kind # "settings" => DOMAIN file.settings = {}
                      /\ "ipv4_only" \in DOMAIN file.settings =>
                           file.settings.ipv4_only \in BOOLEAN

CommandLines == UNION {[1 .. n -> Words] : n \in 0 .. MaxWords}

Scan(words) == /\ rest' = words
               /\ options' = <<>>
               /\ arguments' = <<>>
               /\ option_error' = FALSE

Init == /\ pc = "options" /\ pass = 1
        /\ command_line \in CommandLines
        /\ argv = command_line
        /\ rest = command_line /\ options = <<>> /\ arguments = <<>>
        /\ option_error = FALSE
        /\ configuration = reset_configuration
        /\ custom = NULL /\ files = <<>> /\ credentials = NULL
        /\ success = FALSE

Exit(how) ==
  /\ pc' = how
  /\ UNCHANGED <<command_line, argv, pass, scan, configuration, custom, files,
                 credentials, success>>

-----------------------------------------------------------------------------
(* decode_commandline *)

NextIs(words) == pc = "options" /\ rest # <<>> /\ Head(rest) \in words

\* The k words getopt_long takes as one option.
TakeOption(k) ==
  /\ rest' = SubSeq(rest, k + 1, Len(rest))
  /\ options' = options \o SubSeq(rest, 1, k)
  /\ UNCHANGED <<pc, command_line, argv, pass, arguments, custom, files,
                 credentials, success>>

\* argv[ optind ], which is NULL behind the last word.
ArgvOptind == IF rest' = <<>> THEN NULL ELSE Head(rest')

HasArgument == Head(rest) \in Separate => Len(rest) > 1
Width == IF Head(rest) \in Separate THEN 2 ELSE 1

decode_flag ==
  /\ NextIs(Flags)
  /\ TakeOption(1)
  /\ configuration' = [configuration EXCEPT ![FieldOf[Head(rest)]] = TRUE]
  /\ UNCHANGED option_error

decode_task ==
  /\ NextIs(TaskWords) /\ HasArgument
  /\ TakeOption(Width)
  /\ configuration' = [configuration EXCEPT !.tasks = Append(@, ArgvOptind)]
  /\ UNCHANGED option_error

decode_config ==
  /\ NextIs(FileWords) /\ HasArgument
  /\ TakeOption(Width)
  /\ configuration' = [configuration EXCEPT !.configuration_file = ArgvOptind]
  /\ UNCHANGED option_error

\* '?': an option nobody knows, or one without its argument.
decode_error ==
  /\ NextIs(Unknown \cup Separate)
  /\ Head(rest) \in Separate => ~HasArgument
  /\ TakeOption(1)
  /\ option_error' = TRUE
  /\ UNCHANGED configuration

print_and_exit == NextIs(Messages) /\ Exit("exit_success")

\* External: a word that is no option is left for the end.
skip_argument ==
  /\ NextIs(Words \ (Options \cup {EndOfOptions}))
  /\ rest' = Tail(rest)
  /\ arguments' = Append(arguments, Head(rest))
  /\ UNCHANGED <<pc, command_line, argv, pass, options, option_error,
                 configuration, custom, files, credentials, success>>

\* Mutant: the words behind "--" are dropped.
drop_rest ==
  /\ pc = "options"
  /\ rest = <<>> \/ NextIs({EndOfOptions})
  /\ rest' = <<>>
  /\ argv' = options \o arguments
  /\ pc' = "arguments"
  /\ UNCHANGED <<command_line, pass, options, arguments, option_error,
                 configuration, custom, files, credentials, success>>

\* External: getopt_long returns -1 with optind at the first argument.
end_of_options ==
  /\ pc = "options"
  /\ \/ /\ rest = <<>>
        /\ UNCHANGED <<rest, options, arguments>>
     \/ /\ NextIs({EndOfOptions})
        /\ options' = Append(options, EndOfOptions)
        /\ arguments' = arguments \o Tail(rest)
        /\ rest' = <<>>
  /\ argv' = options' \o arguments'
  /\ pc' = "arguments"
  /\ UNCHANGED <<command_line, pass, option_error, configuration, custom,
                 files, credentials, success>>

help_and_exit == pc = "arguments" /\ option_error /\ Exit("exit_failure")

NamedArguments(c) ==
  IF Len(arguments) = 2
    THEN [c EXCEPT !.listname = arguments[1], !.ical_filename = arguments[2]]
    ELSE [c EXCEPT !.ical_filename = arguments[1]]

\* Mutant: the configuration is not reset for the second pass.
first_pass_kept ==
  /\ pc = "arguments" /\ ~option_error /\ pass = 1
  /\ Len(arguments) \in {1, 2}
  /\ custom' = configuration.configuration_file
  /\ UNCHANGED configuration
  /\ success' = TRUE
  /\ pc' = "files"
  /\ UNCHANGED <<command_line, argv, pass, scan, files, credentials>>

\* The first pass only leaves the name of the configuration file behind.
first_pass_decoded ==
  /\ pc = "arguments" /\ ~option_error /\ pass = 1
  /\ Len(arguments) \in {1, 2}
  /\ custom' = configuration.configuration_file
  /\ configuration' = reset_configuration
  /\ success' = TRUE
  /\ pc' = "files"
  /\ UNCHANGED <<command_line, argv, pass, scan, files, credentials>>

\* g_free is given the list of tasks, whose memory is not its own: it depends
\* on the build of GLib whether the process survives that.
destroy_configuration ==
  /\ pc = "arguments" /\ ~option_error /\ pass = 1
  /\ Len(arguments) \in {1, 2}
  /\ configuration.tasks # <<>>
  /\ Exit("crash")

\* (void) decode_commandline(...): the second result is not looked at.
second_pass_decoded ==
  /\ pc = "arguments" /\ ~option_error /\ pass = 2
  /\ configuration' = IF Len(arguments) \in {1, 2}
                        THEN NamedArguments(configuration)
                        ELSE configuration
  /\ pc' = "returned"
  /\ UNCHANGED <<command_line, argv, pass, scan, custom, files, credentials,
                 success>>

wrong_arguments ==
  /\ pc = "arguments" /\ ~option_error /\ pass = 1
  /\ Len(arguments) \notin {1, 2}
  /\ Exit("returned")

-----------------------------------------------------------------------------
(* apply_configuration_files: the global, the local and the custom file. *)

Read(kinds, file) == /\ pc = "files" /\ Len(files) < 3
                     /\ Len(files) = 2 => custom # NULL
                     /\ file.kind \in kinds
                     /\ files' = Append(files, file)

\* Mutant: a setting of an earlier file is kept.
first_file_wins ==
  /\ \E file \in Files :
       /\ Read(Ignored \cup {"settings"}, file)
       /\ configuration' = [f \in DOMAIN configuration |->
                              IF f \in DOMAIN file.settings /\ configuration[f] = NULL
                                THEN file.settings[f] ELSE configuration[f]]
  /\ UNCHANGED <<pc, command_line, argv, pass, scan, custom, credentials,
                 success>>

apply_one_configuration_file ==
  /\ \E file \in Files :
       /\ Read(Ignored \cup {"settings"}, file)
       /\ configuration' = [f \in DOMAIN configuration |->
                              IF f \in DOMAIN file.settings
                                THEN file.settings[f] ELSE configuration[f]]
  /\ UNCHANGED <<pc, command_line, argv, pass, scan, custom, credentials,
                 success>>

malformed_file ==
  /\ \E file \in Files : Read({"malformed"}, file)
  /\ success' = FALSE
  /\ pc' = "returned"
  /\ UNCHANGED <<command_line, argv, pass, scan, configuration, custom,
                 credentials>>

\* g_key_file_get_keys returns NULL when there is no group, and keys[0] is read.
file_without_group ==
  /\ \E file \in Files : Read({"no group"}, file)
  /\ pc' = "crash"
  /\ UNCHANGED <<command_line, argv, pass, scan, configuration, custom,
                 credentials, success>>

\* Mutant: the password of a file is kept when there is no match.
environment_user_only(c, variable) ==
  CASE variable = "unset" -> c
    [] variable = "plain" -> [c EXCEPT !.gmail_username = NULL]
    [] variable = "spaced" -> [c EXCEPT !.gmail_username = "environment",
                                        !.gmail_password = "environment"]

\* The regular expression asks for the spaces.
set_environment_configuration(c, variable) ==
  CASE variable = "unset" -> c
    [] variable = "plain" -> [c EXCEPT !.gmail_username = NULL,
                                       !.gmail_password = NULL]
    [] variable = "spaced" -> [c EXCEPT !.gmail_username = "environment",
                                        !.gmail_password = "environment"]

\* optind = 1, and the words from there on are decoded again.
SecondPass(words) ==
  /\ pc = "files"
  /\ Len(files) = 3 \/ (Len(files) = 2 /\ custom = NULL)
  /\ pass' = 2
  /\ Scan(words)
  /\ pc' = "options"
  /\ UNCHANGED <<command_line, argv, custom, files>>

Environment(matches) ==
  \E variable \in Credentials :
    /\ credentials' = variable
    /\ configuration' = set_environment_configuration(configuration, variable)
    /\ success' = (variable \in matches)

\* Mutant: optind is left where the first pass moved it.
optind_not_reset ==
  /\ SecondPass(SubSeq(arguments, Len(arguments), Len(arguments)))
  /\ Environment({"spaced"})

\* Mutant: argv[0] is counted twice.
optind_off_by_one == SecondPass(Tail(argv)) /\ Environment({"spaced"})

\* Mutant: any value of the variable is a success.
environment_unchecked == SecondPass(argv) /\ Environment({"plain", "spaced"})

files_applied == SecondPass(argv) /\ Environment({"spaced"})

decode_commandline ==
  \/ decode_flag \/ decode_task \/ decode_config \/ decode_error
  \/ print_and_exit \/ skip_argument \/ end_of_options \/ help_and_exit
  \/ first_pass_decoded \/ destroy_configuration \/ second_pass_decoded
  \/ wrong_arguments

apply_configuration_files ==
  apply_one_configuration_file \/ malformed_file \/ file_without_group

Next == decode_commandline \/ apply_configuration_files \/ files_applied

Spec == Init /\ [][Next]_vars

-----------------------------------------------------------------------------
(* What the command line says, read off its words: the reference for what  *)
(* two scans of a permuted argv make of it.                                *)

Positions == DOMAIN command_line

IsArgument[i \in Nat] ==
  i > 1 /\ command_line[i - 1] \in Separate /\ ~IsArgument[i - 1]

EndAt == LET ends == {i \in Positions : command_line[i] = EndOfOptions /\ ~IsArgument[i]}
         IN  CHOOSE i \in ends \cup {Len(command_line) + 1} :
               \A j \in ends : i <= j

IsPlain(i) == \/ i > EndAt
              \/ i < EndAt /\ command_line[i] \notin Options /\ ~IsArgument[i]

Plain == {i \in Positions : IsPlain(i)}

Given(words) == {i \in Positions : /\ i < EndAt
                                   /\ command_line[i] \in words
                                   /\ ~IsArgument[i]}

ArgumentOf(i) == IF command_line[i] \in Separate THEN command_line[i + 1] ELSE "A"

Least(S)    == CHOOSE i \in S : \A j \in S : i <= j
Greatest(S) == CHOOSE i \in S : \A j \in S : i >= j

\* The value of a field in the last file that sets it.
FromFiles(f) ==
  LET setting == {i \in DOMAIN files : f \in DOMAIN files[i].settings}
  IN  IF setting = {} THEN reset_configuration[f]
      ELSE files[Greatest(setting)].settings[f]

-----------------------------------------------------------------------------
(* Properties. *)

Values == Words \cup {NULL, "A", "environment"}
            \cup UNION {{file.settings[f] : f \in DOMAIN file.settings \ {"ipv4_only"}} : file \in Files}

\* No word is lost or doubled while it is scanned.
TypeOK ==
  /\ pc \in {"options", "arguments", "files", "returned", "exit_success",
             "exit_failure", "crash"}
  /\ pass \in {1, 2}
  /\ Len(options) + Len(arguments) + Len(rest) = Len(command_line)
  /\ Len(argv) = Len(command_line)
  /\ \A f \in {"force_download", "force_upload", "verbose", "ipv4_only"} :
       configuration[f] \in BOOLEAN
  /\ \A f \in {"listname", "ical_filename", "gmail_username", "gmail_password",
               "client_id", "client_password", "configuration_file"} :
       configuration[f] \in Values
  /\ configuration.tasks \in Seq(Values)

Configured == pc = "returned" /\ pass = 2

\* The list and the file are the words of the command line that are neither
\* options nor their arguments, however they are mixed with options and
\* although the second pass reads what the first has permuted.
ArgumentsSurvive ==
  Configured =>
    /\ Cardinality(Plain) \in {1, 2}
    /\ configuration.ical_filename = command_line[Greatest(Plain)]
    /\ configuration.listname = IF Cardinality(Plain) = 2
                                THEN command_line[Least(Plain)] ELSE NULL

\* Each task option counts once although the options are decoded twice.
TasksCountOnce ==
  Configured => Len(configuration.tasks) = Cardinality(Given(TaskWords))

\* A file overrides the files before it, setting by setting, and only the
\* environment and the command line override the files.
LaterFileOverrides ==
  Configured =>
    /\ \A f \in {"client_id", "client_password"} : configuration[f] = FromFiles(f)
    /\ configuration.ipv4_only = (FromFiles("ipv4_only") \/ Given({"-4"}) # {})
    /\ credentials = "unset" =>
         /\ configuration.gmail_username = FromFiles("gmail_username")
         /\ configuration.gmail_password = FromFiles("gmail_password")

\* A password is never used with the user name of another source: once the
\* environment variable is set, both are its own or both are missing.
CredentialsOfOneSource ==
  Configured /\ credentials # "unset" =>
    \E v \in {NULL, "environment"} : /\ configuration.gmail_username = v
                                     /\ configuration.gmail_password = v

\* initialize_configuration returns TRUE only with all that main needs of
\* the user: the credentials and the file.
SuccessMeansConfigured ==
  pc = "returned" /\ success =>
    /\ configuration.gmail_username # NULL
    /\ configuration.gmail_password # NULL
    /\ configuration.ical_filename # NULL

\* "which we now know will happen successfully": the second pass does not
\* end the program and finds one or two arguments.
SecondPassSucceeds ==
  pass = 2 => /\ pc \notin {"exit_success", "exit_failure"}
              /\ pc = "arguments" => ~option_error /\ Len(arguments) \in {1, 2}

-----------------------------------------------------------------------------
(* What the help says and the code does not do. *)

\* print_software_help: "-c file, Read configuration settings from "file"".
NamedFileIsRead ==
  pc = "files" =>
    custom = IF Given(FileWords) = {} THEN NULL
             ELSE ArgumentOf(Greatest(Given(FileWords)))
=============================================================================

------------------------- MODULE ConfigurationProofs ------------------------
(***************************************************************************)
(* The credentials come from one source, the last file that sets a field   *)
(* gives it its value, and the second pass over the permuted argv succeeds *)
(* and finds the arguments and the options of the command line, for        *)
(* command lines of any words and any length and for any files.            *)
(***************************************************************************)
EXTENDS Configuration, SequenceTheorems, NaturalsInduction, WellFoundedInduction,
        FiniteSetTheorems, TLAPS

Fields == DOMAIN reset_configuration

Places == {"options", "arguments", "files", "returned", "exit_success",
           "exit_failure", "crash"}

TypeInv ==
  /\ pc \in Places
  /\ pass \in {1, 2}
  /\ argv \in Seq(Words) /\ rest \in Seq(Words)
  /\ options \in Seq(Words) /\ arguments \in Seq(Words)
  /\ option_error \in BOOLEAN
  /\ success \in BOOLEAN
  /\ DOMAIN configuration = Fields

-----------------------------------------------------------------------------
(* Sequences. *)

\* What is left of a sequence without its first k elements.
LEMMA Remainder ==
  ASSUME NEW S, NEW s \in Seq(S), NEW k \in 0 .. Len(s)
  PROVE  /\ SubSeq(s, k + 1, Len(s)) \in Seq(S)
         /\ Len(SubSeq(s, k + 1, Len(s))) = Len(s) - k
         /\ \A i \in 1 .. Len(s) - k : SubSeq(s, k + 1, Len(s))[i] = s[k + i]
<1>1. Len(s) \in Nat /\ k \in Nat /\ k <= Len(s)
  BY LenProperties
<1>2. \A i \in k + 1 .. Len(s) : s[i] \in S
  BY <1>1, ElementOfSeq
<1>3. /\ SubSeq(s, k + 1, Len(s)) \in Seq(S)
      /\ Len(SubSeq(s, k + 1, Len(s))) = IF k + 1 <= Len(s) THEN Len(s) - (k + 1) + 1 ELSE 0
      /\ \A i \in 1 .. Len(s) - (k + 1) + 1 : SubSeq(s, k + 1, Len(s))[i] = s[(k + 1) + i - 1]
  BY <1>1, <1>2, SubSeqProperties
<1> DEFINE t == SubSeq(s, k + 1, Len(s))
<1> HIDE DEF t
<1>4. t \in Seq(S) /\ Len(t) = Len(s) - k /\ \A i \in 1 .. Len(s) - k : t[i] = s[k + i]
  BY <1>1, <1>3 DEF t
<1> QED BY <1>4 DEF t

\* The first k elements.
LEMMA Beginning ==
  ASSUME NEW S, NEW s \in Seq(S), NEW k \in 0 .. Len(s)
  PROVE  /\ SubSeq(s, 1, k) \in Seq(S)
         /\ Len(SubSeq(s, 1, k)) = k
         /\ \A i \in 1 .. k : SubSeq(s, 1, k)[i] = s[i]
<1>1. Len(s) \in Nat /\ k \in Nat /\ k <= Len(s)
  BY LenProperties
<1>2. \A i \in 1 .. k : s[i] \in S
  BY <1>1, ElementOfSeq
<1>3. /\ SubSeq(s, 1, k) \in Seq(S)
      /\ Len(SubSeq(s, 1, k)) = IF 1 <= k THEN k - 1 + 1 ELSE 0
      /\ \A i \in 1 .. k - 1 + 1 : SubSeq(s, 1, k)[i] = s[1 + i - 1]
  BY <1>1, <1>2, SubSeqProperties
<1> DEFINE t == SubSeq(s, 1, k)
<1> HIDE DEF t
<1>4. t \in Seq(S) /\ Len(t) = k /\ \A i \in 1 .. k : t[i] = s[i]
  BY <1>1, <1>3 DEF t
<1> QED BY <1>4 DEF t

\* The first word of a sequence and the rest of it.
LEMMA FirstWord ==
  ASSUME NEW S, NEW s \in Seq(S), s # <<>>
  PROVE  /\ Len(s) \in Nat /\ Len(s) > 0 /\ Head(s) = s[1] /\ s[1] \in S
         /\ Tail(s) \in Seq(S) /\ Len(Tail(s)) = Len(s) - 1
  BY HeadTailProperties, EmptySeq, ElementOfSeq

-----------------------------------------------------------------------------
(* Types. *)

\* What taking the k words of an option does to the sequences.
LEMMA TakenWords ==
  ASSUME TypeInv, NEW k \in 0 .. Len(rest), TakeOption(k)
  PROVE  /\ rest' \in Seq(Words) /\ Len(rest') = Len(rest) - k
         /\ \A i \in 1 .. Len(rest) - k : rest'[i] = rest[k + i]
         /\ options' \in Seq(Words) /\ Len(options') = Len(options) + k
         /\ \A i \in 1 .. Len(options) + k :
              options'[i] = IF i <= Len(options) THEN options[i] ELSE rest[i - Len(options)]
<1>1. rest \in Seq(Words) /\ options \in Seq(Words)
  BY DEF TypeInv
<1>2. rest' = SubSeq(rest, k + 1, Len(rest)) /\ options' = options \o SubSeq(rest, 1, k)
  BY DEF TakeOption
<1>3. /\ rest' \in Seq(Words) /\ Len(rest') = Len(rest) - k
      /\ \A i \in 1 .. Len(rest) - k : rest'[i] = rest[k + i]
  BY <1>1, <1>2, Remainder
<1> DEFINE taken == SubSeq(rest, 1, k)
<1>4. taken \in Seq(Words) /\ Len(taken) = k /\ \A i \in 1 .. k : taken[i] = rest[i]
  BY <1>1, Beginning
<1> HIDE DEF taken
<1>5. options' = options \o taken
  BY <1>2 DEF taken
<1>6. /\ options' \in Seq(Words) /\ Len(options') = Len(options) + Len(taken)
      /\ \A i \in 1 .. Len(options) + Len(taken) :
           options'[i] = IF i <= Len(options) THEN options[i] ELSE taken[i - Len(options)]
  BY <1>1, <1>4, <1>5, ConcatProperties
<1>7. Len(options) \in Nat
  BY <1>1, LenProperties
<1> QED BY <1>3, <1>4, <1>6, <1>7

\* An option fits into the words that are left.
LEMMA WidthFits ==
  ASSUME TypeInv, rest # <<>>, HasArgument
  PROVE  Width \in 1 .. Len(rest) /\ 1 \in 0 .. Len(rest) /\ Width \in 0 .. Len(rest)
<1>1. Len(rest) \in Nat /\ Len(rest) > 0
  BY FirstWord DEF TypeInv
<1> QED BY <1>1 DEF HasArgument, Width

LEMMA TypeInit == Init => TypeInv
<1> SUFFICES ASSUME Init PROVE TypeInv
  OBVIOUS
<1>1. command_line \in Seq(Words)
  <2>1. PICK n \in 0 .. MaxWords : command_line \in [1 .. n -> Words]
    BY DEF Init, CommandLines
  <2>2. n \in Nat
    BY <2>1, MaxWordsAssumption
  <2> QED BY <2>1, <2>2
<1>2. /\ argv = command_line /\ rest = command_line /\ options = <<>> /\ arguments = <<>>
      /\ pc = "options" /\ pass = 1 /\ option_error = FALSE /\ success = FALSE
      /\ configuration = reset_configuration
  BY DEF Init
<1> QED BY <1>1, <1>2, EmptySeq DEF TypeInv, Places, Fields

LEMMA TypeOption ==
  ASSUME TypeInv, decode_flag \/ decode_task \/ decode_config \/ decode_error
  PROVE  TypeInv'
<1>1. rest # <<>>
  BY DEF decode_flag, decode_task, decode_config, decode_error, NextIs
<1>2. PICK k \in 0 .. Len(rest) : TakeOption(k)
  <2>1. 1 \in 0 .. Len(rest)
    BY <1>1, FirstWord DEF TypeInv
  <2> QED BY <1>1, <2>1, WidthFits DEF decode_flag, decode_task, decode_config, decode_error
<1>3. rest' \in Seq(Words) /\ options' \in Seq(Words)
  BY <1>2, TakenWords
<1>4. DOMAIN configuration' = DOMAIN configuration /\ option_error' \in BOOLEAN
  BY DEF TypeInv, decode_flag, decode_task, decode_config, decode_error
<1>5. UNCHANGED <<pc, pass, argv, arguments, success>>
  BY <1>2 DEF TakeOption
<1> QED BY <1>3, <1>4, <1>5 DEF TypeInv

LEMMA TypeStep == TypeInv /\ [Next]_vars => TypeInv'
<1> SUFFICES ASSUME TypeInv, [Next]_vars PROVE TypeInv'
  OBVIOUS
<1>1. CASE skip_argument
  <2>1. rest # <<>>
    BY <1>1 DEF skip_argument, NextIs
  <2>2. Head(rest) \in Words /\ Tail(rest) \in Seq(Words)
    BY <2>1, FirstWord DEF TypeInv
  <2>3. rest' \in Seq(Words) /\ arguments' \in Seq(Words)
    BY <1>1, <2>2, AppendProperties DEF skip_argument, TypeInv
  <2> QED BY <1>1, <2>3 DEF skip_argument, TypeInv
<1>2. CASE end_of_options
  <2>1. options' \in Seq(Words) /\ arguments' \in Seq(Words) /\ rest' \in Seq(Words)
    <3>1. CASE rest = <<>> /\ UNCHANGED <<rest, options, arguments>>
      BY <3>1 DEF TypeInv
    <3>2. CASE /\ NextIs({EndOfOptions})
               /\ options' = Append(options, EndOfOptions)
               /\ arguments' = arguments \o Tail(rest)
               /\ rest' = <<>>
      <4>1. rest # <<>> /\ Head(rest) = EndOfOptions
        BY <3>2 DEF NextIs
      <4>2. EndOfOptions \in Words /\ Tail(rest) \in Seq(Words)
        BY <4>1, FirstWord DEF TypeInv
      <4>3. Append(options, EndOfOptions) \in Seq(Words)
        BY <4>2, AppendProperties DEF TypeInv
      <4>4. arguments \o Tail(rest) \in Seq(Words)
        BY <4>2, ConcatProperties DEF TypeInv
      <4>5. rest' \in Seq(Words)
        BY <3>2, EmptySeq
      <4> QED BY <3>2, <4>3, <4>4, <4>5
    <3> QED BY <1>2, <3>1, <3>2 DEF end_of_options
  <2>2. argv' \in Seq(Words)
    BY <1>2, <2>1, ConcatProperties DEF end_of_options
  <2>3. pc' = "arguments" /\ UNCHANGED <<pass, option_error, configuration, success>>
    BY <1>2 DEF end_of_options
  <2> QED BY <2>1, <2>2, <2>3 DEF TypeInv, Places
<1>3. CASE print_and_exit \/ help_and_exit \/ destroy_configuration \/ wrong_arguments
  BY <1>3 DEF print_and_exit, help_and_exit, destroy_configuration, wrong_arguments, Exit,
              scan, TypeInv, Places
<1>4. CASE first_pass_decoded
  BY <1>4 DEF first_pass_decoded, scan, TypeInv, Places, Fields
<1>5. CASE second_pass_decoded
  <2>1. DOMAIN configuration' = DOMAIN configuration
    BY <1>5 DEF second_pass_decoded, NamedArguments
  <2> QED BY <1>5, <2>1 DEF second_pass_decoded, scan, TypeInv, Places
<1>6. CASE apply_configuration_files
  <2>1. DOMAIN configuration' = DOMAIN configuration
    BY <1>6 DEF apply_configuration_files, apply_one_configuration_file, malformed_file,
                file_without_group
  <2> QED BY <1>6, <2>1 DEF apply_configuration_files, apply_one_configuration_file,
                            malformed_file, file_without_group, scan, TypeInv, Places
<1>7. CASE files_applied
  <2>1. PICK variable \in Credentials :
          /\ configuration' = set_environment_configuration(configuration, variable)
          /\ success' = (variable \in {"spaced"})
    BY <1>7 DEF files_applied, Environment
  <2>2. DOMAIN configuration' = DOMAIN configuration
    BY <2>1 DEF set_environment_configuration, Credentials
  <2>3. /\ pc' = "options" /\ pass' = 2 /\ argv' = argv /\ rest' = argv
        /\ options' = <<>> /\ arguments' = <<>> /\ option_error' = FALSE
    BY <1>7 DEF files_applied, SecondPass, Scan
  <2>4. success' \in BOOLEAN
    BY <2>1
  <2>5. options' \in Seq(Words) /\ arguments' \in Seq(Words)
    BY <2>3, EmptySeq
  <2> QED BY <2>2, <2>3, <2>4, <2>5 DEF TypeInv, Places
<1>8. CASE UNCHANGED vars
  BY <1>8 DEF vars, scan, TypeInv
<1> QED BY <1>1, <1>2, <1>3, <1>4, <1>5, <1>6, <1>7, <1>8, TypeOption
        DEF Next, decode_commandline

LEMMA Typed == Spec => []TypeInv
  BY TypeInit, TypeStep, PTL DEF Spec

-----------------------------------------------------------------------------
(* The types in full: the words that are scanned, and what a field of the    *)
(* configuration may hold.                                                   *)

BooleanFields == {"force_download", "force_upload", "verbose", "ipv4_only"}
ValueFields   == {"listname", "ical_filename", "gmail_username", "gmail_password",
                  "client_id", "client_password", "configuration_file"}

TypedConfiguration(c) ==
  /\ DOMAIN c = Fields
  /\ \A f \in BooleanFields : c[f] \in BOOLEAN
  /\ \A f \in ValueFields : c[f] \in Values
  /\ c.tasks \in Seq(Values)

LengthInv ==
  /\ command_line \in Seq(Words)
  /\ Len(options) + Len(arguments) + Len(rest) = Len(command_line)
  /\ Len(argv) = Len(command_line)

LEMMA FieldsApart ==
  /\ Fields = BooleanFields \cup ValueFields \cup {"tasks"}
  /\ FileFields \ {"ipv4_only"} \subseteq ValueFields
  /\ "tasks" \notin BooleanFields \cup ValueFields
  /\ BooleanFields \cap ValueFields = {}
  BY DEF Fields, reset_configuration, BooleanFields, ValueFields, FileFields

LEMMA TypedReset == TypedConfiguration(reset_configuration)
<1>1. NULL \in Values /\ <<>> \in Seq(Values)
  BY EmptySeq DEF Values
<1>2. \A f \in BooleanFields : reset_configuration[f] = FALSE
  BY DEF BooleanFields, reset_configuration
<1>3. \A f \in ValueFields : reset_configuration[f] = NULL
  BY DEF ValueFields, reset_configuration
<1>4. reset_configuration.tasks = <<>>
  BY DEF reset_configuration
<1> QED BY <1>1, <1>2, <1>3, <1>4 DEF TypedConfiguration, Fields

\* One field is given a value of its type.
LEMMA TypedField ==
  ASSUME NEW c, TypedConfiguration(c), NEW f, NEW v,
         \/ f \in BooleanFields /\ v \in BOOLEAN
         \/ f \in ValueFields /\ v \in Values
         \/ f = "tasks" /\ v \in Seq(Values)
  PROVE  TypedConfiguration([c EXCEPT ![f] = v])
<1> DEFINE d == [c EXCEPT ![f] = v]
<1>1. DOMAIN d = Fields /\ f \in Fields
  BY FieldsApart DEF TypedConfiguration
<1>2. \A g \in Fields : d[g] = IF g = f THEN v ELSE c[g]
  BY <1>1 DEF TypedConfiguration
<1> HIDE DEF d
<1>3. \A g \in BooleanFields : d[g] \in BOOLEAN
  BY <1>2, FieldsApart DEF TypedConfiguration
<1>4. \A g \in ValueFields : d[g] \in Values
  BY <1>2, FieldsApart DEF TypedConfiguration
<1>5. d.tasks \in Seq(Values)
  BY <1>2, FieldsApart DEF TypedConfiguration
<1>6. TypedConfiguration(d)
  BY <1>1, <1>3, <1>4, <1>5 DEF TypedConfiguration
<1> QED BY <1>6 DEF d

\* A configuration file sets fields of its own to values of their types.
LEMMA TypedFile ==
  ASSUME NEW c, TypedConfiguration(c), NEW file \in Files
  PROVE  TypedConfiguration([f \in DOMAIN c |-> IF f \in DOMAIN file.settings
                                                 THEN file.settings[f] ELSE c[f]])
<1> DEFINE d == [f \in DOMAIN c |-> IF f \in DOMAIN file.settings
                                     THEN file.settings[f] ELSE c[f]]
<1>1. DOMAIN d = Fields /\ \A f \in Fields : d[f] = IF f \in DOMAIN file.settings
                                                    THEN file.settings[f] ELSE c[f]
  BY DEF TypedConfiguration
<1> HIDE DEF d
<1>2. DOMAIN file.settings \subseteq FileFields
      /\ ("ipv4_only" \in DOMAIN file.settings => file.settings["ipv4_only"] \in BOOLEAN)
  BY FilesAssumption
<1>3. \A f \in DOMAIN file.settings \ {"ipv4_only"} : file.settings[f] \in Values
  BY DEF Values
<1>4. \A f \in BooleanFields : d[f] \in BOOLEAN
  BY <1>1, <1>2, FieldsApart DEF TypedConfiguration
<1>5. \A f \in ValueFields : d[f] \in Values
  <2> SUFFICES ASSUME NEW f \in ValueFields PROVE d[f] \in Values
    OBVIOUS
  <2>1. f # "ipv4_only"
    BY FieldsApart DEF BooleanFields
  <2> QED BY <1>1, <1>3, <2>1, FieldsApart DEF TypedConfiguration
<1>6. d.tasks \in Seq(Values)
  <2>1. "tasks" \notin FileFields
    BY DEF FileFields
  <2> QED BY <1>1, <1>2, <2>1, FieldsApart DEF TypedConfiguration
<1>7. TypedConfiguration(d)
  BY <1>1, <1>4, <1>5, <1>6 DEF TypedConfiguration
<1> QED BY <1>7 DEF d

LEMMA LengthInit == Init => LengthInv
<1> SUFFICES ASSUME Init PROVE LengthInv
  OBVIOUS
<1>1. command_line = argv /\ command_line = rest /\ options = <<>> /\ arguments = <<>>
  BY DEF Init
<1>2. argv \in Seq(Words) /\ Len(command_line) \in Nat
  BY <1>1, TypeInit, LenProperties DEF TypeInv
<1>3. Len(options) = 0 /\ Len(arguments) = 0 /\ Len(rest) = Len(command_line)
  BY <1>1
<1> QED BY <1>1, <1>2, <1>3 DEF LengthInv

\* The words that are scanned are as many in every step.
LEMMA LengthStep == TypeInv /\ LengthInv /\ [Next]_vars => LengthInv'
<1> SUFFICES ASSUME TypeInv, LengthInv, [Next]_vars PROVE LengthInv'
  OBVIOUS
<1>0. Len(options) \in Nat /\ Len(arguments) \in Nat /\ Len(rest) \in Nat /\ Len(<<>>) = 0
  BY LenProperties DEF TypeInv
<1>1. CASE decode_flag \/ decode_task \/ decode_config \/ decode_error
  <2>1. rest # <<>>
    BY <1>1 DEF decode_flag, decode_task, decode_config, decode_error, NextIs
  <2>2. PICK k \in 0 .. Len(rest) : TakeOption(k)
    <3>1. 1 \in 0 .. Len(rest)
      BY <2>1, FirstWord DEF TypeInv
    <3> QED BY <1>1, <2>1, <3>1, WidthFits DEF decode_flag, decode_task, decode_config, decode_error
  <2>3. Len(rest') = Len(rest) - k /\ Len(options') = Len(options) + k
    BY <2>2, TakenWords
  <2>4. arguments' = arguments /\ argv' = argv /\ command_line' = command_line
    BY <2>2 DEF TakeOption
  <2> QED BY <1>0, <2>3, <2>4 DEF LengthInv
<1>2. CASE skip_argument
  <2>1. /\ rest # <<>> /\ rest' = Tail(rest) /\ arguments' = Append(arguments, Head(rest))
        /\ options' = options /\ argv' = argv /\ command_line' = command_line
    BY <1>2 DEF skip_argument, NextIs
  <2>2. Head(rest) \in Words /\ Len(rest') = Len(rest) - 1
    BY <2>1, FirstWord DEF TypeInv
  <2>3. Len(arguments') = Len(arguments) + 1
    BY <2>1, <2>2, AppendProperties DEF TypeInv
  <2> QED BY <1>0, <2>1, <2>2, <2>3 DEF LengthInv
<1>3. CASE end_of_options
  <2>1. argv' = options' \o arguments' /\ command_line' = command_line
    BY <1>3 DEF end_of_options
  <2>2. /\ options' \in Seq(Words) /\ arguments' \in Seq(Words)
        /\ Len(options') + Len(arguments') = Len(options) + Len(arguments) + Len(rest)
        /\ rest' = <<>>
    <3>1. CASE rest = <<>> /\ UNCHANGED <<rest, options, arguments>>
      BY <1>0, <3>1 DEF TypeInv
    <3>2. CASE /\ NextIs({EndOfOptions})
               /\ options' = Append(options, EndOfOptions)
               /\ arguments' = arguments \o Tail(rest)
               /\ rest' = <<>>
      <4>1. EndOfOptions \in Words /\ Tail(rest) \in Seq(Words) /\ Len(Tail(rest)) = Len(rest) - 1
        BY <3>2, FirstWord DEF NextIs, TypeInv
      <4>2. options' \in Seq(Words) /\ Len(options') = Len(options) + 1
        BY <3>2, <4>1, AppendProperties DEF TypeInv
      <4>3. arguments' \in Seq(Words) /\ Len(arguments') = Len(arguments) + Len(Tail(rest))
        BY <3>2, <4>1, ConcatProperties DEF TypeInv
      <4> QED BY <1>0, <3>2, <4>1, <4>2, <4>3
    <3> QED BY <1>3, <3>1, <3>2 DEF end_of_options
  <2>3. Len(argv') = Len(options') + Len(arguments')
    BY <2>1, <2>2, ConcatProperties
  <2>4. Len(rest') = 0 /\ Len(options') \in Nat /\ Len(arguments') \in Nat
    BY <1>0, <2>2, LenProperties
  <2> QED BY <1>0, <2>1, <2>2, <2>3, <2>4 DEF LengthInv
<1>4. CASE files_applied
  <2>1. /\ argv' = argv /\ rest' = argv /\ options' = <<>> /\ arguments' = <<>>
        /\ command_line' = command_line
    BY <1>4 DEF files_applied, SecondPass, Scan
  <2>2. Len(options') = 0 /\ Len(arguments') = 0 /\ Len(argv) \in Nat
    BY <1>0, <2>1, LenProperties DEF TypeInv
  <2> QED BY <2>1, <2>2 DEF LengthInv
<1>5. CASE \/ print_and_exit \/ help_and_exit \/ destroy_configuration \/ wrong_arguments
           \/ first_pass_decoded \/ second_pass_decoded \/ apply_configuration_files
           \/ UNCHANGED vars
  <2>1. UNCHANGED <<command_line, argv, rest, options, arguments>>
    BY <1>5 DEF print_and_exit, help_and_exit, destroy_configuration, wrong_arguments,
                first_pass_decoded, second_pass_decoded, apply_configuration_files,
                apply_one_configuration_file, malformed_file, file_without_group, Exit, vars, scan
  <2> QED BY <2>1 DEF LengthInv
<1> QED BY <1>1, <1>2, <1>3, <1>4, <1>5 DEF Next, decode_commandline

\* What stands behind an option, or a null pointer.
LEMMA ArgvOptindTyped ==
  ASSUME TypeInv'
  PROVE  ArgvOptind \in Values
<1>1. CASE rest' = <<>>
  BY <1>1 DEF ArgvOptind, Values
<1>2. CASE rest' # <<>>
  <2>1. rest' \in Seq(Words)
    BY DEF TypeInv
  <2>2. Head(rest') \in Words
    BY <1>2, <2>1, HeadTailProperties, EmptySeq
  <2> QED BY <1>2, <2>2 DEF ArgvOptind, Values
<1> QED BY <1>1, <1>2

\* Every step leaves a configuration with values of the types of its fields.
LEMMA ConfigurationStep ==
  ASSUME TypeInv, TypedConfiguration(configuration), [Next]_vars
  PROVE  TypedConfiguration(configuration')
<1>0. TypeInv'
  BY TypeStep
<1>1. CASE decode_flag
  <2>1. FieldOf[Head(rest)] \in BooleanFields
    BY <1>1 DEF decode_flag, NextIs, Flags, FieldOf, BooleanFields
  <2> QED BY <1>1, <2>1, TypedField DEF decode_flag
<1>2. CASE decode_task
  <2>1. configuration' = [configuration EXCEPT !.tasks = Append(configuration.tasks, ArgvOptind)]
    BY <1>2 DEF decode_task
  <2>2. Append(configuration.tasks, ArgvOptind) \in Seq(Values)
    BY <1>0, ArgvOptindTyped, AppendProperties DEF TypedConfiguration
  <2> QED BY <2>1, <2>2, TypedField
<1>3. CASE decode_config
  <2>1. configuration' = [configuration EXCEPT !.configuration_file = ArgvOptind]
    BY <1>3 DEF decode_config
  <2> QED BY <1>0, <2>1, ArgvOptindTyped, TypedField DEF ValueFields
<1>4. CASE first_pass_decoded
  BY <1>4, TypedReset DEF first_pass_decoded
<1>5. CASE second_pass_decoded
  <2>1. CASE Len(arguments) \notin {1, 2}
    BY <1>5, <2>1 DEF second_pass_decoded
  <2>2. CASE Len(arguments) = 2
    <3> PICK k \in Nat : k = Len(arguments) /\ k = 2
      BY <2>2
    <3>1. arguments[1] \in Values /\ arguments[2] \in Values
      <4>1. 1 \in 1 .. k /\ 2 \in 1 .. k
        OBVIOUS
      <4> QED BY <4>1, ElementOfSeq DEF TypeInv, Values
    <3> DEFINE c == [configuration EXCEPT !.listname = arguments[1]]
               d == [c EXCEPT !.ical_filename = arguments[2]]
    <3>2. TypedConfiguration(c)
      BY <3>1, TypedField DEF ValueFields
    <3>3. configuration' = d
      BY <1>5, <2>2 DEF second_pass_decoded, NamedArguments
    <3> HIDE DEF c
    <3>4. TypedConfiguration(d)
      BY <3>1, <3>2, TypedField DEF ValueFields
    <3> QED BY <3>3, <3>4
  <2>3. CASE Len(arguments) = 1
    <3> PICK k \in Nat : k = Len(arguments) /\ k = 1
      BY <2>3
    <3>1. arguments[1] \in Values
      <4>1. 1 \in 1 .. k
        OBVIOUS
      <4> QED BY <4>1, ElementOfSeq DEF TypeInv, Values
    <3>2. configuration' = [configuration EXCEPT !.ical_filename = arguments[1]]
      BY <1>5, <2>3 DEF second_pass_decoded, NamedArguments
    <3> QED BY <3>1, <3>2, TypedField DEF ValueFields
  <2> QED BY <2>1, <2>2, <2>3
<1>6. CASE apply_one_configuration_file
  BY <1>6, TypedFile DEF apply_one_configuration_file
<1>7. CASE files_applied
  <2>1. PICK variable \in Credentials :
          configuration' = set_environment_configuration(configuration, variable)
    BY <1>7 DEF files_applied, Environment
  <2>2. ASSUME NEW v \in {NULL, "environment"},
               configuration' = [configuration EXCEPT !.gmail_username = v, !.gmail_password = v]
        PROVE  TypedConfiguration(configuration')
    <3> DEFINE c == [configuration EXCEPT !.gmail_username = v]
               d == [c EXCEPT !.gmail_password = v]
    <3>1. v \in Values
      BY DEF Values
    <3>2. TypedConfiguration(c)
      BY <3>1, TypedField DEF ValueFields
    <3>3. configuration' = d
      BY <2>2
    <3> HIDE DEF c
    <3>4. TypedConfiguration(d)
      BY <3>1, <3>2, TypedField DEF ValueFields
    <3> QED BY <3>3, <3>4
  <2>3. CASE variable = "unset"
    BY <2>1, <2>3 DEF set_environment_configuration
  <2>4. CASE variable = "plain"
    BY <2>1, <2>2, <2>4 DEF set_environment_configuration
  <2>5. CASE variable = "spaced"
    BY <2>1, <2>2, <2>5 DEF set_environment_configuration
  <2> QED BY <2>3, <2>4, <2>5 DEF Credentials
<1>8. CASE \/ decode_error \/ print_and_exit \/ skip_argument \/ end_of_options \/ help_and_exit
           \/ destroy_configuration \/ wrong_arguments \/ malformed_file \/ file_without_group
           \/ UNCHANGED vars
  BY <1>8 DEF decode_error, print_and_exit, skip_argument, end_of_options, help_and_exit,
              destroy_configuration, wrong_arguments, malformed_file, file_without_group, Exit, vars
<1> QED BY <1>1, <1>2, <1>3, <1>4, <1>5, <1>6, <1>7, <1>8
        DEF Next, decode_commandline, apply_configuration_files

LEMMA TypedInFull == Spec => [](LengthInv /\ TypedConfiguration(configuration))
<1>1. Init => TypedConfiguration(configuration)
  BY TypedReset DEF Init
<1>2. TypeInv /\ TypedConfiguration(configuration) /\ [Next]_vars => TypedConfiguration(configuration)'
  BY ConfigurationStep
<1> QED BY <1>1, <1>2, LengthInit, LengthStep, Typed, PTL DEF Spec

\* The fields of the configuration hold what their types allow, and the scanned
\* words, the arguments and the words still to scan are always those of the
\* command line: getopt_long loses none and doubles none.
THEOREM TypeCorrect == Spec => []TypeOK
<1>1. TypeInv /\ LengthInv /\ TypedConfiguration(configuration) => TypeOK
  BY DEF TypeInv, LengthInv, TypedConfiguration, TypeOK, Places, BooleanFields, ValueFields
<1> QED BY <1>1, Typed, TypedInFull, PTL

-----------------------------------------------------------------------------
(* Where the credentials come from. *)

\* When the environment has been read, it says what the credentials are, and
\* nothing after it changes them.
SourceInv ==
  /\ pass = 2 => /\ credentials \in Credentials
                 /\ credentials = "plain" => /\ configuration.gmail_username = NULL
                                             /\ configuration.gmail_password = NULL
                 /\ credentials = "spaced" => /\ configuration.gmail_username = "environment"
                                              /\ configuration.gmail_password = "environment"
                 /\ success => credentials = "spaced"
                 /\ pc # "files"
  /\ pass = 1 /\ pc = "returned" => ~ success
  /\ pass = 1 /\ pc \in {"options", "arguments"} => ~ success

CredentialFields == {"gmail_username", "gmail_password"}
ClientFields     == {"client_id", "client_password"}

\* Decoding the command line leaves the credentials and the client alone.
LEMMA DecodingKeepsFields ==
  ASSUME TypeInv, decode_commandline, ~ first_pass_decoded
  PROVE  \A f \in CredentialFields \cup ClientFields : configuration'[f] = configuration[f]
<1>0. CredentialFields \cup ClientFields \subseteq DOMAIN configuration
  BY DEF TypeInv, CredentialFields, ClientFields, Fields, reset_configuration
<1>1. CASE decode_flag
  <2>1. FieldOf[Head(rest)] \in {"verbose", "force_download", "ipv4_only"}
    BY <1>1 DEF decode_flag, NextIs, Flags, FieldOf
  <2>2. configuration' = [configuration EXCEPT ![FieldOf[Head(rest)]] = TRUE]
    BY <1>1 DEF decode_flag
  <2> QED BY <1>0, <2>1, <2>2 DEF CredentialFields, ClientFields
<1>2. CASE decode_task \/ decode_config
  BY <1>0, <1>2 DEF decode_task, decode_config, CredentialFields, ClientFields
<1>3. CASE second_pass_decoded
  BY <1>0, <1>3 DEF second_pass_decoded, NamedArguments, CredentialFields, ClientFields
<1>4. CASE \/ decode_error \/ print_and_exit \/ skip_argument \/ end_of_options
           \/ help_and_exit \/ destroy_configuration \/ wrong_arguments
  BY <1>4 DEF decode_error, print_and_exit, skip_argument, end_of_options, help_and_exit,
              destroy_configuration, wrong_arguments, Exit
<1> QED BY <1>1, <1>2, <1>3, <1>4 DEF decode_commandline

LEMMA SourceStep == TypeInv /\ SourceInv /\ [Next]_vars => SourceInv'
<1> SUFFICES ASSUME TypeInv, SourceInv, [Next]_vars PROVE SourceInv'
  OBVIOUS
<1>1. CASE decode_commandline /\ ~ first_pass_decoded
  <2>1. /\ configuration'.gmail_username = configuration.gmail_username
        /\ configuration'.gmail_password = configuration.gmail_password
    BY <1>1, DecodingKeepsFields DEF CredentialFields
  <2>2. /\ pc \in {"options", "arguments"} /\ pc' # "files"
        /\ pc' \in {"options", "arguments"} => pass' = pass
        /\ UNCHANGED <<pass, credentials, success>>
    BY <1>1 DEF decode_commandline, decode_flag, decode_task, decode_config, decode_error,
                print_and_exit, skip_argument, end_of_options, help_and_exit,
                destroy_configuration, second_pass_decoded, wrong_arguments, Exit, NextIs,
                TakeOption
  <2> QED BY <2>1, <2>2 DEF SourceInv, TypeInv
<1>2. CASE first_pass_decoded
  BY <1>2 DEF first_pass_decoded, SourceInv
<1>3. CASE apply_configuration_files
  <2>1. pass = 1
    BY <1>3 DEF apply_configuration_files, apply_one_configuration_file, malformed_file,
                file_without_group, Read, SourceInv, TypeInv
  <2> QED BY <1>3, <2>1 DEF apply_configuration_files, apply_one_configuration_file,
                            malformed_file, file_without_group, SourceInv, Read
<1>4. CASE files_applied
  <2>1. PICK variable \in Credentials :
          /\ credentials' = variable
          /\ configuration' = set_environment_configuration(configuration, variable)
          /\ success' = (variable \in {"spaced"})
    BY <1>4 DEF files_applied, Environment
  <2>2. variable = "plain" => /\ configuration'.gmail_username = NULL
                              /\ configuration'.gmail_password = NULL
    BY <2>1 DEF set_environment_configuration, TypeInv, Fields, reset_configuration
  <2>3. variable = "spaced" => /\ configuration'.gmail_username = "environment"
                               /\ configuration'.gmail_password = "environment"
    BY <2>1 DEF set_environment_configuration, TypeInv, Fields, reset_configuration
  <2>4. pass' = 2 /\ pc' = "options"
    BY <1>4 DEF files_applied, SecondPass
  <2>5. credentials' = variable /\ (success' => variable = "spaced")
    BY <2>1
  <2> QED BY <2>2, <2>3, <2>4, <2>5 DEF SourceInv
<1>5. CASE UNCHANGED vars
  BY <1>5 DEF vars, SourceInv
<1> QED BY <1>1, <1>2, <1>3, <1>4, <1>5 DEF Next

\* Once the environment is set, the user name and the password are both its own
\* or both missing, whatever the files and the command line say.
THEOREM OneSource == Spec => []CredentialsOfOneSource
<1>1. Init => SourceInv
  BY DEF Init, SourceInv
<1>2. Spec => []SourceInv
  BY <1>1, SourceStep, Typed, PTL DEF Spec
<1>3. SourceInv => CredentialsOfOneSource
  BY DEF SourceInv, CredentialsOfOneSource, Configured, Credentials
<1> QED BY <1>2, <1>3, PTL

-----------------------------------------------------------------------------
(* The least and the greatest of some places.                                *)

LEMMA LeastPlace ==
  ASSUME NEW S, S \subseteq Nat, S # {}
  PROVE  Least(S) \in S /\ \A j \in S : Least(S) <= j
<1> DEFINE R == OpToRel(<, Nat)
<1>1. IsWellFoundedOn(R, Nat)
  BY NatLessThanWellFounded
<1>2. PICK x \in S : \A y \in S : ~ (<<y, x>> \in R)
  <2> HIDE DEF R
  <2> QED BY <1>1, WFMin
<1>3. ASSUME NEW p \in Nat \X Nat, p[1] < p[2]
      PROVE  p \in R
  BY <1>3, Zenon DEF OpToRel
<1> HIDE DEF R
<1>4. \A y \in S : x <= y
  <2> SUFFICES ASSUME NEW y \in S, ~ (x <= y) PROVE FALSE
    OBVIOUS
  <2>1. <<y, x>> \in Nat \X Nat /\ <<y, x>>[1] < <<y, x>>[2]
    OBVIOUS
  <2>2. <<y, x>> \in R
    BY <2>1, <1>3
  <2> QED BY <2>2, <1>2
<1> QED BY <1>4 DEF Least

LEMMA GreatestPlace ==
  ASSUME NEW n \in Nat, NEW S, S \subseteq 0 .. n, S # {}
  PROVE  Greatest(S) \in S /\ \A j \in S : Greatest(S) >= j
<1> DEFINE T == {n - i : i \in S}
<1>1. T \subseteq Nat /\ T # {}
  OBVIOUS
<1>2. PICK i \in S : \A j \in T : n - i <= j
  BY <1>1, LeastPlace
<1>3. \A j \in S : i >= j
  BY <1>2
<1> QED BY <1>3 DEF Greatest

\* The greatest place is the one that is.
LEMMA GreatestIs ==
  ASSUME NEW n \in Nat, NEW S, S \subseteq 0 .. n, NEW m \in S, \A j \in S : m >= j
  PROVE  Greatest(S) = m
<1>1. S \subseteq Nat /\ m \in Nat
  OBVIOUS
<1>2. Greatest(S) \in S /\ \A j \in S : Greatest(S) >= j
  BY GreatestPlace
<1> PICK g \in Nat : g = Greatest(S)
  BY <1>1, <1>2
<1>3. g >= m /\ m >= g
  BY <1>2
<1> QED BY <1>1, <1>3

LEMMA LeastIs ==
  ASSUME NEW S, S \subseteq Nat, NEW m \in S, \A j \in S : m <= j
  PROVE  Least(S) = m
<1>1. m \in Nat
  OBVIOUS
<1>2. Least(S) \in S /\ \A j \in S : Least(S) <= j
  BY LeastPlace
<1> PICK g \in Nat : g = Least(S)
  BY <1>2
<1>3. g >= m /\ m >= g
  BY <1>2
<1> QED BY <1>1, <1>3

-----------------------------------------------------------------------------
(* The settings of the files.                                                *)

SettersOf(fs, f) == {i \in DOMAIN fs : f \in DOMAIN fs[i].settings}
LastSetting(fs, f) == IF SettersOf(fs, f) = {} THEN reset_configuration[f]
                      ELSE fs[Greatest(SettersOf(fs, f))].settings[f]

\* One more file overrides what it sets and nothing else.
LEMMA OneMoreFile ==
  ASSUME NEW fs \in Seq(Files), NEW file \in Files, NEW f
  PROVE  LastSetting(Append(fs, file), f) = IF f \in DOMAIN file.settings
                                            THEN file.settings[f] ELSE LastSetting(fs, f)
<1> DEFINE gs == Append(fs, file)
<1> PICK n \in Nat : n = Len(fs)
  BY LenProperties
<1>1. /\ gs \in Seq(Files) /\ Len(gs) = n + 1
      /\ \A i \in 1 .. n : gs[i] = fs[i]
      /\ gs[n + 1] = file
  BY AppendProperties
<1>2. DOMAIN fs = 1 .. n /\ DOMAIN gs = 1 .. n + 1
  BY <1>1, LenProperties
<1> HIDE DEF gs
<1>3. CASE f \in DOMAIN file.settings
  <2>1. n + 1 \in SettersOf(gs, f) /\ SettersOf(gs, f) \subseteq 0 .. n + 1
        /\ \A j \in SettersOf(gs, f) : n + 1 >= j
    BY <1>1, <1>2, <1>3 DEF SettersOf
  <2>2. Greatest(SettersOf(gs, f)) = n + 1
    BY <2>1, GreatestIs
  <2>3. LastSetting(gs, f) = file.settings[f]
    BY <1>1, <2>1, <2>2 DEF LastSetting
  <2> QED BY <1>3, <2>3 DEF gs
<1>4. CASE f \notin DOMAIN file.settings
  <2>1. SettersOf(gs, f) = SettersOf(fs, f)
    BY <1>1, <1>2, <1>4 DEF SettersOf
  <2>2. LastSetting(gs, f) = LastSetting(fs, f)
    <3>1. CASE SettersOf(fs, f) = {}
      BY <2>1, <3>1 DEF LastSetting
    <3>2. CASE SettersOf(fs, f) # {}
      <4>1. SettersOf(fs, f) \subseteq 0 .. n /\ SettersOf(fs, f) \subseteq 1 .. n
        BY <1>2 DEF SettersOf
      <4>2. Greatest(SettersOf(fs, f)) \in 1 .. n
        BY <3>2, <4>1, GreatestPlace
      <4> QED BY <1>1, <2>1, <3>2, <4>2 DEF LastSetting
    <3> QED BY <3>1, <3>2
  <2> QED BY <1>4, <2>2 DEF gs
<1> QED BY <1>3, <1>4

LEMMA FromFilesIs == \A f : FromFiles(f) = LastSetting(files, f)
  BY DEF FromFiles, LastSetting, SettersOf

\* While the files are read, their settings are the configuration; the second
\* pass and the environment leave those of the client alone, and those of the
\* user where the environment variable is not set.
FilesInv ==
  /\ files \in Seq(Files)
  /\ pass = 1 /\ pc \in {"options", "arguments"} => files = <<>>
  /\ pc = "files" => \A f \in FileFields : configuration[f] = LastSetting(files, f)
  /\ pass = 2 => \A f \in ClientFields : configuration[f] = LastSetting(files, f)
  /\ pass = 2 /\ credentials = "unset" =>
       \A f \in CredentialFields : configuration[f] = LastSetting(files, f)

LEMMA FilesStep == TypeInv /\ SourceInv /\ FilesInv /\ [Next]_vars => FilesInv'
<1> SUFFICES ASSUME TypeInv, SourceInv, FilesInv, [Next]_vars PROVE FilesInv'
  OBVIOUS
<1>1. CASE decode_commandline /\ ~ first_pass_decoded
  <2>1. \A f \in CredentialFields \cup ClientFields : configuration'[f] = configuration[f]
    BY <1>1, DecodingKeepsFields
  <2>2. /\ pc \in {"options", "arguments"} /\ pc' # "files"
        /\ UNCHANGED <<pass, credentials, files>>
    BY <1>1 DEF decode_commandline, decode_flag, decode_task, decode_config, decode_error,
                print_and_exit, skip_argument, end_of_options, help_and_exit,
                destroy_configuration, second_pass_decoded, wrong_arguments, Exit, NextIs,
                TakeOption
  <2> QED BY <2>1, <2>2 DEF FilesInv
<1>2. CASE first_pass_decoded
  <2>1. /\ pc = "arguments" /\ pass = 1 /\ pass' = 1 /\ pc' = "files" /\ files' = files
        /\ configuration' = reset_configuration
    BY <1>2 DEF first_pass_decoded
  <2>2. files' = <<>> /\ files' \in Seq(Files)
    BY <2>1 DEF FilesInv
  <2>3. \A f : SettersOf(<<>>, f) = {}
    BY DEF SettersOf
  <2>4. \A f : LastSetting(<<>>, f) = reset_configuration[f]
    BY <2>3 DEF LastSetting
  <2> QED BY <2>1, <2>2, <2>4 DEF FilesInv
<1>3. CASE apply_one_configuration_file
  <2>1. PICK file \in Files :
          /\ files' = Append(files, file)
          /\ pc = "files"
          /\ configuration' = [f \in DOMAIN configuration |->
                                 IF f \in DOMAIN file.settings
                                   THEN file.settings[f] ELSE configuration[f]]
    BY <1>3 DEF apply_one_configuration_file, Read
  <2>2. pc' = "files" /\ pass' = pass /\ pass = 1
    BY <1>3, <2>1 DEF apply_one_configuration_file, SourceInv, TypeInv
  <2>3. files' \in Seq(Files)
    BY <2>1, AppendProperties DEF FilesInv
  <2>4. FileFields \subseteq DOMAIN configuration
    BY DEF TypeInv, Fields, reset_configuration, FileFields
  <2>5. \A f \in FileFields : configuration'[f] = LastSetting(files', f)
    BY <2>1, <2>4, OneMoreFile DEF FilesInv
  <2> QED BY <2>2, <2>3, <2>5 DEF FilesInv
<1>4. CASE malformed_file \/ file_without_group
  <2>1. PICK file \in Files : files' = Append(files, file) /\ pc = "files"
    BY <1>4 DEF malformed_file, file_without_group, Read
  <2>2. pc' \in {"returned", "crash"} /\ pass' = 1
    BY <1>4, <2>1 DEF malformed_file, file_without_group, SourceInv, TypeInv
  <2>3. files' \in Seq(Files)
    BY <2>1, AppendProperties DEF FilesInv
  <2> QED BY <2>2, <2>3 DEF FilesInv
<1>5. CASE files_applied
  <2>1. PICK variable \in Credentials :
          /\ credentials' = variable
          /\ configuration' = set_environment_configuration(configuration, variable)
    BY <1>5 DEF files_applied, Environment
  <2>2. pc = "files" /\ pc' = "options" /\ pass' = 2 /\ files' = files
    BY <1>5 DEF files_applied, SecondPass
  <2>3. ClientFields \cup CredentialFields \subseteq FileFields
        /\ ClientFields \cup CredentialFields \subseteq DOMAIN configuration
    BY DEF ClientFields, CredentialFields, FileFields, TypeInv, Fields, reset_configuration
  <2>4. \A f \in ClientFields : configuration'[f] = configuration[f]
    BY <2>1, <2>3 DEF set_environment_configuration, ClientFields, Credentials
  <2>5. variable = "unset" => configuration' = configuration
    BY <2>1 DEF set_environment_configuration
  <2> QED BY <2>1, <2>2, <2>3, <2>4, <2>5 DEF FilesInv
<1>6. CASE UNCHANGED vars
  BY <1>6 DEF vars, FilesInv
<1> QED BY <1>1, <1>2, <1>3, <1>4, <1>5, <1>6 DEF Next, apply_configuration_files

LEMMA FilesSound == Spec => [](SourceInv /\ FilesInv)
<1>1. Init => SourceInv
  BY DEF Init, SourceInv
<1>2. Init => FilesInv
  <2> SUFFICES ASSUME Init PROVE FilesInv
    OBVIOUS
  <2>1. files = <<>> /\ pc = "options" /\ pass = 1
    BY DEF Init
  <2>2. <<>> \in Seq(Files)
    BY EmptySeq
  <2> QED BY <2>1, <2>2 DEF FilesInv
<1> QED BY <1>1, <1>2, SourceStep, FilesStep, Typed, PTL DEF Spec

\* In the first pass the settings of the files are the configuration, also when
\* it ends early: by wrong arguments or by a file that cannot be loaded.
EarlyInv ==
  pass = 1 => /\ credentials = NULL
              /\ \A f \in CredentialFields \cup ClientFields :
                   configuration[f] = LastSetting(files, f)

LEMMA EarlyStep == TypeInv /\ FilesInv /\ EarlyInv /\ [Next]_vars => EarlyInv'
<1> SUFFICES ASSUME TypeInv, FilesInv, EarlyInv, [Next]_vars, pass' = 1 PROVE EarlyInv'
  BY DEF EarlyInv
<1> DEFINE Set == CredentialFields \cup ClientFields
<1>0. Set \subseteq DOMAIN configuration
  BY DEF TypeInv, CredentialFields, ClientFields, Fields, reset_configuration
<1>1. CASE decode_commandline /\ ~ first_pass_decoded
  <2>1. \A f \in Set : configuration'[f] = configuration[f]
    BY <1>1, DecodingKeepsFields
  <2>2. UNCHANGED <<pass, credentials, files>>
    BY <1>1 DEF decode_commandline, decode_flag, decode_task, decode_config, decode_error,
                print_and_exit, skip_argument, end_of_options, help_and_exit,
                destroy_configuration, second_pass_decoded, wrong_arguments, Exit,
                TakeOption
  <2> QED BY <2>1, <2>2 DEF EarlyInv
<1>2. CASE first_pass_decoded
  <2>1. /\ pc = "arguments" /\ pass = 1 /\ UNCHANGED <<files, credentials>>
        /\ configuration' = reset_configuration
    BY <1>2 DEF first_pass_decoded
  <2>2. files' = <<>>
    BY <2>1 DEF FilesInv
  <2>3. \A f : SettersOf(<<>>, f) = {}
    BY DEF SettersOf
  <2>4. \A f : LastSetting(<<>>, f) = reset_configuration[f]
    BY <2>3 DEF LastSetting
  <2> QED BY <2>1, <2>2, <2>4 DEF EarlyInv
<1>3. CASE apply_one_configuration_file
  <2>1. PICK file \in Files :
          /\ files' = Append(files, file)
          /\ configuration' = [f \in DOMAIN configuration |->
                                 IF f \in DOMAIN file.settings
                                   THEN file.settings[f] ELSE configuration[f]]
          /\ UNCHANGED <<pass, credentials>>
    BY <1>3 DEF apply_one_configuration_file, Read
  <2>2. \A f \in Set : configuration'[f] = LastSetting(files', f)
    BY <1>0, <2>1, OneMoreFile DEF EarlyInv, FilesInv
  <2> QED BY <2>1, <2>2 DEF EarlyInv
<1>4. CASE malformed_file \/ file_without_group
  <2>1. PICK file \in Files :
          /\ files' = Append(files, file) /\ file.kind # "settings"
          /\ UNCHANGED <<pass, credentials, configuration>>
    BY <1>4 DEF malformed_file, file_without_group, Read
  <2>2. DOMAIN file.settings = {}
    BY <2>1, FilesAssumption
  <2>3. \A f : LastSetting(files', f) = LastSetting(files, f)
    BY <2>1, <2>2, OneMoreFile DEF FilesInv
  <2> QED BY <2>1, <2>3 DEF EarlyInv
<1>5. CASE files_applied
  BY <1>5 DEF files_applied, SecondPass
<1>6. CASE UNCHANGED vars
  BY <1>6 DEF vars, EarlyInv
<1> QED BY <1>1, <1>2, <1>3, <1>4, <1>5, <1>6 DEF Next, apply_configuration_files

\* At any time the client is the one of the files read so far, and so are the
\* credentials unless the environment has been read and is set.
ProvenanceInv ==
  /\ \A f \in ClientFields : configuration[f] = FromFiles(f)
  /\ \A f \in CredentialFields :
       /\ credentials \in {NULL, "unset"} => configuration[f] = FromFiles(f)
       /\ credentials = "plain"  => configuration[f] = NULL
       /\ credentials = "spaced" => configuration[f] = "environment"
  /\ credentials \in {NULL} \cup Credentials

\* Wherever initialize_configuration stops, main gets the settings the user
\* made: those of the environment or else of the last file that has them.
THEOREM Provenance == Spec => []ProvenanceInv
<1>1. Init => EarlyInv
  <2>1. \A f : SettersOf(<<>>, f) = {}
    BY DEF SettersOf
  <2>2. \A f : LastSetting(<<>>, f) = reset_configuration[f]
    BY <2>1 DEF LastSetting
  <2> QED BY <2>2 DEF Init, EarlyInv
<1>2. TypeInv /\ SourceInv /\ FilesInv /\ EarlyInv => ProvenanceInv
  <2> SUFFICES ASSUME TypeInv, SourceInv, FilesInv, EarlyInv PROVE ProvenanceInv
    OBVIOUS
  <2>1. CASE pass = 1
    <3>1. credentials = NULL /\ NULL \notin Credentials
      BY <2>1, NullAssumption DEF EarlyInv
    <3> QED BY <2>1, <3>1, FromFilesIs DEF EarlyInv, ProvenanceInv, Credentials
  <2>2. CASE pass = 2
    <3>1. credentials \in Credentials /\ NULL \notin Credentials
      BY <2>2, NullAssumption DEF SourceInv
    <3> QED BY <2>2, <3>1, FromFilesIs
            DEF SourceInv, FilesInv, ProvenanceInv, CredentialFields
  <2> QED BY <2>1, <2>2 DEF TypeInv
<1> QED BY <1>1, <1>2, EarlyStep, FilesSound, Typed, PTL DEF Spec

-----------------------------------------------------------------------------
(* What the words of the command line are, one after the other.              *)

OptionWords  == Flags \cup TaskWords \cup FileWords
Special      == Options \cup {EndOfOptions}
WordWidth(w) == IF w \in Separate THEN 2 ELSE 1

\* The kinds of words are apart.
LEMMA KindsOfWords ==
  /\ OptionWords \subseteq Options /\ Messages \subseteq Options
  /\ Unknown \subseteq Options /\ Separate \subseteq OptionWords
  /\ EndOfOptions \notin Options
  /\ OptionWords \cap (Messages \cup Unknown) = {}
  BY DEF OptionWords, Options, Flags, FieldOf, Messages, TaskWords, FileWords,
         Separate, Unknown, EndOfOptions

\* The places A of the arguments of options among the words c: a word is one
\* when the word before it asks for it and is none itself.
ArgumentsOf(c, A) ==
  /\ 1 \notin A
  /\ \A i \in Nat \ {0} : i + 1 \in A <=> c[i] \in Separate /\ i \notin A

ArgumentPlaces == {i \in Nat : IsArgument[i]}

\* IsArgument is well defined: a word is an argument when the words before it
\* that ask for one, up to the last that does not, are an odd number.
LEMMA ArgumentPlacesAre == ArgumentsOf(command_line, ArgumentPlaces)
<1> DEFINE c == command_line
           Z(i) == {j \in 0 .. i - 1 : j = 0 \/ c[j] \notin Separate}
           g == [i \in Nat |-> i > 1 /\ (i - 1 - Greatest(Z(i))) % 2 = 1]
           e(f, i) == i > 1 /\ c[i - 1] \in Separate /\ ~ f[i - 1]
<1>1. ASSUME NEW i \in Nat, i > 1, c[i - 1] \notin Separate
      PROVE  Greatest(Z(i)) = i - 1
  <2>1. i - 1 \in Z(i) /\ Z(i) \subseteq 0 .. i - 1 /\ i - 1 \in Nat
    BY <1>1
  <2> HIDE DEF Z
  <2> QED BY <2>1, GreatestIs
<1>2. ASSUME NEW i \in Nat, i > 1
      PROVE  Greatest(Z(i)) \in 0 .. i - 1
  <2>1. 0 \in Z(i) /\ Z(i) \subseteq 0 .. i - 1 /\ i - 1 \in Nat
    BY <1>2
  <2> HIDE DEF Z
  <2> QED BY <2>1, GreatestPlace
<1>3. ASSUME NEW i \in Nat, i > 1, c[i - 1] \in Separate
      PROVE  Z(i) = Z(i - 1)
  BY <1>3
<1>4. Greatest(Z(1)) = 0
  <2>1. 0 \in Z(1) /\ Z(1) \subseteq 0 .. 0
    OBVIOUS
  <2> HIDE DEF Z
  <2> QED BY <2>1, GreatestIs
<1> HIDE DEF Z
<1>5. ASSUME NEW i \in Nat
      PROVE  g[i] = e(g, i)
  <2>1. CASE ~ (i > 1)
    BY <2>1
  <2>2. CASE i > 1 /\ c[i - 1] \notin Separate
    <3>1. (i - 1 - Greatest(Z(i))) = 0
      BY <1>1, <2>2
    <3> QED BY <2>2, <3>1
  <2>3. CASE i > 1 /\ c[i - 1] \in Separate
    <3>1. i - 1 \in Nat /\ Z(i) = Z(i - 1)
      BY <1>3, <2>3
    <3> PICK z \in 0 .. i - 1 : z = Greatest(Z(i))
      BY <1>2, <2>3
    <3>2. CASE i = 2
      <4>1. z = 0
        BY <1>4, <3>1, <3>2
      <4>2. i - 1 - z = 1 /\ 1 % 2 = 1 /\ i - 1 = 1
        BY <3>2, <4>1
      <4>3. g[i] = ((i - 1 - z) % 2 = 1)
        BY <2>3
      <4>4. 1 \in Nat /\ ~ (1 > 1)
        OBVIOUS
      <4>5. g[1] = FALSE
        BY <4>4
      <4> QED BY <2>3, <4>2, <4>3, <4>5
    <3>3. CASE i > 2
      <4>1. g[i - 1] = ((i - 1 - 1 - z) % 2 = 1)
        BY <3>1, <3>3
      <4>2. g[i] = ((i - 1 - z) % 2 = 1)
        BY <2>3
      <4>3. z \in Nat /\ z <= i - 2
        <5>1. z \in 0 .. (i - 1) - 1
          BY <1>2, <3>1, <3>3
        <5> QED BY <5>1
      <4> PICK x \in Nat : x = i - 1 - 1 - z
        BY <4>3
      <4>4. i - 1 - z = x + 1 /\ ((x + 1) % 2 = 1 <=> ~ (x % 2 = 1))
        OBVIOUS
      <4> QED BY <2>3, <4>1, <4>2, <4>4
    <3> QED BY <2>3, <3>2, <3>3
  <2> QED BY <2>1, <2>2, <2>3
<1> HIDE DEF g
<1>6. \E f : f = [i \in Nat |-> e(f, i)]
  <2>1. g = [i \in Nat |-> g[i]]
    BY DEF g
  <2>2. g = [i \in Nat |-> e(g, i)]
    BY <1>5, <2>1
  <2> QED BY <2>2
<1>7. IsArgument = [i \in Nat |-> e(IsArgument, i)]
  BY <1>6 DEF IsArgument
<1>8. \A i \in Nat : IsArgument[i] = e(IsArgument, i)
  BY <1>7
<1>9. 1 \notin ArgumentPlaces
  <2>1. 1 \in Nat /\ ~ (1 > 1)
    OBVIOUS
  <2>2. ~ IsArgument[1]
    BY <1>8, <2>1
  <2> QED BY <2>2 DEF ArgumentPlaces
<1>10. ASSUME NEW i \in Nat \ {0}
       PROVE  i + 1 \in ArgumentPlaces <=> c[i] \in Separate /\ i \notin ArgumentPlaces
  <2>1. i + 1 \in Nat /\ i + 1 > 1 /\ (i + 1) - 1 = i
    BY <1>10
  <2>2. IsArgument[i + 1] = (c[i] \in Separate /\ ~ IsArgument[i])
    BY <1>8, <2>1
  <2> QED BY <2>1, <2>2 DEF ArgumentPlaces
<1> QED BY <1>9, <1>10 DEF ArgumentsOf

\* The options with a word of W, and the words that are no options, among the
\* first d words.
GivenUpTo(c, A, d, W) == {i \in 1 .. d : c[i] \in W /\ i \notin A}
PlainUpTo(c, A, d)    == {i \in 1 .. d : c[i] \notin Options /\ i \notin A}

\* One more word, with its argument.
LEMMA OneMoreWord ==
  ASSUME NEW c, NEW A, ArgumentsOf(c, A), NEW d \in Nat, d + 1 \notin A,
         NEW w, w = WordWidth(c[d + 1])
  PROVE  /\ d + w + 1 \notin A
         /\ \A i \in d + 1 .. d + w : i = d + 1 \/ i \in A
         /\ \A W : GivenUpTo(c, A, d + w, W) =
                     GivenUpTo(c, A, d, W) \cup (IF c[d + 1] \in W THEN {d + 1} ELSE {})
         /\ PlainUpTo(c, A, d + w) =
              PlainUpTo(c, A, d) \cup (IF c[d + 1] \notin Options THEN {d + 1} ELSE {})
<1>1. d + 1 \in Nat \ {0} /\ d + 2 \in Nat \ {0} /\ (d + 1) + 1 = d + 2 /\ (d + 2) + 1 = d + 3
  OBVIOUS
<1>2. d + 2 \in A <=> c[d + 1] \in Separate
  BY <1>1 DEF ArgumentsOf
<1>3. d + 2 \in A => d + 3 \notin A
  BY <1>1 DEF ArgumentsOf
<1>4. \/ w = 1 /\ d + 2 \notin A
      \/ w = 2 /\ d + 2 \in A /\ d + 3 \notin A
  BY <1>2, <1>3 DEF WordWidth
<1>5. w \in {1, 2} /\ d + w + 1 \notin A
  BY <1>4
<1>6. \A i \in d + 1 .. d + w : i = d + 1 \/ i \in A
  BY <1>4
<1>7. \A i \in Nat : i \in 1 .. d + w <=> i \in 1 .. d \/ i \in d + 1 .. d + w
  BY <1>5
<1>8. d + 1 \in d + 1 .. d + w /\ 1 .. d \subseteq Nat /\ 1 .. d + w \subseteq Nat
  BY <1>5
<1>9. ASSUME NEW W
      PROVE  GivenUpTo(c, A, d + w, W) =
               GivenUpTo(c, A, d, W) \cup (IF c[d + 1] \in W THEN {d + 1} ELSE {})
  BY <1>6, <1>7, <1>8 DEF GivenUpTo
<1>10. PlainUpTo(c, A, d + w) =
         PlainUpTo(c, A, d) \cup (IF c[d + 1] \notin Options THEN {d + 1} ELSE {})
  BY <1>6, <1>7, <1>8 DEF PlainUpTo
<1> QED BY <1>5, <1>6, <1>9, <1>10

\* Where the options end.
LEMMA ReadingEnds ==
  ASSUME command_line \in Seq(Words), NEW e \in 1 .. Len(command_line) + 1,
         e <= Len(command_line) => /\ command_line[e] = EndOfOptions
                                   /\ e \notin ArgumentPlaces,
         \A i \in 1 .. e - 1 : command_line[i] = EndOfOptions => i \in ArgumentPlaces
  PROVE  /\ \A W : Given(W) = GivenUpTo(command_line, ArgumentPlaces, e - 1, W)
         /\ Plain = PlainUpTo(command_line, ArgumentPlaces, e - 1)
                      \cup (e + 1 .. Len(command_line))
<1> PICK l \in Nat : l = Len(command_line)
  BY LenProperties
<1>1. Positions = 1 .. l
  BY LenProperties DEF Positions
<1>2. \A i \in Nat : IsArgument[i] <=> i \in ArgumentPlaces
  BY DEF ArgumentPlaces
<1> DEFINE ends == {i \in Positions : command_line[i] = EndOfOptions /\ ~ IsArgument[i]}
<1>3. e \in ends \cup {l + 1} /\ \A j \in ends : e <= j
  BY <1>1, <1>2
<1>4. ASSUME NEW i \in ends \cup {l + 1}, \A j \in ends : i <= j
      PROVE  i = e
  <2>1. CASE e \in ends
    BY <1>1, <1>3, <1>4, <2>1
  <2>2. CASE e = l + 1
    BY <1>1, <1>3, <1>4, <2>2
  <2> QED BY <1>3, <2>1, <2>2
<1>5. EndAt = e
  <2>1. EndAt = CHOOSE i \in ends \cup {l + 1} : \A j \in ends : i <= j
    BY DEF EndAt
  <2> HIDE DEF ends
  <2> QED BY <1>3, <1>4, <2>1
<1>6. \A i \in 1 .. l : i \in 1 .. e - 1 <=> i < EndAt
  BY <1>5
<1>7. 1 .. e - 1 \subseteq 1 .. l /\ 1 .. l \subseteq Nat
  OBVIOUS
<1>8. ASSUME NEW W
      PROVE  Given(W) = GivenUpTo(command_line, ArgumentPlaces, e - 1, W)
  BY <1>1, <1>2, <1>6, <1>7 DEF Given, GivenUpTo
<1>9. Plain = PlainUpTo(command_line, ArgumentPlaces, e - 1) \cup (e + 1 .. Len(command_line))
  <2>1. \A i \in 1 .. l : i > EndAt <=> i \in e + 1 .. l
    BY <1>5
  <2>2. e + 1 .. l \subseteq 1 .. l
    OBVIOUS
  <2> QED BY <1>1, <1>2, <1>6, <1>7, <2>1, <2>2 DEF Plain, IsPlain, PlainUpTo
<1> QED BY <1>8, <1>9

\* The reading depends on the command line only.
LEMMA SameReading ==
  ASSUME command_line' = command_line
  PROVE  /\ ArgumentPlaces' = ArgumentPlaces /\ Plain' = Plain
         /\ \A W : Given(W)' = Given(W)
<1>1. IsArgument' = IsArgument
  BY DEF IsArgument
<1>2. Positions' = Positions
  BY DEF Positions
<1>3. EndAt' = EndAt
  BY <1>1, <1>2 DEF EndAt
<1>4. ArgumentPlaces' = ArgumentPlaces
  BY <1>1 DEF ArgumentPlaces
<1>5. \A i : IsPlain(i)' = IsPlain(i)
  BY <1>1, <1>3 DEF IsPlain
<1>6. Plain' = Plain
  BY <1>2, <1>5 DEF Plain
<1>7. \A W : Given(W)' = Given(W)
  BY <1>1, <1>2, <1>3 DEF Given
<1> QED BY <1>4, <1>6, <1>7

\* The words of w behind place o are as many as the places P of the words c;
\* the first and the last of them are those that stand at the first and at the
\* last of the places.
Reads(c, w, o, P) ==
  /\ Cardinality(P) = Len(w) - o
  /\ Len(w) > o => w[o + 1] = c[Least(P)] /\ w[Len(w)] = c[Greatest(P)]

\* More words at later places.
LEMMA ReadsMore ==
  ASSUME NEW c, NEW a \in Seq(Words), NEW b \in Seq(Words), NEW d \in Nat, NEW e \in Nat,
         NEW P \in SUBSET (1 .. d), NEW Q \in SUBSET (d + 1 .. e),
         Reads(c, a, 0, P), Reads(c, b, 0, Q)
  PROVE  Reads(c, a \o b, 0, P \cup Q)
<1> PICK k \in Nat : k = Len(a)
  BY LenProperties
<1> PICK m \in Nat : m = Len(b)
  BY LenProperties
<1>1. IsFiniteSet(P) /\ IsFiniteSet(Q)
  <2>1. IsFiniteSet(1 .. d) /\ IsFiniteSet(d + 1 .. e)
    <3>1. 1 \in Int /\ d \in Int /\ d + 1 \in Int /\ e \in Int
      OBVIOUS
    <3> QED BY <3>1, FS_Interval
  <2> QED BY <2>1, FS_Subset
<1>2. P \cap Q = {} /\ \A i \in P, j \in Q : i < j
  OBVIOUS
<1>3. Cardinality(P) = k /\ Cardinality(Q) = m
  BY DEF Reads
<1>4. Cardinality(P \cup Q) = k + m
  <2>1. Cardinality(P \cup Q) = Cardinality(P) + Cardinality(Q) - Cardinality(P \cap Q)
    BY <1>1, FS_Union
  <2>2. Cardinality(P \cap Q) = 0
    BY <1>2, FS_EmptySet
  <2> QED BY <1>3, <2>1, <2>2
<1> DEFINE t == a \o b
<1>5. Len(t) = k + m /\ \A i \in 1 .. k + m : t[i] = IF i <= k THEN a[i] ELSE b[i - k]
  BY ConcatProperties
<1> HIDE DEF t
<1>6. (k = 0 <=> P = {}) /\ (m = 0 <=> Q = {})
  BY <1>1, <1>3, FS_EmptySet
<1>7. P \subseteq Nat /\ Q \subseteq Nat /\ P \subseteq 0 .. d + e /\ Q \subseteq 0 .. d + e
      /\ P \cup Q \subseteq 0 .. d + e /\ d + e \in Nat
  OBVIOUS
<1>8. CASE k > 0
  <2>0. P # {}
    BY <1>6, <1>8
  <2>1. Least(P) \in P /\ \A j \in P : Least(P) <= j
    BY <1>7, <2>0, LeastPlace
  <2>2. \A j \in P \cup Q : Least(P) <= j
    <3> PICK x \in P : x = Least(P)
      BY <2>1
    <3> QED BY <1>2, <1>7, <2>1
  <2>3. Least(P \cup Q) = Least(P)
    BY <1>7, <2>1, <2>2, LeastIs
  <2>4. t[1] = a[1] /\ a[1] = c[Least(P)]
    BY <1>5, <1>8 DEF Reads
  <2>5. t[1] = c[Least(P \cup Q)]
    BY <2>3, <2>4
  <2>6. CASE m = 0
    <3>1. P \cup Q = P
      BY <1>6, <2>6
    <3>2. t[k + m] = c[Greatest(P)]
      BY <1>5, <1>8, <2>6 DEF Reads
    <3>3. Len(t) - 0 = k + m /\ t[0 + 1] = t[1]
      BY <1>5
    <3>4. Reads(c, t, 0, P \cup Q)
      BY <1>4, <1>5, <2>5, <3>1, <3>2, <3>3 DEF Reads
    <3> QED BY <3>4 DEF t
  <2>7. CASE m > 0
    <3>0. Q # {}
      BY <1>6, <2>7
    <3>1. Greatest(Q) \in Q /\ \A j \in Q : Greatest(Q) >= j
      BY <1>7, <3>0, GreatestPlace
    <3>2. \A j \in P \cup Q : Greatest(Q) >= j
      <4> PICK x \in Q : x = Greatest(Q)
        BY <3>1
      <4> QED BY <1>2, <1>7, <3>1
    <3>3. Greatest(P \cup Q) = Greatest(Q)
      BY <1>7, <3>1, <3>2, GreatestIs
    <3>4. t[k + m] = b[m] /\ b[m] = c[Greatest(Q)]
      BY <1>5, <2>7 DEF Reads
    <3>5. Len(t) - 0 = k + m /\ t[0 + 1] = t[1]
      BY <1>5
    <3>6. Reads(c, t, 0, P \cup Q)
      BY <1>4, <1>5, <2>5, <3>3, <3>4, <3>5 DEF Reads
    <3> QED BY <3>6 DEF t
  <2> QED BY <2>6, <2>7
<1>9. CASE k = 0
  <2>1. P \cup Q = Q
    BY <1>6, <1>9
  <2>2. m > 0 => t[1] = b[1] /\ t[k + m] = b[m]
    BY <1>5, <1>9
  <2>3. Len(t) - 0 = m /\ Len(t) = m /\ Cardinality(P \cup Q) = m
    BY <1>4, <1>5, <1>9
  <2>4. m > 0 => b[1] = c[Least(Q)] /\ b[m] = c[Greatest(Q)]
    BY DEF Reads
  <2>5. m > 0 => t[0 + 1] = c[Least(Q)] /\ t[m] = c[Greatest(Q)]
    BY <1>9, <2>2, <2>4
  <2>6. Reads(c, t, 0, P \cup Q)
    BY <2>1, <2>3, <2>5 DEF Reads
  <2> QED BY <2>6 DEF t
<1> QED BY <1>8, <1>9

\* The same words somewhere else.
LEMMA ReadsCopy ==
  ASSUME NEW c, NEW P, NEW a \in Seq(Words), NEW w \in Seq(Words), NEW o \in Nat,
         Len(w) = o + Len(a), \A i \in 1 .. Len(a) : w[o + i] = a[i]
  PROVE  Reads(c, a, 0, P) <=> Reads(c, w, o, P)
<1> PICK k \in Nat : k = Len(a)
  BY LenProperties
<1>1. k > 0 => w[o + 1] = a[1] /\ w[o + k] = a[k]
  <2>1. k > 0 => 1 \in 1 .. k /\ k \in 1 .. k
    OBVIOUS
  <2> QED BY <2>1
<1>2. Reads(c, a, 0, P) <=> /\ Cardinality(P) = k
                            /\ k > 0 => a[1] = c[Least(P)] /\ a[k] = c[Greatest(P)]
  <2>1. Len(a) - 0 = k /\ 0 + 1 = 1
    OBVIOUS
  <2> QED BY ONLY <2>1, k = Len(a), k \in Nat DEF Reads
<1>3. Reads(c, w, o, P) <=> /\ Cardinality(P) = k
                            /\ k > 0 => w[o + 1] = c[Least(P)] /\ w[o + k] = c[Greatest(P)]
  <2>1. Len(w) - o = k /\ (Len(w) > o <=> k > 0) /\ Len(w) = o + k
    OBVIOUS
  <2> QED BY ONLY <2>1 DEF Reads
<1> QED BY ONLY <1>1, <1>2, <1>3

-----------------------------------------------------------------------------
(* The two passes.  The first leaves argv in an order in which the second    *)
(* meets nothing it has not met: options that can be decoded, up to a place  *)
(* n, and behind it one or two words that are no options or follow "--".     *)
(* They are the options and the plain words of the command line.             *)

\* The first n words of s are options with their arguments; an option begins
\* behind each of the places in B but the last.
Decodable(s, n, B) ==
  /\ n \in 0 .. Len(s) /\ B \in SUBSET (0 .. n)
  /\ 0 \in B /\ n \in B
  /\ \A k \in B : k < n => /\ s[k + 1] \in OptionWords
                           /\ k + WordWidth(s[k + 1]) \in B
                           /\ s[k + 1] \in Separate => k + 1 \notin B

\* The options with a word of W.
Begun(s, n, B, W) == {k \in B : k < n /\ s[k + 1] \in W}

NoOptionsAfter(w, n) == \A i \in n + 1 .. Len(w) : w[i] \notin Special

\* Where the options and "--" end.
Behind(w, n) == IF w[n + 1] = EndOfOptions THEN n + 1 ELSE n

Permuted(w, n, B) ==
  /\ Decodable(w, n, B)
  /\ \/ NoOptionsAfter(w, n) /\ Len(w) - n \in {1, 2}
     \/ n < Len(w) /\ w[n + 1] = EndOfOptions /\ Len(w) - n - 1 \in {1, 2}

\* The permuted words have the options and the plain words that were given.
Faithful(n, B) ==
  /\ \A W \in SUBSET OptionWords : Cardinality(Begun(argv, n, B, W)) = Cardinality(Given(W))
  /\ Reads(command_line, argv, Behind(argv, n), Plain)

IsPermuted == \E n \in Nat, B \in SUBSET Nat : Permuted(argv, n, B) /\ Faithful(n, B)

\* How far the first pass is.
Done == Len(options) + Len(arguments)

\* The options of s are those among the first d words of c.
Matched(c, A, d, s, n, B) ==
  \A W \in SUBSET OptionWords :
    Cardinality(Begun(s, n, B, W)) = Cardinality(GivenUpTo(c, A, d, W))

Sorted ==
  /\ \E B \in SUBSET Nat :
       /\ Decodable(options, Len(options), B)
       /\ Matched(command_line, ArgumentPlaces, Done, options, Len(options), B)
  /\ \A i \in 1 .. Len(arguments) : arguments[i] \notin Special
  /\ \A i \in 1 .. Len(rest) : rest[i] = command_line[Done + i]
  /\ Done + 1 \notin ArgumentPlaces
  /\ \A i \in 1 .. Done : command_line[i] = EndOfOptions => i \in ArgumentPlaces
  /\ Reads(command_line, arguments, 0, PlainUpTo(command_line, ArgumentPlaces, Done))

\* How far the second pass is.
Seen == Len(argv) - Len(rest)

Scanned(n, B) ==
  /\ Seen \in 0 .. Len(argv)
  /\ \A i \in 1 .. Len(rest) : rest[i] = argv[Seen + i]
  /\ \/ Seen \in B /\ arguments = <<>>
     \/ /\ Seen >= n /\ Len(arguments) = Seen - n /\ NoOptionsAfter(argv, n)
        /\ \A i \in 1 .. Len(arguments) : arguments[i] = argv[n + i]

\* What the second pass has made of the options it has seen.
BegunBefore(n, B, W) == {k \in Begun(argv, n, B, W) : k < Seen}

Counted(n, B) ==
  /\ Len(configuration.tasks) = Cardinality(BegunBefore(n, B, TaskWords))
  /\ configuration.ipv4_only <=> \/ LastSetting(files, "ipv4_only")
                                 \/ BegunBefore(n, B, {"-4"}) # {}
  /\ configuration.listname = NULL

Totals ==
  /\ Len(configuration.tasks) = Cardinality(Given(TaskWords))
  /\ configuration.ipv4_only <=> LastSetting(files, "ipv4_only") \/ Given({"-4"}) # {}

Named ==
  /\ Cardinality(Plain) \in {1, 2}
  /\ configuration.ical_filename = command_line[Greatest(Plain)]
  /\ configuration.listname = IF Cardinality(Plain) = 2
                              THEN command_line[Least(Plain)] ELSE NULL

PassInv ==
  /\ pass = 1 /\ pc = "options" /\ ~ option_error => Sorted
  /\ pass = 1 /\ pc = "arguments" /\ ~ option_error /\ Len(arguments) \in {1, 2} => IsPermuted
  /\ pc = "files" => /\ IsPermuted
                     /\ configuration.tasks = <<>> /\ configuration.listname = NULL
  /\ pass = 2 => pc \in {"options", "arguments", "returned"} /\ ~ option_error
  /\ pass = 2 /\ pc = "options" =>
       \E n \in Nat, B \in SUBSET Nat : /\ Permuted(argv, n, B) /\ Faithful(n, B)
                                        /\ Scanned(n, B) /\ Counted(n, B)
  /\ pass = 2 /\ pc = "arguments" => /\ Len(arguments) \in {1, 2}
                                     /\ Reads(command_line, arguments, 0, Plain)
                                     /\ Totals /\ configuration.listname = NULL
  /\ pass = 2 /\ pc = "returned" => configuration.ical_filename # NULL /\ Totals /\ Named

\* What the steps start from.
Grounds == TypeInv /\ LengthInv /\ TypedConfiguration(configuration) /\ FilesInv

LEMMA GroundsHold == Spec => []Grounds
  BY Typed, TypedInFull, FilesSound, PTL DEF Grounds

\* No step changes the command line.
LEMMA CommandLineStays == [Next]_vars => command_line' = command_line
<1>1. decode_commandline => command_line' = command_line
  BY DEF decode_commandline, decode_flag, decode_task, decode_config, decode_error,
         print_and_exit, skip_argument, end_of_options, help_and_exit, first_pass_decoded,
         destroy_configuration, second_pass_decoded, wrong_arguments, Exit, TakeOption
<1>2. apply_configuration_files \/ files_applied => command_line' = command_line
  BY DEF apply_configuration_files, apply_one_configuration_file, malformed_file,
         file_without_group, files_applied, SecondPass
<1>3. UNCHANGED vars => command_line' = command_line
  BY DEF vars
<1> QED BY <1>1, <1>2, <1>3 DEF Next

LEMMA FaithfulStays ==
  ASSUME command_line' = command_line, argv' = argv
  PROVE  \A n, B : Faithful(n, B)' = Faithful(n, B)
  BY SameReading DEF Faithful

\* The options of a sequence are finitely many.
LEMMA BegunFinite ==
  ASSUME NEW s, NEW n \in Nat, NEW B \in SUBSET (0 .. n), NEW W
  PROVE  IsFiniteSet(Begun(s, n, B, W))
<1>1. IsFiniteSet(0 .. n)
  <2>1. 0 \in Int /\ n \in Int
    OBVIOUS
  <2> QED BY <2>1, FS_Interval
<1>2. Begun(s, n, B, W) \in SUBSET (0 .. n)
  BY DEF Begun
<1> QED BY <1>1, <1>2, FS_Subset

LEMMA GivenFinite ==
  ASSUME NEW c, NEW A, NEW d \in Nat, NEW W
  PROVE  IsFiniteSet(GivenUpTo(c, A, d, W))
<1>1. IsFiniteSet(1 .. d)
  <2>1. 1 \in Int /\ d \in Int
    OBVIOUS
  <2> QED BY <2>1, FS_Interval
<1>2. GivenUpTo(c, A, d, W) \in SUBSET (1 .. d)
  BY DEF GivenUpTo
<1> QED BY <1>1, <1>2, FS_Subset

\* One more option keeps a sequence of options decodable.
LEMMA OneMoreOption ==
  ASSUME NEW s \in Seq(Words), NEW t \in Seq(Words), NEW B, Decodable(s, Len(s), B),
         Len(t) = Len(s) + WordWidth(t[Len(s) + 1]), t[Len(s) + 1] \in OptionWords,
         \A i \in 1 .. Len(s) : t[i] = s[i]
  PROVE  \E C \in SUBSET Nat :
           /\ Decodable(t, Len(t), C)
           /\ \A W : Begun(t, Len(t), C, W) = Begun(s, Len(s), B, W)
                       \cup (IF t[Len(s) + 1] \in W THEN {Len(s)} ELSE {})
<1> DEFINE C == B \cup {Len(t)}
<1> PICK n \in Nat : n = Len(s)
  BY LenProperties
<1> PICK m \in Nat : m = Len(t)
  BY LenProperties
<1>1. m = n + WordWidth(t[n + 1]) /\ m > n
  BY DEF WordWidth
<1>2. B \in SUBSET (0 .. n) /\ 0 \in B /\ n \in B
  BY DEF Decodable
<1>3. C = B \cup {m} /\ C \in SUBSET (0 .. m) /\ 0 \in C /\ m \in C
  <2>1. m \in 0 .. m /\ 0 .. n \subseteq 0 .. m
    BY <1>1
  <2> QED BY <1>2, <2>1
<1> HIDE DEF C
<1>4. ASSUME NEW k \in C, k < m
      PROVE  /\ t[k + 1] \in OptionWords
             /\ k + WordWidth(t[k + 1]) \in C
             /\ t[k + 1] \in Separate => k + 1 \notin C
  <2>1. k \in B /\ k \in 0 .. n
    BY <1>2, <1>3, <1>4
  <2>2. CASE k = n
    <3>1. t[n + 1] \in OptionWords /\ n + WordWidth(t[n + 1]) \in C
      BY <1>1, <1>3
    <3>2. t[n + 1] \in Separate => m = n + 2
      BY <1>1 DEF WordWidth
    <3>3. m = n + 2 => n + 1 \notin C
      BY <1>2, <1>3
    <3> QED BY <2>2, <3>1, <3>2, <3>3
  <2>3. CASE k < n
    <3>1. t[k + 1] = s[k + 1] /\ k + 1 # m
      BY <1>1, <2>1, <2>3
    <3>2. /\ s[k + 1] \in OptionWords /\ k + WordWidth(s[k + 1]) \in B
          /\ s[k + 1] \in Separate => k + 1 \notin B
      BY <2>1, <2>3 DEF Decodable
    <3> QED BY <1>3, <3>1, <3>2
  <2> QED BY <2>1, <2>2, <2>3
<1>5. Decodable(t, Len(t), C)
  <2>1. m \in 0 .. m
    OBVIOUS
  <2> QED BY <1>3, <1>4, <2>1 DEF Decodable
<1>6. ASSUME NEW W
      PROVE  Begun(t, m, C, W) = Begun(s, n, B, W) \cup (IF t[n + 1] \in W THEN {n} ELSE {})
  <2>1. \A k \in C : k < m <=> k \in B
    BY <1>1, <1>2, <1>3
  <2>2. \A k \in B : k < n \/ k = n
    BY <1>2
  <2>3. \A k \in B : k < n => t[k + 1] = s[k + 1]
    BY <1>2
  <2>4. n \in B /\ B \subseteq C
    BY <1>2, <1>3
  <2>5. ~ (n < n)
    OBVIOUS
  <2> QED BY <2>1, <2>2, <2>3, <2>4, <2>5 DEF Begun
<1>7. C \in SUBSET Nat
  BY <1>3
<1> QED BY <1>5, <1>6, <1>7

\* One more option, the given word, on either side.
OneMoreBegun(t, m, C, s, n, B, word) ==
  \A W : Begun(t, m, C, W) = Begun(s, n, B, W) \cup (IF word \in W THEN {n} ELSE {})
OneMoreGiven(c, A, e, d, word) ==
  \A W : GivenUpTo(c, A, e, W) =
           GivenUpTo(c, A, d, W) \cup (IF word \in W THEN {d + 1} ELSE {})

\* One more option on both sides.
LEMMA MatchedMore ==
  ASSUME NEW c, NEW A, NEW d \in Nat, NEW e, NEW s, NEW n \in Nat, NEW B \in SUBSET (0 .. n),
         NEW t, NEW m, NEW C, NEW word, Matched(c, A, d, s, n, B),
         OneMoreBegun(t, m, C, s, n, B, word), OneMoreGiven(c, A, e, d, word)
  PROVE  Matched(c, A, e, t, m, C)
<1> SUFFICES ASSUME NEW W \in SUBSET OptionWords
             PROVE  Cardinality(Begun(t, m, C, W)) = Cardinality(GivenUpTo(c, A, e, W))
  BY DEF Matched
<1>1. Cardinality(Begun(s, n, B, W)) = Cardinality(GivenUpTo(c, A, d, W))
  BY DEF Matched
<1>2. CASE word \in W
  <2>1. /\ Begun(t, m, C, W) = Begun(s, n, B, W) \cup {n}
        /\ GivenUpTo(c, A, e, W) = GivenUpTo(c, A, d, W) \cup {d + 1}
    BY <1>2 DEF OneMoreBegun, OneMoreGiven
  <2>2. n \notin Begun(s, n, B, W) /\ d + 1 \notin GivenUpTo(c, A, d, W)
    BY DEF Begun, GivenUpTo
  <2>3. IsFiniteSet(Begun(s, n, B, W)) /\ IsFiniteSet(GivenUpTo(c, A, d, W))
    BY BegunFinite, GivenFinite
  <2>4. Cardinality(Begun(t, m, C, W)) = Cardinality(Begun(s, n, B, W)) + 1
    BY <2>1, <2>2, <2>3, FS_AddElement
  <2>5. Cardinality(GivenUpTo(c, A, e, W)) = Cardinality(GivenUpTo(c, A, d, W)) + 1
    BY <2>1, <2>2, <2>3, FS_AddElement
  <2> QED BY <1>1, <2>4, <2>5
<1>3. CASE word \notin W
  <2>1. /\ Begun(t, m, C, W) = Begun(s, n, B, W)
        /\ GivenUpTo(c, A, e, W) = GivenUpTo(c, A, d, W)
    BY <1>3 DEF OneMoreBegun, OneMoreGiven
  <2> QED BY <1>1, <2>1
<1> QED BY <1>2, <1>3

\* Only the decodable words count.
LEMMA SameBeginning ==
  ASSUME NEW s, NEW t, NEW n \in Nat, NEW B, Decodable(s, n, B), n \in 0 .. Len(t),
         \A i \in 1 .. n : t[i] = s[i]
  PROVE  /\ Decodable(t, n, B)
         /\ \A W : Begun(t, n, B, W) = Begun(s, n, B, W)
<1>0. B \in SUBSET (0 .. n)
  BY DEF Decodable
<1>1. \A k \in B : k < n => t[k + 1] = s[k + 1]
  BY <1>0
<1>2. ASSUME NEW k \in B, k < n
      PROVE  /\ t[k + 1] \in OptionWords /\ k + WordWidth(t[k + 1]) \in B
             /\ t[k + 1] \in Separate => k + 1 \notin B
  BY <1>1, <1>2 DEF Decodable
<1>3. Decodable(t, n, B)
  BY <1>2 DEF Decodable
<1>4. \A W : Begun(t, n, B, W) = Begun(s, n, B, W)
  BY <1>1 DEF Begun
<1> QED BY <1>3, <1>4

\* What an option does to the words, in either pass.
LEMMA OptionTaken ==
  ASSUME TypeInv, decode_flag \/ decode_task \/ decode_config
  PROVE  /\ rest # <<>> /\ rest[1] \in OptionWords
         /\ WordWidth(rest[1]) \in 1 .. Len(rest)
         /\ TakeOption(WordWidth(rest[1]))
         /\ option_error' = option_error
<1>1. rest # <<>> /\ option_error' = option_error
  BY DEF decode_flag, decode_task, decode_config, NextIs
<1>2. Head(rest) = rest[1] /\ Len(rest) \in Nat /\ Len(rest) > 0
  BY <1>1, FirstWord DEF TypeInv
<1>3. CASE decode_flag
  <2>1. Head(rest) \in Flags /\ TakeOption(1)
    BY <1>3 DEF decode_flag, NextIs
  <2>2. Head(rest) \notin Separate
    BY <2>1 DEF Flags, FieldOf, Separate
  <2> QED BY <1>1, <1>2, <2>1, <2>2 DEF OptionWords, WordWidth
<1>4. CASE decode_task \/ decode_config
  <2>1. Head(rest) \in TaskWords \cup FileWords /\ HasArgument /\ TakeOption(Width)
    BY <1>4 DEF decode_task, decode_config, NextIs
  <2>2. Width = WordWidth(rest[1])
    BY <1>2 DEF Width, WordWidth
  <2>3. Width \in 1 .. Len(rest)
    BY <1>1, <2>1, WidthFits
  <2> QED BY <1>1, <1>2, <2>1, <2>2, <2>3 DEF OptionWords
<1> QED BY <1>3, <1>4

LEMMA PassInit == Init => PassInv
<1> SUFFICES ASSUME Init PROVE PassInv
  OBVIOUS
<1>1. /\ pc = "options" /\ pass = 1 /\ options = <<>> /\ arguments = <<>>
      /\ rest = command_line
  BY DEF Init
<1>2. Len(options) = 0 /\ Len(arguments) = 0 /\ Done = 0
  BY <1>1 DEF Done
<1>3. Decodable(options, 0, {0})
  BY <1>2 DEF Decodable
<1>4. Matched(command_line, ArgumentPlaces, 0, options, 0, {0})
  <2>1. \A W : Begun(options, 0, {0}, W) = {} /\ GivenUpTo(command_line, ArgumentPlaces, 0, W) = {}
    BY DEF Begun, GivenUpTo
  <2> QED BY <2>1 DEF Matched
<1>5. Reads(command_line, arguments, 0, PlainUpTo(command_line, ArgumentPlaces, 0))
  <2>1. PlainUpTo(command_line, ArgumentPlaces, 0) = {}
    BY DEF PlainUpTo
  <2> QED BY <1>2, <2>1, FS_EmptySet DEF Reads
<1>6. 0 + 1 \notin ArgumentPlaces
  BY ArgumentPlacesAre DEF ArgumentsOf
<1>7. \A i \in 1 .. Len(rest) : rest[i] = command_line[0 + i]
  <2>1. \A i \in 1 .. Len(rest) : 0 + i = i
    BY TypeInit, LenProperties DEF TypeInv
  <2> QED BY <1>1, <2>1
<1>8. Sorted
  <2>1. {0} \in SUBSET Nat
    OBVIOUS
  <2>2. /\ \E B \in SUBSET Nat :
             /\ Decodable(options, Len(options), B)
             /\ Matched(command_line, ArgumentPlaces, Done, options, Len(options), B)
        /\ \A i \in 1 .. Len(arguments) : arguments[i] \notin Special
        /\ \A i \in 1 .. Done : command_line[i] = EndOfOptions => i \in ArgumentPlaces
    BY <1>2, <1>3, <1>4, <2>1
  <2> QED BY <1>2, <1>5, <1>6, <1>7, <2>2 DEF Sorted
<1> QED BY <1>1, <1>8 DEF PassInv

\* The first pass reads on, behind the next word and its argument.
LEMMA ReadOn ==
  ASSUME TypeInv, LengthInv, Sorted, NEW w, w = WordWidth(rest[1]), w \in 1 .. Len(rest),
         rest[1] # EndOfOptions, command_line' = command_line, Done' = Done + w,
         Len(rest') = Len(rest) - w, \A i \in 1 .. Len(rest) - w : rest'[i] = rest[w + i]
  PROVE  /\ Done \in Nat /\ command_line[Done + 1] = rest[1]
         /\ (\A i \in 1 .. Len(rest) : rest[i] = command_line[Done + i])'
         /\ (Done + 1 \notin ArgumentPlaces)'
         /\ (\A i \in 1 .. Done : command_line[i] = EndOfOptions => i \in ArgumentPlaces)'
         /\ \A W : GivenUpTo(command_line, ArgumentPlaces, Done + w, W) =
                     GivenUpTo(command_line, ArgumentPlaces, Done, W)
                       \cup (IF rest[1] \in W THEN {Done + 1} ELSE {})
         /\ PlainUpTo(command_line, ArgumentPlaces, Done + w) =
              PlainUpTo(command_line, ArgumentPlaces, Done)
                \cup (IF rest[1] \notin Options THEN {Done + 1} ELSE {})
<1> PICK r \in Nat : r = Len(rest)
  BY LenProperties DEF TypeInv
<1> PICK d \in Nat : d = Done
  <2>1. Len(options) \in Nat /\ Len(arguments) \in Nat
    BY LenProperties DEF TypeInv
  <2> QED BY <2>1 DEF Done
<1> DEFINE c == command_line
           A == ArgumentPlaces
<1>1. w \in 1 .. r /\ w \in Nat
  OBVIOUS
<1>2. c[d + 1] = rest[1]
  <2>1. 1 \in 1 .. r
    BY <1>1
  <2> QED BY <2>1 DEF Sorted
<1>3. ArgumentsOf(c, A) /\ d + 1 \notin A
  BY ArgumentPlacesAre DEF Sorted
<1> HIDE DEF c, A
<1>4. /\ d + w + 1 \notin A
      /\ \A i \in d + 1 .. d + w : i = d + 1 \/ i \in A
      /\ \A W : GivenUpTo(c, A, d + w, W) =
                  GivenUpTo(c, A, d, W) \cup (IF c[d + 1] \in W THEN {d + 1} ELSE {})
      /\ PlainUpTo(c, A, d + w) =
           PlainUpTo(c, A, d) \cup (IF c[d + 1] \notin Options THEN {d + 1} ELSE {})
  <2>1. w = WordWidth(c[d + 1])
    BY <1>2
  <2> QED BY ONLY <1>3, <2>1, d \in Nat, OneMoreWord
<1>5. command_line' = c /\ ArgumentPlaces' = A /\ Done' = d + w
  BY SameReading DEF c, A
<1>6. \A i \in 1 .. r - w : rest'[i] = c[(d + w) + i]
  <2> SUFFICES ASSUME NEW i \in 1 .. r - w PROVE rest'[i] = c[(d + w) + i]
    OBVIOUS
  <2>1. w + i \in 1 .. r /\ d + (w + i) = (d + w) + i
    BY <1>1
  <2>2. rest'[i] = rest[w + i] /\ rest[w + i] = c[d + (w + i)]
    BY <2>1 DEF Sorted, c
  <2> QED BY <2>1, <2>2
<1>7. \A i \in 1 .. d + w : c[i] = EndOfOptions => i \in A
  <2> SUFFICES ASSUME NEW i \in 1 .. d + w, c[i] = EndOfOptions PROVE i \in A
    OBVIOUS
  <2>1. i \in 1 .. d \/ i \in d + 1 .. d + w
    BY <1>1
  <2>2. CASE i \in 1 .. d
    BY <2>2 DEF Sorted, c, A
  <2>3. CASE i \in d + 1 .. d + w
    BY <1>2, <1>4, <2>3
  <2> QED BY <2>1, <2>2, <2>3
<1>8. (\A i \in 1 .. Len(rest) : rest[i] = command_line[Done + i])'
  BY <1>5, <1>6
<1>9. (Done + 1 \notin ArgumentPlaces)'
  BY <1>4, <1>5
<1>10. (\A i \in 1 .. Done : command_line[i] = EndOfOptions => i \in ArgumentPlaces)'
  BY <1>5, <1>7
<1> QED BY <1>2, <1>4, <1>8, <1>9, <1>10 DEF c, A

\* The first pass: an option.
LEMMA SortedOption ==
  ASSUME TypeInv, LengthInv, Sorted, decode_flag \/ decode_task \/ decode_config
  PROVE  Sorted'
<1> DEFINE w == WordWidth(rest[1])
<1>1. /\ rest # <<>> /\ rest[1] \in OptionWords /\ w \in 1 .. Len(rest) /\ TakeOption(w)
  BY OptionTaken
<1>2. Len(rest) \in Nat /\ Len(options) \in Nat /\ w \in 0 .. Len(rest)
  BY <1>1, LenProperties DEF TypeInv
<1>3. /\ options' \in Seq(Words) /\ Len(options') = Len(options) + w
      /\ \A i \in 1 .. Len(options) + w :
           options'[i] = IF i <= Len(options) THEN options[i] ELSE rest[i - Len(options)]
      /\ Len(rest') = Len(rest) - w /\ \A i \in 1 .. Len(rest) - w : rest'[i] = rest[w + i]
  BY <1>1, <1>2, TakenWords
<1> HIDE DEF w
<1>4. options'[Len(options) + 1] = rest[1]
  <2>1. Len(options) + 1 \in 1 .. Len(options) + w /\ ~ (Len(options) + 1 <= Len(options))
        /\ (Len(options) + 1) - Len(options) = 1
    BY <1>1, <1>2
  <2> QED BY <1>3, <2>1
<1>5. \A i \in 1 .. Len(options) : options'[i] = options[i]
  BY <1>2, <1>3
<1>6. Len(options') = Len(options) + WordWidth(options'[Len(options) + 1])
  BY <1>3, <1>4 DEF w
<1>7. PICK B \in SUBSET Nat : /\ Decodable(options, Len(options), B)
                              /\ Matched(command_line, ArgumentPlaces, Done, options, Len(options), B)
  BY DEF Sorted
<1>8. PICK C \in SUBSET Nat :
        /\ Decodable(options', Len(options'), C)
        /\ \A W : Begun(options', Len(options'), C, W) = Begun(options, Len(options), B, W)
                    \cup (IF rest[1] \in W THEN {Len(options)} ELSE {})
  <2>1. options \in Seq(Words) /\ options'[Len(options) + 1] \in OptionWords
    BY <1>1, <1>4 DEF TypeInv
  <2>2. \E C \in SUBSET Nat :
          /\ Decodable(options', Len(options'), C)
          /\ \A W : Begun(options', Len(options'), C, W) = Begun(options, Len(options), B, W)
                      \cup (IF options'[Len(options) + 1] \in W THEN {Len(options)} ELSE {})
    <3>1. options' \in Seq(Words) /\ Decodable(options, Len(options), B)
      BY <1>3, <1>7
    <3> QED BY ONLY <1>5, <1>6, <2>1, <3>1, OneMoreOption
  <2> QED BY <1>4, <2>2
<1>9. arguments' = arguments /\ command_line' = command_line
  BY <1>1 DEF TakeOption
<1>10. Len(arguments) \in Nat /\ w \in Int
  BY <1>1, <1>2, LenProperties DEF TypeInv
<1>11. Done' = Done + w
  BY <1>2, <1>3, <1>9, <1>10 DEF Done
<1>12. rest[1] # EndOfOptions /\ rest[1] \in Options
  BY <1>1, KindsOfWords
<1>13. w = WordWidth(rest[1])
  BY DEF w
<1>14. /\ Done \in Nat
       /\ (\A i \in 1 .. Len(rest) : rest[i] = command_line[Done + i])'
       /\ (Done + 1 \notin ArgumentPlaces)'
       /\ (\A i \in 1 .. Done : command_line[i] = EndOfOptions => i \in ArgumentPlaces)'
       /\ \A W : GivenUpTo(command_line, ArgumentPlaces, Done + w, W) =
                   GivenUpTo(command_line, ArgumentPlaces, Done, W)
                     \cup (IF rest[1] \in W THEN {Done + 1} ELSE {})
       /\ PlainUpTo(command_line, ArgumentPlaces, Done + w) =
            PlainUpTo(command_line, ArgumentPlaces, Done)
              \cup (IF rest[1] \notin Options THEN {Done + 1} ELSE {})
  BY <1>1, <1>3, <1>9, <1>11, <1>12, <1>13, ReadOn
<1>15. ArgumentPlaces' = ArgumentPlaces
  BY <1>9, SameReading
<1>16. Matched(command_line', ArgumentPlaces', Done', options', Len(options'), C)
  <2>1. B \in SUBSET (0 .. Len(options))
    BY <1>7 DEF Decodable
  <2>2. Matched(command_line, ArgumentPlaces, Done + w, options', Len(options'), C)
    <3>1. Len(options) \in Nat /\ Done \in Nat
          /\ Matched(command_line, ArgumentPlaces, Done, options, Len(options), B)
      BY <1>2, <1>7, <1>14
    <3>2. \A W : Begun(options', Len(options'), C, W) = Begun(options, Len(options), B, W)
                   \cup (IF rest[1] \in W THEN {Len(options)} ELSE {})
      BY <1>8
    <3>3. \A W : GivenUpTo(command_line, ArgumentPlaces, Done + w, W) =
                   GivenUpTo(command_line, ArgumentPlaces, Done, W)
                     \cup (IF rest[1] \in W THEN {Done + 1} ELSE {})
      BY <1>14
    <3>4. OneMoreBegun(options', Len(options'), C, options, Len(options), B, rest[1])
      BY ONLY <3>2 DEF OneMoreBegun
    <3>5. OneMoreGiven(command_line, ArgumentPlaces, Done + w, Done, rest[1])
      BY ONLY <3>3 DEF OneMoreGiven
    <3> QED BY ONLY <2>1, <3>1, <3>4, <3>5, MatchedMore
  <2> QED BY <1>9, <1>11, <1>15, <2>2
<1>17. Reads(command_line', arguments', 0, PlainUpTo(command_line', ArgumentPlaces', Done'))
  <2>1. PlainUpTo(command_line, ArgumentPlaces, Done + w) =
          PlainUpTo(command_line, ArgumentPlaces, Done)
    BY <1>12, <1>14
  <2>2. Reads(command_line, arguments, 0, PlainUpTo(command_line, ArgumentPlaces, Done))
    BY DEF Sorted
  <2> QED BY <1>9, <1>11, <1>15, <2>1, <2>2
<1>18. \A i \in 1 .. Len(arguments') : arguments'[i] \notin Special
  BY <1>9 DEF Sorted
<1> QED BY <1>8, <1>14, <1>16, <1>17, <1>18 DEF Sorted

\* A single word.
LEMMA ReadsOne ==
  ASSUME NEW c, NEW d \in Nat, NEW word \in Words, word = c[d + 1]
  PROVE  <<word>> \in Seq(Words) /\ Reads(c, <<word>>, 0, {d + 1})
<1>1. Cardinality({d + 1}) = 1
  BY FS_Singleton
<1>2. Least({d + 1}) = d + 1
  <2>1. {d + 1} \subseteq Nat /\ d + 1 \in {d + 1} /\ \A j \in {d + 1} : d + 1 <= j
    OBVIOUS
  <2> QED BY <2>1, LeastIs
<1>3. Greatest({d + 1}) = d + 1
  <2>1. {d + 1} \subseteq 0 .. d + 1 /\ d + 1 \in Nat /\ d + 1 \in {d + 1}
        /\ \A j \in {d + 1} : d + 1 >= j
    OBVIOUS
  <2> QED BY <2>1, GreatestIs
<1> DEFINE a == <<word>>
<1>4. a \in Seq(Words) /\ Len(a) = 1 /\ a[1] = word
  OBVIOUS
<1> HIDE DEF a
<1>5. Reads(c, a, 0, {d + 1})
  <2>1. a[0 + 1] = word /\ a[Len(a)] = word /\ Len(a) - 0 = 1
    BY <1>4
  <2> QED BY <1>1, <1>2, <1>3, <2>1 DEF Reads
<1> QED BY <1>4, <1>5 DEF a

\* The first pass: a word that is no option.
LEMMA SortedArgument ==
  ASSUME TypeInv, LengthInv, Sorted, skip_argument
  PROVE  Sorted'
<1>1. /\ rest # <<>> /\ Head(rest) \in Words \ Special /\ rest' = Tail(rest)
      /\ arguments' = Append(arguments, Head(rest)) /\ options' = options
      /\ command_line' = command_line
  BY DEF skip_argument, NextIs, Special
<1>2. arguments \in Seq(Words) /\ Len(arguments) \in Nat /\ Len(options) \in Nat
  BY LenProperties DEF TypeInv
<1>3. /\ Len(arguments') = Len(arguments) + 1
      /\ \A i \in 1 .. Len(arguments) : arguments'[i] = arguments[i]
      /\ arguments'[Len(arguments) + 1] = Head(rest)
  BY <1>1, <1>2, AppendProperties
<1>4. \A i \in 1 .. Len(arguments') : arguments'[i] \notin Special
  <2> SUFFICES ASSUME NEW i \in 1 .. Len(arguments') PROVE arguments'[i] \notin Special
    OBVIOUS
  <2>1. i \in 1 .. Len(arguments) \/ i = Len(arguments) + 1
    BY <1>2, <1>3
  <2> QED BY <1>1, <1>3, <2>1 DEF Sorted
<1>5. /\ Len(rest) \in Nat /\ Len(rest) > 0 /\ Head(rest) = rest[1]
      /\ Len(rest') = Len(rest) - 1 /\ \A i \in 1 .. Len(rest) - 1 : rest'[i] = rest[i + 1]
  BY <1>1, FirstWord, HeadTailProperties DEF TypeInv
<1>6. rest[1] # EndOfOptions /\ rest[1] \notin Options /\ 1 = WordWidth(rest[1])
  BY <1>1, <1>5, KindsOfWords DEF Special, WordWidth
<1>7. Done' = Done + 1
  BY <1>1, <1>2, <1>3 DEF Done
<1>8. /\ Done \in Nat /\ command_line[Done + 1] = rest[1]
      /\ (\A i \in 1 .. Len(rest) : rest[i] = command_line[Done + i])'
      /\ (Done + 1 \notin ArgumentPlaces)'
      /\ (\A i \in 1 .. Done : command_line[i] = EndOfOptions => i \in ArgumentPlaces)'
      /\ \A W : GivenUpTo(command_line, ArgumentPlaces, Done + 1, W) =
                  GivenUpTo(command_line, ArgumentPlaces, Done, W)
                    \cup (IF rest[1] \in W THEN {Done + 1} ELSE {})
      /\ PlainUpTo(command_line, ArgumentPlaces, Done + 1) =
           PlainUpTo(command_line, ArgumentPlaces, Done)
             \cup (IF rest[1] \notin Options THEN {Done + 1} ELSE {})
  <2>1. 1 \in 1 .. Len(rest) /\ \A i \in 1 .. Len(rest) - 1 : rest'[i] = rest[1 + i]
    BY <1>5
  <2> QED BY <1>1, <1>5, <1>6, <1>7, <2>1, ReadOn
<1>9. ArgumentPlaces' = ArgumentPlaces
  BY <1>1, SameReading
<1>10. PICK B \in SUBSET Nat : /\ Decodable(options, Len(options), B)
                               /\ Matched(command_line, ArgumentPlaces, Done, options, Len(options), B)
  BY DEF Sorted
<1>11. Matched(command_line', ArgumentPlaces', Done', options', Len(options'), B)
  <2>1. \A W \in SUBSET OptionWords : rest[1] \notin W
    BY <1>6, KindsOfWords
  <2>2. \A W \in SUBSET OptionWords : GivenUpTo(command_line, ArgumentPlaces, Done + 1, W) =
                                      GivenUpTo(command_line, ArgumentPlaces, Done, W)
    BY <1>8, <2>1
  <2>3. Matched(command_line, ArgumentPlaces, Done + 1, options, Len(options), B)
    BY <1>10, <2>2 DEF Matched
  <2> QED BY <1>1, <1>7, <1>9, <2>3
<1>12. Reads(command_line', arguments', 0, PlainUpTo(command_line', ArgumentPlaces', Done'))
  <2> PICK d \in Nat : d = Done
    BY <1>8
  <2> DEFINE P == PlainUpTo(command_line, ArgumentPlaces, d)
             b == <<Head(rest)>>
  <2>1. P \in SUBSET (1 .. d) /\ {d + 1} \in SUBSET (d + 1 .. d + 1)
    BY DEF PlainUpTo
  <2>2. Reads(command_line, arguments, 0, P)
    BY DEF Sorted
  <2>3. b \in Seq(Words) /\ Reads(command_line, b, 0, {d + 1})
    <3>1. Head(rest) \in Words /\ Head(rest) = command_line[d + 1]
      BY <1>1, <1>5, <1>8
    <3> QED BY ONLY <3>1, d \in Nat, ReadsOne
  <2>4. arguments' = arguments \o b
    BY <1>1, <1>2, AppendIsConcat
  <2>5. PlainUpTo(command_line, ArgumentPlaces, d + 1) = P \cup {d + 1}
    BY <1>6, <1>8
  <2> HIDE DEF P, b
  <2>6. Reads(command_line, arguments \o b, 0, P \cup {d + 1})
    <3>1. d + 1 \in Nat /\ arguments \in Seq(Words)
      BY <1>2
    <3> QED BY <2>1, <2>2, <2>3, <3>1, ReadsMore
  <2> QED BY <1>1, <1>7, <1>9, <2>4, <2>5, <2>6
<1>13. Decodable(options', Len(options'), B)
  BY <1>1, <1>10
<1> QED BY <1>4, <1>8, <1>11, <1>12, <1>13 DEF Sorted

\* The words of an interval.
LEMMA ReadsInterval ==
  ASSUME NEW c, NEW b \in Seq(Words), NEW d \in Nat, \A i \in 1 .. Len(b) : b[i] = c[d + i]
  PROVE  Reads(c, b, 0, d + 1 .. d + Len(b))
<1> PICK k \in Nat : k = Len(b)
  BY LenProperties
<1>1. d + 1 \in Int /\ d + k \in Int /\ d + 1 \in Nat /\ d + k \in Nat
  OBVIOUS
<1>2. Cardinality(d + 1 .. d + k) = k
  <2> PICK x \in Int, y \in Int : x = d + 1 /\ y = d + k
    BY <1>1
  <2>1. Cardinality(x .. y) = IF x > y THEN 0 ELSE y - x + 1
    BY FS_Interval
  <2>2. (IF x > y THEN 0 ELSE y - x + 1) = k
    OBVIOUS
  <2> QED BY <2>1, <2>2
<1>3. ASSUME k > 0
      PROVE  Least(d + 1 .. d + k) = d + 1 /\ Greatest(d + 1 .. d + k) = d + k
  <2>1. /\ d + 1 .. d + k \subseteq Nat /\ d + 1 .. d + k \subseteq 0 .. d + k
        /\ d + 1 \in d + 1 .. d + k /\ d + k \in d + 1 .. d + k
        /\ \A j \in d + 1 .. d + k : d + 1 <= j /\ d + k >= j
    BY <1>3
  <2> QED BY <1>1, <2>1, LeastIs, GreatestIs
<1>4. k > 0 => b[1] = c[d + 1] /\ b[k] = c[d + k]
  OBVIOUS
<1>5. Len(b) - 0 = k /\ Len(b) = k /\ b[0 + 1] = b[1]
  OBVIOUS
<1> QED BY <1>2, <1>3, <1>4, <1>5 DEF Reads

\* A sequence with a words behind place n + 1.
LEMMA BehindTheEnd ==
  ASSUME NEW n \in Nat, NEW a \in {1, 2}, NEW l, l = n + 1 + a
  PROVE  n \in 0 .. l /\ n < l /\ l - n - 1 \in {1, 2}
  OBVIOUS

\* Where the first pass ends it has read the command line.
LEMMA EndRead ==
  ASSUME TypeInv, LengthInv, Sorted, rest = <<>> \/ Head(rest) = EndOfOptions
  PROVE  /\ \A W : Given(W) = GivenUpTo(command_line, ArgumentPlaces, Done, W)
         /\ Plain = PlainUpTo(command_line, ArgumentPlaces, Done)
                      \cup (Done + 2 .. Len(command_line))
         /\ Done \in Nat /\ Len(command_line) = Done + Len(rest)
<1> PICK r \in Nat : r = Len(rest)
  BY LenProperties DEF TypeInv
<1> PICK d \in Nat : d = Done
  <2>1. Len(options) \in Nat /\ Len(arguments) \in Nat
    BY LenProperties DEF TypeInv
  <2> QED BY <2>1 DEF Done
<1>1. command_line \in Seq(Words) /\ Len(command_line) = d + r
  BY DEF LengthInv, Done
<1>2. d + 1 \in 1 .. Len(command_line) + 1
  BY <1>1
<1>3. d + 1 <= Len(command_line) => /\ command_line[d + 1] = EndOfOptions
                                    /\ d + 1 \notin ArgumentPlaces
  <2> SUFFICES ASSUME d + 1 <= Len(command_line)
               PROVE  command_line[d + 1] = EndOfOptions /\ d + 1 \notin ArgumentPlaces
    OBVIOUS
  <2>1. r > 0 /\ rest # <<>>
    BY <1>1, EmptySeq
  <2>2. Head(rest) = rest[1] /\ 1 \in 1 .. r
    BY <2>1, FirstWord DEF TypeInv
  <2> QED BY <2>1, <2>2 DEF Sorted
<1>4. \A i \in 1 .. (d + 1) - 1 : command_line[i] = EndOfOptions => i \in ArgumentPlaces
  <2>1. (d + 1) - 1 = d
    OBVIOUS
  <2> QED BY <2>1 DEF Sorted
<1>5. /\ \A W : Given(W) = GivenUpTo(command_line, ArgumentPlaces, (d + 1) - 1, W)
      /\ Plain = PlainUpTo(command_line, ArgumentPlaces, (d + 1) - 1)
                   \cup ((d + 1) + 1 .. Len(command_line))
  BY ONLY <1>1, <1>2, <1>3, <1>4, ReadingEnds
<1>6. (d + 1) - 1 = d /\ (d + 1) + 1 = d + 2
  OBVIOUS
<1> QED BY <1>1, <1>5, <1>6

\* The end of the first pass: the arguments are the plain words.
LEMMA ArgumentsRead ==
  ASSUME TypeInv, LengthInv, Sorted, end_of_options
  PROVE  arguments' \in Seq(Words) /\ Reads(command_line, arguments', 0, Plain)
<1> PICK d \in Nat : d = Done /\ (rest = <<>> \/ Head(rest) = EndOfOptions =>
                                  Len(command_line) = d + Len(rest))
  <2>1. Len(options) \in Nat /\ Len(arguments) \in Nat
    BY LenProperties DEF TypeInv
  <2> QED BY <2>1, EndRead DEF Done
<1> DEFINE P == PlainUpTo(command_line, ArgumentPlaces, d)
<1>1. Reads(command_line, arguments, 0, P) /\ arguments \in Seq(Words)
  BY DEF Sorted, TypeInv
<1>2. CASE rest = <<>> /\ arguments' = arguments
  <2>1. Len(command_line) = d /\ Plain = P \cup (d + 2 .. d)
    BY <1>2, EndRead
  <2>2. d + 2 .. d = {}
    OBVIOUS
  <2> QED BY <1>1, <1>2, <2>1, <2>2
<1>3. CASE NextIs({EndOfOptions}) /\ arguments' = arguments \o Tail(rest)
  <2>1. rest # <<>> /\ Head(rest) = EndOfOptions
    BY <1>3 DEF NextIs
  <2> DEFINE b == Tail(rest)
  <2>2. b \in Seq(Words) /\ Len(b) = Len(rest) - 1 /\ Len(rest) \in Nat /\ Len(rest) > 0
        /\ \A i \in 1 .. Len(b) : b[i] = rest[i + 1]
    BY <2>1, FirstWord, HeadTailProperties DEF TypeInv
  <2> HIDE DEF b
  <2> PICK k \in Nat : k = Len(b) /\ Len(rest) = k + 1
    BY <2>2
  <2>3. Plain = P \cup (d + 2 .. d + 1 + k)
    BY <2>1, EndRead
  <2>4. \A i \in 1 .. k : b[i] = command_line[(d + 1) + i]
    <3> SUFFICES ASSUME NEW i \in 1 .. k PROVE b[i] = command_line[(d + 1) + i]
      OBVIOUS
    <3>1. i + 1 \in 1 .. Len(rest) /\ d + (i + 1) = (d + 1) + i
      OBVIOUS
    <3> QED BY <2>2, <3>1 DEF Sorted
  <2>5. Reads(command_line, b, 0, (d + 1) + 1 .. (d + 1) + k)
    <3>1. d + 1 \in Nat /\ k = Len(b)
      OBVIOUS
    <3> QED BY <2>2, <2>4, <3>1, ReadsInterval
  <2>6. P \in SUBSET (1 .. d + 1)
    BY DEF PlainUpTo
  <2>7. (d + 1) + 1 .. (d + 1) + k \in SUBSET ((d + 1) + 1 .. (d + 1) + k)
    OBVIOUS
  <2> HIDE DEF P
  <2>8. Reads(command_line, arguments \o b, 0, P \cup ((d + 1) + 1 .. (d + 1) + k))
    <3>1. d + 1 \in Nat /\ (d + 1) + k \in Nat
      OBVIOUS
    <3> QED BY ONLY <1>1, <2>2, <2>5, <2>6, <2>7, <3>1, ReadsMore
  <2>9. (d + 1) + 1 = d + 2 /\ (d + 1) + k = d + 1 + k
    OBVIOUS
  <2>10. arguments \o b \in Seq(Words)
    BY <1>1, <2>2, ConcatProperties
  <2> QED BY <1>3, <2>3, <2>8, <2>9, <2>10 DEF b
<1> QED BY <1>2, <1>3 DEF end_of_options

\* The end of the first pass: argv is permuted.
LEMMA EndOfFirstPass ==
  ASSUME TypeInv, LengthInv, Sorted, end_of_options, Len(arguments') \in {1, 2}
  PROVE  IsPermuted'
<1> PICK n \in Nat : n = Len(options)
  BY LenProperties DEF TypeInv
<1>1. PICK B \in SUBSET Nat : /\ Decodable(options, n, B)
                              /\ Matched(command_line, ArgumentPlaces, Done, options, n, B)
  BY DEF Sorted
<1>2. n = Len(options) /\ Decodable(options, n, B) /\ options \in Seq(Words) /\ arguments \in Seq(Words)
  BY <1>1 DEF TypeInv
<1>3. argv' = options' \o arguments' /\ command_line' = command_line
  BY DEF end_of_options
<1>4. arguments' \in Seq(Words) /\ Reads(command_line, arguments', 0, Plain)
  BY ArgumentsRead
<1>5. rest = <<>> \/ Head(rest) = EndOfOptions
  BY DEF end_of_options, NextIs
<1>6. \A W \in SUBSET OptionWords : Cardinality(Begun(options, n, B, W)) = Cardinality(Given(W))
  BY <1>1, <1>5, EndRead DEF Matched
<1>7. Plain' = Plain /\ \A W : Given(W)' = Given(W)
  BY <1>3, SameReading
<1>8. ASSUME \A W : Begun(argv', n, B, W) = Begun(options, n, B, W),
             Reads(command_line, argv', Behind(argv', n), Plain)
      PROVE  Faithful(n, B)'
  BY <1>3, <1>6, <1>7, <1>8 DEF Faithful
<1>9. CASE UNCHANGED <<options, arguments>>
  <2>1. /\ Len(argv') = n + Len(arguments)
        /\ \A i \in 1 .. n + Len(arguments) :
             argv'[i] = IF i <= n THEN options[i] ELSE arguments[i - n]
        /\ argv' \in Seq(Words)
    BY <1>2, <1>3, <1>9, ConcatProperties
  <2>2. Decodable(argv', n, B) /\ \A W : Begun(argv', n, B, W) = Begun(options, n, B, W)
    <3>1. n \in 0 .. Len(argv') /\ \A i \in 1 .. n : argv'[i] = options[i]
      BY <1>2, <1>9, <2>1
    <3> QED BY <1>1, <1>2, <3>1, SameBeginning
  <2>3. \A i \in n + 1 .. Len(argv') : argv'[i] \notin Special
    <3> SUFFICES ASSUME NEW i \in n + 1 .. Len(argv') PROVE argv'[i] \notin Special
      OBVIOUS
    <3>1. i \in 1 .. n + Len(arguments) /\ ~ (i <= n) /\ i - n \in 1 .. Len(arguments)
      BY <1>2, <1>9, <2>1
    <3>2. argv'[i] = arguments[i - n]
      BY <2>1, <3>1
    <3> QED BY <3>1, <3>2 DEF Sorted
  <2>4. Len(argv') - n \in {1, 2}
    BY <1>2, <1>9, <2>1
  <2>5. Permuted(argv', n, B)
    BY <2>2, <2>3, <2>4 DEF Permuted, NoOptionsAfter
  <2>6. Behind(argv', n) = n
    <3>1. n + 1 \in n + 1 .. Len(argv')
      <4>1. Len(argv') \in Nat /\ n \in Nat
        BY <1>2, <2>1, LenProperties
      <4> QED BY ONLY <2>4, <4>1
    <3> QED BY <2>3, <3>1 DEF Behind, Special
  <2>7. Reads(command_line, argv', n, Plain)
    <3>1. /\ Len(argv') = n + Len(arguments')
          /\ \A i \in 1 .. Len(arguments') : argv'[n + i] = arguments'[i]
      BY <1>9, <2>1
    <3> QED BY <1>4, <2>1, <3>1, ReadsCopy
  <2>8. Faithful(n, B)'
    BY <1>8, <2>2, <2>6, <2>7
  <2> QED BY <1>1, <1>2, <2>5, <2>8 DEF IsPermuted
<1>10. CASE /\ NextIs({EndOfOptions})
            /\ options' = Append(options, EndOfOptions)
            /\ arguments' = arguments \o Tail(rest)
  <2>1. EndOfOptions \in Words /\ Tail(rest) \in Seq(Words)
    BY <1>10, FirstWord DEF NextIs, TypeInv
  <2>2. /\ options' \in Seq(Words) /\ Len(options') = n + 1
        /\ \A i \in 1 .. n : options'[i] = options[i]
        /\ options'[n + 1] = EndOfOptions
    BY <1>2, <1>10, <2>1, AppendProperties
  <2>4. /\ Len(argv') = Len(options') + Len(arguments')
        /\ \A i \in 1 .. Len(options') + Len(arguments') :
             argv'[i] = IF i <= Len(options') THEN options'[i] ELSE arguments'[i - Len(options')]
        /\ argv' \in Seq(Words)
    BY <1>3, <1>4, <2>2, ConcatProperties
  <2> PICK a \in {1, 2} : a = Len(arguments')
    OBVIOUS
  <2>5. Len(argv') = n + 1 + a
    BY <2>2, <2>4
  <2>6. n \in 0 .. Len(argv') /\ n < Len(argv') /\ Len(argv') - n - 1 \in {1, 2}
    BY <2>5, BehindTheEnd
  <2>7. argv'[n + 1] = EndOfOptions
    <3>1. n + 1 \in 1 .. Len(options') + Len(arguments') /\ n + 1 <= Len(options')
      BY <2>2
    <3> QED BY <2>2, <2>4, <3>1
  <2>8. \A i \in 1 .. n : argv'[i] = options[i]
    <3> SUFFICES ASSUME NEW i \in 1 .. n PROVE argv'[i] = options[i]
      OBVIOUS
    <3>1. i \in 1 .. Len(options') + Len(arguments') /\ i <= Len(options')
      BY <2>2
    <3> QED BY <2>2, <2>4, <3>1
  <2>9. Decodable(argv', n, B) /\ \A W : Begun(argv', n, B, W) = Begun(options, n, B, W)
    BY <1>1, <1>2, <2>6, <2>8, SameBeginning
  <2>10. Permuted(argv', n, B)
    BY <2>6, <2>7, <2>9 DEF Permuted
  <2>11. Behind(argv', n) = n + 1
    BY <2>7 DEF Behind
  <2>12. Reads(command_line, argv', n + 1, Plain)
    <3>1. \A i \in 1 .. a : argv'[(n + 1) + i] = arguments'[i]
      <4> SUFFICES ASSUME NEW i \in 1 .. a PROVE argv'[(n + 1) + i] = arguments'[i]
        OBVIOUS
      <4>1. (n + 1) + i \in 1 .. Len(options') + Len(arguments')
            /\ ~ ((n + 1) + i <= Len(options')) /\ ((n + 1) + i) - Len(options') = i
        BY <2>2
      <4> QED BY <2>4, <4>1
    <3>2. n + 1 \in Nat /\ Len(argv') = (n + 1) + Len(arguments')
      BY <2>5
    <3> QED BY <1>4, <2>4, <3>1, <3>2, ReadsCopy
  <2>13. Faithful(n, B)'
    BY <1>8, <2>9, <2>11, <2>12
  <2> QED BY <1>1, <1>2, <2>10, <2>13 DEF IsPermuted
<1> QED BY <1>9, <1>10 DEF end_of_options

\* The second pass begins at the first word of argv.
LEMMA SecondPassBegins ==
  ASSUME Grounds, configuration.tasks = <<>>, configuration.listname = NULL, files_applied,
         NEW n \in Nat, NEW B, Permuted(argv, n, B)
  PROVE  Permuted(argv', n, B) /\ Scanned(n, B)' /\ Counted(n, B)'
<1>1. argv' = argv /\ rest' = argv /\ arguments' = <<>> /\ pc = "files" /\ files' = files
  BY DEF files_applied, SecondPass, Scan
<1>2. Len(argv) \in Nat /\ 0 \in B /\ B \subseteq Nat
  BY LenProperties DEF Grounds, TypeInv, Permuted, Decodable
<1>3. Len(argv') - Len(rest') = 0 /\ 0 \in 0 .. Len(argv')
  BY <1>1, <1>2
<1>4. \A i \in 1 .. Len(rest') : rest'[i] = argv'[0 + i]
  BY <1>1, <1>2
<1>5. Scanned(n, B)'
  BY <1>1, <1>2, <1>3, <1>4 DEF Scanned, Seen
<1>6. PICK variable \in Credentials :
        configuration' = set_environment_configuration(configuration, variable)
  BY DEF files_applied, Environment
<1>7. \A f \in {"tasks", "ipv4_only", "listname"} : configuration'[f] = configuration[f]
  <2>1. {"tasks", "ipv4_only", "listname", "gmail_username", "gmail_password"} \subseteq DOMAIN configuration
    BY DEF Grounds, TypeInv, Fields, reset_configuration
  <2> QED BY <1>6, <2>1 DEF set_environment_configuration, Credentials
<1>8. configuration.ipv4_only = LastSetting(files, "ipv4_only")
  BY <1>1 DEF Grounds, FilesInv, FileFields
<1>9. \A W : BegunBefore(n, B, W)' = {}
  <2>1. Seen' = 0
    BY <1>3 DEF Seen
  <2>2. \A W : BegunBefore(n, B, W)' = {k \in Begun(argv', n, B, W) : k < Seen'}
    BY DEF BegunBefore
  <2>3. \A W : Begun(argv', n, B, W) \subseteq Nat
    BY <1>2 DEF Begun
  <2> QED BY <2>1, <2>2, <2>3
<1>10. Counted(n, B)'
  <2>1. Len(configuration'.tasks) = 0 /\ configuration'.listname = NULL
    BY <1>7
  <2>2. configuration'.ipv4_only <=> LastSetting(files', "ipv4_only")
    BY <1>1, <1>7, <1>8
  <2> QED BY <1>9, <2>1, <2>2, FS_EmptySet DEF Counted
<1> QED BY <1>1, <1>5, <1>10

\* What the second pass meets next.
LEMMA NextWord ==
  ASSUME TypeInv, NEW n \in Nat, NEW B, Permuted(argv, n, B), Scanned(n, B)
  PROVE  /\ Seen \in Nat /\ Len(argv) \in Nat /\ Len(rest) = Len(argv) - Seen
         /\ rest = <<>> => /\ Len(arguments) \in {1, 2}
                           /\ Seen >= n /\ Len(arguments) = Len(argv) - n
                           /\ argv[n + 1] \notin Special
                           /\ \A i \in 1 .. Len(arguments) : arguments[i] = argv[n + i]
         /\ rest # <<>> =>
              /\ Len(rest) > 0 /\ Head(rest) = rest[1] /\ rest[1] = argv[Seen + 1]
              /\ \/ /\ Seen \in B /\ Seen < n /\ arguments = <<>>
                    /\ rest[1] \in OptionWords /\ Seen + WordWidth(rest[1]) \in B
                    /\ rest[1] \in Separate => Seen + 1 \notin B
                 \/ /\ arguments = <<>> /\ rest[1] = EndOfOptions
                    /\ Len(rest) - 1 \in {1, 2} /\ Seen = n
                 \/ /\ Seen >= n /\ Len(arguments) = Seen - n
                    /\ rest[1] \notin Special /\ NoOptionsAfter(argv, n)
                    /\ \A i \in 1 .. Len(arguments) : arguments[i] = argv[n + i]
<1>1. Len(argv) \in Nat /\ Len(rest) \in Nat /\ Len(<<>>) = 0
  BY LenProperties DEF TypeInv
<1>2. Seen \in Nat /\ Seen <= Len(argv) /\ Len(rest) = Len(argv) - Seen
  BY <1>1 DEF Scanned, Seen
<1>3. n \in 0 .. Len(argv) /\ B \in SUBSET (0 .. n)
  BY DEF Permuted, Decodable
<1>4. ASSUME rest = <<>>
      PROVE  /\ Len(arguments) \in {1, 2}
             /\ Seen >= n /\ Len(arguments) = Len(argv) - n
             /\ argv[n + 1] \notin Special
             /\ \A i \in 1 .. Len(arguments) : arguments[i] = argv[n + i]
  <2>1. Seen = Len(argv)
    BY <1>1, <1>2, <1>4
  <2>2. n < Len(argv)
    BY <1>1, <1>3 DEF Permuted
  <2>3. Seen \notin B
    BY <1>1, <1>3, <2>1, <2>2
  <2>4. /\ Seen >= n /\ Len(arguments) = Len(argv) - n /\ NoOptionsAfter(argv, n)
        /\ \A i \in 1 .. Len(arguments) : arguments[i] = argv[n + i]
    BY <2>1, <2>3 DEF Scanned
  <2>5. argv[n + 1] \notin Special
    BY <1>1, <1>3, <2>2, <2>4 DEF NoOptionsAfter
  <2> QED BY <2>4, <2>5 DEF Permuted, Special
<1>5. ASSUME rest # <<>>
      PROVE  /\ Len(rest) > 0 /\ Head(rest) = rest[1] /\ rest[1] = argv[Seen + 1]
             /\ Seen < Len(argv)
  <2>1. Len(rest) > 0 /\ Head(rest) = rest[1]
    BY <1>5, FirstWord DEF TypeInv
  <2> QED BY <1>1, <1>2, <2>1 DEF Scanned
<1>6. ASSUME rest # <<>>, Seen \in B, arguments = <<>>, Seen < n
      PROVE  /\ rest[1] \in OptionWords /\ Seen + WordWidth(rest[1]) \in B
             /\ rest[1] \in Separate => Seen + 1 \notin B
  BY <1>5, <1>6 DEF Permuted, Decodable
<1>7. ASSUME rest # <<>>, Seen >= n, Len(arguments) = Seen - n, NoOptionsAfter(argv, n)
      PROVE  rest[1] \notin Special
  <2>1. Seen + 1 \in n + 1 .. Len(argv)
    BY <1>1, <1>2, <1>5, <1>7
  <2> QED BY <1>5, <1>7, <2>1 DEF NoOptionsAfter
<1>8. ASSUME rest # <<>>, Seen = n, arguments = <<>>
      PROVE  \/ rest[1] = EndOfOptions /\ Len(rest) - 1 \in {1, 2}
             \/ /\ Len(arguments) = Seen - n /\ NoOptionsAfter(argv, n)
                /\ \A i \in 1 .. Len(arguments) : arguments[i] = argv[n + i]
  <2>1. Len(arguments) = 0 /\ \A i \in 1 .. Len(arguments) : arguments[i] = argv[n + i]
    BY <1>1, <1>8
  <2> QED BY <1>1, <1>2, <1>5, <1>8, <2>1 DEF Permuted
<1>9. Seen \in B => Seen < n \/ Seen = n
  BY <1>2, <1>3
<1>10. ASSUME rest # <<>>, Seen \in B, arguments = <<>>
       PROVE  \/ /\ Seen \in B /\ Seen < n /\ arguments = <<>>
                 /\ rest[1] \in OptionWords /\ Seen + WordWidth(rest[1]) \in B
                 /\ rest[1] \in Separate => Seen + 1 \notin B
              \/ /\ arguments = <<>> /\ rest[1] = EndOfOptions
                 /\ Len(rest) - 1 \in {1, 2} /\ Seen = n
              \/ /\ Seen >= n /\ Len(arguments) = Seen - n
                 /\ rest[1] \notin Special /\ NoOptionsAfter(argv, n)
                 /\ \A i \in 1 .. Len(arguments) : arguments[i] = argv[n + i]
  <2>1. CASE Seen < n
    BY <1>6, <1>10, <2>1
  <2>2. CASE Seen = n
    BY <1>2, <1>7, <1>8, <1>10, <2>2
  <2> QED BY <1>9, <1>10, <2>1, <2>2
<1> QED BY <1>1, <1>2, <1>4, <1>5, <1>7, <1>10 DEF Scanned

\* The second pass: an option it has met before.
LEMMA SecondPassOption ==
  ASSUME TypeInv, decode_flag \/ decode_task \/ decode_config,
         NEW n \in Nat, NEW B, Permuted(argv, n, B), Scanned(n, B)
  PROVE  /\ argv' = argv /\ Scanned(n, B)'
         /\ Seen \in B /\ Seen < n /\ rest[1] = argv[Seen + 1]
         /\ Seen' = Seen + WordWidth(rest[1])
         /\ rest[1] \in Separate => Seen + 1 \notin B
<1>1. PICK w \in Nat : w = WordWidth(rest[1])
  BY DEF WordWidth
<1>2. /\ rest # <<>> /\ rest[1] \in OptionWords /\ w \in 1 .. Len(rest) /\ TakeOption(w)
  BY <1>1, OptionTaken
<1>3. /\ Seen \in Nat /\ Len(argv) \in Nat /\ Len(rest) = Len(argv) - Seen
      /\ Seen \in B /\ arguments = <<>> /\ Seen + w \in B
      /\ Seen < n /\ rest[1] = argv[Seen + 1] /\ (rest[1] \in Separate => Seen + 1 \notin B)
  BY <1>1, <1>2, NextWord, KindsOfWords DEF Special
<1>4. w \in 0 .. Len(rest)
  BY <1>2, <1>3
<1>5. argv' = argv /\ arguments' = arguments
  BY <1>2 DEF TakeOption
<1>6. Len(rest') = Len(rest) - w /\ \A i \in 1 .. Len(rest) - w : rest'[i] = rest[w + i]
  BY <1>2, <1>4, TakenWords
<1>7. Seen' = Seen + w
  BY <1>3, <1>5, <1>6 DEF Seen
<1>8. Seen + w \in 0 .. Len(argv)
  BY <1>2, <1>3
<1>9. \A i \in 1 .. Len(rest') : rest'[i] = argv[(Seen + w) + i]
  <2> SUFFICES ASSUME NEW i \in 1 .. Len(rest') PROVE rest'[i] = argv[(Seen + w) + i]
    OBVIOUS
  <2>1. i \in 1 .. Len(rest) - w /\ w + i \in 1 .. Len(rest)
    BY <1>2, <1>3, <1>6
  <2>2. rest'[i] = rest[w + i] /\ rest[w + i] = argv[Seen + (w + i)]
    BY <1>6, <2>1 DEF Scanned
  <2>3. Seen + (w + i) = (Seen + w) + i
    BY <1>3
  <2> QED BY <2>2, <2>3
<1>10. Scanned(n, B)'
  BY <1>3, <1>5, <1>7, <1>8, <1>9 DEF Scanned
<1> QED BY <1>1, <1>3, <1>5, <1>7, <1>10

\* The second pass counts the option it has met.
LEMMA CountedOption ==
  ASSUME Grounds, decode_flag \/ decode_task \/ decode_config,
         NEW n \in Nat, NEW B, Permuted(argv, n, B), Scanned(n, B), Counted(n, B)
  PROVE  Counted(n, B)'
<1>1. /\ argv' = argv /\ Seen \in B /\ Seen < n /\ rest[1] = argv[Seen + 1]
      /\ Seen' = Seen + WordWidth(rest[1])
      /\ rest[1] \in Separate => Seen + 1 \notin B
  BY SecondPassOption DEF Grounds
<1>2. B \in SUBSET (0 .. n)
  BY DEF Permuted, Decodable
<1> PICK d \in Nat : d = Seen
  BY <1>1, <1>2
<1>3. \A k \in B : k < Seen' <=> k < d \/ k = d
  <2>1. CASE rest[1] \in Separate
    <3>1. Seen' = d + 2 /\ d + 1 \notin B
      BY <1>1, <2>1 DEF WordWidth
    <3> QED BY <1>2, <3>1
  <2>2. CASE rest[1] \notin Separate
    <3>1. Seen' = d + 1
      BY <1>1, <2>2 DEF WordWidth
    <3> QED BY <1>2, <3>1
  <2> QED BY <2>1, <2>2
<1>4. ASSUME NEW W
      PROVE  /\ BegunBefore(n, B, W)' =
                  BegunBefore(n, B, W) \cup (IF rest[1] \in W THEN {d} ELSE {})
             /\ d \notin BegunBefore(n, B, W)
             /\ IsFiniteSet(BegunBefore(n, B, W))
  <2>1. BegunBefore(n, B, W)' = {k \in Begun(argv, n, B, W) : k < Seen'}
    BY <1>1 DEF BegunBefore
  <2>2. BegunBefore(n, B, W) = {k \in Begun(argv, n, B, W) : k < d}
    BY DEF BegunBefore
  <2>3. d \in Begun(argv, n, B, W) <=> rest[1] \in W
    BY <1>1 DEF Begun
  <2>4. \A k \in Begun(argv, n, B, W) : k \in B
    BY DEF Begun
  <2>5. IsFiniteSet(Begun(argv, n, B, W))
    BY <1>2, BegunFinite
  <2>6. BegunBefore(n, B, W) \in SUBSET Begun(argv, n, B, W) /\ d \notin BegunBefore(n, B, W)
    BY <2>2
  <2>7. IsFiniteSet(BegunBefore(n, B, W))
    BY <2>5, <2>6, FS_Subset
  <2>8. BegunBefore(n, B, W)' =
          BegunBefore(n, B, W) \cup (IF rest[1] \in W THEN {d} ELSE {})
    BY <1>3, <2>1, <2>2, <2>3, <2>4
  <2> QED BY <2>6, <2>7, <2>8
<1>5. /\ rest[1] \in TaskWords =>
           Cardinality(BegunBefore(n, B, TaskWords)') = Cardinality(BegunBefore(n, B, TaskWords)) + 1
      /\ rest[1] \notin TaskWords =>
           Cardinality(BegunBefore(n, B, TaskWords)') = Cardinality(BegunBefore(n, B, TaskWords))
  <2>1. CASE rest[1] \in TaskWords
    <3>1. BegunBefore(n, B, TaskWords)' = BegunBefore(n, B, TaskWords) \cup {d}
      BY <1>4, <2>1
    <3> QED BY <1>4, <2>1, <3>1, FS_AddElement
  <2>2. CASE rest[1] \notin TaskWords
    <3>1. BegunBefore(n, B, TaskWords)' = BegunBefore(n, B, TaskWords)
      BY <1>4, <2>2
    <3> QED BY <2>2, <3>1
  <2> QED BY <2>1, <2>2
<1>6. BegunBefore(n, B, {"-4"})' # {} <=> BegunBefore(n, B, {"-4"}) # {} \/ rest[1] = "-4"
  BY <1>4
<1>7. Head(rest) = rest[1] /\ files' = files
  <2>1. rest # <<>> /\ TakeOption(WordWidth(rest[1]))
    BY OptionTaken DEF Grounds
  <2> QED BY <2>1, FirstWord DEF Grounds, TypeInv, TakeOption
<1>8. {"tasks", "ipv4_only", "listname"} \subseteq DOMAIN configuration
  BY DEF Grounds, TypeInv, Fields, reset_configuration
<1>9. CASE decode_flag
  <2>1. /\ Head(rest) \in {"-v", "-d", "-u", "-4"}
        /\ configuration' = [configuration EXCEPT ![FieldOf[Head(rest)]] = TRUE]
    BY <1>9 DEF decode_flag, NextIs, Flags, FieldOf
  <2>2. /\ FieldOf[Head(rest)] \notin {"tasks", "listname"}
        /\ FieldOf[Head(rest)] = "ipv4_only" <=> Head(rest) = "-4"
    BY <2>1 DEF FieldOf
  <2>3. configuration'.tasks = configuration.tasks /\ configuration'.listname = NULL
    BY <1>8, <2>1, <2>2 DEF Counted
  <2>4. configuration'.ipv4_only = IF Head(rest) = "-4" THEN TRUE ELSE configuration.ipv4_only
    BY <1>8, <2>1, <2>2
  <2>5. rest[1] \notin TaskWords
    BY <1>7, <2>1 DEF TaskWords
  <2>6. configuration'.ipv4_only <=> \/ LastSetting(files', "ipv4_only")
                                     \/ BegunBefore(n, B, {"-4"})' # {}
    BY <1>6, <1>7, <2>4 DEF Counted
  <2>7. Len(configuration'.tasks) = Cardinality(BegunBefore(n, B, TaskWords)')
    BY <1>5, <2>3, <2>5 DEF Counted
  <2> QED BY <2>3, <2>6, <2>7 DEF Counted
<1>10. CASE decode_task
  <2>1. /\ rest[1] \in TaskWords /\ rest[1] # "-4"
        /\ configuration' = [configuration EXCEPT !.tasks = Append(configuration.tasks, ArgvOptind)]
    BY <1>7, <1>10 DEF decode_task, NextIs, TaskWords
  <2>2. ArgvOptind \in Values
    <3>1. TypeInv'
      BY <1>10, TypeOption DEF Grounds
    <3> QED BY <3>1, ArgvOptindTyped
  <2>3. Len(Append(configuration.tasks, ArgvOptind)) = Len(configuration.tasks) + 1
    BY <2>2, AppendProperties DEF Grounds, TypedConfiguration
  <2>4. /\ configuration'.tasks = Append(configuration.tasks, ArgvOptind)
        /\ configuration'.ipv4_only = configuration.ipv4_only
        /\ configuration'.listname = NULL
    BY <1>8, <2>1 DEF Counted
  <2>5. Len(configuration'.tasks) = Cardinality(BegunBefore(n, B, TaskWords)')
    BY <1>5, <2>1, <2>3, <2>4 DEF Counted
  <2>6. configuration'.ipv4_only <=> \/ LastSetting(files', "ipv4_only")
                                     \/ BegunBefore(n, B, {"-4"})' # {}
    BY <1>6, <1>7, <2>1, <2>4 DEF Counted
  <2> QED BY <2>4, <2>5, <2>6 DEF Counted
<1>11. CASE decode_config
  <2>1. /\ rest[1] \in FileWords
        /\ configuration' = [configuration EXCEPT !.configuration_file = ArgvOptind]
    BY <1>7, <1>11 DEF decode_config, NextIs
  <2>2. rest[1] # "-4" /\ rest[1] \notin TaskWords
    BY <2>1 DEF FileWords, TaskWords
  <2>3. /\ configuration'.tasks = configuration.tasks
        /\ configuration'.ipv4_only = configuration.ipv4_only
        /\ configuration'.listname = NULL
    BY <1>8, <2>1 DEF Counted
  <2>4. Len(configuration'.tasks) = Cardinality(BegunBefore(n, B, TaskWords)')
    BY <1>5, <2>2, <2>3 DEF Counted
  <2>5. configuration'.ipv4_only <=> \/ LastSetting(files', "ipv4_only")
                                     \/ BegunBefore(n, B, {"-4"})' # {}
    BY <1>6, <1>7, <2>2, <2>3 DEF Counted
  <2> QED BY <2>3, <2>4, <2>5 DEF Counted
<1> QED BY <1>9, <1>10, <1>11

\* The second pass: a word that is no option, among the last ones.
LEMMA SecondPassArgument ==
  ASSUME TypeInv, skip_argument, NEW n \in Nat, NEW B, Permuted(argv, n, B), Scanned(n, B),
         Counted(n, B)
  PROVE  argv' = argv /\ Scanned(n, B)' /\ Counted(n, B)'
<1>1. /\ rest # <<>> /\ Head(rest) \notin Special /\ rest' = Tail(rest)
      /\ arguments' = Append(arguments, Head(rest)) /\ argv' = argv
      /\ configuration' = configuration /\ files' = files
  BY DEF skip_argument, NextIs, Special
<1>2. /\ Seen \in Nat /\ Len(argv) \in Nat /\ Len(rest) = Len(argv) - Seen /\ Len(rest) > 0
      /\ Seen >= n /\ Len(arguments) = Seen - n /\ NoOptionsAfter(argv, n)
      /\ \A i \in 1 .. Len(arguments) : arguments[i] = argv[n + i]
      /\ Head(rest) = argv[Seen + 1]
  BY <1>1, NextWord, KindsOfWords DEF Special
<1>3. Len(rest') = Len(rest) - 1 /\ \A i \in 1 .. Len(rest) - 1 : rest'[i] = rest[i + 1]
  BY <1>1, HeadTailProperties, EmptySeq DEF TypeInv
<1>4. /\ Len(arguments') = Len(arguments) + 1
      /\ \A i \in 1 .. Len(arguments) : arguments'[i] = arguments[i]
      /\ arguments'[Len(arguments) + 1] = Head(rest)
  <2>1. Head(rest) \in Words
    BY <1>1, FirstWord DEF TypeInv
  <2> QED BY <1>1, <2>1, AppendProperties DEF TypeInv
<1>5. Seen' = Seen + 1
  BY <1>1, <1>2, <1>3 DEF Seen
<1>6. \A i \in 1 .. Len(rest') : rest'[i] = argv[(Seen + 1) + i]
  <2> SUFFICES ASSUME NEW i \in 1 .. Len(rest') PROVE rest'[i] = argv[(Seen + 1) + i]
    OBVIOUS
  <2>1. i \in 1 .. Len(rest) - 1 /\ i + 1 \in 1 .. Len(rest)
    BY <1>2, <1>3
  <2>2. rest'[i] = rest[i + 1] /\ rest[i + 1] = argv[Seen + (i + 1)]
    BY <1>3, <2>1 DEF Scanned
  <2>3. Seen + (i + 1) = (Seen + 1) + i
    BY <1>2
  <2> QED BY <2>2, <2>3
<1>7. Seen + 1 \in 0 .. Len(argv) /\ Seen + 1 >= n
  BY <1>2
<1>8. Len(arguments') = (Seen + 1) - n
  BY <1>2, <1>4
<1>9. \A i \in 1 .. Len(arguments') : arguments'[i] = argv[n + i]
  <2> SUFFICES ASSUME NEW i \in 1 .. Len(arguments') PROVE arguments'[i] = argv[n + i]
    OBVIOUS
  <2> PICK m \in Nat : m = Len(arguments)
    BY <1>2
  <2>1. i \in 1 .. m \/ i = m + 1
    BY <1>4
  <2>2. n + (m + 1) = Seen + 1
    BY <1>2
  <2> QED BY <1>2, <1>4, <2>1, <2>2
<1>10. Scanned(n, B)'
  BY <1>1, <1>2, <1>5, <1>6, <1>7, <1>8, <1>9 DEF Scanned
<1>11. \A W : BegunBefore(n, B, W)' = BegunBefore(n, B, W)
  <2>1. B \in SUBSET (0 .. n)
    BY DEF Permuted, Decodable
  <2>2. \A k \in B : k < n => k < Seen /\ k < Seen'
    BY <1>2, <1>5, <2>1
  <2>3. \A W : BegunBefore(n, B, W)' = {k \in Begun(argv, n, B, W) : k < Seen'}
    BY <1>1 DEF BegunBefore
  <2> QED BY <2>2, <2>3 DEF BegunBefore, Begun
<1>12. Counted(n, B)'
  BY <1>1, <1>11 DEF Counted
<1> QED BY <1>1, <1>10, <1>12

\* The second pass meets no error and no option that ends the program.
LEMMA NoErrorAgain ==
  ASSUME TypeInv, NEW n \in Nat, NEW B, Permuted(argv, n, B), Scanned(n, B)
  PROVE  ~ decode_error /\ ~ print_and_exit
<1>1. ASSUME decode_error PROVE FALSE
  <2>1. /\ rest # <<>> /\ Head(rest) \in Unknown \cup Separate
        /\ Head(rest) \in Separate => ~ (Len(rest) > 1)
    BY <1>1 DEF decode_error, NextIs, HasArgument
  <2>2. /\ Seen \in Nat /\ Len(argv) \in Nat /\ Len(rest) = Len(argv) - Seen
        /\ Head(rest) = rest[1] /\ rest[1] \in OptionWords
        /\ Seen + WordWidth(rest[1]) \in B
    BY <2>1, NextWord, KindsOfWords DEF Special
  <2>3. Head(rest) \in Separate
    BY <2>1, <2>2, KindsOfWords
  <2>4. Seen + 2 \in B
    BY <2>2, <2>3 DEF WordWidth
  <2>5. Seen + 2 <= Len(argv)
    BY <2>2, <2>4 DEF Permuted, Decodable
  <2> QED BY <2>1, <2>2, <2>3, <2>5
<1>2. ASSUME print_and_exit PROVE FALSE
  <2>1. rest # <<>> /\ Head(rest) \in Messages
    BY <1>2 DEF print_and_exit, NextIs
  <2> QED BY <2>1, NextWord, KindsOfWords DEF Special
<1> QED BY <1>1, <1>2

\* The second pass ends with the plain words as its one or two arguments, and it
\* has counted every option.
LEMMA SecondPassEnds ==
  ASSUME Grounds, end_of_options, NEW n \in Nat, NEW B, Permuted(argv, n, B),
         Faithful(n, B), Scanned(n, B), Counted(n, B)
  PROVE  /\ Len(arguments') \in {1, 2} /\ Reads(command_line, arguments', 0, Plain)
         /\ Totals' /\ configuration'.listname = NULL
<1>0. TypeInv
  BY DEF Grounds
<1>1. /\ command_line' = command_line /\ configuration' = configuration /\ files' = files
  BY DEF end_of_options
<1>2. Reads(command_line, argv, Behind(argv, n), Plain)
  BY DEF Faithful
<1>3. Seen \in Nat /\ Len(argv) \in Nat /\ Len(rest) = Len(argv) - Seen /\ argv \in Seq(Words)
  BY <1>0, NextWord DEF TypeInv
<1>4. Len(arguments') \in {1, 2} /\ Reads(command_line, arguments', 0, Plain) /\ Seen >= n
  <2>1. CASE rest = <<>> /\ arguments' = arguments
    <3>1. /\ Len(arguments) \in {1, 2} /\ Seen >= n /\ Len(arguments) = Len(argv) - n
          /\ argv[n + 1] \notin Special
          /\ \A i \in 1 .. Len(arguments) : arguments[i] = argv[n + i]
      BY <1>0, <2>1, NextWord
    <3>2. Behind(argv, n) = n
      BY <3>1 DEF Behind, Special
    <3>3. Len(argv) = n + Len(arguments) /\ arguments \in Seq(Words)
      BY <1>0, <1>3, <3>1 DEF TypeInv
    <3>4. Reads(command_line, arguments, 0, Plain)
      BY <1>2, <1>3, <3>1, <3>2, <3>3, ReadsCopy
    <3> QED BY <2>1, <3>1, <3>4
  <2>2. CASE NextIs({EndOfOptions}) /\ arguments' = arguments \o Tail(rest)
    <3>1. rest # <<>> /\ Head(rest) = EndOfOptions
      BY <2>2 DEF NextIs
    <3>2. /\ arguments = <<>> /\ Len(rest) - 1 \in {1, 2} /\ Seen = n
          /\ rest[1] = EndOfOptions /\ rest[1] = argv[Seen + 1]
      BY <1>0, <3>1, NextWord, KindsOfWords DEF Special
    <3> DEFINE b == Tail(rest)
    <3>3. b \in Seq(Words) /\ Len(b) = Len(rest) - 1 /\ \A i \in 1 .. Len(b) : b[i] = rest[i + 1]
      BY <1>0, <3>1, HeadTailProperties DEF TypeInv
    <3>4. arguments' = b
      BY <2>2, <3>2, <3>3, ConcatEmptySeq
    <3> HIDE DEF b
    <3>5. Behind(argv, n) = n + 1
      BY <3>2 DEF Behind
    <3> PICK k \in {1, 2} : k = Len(b)
      BY <3>2, <3>3
    <3>6. \A i \in 1 .. k : argv[(n + 1) + i] = b[i]
      <4> SUFFICES ASSUME NEW i \in 1 .. k PROVE argv[(n + 1) + i] = b[i]
        OBVIOUS
      <4>1. i + 1 \in 1 .. Len(rest) /\ n + (i + 1) = (n + 1) + i
        BY <1>3, <3>3
      <4> QED BY <3>2, <3>3, <4>1 DEF Scanned
    <3>7. n + 1 \in Nat /\ Len(argv) = (n + 1) + Len(b)
      BY <1>3, <3>2, <3>3
    <3>8. Reads(command_line, b, 0, Plain)
      BY <1>2, <1>3, <3>3, <3>5, <3>6, <3>7, ReadsCopy
    <3> QED BY <1>3, <3>2, <3>4, <3>8
  <2> QED BY <2>1, <2>2 DEF end_of_options
<1>5. \A W : BegunBefore(n, B, W) = Begun(argv, n, B, W)
  <2>1. B \in SUBSET (0 .. n)
    BY DEF Permuted, Decodable
  <2>2. \A k \in B : k < n => k < Seen
    BY <1>3, <1>4, <2>1
  <2> QED BY <2>2 DEF BegunBefore, Begun
<1>6. TaskWords \in SUBSET OptionWords /\ {"-4"} \in SUBSET OptionWords
  BY DEF OptionWords, Flags, FieldOf
<1>7. Len(configuration.tasks) = Cardinality(Given(TaskWords))
  BY <1>5, <1>6 DEF Counted, Faithful
<1>8. configuration.ipv4_only <=> LastSetting(files, "ipv4_only") \/ Given({"-4"}) # {}
  <2>1. Cardinality(Begun(argv, n, B, {"-4"})) = Cardinality(Given({"-4"}))
    BY <1>6 DEF Faithful
  <2>2. IsFiniteSet(Begun(argv, n, B, {"-4"}))
    BY BegunFinite DEF Permuted, Decodable
  <2>3. IsFiniteSet(Given({"-4"}))
    <3> PICK l \in Nat : l = Len(command_line)
      BY LenProperties DEF Grounds, LengthInv
    <3>1. IsFiniteSet(1 .. l)
      <4>1. 1 \in Int /\ l \in Int
        OBVIOUS
      <4> QED BY <4>1, FS_Interval
    <3>2. Positions = 1 .. l
      BY LenProperties DEF Positions, Grounds, LengthInv
    <3>3. Given({"-4"}) \in SUBSET (1 .. l)
      BY <3>2 DEF Given
    <3> QED BY <3>1, <3>3, FS_Subset
  <2>4. Begun(argv, n, B, {"-4"}) = {} <=> Given({"-4"}) = {}
    BY <2>1, <2>2, <2>3, FS_EmptySet
  <2> QED BY <1>5, <2>4 DEF Counted
<1>9. \A W : Given(W)' = Given(W)
  BY <1>1, SameReading
<1>10. Totals'
  BY <1>1, <1>7, <1>8, <1>9 DEF Totals
<1> QED BY <1>1, <1>4, <1>10 DEF Counted

\* Decoding the words of the first pass.
LEMMA FirstPassStep ==
  ASSUME Grounds, PassInv, pass = 1, decode_commandline
  PROVE  PassInv'
<1>0. TypeInv /\ LengthInv
  BY DEF Grounds
<1>1. pass' = 1
  BY DEF decode_commandline, decode_flag, decode_task, decode_config, decode_error,
         print_and_exit, skip_argument, end_of_options, help_and_exit, first_pass_decoded,
         destroy_configuration, second_pass_decoded, wrong_arguments, Exit, TakeOption
<1>2. CASE decode_flag \/ decode_task \/ decode_config
  <2>1. pc = "options" /\ pc' = "options" /\ option_error' = option_error
    BY <1>0, <1>2, OptionTaken DEF decode_flag, decode_task, decode_config, NextIs, TakeOption
  <2>2. ~ option_error => Sorted'
    BY <1>0, <1>2, <2>1, SortedOption DEF PassInv
  <2> QED BY <1>1, <2>1, <2>2 DEF PassInv
<1>3. CASE decode_error
  <2>1. pc' = "options" /\ option_error'
    BY <1>3 DEF decode_error, NextIs, TakeOption
  <2> QED BY <1>1, <2>1 DEF PassInv
<1>4. CASE skip_argument
  <2>1. pc = "options" /\ pc' = "options" /\ option_error' = option_error
    BY <1>4 DEF skip_argument, NextIs
  <2>2. ~ option_error => Sorted'
    BY <1>0, <1>4, <2>1, SortedArgument DEF PassInv
  <2> QED BY <1>1, <2>1, <2>2 DEF PassInv
<1>5. CASE end_of_options
  <2>1. pc = "options" /\ pc' = "arguments" /\ option_error' = option_error
    BY <1>5 DEF end_of_options
  <2>2. ~ option_error /\ Len(arguments') \in {1, 2} => IsPermuted'
    BY <1>0, <1>5, <2>1, EndOfFirstPass DEF PassInv
  <2> QED BY <1>1, <2>1, <2>2 DEF PassInv
<1>6. CASE first_pass_decoded
  <2>1. /\ pc = "arguments" /\ pc' = "files" /\ ~ option_error
        /\ Len(arguments) \in {1, 2} /\ argv' = argv /\ command_line' = command_line
        /\ configuration' = reset_configuration
    BY <1>6 DEF first_pass_decoded
  <2>2. IsPermuted
    BY <2>1 DEF PassInv
  <2>3. IsPermuted'
    BY <2>1, <2>2, FaithfulStays DEF IsPermuted
  <2>4. configuration'.tasks = <<>> /\ configuration'.listname = NULL
    BY <2>1 DEF reset_configuration
  <2> QED BY <1>1, <2>1, <2>3, <2>4 DEF PassInv
<1>7. CASE \/ print_and_exit \/ help_and_exit \/ destroy_configuration \/ wrong_arguments
  <2>1. pc' \in {"exit_success", "exit_failure", "crash", "returned"}
    BY <1>7 DEF print_and_exit, help_and_exit, destroy_configuration, wrong_arguments, Exit
  <2> QED BY <1>1, <2>1 DEF PassInv
<1>8. CASE second_pass_decoded
  BY <1>8 DEF second_pass_decoded
<1> QED BY <1>2, <1>3, <1>4, <1>5, <1>6, <1>7, <1>8 DEF decode_commandline

\* One or two arguments are given their names.
LEMMA ArgumentsNamed ==
  ASSUME TypeInv, Len(arguments) \in {1, 2}, Reads(command_line, arguments, 0, Plain),
         configuration.listname = NULL, configuration' = NamedArguments(configuration),
         command_line' = command_line
  PROVE  /\ configuration'.ical_filename # NULL /\ Named'
         /\ configuration'.tasks = configuration.tasks
         /\ configuration'.ipv4_only = configuration.ipv4_only
<1> PICK k \in {1, 2} : k = Len(arguments)
  OBVIOUS
<1>1. {"tasks", "ipv4_only", "listname", "ical_filename"} \subseteq DOMAIN configuration
  BY DEF TypeInv, Fields, reset_configuration
<1>2. arguments[k] \in Words
  <2>1. k \in 1 .. k
    OBVIOUS
  <2> QED BY <2>1, ElementOfSeq DEF TypeInv
<1>3. arguments[k] # NULL
  BY <1>2, NullAssumption
<1>4. /\ configuration'.ical_filename = arguments[k]
      /\ configuration'.listname = IF k = 2 THEN arguments[1] ELSE NULL
      /\ configuration'.tasks = configuration.tasks
      /\ configuration'.ipv4_only = configuration.ipv4_only
  <2>1. CASE k = 1
    BY <1>1, <2>1 DEF NamedArguments
  <2>2. CASE k = 2
    BY <1>1, <2>2 DEF NamedArguments
  <2> QED BY <2>1, <2>2
<1>5. /\ Cardinality(Plain) = k
      /\ arguments[1] = command_line[Least(Plain)]
      /\ arguments[k] = command_line[Greatest(Plain)]
  <2>1. Len(arguments) - 0 = k /\ Len(arguments) > 0 /\ 0 + 1 = 1
    OBVIOUS
  <2> QED BY <2>1 DEF Reads
<1>6. Plain' = Plain
  BY SameReading
<1>7. Named'
  BY <1>4, <1>5, <1>6 DEF Named
<1> QED BY <1>3, <1>4, <1>7

\* Decoding the words of the second pass.
LEMMA SecondPassStep ==
  ASSUME Grounds, PassInv, pass = 2, decode_commandline, command_line' = command_line
  PROVE  PassInv'
<1>0. TypeInv
  BY DEF Grounds
<1>1. pass' = 2 /\ pc \in {"options", "arguments"} /\ ~ option_error
  BY DEF PassInv, decode_commandline, decode_flag, decode_task, decode_config, decode_error,
         print_and_exit, skip_argument, end_of_options, help_and_exit, first_pass_decoded,
         destroy_configuration, second_pass_decoded, wrong_arguments, Exit, TakeOption, NextIs
<1>2. CASE pc = "options"
  <2>1. PICK n \in Nat, B \in SUBSET Nat : /\ Permuted(argv, n, B) /\ Faithful(n, B)
                                           /\ Scanned(n, B) /\ Counted(n, B)
    BY <1>2 DEF PassInv
  <2>2. ~ decode_error /\ ~ print_and_exit
    BY <1>0, <2>1, NoErrorAgain
  <2>3. CASE decode_flag \/ decode_task \/ decode_config
    <3>1. argv' = argv /\ Scanned(n, B)'
      BY <1>0, <2>1, <2>3, SecondPassOption
    <3>2. Counted(n, B)'
      BY <2>1, <2>3, CountedOption
    <3>3. Permuted(argv', n, B) /\ Faithful(n, B)'
      BY <2>1, <3>1, FaithfulStays
    <3>4. pc' = "options" /\ ~ option_error'
      BY <1>0, <1>1, <1>2, <2>3, OptionTaken DEF TakeOption
    <3> QED BY <1>1, <3>1, <3>2, <3>3, <3>4 DEF PassInv
  <2>4. CASE skip_argument
    <3>1. argv' = argv /\ Scanned(n, B)' /\ Counted(n, B)'
      BY <1>0, <2>1, <2>4, SecondPassArgument
    <3>2. Permuted(argv', n, B) /\ Faithful(n, B)'
      BY <2>1, <3>1, FaithfulStays
    <3>3. pc' = "options" /\ ~ option_error'
      BY <1>1, <1>2, <2>4 DEF skip_argument
    <3> QED BY <1>1, <3>1, <3>2, <3>3 DEF PassInv
  <2>5. CASE end_of_options
    <3>1. /\ Len(arguments') \in {1, 2} /\ Reads(command_line, arguments', 0, Plain)
          /\ Totals' /\ configuration'.listname = NULL
      BY <2>1, <2>5, SecondPassEnds
    <3>2. pc' = "arguments" /\ ~ option_error'
      BY <1>1, <2>5 DEF end_of_options
    <3>3. Reads(command_line', arguments', 0, Plain')
      BY <3>1, SameReading
    <3> QED BY <1>1, <3>1, <3>2, <3>3 DEF PassInv
  <2> QED BY <1>2, <2>2, <2>3, <2>4, <2>5 DEF decode_commandline, help_and_exit,
             first_pass_decoded, destroy_configuration, second_pass_decoded, wrong_arguments
<1>3. CASE pc = "arguments"
  <2>1. /\ Len(arguments) \in {1, 2} /\ Reads(command_line, arguments, 0, Plain)
        /\ Totals /\ configuration.listname = NULL
    BY <1>3 DEF PassInv
  <2>2. second_pass_decoded
    BY <1>1, <1>3 DEF decode_commandline, decode_flag, decode_task, decode_config, decode_error,
           print_and_exit, skip_argument, end_of_options, help_and_exit, first_pass_decoded,
           destroy_configuration, wrong_arguments, NextIs
  <2>3. pc' = "returned" /\ option_error' = option_error /\ files' = files
        /\ configuration' = NamedArguments(configuration)
    BY <2>1, <2>2 DEF second_pass_decoded, scan
  <2>4. /\ configuration'.ical_filename # NULL /\ Named'
        /\ configuration'.tasks = configuration.tasks
        /\ configuration'.ipv4_only = configuration.ipv4_only
    BY <1>0, <2>1, <2>3, ArgumentsNamed
  <2>5. \A W : Given(W)' = Given(W)
    BY SameReading
  <2>6. Totals'
    BY <2>1, <2>3, <2>4, <2>5 DEF Totals
  <2> QED BY <1>1, <2>3, <2>4, <2>6 DEF PassInv
<1> QED BY <1>1, <1>2, <1>3

LEMMA PassStep == Grounds /\ PassInv /\ [Next]_vars => PassInv'
<1> SUFFICES ASSUME Grounds, PassInv, [Next]_vars PROVE PassInv'
  OBVIOUS
<1>0. command_line' = command_line
  BY CommandLineStays
<1>1. CASE decode_commandline
  BY <1>0, <1>1, FirstPassStep, SecondPassStep DEF Grounds, TypeInv
<1>2. CASE apply_one_configuration_file
  <2>1. pc = "files" /\ UNCHANGED <<pc, argv, pass, option_error>>
    BY <1>2 DEF apply_one_configuration_file, Read, scan
  <2>2. pass = 1 /\ IsPermuted
    BY <2>1 DEF PassInv, Grounds, TypeInv
  <2>3. IsPermuted'
    BY <1>0, <2>1, <2>2, FaithfulStays DEF IsPermuted
  <2>4. PICK file \in Files :
          configuration' = [f \in DOMAIN configuration |->
                              IF f \in DOMAIN file.settings
                                THEN file.settings[f] ELSE configuration[f]]
    BY <1>2 DEF apply_one_configuration_file
  <2>5. "tasks" \notin DOMAIN file.settings /\ "listname" \notin DOMAIN file.settings
    BY FilesAssumption DEF FileFields
  <2>6. {"tasks", "listname"} \subseteq DOMAIN configuration
    BY DEF Grounds, TypeInv, Fields, reset_configuration
  <2>7. configuration'.tasks = configuration.tasks /\ configuration'.listname = configuration.listname
    BY <2>4, <2>5, <2>6
  <2> QED BY <2>1, <2>2, <2>3, <2>7 DEF PassInv
<1>3. CASE malformed_file \/ file_without_group
  <2>1. pc = "files" /\ pc' \in {"returned", "crash"} /\ pass' = pass
    BY <1>3 DEF malformed_file, file_without_group, Read
  <2>2. pass = 1
    BY <2>1 DEF PassInv, Grounds, TypeInv
  <2> QED BY <2>1, <2>2 DEF PassInv
<1>4. CASE files_applied
  <2>1. /\ pc = "files" /\ pc' = "options" /\ pass' = 2 /\ ~ option_error'
        /\ argv' = argv
    BY <1>4 DEF files_applied, SecondPass, Scan
  <2>2. PICK n \in Nat, B \in SUBSET Nat : Permuted(argv, n, B) /\ Faithful(n, B)
    BY <2>1 DEF PassInv, IsPermuted
  <2>3. Permuted(argv', n, B) /\ Scanned(n, B)' /\ Counted(n, B)'
    BY <1>4, <2>1, <2>2, SecondPassBegins DEF PassInv
  <2>4. Faithful(n, B)'
    BY <1>0, <2>1, <2>2, FaithfulStays
  <2> QED BY <2>1, <2>3, <2>4 DEF PassInv
<1>5. CASE UNCHANGED vars
  <2>1. /\ UNCHANGED <<pc, pass, option_error, options, arguments, argv, rest, files>>
        /\ configuration' = configuration
    BY <1>5 DEF vars, scan
  <2>2. /\ ArgumentPlaces' = ArgumentPlaces /\ Plain' = Plain
        /\ \A W : Given(W)' = Given(W)
    BY <1>0, SameReading
  <2>3. Done' = Done /\ Seen' = Seen
    BY <2>1 DEF Done, Seen
  <2>4. Sorted' = Sorted
    BY <1>0, <2>1, <2>2, <2>3 DEF Sorted
  <2>5. \A n, B : Faithful(n, B)' = Faithful(n, B)
    BY <1>0, <2>1, FaithfulStays
  <2>6. IsPermuted' = IsPermuted
    BY <2>1, <2>5 DEF IsPermuted
  <2>7. \A n, B : Scanned(n, B)' = Scanned(n, B)
    BY <2>1, <2>3 DEF Scanned
  <2>8. \A n, B, W : BegunBefore(n, B, W)' = BegunBefore(n, B, W)
    BY <2>1, <2>3 DEF BegunBefore
  <2>9. \A n, B : Counted(n, B)' = Counted(n, B)
    BY <2>1, <2>8 DEF Counted
  <2>10. Totals' = Totals /\ Named' = Named
    BY <1>0, <2>1, <2>2 DEF Totals, Named
  <2>11. Reads(command_line, arguments, 0, Plain)' = Reads(command_line, arguments, 0, Plain)
    BY <1>0, <2>1, <2>2
  <2> QED BY <1>0, <2>1, <2>2, <2>4, <2>5, <2>6, <2>7, <2>9, <2>10, <2>11 DEF PassInv
<1> QED BY <1>1, <1>2, <1>3, <1>4, <1>5 DEF Next, apply_configuration_files

LEMMA BothPasses == Spec => []PassInv
  BY PassInit, PassStep, GroundsHold, PTL DEF Spec

\* The second pass over the permuted argv never meets an error or an option
\* that ends the program, and it finds one or two arguments.
THEOREM SecondPassSound == Spec => []SecondPassSucceeds
<1>1. PassInv => SecondPassSucceeds
  BY DEF PassInv, SecondPassSucceeds
<1> QED BY <1>1, BothPasses, PTL

\* initialize_configuration returns TRUE only with the user name, the password
\* and the file.
THEOREM SuccessSound == Spec => []SuccessMeansConfigured
<1>1. Init => SourceInv
  BY DEF Init, SourceInv
<1>2. TypeInv /\ SourceInv /\ PassInv => SuccessMeansConfigured
  BY NullAssumption DEF TypeInv, SourceInv, PassInv, SuccessMeansConfigured
<1> QED BY <1>1, <1>2, SourceStep, BothPasses, Typed, PTL DEF Spec

\* The list and the file of a configured program are the plain words of the
\* command line, wherever the user put them among the options: getopt_long
\* moves them behind the options, and the second pass finds them there.
THEOREM ArgumentsSound == Spec => []ArgumentsSurvive
<1>1. PassInv => ArgumentsSurvive
  BY DEF PassInv, ArgumentsSurvive, Configured, Named
<1> QED BY <1>1, BothPasses, PTL

\* A configured program has as many tasks as the command line has task options,
\* although both passes have decoded each of them.
THEOREM TasksSound == Spec => []TasksCountOnce
<1>1. PassInv => TasksCountOnce
  BY DEF PassInv, TasksCountOnce, Configured, Totals
<1> QED BY <1>1, BothPasses, PTL

\* What a configured program takes from the files is what the last file that
\* sets it says; only -4 adds to it, and a set environment variable replaces the
\* user and the password.
THEOREM FilesOverride == Spec => []LaterFileOverrides
<1>1. Grounds /\ PassInv => LaterFileOverrides
  <2> SUFFICES ASSUME Grounds, PassInv, Configured
               PROVE  /\ \A f \in ClientFields : configuration[f] = FromFiles(f)
                      /\ configuration.ipv4_only = (FromFiles("ipv4_only") \/ Given({"-4"}) # {})
                      /\ credentials = "unset" =>
                           \A f \in CredentialFields : configuration[f] = FromFiles(f)
    BY DEF LaterFileOverrides, ClientFields, CredentialFields
  <2>1. pc = "returned" /\ pass = 2
    BY DEF Configured
  <2>2. configuration.ipv4_only <=> FromFiles("ipv4_only") \/ Given({"-4"}) # {}
    BY <2>1, FromFilesIs DEF PassInv, Totals
  <2>3. configuration.ipv4_only \in BOOLEAN
    BY DEF Grounds, TypedConfiguration, BooleanFields
  <2>4. configuration.ipv4_only = (FromFiles("ipv4_only") \/ Given({"-4"}) # {})
    BY <2>2, <2>3
  <2> QED BY <2>1, <2>4, FromFilesIs DEF Grounds, FilesInv
<1> QED BY <1>1, GroundsHold, BothPasses, PTL
=============================================================================

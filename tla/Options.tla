------------------------------ MODULE Options ------------------------------
(***************************************************************************)
(* The options of genimage (config.c): each may come from its default, the *)
(* environment, the `config' section of the configuration file and the     *)
(* command line.  Which file that is, is itself an option, so that main()  *)
(* calls set_config_opts() twice: once without a file and, when the file   *)
(* has been read, from the beginning.  The rest of the program reads       *)
(* options through get_opt(), and some of them through functions that keep *)
(* the first answer in a static variable.                                  *)
(*                                                                         *)
(* Names are distinct from those of Genimage, so that a module can extend  *)
(* both.                                                                   *)
(***************************************************************************)
EXTENDS Integers, Sequences

CONSTANTS
    Option,                 \* opts[]
    Config, Include, Root,  \* the options config, includepath and rootpath
    InFile,                 \* options that a configuration file may set
    Value, None, Empty,     \* values; no value; the value ""
    Default,                \* .def of each option
    Help, Invalid,          \* -h or -v; what getopt_long() does not know
    Envs, Argvs,            \* environments and command lines to start with
    Disks                   \* what configuration files there are, and say

Maybe == Value \cup {None}
Arg == [opt : Option \cup {Help, Invalid}, val : Value]

ASSUME OptionType ==
    /\ {Config, Include, Root} \subseteq Option
    /\ Config # Include /\ Config # Root /\ Include # Root
    /\ InFile \subseteq Option \ {Config}
    /\ None \notin Value /\ Empty \in Value
    /\ Help \notin Option /\ Invalid \notin Option /\ Help # Invalid
ASSUME SourceType ==
    /\ Default \in [Option -> Maybe] /\ Default[Config] # None
    /\ Envs \subseteq [Option -> Maybe]
    /\ Argvs \subseteq Seq(Arg)
    /\ Disks \subseteq [readable : SUBSET Value, says : [Value -> [Option -> Maybe]]]

VARIABLES
    env, argv, disk,    \* what the process was started with
    stage,              \* where main() is
    pass,               \* the call of set_config_opts(): 1 or 2
    argi,               \* optind
    value,              \* c->value of each option
    read,               \* the file that cfg_parse() has read
    included,           \* the search path it has used
    used                \* what the program was first told of each option

given == <<env, argv, disk>>
optionVars == <<given, stage, pass, argi, value, read, included, used>>

OptionsOK ==
    /\ env \in [Option -> Maybe]
    /\ argv \in Seq(Arg)
    /\ disk \in [readable : SUBSET Value, says : [Value -> [Option -> Maybe]]]
    /\ stage \in {"sources", "argv", "parse", "use", "exited"}
    /\ pass \in 1..2
    /\ argi \in 1..(Len(argv) + 1)
    /\ value \in [Option -> Maybe]
    /\ read \in Maybe
    /\ included \in Maybe
    /\ used \in [Option -> Maybe]

OptionsInit ==
    /\ env \in Envs /\ argv \in Argvs /\ disk \in Disks
    /\ stage = "sources" /\ pass = 1 /\ argi = 1
    /\ value = [o \in Option |-> None]
    /\ read = None /\ included = None
    /\ used = [o \in Option |-> None]

-----------------------------------------------------------------------------
Or(v, w) == IF v # None THEN v ELSE w

\* What the configuration file says, once it has been read.
FileSays(o) == IF pass = 2 /\ o \in InFile THEN disk.says[read][o] ELSE None

\* set_opt() is called for each source that has a value, the last one wins.
FromSources(o) == Or(FileSays(o), Or(env[o], Default[o]))

\* Mutant: optind is where the first pass has left it.
ArgLeft == argi

\* optind = 1.  (Where the first pass has ended at an invalid short option with
\* more letters behind it, as in "-xy", getopt_long() of the C library goes on
\* with those instead; such arguments are not modelled.)
FirstArg == 1

\* The loop over the list of options.  What no source gives stays as it is.
SetFromSources ==
    /\ stage = "sources"
    /\ value' = [o \in Option |-> Or(FromSources(o), value[o])]
    /\ argi' = FirstArg
    /\ stage' = "argv"
    /\ UNCHANGED <<given, pass, read, included, used>>

HasArg == stage = "argv" /\ argi <= Len(argv)

SetFromArg ==
    /\ HasArg /\ argv[argi].opt \in Option
    /\ value' = [value EXCEPT ![argv[argi].opt] = argv[argi].val]
    /\ argi' = argi + 1
    /\ UNCHANGED <<given, stage, pass, read, included, used>>

\* show_help() or show_version(), and exit(0)
ShowHelp ==
    /\ HasArg /\ argv[argi].opt = Help
    /\ stage' = "exited"
    /\ UNCHANGED <<given, pass, argi, value, read, included, used>>

\* The end of the command line, or an error, which main() does not look at.
OptionsSet ==
    /\ stage = "argv"
    /\ HasArg => argv[argi].opt = Invalid
    /\ stage' = IF pass = 1 THEN "parse" ELSE "use"
    /\ UNCHANGED <<given, pass, argi, value, read, included, used>>

-----------------------------------------------------------------------------
\* Mutant: paths are looked up before the file has been read.
UsedAtParse == [used EXCEPT ![Root] = value[Root]]

\* No cached value is asked for before the second call.
UnusedAtParse == used

\* set_include_path() and cfg_parse(): the file may be missing or wrong.
ParseConfig ==
    /\ stage = "parse"
    /\ included' = value[Include]
    /\ used' = UnusedAtParse
    /\ \/ /\ value[Config] \in disk.readable
          /\ read' = value[Config]
          /\ pass' = 2
          /\ stage' = "sources"
       \/ stage' = "exited" /\ UNCHANGED <<pass, read>>
    /\ UNCHANGED <<given, argi, value>>

\* imagepath(), rootpath(), loglevel() and so on: the first answer is kept.
UseOption(o) ==
    /\ stage = "use"
    /\ used[o] = None
    /\ used' = [used EXCEPT ![o] = value[o]]
    /\ UNCHANGED <<given, stage, pass, argi, value, read, included>>

\* disable_rootpath(): collect_mountpoints() found that no image needs it.
DisableRootpath ==
    /\ stage = "use"
    /\ used[Root] = None
    /\ used' = [used EXCEPT ![Root] = Empty]
    /\ UNCHANGED <<given, stage, pass, argi, value, read, included>>

Exit ==
    /\ stage = "use"
    /\ stage' = "exited"
    /\ UNCHANGED <<given, pass, argi, value, read, included, used>>

OptionsNext ==
    \/ SetFromSources \/ SetFromArg \/ ShowHelp \/ OptionsSet \/ ParseConfig
    \/ \E o \in Option : UseOption(o)
    \/ DisableRootpath \/ Exit

OptionsSpec == OptionsInit /\ [][OptionsNext]_optionVars

-----------------------------------------------------------------------------
(* Properties *)

\* Arguments in front of the first invalid one; the others are lost.
Taken == {k \in DOMAIN argv : \A j \in 1..k : argv[j].opt # Invalid}

\* v is the value that the last of the arguments before n gives to o.
LastArg(o, v, n) ==
    \E k \in Taken :
        /\ k < n /\ argv[k].opt = o /\ argv[k].val = v
        /\ \A j \in Taken : j < n /\ argv[j].opt = o => j <= k

NoArg(o, n) == \A k \in Taken : k < n => argv[k].opt # o

(* "1) default value 2) from environment 3) from config file 4) from        *)
(* command line switch": when the program begins to work, each option has   *)
(* the value of the last of these sources that gives one, although all of   *)
(* them have been through twice and the file that is one of them was named  *)
(* by the others; an option without a value has no source.                  *)
InConfigFile(o) == o \in InFile /\ disk.says[read][o] # None

Preferred(o) ==
    IF ~NoArg(o, Len(argv) + 1) THEN LastArg(o, value[o], Len(argv) + 1)
    ELSE /\ InConfigFile(o) => value[o] = disk.says[read][o]
         /\ ~InConfigFile(o) /\ env[o] # None => value[o] = env[o]
         /\ ~InConfigFile(o) /\ env[o] = None => value[o] = Default[o]

Priority == stage = "use" => \A o \in Option : Preferred(o)

(* Nobody acts on a value that changes later: the file that was read is the *)
(* one that the option `config' names in the end, the search path is the    *)
(* final one unless the file sets it, and what the program is told of an    *)
(* option first, and maybe keeps, is its value.                             *)
UsedIsFinal ==
    /\ stage = "use" => read = value[Config]
    /\ stage = "use" /\ disk.says[read][Include] = None => included = value[Include]
    /\ \A o \in Option :
          \/ used[o] \in {None, value[o]}
          \/ o = Root /\ used[o] = Empty
=============================================================================

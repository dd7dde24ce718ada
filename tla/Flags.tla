------------------------------- MODULE Flags --------------------------------
(***************************************************************************)
(* What becomes of a compiler command: compile_db.py turns the entries of  *)
(* compile_commands.json into a flag map, walker.walk chooses from a TU's  *)
(* flags what libclang is given, and pch.build_pch merges the flags of all *)
(* TUs into one command.  The POSIX branches are modelled.                 *)
(*                                                                         *)
(* A token is a record [opt, arg].  "-Idir" is [opt |-> "-I", arg |->      *)
(* "dir"]; an option that stands alone has arg "", and a word that is no   *)
(* option (a path, or the argument of the option before it) has opt "".    *)
(* An argument vector is what follows the compiler, argv[0].               *)
(***************************************************************************)
EXTENDS Listings, SequencesExt

CONSTANTS
    SourceFiles,  \* the words whose suffix is that of a source or header
    SlashWords,   \* a word that begins with /I, /D or /std: |-> the option it
                  \* stands for in a command of MSVC
    Posix,        \* a directory that Path.as_posix spells otherwise |-> how
    Slashed       \* a macro with backslashes |-> the same with slashes

Bare(o) == [opt |-> o, arg |-> ""]
Joined(o, a) == [opt |-> o, arg |-> a]
Word(a) == [opt |-> "", arg |-> a]

IsWord(t) == t.opt = ""
Text(t) == IF IsWord(t) THEN t.arg ELSE t.opt
IsBare(t, options) == t.opt \in options /\ t.arg = ""

ASSUME SlashWordsAreOptions ==
    \A w \in DOMAIN SlashWords :
        LET t == SlashWords[w] IN t = Joined(t.opt, t.arg) /\ t.opt \in {"-I", "-D", "-std="}
ASSUME SpellingsAreNames ==
    /\ \A d \in DOMAIN Posix : Posix[d] # ""
    /\ \A m \in DOMAIN Slashed : Slashed[m] # ""

Respelt(spelling, a) == IF a \in DOMAIN spelling THEN spelling[a] ELSE a

(* A scan of a vector from left to right: what token i adds to the output *)
(* and how many tokens it accounts for, itself included, is step[i].       *)
ScanOne(acc, i, step) ==
    IF i < acc.next THEN acc
    ELSE [out |-> acc.out \o step[i].out, next |-> i + step[i].used]
Scan(step) ==
    LET scan[i \in 0 .. Len(step)] ==
            IF i = 0 THEN [out |-> <<>>, next |-> 1] ELSE ScanOne(scan[i - 1], i, step)
    IN  scan[Len(step)].out

(* Whether a token follows token i and does not start with a dash. *)
WordFollows(tokens, i) == i < Len(tokens) /\ IsWord(tokens[i + 1])

Keep(t) == [out |-> <<t>>, used |-> 1]
KeepTwo(t, u) == [out |-> <<t, u>>, used |-> 2]
(* An option is kept with the word that follows it, if one does. *)
KeepOption(tokens, i) ==
    IF WordFollows(tokens, i) THEN KeepTwo(tokens[i], tokens[i + 1]) ELSE Keep(tokens[i])
Skip(n) == [out |-> <<>>, used |-> n]

(* takes_path_arg *)
TakesPathArg ==
    {"-include", "-isystem", "-iframework", "-cxx-isystem", "-I", "-D", "-L",
     "-F", "-iquote", "-idirafter", "-isysroot", "-sysroot"}

StripStep(argv, i) ==
    LET t == argv[i] IN
    CASE IsBare(t, {"-o", "--output", "-MF", "-MT", "-MQ"}) -> Skip(2)
      [] (t.opt = "-o" /\ t.arg # "") \/ IsBare(t, {"-c", "-MD", "-MMD", "-MP"}) -> Skip(1)
      [] IsBare(t, TakesPathArg) -> KeepOption(argv, i)
      [] IsWord(t) /\ t.arg \in SourceFiles -> Skip(1)
      [] OTHER -> Keep(t)

StripNonFlags(argv) == Scan([i \in DOMAIN argv |-> StripStep(argv, i)])

(* The options whose names begin with -include and with -isystem; the code *)
(* knows both families by these letters.                                   *)
IncludeFamily == {"-include", "-include-pch"}
IsystemFamily == {"-isystem", "-isystem-after"}

(* -includefile becomes -include file, but what begins with -include- is   *)
(* left alone.                                                             *)
FixFlag(t) ==
    IF t.opt \in IncludeFamily \ {"-include-pch"} /\ ~IsBare(t, IncludeFamily)
    THEN <<Bare("-include"), Word(t.arg)>>
    ELSE <<t>>
FixFlags(flags) == FlattenSeq([i \in DOMAIN flags |-> FixFlag(flags[i])])

ExtractFlags(entry) == FixFlags(StripNonFlags(entry.argv))

(* load: a dict keeps the place of a key's first assignment and the value  *)
(* of the last.  File names are taken as _resolve_file leaves them.        *)
LoadOrder(db) ==
    LET files == [i \in DOMAIN db |-> db[i].file]
    IN  Selection(files, Firsts(files))

EntriesOf(db, f) == {i \in DOMAIN db : db[i].file = f}
LastEntry(db, f) == CHOOSE i \in EntriesOf(db, f) : \A j \in EntriesOf(db, f) : j <= i
LoadFlags(db) ==
    [f \in {db[i].file : i \in DOMAIN db} |-> ExtractFlags(db[LastEntry(db, f)])]

(* A slip in the loop: the argument of an option is not copied. *)
CleanedWithoutArguments(flags) ==
    SelectSeq(flags, LAMBDA t : t.opt \in TakesPathArg \cup {"-std="})

(* The options that the loop of walk keeps with the word that follows. *)
KeptApart ==
    {"-include", "-isystem", "-iframework", "-cxx-isystem", "-iquote", "-idirafter", "-isysroot"}

(* The loop of walk that fills cleaned_flags.  -I and -D and whatever else *)
(* begins with -isystem or -include are kept as they stand: the argument   *)
(* of a bare one is lost with all other words.                             *)
CleanStep(flags, i) ==
    LET t == flags[i] IN
    CASE IsBare(t, KeptApart) -> KeepOption(flags, i)
      [] t.opt \in {"-I", "-D", "-std="} \cup IncludeFamily \cup IsystemFamily
            /\ ~IsBare(t, KeptApart) -> Keep(t)
      [] IsWord(t) /\ t.arg \in DOMAIN SlashWords -> Keep(SlashWords[t.arg])
      [] OTHER -> Skip(1)

CleanedFlags(flags) == Scan([i \in DOMAIN flags |-> CleanStep(flags, i)])

(* What index.parse is given, but for the resource directory and the PCH. *)
ParseFlags(flags) ==
    LET cleaned == CleanedFlags(flags) IN
    cleaned
        \o <<Bare("-x"), Word("c++")>>
        \o (IF \E i \in DOMAIN cleaned : cleaned[i].opt = "-std=" THEN <<>>
            ELSE <<Joined("-std=", "c++17")>>)
        \o <<Bare("-Wno-everything")>>

(* The loop of build_pch over one TU: the -I, -D and -std flags worth      *)
(* keeping, a bare -I joined with what follows it, directories and macros  *)
(* respelt.                                                                *)
JoinsNext(flags, i) == IsBare(flags[i], {"-I"}) /\ i < Len(flags)
WorthKeeping(t) ==
    \/ t.opt \in {"-I", "-D", "-stdlib="}
    \/ t.opt = "-std=" /\ t.arg \notin {"c++11", "c++14", "c++17"}

PchSpelling(t) ==
    CASE t.opt = "-I" -> Joined("-I", Respelt(Posix, t.arg))
      [] t.opt = "-D" -> Joined("-D", Respelt(Slashed, t.arg))
      [] OTHER -> t

(* A slip: a bare -I is kept without what follows it. *)
PchFlagsUnjoined(flags) ==
    LET kept == SelectSeq(flags, WorthKeeping) IN [i \in DOMAIN kept |-> PchSpelling(kept[i])]

PchFlagStep(flags, i) ==
    CASE IsBare(flags[i], {"-include"}) -> Skip(2)
      [] JoinsNext(flags, i) ->
            [out |-> <<PchSpelling(Joined("-I", Text(flags[i + 1])))>>, used |-> 2]
      [] WorthKeeping(flags[i]) /\ ~JoinsNext(flags, i) -> Keep(PchSpelling(flags[i]))
      [] OTHER -> Skip(1)

PchFlagsOf(flags) == Scan([i \in DOMAIN flags |-> PchFlagStep(flags, i)])

(* merged_flags: each flag once, in the order it is first seen. *)
MergedFlags(order, flagMap) ==
    LET all == FlattenSeq([i \in DOMAIN order |-> PchFlagsOf(flagMap[order[i]])])
    IN  Selection(all, Firsts(all)) \o <<Joined("-std=", "c++20")>>

-----------------------------------------------------------------------------
(* How a compiler reads a vector: an option that takes an argument and has *)
(* none joined to it takes the next token, whatever that is.  A separate   *)
(* argument and a joined one mean the same.                                *)
TakesArg ==
    TakesPathArg \cup {"-o", "--output", "-MF", "-MT", "-MQ", "-x", "-U", "-imacros",
                       "-include-pch", "-isystem-after", "--sysroot"}
MeaningStep(tokens, i) ==
    LET t == tokens[i] IN
    IF IsBare(t, TakesArg) /\ i < Len(tokens)
    THEN [out |-> <<Joined(t.opt, Text(tokens[i + 1]))>>, used |-> 2]
    ELSE Keep(t)
Meaning(tokens) == ToSet(Scan([i \in DOMAIN tokens |-> MeaningStep(tokens, i)]))

(* The part of the meaning that decides what a header declares, but for   *)
(* the standard: where headers are found, what is included before the      *)
(* file, and the macros.                                                   *)
SearchOptions ==
    {"-I", "-D", "-U", "-F", "-include", "-include-pch", "-imacros", "-isystem",
     "-isystem-after", "-cxx-isystem", "-iquote", "-idirafter", "-iframework",
     "-isysroot", "-sysroot", "--sysroot", "-nostdinc", "-stdlib="}
Searched(tokens) == {t \in Meaning(tokens) : t.opt \in SearchOptions}

=============================================================================

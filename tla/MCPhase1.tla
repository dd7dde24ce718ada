------------------------------ MODULE MCPhase1 ------------------------------
(* Instances of Phase1Properties for TLC. *)
EXTENDS Phase1Properties, TLC

CONSTANTS acpp, bcpp, ccpp, h1, h2, h3, w1, w2

MCSourceFiles == {acpp, bcpp, ccpp}

(* Classes: Node has a second base that does not start at 0 and a field    *)
(* that hides one of its first base; Leaf has a diamond of bases at 0.     *)
F(name, offset, tag, to) ==
    [name |-> name, offset |-> offset, type |-> [tag |-> tag, to |-> to]]
B(class, offset) == [class |-> class, offset |-> offset]

MCClasses == {"Base", "Other", "Node", "Empty", "Left", "Right", "Leaf"}
MCFields ==
    "Base"  :> <<F("x", 0, "prim", "i32"), F("next", 8, "ptr", "Base")>>
 @@ "Other" :> <<F("y", 0, "prim", "u8"), F("x", 4, "prim", "u8")>>
 @@ "Node"  :> <<F("next", 24, "ptr", "Node"), F(None, 32, "record", "Base")>>
 @@ "Empty" :> <<>>
 @@ "Left"  :> <<F("l", 16, "array", "u8")>>
 @@ "Right" :> <<F("l", 16, "chars", "i8"), F("r", 20, "enum", "E")>>
 @@ "Leaf"  :> <<F("v", 32, "ptr", "void")>>
MCBases ==
    "Base"  :> <<>> @@ "Other" :> <<>> @@ "Empty" :> <<>>
 @@ "Node"  :> <<B("Base", 0), B("Other", 16)>>
 @@ "Left"  :> <<B("Base", 0)>> @@ "Right" :> <<B("Base", 0)>>
 @@ "Leaf"  :> <<B("Left", 0), B("Right", 0), B("Empty", 0)>>
MCSizeOf ==
    "Base" :> 16 @@ "Other" :> 8 @@ "Node" :> 40 @@ "Empty" :> 1
 @@ "Left" :> 24 @@ "Right" :> 24 @@ "Leaf" :> 40

(* Cursors *)
I32 == [tag |-> "prim", to |-> "i32"]
C(kind, name, usr, scopes, loc) ==
    [kind |-> kind, name |-> name, usr |-> usr, scopes |-> scopes, foreign |-> FALSE,
     def |-> TRUE, loc |-> loc, type |-> I32, args |-> <<>>, values |-> <<>>]
In(kind, name) == <<[kind |-> kind, name |-> name]>>

(* One function at three scores, two overloads, a method in a union in a   *)
(* class, two records of one name, nested enums of one short name, forward *)
(* declarations, an excluded and a foreign function.                       *)
FunctionLow  == C("function", "f", "_Z1fv", <<>>, "a.h:1")
FunctionMid  == C("method", "f", "_Z1fv", In("union", "U"), "a.cpp:1")
FunctionHigh == C("method", "f", "_Z1fv", In("class", "Node"), "a.cpp:1")
Overload     == C("function", "f", "_Z1fi", <<>>, "a.cpp:2")
InUnion      == C("method", "g", "_ZN1U1gEv", In("union", "U") \o In("struct", "S"), "a.h:2")
NodeClass    == C("class", "Node", "Node", <<>>, None)
NodeDecl     == [NodeClass EXCEPT !.def = FALSE]
LeafAsNode   == C("struct", "Node", "Leaf", In("namespace", "n"), None)
EnumA        == C("enum", "E", "A::E", In("class", "A"), None)
EnumB        == C("enum", "E", "B::E", In("class", "B"), None)
Alias        == C("typedef", "T", "T", <<>>, None)
Secret       == C("function", "secret", "_Z6secretv", <<>>, "a.h:3")
Foreign      == [Overload EXCEPT !.usr = "_Z6printf", !.foreign = TRUE]
Unnamed      == C("union", None, "anon", <<>>, None)
MCHidden     == {<<None, "secret">>}

MCTus ==
    { acpp :> <<NodeDecl, NodeClass, FunctionLow, Overload, EnumA, EnumB>>
   @@ bcpp :> <<LeafAsNode, FunctionHigh, Alias, EnumB>>
   @@ ccpp :> <<NodeDecl, FunctionMid, Secret, Foreign>>,
      acpp :> <<Unnamed, InUnion, Alias>> @@ bcpp :> <<>> @@ ccpp :> <<NodeClass, Alias>> }

(* Commands and databases *)
Entry(file, argv) == [file |-> file, argv |-> argv]
Plainly(file) == Entry(file, <<Joined("-I", "inc"), Bare("-c"), Word(file)>>)
ThreeFiles == <<Plainly(acpp), Plainly(bcpp), Plainly(ccpp)>>

MCSlashWords == "/Data" :> Joined("-D", "ata")
MCPosix == "./inc" :> "inc"
MCSlashed == "S=a\\b" :> "S=a/b"

Tokens ==
    {Joined("-I", "./inc"), Bare("-I"), Joined("-D", "M"), Joined("-D", "S=a\\b"), Bare("-D"),
     Bare("-isystem"), Joined("-iquote", "dir"), Joined("-include", "pre"), Bare("-include-pch"),
     Bare("-L"), Bare("-o"), Word("dir"), Word("/Data"), Word(acpp), Bare("-Wall"),
     Joined("-std=", "c++17")}
TakesWord(t) == IsBare(t, {"-I", "-D", "-isystem", "-include-pch", "-L", "-o"})
(* Commands that a compiler can run: an option's argument follows it. *)
Commands ==
    {argv \in [1 .. 3 -> Tokens] :
        \A i \in 1 .. 3 :
            /\ TakesWord(argv[i]) => i < 3 /\ argv[i + 1].arg \in {"dir", "/Data"} /\ IsWord(argv[i + 1])
            /\ argv[i] \in {Word("dir"), Word("/Data")} => i > 1 /\ TakesWord(argv[i - 1])}

Project(dbs, includes, hidden, pchWanted, tus, outside) ==
    [dbs |-> dbs, includes |-> includes, hidden |-> hidden, pch |-> pchWanted,
     tus |-> tus, outside |-> outside]

NoTus == [f \in MCSourceFiles |-> <<>>]
Alone == [f \in MCSourceFiles |-> <<<<h1>>>>]

(* The pool: three TUs in every order, one of them possibly left out. *)
WalkProjects ==
    {Project(<<ThreeFiles>>, Alone, {}, FALSE, t, out) : t \in MCTus, out \in {{}, {bcpp}}}

(* The cache: two databases, three files that include in different orders, *)
(* two headers on a line, an excluded header.                              *)
Includes ==
    { acpp :> <<<<h1>>, <<h2>>>> @@ bcpp :> <<<<h3>>, <<h2>>>> @@ ccpp :> <<<<h1>>>>,
      acpp :> <<<<h1>>, <<h2>>>> @@ bcpp :> <<<<h2>>, <<h1>>>> @@ ccpp :> <<<<h3>>, <<h1>>>>,
      acpp :> <<<<h1, h2>>>> @@ bcpp :> <<<<h2>>>> @@ ccpp :> <<>> }
CacheProjects ==
    {Project(<<ThreeFiles, <<Plainly(acpp)>> >>, inc, {<<h3>>}, TRUE, NoTus, MCSourceFiles)
        : inc \in Includes}

(* The flags: short commands for one file, whose entry comes twice, beside *)
(* another file's.                                                         *)
FlagProjects ==
    {Project(<< <<Plainly(acpp), Plainly(bcpp), Entry(acpp, argv)>> >>,
             Alone, {}, wanted, NoTus, MCSourceFiles) : argv \in Commands, wanted \in BOOLEAN}

MCProjects == WalkProjects \cup CacheProjects \cup FlagProjects

=============================================================================

------------------------------ MODULE MCPhase2 ------------------------------
(* Instances of Phase2Properties for TLC. *)
EXTENDS Phase2Properties, TLC

(* Every name that is ever sorted, in the order of its text. *)
MCNames ==
    <<"A", "A::bar", "B", "C", "Node", "T", "Z10player_hitPv", "Z3foo_v", "Z3fooi", "Z3foov",
      "Z4drawP4NodeiP1AP1B", "Z4pushSt6vectorIP4NodeSaIS1_EEPv", "Z4sendR4NodeP1B",
      "Z4sortP4NodePP1AP1B", "ZN1A3barEv", "_Z10player_hitPv", "_Z3foo_v", "_Z3fooi", "_Z3foov",
      "_Z3foov.cold.0", "_Z4drawP4NodeiP1AP1B", "_Z4pushSt6vectorIP4NodeSaIS1_EEPv",
      "_Z4sendR4NodeP1B", "_Z4sortP4NodePP1AP1B", "_ZN1A3barEv", "__augment_pdb_age",
      "__augment_pdb_guid_hi", "__augment_pdb_guid_lo", "anon", "bar", "draw", "foo", "foo_",
      "hidden", "main", "player_c::hit", "player_hit", "push", "s", "send", "sort", "x", "y",
      "z">>
MCRank == [n \in ToSet(MCNames) |-> SelectInSeq(MCNames, LAMBDA m : m = n)]

(* The names in mangled text, with their length in front. *)
WithLength ==
    "3foo" :> "foo" @@ "1A" :> "A" @@ "1B" :> "B" @@ "3bar" :> "bar" @@ "4Node" :> "Node"
 @@ "10player_hit" :> "player_hit" @@ "4draw" :> "draw" @@ "4push" :> "push"
 @@ "6vector" :> "vector" @@ "1_" :> "_" @@ "4send" :> "send" @@ "4sort" :> "sort"
Lexed(text) ==
    [i \in DOMAIN text |->
        IF text[i] \in DOMAIN WithLength THEN Counted(WithLength[text[i]]) ELSE Letter(text[i])]

(* A mangled name: its text up to the parameters, and these. *)
Itanium(raw, norm, flat, plain, head, params) ==
    [mangled |-> TRUE, cold |-> FALSE, scoped |-> FALSE, c |-> FALSE, raw |-> raw,
     norm |-> norm, flat |-> flat, plain |-> plain, text |-> head, params |-> params]
Plain(name) == [Itanium(name, name, name, name, <<>>, <<>>) EXCEPT !.mangled = FALSE]
Scoped(raw, name) ==
    [Plain(name) EXCEPT !.raw = raw, !.norm = raw, !.scoped = TRUE, !.c = TRUE]

Spellings ==
    "_Z3foov" :> Itanium("Z3foov", "foo", "foo", "Z3foov", <<"Z", "3foo">>, << <<"v">> >>)
 @@ "_Z3fooi" :> Itanium("Z3fooi", "foo", "foo", "Z3fooi", <<"Z", "3foo">>, << <<"i">> >>)
 @@ "_Z3foo_v" :> Itanium("Z3foov", "foo", "foo_", "Z3foo_v", <<"Z", "3foo">>, << <<"_", "v">> >>)
 @@ "_Z3foov.cold.0" :>
        [Itanium("Z3foov.cold.0", "foo", "foo", "Z3foov", <<"Z", "3foo">>,
                 << <<"v", ".", "c", "o", "l", "d", ".", "0">> >>) EXCEPT !.cold = TRUE]
 @@ "_ZN1A3barEv" :>
        Itanium("ZN1A3barEv", "Abar", "A::bar", "ZN1A3barEv",
                <<"Z", "N", "1A", "3bar", "E">>, << <<"v">> >>)
 @@ "_Z10player_hitPv" :>
        Itanium("Z10playerhitPv", "playerhit", "player_hit", "Z10player_hitPv",
                <<"Z", "10player_hit">>, << <<"P", "v">> >>)
 @@ "_Z4drawP4NodeiP1AP1B" :>
        Itanium("Z4drawP4NodeiP1AP1B", "draw", "draw", "Z4drawP4NodeiP1AP1B",
                <<"Z", "4draw">>, << <<"P", "4Node">>, <<"i">>, <<"P", "1A">>, <<"P", "1B">> >>)
 @@ "_Z4pushSt6vectorIP4NodeSaIS1_EEPv" :>
        Itanium("Z4pushSt6vectorIP4NodeSaIS1EEPv", "push", "push",
                "Z4pushSt6vectorIP4NodeSaIS1_EEPv", <<"Z", "4push">>,
                << <<"S", "t", "6vector", "I", "P", "4Node", "S", "a", "I", "S", "1_", "E", "E">>,
                   <<"P", "v">> >>)
 @@ "_Z4sendR4NodeP1B" :>
        Itanium("Z4sendR4NodeP1B", "send", "send", "Z4sendR4NodeP1B",
                <<"Z", "4send">>, << <<"R", "4Node">>, <<"P", "1B">> >>)
 @@ "_Z4sortP4NodePP1AP1B" :>
        Itanium("Z4sortP4NodePP1AP1B", "sort", "sort", "Z4sortP4NodePP1AP1B",
                <<"Z", "4sort">>, << <<"P", "4Node">>, <<"P", "P", "1A">>, <<"P", "1B">> >>)
 @@ "foo" :> Plain("foo") @@ "main" :> Plain("main") @@ "hidden" :> Plain("hidden")
 @@ "A::bar" :> Scoped("Abar", "A::bar")
 @@ "player_c::hit" :> Scoped("playerchit", "player_c::hit")
AsRead(n) ==
    [n EXCEPT !.text = Lexed(@ \o FlattenSeq(n.params)),
              !.params = [i \in DOMAIN @ |-> Lexed(@[i])]]
MCSymbol ==
    LET read[s \in {Spellings}] == [k \in DOMAIN s |-> AsRead(s[k])]
    IN  read[Spellings]

MCPrimitives == "int" :> "i32" @@ "float" :> "f32"
MCSimple == "int" :> "i32" @@ "void" :> "void"
MCArgNames == <<"arg0", "arg1", "arg2">>

-----------------------------------------------------------------------------
(* The headers *)
Returns(text, class) == [text |-> text, of |-> class]
Arg(name, kind, view) == [name |-> name, kind |-> kind, view |-> view]
Fn(mangled, flat, loc) ==
    [mangled |-> mangled, flat |-> flat, member |-> FALSE, self_view |-> None, loc |-> loc,
     generated |-> FALSE, ret |-> Returns("ptr", None), args |-> <<>>, self_norm |-> None,
     self_class |-> None]

FooV == Fn("_Z3foov", "foo", "a.h:1")
FooI == [Fn("_Z3fooi", "foo", "a.h:2") EXCEPT
    !.ret = Returns("i32", None), !.args = <<Arg("n", "i32", None)>>]
Bar == [Fn("_ZN1A3barEv", "A_bar", "a.h:3") EXCEPT !.member = TRUE, !.self_view = "A"]
Hit == [Fn("_Z10player_hitPv", "player_hit", "a.h:4") EXCEPT
    !.args = <<Arg("self", "ptr", None)>>, !.self_norm = "playerchit", !.self_class = "player_c"]
HitTwo == [Hit EXCEPT !.args = @ \o <<Arg("n", "i32", None)>>]
Draw == [Fn("_Z4drawP4NodeiP1AP1B", "draw", "a.h:5") EXCEPT
    !.args = <<Arg("a", "ptr", None), Arg("n", "i32", None), Arg("b", "ptr", "int"),
                Arg("c", "ptr", "T")>>]
Send == [Fn("_Z4sendR4NodeP1B", "send", "a.h:6") EXCEPT
    !.args = <<Arg("a", "ptr", "Node"), Arg("b", "ptr", None)>>]
Push == [Fn("_Z4pushSt6vectorIP4NodeSaIS1_EEPv", "push", "a.h:8") EXCEPT
    !.args = <<Arg("a", "struct", "vector"), Arg("b", "ptr", None)>>]
Sort == [Fn("_Z4sortP4NodePP1AP1B", "sort", "a.h:9") EXCEPT
    !.args = <<Arg("a", "ptr", "T"), Arg("b", "ptr", None), Arg("c", "ptr", None)>>]
Clone == Fn("_Z3foov.cold.0", "foo", "a.h:7")
Made == [Fn("_Z3foo_v", "foo_", "augment_generated.h:1") EXCEPT !.generated = TRUE]

Field(name, offset, kind) ==
    [name |-> name, offset |-> offset, kind |-> kind, len |-> -1, view |-> None]
StructA == [name |-> "A", size |-> 8,
            fields |-> <<Field("x", 0, "i32"), Field("y", -1, "ptr"), Field("q", 4, "i32")>>]
StructC == [name |-> "C", size |-> 0, fields |-> <<Field("w", -1, "i32"), Field("x", 24, "ptr")>>]

(* The binary *)
Die(at, tag, name) ==
    [at |-> at, tag |-> tag, name |-> name, linkage |-> None, size |-> None,
     location |-> None, type |-> None, low_pc |-> None, decl |-> FALSE, spec |-> None]
Leaf(die) == [die |-> die, children |-> <<>>]
Sub(at, name, low) == Leaf([Die(at, "subprogram", name) EXCEPT !.low_pc = low])
Linked(at, low) == Leaf([Die(at, "subprogram", "foo") EXCEPT !.linkage = "_Z3foov", !.low_pc = low])
Decl(at, name) == Leaf([Die(at, "subprogram", "foo") EXCEPT !.linkage = name, !.decl = TRUE])
SpecOf(at, spec, low) == Leaf([Die(at, "subprogram", None) EXCEPT !.spec = spec, !.low_pc = low])

Subs ==
    {Linked(1, 1), Decl(2, "_Z3foov"), SpecOf(3, 2, 2), SpecOf(4, 2, 3),
     Leaf([Die(5, "subprogram", "main") EXCEPT !.decl = TRUE]), SpecOf(6, 5, 2),
     SpecOf(7, 9, 4), Sub(8, "foo", None)}

Type(base, suffix) == [base |-> base, suffix |-> suffix]
MemberDie(name, location, type) ==
    Leaf([Die(0, "member", name) EXCEPT !.location = location, !.type = type])
ClassUnit(name, size, children) ==
    [die |-> [Die(0, "class_type", name) EXCEPT !.size = size], children |-> children]
Inner == ClassUnit("B", 4, <<MemberDie("z", 0, Type("int", "*"))>>)
Parts ==
    {MemberDie("x", 0, Type("int", "")), MemberDie("y", 4, Type("Node", "*")),
     MemberDie("s", None, Type("int", "[]")), Leaf(Die(0, "inheritance", None)),
     Leaf(Die(0, "template_type_parameter", "T")),
     Leaf([Die(0, "subprogram", "bar") EXCEPT !.linkage = "_ZN1A3barEv", !.decl = TRUE]), Inner}

(* Sequences of up to n different members of a set, and of any of them. *)
Orders(set, n) == UNION {{s \in [1 .. k -> set] : IsInjective(s)} : k \in 0 .. n}
Words(set, n) == UNION {[1 .. k -> set] : k \in 0 .. n}

Nm(name, addr, kind) == [name |-> name, addr |-> addr, kind |-> kind]
Nms == {Nm("_Z3foov", 1, "T"), Nm("_Z3fooi", 2, "t"), Nm("foo", 1, "T"), Nm("_Z3foo_v", 3, "T"),
        Nm("_Z3foov.cold.0", 4, "t"), Nm("_ZN1A3barEv", 5, "T"), Nm("hidden", 6, "U")}

Rec(n, kind, name) ==
    [id |-> <<"record", n>>, kind |-> kind, name |-> name, fwdref |-> FALSE, fieldlist |-> None,
     size |-> None, members |-> <<>>, bases |-> <<>>, cont |-> None, to |-> None, ret |-> None,
     arglist |-> None, class |-> None, this |-> None, args |-> <<>>, function |-> None]
Rid(n) == <<"record", n>>
Mem(name, offset) == [name |-> name, offset |-> offset]
BaseAt(n, offset) == [id |-> Rid(n), offset |-> offset]

(* Field lists: A's goes on in another, B's is a base at 8, C has A and a  *)
(* base that the stream does not have.                                     *)
Lists ==
    <<[Rec(11, "FIELDLIST", None) EXCEPT
        !.members = <<Mem("x", 16)>>, !.bases = <<BaseAt(3, 8)>>, !.cont = Rid(12)],
      [Rec(12, "FIELDLIST", None) EXCEPT !.members = <<Mem("y", 20), Mem("x", 24)>>],
      [Rec(13, "FIELDLIST", None) EXCEPT !.members = <<Mem("x", 0)>>],
      [Rec(14, "FIELDLIST", None) EXCEPT !.members = <<Mem("z", 0), Mem("x", 4)>>],
      [Rec(15, "FIELDLIST", None) EXCEPT
        !.members = <<Mem("w", 32)>>, !.bases = <<BaseAt(1, 8), BaseAt(9, 0)>>]>>
ClassRecs ==
    {[Rec(1, "CLASS", "A") EXCEPT !.fieldlist = Rid(11), !.size = 24],
     [Rec(2, "STRUCTURE", "A") EXCEPT !.fieldlist = Rid(13), !.size = 4],
     [Rec(3, "STRUCTURE", "B") EXCEPT !.fieldlist = Rid(14), !.size = 8],
     [Rec(4, "CLASS", "A") EXCEPT !.fwdref = TRUE],
     [Rec(5, "CLASS", "C") EXCEPT !.fieldlist = Rid(15), !.size = 40]}

(* The types of the functions: a method of A, a function of pointers, one  *)
(* whose this is no pointer to its class, a type that is an id too.        *)
FunctionTypes ==
    <<[Rec(3, "STRUCTURE", "B") EXCEPT !.fieldlist = Rid(14), !.size = 8],
      [Rec(4, "CLASS", "A") EXCEPT !.fwdref = TRUE],
      [Rec(20, "POINTER", None) EXCEPT !.to = Rid(4)],
      [Rec(21, "MODIFIER", None) EXCEPT !.to = Rid(20)],
      [Rec(22, "ARGLIST", None) EXCEPT !.args = <<Rid(21), <<"simple", "int">>, Rid(3)>>],
      [Rec(23, "MFUNCTION", None) EXCEPT
        !.ret = Rid(21), !.arglist = Rid(22), !.class = Rid(4), !.this = Rid(20)],
      [Rec(24, "PROCEDURE", None) EXCEPT !.ret = <<"pointer", "void">>, !.arglist = Rid(22)],
      [Rec(25, "MFUNCTION", None) EXCEPT
        !.ret = <<"simple", "int">>, !.class = Rid(4), !.this = <<"pointer", "int">>],
      [Rec(14, "FIELDLIST", None) EXCEPT !.members = <<Mem("z", 0), Mem("x", 4)>>]>>
FunctionIds ==
    <<[Rec(30, "MFUNC_ID", None) EXCEPT !.class = Rid(4), !.function = Rid(25)],
      [Rec(31, "FUNC_ID", None) EXCEPT !.function = Rid(24)],
      [Rec(32, "FUNC_ID", None) EXCEPT !.function = Rid(32)]>>

Number(n) == [form |-> "dec", hex |-> n + 100, dec |-> n]
Hex(n) == [form |-> "padded", hex |-> n, dec |-> n + 100]
Proc(name, seg, off, type) ==
    [kind |-> "S_GPROC32_ID", name |-> name, seg |-> Number(seg), off |-> off, type |-> type]
Procs ==
    {Proc("A::bar", 1, Number(3), Rid(30)), Proc("A::bar", 1, Hex(2), Rid(31)),
     Proc("A::bar", 1, Number(5), None), Proc("player_c::hit", 1, Number(5), Rid(23)),
     Proc("foo", 2, Number(1), Rid(32)), Proc("foo", 2, Number(4), Rid(25)),
     Proc("main", 0, Number(7), Rid(24)), Proc("main", 9, Number(7), Rid(24)),
     [Proc("hidden", 1, Number(9), Rid(24)) EXCEPT !.kind = "S_PUB32"]}

-----------------------------------------------------------------------------
Base ==
    [format |-> "dwarf", sigs |-> FALSE, demangler |-> TRUE, tool |-> TRUE, flaky |-> FALSE,
     runs |-> 1, ast |-> "whole", functions |-> <<FooV>>, structs |-> <<>>, enums |-> <<>>,
     typedefs |-> <<>>, units |-> <<>>, symbols |-> <<>>, procs |-> <<>>,
     sections |-> <<10, 20>>, types |-> <<>>, ids |-> <<>>, identity |-> None]

(* Definitions, declarations and what refers to them in any order, printed *)
(* by a tool that may die.                                                 *)
DwarfFunctions ==
    {[Base EXCEPT !.units = u, !.flaky = TRUE, !.symbols = <<Nm("_Z3fooi", 2, "T")>>]
        : u \in Orders(Subs, 3)}

(* A class with any three parts, before or after another one of its name.  *)
PlainA == ClassUnit("A", 16, <<MemberDie("x", 4, Type("float", "")), MemberDie("y", 8, None)>>)
DwarfTypes ==
    {[Base EXCEPT !.units = u, !.structs = <<StructA>>, !.functions = <<Draw>>] :
        u \in UNION {{<<ClassUnit("A", 12, w)>>, <<PlainA, ClassUnit("A", 12, w)>>,
                      <<ClassUnit(n, 12, w), PlainA>>} : w \in Words(Parts, 3), n \in {"A", "anon"}}}

(* Any symbols in any order against overloads, clones and methods. *)
HeaderFunctions ==
    {<<FooV, FooI>>, <<FooI, FooV, Bar>>, <<Bar, Clone>>, <<Made, Draw, Send>>, <<Push, Sort>>}
MergeSymbols ==
    {[Base EXCEPT !.symbols = s, !.functions = f, !.demangler = d] :
        s \in Orders(Nms, 3), f \in HeaderFunctions, d \in BOOLEAN}

(* Two overloads of which the binary has one. *)
Overloads == {[Base EXCEPT !.functions = <<FooV, FooI>>, !.symbols = <<Nm("_Z3foov", 1, "T")>>]}

(* Two subprograms of one linkage name, and one that has none.             *)
DuplicatesAndPlain ==
    {[Base EXCEPT !.units = <<Linked(1, 1), Linked(2, 4), Sub(3, "main", 2)>>]}

PdbBase == [Base EXCEPT !.format = "pdb", !.types = FunctionTypes, !.ids = FunctionIds,
                        !.identity = <<1, 2, 3>>]
PdbFunctions ==
    {[PdbBase EXCEPT !.procs = p, !.sigs = s, !.functions = f] :
        p \in Orders(Procs, 3), s \in BOOLEAN,
        f \in {<<FooV, Bar>>, <<Hit, FooI>>, <<HitTwo>>}}
PdbTypes ==
    {[PdbBase EXCEPT !.types = c \o Lists, !.structs = <<StructC, StructA>>,
                     !.functions = <<Draw, Bar>>, !.flaky = (Len(c) = 3)] : c \in Orders(ClassRecs, 5)}

(* All sections, with groups of one name, negative values and no owner,    *)
(* run again after a crash; and the ways to fail.                          *)
Enum(name, owner, values) == [name |-> name, owner |-> owner, values |-> values]
Value(name, value) == [name |-> name, value |-> value]
Outputs ==
    {[PdbBase EXCEPT !.runs = 2, !.functions = f, !.sigs = TRUE, !.flaky = l,
                     !.structs = <<StructC, StructA>>,
                     !.enums = <<Enum("T", None, <<Value("x", -1), Value("y", 7)>>),
                                 Enum("B", "A", <<>>)>>,
                     !.typedefs = <<[alias |-> "T", kind |-> "i32"], [alias |-> "A", kind |-> "ptr"]>>,
                     !.procs = <<Proc("foo", 1, Number(4), Rid(24))>>] :
        f \in {<<FooV, FooI, Made>>, <<HitTwo, Send, FooI, Bar, FooV>>, <<>>}, l \in BOOLEAN}
Failures ==
    {[Base EXCEPT !.ast = "torn"], [Base EXCEPT !.ast = "none", !.runs = 2],
     [Base EXCEPT !.sigs = TRUE], [Base EXCEPT !.tool = FALSE],
     [PdbBase EXCEPT !.tool = FALSE, !.sigs = TRUE], [PdbBase EXCEPT !.tool = FALSE]}

MCInputs ==
    DwarfFunctions \cup DwarfTypes \cup MergeSymbols \cup PdbFunctions \cup PdbTypes
        \cup Outputs \cup Failures
=============================================================================

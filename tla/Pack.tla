-------------------------------- MODULE Pack --------------------------------
(***************************************************************************)
(* The manifest file of output/pack.py: pack, and the Reader that finds    *)
(* records in it by name.                                                  *)
(*                                                                         *)
(* A field of the file is one word, whatever its width: an integer, or the *)
(* place of a string in the string table.  The blob is a record of its     *)
(* three parts, the table, the entries of each section and the payloads.   *)
(* No string is "" (None is stored as "").                                 *)
(***************************************************************************)
EXTENDS Names

CONSTANT
    WordBits     \* bits of an enum value (64)

SectionNames == {"functions", "structs", "enums", "globals", "typedefs"}

NameOf(section, r) ==
    CASE section = "functions" -> r.flat
      [] section = "typedefs"  -> r.alias
      [] OTHER                 -> r.name

(* The types of the words of a record: "s" a string, "i" an integer, and   *)
(* "n" the count of what is repeated after it.                             *)
Leading(section) ==
    CASE section = "functions" -> <<"s", "i", "i", "s", "s", "s", "n">>
      [] section = "structs"   -> <<"i", "n">>
      [] section = "enums"     -> <<"s", "n">>
      [] section = "globals"   -> <<"s", "i">>
      [] section = "typedefs"  -> <<"s">>
Repeated(section) ==
    CASE section = "functions" -> <<"s", "s", "s">>
      [] section = "structs"   -> <<"s", "i", "s", "i", "s">>
      [] section = "enums"     -> <<"s", "i">>
      [] OTHER                 -> <<>>

(* _rva, _u64 *)
Address(a) == IF a = None THEN 0 ELSE a
Unsigned(v) == v % (2 ^ WordBits)

(* _pack_func to _pack_typedef: the values of a record, word by word. *)
EachOf(seq, F(_)) == FlattenSeq([i \in DOMAIN seq |-> F(seq[i])])

ValuesOf(section, r) ==
    CASE section = "functions" ->
            <<r.mangled, IF r.member THEN 1 ELSE 0, Address(r.rva), r.loc, r.ret.text,
              r.self_view, Len(r.args)>>
            \o EachOf(r.args, LAMBDA a : <<a.name, a.kind, a.view>>)
      [] section = "structs" ->
            <<r.size, Len(r.fields)>>
            \o EachOf(r.fields, LAMBDA f : <<f.name, f.offset, f.kind, f.len, f.view>>)
      [] section = "enums" ->
            <<r.owner, Len(r.values)>>
            \o EachOf(r.values, LAMBDA v : <<v.name, Unsigned(v.value)>>)
      [] section = "globals" -> <<r.kind, Address(r.addr)>>
      [] section = "typedefs" -> <<r.kind>>

TypeAt(section, i) ==
    IF i <= Len(Leading(section)) THEN Leading(section)[i]
    ELSE Repeated(section)[((i - Len(Leading(section)) - 1) % Len(Repeated(section))) + 1]

(* _Str.add: a string is stored once; None is the empty string, at 0. *)
Place(table, s) == IF s = None THEN 0 ELSE SelectInSeq(table, LAMBDA t : t = s)
Intern(table, s) == IF s = None \/ Contains(table, s) THEN table ELSE Append(table, s)

(* One record: its words after their number. *)
PackWord(st, type, value) ==
    LET table == IF type = "s" THEN Intern(st.table, value) ELSE st.table
    IN  [st EXCEPT !.table = table,
                   !.payloads = Append(@, IF type = "s" THEN Place(table, value) ELSE value)]

PackRecord(st, section, r) ==
    LET values == ValuesOf(section, r)
        packed[i \in 0 .. Len(values)] ==
            IF i = 0 THEN [st EXCEPT !.payloads = Append(@, Len(values))]
            ELSE PackWord(packed[i - 1], TypeAt(section, i), values[i])
    IN  packed[Len(values)]

(* One name: the number of its records, then the records. *)
AddEntry(st, section, name, at) ==
    LET table == Intern(st.table, name)
    IN  [st EXCEPT !.table = table,
                   !.entries[section] = Append(@, [name |-> Place(table, name), at |-> at])]

PackGroup(st, section, name, records) ==
    LET packed[k \in 0 .. Len(records)] ==
            IF k = 0 THEN [st EXCEPT !.payloads = Append(@, Len(records))]
            ELSE PackRecord(packed[k - 1], section, records[k])
    IN  AddEntry(packed[Len(records)], section, name, Len(st.payloads))

(* A slip: the last record of a name replaces the others. *)
GroupedLast(manifest, section, name) ==
    <<manifest[section][SelectLastInSeq(manifest[section],
                                        LAMBDA r : NameOf(section, r) = name)]>>

(* groups, by name, and sorted(groups). *)
Grouped(manifest, section, name) ==
    LET records == manifest[section]
    IN  Selection(records, {i \in DOMAIN records : NameOf(section, records[i]) = name})
SortedNames(manifest, section) ==
    Alphabetical({NameOf(section, manifest[section][i]) : i \in DOMAIN manifest[section]})

PackSection(st, manifest, section) ==
    LET names == SortedNames(manifest, section)
        packed[j \in 0 .. Len(names)] ==
            IF j = 0 THEN st
            ELSE PackGroup(packed[j - 1], section, names[j], Grouped(manifest, section, names[j]))
    IN  packed[Len(names)]

EmptyBlob == [table |-> <<>>, payloads |-> <<>>, entries |-> [s \in SectionNames |-> <<>>]]

PackManifest(manifest) ==
    LET functions == PackSection(EmptyBlob, manifest, "functions")
        structs == PackSection(functions, manifest, "structs")
        enums == PackSection(structs, manifest, "enums")
        globals == PackSection(enums, manifest, "globals")
    IN  PackSection(globals, manifest, "typedefs")

-----------------------------------------------------------------------------
(* Reader._s *)
StringAt(blob, place) == IF place = 0 THEN None ELSE blob.table[place]

(* bisect_left over the names of a section: the range it searches, from lo *)
(* up to before hi, shrinks in every round, so that there are no more      *)
(* rounds than entries.                                                    *)
Halve(blob, entries, name, range) ==
    LET mid == (range.lo + range.hi) \div 2 IN
    CASE range.lo >= range.hi -> range
      [] range.lo < range.hi /\ Rank[StringAt(blob, entries[mid].name)] < Rank[name] ->
            [range EXCEPT !.lo = mid + 1]
      [] OTHER -> [range EXCEPT !.hi = mid]

BisectLeft(blob, section, name) ==
    LET entries == blob.entries[section]
        narrowed[k \in 0 .. Len(entries)] ==
            IF k = 0 THEN [lo |-> 1, hi |-> Len(entries) + 1]
            ELSE Halve(blob, entries, name, narrowed[k - 1])
    IN  narrowed[Len(entries)].lo

(* _read_func and the readers of the other sections, from a word on. *)
ReadRecord(blob, section, p) ==
    LET fixed == Len(Leading(section))
        n == IF Leading(section)[fixed] = "n" THEN blob.payloads[p + fixed - 1] ELSE 0
    IN  [i \in 1 .. fixed + n * Len(Repeated(section)) |->
            IF TypeAt(section, i) = "s" THEN StringAt(blob, blob.payloads[p + i - 1])
            ELSE blob.payloads[p + i - 1]]

(* _records: after the number of the records, each after its length. *)
ReadGroup(blob, section, p) ==
    LET count == blob.payloads[p + 1]
        start[k \in 0 .. count] ==
            IF k = 0 THEN p + 2 ELSE start[k - 1] + blob.payloads[start[k - 1]] + 1
    IN  [k \in 1 .. count |-> ReadRecord(blob, section, start[k - 1] + 1)]

(* _payload, and the records there. *)
Lookup(blob, section, name) ==
    LET entries == blob.entries[section]
        i == BisectLeft(blob, section, name)
    IN  IF i > Len(entries) \/ StringAt(blob, entries[i].name) # name THEN <<>>
        ELSE ReadGroup(blob, section, entries[i].at)

=============================================================================

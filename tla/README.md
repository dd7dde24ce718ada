# Augment in TLA+

Augment patches functions of a running program: callers register *hooks* on a
symbol, the runtime redirects the function to a closure, and the closure runs
the hooks before, instead of, or after the original. What the functions are
called, where they are and what they take, the runtime reads from a manifest
that a build-time extractor makes from the headers and the binary. This directory
holds TLA+ models of the runtime and of the extractor, TLC configurations that check them on small instances,
and theorems checked by TLAPS. Paths below are relative to the repository.

## 1. Inventory

| Part | State it keeps | Operations | Correct when |
|---|---|---|---|
| Conflict rules, `src/runtime/conflict.cpp` | none | `conflict_check` | the answer does not depend on load order; class 3 never enters a chain |
| Chain, `src/runtime/chain.cpp` | `entries`, `dirty`, `saved`, `target_ptr`, `installed` | `add`, `remove_augment`, `sort`, `run_before`, `run_after`, `dispatch` | sorted by priority, ties by age; at most one body runs |
| Registry, `src/runtime/registry.cpp` | `m_chains`, `m_installed`, `m_mutex`, `ptr_hooks` | the C API | patches and chains agree; readers see stable, sorted chains; every call returns |
| Closures, `src/runtime/closure.cpp` | signature, struct, field, closure and instance tables (no lock) | `closure_handler`, `augment_make_closure`, `augment_call`, instances | a closure fits the signature it is called with; instances are unique and ordered |
| Hook backend, `src/platform/hook_backend.cpp` | the patches in the code, MinHook's table | `hook_install`, `hook_remove`, `self_test` | a failed install leaves nothing; a self test leaves nothing |
| Symbol resolution, `src/platform/sym_resolve.cpp` | none | `sym_resolve`, `func_gap` | pure I/O over the image |
| Manifest reader, `src/runtime/manifest.cpp` | buffer, indices, RVA table, a cached decision | `load`, queries | answers come from the last loaded file |
| Introspection, `src/runtime/introspect.cpp` | none of its own | `augment_manifest_load`, queries | the tables follow the manifest |
| Extractor phase 1, `tools/extractor/extract.py` | the flag map; `combined`, `seen_index`, `richness_cache` | walk all TUs in a pool of processes, merge what comes back, write `ast.json` | the result is that of the scores, not of timing; nothing is lost; it ends |
| Header walker, `tools/extractor/ast_walk/walker.py`, `compile_db.py` | the `seen` sets of a TU | flag filters, the four visitors | libclang sees what the compiler sees; fields are those of the class |
| PCH cache, `tools/extractor/ast_walk/pch.py` | the header and a hash file | staleness test, dependency scans, build, stamp | a stale header is never taken for a fresh one; includes are in order |
| Extractor phase 2, `extract.py`, `merge.py` | records, address map, layouts | join headers and binary, add stubs, apply layouts, write two files | one address, one function; headers decide types, the binary offsets |
| Binary readers, `tools/extractor/binary/` | parse state | DWARF and PDB scans | addresses are definitions; members land in their own type |
| Manifest writer, `tools/extractor/output/pack.py` | string table, payloads | `pack`, `Reader` | the reader finds what the writer wrote |
| Wrapper generator, `tools/walker/walk.py` | none | text generation; its dispatch functions make the same three calls as `closure_handler` | `cancelled` is copied back; the context is complete (`arg_count` is left 0, line 319) |

How they interact: admin threads call the C API, which locks `m_mutex`
exclusively, edits chains, and then patches functions **without** the lock
(`install_chain`), asking the closure tables for a trampoline, the resolver for
an address and the backend for a patch. Threads of the host enter a patched
function, land in `closure_handler` (or in the dispatch function `walk.py`
generated and handed to `augment_register_ptr` from a static initialiser: the
same sequence of calls, so the same `EnterClosure`), take the lock shared to run the BEFORE
hooks, drop it, run the original through the trampoline, and take it again for
the AFTER hooks. `augment_invoke` keeps the lock for the whole call and
`augment_enter` runs the BEFORE half only.

The extractor runs before all this, as two command line programs. Phase 1 reads
`compile_commands.json`, builds or reuses a precompiled header (threads run
`clang -M`), walks every TU in a pool of processes and merges the records as
they arrive. Phase 2 reads its output, asks the LLVM tools about the binary, and
writes the manifest twice, as JSON and packed. The two share nothing but files.

What is hard in the runtime: the window between patching and publishing
(`registry.cpp:177-183`), `Chain*` kept across an unlock (`:119`, `:219`), state
that is different at `after()` from what it was at `before()`, a resolver whose
answer changes when a manifest is loaded, and a lazy sort under a shared lock
(`chain.cpp:32`). In the extractor: results in any order and processes that die
(`extract.py:190`), a cache whose key is read after its content (`pch.py:34`),
tools that stop early unnoticed (`dwarf.py:304`), and a chain of guesses that
joins names that are not quite equal (`merge.py:287-349`). The full list is under `hazards` in `PROJECT.json`.

## 2. Modules

| Module | Models |
|---|---|
| `Contract` | `conflict_check`: two predicates on a pair of entries and their lift to a chain |
| `Listings` | the sequences that go through a set of indices of a list in some order: what a stable sort, a removal, a filter and a loop over "not seen yet" have in common |
| `Chain` | `sort`, `remove_augment` and the loops that pick the next hook |
| `ChainHistory`, `MCChainHistory` | one chain under any history of registrations and removals, beside a record of who came when |
| `HookTable` | abstract: what callers are promised, a table of hooks with no locks, threads or patches. It translates no code |
| `Registry` | the C API and the closure as threads |
| `RegistryProperties` | what `Registry` has to satisfy, and its refinement of `HookTable` |
| `MCRegistry` | instances for TLC |
| `ListingTheorems`, `ChainTheorems` | lemmas about listings; about sorting and removal |
| `ChainHistoryProofs` | theorems about `ChainHistory` |
| `RegistryProofs` | typing, the lock, sorted chains, conflicts; that `Registry` implements `HookTable` |
| `RegistryTheorems` | what one call fires and runs; what is patched |
| `Flags` | compiler commands: the filters of `compile_db.py`, `walker.py`, `pch.py`, and what a command means |
| `Walker` | which records the cursors of a TU become |
| `Pch` | the cache on disk, `build_pch` step by step, edits of `compile_commands.json` |
| `Phase1` | `phase1`: extends `Pch` and `Walker` with the pool, the merge and the output |
| `Names` | what phase 2 does with names: sorting, and dicts that take each name once |
| `Dwarf`, `Pdb` | what the two backends make of the output of the LLVM tools |
| `Merge`, `Layouts` | `merge.py`, and the layouts applied by `extract.py` |
| `Pack` | the packed file and its Python reader |
| `Phase2` | `phase2`: extends the five, step by step, with tools that fail and crashes |
| `Phase1Properties`, `Phase2Properties` | what the two phases have to satisfy |
| `MCPhase1`, `MCPhase2` | their inputs for TLC |
| `Phase1Proofs`, `Phase2Proofs` | theorems about `Phase1`, `Phase2` |
| `PackProofs` | what the reader of `Pack` finds in what its writer wrote |

### State and actions of `Registry`

`chains` is the key set of `m_chains`; `entries`, `dirty`, `saved`, `target_ptr`
and `installed` are the fields of its nodes. `writer` and `readers` are who
holds `m_mutex` *between* steps. `patch` says where each function jumps to: to
the closure of a symbol, to a raw replacement (`Raw`), or nowhere. An original
is identified by its target, so `saved[s]` is the target whose trampoline the
chain keeps. `job`, `req`, `pending`, `current` are an admin's program counter
and locals; `stage`, `call` are a player's, `call` with the record of what the
call has fired.

Everything the code does under the exclusive lock in one go is one action
(`Unregister`, `InstallAll`, `RegisterPtr`, `ClearFinish`), enabled when the lock
is free. `register_augment` is finer: `RegisterCheck` takes the lock and keeps
it, `RegisterCommit` inserts, sorts and releases. `install_chain` is three
steps, because nothing protects it: the preparation and the patch
(`InstallHook`, or `InstallFails`), then the two writes (`InstallPublish`).
`Registry::clear` is two, since `unhook_all_ptr` runs under another mutex.
Callbacks run one per step (`RunBefore`, `RunReplace`, `RunAfter`), so anything
that does not need the lock can happen between two of them.

`install_chain` works through a `Chain&` after the unlock. When the node is
erased the symbol enters `dangling[a]`, and from then on reads through the
pointer return anything and the two writes are lost or land in some other node.
This is undefined behaviour in C++; the model takes these outcomes and does not
follow the allocator or a crash.

Abstractions: an entry is `[phase, priority, id, reads, writes]`; `tag`, `fn`,
`userdata` and `affects` decide nothing here. Domain names are members of a set.
A callback either sets `cancelled` or does not; callers of `augment_invoke` and
`augment_enter` pass a context that is not cancelled yet. `sym_resolve` is a
constant function (`Exported`), the manifest adds `Located` once loaded, and a
closure can be made once the signature is known (`Signed`, or the manifest). A
backend patches a function once and needs `func_gap` of 16 bytes (`Hookable`).
`Registry::dispatch` returns nothing the properties look at.

### State and actions of `Phase1`

`cdb`, `pch` and `stamp` are what is on disk: which content
`compile_commands.json` has, which content the PCH was built from, and whose hash
the `.md5` file holds. `read` and `flag_map` are what this run has loaded, `pc` is
where it is. `order` is `seen` of `_extract_include_order`. The pool is `tasks`
(chunks nobody has taken), `busy` (the chunk of each process) and `results`;
`combined`, `seen_index` and `richness_cache` are the dicts of `phase1`, and
`inbox` holds the records of the current result. `scanned`, `accounted`,
`walked`, `arrived`, `raced` and `suspect` are history for the properties.

The actions follow the program: `Load`, `AskStale`, `ScanArrives` (one per
dependency scan, any order, may fail), `ParseUmbrella`, `SavePch`, `StampPch`;
then `StartPool`, `TakeResult`, `MergeRecord` (one record per step), `EndWalk`,
`OpenManifest`, `DumpManifest`. Beside it run `TakeChunk`, `ReturnChunk` (any of
its TUs may fail) and `WorkerDies` of each process, `EditDb` of the build system,
and `Restart`, which may come at any step: that is a crash.

Abstractions: a cursor is a record of what the visitors ask of it; a class has
fields and bases with offsets; libclang is a constant function. A token of a
command is an option with or without a joined argument, or a word, so the code's
tests on the first letters of a token are sets of options (`IncludeFamily`,
`IsystemFamily`). What it does to the letters of an argument is given by three
tables: the words that begin like an option of MSVC (`SlashWords`), the directories
that `Path.as_posix` spells otherwise (`Posix`) and the macros with backslashes
(`Slashed`). A header is its name; the PCH is the content it came from.

### State and actions of `Phase2`

`input` is the binary, the manifest of phase 1 and the options, chosen at the
start. The other variables are the locals of `phase2` and the two files, each
"none", "torn" or "whole". There is one action per call in `phase2`; one that
reads from a tool has a twin for the case that it is missing or fails. The
backends, the merge and the packer are operators, since nothing interleaves with
them. A reader that does not look at the exit status of its tool (`extract_rvas`
of DWARF, both `extract_struct_layouts`) may be given any prefix of its output.

Abstractions: a dump is the sequence of its DIEs or records; the regular
expressions are left out. `Symbol` gives what the code reads in a symbol: its
demangled name, its normal form, and its text as `merge.py:28` takes it apart,
letters and names with their length in front. `params` is the same text cut into
parameters, which the code does not know and only `ViewsFit` looks at. Words of the packed file have
no width, save enum values, which wrap at `WordBits` (4 in place of 64).

## 3. Runs

| Run | Instance | Question |
|---|---|---|
| `chain_history` | 6 entries, 5 registrations | are run order and admission independent of history? |
| `registry_one_admin` | 1 admin, 1 player, 2 symbols on 1 target, raw hooks on it, manifest late | do patches agree with chains, and calls run one body? |
| `registry_two_admins` | 2 admins (symmetric), 1 player, 1 symbol, raw hooks on its target | does the lock protect chains; is `HookTable` implemented? |
| `registry_live` | 2 admins, 1 player, fairness | does every call return? |
| `phase1` | 3 TUs, 2 processes of which one may die, 2 runs, 2 edits | does the merge depend on timing; is the cache trusted when stale; does it end? |
| `phase2` | all short inputs of seven kinds | does what the binary says reach the right function, field and file? |
| `merge_duplicates` | two overloads, one of them in the binary | a name that both have appears once (violated) |
| `dwarf_tested` | two definitions of one name, one subprogram without a linkage name | which names and addresses the tests expect (violated) |
| `before_drops_original` | 1 admin, 1 player | documented BEFORE semantics (violated) |
| `install_all_once` | 1 admin, manifest late | documented install_all (violated) |
| `unregister_pointers` | 2 symbols | documented unregister (violated) |
| `install_unlocked` | 2 admins | `install_chain` outside its lock (violated) |

Bounds. `MaxEntries` caps the entries of a chain, counting offers in flight; two
are enough for every rule that compares two entries, and `chain_history` goes to
five for those about positions. `MaxAdds` caps registrations per history. The
catalogues have pairs for every conflict rule, two owners and all three phases
(`registry_one_admin`), or two priorities in one phase
(`registry_two_admins`). Two admins are enough to race on one chain; the
theorems below cover any number. Two symbols on one target is the case in which
clean-up by address could hit the wrong chain.

The instances split the dimensions because one instance with all of them is too
large: two symbols need one admin, two admins need one symbol. What the split
leaves out is two admins racing on two symbols; `install_unlocked` shows that
the patch properties already fail with two admins on one.

Bounds of `phase1`. The projects come in three families, each with what its
question needs and the rest small: the pool (three TUs, with and without one
outside the project, in chunks of one: more results in flight than processes),
the cache (three files that include headers in different orders, two contents of
`compile_commands.json`, so that an edit can bring the first back), and the flags
(all commands of three tokens that a compiler accepts, out of sixteen, with every
way in which walk treats a token). Their
trees hold one function at three scores, overloads, two records of one name, a
diamond of bases, a base that does not start at 0, and forward declarations.
`ScanLimit` is 3 in place of 20 and `MinChunk` 1 in place of 4, `MaxEdits`,
`MaxRuns` and `MaxDeaths` are 2, 2 and 1: an edit that undoes another, a run
after a crash, and a death.

Bounds of `phase2`. `DwarfFunctions` are all orders of up to three of eight
subprograms (declarations, definitions, definitions that refer to a declaration
before or after them); `DwarfTypes` all classes with up to three parts out of
seven, before or after another of the name; `MergeSymbols` all orders of up to
three of seven symbols against five sets of header functions, with and without a
demangler; `PdbFunctions` and `PdbTypes` all orders of up to three procedures and
up to five class records; `Outputs` fill all sections and run twice; `Failures`
are the ways to stop. Three of a kind show every tie and every order of two with
a third to disturb them.

Deadlock is not checked in the passing runs. `Phase1` and `Phase2` stop when they
are done or failed, and `Phase1` also when a process has died. In `chain_history` the bound ends
the history. In the registry runs nobody is obliged to call, so a state in which
all threads are idle and only the bounds forbid a new call is legitimate.

Fairness (`registry_live`): weak fairness of the steps of a call that has begun,
one condition per thread. It says that threads are scheduled and that hooks and
originals return. No fairness is put on beginning a call, nor on getting
`m_mutex` past a stream of other users: C++ promises no such thing, so
`AdminCallsReturn` and `PlayerCallsReturn` assume that the others eventually
leave the runtime alone.

`Phase1` has weak fairness of the main program and of each process: the first is
sequential Python that never waits except for the pool, and a process of the pool
that has a chunk works on it. Nothing is assumed of edits, crashes and deaths.
`Phase1Ends` says that the program ends unless a process dies; the deaths are
excluded because then it does not: `multiprocessing.Pool` starts a new process and
drops the chunk, and the loop at `extract.py:190` waits for it for ever.

What the properties of the extractor exclude, because the code gets it wrong or
promises nothing:

* `KeptFlagsMeanTheSame` speaks of the options that decide what a header declares
  (`SearchOptions`: directories, frameworks, macros, forced includes, the roots), as
  a set, so neither of their order nor of the standard. It is about commands in which
  each of them has a form that the loop of `walk` knows (`WalkKnows`): `-I` and `-D`
  joined to their argument; `-include` and `-isystem` either way; `-iframework`,
  `-cxx-isystem`, `-iquote`, `-idirafter` and `-isysroot` apart from it. The loop
  drops the argument of a bare `-I` or `-D` (`walker.py:166`) and of a bare
  `-include-pch` or `-isystem-after`, which `walker.py:168` keeps because of their
  first letters, so that they take the next flag for it; it drops altogether a joined
  `-iquote`, `-idirafter`, `-iframework`, `-cxx-isystem` or `-isysroot`, and `-F`,
  `-U`, `-imacros`, `-sysroot`, `--sysroot`, `-nostdinc` and `-stdlib=`. A word that
  begins with `/I` or `/D` and is the argument of an option outside `KeptApart`
  becomes a flag.
* `PchSeesAllFlags` speaks of `-I` and `-D` only. `build_pch` drops `-isystem`,
  `-include`, `-iquote` and all the rest (`pch.py:151`), and a bare `-D` is kept
  without its macro. It spells directories as `Path.as_posix` does and turns the
  backslashes of macros into slashes (`pch.py:154-159`), also on POSIX: the
  directories are compared as it spells them, macros with backslashes not at all.
* `FieldsMatchHierarchy`: the offsets in a class one of whose bases does not start at
  0 (`walker.py:337` keeps the offset within the base).
* `FreshPchMatches`: an edit or a death between reading `compile_commands.json` and
  stamping its hash.
* `RvasAreDefinitions` takes the code's word for what a name is and for which of
  several definitions is read: a subprogram without a linkage name goes by
  `DW_AT_name`, and any of the duplicates will do. The tests say otherwise; see the
  run `dwarf_tested`.
* `DwarfFieldsRight`: members printed after a nested type or a method
  (`dwarf.py:188` closes the class).
* `ViewsFit` is about mangled names that spell, parameter by parameter, a pointer
  exactly for the arguments of kind `ptr` (`SpelledBy`), each parameter with a name at
  its end if at all. The loop of `merge.py:62` reads letter by letter: a pointer among
  the arguments of a template counts as one of the function's, a reference counts as
  none, a pointer to something `const` or to a builtin type ends the reading, a digit
  after any letter is the length of a name, and a nested name (`_ZN`) has no views.
  All this is in the model, and no property is about it. Functions an argument of
  which has become the receiver are left out too.
* `RoundTrip`: the sign of an enum value.

### What the violated runs show

* `merge_duplicates`: `foo(int)` is in the headers only, `foo()` also in the
  binary. `merge.py:291` finds no entry for the first, takes that of the second,
  whose name reads the same without arguments, and `merge.py:335` renames the
  record. `test_merge.py:140` says that such a name must not appear twice; its
  test has one overload.
* `dwarf_tested`: `dwarf.py:257` keeps the first of two definitions, and `main`, which
  has only a `DW_AT_name`, is in the table because `dwarf.py:288` takes that.
  `test_dwarf.py:15` says that subprograms without a linkage name are excluded, and
  `:16` that the highest address wins.
* `before_drops_original`: the patch is live at `registry.cpp:177`, `saved` is
  written at `:182`. A call in between runs its BEFORE hooks and nothing else.
  A call that finds its chain gone (`closure.cpp:105`) loses the original too:
  `nullptr` stands both for "skip" and for "no chain".
* `install_all_once`: chains that failed to install are not retried
  (`registry.cpp:211`), although a manifest loaded later would make them work.
* `unregister_pointers`: `registry.cpp:195` drops every empty chain, also one that
  only holds a registered pointer.
* `install_unlocked`: `registry.cpp:119` and `:220` call `install_chain` without
  the lock that `registry.hpp:45` asks for. A `clear` or `unregister` in between
  leaves a patch with no chain, and every later call of that function is lost.

More disagreements have no run of their own: `augment.hpp:91`, which says that lower
priorities run first (`chain.cpp:27` sorts the higher ones first, `test_chain.cpp:118`
expects that, and `RunOrderIsPriorityThenAge` states it); `compile_db.py:121`, which
says that all but the compiler, the output and the source file is "preserved and
forwarded to libclang unchanged" (of `-I dir -DM` walk keeps `-I -DM`, so that
libclang searches a directory `-DM` and has neither `dir` nor the macro; the forms that are
lost are listed above); `pch.py:19`, which promises to invalidate the PCH "if
compile_commands.json has changed since it was built", while the stamp is that of
a later moment than the build; the repository's `README.md`, which says that
`resolve_target` asks the manifest first (the code asks `sym_resolve` first,
`registry.cpp:134`), and that read/write pairs at *differing* priorities are
warned about (`conflict.cpp:74` warns at *equal* priorities).

## 4. Proofs

For every value of the constants that satisfies `ConstantsOK` (entries have a
phase and an integer priority; `Exported` and `Located` are functions into
targets; `None` and `Raw` are fresh):

* `Typing`: `TypeOK`, which has three parts, the registry's fields, the threads'
  locals, and `LockHeld`: a thread holds `m_mutex` exactly where its call is
  inside a locked region. `TypeOK` is inductive; one step of the proof per
  action, one leaf per part.
* `ChainsAreSorted`: `ReadersFindChainsSorted`, inductive on top of `TypeOK`. It
  rests on `StableSortSorts` and `RemoveAugmentKeepsOrder`.
* `WalkersAreSafe`: `WalkedChainsDoNotChange`. Steps under the exclusive lock are
  out because a reader is in (`LockHeld`); `BeginBefore`, which sorts under the
  *shared* lock, is out because the chain is sorted already.
* `NoConflictAdmitted`: `NoHardConflict` is not inductive: a commit is safe only
  if the chain is still the one that was checked. `CheckedIsAdmissible` adds
  that; it is kept because the writer excludes everybody who could change the
  chain in between.
* `OneBodyPerCall` and `CallsFireInRunOrder`: `AtMostOneBody` and
  `FiredInRunOrder`, of what a single call has fired while others register and
  remove hooks. `BodyInv` says at each stage which bodies can have run:
  none before the BEFORE hooks are through, no original after a REPLACE hook or a
  hook that cancels. `OrderInv` ties the history to the chain only while the call
  walks it (it may be another chain at `after()`): what has fired in this phase is
  ahead, in run order, of everything from the cursor on. It rests on
  `ChainsAreSorted`.
* `InstalledChainsArePatched`, `NoPatchIsOrphaned`, `HooksLeaveWithTheirChains`:
  `InstalledMeansPatched`, `NoOrphanPatch` and the action property
  `HookLeavesWithItsChain`, for one admin thread (`OneAdmin`, a hypothesis of each) and
  any number of players, symbols and targets. With two admins they are false: the
  run `install_unlocked` is the counterexample. `PatchInv` adds where the admin is
  in `install_chain` (its pointers are alive, what it has patched is the target of
  the chain it is about to publish), that only the target of a symbol jumps to its
  closure, also after a manifest is loaded, and that `ptr_hooks` are exactly the
  raw patches.
* `RegistryImplementsHookTable`: `ImplementsHookTable`, for any number of admins
  and players. Each step maps to an insertion, a removal or a clear of the table
  or leaves it alone. It needs `NodesHoldEntries` (a symbol without a node has no
  entries), that the new entry is compatible and goes behind those of its
  priority (`CheckedIsAdmissible` and the lemmas on sorting), and that a removal
  keeps the others in their order, which the table states by an increasing choice
  of positions and `Chain` by a listing (`RemovalIsWithout`).

For `ChainHistory`, any catalogue and any number of registrations:

* `OrderOfAdmissionIsIrrelevant`: `AdmissionIgnoresOrder`.
* `RunOrderFollowsAge`: `RunOrderIsPriorityThenAge`. `AgeInv` says that the entries
  of the chain can be given stamps of the log, each entry its own, that grow among
  entries of one priority. The chain itself has forgotten them; where the sort puts
  a newcomer (`SortPlaces`) is behind all its equals, so its stamp is the latest.

`ListingTheorems` and `ChainTheorems` prove what sorting and removing do for every chain. Both are
*listings* of indices under a strict total order; counting predecessors gives
each index a rank, ranks grow along the order (`EarlierGrows`), hence are
distinct, hence take every value from 0 to n-1 (`Ranks`, by cardinality), so the
k-th element exists and is unique (`NthFollowsOrder`). `FlattenPlaces` says where each
of several lists stands when they are put end to end.

`Phase1Proofs`, for any projects, workers, edits, deaths and runs:

* `FreshHeadersMatch`: `FreshPchMatches`. It is not inductive: it says nothing of a
  build that is under way. `PchInv` adds what an undisturbed build knows: until
  the stamp is written the file is the one that was loaded (`read = cdb`), and
  between save and stamp the PCH is of that content.
* `KeysAreUnique`: no key is twice in what phase 1 keeps, and the score that a
  record is defended with is its own. `MergeInv` says that `seen_index` leads from
  each key to its record and back; the two cases of a merge, append and replace,
  are the lemmas `NewKeepsKept` and `BetterKeepsKept`.
* `Phase1Types`, `NothingIsDropped`, `NothingIsInvented`: `TypeOK`,
  `NothingDropped` and `NothingInvented`. None is inductive. Under all lies
  `ProjectInv`: what was read are contents of the project, and the flag map lists
  its files. `PoolInv` types the pool and says that nothing is in it before it is
  started and that the loop over results ends with all items accounted for; the
  last follows by counting. `FlowInv` follows the records: those merged and those
  still in `inbox` are together those of the TUs that were walked.
* `BestIsKept`: `KeptIsBest`. `KeptInv` says that there are two functions on the
  places of a section: the first offer of the record's key, which grows with the
  place, and the one that is kept, which no other offer of the key outdoes
  (`Picked`). A record of another section, one with a new key and one with a known
  key each turn the two functions of one state into those of the next.
* `HeadersKeepTheirOrder`: `UmbrellaOrder`. `HeadersInv` keeps it over all files
  scanned so far; the step is a lemma about `AddHeaders` on any two lists.
* `FlagsMeanTheSame`, `PchHasAllFlags`: `KeptFlagsMeanTheSame` and
  `PchSeesAllFlags`, for command lines of any length, with what section 3 says they
  exclude. `LoadedInv` is all that the
  steps have to keep: once loaded, the flag map is that of the content that was
  read. The rest is about the loops. Each is a `Scan`, whose step looks at a token
  and perhaps at the next; where a token that is taken along takes none itself
  (`Local`), what a scan puts out is the steps' lists put end to end (`LocalScan`).
  `Said` is what a command says of headers, read off its tokens one by one:
  `SearchedIsSaid` proves that the compiler's reading is that, and `LoopKeeps` that
  a loop which keeps or drops each token together with the word it takes changes
  nothing in it. Stripping and cleaning are two such loops (`StripKeeps`,
  `CleanKeeps`); `_fix_flags` makes two tokens of one, so its lemma (`FixKeeps`)
  follows positions. Writing the steps down for the prover showed that two of the
  `CASE`s had overlapping arms, of which TLC takes the first and TLA+ any; they are
  disjoint now.
* `FieldsFollowHierarchy`: `FieldsMatchHierarchy`, for hierarchies of any depth. The walk
  is a function of the number of classes visited. After each round every class that is
  known is on the stack or `Done` (`Met`), and the classes on the stack and the rounds
  so far are together as many as the classes known (`Counted`), so the rounds that
  `StructFields` allows are enough: this needs that a class is never among its own
  bases (`TopIsAlone`). At the end all that is known is done, so that no name of the
  hierarchy is missing (`NamesAreMet`, level by level of the reference `Laid`); the
  other way, each class was put on the stack by one that the walk knew before it, so
  what is laid in it is laid in the object too, at the same offset if no base is
  moved (`Reached`, `InReach`). For the proof the fold over the visits became a
  recursive function and the two filters of a class selections of indices that take
  each name and each base once, as the sets `seen_names` and `seen_bases` do while the
  loop runs; before, a name that one class has twice, or a base, was only compared
  with what earlier classes had added.

They assume of the constants: `ProjectsAreWhole` (there is a
`compile_commands.json`, and each file it names can be scanned and walked: a
file that cannot be is one whose scan or parse fails, which any may do at any
time), `CursorsAreTyped` (libclang gives a record type one name, and its
definition is of a class), `StructsAreMeasured` (a size is not negative,
`walker.py:373`), `HierarchiesHaveTops` (there are finitely many classes, a base is one of
them, and no class is its own base at any depth: C++ wants a class complete before
it is a base), `PoolWorks` (a finite pool with a process in it,
and chunks that are not empty) and `CommandsRun` (the commands are those that the
build runs: no word is empty, and an option that takes an argument is followed by
one that does not look like an option), `SlashWordsAreOptions` (a word that begins
like an option of MSVC stands for a `-I`, `-D` or `-std=`) and `SpellingsAreNames`
(respelling leaves no name empty). TLC evaluates all eight on the instances.

`Phase2Proofs`, for any binaries and manifests:

* `FlowInv` is inductive and says what each step of phase 2 leaves for the next:
  signatures from the PDB's procedures (`SignaturesRead`), addresses from a
  prefix of what the tool prints, the whole of it if it did not die (`RvasRead`),
  functions from the merge of the two (`FunctionsMerged`), layouts from another
  prefix (`LayoutsRead`), structs from these (`LayoutsApplied`). The theorems below
  are what that implies, since nothing interleaves with the operators.
* `RvasDefined`: `RvasAreDefinitions`. The loop over subprograms is a selection of
  indices (`NameNow`, `Pending`), so what it returns for *any* prefix of a dump is
  stated on indices: a name comes from the subprogram itself or from a declaration
  in the prefix, and a definition that found none is asked again at the end.
* `SignaturesFollow`: `SignaturesFollowAddresses`. Two passes keep, of each name, the
  record with the highest address; the second looks only at those with a type, so
  its highest is at most that of the first (`KeepHighest`, on any list).
* `ExactNamesWin`, `HeadersAlwaysStand`, `AddressesAreNamedOnce`: `ExactNameWins`,
  `HeadersStand` and `AddressesNamedOnce`. `MergeOneIsRight` says which record one
  function of the headers becomes; `MergeIsRight` that the merge has one record per
  function kept and one stub per address that none of them uses; and
  `OutputIsMerged` that naming and sorting only drop the excluded records and
  permute the rest. Two clauses came out of the proofs: a non-mangled exact name
  may take another name of its address, which may be excluded (`GoesBy`), and two
  functions at one place of the source count as one (`Alone`).

* `Phase2Types`: `TypeOK`. The state that the DWARF reader of types carries from DIE
  to DIE stays in `TypeStates`, whatever the order of the tags; the fields that
  `flatten` gathers stay in `Flats` at every depth of the hierarchy. So both readers
  lay out any part of any dump (`DwarfLaysOut`, `PdbLaysOut`): each class by a name
  that sorts, each field once. In `failed` nothing is derived from the inputs; the
  tables are those of the step before (`FailureKeeps`).
* `BinaryHasOffsets`, `StructsAreMentioned`: `BinaryOffsetsWin` and
  `MentionedStructsExist`. `StructsAreApplied` says what the structs are: those of the
  headers in another order, each as `ApplyToStruct` leaves it (`HasStructs`), then
  those that are missing (`Injects`), in the order of their names.

* `ViewsAlwaysFit`: `ViewsFit`. The n-th view of a name goes to the n-th argument of
  kind `ptr`. Where the name is its parameters put end to end (`SpelledBy`), the reading
  takes the places of a P in their order up to some point (`ReadUpTo`, `ReadInOrder`), and the
  P that begins the n-th pointer among the parameters is the n-th that is read
  (`PointersOf`, `ViewsCount`), with the name at that parameter's end
  (`NameOfPointer`). So an argument is given its own view or keeps
  the one it has (`ViewsAreOwn`). The proof attempt showed the property false as it
  was first stated: of two functions at one place each could be found under the other
  (hence `Alone`), and a function whose only argument became the receiver can be given
  one argument by the PDB, whose number then fits the name again (hence `r.member =
  fn.member`). No instance had these cases.
* `PackedFileReadsBack`: `RoundTrip`. The table and the payloads of a blob only grow at
  the end (`Grows`), so a word that reads as a value goes on reading as it (`WordsStay`),
  and with it a record, a group and the entry of a name, whatever is packed later
  (`ValuesStay`, `GroupsStay`, `EntriesStay`). Each loop of `pack` is an invariant of its
  rounds (`RecordLoop`, `GroupLoop`, `SectionLoop`). The names of a section ascend, each
  once; `Narrowed` keeps the place of a name between the two ends of the range that is
  searched and makes the range smaller in each round, so the search ends at the only
  place where the name can be (`BisectFinds`), and the reader gets from record to record
  by their lengths (`GroupsAreRead`). `PackedInv` says at which step which of the two
  files is that of the manifest, and `ManifestIsSound` that the manifest can be packed at
  all: its lists are lists and its names sort.

* `PdbFieldsAreRight`: `PdbFieldsRight`. `flatten` and the reference, `MemberPlaces`,
  are both recursive functions of a number of rounds (`FlatRounds`, `PlacesRun`). That
  a field of a flatten is at a place of the reference is an induction on the rounds
  (`PlacesAreReal`). That no name is missing is not, because `flatten` does not go
  into a class that is being visited: in a hierarchy with a cycle a base alone may
  have more members than as the base of another class. What holds is that a class
  `c` flattened beside the classes `V` has the names of every class that bases lead to
  from `c` past `V` (`Reach`). `ReachSplits` takes one step of this: a class reached
  past `V` is `c` itself or is reached from a base of `c` past `V` and `c`. So a
  round is enough for each class that is not in `V` (`ReachedAreThere`), and the
  reference has no other names (`PlacesAreReached`). `ChosenIsHeaviest` is the
  choice among definitions. For the proof the reference was rewritten: its depth was a
  fixed 3 and is now the number of classes; and it now says of all classes, not only
  of those laid out, that one with a member is not missing.

* `DwarfFieldsAreRight`: `DwarfFieldsRight`. The state that the reader carries from DIE
  to DIE is described by what it has gathered of the class that is open (`Gathered`)
  and by the layouts a flush would leave (`Flushed`); both are the same whether the
  last member is still open or not. A DIE that is neither a class nor a member changes
  none of this (`OthersKeep`), so of a unit only its header and the run of members
  after it matter: `Opened` says that the class is open and has gathered the members
  among its first `k` children, and `ChildrenSettle` that when they end its fields are
  filed if they are more than those filed before (`FilesOneMore`). `Settled` says that
  the layouts are those of the classes printed so far; a unit keeps it, with the
  classes nested in it (`BlockSettles`, `UnitSettles`). A dump is put together from
  its units and theirs from their children, so it is read part by part (`ReadsParts`).
  For the proof the reference was rewritten as sets of places.

They assume of the constants: `InputsAreRead`, `FunctionsAreFound`,
`StructsAreFound`, `EnumsAreFound`, `NamesAreSymbols` and `SymbolsAreNames` (what phase 1 and the
tools print has the parts the code reads; phase 1 has one struct of a name, which
`KeysAreUnique` proves of it; each name is a symbol, whose text is a sequence of
letters and names), `IdentityIsText` (so are the three names stamped into the
globals), `TextIsOrdered` (two names that
sort the same are one), `DumpsAreSound` (one subprogram per place of a dump, no
code at a declaration) and `MembersAreOfClasses` (in a dump only a class has members,
a member or a base has no children, and a base has no name). TLC evaluates them all
on the instances.

Only model-checked in the extractor: that phase 1 ends.
The loops that only select, such as the order of the flag map (`LoadOrder`), the
includes that a scan adds (`AddHeaders`), the first cursor of each key (`Walked`)
and the dicts of phase 2 (`OncePerName`), are written as selections of indices, so
that the lemmas of `ListingTheorems` speak of them; a loop that carries a state is a
recursive function of the number of rounds, of which an invariant is proved by a
set of rounds that contains 0 and is closed under the next one (`UpTo`). Only
model-checked in the runtime: the return of calls. Liveness is outside what the
prover handles.

## 5. Not modelled, and the plan

`inspect`, and hooks that call back into the registry, are left out of
`Registry`; so are the closure tables, MinHook's half-installed state and
`self_test`, and the manifest reader in C++. Of the extractor, what `compile_db.py`
does with commands on Windows, the regular expressions over tool output, the primitive type
tables and the command line are left out. `walk.py`, `gen_exclusions.py` and
`codegen/registry.py` print text from a finished manifest and keep no state (the
last is never called). `PROJECT.json` lists each part with its reason.

What could follow, in this order:

1. `Reentry`: hooks that call hooked functions or the C API while their thread
   holds `m_mutex`; `inspect`. Deadlock and the shared buffer.
2. `ManifestReader`: two loads, aliases, a failed load, the cached decision;
   against a reference that forgets everything at each load, on files that `Pack`
   has written.
3. `ClosureTables` and `Instances`: signatures registered again under a cached
   closure, unlocked tables, the order and uniqueness of instances.
4. `HookBackend`: MinHook's create and enable, concurrent self tests, the
   lifetime of a trampoline; an abstract "one patch per target" that it refines.

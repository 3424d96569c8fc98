----------------------------- MODULE Relocation -----------------------------
(***************************************************************************)
(* The relocation of the executable, of the C library and of one further   *)
(* object at start-up (src/src/rtld/shared_object.cpp, main.cpp,           *)
(* object_storage.cpp).  The linker is part of libc.so, so libc is         *)
(* relocated twice: first against itself, before anything else can run,    *)
(* and again once every object is loaded, so that its references see the   *)
(* definitions of the others.  A REL entry keeps its addend in the word it *)
(* relocates, which the first pass overwrites; the addends are saved for   *)
(* the second.                                                             *)
(*                                                                         *)
(* An object is a few words, each with at most one relocation entry.       *)
(* "rela" stands for the RELA and the JMPREL RELA table, "rel" and         *)
(* "jmprel" for the two REL tables, "relr" for the packed one.  The TLS    *)
(* relocation types are in module Tls, how the RELR table packs addresses  *)
(* in module ObjectFiles.                                                  *)
(***************************************************************************)
EXTENDS Integers, FiniteSets

CONSTANTS
    LibcWords,      \* the words of libc and how many each object has
    LibcTables,     \* the relocation tables libc may have
    ExeTables,      \* ... and the executable, whose words 1, 2 copy libc's
    LibTables,      \* ... and the library
    LibBinds,       \* the bindings of the symbols the library defines
    MaxSaved        \* MAX_SAVED_LIBC_REL_ADDENDS

\* libc has no undefined symbol but a weak one; the executable alone has copies,
\* of libc's variables.
Entries == [form : {"rela", "rel", "jmprel"}, type : {"relative", "absolute", "glob_dat", "irelative"},
            sym : -1..3]
             \cup [form : {"relr"}, type : {"relative"}, sym : {-1}]
             \cup [form : {"none"}, type : {"none"}, sym : {-1}]
Copies == [form : {"rela", "rel"}, type : {"copy"}, sym : {1, 2}]

ASSUME RelocConstants ==
    /\ LibcWords \in Nat /\ LibcWords > 1 /\ MaxSaved \in Nat
    /\ LibcTables \subseteq [1..LibcWords -> {e \in Entries : e.sym # 3}]
    /\ ExeTables \subseteq [1..LibcWords -> Entries \cup Copies]
    /\ LibTables \subseteq [1..LibcWords -> Entries]
    /\ LibBinds \subseteq [0..3 -> {"no", "weak", "strong"}]

VARIABLES
    stage,          \* how far start-up has come
    memory,         \* the words of every object
    tables,         \* the relocation entry of every word
    bind,           \* the binding of the symbols each object defines
    saved           \* libc_addends

relocVars == <<stage, memory, tables, bind, saved>>

RelocObjects == {"exe", "lib", "libc"}
Words == 1..LibcWords
NoObject == "none"

\* Where the objects are mapped, and the addend linked into each word.
Base == [exe |-> 1000, lib |-> 2000, libc |-> 3000]
Addend(w) == 100 * w

\* Symbols 1 and 2 are the variables in libc's first words; libc refers weakly
\* to 0, the executable strongly to 3, and neither is in libc.  NoSymbol is an
\* entry without a symbol.
Symbols == 0..3
NoSymbol == -1

Entry(form, type, sym) == [form |-> form, type |-> type, sym |-> sym]
Plain == Entry("none", "none", NoSymbol)

\* What the linker stored in a word: the addend for the entries that keep it
\* there, the value of the program's initialiser where there is no entry.
Linked(e, w) == IF e.form \in {"rel", "jmprel", "relr"} THEN Addend(w)
                ELSE IF e.form = "none" THEN w ELSE 0

\* Init: the objects as the kernel and the loader mapped them.  The executable
\* defines the symbols it has copies of; libc defines its words; the library
\* may define any.
RelocStart(t, bindings) ==
    /\ stage = "mapped"
    /\ tables = t
    /\ memory = [o \in RelocObjects |-> [w \in Words |-> Linked(t[o][w], w)]]
    /\ bind = bindings
    /\ saved = <<>>

RelocInit ==
    \E c \in LibcTables, x \in ExeTables, l \in LibTables,
       b, v \in {"strong", "weak"}, d \in LibBinds :
        LET copied == {x[w].sym : w \in {u \in Words : x[u].type = "copy"}}
        IN  RelocStart([exe |-> x, lib |-> l, libc |-> c],
                       [exe |-> [y \in Symbols |-> IF y \in copied THEN b ELSE "no"],
                        libc |-> [y \in Symbols |-> IF y \in {0, 3} THEN "no" ELSE v],
                        lib |-> d])

-----------------------------------------------------------------------------
\* ObjectStorage::lookup for the policies None and IgnoreLocal: the other
\* objects of the global scope in order, then the object itself; the first
\* strong definition, else the first weak one.
GlobalScope == [exe |-> 1, libc |-> 2, lib |-> 3]

Turn(o, p) == IF p = o THEN 4 ELSE GlobalScope[p]

FirstBound(o, y, b) ==
    LET s == {p \in RelocObjects : bind[p][y] = b}
    IN  IF s = {} THEN NoObject
        ELSE CHOOSE p \in s : \A q \in s : Turn(o, p) <= Turn(o, q)

Definer(o, y) ==
    IF y = NoSymbol THEN NoObject
    ELSE LET strong == FirstBound(o, y, "strong")
         IN  IF strong # NoObject THEN strong ELSE FirstBound(o, y, "weak")

\* relocate_libc looks only in libc.
OwnDefiner(o, y) == IF y # NoSymbol /\ bind[o][y] # "no" THEN o ELSE NoObject

Resolved(o, y) == IF stage = "mapped" THEN OwnDefiner(o, y) ELSE Definer(o, y)

\* Where the executable keeps a copied variable, and where others define one.
CopyWord(y) == CHOOSE w \in Words : tables["exe"][w].type = "copy"
                                    /\ tables["exe"][w].sym = y
Address(o, y) == Base[o] + (IF o = "exe" THEN CopyWord(y) ELSE y)

-----------------------------------------------------------------------------
\* process_relocation: what is stored for entry e of object o with addend a
\* when its symbol is defined by d.  Only symbol 0 is weak where it is used.
Relocated(o, e, a, d) ==
    CASE e.type = "relative" -> Base[o] + a
      [] e.type = "absolute" -> IF d = NoObject THEN 0 ELSE Address(d, e.sym) + a
      [] e.type = "glob_dat" -> IF d = NoObject THEN 0 ELSE Address(d, e.sym)

Late(e) == e.type \in {"copy", "irelative"}
Early(e) == e.form # "none" /\ ~Late(e)

\* The words of libc with a REL entry that has a symbol, and which of them
\* both passes have met when they are at w: the table REL comes first.
SavedWords ==
    {w \in Words : LET e == tables["libc"][w]
                   IN  e.form \in {"rel", "jmprel"} /\ e.sym # NoSymbol /\ ~Late(e)}

Met(w) ==
    LET form(v) == tables["libc"][v].form
    IN  {v \in SavedWords : IF form(v) = form(w) THEN v <= w ELSE form(v) = "rel"}

SavedIndex(w) == Cardinality(Met(w))

\* An unresolved symbol that is not weak ends the process.
Unresolved(o) ==
    \E w \in Words : LET e == tables[o][w]
                     IN  Early(e) /\ e.sym > 0 /\ Resolved(o, e.sym) = NoObject

\* The words of o after its first relocation.
FirstPass(o) ==
    [w \in Words |->
        LET e == tables[o][w]
        IN  IF ~Early(e) THEN memory[o][w]
            ELSE IF e.form = "relr" THEN memory[o][w] + Base[o]
            ELSE Relocated(o, e, IF e.form = "rela" THEN Addend(w) ELSE memory[o][w],
                           Resolved(o, e.sym))]

\* relocate_libc: fails its assertion when there are more addends to save
\* than the array holds.
relocate_libc ==
    /\ stage = "mapped"
    /\ IF Cardinality(SavedWords) > MaxSaved \/ Unresolved("libc")
       THEN stage' = "panic" /\ UNCHANGED <<memory, saved>>
       ELSE /\ saved' = [i \in {SavedIndex(w) : w \in SavedWords} |->
                           memory["libc"][CHOOSE w \in SavedWords : SavedIndex(w) = i]]
            /\ memory' = [memory EXCEPT !["libc"] = FirstPass("libc")]
            /\ stage' = "exe"
    /\ UNCHANGED <<tables, bind>>

\* load_dependencies: relocate of the objects it loaded, one after the other.
relocate ==
    \E o \in {"exe", "lib"} :
        /\ stage = o
        /\ IF Unresolved(o)
           THEN stage' = "panic" /\ UNCHANGED memory
           ELSE /\ memory' = [memory EXCEPT ![o] = FirstPass(o)]
                /\ stage' = IF o = "exe" THEN "lib" ELSE "late_exe"
        /\ UNCHANGED <<tables, bind, saved>>

\* process_late_relocation: a copy of the definition another object has, or
\* the answer of the resolver at base + addend (500 past its own address).
LateValue(o, w) ==
    LET e == tables[o][w]
        d == Definer(o, e.sym)
    IN  IF e.type = "copy"
        THEN memory[d][IF d = o THEN w ELSE e.sym]
        ELSE Base[o] + (IF e.form = "rela" THEN Addend(w) ELSE memory[o][w]) + 500

LatePass(o) ==
    [w \in Words |-> IF Late(tables[o][w]) THEN LateValue(o, w) ELSE memory[o][w]]

\* late_relocate of the loaded objects, after all of them are relocated.
late_relocate ==
    \E o \in {"exe", "lib"} :
        /\ stage = (IF o = "exe" THEN "late_exe" ELSE "late_lib")
        /\ memory' = [memory EXCEPT ![o] = LatePass(o)]
        /\ stage' = IF o = "exe" THEN "late_lib" ELSE "libc_again"
        /\ UNCHANGED <<tables, bind, saved>>

\* relocate with SAVED_LIBC_REL_ADDENDS set: RELR entries and REL entries
\* without a symbol are left alone, the others use the saved addends.
SecondPassFromMemory ==
    [w \in Words |->
        LET e == tables["libc"][w]
            d == Definer("libc", e.sym)
        IN  IF ~Early(e) THEN memory["libc"][w]
            ELSE IF e.form = "rela" THEN Relocated("libc", e, Addend(w), d)
            ELSE IF e.sym = NoSymbol THEN memory["libc"][w]
            ELSE Relocated("libc", e, memory["libc"][w], d)]

SecondPass ==
    [w \in Words |->
        LET e == tables["libc"][w]
            d == Definer("libc", e.sym)
        IN  IF ~Early(e) THEN memory["libc"][w]
            ELSE IF e.form = "rela" THEN Relocated("libc", e, Addend(w), d)
            ELSE IF e.sym = NoSymbol THEN memory["libc"][w]
            ELSE Relocated("libc", e, saved[SavedIndex(w)], d)]

relocate_libc_again ==
    /\ stage = "libc_again"
    /\ memory' = [memory EXCEPT !["libc"] = SecondPass]
    /\ stage' = "late_libc"
    /\ UNCHANGED <<tables, bind, saved>>

late_relocate_libc ==
    /\ stage = "late_libc"
    /\ memory' = [memory EXCEPT !["libc"] = LatePass("libc")]
    /\ stage' = "relocated"
    /\ UNCHANGED <<tables, bind, saved>>

RelocNext ==
    \/ relocate_libc
    \/ relocate
    \/ late_relocate
    \/ relocate_libc_again
    \/ late_relocate_libc

RelocSpec == RelocInit /\ [][RelocNext]_relocVars

-----------------------------------------------------------------------------
\* Whether the second pass gives word w of libc another value than the first.
Interposed(w) ==
    LET e == tables["libc"][w]
    IN  Early(e) /\ e.sym # NoSymbol /\ Definer("libc", e.sym) # OwnDefiner("libc", e.sym)

(***************************************************************************)
(* Every word ends with the one value its entry asks for, whichever table  *)
(* the entry is in: the addend has been counted exactly once although libc *)
(* is relocated twice, and a symbol is the definition that wins after all  *)
(* objects are loaded (relocate_libc and relocate's SAVED_LIBC_REL_ADDENDS *)
(* branches).                                                              *)
(***************************************************************************)
AddendsOnce ==
    stage = "relocated" =>
        \A o \in RelocObjects, w \in Words :
            LET e == tables[o][w]
                d == Definer(o, e.sym)
            IN  CASE e.type = "none" -> memory[o][w] = w
                  [] e.type = "relative" -> memory[o][w] = Base[o] + Addend(w)
                  [] e.type = "irelative" -> memory[o][w] = Base[o] + Addend(w) + 500
                  [] e.type = "glob_dat" ->
                        memory[o][w] = IF d = NoObject THEN 0 ELSE Address(d, e.sym)
                  [] e.type = "absolute" ->
                        memory[o][w] = IF d = NoObject THEN 0
                                       ELSE Address(d, e.sym) + Addend(w)
                  [] OTHER -> TRUE

(***************************************************************************)
(* A variable the executable copied holds what the definition it was       *)
(* copied from holds, except in the cases the order of start-up loses: the *)
(* source is a word that only the late relocation of its object or the     *)
(* second pass over libc completes, or the copy's own strong definition    *)
(* outbids the weak one it should be copied from (late_relocate of the     *)
(* executable comes first of all; IgnoreLocal still ends with the object). *)
(***************************************************************************)
CopiesCurrent ==
    stage = "relocated" =>
        \A w \in Words :
            tables["exe"][w].type = "copy" =>
                LET y == tables["exe"][w].sym
                    d == Definer("exe", y)
                IN  \/ d # "exe" /\ memory["exe"][w] = memory[d][y]
                    \/ d = "libc" /\ Interposed(y)
                    \/ d # "exe" /\ Late(tables[d][y])
                    \/ d = "exe" /\ bind["exe"][y] = "strong"

(***************************************************************************)
(* Start-up gives up only over a reference of the executable or of the     *)
(* library that nothing defines, or when libc has more REL entries with    *)
(* symbols than there is room to save; libc's own references never need    *)
(* another object (Unresolved's panic, __ensure in relocate_libc).         *)
(***************************************************************************)
PanicsOnlyFor ==
    stage = "panic" =>
        \/ Cardinality(SavedWords) > MaxSaved
        \/ \E o \in {"exe", "lib"}, w \in Words :
              /\ tables[o][w].sym > 0 /\ Early(tables[o][w])
              /\ \A p \in RelocObjects : bind[p][tables[o][w].sym] = "no"

(* Start-up leaves every word relocated once with the winning definition,  *)
(* copies included but for the cases its order loses, or gives up for one  *)
(* of the reasons the code has.                                            *)
RelocatedOnce == AddendsOnce /\ CopiesCurrent /\ PanicsOnlyFor
=============================================================================

---------------------------- MODULE ObjectFiles -----------------------------
(***************************************************************************)
(* The files behind shared objects: the search of load_object_with_name    *)
(* and the mapping of load_object (src/rtld/object_storage.cpp), the       *)
(* DT_RUNPATH of SharedObject's constructor (src/rtld/shared_object.cpp),  *)
(* and the way back from an address to an object (src/rtld/rtld.cpp).      *)
(* The lookup of a symbol in the objects follows behind them.              *)
(***************************************************************************)
EXTENDS Integers, Sequences, FiniteSets, FiniteSetsExt, SequencesExt, Samples

CONSTANTS
  Places,       \* how many directories are searched: run paths, then system paths
  MaxNoMemory,  \* bound: mappings the system refuses
  RunPaths,     \* DT_RUNPATH values, sequences of characters; "O" is $ORIGIN
  ObjectPaths,  \* the paths of the object and of the one that asked for it
  NoOrigin,     \* nobody asked: the executable and what it is started with
  Layouts,      \* objects in the order they were loaded: base, end, segments
  Addresses     \* the addresses asked for

VARIABLES
  place,        \* in each directory: what there is under the name
  at,           \* the directory the search is in
  phase,        \* where load_object_with_name is
  open_fds,     \* the descriptors it has open
  mapping,      \* the directory whose file is mapped, or 0
  refused,      \* the directories whose file could not be mapped
  found         \* the answer: 0 while there is none, -1 for NotFound

searchVars == <<place, at, phase, open_fds, mapping, refused, found>>

(* A directory may be missing or lack the file; the file may not be ELF,   *)
(* be for another machine, or end before its segments do; its first        *)
(* segment may lie elsewhere than at 0, or it may have no hash table.      *)
Kinds == {"no_dir", "no_file", "no_elf", "high_base", "short", "no_hash", "good"}

SearchStart(p) ==
  /\ place = p /\ at = 1 /\ phase = "dir" /\ open_fds = {}
  /\ mapping = 0 /\ refused = {} /\ found = 0

SearchInit == \E p \in [1..Places -> Kinds] : SearchStart(p)

Searching(p) == at <= Places /\ found = 0 /\ phase = p

open_dir ==
  /\ Searching("dir")
  /\ IF place[at] = "no_dir"
       THEN at' = at + 1 /\ UNCHANGED <<phase, open_fds>>
       ELSE phase' = "file" /\ open_fds' = open_fds \cup {"dir"} /\ UNCHANGED at
  /\ UNCHANGED <<place, mapping, refused, found>>

(* The directory is closed whether or not it has the file. *)
open_file ==
  /\ Searching("file")
  /\ IF place[at] = "no_file"
       THEN at' = at + 1 /\ phase' = "dir" /\ open_fds' = open_fds \ {"dir"}
       ELSE /\ phase' = "header" /\ open_fds' = (open_fds \ {"dir"}) \cup {"file"}
            /\ UNCHANGED at
  /\ UNCHANGED <<place, mapping, refused, found>>

(* load_object fails: UniqueFd closes the file, the search goes on. *)
NextPlace == at' = at + 1 /\ phase' = "dir" /\ open_fds' = open_fds \ {"file"}

read_header ==
  /\ Searching("header")
  /\ IF place[at] = "no_elf" THEN NextPlace ELSE phase' = "map" /\ UNCHANGED <<at, open_fds>>
  /\ UNCHANGED <<place, mapping, refused, found>>

(* load_object asserts that the first segment is at 0. *)
map_object ==
  /\ Searching("map")
  /\ IF place[at] = "high_base" THEN phase' = "panic" /\ UNCHANGED mapping
                                ELSE phase' = "segments" /\ mapping' = at
  /\ UNCHANGED <<place, at, open_fds, refused, found>>

map_refused ==
  /\ Searching("map") /\ place[at] # "high_base" /\ Cardinality(refused) < MaxNoMemory
  /\ refused' = refused \cup {at}
  /\ NextPlace
  /\ UNCHANGED <<place, mapping, found>>

(* A segment that cannot be read unmaps the object.  SharedObject's        *)
(* constructor asserts that there is a hash table of either kind.          *)
read_segments ==
  /\ Searching("segments")
  /\ CASE place[at] = "short" -> NextPlace /\ mapping' = 0 /\ UNCHANGED found
       [] place[at] = "no_hash" -> phase' = "panic" /\ UNCHANGED <<at, open_fds, mapping, found>>
       [] place[at] = "good" -> /\ found' = at /\ open_fds' = open_fds \ {"file"}
                                /\ UNCHANGED <<at, phase, mapping>>
  /\ UNCHANGED <<place, refused>>

(* That a segment's pages can be mapped and protected is asserted. *)
segment_refused ==
  /\ Searching("segments") /\ Cardinality(refused) < MaxNoMemory
  /\ refused' = refused \cup {at} /\ phase' = "panic"
  /\ UNCHANGED <<place, at, open_fds, mapping, found>>

not_found ==
  /\ at > Places /\ found = 0
  /\ found' = -1
  /\ UNCHANGED <<place, at, phase, open_fds, mapping, refused>>

SearchNext == \/ open_dir \/ open_file \/ read_header \/ map_object \/ map_refused
              \/ read_segments \/ segment_refused \/ not_found

-----------------------------------------------------------------------------
(* DT_RUNPATH *)

runpath == sample.runpath

RunPathInit ==
  \E p \in RunPaths, f \in ObjectPaths, o \in ObjectPaths \cup {NoOrigin} :
    sample = [of |-> "runpath", runpath |-> p, path |-> f, origin |-> o]

(* The directory of a path, or the path itself if it names none. *)
DirectoryOf(f) == LET s == {i \in 1..Len(f) : f[i] = "/"}
                  IN  IF s = {} THEN f ELSE SubSeq(f, 1, Max(s) - 1)

(* What $ORIGIN gives way to: the path, with its last part, of the object  *)
(* that asked for this one, or the directory of this one.                  *)
OriginPath == IF sample.origin # NoOrigin THEN sample.origin ELSE DirectoryOf(sample.path)

(* A segment with every $ORIGIN replaced. *)
Expanded(segment) ==
  FlattenSeq([i \in 1..Len(segment) |->
                IF segment[i] = "O" THEN OriginPath ELSE <<segment[i]>>])

(* The loop over the segments; it ends where the string does, so that      *)
(* nothing comes after a colon at the end.                                 *)
run_paths(p) ==
  LET end(pos) == LET s == {i \in pos..Len(p) : p[i] = ":"} IN IF s = {} THEN 0 ELSE Min(s)
      step(acc, unused) ==
        IF acc.pos > Len(p) THEN acc
        ELSE LET e == end(acc.pos)
                 last == IF e = 0 THEN Len(p) ELSE e - 1
             IN  [paths |-> Append(acc.paths, Expanded(SubSeq(p, acc.pos, last))),
                  pos |-> IF e = 0 THEN Len(p) + 1 ELSE e + 1]
  IN  FoldLeft(step, [paths |-> <<>>, pos |-> 1], [i \in 1..(Len(p) + 1) |-> i]).paths

-----------------------------------------------------------------------------
(* From an address to an object: the list of objects in load order.  An    *)
(* object ends on a page boundary, after its last segment.                 *)

layout == sample.layout
address == sample.address

AddressInit == \E l \in Layouts, a \in Addresses :
                 sample = [of |-> "address", layout |-> l, address |-> a]

InSegment(o, a) == \E s \in o.segments : a \in (o.base + s[1])..(o.base + s[2] - 1)

object_from_addr(a) ==
  SelectInSeq(layout, LAMBDA o : InSegment(o, a))

(* _dl_find_object passes over an object whose base is above the address   *)
(* or whose end is below it.                                               *)
dl_find_object(a) == SelectInSeq(layout, LAMBDA o : ~(o.base > a \/ o.end < a))

-----------------------------------------------------------------------------
(* Properties *)

(* However the search ends, it has closed what it opened, and a file is    *)
(* mapped exactly if it is the answer (load_object_with_name, load_object  *)
(* with its UniqueFd and its munmap).                                      *)
SearchLeavesNothing ==
  found # 0 => /\ open_fds = {}
               /\ mapping = IF found > 0 THEN found ELSE 0

(* The object comes from the first directory whose file can be loaded: one *)
(* that is not there, is no ELF file, ends early or gets no memory for the *)
(* whole does not end the search, and NotFound is the answer only if there *)
(* is none.  The process stops only at a file that load_object asserts     *)
(* something of that is not so, and none before it could be loaded.        *)
FirstLoadable ==
  LET good == {i \in 1..Places : place[i] = "good" /\ i \notin refused}
      stops(i) == i \notin refused /\ place[i] \in {"high_base", "no_hash"}
  IN  /\ found # 0 => /\ found = IF good = {} THEN -1 ELSE Min(good)
                      /\ \A i \in 1..(at - 1) : ~stops(i)
      /\ phase = "panic" => /\ found = 0 /\ good \cap 1..(at - 1) = {}
                            /\ stops(at) \/ at \in refused

(* Joined with colons again, the run paths are DT_RUNPATH with every       *)
(* $ORIGIN replaced, up to a colon at its end: no segment is lost, and none*)
(* is split by what $ORIGIN stands for.                                    *)
RunPathsWhole ==
  sample.of = "runpath" =>
    LET joined == FlattenSeq([i \in 1..Len(run_paths(runpath)) |->
                                IF i = 1 THEN run_paths(runpath)[1]
                                ELSE <<":">> \o run_paths(runpath)[i]])
        whole == FlattenSeq([i \in 1..Len(runpath) |->
                               IF runpath[i] = "O" THEN OriginPath ELSE <<runpath[i]>>])
    IN  joined = IF runpath # <<>> /\ Last(runpath) = ":" THEN Front(whole) ELSE whole

(* The unwinder and dlopen agree on the object that an address in a        *)
(* segment belongs to, but for the first byte of one that is mapped right  *)
(* behind another loaded before it: that one is taken by _dl_find_object,  *)
(* which counts the end as inside.                                         *)
OwnersAgree ==
  sample.of = "address" /\ object_from_addr(address) > 0 =>
    LET i == object_from_addr(address)
        j == dl_find_object(address)
    IN  j # i => /\ j \in 1..(i - 1)
                 /\ layout[j].end = address /\ layout[i].base = address

-----------------------------------------------------------------------------
(***************************************************************************)
(* The tables of an ELF object that the dynamic linker decodes             *)
(* (src/src/rtld/shared_object.cpp): the packed relative relocations and   *)
(* the two hash tables of the symbols.  The tables themselves are written  *)
(* by the static linker: RelrEncoded and the two *TableOf operators say    *)
(* what it writes, from how the decoders read it.                          *)
(***************************************************************************)

CONSTANTS
    RelrBits,       \* locations in a bitmap entry: 8 * sizeof(Elf_Relr) - 1
    RelrWords,      \* how many words of the object a relocation may be in
    SymbolNames,    \* the names, as a sequence
    HashValues,     \* the values the hash function may give them
    BucketCounts,   \* the sizes of a hash table
    ClassBits,      \* ELF_CLASS_BITS, the bits of a bloom word
    BloomSize,      \* words of the bloom filter
    BloomShift      \* bloom_shift, as a divisor

relative == sample.relative  \* the words with a relative relocation
hashOf == sample.hashOf      \* the hash of every name
defined == sample.defined    \* the names in the table
buckets == sample.buckets    \* nbuckets

\* A set of words, lowest first.
InOrder(S) == SelectSeq([i \in 1..(RelrWords + RelrBits) |-> i - 1], LAMBDA w : w \in S)

SymNames == {SymbolNames[i] : i \in DOMAIN SymbolNames}
NotFound == 0

RelativeInit == \E S \in SUBSET (0..RelrWords - 1) : sample = [of |-> "relr", relative |-> S]
HashInit == \E h \in [SymNames -> HashValues], d \in SUBSET SymNames, n \in BucketCounts :
              sample = [of |-> "hash", hashOf |-> h, defined |-> d, buckets |-> n]

-----------------------------------------------------------------------------
\* RELR, written: an even entry is an address, an odd one the bits of the
\* RelrBits words after what the entries before it cover.
BitsOf(S, from) == SumSet({2 ^ (w - from + 1) : w \in {x \in S : x < from + RelrBits}}) + 1

RelrEncoded(S) ==
    LET step(acc, unused) ==
            LET left == {w \in S : w >= acc.next}
                near == {w \in left : w < acc.next + RelrBits}
            IN  IF left = {} THEN acc
                ELSE IF acc.entries # <<>> /\ near # {}
                THEN [entries |-> Append(acc.entries, BitsOf(near, acc.next)),
                      next |-> acc.next + RelrBits]
                ELSE [entries |-> Append(acc.entries, 2 * Min(left)), next |-> Min(left) + 1]
    IN  FoldLeft(step, [entries |-> <<>>, next |-> 0],
                 [i \in 1..RelrWords |-> i]).entries

\* RELR, read: entry >>= 1 until nothing is left, bit j relocating word j.
BitmapWords(entry) == {j \in 0..RelrBits : (entry \div 2 ^ (j + 1)) % 2 = 1}

\* Where relr_addr is after a bitmap.
AfterBitmap(w) == w + RelrBits

\* The words relocate and relocate_libc add the base to, in order; NotFound
\* for relr_addr = nullptr, which fails the assertion at a bitmap.
RelrApplied(entries) ==
    LET step(acc, entry) ==
            IF entry % 2 = 0
            THEN [at |-> entry \div 2 + 1, ok |-> acc.ok, done |-> Append(acc.done, entry \div 2)]
            ELSE [at |-> AfterBitmap(acc.at), ok |-> acc.ok /\ acc.at # NotFound,
                  done |-> acc.done \o InOrder({acc.at + j : j \in BitmapWords(entry)})]
    IN  FoldLeft(step, [at |-> NotFound, ok |-> TRUE, done |-> <<>>], entries)

-----------------------------------------------------------------------------
\* The symbol table: index 1 is a symbol that is not hashed, then come the
\* hashed names, those of a bucket together.
SymOffset == 2
InBucket(b) == SelectSeq(SymbolNames, LAMBDA n : n \in defined /\ hashOf[n] % buckets = b)
SymTab == <<"unhashed">> \o FlattenSeq([b \in 1..buckets |-> InBucket(b - 1)])

\* GNU hash table, written: the first symbol of a bucket (0 when empty), a
\* chain word per symbol whose lowest bit ends the bucket, two bloom bits.
WithoutBit(h) == 2 * (h \div 2)
ChainWord(i) ==
    LET h == hashOf[SymTab[i]]
        last == \/ i = Len(SymTab)
                \/ hashOf[SymTab[i + 1]] % buckets # h % buckets
    IN  WithoutBit(h) + (IF last THEN 1 ELSE 0)
BloomWord(h) == (h \div ClassBits) % BloomSize
BloomMask(h) == {h % ClassBits, (h \div BloomShift) % ClassBits}
GnuTableOf ==
    [bucket |-> [b \in 0..buckets - 1 |->
                    IF InBucket(b) = <<>> THEN 0
                    ELSE CHOOSE i \in SymOffset..Len(SymTab) : SymTab[i] = InBucket(b)[1]],
     chain |-> [i \in 0..Len(SymTab) - SymOffset |-> ChainWord(i + SymOffset)],
     bloom |-> [w \in 0..BloomSize - 1 |->
                    UNION {BloomMask(hashOf[n]) : n \in {m \in defined : BloomWord(hashOf[m]) = w}}]]

\* The walk of a chain, from symbol index i: the name is compared before the
\* end of the chain is looked at.
Matches(n, i, word) == WithoutBit(hashOf[n]) = WithoutBit(word) /\ SymTab[i] = n

ChainWalk(t, n, start) ==
    LET last == Min({i \in start..Len(SymTab) : t.chain[i - SymOffset] % 2 = 1})
        hits == {i \in start..last : Matches(n, i, t.chain[i - SymOffset])}
    IN  IF hits = {} THEN NotFound ELSE Min(hits)

gnu_lookup(t, n) ==
    LET h == hashOf[n]
        start == t.bucket[h % buckets]
    IN  IF ~(BloomMask(h) \subseteq t.bloom[BloomWord(h)]) THEN NotFound
        ELSE IF start < SymOffset THEN NotFound
        ELSE ChainWalk(t, n, start)

\* num_symbols of SharedObject's constructor: the highest bucket, and on
\* until the chain ends.
NumSymbols(t) ==
    LET start == Max({t.bucket[b] : b \in DOMAIN t.bucket})
    IN  IF start = 0 THEN 1
        ELSE Min({i \in start..Len(SymTab) : t.chain[i - SymOffset] % 2 = 1}) + 1

\* SysV hash table, written: every bucket a linked list of indices that ends
\* with 0, the newest symbol first.
ElfListOf(b) ==
    Reverse(SelectSeq([i \in 1..Len(SymTab) |-> i],
                      LAMBDA i : i >= SymOffset /\ hashOf[SymTab[i]] % buckets = b))
ElfTableOf ==
    [bucket |-> [b \in 0..buckets - 1 |->
                    IF ElfListOf(b) = <<>> THEN 0 ELSE ElfListOf(b)[1]],
     chain |-> [i \in SymOffset..Len(SymTab) |->
                    LET s == ElfListOf(hashOf[SymTab[i]] % buckets)
                        k == CHOOSE j \in DOMAIN s : s[j] = i
                    IN  IF k = Len(s) THEN 0 ELSE s[k + 1]]]

\* elf_lookup: for (i = buckets[hash % num_buckets]; i; i = chain[i]).
elf_lookup(t, n) ==
    LET f[i \in 0..Len(SymTab)] ==
            IF i = 0 THEN NotFound ELSE IF SymTab[i] = n THEN i ELSE f[t.chain[i]]
    IN  f[t.bucket[hashOf[n] % buckets]]

-----------------------------------------------------------------------------
(***************************************************************************)
(* Unpacking the relative relocations reaches exactly the words that were  *)
(* packed, each once and in order, however far apart they are, and a       *)
(* bitmap never comes before an address (the RELR loops of relocate and    *)
(* relocate_libc with their __ensure).                                     *)
(***************************************************************************)
RelrEachOnce ==
  sample.of = "relr" =>
    /\ RelrApplied(RelrEncoded(relative)).done = InOrder(relative)
    /\ RelrApplied(RelrEncoded(relative)).ok

(***************************************************************************)
(* The GNU and the SysV table answer alike, and a name is found exactly    *)
(* when the object defines it, at its own entry, even when hashes collide  *)
(* entirely or differ only in the bit that ends a chain (gnu_lookup,       *)
(* elf_lookup).                                                            *)
(***************************************************************************)
LookupsFind ==
  sample.of = "hash" =>
    \A n \in SymNames :
        LET i == gnu_lookup(GnuTableOf, n)
        IN  /\ i = elf_lookup(ElfTableOf, n)
            /\ (n \in defined) = (i # NotFound)
            /\ i # NotFound => SymTab[i] = n

(***************************************************************************)
(* The number of symbols, which the GNU table does not hold, is worked out *)
(* so that dladdr's loop over the symbol table sees every hashed symbol    *)
(* and stays inside the table.                                             *)
(***************************************************************************)
SymbolsCounted ==
  sample.of = "hash" =>
    /\ NumSymbols(GnuTableOf) <= Len(SymTab) + 1
    /\ \A i \in SymOffset..Len(SymTab) : i < NumSymbols(GnuTableOf)

(* The packed tables of an object say what was packed, and its symbols are *)
(* all found and counted (relocate, gnu_lookup, elf_lookup, dladdr).       *)
TablesSayAll == RelrEachOnce /\ LookupsFind /\ SymbolsCounted

(* The search for a file ends with the first that can be loaded and leaves *)
(* nothing behind, in the directories DT_RUNPATH names; the loader and the *)
(* unwinder agree on whose an address is.                                  *)
FileIsFound == SearchLeavesNothing /\ FirstLoadable /\ RunPathsWhole /\ OwnersAgree

-----------------------------------------------------------------------------
(***************************************************************************)
(* Where a symbol's name leads: ObjectStorage::lookup of                   *)
(* src/rtld/object_storage.cpp, as relocation and dlsym use it, while      *)
(* dlopen makes the scopes grow.  One name is followed; an object defines  *)
(* it not at all, weakly, strongly or as GNU_UNIQUE.                       *)
(***************************************************************************)

CONSTANTS SymObjs, SymDeps,  \* the objects and their lists of dependencies
          SymMain,           \* the executable, first in the global scope
          Bindings,          \* the ways in which they define the name
          Nobody

VARIABLES
  binding,      \* how each object defines the name
  symbolic,     \* objects with symbolic_resolution
  sym_global,   \* global_scope
  sym_local,    \* local_scope of each object
  unique_map,   \* the entry of the name, or Nobody
  resolved,     \* history: the definitions in the global scope that each
                \* object's reference was bound to
  sym_uniques   \* history: objects whose GNU_UNIQUE definition was given out

symVars == <<binding, symbolic, sym_global, sym_local, unique_map, resolved,
             sym_uniques>>

SymInit ==
  /\ binding \in Bindings
  /\ \E o \in SymObjs \ {SymMain} : sym_global = <<SymMain, o>>
  /\ symbolic \in {{}, {sym_global[2]}}
  /\ sym_local = [o \in SymObjs |-> <<>>]
  /\ unique_map = Nobody
  /\ resolved = [o \in SymObjs |-> {}]
  /\ sym_uniques = {}

-----------------------------------------------------------------------------

(* The object and its dependencies, breadth first, each one once. *)
Bfs ==
  [local \in SymObjs |->
     LET push(stack, dep) == IF dep \in ToSet(stack) THEN stack
                                                     ELSE Append(stack, dep)
         visit[k \in 0..Cardinality(SymObjs)] ==
           IF k = 0 THEN <<local>>
           ELSE IF k > Len(visit[k - 1]) THEN visit[k - 1]
           ELSE FoldLeft(push, visit[k - 1], SymDeps[visit[k - 1][k]])
     IN  visit[Cardinality(SymObjs)]]

(* The objects in the order in which lookup asks them: the object itself   *)
(* for the symbolic policy, the global scope without it, the object and    *)
(* its dependencies, its local scope.                                      *)
Path(local, policy) ==
  (IF policy = "Symbolic" THEN <<local>> ELSE <<>>)
  \o (IF policy = "LocalAndDeps" THEN <<>>
      ELSE SelectSeq(sym_global, LAMBDA o : o # local))
  \o (IF local = Nobody THEN <<>> ELSE Bfs[local])
  \o (IF local = Nobody \/ policy = "LocalAndDeps" THEN <<>>
      ELSE sym_local[local])

(* The first definition that is not weak, or else the first that is. *)
Choice(local, policy) ==
  LET path == Path(local, policy)
      firm == SelectInSeq(path, LAMBDA o : binding[o] \in {"strong", "unique"})
      weak == SelectInSeq(path, LAMBDA o : binding[o] = "weak")
  IN  CASE firm > 0 -> path[firm]
        [] firm = 0 /\ weak > 0 -> path[weak]
        [] OTHER -> Nobody

Unique(o) == o # Nobody /\ binding[o] = "unique"

(* Mutant: a GNU_UNIQUE definition is not looked up in unique_map. *)
AnswerOwnUnique(local, policy) == Choice(local, policy)

(* The first GNU_UNIQUE definition given out stands for all later ones. *)
Answer(local, policy) ==
  LET o == Choice(local, policy)
  IN  IF Unique(o) /\ unique_map # Nobody THEN unique_map ELSE o

lookup(local, policy) ==
  LET o == Answer(local, policy)
  IN  /\ unique_map' = IF Unique(o) /\ unique_map = Nobody THEN o ELSE unique_map
      /\ sym_uniques' = IF Unique(o) THEN sym_uniques \cup {o} ELSE sym_uniques

Policy(o) == IF o \in symbolic THEN "Symbolic" ELSE "None"

(* SharedObject::relocate, for an object's reference to the name. *)
sym_relocate(o) ==
  /\ lookup(o, Policy(o))
  /\ resolved' = [resolved EXCEPT ![o] =
                    @ \cup ({Answer(o, Policy(o))} \cap ToSet(sym_global))]
  /\ UNCHANGED <<binding, symbolic, sym_global, sym_local>>

(* dlsym: RTLD_DEFAULT, RTLD_NEXT and a handle; the copy relocation of the *)
(* executable looks like RTLD_NEXT.                                        *)
get_sym ==
  /\ \/ lookup(Nobody, "None")
     \/ \E o \in SymObjs : lookup(o, "IgnoreLocal") \/ lookup(o, "LocalAndDeps")
  /\ UNCHANGED <<binding, symbolic, sym_global, sym_local, resolved>>

(* dlopen adds to the global scope, or to the local scope of its caller. *)
sym_open(o) ==
  /\ o \notin ToSet(sym_global)
  /\ \/ sym_global' = Append(sym_global, o) /\ UNCHANGED sym_local
     \/ /\ \A p \in SymObjs : o \notin ToSet(sym_local[p])
        /\ sym_local' = [sym_local EXCEPT ![sym_global[1]] = Append(@, o)]
        /\ UNCHANGED sym_global
  /\ UNCHANGED <<binding, symbolic, unique_map, resolved, sym_uniques>>

SymNext == get_sym \/ \E o \in SymObjs : sym_relocate(o) \/ sym_open(o)

SymSpec == SymInit /\ [][SymNext]_symVars

-----------------------------------------------------------------------------

Definers(S, kinds) == {o \in S : binding[o] \in kinds}
Firm == {"strong", "unique"}

(* A GNU_UNIQUE symbol has one definition in the process: whichever object *)
(* asked, by whatever way and before or after another was opened.          *)
UniqueIsOne == Cardinality(sym_uniques) <= 1

(* The strong definition in the global scope that a reference was bound to *)
(* is what a later reference of the same object is bound to, whatever was  *)
(* opened since.  (Not so for a definition of its own: lookup passes over  *)
(* the object itself, and one opened later takes its place.)               *)
StableResolution ==
  \A o \in SymObjs : \A r \in resolved[o] \ {o} :
    binding[r] = "strong" => Answer(o, Policy(o)) = r

(* Two objects that do not define the name themselves see the same         *)
(* definition when the global scope has one.  (An object that does define  *)
(* it passes over itself and may see another than everybody else.)         *)
OthersAgree ==
  Definers(ToSet(sym_global), Firm) # {} =>
    \A o, p \in SymObjs \ Definers(SymObjs, {"weak", "strong", "unique"}) :
      Answer(o, Policy(o)) = Answer(p, Policy(p))

(* The objects at most k dependencies away from o. *)
Within ==
  [o \in SymObjs |->
     LET r[k \in 0..Cardinality(SymObjs)] ==
           IF k = 0 THEN {o}
           ELSE r[k - 1] \cup UNION {ToSet(SymDeps[p]) : p \in r[k - 1]}
     IN  r]

(* dlsym on a handle finds a definition that the handle reaches through    *)
(* dependencies, cycles or not: a firm one at the least distance if there  *)
(* is one at all, else a weak one.                                         *)
HandleFindsNearest ==
  Definers(SymObjs, Firm \cup {"weak"}) # {} =>
  \A o \in SymObjs :
    LET n == Cardinality(SymObjs)
        c == Choice(o, "LocalAndDeps")
        within == Within[o]
        firm == {k \in 0..n : Definers(within[k], Firm) # {}}
    IN  IF firm # {} THEN c \in Definers(within[Min(firm)], Firm)
        ELSE LET weak == Definers(within[n], {"weak"})
             IN  IF weak # {} THEN c \in weak ELSE c = Nobody

(* Whoever asks for a name gets the definition the others get: one of a    *)
(* GNU_UNIQUE symbol, the same one for a strong definition of the global   *)
(* scope before and after an object is opened, and from a handle the       *)
(* nearest that it reaches.                                                *)
SymbolsAgree == UniqueIsOne /\ StableResolution /\ OthersAgree /\ HandleFindsNearest
=============================================================================

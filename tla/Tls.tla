-------------------------------- MODULE Tls ---------------------------------
(***************************************************************************)
(* Thread-local storage of src/rtld where the static block lies below the  *)
(* thread control block (TLS_ABOVE_TP is false: x86_64 and i386): that     *)
(* block, with room reserved for objects opened later, and the vector of   *)
(* separately allocated copies (dtv).  An object's storage is reached by   *)
(* an offset from the thread pointer (R_TPOFF), through __tls_get_addr or  *)
(* through a TLS descriptor.  The value 0 is the initial image of an       *)
(* object's storage, 1 is what the thread has written.                     *)
(*                                                                         *)
(* aarch64 is not modelled.  There the same offset is the start of an      *)
(* object's storage above the control block and not its end, __tlsdesc_    *)
(* dynamic indexes the words of tcb->dtv itself, and __dlapi_destroy_tcb   *)
(* releases an address below the one that was allocated.                   *)
(***************************************************************************)
EXTENDS Naturals, Sequences, FiniteSets

CONSTANTS TlsThreads, TlsMain, TlsObjs,
          TlsShape,    \* <<tls_size, tls_align>> of each object
          TlsReserve   \* room kept for objects opened later (1024 * 4)

ASSUME MainAssumption == TlsMain \in TlsThreads
ASSUME ShapeAssumption ==
  \A o \in TlsObjs : TlsShape[o][1] \in Nat \ {0} /\ TlsShape[o][2] \in Nat \ {0}
ASSUME ReserveAssumption == TlsReserve \in Nat

VARIABLES
  tls_obj,   \* each object's fields
  tls_map,   \* runtime_tls_map
  tls_size,  \* initial_tls_size and total_initial_tls_size
  tcb,       \* per thread: whether it runs, its dtv and its static block
  tls_last,  \* history: what each thread wrote last
  tls_twice, \* history: threads that reached an object in two ways
  tls_fault  \* history: accesses through a missing dtv entry

tlsVars == <<tls_obj, tls_map, tls_size, tcb, tls_last, tls_twice, tls_fault>>

Raw == 2   \* memory never filled, and a null entry of the dtv

AlignUp(n, align) == ((n + align - 1) \div align) * align

ExeTls == 2   \* the executable's own storage, at the thread pointer

TlsInit ==
  /\ \E static, desc \in SUBSET TlsObjs :
       tls_obj = [o \in TlsObjs |->
         [size |-> TlsShape[o][1], align |-> TlsShape[o][2],
          initial |-> o \in static, desc |-> o \in desc, state |-> "file",
          offset |-> 0, index |-> 0, initialized |-> FALSE,
          opener |-> TlsMain, started |-> FALSE]]
  /\ tls_map = <<>>
  /\ tls_size = [initial |-> ExeTls, total |-> 0]
  /\ tcb = [t \in TlsThreads |->
              [state |-> "none", dtv |-> <<>>,
               block |-> [o \in TlsObjs |-> Raw]]]
  /\ tls_last = [t \in TlsThreads |-> [o \in TlsObjs |-> 0]]
  /\ tls_twice = {} /\ tls_fault = {}

TlsRunning == tls_size.total > 0
Static(o) == tls_obj[o].initial
Open == {o \in TlsObjs : tls_obj[o].state = "live"}
ThreadRuns(t) == tcb[t].state = "running"

-----------------------------------------------------------------------------

Offset(o) == AlignUp(tls_size.initial + tls_obj[o].size, tls_obj[o].align)

Fits(o) == tls_size.total = 0 \/ Offset(o) <= tls_size.total

(* access_tls_for_object: the dtv grows to cover every module and the      *)
(* entry is allocated as a copy of the image.                              *)
Accessed(dtv, index) ==
  LET grown == IF index < Len(dtv) THEN dtv
               ELSE dtv \o [k \in 1..(Len(tls_map') - Len(dtv)) |-> Raw]
  IN  IF grown[index + 1] = Raw THEN [grown EXCEPT ![index + 1] = 0]
                                   ELSE grown

(* Mutant: objects marked as initialised are filled again. *)
FilledAgain(b, check) ==
  [o \in TlsObjs |-> IF tls_obj'[o].state = "live" /\ tls_obj'[o].initial
                       THEN 0 ELSE b[o]]

(* init_tls: the static block gets the image of every object of the        *)
(* initial model, with `check' only of those not marked as initialised.    *)
Filled(b, check) ==
  [o \in TlsObjs |-> IF /\ tls_obj'[o].state = "live" /\ tls_obj'[o].initial
                        /\ ~(check /\ tls_obj[o].initialized)
                       THEN 0 ELSE b[o]]

ModuleIndex == Len(tls_map)

(* load_dependencies gives the object its place; in a running process      *)
(* relocation touches the storage a descriptor refers to, and init_tls     *)
(* fills the storage of the thread that opens it.                          *)
tls_load(t, o) ==
  /\ tls_obj[o].state = "file"
  /\ IF TlsRunning THEN ThreadRuns(t) ELSE t = TlsMain
  /\ (Static(o) \/ ~TlsRunning) => Fits(o)
  /\ tls_obj' = [tls_obj EXCEPT ![o] =
       [tls_obj[o] EXCEPT
          !.state = "live", !.opener = t, !.index = ModuleIndex,
          !.initial = Static(o) \/ ~TlsRunning,
          !.offset = IF Static(o) \/ ~TlsRunning THEN Offset(o) ELSE 0,
          !.initialized = TlsRunning /\ Static(o),
          !.started = ~TlsRunning]]
  /\ tls_size' = IF Static(o) \/ ~TlsRunning
                   THEN [tls_size EXCEPT !.initial = Offset(o)] ELSE tls_size
  /\ tls_map' = Append(tls_map, o)
  /\ tcb' = IF ~TlsRunning THEN tcb
            ELSE [tcb EXCEPT ![t] =
                    [tcb[t] EXCEPT
                       !.dtv = IF tls_obj[o].desc /\ ~Static(o)
                                 THEN Accessed(@, ModuleIndex) ELSE @,
                       !.block = Filled(@, TRUE)]]
  /\ UNCHANGED <<tls_last, tls_twice, tls_fault>>

(* The load is undone: for want of room before the object has an index, or *)
(* for an object it needs when it has one.                                 *)
tls_load_fails(t, o) ==
  /\ TlsRunning /\ ThreadRuns(t) /\ tls_obj[o].state = "file"
  /\ tls_obj' = [tls_obj EXCEPT ![o].state = "destroyed"]
  /\ tls_map' = IF Static(o) /\ ~Fits(o) THEN tls_map ELSE Append(tls_map, o)
  /\ UNCHANGED <<tls_size, tcb, tls_last, tls_twice, tls_fault>>

(* start: the reserve is added, then the first control block is made. *)
tls_start ==
  /\ ~TlsRunning
  /\ tls_size' = [tls_size EXCEPT !.total = tls_size.initial + TlsReserve]
  /\ tls_obj' = [o \in TlsObjs |->
                   [tls_obj[o] EXCEPT !.initialized = o \in Open /\ Static(o)]]
  /\ tcb' = [tcb EXCEPT ![TlsMain].state = "running",
                        ![TlsMain].block = Filled(@, FALSE)]
  /\ UNCHANGED <<tls_map, tls_last, tls_twice, tls_fault>>

(* __dlapi_create_tcb *)
tls_thread(t) ==
  /\ TlsRunning /\ tcb[t].state = "none"
  /\ tls_obj' = [o \in TlsObjs |->
                   [tls_obj[o] EXCEPT
                      !.initialized = @ \/ (o \in Open /\ Static(o))]]
  /\ tcb' = [tcb EXCEPT ![t].state = "running",
                        ![t].block = Filled(@, FALSE)]
  /\ UNCHANGED <<tls_map, tls_size, tls_last, tls_twice, tls_fault>>

(* __dlapi_destroy_tcb releases the block it subtracts the same tcb_offset *)
(* from; the copies of the dtv are not freed.                              *)
tls_thread_ends(t) ==
  /\ ThreadRuns(t) /\ t # TlsMain
  /\ tcb' = [tcb EXCEPT ![t].state = "gone"]
  /\ UNCHANGED <<tls_obj, tls_map, tls_size, tls_last, tls_twice,
                 tls_fault>>

-----------------------------------------------------------------------------
(* A thread writes to its copy of an object's storage. *)

Wrote(t, o) == tls_last' = [tls_last EXCEPT ![t][o] = 1]

(* Reached in two ways: once by dtv and once by the static block. *)
Reach(t, o, other) ==
  tls_twice' = IF other THEN tls_twice \cup {<<t, o>>} ELSE tls_twice

InDtv(t, o) == /\ tls_obj[o].index < Len(tcb[t].dtv)
               /\ tcb[t].dtv[tls_obj[o].index + 1] # Raw

(* __tls_get_addr *)
tls_get_addr(t, o) ==
  /\ ThreadRuns(t) /\ o \in Open
  /\ UNCHANGED <<tls_obj, tls_map, tls_size, tls_fault>>
  /\ tcb' = [tcb EXCEPT ![t].dtv =
               [Accessed(@, tls_obj[o].index) EXCEPT ![tls_obj[o].index + 1] = 1]]
  /\ Wrote(t, o)
  /\ Reach(t, o, Static(o))

(* R_TPOFF and __tlsdesc_static *)
tls_by_offset(t, o) ==
  /\ ThreadRuns(t) /\ o \in Open /\ Static(o)
  /\ tcb' = [tcb EXCEPT ![t].block[o] = IF @ = Raw THEN Raw ELSE 1]
  /\ Wrote(t, o)
  /\ Reach(t, o, InDtv(t, o))
  /\ UNCHANGED <<tls_obj, tls_map, tls_size, tls_fault>>

(* __tlsdesc_dynamic of x86_64 reads dtv.data[index] as it is. *)
DescFinds(t, o) == InDtv(t, o)

tls_by_desc(t, o) ==
  /\ ThreadRuns(t) /\ o \in Open /\ ~Static(o) /\ tls_obj[o].desc
  /\ IF DescFinds(t, o)
       THEN /\ tcb' = [tcb EXCEPT ![t].dtv[tls_obj[o].index + 1] = 1]
            /\ Wrote(t, o)
            /\ UNCHANGED tls_fault
       ELSE /\ tls_fault' = tls_fault \cup {<<t, o>>}
            /\ UNCHANGED <<tcb, tls_last>>
  /\ UNCHANGED <<tls_obj, tls_map, tls_size, tls_twice>>

TlsNext ==
  \/ tls_start
  \/ \E t \in TlsThreads : tls_thread(t) \/ tls_thread_ends(t)
  \/ \E t \in TlsThreads, o \in TlsObjs :
       \/ tls_load(t, o) \/ tls_load_fails(t, o) \/ tls_get_addr(t, o)
       \/ tls_by_offset(t, o) \/ tls_by_desc(t, o)

TlsSpec == TlsInit /\ [][TlsNext]_tlsVars

-----------------------------------------------------------------------------

(* The bytes of the static block an object has, by their distance below    *)
(* the thread pointer.                                                     *)
Bytes(o) == (tls_obj[o].offset - tls_obj[o].size + 1)..tls_obj[o].offset

StaticOpen == {o \in Open : Static(o)}

(* The storage of two objects in the static block never overlaps, nor that *)
(* of the executable, and it ends within the block, whatever loads failed  *)
(* in between; so each object's storage may be modelled by a cell of its   *)
(* own.                                                                    *)
StaticDisjoint ==
  \A o \in StaticOpen :
    /\ Bytes(o) \cap 1..ExeTls = {}
    /\ TlsRunning => tls_obj[o].offset <= tls_size.total
    /\ tls_obj[o].offset % tls_obj[o].align = 0
    /\ \A p \in StaticOpen \ {o} : Bytes(o) \cap Bytes(p) = {}

(* A module index names one object for good: no two live objects share an  *)
(* entry of the dtv although failed loads leave theirs behind.             *)
IndexIsOwn == \A o \in Open : tls_map[tls_obj[o].index + 1] = o

(* A thread finds in an object's storage what it last wrote there, however *)
(* the storage is reached, but for two cases: the block of a thread older  *)
(* than a statically placed object has no image of it (only the opener's   *)
(* is filled), and an object in the static block reached through           *)
(* __tls_get_addr too has a second copy.                                   *)
SeesOwnWrites ==
  \A t \in TlsThreads, o \in Open :
    ThreadRuns(t) =>
      /\ ~Static(o) /\ InDtv(t, o) =>
           tcb[t].dtv[tls_obj[o].index + 1] = tls_last[t][o]
      /\ ~Static(o) /\ ~InDtv(t, o) => tls_last[t][o] = 0
      /\ Static(o) /\ tcb[t].block[o] # Raw =>
           tcb[t].block[o] = tls_last[t][o] \/ <<t, o>> \in tls_twice

(* The block of a thread lacks the image of an object only if another      *)
(* thread opened the object while this one was running.                    *)
ImageMissing ==
  \A t \in TlsThreads, o \in StaticOpen :
    ThreadRuns(t) /\ tcb[t].block[o] = Raw =>
      ~tls_obj[o].started /\ tls_obj[o].opener # t

(* A TLS descriptor finds no entry in the dtv only in a thread other than  *)
(* the one that opened the object.                                         *)
DescFaults == \A f \in tls_fault : f[1] # tls_obj[f[2]].opener

(* A thread's storage is its own: no two objects overlap in the static     *)
(* block or share an entry of the dtv, a thread finds what it wrote, and   *)
(* an image or an entry is missing only where another thread opened the    *)
(* object.                                                                 *)
StorageIsOwn == StaticDisjoint /\ IndexIsOwn /\ SeesOwnWrites /\ ImageMissing /\ DescFaults
=============================================================================

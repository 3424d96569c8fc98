-------------------------- MODULE ThreadDataProofs ---------------------------
(***************************************************************************)
(* Proofs about the two kinds of data that a thread has to itself.         *)
(*                                                                         *)
(* Thread-specific data (ThreadKeys), for any number of threads and keys   *)
(* and any modulus of the generations: the word a thread keeps with its    *)
(* value and the one in KEYS are numbers modulo GenMod; the inductive      *)
(* invariant ties both to the unbounded count of creations, so that equal  *)
(* generations mean equal keys unless GenMod creations lie between them.   *)
(*                                                                         *)
(* Thread-local storage (Tls), for any number of threads and objects, any  *)
(* sizes and alignments: the static storage of the open objects lies apart *)
(* below what is laid out so far (BlockInv), an open object keeps its      *)
(* entry of runtime_tls_map (IndexInv), and the dtv and the block of every *)
(* thread hold what was written through them (CopyInv): each needs the     *)
(* others, for a failed load takes back part of what it did.               *)
(***************************************************************************)
EXTENDS ThreadKeys, Tls, Integers, TLAPS

(* A leaf is left to Zenon for thirty seconds, or to the prover it names.  *)
USE ZenonT(30)

------------------------------------------------------------------------------
(* Remainders. *)

LEMMA DivMod ==
  ASSUME NEW a \in Nat, NEW g \in Nat, g > 0
  PROVE  /\ a \div g \in Nat /\ a = g * (a \div g) + (a % g)
         /\ a % g \in 0..(g - 1)
BY SMTT(30)

LEMMA Unique ==
  ASSUME NEW p \in Nat, NEW q \in Nat, NEW g \in Nat, g > 0,
         g * q - g * p >= 0, g * q - g * p < g
  PROVE  q = p
<1>1. ~(q < p)
  <2> SUFFICES ASSUME q < p PROVE FALSE OBVIOUS
  <2>1. g * (p - q) >= g BY SMTT(30)
  <2> QED BY SMTT(30), <2>1
<1>2. ~(q > p)
  <2> SUFFICES ASSUME q > p PROVE FALSE OBVIOUS
  <2>1. g * (q - p) >= g BY SMTT(30)
  <2> QED BY SMTT(30), <2>1
<1> QED BY SMTT(30), <1>1, <1>2

LEMMA ModOf ==
  ASSUME NEW q \in Nat, NEW g \in Nat, g > 0, NEW r \in 0..(g - 1)
  PROVE  (g * q + r) % g = r
BY SMTT(30)

(* Two numbers less than g apart with the same remainder are the same. *)
LEMMA SameMod ==
  ASSUME NEW a \in Nat, NEW b \in Nat, NEW g \in Nat, g > 0,
         b <= a, a - b < g, a % g = b % g
  PROVE  a = b
<1> DEFINE p == a \div g
           q == b \div g
           r == a % g
<1>1. p \in Nat /\ q \in Nat /\ r \in 0..(g - 1) /\ a = g * p + r /\ b = g * q + r
  BY DivMod
<1> HIDE DEF p, q, r
<1>2. g * p - g * q >= 0 /\ g * p - g * q < g
  BY SMTT(30), <1>1
<1>3. p = q
  BY <1>1, <1>2, Unique
<1> QED
  BY <1>1, <1>3

(* The remainder of the next number is the next remainder. *)
LEMMA NextMod ==
  ASSUME NEW a \in Nat, NEW g \in Nat, g > 0
  PROVE  ((a % g) + 1) % g = (a + 1) % g
<1> DEFINE q == a \div g
           r == a % g
<1>1. q \in Nat /\ r \in 0..(g - 1) /\ a = g * q + r
  BY DivMod
<1> HIDE DEF q
<1> SUFFICES (r + 1) % g = (a + 1) % g
  OBVIOUS
<1> HIDE DEF r
<1>2. CASE r + 1 < g
  <2>1. (g * q + (r + 1)) % g = r + 1
    BY SMTT(30), <1>1, <1>2, ModOf
  <2>2. (r + 1) % g = r + 1
    BY SMTT(30), <1>1, <1>2
  <2>3. a + 1 = g * q + (r + 1)
    BY SMTT(30), <1>1
  <2> QED
    BY <2>1, <2>2, <2>3
<1>3. CASE r + 1 = g
  <2>1. (g * (q + 1) + 0) % g = 0
    BY SMTT(30), <1>1, ModOf
  <2>2. (r + 1) % g = 0
    BY SMTT(30), <1>3
  <2>3. a + 1 = g * (q + 1) + 0
    BY SMTT(30), <1>1, <1>3
  <2> QED
    BY <2>1, <2>2, <2>3
<1> QED
  BY SMTT(30), <1>1, <1>2, <1>3

-----------------------------------------------------------------------------
(* The inductive invariant. *)

(* A slot's generation is the number of its creations, modulo GenMod. *)
GenInv == \A k \in Keys : KEYS[k].generation = creates[k] % GenMod

(* What a thread's own slot says about the value it stored last: a value   *)
(* is the one stored, with the generation of its key; a slot that          *)
(* thread_getspecific emptied was stored for an earlier key; and a key has *)
(* the destructor it had when the value was stored for it.                 *)
Stored(t, k) ==
  /\ last[t][k] # Nothing =>
       last[t][k].value # NULL /\ last[t][k].creation <= creates[k]
  /\ local[t][k].value # NULL =>
       /\ last[t][k] # Nothing
       /\ last[t][k].value = local[t][k].value
       /\ local[t][k].generation = last[t][k].creation % GenMod
  /\ local[t][k].value = NULL /\ last[t][k] # Nothing =>
       last[t][k].creation < creates[k]
  /\ last[t][k] # Nothing /\ last[t][k].creation = creates[k] /\ KEYS[k].used =>
       KEYS[k].destructor = last[t][k].destructor
StoredInv == \A t \in Threads, k \in Keys : Stored(t, k)

(* The destructor found by the scan is still that of the value. *)
CallInv ==
  \A t \in Threads :
    pc[t] = "call" =>
      /\ i[t] \in Keys
      /\ destructor[t] = last[t][i[t]].destructor \/ MayAlias(t, i[t])

(* In the last pass the keys behind the scan have nothing left. *)
Clean(t, k) == Pending(t, k) => KEYS[k].destructor = NULL \/ MayAlias(t, k)
Behind(t, k) ==
  \/ pc[t] = "done"
  \/ pc[t] \in {"scan", "call"} /\ k < i[t]
  \/ pc[t] = "in_destructor" /\ k <= i[t]
CleanInv ==
  \A t \in Threads, k \in Keys :
    iterations[t] = Iterations - 1 /\ ~refilled[t] /\ Behind(t, k) => Clean(t, k)

PassInv ==
  \A t \in Threads :
    /\ pc[t] = "running" => i[t] = 0
    /\ pc[t] = "in_destructor" => i[t] \in Keys
    /\ pc[t] = "done" => iterations[t] = Iterations - 1

IndInv == TypeOK /\ GenInv /\ StoredInv /\ CallInv /\ CleanInv /\ PassInv

(* A value that the scan takes for one of the present key is one, unless   *)
(* the generation came round.                                              *)
LEMMA NotStale ==
  ASSUME TypeOK, GenInv, StoredInv, NEW t \in Threads, NEW k \in Keys,
         Pending(t, k), ~MayAlias(t, k)
  PROVE  last[t][k] # Nothing /\ last[t][k].creation = creates[k]
<1>1. /\ last[t][k] # Nothing /\ last[t][k].creation <= creates[k]
      /\ last[t][k].creation \in Nat /\ creates[k] \in Nat
      /\ last[t][k].creation % GenMod = creates[k] % GenMod
  BY SMTT(30) DEF TypeOK, GenInv, StoredInv, Stored, Pending
<1>2. creates[k] - last[t][k].creation < GenMod
  BY SMTT(30), <1>1, GenModAssumption DEF MayAlias
<1>3. GenMod \in Nat /\ GenMod > 0
  BY SMTT(30), GenModAssumption
<1> QED
  BY <1>1, <1>2, <1>3, SameMod

LEMMA InitIndInv == Init => IndInv
<1> SUFFICES ASSUME Init PROVE IndInv
  OBVIOUS
<1>1. TypeOK
  <2>1. 0 \in 0..KeysMax /\ 0 \in 0..(Iterations - 1) /\ 0 \in 0..(GenMod - 1) /\ 0 \in Nat
    BY SMTT(30), KeysMaxAssumption, IterationsAssumption, GenModAssumption
  <2>2. KEYS \in [Keys -> [used : BOOLEAN, destructor : Destructors \cup {NULL},
                          generation : 0..(GenMod - 1)]]
    BY <2>1 DEF Init
  <2>3. local \in [Threads -> [Keys -> [value : Values \cup {NULL},
                                       generation : 0..(GenMod - 1)]]]
    BY <2>1 DEF Init
  <2>4. last \in [Threads -> [Keys -> [value : Values \cup {NULL}, creation : Nat,
                                      destructor : Destructors \cup {NULL}]]]
    BY <2>1 DEF Init, Nothing
  <2> QED
    BY <2>1, <2>2, <2>3, <2>4 DEF Init, TypeOK
<1>2. GenInv
  <2>1. 0 % GenMod = 0
    BY SMTT(30), GenModAssumption
  <2> QED
    BY <2>1 DEF Init, GenInv
<1>3. StoredInv /\ CallInv /\ PassInv /\ CleanInv
  BY DEF Init, StoredInv, Stored, CallInv, PassInv, CleanInv, Behind
<1> QED
  BY <1>1, <1>2, <1>3 DEF IndInv

-----------------------------------------------------------------------------
(* One lemma per action that changes what the invariant speaks of. *)

LEMMA CreateKeeps ==
  ASSUME IndInv, NEW t \in Threads, NEW d \in Destructors \cup {NULL}, thread_key_create(t, d)
  PROVE  IndInv'
<1>1. PICK c \in Keys :
        /\ ~KEYS[c].used
        /\ KEYS' = [KEYS EXCEPT ![c] =
                      [used |-> TRUE, destructor |-> d,
                       generation |-> (@.generation + 1) % GenMod]]
        /\ creates' = [creates EXCEPT ![c] = @ + 1]
  BY DEF thread_key_create, FreeKeys
<1>2. UNCHANGED <<local, pc, iterations, i, destructor, panicked, last, refilled>>
  BY DEF thread_key_create
<1>3. TypeOK /\ GenInv /\ StoredInv /\ CallInv /\ CleanInv /\ PassInv
  BY DEF IndInv
<1>4. (KEYS[c].generation + 1) % GenMod = (creates[c] + 1) % GenMod
  <2>1. KEYS[c].generation = creates[c] % GenMod /\ creates[c] \in Nat
    BY <1>3 DEF TypeOK, GenInv
  <2>2. GenMod \in Nat /\ GenMod > 0
    BY SMTT(30), GenModAssumption
  <2>3. ((creates[c] % GenMod) + 1) % GenMod = (creates[c] + 1) % GenMod
    BY <2>1, <2>2, NextMod
  <2> QED
    BY <2>1, <2>3
<1>5. (KEYS[c].generation + 1) % GenMod \in 0..(GenMod - 1)
  BY SMTT(30), <1>3, GenModAssumption DEF TypeOK
<1>6. TypeOK'
  <2>1. KEYS' \in [Keys -> [used : BOOLEAN, destructor : Destructors \cup {NULL},
                            generation : 0..(GenMod - 1)]]
    BY <1>1, <1>3, <1>5 DEF TypeOK
  <2>2. creates' \in [Keys -> Nat]
    BY SMTT(30), <1>1, <1>3 DEF TypeOK
  <2> QED
    BY <1>2, <1>3, <2>1, <2>2 DEF TypeOK
<1>7. GenInv'
  BY <1>1, <1>3, <1>4 DEF GenInv, TypeOK
<1>8. StoredInv'
  <2> SUFFICES ASSUME NEW u \in Threads, NEW k \in Keys PROVE Stored(u, k)'
    BY DEF StoredInv
  <2>0. Stored(u, k) /\ last[u][k].creation \in Nat /\ creates[k] \in Nat
    BY <1>3 DEF StoredInv, TypeOK
  <2>1. CASE k = c
    <3>1. creates'[k] = creates[k] + 1
      BY <1>1, <1>3, <2>1 DEF TypeOK
    <3> QED
      BY SMTT(30), <1>2, <2>0, <3>1 DEF Stored
  <2>2. CASE k # c
    <3>1. creates'[k] = creates[k] /\ KEYS'[k] = KEYS[k]
      BY <1>1, <1>3, <2>2 DEF TypeOK
    <3> QED
      BY <1>2, <2>0, <3>1 DEF Stored
  <2> QED
    BY <2>1, <2>2
<1>9. \A u \in Threads, k \in Keys : MayAlias(u, k) => MayAlias(u, k)'
  <2> SUFFICES ASSUME NEW u \in Threads, NEW k \in Keys, MayAlias(u, k)
               PROVE  MayAlias(u, k)'
    OBVIOUS
  <2>1. creates'[k] >= creates[k] /\ creates'[k] \in Nat /\ creates[k] \in Nat
    BY SMTT(30), <1>1, <1>3 DEF TypeOK
  <2>2. last[u][k].creation \in Nat
    BY <1>3 DEF TypeOK
  <2> QED
    BY SMTT(30), <1>2, <2>1, <2>2, GenModAssumption DEF MayAlias
<1>10. CallInv'
  BY <1>2, <1>3, <1>9 DEF CallInv
<1>11. CleanInv'
  <2> SUFFICES ASSUME NEW u \in Threads, NEW k \in Keys,
                      (iterations[u] = Iterations - 1 /\ ~refilled[u] /\ Behind(u, k))',
                      Pending(u, k)', ~MayAlias(u, k)'
               PROVE  KEYS'[k].destructor = NULL
    BY DEF CleanInv, Clean
  <2>1. CASE k = c
    <3>1. /\ last[u][k].creation \in Nat /\ creates'[k] = creates[k] + 1 /\ creates[k] \in Nat
          /\ KEYS'[k].generation = (creates[k] + 1) % GenMod
      BY <1>1, <1>3, <1>4, <2>1 DEF TypeOK
    <3>2. /\ last[u][k] # Nothing /\ last[u][k].creation <= creates[k]
          /\ last[u][k].creation % GenMod = (creates[k] + 1) % GenMod
      BY <1>2, <1>3, <3>1 DEF Pending, StoredInv, Stored
    <3>3. (creates[k] + 1) - last[u][k].creation < GenMod
      BY SMTT(30), <1>2, <3>1, <3>2, GenModAssumption DEF MayAlias
    <3>4. creates[k] + 1 = last[u][k].creation
      <4> DEFINE m == creates[k] + 1
                 n == last[u][k].creation
      <4>1. /\ m \in Nat /\ n \in Nat /\ n <= m /\ m - n < GenMod /\ m % GenMod = n % GenMod
            /\ GenMod \in Nat /\ GenMod > 0
        BY SMTT(30), <3>1, <3>2, <3>3, GenModAssumption
      <4> HIDE DEF m, n
      <4>2. m = n
        BY <4>1, SameMod
      <4> QED
        BY <4>2 DEF m, n
    <3> QED
      BY SMTT(30), <3>1, <3>2, <3>4
  <2>2. CASE k # c
    <3>1. creates'[k] = creates[k] /\ KEYS'[k] = KEYS[k]
      BY <1>1, <1>3, <2>2 DEF TypeOK
    <3>2. Pending(u, k) /\ ~MayAlias(u, k) /\ Behind(u, k)
      BY <1>2, <1>9, <3>1 DEF Pending, Behind
    <3> QED
      BY <1>2, <1>3, <3>1, <3>2 DEF CleanInv, Clean
  <2> QED
    BY <2>1, <2>2
<1>12. PassInv'
  BY <1>2, <1>3 DEF PassInv
<1> QED
  BY <1>6, <1>7, <1>8, <1>10, <1>11, <1>12 DEF IndInv

LEMMA DeleteKeeps ==
  ASSUME IndInv, NEW t \in Threads, NEW c \in KeyArgs, thread_key_delete(t, c)
  PROVE  IndInv'
<1>1. /\ c \in Keys
      /\ KEYS' = [KEYS EXCEPT ![c].used = FALSE, ![c].destructor = NULL]
      /\ UNCHANGED <<local, pc, iterations, i, destructor, panicked, creates, last, refilled>>
  BY DEF thread_key_delete, ValidKey
<1>2. TypeOK /\ GenInv /\ StoredInv /\ CallInv /\ CleanInv /\ PassInv
  BY DEF IndInv
<1>3. /\ DOMAIN KEYS' = Keys
      /\ \A k \in Keys : /\ KEYS'[k].generation = KEYS[k].generation
                         /\ k # c => KEYS'[k] = KEYS[k]
                         /\ k = c => ~KEYS'[k].used /\ KEYS'[k].destructor = NULL
  BY SMTT(30), <1>1, <1>2 DEF TypeOK
<1>4. TypeOK'
  <2>1. KEYS' \in [Keys -> [used : BOOLEAN, destructor : Destructors \cup {NULL},
                            generation : 0..(GenMod - 1)]]
    <3>1. KEYS' = [k \in Keys |-> KEYS'[k]]
      BY <1>1, <1>2 DEF TypeOK
    <3>2. KEYS'[c] = [KEYS[c] EXCEPT !.used = FALSE, !.destructor = NULL]
      BY <1>1, <1>2 DEF TypeOK
    <3>3. KEYS[c] \in [used : BOOLEAN, destructor : Destructors \cup {NULL},
                       generation : 0..(GenMod - 1)]
      BY <1>1, <1>2 DEF TypeOK
    <3>4. KEYS'[c] \in [used : BOOLEAN, destructor : Destructors \cup {NULL},
                        generation : 0..(GenMod - 1)]
      BY <3>2, <3>3
    <3>5. \A k \in Keys \ {c} : KEYS'[k] \in [used : BOOLEAN, destructor : Destructors \cup {NULL},
                                              generation : 0..(GenMod - 1)]
      BY <1>2, <1>3 DEF TypeOK
    <3> QED
      BY <3>1, <3>4, <3>5
  <2> QED
    BY <1>1, <1>2, <2>1 DEF TypeOK
<1>5. GenInv'
  BY SMTT(30), <1>1, <1>2, <1>3 DEF GenInv
<1>6. StoredInv'
  BY SMTT(30), <1>1, <1>2, <1>3 DEF StoredInv, Stored
<1>7. CallInv' /\ PassInv'
  BY <1>1, <1>2 DEF CallInv, PassInv, MayAlias
<1>8. CleanInv'
  BY SMTT(30), <1>1, <1>2, <1>3 DEF CleanInv, Clean, Pending, Behind, MayAlias
<1> QED
  BY <1>4, <1>5, <1>6, <1>7, <1>8 DEF IndInv

LEMMA GetKeeps ==
  ASSUME IndInv, NEW t \in Threads, NEW c \in KeyArgs, thread_getspecific(t, c)
  PROVE  IndInv'
<1>1. UNCHANGED <<KEYS, pc, iterations, i, destructor, creates, last, refilled>>
  BY DEF thread_getspecific
<1>2. TypeOK /\ GenInv /\ StoredInv /\ CallInv /\ CleanInv /\ PassInv
  BY DEF IndInv
<1>3. GenInv' /\ CallInv' /\ PassInv'
  BY <1>1, <1>2 DEF GenInv, CallInv, PassInv, MayAlias
<1>4. CASE ~ValidKey(c)
  <2>1. local' = local /\ panicked' = TRUE
    BY <1>4 DEF thread_getspecific
  <2>2. TypeOK'
    BY <1>1, <1>2, <2>1 DEF TypeOK
  <2>3. StoredInv'
    BY SMTT(30), <1>1, <1>2, <2>1 DEF StoredInv, Stored
  <2>4. CleanInv'
    BY SMTT(30), <1>1, <1>2, <2>1 DEF CleanInv, Clean, Pending, Behind, MayAlias
  <2> QED
    BY <1>3, <2>2, <2>3, <2>4 DEF IndInv
<1>5. CASE ValidKey(c)
  <2>1. /\ c \in Keys /\ panicked' = panicked
        /\ local' = [local EXCEPT ![t][c] = [value |-> GetValue(t, c),
                                             generation |-> KEYS[c].generation]]
    BY <1>5 DEF thread_getspecific, ValidKey
  <2>2. GetValue(t, c) \in Values \cup {NULL}
    BY SMTT(30), <1>2, <2>1 DEF GetValue, TypeOK
  <2>3. TypeOK'
    <3>1. local' \in [Threads -> [Keys -> [value : Values \cup {NULL},
                                           generation : 0..(GenMod - 1)]]]
      BY <1>2, <2>1, <2>2 DEF TypeOK
    <3> QED
      BY <1>1, <1>2, <2>1, <3>1 DEF TypeOK
  <2>4. \A u \in Threads, k \in Keys :
          /\ u # t \/ k # c => local'[u][k] = local[u][k]
          /\ u = t /\ k = c => local'[u][k] = [value |-> GetValue(t, c),
                                               generation |-> KEYS[c].generation]
    BY <1>2, <2>1 DEF TypeOK
  <2>5. StoredInv'
    <3> SUFFICES ASSUME NEW u \in Threads, NEW k \in Keys PROVE Stored(u, k)'
      BY DEF StoredInv
    <3>0. Stored(u, k) /\ last[u][k].creation \in Nat /\ creates[k] \in Nat
      BY <1>2 DEF StoredInv, TypeOK
    <3>1. CASE u # t \/ k # c
      BY <1>1, <2>4, <3>0, <3>1 DEF Stored
    <3>2. CASE u = t /\ k = c /\ local[t][c].generation = KEYS[c].generation
      <4>1. local'[u][k].value = local[u][k].value
            /\ local'[u][k].generation = local[u][k].generation
        BY SMTT(30), <2>4, <3>2 DEF GetValue
      <4> QED
        BY <1>1, <3>0, <4>1 DEF Stored
    <3>3. CASE u = t /\ k = c /\ local[t][c].generation # KEYS[c].generation
      <4>1. local'[u][k].value = NULL
        BY SMTT(30), <2>4, <3>3 DEF GetValue
      <4>2. last[u][k] # Nothing => last[u][k].creation # creates[k]
        BY SMTT(30), <1>2, <3>0, <3>3 DEF Stored, GenInv
      <4> QED
        BY SMTT(30), <1>1, <3>0, <4>1, <4>2 DEF Stored
    <3> QED
      BY <3>1, <3>2, <3>3
  <2>6. \A u \in Threads, k \in Keys : Pending(u, k)' => Pending(u, k)
    BY SMTT(30), <1>1, <2>4 DEF Pending, GetValue
  <2>7. CleanInv'
    BY <1>1, <1>2, <2>6 DEF CleanInv, Clean, Behind, MayAlias
  <2> QED
    BY <1>3, <2>3, <2>5, <2>7 DEF IndInv
<1> QED
  BY <1>4, <1>5

LEMMA SetKeeps ==
  ASSUME IndInv, NEW t \in Threads, NEW c \in KeyArgs, NEW v \in Values \cup {NULL},
         thread_setspecific(t, c, v)
  PROVE  IndInv'
<1> DEFINE new == IF v = NULL THEN Nothing
                  ELSE [value |-> v, creation |-> creates[c], destructor |-> KEYS[c].destructor]
<1>1. /\ c \in Keys /\ KEYS[c].used /\ pc[t] \in {"running", "in_destructor"}
      /\ local' = [local EXCEPT ![t][c] = [value |-> v, generation |-> KEYS[c].generation]]
      /\ last' = [last EXCEPT ![t][c] = new]
      /\ refilled' = [refilled EXCEPT ![t] = @ \/ LastPass(t)]
      /\ UNCHANGED <<KEYS, pc, iterations, i, destructor, panicked, creates>>
  BY DEF thread_setspecific, ValidKey, Remember, InClientCode
<1>2. TypeOK /\ GenInv /\ StoredInv /\ CallInv /\ CleanInv /\ PassInv
  BY DEF IndInv
<1>3. new \in [value : Values \cup {NULL}, creation : Nat, destructor : Destructors \cup {NULL}]
  BY <1>1, <1>2 DEF TypeOK, Nothing
<1>4. TypeOK'
  <2>1. local' \in [Threads -> [Keys -> [value : Values \cup {NULL},
                                         generation : 0..(GenMod - 1)]]]
    BY <1>1, <1>2 DEF TypeOK
  <2>2. last' \in [Threads -> [Keys -> [value : Values \cup {NULL}, creation : Nat,
                                        destructor : Destructors \cup {NULL}]]]
    <3> HIDE DEF new
    <3> QED
      BY <1>1, <1>2, <1>3 DEF TypeOK
  <2>3. refilled' \in [Threads -> BOOLEAN]
    BY <1>1, <1>2 DEF TypeOK, LastPass
  <2> QED
    BY <1>1, <1>2, <2>1, <2>2, <2>3 DEF TypeOK
<1>5. \A u \in Threads, k \in Keys :
        /\ u # t \/ k # c => local'[u][k] = local[u][k] /\ last'[u][k] = last[u][k]
        /\ u = t /\ k = c => /\ local'[u][k] = [value |-> v, generation |-> KEYS[c].generation]
                             /\ last'[u][k] = new
  <2> HIDE DEF new
  <2> QED
    BY <1>1, <1>2 DEF TypeOK
<1>6. GenInv' /\ PassInv'
  BY <1>1, <1>2 DEF GenInv, PassInv
<1>7. StoredInv'
  <2> SUFFICES ASSUME NEW u \in Threads, NEW k \in Keys PROVE Stored(u, k)'
    BY DEF StoredInv
  <2>0. Stored(u, k) /\ last[u][k].creation \in Nat /\ creates[k] \in Nat
        /\ KEYS[k].generation = creates[k] % GenMod
    BY <1>2 DEF StoredInv, TypeOK, GenInv
  <2>1. CASE u # t \/ k # c
    BY SMTT(30), <1>1, <1>5, <2>0, <2>1 DEF Stored
  <2>2. CASE u = t /\ k = c /\ v = NULL
    <3>1. local'[u][k].value = NULL /\ last'[u][k] = Nothing
      BY SMTT(30), <1>5, <2>2
    <3> QED
      BY <3>1 DEF Stored
  <2>3. CASE u = t /\ k = c /\ v # NULL
    <3>1. /\ local'[u][k].value = v /\ local'[u][k].generation = KEYS[k].generation
          /\ last'[u][k].value = v /\ last'[u][k].creation = creates[k]
          /\ last'[u][k].destructor = KEYS[k].destructor
      BY SMTT(30), <1>5, <2>3
    <3>2. last'[u][k] # Nothing
      BY SMTT(30), <2>3, <3>1 DEF Nothing
    <3> QED
      BY SMTT(30), <1>1, <2>0, <2>3, <3>1, <3>2 DEF Stored
  <2> QED
    BY <2>1, <2>2, <2>3
<1>8. CallInv'
  <2> HIDE DEF new
  <2> SUFFICES ASSUME NEW u \in Threads, pc'[u] = "call"
               PROVE  /\ i'[u] \in Keys
                      /\ destructor'[u] = last'[u][i'[u]].destructor \/ MayAlias(u, i[u])'
    BY <1>1 DEF CallInv
  <2>1. u # t /\ i[u] \in Keys
    BY <1>1, <1>2 DEF CallInv
  <2>2. last'[u][i[u]] = last[u][i[u]]
    BY <1>5, <2>1
  <2> QED
    BY <1>1, <1>2, <2>1, <2>2 DEF CallInv, MayAlias
<1>9. CleanInv'
  <2> HIDE DEF new
  <2> SUFFICES ASSUME NEW u \in Threads, NEW k \in Keys,
                      (iterations[u] = Iterations - 1 /\ ~refilled[u] /\ Behind(u, k))'
               PROVE  Clean(u, k)'
    BY DEF CleanInv
  <2>1. CASE u = t
    <3>1. refilled'[t] = (refilled[t] \/ LastPass(t))
      BY <1>1, <1>2 DEF TypeOK
    <3>2. pc[t] = "in_destructor" => FALSE
      BY <1>1, <2>1, <3>1 DEF LastPass
    <3> QED
      BY <1>1, <2>1, <3>2 DEF Behind
  <2>2. CASE u # t
    <3>1. refilled'[u] = refilled[u]
      BY <1>1, <1>2, <2>2 DEF TypeOK
    <3>2. Clean(u, k)
      BY <1>1, <1>2, <3>1 DEF CleanInv, Behind
    <3> QED
      BY <1>1, <1>5, <2>2, <3>2 DEF Clean, Pending, MayAlias
  <2> QED
    BY <2>1, <2>2
<1> QED
  BY <1>4, <1>6, <1>7, <1>8, <1>9 DEF IndInv

LEMMA EnterKeeps ==
  ASSUME IndInv, NEW t \in Threads, thread_call_destructors(t)
  PROVE  IndInv'
<1>1. /\ pc[t] = "running" /\ pc' = [pc EXCEPT ![t] = "scan"]
      /\ UNCHANGED <<KEYS, local, iterations, i, destructor, panicked, creates, last, refilled>>
  BY DEF thread_call_destructors, Goto
<1>2. TypeOK /\ GenInv /\ StoredInv /\ CallInv /\ CleanInv /\ PassInv
  BY DEF IndInv
<1>3. \A u \in Threads : pc'[u] = IF u = t THEN "scan" ELSE pc[u]
  BY <1>1, <1>2 DEF TypeOK
<1>4. TypeOK'
  BY <1>1, <1>2 DEF TypeOK
<1>5. GenInv' /\ StoredInv'
  BY SMTT(30), <1>1, <1>2 DEF GenInv, StoredInv, Stored
<1>6. CallInv' /\ PassInv'
  BY SMTT(30), <1>1, <1>2, <1>3 DEF CallInv, PassInv, MayAlias
<1>7. CleanInv'
  <2> SUFFICES ASSUME NEW u \in Threads, NEW k \in Keys,
                      (iterations[u] = Iterations - 1 /\ ~refilled[u] /\ Behind(u, k))'
               PROVE  Clean(u, k)'
    BY DEF CleanInv
  <2>1. u # t
    <3>1. k \in Int /\ k >= 0 /\ i[t] = 0
      BY SMTT(30), <1>1, <1>2 DEF PassInv, Keys
    <3> QED
      BY SMTT(30), <1>1, <1>3, <3>1 DEF Behind
  <2> QED
    BY SMTT(30), <1>1, <1>2, <1>3, <2>1 DEF CleanInv, Behind, Clean, Pending, MayAlias
<1> QED
  BY <1>4, <1>5, <1>6, <1>7 DEF IndInv

LEMMA ScanKeeps ==
  ASSUME IndInv, NEW t \in Threads, scan(t)
  PROVE  IndInv'
<1>1. /\ pc[t] = "scan" /\ i[t] < KeysMax
      /\ UNCHANGED <<KEYS, local, iterations, panicked, creates, last, refilled>>
  BY DEF scan
<1>2. TypeOK /\ GenInv /\ StoredInv /\ CallInv /\ CleanInv /\ PassInv
  BY DEF IndInv
<1>3. i[t] \in Keys
  BY SMTT(30), <1>1, <1>2, KeysMaxAssumption DEF TypeOK, Keys
<1>4. GenInv' /\ StoredInv'
  BY SMTT(30), <1>1, <1>2 DEF GenInv, StoredInv, Stored
<1>5. CASE Pending(t, i[t]) /\ KEYS[i[t]].destructor # NULL
  <2>1. /\ destructor' = [destructor EXCEPT ![t] = KEYS[i[t]].destructor]
        /\ pc' = [pc EXCEPT ![t] = "call"] /\ i' = i
    BY <1>5 DEF scan, Goto
  <2>2. TypeOK'
    <3>1. destructor' \in [Threads -> Destructors \cup {NULL}]
      BY <1>2, <1>3, <2>1 DEF TypeOK
    <3> QED
      BY <1>1, <1>2, <2>1, <3>1 DEF TypeOK
  <2>3. \A u \in Threads :
          /\ pc'[u] = IF u = t THEN "call" ELSE pc[u]
          /\ destructor'[u] = IF u = t THEN KEYS[i[t]].destructor ELSE destructor[u]
    BY <1>2, <2>1 DEF TypeOK
  <2>4. KEYS[i[t]].destructor = last[t][i[t]].destructor \/ MayAlias(t, i[t])
    <3>1. SUFFICES ASSUME ~MayAlias(t, i[t])
                   PROVE  KEYS[i[t]].destructor = last[t][i[t]].destructor
      OBVIOUS
    <3>2. last[t][i[t]] # Nothing /\ last[t][i[t]].creation = creates[i[t]]
      BY <1>2, <1>3, <1>5, <3>1, NotStale
    <3> QED
      BY <1>2, <1>3, <1>5, <3>2 DEF StoredInv, Stored, Pending
  <2>5. CallInv' /\ PassInv'
    BY SMTT(30), <1>1, <1>2, <1>3, <2>1, <2>3, <2>4 DEF CallInv, PassInv, MayAlias
  <2>6. CleanInv'
    BY SMTT(30), <1>1, <1>2, <2>1, <2>3 DEF CleanInv, Behind, Clean, Pending, MayAlias
  <2> QED
    BY <1>4, <2>2, <2>5, <2>6 DEF IndInv
<1>6. CASE ~(Pending(t, i[t]) /\ KEYS[i[t]].destructor # NULL)
  <2>1. i' = [i EXCEPT ![t] = @ + 1] /\ UNCHANGED <<pc, destructor>>
    BY <1>6 DEF scan
  <2>2. i[t] + 1 \in 0..KeysMax
    BY SMTT(30), <1>1, <1>2, KeysMaxAssumption DEF TypeOK
  <2>3. TypeOK'
    <3>1. i' \in [Threads -> 0..KeysMax]
      BY <1>2, <2>1, <2>2 DEF TypeOK
    <3> QED
      BY <1>1, <1>2, <2>1, <3>1 DEF TypeOK
  <2>4. \A u \in Threads : i'[u] = IF u = t THEN i[t] + 1 ELSE i[u]
    BY <1>2, <2>1 DEF TypeOK
  <2>5. CallInv' /\ PassInv'
    BY <1>1, <1>2, <2>1, <2>4 DEF CallInv, PassInv, MayAlias
  <2>6. CleanInv'
    <3> SUFFICES ASSUME NEW u \in Threads, NEW k \in Keys,
                        (iterations[u] = Iterations - 1 /\ ~refilled[u] /\ Behind(u, k))'
                 PROVE  Clean(u, k)
      BY <1>1 DEF CleanInv, Clean, Pending, MayAlias
    <3>1. CASE u = t /\ k = i[t]
      BY <1>6, <3>1 DEF Clean
    <3>2. CASE u # t \/ k # i[t]
      <4>1. Behind(u, k)
        <5>1. k \in Int /\ i[t] \in Int
          BY SMTT(30), <1>3 DEF Keys
        <5> QED
          BY SMTT(30), <1>1, <2>1, <2>4, <3>2, <5>1 DEF Behind
      <4> QED
        BY <1>1, <1>2, <4>1 DEF CleanInv
    <3> QED
      BY <3>1, <3>2
  <2> QED
    BY <1>4, <2>3, <2>5, <2>6 DEF IndInv
<1> QED
  BY <1>5, <1>6

LEMMA PassKeeps ==
  ASSUME IndInv, NEW t \in Threads, next_pass(t)
  PROVE  IndInv'
<1>1. /\ pc[t] = "scan" /\ i[t] = KeysMax /\ i' = [i EXCEPT ![t] = 0]
      /\ UNCHANGED <<KEYS, local, destructor, panicked, creates, last, refilled>>
  BY DEF next_pass
<1>2. TypeOK /\ GenInv /\ StoredInv /\ CallInv /\ CleanInv /\ PassInv
  BY DEF IndInv
<1>3. i' \in [Threads -> 0..KeysMax] /\ \A u \in Threads : i'[u] = IF u = t THEN 0 ELSE i[u]
  BY SMTT(30), <1>1, <1>2, KeysMaxAssumption DEF TypeOK
<1>4. GenInv' /\ StoredInv'
  BY SMTT(30), <1>1, <1>2 DEF GenInv, StoredInv, Stored
<1>5. iterations[t] \in 0..(Iterations - 1)
  BY <1>2 DEF TypeOK
<1>6. CASE iterations[t] + 1 < Iterations
  <2>1. iterations' = [iterations EXCEPT ![t] = @ + 1] /\ pc' = pc
    BY <1>6 DEF next_pass
  <2>2. /\ iterations' \in [Threads -> 0..(Iterations - 1)]
        /\ \A u \in Threads : u # t => iterations'[u] = iterations[u]
    BY SMTT(30), <1>2, <1>5, <1>6, <2>1, IterationsAssumption DEF TypeOK
  <2>3. TypeOK'
    BY <1>1, <1>2, <1>3, <2>1, <2>2 DEF TypeOK
  <2>4. CallInv' /\ PassInv'
    BY <1>1, <1>2, <1>3, <2>1, <2>2 DEF CallInv, PassInv, MayAlias
  <2>5. CleanInv'
    <3> SUFFICES ASSUME NEW u \in Threads, NEW k \in Keys,
                        (iterations[u] = Iterations - 1 /\ ~refilled[u] /\ Behind(u, k))'
                 PROVE  Clean(u, k)
      BY <1>1 DEF CleanInv, Clean, Pending, MayAlias
    <3>1. u # t
      <4>1. k >= 0 /\ k \in Int
        BY SMTT(30) DEF Keys
      <4> QED
        BY SMTT(30), <1>1, <1>3, <2>1, <4>1 DEF Behind
    <3>2. Behind(u, k) /\ iterations[u] = Iterations - 1
      BY <1>3, <2>1, <2>2, <3>1 DEF Behind
    <3> QED
      BY <1>1, <1>2, <3>2 DEF CleanInv
  <2> QED
    BY <1>4, <2>3, <2>4, <2>5 DEF IndInv
<1>7. CASE ~(iterations[t] + 1 < Iterations)
  <2>1. iterations' = iterations /\ pc' = [pc EXCEPT ![t] = "done"]
    BY <1>7 DEF next_pass, Goto
  <2>2. \A u \in Threads : pc'[u] = IF u = t THEN "done" ELSE pc[u]
    BY <1>2, <2>1 DEF TypeOK
  <2>3. iterations[t] = Iterations - 1
    BY SMTT(30), <1>5, <1>7, IterationsAssumption
  <2>4. TypeOK'
    BY <1>1, <1>2, <1>3, <2>1 DEF TypeOK
  <2>5. CallInv' /\ PassInv'
    BY SMTT(30), <1>1, <1>2, <1>3, <2>1, <2>2, <2>3 DEF CallInv, PassInv, MayAlias
  <2>6. CleanInv'
    <3> SUFFICES ASSUME NEW u \in Threads, NEW k \in Keys,
                        (iterations[u] = Iterations - 1 /\ ~refilled[u] /\ Behind(u, k))'
                 PROVE  Clean(u, k)
      BY <1>1 DEF CleanInv, Clean, Pending, MayAlias
    <3>1. Behind(u, k)
      <4>1. k < KeysMax
        BY SMTT(30), KeysMaxAssumption DEF Keys
      <4> QED
        BY <1>1, <1>3, <2>2, <4>1 DEF Behind
    <3> QED
      BY <1>1, <1>2, <2>1, <3>1 DEF CleanInv
  <2> QED
    BY <1>4, <2>4, <2>5, <2>6 DEF IndInv
<1> QED
  BY <1>6, <1>7

LEMMA CallKeeps ==
  ASSUME IndInv, NEW t \in Threads, call(t)
  PROVE  IndInv'
<1>1. /\ pc[t] = "call" /\ pc' = [pc EXCEPT ![t] = "in_destructor"]
      /\ local' = [local EXCEPT ![t][i[t]].value = NULL]
      /\ last' = [last EXCEPT ![t][i[t]] = Nothing]
      /\ UNCHANGED <<KEYS, iterations, i, destructor, panicked, creates, refilled>>
  BY DEF call, Goto
<1>2. TypeOK /\ GenInv /\ StoredInv /\ CallInv /\ CleanInv /\ PassInv
  BY DEF IndInv
<1>3. i[t] \in Keys
  BY <1>1, <1>2 DEF CallInv
<1>4. \A u \in Threads : pc'[u] = IF u = t THEN "in_destructor" ELSE pc[u]
  BY <1>1, <1>2 DEF TypeOK
<1>5. \A u \in Threads, k \in Keys :
        /\ u # t \/ k # i[t] => local'[u][k] = local[u][k] /\ last'[u][k] = last[u][k]
        /\ u = t /\ k = i[t] => local'[u][k].value = NULL /\ last'[u][k] = Nothing
  BY SMTT(30), <1>1, <1>2, <1>3 DEF TypeOK
<1>6. TypeOK'
  <2>1. local' \in [Threads -> [Keys -> [value : Values \cup {NULL},
                                         generation : 0..(GenMod - 1)]]]
    <3>1. \A u \in Threads, k \in Keys :
            [local[u][k] EXCEPT !.value = NULL] \in [value : Values \cup {NULL},
                                                    generation : 0..(GenMod - 1)]
      <4> SUFFICES ASSUME NEW u \in Threads, NEW k \in Keys
                   PROVE  [local[u][k] EXCEPT !.value = NULL]
                            \in [value : Values \cup {NULL}, generation : 0..(GenMod - 1)]
        OBVIOUS
      <4>1. local[u][k] \in [value : Values \cup {NULL}, generation : 0..(GenMod - 1)]
        BY SMTT(30), <1>2 DEF TypeOK
      <4>2. [local[u][k] EXCEPT !.value = NULL] =
              [value |-> NULL, generation |-> local[u][k].generation]
        BY SMTT(30), <4>1
      <4> QED
        BY <4>1, <4>2
    <3>2. local' = [local EXCEPT ![t] = [local[t] EXCEPT ![i[t]] =
                                           [local[t][i[t]] EXCEPT !.value = NULL]]]
      BY <1>1
    <3> QED
      BY <1>2, <1>3, <3>1, <3>2 DEF TypeOK
  <2>2. Nothing \in [value : Values \cup {NULL}, creation : Nat,
                     destructor : Destructors \cup {NULL}]
    BY DEF Nothing
  <2>3. last' \in [Threads -> [Keys -> [value : Values \cup {NULL}, creation : Nat,
                                        destructor : Destructors \cup {NULL}]]]
    BY <1>1, <1>2, <1>3, <2>2 DEF TypeOK
  <2> QED
    BY <1>1, <1>2, <2>1, <2>3 DEF TypeOK
<1>7. GenInv'
  BY <1>1, <1>2 DEF GenInv
<1>8. StoredInv'
  BY SMTT(30), <1>1, <1>2, <1>5 DEF StoredInv, Stored
<1>9. CallInv'
  <2> SUFFICES ASSUME NEW u \in Threads, pc'[u] = "call"
               PROVE  /\ i'[u] \in Keys
                      /\ destructor'[u] = last'[u][i'[u]].destructor \/ MayAlias(u, i[u])'
    BY <1>1 DEF CallInv
  <2>1. u # t /\ pc[u] = "call" /\ i[u] \in Keys
    BY <1>2, <1>4 DEF CallInv
  <2>2. last'[u][i[u]] = last[u][i[u]]
    BY <1>5, <2>1
  <2> QED
    BY <1>1, <1>2, <2>1, <2>2 DEF CallInv, MayAlias
<1>10. PassInv'
  BY SMTT(30), <1>1, <1>2, <1>3, <1>4 DEF PassInv
<1>11. CleanInv'
  <2> SUFFICES ASSUME NEW u \in Threads, NEW k \in Keys,
                      (iterations[u] = Iterations - 1 /\ ~refilled[u] /\ Behind(u, k))'
               PROVE  Clean(u, k)'
    BY DEF CleanInv
  <2>1. CASE u = t /\ k = i[t]
    BY <1>5, <2>1 DEF Clean, Pending
  <2>2. CASE u # t \/ k # i[t]
    <3>1. Behind(u, k)
      <4>1. k \in Int /\ i[t] \in Int
        BY SMTT(30), <1>3 DEF Keys
      <4> QED
        BY SMTT(30), <1>1, <1>4, <2>2, <4>1 DEF Behind
    <3>2. Clean(u, k)
      BY <1>1, <1>2, <3>1 DEF CleanInv
    <3> QED
      BY <1>1, <1>5, <2>2, <3>2 DEF Clean, Pending, MayAlias
  <2> QED
    BY <2>1, <2>2
<1> QED
  BY <1>6, <1>7, <1>8, <1>9, <1>10, <1>11 DEF IndInv

LEMMA ReturnKeeps ==
  ASSUME IndInv, NEW t \in Threads, destructor_returns(t)
  PROVE  IndInv'
<1>1. /\ pc[t] = "in_destructor" /\ pc' = [pc EXCEPT ![t] = "scan"]
      /\ destructor' = [destructor EXCEPT ![t] = NULL]
      /\ i' = [i EXCEPT ![t] = @ + 1]
      /\ UNCHANGED <<KEYS, local, iterations, panicked, creates, last, refilled>>
  BY DEF destructor_returns, Goto
<1>2. TypeOK /\ GenInv /\ StoredInv /\ CallInv /\ CleanInv /\ PassInv
  BY DEF IndInv
<1>3. i[t] \in Keys /\ i[t] \in Int /\ i[t] + 1 \in 0..KeysMax
  BY SMTT(30), <1>1, <1>2, KeysMaxAssumption DEF PassInv, Keys
<1>4. \A u \in Threads : /\ pc'[u] = IF u = t THEN "scan" ELSE pc[u]
                         /\ i'[u] = IF u = t THEN i[t] + 1 ELSE i[u]
                         /\ u # t => destructor'[u] = destructor[u]
  BY <1>1, <1>2 DEF TypeOK
<1>5. TypeOK'
  <2>1. i' \in [Threads -> 0..KeysMax]
    BY <1>1, <1>2, <1>3 DEF TypeOK
  <2>2. destructor' \in [Threads -> Destructors \cup {NULL}]
    BY <1>1, <1>2 DEF TypeOK
  <2> QED
    BY <1>1, <1>2, <2>1, <2>2 DEF TypeOK
<1>6. GenInv' /\ StoredInv'
  BY SMTT(30), <1>1, <1>2 DEF GenInv, StoredInv, Stored
<1>7. CallInv' /\ PassInv'
  BY SMTT(30), <1>1, <1>2, <1>4 DEF CallInv, PassInv, MayAlias
<1>8. CleanInv'
  <2> SUFFICES ASSUME NEW u \in Threads, NEW k \in Keys,
                      (iterations[u] = Iterations - 1 /\ ~refilled[u] /\ Behind(u, k))'
               PROVE  Clean(u, k)
    BY <1>1 DEF CleanInv, Clean, Pending, MayAlias
  <2>1. Behind(u, k)
    <3>1. k \in Int
      BY SMTT(30) DEF Keys
    <3> QED
      BY SMTT(30), <1>1, <1>3, <1>4, <3>1 DEF Behind
  <2> QED
    BY <1>1, <1>2, <2>1 DEF CleanInv
<1> QED
  BY <1>5, <1>6, <1>7, <1>8 DEF IndInv

-----------------------------------------------------------------------------

LEMMA NextIndInv == IndInv /\ [Next]_vars => IndInv'
<1> SUFFICES ASSUME IndInv, [Next]_vars PROVE IndInv'
  OBVIOUS
<1>1. CASE UNCHANGED vars
  BY SMTT(30), <1>1 DEF vars, IndInv, TypeOK, GenInv, StoredInv, Stored, CallInv, CleanInv, PassInv,
              Behind, Clean, Pending, MayAlias
<1>2. CASE \E t \in Threads : Call(t)
  BY <1>2, CreateKeeps, DeleteKeeps, GetKeeps, SetKeeps DEF Call
<1>3. CASE \E t \in Threads : thread_call_destructors(t)
  BY <1>3, EnterKeeps
<1>4. CASE \E t \in Threads : Exit(t)
  BY <1>4, ScanKeeps, PassKeeps, CallKeeps, ReturnKeeps DEF Exit
<1> QED
  BY <1>1, <1>2, <1>3, <1>4 DEF Next

LEMMA Inductive == Spec => []IndInv
  BY InitIndInv, NextIndInv, PTL DEF Spec

(* What thread_getspecific returns is what the thread stored for this very *)
(* key, for any number of keys and threads, unless GenMod creations of one *)
(* slot came between.                                                      *)
THEOREM OwnValues == Spec => []SeesOwnValues
<1>1. IndInv => SeesOwnValues
  <2> SUFFICES ASSUME IndInv, NEW t \in Threads, NEW k \in Keys,
                      KEYS[k].used, ~MayAlias(t, k)
               PROVE  GetValue(t, k) =
                        IF last[t][k].creation = creates[k] THEN last[t][k].value ELSE NULL
    BY DEF SeesOwnValues
  <2>0. TypeOK /\ GenInv /\ StoredInv /\ Stored(t, k)
    BY DEF IndInv, StoredInv
  <2>1. CASE last[t][k] = Nothing
    <3>1. local[t][k].value = NULL /\ last[t][k].value = NULL
      BY SMTT(30), <2>0, <2>1 DEF Stored, Nothing
    <3> QED
      BY <3>1 DEF GetValue
  <2>2. CASE last[t][k] # Nothing /\ last[t][k].creation = creates[k]
    <3>1. /\ local[t][k].value = last[t][k].value
          /\ local[t][k].generation = KEYS[k].generation
      BY SMTT(30), <2>0, <2>2 DEF Stored, TypeOK, GenInv
    <3> QED
      BY <2>2, <3>1 DEF GetValue
  <2>3. CASE last[t][k] # Nothing /\ last[t][k].creation # creates[k]
    <3>1. GetValue(t, k) # NULL => Pending(t, k)
      BY DEF GetValue, Pending
    <3>2. GetValue(t, k) = NULL
      BY <2>0, <2>3, <3>1, NotStale
    <3> QED
      BY <2>3, <3>2
  <2> QED
    BY <2>1, <2>2, <2>3
<1> QED
  BY Inductive, <1>1, PTL

(* The destructor that a thread calls is that of the key its value was     *)
(* stored for, although the mutex is released between the look at KEYS and *)
(* the call.                                                               *)
THEOREM CallsRight == Spec => RightDestructor
<1>1. IndInv /\ [Next]_vars =>
        [\A t \in Threads :
           pc[t] = "call" /\ pc'[t] = "in_destructor" =>
             \/ destructor'[t] = last[t][i[t]].destructor
             \/ MayAlias(t, i[t])]_vars
  <2> SUFFICES ASSUME IndInv, [Next]_vars, NEW t \in Threads,
                      pc[t] = "call", pc'[t] = "in_destructor"
               PROVE  destructor'[t] = last[t][i[t]].destructor \/ MayAlias(t, i[t])
    OBVIOUS
  <2>0. TypeOK /\ CallInv
    BY DEF IndInv
  <2>1. destructor'[t] = destructor[t]
    <3>1. ASSUME NEW u \in Threads, Call(u) \/ thread_call_destructors(u) \/ next_pass(u)
          PROVE  destructor' = destructor
      BY <3>1
         DEF Call, thread_key_create, thread_key_delete, thread_getspecific,
                  thread_setspecific, thread_call_destructors, next_pass
    <3>2. ASSUME NEW u \in Threads, scan(u) PROVE destructor'[t] = destructor[t]
      BY <2>0, <3>2 DEF scan, Goto, TypeOK
    <3>3. ASSUME NEW u \in Threads, call(u) PROVE destructor' = destructor
      BY <3>3 DEF call
    <3>4. ASSUME NEW u \in Threads, destructor_returns(u) PROVE destructor'[t] = destructor[t]
      BY <2>0, <3>4 DEF destructor_returns, Goto, TypeOK
    <3>5. UNCHANGED vars => destructor' = destructor
      BY DEF vars
    <3> QED
      BY <3>1, <3>2, <3>3, <3>4, <3>5 DEF Next, Exit
  <2> QED
    BY <2>0, <2>1 DEF CallInv
<1> QED
  BY Inductive, <1>1, PTL DEF Spec, RightDestructor

(* A thread that has exited has no value left for a destructor, except     *)
(* what one of them stored in the last of the passes.                      *)
THEOREM NoneLeft == Spec => []NothingLeft
<1>1. IndInv => NothingLeft
  BY DEF IndInv, CleanInv, PassInv, Behind, Clean, NothingLeft
<1> QED
  BY Inductive, <1>1, PTL

------------------------------------------------------------------------------
(* Thread-local storage. *)

(* The fields of an object and of a thread control block. *)
ObjectFields ==
  [size : Nat \ {0}, align : Nat \ {0}, initial : BOOLEAN, desc : BOOLEAN,
   state : {"file", "live", "destroyed"}, offset : Nat, index : Nat,
   initialized : BOOLEAN, opener : TlsThreads, started : BOOLEAN]

TcbFields == [state : {"none", "running", "gone"}, dtv : Seq(0..2),
              block : [TlsObjs -> 0..2]]

(* The types of the variables. *)
TlsTypeOK ==
  /\ tls_obj \in [TlsObjs -> ObjectFields]
  /\ tls_map \in Seq(TlsObjs)
  /\ tls_size \in [initial : Nat, total : Nat]
  /\ tcb \in [TlsThreads -> TcbFields]
  /\ tls_last \in [TlsThreads -> [TlsObjs -> 0..1]]
  /\ tls_twice \subseteq TlsThreads \X TlsObjs
  /\ tls_fault \subseteq TlsThreads \X TlsObjs

(* Where the static storage of o lies. *)
Placed(o) ==
  /\ tls_obj[o].offset <= tls_size.initial
  /\ tls_obj[o].offset >= tls_obj[o].size + ExeTls
  /\ tls_obj[o].offset % tls_obj[o].align = 0

(* The static storage of o and that of p do not overlap. *)
Apart(o, p) == \/ tls_obj[o].offset <= tls_obj[p].offset - tls_obj[p].size
               \/ tls_obj[p].offset <= tls_obj[o].offset - tls_obj[o].size

(* The static storage of the open objects lies below the thread pointer,   *)
(* apart from each other and within what is laid out.                      *)
BlockInv ==
  /\ tls_size.initial >= ExeTls
  /\ TlsRunning => tls_size.initial <= tls_size.total
  /\ \A o \in StaticOpen : Placed(o)
  /\ \A o, p \in StaticOpen : o # p => Apart(o, p)

(* An open object has its place in runtime_tls_map, and a dtv never has    *)
(* more entries than there are modules.                                    *)
IndexInv ==
  /\ \A o \in Open : tls_obj[o].index < Len(tls_map) /\ tls_map[tls_obj[o].index + 1] = o
  /\ \A t \in TlsThreads : Len(tcb[t].dtv) <= Len(tls_map)

(* Objects are marked as initialised once the storage of the initial model *)
(* is filled; one with a descriptor was touched by its opener.             *)
MarkInv ==
  \A o \in TlsObjs :
    /\ o \notin Open => ~tls_obj[o].initialized
    /\ TlsRunning /\ o \in StaticOpen => tls_obj[o].initialized
    /\ o \in Open /\ ~Static(o) /\ tls_obj[o].desc => InDtv(tls_obj[o].opener, o)

(* A thread that has not started and an object that is not open have       *)
(* nothing stored.                                                         *)
FreshInv ==
  /\ ~TlsRunning => \A t \in TlsThreads : tcb[t].state = "none"
  /\ \A t \in TlsThreads, o \in TlsObjs :
       /\ tcb[t].state = "none" => /\ tcb[t].dtv = <<>> /\ tls_last[t][o] = 0
                                   /\ tcb[t].block[o] = Raw
       /\ o \notin Open => tls_last[t][o] = 0 /\ tcb[t].block[o] = Raw

(* What t finds in its copy of o is what it wrote last, or the image; only *)
(* one who reached a static object through the dtv as well has two copies. *)
Copied(t, o) ==
  /\ ~Static(o) /\ InDtv(t, o) => tcb[t].dtv[tls_obj[o].index + 1] = tls_last[t][o]
  /\ ~Static(o) /\ ~InDtv(t, o) => tls_last[t][o] = 0
  /\ Static(o) /\ tcb[t].block[o] # Raw =>
       tcb[t].block[o] = tls_last[t][o] \/ <<t, o>> \in tls_twice

(* Every thread finds its own values in every open object. *)
CopyInv == \A t \in TlsThreads, o \in Open : Copied(t, o)

(* Only a thread that did not open the object misses an entry. *)
FaultInv == \A f \in tls_fault : f[2] \in Open /\ f[1] # tls_obj[f[2]].opener

(* The inductive invariant. *)
TlsInv ==
  /\ TlsTypeOK /\ BlockInv /\ IndexInv /\ MarkInv /\ FreshInv /\ CopyInv
  /\ ImageMissing /\ FaultInv

-----------------------------------------------------------------------------

(* AlignUp gives the next multiple. *)
LEMMA Aligned ==
  ASSUME NEW n \in Nat, NEW a \in Nat \ {0}
  PROVE  AlignUp(n, a) \in Nat /\ AlignUp(n, a) >= n /\ AlignUp(n, a) % a = 0
<1> DEFINE q == (n + a - 1) \div a
           r == (n + a - 1) % a
<1>1. q \in Nat /\ r \in 0..(a - 1) /\ n + a - 1 = a * q + r
  BY Z3
<1>2. q * a \in Nat /\ q * a >= n
  BY <1>1, Z3
<1>3. (q * a) % a = 0
  BY <1>1, Z3
<1> QED
  BY <1>2, <1>3 DEF AlignUp

(* access_tls_for_object covers the index, copies the image where there    *)
(* was none, and leaves the other entries as they were.                    *)
LEMMA AccessedIs ==
  ASSUME NEW dtv \in Seq(0..2), NEW index \in Nat, tls_map' \in Seq(TlsObjs),
         index < Len(tls_map'), Len(dtv) <= Len(tls_map')
  PROVE  /\ Accessed(dtv, index) \in Seq(0..2)
         /\ Len(Accessed(dtv, index)) <= Len(tls_map')
         /\ Len(dtv) <= Len(Accessed(dtv, index))
         /\ index < Len(Accessed(dtv, index))
         /\ Accessed(dtv, index)[index + 1] =
              IF index < Len(dtv) /\ dtv[index + 1] # Raw THEN dtv[index + 1] ELSE 0
         /\ \A k \in 1..Len(Accessed(dtv, index)) :
              k # index + 1 => Accessed(dtv, index)[k] = IF k <= Len(dtv) THEN dtv[k] ELSE Raw
<1> DEFINE more == [k \in 1..(Len(tls_map') - Len(dtv)) |-> Raw]
           grown == IF index < Len(dtv) THEN dtv ELSE dtv \o more
<1>1. more \in Seq(0..2) /\ Len(more) = Len(tls_map') - Len(dtv)
  BY SMTT(30) DEF Raw
<1>2. /\ grown \in Seq(0..2) /\ index < Len(grown) /\ Len(grown) <= Len(tls_map')
      /\ Len(dtv) <= Len(grown)
      /\ \A k \in 1..Len(grown) : grown[k] = IF k <= Len(dtv) THEN dtv[k] ELSE Raw
  <2>1. CASE index < Len(dtv)
    <3>1. grown = dtv
      BY <2>1
    <3> QED
      BY SMTT(30), <2>1, <3>1
  <2>2. CASE ~(index < Len(dtv))
    <3>1. grown = dtv \o more
      BY <2>2
    <3>2. \A k \in 1..Len(more) : more[k] = Raw
      BY <1>1
    <3> HIDE DEF more, grown
    <3>3. /\ dtv \o more \in Seq(0..2) /\ Len(dtv \o more) = Len(dtv) + Len(more)
          /\ \A k \in 1..(Len(dtv) + Len(more)) :
               (dtv \o more)[k] = IF k <= Len(dtv) THEN dtv[k] ELSE more[k - Len(dtv)]
      BY SMTT(30), <1>1
    <3>4. Len(dtv) \in Nat /\ Len(more) \in Nat /\ Len(tls_map') \in Nat
      BY SMTT(30), <1>1
    <3>5. \A k \in 1..(Len(dtv) + Len(more)) :
            (dtv \o more)[k] = IF k <= Len(dtv) THEN dtv[k] ELSE Raw
      BY SMTT(30), <3>2, <3>3, <3>4
    <3> QED
      BY SMTT(30), <1>1, <3>1, <3>3, <3>4, <3>5
  <2> QED
    BY <2>1, <2>2
<1>3. Accessed(dtv, index) = IF grown[index + 1] = Raw THEN [grown EXCEPT ![index + 1] = 0]
                             ELSE grown
  BY DEF Accessed
<1> HIDE DEF grown
<1>4. index + 1 \in 1..Len(grown) /\ Len(dtv) \in Nat /\ Len(grown) \in Nat
  BY SMTT(30), <1>2
<1>5. CASE grown[index + 1] = Raw
  <2>1. /\ Accessed(dtv, index) \in Seq(0..2) /\ Len(Accessed(dtv, index)) = Len(grown)
        /\ Accessed(dtv, index)[index + 1] = 0
        /\ \A k \in 1..Len(grown) : k # index + 1 => Accessed(dtv, index)[k] = grown[k]
    BY SMTT(30), <1>2, <1>3, <1>4, <1>5
  <2>2. ~(index < Len(dtv) /\ dtv[index + 1] # Raw)
    BY SMTT(30), <1>2, <1>4, <1>5
  <2> QED
    BY <1>2, <1>4, <2>1, <2>2
<1>6. CASE grown[index + 1] # Raw
  <2>1. Accessed(dtv, index) = grown
    BY <1>3, <1>6
  <2>2. index < Len(dtv) /\ dtv[index + 1] # Raw /\ grown[index + 1] = dtv[index + 1]
    BY SMTT(30), <1>2, <1>4, <1>6
  <2> QED
    BY <1>2, <1>4, <2>1, <2>2
<1> QED
  BY <1>5, <1>6

(* An object, from its fields. *)
Fields(a, b, c, d, e, f, g, h, u, v) ==
  [size |-> a, align |-> b, initial |-> c, desc |-> d, state |-> e, offset |-> f,
   index |-> g, initialized |-> h, opener |-> u, started |-> v]

(* Records and their fields. *)
LEMMA AsFields ==
  ASSUME NEW r \in ObjectFields
  PROVE  r = Fields(r.size, r.align, r.initial, r.desc, r.state, r.offset, r.index, r.initialized, r.opener, r.started)
BY DEF Fields, ObjectFields

(* An object whose mark is set. *)
LEMMA Marked ==
  ASSUME NEW r \in ObjectFields, NEW d
  PROVE  [r EXCEPT !.initialized = d]
         = Fields(r.size, r.align, r.initial, r.desc, r.state, r.offset, r.index, d,
                  r.opener, r.started)
BY SMTT(30) DEF ObjectFields, Fields

(* What tls_load does, field by field. *)
LoadedFields(t, o) ==
  /\ tls_obj' \in [TlsObjs -> ObjectFields]
  /\ \A p \in TlsObjs \ {o} : tls_obj'[p] = tls_obj[p]
  /\ tls_obj'[o].size = tls_obj[o].size /\ tls_obj'[o].align = tls_obj[o].align
  /\ tls_obj'[o].desc <=> tls_obj[o].desc
  /\ tls_obj'[o].state = "live" /\ tls_obj'[o].opener = t
  /\ tls_obj'[o].index = Len(tls_map)
  /\ tls_obj'[o].initial <=> (Static(o) \/ ~TlsRunning)
  /\ tls_obj'[o].offset = IF Static(o) \/ ~TlsRunning THEN Offset(o) ELSE 0
  /\ tls_obj'[o].initialized <=> (TlsRunning /\ Static(o))
  /\ tls_obj'[o].started <=> ~TlsRunning

(* An object that is given a place gets one behind all others, aligned. *)
LEMMA OffsetIs ==
  ASSUME TlsTypeOK, NEW o \in TlsObjs
  PROVE  /\ Offset(o) \in Nat /\ Offset(o) >= tls_size.initial + tls_obj[o].size
         /\ Offset(o) % tls_obj[o].align = 0
<1>1. tls_size.initial + tls_obj[o].size \in Nat /\ tls_obj[o].align \in Nat \ {0}
  BY SMTT(30) DEF TlsTypeOK, ObjectFields
<1> QED
  BY <1>1, Aligned DEF Offset

(* tls_load gives the object what LoadedFields says. *)
LEMMA Loads ==
  ASSUME TlsTypeOK, NEW t \in TlsThreads, NEW o \in TlsObjs, tls_load(t, o)
  PROVE  LoadedFields(t, o)
<1> DEFINE f == IF Static(o) \/ ~TlsRunning THEN Offset(o) ELSE 0
           ini == Static(o) \/ ~TlsRunning
           d == TlsRunning /\ Static(o)
           s == ~TlsRunning
           new == Fields(tls_obj[o].size, tls_obj[o].align, ini, tls_obj[o].desc, "live", f,
                         Len(tls_map), d, t, s)
<1>0. tls_obj[o] \in ObjectFields
  BY DEF TlsTypeOK
<1>1. tls_obj' = [tls_obj EXCEPT ![o] =
        [tls_obj[o] EXCEPT !.state = "live", !.opener = t, !.index = Len(tls_map),
           !.initial = ini, !.offset = f, !.initialized = d, !.started = s]]
  BY DEF tls_load, ModuleIndex, Static
<1>2. f \in Nat /\ Len(tls_map) \in Nat
  BY SMTT(30), OffsetIs DEF TlsTypeOK
<1>3. ini \in BOOLEAN /\ d \in BOOLEAN /\ s \in BOOLEAN
  OBVIOUS
<1> HIDE DEF ini, d, s, f
<1>4. [tls_obj[o] EXCEPT !.state = "live", !.opener = t, !.index = Len(tls_map),
           !.initial = ini, !.offset = f, !.initialized = d, !.started = s] = new
  <2> DEFINE r == tls_obj[o]
  <2>r. r \in ObjectFields
    BY <1>0
  <2> HIDE DEF r
  <2> DEFINE r1 == [r EXCEPT !.state = "live"]
             r2 == [r1 EXCEPT !.opener = t]
             r3 == [r2 EXCEPT !.index = Len(tls_map)]
             r4 == [r3 EXCEPT !.initial = ini]
             r5 == [r4 EXCEPT !.offset = f]
             r6 == [r5 EXCEPT !.initialized = d]
  <2>0. [tls_obj[o] EXCEPT !.state = "live", !.opener = t, !.index = Len(tls_map), !.initial = ini,
                  !.offset = f, !.initialized = d, !.started = s]
        = [r6 EXCEPT !.started = s]
    BY DEF r
  <2>1. r1 = Fields(r.size, r.align, r.initial, r.desc, "live", r.offset, r.index,
                    r.initialized, r.opener, r.started)
    BY SMTT(30), <2>r DEF Fields, ObjectFields
  <2>2. r2 = Fields(r.size, r.align, r.initial, r.desc, "live", r.offset, r.index,
                    r.initialized, t, r.started)
    <3> HIDE DEF r1
    <3> QED BY SMTT(30), <2>1 DEF Fields
  <2>3. r3 = Fields(r.size, r.align, r.initial, r.desc, "live", r.offset, Len(tls_map),
                    r.initialized, t, r.started)
    <3> HIDE DEF r2
    <3> QED BY SMTT(30), <2>2 DEF Fields
  <2>4. r4 = Fields(r.size, r.align, ini, r.desc, "live", r.offset, Len(tls_map),
                    r.initialized, t, r.started)
    <3> HIDE DEF r3
    <3> QED BY SMTT(30), <2>3 DEF Fields
  <2>5. r5 = Fields(r.size, r.align, ini, r.desc, "live", f, Len(tls_map), r.initialized, t, r.started)
    <3> HIDE DEF r4
    <3> QED BY SMTT(30), <2>4 DEF Fields
  <2>6. r6 = Fields(r.size, r.align, ini, r.desc, "live", f, Len(tls_map), d, t, r.started)
    <3> HIDE DEF r5
    <3> QED BY SMTT(30), <2>5 DEF Fields
  <2> HIDE DEF r6
  <2> QED
    BY SMTT(30), <2>0, <2>6 DEF Fields, r
<1>5. tls_obj' = [tls_obj EXCEPT ![o] = new]
  BY <1>1, <1>4
<1>6. new \in ObjectFields
  BY <1>0, <1>2, <1>3 DEF ObjectFields, Fields
<1>7. /\ new.size = tls_obj[o].size /\ new.align = tls_obj[o].align
      /\ new.desc = tls_obj[o].desc /\ new.state = "live" /\ new.opener = t
      /\ new.index = Len(tls_map) /\ new.offset = f
      /\ new.initial = ini /\ new.initialized = d /\ new.started = s
  BY DEF Fields
<1> HIDE DEF new
<1>8. /\ tls_obj' \in [TlsObjs -> ObjectFields] /\ tls_obj'[o] = new
      /\ \A p \in TlsObjs \ {o} : tls_obj'[p] = tls_obj[p]
  BY <1>5, <1>6 DEF TlsTypeOK
<1> QED
  BY <1>7, <1>8 DEF LoadedFields, ini, d, s, f

(* A step leaves the table of objects as it is. *)
SameObjects == UNCHANGED <<tls_obj, tls_map, tls_size>>

(* What is only about objects holds on. *)
LEMMA SameObjectsKeep ==
  ASSUME TlsInv, SameObjects
  PROVE  /\ tls_obj' \in [TlsObjs -> ObjectFields] /\ tls_map' \in Seq(TlsObjs)
         /\ tls_size' \in [initial : Nat, total : Nat]
         /\ BlockInv' /\ Open' = Open /\ StaticOpen' = StaticOpen
         /\ TlsRunning' <=> TlsRunning
<1>1. tls_obj' = tls_obj /\ tls_map' = tls_map /\ tls_size' = tls_size
  BY DEF SameObjects
<1>2. Open' = Open /\ StaticOpen' = StaticOpen /\ (TlsRunning' <=> TlsRunning)
  BY <1>1 DEF Open, StaticOpen, Static, TlsRunning
<1>3. BlockInv'
  BY <1>1, <1>2 DEF TlsInv, BlockInv, Placed, Apart
<1> QED
  BY <1>1, <1>2, <1>3 DEF TlsInv, TlsTypeOK

(* Open objects have different indices. *)
LEMMA OwnIndex ==
  ASSUME TlsTypeOK, IndexInv, NEW o \in Open, NEW p \in Open, o # p
  PROVE  tls_obj[o].index # tls_obj[p].index
BY DEF IndexInv

(* A thread's write is noted for it and the object alone. *)
LEMMA WroteKeeps ==
  ASSUME TlsTypeOK, NEW t \in TlsThreads, NEW o \in TlsObjs, Wrote(t, o)
  PROVE  /\ tls_last' \in [TlsThreads -> [TlsObjs -> 0..1]]
         /\ tls_last'[t][o] = 1
         /\ \A u \in TlsThreads, p \in TlsObjs :
              u # t \/ p # o => tls_last'[u][p] = tls_last[u][p]
<1>1. tls_last' = [tls_last EXCEPT ![t] = [tls_last[t] EXCEPT ![o] = 1]]
  BY DEF Wrote
<1>2. tls_last \in [TlsThreads -> [TlsObjs -> 0..1]] /\ tls_last[t] \in [TlsObjs -> 0..1]
  BY DEF TlsTypeOK
<1> QED
  BY SMTT(30), <1>1, <1>2

(* The part of the invariant an access through the dtv keeps. *)
LEMMA DtvWriteKeeps ==
  ASSUME TlsInv, NEW t \in TlsThreads, NEW o \in Open, ThreadRuns(t), SameObjects,
         Wrote(t, o), tls_fault' = tls_fault,
         tls_twice \subseteq tls_twice', tls_twice' \subseteq TlsThreads \X TlsObjs,
         Static(o) => <<t, o>> \in tls_twice',
         NEW D \in Seq(0..2), Len(D) <= Len(tls_map), Len(tcb[t].dtv) <= Len(D),
         tls_obj[o].index < Len(D), D[tls_obj[o].index + 1] = 1,
         \A k \in 1..Len(D) : k # tls_obj[o].index + 1 =>
            D[k] = IF k <= Len(tcb[t].dtv) THEN tcb[t].dtv[k] ELSE Raw,
         tcb' = [tcb EXCEPT ![t].dtv = D]
  PROVE  TlsInv'
<1>1. /\ tls_obj' \in [TlsObjs -> ObjectFields] /\ tls_map' \in Seq(TlsObjs)
      /\ tls_size' \in [initial : Nat, total : Nat]
      /\ BlockInv' /\ Open' = Open /\ StaticOpen' = StaticOpen
      /\ TlsRunning' <=> TlsRunning
  BY SameObjectsKeep
<1>2. /\ tcb' \in [TlsThreads -> TcbFields]
      /\ IndexInv'
      /\ \A u \in TlsThreads : /\ tcb'[u].state = tcb[u].state
                               /\ tcb'[u].block = tcb[u].block
                               /\ u # t => tcb'[u].dtv = tcb[u].dtv
      /\ InDtv(t, o)' /\ tcb'[t].dtv[tls_obj'[o].index + 1] = 1
      /\ \A u \in TlsThreads, p \in Open :
           u # t \/ p # o =>
             /\ InDtv(u, p)' <=> InDtv(u, p)
             /\ InDtv(u, p) => tcb'[u].dtv[tls_obj'[p].index + 1]
                               = tcb[u].dtv[tls_obj[p].index + 1]
  <2>0. /\ tls_obj' = tls_obj /\ tls_map' = tls_map /\ Open' = Open
        /\ tcb \in [TlsThreads -> TcbFields] /\ tls_map \in Seq(TlsObjs)
        /\ tcb[t] \in TcbFields
    BY SameObjectsKeep DEF SameObjects, TlsInv, TlsTypeOK
  <2>1. [tcb[t] EXCEPT !.dtv = D] = [state |-> tcb[t].state, dtv |-> D, block |-> tcb[t].block]
    BY SMTT(30), <2>0 DEF TcbFields
  <2>2. tcb' = [tcb EXCEPT ![t] = [state |-> tcb[t].state, dtv |-> D, block |-> tcb[t].block]]
    BY <2>1
  <2>3. tcb' \in [TlsThreads -> TcbFields]
    <3> DEFINE new == [state |-> tcb[t].state, dtv |-> D, block |-> tcb[t].block]
    <3>1. new \in TcbFields /\ tcb' = [tcb EXCEPT ![t] = new] /\ tcb \in [TlsThreads -> TcbFields]
      BY <2>0, <2>2 DEF TcbFields
    <3> HIDE DEF new
    <3> QED
      BY SMTT(30), <3>1
  <2>4. \A u \in TlsThreads : /\ tcb'[u].state = tcb[u].state
                              /\ tcb'[u].block = tcb[u].block
                              /\ u # t => tcb'[u].dtv = tcb[u].dtv
    <3> TAKE u \in TlsThreads
    <3>1. CASE u = t
      BY SMTT(30), <2>0, <2>2, <3>1
    <3>2. CASE u # t
      BY <2>0, <2>2, <3>2
    <3> QED
      BY <3>1, <3>2
  <2>5. tcb'[t].dtv = D
    BY <2>0, <2>2
  <2>6. \A u \in TlsThreads : Len(tcb'[u].dtv) <= Len(tls_map')
    BY <2>0, <2>4, <2>5 DEF TlsInv, IndexInv
  <2>7. IndexInv'
    BY <2>0, <2>6 DEF TlsInv, IndexInv
  <2>8. InDtv(t, o)' /\ tcb'[t].dtv[tls_obj'[o].index + 1] = 1
    BY SMTT(30), <2>0, <2>5 DEF InDtv, Raw
  <2>9. ASSUME NEW u \in TlsThreads, NEW p \in Open, u # t \/ p # o
        PROVE  /\ InDtv(u, p)' <=> InDtv(u, p)
               /\ InDtv(u, p) => tcb'[u].dtv[tls_obj'[p].index + 1]
                                 = tcb[u].dtv[tls_obj[p].index + 1]
    <3>1. CASE u # t
      BY <2>0, <2>4, <3>1 DEF InDtv
    <3>2. CASE u = t
      <4>1. tls_obj[p].index # tls_obj[o].index
        BY <2>9, <3>2, OwnIndex DEF TlsInv
      <4>2. tls_obj[p].index \in Nat /\ tls_obj[o].index \in Nat /\ tcb[t].dtv \in Seq(0..2)
        BY <2>0 DEF Open, TlsInv, TlsTypeOK, ObjectFields, TcbFields
      <4> DEFINE k == tls_obj[p].index + 1
      <4>3. k \in Nat /\ k >= 1 /\ k # tls_obj[o].index + 1 /\ Len(D) \in Nat /\ Len(tcb[t].dtv) \in Nat
        <5>1. \A ini, j \in Nat : ini # j => ini + 1 \in Nat /\ ini + 1 >= 1 /\ ini + 1 # j + 1
          BY SMTT(30)
        <5>2. k \in Nat /\ k >= 1 /\ k # tls_obj[o].index + 1
          BY <4>1, <4>2, <5>1
        <5>3. Len(D) \in Nat /\ Len(tcb[t].dtv) \in Nat
          BY SMTT(30), <4>2
        <5> QED
          BY <5>2, <5>3
      <4>4. k <= Len(tcb[t].dtv) => k <= Len(D) /\ D[k] = tcb[t].dtv[k]
        BY SMTT(30), <4>3
      <4>5. k > Len(tcb[t].dtv) /\ k <= Len(D) => D[k] = Raw
        BY SMTT(30), <4>3
      <4>6. InDtv(u, p) <=> k <= Len(tcb[t].dtv) /\ tcb[t].dtv[k] # Raw
        BY SMTT(30), <3>2, <4>2, <4>3 DEF InDtv
      <4>7. InDtv(u, p)' <=> k <= Len(D) /\ D[k] # Raw
        BY SMTT(30), <2>0, <2>5, <3>2, <4>2, <4>3 DEF InDtv
      <4>8. InDtv(u, p)' <=> InDtv(u, p)
        BY SMTT(30), <4>3, <4>4, <4>5, <4>6, <4>7
      <4>9. InDtv(u, p) => tcb'[u].dtv[tls_obj'[p].index + 1] = tcb[u].dtv[tls_obj[p].index + 1]
        BY <2>0, <2>5, <3>2, <4>4, <4>6
      <4> QED
        BY <4>8, <4>9
    <3> QED
      BY <3>1, <3>2
  <2> QED
    BY <2>3, <2>4, <2>7, <2>8, <2>9
<1>3. o \in TlsObjs /\ tls_obj' = tls_obj
  BY DEF Open, SameObjects
<1>4. /\ tls_last' \in [TlsThreads -> [TlsObjs -> 0..1]]
      /\ tls_last'[t][o] = 1
      /\ \A u \in TlsThreads, p \in TlsObjs :
           u # t \/ p # o => tls_last'[u][p] = tls_last[u][p]
  BY <1>3, WroteKeeps DEF TlsInv
<1>5. TlsTypeOK'
  BY <1>1, <1>2, <1>4 DEF TlsTypeOK, TlsInv
<1>6. MarkInv'
  <2>1. ASSUME NEW p \in TlsObjs, p \in Open, ~Static(p), tls_obj[p].desc
        PROVE  InDtv(tls_obj[p].opener, p)'
    <3>1. tls_obj[p].opener \in TlsThreads /\ InDtv(tls_obj[p].opener, p)
      BY <2>1 DEF TlsInv, TlsTypeOK, ObjectFields, MarkInv
    <3>2. PICK c \in TlsThreads : c = tls_obj[p].opener
      BY <3>1
    <3>3. InDtv(c, p)'
      BY <1>2, <2>1, <3>1, <3>2
    <3> QED
      BY <1>3, <3>2, <3>3 DEF InDtv
  <2>2. \A p \in TlsObjs : /\ p \notin Open => ~tls_obj[p].initialized
                           /\ TlsRunning /\ p \in StaticOpen => tls_obj[p].initialized
    BY DEF TlsInv, MarkInv
  <2>3. \A p \in TlsObjs : Static(p)' <=> Static(p)
    BY <1>3 DEF Static
  <2> QED
    BY <1>1, <1>3, <2>1, <2>2, <2>3 DEF MarkInv
<1>7. FreshInv'
  <2>1. TlsRunning /\ tcb[t].state # "none"
    BY DEF TlsInv, FreshInv, ThreadRuns
  <2>2. ASSUME NEW u \in TlsThreads, NEW p \in TlsObjs
        PROVE  /\ tcb'[u].state = "none" => /\ tcb'[u].dtv = <<>> /\ tls_last'[u][p] = 0
                                            /\ tcb'[u].block[p] = Raw
               /\ p \notin Open => tls_last'[u][p] = 0 /\ tcb'[u].block[p] = Raw
    <3>1. tcb'[u].state = "none" => u # t
      BY <1>2, <2>1
    <3>2. p \notin Open => p # o
      OBVIOUS
    <3> QED
      BY SMTT(30), <1>2, <1>4, <3>1, <3>2 DEF TlsInv, FreshInv
  <2> QED
    BY <1>1, <2>1, <2>2 DEF FreshInv
<1>8. CopyInv'
  <2> SUFFICES ASSUME NEW u \in TlsThreads, NEW p \in Open
               PROVE  Copied(u, p)'
    BY <1>1 DEF CopyInv
  <2>0. p \in TlsObjs /\ (Static(p)' <=> Static(p))
    BY <1>3 DEF Open, Static
  <2>1. CASE u = t /\ p = o
    BY <1>2, <1>3, <1>4, <2>0, <2>1 DEF Copied
  <2>2. CASE u # t \/ p # o
    <3>1. tls_last'[u][p] = tls_last[u][p] /\ tcb'[u].block[p] = tcb[u].block[p]
      BY <1>2, <1>4, <2>0, <2>2
    <3>2. /\ InDtv(u, p)' <=> InDtv(u, p)
          /\ InDtv(u, p) => tcb'[u].dtv[tls_obj'[p].index + 1] = tcb[u].dtv[tls_obj[p].index + 1]
      BY <1>2, <2>2
    <3>3. Copied(u, p)
      BY DEF TlsInv, CopyInv
    <3> QED
      BY <2>0, <3>1, <3>2, <3>3 DEF Copied
  <2> QED
    BY <2>1, <2>2
<1>9. ImageMissing' /\ FaultInv'
  BY SMTT(30), <1>1, <1>2, <1>3 DEF TlsInv, ImageMissing, FaultInv, ThreadRuns
<1> QED
  BY <1>1, <1>2, <1>5, <1>6, <1>7, <1>8, <1>9 DEF TlsInv

(* An access through __tls_get_addr. *)
LEMMA GetAddrKeeps ==
  ASSUME TlsInv, NEW t \in TlsThreads, NEW o \in TlsObjs, tls_get_addr(t, o)
  PROVE  TlsInv'
<1> DEFINE x == tls_obj[o].index
           A == Accessed(tcb[t].dtv, x)
           D == [A EXCEPT ![x + 1] = 1]
<1>1. /\ o \in Open /\ ThreadRuns(t) /\ SameObjects /\ Wrote(t, o) /\ tls_fault' = tls_fault
      /\ tcb' = [tcb EXCEPT ![t].dtv = D] /\ tls_map' = tls_map
      /\ tls_twice' = IF Static(o) THEN tls_twice \cup {<<t, o>>} ELSE tls_twice
  BY DEF tls_get_addr, SameObjects, Reach
<1>2. tls_twice \subseteq tls_twice' /\ tls_twice' \subseteq TlsThreads \X TlsObjs
  BY SMTT(30), <1>1 DEF TlsInv, TlsTypeOK
<1>3. Static(o) => <<t, o>> \in tls_twice'
  BY <1>1
<1>4. /\ x \in Nat /\ tcb[t].dtv \in Seq(0..2) /\ tls_map' \in Seq(TlsObjs)
      /\ x < Len(tls_map') /\ Len(tcb[t].dtv) <= Len(tls_map')
  BY <1>1 DEF TlsInv, TlsTypeOK, ObjectFields, TcbFields, IndexInv
<1>5. /\ A \in Seq(0..2) /\ Len(A) <= Len(tls_map') /\ Len(tcb[t].dtv) <= Len(A)
      /\ x < Len(A)
      /\ \A k \in 1..Len(A) :
           k # x + 1 => A[k] = IF k <= Len(tcb[t].dtv) THEN tcb[t].dtv[k] ELSE Raw
  BY <1>4, AccessedIs
<1> HIDE DEF A
<1>6. x + 1 \in 1..Len(A)
  BY SMTT(30), <1>4, <1>5
<1>7. /\ D \in Seq(0..2) /\ Len(D) = Len(A) /\ D[x + 1] = 1
      /\ \A k \in 1..Len(A) : k # x + 1 => D[k] = A[k]
  BY SMTT(30), <1>5, <1>6
<1>8. /\ Len(D) <= Len(tls_map) /\ Len(tcb[t].dtv) <= Len(D) /\ x < Len(D)
      /\ \A k \in 1..Len(D) :
           k # x + 1 => D[k] = IF k <= Len(tcb[t].dtv) THEN tcb[t].dtv[k] ELSE Raw
  BY <1>1, <1>5, <1>7
<1> HIDE DEF D
<1> QED
  BY <1>1, <1>2, <1>3, <1>7, <1>8, DtvWriteKeeps

(* An access through a descriptor, which may find no entry. *)
LEMMA ByDescKeeps ==
  ASSUME TlsInv, NEW t \in TlsThreads, NEW o \in TlsObjs, tls_by_desc(t, o)
  PROVE  TlsInv'
<1>1. o \in Open /\ ThreadRuns(t) /\ SameObjects /\ ~Static(o) /\ tls_obj[o].desc /\ tls_twice' = tls_twice
  BY DEF tls_by_desc, SameObjects
<1>2. CASE InDtv(t, o)
  <2> DEFINE x == tls_obj[o].index
             D == [tcb[t].dtv EXCEPT ![x + 1] = 1]
  <2>1. Wrote(t, o) /\ tls_fault' = tls_fault /\ tcb' = [tcb EXCEPT ![t].dtv[x + 1] = 1]
    BY <1>2 DEF tls_by_desc, DescFinds
  <2>2. tcb' = [tcb EXCEPT ![t].dtv = D]
    BY <2>1
  <2>3. /\ x \in Nat /\ tcb[t].dtv \in Seq(0..2) /\ Len(tcb[t].dtv) <= Len(tls_map)
        /\ x < Len(tcb[t].dtv)
    BY <1>2 DEF TlsInv, TlsTypeOK, ObjectFields, TcbFields, IndexInv, InDtv
  <2>4. x + 1 \in 1..Len(tcb[t].dtv)
    BY SMTT(30), <2>3
  <2>5. /\ D \in Seq(0..2) /\ Len(D) = Len(tcb[t].dtv) /\ D[x + 1] = 1
        /\ \A k \in 1..Len(D) : k # x + 1 => D[k] = tcb[t].dtv[k]
    BY SMTT(30), <2>3, <2>4
  <2>6. tls_twice \subseteq tls_twice' /\ tls_twice' \subseteq TlsThreads \X TlsObjs
    BY <1>1 DEF TlsInv, TlsTypeOK
  <2> HIDE DEF D
  <2>7. /\ Len(D) <= Len(tls_map) /\ Len(tcb[t].dtv) <= Len(D) /\ x < Len(D)
        /\ \A k \in 1..Len(D) :
             k # x + 1 => D[k] = IF k <= Len(tcb[t].dtv) THEN tcb[t].dtv[k] ELSE Raw
    BY SMTT(30), <2>3, <2>5
  <2> QED
    BY <1>1, <2>1, <2>2, <2>5, <2>6, <2>7, DtvWriteKeeps
<1>3. CASE ~InDtv(t, o)
  <2>1. tls_fault' = tls_fault \cup {<<t, o>>} /\ tcb' = tcb /\ tls_last' = tls_last
    BY <1>3 DEF tls_by_desc, DescFinds
  <2>2. /\ tls_obj' = tls_obj /\ tls_map' = tls_map /\ tls_size' = tls_size
    BY <1>1 DEF SameObjects
  <2>3. t # tls_obj[o].opener
    BY <1>1, <1>3 DEF TlsInv, MarkInv
  <2>4. /\ BlockInv' /\ IndexInv' /\ MarkInv' /\ FreshInv' /\ CopyInv' /\ ImageMissing'
        /\ Open' = Open
    <3>1. /\ BlockInv' /\ Open' = Open /\ StaticOpen' = StaticOpen
          /\ TlsRunning' <=> TlsRunning
      BY <1>1, SameObjectsKeep
    <3>2. IndexInv'
      BY <2>1, <2>2, <3>1 DEF TlsInv, IndexInv
    <3>3. MarkInv'
      BY <2>1, <2>2, <3>1 DEF TlsInv, MarkInv, Static, InDtv
    <3>4. FreshInv'
      BY <2>1, <2>2, <3>1 DEF TlsInv, FreshInv
    <3>5. CopyInv'
      BY <1>1, <2>1, <2>2, <3>1 DEF TlsInv, CopyInv, Copied, Static, InDtv
    <3>6. ImageMissing'
      BY <2>1, <2>2, <3>1 DEF TlsInv, ImageMissing, ThreadRuns
    <3> QED
      BY <3>1, <3>2, <3>3, <3>4, <3>5, <3>6
  <2>5. FaultInv'
    BY SMTT(30), <1>1, <2>1, <2>2, <2>3, <2>4 DEF TlsInv, FaultInv
  <2>6. TlsTypeOK'
    BY SMTT(30), <1>1, <2>1, <2>2 DEF TlsInv, TlsTypeOK
  <2> QED
    BY <2>4, <2>5, <2>6 DEF TlsInv
<1> QED
  BY <1>2, <1>3

(* An access by an offset from the thread pointer. *)
LEMMA ByOffsetKeeps ==
  ASSUME TlsInv, NEW t \in TlsThreads, NEW o \in TlsObjs, tls_by_offset(t, o)
  PROVE  TlsInv'
<1> DEFINE B == [tcb[t].block EXCEPT ![o] = IF tcb[t].block[o] = Raw THEN Raw ELSE 1]
<1>1. /\ o \in Open /\ ThreadRuns(t) /\ Static(o) /\ SameObjects /\ Wrote(t, o)
      /\ tls_fault' = tls_fault /\ tcb' = [tcb EXCEPT ![t].block = B]
      /\ tls_obj' = tls_obj /\ tls_map' = tls_map
  BY DEF tls_by_offset, SameObjects
<1>2. tls_twice \subseteq tls_twice' /\ tls_twice' \subseteq TlsThreads \X TlsObjs
  BY SMTT(30) DEF tls_by_offset, Reach, TlsInv, TlsTypeOK
<1>3. /\ tls_obj' \in [TlsObjs -> ObjectFields] /\ tls_map' \in Seq(TlsObjs)
      /\ tls_size' \in [initial : Nat, total : Nat]
      /\ BlockInv' /\ Open' = Open /\ StaticOpen' = StaticOpen
      /\ TlsRunning' <=> TlsRunning
  BY <1>1, SameObjectsKeep
<1>4. /\ tls_last' \in [TlsThreads -> [TlsObjs -> 0..1]]
      /\ tls_last'[t][o] = 1
      /\ \A u \in TlsThreads, p \in TlsObjs :
           u # t \/ p # o => tls_last'[u][p] = tls_last[u][p]
  BY <1>1, WroteKeeps DEF TlsInv
<1>5. /\ tcb \in [TlsThreads -> TcbFields] /\ tcb[t] \in TcbFields
      /\ tcb[t].block \in [TlsObjs -> 0..2]
  BY DEF TlsInv, TlsTypeOK, TcbFields
<1>6. /\ B \in [TlsObjs -> 0..2] /\ B[o] = (IF tcb[t].block[o] = Raw THEN Raw ELSE 1)
      /\ \A p \in TlsObjs : p # o => B[p] = tcb[t].block[p]
  BY SMTT(30), <1>5 DEF Raw
<1> HIDE DEF B
<1>7. [tcb[t] EXCEPT !.block = B] = [state |-> tcb[t].state, dtv |-> tcb[t].dtv, block |-> B]
  BY SMTT(30), <1>5 DEF TcbFields
<1>8. tcb' = [tcb EXCEPT ![t] = [state |-> tcb[t].state, dtv |-> tcb[t].dtv, block |-> B]]
  BY <1>1, <1>7
<1>9. /\ tcb' \in [TlsThreads -> TcbFields] /\ tcb'[t].block = B
      /\ tcb'[t].state = tcb[t].state /\ tcb'[t].dtv = tcb[t].dtv
      /\ \A u \in TlsThreads : u # t => tcb'[u] = tcb[u]
  BY <1>5, <1>6, <1>8 DEF TcbFields
<1>10. \A u \in TlsThreads :
         /\ tcb'[u].state = tcb[u].state /\ tcb'[u].dtv = tcb[u].dtv
         /\ \A p \in TlsObjs : u # t \/ p # o => tcb'[u].block[p] = tcb[u].block[p]
  BY <1>6, <1>9
<1>11. tcb'[t].block[o] = IF tcb[t].block[o] = Raw THEN Raw ELSE 1
  BY <1>6, <1>9
<1>12. \A u \in TlsThreads, p \in TlsObjs : InDtv(u, p)' <=> InDtv(u, p)
  BY <1>1, <1>10 DEF InDtv
<1>13. TlsTypeOK'
  BY <1>1, <1>2, <1>3, <1>4, <1>9 DEF TlsInv, TlsTypeOK
<1>14. IndexInv'
  BY <1>1, <1>3, <1>10 DEF TlsInv, IndexInv
<1>15. MarkInv'
  BY SMTT(30), <1>1, <1>3, <1>10 DEF TlsInv, TlsTypeOK, ObjectFields, MarkInv, Static, InDtv
<1>16. FreshInv'
  <2>1. TlsRunning /\ tcb[t].state # "none"
    BY <1>1 DEF TlsInv, FreshInv, ThreadRuns
  <2>2. ASSUME NEW u \in TlsThreads, NEW p \in TlsObjs
        PROVE  /\ tcb'[u].state = "none" => /\ tcb'[u].dtv = <<>> /\ tls_last'[u][p] = 0
                                            /\ tcb'[u].block[p] = Raw
               /\ p \notin Open => tls_last'[u][p] = 0 /\ tcb'[u].block[p] = Raw
    <3>1. tcb'[u].state = "none" => u # t
      BY <1>10, <2>1
    <3>2. p \notin Open => p # o
      BY <1>1
    <3> QED
      BY SMTT(30), <1>10, <1>4, <3>1, <3>2 DEF TlsInv, FreshInv
  <2> QED
    BY <1>3, <2>1, <2>2 DEF FreshInv
<1>17. CopyInv'
  <2> SUFFICES ASSUME NEW u \in TlsThreads, NEW p \in Open
               PROVE  Copied(u, p)'
    BY <1>3 DEF CopyInv
  <2>0. p \in TlsObjs /\ (Static(p)' <=> Static(p))
    BY <1>1 DEF Open, Static
  <2>1. CASE u = t /\ p = o
    BY <1>1, <1>4, <1>11, <2>0, <2>1 DEF Copied
  <2>2. CASE u # t \/ p # o
    <3>1. tls_last'[u][p] = tls_last[u][p] /\ tcb'[u].block[p] = tcb[u].block[p]
      BY <1>4, <1>10, <2>0, <2>2
    <3>2. InDtv(u, p)' <=> InDtv(u, p)
      BY <1>12, <2>0
    <3>3. tcb'[u].dtv[tls_obj'[p].index + 1] = tcb[u].dtv[tls_obj[p].index + 1]
      BY <1>1, <1>10
    <3>4. Copied(u, p)
      BY DEF TlsInv, CopyInv
    <3> QED
      BY <1>2, <2>0, <3>1, <3>2, <3>3, <3>4 DEF Copied
  <2> QED
    BY <2>1, <2>2
<1>18. ImageMissing'
  <2>1. \A u \in TlsThreads, p \in TlsObjs : tcb'[u].block[p] = Raw => tcb[u].block[p] = Raw
    BY SMTT(30), <1>10, <1>11 DEF Raw
  <2> QED
    BY SMTT(30), <1>1, <1>3, <1>10, <2>1 DEF TlsInv, ImageMissing, ThreadRuns, StaticOpen, Open
<1>19. FaultInv'
  BY <1>1, <1>3 DEF TlsInv, FaultInv
<1> QED
  BY <1>3, <1>13, <1>14, <1>15, <1>16, <1>17, <1>18, <1>19 DEF TlsInv

(* A thread ends. *)
LEMMA EndsKeeps ==
  ASSUME TlsInv, NEW t \in TlsThreads, tls_thread_ends(t)
  PROVE  TlsInv'
<1>1. /\ ThreadRuns(t) /\ SameObjects /\ tcb' = [tcb EXCEPT ![t].state = "gone"]
      /\ tls_obj' = tls_obj /\ tls_map' = tls_map /\ tls_last' = tls_last
      /\ tls_twice' = tls_twice /\ tls_fault' = tls_fault
  BY DEF tls_thread_ends, SameObjects
<1>2. /\ tls_obj' \in [TlsObjs -> ObjectFields] /\ tls_map' \in Seq(TlsObjs)
      /\ tls_size' \in [initial : Nat, total : Nat]
      /\ BlockInv' /\ Open' = Open /\ StaticOpen' = StaticOpen
      /\ TlsRunning' <=> TlsRunning
  BY <1>1, SameObjectsKeep
<1>3. tcb \in [TlsThreads -> TcbFields] /\ tcb[t] \in TcbFields
  BY DEF TlsInv, TlsTypeOK
<1>4. [tcb[t] EXCEPT !.state = "gone"]
      = [state |-> "gone", dtv |-> tcb[t].dtv, block |-> tcb[t].block]
  BY SMTT(30), <1>3 DEF TcbFields
<1>5. tcb' = [tcb EXCEPT ![t] = [state |-> "gone", dtv |-> tcb[t].dtv, block |-> tcb[t].block]]
  BY <1>1, <1>4
<1>6. /\ tcb' \in [TlsThreads -> TcbFields]
      /\ tcb'[t].state = "gone" /\ tcb'[t].dtv = tcb[t].dtv /\ tcb'[t].block = tcb[t].block
      /\ \A u \in TlsThreads : u # t => tcb'[u] = tcb[u]
  BY <1>3, <1>5 DEF TcbFields
<1>7. \A u \in TlsThreads :
        /\ tcb'[u].dtv = tcb[u].dtv /\ tcb'[u].block = tcb[u].block
        /\ tcb'[u].state \in {"none", "running"} => tcb'[u].state = tcb[u].state
  BY <1>6
<1>8. \A u \in TlsThreads, p \in TlsObjs : InDtv(u, p)' <=> InDtv(u, p)
  BY <1>1, <1>7 DEF InDtv
<1>9. TlsTypeOK'
  BY <1>1, <1>2, <1>6 DEF TlsInv, TlsTypeOK
<1>10. IndexInv' /\ FaultInv'
  BY <1>1, <1>2, <1>7 DEF TlsInv, IndexInv, FaultInv
<1>11. MarkInv'
  BY SMTT(30), <1>1, <1>2, <1>7 DEF TlsInv, TlsTypeOK, ObjectFields, MarkInv, Static, InDtv
<1>12. FreshInv'
  <2>1. TlsRunning
    BY <1>1 DEF TlsInv, FreshInv, ThreadRuns
  <2> QED
    BY SMTT(30), <1>1, <1>2, <1>7, <2>1 DEF TlsInv, FreshInv
<1>13. CopyInv'
  <2> SUFFICES ASSUME NEW u \in TlsThreads, NEW p \in Open
               PROVE  Copied(u, p)'
    BY <1>2 DEF CopyInv
  <2>1. p \in TlsObjs /\ (Static(p)' <=> Static(p))
    BY <1>1 DEF Open, Static
  <2>2. InDtv(u, p)' <=> InDtv(u, p)
    BY <1>8, <2>1
  <2>3. Copied(u, p)
    BY DEF TlsInv, CopyInv
  <2> QED
    BY <1>1, <1>7, <2>1, <2>2, <2>3 DEF Copied
<1>14. ImageMissing'
  BY SMTT(30), <1>1, <1>2, <1>7 DEF TlsInv, ImageMissing, ThreadRuns
<1> QED
  BY <1>2, <1>9, <1>10, <1>11, <1>12, <1>13, <1>14 DEF TlsInv

(* A load is undone, before or after the object got an index. *)
LEMMA LoadFailsKeeps ==
  ASSUME TlsInv, NEW t \in TlsThreads, NEW o \in TlsObjs, tls_load_fails(t, o)
  PROVE  TlsInv'
<1>1. /\ tls_obj[o].state = "file" /\ tls_obj' = [tls_obj EXCEPT ![o].state = "destroyed"]
      /\ tls_size' = tls_size /\ tcb' = tcb /\ tls_last' = tls_last
      /\ tls_twice' = tls_twice /\ tls_fault' = tls_fault
      /\ tls_map' = tls_map \/ tls_map' = Append(tls_map, o)
  BY DEF tls_load_fails
<1> DEFINE r == tls_obj[o]
<1>2. tls_map \in Seq(TlsObjs) /\ tls_obj \in [TlsObjs -> ObjectFields]
  BY DEF TlsInv, TlsTypeOK
<1>r. r = tls_obj[o]
  OBVIOUS
<1>f. r \in ObjectFields
  BY <1>2
<1> HIDE DEF r
<1>3. [r EXCEPT !.state = "destroyed"]
      = Fields(r.size, r.align, r.initial, r.desc, "destroyed", r.offset, r.index,
               r.initialized, r.opener, r.started)
  BY SMTT(30), <1>f DEF ObjectFields, Fields
<1>4. [r EXCEPT !.state = "destroyed"] \in ObjectFields
  BY <1>f DEF ObjectFields
<1>5. /\ tls_obj' \in [TlsObjs -> ObjectFields]
      /\ \A p \in TlsObjs : p # o => tls_obj'[p] = tls_obj[p]
      /\ tls_obj'[o] = [r EXCEPT !.state = "destroyed"]
  BY <1>1, <1>2, <1>r, <1>4
<1>6. tls_obj'[o].state = "destroyed" /\ (tls_obj'[o].initialized = tls_obj[o].initialized)
  BY <1>3, <1>5, <1>r DEF Fields
<1>7. Open' = Open /\ o \notin Open
  BY <1>1, <1>5, <1>6 DEF Open
<1>8. \A p \in Open : tls_obj'[p] = tls_obj[p]
  BY <1>5, <1>7 DEF Open
<1>9. \A p \in Open : Static(p)' <=> Static(p)
  BY <1>8 DEF Static
<1>10. StaticOpen' = StaticOpen /\ StaticOpen \subseteq Open /\ (TlsRunning' <=> TlsRunning)
  BY <1>1, <1>7, <1>9 DEF StaticOpen, TlsRunning
<1>11. /\ tls_map' \in Seq(TlsObjs) /\ Len(tls_map) <= Len(tls_map')
       /\ \A k \in 1..Len(tls_map) : tls_map'[k] = tls_map[k]
  <2>1. CASE tls_map' = tls_map
    BY SMTT(30), <1>2, <2>1
  <2>2. CASE tls_map' = Append(tls_map, o)
    BY SMTT(30), <1>2, <2>2
  <2> QED
    BY <1>1, <2>1, <2>2
<1>12. TlsTypeOK'
  BY <1>1, <1>5, <1>11 DEF TlsInv, TlsTypeOK
<1>13. BlockInv'
  BY <1>1, <1>8, <1>10 DEF TlsInv, BlockInv, Placed, Apart
<1>14. IndexInv'
  <2>1. \A p \in Open : /\ tls_obj[p].index \in Nat /\ tls_obj[p].index < Len(tls_map)
                        /\ tls_map[tls_obj[p].index + 1] = p
    BY DEF TlsInv, TlsTypeOK, ObjectFields, IndexInv, Open
  <2>2. \A p \in Open : tls_obj'[p].index < Len(tls_map') /\ tls_map'[tls_obj'[p].index + 1] = p
    <3> TAKE p \in Open
    <3>1. tls_obj[p].index + 1 \in 1..Len(tls_map) /\ Len(tls_map) \in Nat /\ Len(tls_map') \in Nat
      BY SMTT(30), <1>2, <1>11, <2>1
    <3> QED
      BY SMTT(30), <1>8, <1>11, <2>1, <3>1
  <2>3. \A u \in TlsThreads : Len(tcb[u].dtv) \in Nat /\ Len(tcb[u].dtv) <= Len(tls_map)
    BY SMTT(30) DEF TlsInv, TlsTypeOK, TcbFields, IndexInv
  <2>4. \A u \in TlsThreads : Len(tcb'[u].dtv) <= Len(tls_map')
    BY SMTT(30), <1>1, <1>2, <1>11, <2>3
  <2> QED
    BY <1>7, <2>2, <2>4 DEF IndexInv
<1>15. \A u \in TlsThreads, p \in Open : InDtv(u, p)' <=> InDtv(u, p)
  BY <1>1, <1>8 DEF InDtv
<1>16. MarkInv'
  <2>1. \A p \in TlsObjs : p \notin Open => ~tls_obj'[p].initialized
    BY <1>5, <1>6, <1>7 DEF TlsInv, MarkInv
  <2>2. \A p \in Open : InDtv(tls_obj[p].opener, p)' <=> InDtv(tls_obj[p].opener, p)
    BY <1>1, <1>8 DEF InDtv
  <2> QED
    BY <1>7, <1>8, <1>9, <1>10, <2>1, <2>2 DEF TlsInv, MarkInv
<1>17. FreshInv'
  BY <1>1, <1>7, <1>10 DEF TlsInv, FreshInv
<1>18. CopyInv'
  <2> SUFFICES ASSUME NEW u \in TlsThreads, NEW p \in Open
               PROVE  Copied(u, p)'
    BY <1>7 DEF CopyInv
  <2>1. (Static(p)' <=> Static(p)) /\ (InDtv(u, p)' <=> InDtv(u, p)) /\ tls_obj'[p] = tls_obj[p]
    BY <1>8, <1>9, <1>15
  <2>2. Copied(u, p)
    BY DEF TlsInv, CopyInv
  <2> QED
    BY <1>1, <2>1, <2>2 DEF Copied
<1>19. ImageMissing'
  BY SMTT(30), <1>1, <1>8, <1>10 DEF TlsInv, ImageMissing, ThreadRuns
<1>20. FaultInv'
  BY <1>1, <1>7, <1>8 DEF TlsInv, FaultInv
<1> QED
  BY <1>12, <1>13, <1>14, <1>16, <1>17, <1>18, <1>19, <1>20 DEF TlsInv

(* What marking the objects of S as initialised does. *)
MarkedAs(S) ==
  /\ tls_obj' \in [TlsObjs -> ObjectFields]
  /\ \A p \in TlsObjs :
       /\ tls_obj'[p].size = tls_obj[p].size /\ tls_obj'[p].align = tls_obj[p].align
       /\ tls_obj'[p].initial = tls_obj[p].initial /\ tls_obj'[p].desc = tls_obj[p].desc
       /\ tls_obj'[p].state = tls_obj[p].state /\ tls_obj'[p].offset = tls_obj[p].offset
       /\ tls_obj'[p].index = tls_obj[p].index /\ tls_obj'[p].opener = tls_obj[p].opener
       /\ tls_obj'[p].started = tls_obj[p].started
       /\ tls_obj'[p].initialized <=> p \in S

(* Marking objects changes nothing else of them. *)
LEMMA Marks ==
  ASSUME TlsTypeOK, NEW S,
         tls_obj' = [p \in TlsObjs |-> [tls_obj[p] EXCEPT !.initialized = (p \in S)]]
  PROVE  MarkedAs(S)
<1>1. ASSUME NEW p \in TlsObjs
      PROVE  /\ tls_obj'[p] \in ObjectFields
             /\ tls_obj'[p].size = tls_obj[p].size /\ tls_obj'[p].align = tls_obj[p].align
             /\ tls_obj'[p].initial = tls_obj[p].initial /\ tls_obj'[p].desc = tls_obj[p].desc
             /\ tls_obj'[p].state = tls_obj[p].state /\ tls_obj'[p].offset = tls_obj[p].offset
             /\ tls_obj'[p].index = tls_obj[p].index /\ tls_obj'[p].opener = tls_obj[p].opener
             /\ tls_obj'[p].started = tls_obj[p].started
             /\ tls_obj'[p].initialized <=> p \in S
  <2> DEFINE r == tls_obj[p]
             b == p \in S
             new == [r EXCEPT !.initialized = b]
  <2>1. r \in ObjectFields
    BY DEF TlsTypeOK
  <2>2. b \in BOOLEAN
    BY SMTT(30)
  <2>3. tls_obj'[p] = new
    OBVIOUS
  <2> HIDE DEF r, b
  <2>4. new = Fields(r.size, r.align, r.initial, r.desc, r.state, r.offset, r.index, b,
                     r.opener, r.started)
    BY SMTT(30), <2>1 DEF ObjectFields, Fields
  <2> HIDE DEF new
  <2>5. /\ new.size = r.size /\ new.align = r.align /\ new.initial = r.initial
        /\ new.desc = r.desc /\ new.state = r.state /\ new.offset = r.offset
        /\ new.index = r.index /\ new.opener = r.opener /\ new.started = r.started
        /\ new.initialized = b
    BY <2>4 DEF Fields
  <2>6. new \in ObjectFields
    BY <2>1, <2>2, <2>4 DEF ObjectFields, Fields
  <2> QED
    BY <2>3, <2>5, <2>6 DEF r, b
<1>2. tls_obj' = [p \in TlsObjs |-> tls_obj'[p]]
  OBVIOUS
<1>3. tls_obj' \in [TlsObjs -> ObjectFields]
  BY <1>1, <1>2
<1> QED
  BY <1>1, <1>3 DEF MarkedAs

(* The control block of a thread that begins. *)
LEMMA BegunTcb ==
  ASSUME NEW r \in TcbFields, NEW B \in [TlsObjs -> 0..2]
  PROVE  /\ [[r EXCEPT !.state = "running"] EXCEPT !.block = B]
            = [state |-> "running", dtv |-> r.dtv, block |-> B]
         /\ [state |-> "running", dtv |-> r.dtv, block |-> B] \in TcbFields
<1>1. [r EXCEPT !.state = "running"] = [state |-> "running", dtv |-> r.dtv, block |-> r.block]
  BY SMTT(30) DEF TcbFields
<1>2. [[state |-> "running", dtv |-> r.dtv, block |-> r.block] EXCEPT !.block = B]
      = [state |-> "running", dtv |-> r.dtv, block |-> B]
  BY SMTT(30)
<1>3. [state |-> "running", dtv |-> r.dtv, block |-> B] \in TcbFields
  BY DEF TcbFields
<1> QED
  BY <1>1, <1>2, <1>3

(* A thread begins with a block filled with every image: what this keeps,  *)
(* whichever objects get marked.                                           *)
LEMMA BeginKeeps ==
  ASSUME TlsInv, NEW t \in TlsThreads, tcb[t].state = "none",
         NEW S, \A p \in TlsObjs : p \in StaticOpen => p \in S,
         \A p \in TlsObjs : p \notin Open => p \notin S,
         MarkedAs(S), NEW B,
         B = [p \in TlsObjs |-> IF tls_obj'[p].state = "live" /\ tls_obj'[p].initial
                                  THEN 0 ELSE tcb[t].block[p]],
         tcb' = [tcb EXCEPT ![t].state = "running", ![t].block = B],
         tls_map' = tls_map, tls_last' = tls_last,
         tls_twice' = tls_twice, tls_fault' = tls_fault,
         tls_size' \in [initial : Nat, total : Nat], tls_size'.initial = tls_size.initial,
         TlsRunning', tls_size'.initial <= tls_size'.total
  PROVE  TlsInv'
<1>1. /\ tls_obj' \in [TlsObjs -> ObjectFields]
      /\ \A p \in TlsObjs :
           /\ tls_obj'[p].size = tls_obj[p].size /\ tls_obj'[p].align = tls_obj[p].align
           /\ tls_obj'[p].initial = tls_obj[p].initial /\ tls_obj'[p].desc = tls_obj[p].desc
           /\ tls_obj'[p].state = tls_obj[p].state /\ tls_obj'[p].offset = tls_obj[p].offset
           /\ tls_obj'[p].index = tls_obj[p].index /\ tls_obj'[p].opener = tls_obj[p].opener
           /\ tls_obj'[p].started = tls_obj[p].started
           /\ tls_obj'[p].initialized <=> p \in S
  BY DEF MarkedAs
<1>2. Open' = Open /\ StaticOpen' = StaticOpen /\ StaticOpen \subseteq Open /\ Open \subseteq TlsObjs
  BY SMTT(30), <1>1 DEF Open, StaticOpen, Static
<1>3. \A p \in TlsObjs : Static(p)' <=> Static(p)
  BY <1>1 DEF Static
<1>4. tcb \in [TlsThreads -> TcbFields] /\ tcb[t] \in TcbFields
  BY DEF TlsInv, TlsTypeOK
<1>5. tcb[t].block \in [TlsObjs -> 0..2]
  BY <1>4 DEF TcbFields
<1>6. B \in [TlsObjs -> 0..2]
  BY SMTT(30), <1>5
<1>7. \A p \in StaticOpen : B[p] = 0
  BY <1>1 DEF StaticOpen, Open, Static
<1>8. tcb' = [tcb EXCEPT ![t] = [[tcb[t] EXCEPT !.state = "running"] EXCEPT !.block = B]]
  BY <1>4 DEF TcbFields
<1> DEFINE new == [state |-> "running", dtv |-> tcb[t].dtv, block |-> B]
<1>9. /\ [[tcb[t] EXCEPT !.state = "running"] EXCEPT !.block = B] = new /\ new \in TcbFields
      /\ new.state = "running" /\ new.dtv = tcb[t].dtv /\ new.block = B
  BY <1>4, <1>6, BegunTcb
<1>10. tcb' = [tcb EXCEPT ![t] = new]
  BY <1>8, <1>9
<1> HIDE DEF new
<1>11. /\ tcb' \in [TlsThreads -> TcbFields]
       /\ tcb'[t].state = "running" /\ tcb'[t].dtv = tcb[t].dtv /\ tcb'[t].block = B
       /\ \A u \in TlsThreads : u # t => tcb'[u] = tcb[u]
  <2>1. tcb \in [TlsThreads -> TcbFields] /\ new \in TcbFields
    BY <1>4, <1>9
  <2>2. tcb'[t] = new /\ \A u \in TlsThreads : u # t => tcb'[u] = tcb[u]
    BY <1>10, <2>1
  <2>3. DOMAIN tcb' = TlsThreads /\ tcb' = [u \in TlsThreads |-> tcb'[u]]
    BY <1>10, <2>1
  <2>4. \A u \in TlsThreads : tcb'[u] \in TcbFields
    BY <2>1, <2>2
  <2>5. tcb' \in [TlsThreads -> TcbFields]
    BY <2>3, <2>4
  <2> QED
    BY <1>9, <2>2, <2>5
<1>12. \A u \in TlsThreads : tcb'[u].dtv = tcb[u].dtv
  BY <1>11
<1>13. \A u \in TlsThreads, p \in TlsObjs : InDtv(u, p)' <=> InDtv(u, p)
  BY <1>1, <1>12 DEF InDtv
<1>14. TlsTypeOK'
  BY <1>1, <1>11 DEF TlsInv, TlsTypeOK
<1>15. BlockInv'
  <2>1. \A p \in StaticOpen : Placed(p)'
    BY <1>1, <1>2 DEF TlsInv, BlockInv, Placed
  <2>2. \A o, p \in StaticOpen : o # p => Apart(o, p)'
    BY <1>1, <1>2 DEF TlsInv, BlockInv, Apart
  <2> QED
    BY <1>2, <2>1, <2>2 DEF TlsInv, BlockInv
<1>16. IndexInv'
  BY <1>1, <1>2, <1>12 DEF TlsInv, IndexInv
<1>17. MarkInv'
  <2>1. ASSUME NEW p \in TlsObjs, p \in Open, ~Static(p), tls_obj[p].desc
        PROVE  InDtv(tls_obj[p].opener, p)'
    <3>1. tls_obj[p].opener \in TlsThreads /\ InDtv(tls_obj[p].opener, p)
      BY <2>1 DEF TlsInv, TlsTypeOK, ObjectFields, MarkInv
    <3>2. PICK c \in TlsThreads : c = tls_obj[p].opener
      BY <3>1
    <3>3. InDtv(c, p)'
      BY <1>13, <3>1, <3>2
    <3>4. tls_obj'[p].opener = c
      BY <1>1, <3>2
    <3> QED
      BY <3>3, <3>4 DEF InDtv
  <2> QED
    BY <1>1, <1>2, <1>3, <2>1 DEF MarkInv
<1>18. FreshInv'
  <2>1. ASSUME NEW u \in TlsThreads, NEW p \in TlsObjs
        PROVE  /\ tcb'[u].state = "none" => /\ tcb'[u].dtv = <<>> /\ tls_last[u][p] = 0
                                            /\ tcb'[u].block[p] = Raw
               /\ p \notin Open => tls_last[u][p] = 0 /\ tcb'[u].block[p] = Raw
    <3>1. p \notin Open => B[p] = tcb[t].block[p]
      BY <1>1 DEF Open
    <3> QED
      BY SMTT(30), <1>11, <3>1 DEF TlsInv, FreshInv
  <2> QED
    BY <1>2, <2>1 DEF FreshInv
<1>19. CopyInv'
  <2> SUFFICES ASSUME NEW u \in TlsThreads, NEW p \in Open
               PROVE  Copied(u, p)'
    BY <1>2 DEF CopyInv
  <2>1. /\ p \in TlsObjs /\ (Static(p)' <=> Static(p)) /\ (InDtv(u, p)' <=> InDtv(u, p))
        /\ tls_obj'[p].index = tls_obj[p].index
    BY <1>1, <1>2, <1>3, <1>13
  <2>2. Copied(u, p)
    BY DEF TlsInv, CopyInv
  <2>3. CASE u # t
    <3>1. tcb'[u] = tcb[u]
      BY <1>11, <2>3
    <3> QED
      BY <2>1, <2>2, <3>1 DEF Copied
  <2>4. CASE u = t
    <3>1. tls_last[t][p] = 0
      BY <2>1 DEF TlsInv, FreshInv
    <3>2. Static(p) => tcb'[t].block[p] = 0
      BY <1>7, <1>11 DEF StaticOpen
    <3>3. tcb'[t].dtv = tcb[t].dtv
      BY <1>12
    <3> QED
      BY <2>1, <2>2, <2>4, <3>1, <3>2, <3>3 DEF Copied
  <2> QED
    BY <2>3, <2>4
<1>20. ImageMissing'
  <2> SUFFICES ASSUME NEW u \in TlsThreads, NEW p \in StaticOpen,
                      tcb'[u].state = "running", tcb'[u].block[p] = Raw
               PROVE  ~tls_obj'[p].started /\ tls_obj'[p].opener # u
    BY <1>2 DEF ImageMissing, ThreadRuns
  <2>1. u # t
    BY SMTT(30), <1>7, <1>11 DEF Raw
  <2>2. ~tls_obj[p].started /\ tls_obj[p].opener # u
    BY <1>11, <2>1 DEF TlsInv, ImageMissing, ThreadRuns
  <2>3. p \in TlsObjs
    BY <1>2
  <2> QED
    BY <1>1, <2>2, <2>3
<1>21. FaultInv'
  BY SMTT(30), <1>1, <1>2 DEF TlsInv, FaultInv
<1> QED
  BY <1>14, <1>15, <1>16, <1>17, <1>18, <1>19, <1>20, <1>21 DEF TlsInv

(* The process starts: the main thread's block is filled. *)
LEMMA StartKeeps ==
  ASSUME TlsInv, tls_start
  PROVE  TlsInv'
<1> DEFINE S == StaticOpen
           B == [p \in TlsObjs |-> IF tls_obj'[p].state = "live" /\ tls_obj'[p].initial
                                     THEN 0 ELSE tcb[TlsMain].block[p]]
<1>1. /\ tcb[TlsMain].state = "none" /\ TlsMain \in TlsThreads
      /\ \A p \in TlsObjs : p \notin Open => p \notin S
  BY MainAssumption DEF tls_start, TlsInv, FreshInv, StaticOpen
<1>2. /\ tls_map' = tls_map /\ tls_last' = tls_last
      /\ tls_twice' = tls_twice /\ tls_fault' = tls_fault
      /\ tls_size' = [tls_size EXCEPT !.total = tls_size.initial + TlsReserve]
  BY DEF tls_start
<1>3. /\ tls_size' \in [initial : Nat, total : Nat] /\ tls_size'.initial = tls_size.initial
      /\ TlsRunning' /\ tls_size'.initial <= tls_size'.total
  <2>1. /\ tls_size \in [initial : Nat, total : Nat] /\ TlsReserve \in Nat
        /\ tls_size.initial >= ExeTls
    BY ReserveAssumption DEF TlsInv, TlsTypeOK, BlockInv
  <2>2. tls_size' = [initial |-> tls_size.initial, total |-> tls_size.initial + TlsReserve]
    BY <1>2, <2>1
  <2> QED
    BY SMTT(30), <2>1, <2>2 DEF TlsRunning, ExeTls
<1>4. \A p \in TlsObjs : (p \in Open /\ Static(p)) = (p \in S)
  BY SMTT(30) DEF StaticOpen
<1>5. tls_obj' = [p \in TlsObjs |-> [tls_obj[p] EXCEPT !.initialized = (p \in S)]]
  BY <1>4 DEF tls_start
<1>6. MarkedAs(S)
  BY <1>5, Marks DEF TlsInv
<1>7. Filled(tcb[TlsMain].block, FALSE) = B
  BY DEF Filled
<1>8. tcb' = [tcb EXCEPT ![TlsMain].state = "running", ![TlsMain].block = B]
  BY <1>7 DEF tls_start
<1>9. \A p \in TlsObjs : p \in StaticOpen => p \in S
  OBVIOUS
<1> HIDE DEF S
<1>10. PICK C : C = B
  OBVIOUS
<1>11. /\ C = [p \in TlsObjs |-> IF tls_obj'[p].state = "live" /\ tls_obj'[p].initial
                                   THEN 0 ELSE tcb[TlsMain].block[p]]
       /\ tcb' = [tcb EXCEPT ![TlsMain].state = "running", ![TlsMain].block = C]
  BY <1>8, <1>10
<1> QED
  BY <1>1, <1>2, <1>3, <1>6, <1>9, <1>11, BeginKeeps

(* A thread starts: its block is filled, whatever is marked. *)
LEMMA ThreadKeeps ==
  ASSUME TlsInv, NEW t \in TlsThreads, tls_thread(t)
  PROVE  TlsInv'
<1> DEFINE S == {p \in TlsObjs : tls_obj[p].initialized \/ p \in StaticOpen}
           B == [p \in TlsObjs |-> IF tls_obj'[p].state = "live" /\ tls_obj'[p].initial
                                     THEN 0 ELSE tcb[t].block[p]]
<1>1. /\ tcb[t].state = "none"
      /\ tls_map' = tls_map /\ tls_last' = tls_last
      /\ tls_twice' = tls_twice /\ tls_fault' = tls_fault /\ tls_size' = tls_size
      /\ TlsRunning
  BY DEF tls_thread
<1>2. \A p \in TlsObjs : p \notin Open => p \notin S
  BY DEF TlsInv, MarkInv, StaticOpen
<1>3. /\ tls_size' \in [initial : Nat, total : Nat] /\ tls_size'.initial = tls_size.initial
      /\ TlsRunning' /\ tls_size'.initial <= tls_size'.total
  BY <1>1 DEF TlsInv, TlsTypeOK, BlockInv, TlsRunning
<1>4. \A p \in TlsObjs : (tls_obj[p].initialized \/ (p \in Open /\ Static(p))) = (p \in S)
  BY SMTT(30) DEF StaticOpen
<1>5. tls_obj' = [p \in TlsObjs |-> [tls_obj[p] EXCEPT !.initialized = (p \in S)]]
  BY <1>4 DEF tls_thread
<1>6. MarkedAs(S)
  BY <1>5, Marks DEF TlsInv
<1>7. Filled(tcb[t].block, FALSE) = B
  BY DEF Filled
<1>8. tcb' = [tcb EXCEPT ![t].state = "running", ![t].block = B]
  BY <1>7 DEF tls_thread
<1>9. \A p \in TlsObjs : p \in StaticOpen => p \in S
  OBVIOUS
<1> HIDE DEF S
<1>10. PICK C : C = B
  OBVIOUS
<1>11. /\ C = [p \in TlsObjs |-> IF tls_obj'[p].state = "live" /\ tls_obj'[p].initial
                                   THEN 0 ELSE tcb[t].block[p]]
       /\ tcb' = [tcb EXCEPT ![t].state = "running", ![t].block = C]
  BY <1>8, <1>10
<1> QED
  BY <1>1, <1>2, <1>3, <1>6, <1>9, <1>11, BeginKeeps

(* The control block of the thread that opens an object. *)
LEMMA LoadedTcb ==
  ASSUME TlsInv, NEW t \in TlsThreads, NEW o \in TlsObjs, tls_load(t, o)
  PROVE  /\ tcb' \in [TlsThreads -> TcbFields]
         /\ ~TlsRunning => tcb' = tcb
         /\ \A u \in TlsThreads : /\ tcb'[u].state = tcb[u].state
                                  /\ u # t => tcb'[u] = tcb[u]
         /\ TlsRunning =>
              /\ tcb'[t].dtv = IF tls_obj[o].desc /\ ~Static(o)
                                 THEN Accessed(tcb[t].dtv, Len(tls_map)) ELSE tcb[t].dtv
              /\ \A p \in TlsObjs :
                   tcb'[t].block[p] = IF /\ tls_obj'[p].state = "live" /\ tls_obj'[p].initial
                                         /\ ~tls_obj[p].initialized
                                        THEN 0 ELSE tcb[t].block[p]
<1> DEFINE B == [p \in TlsObjs |-> IF /\ tls_obj'[p].state = "live" /\ tls_obj'[p].initial
                                      /\ ~tls_obj[p].initialized
                                     THEN 0 ELSE tcb[t].block[p]]
           A == Accessed(tcb[t].dtv, Len(tls_map))
           D == IF tls_obj[o].desc /\ ~Static(o) THEN A ELSE tcb[t].dtv
<1>1. tcb \in [TlsThreads -> TcbFields] /\ tcb[t] \in TcbFields /\ tls_map \in Seq(TlsObjs)
  BY DEF TlsInv, TlsTypeOK
<1>2. tcb[t].dtv \in Seq(0..2) /\ tcb[t].block \in [TlsObjs -> 0..2]
  BY <1>1 DEF TcbFields
<1>3. CASE ~TlsRunning
  <2>1. tcb' = tcb
    BY <1>3 DEF tls_load
  <2> QED
    BY <1>1, <1>3, <2>1
<1>4. CASE TlsRunning
  <2>1. Filled(tcb[t].block, TRUE) = B
    BY DEF Filled
  <2>2. tcb' = [tcb EXCEPT ![t] = [tcb[t] EXCEPT !.dtv = D, !.block = B]]
    BY <1>4, <2>1 DEF tls_load, ModuleIndex
  <2>3. B \in [TlsObjs -> 0..2]
    BY SMTT(30), <1>2
  <2>4. A \in Seq(0..2)
    <3>1. tls_map' = Append(tls_map, o)
      BY DEF tls_load
    <3>2. tls_map' \in Seq(TlsObjs) /\ Len(tls_map') = Len(tls_map) + 1 /\ Len(tls_map) \in Nat
      BY SMTT(30), <1>1, <3>1
    <3>3. Len(tcb[t].dtv) \in Nat /\ Len(tcb[t].dtv) <= Len(tls_map)
      BY SMTT(30), <1>2 DEF TlsInv, IndexInv
    <3>4. Len(tls_map) < Len(tls_map') /\ Len(tcb[t].dtv) <= Len(tls_map')
      BY SMTT(30), <3>2, <3>3
    <3> QED
      BY <1>2, <3>2, <3>4, AccessedIs
  <2>5. D \in Seq(0..2)
    BY <1>2, <2>4
  <2>6. \A p \in TlsObjs :
          B[p] = IF /\ tls_obj'[p].state = "live" /\ tls_obj'[p].initial
                    /\ ~tls_obj[p].initialized
                   THEN 0 ELSE tcb[t].block[p]
    OBVIOUS
  <2> HIDE DEF B, D
  <2> DEFINE new == [state |-> tcb[t].state, dtv |-> D, block |-> B]
  <2>7. [tcb[t] EXCEPT !.dtv = D, !.block = B] = new
    <3> DEFINE r == tcb[t]
               r1 == [r EXCEPT !.dtv = D]
    <3>1. r \in TcbFields
      BY <1>1
    <3> HIDE DEF r
    <3>2. r1 = [state |-> r.state, dtv |-> D, block |-> r.block]
      BY SMTT(30), <3>1 DEF TcbFields
    <3>3. [r1 EXCEPT !.block = B] = [state |-> r.state, dtv |-> D, block |-> B]
      <4> HIDE DEF r1
      <4> QED BY SMTT(30), <3>2
    <3>4. [tcb[t] EXCEPT !.dtv = D, !.block = B] = [r1 EXCEPT !.block = B]
      BY DEF r
    <3> QED
      BY <3>3, <3>4 DEF r
  <2>8. new \in TcbFields /\ new.state = tcb[t].state /\ new.dtv = D /\ new.block = B
    BY <1>1, <2>3, <2>5 DEF TcbFields
  <2>9. tcb' = [tcb EXCEPT ![t] = new]
    BY <2>2, <2>7
  <2> HIDE DEF new
  <2>10. tcb' \in [TlsThreads -> TcbFields] /\ tcb'[t] = new
    BY <1>1, <2>8, <2>9
  <2>11. \A u \in TlsThreads : u # t => tcb'[u] = tcb[u]
    BY <1>1, <2>9
  <2>12. tcb'[t].dtv = IF tls_obj[o].desc /\ ~Static(o)
                         THEN Accessed(tcb[t].dtv, Len(tls_map)) ELSE tcb[t].dtv
    BY <2>8, <2>10 DEF D
  <2>13. \A u \in TlsThreads : tcb'[u].state = tcb[u].state
    BY <2>8, <2>10, <2>11
  <2>14. tcb'[t].block = B
    BY <2>8, <2>10
  <2> QED
    BY <1>4, <2>6, <2>10, <2>11, <2>12, <2>13, <2>14
<1> QED
  BY <1>3, <1>4

(* A load, before the process runs or within a thread. *)
LEMMA LoadKeeps ==
  ASSUME TlsInv, NEW t \in TlsThreads, NEW o \in TlsObjs, tls_load(t, o)
  PROVE  TlsInv'
<1> DEFINE placed == Static(o) \/ ~TlsRunning
<1>1. /\ tls_obj' \in [TlsObjs -> ObjectFields]
      /\ \A p \in TlsObjs \ {o} : tls_obj'[p] = tls_obj[p]
      /\ tls_obj'[o].size = tls_obj[o].size /\ tls_obj'[o].align = tls_obj[o].align
      /\ tls_obj'[o].desc <=> tls_obj[o].desc
      /\ tls_obj'[o].state = "live" /\ tls_obj'[o].opener = t
      /\ tls_obj'[o].index = Len(tls_map)
      /\ tls_obj'[o].initial <=> placed
      /\ placed => tls_obj'[o].offset = Offset(o)
      /\ tls_obj'[o].initialized <=> (TlsRunning /\ Static(o))
      /\ tls_obj'[o].started <=> ~TlsRunning
  BY Loads DEF TlsInv, LoadedFields
<1>2. /\ tls_obj[o].state = "file" /\ (TlsRunning => ThreadRuns(t)) /\ (placed => Fits(o))
      /\ tls_size' = IF placed THEN [tls_size EXCEPT !.initial = Offset(o)] ELSE tls_size
      /\ tls_map' = Append(tls_map, o)
      /\ tls_last' = tls_last /\ tls_twice' = tls_twice
      /\ tls_fault' = tls_fault
  BY DEF tls_load
<1>3. /\ tcb' \in [TlsThreads -> TcbFields]
      /\ ~TlsRunning => tcb' = tcb
      /\ \A u \in TlsThreads : /\ tcb'[u].state = tcb[u].state
                               /\ u # t => tcb'[u] = tcb[u]
      /\ TlsRunning =>
           /\ tcb'[t].dtv = IF tls_obj[o].desc /\ ~Static(o)
                              THEN Accessed(tcb[t].dtv, Len(tls_map)) ELSE tcb[t].dtv
           /\ \A p \in TlsObjs :
                tcb'[t].block[p] = IF /\ tls_obj'[p].state = "live" /\ tls_obj'[p].initial
                                      /\ ~tls_obj[p].initialized
                                     THEN 0 ELSE tcb[t].block[p]
  BY LoadedTcb
<1> HIDE DEF placed
<1>4. /\ o \notin Open /\ Open' = Open \cup {o} /\ Open \subseteq TlsObjs
      /\ \A p \in Open : tls_obj'[p] = tls_obj[p] /\ p # o
  BY <1>1, <1>2 DEF Open
<1>5. /\ \A p \in Open : Static(p)' <=> Static(p)
      /\ Static(o)' <=> placed
  BY <1>1, <1>4 DEF Static
<1>6. /\ StaticOpen \subseteq Open
      /\ StaticOpen' = IF placed THEN StaticOpen \cup {o} ELSE StaticOpen
  BY <1>4, <1>5 DEF StaticOpen
<1>7. /\ tls_size \in [initial : Nat, total : Nat] /\ tls_map \in Seq(TlsObjs)
      /\ tls_obj[o] \in ObjectFields /\ tls_obj \in [TlsObjs -> ObjectFields]
      /\ tcb \in [TlsThreads -> TcbFields]
  BY DEF TlsInv, TlsTypeOK
<1>8. /\ Offset(o) \in Nat /\ Offset(o) >= tls_size.initial + tls_obj[o].size
      /\ Offset(o) % tls_obj[o].align = 0
  BY OffsetIs DEF TlsInv
<1>9. /\ tls_size' \in [initial : Nat, total : Nat] /\ tls_size'.total = tls_size.total
      /\ tls_size'.initial = IF placed THEN Offset(o) ELSE tls_size.initial
  BY <1>2, <1>7, <1>8
<1>10. TlsRunning' <=> TlsRunning
  BY <1>9 DEF TlsRunning
<1>11. /\ tls_map' \in Seq(TlsObjs) /\ Len(tls_map') = Len(tls_map) + 1
       /\ Len(tls_map) \in Nat /\ tls_map'[Len(tls_map) + 1] = o
       /\ \A k \in 1..Len(tls_map) : tls_map'[k] = tls_map[k]
  BY SMTT(30), <1>2, <1>7
<1>12. TlsTypeOK'
  BY <1>1, <1>2, <1>3, <1>9, <1>11 DEF TlsInv, TlsTypeOK
<1>13. BlockInv'
  <2>0. /\ tls_size.initial \in Nat /\ tls_size.total \in Nat /\ tls_size.initial >= ExeTls
        /\ tls_obj[o].size \in Nat /\ tls_obj[o].align \in Nat \ {0}
        /\ \A p \in StaticOpen : /\ tls_obj'[p] = tls_obj[p] /\ p # o
                                 /\ tls_obj[p].offset \in Nat /\ tls_obj[p].size \in Nat
    BY <1>4, <1>6, <1>7 DEF TlsInv, BlockInv, ObjectFields
  <2>1. CASE ~placed
    BY <1>6, <1>9, <1>10, <2>0, <2>1 DEF TlsInv, BlockInv, Placed, Apart
  <2>2. CASE placed
    <3>1. tls_size'.initial >= ExeTls /\ tls_size'.initial >= tls_size.initial
      BY SMTT(30), <1>8, <1>9, <2>0, <2>2 DEF ExeTls
    <3>2. TlsRunning => tls_size'.initial <= tls_size'.total
      BY SMTT(30), <1>2, <1>9, <2>0, <2>2 DEF Fits, TlsRunning
    <3>3. Placed(o)'
      BY SMTT(30), <1>1, <1>8, <1>9, <2>0, <2>2 DEF Placed, ExeTls
    <3>4. \A p \in StaticOpen : Placed(p)'
      BY SMTT(30), <2>0, <3>1, <1>9, <1>8 DEF TlsInv, BlockInv, Placed
    <3>5. \A p \in StaticOpen : Apart(o, p)' /\ Apart(p, o)'
      BY SMTT(30), <1>1, <1>8, <2>0, <2>2 DEF TlsInv, BlockInv, Placed, Apart
    <3>6. \A p, q \in StaticOpen : p # q => Apart(p, q)'
      BY <2>0 DEF TlsInv, BlockInv, Apart
    <3> QED
      BY <1>6, <1>10, <2>2, <3>1, <3>2, <3>3, <3>4, <3>5, <3>6 DEF BlockInv
  <2> QED
    BY <2>1, <2>2
<1>14. \A u \in TlsThreads : /\ tcb[u].dtv \in Seq(0..2) /\ Len(tcb[u].dtv) \in Nat
                             /\ Len(tcb[u].dtv) <= Len(tls_map)
  BY SMTT(30), <1>7 DEF TlsInv, TcbFields, IndexInv
<1> DEFINE A == Accessed(tcb[t].dtv, Len(tls_map))
<1>15. /\ A \in Seq(0..2) /\ Len(A) <= Len(tls_map') /\ Len(tcb[t].dtv) <= Len(A)
       /\ Len(tls_map) < Len(A) /\ A[Len(tls_map) + 1] = 0
       /\ \A k \in 1..Len(A) :
            k # Len(tls_map) + 1 => A[k] = IF k <= Len(tcb[t].dtv) THEN tcb[t].dtv[k] ELSE Raw
  <2>1. Len(tls_map) < Len(tls_map') /\ Len(tcb[t].dtv) <= Len(tls_map')
    BY SMTT(30), <1>11, <1>14
  <2>2. ~(Len(tls_map) < Len(tcb[t].dtv))
    BY SMTT(30), <1>11, <1>14
  <2>3. /\ A \in Seq(0..2)
        /\ Len(A) <= Len(tls_map') /\ Len(tcb[t].dtv) <= Len(A) /\ Len(tls_map) < Len(A)
        /\ A[Len(tls_map) + 1] =
             IF Len(tls_map) < Len(tcb[t].dtv) /\ tcb[t].dtv[Len(tls_map) + 1] # Raw
               THEN tcb[t].dtv[Len(tls_map) + 1] ELSE 0
        /\ \A k \in 1..Len(A) :
             k # Len(tls_map) + 1 => A[k] = IF k <= Len(tcb[t].dtv) THEN tcb[t].dtv[k] ELSE Raw
    <3>1. tcb[t].dtv \in Seq(0..2) /\ Len(tls_map) \in Nat /\ tls_map' \in Seq(TlsObjs)
      BY <1>11, <1>14
    <3> QED
      BY <2>1, <3>1, AccessedIs
  <2> QED
    BY <2>2, <2>3
<1>16. \A u \in TlsThreads :
         \/ tcb'[u].dtv = tcb[u].dtv /\ ~(u = t /\ TlsRunning /\ tls_obj[o].desc /\ ~Static(o))
         \/ u = t /\ tcb'[u].dtv = A /\ TlsRunning /\ tls_obj[o].desc /\ ~Static(o)
  BY <1>3
<1> HIDE DEF A
<1>17. \A p \in Open : /\ tls_obj[p].index \in Nat /\ tls_obj[p].index < Len(tls_map)
                       /\ tls_map[tls_obj[p].index + 1] = p /\ tls_obj'[p].index = tls_obj[p].index
  BY <1>4, <1>7 DEF TlsInv, IndexInv, ObjectFields
<1>18. IndexInv'
  <2>1. \A p \in Open : tls_obj'[p].index < Len(tls_map') /\ tls_map'[tls_obj'[p].index + 1] = p
    <3> TAKE p \in Open
    <3>1. tls_obj[p].index + 1 \in 1..Len(tls_map)
      BY SMTT(30), <1>11, <1>17
    <3> QED
      BY SMTT(30), <1>11, <1>17, <3>1
  <2>2. tls_obj'[o].index < Len(tls_map') /\ tls_map'[tls_obj'[o].index + 1] = o
    BY SMTT(30), <1>1, <1>11
  <2>3. \A u \in TlsThreads : Len(tcb'[u].dtv) <= Len(tls_map')
    BY SMTT(30), <1>11, <1>14, <1>15, <1>16
  <2> QED
    BY <1>4, <2>1, <2>2, <2>3 DEF IndexInv
<1>19. ASSUME NEW u \in TlsThreads, NEW p \in Open
       PROVE  /\ InDtv(u, p)' <=> InDtv(u, p)
              /\ InDtv(u, p) => tcb'[u].dtv[tls_obj'[p].index + 1] = tcb[u].dtv[tls_obj[p].index + 1]
  <2>1. CASE tcb'[u].dtv = tcb[u].dtv
    BY <1>17, <2>1 DEF InDtv
  <2>2. CASE u = t /\ tcb'[u].dtv = A
    <3> DEFINE k == tls_obj[p].index + 1
    <3>1. k \in Nat /\ k >= 1 /\ k <= Len(tls_map) /\ k # Len(tls_map) + 1 /\ Len(A) \in Nat
      BY SMTT(30), <1>11, <1>15, <1>17
    <3>2. k <= Len(A)
      BY SMTT(30), <1>11, <1>15, <3>1
    <3>3. A[k] = IF k <= Len(tcb[t].dtv) THEN tcb[t].dtv[k] ELSE Raw
      BY SMTT(30), <1>15, <3>1, <3>2
    <3>4. InDtv(u, p) <=> k <= Len(tcb[t].dtv) /\ tcb[t].dtv[k] # Raw
      BY SMTT(30), <1>14, <1>17, <2>2 DEF InDtv
    <3>5. InDtv(u, p)' <=> k <= Len(A) /\ A[k] # Raw
      <4>1. tcb'[u].dtv = A /\ tls_obj'[p].index = tls_obj[p].index /\ tls_obj[p].index \in Nat
        BY <1>17, <2>2
      <4> HIDE DEF A
      <4> QED
        BY SMTT(30), <3>1, <4>1 DEF InDtv
    <3>6. InDtv(u, p)' <=> InDtv(u, p)
      <4> HIDE DEF k
      <4>1. CASE k <= Len(tcb[t].dtv)
        BY <3>2, <3>3, <3>4, <3>5, <4>1
      <4>2. CASE ~(k <= Len(tcb[t].dtv))
        BY <3>2, <3>3, <3>4, <3>5, <4>2
      <4> QED
        BY <4>1, <4>2
    <3>7. InDtv(u, p) => tcb'[u].dtv[tls_obj'[p].index + 1] = tcb[u].dtv[tls_obj[p].index + 1]
      BY <1>17, <2>2, <3>3, <3>4
    <3> QED
      BY <3>6, <3>7
  <2> QED
    BY <1>16, <2>1, <2>2
<1>20. ASSUME NEW u \in TlsThreads
       PROVE  /\ InDtv(u, o)' => tcb'[u].dtv[tls_obj'[o].index + 1] = 0
              /\ u = t /\ TlsRunning /\ tls_obj[o].desc /\ ~Static(o) => InDtv(u, o)'
  <2>1. CASE tcb'[u].dtv = tcb[u].dtv /\ ~(u = t /\ TlsRunning /\ tls_obj[o].desc /\ ~Static(o))
    <3>1. ~(Len(tls_map) < Len(tcb[u].dtv))
      BY SMTT(30), <1>11, <1>14
    <3> QED
      BY <1>1, <2>1, <3>1 DEF InDtv
  <2>2. CASE u = t /\ tcb'[u].dtv = A
    BY SMTT(30), <1>1, <1>15, <2>2 DEF InDtv, Raw
  <2> QED
    BY <1>16, <2>1, <2>2
<1>21. MarkInv'
  <2>1. \A p \in TlsObjs : p \notin Open' => p # o /\ p \notin Open /\ tls_obj'[p] = tls_obj[p]
    BY <1>1, <1>4
  <2>2. \A p \in TlsObjs : p \notin Open' => ~tls_obj'[p].initialized
    BY <2>1 DEF TlsInv, MarkInv
  <2>3. \A p \in StaticOpen : TlsRunning => tls_obj'[p].initialized
    BY <1>4, <1>6 DEF TlsInv, MarkInv
  <2>4. placed /\ TlsRunning => tls_obj'[o].initialized
    BY <1>1 DEF placed
  <2>5. ASSUME NEW p \in Open, ~Static(p), tls_obj[p].desc
        PROVE  InDtv(tls_obj[p].opener, p)'
    <3>1. tls_obj[p].opener \in TlsThreads /\ InDtv(tls_obj[p].opener, p)
      BY <1>4, <1>7, <2>5 DEF TlsInv, ObjectFields, MarkInv
    <3>2. PICK c \in TlsThreads : c = tls_obj[p].opener
      BY <3>1
    <3>3. InDtv(c, p)'
      BY <1>19, <3>1, <3>2
    <3>4. tls_obj'[p].opener = c
      BY <1>4, <3>2
    <3> QED
      BY <3>3, <3>4 DEF InDtv
  <2>6. ASSUME ~Static(o)', tls_obj[o].desc
        PROVE  InDtv(tls_obj[o].opener, o)'
    <3>1. TlsRunning /\ ~Static(o)
      BY <1>5, <2>6 DEF placed
    <3>2. InDtv(t, o)'
      BY <1>20, <2>6, <3>1
    <3> QED
      BY <1>1, <3>2 DEF InDtv
  <2> QED
    BY <1>1, <1>4, <1>5, <1>6, <1>10, <2>2, <2>3, <2>4, <2>5, <2>6 DEF MarkInv
<1>22. FreshInv'
  <2>1. ASSUME NEW u \in TlsThreads, NEW p \in TlsObjs
        PROVE  /\ tcb'[u].state = "none" => /\ tcb'[u].dtv = <<>> /\ tls_last[u][p] = 0
                                            /\ tcb'[u].block[p] = Raw
               /\ p \notin Open' => tls_last[u][p] = 0 /\ tcb'[u].block[p] = Raw
    <3>1. tcb'[u].state = "none" => tcb'[u] = tcb[u]
      BY <1>2, <1>3 DEF ThreadRuns
    <3>2. p \notin Open' => tcb'[u].block[p] = tcb[u].block[p]
      BY SMTT(30), <1>1, <1>3, <1>4 DEF Open
    <3> QED
      BY <1>4, <3>1, <3>2 DEF TlsInv, FreshInv
  <2>2. ~TlsRunning => \A u \in TlsThreads : tcb'[u].state = "none"
    BY <1>3 DEF TlsInv, FreshInv
  <2> QED
    BY <1>2, <1>10, <2>1, <2>2 DEF FreshInv
<1>23. \A u \in TlsThreads, p \in StaticOpen : tcb'[u].block[p] = tcb[u].block[p]
  <2>1. \A p \in StaticOpen : p \in TlsObjs /\ (TlsRunning => tls_obj[p].initialized)
    BY <1>4, <1>6 DEF TlsInv, MarkInv
  <2> QED
    BY <1>3, <2>1
<1>24. /\ TlsRunning /\ Static(o) => tcb'[t].block[o] = 0
       /\ \A u \in TlsThreads : u # t \/ ~TlsRunning => tcb'[u].block[o] = Raw
  <2>1. ~tls_obj[o].initialized /\ \A u \in TlsThreads : tcb[u].block[o] = Raw /\ tls_last[u][o] = 0
    BY <1>4 DEF TlsInv, MarkInv, FreshInv
  <2> QED
    BY SMTT(30), <1>1, <1>3, <2>1 DEF placed
<1>25. CopyInv'
  <2>1. ASSUME NEW u \in TlsThreads, NEW p \in Open
        PROVE  Copied(u, p)'
    <3>1. Copied(u, p)
      BY DEF TlsInv, CopyInv
    <3>2. Static(p)' <=> Static(p)
      BY <1>5
    <3>3. Static(p) => tcb'[u].block[p] = tcb[u].block[p]
      BY <1>23 DEF StaticOpen
    <3> QED
      BY <1>2, <1>19, <3>1, <3>2, <3>3 DEF Copied
  <2>2. ASSUME NEW u \in TlsThreads
        PROVE  Copied(u, o)'
    <3>1. tls_last'[u][o] = 0
      BY <1>2, <1>4 DEF TlsInv, FreshInv
    <3>2. Static(o)' /\ tcb'[u].block[o] # Raw => tcb'[u].block[o] = 0
      BY <1>5, <1>24 DEF placed
    <3> QED
      BY <1>20, <3>1, <3>2 DEF Copied
  <2> QED
    BY <1>4, <2>1, <2>2 DEF CopyInv
<1>26. ImageMissing'
  <2> SUFFICES ASSUME NEW u \in TlsThreads, NEW p \in StaticOpen',
                      tcb'[u].state = "running", tcb'[u].block[p] = Raw
               PROVE  ~tls_obj'[p].started /\ tls_obj'[p].opener # u
    BY DEF ImageMissing, ThreadRuns
  <2>1. CASE p \in StaticOpen
    <3>1. tcb[u].state = "running" /\ tcb[u].block[p] = Raw
      BY <1>3, <1>23, <2>1
    <3>2. tls_obj'[p] = tls_obj[p]
      BY <1>4, <1>6, <2>1
    <3>3. ~tls_obj[p].started /\ tls_obj[p].opener # u
      BY <2>1, <3>1 DEF TlsInv, ImageMissing, ThreadRuns
    <3> QED
      BY <3>2, <3>3
  <2>2. CASE p = o /\ placed
    <3>1. TlsRunning
      BY <1>3 DEF TlsInv, FreshInv
    <3>2. Static(o)
      BY <2>2, <3>1 DEF placed
    <3>3. u # t
      BY SMTT(30), <1>24, <2>2, <3>1, <3>2 DEF Raw
    <3> QED
      BY <1>1, <2>2, <3>1, <3>3
  <2> QED
    BY <1>6, <2>1, <2>2
<1>27. FaultInv'
  BY <1>2, <1>4 DEF TlsInv, FaultInv
<1> QED
  BY <1>12, <1>13, <1>18, <1>21, <1>22, <1>25, <1>26, <1>27 DEF TlsInv

(* The invariant holds at first. *)
LEMMA InitHolds == TlsInit => TlsInv
<1> SUFFICES ASSUME TlsInit
             PROVE  TlsInv
  OBVIOUS
<1>1. PICK static \in SUBSET TlsObjs, desc \in SUBSET TlsObjs :
        tls_obj = [o \in TlsObjs |->
          [size |-> TlsShape[o][1], align |-> TlsShape[o][2],
           initial |-> o \in static, desc |-> o \in desc, state |-> "file",
           offset |-> 0, index |-> 0, initialized |-> FALSE,
           opener |-> TlsMain, started |-> FALSE]]
  BY DEF TlsInit
<1>2. ASSUME NEW o \in TlsObjs
      PROVE  tls_obj[o] \in ObjectFields /\ tls_obj[o].state = "file" /\ ~tls_obj[o].initialized
  <2>1. ASSUME NEW a \in Nat \ {0}, NEW b \in Nat \ {0}, NEW c \in BOOLEAN, NEW d \in BOOLEAN,
               NEW f \in BOOLEAN, NEW m \in TlsThreads
        PROVE  [size |-> a, align |-> b, initial |-> c, desc |-> d, state |-> "file",
                offset |-> 0, index |-> 0, initialized |-> f, opener |-> m, started |-> f]
               \in ObjectFields
    BY DEF ObjectFields
  <2>2. /\ TlsShape[o][1] \in Nat \ {0} /\ TlsShape[o][2] \in Nat \ {0} /\ TlsMain \in TlsThreads
    BY ShapeAssumption, MainAssumption
  <2>3. (o \in static) \in BOOLEAN /\ (o \in desc) \in BOOLEAN /\ FALSE \in BOOLEAN
    BY SMTT(30)
  <2>4. [size |-> TlsShape[o][1], align |-> TlsShape[o][2],
         initial |-> o \in static, desc |-> o \in desc, state |-> "file",
         offset |-> 0, index |-> 0, initialized |-> FALSE,
         opener |-> TlsMain, started |-> FALSE] \in ObjectFields
    BY <2>1, <2>2, <2>3
  <2>5. tls_obj[o] = [size |-> TlsShape[o][1], align |-> TlsShape[o][2],
          initial |-> o \in static, desc |-> o \in desc, state |-> "file",
          offset |-> 0, index |-> 0, initialized |-> FALSE,
          opener |-> TlsMain, started |-> FALSE]
    BY <1>1
  <2>6. tls_obj[o].state = "file" /\ tls_obj[o].initialized = FALSE
    <3> DEFINE c == o \in static
               d == o \in desc
               f == FALSE
               r == [size |-> TlsShape[o][1], align |-> TlsShape[o][2], initial |-> c, desc |-> d,
                     state |-> "file", offset |-> 0, index |-> 0, initialized |-> f,
                     opener |-> TlsMain, started |-> f]
    <3>1. tls_obj[o] = r
      BY <2>5
    <3> HIDE DEF c, d, f
    <3>2. r.state = "file" /\ r.initialized = f
      OBVIOUS
    <3> HIDE DEF r
    <3> QED
      BY <3>1, <3>2 DEF f
  <2> QED
    BY <2>4, <2>5, <2>6
<1>3. tls_obj \in [TlsObjs -> ObjectFields]
  <2>1. tls_obj = [o \in TlsObjs |-> tls_obj[o]]
    BY <1>1
  <2> QED
    BY <1>2, <2>1
<1>4. Open = {} /\ StaticOpen = {}
  BY <1>2 DEF Open, StaticOpen
<1>5. /\ tls_map = <<>> /\ tls_size = [initial |-> ExeTls, total |-> 0]
      /\ tcb = [t \in TlsThreads |-> [state |-> "none", dtv |-> <<>>,
                                      block |-> [o \in TlsObjs |-> Raw]]]
      /\ tls_last = [t \in TlsThreads |-> [o \in TlsObjs |-> 0]]
      /\ tls_twice = {} /\ tls_fault = {}
  BY DEF TlsInit
<1>6. tcb \in [TlsThreads -> TcbFields] /\ tls_last \in [TlsThreads -> [TlsObjs -> 0..1]]
  BY SMTT(30), <1>5 DEF TcbFields, Raw
<1>7. TlsTypeOK
  BY SMTT(30), <1>3, <1>5, <1>6 DEF TlsTypeOK, ExeTls
<1>8. BlockInv /\ FaultInv /\ CopyInv /\ ImageMissing
  BY SMTT(30), <1>4, <1>5 DEF BlockInv, FaultInv, CopyInv, ImageMissing, TlsRunning, ExeTls
<1>9. IndexInv /\ FreshInv
  BY SMTT(30), <1>4, <1>5 DEF IndexInv, FreshInv
<1>10. MarkInv
  BY <1>2, <1>4 DEF MarkInv
<1> QED
  BY <1>7, <1>8, <1>9, <1>10 DEF TlsInv

(* The invariant gives what the run checks. *)
LEMMA InvImplies == TlsInv => StorageIsOwn
<1> SUFFICES ASSUME TlsInv
             PROVE  StorageIsOwn
  OBVIOUS
<1>1. StaticDisjoint
  <2> SUFFICES ASSUME NEW o \in StaticOpen
               PROVE  /\ Bytes(o) \cap 1..ExeTls = {}
                      /\ TlsRunning => tls_obj[o].offset <= tls_size.total
                      /\ tls_obj[o].offset % tls_obj[o].align = 0
                      /\ \A p \in StaticOpen \ {o} : Bytes(o) \cap Bytes(p) = {}
    BY DEF StaticDisjoint
  <2>1. \A p \in StaticOpen : /\ tls_obj[p].offset \in Nat /\ tls_obj[p].size \in Nat \ {0}
                              /\ Bytes(p) = (tls_obj[p].offset - tls_obj[p].size + 1)..tls_obj[p].offset
    BY DEF TlsInv, TlsTypeOK, ObjectFields, StaticOpen, Open, Bytes
  <2>2. Placed(o) /\ tls_size.initial \in Nat /\ tls_size.total \in Nat
    BY DEF TlsInv, BlockInv, TlsTypeOK
  <2>3. Bytes(o) \cap 1..ExeTls = {}
    BY SMTT(30), <2>1, <2>2 DEF Placed, ExeTls
  <2>4. TlsRunning => tls_obj[o].offset <= tls_size.total
    BY SMTT(30), <2>1, <2>2 DEF TlsInv, BlockInv, Placed
  <2>5. \A p \in StaticOpen \ {o} : Bytes(o) \cap Bytes(p) = {}
    <3> TAKE p \in StaticOpen \ {o}
    <3>1. Apart(o, p)
      BY DEF TlsInv, BlockInv
    <3>2. \A x \in Bytes(o) : x \notin Bytes(p)
      <4> TAKE x \in Bytes(o)
      <4>1. /\ x \in Int /\ x <= tls_obj[o].offset /\ x > tls_obj[o].offset - tls_obj[o].size
            /\ tls_obj[o].offset \in Nat /\ tls_obj[o].size \in Nat
            /\ tls_obj[p].offset \in Nat /\ tls_obj[p].size \in Nat
        BY SMTT(30), <2>1
      <4>2. x > tls_obj[p].offset \/ x <= tls_obj[p].offset - tls_obj[p].size
        BY SMTT(30), <3>1, <4>1 DEF Apart
      <4> QED
        BY SMTT(30), <2>1, <4>1, <4>2
    <3> QED
      BY <3>2
  <2> QED
    BY <2>2, <2>3, <2>4, <2>5 DEF Placed
<1>2. IndexIsOwn
  BY DEF TlsInv, IndexInv, IndexIsOwn
<1>3. SeesOwnWrites
  BY DEF TlsInv, CopyInv, Copied, SeesOwnWrites
<1>4. ImageMissing /\ DescFaults
  BY DEF TlsInv, FaultInv, DescFaults
<1> QED
  BY <1>1, <1>2, <1>3, <1>4 DEF StorageIsOwn

(* A thread's storage is its own, for any number of threads and objects,   *)
(* any sizes, alignments and reserve and any order of loads, failed loads, *)
(* thread starts and accesses of tls.cpp and object.cpp: below the thread  *)
(* pointer no two objects overlap, no two share an entry of the dtv, a     *)
(* thread reads what it wrote, and an image or an entry is missing only in *)
(* a thread other than the object's opener.                                *)
THEOREM StorageSafe == TlsSpec => []StorageIsOwn
<1>1. TlsInit => TlsInv
  BY InitHolds
<1>2. TlsInv /\ [TlsNext]_tlsVars => TlsInv'
  <2> SUFFICES ASSUME TlsInv, [TlsNext]_tlsVars
               PROVE  TlsInv'
    OBVIOUS
  <2>1. CASE TlsNext
    BY <2>1, StartKeeps, ThreadKeeps, EndsKeeps, LoadKeeps, LoadFailsKeeps, GetAddrKeeps,
       ByOffsetKeeps, ByDescKeeps DEF TlsNext
  <2>2. CASE UNCHANGED tlsVars
    <3>0. /\ tls_obj' = tls_obj /\ tls_map' = tls_map /\ tls_size' = tls_size
          /\ tcb' = tcb /\ tls_last' = tls_last
          /\ tls_twice' = tls_twice /\ tls_fault' = tls_fault
      BY <2>2 DEF tlsVars
    <3>1. TlsTypeOK'
      BY <3>0 DEF TlsInv, TlsTypeOK
    <3>2. BlockInv'
      BY <3>0 DEF TlsInv, BlockInv, Placed, Apart, StaticOpen, Open, Static, TlsRunning
    <3>3. IndexInv'
      BY <3>0 DEF TlsInv, IndexInv, Open
    <3>4. MarkInv'
      BY <3>0 DEF TlsInv, MarkInv, StaticOpen, Open, Static, TlsRunning, InDtv
    <3>5. FreshInv'
      BY <3>0 DEF TlsInv, FreshInv, Open, TlsRunning
    <3>6. CopyInv'
      BY <3>0
         DEF TlsInv, CopyInv, Copied, Open, Static, StaticOpen, ThreadRuns, InDtv, TlsRunning
    <3>7. ImageMissing'
      BY <3>0 DEF TlsInv, ImageMissing, StaticOpen, Open, Static, ThreadRuns
    <3>8. FaultInv'
      BY <3>0 DEF TlsInv, FaultInv, Open, Static, StaticOpen, InDtv, ThreadRuns
    <3> QED
      BY <3>1, <3>2, <3>3, <3>4, <3>5, <3>6, <3>7, <3>8 DEF TlsInv
  <2> QED
    BY <2>1, <2>2
<1>3. TlsInv => StorageIsOwn
  BY InvImplies
<1> QED
  BY <1>1, <1>2, <1>3, PTL DEF TlsSpec
=============================================================================
